------------------------------- MODULE BrLock -------------------------------
(***************************************************************************)
(* The striped reader-writer lock of src/brlock/brlock.odin: a reader       *)
(* counts itself in on the stripe of its own thread and then looks at       *)
(* `writing`; a writer raises `writing` and then waits for every stripe to  *)
(* drain.  Every atomic operation of the code is one action, since the      *)
(* argument for the lock is about the order of those operations.            *)
(***************************************************************************)
EXTENDS Naturals, FiniteSets

CONSTANTS
  Threads,  (* the threads that use the lock                              *)
  STRIPES,  (* how many stripes there are; threads past them share        *)
  NoThread  (* nobody                                                     *)

ASSUME ThreadsFinite == IsFiniteSet(Threads)
ASSUME StripesPositive == STRIPES \in Nat \ {0}

ASSUME NoThreadIsNone == NoThread \notin Threads

Stripes == 0 .. STRIPES - 1

VARIABLES
  assigned,  (* stripes handed out so far                                  *)
  mine,      (* each thread's stripe plus one, 0 before its first use      *)
  readers,   (* the count on each stripe                                   *)
  writing,   (* raised by a writer                                         *)
  writers,   (* the writer holding the mutex, or NoThread                  *)
  pc,        (* where each thread is                                       *)
  next       (* the stripe a writer waits to see at zero                   *)

vars == <<assigned, mine, readers, writing, writers, pc, next>>

(***************************************************************************)
(* A reader is counted from its atomic_add to its atomic_sub; "inside" is   *)
(* the protected region of a reader, "writing" that of a writer.            *)
(***************************************************************************)
Counted == {"check", "inside", "back"}
Locations == Counted \cup
  {"idle", "enter", "spin", "raise", "scan", "writing", "lowered"}

Goto(t, from, to) ==
  /\ pc[t] = from
  /\ pc' = [pc EXCEPT ![t] = to]

Init ==
  /\ assigned = 0
  /\ mine = [t \in Threads |-> 0]
  /\ readers = [s \in Stripes |-> 0]
  /\ writing = FALSE
  /\ writers = NoThread
  /\ pc = [t \in Threads |-> "idle"]
  /\ next = [t \in Threads |-> 0]

-----------------------------------------------------------------------------
(* The operators whose names say what they get wrong (Blind, Twice, ...)    *)
(* are slips the code could have had; no behaviour of Spec uses them.       *)

(* stripe: the thread's own, handed out in order of first use.              *)
Stripe(t) ==
  /\ pc[t] = "idle"
  /\ mine[t] = 0
  /\ mine' = [mine EXCEPT ![t] = (assigned % STRIPES) + 1]
  /\ assigned' = assigned + 1
  /\ UNCHANGED <<readers, writing, writers, pc, next>>

(* read_lock, one action per atomic operation.                              *)
ReadLock(t) ==
  /\ mine[t] # 0
  /\ Goto(t, "idle", "enter")
  /\ UNCHANGED <<assigned, mine, readers, writing, writers, next>>

CountIn(t) ==
  /\ Goto(t, "enter", "check")
  /\ readers' = [readers EXCEPT ![mine[t] - 1] = @ + 1]
  /\ UNCHANGED <<assigned, mine, writing, writers, next>>

CheckWritingBlind(t) ==
  /\ Goto(t, "check", "inside")
  /\ UNCHANGED <<assigned, mine, readers, writing, writers, next>>

CheckWriting(t) ==
  /\ Goto(t, "check", IF writing THEN "back" ELSE "inside")
  /\ UNCHANGED <<assigned, mine, readers, writing, writers, next>>

StepBack(t) ==
  /\ Goto(t, "back", "spin")
  /\ readers' = [readers EXCEPT ![mine[t] - 1] = @ - 1]
  /\ UNCHANGED <<assigned, mine, writing, writers, next>>

SpinReader(t) ==
  /\ ~writing
  /\ Goto(t, "spin", "enter")
  /\ UNCHANGED <<assigned, mine, readers, writing, writers, next>>

ReadUnlock(t) ==
  /\ Goto(t, "inside", "idle")
  /\ readers' = [readers EXCEPT ![mine[t] - 1] = @ - 1]
  /\ UNCHANGED <<assigned, mine, writing, writers, next>>

-----------------------------------------------------------------------------
(* write_lock and write_unlock.                                             *)
WriteLock(t) ==
  /\ writers = NoThread
  /\ Goto(t, "idle", "raise")
  /\ writers' = t
  /\ UNCHANGED <<assigned, mine, readers, writing, next>>

Raise(t) ==
  /\ Goto(t, "raise", "scan")
  /\ writing' = TRUE
  /\ next' = [next EXCEPT ![t] = 0]
  /\ UNCHANGED <<assigned, mine, readers, writers>>

(* One stripe seen at zero; past the last of them the writer is in.         *)
ScanStripe(t) ==
  /\ pc[t] = "scan"
  /\ readers[next[t]] = 0
  /\ next' = [next EXCEPT ![t] = @ + 1]
  /\ pc' = [pc EXCEPT ![t] = IF next[t] + 1 = STRIPES THEN "writing" ELSE "scan"]
  /\ UNCHANGED <<assigned, mine, readers, writing, writers>>

WriteUnlock(t) ==
  /\ Goto(t, "writing", "lowered")
  /\ writing' = FALSE
  /\ UNCHANGED <<assigned, mine, readers, writers, next>>

ReleaseWriters(t) ==
  /\ Goto(t, "lowered", "idle")
  /\ writers' = NoThread
  /\ UNCHANGED <<assigned, mine, readers, writing, next>>

-----------------------------------------------------------------------------
Reader(t) ==
  \/ CountIn(t) \/ CheckWriting(t) \/ StepBack(t)
  \/ SpinReader(t) \/ ReadUnlock(t)

Writer(t) ==
  \/ Raise(t) \/ ScanStripe(t) \/ WriteUnlock(t) \/ ReleaseWriters(t)

Next ==
  \E t \in Threads :
    Stripe(t) \/ ReadLock(t) \/ WriteLock(t) \/ Reader(t) \/ Writer(t)

Spec == Init /\ [][Next]_vars

(* A thread inside either procedure, or between lock and unlock, runs on:    *)
(* the code waits on nothing there but the other side.  Whether a thread    *)
(* asks for the lock at all is its own affair.                              *)
Fairness == \A t \in Threads : WF_vars(Reader(t)) /\ WF_vars(Writer(t))

FairSpec == Spec /\ Fairness

-----------------------------------------------------------------------------
(* Every variable stays in its range.                                       *)
TypeOK ==
  /\ assigned \in Nat
  /\ mine \in [Threads -> 0 .. STRIPES]
  /\ readers \in [Stripes -> Nat]
  /\ writing \in BOOLEAN
  /\ writers \in Threads \cup {NoThread}
  /\ pc \in [Threads -> Locations]
  /\ next \in [Threads -> 0 .. STRIPES]

(* The threads counted in on stripe s.                                      *)
On(s) == {t \in Threads : pc[t] \in Counted /\ mine[t] = s + 1}

(* A writer that read_lock's retry and write_lock's scan let in shares the   *)
(* protected region with nobody: no reader is inside on any stripe and no   *)
(* other writer is.                                                         *)
Exclusion ==
  \A w \in Threads :
    pc[w] = "writing" => \A t \in Threads \ {w} : pc[t] \notin {"inside", "writing"}

(* The count on a stripe is the number of threads counted in on it, so      *)
(* every atomic_add of read_lock is taken back by exactly one atomic_sub    *)
(* of the step back or of read_unlock, on the same stripe.                  *)
CountsExact == \A s \in Stripes : readers[s] = Cardinality(On(s))

(* read_lock, write_lock and their unlocks together: the protected region   *)
(* is exclusive and the counts it rests on are exact.                       *)
LockSound == Exclusion /\ CountsExact

-----------------------------------------------------------------------------
(* The lock as its callers see it: the stripes, the counts, the retries and *)
(* the scan are between two steps of RwLock.                                *)
Rw == INSTANCE RwLock WITH
  Users <- Threads,
  reading <- {t \in Threads : pc[t] = "inside"},
  owning <- {t \in Threads : pc[t] = "writing"}

(* read_lock, write_lock and their unlocks, every atomic operation of them, *)
(* implement a lock whose operations take one step each.                    *)
LockImplemented == Rw!RwSpec
=============================================================================
