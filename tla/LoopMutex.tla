------------------------------ MODULE LoopMutex ------------------------------
(***************************************************************************)
(* loop.Mutex of src/loop/sync.odin: the lock a fiber may hold across a     *)
(* wait.  An unlock frees it and wakes the first waiter, which takes it if  *)
(* it is still free when it runs and otherwise queues again, at the head.   *)
(* Everything between mutex_lock(&m.mu) and its unlock is one action.       *)
(***************************************************************************)
EXTENDS Naturals, Sequences, FiniteSets, Functions, SequencesExt

CONSTANT LockFibers  (* the fibers that lock                               *)

ASSUME LockFibersFinite == IsFiniteSet(LockFibers)

VARIABLES
  locked,   (* Mutex.locked                                                *)
  queue,    (* Mutex.waiters, the head first                               *)
  doing,    (* each fiber: "out", "queued", "woken" or "held"              *)
  arrived   (* history: the fibers that queued and have not had the lock   *)
            (* since, in order of arrival                                  *)

mutexVars == <<locked, queue, doing, arrived>>

MutexInit ==
  /\ locked = FALSE
  /\ queue = <<>>
  /\ doing = [f \in LockFibers |-> "out"]
  /\ arrived = <<>>

-----------------------------------------------------------------------------
(* Slips the code could have had are named for what they get wrong.         *)

LockFast(f) ==
  /\ doing[f] = "out" /\ ~locked
  /\ locked' = TRUE
  /\ doing' = [doing EXCEPT ![f] = "held"]
  /\ UNCHANGED <<queue, arrived>>

LockQueue(f) ==
  /\ doing[f] = "out" /\ locked
  /\ queue' = Append(queue, f)
  /\ doing' = [doing EXCEPT ![f] = "queued"]
  /\ arrived' = Append(arrived, f)
  /\ UNCHANGED locked

(* A woken waiter that finds the lock free.                                 *)
Takes(f) ==
  /\ doing[f] = "woken" /\ ~locked
  /\ locked' = TRUE
  /\ doing' = [doing EXCEPT ![f] = "held"]
  /\ arrived' = RemoveAt(arrived, CHOOSE i \in DOMAIN arrived : arrived[i] = f)
  /\ UNCHANGED queue

(* One that finds it taken by somebody who was not queued: first in line.   *)
Requeues(f) ==
  /\ doing[f] = "woken" /\ locked
  /\ queue' = <<f>> \o queue
  /\ doing' = [doing EXCEPT ![f] = "queued"]
  /\ UNCHANGED <<locked, arrived>>

UnlockSilent(f) ==
  /\ doing[f] = "held"
  /\ locked' = FALSE
  /\ doing' = [doing EXCEPT ![f] = "out"]
  /\ UNCHANGED <<queue, arrived>>

UnlockWakesNewest(f) ==
  /\ doing[f] = "held"
  /\ locked' = FALSE
  /\ IF queue = <<>>
       THEN doing' = [doing EXCEPT ![f] = "out"] /\ UNCHANGED queue
       ELSE /\ doing' = [doing EXCEPT ![f] = "out", ![Last(queue)] = "woken"]
            /\ queue' = Front(queue)
  /\ UNCHANGED arrived

Unlock(f) ==
  /\ doing[f] = "held"
  /\ locked' = FALSE
  /\ IF queue = <<>>
       THEN doing' = [doing EXCEPT ![f] = "out"] /\ UNCHANGED queue
       ELSE /\ doing' = [doing EXCEPT ![f] = "out", ![Head(queue)] = "woken"]
            /\ queue' = Tail(queue)
  /\ UNCHANGED arrived

-----------------------------------------------------------------------------
Runs(f) == Takes(f) \/ Requeues(f)
Lock(f) == LockFast(f) \/ LockQueue(f)

MutexNext == \E f \in LockFibers : Lock(f) \/ Runs(f) \/ Unlock(f)

MutexSpec == MutexInit /\ [][MutexNext]_mutexVars

(* A woken fiber is run and a holder lets go.                               *)
MutexFairness == \A f \in LockFibers : WF_mutexVars(Runs(f)) /\ WF_mutexVars(Unlock(f))

MutexFairSpec == MutexSpec /\ MutexFairness

-----------------------------------------------------------------------------
(* Every variable stays in its range, and a fiber is on the list once at    *)
(* most.                                                                    *)
MutexTypeOK ==
  /\ locked \in BOOLEAN
  /\ queue \in Seq(LockFibers) /\ IsInjective(queue)
  /\ doing \in [LockFibers -> {"out", "queued", "woken", "held"}]
  /\ arrived \in Seq(LockFibers)

(* At most one fiber holds the lock, although an unlock hands it to nobody  *)
(* and a woken waiter competes with whoever arrives meanwhile.              *)
OneHolder ==
  Cardinality({f \in LockFibers : doing[f] = "held"}) = IF locked THEN 1 ELSE 0

(* No wake-up is lost: while the lock is free and somebody waits, a woken   *)
(* fiber is on its way to take it, and a fiber that parked is on the list   *)
(* an unlock pops.                                                          *)
WakeOnItsWay ==
  /\ ~locked /\ queue # <<>> => \E f \in LockFibers : doing[f] = "woken"
  /\ \A f \in LockFibers : doing[f] = "queued" <=> f \in Range(queue)

(* The lock has one holder at most, and whoever waits for it is woken.      *)
NoLostWake == MutexTypeOK /\ OneHolder /\ WakeOnItsWay

(* "the waiters are served in turn": of the fibers that had to queue, the   *)
(* one that takes the lock is the one that queued first.                    *)
ServedInTurn ==
  [][\A f \in LockFibers :
       doing[f] = "woken" /\ doing'[f] = "held" => f = Head(arrived)]_mutexVars

-----------------------------------------------------------------------------
(* The lock as its callers see it: one that is only ever taken for writing. *)
Held == INSTANCE RwLock WITH
  Users <- LockFibers,
  reading <- {},
  owning <- {f \in LockFibers : doing[f] = "held"}

(* lock and unlock, with the queue, the wake-ups and the second tries,      *)
(* implement a lock whose operations take one step each.                    *)
MutexImplemented == Held!RwSpec
=============================================================================
