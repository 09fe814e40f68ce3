---------------------------- MODULE RefreshProofs ----------------------------
(***************************************************************************)
(* A refresh is held, freed and answered right whatever the number of       *)
(* clients, keys and refreshes and the bounds: proofs about module Refresh. *)
(***************************************************************************)
EXTENDS Refresh, FiniteSetTheorems, TLAPS

(* Before the job is handed its reference, a client has all three of them;  *)
(* until it is refused, the slot too.                                       *)
Owning == {"submitting", "prefetching", "undoing"}
Submitting == {"submitting", "prefetching"}

Held(x) == \E c \in Clients : holds[c] = x
Owned(x) == \E c \in Clients : holds[c] = x /\ client[c] \in Owning

(* A client holds a refresh exactly while it is at it, and a refresh has    *)
(* one client at most.                                                      *)
Holding ==
  /\ \A c \in Clients : holds[c] = None <=> client[c] = "out"
  /\ \A c, d \in Clients : holds[c] = holds[d] /\ holds[c] # None => c = d

(* The table names the refreshes about to be handed over or being resolved, *)
(* each for a key; one that is owned has no job yet.                        *)
Slotted ==
  /\ \A c \in Clients : client[c] \in Owning => job[holds[c]] = "none"
  /\ \A x \in Refreshes :
       x \in table <=> \/ job[x] \in {"resolving", "resolved"}
                       \/ \E c \in Clients : holds[c] = x /\ client[c] \in Submitting
  /\ \A x \in table : r[x].key \in Keys
  /\ \A x, y \in table : r[x].key = r[y].key => x = y

(* RefsAreHolders, with the one client there may be in place of a count.    *)
RefCounts ==
  \A x \in Refreshes :
    r[x].refs = IF Owned(x) THEN 3 ELSE (IF Held(x) THEN 1 ELSE 0) + TableRef(x) + JobRef(x)

(* The job marks the refresh done once its result stands, and posts once,   *)
(* after that.                                                              *)
Published ==
  \A x \in Refreshes :
    /\ r[x].done => job[x] \in {"done", "posted", "ending", "none"} /\ ~Owned(x)
    /\ job[x] \in {"done", "posted"} => r[x].done
    /\ r[x].permits > 0 => r[x].done /\ job[x] \in {"posted", "ending", "none"}

(* A client reads the result of a refresh that is done.                     *)
Served ==
  /\ \A c \in Clients : client[c] = "reading" => r[holds[c]].done
  /\ StaleOnlyForCause

(* The queries in flight are the others and the jobs.                       *)
Jobs == {x \in Refreshes : job[x] # "none"}
PendingExact == pending = others + Cardinality(Jobs)

RefreshInv ==
  /\ RefreshTypeOK /\ Holding /\ Slotted /\ RefCounts /\ Published /\ Served
  /\ Cardinality(table) <= Ceiling
  /\ PendingExact

States == [key : Keys \cup {None}, refs : 0 .. 3, done : BOOLEAN,
           result : {"none", "answer"}, permits : 0 .. 1]

-----------------------------------------------------------------------------
(* What is counted is finite.                                               *)
LEMMA JobsFinite ==
  /\ IsFiniteSet(Jobs) /\ Cardinality(Jobs) \in Nat
  /\ IsFiniteSet(Jobs') /\ Cardinality(Jobs') \in Nat
<1>1. Jobs \in SUBSET Refreshes /\ Jobs' \in SUBSET Refreshes
  BY DEF Jobs
<1>2. IsFiniteSet(Jobs) /\ IsFiniteSet(Jobs')
  BY <1>1, RefreshesFinite, FS_Subset
<1> QED
  BY <1>2, FS_CardinalityType

LEMMA TableFinite ==
  ASSUME RefreshTypeOK
  PROVE  IsFiniteSet(table) /\ Cardinality(table) \in Nat
<1>1. IsFiniteSet(table)
  BY RefreshesFinite, FS_Subset DEF RefreshTypeOK
<1> QED
  BY <1>1, FS_CardinalityType

(* A step that gives no refresh a job, and ends none, keeps the count.      *)
LEMMA PendingKept ==
  ASSUME RefreshInv, UNCHANGED <<pending, others>>,
         \A x \in Refreshes : job'[x] = "none" <=> job[x] = "none"
  PROVE  PendingExact'
<1>1. Jobs' = Jobs
  BY DEF Jobs
<1> QED
  BY <1>1 DEF RefreshInv, PendingExact

LEMMA RefreshInitInv == RefreshInit => RefreshInv
<1> SUFFICES ASSUME RefreshInit PROVE RefreshInv
  OBVIOUS
<1>1. RefreshTypeOK
  <2>1. 0 \in 0 .. 3 /\ 0 \in 0 .. 1 /\ 0 \in 0 .. MaxOthers
    BY RefreshBounds
  <2> QED
    BY <2>1 DEF RefreshInit, RefreshTypeOK, Gone
<1>2. Holding /\ Slotted /\ Published /\ Served
  BY NoneIsNone DEF RefreshInit, Holding, Slotted, Published, Served, StaleOnlyForCause, Gone, Owned, Owning
<1>3. RefCounts
  <2>1. \A x \in Refreshes : ~Owned(x) /\ ~Held(x) /\ TableRef(x) = 0 /\ JobRef(x) = 0
    BY NoneIsNone DEF RefreshInit, Owned, Held, TableRef, JobRef
  <2>2. \A x \in Refreshes : r[x].refs = 0
    BY DEF RefreshInit, Gone
  <2> QED
    BY <2>1, <2>2 DEF RefCounts
<1>4. Jobs = {}
  BY DEF RefreshInit, Jobs
<1>5. Cardinality(table) <= Ceiling /\ PendingExact
  BY <1>4, FS_EmptySet, RefreshBounds DEF RefreshInit, PendingExact
<1> QED
  BY <1>1, <1>2, <1>3, <1>5 DEF RefreshInv

LEMMA StartRefreshInv ==
  ASSUME RefreshInv, NEW c \in Clients, NEW k \in Keys, NEW prefetch \in BOOLEAN,
         StartRefresh(c, k, prefetch)
  PROVE  RefreshInv'
<1> DEFINE new == [Gone EXCEPT !.key = k, !.refs = 3]
<1>0. PICK x \in Idle : x = CHOOSE y \in Idle : TRUE
  BY DEF StartRefresh
<1>1. /\ client[c] = "out" /\ ~Running(k) /\ Cardinality(table) < Ceiling
      /\ r' = [r EXCEPT ![x] = new] /\ table' = table \cup {x}
      /\ holds' = [holds EXCEPT ![c] = x]
      /\ client' = [client EXCEPT ![c] = IF prefetch THEN "prefetching" ELSE "submitting"]
      /\ UNCHANGED <<job, fired, pending, others, stopped>>
  BY <1>0 DEF StartRefresh
<1>2. /\ new.key = k /\ new.refs = 3 /\ new.done = FALSE /\ new.permits = 0 /\ new \in States
  <2>1. 0 \in 0 .. 1 /\ 3 \in 0 .. 3
    OBVIOUS
  <2> QED
    BY <2>1 DEF Gone, States
<1> HIDE DEF new
<1>3. x \in Refreshes /\ r[x].refs = 0 /\ job[x] = "none" /\ x \notin table /\ x # None
  BY NoneIsNone DEF Idle
<1>4. ~Held(x)
  <2>1. r[x].refs = IF Owned(x) THEN 3 ELSE (IF Held(x) THEN 1 ELSE 0) + 0 + 0
    BY <1>3 DEF RefreshInv, RefCounts, TableRef, JobRef
  <2> QED
    BY <1>3, <2>1
<1>5. /\ \A y \in Refreshes : r'[y] = IF y = x THEN new ELSE r[y]
      /\ \A d \in Clients : holds'[d] = IF d = c THEN x ELSE holds[d]
      /\ client'[c] \in Submitting
      /\ \A d \in Clients \ {c} : client'[d] = client[d]
  BY <1>1 DEF RefreshInv, RefreshTypeOK, Submitting
<1>6. RefreshTypeOK'
  BY <1>1, <1>2, <1>3 DEF RefreshInv, RefreshTypeOK, States
<1>7. Holding'
  BY <1>1, <1>3, <1>4, <1>5 DEF RefreshInv, Holding, Held, Submitting
<1>8. Slotted'
  BY <1>1, <1>2, <1>3, <1>4, <1>5 DEF RefreshInv, Slotted, Held, Running, Submitting, Owning
<1>9. Owned(x)' /\ \A y \in Refreshes \ {x} : (Owned(y)' <=> Owned(y)) /\ (Held(y)' <=> Held(y))
  <2>1. Owned(x)'
    BY <1>3, <1>5 DEF Owned, Owning, Submitting
  <2>2. \A y \in Refreshes, d \in Clients : y # x =>
          /\ holds'[d] = y <=> holds[d] = y
          /\ holds[d] = y => client'[d] = client[d]
    BY <1>1, <1>5, NoneIsNone DEF RefreshInv, Holding
  <2> QED
    BY <2>1, <2>2 DEF Owned, Held
<1>10. RefCounts'
  <2>1. \A y \in Refreshes \ {x} : TableRef(y)' = TableRef(y) /\ JobRef(y)' = JobRef(y)
    BY <1>1 DEF TableRef, JobRef
  <2> QED
    BY <1>2, <1>5, <1>9, <2>1 DEF RefreshInv, RefCounts
<1>11. Published'
  BY <1>1, <1>2, <1>3, <1>5, <1>9 DEF RefreshInv, Published
<1>12. Served'
  BY <1>1, <1>4, <1>5 DEF RefreshInv, Served, StaleOnlyForCause, Held, Submitting
<1>13. Cardinality(table') <= Ceiling
  <2>1. Cardinality(table') = Cardinality(table) + 1 /\ Cardinality(table) \in Nat
    BY <1>1, <1>3, TableFinite, FS_AddElement DEF RefreshInv
  <2> QED
    BY <1>1, <2>1, RefreshBounds
<1>14. PendingExact'
  BY <1>1, PendingKept
<1> QED
  BY <1>6, <1>7, <1>8, <1>10, <1>11, <1>12, <1>13, <1>14 DEF RefreshInv

-----------------------------------------------------------------------------
(* What dropping n references leaves.                                       *)
LEMMA ReleasedFields ==
  ASSUME RefreshTypeOK, NEW x \in Refreshes, NEW n \in 1 .. 3, r[x].refs >= n, r' = Released(x, n)
  PROVE  /\ r' \in [Refreshes -> States]
         /\ \A y \in Refreshes \ {x} : r'[y] = r[y]
         /\ r'[x].refs = r[x].refs - n
         /\ r[x].refs = n => ~r'[x].done /\ r'[x].permits = 0
         /\ r[x].refs # n => /\ r'[x].key = r[x].key /\ r'[x].done = r[x].done
                             /\ r'[x].result = r[x].result /\ r'[x].permits = r[x].permits
<1>1. r[x] \in States /\ r \in [Refreshes -> States]
  BY DEF RefreshTypeOK, States
<1>2. r[x].refs - n \in 0 .. 3 /\ r[x].refs \in 0 .. 3 /\ 0 \in 0 .. 3 /\ 0 \in 0 .. 1
  BY <1>1 DEF States
<1>3. CASE r[x].refs = n
  <2>1. r' = [r EXCEPT ![x] = Gone]
    BY <1>3 DEF Released
  <2>2. Gone \in States
    BY <1>2 DEF Gone, States
  <2>3. Gone.refs = 0 /\ ~Gone.done /\ Gone.permits = 0
    BY DEF Gone
  <2> QED
    BY <1>1, <1>2, <1>3, <2>1, <2>2, <2>3
<1>4. CASE r[x].refs # n
  <2> DEFINE new == [r[x] EXCEPT !.refs = @ - n]
  <2>1. r' = [r EXCEPT ![x] = new]
    BY <1>4 DEF Released
  <2>2. /\ new \in States /\ new.refs = r[x].refs - n /\ new.key = r[x].key /\ new.done = r[x].done
        /\ new.result = r[x].result /\ new.permits = r[x].permits
    BY <1>1, <1>2 DEF States
  <2> HIDE DEF new
  <2> QED
    BY <1>1, <1>4, <2>1, <2>2
<1> QED
  BY <1>3, <1>4

(* A client on its way through refresh_take changes nothing of its refresh. *)
LEMMA MovesInv ==
  ASSUME RefreshInv, NEW c \in Clients, NEW to \in {"sleeping", "reading", "leaving", "stale"},
         client[c] \in {"checking", "sleeping", "reading"},
         client' = [client EXCEPT ![c] = to],
         fired' \in SUBSET Clients, fired \subseteq fired',
         UNCHANGED <<r, table, job, holds, pending, others, stopped>>,
         to = "reading" => r[holds[c]].done,
         to = "stale" => c \in fired' \/ (r[holds[c]].done /\ r[holds[c]].result # "answer")
  PROVE  RefreshInv'
<1>1. \A d \in Clients : client'[d] = IF d = c THEN to ELSE client[d]
  BY DEF RefreshInv, RefreshTypeOK
<1>2. RefreshTypeOK'
  BY DEF RefreshInv, RefreshTypeOK
<1>3. \A y \in Refreshes : /\ (Owned(y)' <=> Owned(y)) /\ (Held(y)' <=> Held(y))
                           /\ TableRef(y)' = TableRef(y) /\ JobRef(y)' = JobRef(y)
  BY <1>1 DEF Owned, Held, TableRef, JobRef, Owning
<1>4. Holding'
  BY <1>1 DEF RefreshInv, Holding
<1>5. Slotted'
  BY <1>1 DEF RefreshInv, Slotted, Owning, Submitting
<1>6. RefCounts'
  BY <1>3 DEF RefreshInv, RefCounts
<1>7. Published'
  BY <1>3 DEF RefreshInv, Published
<1>8. Served'
  BY <1>1 DEF RefreshInv, Served, StaleOnlyForCause
<1>9. PendingExact'
  BY PendingKept
<1> QED
  BY <1>2, <1>4, <1>5, <1>6, <1>7, <1>8, <1>9 DEF RefreshInv

LEMMA TakeInv ==
  ASSUME RefreshInv, NEW c \in Clients, TakeChecks(c) \/ TimerFires(c) \/ TakeReads(c)
  PROVE  RefreshInv'
<1>1. CASE TakeChecks(c)
  BY <1>1, MovesInv DEF TakeChecks, RefreshInv, RefreshTypeOK
<1>2. CASE TimerFires(c)
  BY <1>2, MovesInv DEF TimerFires, RefreshInv, RefreshTypeOK
<1>3. CASE TakeReads(c)
  <2>1. r[holds[c]].done
    BY <1>3 DEF TakeReads, RefreshInv, Served
  <2> QED
    BY <1>3, <2>1, MovesInv DEF TakeReads, RefreshInv, RefreshTypeOK
<1> QED
  BY <1>1, <1>2, <1>3

(* A client at a refresh holds one of them.                                 *)
LEMMA HoldsOne ==
  ASSUME RefreshInv, NEW c \in Clients, client[c] # "out"
  PROVE  holds[c] \in Refreshes /\ Held(holds[c]) /\ \A d \in Clients \ {c} : holds[d] # holds[c]
<1>1. holds[c] \in Refreshes
  BY DEF RefreshInv, RefreshTypeOK, Holding
<1> QED
  BY <1>1, NoneIsNone DEF RefreshInv, Holding, Held

LEMMA TakeWokenInv ==
  ASSUME RefreshInv, NEW c \in Clients, TakeWoken(c)
  PROVE  RefreshInv'
<1>1. PICK x \in Refreshes : x = holds[c]
  BY HoldsOne DEF TakeWoken
<1>2. /\ client[c] = "sleeping" /\ r[x].permits > 0
      /\ r' = [r EXCEPT ![x].permits = @ - 1]
      /\ client' = [client EXCEPT ![c] = "reading"]
      /\ UNCHANGED <<table, job, holds, fired, pending, others, stopped>>
  BY <1>1 DEF TakeWoken
<1>3. \A d \in Clients : client'[d] = IF d = c THEN "reading" ELSE client[d]
  BY <1>2 DEF RefreshInv, RefreshTypeOK
<1>4. /\ r' \in [Refreshes -> States]
      /\ \A y \in Refreshes : /\ r'[y].key = r[y].key /\ r'[y].refs = r[y].refs
                              /\ r'[y].done = r[y].done /\ r'[y].result = r[y].result
                              /\ r'[y].permits > 0 => r[y].permits > 0
  <2>1. r[x].permits - 1 \in 0 .. 1 /\ r[x].permits \in 0 .. 1
    BY <1>2 DEF RefreshInv, RefreshTypeOK
  <2> QED
    BY <1>2, <2>1 DEF RefreshInv, RefreshTypeOK, States
<1>5. RefreshTypeOK'
  BY <1>2, <1>4 DEF RefreshInv, RefreshTypeOK, States
<1>6. \A y \in Refreshes : /\ (Owned(y)' <=> Owned(y)) /\ (Held(y)' <=> Held(y))
                           /\ TableRef(y)' = TableRef(y) /\ JobRef(y)' = JobRef(y)
  BY <1>2, <1>3 DEF Owned, Held, TableRef, JobRef, Owning
<1>7. Holding' /\ Slotted'
  BY <1>2, <1>3, <1>4 DEF RefreshInv, RefreshTypeOK, Holding, Slotted, Owning, Submitting
<1>8. RefCounts' /\ Published'
  BY <1>2, <1>4, <1>6 DEF RefreshInv, RefCounts, Published
<1>9. Served'
  <2>1. r[x].done
    BY <1>2 DEF RefreshInv, Published
  <2>2. \A d \in Clients : client[d] # "out" => holds[d] \in Refreshes
    BY HoldsOne
  <2> QED
    BY <1>1, <1>2, <1>3, <1>4, <2>1, <2>2 DEF RefreshInv, Served, StaleOnlyForCause
<1>10. PendingExact'
  BY <1>2, PendingKept
<1> QED
  BY <1>2, <1>5, <1>7, <1>8, <1>9, <1>10 DEF RefreshInv

LEMMA SubmitInv ==
  ASSUME RefreshInv, NEW c \in Clients, Submit(c)
  PROVE  RefreshInv'
<1>1. PICK x \in Refreshes : x = holds[c] /\ \A d \in Clients \ {c} : holds[d] # x
  BY HoldsOne DEF Submit
<1>2. PICK to \in {"leaving", "checking"} : client' = [client EXCEPT ![c] = to]
  BY DEF Submit
<1>3. /\ client[c] \in Submitting
      /\ pending' = pending + 1 /\ job' = [job EXCEPT ![x] = "resolving"]
      /\ UNCHANGED <<r, table, holds, fired, others, stopped>>
  BY <1>1 DEF Submit, Submitting
<1>4. /\ \A d \in Clients : client'[d] = IF d = c THEN to ELSE client[d]
      /\ \A y \in Refreshes : job'[y] = IF y = x THEN "resolving" ELSE job[y]
  BY <1>2, <1>3 DEF RefreshInv, RefreshTypeOK
<1>5. Owned(x) /\ Held(x) /\ job[x] = "none" /\ x \in table
  BY <1>1, <1>3 DEF Owned, Held, Owning, Submitting, RefreshInv, Slotted
<1>6. RefreshTypeOK'
  BY <1>2, <1>3 DEF RefreshInv, RefreshTypeOK
<1>7. Holding'
  BY <1>3, <1>4 DEF RefreshInv, Holding, Submitting
<1>8. Slotted'
  BY <1>1, <1>3, <1>4, <1>5 DEF RefreshInv, Slotted, Submitting, Owning
<1>9. /\ ~Owned(x)' /\ Held(x)' /\ TableRef(x)' = 1 /\ JobRef(x)' = 1
      /\ \A y \in Refreshes \ {x} : /\ (Owned(y)' <=> Owned(y)) /\ (Held(y)' <=> Held(y))
                                    /\ TableRef(y)' = TableRef(y) /\ JobRef(y)' = JobRef(y)
  BY <1>1, <1>3, <1>4, <1>5 DEF Owned, Held, TableRef, JobRef, Owning
<1>10. RefCounts'
  <2>1. r'[x].refs = 3
    BY <1>3, <1>5 DEF RefreshInv, RefCounts
  <2> QED
    BY <1>3, <1>9, <2>1 DEF RefreshInv, RefCounts
<1>11. Published'
  BY <1>3, <1>4, <1>5, <1>9 DEF RefreshInv, Published
<1>12. Served'
  BY <1>3, <1>4 DEF RefreshInv, Served, StaleOnlyForCause
<1>13. PendingExact'
  <2>1. Jobs' = Jobs \cup {x} /\ x \notin Jobs
    BY <1>4, <1>5 DEF Jobs
  <2>2. Cardinality(Jobs') = Cardinality(Jobs) + 1
    BY <2>1, JobsFinite, FS_AddElement
  <2> QED
    BY <1>3, <2>2, JobsFinite DEF RefreshInv, RefreshTypeOK, PendingExact
<1> QED
  BY <1>3, <1>6, <1>7, <1>8, <1>10, <1>11, <1>12, <1>13 DEF RefreshInv

LEMMA SubmitRefusedInv ==
  ASSUME RefreshInv, NEW c \in Clients, SubmitRefused(c)
  PROVE  RefreshInv'
<1>1. PICK x \in Refreshes : x = holds[c] /\ \A d \in Clients \ {c} : holds[d] # x
  BY HoldsOne DEF SubmitRefused
<1>2. /\ client[c] \in Submitting
      /\ table' = table \ {x} /\ client' = [client EXCEPT ![c] = "undoing"]
      /\ UNCHANGED <<r, job, holds, fired, pending, others, stopped>>
  BY <1>1 DEF SubmitRefused, Submitting
<1>3. \A d \in Clients : client'[d] = IF d = c THEN "undoing" ELSE client[d]
  BY <1>2 DEF RefreshInv, RefreshTypeOK
<1>4. Owned(x) /\ job[x] = "none"
  BY <1>1, <1>2 DEF Owned, Owning, Submitting, RefreshInv, Slotted
<1>5. RefreshTypeOK'
  BY <1>2 DEF RefreshInv, RefreshTypeOK
<1>6. Holding'
  BY <1>2, <1>3 DEF RefreshInv, Holding, Submitting
<1>7. Slotted'
  BY <1>1, <1>2, <1>3, <1>4 DEF RefreshInv, Slotted, Submitting, Owning
<1>8. /\ Owned(x)'
      /\ \A y \in Refreshes : (Owned(y)' <=> Owned(y)) /\ (Held(y)' <=> Held(y)) /\ JobRef(y)' = JobRef(y)
      /\ \A y \in Refreshes \ {x} : TableRef(y)' = TableRef(y)
  BY <1>1, <1>2, <1>3, <1>4 DEF Owned, Held, TableRef, JobRef, Owning, Submitting
<1>9. RefCounts' /\ Published'
  BY <1>2, <1>4, <1>8 DEF RefreshInv, RefCounts, Published
<1>10. Served'
  BY <1>2, <1>3 DEF RefreshInv, Served, StaleOnlyForCause
<1>11. Cardinality(table') <= Ceiling
  <2>1. /\ Cardinality(table') \in {Cardinality(table), Cardinality(table) - 1}
        /\ Cardinality(table) \in Nat /\ Cardinality(table) <= Ceiling
    BY <1>2, TableFinite, FS_RemoveElement DEF RefreshInv
  <2> QED
    BY <2>1, RefreshBounds
<1>12. PendingExact'
  BY <1>2, PendingKept
<1> QED
  BY <1>5, <1>6, <1>7, <1>9, <1>10, <1>11, <1>12 DEF RefreshInv

(* A client lets go of its refresh, of all of it or of its own reference.   *)
LEMMA LetGoInv ==
  ASSUME RefreshInv, NEW c \in Clients, Undo(c) \/ Leave(c)
  PROVE  RefreshInv'
<1>1. PICK x \in Refreshes : x = holds[c] /\ Held(x) /\ \A d \in Clients \ {c} : holds[d] # x
  BY HoldsOne DEF Undo, Leave
<1>2. PICK n \in {1, 3} : /\ r' = Released(x, n)
                          /\ IF n = 3 THEN client[c] = "undoing" ELSE client[c] \in {"leaving", "stale"}
  BY <1>1 DEF Undo, Leave
<1>3. /\ holds' = [holds EXCEPT ![c] = None] /\ client' = [client EXCEPT ![c] = "out"]
      /\ fired' \subseteq fired /\ fired \ {c} \subseteq fired'
      /\ UNCHANGED <<table, job, pending, others, stopped>>
  BY DEF Undo, Leave
<1>4. \A d \in Clients : /\ holds'[d] = IF d = c THEN None ELSE holds[d]
                         /\ client'[d] = IF d = c THEN "out" ELSE client[d]
  BY <1>3 DEF RefreshInv, RefreshTypeOK
<1>5. Owned(x) <=> n = 3
  BY <1>1, <1>2 DEF Owned, Owning
<1>6. r[x].refs = n + (IF n = 3 THEN 0 ELSE TableRef(x) + JobRef(x))
  <2>1. TableRef(x) \in Nat /\ JobRef(x) \in Nat
    BY DEF TableRef, JobRef
  <2> QED
    BY <1>1, <1>5, <2>1 DEF RefreshInv, RefCounts
<1>7. n = 3 => TableRef(x) = 0 /\ JobRef(x) = 0
  BY <1>1, <1>2 DEF RefreshInv, Slotted, Owning, Submitting, TableRef, JobRef
<1>8. n \in 1 .. 3 /\ r[x].refs >= n
  BY <1>6 DEF TableRef, JobRef
<1>9. /\ r' \in [Refreshes -> States]
      /\ \A y \in Refreshes \ {x} : r'[y] = r[y]
      /\ r'[x].refs = TableRef(x) + JobRef(x)
      /\ TableRef(x) + JobRef(x) = 0 => ~r'[x].done /\ r'[x].permits = 0
      /\ TableRef(x) + JobRef(x) # 0 =>
           /\ r'[x].key = r[x].key /\ r'[x].done = r[x].done
           /\ r'[x].result = r[x].result /\ r'[x].permits = r[x].permits
  <2>1. TableRef(x) + JobRef(x) \in Nat /\ r[x].refs = n + TableRef(x) + JobRef(x)
    BY <1>6, <1>7 DEF TableRef, JobRef
  <2>2. r[x].refs = n <=> TableRef(x) + JobRef(x) = 0
    BY <2>1 DEF TableRef, JobRef
  <2>3. r[x].refs - n = TableRef(x) + JobRef(x)
    BY <2>1 DEF TableRef, JobRef
  <2>4. RefreshTypeOK
    BY DEF RefreshInv
  <2> QED
    BY <1>2, <1>8, <2>2, <2>3, <2>4, ReleasedFields
<1>10. /\ ~Owned(x)' /\ ~Held(x)'
       /\ \A y \in Refreshes : TableRef(y)' = TableRef(y) /\ JobRef(y)' = JobRef(y)
       /\ \A y \in Refreshes \ {x} : (Owned(y)' <=> Owned(y)) /\ (Held(y)' <=> Held(y))
  <2>1. ~Owned(x)' /\ ~Held(x)'
    BY <1>1, <1>4, NoneIsNone DEF Owned, Held
  <2>2. \A y \in Refreshes : TableRef(y)' = TableRef(y) /\ JobRef(y)' = JobRef(y)
    BY <1>3 DEF TableRef, JobRef
  <2>3. \A y \in Refreshes, d \in Clients : y # x =>
          /\ holds'[d] = y <=> holds[d] = y
          /\ holds[d] = y => client'[d] = client[d]
    BY <1>1, <1>4, NoneIsNone
  <2> QED
    BY <2>1, <2>2, <2>3 DEF Owned, Held
<1>11. RefreshTypeOK'
  BY <1>3, <1>9 DEF RefreshInv, RefreshTypeOK, States
<1>12. Holding'
  BY <1>4 DEF RefreshInv, Holding
<1>13. Slotted'
  <2>1. \A y \in table : r'[y].key = r[y].key
    BY <1>9 DEF RefreshInv, RefreshTypeOK, TableRef, JobRef
  <2>2. \A d \in Clients : client'[d] \in Owning => job'[holds'[d]] = "none"
    BY <1>3, <1>4 DEF RefreshInv, Slotted, Owning
  <2>3. \A y \in Refreshes : (\E d \in Clients : holds'[d] = y /\ client'[d] \in Submitting)
                             <=> (\E d \in Clients : holds[d] = y /\ client[d] \in Submitting)
    BY <1>1, <1>2, <1>4, NoneIsNone DEF Submitting
  <2> QED
    BY <1>3, <2>1, <2>2, <2>3 DEF RefreshInv, Slotted
<1>14. RefCounts'
  <2>1. r'[x].refs = 0 + TableRef(x)' + JobRef(x)'
    BY <1>9, <1>10 DEF TableRef, JobRef
  <2>2. \A y \in Refreshes \ {x} : r'[y].refs = r[y].refs
    BY <1>9
  <2> QED
    BY <1>10, <2>1, <2>2 DEF RefreshInv, RefCounts
<1>15. Published'
  BY <1>3, <1>9, <1>10, <1>5 DEF RefreshInv, Published, TableRef, JobRef
<1>16. Served'
  <2>1. \A d \in Clients \ {c} : client[d] # "out" => holds[d] \in Refreshes \ {x}
    BY <1>1, HoldsOne
  <2> QED
    BY <1>3, <1>4, <1>9, <2>1 DEF RefreshInv, Served, StaleOnlyForCause
<1>17. PendingExact'
  BY <1>3, PendingKept
<1> QED
  BY <1>3, <1>11, <1>12, <1>13, <1>14, <1>15, <1>16, <1>17 DEF RefreshInv

-----------------------------------------------------------------------------
(* What a step of a job leaves alone, and that its refresh is nobody's      *)
(* alone any more.                                                          *)
LEMMA JobFrame ==
  ASSUME RefreshInv, NEW x \in Refreshes, job[x] # "none", UNCHANGED <<client, holds, fired>>
  PROVE  /\ Holding' /\ ~Owned(x)
         /\ \A y \in Refreshes : (Owned(y)' <=> Owned(y)) /\ (Held(y)' <=> Held(y))
<1>1. Holding' /\ \A y \in Refreshes : (Owned(y)' <=> Owned(y)) /\ (Held(y)' <=> Held(y))
  BY DEF RefreshInv, Holding, Owned, Held
<1>2. ~Owned(x)
  BY DEF RefreshInv, Slotted, Owned
<1> QED
  BY <1>1, <1>2

(* The three steps that write to the refresh itself: its result, the mark   *)
(* and the post.                                                            *)
LEMMA JobWritesInv ==
  ASSUME RefreshInv, NEW x \in Refreshes, JobResolves(x) \/ JobMarksDone(x) \/ JobPosts(x)
  PROVE  RefreshInv'
<1>1. UNCHANGED <<table, client, holds, fired, pending, others, stopped>>
  BY DEF JobResolves, JobMarksDone, JobPosts
<1>2. PICK to \in {"resolved", "done", "posted"} :
        /\ job' = [job EXCEPT ![x] = to]
        /\ to = "resolved" => job[x] = "resolving"
        /\ to = "done" => job[x] = "finishing"
        /\ to = "posted" => job[x] = "done"
        /\ job[x] \in {"resolving", "finishing", "done"}
  BY DEF JobResolves, JobMarksDone, JobPosts
<1>3. /\ ~Owned(x) /\ Holding'
      /\ \A y \in Refreshes : (Owned(y)' <=> Owned(y)) /\ (Held(y)' <=> Held(y))
  BY <1>1, <1>2, JobFrame
<1>4. r[x] \in States /\ r \in [Refreshes -> States]
  BY DEF RefreshInv, RefreshTypeOK, States
<1>5. job[x] = "done" => r[x].permits = 0
  BY <1>4 DEF RefreshInv, Published, States
<1>6. /\ r' \in [Refreshes -> States]
      /\ \A y \in Refreshes \ {x} : r'[y] = r[y]
      /\ r'[x].key = r[x].key /\ r'[x].refs = r[x].refs
      /\ r'[x].done = (r[x].done \/ to = "done")
      /\ to # "resolved" => r'[x].result = r[x].result
      /\ r'[x].permits = IF to = "posted" THEN 1 ELSE r[x].permits
  <2>1. CASE JobResolves(x)
    <3>1. PICK got \in {"answer", "none"} : r' = [r EXCEPT ![x].result = got]
      BY <2>1 DEF JobResolves
    <3>2. job[x] = "resolving" /\ to = "resolved"
      BY <2>1, <1>2 DEF JobResolves
    <3> QED
      BY <1>4, <3>1, <3>2 DEF States
  <2>2. CASE JobMarksDone(x)
    <3>1. r' = [r EXCEPT ![x].done = TRUE] /\ to = "done"
      BY <2>2, <1>2 DEF JobMarksDone
    <3> QED
      BY <1>4, <3>1 DEF States
  <2>3. CASE JobPosts(x)
    <3>1. r' = [r EXCEPT ![x].permits = @ + 1] /\ to = "posted" /\ r[x].permits = 0
      BY <2>3, <1>2, <1>5 DEF JobPosts
    <3>2. r[x].permits + 1 = 1 /\ 1 \in 0 .. 1
      BY <3>1
    <3> QED
      BY <1>4, <3>1, <3>2 DEF States
  <2> QED
    BY <2>1, <2>2, <2>3
<1>7. \A y \in Refreshes : job'[y] = IF y = x THEN to ELSE job[y]
  BY <1>2 DEF RefreshInv, RefreshTypeOK
<1>8. RefreshTypeOK'
  BY <1>1, <1>2, <1>6 DEF RefreshInv, RefreshTypeOK, States
<1>9. Slotted'
  BY <1>1, <1>2, <1>3, <1>6, <1>7 DEF RefreshInv, RefreshTypeOK, Slotted, Owned
<1>10. RefCounts'
  <2>1. \A y \in Refreshes : TableRef(y)' = TableRef(y) /\ JobRef(y)' = JobRef(y) /\ r'[y].refs = r[y].refs
    BY <1>1, <1>2, <1>6, <1>7 DEF TableRef, JobRef
  <2> QED
    BY <1>3, <2>1 DEF RefreshInv, RefCounts
<1>11. Published'
  <2> SUFFICES ASSUME NEW y \in Refreshes
               PROVE  /\ r'[y].done => job'[y] \in {"done", "posted", "ending", "none"} /\ ~Owned(y)'
                      /\ job'[y] \in {"done", "posted"} => r'[y].done
                      /\ r'[y].permits > 0 => r'[y].done /\ job'[y] \in {"posted", "ending", "none"}
    BY DEF Published
  <2>1. CASE y = x
    BY <1>2, <1>3, <1>6, <1>7, <2>1 DEF RefreshInv, Published
  <2>2. CASE y # x
    BY <1>3, <1>6, <1>7, <2>2 DEF RefreshInv, Published
  <2> QED
    BY <2>1, <2>2
<1>12. Served'
  <2>1. job[x] = "resolving" => ~r[x].done
    BY DEF RefreshInv, Published
  <2>2. \A d \in Clients : client[d] # "out" => holds[d] \in Refreshes
    BY HoldsOne
  <2> QED
    BY <1>1, <1>2, <1>6, <2>1, <2>2, ZenonT(40) DEF RefreshInv, Served, StaleOnlyForCause
<1>13. PendingExact'
  BY <1>1, <1>2, <1>7, PendingKept
<1> QED
  BY <1>1, <1>3, <1>8, <1>9, <1>10, <1>11, <1>12, <1>13 DEF RefreshInv

LEMMA JobUnslotsInv ==
  ASSUME RefreshInv, NEW x \in Refreshes, JobUnslots(x)
  PROVE  RefreshInv'
<1>1. /\ job[x] = "resolved" /\ table' = table \ {x} /\ job' = [job EXCEPT ![x] = "unslotted"]
      /\ UNCHANGED <<r, client, holds, fired, pending, others, stopped>>
  BY DEF JobUnslots
<1>2. /\ ~Owned(x) /\ Holding'
      /\ \A y \in Refreshes : (Owned(y)' <=> Owned(y)) /\ (Held(y)' <=> Held(y))
  BY <1>1, JobFrame
<1>3. \A y \in Refreshes : job'[y] = IF y = x THEN "unslotted" ELSE job[y]
  BY <1>1 DEF RefreshInv, RefreshTypeOK
<1>4. RefreshTypeOK'
  BY <1>1 DEF RefreshInv, RefreshTypeOK
<1>5. Slotted'
  BY <1>1, <1>2, <1>3 DEF RefreshInv, RefreshTypeOK, Slotted, Owned, Owning, Submitting
<1>6. RefCounts'
  <2>1. x \in table
    BY <1>1 DEF RefreshInv, Slotted
  <2>2. \A y \in Refreshes : TableRef(y)' = TableRef(y) /\ JobRef(y)' = JobRef(y)
    BY <1>1, <1>3, <2>1 DEF TableRef, JobRef
  <2> QED
    BY <1>1, <1>2, <2>2 DEF RefreshInv, RefCounts
<1>7. Published' /\ Served'
  BY <1>1, <1>2, <1>3 DEF RefreshInv, Published, Served, StaleOnlyForCause
<1>8. Cardinality(table') <= Ceiling
  <2>1. /\ Cardinality(table') \in {Cardinality(table), Cardinality(table) - 1}
        /\ Cardinality(table) \in Nat /\ Cardinality(table) <= Ceiling
    BY <1>1, TableFinite, FS_RemoveElement DEF RefreshInv
  <2> QED
    BY <2>1, RefreshBounds
<1>9. PendingExact'
  BY <1>1, <1>3, PendingKept
<1> QED
  BY <1>2, <1>4, <1>5, <1>6, <1>7, <1>8, <1>9 DEF RefreshInv

(* The job drops a reference, the slot's or its own.                        *)
LEMMA JobDropsInv ==
  ASSUME RefreshInv, NEW x \in Refreshes, JobReleasesSlot(x) \/ JobReleases(x)
  PROVE  RefreshInv'
<1>1. PICK to \in {"finishing", "ending"} :
        /\ job' = [job EXCEPT ![x] = to]
        /\ job[x] = IF to = "finishing" THEN "unslotted" ELSE "posted"
  BY DEF JobReleasesSlot, JobReleases
<1>2. r' = Released(x, 1) /\ UNCHANGED <<table, client, holds, fired, pending, others, stopped>>
  BY DEF JobReleasesSlot, JobReleases
<1>3. /\ ~Owned(x) /\ Holding'
      /\ \A y \in Refreshes : (Owned(y)' <=> Owned(y)) /\ (Held(y)' <=> Held(y))
  BY <1>1, <1>2, JobFrame
<1>4. \A y \in Refreshes : job'[y] = IF y = x THEN to ELSE job[y]
  BY <1>1 DEF RefreshInv, RefreshTypeOK
<1>5. x \notin table
  BY <1>1, <1>3 DEF RefreshInv, Slotted, Owned, Owning, Submitting
<1>6. /\ TableRef(x) + JobRef(x) = 1 + TableRef(x)' + JobRef(x)'
      /\ {TableRef(x), JobRef(x), TableRef(x)', JobRef(x)'} \subseteq 0 .. 1
      /\ \A y \in Refreshes \ {x} : TableRef(y)' = TableRef(y) /\ JobRef(y)' = JobRef(y)
  BY <1>1, <1>2, <1>4, <1>5 DEF TableRef, JobRef
<1>7. r[x].refs = (IF Held(x) THEN 1 ELSE 0) + 1 + TableRef(x)' + JobRef(x)'
  <2>1. r[x].refs = (IF Held(x) THEN 1 ELSE 0) + TableRef(x) + JobRef(x)
    BY <1>3 DEF RefreshInv, RefCounts
  <2> QED
    BY <1>6, <2>1
<1>8. /\ r' \in [Refreshes -> States]
      /\ \A y \in Refreshes \ {x} : r'[y] = r[y]
      /\ r'[x].refs = r[x].refs - 1
      /\ r[x].refs = 1 => ~r'[x].done /\ r'[x].permits = 0
      /\ r[x].refs # 1 => /\ r'[x].key = r[x].key /\ r'[x].done = r[x].done
                          /\ r'[x].result = r[x].result /\ r'[x].permits = r[x].permits
  <2>1. r[x].refs >= 1 /\ RefreshTypeOK /\ 1 \in 1 .. 3
    BY <1>6, <1>7 DEF RefreshInv
  <2> QED
    BY <1>2, <2>1, ReleasedFields
<1>9. RefreshTypeOK'
  BY <1>1, <1>2, <1>8 DEF RefreshInv, RefreshTypeOK, States
<1>10. Slotted'
  BY <1>1, <1>2, <1>3, <1>4, <1>5, <1>8 DEF RefreshInv, RefreshTypeOK, Slotted, Owned
<1>11. RefCounts'
  <2>1. r'[x].refs = (IF Held(x)' THEN 1 ELSE 0) + TableRef(x)' + JobRef(x)'
    BY <1>3, <1>6, <1>7, <1>8
  <2>2. \A y \in Refreshes \ {x} : r'[y].refs = r[y].refs
    BY <1>8
  <2> QED
    BY <1>3, <1>6, <2>1, <2>2 DEF RefreshInv, RefCounts
<1>12. Published'
  BY <1>1, <1>3, <1>4, <1>8 DEF RefreshInv, Published
<1>13. Served'
  <2>1. \A d \in Clients : client[d] # "out" => holds[d] \in Refreshes /\ (holds[d] = x => Held(x))
    BY HoldsOne
  <2>2. Held(x) => r[x].refs # 1
    BY <1>6, <1>7
  <2> QED
    BY <1>2, <1>8, <2>1, <2>2 DEF RefreshInv, Served, StaleOnlyForCause
<1>14. PendingExact'
  BY <1>1, <1>2, <1>4, PendingKept
<1> QED
  BY <1>2, <1>3, <1>9, <1>10, <1>11, <1>12, <1>13, <1>14 DEF RefreshInv

LEMMA JobEndsInv ==
  ASSUME RefreshInv, NEW x \in Refreshes, JobEnds(x)
  PROVE  RefreshInv'
<1>1. /\ job[x] = "ending" /\ pending' = pending - 1 /\ job' = [job EXCEPT ![x] = "none"]
      /\ UNCHANGED <<r, table, client, holds, fired, others, stopped>>
  BY DEF JobEnds
<1>2. /\ ~Owned(x) /\ Holding'
      /\ \A y \in Refreshes : (Owned(y)' <=> Owned(y)) /\ (Held(y)' <=> Held(y))
  BY <1>1, JobFrame
<1>3. \A y \in Refreshes : job'[y] = IF y = x THEN "none" ELSE job[y]
  BY <1>1 DEF RefreshInv, RefreshTypeOK
<1>4. PendingExact' /\ pending' \in Nat
  <2>1. Jobs' = Jobs \ {x} /\ x \in Jobs
    BY <1>1, <1>3 DEF Jobs
  <2>2. Cardinality(Jobs') = Cardinality(Jobs) - 1
    BY <2>1, JobsFinite, FS_RemoveElement
  <2>3. others \in Nat
    BY RefreshBounds DEF RefreshInv, RefreshTypeOK
  <2> QED
    BY <1>1, <2>2, <2>3, JobsFinite DEF RefreshInv, RefreshTypeOK, PendingExact
<1>5. RefreshTypeOK'
  BY <1>1, <1>4 DEF RefreshInv, RefreshTypeOK
<1>6. Slotted'
  BY <1>1, <1>2, <1>3 DEF RefreshInv, RefreshTypeOK, Slotted, Owned
<1>7. RefCounts'
  <2>1. \A y \in Refreshes : TableRef(y)' = TableRef(y) /\ JobRef(y)' = JobRef(y)
    BY <1>1, <1>3 DEF TableRef, JobRef
  <2> QED
    BY <1>1, <1>2, <2>1 DEF RefreshInv, RefCounts
<1>8. Published' /\ Served'
  BY <1>1, <1>2, <1>3 DEF RefreshInv, Published, Served, StaleOnlyForCause
<1> QED
  BY <1>1, <1>2, <1>4, <1>5, <1>6, <1>7, <1>8 DEF RefreshInv

(* Other queries, the loops stopping and a step of another component.       *)
LEMMA RestInv ==
  ASSUME RefreshInv, OtherBegins \/ OtherEnds \/ Stop \/ UNCHANGED refreshVars
  PROVE  RefreshInv'
<1>1. UNCHANGED <<r, table, job, client, holds, fired>>
  BY DEF OtherBegins, OtherEnds, Stop, refreshVars
<1>2. /\ pending' - others' = pending - others
      /\ others' \in 0 .. MaxOthers /\ stopped' \in BOOLEAN
  <2>1. pending \in Nat /\ others \in 0 .. MaxOthers /\ stopped \in BOOLEAN /\ MaxOthers \in Nat
    BY RefreshBounds DEF RefreshInv, RefreshTypeOK
  <2>2. CASE OtherBegins
    BY <2>1, <2>2 DEF OtherBegins
  <2>3. CASE OtherEnds
    BY <2>1, <2>3 DEF OtherEnds
  <2>4. CASE Stop \/ UNCHANGED refreshVars
    BY <2>1, <2>4 DEF Stop, refreshVars
  <2> QED
    BY <2>2, <2>3, <2>4
<1>3. PendingExact' /\ pending' \in Nat
  <2>1. Jobs' = Jobs
    BY <1>1 DEF Jobs
  <2>2. pending \in Nat /\ others \in Nat /\ others' \in Nat /\ pending' \in Int
    BY <1>2, RefreshBounds DEF OtherBegins, OtherEnds, Stop, refreshVars, RefreshInv, RefreshTypeOK
  <2> QED
    BY <1>2, <2>1, <2>2, JobsFinite DEF RefreshInv, PendingExact
<1>4. RefreshTypeOK'
  BY <1>1, <1>2, <1>3 DEF RefreshInv, RefreshTypeOK
<1>5. Holding' /\ Slotted' /\ Published' /\ Served'
  BY <1>1 DEF RefreshInv, Holding, Slotted, Published, Served, StaleOnlyForCause, Owned
<1>6. RefCounts'
  BY <1>1 DEF RefreshInv, RefCounts, Owned, Held, TableRef, JobRef
<1> QED
  BY <1>1, <1>3, <1>4, <1>5, <1>6 DEF RefreshInv

LEMMA RefreshNextInv == RefreshInv /\ [RefreshNext]_refreshVars => RefreshInv'
<1> SUFFICES ASSUME RefreshInv, [RefreshNext]_refreshVars PROVE RefreshInv'
  OBVIOUS
<1>1. ASSUME NEW c \in Clients, NEW k \in Keys, NEW prefetch \in BOOLEAN, StartRefresh(c, k, prefetch)
      PROVE  RefreshInv'
  BY <1>1, StartRefreshInv
<1>2. ASSUME NEW c \in Clients, Client(c) \/ TimerFires(c) PROVE RefreshInv'
  BY <1>2, SubmitInv, SubmitRefusedInv, LetGoInv, TakeInv, TakeWokenInv DEF Client
<1>3. ASSUME NEW x \in Refreshes, Job(x) PROVE RefreshInv'
  BY <1>3, JobWritesInv, JobUnslotsInv, JobDropsInv, JobEndsInv DEF Job
<1>4. CASE OtherBegins \/ OtherEnds \/ Stop \/ UNCHANGED refreshVars
  BY <1>4, RestInv
<1> QED
  BY <1>1, <1>2, <1>3, <1>4 DEF RefreshNext

-----------------------------------------------------------------------------
(* A refresh has a reference for each of those who will still touch it,     *)
(* whatever the order its client, its slot and its job let go in, and the   *)
(* table has one refresh per key, each with somebody to take it out.        *)
THEOREM RefsExactHolds == RefreshSpec => []RefsExact
<1>1. RefreshInv => RefsExact
  <2> SUFFICES ASSUME RefreshInv PROVE RefsExact
    OBVIOUS
  <2>1. ASSUME NEW x \in Refreshes PROVE WaiterRef(x) = IF Held(x) THEN 1 ELSE 0
    <3>1. CASE Held(x)
      <4>1. PICK c \in Clients : holds[c] = x
        BY <3>1 DEF Held
      <4>2. {d \in Clients : holds[d] = x} = {c}
        BY <4>1, NoneIsNone DEF RefreshInv, Holding
      <4> QED
        BY <3>1, <4>2, FS_Singleton DEF WaiterRef
    <3>2. CASE ~Held(x)
      <4>1. {d \in Clients : holds[d] = x} = {}
        BY <3>2 DEF Held
      <4> QED
        BY <3>2, <4>1, FS_EmptySet DEF WaiterRef
    <3> QED
      BY <3>1, <3>2
  <2>2. RefsAreHolders
    BY <2>1 DEF RefreshInv, RefCounts, RefsAreHolders, Owned, Owning
  <2>3. TableSound
    BY DEF RefreshInv, RefreshTypeOK, Slotted, TableSound, Submitting
  <2> QED
    BY <2>2, <2>3 DEF RefreshInv, RefsExact
<1> QED
  BY <1>1, RefreshInitInv, RefreshNextInv, PTL DEF RefreshSpec

(* refresh_take gives a client its expired bytes only where its timer fired *)
(* or the refresh came back with nothing: the post is never ahead of the    *)
(* result it announces.                                                     *)
THEOREM StaleOnlyForCauseHolds == RefreshSpec => []StaleOnlyForCause
<1>1. RefreshInv => StaleOnlyForCause
  BY DEF RefreshInv, Served
<1> QED
  BY <1>1, RefreshInitInv, RefreshNextInv, PTL DEF RefreshSpec

(* The count submit_query admits by is the queries in flight: it is raised  *)
(* and lowered once for each, and never refuses for one that has ended.     *)
THEOREM PendingExactHolds == RefreshSpec => []PendingExact
<1>1. RefreshInv => PendingExact
  BY DEF RefreshInv
<1> QED
  BY <1>1, RefreshInitInv, RefreshNextInv, PTL DEF RefreshSpec
=============================================================================
