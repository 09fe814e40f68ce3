----------------------------- MODULE SyncProofs -----------------------------
(***************************************************************************)
(* Proofs about what the server synchronizes with, for any number of        *)
(* threads, stripes and fibers.  The reader-writer lock is exclusive and    *)
(* its counts exact (module BrLock); a post of loop.Sema reaches one waiter *)
(* or stays in the count (LoopSema); loop.Mutex has one holder and loses no *)
(* wake-up (LoopMutex).                                                     *)
(***************************************************************************)
EXTENDS BrLock, LoopSema, LoopMutex,
        FiniteSetTheorems, FunctionTheorems, SequenceTheorems, TLAPS

-----------------------------------------------------------------------------
(* The reader-writer lock.                                                  *)

(* A stripe a writer has already looked at is one nobody inside counts on:  *)
(* a thread counted there since has seen, or will see, `writing` raised.    *)
Drained(s) ==
  \A t \in Threads : mine[t] = s + 1 => pc[t] # "inside"

(* What Exclusion needs: the mutex names the only writer, `writing` is      *)
(* raised while one scans or writes, counts are exact, threads counted in   *)
(* have a stripe, and the stripes before a scanning writer are drained.     *)
WriterPcs == {"raise", "scan", "writing", "lowered"}

LockInv ==
  /\ TypeOK
  /\ CountsExact
  /\ \A t \in Threads : pc[t] \in WriterPcs => writers = t
  /\ \A t \in Threads : pc[t] \in {"scan", "writing"} => writing
  /\ \A t \in Threads : pc[t] \in Counted \cup {"enter", "spin"} => mine[t] # 0
  /\ \A w \in Threads : pc[w] = "scan" =>
        next[w] < STRIPES /\ \A s \in 0 .. next[w] - 1 : Drained(s)
  /\ \A w \in Threads : pc[w] = "writing" => \A s \in Stripes : Drained(s)

-----------------------------------------------------------------------------
(* A step that moves no thread in or out of the counted locations leaves    *)
(* the set of threads counted on every stripe as it was.                    *)
LEMMA OnUnchanged ==
  ASSUME TypeOK,
         NEW t \in Threads, NEW to \in Locations,
         pc' = [pc EXCEPT ![t] = to], mine' = mine,
         to \in Counted <=> pc[t] \in Counted
  PROVE  \A s \in Stripes : On(s)' = On(s)
BY DEF On, TypeOK

(* Counting in adds the thread to its own stripe's set, and to no other.    *)
LEMMA OnEnter ==
  ASSUME TypeOK,
         NEW t \in Threads, NEW to \in Counted,
         pc' = [pc EXCEPT ![t] = to], mine' = mine,
         pc[t] \notin Counted, mine[t] # 0
  PROVE  /\ mine[t] - 1 \in Stripes
         /\ t \notin On(mine[t] - 1)
         /\ On(mine[t] - 1)' = On(mine[t] - 1) \cup {t}
         /\ \A s \in Stripes \ {mine[t] - 1} : On(s)' = On(s)
BY StripesPositive DEF On, TypeOK, Stripes

(* Stepping out takes it off its own stripe's set, and off no other.        *)
LEMMA OnLeave ==
  ASSUME TypeOK,
         NEW t \in Threads, NEW to \in Locations \ Counted,
         pc' = [pc EXCEPT ![t] = to], mine' = mine,
         pc[t] \in Counted, mine[t] # 0
  PROVE  /\ mine[t] - 1 \in Stripes
         /\ t \in On(mine[t] - 1)
         /\ On(mine[t] - 1)' = On(mine[t] - 1) \ {t}
         /\ \A s \in Stripes \ {mine[t] - 1} : On(s)' = On(s)
BY StripesPositive DEF On, TypeOK, Stripes

(* The set of threads counted on a stripe is finite.                        *)
LEMMA OnFinite == \A s : IsFiniteSet(On(s)) /\ Cardinality(On(s)) \in Nat
<1> TAKE s
<1>1. On(s) \subseteq Threads
  BY DEF On
<1> QED
  BY <1>1, ThreadsFinite, FS_Subset, FS_CardinalityType

(* Counting in, in one word: the stripe's count and its set grow together.  *)
LEMMA EnterCounts ==
  ASSUME TypeOK, CountsExact,
         NEW t \in Threads, NEW to \in Counted,
         pc' = [pc EXCEPT ![t] = to], mine' = mine,
         pc[t] \notin Counted, mine[t] # 0,
         readers' = [readers EXCEPT ![mine[t] - 1] = @ + 1]
  PROVE  CountsExact'
<1> DEFINE m == mine[t] - 1
<1>1. /\ m \in Stripes /\ t \notin On(m) /\ On(m)' = On(m) \cup {t}
      /\ \A s \in Stripes \ {m} : On(s)' = On(s)
  BY OnEnter
<1>2. Cardinality(On(m)') = Cardinality(On(m)) + 1
  BY <1>1, OnFinite, FS_AddElement
<1>3. ASSUME NEW s \in Stripes PROVE readers'[s] = Cardinality(On(s)')
  BY <1>1, <1>2, <1>3 DEF TypeOK, CountsExact
<1> QED
  BY <1>3 DEF CountsExact

(* Stepping out, likewise.                                                  *)
LEMMA LeaveCounts ==
  ASSUME TypeOK, CountsExact,
         NEW t \in Threads, NEW to \in Locations \ Counted,
         pc' = [pc EXCEPT ![t] = to], mine' = mine,
         pc[t] \in Counted, mine[t] # 0,
         readers' = [readers EXCEPT ![mine[t] - 1] = @ - 1]
  PROVE  CountsExact' /\ readers' \in [Stripes -> Nat]
<1> DEFINE m == mine[t] - 1
<1>1. /\ m \in Stripes /\ t \in On(m) /\ On(m)' = On(m) \ {t}
      /\ \A s \in Stripes \ {m} : On(s)' = On(s)
  BY OnLeave
<1>2. Cardinality(On(m)') = Cardinality(On(m)) - 1
  <2>1. IsFiniteSet(On(m))
    BY OnFinite
  <2>2. Cardinality(On(m) \ {t}) = Cardinality(On(m)) - 1
    BY <1>1, <2>1, FS_RemoveElement
  <2> QED
    BY <1>1, <2>2
<1>3. Cardinality(On(m)') \in Nat
  BY <1>1, OnFinite, FS_RemoveElement, FS_CardinalityType
<1>4. ASSUME NEW s \in Stripes PROVE readers'[s] = Cardinality(On(s)')
  BY <1>1, <1>2, <1>4 DEF TypeOK, CountsExact
<1>5. readers' \in [Stripes -> Nat]
  BY <1>1, <1>2, <1>3 DEF TypeOK, CountsExact
<1> QED
  BY <1>4, <1>5 DEF CountsExact

-----------------------------------------------------------------------------
LEMMA LockInitOK == Init => LockInv
<1> SUFFICES ASSUME Init PROVE LockInv
  OBVIOUS
<1>1. TypeOK
  <2>1. 0 \in 0 .. STRIPES /\ 0 \in Nat
    BY StripesPositive
  <2>2. "idle" \in Locations
    BY DEF Locations
  <2>3. writing \in BOOLEAN /\ writers \in Threads \cup {NoThread}
    BY DEF Init
  <2>4. mine \in [Threads -> 0 .. STRIPES] /\ next \in [Threads -> 0 .. STRIPES]
    BY <2>1 DEF Init
  <2>5. assigned \in Nat /\ readers \in [Stripes -> Nat]
    BY <2>1 DEF Init
  <2>6. pc \in [Threads -> Locations]
    BY <2>2 DEF Init
  <2> QED
    BY <2>3, <2>4, <2>5, <2>6 DEF TypeOK
<1>2. ASSUME NEW s \in Stripes PROVE readers[s] = Cardinality(On(s))
  <2>1. On(s) = {}
    BY DEF Init, On, Counted
  <2> QED
    BY <1>2, <2>1, FS_EmptySet DEF Init
<1> QED
  BY <1>1, <1>2 DEF Init, LockInv, CountsExact, WriterPcs, Counted

LEMMA LockStep == LockInv /\ [Next]_vars => LockInv'
<1> SUFFICES ASSUME LockInv, [Next]_vars PROVE LockInv'
  OBVIOUS
<1> USE StripesPositive, NoThreadIsNone
<1>1. ASSUME NEW t \in Threads, Stripe(t) PROVE LockInv'
  <2>1. \A s \in Stripes : On(s)' = On(s)
    BY <1>1 DEF Stripe, LockInv, TypeOK, On, Counted
  <2>2. TypeOK' /\ CountsExact'
    BY <1>1, <2>1 DEF Stripe, LockInv, TypeOK, CountsExact
  <2> QED
    BY <1>1, <2>2 DEF Stripe, LockInv, TypeOK, Drained, WriterPcs, Counted
<1>2. ASSUME NEW t \in Threads, ReadLock(t) PROVE LockInv'
  <2>1. \A s \in Stripes : On(s)' = On(s)
    BY <1>2, OnUnchanged DEF ReadLock, Goto, LockInv, Counted, Locations
  <2>2. TypeOK' /\ CountsExact'
    BY <1>2, <2>1 DEF ReadLock, Goto, LockInv, TypeOK, CountsExact, Locations
  <2> QED
    BY <1>2, <2>2 DEF ReadLock, Goto, LockInv, TypeOK, Drained, WriterPcs, Counted
<1>3. ASSUME NEW t \in Threads, CountIn(t) PROVE LockInv'
  <2>1. CountsExact'
    BY <1>3, EnterCounts DEF CountIn, Goto, LockInv, Counted
  <2>2. TypeOK'
    BY <1>3, SMTT(30) DEF CountIn, Goto, LockInv, TypeOK, Locations, Stripes, Counted
  <2> QED
    BY <1>3, <2>1, <2>2 DEF CountIn, Goto, LockInv, TypeOK, Drained, WriterPcs, Counted
<1>4. ASSUME NEW t \in Threads, CheckWriting(t) PROVE LockInv'
  <2>1. \A s \in Stripes : On(s)' = On(s)
    BY <1>4, OnUnchanged DEF CheckWriting, Goto, LockInv, Counted, Locations
  <2>2. TypeOK' /\ CountsExact'
    BY <1>4, <2>1 DEF CheckWriting, Goto, LockInv, TypeOK, CountsExact, Locations, Counted
  <2> QED
    BY <1>4, <2>2 DEF CheckWriting, Goto, LockInv, TypeOK, Drained, WriterPcs, Counted
<1>5. ASSUME NEW t \in Threads, StepBack(t) PROVE LockInv'
  <2>1. CountsExact' /\ readers' \in [Stripes -> Nat]
    BY <1>5, LeaveCounts DEF StepBack, Goto, LockInv, Counted, Locations
  <2>2. TypeOK'
    BY <1>5, <2>1 DEF StepBack, Goto, LockInv, TypeOK, Locations
  <2> QED
    BY <1>5, <2>1, <2>2 DEF StepBack, Goto, LockInv, TypeOK, Drained, WriterPcs, Counted
<1>6. ASSUME NEW t \in Threads, SpinReader(t) PROVE LockInv'
  <2>1. \A s \in Stripes : On(s)' = On(s)
    BY <1>6, OnUnchanged DEF SpinReader, Goto, LockInv, Counted, Locations
  <2>2. TypeOK' /\ CountsExact'
    BY <1>6, <2>1 DEF SpinReader, Goto, LockInv, TypeOK, CountsExact, Locations
  <2> QED
    BY <1>6, <2>2 DEF SpinReader, Goto, LockInv, TypeOK, Drained, WriterPcs, Counted
<1>7. ASSUME NEW t \in Threads, ReadUnlock(t) PROVE LockInv'
  <2>1. CountsExact' /\ readers' \in [Stripes -> Nat]
    BY <1>7, LeaveCounts DEF ReadUnlock, Goto, LockInv, Counted, Locations
  <2>2. TypeOK'
    BY <1>7, <2>1 DEF ReadUnlock, Goto, LockInv, TypeOK, Locations
  <2> QED
    BY <1>7, <2>1, <2>2 DEF ReadUnlock, Goto, LockInv, TypeOK, Drained, WriterPcs, Counted
<1>8. ASSUME NEW t \in Threads, WriteLock(t) PROVE LockInv'
  <2>1. \A s \in Stripes : On(s)' = On(s)
    BY <1>8, OnUnchanged DEF WriteLock, Goto, LockInv, Counted, Locations
  <2>2. TypeOK' /\ CountsExact'
    BY <1>8, <2>1 DEF WriteLock, Goto, LockInv, TypeOK, CountsExact, Locations
  <2> QED
    BY <1>8, <2>2 DEF WriteLock, Goto, LockInv, TypeOK, Drained, WriterPcs, Counted
<1>9. ASSUME NEW t \in Threads, Raise(t) PROVE LockInv'
  <2>1. \A s \in Stripes : On(s)' = On(s)
    BY <1>9, OnUnchanged DEF Raise, Goto, LockInv, Counted, Locations
  <2>2. TypeOK' /\ CountsExact'
    BY <1>9, <2>1 DEF Raise, Goto, LockInv, TypeOK, CountsExact, Locations
  <2> QED
    BY <1>9, <2>2 DEF Raise, Goto, LockInv, TypeOK, Drained, WriterPcs, Counted
<1>10. ASSUME NEW t \in Threads, ScanStripe(t) PROVE LockInv'
  <2>1. \A s \in Stripes : On(s)' = On(s)
    BY <1>10, OnUnchanged DEF ScanStripe, LockInv, Counted, Locations
  <2>2. TypeOK' /\ CountsExact'
    BY <1>10, <2>1 DEF ScanStripe, LockInv, TypeOK, CountsExact, Locations
  <2>3. next[t] \in Stripes /\ On(next[t]) = {}
    <3>1. next[t] \in Stripes
      BY <1>10 DEF ScanStripe, LockInv, TypeOK, Stripes
    <3>2. Cardinality(On(next[t])) = 0
      BY <1>10, <3>1 DEF ScanStripe, LockInv, CountsExact
    <3> QED
      BY <3>1, <3>2, OnFinite, FS_EmptySet
  <2>4. Drained(next[t])
    BY <2>3 DEF Drained, On, Counted
  <2>5. \A w \in Threads : pc'[w] = "scan" =>
          next'[w] < STRIPES /\ \A s \in 0 .. next'[w] - 1 : Drained(s)'
    BY <1>10, <2>4 DEF ScanStripe, LockInv, TypeOK, Drained
  <2>6. \A w \in Threads : pc'[w] = "writing" => \A s \in Stripes : Drained(s)'
    <3> SUFFICES ASSUME NEW w \in Threads, pc'[w] = "writing", NEW s \in Stripes
                 PROVE  Drained(s)'
      OBVIOUS
    <3>1. CASE w = t
      <4>1. next[t] + 1 = STRIPES /\ pc[t] = "scan"
        BY <1>10, <3>1 DEF ScanStripe, LockInv, TypeOK
      <4>2. s \in 0 .. next[t] - 1 \/ s = next[t]
        BY <4>1, <2>3 DEF Stripes
      <4>3. Drained(s)
        BY <4>1, <4>2, <2>4 DEF LockInv
      <4> QED
        BY <1>10, <4>3, <4>1 DEF ScanStripe, Drained, LockInv, TypeOK
    <3>2. CASE w # t
      BY <1>10, <3>2 DEF ScanStripe, LockInv, TypeOK, WriterPcs
    <3> QED
      BY <3>1, <3>2
  <2> QED
    BY <1>10, <2>2, <2>5, <2>6 DEF ScanStripe, LockInv, TypeOK, WriterPcs, Counted
<1>11. ASSUME NEW t \in Threads, WriteUnlock(t) PROVE LockInv'
  <2>1. \A s \in Stripes : On(s)' = On(s)
    BY <1>11, OnUnchanged DEF WriteUnlock, Goto, LockInv, Counted, Locations
  <2>2. TypeOK' /\ CountsExact'
    BY <1>11, <2>1 DEF WriteUnlock, Goto, LockInv, TypeOK, CountsExact, Locations
  <2> QED
    BY <1>11, <2>2 DEF WriteUnlock, Goto, LockInv, TypeOK, Drained, WriterPcs, Counted
<1>12. ASSUME NEW t \in Threads, ReleaseWriters(t) PROVE LockInv'
  <2>1. \A s \in Stripes : On(s)' = On(s)
    BY <1>12, OnUnchanged DEF ReleaseWriters, Goto, LockInv, Counted, Locations
  <2>2. TypeOK' /\ CountsExact'
    BY <1>12, <2>1 DEF ReleaseWriters, Goto, LockInv, TypeOK, CountsExact, Locations
  <2> QED
    BY <1>12, <2>2 DEF ReleaseWriters, Goto, LockInv, TypeOK, Drained, WriterPcs, Counted
<1>13. CASE UNCHANGED vars
  BY <1>13 DEF vars, LockInv, TypeOK, CountsExact, On, Drained
<1> QED
  BY <1>1, <1>2, <1>3, <1>4, <1>5, <1>6, <1>7, <1>8, <1>9, <1>10, <1>11, <1>12, <1>13
  DEF Next, Reader, Writer

LEMMA InvImpliesExclusion == LockInv => Exclusion
<1> SUFFICES ASSUME LockInv, NEW w \in Threads, pc[w] = "writing",
                    NEW t \in Threads \ {w}
             PROVE  pc[t] \notin {"inside", "writing"}
  BY DEF Exclusion
<1>1. pc[t] # "writing"
  BY DEF LockInv, WriterPcs
<1>2. ASSUME pc[t] = "inside" PROVE FALSE
  <2>1. mine[t] # 0 /\ mine[t] - 1 \in Stripes
    BY <1>2, StripesPositive DEF LockInv, TypeOK, Counted, Stripes
  <2>2. Drained(mine[t] - 1)
    BY <2>1 DEF LockInv
  <2> QED
    BY <1>2, <2>1, <2>2 DEF Drained, LockInv, TypeOK
<1> QED
  BY <1>1, <1>2

-----------------------------------------------------------------------------
(* read_lock and write_lock exclude each other, whatever the number of      *)
(* threads, of stripes, and of threads sharing one.                         *)
THEOREM ExclusionHolds == Spec => []Exclusion
<1>1. Spec => []LockInv
  BY LockInitOK, LockStep, PTL DEF Spec
<1> QED
  BY <1>1, InvImpliesExclusion, PTL

(* Every count raised by read_lock is taken back on its own stripe.         *)
THEOREM CountsExactHolds == Spec => [](TypeOK /\ CountsExact)
<1>1. Spec => []LockInv
  BY LockInitOK, LockStep, PTL DEF Spec
<1>2. LockInv => TypeOK /\ CountsExact
  BY DEF LockInv
<1> QED
  BY <1>1, <1>2, PTL

(* The lock is exclusive, and by exact counts.                              *)
THEOREM LockSoundHolds == Spec => []LockSound
<1>1. Exclusion /\ TypeOK /\ CountsExact => LockSound
  BY DEF LockSound
<1> QED
  BY <1>1, ExclusionHolds, CountsExactHolds, PTL

(* A step of the lock is a step of the lock its callers see, or none.       *)
LEMMA LockSimulated ==
  ASSUME LockInv, Exclusion', [Next]_vars
  PROVE  [Rw!RwNext]_(Rw!rwVars)
<1> DEFINE In == {t \in Threads : pc[t] = "inside"}
           Own == {t \in Threads : pc[t] = "writing"}
<1> USE DEF Rw!rwVars
<1>1. ASSUME In' = In, Own' = Own PROVE [Rw!RwNext]_(Rw!rwVars) BY <1>1
<1>2. pc \in [Threads -> Locations] BY DEF LockInv, TypeOK
<1>3. ASSUME NEW t \in Threads, NEW from, NEW to, Goto(t, from, to),
             from \notin {"inside", "writing"}, to \notin {"inside", "writing"}
      PROVE  In' = In /\ Own' = Own
  BY <1>2, <1>3 DEF Goto
<1>4. ASSUME NEW t \in Threads, CheckWriting(t) PROVE [Rw!RwNext]_(Rw!rwVars)
  <2>1. CASE writing
    BY <1>1, <1>3, <1>4, <2>1 DEF CheckWriting
  <2>2. CASE ~writing
    <3>1. Own = {} BY <2>2 DEF LockInv
    <3>2. t \notin In /\ In' = In \cup {t} /\ Own' = Own
      BY <1>2, <1>4, <2>2 DEF CheckWriting, Goto
    <3>3. Rw!ReadLocked(t) BY <3>1, <3>2 DEF Rw!ReadLocked
    <3> QED BY <3>3 DEF Rw!RwNext
  <2> QED BY <2>1, <2>2
<1>5. ASSUME NEW t \in Threads, ReadUnlock(t) PROVE [Rw!RwNext]_(Rw!rwVars)
  <2>1. t \in In /\ In' = In \ {t} /\ Own' = Own BY <1>2, <1>5 DEF ReadUnlock, Goto
  <2>2. Rw!ReadUnlocked(t) BY <2>1 DEF Rw!ReadUnlocked
  <2> QED BY <2>2 DEF Rw!RwNext
<1>6. ASSUME NEW t \in Threads, ScanStripe(t) PROVE [Rw!RwNext]_(Rw!rwVars)
  <2>1. CASE next[t] + 1 # STRIPES
    <3>1. Goto(t, "scan", "scan") BY <1>6, <2>1 DEF ScanStripe, Goto
    <3> QED BY <1>1, <1>3, <3>1
  <2>2. CASE next[t] + 1 = STRIPES
    <3>1. pc[t] = "scan" /\ pc' = [pc EXCEPT ![t] = "writing"] BY <1>6, <2>2 DEF ScanStripe
    <3>2. In' = In /\ Own' = Own \cup {t} BY <1>2, <3>1
    <3>3. Own = {} BY <1>2, <3>1 DEF LockInv, WriterPcs
    <3>4. In' = {} BY <1>2, <3>1 DEF Exclusion
    <3>5. Rw!WriteLocked(t) BY <3>2, <3>3, <3>4 DEF Rw!WriteLocked
    <3> QED BY <3>5 DEF Rw!RwNext
  <2> QED BY <2>1, <2>2
<1>7. ASSUME NEW t \in Threads, WriteUnlock(t) PROVE [Rw!RwNext]_(Rw!rwVars)
  <2>1. pc[t] = "writing" /\ pc' = [pc EXCEPT ![t] = "lowered"] BY <1>7 DEF WriteUnlock, Goto
  <2>2. Own = {t} BY <2>1 DEF LockInv, WriterPcs
  <2>3. In' = In /\ Own' = {} BY <1>2, <2>1, <2>2
  <2>4. Rw!WriteUnlocked(t) BY <2>2, <2>3 DEF Rw!WriteUnlocked
  <2> QED BY <2>4 DEF Rw!RwNext
<1>8. ASSUME NEW t \in Threads, Stripe(t) PROVE [Rw!RwNext]_(Rw!rwVars)
  BY <1>1, <1>8 DEF Stripe
<1>9. ASSUME NEW t \in Threads,
             \/ ReadLock(t) \/ CountIn(t) \/ StepBack(t) \/ SpinReader(t)
             \/ WriteLock(t) \/ Raise(t) \/ ReleaseWriters(t)
      PROVE  [Rw!RwNext]_(Rw!rwVars)
  BY <1>1, <1>3, <1>9
  DEF ReadLock, CountIn, StepBack, SpinReader, WriteLock, Raise, ReleaseWriters
<1>10. CASE UNCHANGED vars BY <1>1, <1>10 DEF vars
<1> QED
  BY <1>4, <1>5, <1>6, <1>7, <1>8, <1>9, <1>10 DEF Next, Reader, Writer

(* The atomic operations of read_lock, write_lock and their unlocks         *)
(* implement a lock whose operations take one step each, for any threads    *)
(* and stripes: what Generations takes of the lock, the lock provides.      *)
THEOREM LockImplementedHolds == Spec => LockImplemented
<1>1. Init => Rw!RwInit BY DEF Init, Rw!RwInit
<1>2. Spec => []LockInv BY LockInitOK, LockStep, PTL DEF Spec
<1> QED BY <1>1, <1>2, ExclusionHolds, LockSimulated, PTL DEF Spec, LockImplemented, Rw!RwSpec

-----------------------------------------------------------------------------
(* The lists of waiters: what each list operation does to the set of nodes  *)
(* on a list whose nodes are each on it once.                               *)

(* list_push puts one more node on the list.                                *)
LEMMA PushFacts ==
  ASSUME NEW S, NEW s \in Seq(S), NEW x \in S
  PROVE  /\ Append(s, x) \in Seq(S) /\ Append(s, x) # <<>>
         /\ Range(Append(s, x)) = Range(s) \cup {x}
         /\ IsInjective(s) /\ x \notin Range(s) => IsInjective(Append(s, x))
<1>1. /\ Append(s, x) \in Seq(S) /\ Len(Append(s, x)) = Len(s) + 1 /\ Len(s) \in Nat
      /\ \A i \in 1 .. Len(s) : Append(s, x)[i] = s[i]
      /\ Append(s, x)[Len(s) + 1] = x
      /\ DOMAIN Append(s, x) = 1 .. Len(s) + 1 /\ DOMAIN s = 1 .. Len(s)
  OBVIOUS
<1>2. Range(Append(s, x)) = Range(s) \cup {x}
  BY <1>1 DEF Range
<1>3. IsInjective(s) /\ x \notin Range(s) => IsInjective(Append(s, x))
  BY <1>1 DEF Range, IsInjective
<1> QED BY <1>1, <1>2, <1>3

(* list_push_front puts it at the head.                                     *)
LEMMA PushFrontFacts ==
  ASSUME NEW S, NEW s \in Seq(S), NEW x \in S
  PROVE  /\ <<x>> \o s \in Seq(S) /\ <<x>> \o s # <<>>
         /\ Range(<<x>> \o s) = Range(s) \cup {x}
         /\ IsInjective(s) /\ x \notin Range(s) => IsInjective(<<x>> \o s)
<1> DEFINE t == <<x>> \o s
<1>1. /\ t \in Seq(S) /\ Len(t) = Len(s) + 1 /\ Len(s) \in Nat
      /\ t[1] = x
      /\ \A i \in 2 .. Len(s) + 1 : t[i] = s[i - 1]
      /\ DOMAIN t = 1 .. Len(s) + 1 /\ DOMAIN s = 1 .. Len(s)
  OBVIOUS
<1> HIDE DEF t
<1>2. Range(t) = Range(s) \cup {x}
  <2>1. ASSUME NEW i \in 1 .. Len(s) + 1 PROVE t[i] \in Range(s) \cup {x}
    <3>1. CASE i = 1 BY <1>1, <3>1
    <3>2. CASE i # 1
      <4>1. i \in 2 .. Len(s) + 1 /\ i - 1 \in DOMAIN s BY <1>1, <3>2
      <4>2. t[i] = s[i - 1] BY <1>1, <4>1
      <4> QED BY <4>1, <4>2 DEF Range
    <3> QED BY <3>1, <3>2
  <2>2. ASSUME NEW i \in 1 .. Len(s) PROVE s[i] \in Range(t)
    <3>1. i + 1 \in 2 .. Len(s) + 1 /\ i = (i + 1) - 1 BY <1>1
    <3>2. i + 1 \in DOMAIN t /\ t[i + 1] = s[i] BY <1>1, <3>1
    <3> QED BY <3>2 DEF Range
  <2>3. x \in Range(t)
    <3>1. 1 \in DOMAIN t /\ t[1] = x BY <1>1
    <3> QED BY <3>1 DEF Range
  <2>4. Range(t) \subseteq Range(s) \cup {x} BY <1>1, <2>1 DEF Range
  <2>5. Range(s) \subseteq Range(t) BY <1>1, <2>2 DEF Range
  <2> QED BY <2>3, <2>4, <2>5
<1>3. IsInjective(s) /\ x \notin Range(s) => IsInjective(t)
  BY <1>1, SMTT(30) DEF Range, IsInjective
<1>4. t # <<>> BY <1>1
<1> QED BY <1>1, <1>2, <1>3, <1>4 DEF t

(* The head of a list, popped, and what is left.                            *)
LEMMA PopFacts ==
  ASSUME NEW S, NEW s \in Seq(S), s # <<>>, IsInjective(s)
  PROVE  /\ Head(s) \in S /\ Head(s) \in Range(s)
         /\ Tail(s) \in Seq(S) /\ IsInjective(Tail(s))
         /\ Range(Tail(s)) = Range(s) \ {Head(s)}
<1> DEFINE t == Tail(s)
<1>1. /\ t \in Seq(S) /\ Len(s) \in Nat /\ Len(s) > 0 /\ Len(t) = Len(s) - 1
      /\ \A i \in 1 .. Len(t) : t[i] = s[i + 1]
      /\ DOMAIN t = 1 .. Len(s) - 1 /\ DOMAIN s = 1 .. Len(s)
      /\ Head(s) = s[1] /\ s[1] \in S
  OBVIOUS
<1> HIDE DEF t
<1>2. Range(t) = Range(s) \ {Head(s)}
  <2>1. ASSUME NEW i \in 1 .. Len(s) - 1 PROVE t[i] \in Range(s) \ {Head(s)}
    <3>1. i + 1 \in DOMAIN s /\ 1 \in DOMAIN s /\ i + 1 # 1 /\ t[i] = s[i + 1] BY <1>1
    <3> QED BY <1>1, <3>1 DEF Range, IsInjective
  <2>2. ASSUME NEW i \in 2 .. Len(s) PROVE s[i] \in Range(t)
    <3>1. i - 1 \in 1 .. Len(t) /\ t[i - 1] = s[i] BY <1>1
    <3> QED BY <1>1, <3>1 DEF Range
  <2> QED BY <1>1, <2>1, <2>2, SMTT(30) DEF Range
<1>3. IsInjective(t)
  BY <1>1, SMTT(30) DEF IsInjective
<1>4. Head(s) \in Range(s) BY <1>1 DEF Range
<1> QED BY <1>1, <1>2, <1>3, <1>4 DEF t

(* list_remove takes one node off the list.                                 *)
LEMMA RemoveFacts ==
  ASSUME NEW S, NEW s \in Seq(S), IsInjective(s), NEW x \in Range(s)
  PROVE  LET t == RemoveAt(s, CHOOSE i \in DOMAIN s : s[i] = x)
         IN  t \in Seq(S) /\ IsInjective(t) /\ Range(t) = Range(s) \ {x}
<1> DEFINE n == CHOOSE i \in DOMAIN s : s[i] = x
           t == RemoveAt(s, n)
           a == SubSeq(s, 1, n - 1)
           b == SubSeq(s, n + 1, Len(s))
<1>1. n \in DOMAIN s /\ s[n] = x
  BY DEF Range
<1>2. DOMAIN s = 1 .. Len(s) /\ Len(s) \in Nat /\ \A i \in 1 .. Len(s) : s[i] \in S
  OBVIOUS
<1> HIDE DEF n
<1>3. /\ a \in Seq(S) /\ Len(a) = n - 1 /\ \A i \in 1 .. n - 1 : a[i] = s[i]
  <2>1. \A i \in 1 .. n - 1 : s[i] \in S BY <1>1, <1>2
  <2>2. 1 \in Int /\ n - 1 \in Int BY <1>1, <1>2
  <2> QED BY <1>1, <1>2, <2>1, <2>2, SubSeqProperties
<1>4. /\ b \in Seq(S) /\ Len(b) = Len(s) - n /\ \A i \in 1 .. Len(s) - n : b[i] = s[n + i]
  <2>1. \A i \in n + 1 .. Len(s) : s[i] \in S BY <1>1, <1>2
  <2>2. n + 1 \in Int /\ Len(s) \in Int BY <1>1, <1>2
  <2> QED BY <1>1, <1>2, <2>1, <2>2, SubSeqProperties
<1> HIDE DEF a, b
<1>5. /\ t \in Seq(S) /\ Len(t) = Len(s) - 1 /\ DOMAIN t = 1 .. Len(s) - 1
      /\ \A i \in 1 .. Len(s) - 1 : t[i] = IF i < n THEN s[i] ELSE s[i + 1]
  <2>1. t = a \o b BY DEF t, RemoveAt, a, b
  <2> HIDE DEF t
  <2>2. /\ t \in Seq(S) /\ Len(t) = Len(s) - 1
        /\ \A i \in 1 .. Len(s) - 1 : t[i] = IF i <= n - 1 THEN a[i] ELSE b[i - (n - 1)]
    <3>1. Len(a) + Len(b) = Len(s) - 1 /\ Len(a) = n - 1 BY <1>1, <1>2, <1>3, <1>4
    <3>2. /\ t \in Seq(S) /\ Len(t) = Len(a) + Len(b)
          /\ \A i \in 1 .. Len(a) + Len(b) : t[i] = IF i <= Len(a) THEN a[i] ELSE b[i - Len(a)]
      BY <1>3, <1>4, <2>1, ConcatProperties
    <3> QED BY <3>1, <3>2
  <2>3. ASSUME NEW i \in 1 .. Len(s) - 1 PROVE t[i] = IF i < n THEN s[i] ELSE s[i + 1]
    <3>1. CASE i < n BY <1>1, <1>2, <1>3, <2>2, <3>1
    <3>2. CASE i >= n
      <4>1. i - (n - 1) \in 1 .. Len(s) - n /\ n + (i - (n - 1)) = i + 1 BY <1>1, <1>2, <3>2
      <4> QED BY <1>1, <1>2, <1>4, <2>2, <3>2, <4>1, SMTT(30)
    <3> QED BY <1>1, <1>2, <3>1, <3>2
  <2> QED BY <1>2, <2>2, <2>3, LenProperties
<1> HIDE DEF t
<1>6. IsInjective(t)
  <2>1. \A i, j \in 1 .. Len(s) : s[i] = s[j] => i = j BY <1>2 DEF IsInjective
  <2> QED BY <1>1, <1>2, <1>5, <2>1, SMTT(30) DEF IsInjective
<1>7. Range(t) = Range(s) \ {x}
  <2>1. ASSUME NEW i \in 1 .. Len(s) - 1 PROVE t[i] \in Range(s) \ {x}
    <3>1. CASE i < n
      <4>1. t[i] = s[i] /\ i \in DOMAIN s /\ i # n BY <1>1, <1>2, <1>5, <3>1
      <4> QED BY <1>1, <4>1 DEF Range, IsInjective
    <3>2. CASE i >= n
      <4>1. t[i] = s[i + 1] /\ i + 1 \in DOMAIN s /\ i + 1 # n BY <1>1, <1>2, <1>5, <3>2
      <4> QED BY <1>1, <4>1 DEF Range, IsInjective
    <3> QED BY <1>1, <1>2, <3>1, <3>2
  <2>2. ASSUME NEW i \in 1 .. Len(s), s[i] # x PROVE s[i] \in Range(t)
    <3>1. CASE i < n
      <4>1. t[i] = s[i] /\ i \in DOMAIN t BY <1>1, <1>2, <1>5, <3>1
      <4> QED BY <4>1 DEF Range
    <3>2. CASE i > n
      <4>1. t[i - 1] = s[i] /\ i - 1 \in DOMAIN t BY <1>1, <1>2, <1>5, <3>2
      <4> QED BY <4>1 DEF Range
    <3> QED BY <1>1, <1>2, <2>2, <3>1, <3>2
  <2> QED BY <1>2, <1>5, <2>1, <2>2 DEF Range
<1> QED BY <1>5, <1>6, <1>7 DEF t, n

(* The first m nodes of a list and the rest share no node; the first are m. *)
LEMMA SplitFacts ==
  ASSUME NEW S, NEW s \in Seq(S), IsInjective(s), NEW m \in 0 .. Len(s)
  PROVE  LET a == SubSeq(s, 1, m)
             b == SubSeq(s, m + 1, Len(s))
         IN  /\ a \in Seq(S) /\ Len(a) = m
             /\ b \in Seq(S) /\ IsInjective(b) /\ (m = Len(s) => b = <<>>)
             /\ Range(a) \cup Range(b) = Range(s)
             /\ Range(a) \cap Range(b) = {}
             /\ IsFiniteSet(Range(a)) /\ Cardinality(Range(a)) = m
<1> DEFINE a == SubSeq(s, 1, m)
           b == SubSeq(s, m + 1, Len(s))
<1>1. DOMAIN s = 1 .. Len(s) /\ Len(s) \in Nat /\ \A i \in 1 .. Len(s) : s[i] \in S
  OBVIOUS
<1>2. a \in Seq(S) /\ Len(a) = m /\ DOMAIN a = 1 .. m /\ \A i \in 1 .. m : a[i] = s[i]
  <2>1. \A i \in 1 .. m : s[i] \in S BY <1>1
  <2>2. 1 \in Int /\ m \in Int BY <1>1
  <2>3. a \in Seq(S) /\ Len(a) = m /\ \A i \in 1 .. m : a[i] = s[i]
    BY <1>1, <2>1, <2>2, SubSeqProperties
  <2> QED BY <2>3, LenProperties
<1>3. /\ b \in Seq(S) /\ Len(b) = Len(s) - m /\ DOMAIN b = 1 .. Len(s) - m
      /\ \A i \in 1 .. Len(s) - m : b[i] = s[m + i]
  <2>1. \A i \in m + 1 .. Len(s) : s[i] \in S BY <1>1
  <2>2. m + 1 \in Int /\ Len(s) \in Int BY <1>1
  <2>3. /\ b \in Seq(S) /\ Len(b) = IF m + 1 <= Len(s) THEN Len(s) - (m + 1) + 1 ELSE 0
        /\ \A i \in 1 .. Len(s) - (m + 1) + 1 : b[i] = s[(m + 1) + i - 1]
    BY <2>1, <2>2, SubSeqProperties
  <2> HIDE DEF b
  <2>4. b \in Seq(S) /\ Len(b) = Len(s) - m
    <3>1. CASE m + 1 <= Len(s) BY <1>1, <2>3, <3>1
    <3>2. CASE m = Len(s) BY <1>1, <2>3, <3>2
    <3>3. m + 1 <= Len(s) \/ m = Len(s)
      <4>1. m \in Nat /\ m <= Len(s) /\ Len(s) \in Nat BY <1>1
      <4> QED BY <4>1
    <3> QED BY <3>1, <3>2, <3>3
  <2>5. ASSUME NEW i \in 1 .. Len(s) - m PROVE b[i] = s[m + i]
    <3>1. i \in 1 .. Len(s) - (m + 1) + 1 /\ (m + 1) + i - 1 = m + i BY <1>1
    <3> QED BY <2>3, <3>1
  <2> QED BY <2>4, <2>5, LenProperties
<1> HIDE DEF a, b
<1>4. \A i, j \in 1 .. Len(s) : s[i] = s[j] => i = j BY <1>1 DEF IsInjective
<1>5. IsInjective(b) BY <1>1, <1>3, <1>4 DEF IsInjective
<1>6. Range(a) \cap Range(b) = {}
  BY <1>1, <1>2, <1>3, <1>4, SMTT(30) DEF Range
<1>7. Range(a) \cup Range(b) = Range(s)
  <2>1. ASSUME NEW i \in 1 .. Len(s) PROVE s[i] \in Range(a) \cup Range(b)
    <3>1. CASE i <= m
      <4>1. i \in DOMAIN a /\ a[i] = s[i] BY <1>1, <1>2, <3>1
      <4> QED BY <4>1 DEF Range
    <3>2. CASE i > m
      <4>1. i - m \in DOMAIN b /\ b[i - m] = s[i] BY <1>1, <1>3, <3>2
      <4> QED BY <4>1 DEF Range
    <3> QED BY <1>1, <3>1, <3>2
  <2>2. \A i \in 1 .. m : a[i] \in Range(s) BY <1>1, <1>2 DEF Range
  <2>3. \A i \in 1 .. Len(s) - m : b[i] \in Range(s)
    <3>1. ASSUME NEW i \in 1 .. Len(s) - m PROVE m + i \in DOMAIN s /\ b[i] = s[m + i]
      BY <1>1, <1>3
    <3> QED BY <3>1 DEF Range
  <2>4. Range(a) \subseteq Range(s) BY <1>2, <2>2 DEF Range
  <2>5. Range(b) \subseteq Range(s) BY <1>3, <2>3 DEF Range
  <2>6. Range(s) \subseteq Range(a) \cup Range(b)
    <3>1. ASSUME NEW y \in Range(s) PROVE y \in Range(a) \cup Range(b)
      <4>1. PICK i \in DOMAIN s : s[i] = y BY DEF Range
      <4> QED BY <1>1, <2>1, <4>1
    <3> QED BY <3>1
  <2> QED BY <2>4, <2>5, <2>6
<1>8. IsFiniteSet(Range(a)) /\ Cardinality(Range(a)) = m
  <2>1. a \in Bijection(1 .. m, Range(a))
    <3>1. a \in [1 .. m -> Range(a)] BY <1>2, LenProperties DEF Range
    <3>2. \A i, j \in 1 .. m : a[i] = a[j] => i = j BY <1>1, <1>2, <1>4
    <3>3. \A x \in Range(a) : \E i \in 1 .. m : a[i] = x BY <1>2 DEF Range
    <3> QED BY <1>2, <3>1, <3>2, <3>3, Fun_IsBij
  <2>2. ExistsBijection(1 .. m, Range(a)) BY <2>1 DEF ExistsBijection
  <2>3. m \in Nat BY <1>1
  <2> QED BY <2>2, <2>3, FS_CountingElements, FS_NatBijection
<1>9. m = Len(s) => b = <<>> BY <1>1, <1>3, EmptySeq
<1> QED BY <1>2, <1>3, <1>5, <1>6, <1>7, <1>8, <1>9 DEF a, b

-----------------------------------------------------------------------------
(* loop.Sema                                                                *)

(* A fiber whose deadline passed is on the list still, or was marked; one   *)
(* that a post woke was marked.                                             *)
ExpiredFound ==
  \A f \in SemaFibers :
    /\ waiting[f] = "expired" => f \in signalled \/ f \in Range(waiters)
    /\ waiting[f] = "woken" => f \in signalled

(* PostsConserved and what ReturnsFalse needs of a deadline that passed.    *)
SemaInv == PostsConserved /\ ExpiredFound

LEMMA SemaInitOK == SemaInit => SemaInv
<1> SUFFICES ASSUME SemaInit PROVE SemaInv
  OBVIOUS
<1> USE DEF SemaInit
<1>1. waiters \in Seq(SemaFibers) /\ DOMAIN waiters = {} /\ Range(waiters) = {}
  BY DEF Range
<1>2. SemaTypeOK BY <1>1, MaxPostsNat DEF SemaTypeOK
<1>3. PostsKept BY FS_EmptySet DEF PostsKept
<1>4. NodesOnStack BY <1>1 DEF NodesOnStack, IsInjective
<1> QED BY <1>1, <1>2, <1>3, <1>4 DEF SemaInv, PostsConserved, NoCountBesideWaiter, ExpiredFound

(* A wait that finds a count takes it.                                      *)
LEMMA WaitTakesOK ==
  ASSUME SemaInv, NEW f \in SemaFibers, WaitTakes(f)
  PROVE  SemaInv'
<1>1. count - 1 \in Nat BY DEF SemaInv, PostsConserved, SemaTypeOK, WaitTakes
<1>2. SemaTypeOK' BY <1>1 DEF SemaInv, PostsConserved, SemaTypeOK, WaitTakes
<1>3. PostsKept'
  <2>1. Cardinality(signalled) \in Nat
    BY SemaFibersFinite, FS_Subset, FS_CardinalityType DEF SemaInv, PostsConserved, SemaTypeOK
  <2> QED BY <2>1, <1>1 DEF SemaInv, PostsConserved, SemaTypeOK, PostsKept, WaitTakes
<1>4. NodesOnStack' BY DEF SemaInv, PostsConserved, NodesOnStack, WaitTakes
<1>5. NoCountBesideWaiter'
  BY <1>1 DEF SemaInv, PostsConserved, SemaTypeOK, NoCountBesideWaiter, WaitTakes
<1>6. ExpiredFound' BY DEF SemaInv, ExpiredFound, WaitTakes
<1> QED BY <1>2, <1>3, <1>4, <1>5, <1>6 DEF SemaInv, PostsConserved

(* One that finds none parks on a node of its own.                          *)
LEMMA WaitParksOK ==
  ASSUME SemaInv, NEW f \in SemaFibers, WaitParks(f)
  PROVE  SemaInv'
<1> USE DEF WaitParks
<1>1. SemaTypeOK /\ PostsKept /\ NodesOnStack /\ NoCountBesideWaiter /\ ExpiredFound
  BY DEF SemaInv, PostsConserved
<1>2. f \notin Range(waiters) /\ f \notin signalled BY <1>1 DEF NodesOnStack
<1>3. waiters' \in Seq(SemaFibers) /\ Range(waiters') = Range(waiters) \cup {f} /\ IsInjective(waiters')
  BY <1>1, <1>2, PushFacts DEF SemaTypeOK, NodesOnStack
<1>4. /\ waiting' \in [SemaFibers -> {"out", "parked", "woken", "expired"}]
      /\ \A g \in SemaFibers : waiting'[g] = IF g = f THEN "parked" ELSE waiting[g]
  BY <1>1 DEF SemaTypeOK
<1>5. SemaTypeOK' BY <1>1, <1>3, <1>4 DEF SemaTypeOK
<1>6. PostsKept' BY <1>1 DEF PostsKept
<1>7. NodesOnStack' BY <1>1, <1>2, <1>3, <1>4 DEF NodesOnStack, SemaTypeOK
<1>8. NoCountBesideWaiter' BY <1>1, <1>3, <1>4 DEF NoCountBesideWaiter, SemaTypeOK
<1>9. ExpiredFound' BY <1>1, <1>3, <1>4 DEF ExpiredFound
<1> QED BY <1>5, <1>6, <1>7, <1>8, <1>9 DEF SemaInv, PostsConserved

LEMMA ExpiresOK ==
  ASSUME SemaInv, NEW f \in SemaFibers, Expires(f)
  PROVE  SemaInv'
<1> USE DEF Expires
<1>1. SemaTypeOK /\ PostsKept /\ NodesOnStack /\ NoCountBesideWaiter /\ ExpiredFound
  BY DEF SemaInv, PostsConserved
<1>2. /\ waiting' \in [SemaFibers -> {"out", "parked", "woken", "expired"}]
      /\ \A g \in SemaFibers : waiting'[g] = IF g = f THEN "expired" ELSE waiting[g]
  BY <1>1 DEF SemaTypeOK
<1>3. SemaTypeOK' BY <1>1, <1>2 DEF SemaTypeOK
<1>4. PostsKept' BY <1>1 DEF PostsKept
<1>5. Range(waiters) \subseteq SemaFibers BY <1>1 DEF SemaTypeOK, Range
<1>6. NodesOnStack' BY <1>1, <1>2, <1>5 DEF NodesOnStack, SemaTypeOK
<1>7. NoCountBesideWaiter' BY <1>1, <1>2 DEF NoCountBesideWaiter
<1>8. ExpiredFound' BY <1>1, <1>2 DEF ExpiredFound, NoCountBesideWaiter
<1> QED BY <1>3, <1>4, <1>6, <1>7, <1>8 DEF SemaInv, PostsConserved

(* A post serves as many waiters as it can and keeps the rest of its count. *)
LEMMA PostOK ==
  ASSUME SemaInv, NEW n \in 1 .. MaxPosts, Post(n)
  PROVE  SemaInv'
<1>1. SemaTypeOK /\ PostsKept /\ NodesOnStack /\ NoCountBesideWaiter /\ ExpiredFound
  BY DEF SemaInv, PostsConserved
<1>2. Len(waiters) \in Nat /\ n \in Nat /\ count \in Nat /\ waiters \in Seq(SemaFibers)
  BY <1>1, MaxPostsNat DEF SemaTypeOK
<1>3. PICK m \in 0 .. Len(waiters) : m = IF count + n < Len(waiters) THEN count + n ELSE Len(waiters)
  BY <1>2
<1>4. m \in Nat /\ m <= count + n /\ (m < Len(waiters) => m = count + n)
  BY <1>2, <1>3
<1> DEFINE a == SubSeq(waiters, 1, m)
           b == SubSeq(waiters, m + 1, Len(waiters))
<1>5. /\ a \in Seq(SemaFibers) /\ Len(a) = m
      /\ b \in Seq(SemaFibers) /\ IsInjective(b) /\ (m = Len(waiters) => b = <<>>)
      /\ Range(a) \cup Range(b) = Range(waiters)
      /\ Range(a) \cap Range(b) = {}
      /\ IsFiniteSet(Range(a)) /\ Cardinality(Range(a)) = m
  BY <1>1, <1>2, SplitFacts DEF NodesOnStack
<1>6. /\ count' = count + n - m
      /\ waiters' = b
      /\ signalled' = signalled \cup Range(a)
      /\ waiting' = [f \in SemaFibers |-> IF f \in Range(a) /\ waiting[f] = "parked" THEN "woken" ELSE waiting[f]]
      /\ posted' = posted + n /\ posted + n <= MaxPosts
      /\ taken' = taken
  BY <1>3, <1>5 DEF Post
<1> HIDE DEF a, b
<1>7. Range(waiters) \subseteq SemaFibers BY <1>2 DEF Range
<1>8. \A f \in SemaFibers : waiting'[f] = IF f \in Range(a) /\ waiting[f] = "parked" THEN "woken" ELSE waiting[f]
  BY <1>6
<1>9. count' \in Nat /\ (count' > 0 => m = Len(waiters))
  BY <1>2, <1>3, <1>4, <1>6
<1>10. SemaTypeOK'
  <2>1. waiting' \in [SemaFibers -> {"out", "parked", "woken", "expired"}] BY <1>1, <1>6 DEF SemaTypeOK
  <2>2. signalled' \in SUBSET SemaFibers BY <1>1, <1>5, <1>6, <1>7 DEF SemaTypeOK
  <2>3. posted' \in 0 .. MaxPosts BY <1>1, <1>2, <1>6, MaxPostsNat DEF SemaTypeOK
  <2> QED BY <1>1, <1>5, <1>6, <1>9, <2>1, <2>2, <2>3 DEF SemaTypeOK
<1>11. PostsKept'
  <2>1. IsFiniteSet(signalled) /\ Cardinality(signalled) \in Nat
    BY <1>1, SemaFibersFinite, FS_Subset, FS_CardinalityType DEF SemaTypeOK
  <2>2. signalled \cap Range(a) = {} BY <1>1, <1>5 DEF NodesOnStack
  <2>3. Cardinality(signalled') = Cardinality(signalled) + m
    <3>1. Cardinality(signalled \cup Range(a))
            = Cardinality(signalled) + Cardinality(Range(a)) - Cardinality(signalled \cap Range(a))
      BY <1>5, <2>1, FS_Union
    <3>2. Cardinality(signalled \cap Range(a)) = 0 BY <2>2, FS_EmptySet
    <3> QED BY <1>4, <1>5, <1>6, <2>1, <3>1, <3>2
  <2> QED BY <1>1, <1>2, <1>4, <1>6, <2>1, <2>3 DEF PostsKept, SemaTypeOK
<1>12. NodesOnStack'
  <2>1. IsInjective(waiters') BY <1>5, <1>6
  <2>2. ASSUME NEW f \in Range(b) PROVE waiting'[f] \in {"parked", "expired"} /\ f \notin signalled'
    BY <1>1, <1>5, <1>6, <1>7, <1>8 DEF NodesOnStack
  <2>3. ASSUME NEW f \in signalled' PROVE waiting'[f] # "out"
    <3>1. f \in SemaFibers BY <1>10 DEF SemaTypeOK
    <3>2. f \in signalled \/ f \in Range(waiters) BY <1>5, <1>6
    <3> QED BY <1>1, <1>8, <3>1, <3>2 DEF NodesOnStack
  <2> QED BY <1>6, <2>1, <2>2, <2>3 DEF NodesOnStack
<1>13. NoCountBesideWaiter'
  <2>1. ASSUME NEW f \in SemaFibers, waiting'[f] = "parked" PROVE f \in Range(b)
    BY <1>1, <1>5, <1>8, <2>1 DEF NoCountBesideWaiter
  <2> QED BY <1>5, <1>6, <1>9, <2>1 DEF NoCountBesideWaiter
<1>14. ExpiredFound'
  <2>1. ASSUME NEW f \in SemaFibers, waiting'[f] = "expired"
        PROVE  f \in signalled \cup Range(a) \/ f \in Range(b)
    BY <1>1, <1>5, <1>8, <2>1 DEF ExpiredFound
  <2>2. ASSUME NEW f \in SemaFibers, waiting'[f] = "woken"
        PROVE  f \in signalled \cup Range(a)
    BY <1>1, <1>8, <2>2 DEF ExpiredFound
  <2> QED BY <1>6, <2>1, <2>2 DEF ExpiredFound
<1> QED BY <1>10, <1>11, <1>12, <1>13, <1>14 DEF SemaInv, PostsConserved

(* The mark is one post taken.                                              *)
LEMMA ReturnsTrueOK ==
  ASSUME SemaInv, NEW f \in SemaFibers, ReturnsTrue(f)
  PROVE  SemaInv'
<1> USE DEF ReturnsTrue
<1>1. SemaTypeOK /\ PostsKept /\ NodesOnStack /\ NoCountBesideWaiter /\ ExpiredFound
  BY DEF SemaInv, PostsConserved
<1>2. /\ waiting' \in [SemaFibers -> {"out", "parked", "woken", "expired"}]
      /\ \A g \in SemaFibers : waiting'[g] = IF g = f THEN "out" ELSE waiting[g]
  BY <1>1 DEF SemaTypeOK
<1>3. SemaTypeOK' BY <1>1, <1>2 DEF SemaTypeOK
<1>4. PostsKept'
  <2>1. IsFiniteSet(signalled) BY <1>1, SemaFibersFinite, FS_Subset DEF SemaTypeOK
  <2>2. Cardinality(signalled') = Cardinality(signalled) - 1 /\ Cardinality(signalled) \in Nat
    BY <2>1, FS_RemoveElement, FS_CardinalityType
  <2> QED BY <1>1, <2>2 DEF PostsKept, SemaTypeOK
<1>5. Range(waiters) \subseteq SemaFibers BY <1>1 DEF SemaTypeOK, Range
<1>6. NodesOnStack' BY <1>1, <1>2, <1>5 DEF NodesOnStack, SemaTypeOK
<1>7. NoCountBesideWaiter' BY <1>1, <1>2 DEF NoCountBesideWaiter
<1>8. ExpiredFound' BY <1>1, <1>2 DEF ExpiredFound
<1> QED BY <1>3, <1>4, <1>6, <1>7, <1>8 DEF SemaInv, PostsConserved

(* A waiter that leaves with nothing takes its node along.                  *)
LEMMA ReturnsFalseOK ==
  ASSUME SemaInv, NEW f \in SemaFibers, ReturnsFalse(f)
  PROVE  SemaInv'
<1>1. SemaTypeOK /\ PostsKept /\ NodesOnStack /\ NoCountBesideWaiter /\ ExpiredFound
  BY DEF SemaInv, PostsConserved
<1>2. f \in Range(waiters) BY <1>1 DEF ExpiredFound, ReturnsFalse
<1>3. waiters' \in Seq(SemaFibers) /\ IsInjective(waiters') /\ Range(waiters') = Range(waiters) \ {f}
  <2>1. waiters' = RemoveAt(waiters, CHOOSE i \in DOMAIN waiters : waiters[i] = f)
    BY DEF ReturnsFalse, Unlinked
  <2> QED BY <1>1, <1>2, <2>1, RemoveFacts DEF SemaTypeOK, NodesOnStack
<1>4. /\ waiting' \in [SemaFibers -> {"out", "parked", "woken", "expired"}]
      /\ \A g \in SemaFibers : waiting'[g] = IF g = f THEN "out" ELSE waiting[g]
  BY <1>1 DEF SemaTypeOK, ReturnsFalse
<1>5. count' = count /\ signalled' = signalled /\ posted' = posted /\ taken' = taken /\ f \notin signalled
  BY DEF ReturnsFalse
<1>6. SemaTypeOK' BY <1>1, <1>3, <1>4, <1>5 DEF SemaTypeOK
<1>7. PostsKept' BY <1>1, <1>5 DEF PostsKept
<1>8. Range(waiters) \subseteq SemaFibers BY <1>1 DEF SemaTypeOK, Range
<1>9. NodesOnStack' BY <1>1, <1>3, <1>4, <1>5, <1>8 DEF NodesOnStack, SemaTypeOK
<1>10. NoCountBesideWaiter'
  <2>1. count > 0 => waiters' = <<>> BY <1>1, <1>2 DEF NoCountBesideWaiter, Range
  <2> QED BY <1>1, <1>3, <1>4, <1>5, <2>1 DEF NoCountBesideWaiter
<1>11. ExpiredFound' BY <1>1, <1>3, <1>4, <1>5 DEF ExpiredFound
<1> QED BY <1>6, <1>7, <1>9, <1>10, <1>11 DEF SemaInv, PostsConserved

LEMMA SemaStep == SemaInv /\ [SemaNext]_semaVars => SemaInv'
<1> SUFFICES ASSUME SemaInv, [SemaNext]_semaVars PROVE SemaInv'
  OBVIOUS
<1>1. CASE UNCHANGED semaVars
  BY <1>1 DEF semaVars, SemaInv, PostsConserved, SemaTypeOK, PostsKept, NodesOnStack,
     NoCountBesideWaiter, ExpiredFound
<1>2. ASSUME NEW f \in SemaFibers, WaitTakes(f) PROVE SemaInv' BY <1>2, WaitTakesOK
<1>3. ASSUME NEW f \in SemaFibers, WaitParks(f) PROVE SemaInv' BY <1>3, WaitParksOK
<1>4. ASSUME NEW f \in SemaFibers, Expires(f) PROVE SemaInv' BY <1>4, ExpiresOK
<1>5. ASSUME NEW f \in SemaFibers, Returns(f) PROVE SemaInv'
  BY <1>5, ReturnsTrueOK, ReturnsFalseOK DEF Returns
<1>6. ASSUME NEW n \in 1 .. MaxPosts, Post(n) PROVE SemaInv' BY <1>6, PostOK
<1> QED BY <1>1, <1>2, <1>3, <1>4, <1>5, <1>6 DEF SemaNext

(* Whatever the number of fibers and posts, sema_post's count reaches one    *)
(* waiter or stays: none is lost to a deadline that passes as it arrives,    *)
(* none is taken twice, and no node of a fiber that returned is on the list. *)
THEOREM PostsConservedHolds == SemaSpec => []PostsConserved
<1>1. SemaInv => PostsConserved BY DEF SemaInv
<1> QED BY <1>1, SemaInitOK, SemaStep, PTL DEF SemaSpec

(* What the permits and the sleepers are: a newcomer finds a count only     *)
(* when every sleeper has its mark, and a sleeper that leaves with nothing  *)
(* leaves marks for others only.                                            *)
LEMMA PermitFacts ==
  ASSUME SemaInv
  PROVE  LET in == {f \in SemaFibers : waiting[f] # "out"}
             free == count + Cardinality(signalled)
         IN /\ count > 0 => free > Cardinality(in)
            /\ count = 0 => free <= Cardinality(in)
            /\ signalled # {} => free > 0
            /\ \A f \in in : count = 0 /\ f \notin signalled => free < Cardinality(in)
<1> DEFINE in == {f \in SemaFibers : waiting[f] # "out"}
<1>1. SemaTypeOK /\ PostsKept /\ NodesOnStack /\ NoCountBesideWaiter /\ ExpiredFound
  BY DEF SemaInv, PostsConserved
<1>2. IsFiniteSet(in) /\ IsFiniteSet(signalled)
  <2>1. in \subseteq SemaFibers /\ signalled \subseteq SemaFibers BY <1>1 DEF SemaTypeOK
  <2> QED BY <2>1, SemaFibersFinite, FS_Subset
<1>3. PICK s \in Nat, i \in Nat : s = Cardinality(signalled) /\ i = Cardinality(in)
  BY <1>2, FS_CardinalityType
<1>4. signalled \subseteq in BY <1>1 DEF NodesOnStack, SemaTypeOK
<1>5. s <= i BY <1>2, <1>3, <1>4, FS_Subset
<1>6. ASSUME count > 0 PROVE s = i
  <2>1. Range(waiters) = {} BY <1>1, <1>6 DEF NoCountBesideWaiter, Range
  <2>2. in \subseteq signalled BY <1>1, <2>1 DEF NoCountBesideWaiter, ExpiredFound, SemaTypeOK
  <2>3. in = signalled BY <1>4, <2>2
  <2> HIDE DEF in
  <2> QED BY <1>3, <2>3
<1>7. ASSUME signalled # {} PROVE s > 0 BY <1>2, <1>3, <1>7, FS_EmptySet
<1>8. ASSUME NEW f \in in, f \notin signalled PROVE s < i
  <2>1. signalled # in BY <1>8
  <2>2. s # i BY <1>2, <1>3, <1>4, <2>1, FS_Subset
  <2> QED BY <1>5, <2>2
<1>9. count \in Nat BY <1>1 DEF SemaTypeOK
<1> QED BY <1>3, <1>5, <1>6, <1>7, <1>8, <1>9

LEMMA SameCount == \A S : Permits!Cardinality(S) = Cardinality(S)
  BY DEF Permits!Cardinality, Cardinality, Permits!IsFiniteSet, IsFiniteSet

(* A step of the semaphore is a step of the number its callers see, or none. *)
LEMMA SemaSimulated ==
  ASSUME SemaInv, SemaInv', [SemaNext]_semaVars
  PROVE  [Permits!PermitsNext]_(Permits!permitVars)
<1> DEFINE in == {f \in SemaFibers : waiting[f] # "out"}
           free == count + Cardinality(signalled)
<1> USE DEF Permits!permitVars
<1>1. /\ free \in Nat /\ free' \in Nat /\ free = posted - taken /\ free' = posted' - taken'
      /\ posted \in Nat /\ taken \in Nat
  <2>1. /\ count \in Nat /\ posted \in Nat /\ taken \in Nat /\ signalled \subseteq SemaFibers
        /\ count' \in Nat /\ posted' \in Nat /\ taken' \in Nat /\ signalled' \subseteq SemaFibers
    BY MaxPostsNat DEF SemaInv, PostsConserved, SemaTypeOK
  <2>2. PICK c \in Nat, d \in Nat : c = Cardinality(signalled) /\ d = Cardinality(signalled')
    BY <2>1, SemaFibersFinite, FS_Subset, FS_CardinalityType
  <2>3. posted = count + taken + c /\ posted' = count' + taken' + d
    BY <2>2 DEF SemaInv, PostsConserved, PostsKept
  <2> QED BY <2>1, <2>2, <2>3
<1>2. waiting \in [SemaFibers -> {"out", "parked", "woken", "expired"}]
  BY DEF SemaInv, PostsConserved, SemaTypeOK
<1>3. ASSUME NEW f \in SemaFibers, WaitTakes(f) PROVE Permits!PermitsNext
  <2>1. f \notin in /\ in' = in /\ taken' = taken + 1 /\ posted' = posted BY <1>3 DEF WaitTakes
  <2>2. free > Cardinality(in) BY <1>3, PermitFacts DEF WaitTakes
  <2>3. free' = free - 1 BY <1>1, <2>1
  <2>4. Permits!TakesAtOnce(f) BY <2>1, <2>2, <2>3, SameCount DEF Permits!TakesAtOnce
  <2> QED BY <2>4 DEF Permits!PermitsNext
<1>4. ASSUME NEW f \in SemaFibers, WaitParks(f) PROVE Permits!PermitsNext
  <2>1. f \notin in /\ in' = in \cup {f} /\ taken' = taken /\ posted' = posted
    BY <1>2, <1>4 DEF WaitParks
  <2>2. free <= Cardinality(in) BY <1>4, PermitFacts DEF WaitParks
  <2>3. free' = free BY <1>1, <2>1
  <2>4. Permits!Sleeps(f) BY <2>1, <2>2, <2>3, SameCount DEF Permits!Sleeps
  <2> QED BY <2>4 DEF Permits!PermitsNext
<1>5. ASSUME NEW n \in 1 .. MaxPosts, Post(n) PROVE Permits!PermitsNext
  <2>1. posted' = posted + n /\ taken' = taken BY <1>5 DEF Post
  <2>2. in' = in BY <1>2, <1>5 DEF Post
  <2>3. free' > free BY <1>1, <2>1, MaxPostsNat
  <2>4. Permits!Posted BY <1>1, <2>1, <2>2, <2>3 DEF Permits!Posted
  <2> QED BY <2>4 DEF Permits!PermitsNext
<1>6. ASSUME NEW f \in SemaFibers, Expires(f) PROVE in' = in /\ free' = free /\ taken' = taken
  BY <1>2, <1>6 DEF Expires
<1>7. ASSUME NEW f \in SemaFibers, ReturnsTrue(f) PROVE Permits!PermitsNext
  <2>1. f \in in /\ in' = in \ {f} /\ taken' = taken + 1 /\ posted' = posted
    BY <1>2, <1>7 DEF ReturnsTrue
  <2>2. free > 0 BY <1>7, PermitFacts DEF ReturnsTrue
  <2>3. free' = free - 1 BY <1>1, <2>1
  <2>4. Permits!Served(f) BY <2>1, <2>2, <2>3 DEF Permits!Served
  <2> QED BY <2>4 DEF Permits!PermitsNext
<1>8. ASSUME NEW f \in SemaFibers, ReturnsFalse(f) PROVE Permits!PermitsNext
  <2>1. f \in in /\ in' = in \ {f} /\ taken' = taken /\ posted' = posted
    BY <1>2, <1>8 DEF ReturnsFalse
  <2>2. f \in Range(waiters) BY <1>8 DEF ReturnsFalse, SemaInv, ExpiredFound
  <2>3. count = 0
    BY <2>2 DEF SemaInv, PostsConserved, NoCountBesideWaiter, SemaTypeOK, Range
  <2>4. free < Cardinality(in) BY <1>8, <2>1, <2>3, PermitFacts DEF ReturnsFalse
  <2>5. free' = free BY <1>1, <2>1
  <2>6. Permits!GivesUp(f) BY <2>1, <2>4, <2>5, SameCount DEF Permits!GivesUp
  <2> QED BY <2>6 DEF Permits!PermitsNext
<1>9. CASE UNCHANGED semaVars BY <1>9 DEF semaVars
<1> QED BY <1>3, <1>4, <1>5, <1>6, <1>7, <1>8, <1>9 DEF SemaNext, Returns

(* For any fibers and posts, sema_wait_until and sema_post implement a      *)
(* number of permits: a wait returns true for a permit of its own, no       *)
(* newcomer takes one a sleeper could have, and a wait returns false only   *)
(* when the others waiting can use all there are.                           *)
THEOREM SemaImplementedHolds == SemaSpec => SemaImplemented
<1>1. SemaInit => Permits!PermitsInit BY FS_EmptySet DEF SemaInit, Permits!PermitsInit
<1>2. SemaSpec => []SemaInv BY SemaInitOK, SemaStep, PTL DEF SemaSpec
<1> QED BY <1>1, <1>2, SemaSimulated, PTL DEF SemaSpec, SemaImplemented, Permits!PermitsSpec

-----------------------------------------------------------------------------
(* loop.Mutex                                                               *)

(* OneHolder without the count: the lock is taken exactly while some fiber  *)
(* holds it, and no two do.                                                 *)
HolderUnique ==
  /\ locked <=> \E f \in LockFibers : doing[f] = "held"
  /\ \A f, g \in LockFibers : doing[f] = "held" /\ doing[g] = "held" => f = g

(* The fibers that arrived and wait are the ones queued or woken, each      *)
(* once: what Takes needs of the history it takes itself out of.            *)
ArrivedExact ==
  /\ IsInjective(arrived)
  /\ \A f \in LockFibers : doing[f] \in {"queued", "woken"} <=> f \in Range(arrived)

MutexInv == MutexTypeOK /\ HolderUnique /\ WakeOnItsWay /\ ArrivedExact

Doings == {"out", "queued", "woken", "held"}

LEMMA MutexInitOK == MutexInit => MutexInv
<1> SUFFICES ASSUME MutexInit PROVE MutexInv
  OBVIOUS
<1> USE DEF MutexInit
<1>1. <<>> \in Seq(LockFibers) /\ IsInjective(<<>>) /\ Range(<<>>) = {}
  BY DEF Range, IsInjective
<1> QED BY <1>1 DEF MutexInv, MutexTypeOK, HolderUnique, WakeOnItsWay, ArrivedExact

LEMMA LockFastOK ==
  ASSUME MutexInv, NEW f \in LockFibers, LockFast(f)
  PROVE  MutexInv'
<1> USE DEF LockFast
<1>1. MutexTypeOK /\ HolderUnique /\ WakeOnItsWay /\ ArrivedExact BY DEF MutexInv
<1>2. /\ doing' \in [LockFibers -> Doings]
      /\ \A g \in LockFibers : doing'[g] = IF g = f THEN "held" ELSE doing[g]
  BY <1>1 DEF MutexTypeOK, Doings
<1>3. MutexTypeOK' BY <1>1, <1>2 DEF MutexTypeOK, Doings
<1>4. HolderUnique' BY <1>1, <1>2 DEF HolderUnique, MutexTypeOK
<1>5. WakeOnItsWay' BY <1>1, <1>2 DEF WakeOnItsWay
<1>6. ArrivedExact' BY <1>1, <1>2 DEF ArrivedExact
<1> QED BY <1>3, <1>4, <1>5, <1>6 DEF MutexInv

LEMMA LockQueueOK ==
  ASSUME MutexInv, NEW f \in LockFibers, LockQueue(f)
  PROVE  MutexInv'
<1> USE DEF LockQueue
<1>1. MutexTypeOK /\ HolderUnique /\ WakeOnItsWay /\ ArrivedExact BY DEF MutexInv
<1>2. /\ doing' \in [LockFibers -> Doings]
      /\ \A g \in LockFibers : doing'[g] = IF g = f THEN "queued" ELSE doing[g]
  BY <1>1 DEF MutexTypeOK, Doings
<1>3. f \notin Range(queue) /\ f \notin Range(arrived) BY <1>1 DEF WakeOnItsWay, ArrivedExact
<1>4. queue' \in Seq(LockFibers) /\ IsInjective(queue') /\ Range(queue') = Range(queue) \cup {f}
  BY <1>1, <1>3, PushFacts DEF MutexTypeOK
<1>5. arrived' \in Seq(LockFibers) /\ IsInjective(arrived') /\ Range(arrived') = Range(arrived) \cup {f}
  BY <1>1, <1>3, PushFacts DEF MutexTypeOK, ArrivedExact
<1>6. MutexTypeOK' BY <1>1, <1>2, <1>4, <1>5 DEF MutexTypeOK, Doings
<1>7. HolderUnique' BY <1>1, <1>2 DEF HolderUnique
<1>8. WakeOnItsWay' BY <1>1, <1>2, <1>4 DEF WakeOnItsWay
<1>9. ArrivedExact' BY <1>1, <1>2, <1>5 DEF ArrivedExact
<1> QED BY <1>6, <1>7, <1>8, <1>9 DEF MutexInv

LEMMA TakesOK ==
  ASSUME MutexInv, NEW f \in LockFibers, Takes(f)
  PROVE  MutexInv'
<1>1. MutexTypeOK /\ HolderUnique /\ WakeOnItsWay /\ ArrivedExact BY DEF MutexInv
<1>2. /\ doing' \in [LockFibers -> Doings]
      /\ \A g \in LockFibers : doing'[g] = IF g = f THEN "held" ELSE doing[g]
  BY <1>1 DEF MutexTypeOK, Doings, Takes
<1>3. doing[f] = "woken" /\ ~locked /\ locked' = TRUE /\ queue' = queue BY DEF Takes
<1>4. f \in Range(arrived) BY <1>1, <1>3 DEF ArrivedExact
<1>5. arrived' \in Seq(LockFibers) /\ IsInjective(arrived') /\ Range(arrived') = Range(arrived) \ {f}
  <2>1. arrived' = RemoveAt(arrived, CHOOSE i \in DOMAIN arrived : arrived[i] = f) BY DEF Takes
  <2> QED BY <1>1, <1>4, <2>1, RemoveFacts DEF MutexTypeOK, ArrivedExact
<1>6. MutexTypeOK' BY <1>1, <1>2, <1>3, <1>5 DEF MutexTypeOK, Doings
<1>7. HolderUnique' BY <1>1, <1>2, <1>3 DEF HolderUnique
<1>8. WakeOnItsWay' BY <1>1, <1>2, <1>3 DEF WakeOnItsWay
<1>9. ArrivedExact' BY <1>1, <1>2, <1>5 DEF ArrivedExact
<1> QED BY <1>6, <1>7, <1>8, <1>9 DEF MutexInv

LEMMA RequeuesOK ==
  ASSUME MutexInv, NEW f \in LockFibers, Requeues(f)
  PROVE  MutexInv'
<1> USE DEF Requeues
<1>1. MutexTypeOK /\ HolderUnique /\ WakeOnItsWay /\ ArrivedExact BY DEF MutexInv
<1>2. /\ doing' \in [LockFibers -> Doings]
      /\ \A g \in LockFibers : doing'[g] = IF g = f THEN "queued" ELSE doing[g]
  BY <1>1 DEF MutexTypeOK, Doings
<1>3. f \notin Range(queue) BY <1>1 DEF WakeOnItsWay
<1>4. queue' \in Seq(LockFibers) /\ IsInjective(queue') /\ Range(queue') = Range(queue) \cup {f}
  BY <1>1, <1>3, PushFrontFacts DEF MutexTypeOK
<1>5. MutexTypeOK' BY <1>1, <1>2, <1>4 DEF MutexTypeOK, Doings
<1>6. HolderUnique' BY <1>1, <1>2 DEF HolderUnique
<1>7. WakeOnItsWay' BY <1>1, <1>2, <1>4 DEF WakeOnItsWay
<1>8. ArrivedExact' BY <1>1, <1>2 DEF ArrivedExact
<1> QED BY <1>5, <1>6, <1>7, <1>8 DEF MutexInv

(* An unlock frees the lock and, when somebody is queued, wakes the head.   *)
LEMMA UnlockOK ==
  ASSUME MutexInv, NEW f \in LockFibers, Unlock(f)
  PROVE  MutexInv'
<1>1. MutexTypeOK /\ HolderUnique /\ WakeOnItsWay /\ ArrivedExact BY DEF MutexInv
<1>2. doing[f] = "held" /\ locked' = FALSE /\ arrived' = arrived BY DEF Unlock
<1>3. CASE queue = <<>>
  <2>1. queue' = queue BY <1>3 DEF Unlock
  <2>2. /\ doing' \in [LockFibers -> Doings]
        /\ \A g \in LockFibers : doing'[g] = IF g = f THEN "out" ELSE doing[g]
    BY <1>1, <1>3 DEF MutexTypeOK, Doings, Unlock
  <2>3. MutexTypeOK' BY <1>1, <1>2, <2>1, <2>2 DEF MutexTypeOK, Doings
  <2>4. HolderUnique' BY <1>1, <1>2, <2>2 DEF HolderUnique
  <2>5. WakeOnItsWay' BY <1>1, <1>2, <1>3, <2>1, <2>2 DEF WakeOnItsWay
  <2>6. ArrivedExact' BY <1>1, <1>2, <2>2 DEF ArrivedExact
  <2> QED BY <2>3, <2>4, <2>5, <2>6 DEF MutexInv
<1>4. CASE queue # <<>>
  <2>1. /\ Head(queue) \in LockFibers /\ Head(queue) \in Range(queue)
        /\ Tail(queue) \in Seq(LockFibers) /\ IsInjective(Tail(queue))
        /\ Range(Tail(queue)) = Range(queue) \ {Head(queue)}
    BY <1>1, <1>4, PopFacts DEF MutexTypeOK
  <2>2. PICK h \in LockFibers : h = Head(queue) BY <2>1
  <2>3. doing[h] = "queued" /\ h # f BY <1>1, <1>2, <2>1, <2>2 DEF WakeOnItsWay
  <2>4. queue' = Tail(queue) /\ doing' = [doing EXCEPT ![f] = "out", ![h] = "woken"]
    BY <1>4, <2>2 DEF Unlock
  <2>5. /\ doing' \in [LockFibers -> Doings]
        /\ \A g \in LockFibers :
             doing'[g] = IF g = f THEN "out" ELSE IF g = h THEN "woken" ELSE doing[g]
    BY <1>1, <2>3, <2>4 DEF MutexTypeOK, Doings
  <2>6. MutexTypeOK' BY <1>1, <1>2, <2>1, <2>4, <2>5 DEF MutexTypeOK, Doings
  <2>7. HolderUnique' BY <1>1, <1>2, <2>5 DEF HolderUnique
  <2>8. WakeOnItsWay' BY <1>1, <1>2, <2>1, <2>2, <2>3, <2>4, <2>5 DEF WakeOnItsWay
  <2>9. ArrivedExact' BY <1>1, <1>2, <2>3, <2>5 DEF ArrivedExact
  <2> QED BY <2>6, <2>7, <2>8, <2>9 DEF MutexInv
<1> QED BY <1>3, <1>4

LEMMA MutexStep == MutexInv /\ [MutexNext]_mutexVars => MutexInv'
<1> SUFFICES ASSUME MutexInv, [MutexNext]_mutexVars PROVE MutexInv'
  OBVIOUS
<1>1. CASE UNCHANGED mutexVars
  BY <1>1 DEF mutexVars, MutexInv, MutexTypeOK, HolderUnique, WakeOnItsWay, ArrivedExact
<1>2. ASSUME NEW f \in LockFibers, Lock(f) PROVE MutexInv'
  BY <1>2, LockFastOK, LockQueueOK DEF Lock
<1>3. ASSUME NEW f \in LockFibers, Runs(f) PROVE MutexInv'
  BY <1>3, TakesOK, RequeuesOK DEF Runs
<1>4. ASSUME NEW f \in LockFibers, Unlock(f) PROVE MutexInv'
  BY <1>4, UnlockOK
<1> QED BY <1>1, <1>2, <1>3, <1>4 DEF MutexNext

LEMMA OneHolderFollows == MutexInv => OneHolder
<1> SUFFICES ASSUME MutexInv PROVE OneHolder
  OBVIOUS
<1> DEFINE H == {f \in LockFibers : doing[f] = "held"}
<1>1. CASE locked
  <2>1. PICK f \in LockFibers : doing[f] = "held" BY <1>1 DEF MutexInv, HolderUnique
  <2>2. H = {f} BY <2>1 DEF MutexInv, HolderUnique
  <2> QED BY <1>1, <2>2, FS_Singleton DEF OneHolder
<1>2. CASE ~locked
  <2>1. H = {} BY <1>2 DEF MutexInv, HolderUnique
  <2> QED BY <1>2, <2>1, FS_EmptySet DEF OneHolder
<1> QED BY <1>1, <1>2

(* Whatever the number of fibers, loop.Mutex is held by one of them at most, *)
(* and while it is free with somebody queued a woken fiber is on its way.    *)
THEOREM NoLostWakeHolds == MutexSpec => []NoLostWake
<1>1. MutexInv => NoLostWake BY OneHolderFollows DEF MutexInv, NoLostWake
<1> QED BY <1>1, MutexInitOK, MutexStep, PTL DEF MutexSpec

(* A step of the mutex is a step of the lock its callers see, or none.      *)
LEMMA MutexSimulated ==
  ASSUME MutexInv, [MutexNext]_mutexVars
  PROVE  [Held!RwNext]_(Held!rwVars)
<1> DEFINE own == {f \in LockFibers : doing[f] = "held"}
<1> USE DEF Held!rwVars
<1>1. doing \in [LockFibers -> Doings] BY DEF MutexInv, MutexTypeOK, Doings
<1>2. ASSUME NEW f \in LockFibers, LockFast(f) \/ Takes(f) PROVE Held!RwNext
  <2>1. own = {} /\ own' = {f} BY <1>1, <1>2 DEF LockFast, Takes, MutexInv, HolderUnique
  <2>2. Held!WriteLocked(f) BY <2>1 DEF Held!WriteLocked
  <2> QED BY <2>2 DEF Held!RwNext
<1>3. ASSUME NEW f \in LockFibers, LockQueue(f) \/ Requeues(f) PROVE own' = own
  BY <1>1, <1>3 DEF LockQueue, Requeues
<1>4. ASSUME NEW f \in LockFibers, Unlock(f) PROVE Held!RwNext
  <2>1. own = {f} BY <1>4 DEF Unlock, MutexInv, HolderUnique
  <2>2. own' = {}
    <3>1. \A g \in LockFibers : doing'[g] = "held" => g # f /\ doing[g] = "held"
      BY <1>1, <1>4 DEF Unlock
    <3> QED BY <2>1, <3>1
  <2>3. Held!WriteUnlocked(f) BY <2>1, <2>2 DEF Held!WriteUnlocked
  <2> QED BY <2>3 DEF Held!RwNext
<1>5. CASE UNCHANGED mutexVars BY <1>5 DEF mutexVars
<1> QED BY <1>2, <1>3, <1>4, <1>5 DEF MutexNext, Lock, Runs

(* For any fibers, lock and unlock of loop.Mutex implement a lock whose     *)
(* operations take one step each and that one fiber has at a time, although *)
(* an unlock hands it to nobody.                                            *)
THEOREM MutexImplementedHolds == MutexSpec => MutexImplemented
<1>1. MutexInit => Held!RwInit BY DEF MutexInit, Held!RwInit
<1>2. MutexSpec => []MutexInv BY MutexInitOK, MutexStep, PTL DEF MutexSpec
<1> QED BY <1>1, <1>2, MutexSimulated, PTL DEF MutexSpec, MutexImplemented, Held!RwSpec
=============================================================================
