--------------------------- MODULE ForwardingProofs ---------------------------
(***************************************************************************)
(* The two ways a query waits for an upstream's answer: proofs about        *)
(* Inflight, whatever the number of queries, the size of the table and of a *)
(* key's window and the ceiling, and about Race, whatever the number of     *)
(* queries, of members and the budget.                                      *)
(***************************************************************************)
EXTENDS Inflight, Race, FiniteSetTheorems, WellFoundedInduction, TLAPS

-----------------------------------------------------------------------------
(* Inflight: coalesced queries.                                             *)

(* Where a query that follows a flight can be.                              *)
Following == {"awake", "asleep", "late", "copying", "leaving"}

(* A query that follows is in flight_follow and is followed by nobody, and  *)
(* one that is past its wait there is following.                            *)
Placed ==
  \A q \in Queries :
    /\ of[q] # None => at[q] \in Following /\ of[of[q]] = None
    /\ at[q] \in {"late", "copying", "leaving"} => of[q] # None

(* The table names flights whose leaders have not landed, each where its    *)
(* flight says it is and within its key's window.                           *)
InTable ==
  \A i \in Slots : slots[i] # None =>
    /\ at[slots[i]] = "leading"
    /\ flight[slots[i]].slot = i
    /\ flight[slots[i]].key \in Keys
    /\ i \in Window(flight[slots[i]].key)

IInv ==
  /\ TypeOK
  /\ home \in [Keys -> Slots]
  /\ Placed
  /\ FrameOutlivesFollowers
  /\ CountsExact
  /\ InTable
  /\ OneFlightPerKey

-----------------------------------------------------------------------------
(* What is counted is finite.                                               *)
LEMMA FollowersFinite ==
  \A l : IsFiniteSet(FollowersOf(l)) /\ Cardinality(FollowersOf(l)) \in Nat
<1> SUFFICES ASSUME NEW l
             PROVE  IsFiniteSet(FollowersOf(l)) /\ Cardinality(FollowersOf(l)) \in Nat
  OBVIOUS
<1>1. FollowersOf(l) \in SUBSET Queries
  BY DEF FollowersOf
<1>2. IsFiniteSet(FollowersOf(l))
  BY <1>1, QueriesFinite, FS_Subset
<1> QED
  BY <1>2, FS_CardinalityType

LEMMA CountedFinite ==
  ASSUME TypeOK
  PROVE  IsFiniteSet(counted) /\ Cardinality(counted) \in Nat
<1>1. counted \in SUBSET Queries
  BY CountedAreQueries DEF TypeOK
<1>2. IsFiniteSet(counted)
  BY <1>1, QueriesFinite, FS_Subset
<1> QED
  BY <1>2, FS_CardinalityType

(* A flight nobody waits for is followed by nobody.                         *)
LEMMA NoWaitersNoFollowers ==
  ASSUME CountsExact, NEW l \in Queries, flight[l].waiters = 0
  PROVE  \A q \in Queries : of[q] # l
<1>1. Cardinality(FollowersOf(l)) = 0
  BY DEF CountsExact
<1>2. FollowersOf(l) = {}
  BY <1>1, FollowersFinite, FS_EmptySet
<1> QED
  BY <1>2 DEF FollowersOf

(* A window lies within the table.                                          *)
LEMMA WindowInTable ==
  ASSUME home \in [Keys -> Slots], NEW k \in Keys
  PROVE  Window(k) \subseteq Slots
<1> SUFFICES ASSUME NEW probe \in 0 .. INFLIGHT_PROBE - 1
             PROVE  (home[k] + probe) % INFLIGHT_SLOTS \in Slots
  BY DEF Window
<1>1. home[k] + probe \in Nat
  BY SlotsFit DEF Slots
<1> QED
  BY <1>1, SlotsFit DEF Slots

(* A non-empty set of slots has one nearest to the start of the window.     *)
LEMMA FirstFreeIsFree ==
  ASSUME home \in [Keys -> Slots], NEW k \in Keys, Free(k) # {}
  PROVE  FirstFree(k) \in Free(k)
<1> DEFINE D == {Distance(k, i) : i \in Free(k)}
           Less == OpToRel(<, Nat)
<1>1. \A i \in Free(k) : Distance(k, i) \in Nat
  <2> SUFFICES ASSUME NEW i \in Free(k) PROVE Distance(k, i) \in Nat
    OBVIOUS
  <2>1. i \in Slots /\ home[k] \in Slots
    BY WindowInTable DEF Free
  <2>2. i + INFLIGHT_SLOTS - home[k] \in Nat
    BY <2>1, SlotsFit DEF Slots
  <2> QED
    BY <2>2, SlotsFit DEF Distance
<1>2. D \subseteq Nat /\ D # {}
  BY <1>1
<1>3. PICK x \in D : \A y \in D : ~ (<<y, x>> \in Less)
  <2> HIDE DEF D
  <2> QED
    BY <1>2, WFMin, NatLessThanWellFounded
<1>4. \A y \in D : x <= y
  <2> SUFFICES ASSUME NEW y \in D PROVE x <= y
    OBVIOUS
  <2>1. x \in Nat /\ y \in Nat
    BY <1>2
  <2>2. ~ (y < x)
    BY <2>1, <1>3 DEF OpToRel
  <2> QED
    BY <2>1, <2>2
<1>5. PICK i \in Free(k) : x = Distance(k, i)
  OBVIOUS
<1>6. \A j \in Free(k) : Distance(k, i) <= Distance(k, j)
  BY <1>4, <1>5
<1> QED
  BY <1>6 DEF FirstFree

-----------------------------------------------------------------------------
LEMMA InitInv == Init => IInv
<1> SUFFICES ASSUME Init PROVE IInv
  OBVIOUS
<1> USE DEF Init
<1>1. TypeOK
  BY SlotsFit DEF TypeOK, NoFlight, Slots
<1>2. Placed /\ FrameOutlivesFollowers /\ InTable /\ OneFlightPerKey
  BY DEF Placed, FrameOutlivesFollowers, InTable, OneFlightPerKey
<1>3. CountsExact
  <2>1. \A l \in Queries : FollowersOf(l) = {}
    BY NoneIsNone DEF FollowersOf
  <2>2. \A l \in Queries : flight[l].waiters = 0
    BY DEF NoFlight
  <2>3. \A l \in Queries : flight[l].waiters = Cardinality(FollowersOf(l))
    BY <2>1, <2>2, FS_EmptySet
  <2>4. followers = Cardinality(counted) /\ (Ceiling > 0 => followers <= Ceiling)
    BY FS_EmptySet, CeilingNat
  <2> QED
    BY <2>3, <2>4 DEF CountsExact
<1> QED
  BY <1>1, <1>2, <1>3 DEF IInv

(* A step that moves nobody's lead and leaves the flights alone keeps the   *)
(* counts and the table.                                                    *)
LEMMA Moved ==
  ASSUME IInv, UNCHANGED <<home, slots, followers, flight, of, counted>>,
         \A p \in Queries : at[p] = "leading" => at'[p] = "leading"
  PROVE  /\ (home \in [Keys -> Slots])'
         /\ CountsExact' /\ InTable' /\ OneFlightPerKey'
<1>1. \A l : FollowersOf(l)' = FollowersOf(l)
  BY DEF FollowersOf
<1>2. CountsExact'
  BY <1>1 DEF IInv, CountsExact
<1>3. InTable'
  BY DEF IInv, TypeOK, InTable, Window
<1> QED
  BY <1>2, <1>3 DEF IInv, OneFlightPerKey

LEMMA FollowsInv ==
  ASSUME IInv, NEW q \in Queries, NEW k \in Keys, JoinFollows(q, k)
  PROVE  IInv'
<1> PICK l \in LeadersOf(k) :
      /\ ~AtCeiling(q)
      /\ flight' = [flight EXCEPT ![l].waiters = @ + 1]
      /\ of' = [of EXCEPT ![q] = l]
      /\ followers' = followers + (IF q \in CountedQueries /\ Ceiling > 0 THEN 1 ELSE 0)
      /\ counted' = IF q \in CountedQueries /\ Ceiling > 0 THEN counted \cup {q} ELSE counted
  BY DEF JoinFollows
<1>1. l \in Queries /\ at[l] = "leading" /\ l # None
  BY WindowInTable, NoneIsNone DEF LeadersOf, JoinFollows, IInv, TypeOK, InTable
<1>2. at[q] = "out" /\ of[q] = None /\ at' = [at EXCEPT ![q] = "awake"] /\ l # q
  BY <1>1 DEF JoinFollows, IInv, Placed, Following
<1>3. UNCHANGED <<home, slots>>
  BY DEF JoinFollows
<1>4. TypeOK'
  <2>1. flight' \in [Queries -> [key : Keys \cup {None}, slot : Slots, waiters : Nat, landed : BOOLEAN]]
    BY <1>1, SMTT(30) DEF IInv, TypeOK
  <2>2. followers' \in Nat /\ counted' \in SUBSET CountedQueries
    BY DEF IInv, TypeOK
  <2> QED
    BY <1>1, <1>2, <1>3, <2>1, <2>2 DEF IInv, TypeOK
<1>5. Placed'
  <2>1. \A p \in Queries : of[p] # q
    BY <1>2, NoneIsNone DEF IInv, FrameOutlivesFollowers
  <2>2. of[l] = None
    BY <1>1 DEF IInv, Placed, Following
  <2> QED
    BY <1>1, <1>2, <2>1, <2>2 DEF IInv, TypeOK, Placed, Following
<1>6. FrameOutlivesFollowers'
  BY <1>1, <1>2 DEF IInv, TypeOK, FrameOutlivesFollowers
<1>7. CountsExact'
  <2>1. FollowersOf(l)' = FollowersOf(l) \cup {q} /\ q \notin FollowersOf(l)
    BY <1>1, <1>2 DEF FollowersOf, IInv, TypeOK
  <2>2. \A m \in Queries \ {l} : FollowersOf(m)' = FollowersOf(m)
    BY <1>1, <1>2, NoneIsNone DEF FollowersOf, IInv, TypeOK
  <2>3. Cardinality(FollowersOf(l)') = Cardinality(FollowersOf(l)) + 1
    BY <2>1, FollowersFinite, FS_AddElement
  <2>4. \A m \in Queries : flight'[m].waiters = Cardinality(FollowersOf(m)')
    BY <1>1, <2>2, <2>3 DEF IInv, TypeOK, CountsExact
  <2>5. q \notin counted
    BY <1>2 DEF IInv, CountsExact
  <2>6. followers' = Cardinality(counted')
    <3>1. IsFiniteSet(counted) /\ followers = Cardinality(counted)
      BY CountedFinite DEF IInv, CountsExact
    <3>2. Cardinality(counted \cup {q}) = followers + 1
      BY <2>5, <3>1, FS_AddElement
    <3>3. followers + 0 = followers
      BY DEF IInv, TypeOK
    <3> QED
      BY <3>1, <3>2, <3>3
  <2>7. Ceiling > 0 => followers' <= Ceiling
    BY CeilingNat DEF IInv, TypeOK, CountsExact, AtCeiling
  <2>8. \A p \in counted' : of'[p] # None
    BY <1>1, <1>2, CountedAreQueries DEF IInv, TypeOK, CountsExact
  <2> QED
    BY <2>4, <2>6, <2>7, <2>8 DEF CountsExact
<1>8. \A m \in Queries : flight'[m].key = flight[m].key /\ flight'[m].slot = flight[m].slot
  BY <1>1 DEF IInv, TypeOK
<1>9. InTable'
  BY <1>2, <1>3, <1>8 DEF IInv, TypeOK, InTable, Window
<1>10. OneFlightPerKey'
  BY <1>3, <1>8 DEF IInv, TypeOK, OneFlightPerKey
<1> QED
  BY <1>3, <1>4, <1>5, <1>6, <1>7, <1>9, <1>10 DEF IInv

LEMMA LeadsInv ==
  ASSUME IInv, NEW q \in Queries, NEW k \in Keys, JoinLeads(q, k)
  PROVE  IInv'
<1> DEFINE i == FirstFree(k)
<1>1. i \in Slots /\ slots[i] = None /\ i \in Window(k)
  BY FirstFreeIsFree, WindowInTable DEF IInv, JoinLeads, Free
<1> HIDE DEF i
<1>2. /\ at[q] = "out" /\ of[q] = None
      /\ flight' = [flight EXCEPT ![q] = [NoFlight EXCEPT !.key = k, !.slot = i]]
      /\ slots' = [slots EXCEPT ![i] = q]
      /\ at' = [at EXCEPT ![q] = "leading"]
      /\ UNCHANGED <<home, followers, of, counted>>
  BY DEF JoinLeads, i, IInv, Placed, Following
<1>3. \A p \in Queries : of[p] # q
  BY <1>2, NoneIsNone DEF IInv, FrameOutlivesFollowers
<1>4. /\ flight'[q].key = k /\ flight'[q].slot = i /\ flight'[q].waiters = 0
      /\ \A m \in Queries \ {q} : flight'[m] = flight[m]
  BY <1>2 DEF IInv, TypeOK, NoFlight
<1>5. TypeOK'
  BY <1>1, <1>2 DEF IInv, TypeOK, NoFlight
<1>6. Placed'
  BY <1>2 DEF IInv, TypeOK, Placed, Following
<1>7. FrameOutlivesFollowers'
  BY <1>2, <1>3, <1>4 DEF IInv, TypeOK, FrameOutlivesFollowers
<1>8. CountsExact'
  <2>1. \A l : FollowersOf(l)' = FollowersOf(l)
    BY <1>2 DEF FollowersOf
  <2>2. FollowersOf(q) = {}
    BY <1>3 DEF FollowersOf
  <2> QED
    BY <1>2, <1>4, <2>1, <2>2, FS_EmptySet DEF IInv, CountsExact
<1>9. \A j \in Slots \ {i} : slots'[j] = slots[j] /\ slots[j] # q
  BY <1>2, NoneIsNone DEF IInv, TypeOK, InTable
<1>10. slots'[i] = q
  BY <1>1, <1>2 DEF IInv, TypeOK
<1>11. InTable'
  BY <1>1, <1>2, <1>4, <1>9, <1>10 DEF IInv, TypeOK, InTable, Window
<1>12. \A j \in Slots : slots[j] # None => flight[slots[j]].key # k
  BY DEF IInv, InTable, JoinLeads, LeadersOf
<1>13. OneFlightPerKey'
  BY <1>4, <1>9, <1>10, <1>12 DEF IInv, TypeOK, OneFlightPerKey
<1> QED
  BY <1>2, <1>5, <1>6, <1>7, <1>8, <1>11, <1>13 DEF IInv

LEMMA LeavesInv ==
  ASSUME IInv, NEW q \in Queries, of[q] # None, FollowLeaves(q)
  PROVE  IInv'
<1>0. PICK l \in Queries : l = of[q]
  BY DEF IInv, TypeOK
<1>1. PICK woken \in SUBSET Asleep(l) :
        at' = [p \in Queries |-> IF p = q THEN "out" ELSE IF p \in woken THEN "awake" ELSE at[p]]
  BY <1>0 DEF FollowLeaves
<1>2. /\ at[q] = "leaving" /\ l # None
      /\ followers' = followers - (IF q \in counted THEN 1 ELSE 0)
      /\ counted' = counted \ {q}
      /\ flight' = [flight EXCEPT ![l].waiters = @ - 1]
      /\ of' = [of EXCEPT ![q] = None]
      /\ UNCHANGED <<home, slots>>
  BY <1>0 DEF FollowLeaves, IInv, TypeOK
<1>3. \A p \in woken : at[p] = "asleep"
  BY DEF Asleep
<1>4. l # q /\ \A p \in Queries : of[p] # q
  BY <1>0, <1>2, NoneIsNone DEF IInv, FrameOutlivesFollowers
<1>5. /\ FollowersOf(l)' = FollowersOf(l) \ {q} /\ q \in FollowersOf(l)
      /\ \A m \in Queries \ {l} : FollowersOf(m)' = FollowersOf(m)
  BY <1>0, <1>2, NoneIsNone DEF FollowersOf, IInv, TypeOK
<1>6. Cardinality(FollowersOf(l)') = Cardinality(FollowersOf(l)) - 1
  BY <1>5, FollowersFinite, FS_RemoveElement
<1>7. flight[l].waiters = Cardinality(FollowersOf(l)) /\ flight[l].waiters - 1 \in Nat
  <2>1. FollowersOf(l) # {}
    BY <1>5
  <2>2. Cardinality(FollowersOf(l)) # 0
    BY <2>1, FollowersFinite, FS_EmptySet
  <2> QED
    BY <1>2, <2>2, FollowersFinite DEF IInv, CountsExact
<1>8. \A m \in Queries : /\ flight'[m].key = flight[m].key /\ flight'[m].slot = flight[m].slot
                         /\ flight'[m].landed = flight[m].landed
  BY <1>2 DEF IInv, TypeOK
<1>9. followers' = Cardinality(counted') /\ followers' \in Nat /\ followers' <= followers
  <2>1. IsFiniteSet(counted) /\ followers = Cardinality(counted) /\ followers \in Nat
    BY CountedFinite DEF IInv, CountsExact
  <2>2. IsFiniteSet(counted') /\ Cardinality(counted') = IF q \in counted THEN followers - 1 ELSE followers
    BY <1>2, <2>1, FS_RemoveElement
  <2>3. Cardinality(counted') \in Nat
    BY <2>2, FS_CardinalityType
  <2> QED
    BY <1>2, <2>1, <2>2, <2>3
<1>10. TypeOK'
  <2>1. flight' \in [Queries -> [key : Keys \cup {None}, slot : Slots, waiters : Nat, landed : BOOLEAN]]
    BY <1>2, <1>7, SMTT(30) DEF IInv, TypeOK
  <2> QED
    BY <1>1, <1>2, <1>9, <2>1 DEF IInv, TypeOK
<1>11. Placed'
  BY <1>1, <1>2, <1>3 DEF IInv, TypeOK, Placed, Following
<1>12. FrameOutlivesFollowers'
  BY <1>1, <1>2, <1>3, <1>4, <1>8 DEF IInv, TypeOK, FrameOutlivesFollowers
<1>13. CountsExact'
  <2>1. \A m \in Queries : flight'[m].waiters = Cardinality(FollowersOf(m)')
    <3>1. flight'[l].waiters = Cardinality(FollowersOf(l)')
      BY <1>2, <1>6, <1>7 DEF IInv, TypeOK
    <3>2. \A m \in Queries \ {l} : flight'[m].waiters = Cardinality(FollowersOf(m)')
      BY <1>2, <1>5 DEF IInv, TypeOK, CountsExact
    <3> QED
      BY <3>1, <3>2
  <2>2. \A p \in counted' : of'[p] # None
    BY <1>2, CountedAreQueries DEF IInv, TypeOK, CountsExact
  <2>3. Ceiling > 0 => followers' <= Ceiling
    BY <1>9, CeilingNat DEF IInv, TypeOK, CountsExact
  <2> QED
    BY <1>9, <2>1, <2>2, <2>3 DEF CountsExact
<1>14. InTable'
  BY <1>1, <1>2, <1>3, <1>8 DEF IInv, TypeOK, InTable, Window
<1>15. OneFlightPerKey'
  BY <1>2, <1>8 DEF IInv, TypeOK, OneFlightPerKey
<1> QED
  BY <1>2, <1>10, <1>11, <1>12, <1>13, <1>14, <1>15 DEF IInv

LEMMA LandInv ==
  ASSUME IInv, NEW l \in Queries, Land(l)
  PROVE  IInv'
<1> DEFINE s == flight[l].slot
<1>1. /\ at[l] = "leading" /\ s \in Slots
      /\ slots' = [slots EXCEPT ![s] = None]
      /\ flight' = [flight EXCEPT ![l].landed = TRUE]
      /\ at' = [p \in Queries |->
           IF p = l THEN (IF flight[l].waiters = 0 THEN "out" ELSE "asleep")
           ELSE IF p \in Asleep(l) THEN "awake" ELSE at[p]]
      /\ UNCHANGED <<home, followers, of, counted>>
  BY DEF Land, IInv, TypeOK
<1> HIDE DEF s
<1>2. \A p \in Asleep(l) : at[p] = "asleep"
  BY DEF Asleep
<1>3. \A m \in Queries : /\ flight'[m].key = flight[m].key /\ flight'[m].slot = flight[m].slot
                         /\ flight'[m].waiters = flight[m].waiters
                         /\ m # l => flight'[m].landed = flight[m].landed
  BY <1>1 DEF IInv, TypeOK
<1>4. flight'[l].landed
  BY <1>1 DEF IInv, TypeOK
<1>5. TypeOK'
  <2>1. flight' \in [Queries -> [key : Keys \cup {None}, slot : Slots, waiters : Nat, landed : BOOLEAN]]
    BY <1>1, ZenonT(40) DEF IInv, TypeOK
  <2> QED
    BY <1>1, <2>1 DEF IInv, TypeOK
<1>6. Placed'
  BY <1>1, <1>2 DEF IInv, TypeOK, Placed, Following
<1>7. FrameOutlivesFollowers'
  <2> SUFFICES ASSUME NEW q \in Queries, of[q] # None
               PROVE  /\ at'[of[q]] = "leading" \/ (flight'[of[q]].landed /\ at'[of[q]] \in {"asleep", "awake"})
                      /\ at'[q] = "copying" => flight'[of[q]].landed
    BY <1>1 DEF FrameOutlivesFollowers
  <2>1. of[q] \in Queries /\ q # l
    BY <1>1 DEF IInv, TypeOK, Placed, Following
  <2>2. CASE of[q] = l
    <3>1. flight[l].waiters # 0
      BY <2>2, NoWaitersNoFollowers DEF IInv
    <3> QED
      BY <1>1, <1>4, <2>2, <3>1
  <2>3. CASE of[q] # l
    BY <1>1, <1>2, <1>3, <2>1, <2>3 DEF IInv, FrameOutlivesFollowers
  <2> QED
    BY <2>2, <2>3
<1>8. CountsExact'
  <2>1. \A m : FollowersOf(m)' = FollowersOf(m)
    BY <1>1 DEF FollowersOf
  <2> QED
    BY <1>1, <1>3, <2>1 DEF IInv, CountsExact
<1>9. \A i \in Slots : slots'[i] # None => slots'[i] = slots[i] /\ slots[i] # l
  BY <1>1 DEF IInv, TypeOK, InTable, s
<1>10. InTable'
  BY <1>1, <1>2, <1>3, <1>9 DEF IInv, TypeOK, InTable, Window
<1>11. OneFlightPerKey'
  BY <1>3, <1>9 DEF IInv, TypeOK, OneFlightPerKey
<1> QED
  BY <1>1, <1>5, <1>6, <1>7, <1>8, <1>10, <1>11 DEF IInv

LEMMA WakesInv ==
  ASSUME IInv, NEW l \in Queries, LeaderWakes(l)
  PROVE  IInv'
<1>1. /\ at[l] = "awake" /\ of[l] = None
      /\ at' = [at EXCEPT ![l] = IF flight[l].waiters > 0 THEN "asleep" ELSE "out"]
      /\ UNCHANGED <<home, slots, followers, flight, of, counted>>
  BY DEF LeaderWakes
<1>2. TypeOK' /\ Placed'
  BY <1>1 DEF IInv, TypeOK, Placed, Following
<1>3. FrameOutlivesFollowers'
  <2>1. CASE flight[l].waiters > 0
    BY <1>1, <2>1 DEF IInv, TypeOK, FrameOutlivesFollowers
  <2>2. CASE ~(flight[l].waiters > 0)
    <3>1. flight[l].waiters = 0
      BY <2>2 DEF IInv, TypeOK
    <3>2. \A q \in Queries : of[q] # l
      BY <3>1, NoWaitersNoFollowers DEF IInv
    <3> QED
      BY <1>1, <3>2 DEF IInv, TypeOK, FrameOutlivesFollowers
  <2> QED
    BY <2>1, <2>2
<1>4. CountsExact' /\ InTable' /\ OneFlightPerKey' /\ (home \in [Keys -> Slots])'
  BY <1>1, Moved DEF IInv, TypeOK
<1> QED
  BY <1>2, <1>3, <1>4 DEF IInv

(* The steps that only move one query along.                                *)
LEMMA AlongInv ==
  ASSUME IInv, NEW q \in Queries,
         \/ \E k \in Keys : JoinAlone(q, k)
         \/ Forwarded(q) \/ PatienceRunsOut(q)
         \/ of[q] # None /\ (FollowSleeps(q) \/ FollowSees(q) \/ FollowGivesUp(q) \/ FollowCopies(q))
  PROVE  IInv'
<1>1. UNCHANGED <<home, slots, followers, flight, of, counted>>
  BY DEF JoinAlone, Forwarded, PatienceRunsOut, FollowSleeps, FollowSees, FollowGivesUp, FollowCopies
<1>2. CASE of[q] = None
  <2>1. PICK to \in {"alone", "out"} : at' = [at EXCEPT ![q] = to] /\ at[q] \in {"alone", "out"}
    BY <1>2 DEF JoinAlone, Forwarded, PatienceRunsOut
  <2>2. \A p \in Queries : of[p] # q
    BY <2>1, NoneIsNone DEF IInv, FrameOutlivesFollowers
  <2>3. TypeOK' /\ Placed'
    BY <1>1, <1>2, <2>1 DEF IInv, TypeOK, Placed, Following
  <2>4. FrameOutlivesFollowers'
    BY <1>1, <2>1, <2>2 DEF IInv, TypeOK, FrameOutlivesFollowers
  <2>5. \A p \in Queries : at[p] = "leading" => at'[p] = "leading"
    BY <2>1 DEF IInv, TypeOK
  <2> QED
    BY <1>1, <2>3, <2>4, <2>5, Moved DEF IInv
<1>3. CASE of[q] # None
  <2>1. at[q] \in Following
    BY <1>3 DEF IInv, Placed
  <2>2. PICK to \in {"asleep", "copying", "late", "leaving"} :
          at' = [at EXCEPT ![q] = to] /\ (to = "copying" => flight[of[q]].landed)
    BY <2>1 DEF JoinAlone, Forwarded, PatienceRunsOut, FollowSleeps, FollowSees, FollowGivesUp,
                FollowCopies, Following
  <2>3. \A p \in Queries : of[p] # q
    BY <1>3, NoneIsNone DEF IInv, Placed
  <2>4. TypeOK' /\ Placed'
    BY <1>1, <1>3, <2>2 DEF IInv, TypeOK, Placed, Following
  <2>5. FrameOutlivesFollowers'
    BY <1>1, <2>2, <2>3 DEF IInv, TypeOK, FrameOutlivesFollowers
  <2>6. \A p \in Queries : at[p] = "leading" => at'[p] = "leading"
    BY <2>1, <2>2 DEF IInv, TypeOK, Following
  <2> QED
    BY <1>1, <2>4, <2>5, <2>6, Moved DEF IInv
<1> QED
  BY <1>2, <1>3

LEMMA NextInv == IInv /\ [Next]_vars => IInv'
<1> SUFFICES ASSUME IInv, [Next]_vars PROVE IInv'
  OBVIOUS
<1>1. CASE UNCHANGED vars
  <2>1. UNCHANGED <<home, slots, followers, flight, at, of, counted>>
    BY <1>1 DEF vars
  <2>2. TypeOK' /\ Placed' /\ FrameOutlivesFollowers'
    BY <2>1 DEF IInv, TypeOK, Placed, FrameOutlivesFollowers
  <2> QED
    BY <2>1, <2>2, Moved DEF IInv
<1>2. ASSUME NEW q \in Queries, NEW k \in Keys, JoinFollows(q, k) \/ JoinLeads(q, k) \/ JoinAlone(q, k)
      PROVE  IInv'
  BY <1>2, FollowsInv, LeadsInv, AlongInv
<1>3. ASSUME NEW q \in Queries, Forwarded(q) \/ PatienceRunsOut(q) PROVE IInv'
  BY <1>3, AlongInv
<1>4. ASSUME NEW q \in Queries, Follow(q) PROVE IInv'
  BY <1>4, AlongInv, LeavesInv DEF Follow
<1>5. ASSUME NEW q \in Queries, Land(q) \/ LeaderWakes(q) PROVE IInv'
  BY <1>5, LandInv, WakesInv
<1> QED
  BY <1>1, <1>2, <1>3, <1>4, <1>5 DEF Next

-----------------------------------------------------------------------------
(* A leader never returns from flight_land while a follower can still read  *)
(* the answer in its frame.                                                 *)
THEOREM FrameOutlivesFollowersHolds == Spec => []FrameOutlivesFollowers
<1>1. IInv => FrameOutlivesFollowers
  BY DEF IInv
<1> QED
  BY <1>1, InitInv, NextInv, PTL DEF Spec

(* The waiters flight_join counts are the followers there are, on whichever *)
(* way out of flight_follow, and the ceiling is kept.                       *)
THEOREM CountsExactHolds == Spec => [](TypeOK /\ CountsExact)
<1>1. IInv => TypeOK /\ CountsExact
  BY DEF IInv
<1> QED
  BY <1>1, InitInv, NextInv, PTL DEF Spec

(* flight_join never lets two flights for one key into the table, whatever  *)
(* the hash, the window and the holes that landings left.                   *)
THEOREM OneFlightPerKeyHolds == Spec => []OneFlightPerKey
<1>1. IInv => OneFlightPerKey
  BY DEF IInv
<1> QED
  BY <1>1, InitInv, NextInv, PTL DEF Spec

(* Both, as the table's soundness.                                          *)
THEOREM FlightSoundHolds == Spec => []FlightSound
<1>1. TypeOK /\ CountsExact /\ OneFlightPerKey => FlightSound
  BY DEF FlightSound
<1> QED
  BY <1>1, CountsExactHolds, OneFlightPerKeyHolds, PTL

-----------------------------------------------------------------------------
(* Race: the members asked at once.                                         *)

(* A query's own race, given its legs l, its Race_State s, where it is, a,  *)
(* and what it last returned, r.  The references are the legs running and   *)
(* the query itself; a winner's answer is recorded before anybody reads it; *)
(* a post without a winner is the last leg's.                               *)
RunningIn(l) == {u \in Members : l[u] = "asking"}

Counted(l, s, a) ==
  /\ s.outstanding = Cardinality(RunningIn(l))
  /\ s.refs = s.outstanding + (IF a = "out" THEN 0 ELSE 1)
  /\ s.life = "live" <=> s.refs > 0

Told(l, s, a, r) ==
  /\ s.winner # NoMember => s.done /\ l[s.winner] = "answered"
  /\ a # "starting" => \A u \in Members : l[u] # "candidate"
  /\ a # "out" => r = "none"
  /\ a = "starting" => /\ \A u \in Members : l[u] \in {"idle", "candidate", "asking"}
                       /\ s.sema = 0 /\ ~s.done
  /\ a = "waiting" => /\ s.done => s.winner # NoMember
                      /\ s.winner = NoMember =>
                           /\ \A u \in Members : l[u] # "answered"
                           /\ s.sema > 0 => \A u \in Members : l[u] # "asking"
  /\ r = "error" => \A u \in Members : l[u] \in {"idle", "failed"}
  /\ r = "answer" => s.winner # NoMember

RaceInv ==
  /\ RaceTypeOK
  /\ BudgetExact
  /\ \A q \in RaceQueries : /\ Counted(leg[q], state[q], stage[q])
                            /\ Told(leg[q], state[q], stage[q], result[q])

Legs == [Members -> {"idle", "candidate", "asking", "answered", "failed"}]
States == [refs : Nat, outstanding : Nat, done : BOOLEAN, winner : Members \cup {NoMember},
           sema : Nat, life : {"none", "live", "freed"}]
Stages == {"out", "starting", "waiting"}
Results == {"none", "sequential", "answer", "error", "timeout"}

-----------------------------------------------------------------------------
(* What is counted is finite.                                               *)
LEMMA RunningFinite ==
  \A l : IsFiniteSet(RunningIn(l)) /\ Cardinality(RunningIn(l)) \in Nat
<1> SUFFICES ASSUME NEW l PROVE IsFiniteSet(RunningIn(l)) /\ Cardinality(RunningIn(l)) \in Nat
  OBVIOUS
<1>1. RunningIn(l) \in SUBSET Members
  BY DEF RunningIn
<1>2. IsFiniteSet(RunningIn(l))
  BY <1>1, RacersFinite, FS_Subset
<1> QED
  BY <1>2, FS_CardinalityType

LEMMA AskingFinite ==
  /\ IsFiniteSet(Asking) /\ Cardinality(Asking) \in Nat
  /\ IsFiniteSet(Asking') /\ Cardinality(Asking') \in Nat
<1>1. IsFiniteSet(RaceQueries \X Members)
  BY RacersFinite, FS_Product
<1>2. Asking \in SUBSET (RaceQueries \X Members) /\ Asking' \in SUBSET (RaceQueries \X Members)
  BY DEF Asking
<1>3. IsFiniteSet(Asking) /\ IsFiniteSet(Asking')
  BY <1>1, <1>2, FS_Subset
<1> QED
  BY <1>3, FS_CardinalityType

(* What dropping a reference leaves.                                        *)
LEMMA ReleasedFields ==
  ASSUME NEW st \in States, st.refs # 0
  PROVE  /\ Released(st) \in States
         /\ Released(st).refs = st.refs - 1 /\ Released(st).outstanding = st.outstanding
         /\ Released(st).done = st.done /\ Released(st).winner = st.winner
         /\ Released(st).sema = st.sema
         /\ Released(st).life = IF st.refs = 1 THEN "freed" ELSE st.life
<1>1. st.refs - 1 \in Nat
  BY DEF States
<1> QED
  BY <1>1 DEF States, Released

(* A leg that starts or ends is one more or one less among those counted,   *)
(* and a step that does neither leaves them as they are.                    *)
LEMMA AskingMoves ==
  ASSUME RaceTypeOK, NEW q \in RaceQueries, NEW l \in Legs, leg' = [leg EXCEPT ![q] = l]
  PROVE  /\ RunningIn(l) = RunningIn(leg[q]) => Asking' = Asking
         /\ \A u \in Members \ RunningIn(leg[q]) :
              RunningIn(l) = RunningIn(leg[q]) \cup {u} =>
                Cardinality(Asking') = Cardinality(Asking) + 1
         /\ \A u \in RunningIn(leg[q]) :
              RunningIn(l) = RunningIn(leg[q]) \ {u} =>
                Cardinality(Asking') = Cardinality(Asking) - 1
<1>0. \A m \in RaceQueries : leg'[m] = IF m = q THEN l ELSE leg[m]
  BY DEF RaceTypeOK
<1>1. \A m \in RaceQueries, v \in Members : <<m, v>> \in Asking <=> v \in RunningIn(leg[m])
  BY DEF Asking, RunningIn
<1>2. \A m \in RaceQueries, v \in Members : <<m, v>> \in Asking' <=> v \in RunningIn(leg'[m])
  BY DEF Asking, RunningIn
<1>3. /\ \A p \in Asking \cup Asking' : p \in RaceQueries \X Members /\ p = <<p[1], p[2]>>
  BY DEF Asking
<1>4. ASSUME RunningIn(l) = RunningIn(leg[q]) PROVE Asking' = Asking
  BY <1>0, <1>1, <1>2, <1>3, <1>4
<1>5. ASSUME NEW u \in Members \ RunningIn(leg[q]), RunningIn(l) = RunningIn(leg[q]) \cup {u}
      PROVE  Cardinality(Asking') = Cardinality(Asking) + 1
  <2>1. Asking' = Asking \cup {<<q, u>>} /\ <<q, u>> \notin Asking
    BY <1>0, <1>1, <1>2, <1>3, <1>5
  <2> QED
    BY <2>1, AskingFinite, FS_AddElement
<1>6. ASSUME NEW u \in RunningIn(leg[q]), RunningIn(l) = RunningIn(leg[q]) \ {u}
      PROVE  Cardinality(Asking') = Cardinality(Asking) - 1
  <2>1. u \in Members
    BY DEF RunningIn
  <2>2. Asking' = Asking \ {<<q, u>>} /\ <<q, u>> \in Asking
    BY <1>0, <1>1, <1>2, <1>3, <1>6, <2>1
  <2> QED
    BY <2>2, AskingFinite, FS_RemoveElement
<1> QED
  BY <1>4, <1>5, <1>6

(* A step of one query's race touches no other race: what is left to show   *)
(* is about the values it gives that query.                                 *)
LEMMA OwnRace ==
  ASSUME RaceInv, NEW q \in RaceQueries, NEW l \in Legs, NEW s \in States, NEW a \in Stages,
         NEW r \in Results,
         leg' = [leg EXCEPT ![q] = l], state' = [state EXCEPT ![q] = s],
         stage' = [stage EXCEPT ![q] = a], result' = [result EXCEPT ![q] = r],
         inFlight' \in Nat, racing' \in Nat, BudgetExact',
         Counted(l, s, a), Told(l, s, a, r)
  PROVE  RaceInv'
<1>1. RaceTypeOK'
  BY DEF RaceInv, RaceTypeOK, Legs, States, Stages, Results
<1>2. \A p \in RaceQueries :
        IF p = q THEN leg'[p] = l /\ state'[p] = s /\ stage'[p] = a /\ result'[p] = r
                 ELSE leg'[p] = leg[p] /\ state'[p] = state[p] /\ stage'[p] = stage[p]
                      /\ result'[p] = result[p]
  BY DEF RaceInv, RaceTypeOK
<1>3. \A p \in RaceQueries : /\ Counted(leg'[p], state'[p], stage'[p])
                             /\ Told(leg'[p], state'[p], stage'[p], result'[p])
  BY <1>2 DEF RaceInv
<1> QED
  BY <1>1, <1>3 DEF RaceInv

-----------------------------------------------------------------------------
LEMMA RaceInitInv == RaceInit => RaceInv
<1> SUFFICES ASSUME RaceInit PROVE RaceInv
  OBVIOUS
<1>1. RaceTypeOK
  BY DEF RaceInit, RaceTypeOK, NoState
<1>2. Asking = {} /\ \A q \in RaceQueries : RunningIn(leg[q]) = {}
  BY DEF RaceInit, Asking, RunningIn
<1>3. BudgetExact
  BY <1>2, FS_EmptySet DEF RaceInit, BudgetExact
<1>4. \A q \in RaceQueries : Counted(leg[q], state[q], stage[q])
  <2>1. \A q \in RaceQueries : /\ state[q].refs = 0 /\ state[q].outstanding = 0
                               /\ state[q].life = "none" /\ stage[q] = "out"
    BY DEF RaceInit, NoState
  <2> QED
    BY <1>2, <2>1, FS_EmptySet DEF Counted
<1>5. \A q \in RaceQueries : Told(leg[q], state[q], stage[q], result[q])
  BY DEF RaceInit, Told, NoState
<1> QED
  BY <1>1, <1>3, <1>4, <1>5 DEF RaceInv

LEMMA RaceStartsInv ==
  ASSUME RaceInv, NEW q \in RaceQueries, Race(q)
  PROVE  RaceInv'
<1>1. PICK candidates \in SUBSET Members :
        leg' = [leg EXCEPT ![q] = [u \in Members |-> IF u \in candidates THEN "candidate" ELSE "idle"]]
  BY DEF Race
<1> DEFINE l == [u \in Members |-> IF u \in candidates THEN "candidate" ELSE "idle"]
           s == [NoState EXCEPT !.refs = 1, !.life = "live"]
<1>2. l \in Legs /\ s \in States
  BY DEF Legs, States, NoState
<1>3. RunningIn(l) = {} /\ RunningIn(leg[q]) = {}
  BY DEF RunningIn, Race, Running
<1>4. Counted(l, s, "starting") /\ Told(l, s, "starting", "none")
  BY <1>3, FS_EmptySet DEF Counted, Told, NoState
<1>5. BudgetExact' /\ inFlight' \in Nat /\ racing' \in Nat
  BY <1>1, <1>2, <1>3, AskingMoves DEF RaceInv, RaceTypeOK, BudgetExact, Race
<1>6. /\ leg' = [leg EXCEPT ![q] = l] /\ state' = [state EXCEPT ![q] = s]
      /\ stage' = [stage EXCEPT ![q] = "starting"] /\ result' = [result EXCEPT ![q] = "none"]
  BY <1>1 DEF Race
<1> HIDE DEF l, s
<1> QED
  BY <1>2, <1>4, <1>5, <1>6, OwnRace DEF Stages, Results

LEMMA StartLegInv ==
  ASSUME RaceInv, NEW q \in RaceQueries, NEW u \in Members, StartLeg(q, u)
  PROVE  RaceInv'
<1> DEFINE l == [leg[q] EXCEPT ![u] = "asking"]
           s == [state[q] EXCEPT !.refs = @ + 1, !.outstanding = @ + 1]
<1>1. /\ leg[q] \in Legs /\ state[q] \in States
      /\ stage[q] = "starting" /\ result[q] \in Results /\ leg[q][u] = "candidate"
  BY DEF RaceInv, RaceTypeOK, StartLeg, Candidates, Legs, States, Results
<1>2. l \in Legs /\ s \in States
  <2>1. l \in Legs
    BY <1>1 DEF Legs
  <2>2. state[q].refs + 1 \in Nat /\ state[q].outstanding + 1 \in Nat
    BY <1>1 DEF States
  <2>3. s \in States
    BY <1>1, <2>2 DEF States
  <2> QED
    BY <2>1, <2>3
<1>3. RunningIn(l) = RunningIn(leg[q]) \cup {u} /\ u \notin RunningIn(leg[q])
  BY <1>1 DEF RunningIn, Legs
<1>4. Counted(l, s, "starting")
  <2>1. Cardinality(RunningIn(l)) = Cardinality(RunningIn(leg[q])) + 1
    BY <1>3, RunningFinite, FS_AddElement
  <2>2. Counted(leg[q], state[q], "starting")
    BY <1>1 DEF RaceInv
  <2> QED
    BY <1>1, <2>1, <2>2, RunningFinite DEF Counted, States
<1>5. Told(l, s, "starting", result[q])
  <2>1. Told(leg[q], state[q], "starting", result[q])
    BY <1>1 DEF RaceInv
  <2> QED
    BY <1>1, <2>1 DEF Told, Legs, States
<1>6. /\ leg' = [leg EXCEPT ![q] = l] /\ state' = [state EXCEPT ![q] = s]
      /\ stage' = [stage EXCEPT ![q] = "starting"] /\ result' = [result EXCEPT ![q] = result[q]]
      /\ inFlight' = inFlight + 1 /\ racing' = racing + 1
  BY <1>1 DEF StartLeg, RaceInv, RaceTypeOK
<1> HIDE DEF l, s
<1>7. BudgetExact' /\ inFlight' \in Nat /\ racing' \in Nat
  <2>1. Cardinality(Asking') = Cardinality(Asking) + 1
    BY <1>2, <1>3, <1>6, AskingMoves DEF RaceInv
  <2> QED
    BY <1>6, <2>1 DEF RaceInv, RaceTypeOK, BudgetExact
<1> QED
  BY <1>1, <1>2, <1>4, <1>5, <1>6, <1>7, OwnRace DEF Stages

LEMMA LegRefusedInv ==
  ASSUME RaceInv, NEW q \in RaceQueries, NEW u \in Members, LegRefused(q, u)
  PROVE  RaceInv'
<1> DEFINE l == [leg[q] EXCEPT ![u] = "idle"]
<1>1. /\ leg[q] \in Legs /\ state[q] \in States
      /\ stage[q] = "starting" /\ result[q] \in Results /\ leg[q][u] = "candidate"
  BY DEF RaceInv, RaceTypeOK, LegRefused, Candidates, Legs, States, Results
<1>2. l \in Legs /\ RunningIn(l) = RunningIn(leg[q])
  BY <1>1 DEF Legs, RunningIn
<1>3. Counted(l, state[q], "starting") /\ Told(l, state[q], "starting", result[q])
  <2>1. Counted(leg[q], state[q], "starting") /\ Told(leg[q], state[q], "starting", result[q])
    BY <1>1 DEF RaceInv
  <2> QED
    BY <1>1, <1>2, <2>1 DEF Counted, Told, Legs
<1>4. /\ leg' = [leg EXCEPT ![q] = l] /\ state' = [state EXCEPT ![q] = state[q]]
      /\ stage' = [stage EXCEPT ![q] = "starting"] /\ result' = [result EXCEPT ![q] = result[q]]
      /\ UNCHANGED <<inFlight, racing>>
  BY <1>1 DEF LegRefused, RaceInv, RaceTypeOK
<1> HIDE DEF l
<1>5. BudgetExact' /\ inFlight' \in Nat /\ racing' \in Nat
  BY <1>2, <1>4, AskingMoves DEF RaceInv, RaceTypeOK, BudgetExact
<1> QED
  BY <1>1, <1>2, <1>3, <1>4, <1>5, OwnRace DEF Stages

(* The query leaves, or goes on to wait; no leg starts or ends.             *)
LEMMA LegsStartedInv ==
  ASSUME RaceInv, NEW q \in RaceQueries, LegsStarted(q)
  PROVE  RaceInv'
<1> DEFINE l == [u \in Members |-> IF leg[q][u] = "candidate" THEN "idle" ELSE leg[q][u]]
<1>1. /\ leg[q] \in Legs /\ state[q] \in States /\ stage[q] = "starting" /\ result[q] = "none"
      /\ Counted(leg[q], state[q], "starting") /\ Told(leg[q], state[q], "starting", "none")
  BY DEF RaceInv, RaceTypeOK, LegsStarted, Legs, States, Told
<1>2. l \in Legs /\ RunningIn(l) = RunningIn(leg[q]) /\ Running(q) = RunningIn(leg[q])
  BY <1>1 DEF Legs, RunningIn, Running
<1>3. leg' = [leg EXCEPT ![q] = l] /\ UNCHANGED <<inFlight, racing>>
  BY DEF LegsStarted
<1>4. \A u \in Members : l[u] \in {"idle", "asking"}
  BY <1>1 DEF Told
<1> HIDE DEF l
<1>5. BudgetExact' /\ inFlight' \in Nat /\ racing' \in Nat
  BY <1>2, <1>3, AskingMoves DEF RaceInv, RaceTypeOK, BudgetExact
<1>6. CASE Running(q) = {}
  <2> DEFINE s == Released(state[q])
  <2>1. /\ state' = [state EXCEPT ![q] = s] /\ stage' = [stage EXCEPT ![q] = "out"]
        /\ result' = [result EXCEPT ![q] = "sequential"]
    BY <1>6 DEF LegsStarted
  <2>2. state[q].refs = 1 /\ state[q].outstanding = 0 /\ Cardinality(RunningIn(l)) = 0
    BY <1>1, <1>2, <1>6, FS_EmptySet DEF Counted
  <2>3. s \in States /\ Counted(l, s, "out")
    BY <1>1, <2>2, ReleasedFields DEF Counted
  <2>4. Told(l, s, "out", "sequential")
    BY <1>1, <1>4, NoMemberIsNone DEF Told, Released, States
  <2> HIDE DEF s
  <2> QED
    BY <1>2, <1>3, <1>5, <2>1, <2>3, <2>4, OwnRace DEF Stages, Results
<1>7. CASE Running(q) # {}
  <2>1. /\ state' = [state EXCEPT ![q] = state[q]] /\ stage' = [stage EXCEPT ![q] = "waiting"]
        /\ result' = [result EXCEPT ![q] = "none"]
    BY <1>1, <1>7 DEF LegsStarted, RaceInv, RaceTypeOK
  <2>2. Counted(l, state[q], "waiting")
    BY <1>1, <1>2 DEF Counted
  <2>3. Told(l, state[q], "waiting", "none")
    BY <1>1, <1>4, NoMemberIsNone DEF Told, States
  <2> QED
    BY <1>1, <1>2, <1>3, <1>5, <2>1, <2>2, <2>3, OwnRace DEF Stages, Results
<1> QED
  BY <1>6, <1>7

(* The query returns, with an answer, an error or a timeout; its legs go on *)
(* and its reference is dropped.                                            *)
LEMMA QueryLeavesInv ==
  ASSUME RaceInv, NEW q \in RaceQueries, Woken(q) \/ GivesUp(q)
  PROVE  RaceInv'
<1>1. /\ leg[q] \in Legs /\ state[q] \in States /\ stage[q] = "waiting" /\ result[q] = "none"
      /\ Counted(leg[q], state[q], "waiting") /\ Told(leg[q], state[q], "waiting", "none")
  BY DEF RaceInv, RaceTypeOK, Woken, GivesUp, Legs, States, Told
<1>2. /\ leg' = [leg EXCEPT ![q] = leg[q]] /\ stage' = [stage EXCEPT ![q] = "out"]
      /\ UNCHANGED <<leg, inFlight, racing>>
  BY DEF Woken, GivesUp, RaceInv, RaceTypeOK
<1>3. BudgetExact' /\ inFlight' \in Nat /\ racing' \in Nat
  BY <1>2, ZenonT(40) DEF RaceInv, RaceTypeOK, BudgetExact, Asking
<1>4. CASE Woken(q)
  <2> DEFINE t == [state[q] EXCEPT !.sema = @ - 1]
             s == Released(t)
             r == IF state[q].winner = NoMember THEN "error" ELSE "answer"
  <2>1. state' = [state EXCEPT ![q] = s] /\ result' = [result EXCEPT ![q] = r]
    BY <1>4 DEF Woken
  <2>2. state[q].sema > 0
    BY <1>4 DEF Woken
  <2>3. /\ t \in States /\ t.refs = state[q].refs /\ t.outstanding = state[q].outstanding
        /\ t.done = state[q].done /\ t.winner = state[q].winner /\ t.life = state[q].life
    <3>1. state[q].sema - 1 \in Nat
      BY <1>1, <2>2 DEF States
    <3> QED
      BY <1>1, <3>1 DEF States
  <2> HIDE DEF t
  <2>4. s \in States /\ Counted(leg[q], s, "out")
    BY <1>1, <2>3, ReleasedFields, RunningFinite DEF Counted
  <2>5. Told(leg[q], s, "out", r)
    BY <1>1, <2>2, <2>3, ReleasedFields DEF Told, States, Legs, Counted
  <2>6. r \in Results
    BY DEF Results
  <2> HIDE DEF s, r
  <2> QED
    BY <1>1, <1>2, <1>3, <2>1, <2>4, <2>5, <2>6, OwnRace DEF Stages
<1>5. CASE GivesUp(q)
  <2> DEFINE t == [state[q] EXCEPT !.done = TRUE]
             s == Released(t)
  <2>1. state' = [state EXCEPT ![q] = s] /\ result' = [result EXCEPT ![q] = "timeout"]
    BY <1>5 DEF GivesUp
  <2>2. /\ t \in States /\ t.refs = state[q].refs /\ t.outstanding = state[q].outstanding
        /\ t.done /\ t.winner = state[q].winner /\ t.life = state[q].life
    BY <1>1 DEF States
  <2> HIDE DEF t
  <2>3. s \in States /\ Counted(leg[q], s, "out")
    BY <1>1, <2>2, ReleasedFields, RunningFinite DEF Counted
  <2>4. Told(leg[q], s, "out", "timeout")
    BY <1>1, <2>2, ReleasedFields DEF Told, Counted, States
  <2> HIDE DEF s
  <2> QED
    BY <1>1, <1>2, <1>3, <2>1, <2>3, <2>4, OwnRace DEF Stages, Results
<1> QED
  BY <1>4, <1>5

LEMMA LegEndsInv ==
  ASSUME RaceInv, NEW q \in RaceQueries, NEW u \in Members, NEW ok \in BOOLEAN, LegEnds(q, u, ok)
  PROVE  RaceInv'
<1> DEFINE st == state[q]
           won == ok /\ ~st.done
           post == won \/ st.outstanding = 1
           l == [leg[q] EXCEPT ![u] = IF ok THEN "answered" ELSE "failed"]
           t == [st EXCEPT !.done = st.done \/ won, !.winner = IF won THEN u ELSE @,
                           !.outstanding = @ - 1, !.sema = IF post THEN @ + 1 ELSE @]
           s == Released(t)
<1>1. /\ leg' = [leg EXCEPT ![q] = l] /\ state' = [state EXCEPT ![q] = s]
      /\ stage' = [stage EXCEPT ![q] = stage[q]] /\ result' = [result EXCEPT ![q] = result[q]]
      /\ inFlight' = inFlight - 1 /\ racing' = racing - 1
  BY DEF LegEnds, RaceInv, RaceTypeOK
<1>2. /\ leg[q] \in Legs /\ st \in States /\ stage[q] \in {"out", "waiting"} /\ result[q] \in Results
      /\ leg[q][u] = "asking"
      /\ Counted(leg[q], st, stage[q]) /\ Told(leg[q], st, stage[q], result[q])
  BY DEF RaceInv, RaceTypeOK, LegEnds, Legs, States, Results
<1>3. l \in Legs /\ RunningIn(l) = RunningIn(leg[q]) \ {u} /\ u \in RunningIn(leg[q])
  BY <1>2 DEF Legs, RunningIn
<1>4. /\ Cardinality(RunningIn(l)) = Cardinality(RunningIn(leg[q])) - 1
      /\ Cardinality(RunningIn(leg[q])) \in Nat \ {0}
  BY <1>3, RunningFinite, FS_RemoveElement, FS_EmptySet
<1>5. /\ t \in States /\ t.refs = st.refs /\ t.outstanding = st.outstanding - 1 /\ t.life = st.life
      /\ t.winner = (IF won THEN u ELSE st.winner) /\ t.done = (st.done \/ won)
      /\ t.sema = (IF post THEN st.sema + 1 ELSE st.sema)
  <2>1. st.outstanding - 1 \in Nat /\ (IF post THEN st.sema + 1 ELSE st.sema) \in Nat
    BY <1>2, <1>4 DEF Counted, States
  <2> HIDE DEF post
  <2> QED
    BY <1>2, <2>1 DEF States
<1>6. /\ s \in States /\ s.refs = st.refs - 1 /\ s.outstanding = st.outstanding - 1
      /\ s.life = (IF st.refs = 1 THEN "freed" ELSE st.life)
      /\ s.winner = (IF won THEN u ELSE st.winner) /\ s.done = (st.done \/ won)
      /\ s.sema = (IF post THEN st.sema + 1 ELSE st.sema)
  <2>1. st.refs # 0
    BY <1>2, <1>4 DEF Counted, States
  <2> HIDE DEF t, post, won
  <2> QED
    BY <1>5, <2>1, ReleasedFields
<1> HIDE DEF s, t
<1>7. Counted(l, s, stage[q])
  BY <1>2, <1>4, <1>6 DEF Counted, States
<1>8. Told(l, s, stage[q], result[q])
  <2>1. st.outstanding = 1 => \A v \in Members : l[v] # "asking"
    <3>1. st.outstanding = 1 => RunningIn(l) = {}
      BY <1>2, <1>4, RunningFinite, FS_EmptySet DEF Counted
    <3> QED
      BY <3>1 DEF RunningIn
  <2>2. \A v \in Members : l[v] = IF v = u THEN (IF ok THEN "answered" ELSE "failed") ELSE leg[q][v]
    BY <1>2 DEF Legs
  <2> HIDE DEF l
  <2> QED
    BY <1>2, <1>6, <2>1, <2>2, NoMemberIsNone DEF Told, States
<1> HIDE DEF l, st, won, post
<1>9. BudgetExact' /\ inFlight' \in Nat /\ racing' \in Nat
  <2>1. Cardinality(Asking') = Cardinality(Asking) - 1
    BY <1>1, <1>3, AskingMoves DEF RaceInv
  <2> QED
    BY <1>1, <2>1, AskingFinite DEF RaceInv, RaceTypeOK, BudgetExact
<1>10. stage[q] \in Stages
  BY <1>2 DEF Stages
<1> QED
  BY <1>1, <1>2, <1>3, <1>6, <1>7, <1>8, <1>9, <1>10, OwnRace

LEMMA RaceNextInv == RaceInv /\ [RaceNext]_raceVars => RaceInv'
<1> SUFFICES ASSUME RaceInv, [RaceNext]_raceVars PROVE RaceInv'
  OBVIOUS
<1>1. CASE UNCHANGED raceVars
  BY <1>1 DEF raceVars, RaceInv, RaceTypeOK, BudgetExact, Asking
<1>2. ASSUME NEW q \in RaceQueries, Race(q) \/ Starting(q) \/ Woken(q) \/ GivesUp(q)
      PROVE  RaceInv'
  BY <1>2, RaceStartsInv, StartLegInv, LegRefusedInv, LegsStartedInv, QueryLeavesInv DEF Starting
<1>3. ASSUME NEW q \in RaceQueries, NEW u \in Members, Leg(q, u) PROVE RaceInv'
  BY <1>3, LegEndsInv DEF Leg
<1> QED
  BY <1>1, <1>2, <1>3 DEF RaceNext

-----------------------------------------------------------------------------
(* Race_State is freed by the last of the query and its legs to let go of   *)
(* it, and both counts of legs are the legs running, for any number of      *)
(* queries and members and any budget.                                      *)
THEOREM LegsCountedHolds == RaceSpec => []LegsCounted
<1>1. RaceInv => LegsCounted
  <2> SUFFICES ASSUME RaceInv, NEW q \in RaceQueries
               PROVE  (state[q].life = "live") <=> (stage[q] # "out" \/ Running(q) # {})
    BY DEF RaceInv, LegsCounted, FreedByLast
  <2>1. Running(q) = RunningIn(leg[q])
    BY DEF Running, RunningIn
  <2>2. Cardinality(Running(q)) = 0 <=> Running(q) = {}
    BY <2>1, RunningFinite, FS_EmptySet
  <2>3. Counted(leg[q], state[q], stage[q]) /\ Cardinality(Running(q)) \in Nat
    BY <2>1, RunningFinite DEF RaceInv
  <2> QED
    BY <2>1, <2>2, <2>3 DEF Counted
<1> QED
  BY <1>1, RaceInitInv, RaceNextInv, PTL DEF RaceSpec

(* resolve_race returns an error only when every leg it started failed, and *)
(* an answer only of a leg that gave one.                                   *)
THEOREM ErrorMeansAllFailedHolds == RaceSpec => []ErrorMeansAllFailed
<1>1. RaceInv => ErrorMeansAllFailed
  BY DEF RaceInv, Told, ErrorMeansAllFailed
<1> QED
  BY <1>1, RaceInitInv, RaceNextInv, PTL DEF RaceSpec
=============================================================================
