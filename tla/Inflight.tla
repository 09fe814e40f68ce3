------------------------------ MODULE Inflight ------------------------------
(***************************************************************************)
(* The coalescing of identical questions in src/server/inflight.odin.       *)
(*                                                                         *)
(* The first query to miss for a key leads a flight that lives in its own   *)
(* stack frame; the ones that miss meanwhile follow it and take a copy of   *)
(* what it lands with, reading the leader's frame outside the table's lock. *)
(* Every critical section of the table's mutex is one action, a wait on the *)
(* flight's cond releases it, and a follower's patience may run out at any  *)
(* moment it sleeps.                                                        *)
(***************************************************************************)
EXTENDS Naturals, FiniteSets

CONSTANTS
  Queries,         (* the fibers asking                                    *)
  Keys,            (* cache keys                                           *)
  CountedQueries,  (* the ones counted against max_pending                 *)
  Ceiling,         (* counted followers that may wait; 0 is none           *)
  INFLIGHT_SLOTS,  (* slots of the table                                   *)
  INFLIGHT_PROBE,  (* how many of them a key may sit in                    *)
  None             (* no query, no key                                     *)

ASSUME QueriesFinite == IsFiniteSet(Queries)
ASSUME CountedAreQueries == CountedQueries \subseteq Queries
ASSUME SlotsFit == INFLIGHT_SLOTS \in Nat \ {0} /\ INFLIGHT_PROBE \in 1 .. INFLIGHT_SLOTS
ASSUME CeilingNat == Ceiling \in Nat
ASSUME NoneIsNone == None \notin Queries \cup Keys

Slots == 0 .. INFLIGHT_SLOTS - 1

VARIABLES
  home,       (* where each key's window starts: its hash, under a seed    *)
              (* drawn once                                                *)
  slots,      (* the leader whose flight sits in each slot, or None        *)
  followers,  (* counted followers waiting                                 *)
  flight,     (* each query's own flight, in its frame                     *)
  at,         (* where each query is                                       *)
  of,         (* the leader each query follows, or None                    *)
  counted     (* the followers that were counted                           *)

vars == <<home, slots, followers, flight, at, of, counted>>

NoFlight == [key |-> None, slot |-> 0, waiters |-> 0, landed |-> FALSE]

Init ==
  /\ home \in [Keys -> Slots]
  /\ slots = [i \in Slots |-> None]
  /\ followers = 0
  /\ flight = [q \in Queries |-> NoFlight]
  /\ at = [q \in Queries |-> "out"]
  /\ of = [q \in Queries |-> None]
  /\ counted = {}

-----------------------------------------------------------------------------
(* Slips the code could have had are named for what they get wrong.         *)

Window(k) == {(home[k] + probe) % INFLIGHT_SLOTS : probe \in 0 .. INFLIGHT_PROBE - 1}
Distance(k, i) == (i + INFLIGHT_SLOTS - home[k]) % INFLIGHT_SLOTS
Free(k) == {i \in Window(k) : slots[i] = None}
FirstFree(k) == CHOOSE i \in Free(k) : \A j \in Free(k) : Distance(k, i) <= Distance(k, j)

LeadersToFirstHole(k) ==
  {slots[i] : i \in {j \in Window(k) : /\ slots[j] # None /\ flight[slots[j]].key = k
                                       /\ \A h \in Free(k) : Distance(k, j) < Distance(k, h)}}

(* The flights for `k` in its window, all of which is searched.             *)
LeadersOf(k) == {slots[i] : i \in {j \in Window(k) : slots[j] # None /\ flight[slots[j]].key = k}}

AtCeiling(q) == q \in CountedQueries /\ Ceiling > 0 /\ followers >= Ceiling

(* flight_join, its four outcomes.                                          *)
JoinFollows(q, k) ==
  /\ at[q] = "out"
  /\ \E l \in LeadersOf(k) :
       /\ ~AtCeiling(q)
       /\ flight' = [flight EXCEPT ![l].waiters = @ + 1]
       /\ of' = [of EXCEPT ![q] = l]
       /\ LET counts == q \in CountedQueries /\ Ceiling > 0 IN
            /\ followers' = followers + (IF counts THEN 1 ELSE 0)
            /\ counted' = IF counts THEN counted \cup {q} ELSE counted
  /\ at' = [at EXCEPT ![q] = "awake"]
  /\ UNCHANGED <<home, slots>>

JoinLeads(q, k) ==
  /\ at[q] = "out"
  /\ LeadersOf(k) = {} /\ Free(k) # {}
  /\ flight' = [flight EXCEPT ![q] = [NoFlight EXCEPT !.key = k, !.slot = FirstFree(k)]]
  /\ slots' = [slots EXCEPT ![FirstFree(k)] = q]
  /\ at' = [at EXCEPT ![q] = "leading"]
  /\ UNCHANGED <<home, followers, of, counted>>

(* The window is full, or the ceiling reached: the query forwards on its    *)
(* own and never looks at the table again.                                  *)
JoinAlone(q, k) ==
  /\ at[q] = "out"
  /\ IF LeadersOf(k) = {} THEN Free(k) = {} ELSE AtCeiling(q)
  /\ at' = [at EXCEPT ![q] = "alone"]
  /\ UNCHANGED <<home, slots, followers, flight, of, counted>>

Forwarded(q) ==
  /\ at[q] = "alone"
  /\ at' = [at EXCEPT ![q] = "out"]
  /\ UNCHANGED <<home, slots, followers, flight, of, counted>>

-----------------------------------------------------------------------------
(* flight_follow: under the lock, sleep on the cond until the leader landed *)
(* or patience ran out; then copy outside it; then leave, under it again.   *)
FollowSleeps(q) ==
  /\ at[q] = "awake" /\ ~flight[of[q]].landed
  /\ at' = [at EXCEPT ![q] = "asleep"]
  /\ UNCHANGED <<home, slots, followers, flight, of, counted>>

FollowSees(q) ==
  /\ at[q] \in {"awake", "late"} /\ flight[of[q]].landed
  /\ at' = [at EXCEPT ![q] = "copying"]
  /\ UNCHANGED <<home, slots, followers, flight, of, counted>>

PatienceRunsOut(q) ==
  /\ at[q] = "asleep" /\ of[q] # None
  /\ at' = [at EXCEPT ![q] = "late"]
  /\ UNCHANGED <<home, slots, followers, flight, of, counted>>

FollowGivesUp(q) ==
  /\ at[q] = "late" /\ ~flight[of[q]].landed
  /\ at' = [at EXCEPT ![q] = "leaving"]
  /\ UNCHANGED <<home, slots, followers, flight, of, counted>>

FollowCopies(q) ==
  /\ at[q] = "copying"
  /\ at' = [at EXCEPT ![q] = "leaving"]
  /\ UNCHANGED <<home, slots, followers, flight, of, counted>>

(* Everyone asleep on the cond of `l`'s flight: its followers, and `l`      *)
(* itself once it has landed.                                               *)
Asleep(l) == {q \in Queries : at[q] = "asleep" /\ (of[q] = l \/ (q = l /\ of[q] = None))}

FollowLeavesSilently(q) ==
  /\ at[q] = "leaving"
  /\ followers' = followers - (IF q \in counted THEN 1 ELSE 0)
  /\ counted' = counted \ {q}
  /\ flight' = [flight EXCEPT ![of[q]].waiters = @ - 1]
  /\ of' = [of EXCEPT ![q] = None]
  /\ at' = [at EXCEPT ![q] = "out"]
  /\ UNCHANGED <<home, slots>>

(* The last follower out signals the leader, which alone still sleeps.      *)
FollowLeaves(q) ==
  LET l == of[q]
      last == flight[l].landed /\ flight[l].waiters = 1 IN
  /\ at[q] = "leaving"
  /\ followers' = followers - (IF q \in counted THEN 1 ELSE 0)
  /\ counted' = counted \ {q}
  /\ flight' = [flight EXCEPT ![l].waiters = @ - 1]
  /\ of' = [of EXCEPT ![q] = None]
  /\ \E woken \in SUBSET Asleep(l) :
       /\ Cardinality(woken) = IF last /\ Asleep(l) # {} THEN 1 ELSE 0
       /\ at' = [p \in Queries |-> IF p = q THEN "out" ELSE IF p \in woken THEN "awake" ELSE at[p]]
  /\ UNCHANGED <<home, slots>>

-----------------------------------------------------------------------------
LandAbandons(l) ==
  /\ at[l] = "leading"
  /\ slots' = [slots EXCEPT ![flight[l].slot] = None]
  /\ flight' = [flight EXCEPT ![l].landed = TRUE]
  /\ at' = [p \in Queries |->
       IF p = l THEN "out" ELSE IF p \in Asleep(l) THEN "awake" ELSE at[p]]
  /\ UNCHANGED <<home, followers, of, counted>>

(* flight_land, up to its first wait: out of the table, and everybody woken.*)
Land(l) ==
  /\ at[l] = "leading"
  /\ slots' = [slots EXCEPT ![flight[l].slot] = None]
  /\ flight' = [flight EXCEPT ![l].landed = TRUE]
  /\ at' = [p \in Queries |->
       IF p = l THEN (IF flight[l].waiters = 0 THEN "out" ELSE "asleep")
       ELSE IF p \in Asleep(l) THEN "awake" ELSE at[p]]
  /\ UNCHANGED <<home, followers, of, counted>>

(* Woken on its own cond, the leader waits again or leaves its frame.       *)
LeaderWakes(l) ==
  /\ at[l] = "awake" /\ of[l] = None
  /\ at' = [at EXCEPT ![l] = IF flight[l].waiters > 0 THEN "asleep" ELSE "out"]
  /\ UNCHANGED <<home, slots, followers, flight, of, counted>>

-----------------------------------------------------------------------------
Follow(q) ==
  /\ of[q] # None
  /\ FollowSleeps(q) \/ FollowSees(q) \/ FollowGivesUp(q) \/ FollowCopies(q) \/ FollowLeaves(q)

Next ==
  \E q \in Queries :
    \/ \E k \in Keys : JoinFollows(q, k) \/ JoinLeads(q, k) \/ JoinAlone(q, k)
    \/ Forwarded(q) \/ Follow(q) \/ PatienceRunsOut(q)
    \/ Land(q) \/ LeaderWakes(q)

Spec == Init /\ [][Next]_vars

(* A leader's own deadline ends its exchange, so it lands; an awake fiber   *)
(* runs on.  Nothing makes a follower's patience run out in particular.     *)
Fairness ==
  \A q \in Queries :
    WF_vars(Follow(q)) /\ WF_vars(Land(q)) /\ WF_vars(LeaderWakes(q))

FairSpec == Spec /\ Fairness

-----------------------------------------------------------------------------
(* Every variable stays in its range.                                       *)
TypeOK ==
  /\ slots \in [Slots -> Queries \cup {None}]
  /\ followers \in Nat
  /\ flight \in [Queries -> [key : Keys \cup {None}, slot : Slots, waiters : Nat, landed : BOOLEAN]]
  /\ at \in [Queries -> {"out", "alone", "leading", "awake", "asleep", "late", "copying", "leaving"}]
  /\ of \in [Queries -> Queries \cup {None}]
  /\ counted \in SUBSET CountedQueries

FollowersOf(l) == {q \in Queries : of[q] = l}

(* A leader's frame is not left while anyone still counts on reading it:    *)
(* the leader of every follower is flying or waiting in flight_land, and    *)
(* what a follower is copying has landed.                                   *)
FrameOutlivesFollowers ==
  \A q \in Queries : of[q] # None =>
    /\ at[of[q]] = "leading" \/ (flight[of[q]].landed /\ at[of[q]] \in {"asleep", "awake"})
    /\ at[q] = "copying" => flight[of[q]].landed

(* The counts are the followers: a flight's waiters are those that follow   *)
(* it, the table's are the counted ones, and those never pass the ceiling.  *)
CountsExact ==
  /\ \A l \in Queries : flight[l].waiters = Cardinality(FollowersOf(l))
  /\ followers = Cardinality(counted)
  /\ \A q \in counted : of[q] # None
  /\ Ceiling > 0 => followers <= Ceiling

(* Identical questions go upstream once: no two flights in the table are    *)
(* for one key, whatever holes landings have left in its window.            *)
OneFlightPerKey ==
  \A i, j \in Slots :
    slots[i] # None /\ slots[j] # None /\ flight[slots[i]].key = flight[slots[j]].key => i = j

(* flight_join and flight_follow keep the table: exact counts, one flight   *)
(* per key.                                                                 *)
FlightSound == CountsExact /\ OneFlightPerKey
=============================================================================
