---------------------------- MODULE MCForwarding ----------------------------
(* The ways a query waits for an upstream's answer, on small instances:     *)
(* following another query's flight, and racing the members of a group.  A  *)
(* behaviour exercises one of them, chosen at the start.                    *)
EXTENDS Inflight, Race

CONSTANTS
  q1, q2, q3, k1, k2,                     (* Inflight                       *)
  u1, u2, u3                              (* Race                           *)

VARIABLE part                             (* the one exercised              *)

MCQueries == {q1, q2, q3}
MCCounted == {q2, q3}
MCKeys == {k1, k2}
MCRaceQueries == {q1, q2}
MCMembers == {u1, u2, u3}

allVars == <<part, vars, raceVars>>

ForwardingInit ==
  /\ part \in {"flight", "race"}
  /\ Init /\ (part # "flight" => home = [k \in Keys |-> 0])
  /\ RaceInit

ForwardingNext ==
  /\ UNCHANGED part
  /\ \/ part = "flight" /\ Next /\ UNCHANGED raceVars
     \/ part = "race" /\ RaceNext /\ UNCHANGED vars

(* Each part's own fairness, in the behaviours that exercise it.            *)
ForwardingFairness ==
  /\ \A q \in Queries : /\ WF_vars(part = "flight" /\ Follow(q))
                        /\ WF_vars(part = "flight" /\ Land(q))
                        /\ WF_vars(part = "flight" /\ LeaderWakes(q))
  /\ \A q \in RaceQueries :
       /\ WF_raceVars(part = "race" /\ Starting(q))
       /\ WF_raceVars(part = "race" /\ Woken(q))
       /\ \A u \in Members : WF_raceVars(part = "race" /\ Leg(q, u))

ForwardingSpec == ForwardingInit /\ [][ForwardingNext]_allVars /\ ForwardingFairness

-----------------------------------------------------------------------------
(* The i-th query waits: it leads or follows a flight, or its race is on.   *)
Waiting(i) ==
  \/ i \in 1..3 /\ at[<<q1, q2, q3>>[i]] \notin {"out", "alone"}
  \/ i \in 1..2 /\ LET q == <<q1, q2>>[i] IN stage[q] # "out" \/ state[q].life = "live"

(* flight_land and flight_follow on their one cond, resolve_race on the     *)
(* legs' posts: nobody waits for good, and what a race shared is released,  *)
(* with no help from any timer.                                             *)
WaitsEnd == \A i \in 1..3 : Waiting(i) ~> ~Waiting(i)
=============================================================================
