-------------------------- MODULE MemberCondition --------------------------
(***************************************************************************)
(* What a group is promised of one upstream's health (src/upstream/         *)
(* upstream.odin): whether it is parked, and whether it was answering when  *)
(* last heard of.  How many failures of which kind it takes is left open:   *)
(* MemberHealth has the counters, and MemberLife's FailureNeverRevives      *)
(* shows that they keep to this.                                            *)
(***************************************************************************)

(* Parked; neither parked nor known to answer; answering.                   *)
Conditions == {"down", "up", "answering"}

(* A failure may be exempt or uncharged, may only count, or may park; one   *)
(* met while parked leaves it parked.                                       *)
AfterFailure(c) == IF c = "down" THEN {"down"} ELSE {c, "up", "down"}
=============================================================================
