---------------------------- MODULE MCLifecycle ----------------------------
(* How what serves a query comes and goes, on small instances: the          *)
(* generations a reload swaps, and the listeners, connections and queries a *)
(* shutdown waits for: three connections of two prefixes, one fewer in the  *)
(* table, one of each prefix, and two queries in flight.  A generation is   *)
(* pinned and let go inside a query, and the last one goes after the        *)
(* shutdown, so a behaviour is of one of the two.                           *)
EXTENDS MCGenerations, Serving

CONSTANTS c1, c2, c3, j1, j2

VARIABLE part   (* "generations" or "serving" *)

MCClients == {c1, c2, c3}
MCJobs == {j1, j2}
MCPrefix == [c \in MCClients |-> IF c = c3 THEN 2 ELSE 1]

MCInit ==
  /\ part \in {"generations", "serving"}
  /\ Init /\ (part = "serving" => owns[1] = Parts)
  /\ ServingInit

MCNext ==
  \/ part = "generations" /\ Next /\ UNCHANGED <<part, servingVars>>
  \/ part = "serving" /\ ServingNext /\ UNCHANGED <<part, vars>>

MCSpec == MCInit /\ [][MCNext]_<<part, vars, servingVars>>
=============================================================================
