----------------------------- MODULE MCUpstream -----------------------------
(* A question put to a group, the health of one of its members, and the     *)
(* queries on its connections, on small instances.  MemberCondition is what *)
(* the first two have in common, and exchange, which Group takes as one     *)
(* step, what the last is about, so a behaviour is of one of them, chosen   *)
(* at the start.  Three callers crowd one connection, or two have one each. *)
EXTENDS Group, MemberLife, Pipeline

CONSTANTS q1, q2, q3, k1, k2

VARIABLE part   (* what the behaviour is of *)

allVars == <<part, vars, memberVars, pipeVars>>

MCInit ==
  /\ part \in {"group", "member", "crowd", "pair"}
  /\ Init /\ (part # "group" => strategy = "race" /\ ~holds)
  /\ MemberInit /\ (part # "member" => resolved)
  /\ PipeInit

MCNext ==
  \/ part = "group" /\ Next /\ UNCHANGED <<part, memberVars, pipeVars>>
  \/ part = "member" /\ MemberNext /\ UNCHANGED <<part, vars, pipeVars>>
  \/ part = "crowd" /\ PipeNext /\ conn'[k2] = Closed /\ UNCHANGED <<part, vars, memberVars>>
  \/ part = "pair" /\ PipeNext /\ place'[q3] = "out" /\ UNCHANGED <<part, vars, memberVars>>

MCSpec == MCInit /\ [][MCNext]_allVars
=============================================================================
