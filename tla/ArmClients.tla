----------------------------- MODULE ArmClients -----------------------------
(* The clients of an experiment arm together, those that hold their sockets *)
(* and those whose questions are attempts of their own: they fill the same  *)
(* stats, which the report reads once they have been stopped.               *)
EXTENDS ArmSockets, ArmAttempts

-----------------------------------------------------------------------------
(* stats.closed is never the client's own doing, short of runTCPRedial's.   *)
ServersOwn == NotOwnDoing /\ RefusalsDecided

(* The figures of a client that has been stopped add up and stay.           *)
FiguresSettled == SocketsSettled /\ EveryAttemptFiled
=============================================================================
