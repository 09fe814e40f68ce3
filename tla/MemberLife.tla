----------------------------- MODULE MemberLife -----------------------------
(***************************************************************************)
(* One upstream and the exchanges under way on it at once (`exchange`,      *)
(* src/upstream/upstream.odin): each notes on entry whether the hostname is *)
(* resolved, each ends on its own and records how, in whatever order, and   *)
(* the cooldown runs out by itself.                                         *)
(***************************************************************************)
EXTENDS MemberHealth, MemberCondition, FiniteSets

CONSTANTS
  Exchanges,     (* fibers that may be in an exchange                       *)
  HasBootstrap   (* whether bootstrap servers are configured                *)

VARIABLES
  h,         (* the upstream's health                                       *)
  resolved,  (* its endpoint is published                                   *)
  stage,        (* where each exchange is                                      *)
  since,     (* history: charged failures since the last success, capped    *)
  mixed      (* history: one of those was not a hang-up                     *)

memberVars == <<h, resolved, stage, since, mixed>>

(* How many charged failures it takes to park it at the very worst.         *)
Worst == FAILURE_THRESHOLD * FAILURE_THRESHOLD

MemberInit ==
  /\ h = Fresh
  /\ resolved \in BOOLEAN
  /\ stage = [e \in Exchanges |-> "out"]
  /\ since = 0 /\ mixed = FALSE

Enter(e) ==
  /\ stage[e] = "out"
  /\ stage' = [stage EXCEPT ![e] = IF resolved THEN "sending" ELSE "resolving"]
  /\ UNCHANGED <<h, resolved, since, mixed>>

Records(err) ==
  /\ h' = record_failure(h, err)
  /\ since' = IF err \in ChargedErrors /\ since < Worst THEN since + 1 ELSE since
  /\ mixed' = (mixed \/ err \in ChargedErrors \ {"Peer_Closed"})

(* resolve_endpoint found no address by the deadline: recorded where there  *)
(* were servers to ask.                                                     *)
Unresolved(e) ==
  /\ stage[e] = "resolving"
  /\ stage' = [stage EXCEPT ![e] = "out"]
  /\ IF HasBootstrap THEN Records("Not_Resolved") ELSE UNCHANGED <<h, since, mixed>>
  /\ UNCHANGED resolved

(* It found one, or another exchange did meanwhile; this one is still the   *)
(* one that waited for it.                                                  *)
Resolved(e) ==
  /\ stage[e] = "resolving"
  /\ stage' = [stage EXCEPT ![e] = "cut_short"]
  /\ resolved' = TRUE
  /\ UNCHANGED <<h, since, mixed>>

Fails(e) ==
  /\ stage[e] \in {"sending", "cut_short"}
  /\ stage' = [stage EXCEPT ![e] = "out"]
  /\ \E err \in {"Peer_Closed", "Unreached", "Backlogged",
                  IF stage[e] = "cut_short" THEN "Cut" ELSE "Timeout"} : Records(err)
  /\ UNCHANGED resolved

Answers(e) ==
  /\ stage[e] \in {"sending", "cut_short"}
  /\ stage' = [stage EXCEPT ![e] = "out"]
  /\ h' = record_success(h)
  /\ since' = 0 /\ mixed' = FALSE
  /\ UNCHANGED resolved

CoolsDown ==
  /\ h.cooling
  /\ h' = [h EXCEPT !.cooling = FALSE]
  /\ UNCHANGED <<resolved, stage, since, mixed>>

MemberNext ==
  \/ \E e \in Exchanges : Enter(e) \/ Unresolved(e) \/ Resolved(e) \/ Fails(e) \/ Answers(e)
  \/ CoolsDown

MemberSpec == MemberInit /\ [][MemberNext]_memberVars

-----------------------------------------------------------------------------
(* Every variable stays in its range.                                       *)
MemberTypeOK ==
  /\ h \in Health
  /\ resolved \in BOOLEAN
  /\ stage \in [Exchanges -> {"out", "resolving", "sending", "cut_short"}]
  /\ since \in 0 .. Worst /\ mixed \in BOOLEAN

(* A server that only ever hangs up is parked, but late: on the             *)
(* (2 * FAILURE_THRESHOLD - 1)th hang-up in a row and not before, whatever  *)
(* uncharged failures and whatever exchanges come between them.             *)
HangUpsParkLate ==
  ~mixed => (h.failures >= FAILURE_THRESHOLD <=> since >= 2 * FAILURE_THRESHOLD - 1)

(* No failure that costs waiting is exempt for good: a member that fails    *)
(* and fails, in any mixture of ways and without an answer between, is      *)
(* parked after at most FAILURE_THRESHOLD squared of them, and never before *)
(* FAILURE_THRESHOLD of them.                                               *)
DeadMemberParks ==
  /\ since >= Worst => h.failures >= FAILURE_THRESHOLD
  /\ h.failures >= FAILURE_THRESHOLD => since >= FAILURE_THRESHOLD

(* record_failure's two counters: hang-ups alone park a member, but late,   *)
(* and one that only fails is parked in the end and none early.             *)
ParkedInTime == MemberTypeOK /\ HangUpsParkLate /\ DeadMemberParks

(* What the counters come to, as a group reads them.                        *)
Condition ==
  IF ~healthy(h) THEN "down" ELSE IF answering(h) THEN "answering" ELSE "up"

(* No failure raises a member's standing: a parked one stays parked until   *)
(* its cooldown is over or it answers, and none is taken to be answering on *)
(* the strength of an exchange that failed.                                 *)
NoRevival ==
  (\E e \in Exchanges : Fails(e) \/ Unresolved(e)) => Condition' \in AfterFailure(Condition)

FailureNeverRevives == [][NoRevival]_memberVars
=============================================================================
