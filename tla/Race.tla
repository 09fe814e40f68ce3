-------------------------------- MODULE Race --------------------------------
(***************************************************************************)
(* Racing the members of a group: resolve_race, race_worker, Race_State and *)
(* Racer_Budget of src/upstream/group.odin.                                 *)
(*                                                                         *)
(* A query starts a leg per candidate and waits for the first answer; a leg *)
(* runs on to its own timeout after the query has gone, so the state they   *)
(* share is counted and freed by the last to leave.  The legs of a race run *)
(* on the loop of the query that started them and park only inside          *)
(* `exchange`, so what a leg does after its exchange is one step; queries   *)
(* on different loops meet in the budget and in the group's count of legs.  *)
(***************************************************************************)
EXTENDS Naturals, FiniteSets

CONSTANTS
  RaceQueries,  (* queries racing the group                                *)
  Members,      (* the group's upstreams                                   *)
  Limit,        (* the budget of legs every group shares; 0 is none        *)
  NoMember      (* no member                                               *)

ASSUME RacersFinite == IsFiniteSet(RaceQueries) /\ IsFiniteSet(Members)
ASSUME LimitNat == Limit \in Nat
ASSUME NoMemberIsNone == NoMember \notin Members

VARIABLES
  leg,      (* each query's leg at each member                              *)
  state,    (* each query's Race_State                                      *)
  stage,    (* where each query is                                          *)
  result,   (* what each query returned                                     *)
  inFlight, (* legs counted in the budget                                   *)
  racing    (* legs counted on the group                                    *)

raceVars == <<leg, state, stage, result, inFlight, racing>>

NoState == [refs |-> 0, outstanding |-> 0, done |-> FALSE, winner |-> NoMember,
            sema |-> 0, life |-> "none"]

RaceInit ==
  /\ leg = [q \in RaceQueries |-> [u \in Members |-> "idle"]]
  /\ state = [q \in RaceQueries |-> NoState]
  /\ stage = [q \in RaceQueries |-> "out"]
  /\ result = [q \in RaceQueries |-> "none"]
  /\ inFlight = 0
  /\ racing = 0

Running(q) == {u \in Members : leg[q][u] = "asking"}

(* race_state_release: the last reference frees the block.                  *)
Released(st) ==
  [st EXCEPT !.refs = @ - 1, !.life = IF st.refs = 1 THEN "freed" ELSE @]

-----------------------------------------------------------------------------
(* The query's side.  Slips the code could have had are named for what they *)
(* get wrong and used by no behaviour of RaceSpec.                          *)

(* A race of two candidates or more, chosen by health.                      *)
Race(q) ==
  /\ stage[q] = "out" /\ state[q].life # "live"
  /\ Running(q) = {}
  /\ \E candidates \in SUBSET Members :
       /\ Cardinality(candidates) > 1
       /\ leg' = [leg EXCEPT ![q] = [u \in Members |->
                    IF u \in candidates THEN "candidate" ELSE "idle"]]
  /\ state' = [state EXCEPT ![q] = [NoState EXCEPT !.refs = 1, !.life = "live"]]
  /\ stage' = [stage EXCEPT ![q] = "starting"]
  /\ result' = [result EXCEPT ![q] = "none"]
  /\ UNCHANGED <<inFlight, racing>>

Candidates(q) == {u \in Members : leg[q][u] = "candidate"}

(* take_racer's compare-and-exchange succeeded: the leg is counted          *)
(* everywhere before its fiber is started.                                  *)
StartLeg(q, u) ==
  /\ stage[q] = "starting" /\ u \in Candidates(q)
  /\ Limit = 0 \/ inFlight < Limit
  /\ leg' = [leg EXCEPT ![q][u] = "asking"]
  /\ state' = [state EXCEPT ![q].refs = @ + 1, ![q].outstanding = @ + 1]
  /\ inFlight' = inFlight + 1
  /\ racing' = racing + 1
  /\ UNCHANGED <<stage, result>>

LegRefusedUndoesTwice(q, u) ==
  /\ stage[q] = "starting" /\ u \in Candidates(q)
  /\ Limit = 0 \/ inFlight < Limit
  /\ leg' = [leg EXCEPT ![q][u] = "idle"]
  /\ inFlight' = inFlight - 1
  /\ UNCHANGED <<state, stage, result, racing>>

(* loop.go refused: the leg's bookkeeping is undone, and the next is tried. *)
LegRefused(q, u) ==
  /\ stage[q] = "starting" /\ u \in Candidates(q)
  /\ Limit = 0 \/ inFlight < Limit
  /\ leg' = [leg EXCEPT ![q][u] = "idle"]
  /\ UNCHANGED <<state, stage, result, inFlight, racing>>

(* Every candidate has its leg, or the budget has no room for the rest.     *)
LegsStarted(q) ==
  /\ stage[q] = "starting"
  /\ Candidates(q) = {} \/ (Limit > 0 /\ inFlight >= Limit)
  /\ leg' = [leg EXCEPT ![q] = [u \in Members |->
               IF leg[q][u] = "candidate" THEN "idle" ELSE leg[q][u]]]
  /\ IF Running(q) = {}
       THEN /\ stage' = [stage EXCEPT ![q] = "out"]
            /\ result' = [result EXCEPT ![q] = "sequential"]
            /\ state' = [state EXCEPT ![q] = Released(@)]
       ELSE /\ stage' = [stage EXCEPT ![q] = "waiting"]
            /\ UNCHANGED <<result, state>>
  /\ UNCHANGED <<inFlight, racing>>

(* Woken by a post: an answer if one was recorded, the last error otherwise.*)
Woken(q) ==
  /\ stage[q] = "waiting" /\ state[q].sema > 0
  /\ stage' = [stage EXCEPT ![q] = "out"]
  /\ result' = [result EXCEPT ![q] = IF state[q].winner = NoMember THEN "error" ELSE "answer"]
  /\ state' = [state EXCEPT ![q] = Released([state[q] EXCEPT !.sema = @ - 1])]
  /\ UNCHANGED <<leg, inFlight, racing>>

(* The group's timeout came first.                                          *)
GivesUp(q) ==
  /\ stage[q] = "waiting" /\ state[q].sema = 0
  /\ stage' = [stage EXCEPT ![q] = "out"]
  /\ result' = [result EXCEPT ![q] = "timeout"]
  /\ state' = [state EXCEPT ![q] = Released([state[q] EXCEPT !.done = TRUE])]
  /\ UNCHANGED <<leg, inFlight, racing>>

-----------------------------------------------------------------------------
LegEndsAlways(q, u, ok) ==
  LET st == state[q]
  IN
  /\ stage[q] # "starting" /\ leg[q][u] = "asking"
  /\ leg' = [leg EXCEPT ![q][u] = IF ok THEN "answered" ELSE "failed"]
  /\ state' = [state EXCEPT ![q] = Released(
       [st EXCEPT !.done = st.done \/ ok, !.winner = IF ok THEN u ELSE @,
                  !.outstanding = @ - 1, !.sema = @ + 1])]
  /\ inFlight' = inFlight - 1
  /\ racing' = racing - 1
  /\ UNCHANGED <<stage, result>>

(* race_worker, from the end of its exchange: the first answer is recorded, *)
(* a late one discarded; the winner posts, and so does the last to finish.  *)
LegEnds(q, u, ok) ==
  LET st == state[q]
      won == ok /\ ~st.done
      post == won \/ st.outstanding = 1
  IN
  /\ stage[q] # "starting" /\ leg[q][u] = "asking"
  /\ leg' = [leg EXCEPT ![q][u] = IF ok THEN "answered" ELSE "failed"]
  /\ state' = [state EXCEPT ![q] = Released(
       [st EXCEPT !.done = st.done \/ won, !.winner = IF won THEN u ELSE @,
                  !.outstanding = @ - 1, !.sema = IF post THEN @ + 1 ELSE @])]
  /\ inFlight' = inFlight - 1
  /\ racing' = racing - 1
  /\ UNCHANGED <<stage, result>>

-----------------------------------------------------------------------------
Starting(q) ==
  \/ LegsStarted(q)
  \/ \E u \in Members : StartLeg(q, u) \/ LegRefused(q, u)

Leg(q, u) == \E ok \in BOOLEAN : LegEnds(q, u, ok)

RaceNext ==
  \E q \in RaceQueries :
    \/ Race(q) \/ Starting(q) \/ Woken(q) \/ GivesUp(q)
    \/ \E u \in Members : Leg(q, u)

RaceSpec == RaceInit /\ [][RaceNext]_raceVars

(* A query starts its legs without waiting, a posted query runs, and every  *)
(* exchange ends at its own timeout.  The group's timeout may never come.   *)
RaceFairness ==
  \A q \in RaceQueries :
    /\ WF_raceVars(Starting(q)) /\ WF_raceVars(Woken(q))
    /\ \A u \in Members : WF_raceVars(Leg(q, u))

RaceFairSpec == RaceSpec /\ RaceFairness

-----------------------------------------------------------------------------
(* Every variable stays in its range.                                       *)
RaceTypeOK ==
  /\ leg \in [RaceQueries -> [Members -> {"idle", "candidate", "asking", "answered", "failed"}]]
  /\ state \in [RaceQueries -> [refs : Nat, outstanding : Nat, done : BOOLEAN,
                                winner : Members \cup {NoMember}, sema : Nat,
                                life : {"none", "live", "freed"}]]
  /\ stage \in [RaceQueries -> {"out", "starting", "waiting"}]
  /\ result \in [RaceQueries -> {"none", "sequential", "answer", "error", "timeout"}]
  /\ inFlight \in Nat /\ racing \in Nat

(* The shared state outlives everyone who can still touch it, the query and *)
(* each leg that outlived it, and is freed by the last of them: it is live  *)
(* exactly while one of them is left.                                       *)
FreedByLast ==
  \A q \in RaceQueries :
    (state[q].life = "live") <=> (stage[q] # "out" \/ Running(q) # {})

(* The legs running.                                                        *)
Asking == {p \in RaceQueries \X Members : leg[p[1]][p[2]] = "asking"}

(* The budget and the group's count are the legs still running, whichever   *)
(* query started them and whether or not it has gone, so neither a refused  *)
(* start nor a late leg leaks room, and a group reads idle only once no leg *)
(* is left on it.                                                           *)
BudgetExact == inFlight = Cardinality(Asking) /\ racing = Cardinality(Asking)

(* The counts of a race: its shared state's and its legs'.                  *)
LegsCounted == RaceTypeOK /\ FreedByLast /\ BudgetExact

(* A query is told there is no answer only when there was none: an error    *)
(* means every leg it started failed, an answer is one a leg really gave.   *)
ErrorMeansAllFailed ==
  \A q \in RaceQueries :
    /\ result[q] = "error" =>
         \A u \in Members : leg[q][u] \in {"idle", "failed"}
    /\ result[q] = "answer" => leg[q][state[q].winner] = "answered"
=============================================================================
