------------------------------- MODULE Group -------------------------------
(***************************************************************************)
(* How a question is asked of a group of upstreams, in                      *)
(* src/upstream/group.odin: resolve_insisting, the strategy it begins with  *)
(* (resolve_sequential, or the race of module Race seen as one wait) and    *)
(* its sweep.  One question makes any number of calls under one deadline;   *)
(* an exchange is one step that takes any time up to Longest, its timeout   *)
(* and what it may overrun that by, and between its steps other questions   *)
(* move the health of the same members.                                     *)
(***************************************************************************)
EXTENDS MemberCondition, Integers, FiniteSets, FiniteSetsExt

CONSTANTS
  Servers,   (* how many members the group has                              *)
  Timeout,   (* g.timeout, in units of the model's clock                    *)
  Grace,     (* what an exchange may overrun it by: PIPE_FRAMING_GRACE for a *)
             (* message under way, and the like                             *)
  Span,      (* a question's deadline, of the longest-timed of its groups    *)
  Attempts,  (* g.attempts                                                  *)
  Strategies (* the strategies a group may have                             *)

ASSUME GroupIsSane == {Servers, Timeout, Attempts, Span} \subseteq Nat \ {0}
ASSUME GraceIsTime == Grace \in Nat
ASSUME StrategiesMet == Strategies \subseteq {"race", "round_robin", "failover"}

Members == 0 .. Servers - 1
None == Servers
QueryBudget == 2 * Timeout

(* What a reply is to the caller: no use, acceptable, or acceptable and     *)
(* what `proves` holds out for.                                             *)
Kinds == {"useless", "usable", "proof"}

VARIABLES
  health,    (* each member's condition                                     *)
  strategy,  (* g.strategy                                                  *)
  holds,     (* the call has a `proves` to hold out for                     *)
  left,      (* what is left of the question's deadline                     *)
  phase,     (* where the call is                                           *)
  elapsed,   (* since the call started                                      *)
  budget,    (* the call's, and then the sweep's                            *)
  spent,     (* charged against it                                          *)
  start,     (* where resolve_sequential starts                             *)
  pos,       (* how far the scan of the members is                          *)
  asked,     (* the round in which each member was asked, 0 for not yet     *)
  reply,     (* the reply in hand: its kind, whose it is, and who gave the  *)
             (* first one                                                   *)
  again,     (* history: the members resolve_sequential asked twice         *)
  seen       (* history: the kinds of reply this call received              *)

call == <<phase, elapsed, budget, spent, start, pos, asked, reply, again, seen>>
vars == <<health, strategy, holds, left, call>>

Healthy(m) == health[m] # "down"

NoReply == [kind |-> "none", winner |-> None, first |-> None]

Init ==
  /\ health = [m \in Members |-> "up"]
  /\ strategy \in Strategies
  /\ holds \in BOOLEAN
  /\ left = Span
  /\ phase = "idle"
  /\ elapsed = 0 /\ budget = 0 /\ spent = 0 /\ start = 0 /\ pos = 0
  /\ asked = [m \in Members |-> 0]
  /\ reply = NoReply
  /\ again = {}
  /\ seen = {}

-----------------------------------------------------------------------------
(* The clock, and one exchange: one deadline for whatever it does inside,   *)
(* except that a message it has begun to write or to read may be finished.  *)

Longest == Timeout + Grace

Spends(d) == left' = left - d /\ elapsed' = elapsed + d

Answer(m, kind, d) ==
  /\ Spends(d)
  /\ health' = [health EXCEPT ![m] = "answering"]
  /\ seen' = seen \cup {kind}

Failure(m, d) ==
  /\ Spends(d)
  /\ \E c \in AfterFailure(health[m]) : health' = [health EXCEPT ![m] = c]
  /\ UNCHANGED seen

-----------------------------------------------------------------------------
(* resolve_insisting: the lesser of a call's own budget and what is left,   *)
(* and nobody asked when nothing is.                                        *)
Budget(remaining) == Min({QueryBudget, remaining})

(* The call's locals, before it.                                            *)
NoCall ==
  /\ elapsed' = 0 /\ spent' = 0 /\ pos' = 0
  /\ asked' = [m \in Members |-> 0]
  /\ reply' = NoReply
  /\ again' = {}
  /\ seen' = {}

(* The caller works for a while, and calls.                                 *)
Begin ==
  /\ phase \in {"idle", "answered", "failed"}
  /\ left' \in 1 .. left
  /\ phase' = IF strategy = "race" THEN "racing" ELSE "sequential"
  /\ budget' = Budget(left')
  /\ start' \in IF strategy = "round_robin" THEN Members ELSE {0}
  /\ NoCall
  /\ UNCHANGED <<health, strategy, holds>>

(* The question is over: the next one has a deadline of its own.            *)
NextQuestion ==
  /\ phase \in {"answered", "failed"}
  /\ left' = Span
  /\ phase' = "idle" /\ budget' = 0 /\ start' = 0
  /\ holds' \in BOOLEAN
  /\ NoCall
  /\ UNCHANGED <<health, strategy>>

(* The first reply: the caller's if it is good enough, otherwise the sweep  *)
(* starts, on at most one timeout of what the call has left of its budget.  *)
KindsMet == IF holds THEN Kinds ELSE Kinds \ {"proof"}
Good(kind) == kind = "proof" \/ (kind = "usable" /\ ~holds)

SweepBudgetFresh(took) == Timeout

SweepBudget(took) == Min({Timeout, budget - took})

FirstReply(m, kind, d) ==
  /\ reply' = [kind |-> kind, winner |-> m, first |-> m]
  /\ IF Good(kind)
     THEN phase' = "answered" /\ UNCHANGED <<budget, spent, pos>>
     ELSE phase' = "sweep" /\ budget' = SweepBudget(elapsed + d) /\ spent' = 0 /\ pos' = 0

-----------------------------------------------------------------------------
(* resolve_sequential.  `pos` counts through one pass over the members for  *)
(* the first round and two for each later one.                              *)
Round == IF pos < Servers THEN 1 ELSE 2 + (pos - Servers) \div (2 * Servers)
Pass == IF pos < Servers THEN 0 ELSE ((pos - Servers) % (2 * Servers)) \div Servers
Candidate == (start + pos) % Servers
ScanOverEarly == pos = Servers + 2 * Servers * (Attempts - 2)

ScanOver == pos = Servers + 2 * Servers * (Attempts - 1)

Skipped ==
  IF Pass = 0
  THEN asked[Candidate] # 0 \/ (Round = 1 /\ ~Healthy(Candidate))
  ELSE asked[Candidate] = Round

Skip ==
  /\ phase = "sequential" /\ ~ScanOver /\ Skipped
  /\ pos' = pos + 1
  /\ UNCHANGED <<health, strategy, holds, left, phase, elapsed, budget, spent, start, asked, reply, again, seen>>

Ask ==
  /\ phase = "sequential" /\ ~ScanOver /\ ~Skipped
  /\ asked' = [asked EXCEPT ![Candidate] = Round]
  /\ again' = IF asked[Candidate] = 0 THEN again ELSE again \cup {Candidate}
  /\ \E d \in 0 .. Longest :
       \/ \E kind \in KindsMet :
            /\ Answer(Candidate, kind, d)
            /\ FirstReply(Candidate, kind, d)
       \/ /\ Failure(Candidate, d)
          /\ spent' = spent + d
          /\ pos' = pos + 1
          /\ phase' = IF spent' >= budget THEN "failed" ELSE "sequential"
          /\ UNCHANGED <<budget, reply>>
  /\ UNCHANGED <<strategy, holds, start>>

AllAsked ==
  /\ phase = "sequential" /\ ScanOver
  /\ phase' = "failed"
  /\ UNCHANGED <<health, strategy, holds, left, elapsed, budget, spent, start, pos, asked, reply, again, seen>>

-----------------------------------------------------------------------------
(* resolve_race, its legs' fates apart from the winner's being the          *)
(* environment's: they go on after the race has returned.                   *)
Raced == LET up == {m \in Members : Healthy(m)} IN IF up = {} THEN Members ELSE up

(* A lone candidate is asked directly; otherwise the semaphore is waited on *)
(* for one timeout, whatever the legs do after it.                          *)
RaceWait == IF Cardinality(Raced) = 1 THEN Longest ELSE Timeout

RaceWon ==
  /\ phase = "racing"
  /\ \E m \in Raced, kind \in KindsMet, d \in 0 .. RaceWait :
       Answer(m, kind, d) /\ FirstReply(m, kind, d)
  /\ UNCHANGED <<strategy, holds, start, asked, again>>

(* Every leg failed, or none answered in time.                              *)
RaceLost ==
  /\ phase = "racing"
  /\ \E d \in 0 .. RaceWait : Spends(d)
  /\ phase' = "failed"
  /\ UNCHANGED <<health, strategy, holds, budget, spent, start, pos, asked, reply, again, seen>>

(* No leg could be started, within the racer budget or at all.              *)
RaceRefused ==
  /\ phase = "racing" /\ Cardinality(Raced) > 1
  /\ phase' = "sequential"
  /\ UNCHANGED <<health, strategy, holds, left, elapsed, budget, spent, start, pos, asked, reply, again, seen>>

-----------------------------------------------------------------------------
(* The sweep, one pass in the group's order.  Everyone this call asked and  *)
(* did not get a reply from is `unreachable`.                               *)
InHand == reply.kind \in {"usable", "proof"}
SweepOver == pos = Servers \/ spent >= budget

PassedOver(m) ==
  \/ m = reply.first
  \/ asked[m] # 0
  \/ ~Healthy(m)
  \/ InHand /\ health[m] # "answering"

SweepSkips ==
  /\ phase = "sweep" /\ ~SweepOver /\ PassedOver(pos)
  /\ pos' = pos + 1
  /\ UNCHANGED <<health, strategy, holds, left, phase, elapsed, budget, spent, start, asked, reply, again, seen>>

SweptLatest(m, kind) ==
  IF Good(kind) \/ kind = "usable" THEN [reply EXCEPT !.kind = kind, !.winner = m]
  ELSE [reply EXCEPT !.winner = m, !.kind = kind]

(* A better reply replaces the one in hand: one the caller can use an       *)
(* unusable one, one it holds out for any.                                  *)
Swept(m, kind) ==
  IF Good(kind) \/ (kind = "usable" /\ ~InHand)
  THEN [reply EXCEPT !.kind = kind, !.winner = m] ELSE reply

SweepAsks ==
  /\ phase = "sweep" /\ ~SweepOver /\ ~PassedOver(pos)
  /\ \E d \in 0 .. Longest :
       /\ spent' = spent + d
       /\ \/ \E kind \in KindsMet :
               /\ Answer(pos, kind, d)
               /\ reply' = Swept(pos, kind)
               /\ phase' = IF Good(kind) THEN "answered" ELSE "sweep"
          \/ Failure(pos, d) /\ UNCHANGED <<reply, phase>>
  /\ pos' = pos + 1
  /\ UNCHANGED <<strategy, holds, budget, start, asked, again>>

SweepEnds ==
  /\ phase = "sweep" /\ SweepOver
  /\ phase' = "answered"
  /\ UNCHANGED <<health, strategy, holds, left, elapsed, budget, spent, start, pos, asked, reply, again, seen>>

-----------------------------------------------------------------------------
(* Exchanges of other questions with the same members, and the clock.  What *)
(* they do between two calls they may as well do after the second begins,   *)
(* for Begin reads no health.                                               *)
Calling == phase \in {"sequential", "racing", "sweep"}

OtherFails(m) ==
  /\ Calling
  /\ \E c \in AfterFailure(health[m]) : health' = [health EXCEPT ![m] = c]
  /\ UNCHANGED <<strategy, holds, left, call>>

OtherSucceeds(m) ==
  /\ Calling
  /\ health' = [health EXCEPT ![m] = "answering"]
  /\ UNCHANGED <<strategy, holds, left, call>>

CooldownOver(m) ==
  /\ Calling /\ health[m] = "down"
  /\ health' = [health EXCEPT ![m] = "up"]
  /\ UNCHANGED <<strategy, holds, left, call>>

Question ==
  \/ Begin \/ NextQuestion
  \/ Skip \/ Ask \/ AllAsked
  \/ RaceWon \/ RaceLost \/ RaceRefused
  \/ SweepSkips \/ SweepAsks \/ SweepEnds

Next == Question \/ \E m \in Members : OtherFails(m) \/ OtherSucceeds(m) \/ CooldownOver(m)

Spec == Init /\ [][Next]_vars

-----------------------------------------------------------------------------
(* Every variable stays in its range.                                       *)
TypeOK ==
  /\ health \in [Members -> Conditions]
  /\ strategy \in Strategies /\ holds \in BOOLEAN
  /\ {left, budget} \subseteq Int /\ {elapsed, spent} \subseteq Nat
  /\ phase \in {"idle", "sequential", "racing", "sweep", "answered", "failed"}
  /\ start \in Members /\ pos \in 0 .. Servers + 2 * Servers * (Attempts - 1)
  /\ asked \in [Members -> 0 .. Attempts]
  /\ reply \in [kind : Kinds \cup {"none"}, winner : Members \cup {None}, first : Members \cup {None}]
  /\ again \in SUBSET Members /\ seen \in SUBSET Kinds

(* However many calls a question makes, and whatever each of them asks,     *)
(* it is done waiting one exchange after its deadline, its overrun          *)
(* included; and no call waits more than its budget of two timeouts and one *)
(* exchange, the sweep included: neither the exchanges nor their overruns   *)
(* add up.                                                                  *)
WaitBounded == left >= -Longest /\ elapsed <= QueryBudget + Longest

(* A group that gives up with budget to spare and a second round to use has *)
(* asked every one of its members, those in their cooldown too.             *)
HonestTry ==
  phase = "failed" /\ strategy # "race" /\ spent < budget /\ Attempts > 1
    => \A m \in Members : asked[m] # 0

(* Nobody is asked a second time before everybody was asked once: a later   *)
(* round takes the members this query has not tried ahead of those it has   *)
(* just seen fail, whatever their cooldowns did meanwhile.                  *)
FreshFirst ==
  phase \in {"sequential", "failed"} /\ again # {} =>
    \A m \in Members : asked[m] # 0

(* The best reply stands: a call that heard the proof it holds out for      *)
(* returns it, failing that one the caller can use if it heard any, and it  *)
(* answers exactly when it heard something.                                 *)
BestReplyStands ==
  /\ phase = "answered" =>
       /\ reply.kind \in seen /\ reply.winner \in Members
       /\ "proof" \in seen => reply.kind = "proof" \/ ~holds
       /\ reply.kind = "useless" => seen = {"useless"}
  /\ phase = "failed" => seen = {}

(* Every member has a turn before any has a second, and a group that fails  *)
(* has given all of them theirs: the scan of resolve_sequential.            *)
FairTurns == TypeOK /\ HonestTry /\ FreshFirst
=============================================================================
