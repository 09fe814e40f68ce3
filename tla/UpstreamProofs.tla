--------------------------- MODULE UpstreamProofs ---------------------------
(* Asking upstreams, for any number of members, exchanges and connections,  *)
(* any timeouts and any threshold: proofs about modules MemberLife, Group   *)
(* and Pipeline.                                                            *)
EXTENDS Group, MemberLife, Pipeline, FiniteSetTheorems, TLAPS

-----------------------------------------------------------------------------
(* MemberLife                                                               *)

(* How many charged failures the two counters can have let by: a failure    *)
(* that counts is followed by fewer than FAILURE_THRESHOLD hang-ups that do *)
(* not.                                                                     *)
Paced ==
  /\ h.failures < FAILURE_THRESHOLD =>
       /\ since <= h.failures * FAILURE_THRESHOLD + h.closed_run
       /\ since <= h.failures * FAILURE_THRESHOLD + FAILURE_THRESHOLD - 1
  /\ h.failures <= since

(* While all of them were hang-ups, both counters are told by their number. *)
HangUpsOnly ==
  ~mixed =>
    /\ since < FAILURE_THRESHOLD => h.failures = 0 /\ h.closed_run = since
    /\ since >= FAILURE_THRESHOLD =>
         h.closed_run = FAILURE_THRESHOLD /\ h.failures = Capped(since - FAILURE_THRESHOLD + 1)

MemberInv == MemberTypeOK /\ Paced /\ HangUpsOnly

LEMMA Squares ==
  ASSUME NEW T \in Nat \ {0}
  PROVE  /\ T * T \in Nat /\ T <= T * T /\ 2 * T - 1 <= T * T
         /\ \A f \in Nat : /\ f * T \in Nat
                           /\ f < T => f * T + T <= T * T
                           /\ (f + 1) * T = f * T + T
<1>1. \A f \in Nat : f * T \in Nat OBVIOUS
<1>2. \A f \in Nat : (f + 1) * T = f * T + T OBVIOUS
<1>3. \A f \in Nat : f < T => f * T + T <= T * T
  <2> TAKE f \in Nat
  <2> HAVE f < T
  <2>1. PICK d \in Nat : T = f + 1 + d
    <3>1. T - f - 1 \in Nat /\ T = f + 1 + (T - f - 1) OBVIOUS
    <3> QED BY <3>1
  <2>2. T * T = (f + 1 + d) * T BY <2>1
  <2>3. (f + 1 + d) * T = f * T + T + d * T OBVIOUS
  <2>4. d * T \in Nat /\ f * T \in Nat BY <1>1
  <2> QED BY <2>2, <2>3, <2>4
<1>4. 2 * T - 1 <= T * T
  <2>1. PICK d \in Nat : T = d + 1
    <3>1. T - 1 \in Nat /\ T = (T - 1) + 1 OBVIOUS
    <3> QED BY <3>1
  <2>2. T * T = d * d + 2 * d + 1 BY <2>1
  <2>3. d * d \in Nat OBVIOUS
  <2> QED BY <2>1, <2>2, <2>3
<1> QED BY <1>1, <1>2, <1>3, <1>4

LEMMA HealthType ==
  ASSUME MemberInv
  PROVE  /\ h \in Health /\ since \in Nat /\ since <= Worst /\ mixed \in BOOLEAN
         /\ h.failures \in 0 .. FAILURE_THRESHOLD /\ h.closed_run \in 0 .. FAILURE_THRESHOLD
         /\ h.cooling \in BOOLEAN /\ h.answered \in BOOLEAN
         /\ FAILURE_THRESHOLD \in Nat \ {0} /\ Worst \in Nat
<1>1. FAILURE_THRESHOLD \in Nat \ {0} /\ Worst \in Nat BY ThresholdPositive, Squares DEF Worst
<1>2. h \in Health /\ since \in 0 .. Worst /\ mixed \in BOOLEAN BY DEF MemberInv, MemberTypeOK
<1>3. /\ h.failures \in 0 .. FAILURE_THRESHOLD /\ h.closed_run \in 0 .. FAILURE_THRESHOLD
      /\ h.cooling \in BOOLEAN /\ h.answered \in BOOLEAN
  BY <1>2 DEF Health
<1> QED BY <1>1, <1>2, <1>3

LEMMA CountedFacts ==
  ASSUME NEW x \in Health
  PROVE  /\ Counted(x) \in Health /\ Counted(x).closed_run = x.closed_run
         /\ Counted(x).failures = Capped(x.failures + 1) /\ Counted(x).answered = x.answered
         /\ Counted(x).cooling = (x.failures + 1 >= FAILURE_THRESHOLD)
<1> DEFINE cool == x.failures + 1 >= FAILURE_THRESHOLD
           more == Capped(x.failures + 1)
<1>1. Counted(x) = [x EXCEPT !.failures = more, !.cooling = cool] BY DEF Counted
<1>2. cool \in BOOLEAN OBVIOUS
<1>3. more \in 0 .. FAILURE_THRESHOLD BY ThresholdPositive DEF Capped, Health
<1> HIDE DEF cool, more
<1>4. /\ Counted(x) \in Health /\ Counted(x).closed_run = x.closed_run
      /\ Counted(x).failures = more /\ Counted(x).answered = x.answered
      /\ Counted(x).cooling = cool
  BY <1>1, <1>2, <1>3 DEF Health
<1> QED BY <1>4 DEF cool, more

(* What record_failure makes of the counters.                               *)
LEMMA ChargedFacts ==
  ASSUME MemberInv, NEW err \in ChargedErrors
  PROVE  LET new == record_failure(h, err)
             run == IF err = "Peer_Closed" THEN Capped(h.closed_run + 1) ELSE 0
             exempt == err = "Peer_Closed" /\ run < FAILURE_THRESHOLD
         IN /\ new \in Health /\ new.closed_run = run /\ new.answered = h.answered
            /\ new.failures = IF exempt THEN h.failures ELSE Capped(h.failures + 1)
            /\ new.cooling = IF exempt THEN h.cooling ELSE h.failures + 1 >= FAILURE_THRESHOLD
<1> DEFINE f == h.failures
           r == h.closed_run
           T == FAILURE_THRESHOLD
<1>1. /\ h \in Health /\ f \in 0 .. T /\ r \in 0 .. T /\ T \in Nat \ {0}
      /\ h.cooling \in BOOLEAN /\ h.answered \in BOOLEAN
  BY HealthType
<1>2. Capped(f + 1) \in 0 .. T /\ Capped(r + 1) \in 0 .. T /\ 0 \in 0 .. T BY <1>1 DEF Capped
<1>3. record_failure(h, err) = ChargedFailure(h, err) BY DEF record_failure
<1>4. CASE err = "Peer_Closed"
  <2> DEFINE run == [h EXCEPT !.closed_run = Capped(h.closed_run + 1)]
  <2>1. /\ run \in Health /\ run.closed_run = Capped(r + 1) /\ run.failures = f
        /\ run.cooling = h.cooling /\ run.answered = h.answered
    BY <1>1, <1>2 DEF Health
  <2>2. ChargedFailure(h, err) = IF run.closed_run < FAILURE_THRESHOLD THEN run ELSE Counted(run)
    BY <1>4 DEF ChargedFailure
  <2> HIDE DEF run
  <2>3. /\ Counted(run) \in Health /\ Counted(run).closed_run = run.closed_run
        /\ Counted(run).failures = Capped(run.failures + 1) /\ Counted(run).answered = run.answered
        /\ Counted(run).cooling = (run.failures + 1 >= FAILURE_THRESHOLD)
    BY <2>1, CountedFacts
  <2> QED BY <1>3, <1>4, <2>1, <2>2, <2>3
<1>5. CASE err # "Peer_Closed"
  <2> DEFINE new == Counted(h)
  <2>1. /\ new \in Health /\ new.failures = Capped(f + 1) /\ new.answered = h.answered
        /\ new.cooling = (f + 1 >= FAILURE_THRESHOLD)
    BY <1>1, CountedFacts
  <2>2. ChargedFailure(h, err) = [new EXCEPT !.closed_run = 0] BY <1>5 DEF ChargedFailure
  <2> HIDE DEF new
  <2> QED BY <1>2, <1>3, <1>5, <2>1, <2>2 DEF Health
<1> QED BY <1>4, <1>5

LEMMA RecordsOK ==
  ASSUME MemberInv, NEW err, Records(err)
  PROVE  /\ h' \in Health /\ since' \in 0 .. Worst /\ mixed' \in BOOLEAN
         /\ Paced' /\ HangUpsOnly'
<1> DEFINE f == h.failures
           r == h.closed_run
           T == FAILURE_THRESHOLD
<1>1. /\ h \in Health /\ f \in 0 .. T /\ r \in 0 .. T /\ T \in Nat \ {0} /\ since \in Nat /\ since <= T * T
      /\ mixed \in BOOLEAN /\ T * T \in Nat
  BY HealthType DEF Worst
<1>2. CASE err \notin ChargedErrors
  <2>1. h' = h /\ since' = since /\ mixed' = mixed BY <1>1, <1>2 DEF Records, record_failure
  <2> QED BY <1>1, <2>1 DEF MemberInv, Paced, HangUpsOnly, Worst
<1>3. CASE err \in ChargedErrors
  <2> DEFINE f1 == h'.failures
             r1 == h'.closed_run
             exempt == err = "Peer_Closed" /\ Capped(r + 1) < T
  <2>1. /\ h' \in Health /\ r1 = (IF err = "Peer_Closed" THEN Capped(r + 1) ELSE 0)
        /\ f1 = IF exempt THEN f ELSE Capped(f + 1)
    BY <1>3, ChargedFacts DEF Records
  <2>2. since' = (IF since < T * T THEN since + 1 ELSE since) /\ since' \in 0 .. Worst
    BY <1>1, <1>3 DEF Records, Worst
  <2>3. mixed' = (mixed \/ err # "Peer_Closed") /\ mixed' \in BOOLEAN BY <1>1, <1>3 DEF Records
  <2>4. /\ f * T \in Nat /\ (f + 1) * T = f * T + T /\ T <= T * T /\ 2 * T - 1 <= T * T
    BY <1>1, Squares
  <2>5. /\ f < T => since <= f * T + r /\ since <= f * T + T - 1
        /\ f <= since
    BY DEF MemberInv, Paced
  <2>6. ~mixed => /\ since < T => f = 0 /\ r = since
                  /\ since >= T => r = T /\ f = Capped(since - T + 1)
    BY DEF MemberInv, HangUpsOnly
  <2> HIDE DEF f, r, T, f1, r1
  <2>7. f1 < T => since' <= f1 * T + r1 /\ since' <= f1 * T + T - 1
    <3>1. CASE exempt
      <4>1. f1 = f /\ r1 = r + 1 /\ r1 < T BY <1>1, <2>1, <3>1 DEF Capped, T
      <4> QED BY <1>1, <2>2, <2>4, <2>5, <4>1
    <3>2. CASE ~exempt /\ f + 1 < T
      <4>1. f1 = f + 1 /\ r1 \in Nat BY <1>1, <2>1, <3>2 DEF Capped, T
      <4>2. f1 * T = f * T + T BY <2>4, <4>1
      <4> QED BY <1>1, <2>2, <2>4, <2>5, <3>2, <4>1, <4>2
    <3>3. CASE ~exempt /\ f + 1 >= T
      BY <1>1, <2>1, <3>3 DEF Capped, T
    <3> QED BY <1>1, <3>1, <3>2, <3>3
  <2>8. f1 <= since' BY <1>1, <2>1, <2>2, <2>4, <2>5 DEF Capped, T
  <2>9. ~mixed' => /\ since' < T => f1 = 0 /\ r1 = since'
                   /\ since' >= T => r1 = T /\ f1 = Capped(since' - T + 1)
    <3> SUFFICES ASSUME ~mixed' PROVE /\ since' < T => f1 = 0 /\ r1 = since'
                                      /\ since' >= T => r1 = T /\ f1 = Capped(since' - T + 1)
      OBVIOUS
    <3>1. err = "Peer_Closed" /\ ~mixed /\ r1 = Capped(r + 1) BY <2>1, <2>3
    <3>2. CASE since + 1 < T
      <4>1. since' = since + 1 /\ f = 0 /\ r = since BY <1>1, <2>2, <2>4, <2>6, <3>1, <3>2
      <4> QED BY <1>1, <2>1, <3>1, <3>2, <4>1 DEF Capped, T
    <3>3. CASE since + 1 = T
      <4>1. since' = since + 1 /\ f = 0 /\ r = since BY <1>1, <2>2, <2>4, <2>6, <3>1, <3>3
      <4> QED BY <1>1, <2>1, <3>1, <3>3, <4>1 DEF Capped, T
    <3>4. CASE since >= T /\ since < T * T
      <4>1. since' = since + 1 /\ f = Capped(since - T + 1) /\ r = T
        BY <1>1, <2>2, <2>4, <2>6, <3>1, <3>4
      <4> QED BY <1>1, <2>1, <3>1, <3>4, <4>1 DEF Capped, T
    <3>5. CASE since >= T * T
      <4>1. since' = since /\ f = Capped(since - T + 1) /\ r = T /\ since - T + 1 >= T
        BY <1>1, <2>2, <2>4, <2>6, <3>1, <3>5
      <4> QED BY <1>1, <2>1, <3>1, <3>5, <4>1 DEF Capped, T
    <3> QED BY <1>1, <2>4, <3>2, <3>3, <3>4, <3>5
  <2> QED BY <2>1, <2>2, <2>3, <2>7, <2>8, <2>9 DEF Paced, HangUpsOnly, f1, r1, T
<1> QED BY <1>2, <1>3

LEMMA MemberInitOK == MemberInit => MemberInv
<1> SUFFICES ASSUME MemberInit PROVE MemberInv
  OBVIOUS
<1> USE DEF MemberInit
<1>1. FAILURE_THRESHOLD \in Nat \ {0} /\ Worst \in Nat BY ThresholdPositive, Squares DEF Worst
<1>2. h \in Health /\ h.failures = 0 /\ h.closed_run = 0 BY <1>1 DEF Fresh, Health
<1>3. MemberTypeOK
  <2>1. stage \in [Exchanges -> {"out", "resolving", "sending", "cut_short"}] OBVIOUS
  <2>2. since \in 0 .. Worst BY <1>1
  <2>3. mixed \in BOOLEAN BY Zenon
  <2> QED BY <1>2, <2>1, <2>2, <2>3 DEF MemberTypeOK
<1>4. 0 * FAILURE_THRESHOLD = 0 BY <1>1
<1>5. Paced /\ HangUpsOnly BY <1>1, <1>2, <1>4 DEF Paced, HangUpsOnly
<1> QED BY <1>3, <1>5 DEF MemberInv

LEMMA MemberStep == MemberInv /\ [MemberNext]_memberVars => MemberInv'
<1> SUFFICES ASSUME MemberInv, [MemberNext]_memberVars PROVE MemberInv'
  OBVIOUS
<1> USE DEF MemberInv
<1>1. CASE UNCHANGED memberVars BY <1>1 DEF memberVars, MemberTypeOK, Paced, HangUpsOnly
<1>2. ASSUME NEW e \in Exchanges, Enter(e) PROVE MemberInv'
  BY <1>2 DEF Enter, MemberTypeOK, Paced, HangUpsOnly
<1>3. ASSUME NEW e \in Exchanges, Unresolved(e) PROVE MemberInv'
  <2>1. stage' \in [Exchanges -> {"out", "resolving", "sending", "cut_short"}] /\ resolved' \in BOOLEAN
    BY <1>3 DEF Unresolved, MemberTypeOK
  <2>2. CASE HasBootstrap
    <3>1. Records("Not_Resolved") BY <1>3, <2>2 DEF Unresolved
    <3> QED BY <2>1, <3>1, RecordsOK DEF MemberTypeOK
  <2>3. CASE ~HasBootstrap
    <3>1. UNCHANGED <<h, since, mixed>> BY <1>3, <2>3 DEF Unresolved
    <3> QED BY <2>1, <3>1 DEF MemberTypeOK, Paced, HangUpsOnly
  <2> QED BY <2>2, <2>3
<1>4. ASSUME NEW e \in Exchanges, Resolved(e) PROVE MemberInv'
  BY <1>4 DEF Resolved, MemberTypeOK, Paced, HangUpsOnly
<1>5. ASSUME NEW e \in Exchanges, Fails(e) PROVE MemberInv'
  <2>1. stage' \in [Exchanges -> {"out", "resolving", "sending", "cut_short"}] /\ resolved' \in BOOLEAN
    BY <1>5 DEF Fails, MemberTypeOK
  <2>2. \E err : Records(err) BY <1>5 DEF Fails
  <2> QED BY <2>1, <2>2, RecordsOK DEF MemberTypeOK
<1>6. ASSUME NEW e \in Exchanges, Answers(e) PROVE MemberInv'
  <2>1. stage' \in [Exchanges -> {"out", "resolving", "sending", "cut_short"}] /\ resolved' \in BOOLEAN
    BY <1>6 DEF Answers, MemberTypeOK
  <2>2. FAILURE_THRESHOLD \in Nat \ {0} /\ Worst \in Nat BY HealthType
  <2>3. h' \in Health /\ h'.failures = 0 /\ h'.closed_run = 0 /\ since' = 0 /\ mixed' = FALSE
    BY <1>6, <2>2 DEF Answers, record_success, Health
  <2>4. 0 * FAILURE_THRESHOLD = 0 BY <2>2
  <2>5. Paced' /\ HangUpsOnly' BY <2>2, <2>3, <2>4 DEF Paced, HangUpsOnly
  <2>6. since' \in 0 .. Worst BY <2>2, <2>3
  <2>7. mixed' \in BOOLEAN BY <2>3, Zenon
  <2> QED BY <2>1, <2>3, <2>5, <2>6, <2>7 DEF MemberTypeOK
<1>7. CASE CoolsDown
  <2>1. h' \in Health /\ h'.failures = h.failures /\ h'.closed_run = h.closed_run
    BY <1>7 DEF CoolsDown, MemberTypeOK, Health
  <2> QED BY <1>7, <2>1 DEF CoolsDown, MemberTypeOK, Paced, HangUpsOnly
<1> QED BY <1>1, <1>2, <1>3, <1>4, <1>5, <1>6, <1>7 DEF MemberNext

LEMMA MemberInvHolds == MemberSpec => []MemberInv
  BY MemberInitOK, MemberStep, PTL DEF MemberSpec

(* record_failure, for any threshold and any exchanges under way: hang-ups  *)
(* alone park a member at the (2 * FAILURE_THRESHOLD - 1)th and not before, *)
(* no mixture of failures puts that off past FAILURE_THRESHOLD squared of   *)
(* them, and none parks it before FAILURE_THRESHOLD.                        *)
THEOREM ParkedInTimeHolds == MemberSpec => []ParkedInTime
<1>1. MemberInv => ParkedInTime
  <2> SUFFICES ASSUME MemberInv PROVE ParkedInTime
    OBVIOUS
  <2> DEFINE T == FAILURE_THRESHOLD
             f == h.failures
  <2>1. f \in Nat /\ f <= T /\ T \in Nat \ {0} /\ since \in Nat BY HealthType
  <2>2. T * T \in Nat /\ f * T \in Nat /\ (f < T => f * T + T <= T * T) BY <2>1, Squares
  <2>3. HangUpsParkLate BY <2>1 DEF MemberInv, HangUpsOnly, HangUpsParkLate, Capped
  <2>4. DeadMemberParks
    <3>1. f < T => since <= f * T + T - 1 BY DEF MemberInv, Paced
    <3>2. f <= since BY DEF MemberInv, Paced
    <3> HIDE DEF f, T
    <3>3. since >= T * T => f >= T BY <2>1, <2>2, <3>1
    <3> QED BY <2>1, <3>2, <3>3 DEF DeadMemberParks, Worst, f, T
  <2> QED BY <2>3, <2>4 DEF ParkedInTime, MemberInv
<1> QED BY <1>1, MemberInvHolds, PTL

(* The counters keep to what MemberCondition promises a group: no failure,  *)
(* charged or not, of whichever exchange, makes a parked member healthy or  *)
(* one that was not answering answering.                                    *)
THEOREM FailureNeverRevivesHolds == MemberSpec => FailureNeverRevives
<1>1. MemberInv /\ [MemberNext]_memberVars => [NoRevival]_memberVars
  <2> SUFFICES ASSUME MemberInv, \E e \in Exchanges : Fails(e) \/ Unresolved(e)
               PROVE  Condition' \in AfterFailure(Condition)
    BY DEF NoRevival
  <2>1. UNCHANGED h \/ \E err \in ChargedErrors : h' = record_failure(h, err)
    BY DEF Fails, Unresolved, Records, record_failure, ChargedErrors
  <2>2. CASE UNCHANGED h
    BY <2>2 DEF Condition, AfterFailure, healthy, answering
  <2>3. ASSUME NEW err \in ChargedErrors, h' = record_failure(h, err)
        PROVE  Condition' \in AfterFailure(Condition)
    <3>1. /\ h.failures \in 0 .. FAILURE_THRESHOLD /\ FAILURE_THRESHOLD \in Nat \ {0}
          /\ h.cooling \in BOOLEAN /\ h.answered \in BOOLEAN /\ h.closed_run \in 0 .. FAILURE_THRESHOLD
      BY HealthType
    <3>2. /\ h'.answered = h.answered /\ h'.failures \in Nat
          /\ \/ h'.failures = h.failures /\ h'.cooling = h.cooling
             \/ h'.failures = Capped(h.failures + 1) /\ h'.cooling = (h.failures + 1 >= FAILURE_THRESHOLD)
      BY <2>3, <3>1, ChargedFacts DEF Capped
    <3>3. CASE h'.failures = h.failures /\ h'.cooling = h.cooling
      BY <3>1, <3>2, <3>3 DEF Condition, AfterFailure, healthy, answering
    <3>4. CASE h'.failures = Capped(h.failures + 1) /\ h'.cooling = (h.failures + 1 >= FAILURE_THRESHOLD)
      <4>1. h'.failures > 0 BY <3>1, <3>4 DEF Capped
      <4>2. Condition' \in {"up", "down"} BY <4>1, <3>2 DEF Condition, answering
      <4>3. CASE Condition = "down"
        <5>1. h.failures = FAILURE_THRESHOLD BY <3>1, <4>3 DEF Condition, healthy, answering
        <5>2. h'.failures = FAILURE_THRESHOLD /\ h.failures + 1 >= FAILURE_THRESHOLD
          BY <3>1, <3>4, <5>1 DEF Capped
        <5>3. h'.cooling = TRUE BY <3>4, <5>2
        <5> QED BY <3>1, <4>3, <5>2, <5>3 DEF Condition, AfterFailure, healthy
      <4> QED BY <4>2, <4>3 DEF AfterFailure
    <3> QED BY <3>2, <3>3, <3>4
  <2> QED BY <2>1, <2>2, <2>3
<1> QED BY <1>1, MemberInvHolds, PTL DEF MemberSpec, FailureNeverRevives

-----------------------------------------------------------------------------
(* Pipeline                                                                 *)

Inside == {"write", "writing", "unwritten", "wait", "parked", "woken", "reading", "read"}
Coming == {"get", "queued", "dial", "dialOwn"}
PipePlaces == {"out", "query", "left"} \cup Inside \cup Coming
Connections == [refs : Nat, dead : BOOLEAN, reading : BOOLEAN, waiters : SUBSET Callers, silent : Nat]

PipeTypeOK ==
  /\ pipe \in Conns \cup {NoConn} /\ connecting \in BOOLEAN
  /\ conn \in [Conns -> Connections]
  /\ place \in [Callers -> PipePlaces]
  /\ on \in [Callers -> Conns \cup {NoConn}] /\ old \in [Callers -> Conns \cup {NoConn}]
  /\ got \in [Callers -> {"nothing", "reply", "error", "timeout"}]

(* A caller is on a connection exactly from get_pipe to its last unref, and *)
(* keeps a dead one only on its way to another.                             *)
Sited ==
  \A q \in Callers :
    /\ on[q] # NoConn <=> place[q] \in {"query", "left"} \cup Inside
    /\ old[q] # NoConn => place[q] \in Coming

Askers(c) == {q \in Callers : on[q] = c}
Keepers(c) == {q \in Callers : old[q] = c}

RefsExact ==
  \A c \in Conns :
    conn[c].refs = Cardinality(Askers(c)) + Cardinality(Keepers(c)) + (IF pipe = c THEN 1 ELSE 0)

(* Inside pipe_query a caller is registered until it has its answer, and a  *)
(* parked one still is: who kills or leaves the connection finds it.        *)
Registered ==
  /\ \A c \in Conns : conn[c].waiters \subseteq On(c, Inside)
  /\ \A q \in Callers : place[q] \in Inside => (got[q] = "nothing" <=> q \in conn[on[q]].waiters)
  /\ \A q \in Callers : place[q] = "parked" => got[q] = "nothing"

Unanswered == \A q \in Callers : place[q] \notin Inside \cup {"left"} => got[q] = "nothing"

OneReads ==
  \A c \in Conns :
    /\ conn[c].reading <=> On(c, {"reading", "read"}) # {}
    /\ \A q, w \in On(c, {"reading", "read"}) : q = w

SomeoneAwake ==
  \A c \in Conns : On(c, {"parked"}) # {} =>
    ~conn[c].dead /\ On(c, {"wait", "woken", "reading", "read"}) # {}

OneDials ==
  /\ connecting <=> \E q \in Callers : place[q] = "dial"
  /\ \A q, w \in Callers : place[q] = "dial" /\ place[w] = "dial" => q = w
  /\ connecting => pipe = NoConn

PipeInv ==
  /\ PipeTypeOK /\ Sited /\ RefsExact /\ Registered /\ Unanswered
  /\ OneReads /\ SomeoneAwake /\ OneDials

LEMMA PipeCounts ==
  \A c : /\ IsFiniteSet(Askers(c)) /\ IsFiniteSet(Keepers(c))
         /\ Cardinality(Askers(c)) \in Nat /\ Cardinality(Keepers(c)) \in Nat
<1>1. \A c : IsFiniteSet(Askers(c)) /\ IsFiniteSet(Keepers(c))
  BY CallersFinite, FS_Subset DEF Askers, Keepers
<1> QED BY <1>1, FS_CardinalityType

LEMMA PipeInitOK == PipeInit => PipeInv
<1> SUFFICES ASSUME PipeInit PROVE PipeInv
  OBVIOUS
<1> USE DEF PipeInit
<1>1. Closed \in Connections /\ Closed.refs = 0 /\ Closed.waiters = {} /\ Closed.reading = FALSE
  BY DEF Closed, Connections
<1>2. \A c \in Conns : conn[c] = Closed OBVIOUS
<1>3. \A q \in Callers : place[q] = "out" /\ on[q] = NoConn /\ old[q] = NoConn OBVIOUS
<1>4. PipeTypeOK BY <1>1 DEF PipeTypeOK, PipePlaces
<1>5. \A c \in Conns : Askers(c) = {} /\ Keepers(c) = {} /\ On(c, Inside) = {}
                       /\ On(c, {"reading", "read"}) = {} /\ On(c, {"parked"}) = {}
  BY <1>3, NoConnApart DEF Askers, Keepers, On
<1>6. Sited BY <1>3 DEF Sited, Inside
<1>7. RefsExact BY <1>1, <1>2, <1>5, FS_EmptySet, NoConnApart DEF RefsExact
<1>8. Registered /\ OneReads /\ SomeoneAwake
  BY <1>1, <1>2, <1>3, <1>5 DEF Registered, OneReads, SomeoneAwake, Inside
<1>9. OneDials /\ Unanswered BY <1>3 DEF OneDials, Unanswered
<1> QED BY <1>4, <1>6, <1>7, <1>8, <1>9 DEF PipeInv

-----------------------------------------------------------------------------
(* References.                                                              *)

(* Two counts of callers that differ in one caller at most.                 *)
LEMMA CountMoves ==
  ASSUME NEW A, IsFiniteSet(A), NEW B, NEW q, A \ {q} = B \ {q}
  PROVE  Cardinality(B) = Cardinality(A) + (IF q \in B THEN 1 ELSE 0) - (IF q \in A THEN 1 ELSE 0)
<1>1. Cardinality(A) \in Nat BY FS_CardinalityType
<1>2. CASE q \in A <=> q \in B
  <2>1. B = A BY <1>2
  <2> QED BY <1>1, <2>1
<1>3. CASE q \in B /\ q \notin A
  <2>1. B = A \cup {q} BY <1>3
  <2>2. Cardinality(A \cup {q}) = Cardinality(A) + 1 BY <1>3, FS_AddElement
  <2> QED BY <1>1, <1>3, <2>1, <2>2
<1>4. CASE q \notin B /\ q \in A
  <2>1. B = A \ {q} BY <1>4
  <2>2. Cardinality(A \ {q}) = Cardinality(A) - 1 BY <1>4, FS_RemoveElement
  <2> QED BY <1>1, <1>4, <2>1, <2>2
<1> QED BY <1>2, <1>3, <1>4

LEMMA AskersMove ==
  ASSUME PipeTypeOK, NEW q \in Callers, NEW to, on' = [on EXCEPT ![q] = to], NEW c
  PROVE  Cardinality(Askers(c)') = Cardinality(Askers(c)) + (IF to = c THEN 1 ELSE 0)
                                     - (IF on[q] = c THEN 1 ELSE 0)
<1>1. \A p \in Callers : on'[p] = IF p = q THEN to ELSE on[p] BY DEF PipeTypeOK
<1>2. Askers(c) \ {q} = Askers(c)' \ {q} /\ (q \in Askers(c)' <=> to = c) /\ (q \in Askers(c) <=> on[q] = c)
  BY <1>1 DEF Askers
<1>3. Cardinality(Askers(c)') = Cardinality(Askers(c)) + (IF q \in Askers(c)' THEN 1 ELSE 0)
                                  - (IF q \in Askers(c) THEN 1 ELSE 0)
  BY <1>2, PipeCounts, CountMoves
<1> QED BY <1>2, <1>3

LEMMA KeepersMove ==
  ASSUME PipeTypeOK, NEW q \in Callers, NEW to, old' = [old EXCEPT ![q] = to], NEW c
  PROVE  Cardinality(Keepers(c)') = Cardinality(Keepers(c)) + (IF to = c THEN 1 ELSE 0)
                                      - (IF old[q] = c THEN 1 ELSE 0)
<1>1. \A p \in Callers : old'[p] = IF p = q THEN to ELSE old[p] BY DEF PipeTypeOK
<1>2. Keepers(c) \ {q} = Keepers(c)' \ {q} /\ (q \in Keepers(c)' <=> to = c) /\ (q \in Keepers(c) <=> old[q] = c)
  BY <1>1 DEF Keepers
<1>3. Cardinality(Keepers(c)') = Cardinality(Keepers(c)) + (IF q \in Keepers(c)' THEN 1 ELSE 0)
                                   - (IF q \in Keepers(c) THEN 1 ELSE 0)
  BY <1>2, PipeCounts, CountMoves
<1> QED BY <1>2, <1>3

(* pipe_unref takes one reference, and leaves the rest as it was unless     *)
(* that was the last.                                                       *)
LEMMA UnrefFacts ==
  ASSUME NEW f \in [Conns -> Connections], NEW c \in Conns \cup {NoConn},
         c # NoConn => f[c].refs >= 1
  PROVE  /\ Unref(f, c) \in [Conns -> Connections]
         /\ \A d \in Conns :
              /\ Unref(f, c)[d].refs = f[d].refs - (IF d = c THEN 1 ELSE 0)
              /\ \/ /\ Unref(f, c)[d].waiters = f[d].waiters /\ Unref(f, c)[d].dead = f[d].dead
                    /\ Unref(f, c)[d].reading = f[d].reading
                 \/ Unref(f, c)[d] = Closed /\ Unref(f, c)[d].refs = 0
<1>1. CASE c = NoConn
  <2>1. Unref(f, c) = f /\ \A d \in Conns : d # c /\ f[d].refs \in Nat
    BY <1>1, NoConnApart DEF Unref, Connections
  <2> QED BY <2>1
<1>2. CASE c # NoConn
  <2> DEFINE new == IF f[c].refs = 1 THEN Closed ELSE [f[c] EXCEPT !.refs = f[c].refs - 1]
  <2>1. c \in Conns /\ f[c] \in Connections /\ f[c].refs \in Nat /\ f[c].refs >= 1
    BY <1>2 DEF Connections
  <2>2. Unref(f, c) = [f EXCEPT ![c] = new] BY <1>2 DEF Unref
  <2>3. /\ new \in Connections /\ new.refs = f[c].refs - 1
        /\ \/ new.waiters = f[c].waiters /\ new.dead = f[c].dead /\ new.reading = f[c].reading
           \/ new = Closed /\ new.refs = 0
    <3>1. CASE f[c].refs = 1 BY <3>1 DEF Closed, Connections
    <3>2. CASE f[c].refs # 1 BY <2>1, <3>2 DEF Connections
    <3> QED BY <3>1, <3>2
  <2> HIDE DEF new
  <2>4. \A d \in Conns : Unref(f, c)[d] = (IF d = c THEN new ELSE f[d]) /\ f[d].refs \in Nat
    BY <2>1, <2>2 DEF Connections
  <2> QED BY <2>1, <2>2, <2>3, <2>4
<1> QED BY <1>1, <1>2

(* A reference more for the connection the caller is given: refs of it is n *)
(* more than it was.                                                        *)
LEMMA GivenRefs ==
  ASSUME NEW f \in [Conns -> Connections], NEW c \in Conns, NEW n \in Nat
  PROVE  LET g == [f EXCEPT ![c].refs = n]
         IN /\ g \in [Conns -> Connections]
            /\ \A d \in Conns : /\ g[d].refs = IF d = c THEN n ELSE f[d].refs
                                /\ g[d].waiters = f[d].waiters /\ g[d].dead = f[d].dead
                                /\ g[d].reading = f[d].reading
<1> DEFINE new == [f[c] EXCEPT !.refs = n]
           g == [f EXCEPT ![c] = new]
<1>1. /\ new \in Connections /\ new.refs = n /\ new.waiters = f[c].waiters /\ new.dead = f[c].dead
      /\ new.reading = f[c].reading
  BY DEF Connections
<1>2. [f EXCEPT ![c].refs = n] = g OBVIOUS
<1> HIDE DEF new
<1>3. g \in [Conns -> Connections] /\ \A d \in Conns : g[d] = IF d = c THEN new ELSE f[d] BY <1>1
<1> HIDE DEF g
<1> QED BY <1>1, <1>2, <1>3

LEMMA PipeTypes ==
  ASSUME PipeInv
  PROVE  /\ pipe \in Conns \cup {NoConn} /\ connecting \in BOOLEAN
         /\ conn \in [Conns -> Connections] /\ place \in [Callers -> PipePlaces]
         /\ on \in [Callers -> Conns \cup {NoConn}] /\ old \in [Callers -> Conns \cup {NoConn}]
         /\ got \in [Callers -> {"nothing", "reply", "error", "timeout"}]
         /\ \A c \in Conns : conn[c] \in Connections /\ conn[c].refs \in Nat
  BY DEF PipeInv, PipeTypeOK, Connections

(* Whoever has a connection has it referenced.                              *)
LEMMA Referenced ==
  ASSUME PipeInv, NEW c \in Conns
  PROVE  /\ \A q \in Callers : on[q] = c \/ old[q] = c => conn[c].refs >= 1
         /\ pipe = c => conn[c].refs >= 1
         /\ conn[c].refs = 0 => Askers(c) = {} /\ Keepers(c) = {} /\ pipe # c
<1>1. conn[c].refs = Cardinality(Askers(c)) + Cardinality(Keepers(c)) + (IF pipe = c THEN 1 ELSE 0)
  BY DEF PipeInv, RefsExact
<1>2. /\ IsFiniteSet(Askers(c)) /\ IsFiniteSet(Keepers(c))
      /\ Cardinality(Askers(c)) \in Nat /\ Cardinality(Keepers(c)) \in Nat
  BY PipeCounts
<1>3. Cardinality(Askers(c)) = 0 <=> Askers(c) = {} BY <1>2, FS_EmptySet
<1>4. Cardinality(Keepers(c)) = 0 <=> Keepers(c) = {} BY <1>2, FS_EmptySet
<1>5. \A q \in Callers : (on[q] = c => Askers(c) # {}) /\ (old[q] = c => Keepers(c) # {})
  BY DEF Askers, Keepers
<1> QED BY <1>1, <1>2, <1>3, <1>4, <1>5

(* What goes on around pipe_query: nobody inside it moves, and a connection *)
(* keeps its waiters, its reader and its death, or is closed with nobody on *)
(* it.                                                                      *)
LEMMA OutsideOK ==
  ASSUME PipeInv, PipeTypeOK', Sited', RefsExact', OneDials', Unanswered',
         \A q \in Callers : place[q] \in Inside \/ place'[q] \in Inside =>
           place'[q] = place[q] /\ on'[q] = on[q] /\ got'[q] = got[q],
         \A c \in Conns :
           \/ /\ conn'[c].waiters = conn[c].waiters /\ conn'[c].dead = conn[c].dead
              /\ conn'[c].reading = conn[c].reading
           \/ conn'[c] = Closed /\ conn'[c].refs = 0
  PROVE  PipeInv'
<1>1. \A c \in Conns : /\ On(c, Inside)' = On(c, Inside)
                       /\ On(c, {"reading", "read"})' = On(c, {"reading", "read"})
                       /\ On(c, {"parked"})' = On(c, {"parked"})
                       /\ On(c, {"wait", "woken", "reading", "read"})' = On(c, {"wait", "woken", "reading", "read"})
  BY DEF On, Inside
<1>2. ASSUME NEW c \in Conns, conn'[c] = Closed, conn'[c].refs = 0
      PROVE  On(c, Inside) = {} /\ Askers(c)' = {}
  <2>1. Cardinality(Askers(c)') + Cardinality(Keepers(c)') + (IF pipe' = c THEN 1 ELSE 0) = 0
    BY <1>2 DEF RefsExact
  <2>2. /\ IsFiniteSet(Askers(c)') /\ Cardinality(Askers(c)') \in Nat /\ Cardinality(Keepers(c)') \in Nat
    <3>1. IsFiniteSet(Askers(c)') /\ IsFiniteSet(Keepers(c)')
      BY CallersFinite, FS_Subset DEF Askers, Keepers
    <3> QED BY <3>1, FS_CardinalityType
  <2>3. Askers(c)' = {} BY <2>1, <2>2, FS_EmptySet
  <2> QED BY <1>1, <2>3 DEF Askers, On
<1>3. Closed.waiters = {} /\ Closed.reading = FALSE /\ Closed.dead = FALSE BY DEF Closed
<1>4. \A c \in Conns : On(c, {"reading", "read"}) \subseteq On(c, Inside) /\ On(c, {"parked"}) \subseteq On(c, Inside)
  BY DEF On, Inside
<1>5. \A c \in Conns : conn[c].waiters \subseteq On(c, Inside) BY DEF PipeInv, Registered
<1>6. Registered'
  <2>1. \A c \in Conns : conn'[c].waiters \subseteq On(c, Inside)' BY <1>1, <1>2, <1>3, <1>5
  <2>2. ASSUME NEW q \in Callers, place'[q] \in Inside PROVE got'[q] = "nothing" <=> q \in conn'[on'[q]].waiters
    <3>1. place[q] \in Inside /\ on'[q] = on[q] /\ got'[q] = got[q] BY <2>2
    <3>2. got[q] = "nothing" <=> q \in conn[on[q]].waiters BY <3>1 DEF PipeInv, Registered
    <3>3. PICK c \in Conns : c = on[q] BY <3>1, PipeTypes DEF PipeInv, Sited, Inside
    <3>4. q \in Askers(c)' BY <3>1, <3>3 DEF Askers
    <3> QED BY <1>2, <3>1, <3>2, <3>3, <3>4
  <2>3. \A q \in Callers : place'[q] = "parked" => got'[q] = "nothing"
    BY DEF PipeInv, Registered, Inside
  <2> QED BY <2>1, <2>2, <2>3 DEF Registered
<1>7. OneReads'
  <2>1. ASSUME NEW c \in Conns
        PROVE  /\ conn'[c].reading <=> On(c, {"reading", "read"})' # {}
               /\ \A q, w \in On(c, {"reading", "read"})' : q = w
    <3>1. /\ conn[c].reading <=> On(c, {"reading", "read"}) # {}
          /\ \A q, w \in On(c, {"reading", "read"}) : q = w
      BY DEF PipeInv, OneReads
    <3> QED BY <1>1, <1>2, <1>3, <1>4, <3>1
  <2> QED BY <2>1 DEF OneReads
<1>8. SomeoneAwake'
  <2>1. ASSUME NEW c \in Conns, On(c, {"parked"})' # {}
        PROVE  ~conn'[c].dead /\ On(c, {"wait", "woken", "reading", "read"})' # {}
    <3>1. ~conn[c].dead /\ On(c, {"wait", "woken", "reading", "read"}) # {}
      BY <1>1, <2>1 DEF PipeInv, SomeoneAwake
    <3> QED BY <1>1, <1>2, <1>4, <2>1, <3>1
  <2> QED BY <2>1 DEF SomeoneAwake
<1> QED BY <1>6, <1>7, <1>8 DEF PipeInv

(* A caller on its way moves on, or back.                                   *)
LEMMA ComingOK ==
  ASSUME PipeInv, NEW q \in Callers, NEW to \in {"get", "queued", "dialOwn"},
         place[q] \in {"out", "get", "queued"}, place' = [place EXCEPT ![q] = to],
         UNCHANGED <<upstreamVars, conn, callerVars, got>>,
         place[q] = "out" \/ to # "out"
  PROVE  PipeInv'
<1> USE DEF upstreamVars, callerVars
<1>1. place' \in [Callers -> PipePlaces] /\ \A p \in Callers : place'[p] = IF p = q THEN to ELSE place[p]
  BY PipeTypes DEF PipePlaces, Coming
<1>2. PipeTypeOK' BY <1>1 DEF PipeInv, PipeTypeOK
<1>3. Sited' BY <1>1 DEF PipeInv, Sited, Inside, Coming
<1>4. \A c \in Conns : Askers(c)' = Askers(c) /\ Keepers(c)' = Keepers(c) BY DEF Askers, Keepers
<1>5. RefsExact' BY <1>4 DEF PipeInv, RefsExact
<1>6. OneDials' /\ Unanswered' BY <1>1 DEF PipeInv, OneDials, Unanswered, Inside
<1>7. \A p \in Callers : place[p] \in Inside \/ place'[p] \in Inside => place'[p] = place[p] /\ on'[p] = on[p] /\ got'[p] = got[p]
  BY <1>1 DEF Inside
<1> QED BY <1>2, <1>3, <1>5, <1>6, <1>7, OutsideOK

(* exchange_pipelined returns: the caller lets go of what it had.           *)
LEMMA OutOK ==
  ASSUME PipeInv, NEW q \in Callers, NEW had \in Conns \cup {NoConn}, NEW places,
         \/ place[q] \in {"get", "dial", "dialOwn"} /\ had = old[q]
         \/ place[q] = "left" /\ had = on[q],
         places = place \/ places = Broadcast,
         Out(q, Unref(conn, had), places), pipe' = pipe,
         connecting' = IF place[q] = "dial" THEN FALSE ELSE connecting
  PROVE  PipeInv'
<1>1. /\ on[q] = (IF place[q] = "left" THEN had ELSE NoConn) /\ old[q] = (IF place[q] = "left" THEN NoConn ELSE had)
  BY DEF PipeInv, Sited, Inside, Coming
<1>2. /\ conn' = Unref(conn, had) /\ place' = [places EXCEPT ![q] = "out"]
      /\ on' = [on EXCEPT ![q] = NoConn] /\ old' = [old EXCEPT ![q] = NoConn]
      /\ got' = [got EXCEPT ![q] = "nothing"]
  BY DEF Out
<1>3. had # NoConn => conn[had].refs >= 1 BY <1>1, Referenced
<1>4. /\ conn' \in [Conns -> Connections]
      /\ \A d \in Conns :
           /\ conn'[d].refs = conn[d].refs - (IF d = had THEN 1 ELSE 0)
           /\ \/ /\ conn'[d].waiters = conn[d].waiters /\ conn'[d].dead = conn[d].dead
                 /\ conn'[d].reading = conn[d].reading
              \/ conn'[d] = Closed /\ conn'[d].refs = 0
  BY <1>2, <1>3, PipeTypes, UnrefFacts
<1>5. /\ place' \in [Callers -> PipePlaces] /\ place'[q] = "out"
      /\ \A p \in Callers : p # q => place'[p] = place[p] \/ (place[p] = "queued" /\ place'[p] = "get")
  <2>1. /\ places \in [Callers -> PipePlaces]
        /\ \A p \in Callers : places[p] = place[p] \/ (place[p] = "queued" /\ places[p] = "get")
    BY PipeTypes DEF Broadcast, PipePlaces, Coming
  <2> QED BY <1>2, <2>1 DEF PipePlaces
<1>6. PipeTypeOK' BY <1>2, <1>4, <1>5, PipeTypes DEF PipeTypeOK
<1>7. \A p \in Callers : /\ on'[p] = (IF p = q THEN NoConn ELSE on[p])
                         /\ old'[p] = (IF p = q THEN NoConn ELSE old[p])
                         /\ got'[p] = (IF p = q THEN "nothing" ELSE got[p])
  BY <1>2, PipeTypes
<1>8. Sited' BY <1>5, <1>7 DEF PipeInv, Sited, Inside, Coming
<1>9. RefsExact'
  <2>1. ASSUME NEW c \in Conns
        PROVE  conn'[c].refs = Cardinality(Askers(c)') + Cardinality(Keepers(c)') + (IF pipe' = c THEN 1 ELSE 0)
    <3>1. c # NoConn BY NoConnApart
    <3>2. Cardinality(Askers(c)') = Cardinality(Askers(c)) + (IF NoConn = c THEN 1 ELSE 0)
                                       - (IF on[q] = c THEN 1 ELSE 0)
      <4>1. Askers(c) \ {q} = Askers(c)' \ {q} /\ q \notin Askers(c)' /\ (q \in Askers(c) <=> on[q] = c)
        BY <1>7, <3>1 DEF Askers
      <4>2. Cardinality(Askers(c)') = Cardinality(Askers(c)) + (IF q \in Askers(c)' THEN 1 ELSE 0)
                                        - (IF q \in Askers(c) THEN 1 ELSE 0)
        BY <4>1, PipeCounts, CountMoves
      <4> QED BY <3>1, <4>1, <4>2
    <3>3. Cardinality(Keepers(c)') = Cardinality(Keepers(c)) + (IF NoConn = c THEN 1 ELSE 0)
                                        - (IF old[q] = c THEN 1 ELSE 0)
      <4>1. Keepers(c) \ {q} = Keepers(c)' \ {q} /\ q \notin Keepers(c)' /\ (q \in Keepers(c) <=> old[q] = c)
        BY <1>7, <3>1 DEF Keepers
      <4>2. Cardinality(Keepers(c)') = Cardinality(Keepers(c)) + (IF q \in Keepers(c)' THEN 1 ELSE 0)
                                        - (IF q \in Keepers(c) THEN 1 ELSE 0)
        BY <4>1, PipeCounts, CountMoves
      <4> QED BY <3>1, <4>1, <4>2
    <3>4. conn[c].refs = Cardinality(Askers(c)) + Cardinality(Keepers(c)) + (IF pipe = c THEN 1 ELSE 0)
      BY DEF PipeInv, RefsExact
    <3>5. Cardinality(Askers(c)) \in Nat /\ Cardinality(Keepers(c)) \in Nat BY PipeCounts
    <3> QED BY <1>1, <1>4, <3>1, <3>2, <3>3, <3>4, <3>5
  <2> QED BY <2>1 DEF RefsExact
<1>10. OneDials' /\ Unanswered' BY <1>5, <1>7 DEF PipeInv, OneDials, Unanswered, Inside
<1>11. \A p \in Callers : place[p] \in Inside \/ place'[p] \in Inside => place'[p] = place[p] /\ on'[p] = on[p] /\ got'[p] = got[p]
  BY <1>5, <1>7 DEF Inside
<1> QED BY <1>4, <1>6, <1>8, <1>9, <1>10, <1>11, OutsideOK

(* get_pipe returns c with n references: one more for the caller, and one   *)
(* for the upstream when it is its new shared connection.                   *)
LEMMA GotOK ==
  ASSUME PipeInv, NEW q \in Callers, place[q] \in {"get", "dial", "dialOwn"},
         NEW c \in Conns, NEW n \in Nat, NEW places, NEW f,
         places = place \/ places = Broadcast,
         f = [conn EXCEPT ![c].refs = n], Got(q, f, c, places),
         \/ pipe' = pipe /\ n = conn[c].refs + 1
         \/ pipe = NoConn /\ pipe' = c /\ n = conn[c].refs + 2 /\ connecting' = FALSE,
         connecting' = IF place[q] = "dial" THEN FALSE ELSE connecting
  PROVE  PipeInv'
<1>1. on[q] = NoConn /\ old[q] \in Conns \cup {NoConn}
  BY PipeTypes DEF PipeInv, Sited, Inside, Coming
<1>2. /\ conn' = Unref(f, old[q]) /\ place' = [places EXCEPT ![q] = "query"]
      /\ on' = [on EXCEPT ![q] = c] /\ old' = [old EXCEPT ![q] = NoConn] /\ got' = got
  BY DEF Got
<1>3. /\ f \in [Conns -> Connections]
      /\ \A d \in Conns : /\ f[d].refs = IF d = c THEN n ELSE conn[d].refs
                          /\ f[d].waiters = conn[d].waiters /\ f[d].dead = conn[d].dead
                          /\ f[d].reading = conn[d].reading
  BY PipeTypes, GivenRefs
<1>4. old[q] # NoConn => f[old[q]].refs >= 1
  BY <1>1, <1>3, Referenced, PipeTypes
<1>5. /\ conn' \in [Conns -> Connections]
      /\ \A d \in Conns :
           /\ conn'[d].refs = (IF d = c THEN n ELSE conn[d].refs) - (IF d = old[q] THEN 1 ELSE 0)
           /\ \/ /\ conn'[d].waiters = conn[d].waiters /\ conn'[d].dead = conn[d].dead
                 /\ conn'[d].reading = conn[d].reading
              \/ conn'[d] = Closed /\ conn'[d].refs = 0
  <2>1. /\ conn' \in [Conns -> Connections]
        /\ \A d \in Conns :
             /\ conn'[d].refs = f[d].refs - (IF d = old[q] THEN 1 ELSE 0)
             /\ \/ /\ conn'[d].waiters = f[d].waiters /\ conn'[d].dead = f[d].dead
                   /\ conn'[d].reading = f[d].reading
                \/ conn'[d] = Closed /\ conn'[d].refs = 0
    <3>1. PICK o \in Conns \cup {NoConn} : o = old[q] BY <1>1
    <3>2. o # NoConn => f[o].refs >= 1 BY <1>4, <3>1
    <3>3. conn' = Unref(f, o) BY <1>2, <3>1
    <3>4. f \in [Conns -> Connections] BY <1>3
    <3>5. /\ Unref(f, o) \in [Conns -> Connections]
          /\ \A d \in Conns :
               /\ Unref(f, o)[d].refs = f[d].refs - (IF d = o THEN 1 ELSE 0)
               /\ \/ /\ Unref(f, o)[d].waiters = f[d].waiters /\ Unref(f, o)[d].dead = f[d].dead
                     /\ Unref(f, o)[d].reading = f[d].reading
                  \/ Unref(f, o)[d] = Closed /\ Unref(f, o)[d].refs = 0
      BY <3>2, <3>4, UnrefFacts, ZenonT(40)
    <3> QED BY <3>1, <3>3, <3>5
  <2> QED BY <1>3, <2>1
<1>6. /\ place' \in [Callers -> PipePlaces] /\ place'[q] = "query"
      /\ \A p \in Callers : p # q => place'[p] = place[p] \/ (place[p] = "queued" /\ place'[p] = "get")
  <2>1. /\ places \in [Callers -> PipePlaces]
        /\ \A p \in Callers : places[p] = place[p] \/ (place[p] = "queued" /\ places[p] = "get")
    BY PipeTypes DEF Broadcast, PipePlaces, Coming
  <2> QED BY <1>2, <2>1 DEF PipePlaces
<1>7. PipeTypeOK' BY <1>2, <1>5, <1>6, PipeTypes DEF PipeTypeOK
<1>8. \A p \in Callers : /\ on'[p] = (IF p = q THEN c ELSE on[p])
                         /\ old'[p] = (IF p = q THEN NoConn ELSE old[p])
  BY <1>2, PipeTypes
<1>9. Sited' BY <1>6, <1>8, NoConnApart DEF PipeInv, Sited, Inside, Coming
<1>10. RefsExact'
  <2>1. ASSUME NEW d \in Conns
        PROVE  conn'[d].refs = Cardinality(Askers(d)') + Cardinality(Keepers(d)') + (IF pipe' = d THEN 1 ELSE 0)
    <3>1. d # NoConn BY NoConnApart
    <3>2. Cardinality(Askers(d)') = Cardinality(Askers(d)) + (IF c = d THEN 1 ELSE 0)
                                       - (IF on[q] = d THEN 1 ELSE 0)
      <4>1. PipeTypeOK BY DEF PipeInv
      <4> QED BY <1>2, <4>1, AskersMove, ZenonT(40)
    <3>3. Cardinality(Keepers(d)') = Cardinality(Keepers(d)) + (IF NoConn = d THEN 1 ELSE 0)
                                        - (IF old[q] = d THEN 1 ELSE 0)
      <4>1. PipeTypeOK BY DEF PipeInv
      <4> QED BY <1>2, <4>1, KeepersMove, ZenonT(40)
    <3>4. conn[d].refs = Cardinality(Askers(d)) + Cardinality(Keepers(d)) + (IF pipe = d THEN 1 ELSE 0)
      BY DEF PipeInv, RefsExact
    <3>5. Cardinality(Askers(d)) \in Nat /\ Cardinality(Keepers(d)) \in Nat BY PipeCounts
    <3> QED BY <1>1, <1>5, <3>1, <3>2, <3>3, <3>4, <3>5
  <2> QED BY <2>1 DEF RefsExact
<1>11. OneDials' /\ Unanswered' BY <1>2, <1>6 DEF PipeInv, OneDials, Unanswered, Inside
<1>12. \A p \in Callers : place[p] \in Inside \/ place'[p] \in Inside => place'[p] = place[p] /\ on'[p] = on[p] /\ got'[p] = got[p]
  BY <1>2, <1>6, <1>8 DEF Inside
<1> QED BY <1>5, <1>7, <1>9, <1>10, <1>11, <1>12, OutsideOK

(* The upstream lets go of its shared connection, and may dial another.     *)
LEMMA DropPipeOK ==
  ASSUME PipeInv, pipe' = NoConn, conn' = Unref(conn, pipe), UNCHANGED <<callerVars, got>>,
         \/ UNCHANGED <<connecting, place>>
         \/ /\ ~connecting /\ connecting'
            /\ \E q \in Callers : place[q] = "get" /\ place' = [place EXCEPT ![q] = "dial"]
  PROVE  PipeInv'
<1> USE DEF callerVars
<1>1. pipe \in Conns \cup {NoConn} /\ (pipe # NoConn => conn[pipe].refs >= 1) BY PipeTypes, Referenced
<1>2. /\ conn' \in [Conns -> Connections]
      /\ \A d \in Conns :
           /\ conn'[d].refs = conn[d].refs - (IF d = pipe THEN 1 ELSE 0)
           /\ \/ /\ conn'[d].waiters = conn[d].waiters /\ conn'[d].dead = conn[d].dead
                 /\ conn'[d].reading = conn[d].reading
              \/ conn'[d] = Closed /\ conn'[d].refs = 0
  BY <1>1, PipeTypes, UnrefFacts
<1>3. RefsExact'
  <2>1. ASSUME NEW c \in Conns
        PROVE  conn'[c].refs = Cardinality(Askers(c)') + Cardinality(Keepers(c)') + (IF pipe' = c THEN 1 ELSE 0)
    <3>1. c # NoConn BY NoConnApart
    <3>2. Askers(c)' = Askers(c) /\ Keepers(c)' = Keepers(c) BY DEF Askers, Keepers
    <3>3. conn[c].refs = Cardinality(Askers(c)) + Cardinality(Keepers(c)) + (IF pipe = c THEN 1 ELSE 0)
      BY DEF PipeInv, RefsExact
    <3>4. Cardinality(Askers(c)) \in Nat /\ Cardinality(Keepers(c)) \in Nat BY PipeCounts
    <3> QED BY <1>2, <3>1, <3>2, <3>3, <3>4
  <2> QED BY <2>1 DEF RefsExact
<1>4. CASE UNCHANGED <<connecting, place>>
  <2>1. PipeTypeOK' /\ Sited' /\ OneDials' /\ Unanswered'
    BY <1>2, <1>4 DEF PipeInv, PipeTypeOK, Sited, OneDials, Unanswered
  <2> QED BY <1>2, <1>3, <1>4, <2>1, OutsideOK
<1>5. ASSUME NEW q \in Callers, ~connecting, connecting', place[q] = "get", place' = [place EXCEPT ![q] = "dial"]
      PROVE  PipeInv'
  <2>1. place' \in [Callers -> PipePlaces] /\ \A p \in Callers : place'[p] = IF p = q THEN "dial" ELSE place[p]
    BY <1>5, PipeTypes DEF PipePlaces, Coming
  <2>2. connecting' \in BOOLEAN BY <1>5, PipeTypes
  <2>3. PipeTypeOK' BY <1>2, <2>1, <2>2 DEF PipeInv, PipeTypeOK
  <2>4. Sited' BY <1>5, <2>1 DEF PipeInv, Sited, Inside, Coming
  <2>5. OneDials' /\ Unanswered' BY <1>5, <2>1 DEF PipeInv, OneDials, Unanswered, Inside
  <2>6. \A p \in Callers : place[p] \in Inside \/ place'[p] \in Inside => place'[p] = place[p] /\ on'[p] = on[p] /\ got'[p] = got[p]
    BY <1>5, <2>1 DEF Inside
  <2> QED BY <1>2, <1>3, <2>3, <2>4, <2>5, <2>6, OutsideOK
<1> QED BY <1>4, <1>5

-----------------------------------------------------------------------------
(* Inside pipe_query.                                                       *)

(* A connection c that is k, with the callers at pl and what they hold gt:  *)
(* who is on it and who waits, who reads, and who sees to the parked.       *)
Seated(c, k, pl, gt) ==
  /\ k.waiters \subseteq Askers(c)
  /\ \A q \in Callers : on[q] = c =>
       /\ pl[q] \in {"query", "left"} \cup Inside
       /\ pl[q] \in {"query", "parked"} => gt[q] = "nothing"
       /\ q \in k.waiters <=> pl[q] \in Inside /\ gt[q] = "nothing"

ReadBy(c, k, pl) ==
  /\ k.reading <=> \E q \in Callers : on[q] = c /\ pl[q] \in {"reading", "read"}
  /\ \A q, w \in Callers :
       on[q] = c /\ pl[q] \in {"reading", "read"} /\ on[w] = c /\ pl[w] \in {"reading", "read"} => q = w

Watched(c, k, pl) ==
  (\E q \in Callers : on[q] = c /\ pl[q] = "parked") =>
    /\ ~k.dead
    /\ \E q \in Callers : on[q] = c /\ pl[q] \in {"wait", "woken", "reading", "read"}

(* What happens on one connection inside pipe_query leaves every other one  *)
(* alone, and this one sound if its waiters, its reader and its sleepers    *)
(* are.                                                                     *)
LEMMA InsideOK ==
  ASSUME PipeInv, NEW c \in Conns, NEW k \in Connections, k.refs = conn[c].refs,
         conn' = [conn EXCEPT ![c] = k], UNCHANGED <<upstreamVars, callerVars>>,
         place' \in [Callers -> PipePlaces],
         got' \in [Callers -> {"nothing", "reply", "error", "timeout"}],
         \A q \in Callers : on[q] # c => place'[q] = place[q] /\ got'[q] = got[q],
         Seated(c, k, place', got'), ReadBy(c, k, place'), Watched(c, k, place')
  PROVE  PipeInv'
<1> USE DEF upstreamVars, callerVars
<1>1. /\ conn' \in [Conns -> Connections]
      /\ \A d \in Conns : conn'[d] = IF d = c THEN k ELSE conn[d]
      /\ \A d \in Conns : conn'[d].refs = conn[d].refs
  BY PipeTypes
<1>2. PipeTypeOK' BY <1>1, PipeTypes DEF PipeTypeOK
<1>3. \A q \in Callers : on[q] = c => place[q] \in {"query", "left"} \cup Inside
  BY NoConnApart DEF PipeInv, Sited
<1>4. Sited' BY <1>3 DEF PipeInv, Sited, Inside, Coming, Seated
<1>5. \A d \in Conns : Askers(d)' = Askers(d) /\ Keepers(d)' = Keepers(d) BY DEF Askers, Keepers
<1>6. RefsExact' BY <1>1, <1>5 DEF PipeInv, RefsExact
<1>7. \A q \in Callers : place'[q] = "dial" <=> place[q] = "dial" BY <1>3 DEF Inside, Seated
<1>8. OneDials' BY <1>7 DEF PipeInv, OneDials
<1>9. Unanswered' BY DEF PipeInv, Unanswered, Inside, Seated
<1>10. \A S : \A d \in Conns : d # c => On(d, S)' = On(d, S) BY DEF On
<1>11. Registered'
  <2>1. ASSUME NEW d \in Conns PROVE conn'[d].waiters \subseteq On(d, Inside)'
    <3>1. CASE d = c BY <1>1, <3>1 DEF On, Askers, Seated
    <3>2. CASE d # c BY <1>1, <1>10, <3>2 DEF PipeInv, Registered
    <3> QED BY <3>1, <3>2
  <2>2. ASSUME NEW q \in Callers, place'[q] \in Inside PROVE got'[q] = "nothing" <=> q \in conn'[on'[q]].waiters
    <3>1. CASE on[q] = c BY <1>1, <2>2, <3>1 DEF Seated
    <3>2. CASE on[q] # c
      <4>1. place[q] \in Inside BY <2>2, <3>2
      <4>2. on[q] \in Conns BY <4>1, PipeTypes DEF PipeInv, Sited
      <4>3. conn'[on[q]] = conn[on[q]] BY <1>1, <3>2, <4>2
      <4> QED BY <3>2, <4>1, <4>3 DEF PipeInv, Registered
    <3> QED BY <3>1, <3>2
  <2>3. \A q \in Callers : place'[q] = "parked" => got'[q] = "nothing" BY DEF PipeInv, Registered, Seated
  <2> QED BY <2>1, <2>2, <2>3 DEF Registered
<1>12. OneReads'
  <2>1. ASSUME NEW d \in Conns
        PROVE  /\ conn'[d].reading <=> On(d, {"reading", "read"})' # {}
               /\ \A q, w \in On(d, {"reading", "read"})' : q = w
    <3>1. CASE d = c BY <1>1, <3>1 DEF On, ReadBy
    <3>2. CASE d # c BY <1>1, <1>10, <3>2 DEF PipeInv, OneReads
    <3> QED BY <3>1, <3>2
  <2> QED BY <2>1 DEF OneReads
<1>13. SomeoneAwake'
  <2>1. ASSUME NEW d \in Conns, On(d, {"parked"})' # {}
        PROVE  ~conn'[d].dead /\ On(d, {"wait", "woken", "reading", "read"})' # {}
    <3>1. CASE d = c BY <1>1, <2>1, <3>1 DEF On, Watched
    <3>2. CASE d # c BY <1>1, <1>10, <2>1, <3>2 DEF PipeInv, SomeoneAwake
    <3> QED BY <3>1, <3>2
  <2> QED BY <2>1 DEF SomeoneAwake
<1> QED BY <1>2, <1>4, <1>6, <1>8, <1>9, <1>11, <1>12, <1>13 DEF PipeInv

(* So stands the connection of a caller that has one.                       *)
LEMMA Aboard ==
  ASSUME PipeInv, NEW q \in Callers, place[q] \in {"query", "left"} \cup Inside, NEW c, c = on[q]
  PROVE  /\ c \in Conns /\ conn[c] \in Connections
         /\ Seated(c, conn[c], place, got) /\ ReadBy(c, conn[c], place) /\ Watched(c, conn[c], place)
<1>1. c \in Conns /\ conn[c] \in Connections BY PipeTypes DEF PipeInv, Sited
<1>2. conn[c].waiters \subseteq On(c, Inside) BY <1>1 DEF PipeInv, Registered
<1>3. ASSUME NEW w \in Callers, on[w] = c
      PROVE  /\ place[w] \in {"query", "left"} \cup Inside
             /\ place[w] \in {"query", "parked"} => got[w] = "nothing"
             /\ w \in conn[c].waiters <=> place[w] \in Inside /\ got[w] = "nothing"
  <2>1. place[w] \in {"query", "left"} \cup Inside BY <1>1, <1>3, NoConnApart DEF PipeInv, Sited
  <2>2. place[w] = "query" => got[w] = "nothing" BY DEF PipeInv, Unanswered, Inside
  <2>3. place[w] = "parked" => got[w] = "nothing" BY DEF PipeInv, Registered
  <2>4. place[w] \in Inside => (w \in conn[c].waiters <=> got[w] = "nothing")
    BY <1>3 DEF PipeInv, Registered
  <2> QED BY <1>2, <2>1, <2>2, <2>3, <2>4 DEF On
<1>4. Seated(c, conn[c], place, got) BY <1>2, <1>3 DEF Seated, On, Askers
<1>5. /\ conn[c].reading <=> On(c, {"reading", "read"}) # {}
      /\ \A v, w \in On(c, {"reading", "read"}) : v = w
  BY <1>1 DEF PipeInv, OneReads
<1>6. On(c, {"parked"}) # {} => ~conn[c].dead /\ On(c, {"wait", "woken", "reading", "read"}) # {}
  BY <1>1 DEF PipeInv, SomeoneAwake
<1>7. ReadBy(c, conn[c], place)
  <2>1. \A w : w \in On(c, {"reading", "read"}) <=> w \in Callers /\ on[w] = c /\ place[w] \in {"reading", "read"}
    BY DEF On
  <2> QED BY <1>5, <2>1 DEF ReadBy
<1>8. Watched(c, conn[c], place)
  <2>1. \A w : w \in On(c, {"parked"}) <=> w \in Callers /\ on[w] = c /\ place[w] = "parked"
    BY DEF On
  <2>2. \A w \in On(c, {"wait", "woken", "reading", "read"}) :
          w \in Callers /\ on[w] = c /\ place[w] \in {"wait", "woken", "reading", "read"}
    BY DEF On
  <2> QED BY <1>6, <2>1, <2>2 DEF Watched
<1> QED BY <1>1, <1>4, <1>7, <1>8

LEMMA RegisterOK ==
  ASSUME PipeInv, NEW q \in Callers, Register(q)
  PROVE  PipeInv'
<1>1. PICK c : c = on[q] OBVIOUS
<1>2. /\ c \in Conns /\ conn[c] \in Connections /\ conn \in [Conns -> Connections]
      /\ Seated(c, conn[c], place, got) /\ ReadBy(c, conn[c], place) /\ Watched(c, conn[c], place)
  BY <1>1, Aboard, PipeTypes DEF Register
<1>3. place[q] = "query" /\ got[q] = "nothing" /\ q \notin conn[c].waiters
  BY <1>1, <1>2 DEF Register, Seated, Inside
<1>4. CASE /\ place' = [place EXCEPT ![q] = "left"] /\ got' = [got EXCEPT ![q] = "error"]
           /\ UNCHANGED <<conn, heard>>
  <2>1. /\ place' \in [Callers -> PipePlaces] /\ got' \in [Callers -> {"nothing", "reply", "error", "timeout"}]
        /\ \A w \in Callers : /\ place'[w] = IF w = q THEN "left" ELSE place[w]
                              /\ got'[w] = IF w = q THEN "error" ELSE got[w]
    BY <1>4, PipeTypes DEF PipePlaces
  <2>2. conn' = [conn EXCEPT ![c] = conn[c]] BY <1>2, <1>4
  <2>3. Seated(c, conn[c], place', got') BY <1>2, <1>3, <2>1 DEF Seated, Inside
  <2>4. ReadBy(c, conn[c], place') /\ Watched(c, conn[c], place') BY <1>2, <1>3, <2>1 DEF ReadBy, Watched
  <2> QED BY <1>1, <1>2, <2>1, <2>2, <2>3, <2>4, InsideOK DEF Register
<1>5. CASE /\ conn' = [conn EXCEPT ![on[q]].waiters = @ \cup {q}]
           /\ place' = [place EXCEPT ![q] = "write"]
           /\ UNCHANGED <<heard, got>>
  <2> DEFINE k == [conn[c] EXCEPT !.waiters = conn[c].waiters \cup {q}]
  <2>1. /\ place' \in [Callers -> PipePlaces] /\ got' \in [Callers -> {"nothing", "reply", "error", "timeout"}]
        /\ \A w \in Callers : place'[w] = (IF w = q THEN "write" ELSE place[w]) /\ got'[w] = got[w]
    BY <1>5, PipeTypes DEF PipePlaces, Inside
  <2>2. conn' = [conn EXCEPT ![c] = k] BY <1>1, <1>2, <1>5
  <2>3. k \in Connections /\ k.refs = conn[c].refs /\ k.waiters = conn[c].waiters \cup {q}
          /\ k.dead = conn[c].dead /\ k.reading = conn[c].reading
    BY <1>2 DEF Connections
  <2> HIDE DEF k
  <2>4. Seated(c, k, place', got') BY <1>1, <1>2, <1>3, <2>1, <2>3 DEF Seated, Inside, Askers
  <2>5. ReadBy(c, k, place') /\ Watched(c, k, place') BY <1>2, <1>3, <2>1, <2>3 DEF ReadBy, Watched
  <2> QED BY <1>1, <1>2, <2>1, <2>2, <2>3, <2>4, <2>5, InsideOK DEF Register
<1> QED BY <1>4, <1>5 DEF Register

(* A caller inside pipe_query that neither reads nor parks moves on.        *)
LEMMA MovesOK ==
  ASSUME PipeInv, NEW q \in Callers, place[q] \in {"write", "writing", "parked"},
         NEW to \in {"writing", "wait", "unwritten", "woken"},
         place[q] = "parked" => to = "woken",
         place' = [place EXCEPT ![q] = to], UNCHANGED <<upstreamVars, conn, callerVars, got>>
  PROVE  PipeInv'
<1>1. PICK c : c = on[q] OBVIOUS
<1>2. /\ c \in Conns /\ conn[c] \in Connections /\ conn \in [Conns -> Connections]
      /\ Seated(c, conn[c], place, got) /\ ReadBy(c, conn[c], place) /\ Watched(c, conn[c], place)
  BY <1>1, Aboard, PipeTypes DEF Inside
<1>3. /\ place' \in [Callers -> PipePlaces] /\ got' \in [Callers -> {"nothing", "reply", "error", "timeout"}]
      /\ \A w \in Callers : place'[w] = (IF w = q THEN to ELSE place[w]) /\ got'[w] = got[w]
  BY PipeTypes DEF PipePlaces, Inside
<1>4. conn' = [conn EXCEPT ![c] = conn[c]] BY <1>2
<1>5. Seated(c, conn[c], place', got') BY <1>2, <1>3 DEF Seated, Inside
<1>6. ReadBy(c, conn[c], place') BY <1>2, <1>3 DEF ReadBy
<1>7. Watched(c, conn[c], place') BY <1>1, <1>2, <1>3 DEF Watched
<1> QED BY <1>1, <1>2, <1>3, <1>4, <1>5, <1>6, <1>7, InsideOK

(* Signal wakes the parked among those it is given, and nobody else.        *)
LEMMA SignalFacts ==
  ASSUME PipeInv, NEW S, NEW q \in Callers, NEW to \in {"left", "read", "unwritten"}
  PROVE  /\ [Signal(S) EXCEPT ![q] = to] \in [Callers -> PipePlaces]
         /\ \A w \in Callers : [Signal(S) EXCEPT ![q] = to][w] =
              IF w = q THEN to ELSE IF w \in S /\ place[w] = "parked" THEN "woken" ELSE place[w]
<1>1. /\ Signal(S) \in [Callers -> PipePlaces]
      /\ \A w \in Callers : Signal(S)[w] = IF w \in S /\ place[w] = "parked" THEN "woken" ELSE place[w]
  BY PipeTypes DEF Signal, PipePlaces, Inside
<1>2. to \in PipePlaces BY DEF PipePlaces, Inside
<1> QED BY <1>1, <1>2

LEMMA WriteOK ==
  ASSUME PipeInv, NEW q \in Callers, Write(q)
  PROVE  PipeInv'
<1>1. PICK c : c = on[q] OBVIOUS
<1>2. /\ c \in Conns /\ conn[c] \in Connections /\ conn \in [Conns -> Connections]
      /\ Seated(c, conn[c], place, got) /\ ReadBy(c, conn[c], place) /\ Watched(c, conn[c], place)
  BY <1>1, Aboard, PipeTypes DEF Write, Inside
<1>3. place[q] = "writing" BY DEF Write
<1>4. CASE /\ place' = [place EXCEPT ![q] = "wait"] \/ place' = [place EXCEPT ![q] = "unwritten"]
           /\ UNCHANGED conn
  <2>1. UNCHANGED <<upstreamVars, conn, callerVars, got>> BY <1>4 DEF Write
  <2> QED BY <1>3, <1>4, <2>1, MovesOK
<1>5. CASE /\ conn' = [conn EXCEPT ![on[q]].dead = TRUE]
           /\ place' = [Signal(conn[on[q]].waiters) EXCEPT ![q] = "unwritten"]
  <2> DEFINE k == [conn[c] EXCEPT !.dead = TRUE]
  <2>1. /\ place' \in [Callers -> PipePlaces]
        /\ \A w \in Callers : place'[w] =
             IF w = q THEN "unwritten"
             ELSE IF w \in conn[c].waiters /\ place[w] = "parked" THEN "woken" ELSE place[w]
    BY <1>1, <1>5, SignalFacts
  <2>2. conn' = [conn EXCEPT ![c] = k] BY <1>1, <1>2, <1>5
  <2>3. k \in Connections /\ k.refs = conn[c].refs /\ k.waiters = conn[c].waiters /\ k.reading = conn[c].reading
    BY <1>2 DEF Connections
  <2> HIDE DEF k
  <2>4. got' = got /\ got' \in [Callers -> {"nothing", "reply", "error", "timeout"}]
          /\ UNCHANGED <<upstreamVars, callerVars>>
    BY PipeTypes DEF Write
  <2>5. Seated(c, k, place', got') BY <1>1, <1>2, <1>3, <2>1, <2>3, <2>4 DEF Seated, Inside
  <2>6. ReadBy(c, k, place') BY <1>2, <1>3, <2>1, <2>3 DEF ReadBy
  <2>7. \A w \in Callers : on[w] = c => place'[w] # "parked" BY <1>2, <2>1 DEF Seated, Inside
  <2>8. Watched(c, k, place') BY <2>7 DEF Watched
  <2>9. \A w \in Callers : on[w] # c => place'[w] = place[w] /\ got'[w] = got[w]
    BY <1>1, <1>2, <2>1, <2>4 DEF Seated, Askers
  <2> QED BY <1>2, <2>1, <2>2, <2>3, <2>4, <2>5, <2>6, <2>8, <2>9, InsideOK
<1> QED BY <1>4, <1>5 DEF Write

LEMMA UnwrittenOK ==
  ASSUME PipeInv, NEW q \in Callers, Unwritten(q)
  PROVE  PipeInv'
<1>1. PICK c : c = on[q] OBVIOUS
<1>2. /\ c \in Conns /\ conn[c] \in Connections /\ conn \in [Conns -> Connections]
      /\ Seated(c, conn[c], place, got) /\ ReadBy(c, conn[c], place) /\ Watched(c, conn[c], place)
  BY <1>1, Aboard, PipeTypes DEF Unwritten, Inside
<1>3. place[q] = "unwritten" BY DEF Unwritten
<1> DEFINE k == [conn[c] EXCEPT !.waiters = conn[c].waiters \ {q}]
<1>4. /\ place' \in [Callers -> PipePlaces] /\ got' \in [Callers -> {"nothing", "reply", "error", "timeout"}]
      /\ \A w \in Callers : /\ place'[w] = IF w = q THEN "left" ELSE place[w]
                            /\ got'[w] = IF w = q THEN "error" ELSE got[w]
  BY PipeTypes DEF Unwritten, PipePlaces
<1>5. conn' = [conn EXCEPT ![c] = k] BY <1>1, <1>2 DEF Unwritten
<1>6. k \in Connections /\ k.refs = conn[c].refs /\ k.waiters = conn[c].waiters \ {q}
        /\ k.dead = conn[c].dead /\ k.reading = conn[c].reading
  BY <1>2 DEF Connections
<1> HIDE DEF k
<1>7. Seated(c, k, place', got') BY <1>1, <1>2, <1>3, <1>4, <1>6 DEF Seated, Inside
<1>8. ReadBy(c, k, place') /\ Watched(c, k, place') BY <1>2, <1>3, <1>4, <1>6 DEF ReadBy, Watched
<1> QED BY <1>1, <1>2, <1>4, <1>5, <1>6, <1>7, <1>8, InsideOK DEF Unwritten

-----------------------------------------------------------------------------
(* pipe_wait.                                                               *)

(* Whoever leaves sees to those it leaves parked: somebody else reads, or   *)
(* the connection is dead and they are all woken, or one of them is.        *)
LEMMA LeaveOK ==
  ASSUME PipeInv, NEW q \in Callers, place[q] \in {"wait", "woken", "reading", "read"},
         NEW c, c = on[q], NEW k \in Connections, k.refs = conn[c].refs,
         k.waiters = conn[c].waiters \ {q},
         k.reading <=> conn[c].reading /\ place[q] \notin {"reading", "read"},
         NEW result \in {"reply", "error", "timeout"}, Leave(q, k, result),
         UNCHANGED <<upstreamVars, callerVars>>
  PROVE  PipeInv'
<1>1. /\ c \in Conns /\ conn[c] \in Connections
      /\ Seated(c, conn[c], place, got) /\ ReadBy(c, conn[c], place) /\ Watched(c, conn[c], place)
  BY Aboard DEF Inside
<1>2. conn' = [conn EXCEPT ![c] = k] BY DEF Leave
<1>3. /\ got' \in [Callers -> {"nothing", "reply", "error", "timeout"}]
      /\ \A w \in Callers : got'[w] = IF w = q THEN result ELSE got[w]
  BY PipeTypes DEF Leave
<1>4. \A w \in Callers : on[w] = c /\ place[w] = "parked" => w \in conn[c].waiters
  BY <1>1 DEF Seated, Inside
<1>5. \E S : /\ \A w \in S : w \in conn[c].waiters
             /\ place' = [Signal(S) EXCEPT ![q] = "left"]
             /\ \/ \A w \in Callers : on[w] = c /\ place[w] = "parked" => w = q \/ w \in S
                \/ /\ ~k.dead
                   /\ \/ k.reading
                      \/ \E w \in S : w # q /\ place[w] \in {"parked", "woken"}
  <2>1. CASE ~(~k.reading /\ ~k.dead)
    <3>1. PICK S : S = IF k.dead THEN k.waiters ELSE {} OBVIOUS
    <3>2. place' = [Signal(S) EXCEPT ![q] = "left"] BY <2>1, <3>1 DEF Leave
    <3> QED BY <1>4, <2>1, <3>1, <3>2
  <2>2. CASE ~k.reading /\ ~k.dead
    <3>1. HandOn(k, q) BY <2>2 DEF Leave
    <3>2. CASE Parked(k) \ {q} = {}
      <4>1. place' = [place EXCEPT ![q] = "left"] BY <3>1, <3>2 DEF HandOn
      <4>2. Signal({}) = place BY PipeTypes DEF Signal
      <4>3. \A w \in Callers : on[w] = c /\ place[w] = "parked" => w = q
        BY <1>4, <3>2 DEF Parked
      <4>4. place' = [Signal({}) EXCEPT ![q] = "left"] BY <4>1, <4>2
      <4> QED BY <4>3, <4>4
    <3>3. CASE Parked(k) \ {q} # {}
      <4>1. PICK w \in Parked(k) \ {q} : place' = [Signal({w}) EXCEPT ![q] = "left"]
        BY <3>1, <3>3 DEF HandOn
      <4>2. w \in conn[c].waiters /\ w # q /\ place[w] \in {"parked", "woken"} BY <4>1 DEF Parked
      <4>3. PICK S : S = {w} OBVIOUS
      <4> QED BY <2>2, <4>1, <4>2, <4>3
    <3> QED BY <3>2, <3>3
  <2> QED BY <2>1, <2>2
<1>6. PICK S : /\ \A w \in S : w \in conn[c].waiters
               /\ place' = [Signal(S) EXCEPT ![q] = "left"]
               /\ \/ \A w \in Callers : on[w] = c /\ place[w] = "parked" => w = q \/ w \in S
                  \/ /\ ~k.dead
                     /\ \/ k.reading
                        \/ \E w \in S : w # q /\ place[w] \in {"parked", "woken"}
  BY <1>5
<1>7. /\ place' \in [Callers -> PipePlaces]
      /\ \A w \in Callers : place'[w] =
           IF w = q THEN "left" ELSE IF w \in S /\ place[w] = "parked" THEN "woken" ELSE place[w]
  BY <1>6, SignalFacts
<1>8. \A w \in S : w \in Callers /\ on[w] = c BY <1>1, <1>6 DEF Seated, Askers
<1>9. Seated(c, k, place', got') BY <1>1, <1>3, <1>7 DEF Seated, Inside
<1>10. ReadBy(c, k, place')
  <2>1. \A w \in Callers : place'[w] \in {"reading", "read"} <=> w # q /\ place[w] \in {"reading", "read"}
    BY <1>7
  <2> QED BY <1>1, <2>1 DEF ReadBy
<1>11. Watched(c, k, place')
  <2> SUFFICES ASSUME NEW p \in Callers, on[p] = c, place'[p] = "parked"
               PROVE  /\ ~k.dead
                      /\ \E w \in Callers : on[w] = c /\ place'[w] \in {"wait", "woken", "reading", "read"}
    BY DEF Watched
  <2>1. p # q /\ p \notin S /\ place[p] = "parked" BY <1>7
  <2>2. ~k.dead /\ (k.reading \/ \E w \in S : w # q /\ place[w] \in {"parked", "woken"}) BY <1>6, <2>1
  <2>3. CASE k.reading BY <1>10, <2>2, <2>3 DEF ReadBy
  <2>4. CASE \E w \in S : w # q /\ place[w] \in {"parked", "woken"} BY <1>7, <1>8, <2>2, <2>4
  <2> QED BY <2>2, <2>3, <2>4
<1>12. \A w \in Callers : on[w] # c => place'[w] = place[w] /\ got'[w] = got[w] BY <1>3, <1>7, <1>8
<1> QED BY <1>1, <1>2, <1>3, <1>7, <1>9, <1>10, <1>11, <1>12, InsideOK

LEMMA TimedOutFacts ==
  ASSUME NEW k \in Connections, NEW q
  PROVE  /\ Without(k, q) \in Connections /\ TimedOut(k, q) \in Connections
         /\ Without(k, q).refs = k.refs /\ TimedOut(k, q).refs = k.refs
         /\ Without(k, q).waiters = k.waiters \ {q} /\ TimedOut(k, q).waiters = k.waiters \ {q}
         /\ Without(k, q).reading = k.reading /\ TimedOut(k, q).reading = k.reading
<1> DEFINE m == q \notin heard /\ k.waiters \subseteq {q}
           s == IF m THEN k.silent + 1 ELSE k.silent
           d == m /\ k.silent + 1 >= PIPE_SILENT_TIMEOUTS
<1>1. Without(k, q) \in Connections /\ Without(k, q).refs = k.refs /\ Without(k, q).waiters = k.waiters \ {q}
        /\ Without(k, q).reading = k.reading /\ Without(k, q).silent = k.silent
  BY DEF Without, Connections
<1>2. k.silent \in Nat BY DEF Connections
<1>3. s \in Nat /\ d \in BOOLEAN BY <1>2
<1>4. TimedOut(k, q) = [Without(k, q) EXCEPT !.silent = s, !.dead = d] BY <1>1 DEF TimedOut, Connections
<1> HIDE DEF m, s, d
<1> QED BY <1>1, <1>3, <1>4 DEF Connections

(* One turn of the loop, for a caller that is awake in pipe_wait and has    *)
(* just put the reading down if it had it.                                  *)
LEMMA TurnOK ==
  ASSUME PipeInv, NEW q \in Callers, place[q] \in {"wait", "woken", "reading", "read"},
         NEW c, c = on[q], NEW k \in Connections, k.refs = conn[c].refs, k.waiters = conn[c].waiters,
         k.reading <=> conn[c].reading /\ place[q] \notin {"reading", "read"},
         conn[c].dead => k.dead, Turn(q, k)
  PROVE  PipeInv'
<1>1. /\ c \in Conns /\ conn[c] \in Connections /\ conn \in [Conns -> Connections]
      /\ Seated(c, conn[c], place, got) /\ ReadBy(c, conn[c], place) /\ Watched(c, conn[c], place)
  BY Aboard, PipeTypes DEF Inside
<1>2. UNCHANGED <<upstreamVars, callerVars>> BY DEF Turn
<1>3. CASE got[q] # "nothing" /\ Leave(q, k, got[q])
  <2>1. PICK r \in {"reply", "error", "timeout"} : r = got[q] BY <1>3, PipeTypes
  <2>2. k.waiters = conn[c].waiters \ {q} BY <1>1, <1>3 DEF Seated
  <2>3. Leave(q, k, r) BY <1>3, <2>1
  <2> QED BY <1>2, <2>2, <2>3, LeaveOK
<1>4. CASE \/ Leave(q, Without(k, q), "error") \/ Leave(q, TimedOut(k, q), "timeout")
  <2>1. PICK j, r : (j = Without(k, q) \/ j = TimedOut(k, q)) /\ r \in {"error", "timeout"} /\ Leave(q, j, r)
    BY <1>4
  <2>2. j \in Connections /\ j.refs = k.refs /\ j.waiters = k.waiters \ {q} /\ j.reading = k.reading
    BY <2>1, TimedOutFacts
  <2>3. r \in {"reply", "error", "timeout"} BY <2>1
  <2>4. Leave(q, j, r) BY <2>1
  <2>5. j.refs = conn[c].refs /\ j.waiters = conn[c].waiters \ {q}
          /\ (j.reading <=> conn[c].reading /\ place[q] \notin {"reading", "read"})
    BY <2>2
  <2> QED BY <1>2, <2>2, <2>3, <2>4, <2>5, LeaveOK
<1>5. CASE got[q] = "nothing" /\ ~k.dead /\ k.reading /\ place' = [place EXCEPT ![q] = "parked"]
             /\ UNCHANGED <<conn, heard, got>>
  <2>1. /\ place' \in [Callers -> PipePlaces] /\ got' \in [Callers -> {"nothing", "reply", "error", "timeout"}]
        /\ \A w \in Callers : place'[w] = (IF w = q THEN "parked" ELSE place[w]) /\ got'[w] = got[w]
    BY <1>5, PipeTypes DEF PipePlaces, Inside
  <2>2. conn' = [conn EXCEPT ![c] = conn[c]] BY <1>1, <1>5
  <2>3. Seated(c, conn[c], place', got') BY <1>1, <1>5, <2>1 DEF Seated, Inside
  <2>4. place[q] \notin {"reading", "read"} /\ conn[c].reading BY <1>5
  <2>5. ReadBy(c, conn[c], place') BY <1>1, <2>1, <2>4 DEF ReadBy
  <2>6. Watched(c, conn[c], place')
    <3>1. PICK w \in Callers : on[w] = c /\ place'[w] \in {"reading", "read"} BY <2>4, <2>5 DEF ReadBy
    <3> QED BY <1>5, <3>1 DEF Watched
  <2> QED BY <1>1, <1>2, <2>1, <2>2, <2>3, <2>5, <2>6, InsideOK
<1>6. CASE /\ got[q] = "nothing" /\ ~k.dead /\ ~k.reading
           /\ conn' = [conn EXCEPT ![on[q]] = [k EXCEPT !.reading = TRUE]]
           /\ place' = [place EXCEPT ![q] = "reading"]
           /\ UNCHANGED <<heard, got>>
  <2> DEFINE j == [k EXCEPT !.reading = TRUE]
  <2>1. /\ place' \in [Callers -> PipePlaces] /\ got' \in [Callers -> {"nothing", "reply", "error", "timeout"}]
        /\ \A w \in Callers : place'[w] = (IF w = q THEN "reading" ELSE place[w]) /\ got'[w] = got[w]
    BY <1>6, PipeTypes DEF PipePlaces, Inside
  <2>2. conn' = [conn EXCEPT ![c] = j] BY <1>6
  <2>3. j \in Connections /\ j.refs = k.refs /\ j.waiters = k.waiters /\ j.reading /\ j.dead = k.dead
    BY DEF Connections
  <2> HIDE DEF j
  <2>4. Seated(c, j, place', got') BY <1>1, <1>6, <2>1, <2>3 DEF Seated, Inside
  <2>5. ReadBy(c, j, place') BY <1>1, <1>6, <2>1, <2>3 DEF ReadBy
  <2>6. Watched(c, j, place') BY <1>6, <2>1, <2>3 DEF Watched
  <2> QED BY <1>1, <1>2, <2>1, <2>2, <2>3, <2>4, <2>5, <2>6, InsideOK, ZenonT(40)
<1> QED BY <1>3, <1>4, <1>5, <1>6 DEF Turn

LEMMA WaitOK ==
  ASSUME PipeInv, NEW q \in Callers, Wait(q)
  PROVE  PipeInv'
<1>1. PICK c : c = on[q] OBVIOUS
<1>2. place[q] \in {"wait", "woken"} /\ Turn(q, conn[c]) BY <1>1 DEF Wait
<1>3. conn[c] \in Connections BY <1>1, <1>2, Aboard DEF Inside
<1> QED BY <1>1, <1>2, <1>3, TurnOK

LEMMA ReadEndsOK ==
  ASSUME PipeInv, NEW q \in Callers, ReadEnds(q)
  PROVE  PipeInv'
<1>1. PICK c : c = on[q] OBVIOUS
<1> DEFINE k == [conn[c] EXCEPT !.reading = FALSE]
           j == [k EXCEPT !.dead = TRUE]
<1>2. place[q] \in {"reading", "read"} /\ (Turn(q, k) \/ Turn(q, j)) BY <1>1 DEF ReadEnds
<1>3. conn[c] \in Connections BY <1>1, <1>2, Aboard DEF Inside
<1>4. k \in Connections /\ k.refs = conn[c].refs /\ k.waiters = conn[c].waiters /\ ~k.reading /\ k.dead = conn[c].dead
  BY <1>3 DEF Connections
<1>5. j \in Connections /\ j.refs = conn[c].refs /\ j.waiters = conn[c].waiters /\ ~j.reading /\ j.dead
  BY <1>4 DEF Connections
<1> HIDE DEF k, j
<1>6. CASE Turn(q, k) BY <1>1, <1>2, <1>4, <1>6, TurnOK
<1>7. CASE Turn(q, j) BY <1>1, <1>2, <1>5, <1>7, TurnOK
<1> QED BY <1>2, <1>6, <1>7

LEMMA ReadOneOK ==
  ASSUME PipeInv, NEW q \in Callers, ReadOne(q)
  PROVE  PipeInv'
<1>1. PICK c : c = on[q] OBVIOUS
<1> DEFINE k == [conn[c] EXCEPT !.silent = 0]
<1>2. place[q] = "reading" /\ UNCHANGED <<upstreamVars, callerVars>> BY DEF ReadOne
<1>3. /\ c \in Conns /\ conn[c] \in Connections /\ conn \in [Conns -> Connections]
      /\ Seated(c, conn[c], place, got) /\ ReadBy(c, conn[c], place) /\ Watched(c, conn[c], place)
  BY <1>1, <1>2, Aboard, PipeTypes DEF Inside
<1>4. k \in Connections /\ k.refs = conn[c].refs /\ k.waiters = conn[c].waiters /\ k.reading = conn[c].reading
        /\ k.dead = conn[c].dead
  BY <1>3 DEF Connections
<1>5. \/ \E w \in k.waiters, r \in {"reply", "error"} :
           /\ place[w] \in {"writing", "wait", "parked", "woken", "reading"}
           /\ conn' = [conn EXCEPT ![c] = Without(k, w)]
           /\ got' = [got EXCEPT ![w] = r]
           /\ place' = [Signal({w}) EXCEPT ![q] = "read"]
      \/ conn' = [conn EXCEPT ![c] = k] /\ place' = [place EXCEPT ![q] = "read"] /\ got' = got
  BY <1>1 DEF ReadOne
<1> HIDE DEF k
<1>6. ASSUME NEW w \in k.waiters, NEW r \in {"reply", "error"},
             conn' = [conn EXCEPT ![c] = Without(k, w)],
             got' = [got EXCEPT ![w] = r],
             place' = [Signal({w}) EXCEPT ![q] = "read"]
      PROVE  PipeInv'
  <2>1. w \in Callers /\ on[w] = c BY <1>3, <1>4, <1>6 DEF Seated, Askers
  <2>2. /\ place' \in [Callers -> PipePlaces]
        /\ \A v \in Callers : place'[v] =
             IF v = q THEN "read" ELSE IF v \in {w} /\ place[v] = "parked" THEN "woken" ELSE place[v]
    BY <1>6, SignalFacts
  <2>3. /\ got' \in [Callers -> {"nothing", "reply", "error", "timeout"}]
        /\ \A v \in Callers : got'[v] = IF v = w THEN r ELSE got[v]
    BY <1>6, <2>1, PipeTypes
  <2>4. PICK j : j = Without(k, w) OBVIOUS
  <2>5. j \in Connections /\ j.refs = conn[c].refs /\ j.waiters = conn[c].waiters \ {w}
          /\ j.reading = conn[c].reading /\ j.dead = conn[c].dead
    BY <1>4, <2>4 DEF Without, Connections
  <2>6. conn' = [conn EXCEPT ![c] = j] BY <1>6, <2>4
  <2>7. place'[w] \in Inside BY <1>2, <1>3, <1>4, <1>6, <2>1, <2>2 DEF Seated, Inside
  <2>8. Seated(c, j, place', got')
    <3>1. j.waiters \subseteq Askers(c) BY <1>3, <2>5 DEF Seated
    <3>2. ASSUME NEW v \in Callers, on[v] = c
          PROVE  /\ place'[v] \in {"query", "left"} \cup Inside
                 /\ place'[v] \in {"query", "parked"} => got'[v] = "nothing"
                 /\ v \in j.waiters <=> place'[v] \in Inside /\ got'[v] = "nothing"
      <4>1. CASE v = w BY <1>6, <2>2, <2>3, <2>5, <2>7, <4>1 DEF Inside
      <4>2. CASE v # w BY <1>2, <1>3, <2>2, <2>3, <2>5, <3>2, <4>2 DEF Seated, Inside
      <4> QED BY <4>1, <4>2
    <3> QED BY <3>1, <3>2 DEF Seated
  <2>9. ReadBy(c, j, place') BY <1>1, <1>2, <1>3, <2>2, <2>5 DEF ReadBy
  <2>10. Watched(c, j, place') BY <1>1, <1>3, <2>2, <2>5 DEF Watched
  <2>11. \A v \in Callers : on[v] # c => place'[v] = place[v] /\ got'[v] = got[v] BY <1>1, <2>1, <2>2, <2>3
  <2> QED BY <1>2, <1>3, <2>2, <2>3, <2>5, <2>6, <2>8, <2>9, <2>10, <2>11, InsideOK
<1>7. CASE conn' = [conn EXCEPT ![c] = k] /\ place' = [place EXCEPT ![q] = "read"] /\ got' = got
  <2>1. /\ place' \in [Callers -> PipePlaces] /\ got' \in [Callers -> {"nothing", "reply", "error", "timeout"}]
        /\ \A v \in Callers : place'[v] = (IF v = q THEN "read" ELSE place[v]) /\ got'[v] = got[v]
    BY <1>7, PipeTypes DEF PipePlaces, Inside
  <2>2. Seated(c, k, place', got') BY <1>2, <1>3, <1>4, <2>1 DEF Seated, Inside
  <2>3. ReadBy(c, k, place') BY <1>1, <1>2, <1>3, <1>4, <2>1 DEF ReadBy
  <2>4. Watched(c, k, place') BY <1>1, <1>3, <1>4, <2>1 DEF Watched
  <2> QED BY <1>1, <1>2, <1>3, <1>4, <1>7, <2>1, <2>2, <2>3, <2>4, InsideOK
<1> QED BY <1>5, <1>6, <1>7

-----------------------------------------------------------------------------
(* A query on a connection found dead is asked again: the caller keeps its  *)
(* reference to it until it has another.                                    *)
LEMMA RetryOK ==
  ASSUME PipeInv, NEW q \in Callers, place[q] = "left",
         place' = [place EXCEPT ![q] = "get"], got' = [got EXCEPT ![q] = "nothing"],
         old' = [old EXCEPT ![q] = on[q]], on' = [on EXCEPT ![q] = NoConn],
         UNCHANGED <<upstreamVars, conn>>
  PROVE  PipeInv'
<1> USE DEF upstreamVars
<1>1. PICK c \in Conns : c = on[q] BY PipeTypes DEF PipeInv, Sited
<1>2. old[q] = NoConn BY DEF PipeInv, Sited, Coming
<1>3. /\ place' \in [Callers -> PipePlaces] /\ got' \in [Callers -> {"nothing", "reply", "error", "timeout"}]
      /\ on' \in [Callers -> Conns \cup {NoConn}] /\ old' \in [Callers -> Conns \cup {NoConn}]
      /\ \A w \in Callers : /\ place'[w] = (IF w = q THEN "get" ELSE place[w])
                            /\ got'[w] = (IF w = q THEN "nothing" ELSE got[w])
                            /\ on'[w] = (IF w = q THEN NoConn ELSE on[w])
                            /\ old'[w] = (IF w = q THEN c ELSE old[w])
  BY <1>1, PipeTypes DEF PipePlaces, Coming
<1>4. PipeTypeOK' BY <1>3, PipeTypes DEF PipeTypeOK
<1>5. Sited' BY <1>3 DEF PipeInv, Sited, Inside, Coming
<1>6. RefsExact'
  <2>1. ASSUME NEW d \in Conns
        PROVE  conn'[d].refs = Cardinality(Askers(d)') + Cardinality(Keepers(d)') + (IF pipe' = d THEN 1 ELSE 0)
    <3>1. d # NoConn BY NoConnApart
    <3>2. Cardinality(Askers(d)') = Cardinality(Askers(d)) - (IF c = d THEN 1 ELSE 0)
      <4>1. Askers(d) \ {q} = Askers(d)' \ {q} /\ q \notin Askers(d)' /\ (q \in Askers(d) <=> c = d)
        BY <1>1, <1>3, <3>1 DEF Askers
      <4>2. Cardinality(Askers(d)') = Cardinality(Askers(d)) + (IF q \in Askers(d)' THEN 1 ELSE 0)
                                        - (IF q \in Askers(d) THEN 1 ELSE 0)
        BY <4>1, PipeCounts, CountMoves
      <4>3. Cardinality(Askers(d)) \in Nat BY PipeCounts
      <4> QED BY <4>1, <4>2, <4>3
    <3>3. Cardinality(Keepers(d)') = Cardinality(Keepers(d)) + (IF c = d THEN 1 ELSE 0)
      <4>1. Keepers(d) \ {q} = Keepers(d)' \ {q} /\ (q \in Keepers(d)' <=> c = d) /\ q \notin Keepers(d)
        BY <1>2, <1>3, <3>1 DEF Keepers
      <4>2. Cardinality(Keepers(d)') = Cardinality(Keepers(d)) + (IF q \in Keepers(d)' THEN 1 ELSE 0)
                                         - (IF q \in Keepers(d) THEN 1 ELSE 0)
        BY <4>1, PipeCounts, CountMoves
      <4>3. Cardinality(Keepers(d)) \in Nat BY PipeCounts
      <4> QED BY <4>1, <4>2, <4>3
    <3>4. conn[d].refs = Cardinality(Askers(d)) + Cardinality(Keepers(d)) + (IF pipe = d THEN 1 ELSE 0)
      BY DEF PipeInv, RefsExact
    <3>5. Cardinality(Askers(d)) \in Nat /\ Cardinality(Keepers(d)) \in Nat BY PipeCounts
    <3> QED BY <3>2, <3>3, <3>4, <3>5
  <2> QED BY <2>1 DEF RefsExact
<1>7. OneDials' /\ Unanswered' BY <1>3 DEF PipeInv, OneDials, Unanswered, Inside
<1>8. \A p \in Callers : place[p] \in Inside \/ place'[p] \in Inside =>
        place'[p] = place[p] /\ on'[p] = on[p] /\ got'[p] = got[p]
  BY <1>3 DEF Inside
<1>9. \A d \in Conns : conn'[d].waiters = conn[d].waiters /\ conn'[d].dead = conn[d].dead
                         /\ conn'[d].reading = conn[d].reading
  OBVIOUS
<1> QED BY <1>4, <1>5, <1>6, <1>7, <1>8, <1>9, OutsideOK

-----------------------------------------------------------------------------
(* Out of pipe_query: get_pipe, the dials and the return.                   *)

LEMMA GetPipeOK ==
  ASSUME PipeInv, NEW q \in Callers, GetPipe(q)
  PROVE  PipeInv'
<1>1. place[q] = "get" BY DEF GetPipe
<1>2. CASE Out(q, Unref(conn, old[q]), place) /\ UNCHANGED upstreamVars
  <2>1. PICK had \in Conns \cup {NoConn} : had = old[q] BY PipeTypes
  <2>2. Out(q, Unref(conn, had), place) BY <1>2, <2>1
  <2>3. pipe' = pipe /\ connecting' = connecting BY <1>2 DEF upstreamVars
  <2>4. PICK places : places = place OBVIOUS
  <2>5. Out(q, Unref(conn, had), places) BY <2>2, <2>4
  <2> QED BY <1>1, <2>1, <2>3, <2>4, <2>5, OutOK
<1>3. CASE /\ \E idle \in BOOLEAN : Shared(idle) /\ Got(q, Ref(conn, pipe), pipe, place)
           /\ UNCHANGED upstreamVars
  <2>1. PICK c \in Conns : c = pipe BY <1>3, PipeTypes DEF Shared
  <2>2. PICK n \in Nat : n = conn[c].refs + 1 BY PipeTypes
  <2>3. PICK f : f = [conn EXCEPT ![c].refs = n] OBVIOUS
  <2>4. PICK places : places = place OBVIOUS
  <2>5. Ref(conn, c) = f BY <2>1, <2>2, <2>3, PipeTypes DEF Ref
  <2>6. Got(q, f, c, places) BY <1>3, <2>1, <2>4, <2>5
  <2>7. pipe' = pipe /\ connecting' = connecting BY <1>3 DEF upstreamVars
  <2> QED BY <1>1, <2>2, <2>3, <2>4, <2>6, <2>7, GotOK
<1>4. CASE /\ place' = [place EXCEPT ![q] = "dialOwn"] \/ place' = [place EXCEPT ![q] = "queued"]
           /\ UNCHANGED <<upstreamVars, conn, callerVars, heard, got>>
  <2>1. PICK to \in {"get", "queued", "dialOwn"} : place' = [place EXCEPT ![q] = to] /\ to # "out" BY <1>4
  <2> QED BY <1>1, <1>4, <2>1, ComingOK
<1>5. CASE /\ ~connecting /\ connecting' = TRUE /\ pipe' = NoConn /\ conn' = Unref(conn, pipe)
           /\ place' = [place EXCEPT ![q] = "dial"]
           /\ UNCHANGED <<callerVars, heard, got>>
  BY <1>1, <1>5, DropPipeOK
<1> QED BY <1>2, <1>3, <1>4, <1>5 DEF GetPipe

LEMMA DialOK ==
  ASSUME PipeInv, NEW q \in Callers, Dial(q) \/ DialOwn(q)
  PROVE  PipeInv'
<1>1. CASE \E c \in Conns : /\ place[q] = "dial" /\ connecting' = FALSE /\ conn[c].refs = 0 /\ pipe' = c
                            /\ Got(q, [conn EXCEPT ![c].refs = 2], c, Broadcast)
  <2>1. PICK c \in Conns : /\ place[q] = "dial" /\ connecting' = FALSE /\ conn[c].refs = 0 /\ pipe' = c
                           /\ Got(q, [conn EXCEPT ![c].refs = 2], c, Broadcast)
    BY <1>1
  <2>2. pipe = NoConn BY <2>1 DEF PipeInv, OneDials
  <2>3. PICK n \in Nat : n = 2 OBVIOUS
  <2>4. PICK f : f = [conn EXCEPT ![c].refs = n] OBVIOUS
  <2>5. PICK places : places = Broadcast OBVIOUS
  <2>6. Got(q, f, c, places) BY <2>1, <2>3, <2>4, <2>5
  <2>7. n = conn[c].refs + 2 BY <2>1, <2>3
  <2> QED BY <2>1, <2>2, <2>4, <2>5, <2>6, <2>7, GotOK
<1>2. CASE \E c \in Conns : /\ place[q] = "dialOwn" /\ UNCHANGED upstreamVars /\ conn[c].refs = 0
                            /\ Got(q, [conn EXCEPT ![c].refs = 1], c, place)
  <2>1. PICK c \in Conns : /\ place[q] = "dialOwn" /\ UNCHANGED upstreamVars /\ conn[c].refs = 0
                           /\ Got(q, [conn EXCEPT ![c].refs = 1], c, place)
    BY <1>2
  <2>2. PICK n \in Nat : n = 1 OBVIOUS
  <2>3. PICK f : f = [conn EXCEPT ![c].refs = n] OBVIOUS
  <2>4. PICK places : places = place OBVIOUS
  <2>5. Got(q, f, c, places) BY <2>1, <2>2, <2>3, <2>4
  <2>6. n = conn[c].refs + 1 /\ pipe' = pipe /\ connecting' = connecting BY <2>1, <2>2 DEF upstreamVars
  <2> QED BY <2>1, <2>3, <2>4, <2>5, <2>6, GotOK
<1>3. CASE /\ \/ /\ place[q] = "dial" /\ connecting' = FALSE /\ UNCHANGED pipe
                 /\ Out(q, Unref(conn, old[q]), Broadcast)
              \/ /\ place[q] = "dialOwn" /\ UNCHANGED upstreamVars
                 /\ Out(q, Unref(conn, old[q]), place)
  <2>1. PICK had \in Conns \cup {NoConn} : had = old[q] BY PipeTypes
  <2>2. PICK places : (places = place \/ places = Broadcast) /\ Out(q, Unref(conn, had), places)
    BY <1>3, <2>1
  <2>3. place[q] \in {"dial", "dialOwn"} /\ pipe' = pipe
          /\ connecting' = IF place[q] = "dial" THEN FALSE ELSE connecting
    BY <1>3 DEF upstreamVars
  <2> QED BY <2>1, <2>2, <2>3, OutOK
<1> QED BY <1>1, <1>2, <1>3 DEF Dial, DialOwn

LEMMA ReturnOK ==
  ASSUME PipeInv, NEW q \in Callers, Return(q)
  PROVE  PipeInv'
<1>1. place[q] = "left" /\ UNCHANGED upstreamVars BY DEF Return
<1>2. CASE Out(q, Unref(conn, on[q]), place)
  <2>1. PICK had \in Conns \cup {NoConn} : had = on[q] BY PipeTypes
  <2>2. PICK places : places = place OBVIOUS
  <2>3. Out(q, Unref(conn, had), places) BY <1>2, <2>1, <2>2
  <2>4. pipe' = pipe /\ connecting' = connecting BY <1>1 DEF upstreamVars
  <2> QED BY <1>1, <2>1, <2>2, <2>3, <2>4, OutOK
<1>3. CASE /\ place' = [place EXCEPT ![q] = "get"]
           /\ old' = [old EXCEPT ![q] = on[q]] /\ on' = [on EXCEPT ![q] = NoConn]
           /\ got' = [got EXCEPT ![q] = "nothing"] /\ UNCHANGED <<conn, heard>>
  BY <1>1, <1>3, RetryOK
<1> QED BY <1>2, <1>3 DEF Return

LEMMA PipeStep == PipeInv /\ [PipeNext]_pipeVars => PipeInv'
<1> SUFFICES ASSUME PipeInv, [PipeNext]_pipeVars PROVE PipeInv'
  OBVIOUS
<1>1. CASE UNCHANGED pipeVars
  <2> USE <1>1 DEF pipeVars
  <2>1. PipeTypeOK' /\ Sited' /\ OneDials' /\ Unanswered'
    BY DEF PipeInv, PipeTypeOK, Sited, OneDials, Unanswered
  <2>2. \A c \in Conns : Askers(c)' = Askers(c) /\ Keepers(c)' = Keepers(c) BY DEF Askers, Keepers
  <2>3. RefsExact' BY <2>2 DEF PipeInv, RefsExact
  <2> QED BY <2>1, <2>3, OutsideOK
<1>2. CASE ClosePipe BY <1>2, DropPipeOK DEF ClosePipe
<1>3. ASSUME NEW q \in Callers, Asks(q) \/ Step(q) PROVE PipeInv'
  <2>1. CASE Asks(q) \/ QueuedTooLong(q)
    <3>1. PICK to \in {"get", "queued", "dialOwn"} : to = "get" OBVIOUS
    <3>2. /\ place[q] \in {"out", "get", "queued"} /\ place' = [place EXCEPT ![q] = to]
          /\ UNCHANGED <<upstreamVars, conn, callerVars, got>> /\ to # "out"
      BY <2>1, <3>1 DEF Asks, QueuedTooLong
    <3> QED BY <3>2, ComingOK
  <2>2. CASE WriteTurn(q) \/ ParkedTooLong(q)
    <3>1. PICK to \in {"writing", "wait", "unwritten", "woken"} :
            place' = [place EXCEPT ![q] = to] /\ (place[q] = "parked" => to = "woken")
      <4>1. CASE WriteTurn(q)
        <5>1. CASE conn[on[q]].dead BY <4>1, <5>1 DEF WriteTurn
        <5>2. CASE ~conn[on[q]].dead BY <4>1, <5>2 DEF WriteTurn
        <5> QED BY <5>1, <5>2
      <4>2. CASE ParkedTooLong(q) BY <4>2 DEF ParkedTooLong
      <4> QED BY <2>2, <4>1, <4>2
    <3>2. place[q] \in {"write", "writing", "parked"} /\ UNCHANGED <<upstreamVars, conn, callerVars, got>>
      BY <2>2 DEF WriteTurn, ParkedTooLong
    <3> QED BY <3>1, <3>2, MovesOK
  <2>3. CASE GetPipe(q) BY <2>3, GetPipeOK
  <2>4. CASE Dial(q) \/ DialOwn(q) BY <2>4, DialOK
  <2>5. CASE Register(q) BY <2>5, RegisterOK
  <2>6. CASE Write(q) BY <2>6, WriteOK
  <2>7. CASE Unwritten(q) BY <2>7, UnwrittenOK
  <2>8. CASE Wait(q) BY <2>8, WaitOK
  <2>9. CASE ReadOne(q) BY <2>9, ReadOneOK
  <2>10. CASE ReadEnds(q) BY <2>10, ReadEndsOK
  <2>11. CASE Return(q) BY <2>11, ReturnOK
  <2> QED BY <1>3, <2>1, <2>2, <2>3, <2>4, <2>5, <2>6, <2>7, <2>8, <2>9, <2>10, <2>11 DEF Step
<1> QED BY <1>1, <1>2, <1>3 DEF PipeNext

LEMMA PipeInvHolds == PipeSpec => []PipeInv
<1> QED BY PipeInitOK, PipeStep, PTL DEF PipeSpec

LEMMA OneOrNone ==
  ASSUME NEW S \in SUBSET Callers, NEW b \in BOOLEAN, b <=> S # {}, \A q, w \in S : q = w
  PROVE  Cardinality(S) = IF b THEN 1 ELSE 0
<1>1. CASE b
  <2>1. PICK q : S = {q} BY <1>1
  <2> QED BY <1>1, <2>1, FS_Singleton
<1>2. CASE ~b
  <2>1. S = {} BY <1>2
  <2> QED BY <1>2, <2>1, FS_EmptySet
<1> QED BY <1>1, <1>2

(* pipe_ref, pipe_unref, get_pipe, exchange_pipelined: for any number of    *)
(* callers and connections, a connection has exactly the references of the  *)
(* callers on it, of those that keep it while they dial again and of the    *)
(* upstream, every registered waiter is in the frame of a caller still      *)
(* inside pipe_query, and one caller at a time dials the shared connection. *)
THEOREM RefsHeldHolds == PipeSpec => []RefsHeld
<1>1. PipeInv => RefsHeld
  <2> SUFFICES ASSUME PipeInv PROVE RefsHeld
    OBVIOUS
  <2>1. ASSUME NEW c \in Conns
        PROVE  /\ conn[c].refs = Cardinality({q \in Callers : on[q] = c})
                                   + Cardinality({q \in Callers : old[q] = c})
                                   + (IF pipe = c THEN 1 ELSE 0)
               /\ conn[c].waiters \subseteq
                    On(c, {"write", "writing", "unwritten", "wait", "parked", "woken", "reading", "read"})
    <3>1. conn[c].refs = Cardinality(Askers(c)) + Cardinality(Keepers(c)) + (IF pipe = c THEN 1 ELSE 0)
      BY DEF PipeInv, RefsExact
    <3>2. conn[c].waiters \subseteq On(c, Inside) BY DEF PipeInv, Registered
    <3> QED BY <3>1, <3>2 DEF Askers, Keepers, Inside
  <2>2. Cardinality({q \in Callers : place[q] = "dial"}) = IF connecting THEN 1 ELSE 0
    <3>1. PICK S : S = {q \in Callers : place[q] = "dial"} OBVIOUS
    <3>2. S \in SUBSET Callers /\ (connecting <=> S # {}) /\ \A q, w \in S : q = w
      BY <3>1 DEF PipeInv, OneDials
    <3>3. connecting \in BOOLEAN BY PipeTypes
    <3> QED BY <3>1, <3>2, <3>3, OneOrNone
  <2>3. connecting => pipe = NoConn BY DEF PipeInv, OneDials
  <2> QED BY <2>1, <2>2, <2>3 DEF RefsHeld
<1> QED BY <1>1, PipeInvHolds, PTL

(* pipe_wait, pipe_hand_on, pipe_kill: for any number of callers and        *)
(* connections, while a caller is parked its connection is alive and        *)
(* somebody reads from it or is awake to; and never do two read.            *)
THEOREM NobodyStrandedHolds == PipeSpec => []NobodyStranded
<1>1. PipeInv => NobodyStranded
  <2> SUFFICES ASSUME PipeInv, NEW c \in Conns
               PROVE  /\ On(c, {"parked"}) # {} =>
                           ~conn[c].dead /\ On(c, {"wait", "woken", "reading", "read"}) # {}
                      /\ Cardinality(On(c, {"reading", "read"})) = IF conn[c].reading THEN 1 ELSE 0
    BY DEF NobodyStranded
  <2>1. On(c, {"parked"}) # {} => ~conn[c].dead /\ On(c, {"wait", "woken", "reading", "read"}) # {}
    BY DEF PipeInv, SomeoneAwake
  <2>2. PICK S : S = On(c, {"reading", "read"}) OBVIOUS
  <2>3. S \in SUBSET Callers BY <2>2 DEF On
  <2>4. (conn[c].reading <=> S # {}) /\ \A q, w \in S : q = w BY <2>2 DEF PipeInv, OneReads
  <2>5. conn[c].reading \in BOOLEAN BY PipeTypes DEF Connections
  <2> QED BY <2>1, <2>2, <2>3, <2>4, <2>5, OneOrNone
<1> QED BY <1>1, PipeInvHolds, PTL

-----------------------------------------------------------------------------
(* Group                                                                    *)

(* While a call waits, what is left of its budget is within what is left of *)
(* the question's deadline, and within two timeouts of the call's start.    *)
Timed ==
  /\ Calling => budget - spent <= left /\ elapsed + budget - spent <= 2 * Timeout
  /\ phase \in {"sequential", "racing"} => elapsed = spent /\ spent < budget
  /\ WaitBounded

(* What is in hand is the best of what was heard, and the sweep goes on     *)
(* only while that is not good enough.                                      *)
Heard ==
  /\ phase \notin {"sweep", "answered"} => seen = {}
  /\ phase \in {"sweep", "answered"} =>
       /\ reply.kind \in seen /\ reply.winner \in Members
       /\ "proof" \in seen => reply.kind = "proof" \/ ~holds
       /\ reply.kind = "useless" => seen = {"useless"}
  /\ phase = "sweep" => ~Good(reply.kind)

(* The pass after the first, which takes the members not asked yet, has     *)
(* asked every member it is past; a second turn comes after it.             *)
Scanned ==
  /\ phase = "racing" => strategy = "race" /\ pos = 0 /\ again = {}
  /\ phase \in {"sequential", "failed"} =>
       /\ \A p \in Servers .. 2 * Servers - 1 : p < pos => asked[(start + p) % Servers] # 0
       /\ again # {} => pos >= 2 * Servers
  /\ phase = "failed" /\ strategy # "race" /\ spent < budget => ScanOver
  /\ phase = "sweep" => pos <= Servers

GroupInv == TypeOK /\ Timed /\ Heard /\ Scanned

Last == Servers + 2 * Servers * (Attempts - 1)

LEMMA Sane ==
  /\ Servers \in Nat \ {0} /\ Timeout \in Nat \ {0} /\ Attempts \in Nat \ {0} /\ Span \in Nat \ {0}
  /\ QueryBudget = 2 * Timeout
  /\ Longest \in Nat /\ Timeout <= Longest
  /\ Last \in Nat /\ Last >= Servers /\ (Attempts > 1 => Last >= 2 * Servers)
<1>1. Servers \in Nat \ {0} /\ Timeout \in Nat \ {0} /\ Attempts \in Nat \ {0} /\ Span \in Nat \ {0}
  BY GroupIsSane
<1>2. QueryBudget = 2 * Timeout /\ Longest \in Nat /\ Timeout <= Longest
  BY <1>1, GraceIsTime DEF QueryBudget, Longest
<1>3. 2 * Servers * (Attempts - 1) \in Nat
  <2>1. 2 * Servers \in Nat /\ Attempts - 1 \in Nat BY <1>1
  <2> QED BY <2>1
<1>4. Attempts > 1 => 2 * Servers * (Attempts - 1) >= Servers
  <2>1. ASSUME Attempts > 1 PROVE 2 * Servers * (Attempts - 1) >= Servers
    <3>1. PICK r \in Nat : r = Attempts - 2 BY <1>1, <2>1
    <3>2. 2 * Servers * (Attempts - 1) = 2 * Servers * r + 2 * Servers BY <1>1, <3>1
    <3>3. 2 * Servers * r \in Nat BY <1>1
    <3> QED BY <1>1, <3>2, <3>3
  <2> QED BY <2>1
<1> QED BY <1>1, <1>2, <1>3, <1>4 DEF Last

LEMMA LesserOf ==
  ASSUME NEW a \in Int, NEW b \in Int
  PROVE  Min({a, b}) \in Int /\ Min({a, b}) <= a /\ Min({a, b}) <= b /\ Min({a, b}) \in {a, b}
<1>1. \E x \in {a, b} : \A y \in {a, b} : x =< y
  <2>1. CASE a <= b BY <2>1
  <2>2. CASE b <= a BY <2>2
  <2> QED BY <2>1, <2>2
<1> QED BY <1>1 DEF Min

-----------------------------------------------------------------------------
(* Dividing by the number of members.                                       *)

LEMMA Remainder ==
  ASSUME NEW a \in Nat, NEW b \in Nat \ {0}
  PROVE  a % b \in 0 .. b - 1
OBVIOUS

LEMMA Quotient ==
  ASSUME NEW a \in Nat, NEW b \in Nat \ {0}
  PROVE  a \div b \in Nat
OBVIOUS

LEMMA DivisionOfLess ==
  ASSUME NEW a \in Nat, NEW b \in Nat \ {0}, a < b
  PROVE  a % b = a /\ a \div b = 0
OBVIOUS

LEMMA QuotientBelow ==
  ASSUME NEW a \in Nat, NEW b \in Nat \ {0}, NEW c \in Nat, a < b * c
  PROVE  a \div b < c
OBVIOUS

LEMMA RemainderOfSum ==
  ASSUME NEW a \in Nat, NEW b \in Nat \ {0}, a < b
  PROVE  (b + a) % b = a /\ (b + b + a) % b = a
OBVIOUS

(* The scan's candidate is a member, its round is one of the rounds, and    *)
(* the first pass over what was not asked is the second over the members.   *)
LEMMA ScanFacts ==
  ASSUME pos \in 0 .. Last, start \in Members
  PROVE  /\ Candidate \in Members
         /\ pos < 2 * Servers => Pass = 0
         /\ pos # Last => Round \in 1 .. Attempts
<1> USE Sane
<1>1. pos \in Nat /\ start \in Nat BY DEF Members
<1>2. Candidate \in Members
  <2>1. start + pos \in Nat BY <1>1
  <2> QED BY <2>1, Remainder DEF Candidate, Members
<1>3. ASSUME pos < 2 * Servers PROVE Pass = 0
  <2>1. CASE pos < Servers BY <2>1 DEF Pass
  <2>2. CASE ~(pos < Servers)
    <3>1. PICK a \in Nat : a = pos - Servers BY <1>1, <2>2
    <3>2. PICK b \in Nat \ {0} : b = 2 * Servers OBVIOUS
    <3>3. a < b /\ a < Servers BY <1>1, <1>3, <3>1, <3>2
    <3>4. a % b = a BY <3>3, DivisionOfLess
    <3>5. a \div Servers = 0 BY <3>3, DivisionOfLess
    <3>6. Pass = (a % b) \div Servers BY <2>2, <3>1, <3>2 DEF Pass
    <3> QED BY <3>4, <3>5, <3>6
  <2> QED BY <2>1, <2>2
<1>4. ASSUME pos # Last PROVE Round \in 1 .. Attempts
  <2>1. CASE pos < Servers BY <2>1 DEF Round
  <2>2. CASE ~(pos < Servers)
    <3>1. PICK a \in Nat : a = pos - Servers BY <1>1, <2>2
    <3>2. PICK b \in Nat \ {0} : b = 2 * Servers OBVIOUS
    <3>3. PICK c \in Nat : c = Attempts - 1 OBVIOUS
    <3>4. Last = Servers + b * c BY <3>2, <3>3 DEF Last
    <3>5. b * c \in Nat BY <3>2, <3>3
    <3>6. a < b * c BY <1>1, <1>4, <3>1, <3>4, <3>5
    <3>7. a \div b < c BY <3>6, QuotientBelow
    <3>8. PICK n \in Nat : n = a \div b BY Quotient
    <3>9. Round = 2 + n BY <2>2, <3>1, <3>2, <3>8 DEF Round
    <3> QED BY <3>3, <3>7, <3>8, <3>9
  <2> QED BY <2>1, <2>2
<1> QED BY <1>2, <1>3, <1>4

(* One pass meets every member.                                             *)
LEMMA PassMeets ==
  ASSUME NEW m \in Members, NEW s \in Members
  PROVE  \E p \in Servers .. 2 * Servers - 1 : (s + p) % Servers = m
<1> USE Sane
<1>1. m \in Nat /\ s \in Nat /\ m < Servers /\ s < Servers BY DEF Members
<1>2. (Servers + m) % Servers = m /\ (Servers + Servers + m) % Servers = m BY <1>1, RemainderOfSum
<1>3. CASE m >= s
  <2>1. PICK p \in Servers .. 2 * Servers - 1 : s + p = Servers + m
    <3>1. Servers + m - s \in Servers .. 2 * Servers - 1 /\ s + (Servers + m - s) = Servers + m BY <1>1, <1>3
    <3> QED BY <3>1
  <2> QED BY <1>2, <2>1
<1>4. CASE m < s
  <2>1. PICK p \in Servers .. 2 * Servers - 1 : s + p = Servers + Servers + m
    <3>1. /\ Servers + Servers + m - s \in Servers .. 2 * Servers - 1
          /\ s + (Servers + Servers + m - s) = Servers + Servers + m
      BY <1>1, <1>4
    <3> QED BY <3>1
  <2> QED BY <1>2, <2>1
<1> QED BY <1>1, <1>3, <1>4

-----------------------------------------------------------------------------
(* Each part of the invariant, action by action.                            *)

Replies == [kind : Kinds \cup {"none"}, winner : Members \cup {None}, first : Members \cup {None}]

LEMMA GroupTypes ==
  ASSUME TypeOK
  PROVE  /\ health \in [Members -> Conditions]
         /\ strategy \in Strategies /\ holds \in BOOLEAN
         /\ left \in Int /\ budget \in Int /\ elapsed \in Nat /\ spent \in Nat
         /\ phase \in {"idle", "sequential", "racing", "sweep", "answered", "failed"}
         /\ start \in Members /\ pos \in 0 .. Last
         /\ asked \in [Members -> 0 .. Attempts]
         /\ reply \in Replies
         /\ again \in SUBSET Members /\ seen \in SUBSET Kinds
  BY DEF TypeOK, Last, Replies

LEMMA NoReplyTyped == NoReply \in Replies
  BY DEF NoReply, Replies

(* What an exchange of the call does to the clock and to the member.        *)
LEMMA Exchanged ==
  ASSUME TypeOK, NEW m \in Members, NEW d \in 0 .. Longest,
         \/ Failure(m, d)
         \/ \E kind \in KindsMet : Answer(m, kind, d)
  PROVE  /\ health' \in [Members -> Conditions]
         /\ left' = left - d /\ left' \in Int /\ elapsed' = elapsed + d /\ elapsed' \in Nat
         /\ seen' \in SUBSET Kinds
<1>1. d \in Nat BY Sane
<1>2. health[m] \in Conditions /\ AfterFailure(health[m]) \subseteq Conditions
  BY GroupTypes DEF AfterFailure, Conditions
<1>3. health' \in [Members -> Conditions]
  BY <1>2, GroupTypes DEF Failure, Answer, Conditions
<1>4. left' = left - d /\ elapsed' = elapsed + d BY DEF Failure, Answer, Spends
<1>5. seen' \in SUBSET Kinds BY GroupTypes DEF Failure, Answer, KindsMet, Kinds
<1> QED BY <1>1, <1>3, <1>4, <1>5, GroupTypes

LEMMA FirstReplied ==
  ASSUME TypeOK, NEW m \in Members, NEW d \in 0 .. Longest, NEW kind \in KindsMet, FirstReply(m, kind, d)
  PROVE  /\ reply' \in Replies /\ reply'.kind = kind /\ reply'.winner = m
         /\ \/ Good(kind) /\ phase' = "answered" /\ UNCHANGED <<budget, spent, pos>>
            \/ /\ ~Good(kind) /\ phase' = "sweep" /\ spent' = 0 /\ pos' = 0
               /\ budget' = SweepBudget(elapsed + d)
         /\ SweepBudget(elapsed + d) \in Int /\ SweepBudget(elapsed + d) <= budget - (elapsed + d)
         /\ SweepBudget(elapsed + d) <= Timeout
<1>1. kind \in Kinds BY DEF KindsMet, Kinds
<1>2. reply' \in Replies /\ reply'.kind = kind /\ reply'.winner = m BY <1>1 DEF FirstReply, Replies
<1>3. \/ Good(kind) /\ phase' = "answered" /\ UNCHANGED <<budget, spent, pos>>
      \/ /\ ~Good(kind) /\ phase' = "sweep" /\ spent' = 0 /\ pos' = 0
         /\ budget' = SweepBudget(elapsed + d)
  BY DEF FirstReply
<1>4. Timeout \in Int /\ budget - (elapsed + d) \in Int BY Sane, GroupTypes
<1>5. SweepBudget(elapsed + d) \in Int /\ SweepBudget(elapsed + d) <= budget - (elapsed + d)
        /\ SweepBudget(elapsed + d) <= Timeout
  BY <1>4, LesserOf DEF SweepBudget
<1> QED BY <1>2, <1>3, <1>5

LEMMA RacedMembers == Raced \subseteq Members /\ 0 .. RaceWait \subseteq 0 .. Longest
<1>1. RaceWait \in {Timeout, Longest} BY DEF RaceWait
<1> QED BY <1>1, Sane DEF Raced

(* Where the sweep is, there is a member.                                   *)
LEMMA SweepAt ==
  ASSUME TypeOK, Scanned, phase = "sweep", ~SweepOver
  PROVE  pos \in Members /\ pos + 1 <= Servers /\ spent < budget
<1>1. pos \in Nat /\ Servers \in Nat /\ pos <= Servers BY Sane, GroupTypes DEF Scanned
<1>2. pos # Servers /\ ~(spent >= budget) BY DEF SweepOver
<1> QED BY <1>1, <1>2, GroupTypes DEF Members

LEMMA GroupTypeStep == GroupInv /\ Next => TypeOK'
<1> SUFFICES ASSUME GroupInv, Next PROVE TypeOK'
  OBVIOUS
<1>1. TypeOK /\ Scanned BY DEF GroupInv
<1> DEFINE Types == /\ health \in [Members -> Conditions]
                    /\ strategy \in Strategies /\ holds \in BOOLEAN
                    /\ left \in Int /\ budget \in Int /\ elapsed \in Nat /\ spent \in Nat
                    /\ phase \in {"idle", "sequential", "racing", "sweep", "answered", "failed"}
                    /\ start \in Members /\ pos \in 0 .. Last
                    /\ asked \in [Members -> 0 .. Attempts]
                    /\ reply \in Replies
                    /\ again \in SUBSET Members /\ seen \in SUBSET Kinds
<1>2. Types BY <1>1, GroupTypes
<1>3. Types' => TypeOK' BY DEF TypeOK, Last, Replies
<1>4. ASSUME NoCall
      PROVE  /\ elapsed' \in Nat /\ spent' \in Nat /\ pos' \in 0 .. Last
             /\ asked' \in [Members -> 0 .. Attempts] /\ reply' \in Replies
             /\ again' \in SUBSET Members /\ seen' \in SUBSET Kinds
  BY <1>4, Sane, NoReplyTyped DEF NoCall
<1>5. CASE Begin
  <2>1. left' \in Int /\ budget' \in Int
    <3>1. left' \in Int BY <1>2, <1>5 DEF Begin
    <3>2. budget' = Budget(left') BY <1>5 DEF Begin
    <3>3. PICK r \in Int : r = left' BY <3>1
    <3>4. 2 * Timeout \in Int BY Sane
    <3> QED BY <3>1, <3>2, <3>3, <3>4, Sane, LesserOf DEF Budget
  <2>2. start' \in Members BY <1>5, Sane DEF Begin, Members
  <2>3. phase' \in {"idle", "sequential", "racing", "sweep", "answered", "failed"}
          /\ UNCHANGED <<health, strategy, holds>>
    BY <1>5 DEF Begin
  <2>4. NoCall BY <1>5 DEF Begin
  <2> QED BY <1>2, <1>3, <1>4, <2>1, <2>2, <2>3, <2>4
<1>6. CASE NextQuestion
  <2>1. left' \in Int /\ budget' \in Int /\ start' \in Members /\ holds' \in BOOLEAN
          /\ phase' \in {"idle", "sequential", "racing", "sweep", "answered", "failed"}
          /\ UNCHANGED <<health, strategy>>
    BY <1>6, Sane DEF NextQuestion, Members
  <2>2. NoCall BY <1>6 DEF NextQuestion
  <2> QED BY <1>2, <1>3, <1>4, <2>1, <2>2
<1>7. CASE Skip
  <2>1. pos' \in 0 .. Last
    <3>1. pos' = pos + 1 /\ pos # Last BY <1>7 DEF Skip, ScanOver, Last
    <3> QED BY <1>2, <3>1, Sane
  <2> QED BY <1>2, <1>3, <1>7, <2>1 DEF Skip
<1>8. CASE Ask
  <2>1. pos # Last BY <1>8 DEF Ask, ScanOver, Last
  <2>2. Candidate \in Members /\ Round \in 1 .. Attempts BY <1>2, <2>1, ScanFacts
  <2>3. PICK m \in Members, r \in 1 .. Attempts : m = Candidate /\ r = Round BY <2>2
  <2>4. asked' \in [Members -> 0 .. Attempts] /\ again' \in SUBSET Members
    <3>1. asked' = [asked EXCEPT ![m] = r] BY <1>8, <2>3 DEF Ask
    <3>2. r \in 0 .. Attempts BY <2>3, Sane
    <3>3. again' = again \/ again' = again \cup {m} BY <1>8, <2>3 DEF Ask
    <3> QED BY <1>2, <3>1, <3>2, <3>3
  <2>5. UNCHANGED <<strategy, holds, start>> BY <1>8 DEF Ask
  <2>6. PICK d \in 0 .. Longest :
          \/ \E kind \in KindsMet : Answer(m, kind, d) /\ FirstReply(m, kind, d)
          \/ /\ Failure(m, d)
             /\ spent' = spent + d /\ pos' = pos + 1
             /\ phase' = IF spent' >= budget THEN "failed" ELSE "sequential"
             /\ UNCHANGED <<budget, reply>>
    BY <1>8, <2>3 DEF Ask
  <2>7. health' \in [Members -> Conditions] /\ left' \in Int /\ elapsed' \in Nat /\ seen' \in SUBSET Kinds
    BY <1>1, <2>6, Exchanged
  <2>8. CASE \E kind \in KindsMet : FirstReply(m, kind, d)
    <3>1. PICK kind \in KindsMet : FirstReply(m, kind, d) BY <2>8
    <3>2. /\ reply' \in Replies
          /\ \/ phase' = "answered" /\ UNCHANGED <<budget, spent, pos>>
             \/ /\ phase' = "sweep" /\ spent' = 0 /\ pos' = 0
                /\ budget' = SweepBudget(elapsed + d)
          /\ SweepBudget(elapsed + d) \in Int
      BY <1>1, <3>1, FirstReplied
    <3> QED BY <1>2, <1>3, <2>4, <2>5, <2>7, <3>2, Sane
  <2>9. CASE /\ spent' = spent + d /\ pos' = pos + 1
             /\ phase' = IF spent' >= budget THEN "failed" ELSE "sequential"
             /\ UNCHANGED <<budget, reply>>
    <3>1. spent' \in Nat /\ pos' \in 0 .. Last BY <1>2, <2>1, <2>9, Sane
    <3>2. phase' \in {"idle", "sequential", "racing", "sweep", "answered", "failed"} BY <2>9
    <3> QED BY <1>2, <1>3, <2>4, <2>5, <2>7, <2>9, <3>1, <3>2
  <2> QED BY <2>6, <2>8, <2>9
<1>9. CASE AllAsked \/ RaceRefused \/ SweepEnds
  BY <1>2, <1>3, <1>9 DEF AllAsked, RaceRefused, SweepEnds
<1>10. CASE RaceWon
  <2>1. PICK m \in Members, kind \in KindsMet, d \in 0 .. Longest : Answer(m, kind, d) /\ FirstReply(m, kind, d)
    BY <1>10, RacedMembers DEF RaceWon
  <2>2. health' \in [Members -> Conditions] /\ left' \in Int /\ elapsed' \in Nat /\ seen' \in SUBSET Kinds
    BY <1>1, <2>1, Exchanged
  <2>3. /\ reply' \in Replies
        /\ \/ phase' = "answered" /\ UNCHANGED <<budget, spent, pos>>
           \/ /\ phase' = "sweep" /\ spent' = 0 /\ pos' = 0
              /\ budget' = SweepBudget(elapsed + d)
        /\ SweepBudget(elapsed + d) \in Int
    BY <1>1, <2>1, FirstReplied
  <2>4. UNCHANGED <<strategy, holds, start, asked, again>> BY <1>10 DEF RaceWon
  <2> QED BY <1>2, <1>3, <2>2, <2>3, <2>4, Sane
<1>11. CASE RaceLost
  <2>1. left' \in Int /\ elapsed' \in Nat BY <1>2, <1>11, Sane DEF RaceLost, Spends
  <2> QED BY <1>2, <1>3, <1>11, <2>1 DEF RaceLost
<1>12. CASE SweepSkips
  <2>1. pos' \in 0 .. Last BY <1>1, <1>2, <1>12, SweepAt, Sane DEF SweepSkips
  <2> QED BY <1>2, <1>3, <1>12, <2>1 DEF SweepSkips
<1>13. CASE SweepAsks
  <2>1. PICK m \in Members : m = pos /\ m + 1 <= Servers BY <1>1, <1>13, SweepAt DEF SweepAsks
  <2>2. PICK d \in 0 .. Longest :
          /\ spent' = spent + d
          /\ \/ \E kind \in KindsMet :
                  /\ Answer(m, kind, d)
                  /\ reply' = Swept(m, kind)
                  /\ phase' = IF Good(kind) THEN "answered" ELSE "sweep"
             \/ Failure(m, d) /\ UNCHANGED <<reply, phase>>
    BY <1>13, <2>1 DEF SweepAsks
  <2>3. health' \in [Members -> Conditions] /\ left' \in Int /\ elapsed' \in Nat /\ seen' \in SUBSET Kinds
    BY <1>1, <2>2, Exchanged
  <2>4. spent' \in Nat /\ pos' \in 0 .. Last
    <3>1. pos' = pos + 1 BY <1>13 DEF SweepAsks
    <3> QED BY <1>2, <2>1, <2>2, <3>1, Sane
  <2>5. reply' \in Replies /\ phase' \in {"idle", "sequential", "racing", "sweep", "answered", "failed"}
    <3>1. CASE UNCHANGED <<reply, phase>> BY <1>2, <3>1
    <3>2. CASE \E kind \in KindsMet : reply' = Swept(m, kind) /\ phase' = IF Good(kind) THEN "answered" ELSE "sweep"
      <4>1. PICK kind \in KindsMet : reply' = Swept(m, kind) /\ phase' = IF Good(kind) THEN "answered" ELSE "sweep"
        BY <3>2
      <4>2. kind \in Kinds BY DEF KindsMet, Kinds
      <4>3. reply' = reply \/ reply' = [reply EXCEPT !.kind = kind, !.winner = m] BY <4>1 DEF Swept
      <4> QED BY <1>2, <4>1, <4>2, <4>3 DEF Replies
    <3> QED BY <2>2, <3>1, <3>2
  <2>6. UNCHANGED <<strategy, holds, budget, start, asked, again>> BY <1>13 DEF SweepAsks
  <2> QED BY <1>2, <1>3, <2>3, <2>4, <2>5, <2>6
<1>14. ASSUME NEW m \in Members, OtherFails(m) \/ OtherSucceeds(m) \/ CooldownOver(m)
       PROVE  TypeOK'
  <2>1. health[m] \in Conditions /\ AfterFailure(health[m]) \subseteq Conditions
    BY <1>2 DEF AfterFailure, Conditions
  <2>2. health' \in [Members -> Conditions]
    BY <1>2, <1>14, <2>1 DEF OtherFails, OtherSucceeds, CooldownOver, Conditions
  <2>3. UNCHANGED <<strategy, holds, left, call>> BY <1>14 DEF OtherFails, OtherSucceeds, CooldownOver
  <2> QED BY <1>2, <1>3, <2>2, <2>3 DEF call
<1> QED BY <1>5, <1>6, <1>7, <1>8, <1>9, <1>10, <1>11, <1>12, <1>13, <1>14 DEF Next, Question

(* The clock: an exchange is begun only with budget left, and then takes    *)
(* its timeout and one overrun at most.                                     *)
LEMMA TimedStep == GroupInv /\ Next => Timed'
<1> SUFFICES ASSUME GroupInv, Next PROVE Timed'
  OBVIOUS
<1>1. TypeOK /\ Scanned BY DEF GroupInv
<1>2. /\ left \in Int /\ budget \in Int /\ elapsed \in Nat /\ spent \in Nat /\ Timeout \in Nat \ {0} /\ Span \in Nat \ {0}
      /\ Longest \in Nat /\ Timeout <= Longest
      /\ phase \in {"idle", "sequential", "racing", "sweep", "answered", "failed"}
  BY <1>1, Sane, GroupTypes
<1>3. /\ phase \in {"sequential", "racing", "sweep"} =>
           budget - spent <= left /\ elapsed + budget - spent <= 2 * Timeout
      /\ phase \in {"sequential", "racing"} => elapsed = spent /\ spent < budget
      /\ left >= -Longest /\ elapsed <= 2 * Timeout + Longest
  BY DEF GroupInv, Timed, Calling, WaitBounded, QueryBudget
<1>4. \/ /\ phase' \in {"sequential", "racing", "sweep"} =>
              budget' - spent' <= left' /\ elapsed' + budget' - spent' <= 2 * Timeout
         /\ phase' \in {"sequential", "racing"} => elapsed' = spent' /\ spent' < budget'
         /\ left' >= -Longest /\ elapsed' <= 2 * Timeout + Longest
      => Timed'
  BY DEF Timed, Calling, WaitBounded, QueryBudget
<1>5. CASE Begin
  <2>1. PICK r \in Int : r = left' /\ r >= 1 BY <1>2, <1>5 DEF Begin
  <2>2. 2 * Timeout \in Int BY <1>2
  <2>3. Budget(r) \in Int /\ Budget(r) <= 2 * Timeout /\ Budget(r) <= r /\ Budget(r) \in {2 * Timeout, r}
    BY <2>1, <2>2, LesserOf, Sane DEF Budget
  <2>4. budget' = Budget(r) /\ elapsed' = 0 /\ spent' = 0 BY <1>5, <2>1 DEF Begin, NoCall
  <2> QED BY <1>2, <1>4, <2>1, <2>3, <2>4
<1>6. CASE NextQuestion
  <2>1. left' = Span /\ elapsed' = 0 /\ phase' = "idle" BY <1>6 DEF NextQuestion, NoCall
  <2> QED BY <1>2, <1>4, <2>1
<1>7. CASE Skip \/ SweepSkips BY <1>2, <1>3, <1>4, <1>7 DEF Skip, SweepSkips
<1>8. ASSUME NEW m \in Members, NEW kind \in KindsMet, NEW d \in 0 .. Longest,
             Answer(m, kind, d), FirstReply(m, kind, d), phase \in {"sequential", "racing"}
      PROVE  Timed'
  <2>1. d \in Nat /\ d <= Longest BY <1>2
  <2>2. left' = left - d /\ elapsed' = elapsed + d BY <1>8 DEF Answer, Spends
  <2>3. /\ \/ phase' = "answered"
           \/ phase' = "sweep" /\ spent' = 0 /\ budget' = SweepBudget(elapsed + d)
        /\ SweepBudget(elapsed + d) \in Int /\ SweepBudget(elapsed + d) <= budget - (elapsed + d)
    BY <1>1, <1>8, FirstReplied
  <2>4. left' >= -Longest /\ elapsed' <= 2 * Timeout + Longest BY <1>2, <1>3, <1>8, <2>1, <2>2
  <2>5. phase' = "sweep" => budget' - spent' <= left' /\ elapsed' + budget' - spent' <= 2 * Timeout
    BY <1>2, <1>3, <1>8, <2>1, <2>2, <2>3
  <2> QED BY <1>4, <2>3, <2>4, <2>5
<1>9. CASE Ask
  <2>1. Candidate \in Members BY <1>1, GroupTypes, ScanFacts
  <2>2. PICK m \in Members : m = Candidate BY <2>1
  <2>3. PICK d \in 0 .. Longest :
          \/ \E kind \in KindsMet : Answer(m, kind, d) /\ FirstReply(m, kind, d)
          \/ /\ Failure(m, d) /\ spent' = spent + d
             /\ phase' = IF spent' >= budget THEN "failed" ELSE "sequential"
             /\ UNCHANGED budget
    BY <1>9, <2>2 DEF Ask
  <2>4. phase = "sequential" BY <1>9 DEF Ask
  <2>5. CASE /\ Failure(m, d) /\ spent' = spent + d
             /\ phase' = IF spent' >= budget THEN "failed" ELSE "sequential"
             /\ UNCHANGED budget
    <3>1. d \in Nat /\ d <= Longest BY <1>2
    <3>2. left' = left - d /\ elapsed' = elapsed + d BY <2>5 DEF Failure, Spends
    <3>3. left' >= -Longest /\ elapsed' <= 2 * Timeout + Longest BY <1>2, <1>3, <2>4, <3>1, <3>2
    <3>4. budget' - spent' <= left' /\ elapsed' + budget' - spent' <= 2 * Timeout /\ elapsed' = spent'
      BY <1>2, <1>3, <2>4, <2>5, <3>1, <3>2
    <3>5. phase' = "failed" \/ (phase' = "sequential" /\ spent' < budget')
      <4>1. spent' \in Nat /\ budget' \in Int /\ budget' = budget BY <1>2, <2>5, <3>1
      <4>2. CASE spent' >= budget BY <2>5, <4>2
      <4>3. CASE ~(spent' >= budget) BY <2>5, <4>1, <4>3
      <4> QED BY <4>2, <4>3
    <3> QED BY <1>4, <3>3, <3>4, <3>5
  <2> QED BY <1>8, <2>3, <2>4, <2>5
<1>10. CASE RaceWon
  <2>1. PICK m \in Members, kind \in KindsMet, d \in 0 .. Longest : Answer(m, kind, d) /\ FirstReply(m, kind, d)
    BY <1>10, RacedMembers DEF RaceWon
  <2> QED BY <1>8, <1>10, <2>1 DEF RaceWon
<1>11. CASE RaceLost
  <2>1. PICK d \in Nat : d <= Longest /\ left' = left - d /\ elapsed' = elapsed + d
    BY <1>2, <1>11, RacedMembers DEF RaceLost, Spends
  <2>2. phase = "racing" /\ phase' = "failed" BY <1>11 DEF RaceLost
  <2> QED BY <1>2, <1>3, <1>4, <2>1, <2>2
<1>12. CASE AllAsked \/ RaceRefused \/ SweepEnds
  BY <1>2, <1>3, <1>4, <1>12 DEF AllAsked, RaceRefused, SweepEnds
<1>13. CASE SweepAsks
  <2>1. PICK d \in Nat : d <= Longest /\ left' = left - d /\ elapsed' = elapsed + d /\ spent' = spent + d
    BY <1>2, <1>13 DEF SweepAsks, Answer, Failure, Spends
  <2>2. phase = "sweep" /\ budget' = budget /\ spent < budget BY <1>1, <1>13, SweepAt DEF SweepAsks
  <2>3. phase' \in {"answered", "sweep"} BY <1>13, <2>2 DEF SweepAsks
  <2>4. left' >= -Longest /\ elapsed' <= 2 * Timeout + Longest BY <1>2, <1>3, <2>1, <2>2
  <2>5. budget' - spent' <= left' /\ elapsed' + budget' - spent' <= 2 * Timeout BY <1>2, <1>3, <2>1, <2>2
  <2> QED BY <1>4, <2>3, <2>4, <2>5
<1>14. ASSUME NEW m \in Members, OtherFails(m) \/ OtherSucceeds(m) \/ CooldownOver(m)
       PROVE  Timed'
  <2>1. UNCHANGED <<left, call>> BY <1>14 DEF OtherFails, OtherSucceeds, CooldownOver
  <2> QED BY <1>2, <1>3, <1>4, <2>1 DEF call
<1> QED BY <1>5, <1>6, <1>7, <1>9, <1>10, <1>11, <1>12, <1>13, <1>14 DEF Next, Question

(* The reply in hand.                                                       *)
LEMMA HeardStep == GroupInv /\ Next => Heard'
<1> SUFFICES ASSUME GroupInv, Next PROVE Heard'
  OBVIOUS
<1>1. TypeOK /\ Scanned /\ Heard BY DEF GroupInv
<1>2. CASE Begin
  <2>1. phase' \in {"racing", "sequential"} /\ seen' = {} BY <1>2 DEF Begin, NoCall
  <2> QED BY <2>1 DEF Heard
<1>3. CASE NextQuestion
  <2>1. phase' = "idle" /\ seen' = {} BY <1>3 DEF NextQuestion, NoCall
  <2> QED BY <2>1 DEF Heard
<1>4. CASE Skip \/ SweepSkips BY <1>1, <1>4 DEF Skip, SweepSkips, Heard, Good
<1>5. ASSUME NEW m \in Members, NEW kind \in KindsMet, NEW d \in 0 .. Longest,
             Answer(m, kind, d), FirstReply(m, kind, d), phase \in {"sequential", "racing"}, UNCHANGED holds
      PROVE  Heard'
  <2>1. seen' = {kind} BY <1>1, <1>5 DEF Answer, Heard
  <2>2. /\ reply'.kind = kind /\ reply'.winner = m
        /\ (Good(kind) /\ phase' = "answered") \/ (~Good(kind) /\ phase' = "sweep")
    BY <1>1, <1>5, FirstReplied
  <2> QED BY <1>5, <2>1, <2>2 DEF Heard, Good
<1>6. CASE Ask
  <2>1. PICK m \in Members : m = Candidate BY <1>1, GroupTypes, ScanFacts
  <2>2. PICK d \in 0 .. Longest :
          \/ \E kind \in KindsMet : Answer(m, kind, d) /\ FirstReply(m, kind, d)
          \/ Failure(m, d) /\ phase' \in {"failed", "sequential"}
    BY <1>6, <2>1 DEF Ask
  <2>3. phase = "sequential" /\ UNCHANGED holds BY <1>6 DEF Ask
  <2>4. CASE Failure(m, d) /\ phase' \in {"failed", "sequential"}
    BY <1>1, <2>3, <2>4 DEF Failure, Heard
  <2> QED BY <1>5, <2>2, <2>3, <2>4
<1>7. CASE RaceWon
  <2>1. PICK m \in Members, kind \in KindsMet, d \in 0 .. Longest : Answer(m, kind, d) /\ FirstReply(m, kind, d)
    BY <1>7, RacedMembers DEF RaceWon
  <2> QED BY <1>5, <1>7, <2>1 DEF RaceWon
<1>8. CASE AllAsked \/ RaceLost \/ RaceRefused \/ SweepEnds
  BY <1>1, <1>8 DEF AllAsked, RaceLost, RaceRefused, SweepEnds, Heard
<1>9. CASE SweepAsks
  <2>1. PICK m \in Members : m = pos BY <1>1, <1>9, SweepAt DEF SweepAsks
  <2>2. PICK d \in 0 .. Longest :
          \/ \E kind \in KindsMet :
               /\ Answer(m, kind, d)
               /\ reply' = Swept(m, kind)
               /\ phase' = IF Good(kind) THEN "answered" ELSE "sweep"
          \/ Failure(m, d) /\ UNCHANGED <<reply, phase>>
    BY <1>9, <2>1 DEF SweepAsks
  <2>3. phase = "sweep" /\ UNCHANGED holds BY <1>9 DEF SweepAsks
  <2>4. CASE Failure(m, d) /\ UNCHANGED <<reply, phase>>
    BY <1>1, <2>3, <2>4 DEF Failure, Heard, Good
  <2>5. ASSUME NEW kind \in KindsMet, Answer(m, kind, d), reply' = Swept(m, kind),
               phase' = IF Good(kind) THEN "answered" ELSE "sweep"
        PROVE  Heard'
    <3>1. seen' = seen \cup {kind} BY <2>5 DEF Answer
    <3>2. reply \in Replies BY <1>1, GroupTypes
    <3>3. /\ reply.kind \in seen /\ reply.winner \in Members
          /\ "proof" \in seen => reply.kind = "proof" \/ ~holds
          /\ reply.kind = "useless" => seen = {"useless"}
          /\ ~Good(reply.kind)
      BY <1>1, <2>3 DEF Heard
    <3>4. kind \in Kinds /\ seen \subseteq Kinds /\ reply.kind \in Kinds
      BY <1>1, <3>3, GroupTypes DEF KindsMet, Kinds
    <3>5. CASE Good(kind) \/ (kind = "usable" /\ ~InHand)
      <4>1. reply' = [reply EXCEPT !.kind = kind, !.winner = m] BY <2>5, <3>5 DEF Swept
      <4>2. reply'.kind = kind /\ reply'.winner = m BY <3>2, <4>1 DEF Replies
      <4>3. kind # "useless" BY <3>5 DEF Good
      <4>4. "proof" \in seen' => kind = "proof" \/ ~holds BY <3>1, <3>3, <3>5 DEF Good, InHand
      <4> QED BY <2>3, <2>5, <3>1, <4>2, <4>3, <4>4 DEF Heard, Good
    <3>6. CASE ~(Good(kind) \/ (kind = "usable" /\ ~InHand))
      <4>1. reply' = reply /\ phase' = "sweep" BY <2>5, <3>6 DEF Swept
      <4>2. "proof" \in seen' => reply.kind = "proof" \/ ~holds BY <3>1, <3>3, <3>6 DEF Good
      <4>3. reply.kind = "useless" => seen' = {"useless"}
        <5>1. reply.kind = "useless" => ~InHand BY DEF InHand
        <5>2. reply.kind = "useless" => kind = "useless" BY <3>4, <3>6, <5>1 DEF Good, Kinds
        <5> QED BY <3>1, <3>3, <5>2
      <4> QED BY <2>3, <3>1, <3>3, <4>1, <4>2, <4>3 DEF Heard, Good
    <3> QED BY <3>5, <3>6
  <2> QED BY <2>2, <2>4, <2>5
<1>10. ASSUME NEW m \in Members, OtherFails(m) \/ OtherSucceeds(m) \/ CooldownOver(m)
       PROVE  Heard'
  <2>1. UNCHANGED <<holds, call>> BY <1>10 DEF OtherFails, OtherSucceeds, CooldownOver
  <2> QED BY <1>1, <2>1 DEF call, Heard, Good
<1> QED BY <1>2, <1>3, <1>4, <1>6, <1>7, <1>8, <1>9, <1>10 DEF Next, Question

(* The scan: past its second pass, everybody has been asked.                *)
LEMMA AllTurned ==
  ASSUME TypeOK, pos >= 2 * Servers,
         \A p \in Servers .. 2 * Servers - 1 : p < pos => asked[(start + p) % Servers] # 0
  PROVE  \A m \in Members : asked[m] # 0
<1> TAKE m \in Members
<1>1. PICK s \in Members : s = start BY GroupTypes
<1>2. PICK p \in Servers .. 2 * Servers - 1 : (s + p) % Servers = m BY PassMeets
<1>3. p < pos BY <1>2, Sane, GroupTypes
<1> QED BY <1>1, <1>2, <1>3

LEMMA ScannedStep == GroupInv /\ Next => Scanned'
<1> SUFFICES ASSUME GroupInv, Next PROVE Scanned'
  OBVIOUS
<1>1. TypeOK /\ Scanned BY DEF GroupInv
<1>2. /\ Servers \in Nat \ {0} /\ pos \in Nat /\ pos <= Last /\ start \in Members
      /\ Last \in Nat
  BY <1>1, Sane, GroupTypes
<1>3. CASE Begin
  <2>1. pos' = 0 /\ again' = {} /\ phase' \in {"racing", "sequential"} /\ UNCHANGED strategy
          /\ (phase' = "racing" => strategy = "race")
    BY <1>3 DEF Begin, NoCall
  <2> QED BY <1>2, <2>1 DEF Scanned
<1>4. CASE NextQuestion
  <2>1. phase' = "idle" BY <1>4 DEF NextQuestion
  <2> QED BY <2>1 DEF Scanned
<1>5. CASE phase = "sequential" /\ pos' = pos + 1 /\ ~ScanOver /\ start' = start /\ strategy' = strategy
             /\ (Skip \/ (Ask /\ phase' \in {"sequential", "failed"}))
  <2>1. pos # Last BY <1>5 DEF ScanOver, Last
  <2>2. Candidate \in Members /\ (pos < 2 * Servers => Pass = 0) /\ Round \in 1 .. Attempts
    BY <1>1, <2>1, GroupTypes, ScanFacts
  <2>3. PICK m \in Members, r \in 1 .. Attempts : m = Candidate /\ r = Round BY <2>2
  <2>4. r # 0 BY Sane
  <2>5. asked' = asked \/ asked' = [asked EXCEPT ![m] = r] BY <1>5, <2>3 DEF Skip, Ask
  <2>6. \A w \in Members : asked[w] # 0 => asked'[w] # 0 BY <1>1, <2>4, <2>5, GroupTypes
  <2>7. ASSUME pos >= Servers, pos < 2 * Servers PROVE asked'[m] # 0
    <3>1. CASE Skip
      <4>1. asked[m] # 0 \/ (Round = 1 /\ ~Healthy(m)) BY <2>2, <2>3, <2>7, <3>1 DEF Skip, Skipped
      <4>2. Round # 1
        <5>1. PICK a \in Nat : a = pos - Servers BY <1>2, <2>7
        <5>2. PICK b \in Nat \ {0} : b = 2 * Servers BY <1>2
        <5>3. a \div b \in Nat BY <5>2, Quotient
        <5>4. Round = 2 + (a \div b) BY <1>2, <2>7, <5>1, <5>2 DEF Round
        <5> QED BY <5>3, <5>4
      <4> QED BY <2>6, <4>1, <4>2
    <3>2. CASE Ask
      <4>1. asked' = [asked EXCEPT ![m] = r] BY <2>3, <3>2 DEF Ask
      <4> QED BY <1>1, <2>4, <4>1, GroupTypes
    <3> QED BY <1>5, <3>1, <3>2
  <2>8. ASSUME NEW p \in Servers .. 2 * Servers - 1, p < pos' PROVE asked'[(start' + p) % Servers] # 0
    <3>1. PICK w \in Members : w = (start + p) % Servers
      <4>1. start + p \in Nat BY <1>2 DEF Members
      <4> QED BY <1>2, <4>1, Remainder DEF Members
    <3>2. CASE p < pos
      <4>1. asked[w] # 0 BY <1>1, <1>5, <3>1, <3>2 DEF Scanned
      <4> QED BY <1>5, <2>6, <3>1, <4>1
    <3>3. CASE p = pos
      <4>1. w = m /\ pos >= Servers /\ pos < 2 * Servers BY <1>2, <2>3, <3>1, <3>3 DEF Candidate
      <4> QED BY <1>5, <2>7, <3>1, <4>1
    <3> QED BY <1>2, <1>5, <2>8, <3>2, <3>3
  <2>9. again' # {} => pos' >= 2 * Servers
    <3>1. CASE Skip
      <4>1. again' = again BY <3>1 DEF Skip
      <4> QED BY <1>1, <1>2, <1>5, <4>1 DEF Scanned
    <3>2. CASE Ask
      <4>1. again' = IF asked[m] = 0 THEN again ELSE again \cup {m} BY <2>3, <3>2 DEF Ask
      <4>2. pos < 2 * Servers => asked[m] = 0 BY <2>2, <2>3, <3>2 DEF Ask, Skipped
      <4> QED BY <1>1, <1>2, <1>5, <4>1, <4>2 DEF Scanned
    <3> QED BY <1>5, <3>1, <3>2
  <2>10. phase' = "failed" /\ strategy' # "race" /\ spent' < budget' => ScanOver'
    <3>1. CASE Skip BY <1>5, <3>1 DEF Skip
    <3>2. CASE Ask /\ phase' = "failed"
      <4>1. spent' >= budget /\ budget' = budget BY <1>1, <3>2, FirstReplied DEF Ask, FirstReply
      <4>2. spent' \in Int /\ budget \in Int
        <5>1. TypeOK' BY GroupTypeStep
        <5> QED BY <1>1, <5>1, GroupTypes DEF TypeOK
      <4> QED BY <4>1, <4>2
    <3> QED BY <1>5, <3>1, <3>2
  <2>11. phase' \in {"sequential", "failed"} BY <1>5 DEF Skip
  <2> QED BY <2>8, <2>9, <2>10, <2>11 DEF Scanned
<1>6. CASE Skip BY <1>5, <1>6 DEF Skip
<1>7. CASE Ask
  <2>1. /\ phase = "sequential" /\ ~ScanOver /\ start' = start /\ strategy' = strategy
        /\ \/ pos' = pos + 1 /\ phase' \in {"sequential", "failed"}
           \/ phase' = "answered"
           \/ phase' = "sweep" /\ pos' = 0
    BY <1>7 DEF Ask, FirstReply
  <2>2. CASE phase' = "answered" BY <2>2 DEF Scanned
  <2>3. CASE phase' = "sweep" /\ pos' = 0 BY <1>2, <2>3 DEF Scanned
  <2> QED BY <1>5, <1>7, <2>1, <2>2, <2>3
<1>8. CASE AllAsked
  <2>1. ScanOver' BY <1>8 DEF AllAsked, ScanOver
  <2> QED BY <1>1, <1>8, <2>1 DEF AllAsked, Scanned
<1>9. CASE RaceWon
  <2>1. phase' = "answered" \/ (phase' = "sweep" /\ pos' = 0) BY <1>9 DEF RaceWon, FirstReply
  <2> QED BY <1>2, <2>1 DEF Scanned
<1>10. CASE RaceLost \/ RaceRefused
  <2>1. /\ pos = 0 /\ again = {} /\ strategy = "race" /\ UNCHANGED <<strategy, pos, again>>
        /\ phase' \in {"failed", "sequential"}
    BY <1>1, <1>10 DEF RaceLost, RaceRefused, Scanned
  <2> QED BY <1>2, <2>1 DEF Scanned
<1>11. CASE SweepSkips \/ SweepAsks
  <2>1. pos + 1 <= Servers BY <1>1, <1>11, SweepAt DEF SweepSkips, SweepAsks
  <2>2. pos' = pos + 1 /\ phase' \in {"answered", "sweep"} BY <1>11 DEF SweepSkips, SweepAsks
  <2> QED BY <1>2, <2>1, <2>2 DEF Scanned
<1>12. CASE SweepEnds BY <1>12 DEF SweepEnds, Scanned
<1>13. ASSUME NEW m \in Members, OtherFails(m) \/ OtherSucceeds(m) \/ CooldownOver(m)
       PROVE  Scanned'
  <2>1. UNCHANGED <<strategy, call>> BY <1>13 DEF OtherFails, OtherSucceeds, CooldownOver
  <2> QED BY <1>1, <2>1 DEF call, Scanned, ScanOver
<1> QED BY <1>3, <1>4, <1>6, <1>7, <1>8, <1>9, <1>10, <1>11, <1>12, <1>13 DEF Next, Question

LEMMA GroupInitOK == Init => GroupInv
<1> SUFFICES ASSUME Init PROVE GroupInv
  OBVIOUS
<1> USE DEF Init
<1>1. TypeOK
  <2>1. health \in [Members -> Conditions] /\ asked \in [Members -> 0 .. Attempts]
    BY Sane DEF Conditions
  <2>2. reply \in Replies BY NoReplyTyped
  <2>3. start \in Members /\ pos \in 0 .. Last BY Sane DEF Members
  <2>4. left \in Int BY Sane
  <2> QED BY <2>1, <2>2, <2>3, <2>4 DEF TypeOK, Last, Replies
<1>2. Timed BY Sane DEF Timed, Calling, WaitBounded, Longest
<1>3. Heard /\ Scanned BY DEF Heard, Scanned
<1> QED BY <1>1, <1>2, <1>3 DEF GroupInv

LEMMA GroupStep == GroupInv /\ [Next]_vars => GroupInv'
<1> SUFFICES ASSUME GroupInv, [Next]_vars PROVE GroupInv'
  OBVIOUS
<1>1. CASE Next BY <1>1, GroupTypeStep, TimedStep, HeardStep, ScannedStep DEF GroupInv
<1>2. CASE UNCHANGED vars
  <2> USE <1>2 DEF vars, call
  <2>1. TypeOK' BY DEF GroupInv, TypeOK
  <2>2. Timed' BY DEF GroupInv, Timed, Calling, WaitBounded
  <2>3. Heard' BY DEF GroupInv, Heard, Good
  <2>4. Scanned' BY DEF GroupInv, Scanned, ScanOver
  <2> QED BY <2>1, <2>2, <2>3, <2>4 DEF GroupInv
<1> QED BY <1>1, <1>2

LEMMA GroupInvHolds == Spec => []GroupInv
<1> QED BY GroupInitOK, GroupStep, PTL DEF Spec

(* resolve_insisting, resolve_sequential and the sweep: whatever the        *)
(* timeouts, the deadline and the number of members and of calls, a         *)
(* question is done waiting one exchange after its deadline and a call one  *)
(* exchange after its budget, whatever an exchange may overrun by.          *)
THEOREM WaitBoundedHolds == Spec => []WaitBounded
<1>1. GroupInv => WaitBounded BY DEF GroupInv, Timed
<1> QED BY <1>1, GroupInvHolds, PTL

(* resolve_sequential: for any number of members and attempts, wherever the *)
(* scan starts and whatever the cooldowns do meanwhile, nobody is asked a   *)
(* second time before everybody was asked once, and a group that gives up   *)
(* with budget left and a second round to use has asked everybody.          *)
THEOREM FairTurnsHolds == Spec => []FairTurns
<1>1. GroupInv => FairTurns
  <2> SUFFICES ASSUME GroupInv PROVE FairTurns
    OBVIOUS
  <2>1. TypeOK /\ Scanned BY DEF GroupInv
  <2>2. ASSUME phase = "failed", strategy # "race", spent < budget, Attempts > 1
        PROVE  \A m \in Members : asked[m] # 0
    <3>1. pos = Last BY <2>1, <2>2 DEF Scanned, ScanOver, Last
    <3>2. pos >= 2 * Servers BY <2>2, <3>1, Sane
    <3> QED BY <2>1, <2>2, <3>2, AllTurned DEF Scanned
  <2>3. ASSUME phase \in {"sequential", "failed"}, again # {}
        PROVE  \A m \in Members : asked[m] # 0
    <3>1. pos >= 2 * Servers BY <2>1, <2>3 DEF Scanned
    <3> QED BY <2>1, <2>3, <3>1, AllTurned DEF Scanned
  <2> QED BY <2>1, <2>2, <2>3 DEF FairTurns, HonestTry, FreshFirst
<1> QED BY <1>1, GroupInvHolds, PTL

(* resolve_insisting and its sweep: for any group, a call that heard the    *)
(* proof it holds out for returns it, failing that one the caller can use   *)
(* if it heard any, and it answers exactly when it heard something.         *)
THEOREM BestReplyStandsHolds == Spec => []BestReplyStands
<1>1. GroupInv => BestReplyStands BY DEF GroupInv, Heard, BestReplyStands
<1> QED BY <1>1, GroupInvHolds, PTL
=============================================================================
