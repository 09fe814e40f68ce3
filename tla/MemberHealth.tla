---------------------------- MODULE MemberHealth ----------------------------
(***************************************************************************)
(* The health of one upstream, in src/upstream/upstream.odin: what a        *)
(* failure and a success do to it, and what is read off it.  A run of       *)
(* failures parks the upstream; a hang-up counts towards it only once the   *)
(* hang-ups are a run themselves.                                           *)
(***************************************************************************)
EXTENDS Integers

CONSTANT FAILURE_THRESHOLD

ASSUME ThresholdPositive == FAILURE_THRESHOLD \in Nat \ {0}

(* The kinds of Error an exchange fails with that health tells apart.       *)
(* "Unreached" is a dial, a handshake or a malformed reply; "Cut" is the    *)
(* timeout of an exchange that first spent part of it on the hostname.      *)
ChargedErrors == {"Timeout", "Peer_Closed", "Unreached", "Not_Resolved"}
UnchargedErrors == {"Backlogged", "Cut"}

(* `failures` and `closed_run` stop at the threshold, past which nothing    *)
(* tells them apart.  `cooling` is a down_until still to come, which is     *)
(* read past the threshold only and set by every failure that gets there;   *)
(* `answered` is stats.queries > stats.failures.                            *)
Health ==
  [failures : 0 .. FAILURE_THRESHOLD, closed_run : 0 .. FAILURE_THRESHOLD,
   cooling : BOOLEAN, answered : BOOLEAN]

Fresh == [failures |-> 0, closed_run |-> 0, cooling |-> FALSE, answered |-> FALSE]

Capped(n) == IF n > FAILURE_THRESHOLD THEN FAILURE_THRESHOLD ELSE n

healthy(h) == h.failures < FAILURE_THRESHOLD \/ ~h.cooling
answering(h) == h.failures = 0 /\ h.answered

record_success(h) ==
  [failures |-> 0, closed_run |-> 0, cooling |-> FALSE, answered |-> TRUE]

Counted(h) ==
  [h EXCEPT !.failures = Capped(@ + 1), !.cooling = h.failures + 1 >= FAILURE_THRESHOLD]

ChargedFailureRestarts(h, err) ==
  IF err = "Peer_Closed"
  THEN LET run == [h EXCEPT !.closed_run = Capped(@ + 1)] IN
       IF run.closed_run < FAILURE_THRESHOLD THEN [run EXCEPT !.failures = 0] ELSE Counted(run)
  ELSE [Counted(h) EXCEPT !.closed_run = 0]

ChargedFailureHarsh(h, err) == Counted(h)

(* A failure that is charged: a hang-up below the run is exempt, and any    *)
(* other failure ends the run.                                              *)
ChargedFailure(h, err) ==
  IF err = "Peer_Closed"
  THEN LET run == [h EXCEPT !.closed_run = Capped(@ + 1)] IN
       IF run.closed_run < FAILURE_THRESHOLD THEN run ELSE Counted(run)
  ELSE [Counted(h) EXCEPT !.closed_run = 0]

record_failure(h, err) == IF err \in ChargedErrors THEN ChargedFailure(h, err) ELSE h
=============================================================================
