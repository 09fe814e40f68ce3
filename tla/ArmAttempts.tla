----------------------------- MODULE ArmAttempts -----------------------------
(* The clients of an experiment arm whose every question is an attempt of   *)
(* its own, bench/cmd/rrlexp: runTCPRedial (client.go), runHandshakeFlood   *)
(* (tls.go) and runDoH (doh.go), with the pacer that feeds the DoH workers  *)
(* through a channel and the function that stops them.                      *)
EXTENDS Naturals, FiniteSets

CONSTANTS
  Workers,     (* attempts in the air at once                               *)
  Redialler,   (* the one worker of runTCPRedial                            *)
  TokenCap,    (* capacity of the tokens channel, 1024 in the code          *)
  MaxOffered   (* bound: attempts and tokens of one run                     *)

ASSUME SomeWorkers == IsFiniteSet(Workers) /\ Redialler \in Workers
ASSUME AttemptBounds == TokenCap \in Nat /\ MaxOffered \in Nat

VARIABLES
  kind,        (* "redial", "handshake" or "doh"                            *)
  paced,       (* DoH only: the arm offers a rate                           *)
  stopping,    (* "running", "cancelled" or "stopped"                       *)
  over,        (* the arm's duration is up                                  *)
  pacer,       (* "pacing", "sending" or "gone"                             *)
  tokens,      (* tokens in the channel                                     *)
  issued,      (* tokens ever sent                                          *)
  seq,         (* the counter the DoH workers share                         *)
  workerAt,    (* worker -> "loop", "taking" (a token), "adding",           *)
               (* "loading", "dialing", "asking" or "gone"                  *)
  names,       (* the names asked, a worker and a number each               *)
  offered, full, closed, failed, other,
  unfiled,     (* attempts runTCPRedial files nowhere                       *)
  hangups      (* attempts the server really ended                          *)

attemptVars == <<kind, paced, stopping, over, pacer, tokens, issued, seq, workerAt, names,
                 offered, full, closed, failed, other, unfiled, hangups>>
flow == <<kind, paced, stopping, over>>
feed == <<pacer, tokens, issued>>
filed == <<full, closed, failed, other, unfiled, hangups>>

AttemptsInit ==
  /\ kind \in {"redial", "handshake", "doh"}
  /\ paced \in IF kind = "doh" THEN BOOLEAN ELSE {FALSE}
  /\ stopping = "running" /\ over = FALSE
  /\ pacer = (IF paced THEN "pacing" ELSE "gone")
  /\ tokens = 0 /\ issued = 0 /\ seq = 0 /\ names = {}
  /\ workerAt = [w \in Workers |-> IF kind = "redial" /\ w # Redialler THEN "gone" ELSE "loop"]
  /\ offered = 0 /\ full = 0 /\ closed = 0 /\ failed = 0 /\ other = 0
  /\ unfiled = 0 /\ hangups = 0

TimeUp ==
  /\ ~over /\ over' = TRUE
  /\ UNCHANGED <<kind, paced, stopping, feed, seq, workerAt, names, offered, filed>>

(* dohPacer between two sends: the end is looked at here and only here.     *)
PacerTurns ==
  /\ pacer = "pacing"
  /\ \/ over /\ pacer' = "gone"
     \/ ~over /\ issued < MaxOffered /\ pacer' = "sending"
  /\ UNCHANGED <<flow, tokens, issued, seq, workerAt, names, offered, filed>>

(* In the select: room in the channel, or the context is done.              *)
PacerSends ==
  /\ pacer = "sending"
  /\ \/ /\ tokens < TokenCap
        /\ tokens' = tokens + 1 /\ issued' = issued + 1 /\ pacer' = "pacing"
     \/ /\ stopping # "running"
        /\ pacer' = "gone" /\ UNCHANGED <<tokens, issued>>
  /\ UNCHANGED <<flow, seq, workerAt, names, offered, filed>>

(* A worker's next attempt: counted before it is made.  A DoH worker counts *)
(* later, and first waits for a token when the arm is paced; it looks at    *)
(* the end here and not again until the attempt is over.                    *)
Begin(w) ==
  /\ workerAt[w] = "loop" /\ ~over
  /\ stopping = "running" \/ kind = "doh"
  /\ IF kind = "doh"
       THEN /\ workerAt' = [workerAt EXCEPT ![w] = IF paced THEN "taking" ELSE "adding"]
            /\ UNCHANGED offered
       ELSE /\ offered < MaxOffered
            /\ offered' = offered + 1
            /\ workerAt' = [workerAt EXCEPT ![w] = "dialing"]
  /\ UNCHANGED <<flow, feed, seq, names, filed>>

(* In the select: a token, the channel empty and closed, or the context     *)
(* done.                                                                    *)
Take(w) ==
  /\ workerAt[w] = "taking"
  /\ \/ /\ tokens > 0 /\ tokens' = tokens - 1
        /\ workerAt' = [workerAt EXCEPT ![w] = "adding"]
     \/ /\ (tokens = 0 /\ pacer = "gone") \/ stopping # "running"
        /\ workerAt' = [workerAt EXCEPT ![w] = "gone"] /\ UNCHANGED tokens
  /\ UNCHANGED <<flow, pacer, issued, seq, names, offered, filed>>

(* The duration is up, or the run is stopped, which a DoH worker does not   *)
(* look at here.                                                            *)
Quit(w) ==
  /\ workerAt[w] = "loop"
  /\ over \/ (kind # "doh" /\ stopping # "running")
  /\ workerAt' = [workerAt EXCEPT ![w] = "gone"]
  /\ UNCHANGED <<flow, feed, seq, names, offered, filed>>

(* seq.add, unless the context went meanwhile.                              *)
SeqAdd(w) ==
  /\ workerAt[w] = "adding"
  /\ IF stopping # "running"
       THEN workerAt' = [workerAt EXCEPT ![w] = "gone"] /\ UNCHANGED seq
       ELSE /\ seq < MaxOffered
            /\ seq' = seq + 1
            /\ workerAt' = [workerAt EXCEPT ![w] = "loading"]
  /\ UNCHANGED <<flow, feed, names, offered, filed>>

(* seq.load is a second critical section: two workers may read one number,  *)
(* and the worker's index is what keeps their names apart.                  *)
SeqLoad(w) ==
  /\ workerAt[w] = "loading"
  /\ names' = names \cup {<<w, seq>>}
  /\ offered' = offered + 1
  /\ workerAt' = [workerAt EXCEPT ![w] = "asking"]
  /\ UNCHANGED <<flow, feed, seq, filed>>

DialAttempt(w) ==
  /\ workerAt[w] = "dialing"
  /\ \/ workerAt' = [workerAt EXCEPT ![w] = "asking"] /\ UNCHANGED failed
     \/ workerAt' = [workerAt EXCEPT ![w] = "loop"] /\ failed' = failed + 1
  /\ UNCHANGED <<flow, feed, seq, names, offered, full, closed, other, unfiled, hangups>>

Ends(w) == workerAt[w] = "asking" /\ workerAt' = [workerAt EXCEPT ![w] = "loop"]

(* An answer, or a completed handshake.                                     *)
Succeed(w) ==
  /\ Ends(w) /\ full' = full + 1
  /\ UNCHANGED <<flow, feed, seq, names, offered, closed, failed, other, unfiled, hangups>>

(* An answer that is a refusal: a status, a rcode or a truncation.  To      *)
(* runTCPRedial one cut short or unreadable is nothing at all.              *)
Refused(w) ==
  /\ Ends(w) /\ kind # "handshake"
  /\ \/ other' = other + 1 /\ UNCHANGED unfiled
     \/ kind = "redial" /\ unfiled' = unfiled + 1 /\ UNCHANGED other
  /\ UNCHANGED <<flow, feed, seq, names, offered, full, closed, failed, hangups>>

(* The server ends the connection.  A DoH request without a status failed.  *)
(* A handshake counts as refused only when the run was not being stopped.   *)
HungUp(w) ==
  /\ Ends(w)
  /\ hangups' = hangups + 1
  /\ IF kind = "doh" \/ (kind = "handshake" /\ stopping # "running")
       THEN failed' = failed + 1 /\ UNCHANGED closed
       ELSE closed' = closed + 1 /\ UNCHANGED failed
  /\ UNCHANGED <<flow, feed, seq, names, offered, full, other, unfiled>>

(* The client's own deadline passes, or (not runTCPRedial) the run is       *)
(* stopped under it: `failed`, but runTCPRedial takes a read that timed out *)
(* for a connection the server closed.                                      *)
GiveUp(w) ==
  /\ Ends(w)
  /\ IF kind = "redial"
       THEN closed' = closed + 1 /\ UNCHANGED failed
       ELSE failed' = failed + 1 /\ UNCHANGED closed
  /\ UNCHANGED <<flow, feed, seq, names, offered, full, other, unfiled, hangups>>

(* stop: cancel (or close(stopped)), then wait for the goroutines.          *)
Cancel ==
  /\ stopping = "running" /\ stopping' = "cancelled"
  /\ UNCHANGED <<kind, paced, over, feed, seq, workerAt, names, offered, filed>>

AttemptsReturn ==
  /\ stopping = "cancelled" /\ pacer = "gone" /\ \A w \in Workers : workerAt[w] = "gone"
  /\ stopping' = "stopped"
  /\ UNCHANGED <<kind, paced, over, feed, seq, workerAt, names, offered, filed>>

Worker(w) ==
  \/ Begin(w) \/ Take(w) \/ Quit(w) \/ SeqAdd(w) \/ SeqLoad(w) \/ DialAttempt(w)
  \/ Succeed(w) \/ Refused(w) \/ HungUp(w) \/ GiveUp(w)

(* Every attempt has a deadline, the duration runs, and runArm calls stop   *)
(* when the arm is over; nothing is assumed of the server.                  *)
AttemptsNext ==
  \/ TimeUp \/ PacerTurns \/ PacerSends \/ Cancel \/ AttemptsReturn
  \/ \E w \in Workers : Worker(w)

AttemptsSpec == AttemptsInit /\ [][AttemptsNext]_attemptVars /\ WF_attemptVars(AttemptsNext)

-----------------------------------------------------------------------------
(* The counters when stop has returned: every attempt has one outcome, and  *)
(* no two DoH requests asked the same name, so none is a cache hit by       *)
(* another's doing.                                                         *)
EveryAttemptFiled ==
  /\ stopping = "stopped" => offered = full + closed + failed + other + unfiled
  /\ kind = "doh" => Cardinality(names) = offered

(* runHandshakeFlood: "a refusal only if the server decided it".  The same  *)
(* of every client but runTCPRedial.                                        *)
RefusalsDecided == kind # "redial" => closed <= hangups

(* stats.closed as documented: "connections the server closed on us".       *)
ClosedByServer == closed <= hangups
=============================================================================
