------------------------------- MODULE LoadGen -------------------------------
(* The load generator of the benchmark harness, bench/cmd/loadgen: run and  *)
(* runHandshake.  Each client holds one connection and asks one question    *)
(* after another until the deadline; DoH runs two requests at once on one   *)
(* connection.  A question is the slot that asks it and a number, which     *)
(* stands for its random id (two ids drawn in a row are taken to differ).   *)
EXTENDS Naturals, FiniteSets

CONSTANTS
  Clients,     (* concurrent clients, each with its own connection          *)
  DohClients,  (* of them, the ones a DoH run has: each asks two at once    *)
  MaxAsks      (* bound: questions one slot asks                            *)

ASSUME LoadBounds == MaxAsks \in Nat
ASSUME SomeClients == IsFiniteSet(Clients) /\ DohClients \subseteq Clients

VARIABLES
  transport,   (* "udp", "stream" (TCP, DoT), "doh" or "handshake"          *)
  main,        (* "dialing", "running", "reported" or "failed"              *)
  clock,       (* "unset", "warm", "measure" or "over": now, against        *)
               (* measureFrom and deadline                                  *)
  up,          (* the server accepts connections                            *)
  clientConn,  (* client -> "dialing", "open", "closed" or "refused"        *)
  slotAt,      (* slot -> "loop", "turn" (waiting for its turn), "asked",   *)
               (* "redial" or "done"                                        *)
  asks,        (* slot -> questions asked so far; the last is the current   *)
  measured,    (* slot -> the current question was asked after measureFrom  *)
  coming,      (* slot -> questions whose answer may still arrive           *)
  outcomes,    (* slot -> question -> times it was counted, either way      *)
  local,       (* slot -> questions whose latencies it has not handed over  *)
  errs,        (* dial errors in errCh                                      *)
  answered, errors, reconnects, recorded

loadVars == <<transport, main, clock, up, clientConn, slotAt, asks, measured, coming,
              outcomes, local, errs, answered, errors, reconnects, recorded>>
loadCounters == <<answered, errors, reconnects, recorded>>

Questions == 1..MaxAsks
AllSlots == Clients \X {1, 2}
Slots == IF transport = "doh" THEN DohClients \X {1, 2} ELSE Clients \X {1}
SlotsOf(c) == {w \in Slots : w[1] = c}

LoadInit ==
  /\ transport \in {"udp", "stream", "doh", "handshake"}
  /\ main = IF transport = "handshake" THEN "running" ELSE "dialing"
  /\ clock = IF transport = "handshake" THEN "measure" ELSE "unset"
  /\ up = TRUE
  /\ clientConn = [c \in Clients |-> IF SlotsOf(c) = {} \/ transport = "handshake"
                                THEN "closed" ELSE "dialing"]
  /\ slotAt = [w \in AllSlots |-> "loop"]
  /\ asks = [w \in AllSlots |-> 0]
  /\ measured = [w \in AllSlots |-> FALSE]
  /\ coming = [w \in AllSlots |-> {}]
  /\ outcomes = [w \in AllSlots |-> [q \in Questions |-> 0]]
  /\ local = [w \in AllSlots |-> {}]
  /\ errs = 0 /\ answered = 0 /\ errors = 0 /\ reconnects = 0 /\ recorded = 0

(* The server stops or comes back.                                          *)
ServerTurns ==
  /\ up' = ~up
  /\ UNCHANGED <<transport, main, clock, clientConn, slotAt, asks, measured, coming,
                 outcomes, local, errs, loadCounters>>

(* dial: bounded on every transport; DoH also probes the protocol.  A       *)
(* client that fails leaves its error and no query is asked for it.         *)
DialClient(c) ==
  /\ clientConn[c] = "dialing"
  /\ \/ /\ up
        /\ clientConn' = [clientConn EXCEPT ![c] = "open"]
        /\ UNCHANGED <<slotAt, errs>>
     \/ /\ clientConn' = [clientConn EXCEPT ![c] = "refused"]
        /\ slotAt' = [w \in AllSlots |-> IF w \in SlotsOf(c) THEN "done" ELSE slotAt[w]]
        /\ errs' = errs + 1
  /\ UNCHANGED <<transport, main, clock, up, asks, measured, coming, outcomes, local,
                 loadCounters>>

(* After 200 ms: an error already in errCh fails the run, otherwise the     *)
(* clock is set and only then the start channel closed.                     *)
Start ==
  /\ main = "dialing"
  /\ main' = IF errs > 0 THEN "failed" ELSE "running"
  /\ clock' = IF errs > 0 THEN clock ELSE "warm"
  /\ UNCHANGED <<transport, up, clientConn, slotAt, asks, measured, coming, outcomes, local,
                 errs, loadCounters>>

Tick ==
  /\ clock \in {"warm", "measure"}
  /\ clock' = IF clock = "warm" THEN "measure" ELSE "over"
  /\ UNCHANGED <<transport, main, up, clientConn, slotAt, asks, measured, coming, outcomes,
                 local, errs, loadCounters>>

(* A slot before the deadline goes to wait for its turn at the rate; this   *)
(* is where the deadline is looked at, and only here.                       *)
Turn(w) ==
  /\ main = "running" /\ slotAt[w] = "loop"
  /\ clientConn[w[1]] = "open" \/ transport = "handshake"
  /\ clock \in {"warm", "measure"}
  /\ asks[w] < MaxAsks
  /\ slotAt' = [slotAt EXCEPT ![w] = "turn"]
  /\ UNCHANGED <<transport, main, clock, up, clientConn, asks, measured, coming, outcomes,
                 local, errs, loadCounters>>

(* The turn comes, past the deadline or not, and the question goes out.     *)
Ask(w) ==
  /\ main = "running" /\ slotAt[w] = "turn"
  /\ asks[w] < MaxAsks
  /\ asks' = [asks EXCEPT ![w] = @ + 1]
  /\ measured' = [measured EXCEPT ![w] = clock # "warm"]
  /\ coming' = [coming EXCEPT ![w] = @ \cup {asks[w] + 1}]
  /\ slotAt' = [slotAt EXCEPT ![w] = "asked"]
  /\ UNCHANGED <<transport, main, clock, up, clientConn, outcomes, local, errs, loadCounters>>

AnswerAny(w, r) ==
  /\ slotAt[w] = "asked" /\ r \in coming[w]
  /\ coming' = [coming EXCEPT ![w] = @ \ {r}]
  /\ slotAt' = [slotAt EXCEPT ![w] = "loop"]
  /\ outcomes' = [outcomes EXCEPT ![w][r] = @ + 1]
  /\ local' = [local EXCEPT ![w] = IF measured[w] THEN @ \cup {r} ELSE @]
  /\ answered' = IF measured[w] THEN answered + 1 ELSE answered
  /\ UNCHANGED <<transport, main, clock, up, clientConn, asks, measured, errs, errors,
                 reconnects, recorded>>

(* Query returns the answer r, which carries the current id; it counts when *)
(* the question was asked after measureFrom.                                *)
Answer(w, r) ==
  /\ slotAt[w] = "asked" /\ r \in coming[w] /\ r = asks[w]
  /\ coming' = [coming EXCEPT ![w] = @ \ {r}]
  /\ slotAt' = [slotAt EXCEPT ![w] = "loop"]
  /\ outcomes' = [outcomes EXCEPT ![w][r] = @ + 1]
  /\ local' = [local EXCEPT ![w] = IF measured[w] THEN @ \cup {r} ELSE @]
  /\ answered' = IF measured[w] THEN answered + 1 ELSE answered
  /\ UNCHANGED <<transport, main, clock, up, clientConn, asks, measured, errs, errors,
                 reconnects, recorded>>

(* UDP: a late answer to an earlier question is read and passed over.       *)
Skip(w, r) ==
  /\ transport = "udp" /\ slotAt[w] = "asked"
  /\ r \in coming[w] /\ r # asks[w]
  /\ coming' = [coming EXCEPT ![w] = @ \ {r}]
  /\ UNCHANGED <<transport, main, clock, up, clientConn, slotAt, asks, measured, outcomes,
                 local, errs, loadCounters>>

(* Query fails: its deadline passed, the connection broke, the answer did   *)
(* not parse or carried another id, or (handshake) the dial failed.  A      *)
(* stream is closed and dialled again; UDP keeps the socket, on which the   *)
(* answer may still arrive; HTTP drops what belonged to the request.        *)
QueryFails(w) ==
  /\ slotAt[w] = "asked"
  /\ errors' = errors + 1
  /\ outcomes' = [outcomes EXCEPT ![w][asks[w]] = @ + 1]
  /\ IF transport = "stream"
       THEN /\ clientConn' = [clientConn EXCEPT ![w[1]] = "closed"]
            /\ slotAt' = [slotAt EXCEPT ![w] = "redial"]
       ELSE slotAt' = [slotAt EXCEPT ![w] = "loop"] /\ UNCHANGED clientConn
  /\ coming' = [coming EXCEPT ![w] = IF transport = "udp" THEN @ ELSE {}]
  /\ UNCHANGED <<transport, main, clock, up, asks, measured, local, errs, answered,
                 reconnects, recorded>>

RedialForever(w) ==
  /\ slotAt[w] = "redial" /\ up
  /\ clientConn' = [clientConn EXCEPT ![w[1]] = "open"]
  /\ slotAt' = [slotAt EXCEPT ![w] = "loop"]
  /\ reconnects' = reconnects + 1
  /\ UNCHANGED <<transport, main, clock, up, asks, measured, coming, outcomes, local, errs,
                 answered, errors, recorded>>

(* The redial loop, 10 ms between attempts: out with a connection, or at    *)
(* the deadline without one, and then the slot returns past AddBatch.  An   *)
(* attempt that fails before the deadline changes nothing.                  *)
Redial(w) ==
  /\ slotAt[w] = "redial"
  /\ \/ /\ up
        /\ clientConn' = [clientConn EXCEPT ![w[1]] = "open"]
        /\ slotAt' = [slotAt EXCEPT ![w] = "loop"]
        /\ reconnects' = reconnects + 1
     \/ /\ clock = "over"
        /\ slotAt' = [slotAt EXCEPT ![w] = "done"]
        /\ UNCHANGED <<clientConn, reconnects>>
  /\ UNCHANGED <<transport, main, clock, up, asks, measured, coming, outcomes, local, errs,
                 answered, errors, recorded>>

(* Past the deadline the slot hands its latencies over in one AddBatch.     *)
Finish(w) ==
  /\ slotAt[w] = "loop" /\ clock = "over"
  /\ clientConn[w[1]] = "open" \/ transport = "handshake"
  /\ slotAt' = [slotAt EXCEPT ![w] = "done"]
  /\ recorded' = recorded + Cardinality(local[w])
  /\ local' = [local EXCEPT ![w] = {}]
  /\ UNCHANGED <<transport, main, clock, up, clientConn, asks, measured, coming, outcomes, errs,
                 answered, errors, reconnects>>

(* inner.Wait returned: the deferred Close, when there is a connection.     *)
Close(c) ==
  /\ clientConn[c] = "open" /\ \A w \in SlotsOf(c) : slotAt[w] = "done"
  /\ clientConn' = [clientConn EXCEPT ![c] = "closed"]
  /\ UNCHANGED <<transport, main, clock, up, slotAt, asks, measured, coming, outcomes, local,
                 errs, loadCounters>>

(* wg.Wait returned: a dial that failed after the start still fails the     *)
(* run, otherwise the result is printed.                                    *)
Report ==
  /\ main = "running"
  /\ \A c \in Clients : clientConn[c] \in {"closed", "refused"}
  /\ \A w \in Slots : slotAt[w] = "done"
  /\ main' = IF errs > 0 THEN "failed" ELSE "reported"
  /\ UNCHANGED <<transport, clock, up, clientConn, slotAt, asks, measured, coming, outcomes,
                 local, errs, loadCounters>>

Slot(w) ==
  \/ Turn(w) \/ Ask(w) \/ QueryFails(w) \/ Redial(w) \/ Finish(w)
  \/ \E r \in Questions : Answer(w, r) \/ Skip(w, r)

(* What the generator itself does: dials, queries and the phases are all    *)
(* bounded by timeouts and the clock runs.                                  *)
LoadProgress ==
  \/ Start \/ Tick \/ Report
  \/ \E c \in Clients : DialClient(c) \/ Close(c)
  \/ \E w \in Slots : Slot(w)

LoadNext == ServerTurns \/ LoadProgress

(* Nothing is assumed of the server.                                        *)
LoadSpec == LoadInit /\ [][LoadNext]_loadVars /\ WF_loadVars(LoadProgress)

-----------------------------------------------------------------------------
(* udpClient.Query and streamClient.Query: no question is counted twice.    *)
(* One that timed out and was counted an error is not counted answered when *)
(* its late answer reaches the next question on the same connection.        *)
OneOutcome == \A w \in AllSlots : \A q \in Questions : outcomes[w][q] <= 1

Abandoned == {w \in Slots : slotAt[w] = "done" /\ clientConn[w[1]] = "closed" /\ local[w] # {}}

(* run's Result: a run is reported only when every client had a connection, *)
(* and the percentiles are over every answered question, short of those of  *)
(* a stream client that could not dial again before the deadline.           *)
ResultComplete ==
  main = "reported" =>
    /\ \A c \in Clients : clientConn[c] # "refused"
    /\ Abandoned = {} => recorded = answered
    /\ recorded <= answered
    /\ reconnects <= errors

(* No question is counted twice, and what a reported run rests on.          *)
LoadCounted == OneOutcome /\ ResultComplete
=============================================================================
