------------------------------ MODULE ArmSockets ------------------------------
(* The clients of an experiment arm that hold their sockets for the whole   *)
(* run, bench/cmd/rrlexp/client.go: runUDP, runStream (TCP, and DoT through *)
(* runDoT) and runIdle, each with a reader and (not runIdle) a writer per   *)
(* socket, and the function that stops them.  A question is its socket and  *)
(* its number; the numbers stay below the 2^16 at which ids wrap.  The      *)
(* client is the one whose latencies are tracked, and every answer a full   *)
(* one.                                                                     *)
EXTENDS Naturals, FiniteSets

CONSTANTS
  Sockets,     (* the sockets a client opens                                *)
  MaxSent      (* bound: questions one writer sends                         *)

ASSUME SomeSockets == IsFiniteSet(Sockets) /\ MaxSent \in Nat

VARIABLES
  style,       (* "udp", "stream" or "idle"                                 *)
  phase,       (* "opening", "running", "closing", "stopped" or "fatal"     *)
  stopped,     (* the channel of that name is closed                        *)
  sock,        (* socket -> "none", "open", "hungup" (by the server) or     *)
               (* "shut" (by stop)                                          *)
  reader,      (* socket -> "none", "reading" or "gone"                     *)
  writer,      (* socket -> "none", "pacing", "put", "wrote" or "gone"      *)
  sent,        (* socket -> number of the last question                     *)
  wire,        (* socket -> questions the server may still answer           *)
  tracked,     (* socket -> the tracker's map: ids waiting for an answer    *)
  sockOffered, replies, lat, sockClosed, sockFailed, dialled,
  sockHangups  (* connections the server really ended                       *)

socketVars == <<style, phase, stopped, sock, reader, writer, sent, wire, tracked,
                sockOffered, replies, lat, sockClosed, sockFailed, dialled, sockHangups>>
stats == <<sockOffered, replies, lat, sockClosed, sockFailed, dialled>>

SocketsInit ==
  /\ style \in {"udp", "stream", "idle"}
  /\ phase = "opening" /\ stopped = FALSE
  /\ sock = [s \in Sockets |-> "none"]
  /\ reader = [s \in Sockets |-> "none"] /\ writer = [s \in Sockets |-> "none"]
  /\ sent = [s \in Sockets |-> 0]
  /\ wire = [s \in Sockets |-> {}] /\ tracked = [s \in Sockets |-> {}]
  /\ sockOffered = 0 /\ replies = 0 /\ lat = 0 /\ dialled = 0
  /\ sockClosed = 0 /\ sockFailed = 0 /\ sockHangups = 0

Tried == {s \in Sockets : reader[s] # "none"}
Open == {s \in Sockets : sock[s] \in {"open", "hungup"}}

(* One dial of the loop: the socket gets its goroutines, or is counted and  *)
(* passed over; a UDP socket that cannot be had ends the process.           *)
DialSocket(s) ==
  /\ phase = "opening" /\ reader[s] = "none"
  /\ \/ /\ sock' = [sock EXCEPT ![s] = "open"]
        /\ reader' = [reader EXCEPT ![s] = "reading"]
        /\ writer' = [writer EXCEPT ![s] = IF style = "idle" THEN "gone" ELSE "pacing"]
        /\ dialled' = IF style = "idle" THEN dialled + 1 ELSE dialled
        /\ UNCHANGED <<phase, sockFailed>>
     \/ /\ style # "udp"
        /\ sockFailed' = sockFailed + 1
        /\ reader' = [reader EXCEPT ![s] = "gone"]
        /\ writer' = [writer EXCEPT ![s] = "gone"]
        /\ UNCHANGED <<phase, sock, dialled>>
     \/ /\ style = "udp"
        /\ phase' = "fatal"
        /\ UNCHANGED <<sock, reader, writer, sockFailed, dialled>>
  /\ UNCHANGED <<style, stopped, sent, wire, tracked, sockOffered, replies, lat, sockClosed,
                 sockHangups>>

(* Every socket was tried.  A stream client that got none stops the run.    *)
Opened ==
  /\ phase = "opening" /\ Tried = Sockets
  /\ phase' = IF style = "stream" /\ Open = {} THEN "fatal" ELSE "running"
  /\ UNCHANGED <<style, stopped, sock, reader, writer, sent, wire, tracked, stats, sockHangups>>

SendUntracked(s) ==
  /\ writer[s] = "pacing" /\ sent[s] < MaxSent
  /\ sent' = [sent EXCEPT ![s] = @ + 1]
  /\ writer' = [writer EXCEPT ![s] = "put"]
  /\ UNCHANGED <<style, phase, stopped, sock, reader, wire, tracked, stats, sockHangups>>

(* send: the id enters the tracker before the question is on the wire.      *)
Send(s) ==
  /\ writer[s] = "pacing" /\ sent[s] < MaxSent
  /\ sent' = [sent EXCEPT ![s] = @ + 1]
  /\ tracked' = [tracked EXCEPT ![s] = @ \cup {sent[s] + 1}]
  /\ writer' = [writer EXCEPT ![s] = "put"]
  /\ UNCHANGED <<style, phase, stopped, sock, reader, wire, stats, sockHangups>>

(* The write: on a socket that is gone it fails and the writer returns, but *)
(* the kernel may still take one after the server has hung up.              *)
Write(s) ==
  /\ writer[s] = "put"
  /\ \/ /\ sock[s] # "shut"
        /\ wire' = [wire EXCEPT ![s] = IF sock[s] = "open" THEN @ \cup {sent[s]} ELSE @]
        /\ writer' = [writer EXCEPT ![s] = "wrote"]
     \/ /\ sock[s] # "open"
        /\ writer' = [writer EXCEPT ![s] = "gone"]
        /\ UNCHANGED wire
  /\ UNCHANGED <<style, phase, stopped, sock, reader, sent, tracked, stats, sockHangups>>

(* Counted only once written, when the answer may already have been read.   *)
Count(s) ==
  /\ writer[s] = "wrote"
  /\ sockOffered' = sockOffered + 1
  /\ writer' = [writer EXCEPT ![s] = "pacing"]
  /\ UNCHANGED <<style, phase, stopped, sock, reader, sent, wire, tracked, replies, lat,
                 sockClosed, sockFailed, dialled, sockHangups>>

(* pace: the duration is up.                                                *)
WriterEnds(s) ==
  /\ writer[s] = "pacing"
  /\ writer' = [writer EXCEPT ![s] = "gone"]
  /\ UNCHANGED <<style, phase, stopped, sock, reader, sent, wire, tracked, stats, sockHangups>>

(* A reader files one full answer, and its latency when its id is tracked.  *)
Reads(s, q) ==
  /\ reader[s] = "reading" /\ sock[s] # "shut" /\ q \in wire[s]
  /\ wire' = [wire EXCEPT ![s] = @ \ {q}]
  /\ replies' = replies + 1
  /\ lat' = IF q \in tracked[s] THEN lat + 1 ELSE lat
  /\ tracked' = [tracked EXCEPT ![s] = @ \ {q}]
  /\ UNCHANGED <<style, phase, stopped, sock, reader, writer, sent, sockOffered,
                 sockClosed, sockFailed, dialled, sockHangups>>

(* The server ends a connection, over budget or without room for it; what   *)
(* it answered before may still be read.  UDP hears of a dead server too.   *)
ServerHangsUp(s) ==
  /\ sock[s] = "open"
  /\ sock' = [sock EXCEPT ![s] = "hungup"]
  /\ \E kept \in SUBSET wire[s] : wire' = [wire EXCEPT ![s] = kept]
  /\ sockHangups' = sockHangups + 1
  /\ UNCHANGED <<style, phase, stopped, reader, writer, sent, tracked, stats>>

(* The read fails: the server's doing unless stop was already called.  A    *)
(* stream reader counts an EOF or a reset between messages, and a socket    *)
(* stop closed is neither; to runIdle any error counts.                     *)
ReaderEnds(s) ==
  /\ reader[s] = "reading" /\ sock[s] \in {"hungup", "shut"} /\ wire[s] = {}
  /\ reader' = [reader EXCEPT ![s] = "gone"]
  /\ \/ /\ ~stopped
        /\ style = "idle" \/ (style = "stream" /\ sock[s] = "hungup")
        /\ sockClosed' = sockClosed + 1
     \/ /\ stopped \/ style # "idle"
        /\ UNCHANGED sockClosed
  /\ UNCHANGED <<style, phase, stopped, sock, writer, sent, wire, tracked, sockOffered, replies,
                 lat, sockFailed, dialled, sockHangups>>

StopUnmarked ==
  /\ phase = "running"
  /\ phase' = "closing"
  /\ UNCHANGED <<style, stopped, sock, reader, writer, sent, wire, tracked, stats, sockHangups>>

(* The returned stop: the channel first, then every socket.                 *)
Stop ==
  /\ phase = "running"
  /\ phase' = "closing" /\ stopped' = TRUE
  /\ UNCHANGED <<style, sock, reader, writer, sent, wire, tracked, stats, sockHangups>>

ShutSocket(s) ==
  /\ phase = "closing" /\ s \in Open
  /\ sock' = [sock EXCEPT ![s] = "shut"]
  /\ wire' = [wire EXCEPT ![s] = {}]
  /\ UNCHANGED <<style, phase, stopped, reader, writer, sent, tracked, stats, sockHangups>>

(* wg.Wait: no goroutine of the client is left to touch the counters.       *)
SocketsReturn ==
  /\ phase = "closing" /\ Open = {}
  /\ \A s \in Sockets : reader[s] = "gone" /\ writer[s] = "gone"
  /\ phase' = "stopped"
  /\ UNCHANGED <<style, stopped, sock, reader, writer, sent, wire, tracked, stats, sockHangups>>

Socket(s) ==
  \/ DialSocket(s) \/ Send(s) \/ Write(s) \/ Count(s) \/ WriterEnds(s) \/ ReaderEnds(s)
  \/ ShutSocket(s)

SocketsNext ==
  \/ Opened \/ Stop \/ SocketsReturn
  \/ \E s \in Sockets : Socket(s) \/ ServerHangsUp(s) \/ \E q \in 1..MaxSent : Reads(s, q)

SocketsSpec == SocketsInit /\ [][SocketsNext]_socketVars

-----------------------------------------------------------------------------
(* stats.closed, "connections the server closed on us": stop closing the    *)
(* sockets is never counted as the server's refusals.                       *)
NotOwnDoing == sockClosed <= sockHangups

(* record and tracker: what the report reads after stop is settled; no more *)
(* answers than questions offered, every full answer's latency filed, and   *)
(* every idle connection either held to the end or counted.                 *)
SocketsSettled ==
  phase = "stopped" =>
    /\ replies <= sockOffered
    /\ lat = replies
    /\ style = "idle" => dialled + sockFailed = Cardinality(Sockets)
    /\ \A s \in Sockets : writer[s] = "gone" /\ reader[s] = "gone"
=============================================================================
