------------------------------ MODULE MockOutage ------------------------------
(* The upstream an experiment arm takes away and brings back,               *)
(* bench/cmd/rrlexp/mock.go and the schedule of arms_upstream.go: its mode, *)
(* its two sockets, the sockets that hold its ports while it is "refused",  *)
(* the connections it serves and the queries it is answering.  A listener   *)
(* is numbered: 1 before the outage, 2 after it, 0 none.                    *)
EXTENDS Naturals

CONSTANTS
  Conns,       (* TCP connections of the forwarder                          *)
  Datagrams    (* UDP queries of the forwarder                              *)

VARIABLES
  how,         (* the mode the arm fails into: "blackhole" or "refused"     *)
  mode,        (* "up", "blackhole" or "refused"                            *)
  step,        (* where the schedule is                                     *)
  pc, ln,      (* the sockets serving, by number; 0 is closed or nil        *)
  port,        (* "udp", "tcp" -> "mock", "hold", "free" or "stranger"      *)
  mockErr,     (* the schedule met an error                                 *)
  conn,        (* connection -> its listener, 0 before it is made           *)
  query,       (* connection -> "none", "read", "known", "reply" or         *)
               (* "reset": the query it is serving                          *)
  during,      (* connection -> that query was read after the mock failed   *)
  dgram,       (* datagram -> "none", "read", "reply", "sent" or "dropped"  *)
  ghosts       (* queries answered on a connection that should be gone      *)

mockVars == <<how, mode, step, pc, ln, port, mockErr, conn, query, during, dgram, ghosts>>
mockSockets == <<pc, ln, port, mockErr>>
trafficVars == <<conn, query, during, dgram, ghosts>>

MockInit ==
  /\ how \in {"blackhole", "refused"}
  /\ mode = "up" /\ step = "before"
  /\ pc = 1 /\ ln = 1 /\ mockErr = FALSE
  /\ port = [p \in {"udp", "tcp"} |-> "mock"]
  /\ conn = [c \in Conns |-> 0] /\ query = [c \in Conns |-> "none"]
  /\ during = [c \in Conns |-> FALSE]
  /\ dgram = [d \in Datagrams |-> "none"]
  /\ ghosts = 0

(* fail: the mode first, and unless it is refused that is all.              *)
Fail ==
  /\ step = "before"
  /\ mode' = how
  /\ step' = IF how = "refused" THEN "closing" ELSE "down"
  /\ UNCHANGED <<how, mockSockets, trafficVars>>

CloseSocketsOnly ==
  /\ step = "closing"
  /\ pc' = 0 /\ port' = [p \in {"udp", "tcp"} |-> "free"]
  /\ step' = "holdUDP"
  /\ UNCHANGED <<how, mode, ln, mockErr, trafficVars>>

(* closeSockets: both sockets, and ln is nil from here on.                  *)
CloseSockets ==
  /\ step = "closing"
  /\ pc' = 0 /\ ln' = 0 /\ port' = [p \in {"udp", "tcp"} |-> "free"]
  /\ step' = "holdUDP"
  /\ UNCHANGED <<how, mode, mockErr, trafficVars>>

HoldOne(p, from, to) ==
  /\ step = from
  /\ IF port[p] = "free"
       THEN port' = [port EXCEPT ![p] = "hold"] /\ step' = to /\ UNCHANGED mockErr
       ELSE mockErr' = TRUE /\ step' = "down" /\ UNCHANGED port
  /\ UNCHANGED <<how, mode, pc, ln, trafficVars>>

(* The ports are held one after the other; a stranger on either is an error *)
(* and fail returns.                                                        *)
HoldPorts == HoldOne("udp", "holdUDP", "holdTCP") \/ HoldOne("tcp", "holdTCP", "down")

(* Anything on the machine may take a port nobody holds.                    *)
StrangerBinds(p) ==
  /\ port[p] = "free"
  /\ port' = [port EXCEPT ![p] = "stranger"]
  /\ UNCHANGED <<how, mode, step, pc, ln, mockErr, trafficVars>>

StrangerLeaves(p) ==
  /\ port[p] = "stranger"
  /\ port' = [port EXCEPT ![p] = "free"]
  /\ UNCHANGED <<how, mode, step, pc, ln, mockErr, trafficVars>>

(* restore, failFor later: the mode is up before the sockets are.  Fifteen  *)
(* seconds have passed: no query is between serveConn's two checks.         *)
Restore ==
  /\ step = "down" /\ \A c \in Conns : query[c] # "known"
  /\ mode' = "up"
  /\ step' = IF how = "refused" THEN "releasing" ELSE "back"
  /\ UNCHANGED <<how, mockSockets, trafficVars>>

ReleaseHolds ==
  /\ step = "releasing"
  /\ port' = [p \in {"udp", "tcp"} |-> IF port[p] = "hold" THEN "free" ELSE port[p]]
  /\ step' = "listenUDP"
  /\ UNCHANGED <<how, mode, pc, ln, mockErr, trafficVars>>

ListenUDP ==
  /\ step = "listenUDP"
  /\ IF port["udp"] = "free"
       THEN port' = [port EXCEPT !["udp"] = "mock"] /\ step' = "listenTCP" /\ UNCHANGED mockErr
       ELSE mockErr' = TRUE /\ step' = "back" /\ UNCHANGED port
  /\ UNCHANGED <<how, mode, pc, ln, trafficVars>>

(* A TCP port that is taken gives the UDP one back.                         *)
ListenTCP ==
  /\ step = "listenTCP"
  /\ IF port["tcp"] = "free"
       THEN port' = [port EXCEPT !["tcp"] = "mock"] /\ step' = "serve" /\ UNCHANGED mockErr
       ELSE port' = [port EXCEPT !["udp"] = "free"] /\ step' = "back" /\ mockErr' = TRUE
  /\ UNCHANGED <<how, mode, pc, ln, trafficVars>>

Serve ==
  /\ step = "serve"
  /\ pc' = 2 /\ ln' = 2 /\ step' = "back"
  /\ UNCHANGED <<how, mode, port, mockErr, trafficVars>>

-----------------------------------------------------------------------------
Accept(c) ==
  /\ conn[c] = 0 /\ ln # 0
  /\ conn' = [conn EXCEPT ![c] = ln]
  /\ UNCHANGED <<how, mode, step, mockSockets, query, during, dgram, ghosts>>

(* serveConn reads a query: any time, an idle connection included.          *)
ReadQuery(c) ==
  /\ conn[c] # 0 /\ query[c] = "none"
  /\ query' = [query EXCEPT ![c] = "read"]
  /\ during' = [during EXCEPT ![c] = step # "before"]
  /\ UNCHANGED <<how, mode, step, mockSockets, conn, dgram, ghosts>>

(* The listener under the lock, then the mode on its own.                   *)
CheckListener(c) ==
  /\ query[c] = "read"
  /\ query' = [query EXCEPT ![c] = IF conn[c] # ln THEN "reset" ELSE "known"]
  /\ UNCHANGED <<how, mode, step, mockSockets, conn, during, dgram, ghosts>>

CheckMode(c) ==
  /\ query[c] = "known"
  /\ query' = [query EXCEPT ![c] = CASE mode = "refused" -> "reset"
                                     [] mode = "blackhole" -> "none"
                                     [] OTHER -> "reply"]
  /\ UNCHANGED <<how, mode, step, mockSockets, conn, during, dgram, ghosts>>

(* The delay, the write, and on to the next query.                          *)
Reply(c) ==
  /\ query[c] = "reply"
  /\ query' = [query EXCEPT ![c] = "none"]
  /\ ghosts' = IF how = "refused" /\ conn[c] = 1 /\ during[c] THEN ghosts + 1 ELSE ghosts
  /\ UNCHANGED <<how, mode, step, mockSockets, conn, during, dgram>>

(* serveUDP: the mode when it is read, and again when it is answered.       *)
ReadDatagram(d) ==
  /\ dgram[d] = "none" /\ pc # 0
  /\ dgram' = [dgram EXCEPT ![d] = IF mode = "up" THEN "reply" ELSE "dropped"]
  /\ UNCHANGED <<how, mode, step, mockSockets, conn, query, during, ghosts>>

AnswerDatagram(d) ==
  /\ dgram[d] = "reply"
  /\ dgram' = [dgram EXCEPT ![d] = IF mode = "up" THEN "sent" ELSE "dropped"]
  /\ UNCHANGED <<how, mode, step, mockSockets, conn, query, during, ghosts>>

Traffic ==
  \/ \E c \in Conns : Accept(c) \/ ReadQuery(c) \/ CheckListener(c) \/ CheckMode(c) \/ Reply(c)
  \/ \E d \in Datagrams : ReadDatagram(d) \/ AnswerDatagram(d)

Schedule ==
  \/ Fail \/ CloseSockets \/ HoldPorts
  \/ Restore \/ ReleaseHolds \/ ListenUDP \/ ListenTCP \/ Serve

MockNext ==
  \/ Schedule \/ Traffic
  \/ \E p \in {"udp", "tcp"} : StrangerBinds(p) \/ StrangerLeaves(p)

MockSpec == MockInit /\ [][MockNext]_mockVars

-----------------------------------------------------------------------------
(* serveConn: "a connection opened before the mock went away is reset with  *)
(* it", also one that sits idle through the outage and asks in the window   *)
(* where the mode is up again and the new listener is not yet the mock's.   *)
GoneStaysGone == ghosts = 0

(* fail and restore: while a refused mock is down without an error nobody   *)
(* else can read its queries, and an outage reported without one brought    *)
(* the mock back on both its ports.                                         *)
OutageAsReported ==
  ~mockErr =>
    /\ step = "down" /\ how = "refused" => \A p \in {"udp", "tcp"} : port[p] = "hold"
    /\ step = "back" => pc # 0 /\ ln # 0 /\ \A p \in {"udp", "tcp"} : port[p] = "mock"

(* An outage without an error was one, and no connection from before it is  *)
(* answered again.                                                          *)
OutageWasOne == GoneStaysGone /\ OutageAsReported
=============================================================================
