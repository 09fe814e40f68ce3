------------------------------ MODULE Pipeline ------------------------------
(* Queries pipelined on one upstream's connection, upstream/pipeline.odin:  *)
(* get_pipe and its dial queue, pipe_query, pipe_wait in which whichever    *)
(* caller finds nobody reading reads for everyone, the kill, the one retry  *)
(* of exchange_pipelined, and the references that keep a connection.        *)
(* Wherever the code looks at a deadline, it may have passed.  An id on the *)
(* wire is the caller it was drawn for: ids count up, so a reply to a       *)
(* caller that has left is nobody's.                                        *)
EXTENDS Naturals, FiniteSets

CONSTANTS
  Callers,     (* callers of exchange                                       *)
  Conns,       (* bound: connections there can be at once                   *)
  Limit,       (* max_outstanding                                           *)
  NoConn       (* no connection                                             *)

ASSUME CallersFinite == IsFiniteSet(Callers)
ASSUME NoConnApart == NoConn \notin Conns

VARIABLES
  pipe,        (* u.pipe                                                    *)
  connecting,  (* u.connecting                                              *)
  conn,        (* connection -> Pipe_Conn                                   *)
  place,       (* caller -> where it is                                     *)
  on,          (* caller -> the connection it is asking on                  *)
  old,         (* caller -> the dead one it keeps while it dials again      *)
  retried,     (* callers on their second connection                        *)
  heard,       (* callers for which something was read since they joined    *)
  got          (* caller -> "nothing", "reply", "error" or "timeout", with  *)
               (* no time left: what its waiter holds, then what pipe_query *)
               (* returns                                                   *)

pipeVars == <<pipe, connecting, conn, place, on, old, retried, heard, got>>
upstreamVars == <<pipe, connecting>>
callerVars == <<on, old, retried>>

PIPE_SILENT_TIMEOUTS == 2

Closed == [refs |-> 0, dead |-> FALSE, reading |-> FALSE, waiters |-> {}, silent |-> 0]

PipeInit ==
  /\ pipe = NoConn /\ connecting = FALSE
  /\ conn = [c \in Conns |-> Closed]
  /\ place = [q \in Callers |-> "out"]
  /\ on = [q \in Callers |-> NoConn] /\ old = [q \in Callers |-> NoConn]
  /\ retried = {} /\ heard = {}
  /\ got = [q \in Callers |-> "nothing"]

-----------------------------------------------------------------------------
(* pipe_unref: the last reference closes the socket and frees it all.       *)
Unref(f, c) ==
  IF c = NoConn THEN f
  ELSE [f EXCEPT ![c] = IF @.refs = 1 THEN Closed ELSE [f[c] EXCEPT !.refs = @ - 1]]
Ref(f, c) == [f EXCEPT ![c].refs = @ + 1]

(* Signalled or timed out, a parked waiter still has to get c.mu: w.parked  *)
(* stays set until then.                                                    *)
Parked(k) == {w \in k.waiters : place[w] \in {"parked", "woken"}}
Signal(ws) == [q \in Callers |-> IF q \in ws /\ place[q] = "parked" THEN "woken" ELSE place[q]]
Broadcast == [q \in Callers |-> IF place[q] = "queued" THEN "get" ELSE place[q]]

(* exchange: a caller comes with a query.                                   *)
Asks(q) ==
  /\ place[q] = "out"
  /\ place' = [place EXCEPT ![q] = "get"]
  /\ UNCHANGED <<upstreamVars, conn, callerVars, heard, got>>

(* exchange_pipelined returns, and f is what it leaves of the connections.  *)
Out(q, f, places) ==
  /\ conn' = f
  /\ place' = [places EXCEPT ![q] = "out"]
  /\ on' = [on EXCEPT ![q] = NoConn] /\ old' = [old EXCEPT ![q] = NoConn]
  /\ retried' = retried \ {q} /\ heard' = heard \ {q}
  /\ got' = [got EXCEPT ![q] = "nothing"]

(* As a mistake would have it: the retry forgets the dead connection.       *)
GotForgetsOld(q, f, c, places) ==
  /\ conn' = f
  /\ place' = [places EXCEPT ![q] = "query"]
  /\ on' = [on EXCEPT ![q] = c] /\ old' = [old EXCEPT ![q] = NoConn]
  /\ UNCHANGED <<retried, heard, got>>

(* get_pipe returns c; a retry now lets go of the dead connection.          *)
Got(q, f, c, places) ==
  /\ conn' = Unref(f, old[q])
  /\ place' = [places EXCEPT ![q] = "query"]
  /\ on' = [on EXCEPT ![q] = c] /\ old' = [old EXCEPT ![q] = NoConn]
  /\ UNCHANGED <<retried, heard, got>>

-----------------------------------------------------------------------------
(* pipe_state: gone when dead, or idle too long with nobody on it.          *)
Shared(idle) == pipe # NoConn /\ ~conn[pipe].dead /\ ~(idle /\ conn[pipe].waiters = {})

(* get_pipe, under u.mu: out of time, the shared connection, one's own      *)
(* beside a full one, the dial of a new one, or the wait for that dial.     *)
GetPipe(q) ==
  /\ place[q] = "get"
  /\ \/ Out(q, Unref(conn, old[q]), place) /\ UNCHANGED upstreamVars
     \/ \E idle \in BOOLEAN :
          /\ Shared(idle) /\ Cardinality(conn[pipe].waiters) < Limit
          /\ Got(q, Ref(conn, pipe), pipe, place)
          /\ UNCHANGED upstreamVars
     \/ /\ Shared(FALSE) /\ Cardinality(conn[pipe].waiters) >= Limit
        /\ place' = [place EXCEPT ![q] = "dialOwn"]
        /\ UNCHANGED <<upstreamVars, conn, callerVars, heard, got>>
     \/ /\ \E idle \in BOOLEAN : ~Shared(idle)
        /\ IF connecting
             THEN place' = [place EXCEPT ![q] = "queued"] /\ UNCHANGED <<upstreamVars, conn>>
             ELSE /\ connecting' = TRUE /\ pipe' = NoConn
                  /\ conn' = Unref(conn, pipe)
                  /\ place' = [place EXCEPT ![q] = "dial"]
        /\ UNCHANGED <<callerVars, heard, got>>

(* cond_wait_with_timeout on conn_cond runs out.                            *)
QueuedTooLong(q) ==
  /\ place[q] = "queued"
  /\ place' = [place EXCEPT ![q] = "get"]
  /\ UNCHANGED <<upstreamVars, conn, callerVars, heard, got>>

(* The shared dial: the upstream's reference and the caller's own.          *)
Dial(q) ==
  /\ place[q] = "dial"
  /\ connecting' = FALSE
  /\ \/ \E c \in Conns :
          /\ conn[c].refs = 0
          /\ pipe' = c
          /\ Got(q, [conn EXCEPT ![c].refs = 2], c, Broadcast)
     \/ Out(q, Unref(conn, old[q]), Broadcast) /\ UNCHANGED pipe

DialOwn(q) ==
  /\ place[q] = "dialOwn"
  /\ \/ \E c \in Conns : conn[c].refs = 0 /\ Got(q, [conn EXCEPT ![c].refs = 1], c, place)
     \/ Out(q, Unref(conn, old[q]), place)
  /\ UNCHANGED upstreamVars

(* close_pipe: from the reaper, or whatever the state of a group that was   *)
(* replaced.                                                                *)
ClosePipe ==
  /\ pipe # NoConn
  /\ pipe' = NoConn /\ conn' = Unref(conn, pipe)
  /\ UNCHANGED <<connecting, place, callerVars, heard, got>>

-----------------------------------------------------------------------------
(* pipe_query, up to the write: dead, turned away by the gate (shut only    *)
(* while its probe is on the connection), or registered.                    *)
Register(q) ==
  LET k == conn[on[q]]
  IN /\ place[q] = "query"
     /\ \/ /\ k.dead \/ k.waiters # {}
           /\ place' = [place EXCEPT ![q] = "left"] /\ got' = [got EXCEPT ![q] = "error"]
           /\ UNCHANGED <<conn, heard>>
        \/ /\ ~k.dead
           /\ conn' = [conn EXCEPT ![on[q]].waiters = @ \cup {q}]
           /\ place' = [place EXCEPT ![q] = "write"]
           /\ UNCHANGED <<heard, got>>
     /\ UNCHANGED <<upstreamVars, callerVars>>

(* pipe_write has wmu, and looks whether whoever was ahead found it dead.   *)
WriteTurn(q) ==
  /\ place[q] = "write"
  /\ \A w \in Callers : on[w] = on[q] => place[w] # "writing"
  /\ place' = [place EXCEPT ![q] = IF conn[on[q]].dead THEN "unwritten" ELSE "writing"]
  /\ UNCHANGED <<upstreamVars, conn, callerVars, heard, got>>

(* The write is over, wmu with it: done, out of time or cancelled with      *)
(* nothing sent, or failed, which pipe_kill tells everybody registered.  A  *)
(* query that has its answer was written.                                   *)
Write(q) ==
  /\ place[q] = "writing"
  /\ \/ place' = [place EXCEPT ![q] = "wait"] /\ UNCHANGED conn
     \/ got[q] = "nothing" /\ place' = [place EXCEPT ![q] = "unwritten"] /\ UNCHANGED conn
     \/ /\ got[q] = "nothing"
        /\ conn' = [conn EXCEPT ![on[q]].dead = TRUE]
        /\ place' = [Signal(conn[on[q]].waiters) EXCEPT ![q] = "unwritten"]
  /\ UNCHANGED <<upstreamVars, callerVars, heard, got>>

(* pipe_query takes its waiter back after a failed write.                   *)
Unwritten(q) ==
  /\ place[q] = "unwritten"
  /\ conn' = [conn EXCEPT ![on[q]].waiters = @ \ {q}]
  /\ place' = [place EXCEPT ![q] = "left"]
  /\ heard' = heard \ {q} /\ got' = [got EXCEPT ![q] = "error"]
  /\ UNCHANGED <<upstreamVars, callerVars>>

-----------------------------------------------------------------------------
(* As a mistake would have it: a caller leaves and wakes nobody.            *)
HandOnForgotten(k, q) == place' = [place EXCEPT ![q] = "left"]

(* pipe_hand_on: one parked waiter is woken, to read.                       *)
HandOn(k, q) ==
  IF Parked(k) \ {q} = {} THEN place' = [place EXCEPT ![q] = "left"]
  ELSE \E w \in Parked(k) \ {q} : place' = [Signal({w}) EXCEPT ![q] = "left"]

(* A caller leaves pipe_wait, with the connection as k: its deferred        *)
(* hand-on, unless somebody reads or there is nothing to read from.         *)
Leave(q, k, result) ==
  /\ conn' = [conn EXCEPT ![on[q]] = k]
  /\ heard' = heard \ {q} /\ got' = [got EXCEPT ![q] = result]
  /\ IF ~k.reading /\ ~k.dead THEN HandOn(k, q)
     ELSE place' = [Signal(IF k.dead THEN k.waiters ELSE {}) EXCEPT ![q] = "left"]

Without(k, q) == [k EXCEPT !.waiters = @ \ {q}]

(* Out of time.  Nobody else on the connection and nothing read off it      *)
(* since this caller joined, twice in a row: it is gone rather than slow.   *)
TimedOut(k, q) ==
  LET mute == q \notin heard /\ k.waiters \subseteq {q}
  IN [Without(k, q) EXCEPT !.silent = IF mute THEN @ + 1 ELSE @,
                           !.dead = mute /\ k.silent + 1 >= PIPE_SILENT_TIMEOUTS]

(* One turn of pipe_wait's loop under c.mu, k being the connection at its   *)
(* top: the reply, a dead connection, the deadline, somebody reading, a     *)
(* cancelled fiber, or the reading.                                         *)
Turn(q, k) ==
  /\ IF got[q] # "nothing" THEN Leave(q, k, got[q])
     ELSE IF k.dead THEN Leave(q, Without(k, q), "error")
     ELSE \/ Leave(q, TimedOut(k, q), "timeout")
          \/ /\ k.reading
             /\ place' = [place EXCEPT ![q] = "parked"]
             /\ UNCHANGED <<conn, heard, got>>
          \/ ~k.reading /\ Leave(q, Without(k, q), "error")
          \/ /\ ~k.reading
             /\ conn' = [conn EXCEPT ![on[q]] = [k EXCEPT !.reading = TRUE]]
             /\ place' = [place EXCEPT ![q] = "reading"]
             /\ UNCHANGED <<heard, got>>
  /\ UNCHANGED <<upstreamVars, callerVars>>

Wait(q) == place[q] \in {"wait", "woken"} /\ Turn(q, conn[on[q]])

ParkedTooLong(q) ==
  /\ place[q] = "parked"
  /\ place' = [place EXCEPT ![q] = "woken"]
  /\ UNCHANGED <<upstreamVars, conn, callerVars, heard, got>>

(* pipe_read_one and pipe_deliver: a reply, in any order, goes to its       *)
(* waiter, or to nobody if that one has left or never was; one that does    *)
(* not answer its query is the waiter's error.  The bytes of a query may be *)
(* out before its write returns.                                            *)
ReadOne(q) ==
  LET c == on[q]
      k == [conn[c] EXCEPT !.silent = 0]
  IN /\ place[q] = "reading"
     /\ heard' = heard \cup k.waiters
     /\ \/ \E w \in k.waiters, r \in {"reply", "error"} :
             /\ place[w] \in {"writing", "wait", "parked", "woken", "reading"}
             /\ conn' = [conn EXCEPT ![c] = Without(k, w)]
             /\ got' = [got EXCEPT ![w] = r]
             /\ place' = [Signal({w}) EXCEPT ![q] = "read"]
        \/ /\ conn' = [conn EXCEPT ![c] = k]
           /\ place' = [place EXCEPT ![q] = "read"]
           /\ UNCHANGED got
     /\ UNCHANGED <<upstreamVars, callerVars>>

(* The reader has c.mu again: after a message, after nothing in its time,   *)
(* or after the peer closed or cut a message short.                         *)
ReadEnds(q) ==
  LET k == [conn[on[q]] EXCEPT !.reading = FALSE]
  IN \/ place[q] \in {"reading", "read"} /\ Turn(q, k)
     \/ place[q] = "reading" /\ Turn(q, [k EXCEPT !.dead = TRUE])

-----------------------------------------------------------------------------
(* exchange_pipelined after pipe_query: a reply the cookie refuses is an    *)
(* error; a first query on a connection found dead is asked again while     *)
(* there is time.                                                           *)
Return(q) ==
  /\ place[q] = "left"
  /\ \/ Out(q, Unref(conn, on[q]), place)
     \/ /\ conn[on[q]].dead /\ got[q] # "timeout" /\ q \notin retried
        /\ place' = [place EXCEPT ![q] = "get"]
        /\ old' = [old EXCEPT ![q] = on[q]] /\ on' = [on EXCEPT ![q] = NoConn]
        /\ retried' = retried \cup {q}
        /\ got' = [got EXCEPT ![q] = "nothing"]
        /\ UNCHANGED <<conn, heard>>
  /\ UNCHANGED upstreamVars

Step(q) ==
  \/ GetPipe(q) \/ QueuedTooLong(q) \/ Dial(q) \/ DialOwn(q) \/ Register(q) \/ WriteTurn(q)
  \/ Write(q) \/ Unwritten(q) \/ Wait(q) \/ ParkedTooLong(q) \/ ReadOne(q) \/ ReadEnds(q)
  \/ Return(q)

PipeNext == ClosePipe \/ \E q \in Callers : Asks(q) \/ Step(q)

PipeSpec == PipeInit /\ [][PipeNext]_pipeVars

-----------------------------------------------------------------------------
On(c, places) == {q \in Callers : on[q] = c /\ place[q] \in places}

(* pipe_wait, pipe_hand_on, pipe_kill: the reading never leaves with a      *)
(* caller.  While somebody is parked on a connection, it is alive and one   *)
(* caller reads, or one that is awake in pipe_wait will look; and never do  *)
(* two read.                                                                *)
NobodyStranded ==
  \A c \in Conns :
    /\ On(c, {"parked"}) # {} =>
         ~conn[c].dead /\ On(c, {"wait", "woken", "reading", "read"}) # {}
    /\ Cardinality(On(c, {"reading", "read"})) = IF conn[c].reading THEN 1 ELSE 0

(* pipe_ref, pipe_unref, get_pipe: a connection has a reference for each    *)
(* caller on it, each that keeps it through its redial, and the upstream    *)
(* while it is shared, so it is closed under nobody and at the last; its    *)
(* waiters are callers still inside pipe_query, whose frames they are in;   *)
(* one caller at a time dials the shared connection.                        *)
RefsHeld ==
  /\ \A c \in Conns :
       /\ conn[c].refs = Cardinality({q \in Callers : on[q] = c})
                           + Cardinality({q \in Callers : old[q] = c})
                           + (IF pipe = c THEN 1 ELSE 0)
       /\ conn[c].waiters \subseteq
            On(c, {"write", "writing", "unwritten", "wait", "parked", "woken", "reading", "read"})
  /\ Cardinality({q \in Callers : place[q] = "dial"}) = IF connecting THEN 1 ELSE 0
  /\ connecting => pipe = NoConn
=============================================================================
