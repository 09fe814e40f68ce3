------------------------------ MODULE Serving ------------------------------
(* What takes queries in and how it is stopped: the table of server/        *)
(* conns.odin, a UDP reader and an accept loop of server/listeners.odin, the *)
(* queries in flight of server/queries.odin, and the shutdown main/main.odin *)
(* runs when it is told to stop.  The listeners are up at the start; those   *)
(* of a start that failed end with the process.                              *)
EXTENDS Naturals, Sequences, FiniteSets

CONSTANTS
  reader,        (* the UDP read loop                                       *)
  accepter,      (* the accept loop                                         *)
  Clients,       (* bound: connections there can be at once, and more       *)
  Jobs,          (* bound: queries on fibers of their own at once, and more *)
  client_prefix, (* connection -> the prefix it comes from                  *)
  limit, prefix_limit, (* of Conn_Manager                                   *)
  max_pending,
  Refresh        (* what a job of nobody's is from                          *)

ASSUME ServersFinite == IsFiniteSet(Clients) /\ IsFiniteSet(Jobs)
ASSUME FibersApart == reader # accepter /\ {reader, accepter} \cap Clients = {}
                      /\ Refresh \notin Clients \cup {reader, accepter}
ASSUME LimitsNat == {limit, prefix_limit, max_pending} \subseteq Nat

VARIABLES
  main,          (* where the shutdown is                                   *)
  stop,          (* Listeners.stop                                          *)
  entries, permanent, stopped,  (* Conn_Manager                             *)
  index,         (* fiber -> Conn_Entry.index, 0 for no entry               *)
  fiber,         (* fiber -> where it is                                    *)
  cancelled,     (* the fibers loop.cancel was called for                   *)
  reader_holds,  (* Udp_Reader.holds                                        *)
  open,          (* of the reader's socket, the listening socket, and the   *)
                 (* contexts of the two loops, those not closed or freed    *)
  pending,       (* Server.pending                                          *)
  job            (* query -> its fiber, and what started it                 *)

servingVars == <<main, stop, entries, permanent, stopped, index, fiber, cancelled, reader_holds,
                 open, pending, job>>
tableVars == <<entries, permanent, index>>
stopVars == <<main, stop, stopped, cancelled>>

Loops == {reader, accepter}
Fibers == Loops \cup Clients
NoJob == [st |-> "none", from |-> Refresh]

ServingInit ==
  /\ main = "serving" /\ stop = FALSE /\ stopped = FALSE /\ cancelled = {}
  /\ entries = <<reader, accepter>> /\ permanent = 2
  /\ index = [f \in Fibers |-> CASE f = reader -> 1 [] f = accepter -> 2 [] OTHER -> 0]
  /\ fiber = [f \in Fibers |-> IF f \in Loops THEN "top" ELSE "none"]
  /\ reader_holds = 1
  /\ open = {"udp", "listening", "contexts"}
  /\ pending = 0 /\ job = [j \in Jobs |-> NoJob]

Listed == {entries[i] : i \in DOMAIN entries}
Connections == Listed \ Loops

-----------------------------------------------------------------------------
(* conn_entry_remove_locked: the last entry takes the place of e.           *)
RemovedKeepingIndex(e) ==
  LET moved == entries[Len(entries)]
  IN /\ entries' = SubSeq([entries EXCEPT ![index[e]] = moved], 1, Len(entries) - 1)
     /\ permanent' = IF e \in Loops THEN permanent - 1 ELSE permanent
     /\ index' = [index EXCEPT ![e] = 0]
Removed(e) ==
  LET moved == entries[Len(entries)]
  IN /\ entries' = SubSeq([entries EXCEPT ![index[e]] = moved], 1, Len(entries) - 1)
     /\ index' = [index EXCEPT ![moved] = index[e], ![e] = 0]
     /\ permanent' = IF e \in Loops THEN permanent - 1 ELSE permanent

(* conn_entry_run, once fn has returned.                                    *)
Leave(e) ==
  /\ fiber[e] = "leaving"
  /\ Removed(e)
  /\ fiber' = [fiber EXCEPT ![e] = "none"]
  /\ UNCHANGED <<stopVars, reader_holds, open, pending, job>>

(* release_udp_reader: the last use closes the socket.                      *)
ReleaseReader ==
  /\ reader_holds' = reader_holds - 1
  /\ open' = IF reader_holds = 1 THEN open \ {"udp"} ELSE open

(* submit_query, when it starts a fiber for j.                              *)
Submitted(j, from) ==
  /\ job[j].st = "none" /\ (max_pending > 0 => pending < max_pending)
  /\ pending' = pending + 1
  /\ job' = [job EXCEPT ![j] = [st |-> "flying", from |-> from]]

-----------------------------------------------------------------------------
(* udp_loop and accept_loop: stop is looked at before the wait, and a wait  *)
(* that was cancelled ends the loop; one that had its datagram or           *)
(* connection goes on with it.                                              *)
LoopTop(f) ==
  /\ fiber[f] = "top"
  /\ fiber' = [fiber EXCEPT ![f] = IF stop THEN "leaving" ELSE "waiting"]
  /\ UNCHANGED <<stopVars, tableVars, reader_holds, open, pending, job>>

LoopWait(f) ==
  /\ fiber[f] = "waiting"
  /\ \/ fiber' = [fiber EXCEPT ![f] = "got"]
     \/ f \in cancelled /\ fiber' = [fiber EXCEPT ![f] = "leaving"]
  /\ UNCHANGED <<stopVars, tableVars, reader_holds, open, pending, job>>

(* udp_loop with a datagram: dropped, or a use of the socket taken for it.  *)
ReaderTakes ==
  /\ fiber[reader] = "got"
  /\ \/ fiber' = [fiber EXCEPT ![reader] = "top"] /\ UNCHANGED reader_holds
     \/ fiber' = [fiber EXCEPT ![reader] = "held"] /\ reader_holds' = reader_holds + 1
  /\ UNCHANGED <<stopVars, tableVars, open, pending, job>>

(* submit_query starts udp_job, or the use is given back.                   *)
ReaderSubmits ==
  /\ fiber[reader] = "held"
  /\ fiber' = [fiber EXCEPT ![reader] = "top"]
  /\ \/ (\E j \in Jobs : Submitted(j, reader)) /\ UNCHANGED <<reader_holds, open>>
     \/ ReleaseReader /\ UNCHANGED <<pending, job>>
  /\ UNCHANGED <<stopVars, tableVars>>

(* conn_spawn for an accepted connection: a table that was shut, its limit, *)
(* the prefix's share, or a stack that cannot be had, and the connection is *)
(* closed again.                                                            *)
Share(p) == {c \in Connections : client_prefix[c] = p}

Admits(c) ==
  /\ ~stopped
  /\ Len(entries) - permanent < limit
  /\ prefix_limit > 0 => Cardinality(Share(client_prefix[c])) < prefix_limit

ConnSpawn ==
  /\ fiber[accepter] = "got"
  /\ \/ fiber' = [fiber EXCEPT ![accepter] = "top"] /\ UNCHANGED <<tableVars>>
     \/ \E c \in Clients :
          /\ fiber[c] = "none" /\ Admits(c)
          /\ entries' = Append(entries, c)
          /\ index' = [index EXCEPT ![c] = Len(entries) + 1]
          /\ fiber' = [fiber EXCEPT ![accepter] = "top", ![c] = "serving"]
          /\ UNCHANGED permanent
  /\ UNCHANGED <<stopVars, reader_holds, open, pending, job>>

-----------------------------------------------------------------------------
(* A connection starts a query of its own, HTTP/2's, or a refresh.          *)
ConnAsks(c) ==
  /\ fiber[c] = "serving"
  /\ \E j \in Jobs, from \in {c, Refresh} : Submitted(j, from)
  /\ UNCHANGED <<stopVars, tableVars, fiber, reader_holds, open>>

(* stream_job returns, with no query of its own left on it                  *)
(* (h2.conn_wait_idle).                                                     *)
ConnEnds(c) ==
  /\ fiber[c] = "serving"
  /\ \A j \in Jobs : job[j].from = c => job[j].st \notin {"flying", "answered"}
  /\ fiber' = [fiber EXCEPT ![c] = "leaving"]
  /\ UNCHANGED <<stopVars, tableVars, reader_holds, open, pending, job>>

(* A query finds its entry expired and starts the refresh of it.            *)
JobRefreshes(j) ==
  /\ job[j].st = "flying" /\ job[j].from # Refresh
  /\ \E r \in Jobs : Submitted(r, Refresh)
  /\ UNCHANGED <<stopVars, tableVars, fiber, reader_holds, open>>

JobAnswers(j) ==
  /\ job[j].st = "flying"
  /\ job' = [job EXCEPT ![j].st = "answered"]
  /\ UNCHANGED <<stopVars, tableVars, fiber, reader_holds, open, pending>>

(* The end of udp_job and h2_job: the socket or the connection is let go,   *)
(* and last query_done.                                                     *)
JobReleases(j) ==
  /\ job[j].st = "answered"
  /\ job' = [job EXCEPT ![j].st = "released"]
  /\ IF job[j].from = reader THEN ReleaseReader ELSE UNCHANGED <<reader_holds, open>>
  /\ UNCHANGED <<stopVars, tableVars, fiber, pending>>

query_done(j) ==
  /\ job[j].st = "released"
  /\ job' = [job EXCEPT ![j] = NoJob]
  /\ pending' = pending - 1
  /\ UNCHANGED <<stopVars, tableVars, fiber, reader_holds, open>>

-----------------------------------------------------------------------------
(* stop_listeners, up to conn_manager_stop_permanent's wait.                *)
StopListeners ==
  /\ main = "serving"
  /\ stop' = TRUE /\ main' = "cancel"
  /\ UNCHANGED <<stopped, cancelled, tableVars, fiber, reader_holds, open, pending, job>>

CancelPermanent ==
  /\ main = "cancel"
  /\ cancelled' = Listed \cap Loops /\ main' = "loops"
  /\ UNCHANGED <<stop, stopped, tableVars, fiber, reader_holds, open, pending, job>>

(* The loops have left: their sockets.                                      *)
LoopsLeftUnseen == main = "loops"
LoopsLeft == main = "loops" /\ permanent = 0

CloseSockets ==
  /\ LoopsLeft
  /\ reader_holds' = reader_holds - 1
  /\ open' = (IF reader_holds = 1 THEN open \ {"udp"} ELSE open) \ {"listening"}
  /\ main' = "shut"
  /\ UNCHANGED <<stop, stopped, cancelled, tableVars, fiber, pending, job>>

(* conn_manager_shutdown.                                                   *)
ShutTable ==
  /\ main = "shut"
  /\ stopped' = TRUE /\ main' = "connections"
  /\ UNCHANGED <<stop, cancelled, tableVars, fiber, reader_holds, open, pending, job>>

TableEmpty ==
  /\ main = "connections" /\ entries = <<>>
  /\ main' = "drain"
  /\ UNCHANGED <<stop, stopped, cancelled, tableVars, fiber, reader_holds, open, pending, job>>

(* drain_queries, stop_loops and destroy_listeners.                         *)
Drained ==
  /\ main = "drain" /\ pending = 0
  /\ main' = "over" /\ open' = {}
  /\ UNCHANGED <<stop, stopped, cancelled, tableVars, fiber, reader_holds, pending, job>>

Shutdown ==
  \/ StopListeners \/ CancelPermanent \/ CloseSockets \/ ShutTable \/ TableEmpty \/ Drained

ServingNext ==
  \/ \E f \in Loops : LoopTop(f) \/ LoopWait(f)
  \/ ReaderTakes \/ ReaderSubmits \/ ConnSpawn
  \/ \E c \in Clients : ConnAsks(c) \/ ConnEnds(c)
  \/ \E f \in Fibers : Leave(f)
  \/ \E j \in Jobs : JobRefreshes(j) \/ JobAnswers(j) \/ JobReleases(j) \/ query_done(j)
  \/ Shutdown

ServingSpec == ServingInit /\ [][ServingNext]_servingVars

-----------------------------------------------------------------------------
(* Every variable stays in its range; no count goes below zero.             *)
ServingTypeOK ==
  /\ main \in {"serving", "cancel", "loops", "shut", "connections", "drain", "over"}
  /\ stop \in BOOLEAN /\ stopped \in BOOLEAN /\ cancelled \in SUBSET Fibers
  /\ entries \in Seq(Fibers) /\ permanent \in Nat
  /\ index \in [Fibers -> Nat]
  /\ fiber \in [Fibers -> {"none", "top", "waiting", "got", "held", "serving", "leaving"}]
  /\ reader_holds \in Nat /\ open \in SUBSET {"udp", "listening", "contexts"}
  /\ pending \in Nat
  /\ job \in [Jobs -> [st : {"none", "flying", "answered", "released"}, from : Fibers \cup {Refresh}]]

(* conn_spawn, conn_entry_remove_locked and its assertion: the table has    *)
(* each running fiber once, where it thinks it is, and no more connections  *)
(* than the limit and the prefix's share; nothing starts in a table that    *)
(* shutdown has found empty.                                                *)
TableSound ==
  /\ ServingTypeOK
  /\ \A f \in Fibers : fiber[f] # "none" => index[f] \in DOMAIN entries /\ entries[index[f]] = f
  /\ Len(entries) = Cardinality({f \in Fibers : fiber[f] # "none"})
  /\ permanent = Cardinality(Listed \cap Loops)
  /\ Cardinality(Connections) <= limit
  /\ prefix_limit > 0 => \A c \in Clients : Cardinality(Share(client_prefix[c])) <= prefix_limit
  /\ main \in {"drain", "over"} => \A f \in Fibers : fiber[f] = "none"

(* stop_listeners, release_udp_reader, drain_queries, destroy_listeners: no *)
(* socket is closed under a loop that waits on it or a query that answers   *)
(* on it, no context freed under anything, the reader's socket is closed as *)
(* soon as nobody uses it, and the queries in flight are counted.           *)
NothingClosedUnder ==
  LET uses == {j \in Jobs : job[j].from = reader /\ job[j].st \in {"flying", "answered"}}
      flying == {j \in Jobs : job[j].st # "none"}
  IN /\ fiber[reader] # "none" \/ uses # {} => "udp" \in open
     /\ fiber[reader] = "none" /\ uses = {} /\ main \notin {"serving", "cancel", "loops"}
          => "udp" \notin open
     /\ fiber[accepter] # "none" => "listening" \in open
     /\ (\E f \in Fibers : fiber[f] # "none") \/ flying # {} => "contexts" \in open
     /\ pending = Cardinality(flying)
=============================================================================
