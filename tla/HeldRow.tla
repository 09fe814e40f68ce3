------------------------------- MODULE HeldRow -------------------------------
(* A row of held connections or of queries in flight: harness.once in       *)
(* bench/cmd/bench/scenarios.go and the generator's -once mode, two         *)
(* processes that meet on the generator's stdout and stdin.  The generator  *)
(* prints its result with the connections open and holds them until stdin   *)
(* ends; the orchestrator reads the server's memory meanwhile.              *)
EXTENDS Naturals, FiniteSets

CONSTANTS
  RowClients,    (* the N clients of the row                                   *)
  DialTokens  (* capacity of the dials channel                              *)

ASSUME SomeRow == IsFiniteSet(RowClients) /\ DialTokens \in Nat

VARIABLES
  client,     (* client -> "new", "dialing", "asking", "answered", "failed" *)
  open,       (* clients whose connection is open                           *)
  gen,        (* the generator: "off", "running", "printed", "exited" (0)   *)
              (* or "died"                                                  *)
  stdin,      (* its stdin is open                                          *)
  result,     (* what it printed: answered and errors                       *)
  server,     (* the server under test runs                                 *)
  sampler,    (* the sampler runs                                           *)
  orch,       (* "start", "decode", "settle", "unsample", "hangup", "wait", *)
              (* "stop", "row" or "error"                                   *)
  err,        (* once has an error to return                                *)
  read        (* the connections open when the server was read, and whether *)
              (* it was there to be read: rss is 0 when it was not          *)

heldVars == <<client, open, gen, stdin, result, server, sampler, orch, err, read>>

In(s) == {c \in RowClients : client[c] = s}

HeldInit ==
  /\ client = [c \in RowClients |-> "new"] /\ open = {}
  /\ gen = "off" /\ stdin = TRUE
  /\ result = [answered |-> 0, errors |-> 0]
  /\ server = TRUE /\ sampler = FALSE /\ orch = "start" /\ err = FALSE
  /\ read = [conns |-> {}, up |-> FALSE]

-----------------------------------------------------------------------------
(* The generator.                                                           *)
DialOne(c) ==
  /\ gen = "running" /\ client[c] = "new"
  /\ Cardinality(In("dialing")) < DialTokens
  /\ client' = [client EXCEPT ![c] = "dialing"]
  /\ UNCHANGED <<open, gen, stdin, result, server, sampler, orch, err, read>>

(* The dial ends, in a connection that is kept or in a counted error.       *)
Dialled(c) ==
  /\ gen = "running" /\ client[c] = "dialing"
  /\ \/ server /\ client' = [client EXCEPT ![c] = "asking"] /\ open' = open \cup {c}
     \/ client' = [client EXCEPT ![c] = "failed"] /\ UNCHANGED open
  /\ UNCHANGED <<gen, stdin, result, server, sampler, orch, err, read>>

(* The one question is answered or fails; either way the connection stays   *)
(* in held, except that a stream client closes one that broke.              *)
Asked(c) ==
  /\ gen = "running" /\ client[c] = "asking"
  /\ \/ server /\ client' = [client EXCEPT ![c] = "answered"] /\ UNCHANGED open
     \/ client' = [client EXCEPT ![c] = "failed"] /\ open' \in {open, open \ {c}}
  /\ UNCHANGED <<gen, stdin, result, server, sampler, orch, err, read>>

(* wg.Wait returned; main encodes the result and turns to stdin.            *)
PrintResult ==
  /\ gen = "running"
  /\ \A c \in RowClients : client[c] \in {"answered", "failed"}
  /\ gen' = "printed"
  /\ result' = [answered |-> Cardinality(In("answered")), errors |-> Cardinality(In("failed"))]
  /\ UNCHANGED <<client, open, stdin, server, sampler, orch, err, read>>

HoldCollected ==
  /\ gen = "printed"
  /\ IF stdin
       THEN \E c \in open : open' = open \ {c} /\ UNCHANGED gen
       ELSE gen' = "exited" /\ open' = {}
  /\ UNCHANGED <<client, stdin, result, server, sampler, orch, err, read>>

(* io.Copy returns when stdin ends; KeepAlive has kept every connection     *)
(* reachable, so no finalizer closed one before that.                       *)
Hold ==
  /\ gen = "printed" /\ ~stdin
  /\ gen' = "exited" /\ open' = {}
  /\ UNCHANGED <<client, stdin, result, server, sampler, orch, err, read>>

(* The generator may refuse its arguments, or be killed, at any point.      *)
GenDies ==
  /\ gen \in {"running", "printed"}
  /\ gen' = "died" /\ open' = {}
  /\ UNCHANGED <<client, stdin, result, server, sampler, orch, err, read>>

(* The server may crash, which closes every connection it held.  Its idle   *)
(* timeout, 120 s in these rows, is taken to outlast the row.               *)
ServerDies ==
  /\ server /\ orch # "start"
  /\ server' = FALSE /\ open' = {}
  /\ UNCHANGED <<client, gen, stdin, result, sampler, orch, err, read>>

-----------------------------------------------------------------------------
(* The orchestrator.                                                        *)

(* The sampler first, so the peak covers every outstanding question.        *)
StartOnce ==
  /\ orch = "start"
  /\ \/ sampler' = TRUE /\ gen' = "running" /\ orch' = "decode" /\ UNCHANGED err
     \/ err' = TRUE /\ orch' = "stop" /\ UNCHANGED <<gen, sampler>>
  /\ UNCHANGED <<client, open, stdin, result, server, read>>

Decode ==
  /\ orch = "decode"
  /\ \/ gen = "printed" /\ orch' = "settle" /\ UNCHANGED err
     \/ gen = "died" /\ orch' = "unsample" /\ err' = TRUE
  /\ UNCHANGED <<client, open, gen, stdin, result, server, sampler, read>>

(* A second later, the server's resident memory with what is still open.    *)
ReadServer ==
  /\ orch = "settle"
  /\ read' = [conns |-> open, up |-> server] /\ orch' = "unsample"
  /\ UNCHANGED <<client, open, gen, stdin, result, server, sampler, err>>

StopSampling ==
  /\ orch = "unsample"
  /\ sampler' = FALSE /\ orch' = "hangup"
  /\ UNCHANGED <<client, open, gen, stdin, result, server, err, read>>

HangUp ==
  /\ orch = "hangup"
  /\ stdin' = FALSE /\ orch' = "wait"
  /\ UNCHANGED <<client, open, gen, result, server, sampler, err, read>>

WaitGen ==
  /\ orch = "wait" /\ gen \in {"exited", "died"}
  /\ orch' = "stop" /\ err' = (err \/ gen = "died")
  /\ UNCHANGED <<client, open, gen, stdin, result, server, sampler, read>>

(* The caller stops the server, then looks at the error, then writes.       *)
StopAndWrite ==
  /\ orch = "stop"
  /\ orch' = IF err THEN "error" ELSE "row"
  /\ server' = FALSE /\ open' = {}
  /\ UNCHANGED <<client, gen, stdin, result, sampler, err, read>>

HeldOrch == StartOnce \/ Decode \/ ReadServer \/ StopSampling \/ HangUp \/ WaitGen \/ StopAndWrite
HeldGen == PrintResult \/ Hold \/ \E c \in RowClients : DialOne(c) \/ Dialled(c) \/ Asked(c)
HeldProgress == HeldOrch \/ HeldGen
HeldNext == HeldProgress \/ GenDies \/ ServerDies

(* Dials and queries have deadlines, and both processes are scheduled.      *)
HeldSpec == HeldInit /\ [][HeldNext]_heldVars /\ WF_heldVars(HeldProgress)

-----------------------------------------------------------------------------
(* connections, inflight, heldCell: a row that reads "all" was taken from a *)
(* generator that held all N connections when the server was read (a server *)
(* that had died by then reads as 0); a generator that died meanwhile has   *)
(* no row.  The peak is sampled for as long as a question is outstanding,   *)
(* and a row accounts for every client.                                     *)
HeldWhileRead ==
  /\ (orch = "row" /\ result.answered = Cardinality(RowClients) /\ read.up) =>
       read.conns = RowClients
  /\ orch = "row" => result.answered + result.errors = Cardinality(RowClients)
  /\ (In("asking") # {} /\ gen # "died") => sampler
=============================================================================
