--------------------------------- MODULE Arm ---------------------------------
(* One arm after another of bench/cmd/rrlexp: runMatrix and runArm           *)
(* (main.go), the server process they start and stop (server.go), the soak  *)
(* sampler (soak.go) and internal/procstat's Sampler.  The clients and the  *)
(* outage are goroutines here; ArmSockets, ArmAttempts and MockOutage       *)
(* describe what they do.                                                   *)
EXTENDS Naturals

CONSTANT MaxArms     (* arms of the matrix                                  *)

ASSUME ArmsCounted == MaxArms \in Nat

VARIABLES
  arm,         (* the arm being run                                         *)
  has,         (* what it has, of {"attacker", "outage", "samples"}         *)
  at,          (* where runArm is                                           *)
  procs,       (* arms whose server process is alive                        *)
  termed,      (* the arm's server has been sent SIGTERM                    *)
  running,     (* goroutines of the arm, of {"warm", "attacker", "victim",  *)
               (* "soak", "procstat", "outage"}                             *)
  told,        (* those that have been told to stop                         *)
  mocks,       (* the arm's own mock upstreams are listening                *)
  oerr,        (* the outage met an error                                   *)
  armResult,   (* what runArm returns: "none", "row" or "error"             *)
  scraped,     (* the server had not been signalled when it was counted;    *)
               (* it may have died of itself                                *)
  rows, skips, (* rows and skips so far                                     *)
  ended        (* the process: "no", "reported", "failed" or "died"         *)

armVars == <<arm, has, at, procs, termed, running, told, mocks, oerr, armResult, scraped,
             rows, skips, ended>>
life == <<arm, has, rows, skips, ended>>

ArmInit ==
  /\ arm = 1 /\ has = {} /\ at = "pick" /\ procs = {} /\ termed = FALSE
  /\ running = {} /\ told = {} /\ mocks = FALSE /\ oerr = FALSE
  /\ armResult = "none" /\ scraped = FALSE /\ rows = 0 /\ skips = 0 /\ ended = "no"

(* runMatrix: the next arm, skipped when the machine lacks one of its       *)
(* addresses.  The last one over, the report is printed.                    *)
Pick ==
  /\ at = "pick" /\ ended = "no"
  /\ \/ /\ arm <= MaxArms
        /\ has' \in SUBSET {"attacker", "outage", "samples"}
        /\ at' = IF "outage" \in has' THEN "outage" ELSE "server"
        /\ UNCHANGED <<arm, rows, skips, ended>>
     \/ /\ arm <= MaxArms
        /\ arm' = arm + 1 /\ skips' = skips + 1
        /\ UNCHANGED <<has, at, rows, ended>>
     \/ /\ arm > MaxArms
        /\ ended' = "reported"
        /\ UNCHANGED <<arm, has, at, rows, skips>>
  /\ UNCHANGED <<procs, termed, running, told, mocks, oerr, armResult, scraped>>

(* startOutage: both mocks, or neither and an error.                        *)
StartOutage ==
  /\ at = "outage"
  /\ \/ mocks' = TRUE /\ at' = "server" /\ UNCHANGED armResult
     \/ armResult' = "error" /\ at' = "unwind" /\ UNCHANGED mocks
  /\ UNCHANGED <<life, procs, termed, running, told, oerr, scraped>>

(* startServer up to cmd.Start: ports, certificate and file may fail too.   *)
StartServer ==
  /\ at = "server"
  /\ \/ procs' = procs \cup {arm} /\ at' = "ready" /\ UNCHANGED armResult
     \/ armResult' = "error" /\ at' = "unwind" /\ UNCHANGED procs
  /\ UNCHANGED <<life, termed, running, told, mocks, oerr, scraped>>

(* waitReady and unitenv.Check: a server that never answers, or was not     *)
(* started as the unit starts it, is stopped and is an error.               *)
Ready ==
  /\ at = "ready"
  /\ \/ arm \in procs /\ at' = "warm" /\ UNCHANGED armResult
     \/ armResult' = "error" /\ at' = "unwind"
  /\ UNCHANGED <<life, procs, termed, running, told, mocks, oerr, scraped>>

(* runClient: a client that cannot open its sockets ends the process there  *)
(* and then.                                                                *)
Client(name, from, to) ==
  /\ at = from
  /\ \/ running' = running \cup {name} /\ at' = to /\ UNCHANGED ended
     \/ ended' = "died" /\ at' = "over" /\ UNCHANGED running
  /\ UNCHANGED <<arm, has, procs, termed, told, mocks, oerr, armResult, scraped, rows, skips>>

(* A goroutine that has been told to stop is gone.                          *)
Tell(name, from, to) ==
  /\ at = from
  /\ told' = told \cup {name}
  /\ at' = IF name \in running THEN at ELSE to
  /\ UNCHANGED <<life, procs, termed, running, mocks, oerr, armResult, scraped>>

Leaves(name) ==
  /\ name \in running /\ name \in told
  /\ running' = running \ {name}
  /\ UNCHANGED <<life, at, procs, termed, told, mocks, oerr, armResult, scraped>>

WarmUp ==
  \/ IF "attacker" \in has THEN Client("warm", "warm", "warming")
     ELSE /\ at = "warm" /\ at' = "watch"
          /\ UNCHANGED <<life, procs, termed, running, told, mocks, oerr, armResult, scraped>>
  \/ Tell("warm", "warming", "watch")

(* procstat's sampler, then the clients, the schedule and the soak sampler. *)
Watch ==
  /\ at = "watch"
  /\ running' = running \cup {"procstat"}
  /\ at' = IF "attacker" \in has THEN "attack" ELSE "victim"
  /\ UNCHANGED <<life, procs, termed, told, mocks, oerr, armResult, scraped>>

Attack == Client("attacker", "attack", "victim")
Victim == Client("victim", "victim", "load")

Load ==
  /\ at = "load"
  /\ running' = running \cup (IF "outage" \in has THEN {"outage"} ELSE {})
                        \cup (IF "samples" \in has THEN {"soak"} ELSE {})
  /\ at' = "stopVictim"
  /\ UNCHANGED <<life, procs, termed, told, mocks, oerr, armResult, scraped>>

(* The schedule runs to its end by itself.                                  *)
OutageEnds ==
  /\ "outage" \in running
  /\ running' = running \ {"outage"}
  /\ oerr' \in BOOLEAN
  /\ UNCHANGED <<life, at, procs, termed, told, mocks, armResult, scraped>>

StopSoakUnawaited ==
  /\ at = "stopSoak"
  /\ told' = told \cup {"soak"} /\ at' = "stopProcstat"
  /\ UNCHANGED <<life, procs, termed, running, mocks, oerr, armResult, scraped>>

(* soaking(): close(done) and wait for the sampler to have stopped.         *)
StopSoak == Tell("soak", "stopSoak", "stopProcstat")

(* The window is over: each is stopped and waited for, in this order.       *)
StopLoad ==
  \/ Tell("victim", "stopVictim", "stopAttacker")
  \/ Tell("attacker", "stopAttacker", "stopSoak")
  \/ StopSoak
  \/ Tell("procstat", "stopProcstat", "wait")

(* o.wait: an outage that met an error is no row.                           *)
Wait ==
  /\ at = "wait" /\ "outage" \notin running
  /\ \/ oerr /\ armResult' = "error" /\ at' = "unwind"
     \/ ~oerr /\ at' = "counters" /\ UNCHANGED armResult
  /\ UNCHANGED <<life, procs, termed, running, told, mocks, oerr, scraped>>

(* The server's own counters, read before it is signalled.                  *)
Counters ==
  /\ at = "counters"
  /\ scraped' = ~termed
  /\ armResult' = "row" /\ at' = "unwind"
  /\ UNCHANGED <<life, procs, termed, running, told, mocks, oerr>>

(* srv.stop, by hand or deferred: SIGTERM, and after 15 s SIGKILL.          *)
Signal ==
  /\ at = "unwind" /\ arm \in procs /\ ~termed
  /\ termed' = TRUE
  /\ UNCHANGED <<life, at, procs, running, told, mocks, oerr, armResult, scraped>>

Exits ==
  /\ arm \in procs
  /\ procs' = procs \ {arm}
  /\ UNCHANGED <<life, at, termed, running, told, mocks, oerr, armResult, scraped>>

(* stop returns once the process is gone; then the deferred o.stop.         *)
Unwind ==
  /\ at = "unwind" /\ arm \notin procs
  /\ mocks' = FALSE /\ at' = "closing"
  /\ UNCHANGED <<life, procs, termed, running, told, oerr, armResult, scraped>>

(* runMatrix again: an error ends the process, a row is kept.               *)
Return ==
  /\ at = "closing"
  /\ at' = IF armResult = "row" THEN "pick" ELSE "over"
  /\ ended' = IF armResult = "row" THEN "no" ELSE "failed"
  /\ rows' = IF armResult = "row" THEN rows + 1 ELSE rows
  /\ arm' = IF armResult = "row" THEN arm + 1 ELSE arm
  /\ armResult' = "none" /\ has' = {} /\ told' = {} /\ termed' = FALSE /\ oerr' = FALSE
  /\ scraped' = FALSE
  /\ UNCHANGED <<procs, running, mocks, skips>>

Main ==
  \/ Pick \/ StartOutage \/ StartServer \/ Ready \/ WarmUp \/ Watch \/ Attack \/ Victim
  \/ Load \/ StopLoad \/ Wait \/ Counters \/ Signal \/ Unwind \/ Return

(* The harness is scheduled, its goroutines end when told, the outage's     *)
(* schedule is shorter than the arm, and a signalled server exits or is     *)
(* killed.                                                                  *)
ArmProgress ==
  \/ Main \/ OutageEnds \/ (termed /\ Exits)
  \/ \E g \in {"warm", "attacker", "victim", "soak", "procstat"} : Leaves(g)

ArmNext == ArmProgress \/ (~termed /\ Exits)

ArmSpec == ArmInit /\ [][ArmNext]_armVars /\ WF_armVars(ArmProgress)

-----------------------------------------------------------------------------
(* startServer, stop: one server at a time, and none left when runArm has   *)
(* returned, whichever of its steps failed.                                 *)
ServersStopped ==
  /\ \A a \in procs : a = arm
  /\ at = "pick" \/ ended \in {"reported", "failed"} => procs = {} /\ ~mocks

(* runArm's row: nobody is still writing what the report reads, and the     *)
(* server's counters are those of a server not yet told to stop.            *)
RowSettled == at = "closing" /\ armResult = "row" => running = {} /\ scraped

(* One server at a time and none left behind, and nobody still writes what  *)
(* a row reads.                                                             *)
ArmLeavesNothing == ServersStopped /\ RowSettled
=============================================================================
