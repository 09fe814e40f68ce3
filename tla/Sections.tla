------------------------------ MODULE Sections ------------------------------
(* The benchmark orchestrator, bench/cmd/bench: main, setup, runAll and the *)
(* sections it runs, each of which starts servers, loads them and writes    *)
(* rows.  A section is the sequence of what its function does, with what    *)
(* follows when a step fails; the actions below take one step at a time     *)
(* and any step may fail.  A section's loop over servers or settings runs   *)
(* twice here, its loop over transports twice.                              *)
EXTENDS Naturals, Sequences

CONSTANTS
  Filters     (* the sets of sections -only and -survey may select          *)

(* A step and what its failure does:                                        *)
(*   "return"  the section returns the error, deferred stop first           *)
(*   "stop"    the section stops its server and returns the error           *)
(*   "carry"   the error is kept and looked at by Check                     *)
(*   "cell"    the cell reads "failed"; on with what follows its row        *)
(*   "kind"    the table row reads "failed"; on with the next server        *)
Step(o, f) == [op |-> o, fail |-> f]
StartNow(f) == Step("start", f)
StartDeferred(f) == Step("startDeferred", f)
Loads(f) == Step("load", f)
Expect(f) == Step("expect", f)
Once(f) == Step("once", f)
Room(f) == Step("room", f)
Blocks(f) == Step("blocks", f)
Mock == Step("mock", "return")
Gate == Step("gate", "return")
Check(f) == Step("check", f)
Rss == Step("rss", "none")
StopNow == Step("stop", "none")
ReturnNow == Step("return", "none")
RemoveLog == Step("removeLog", "none")
Row == Step("row", "none")
Maybe == Step("maybe", "none")     (* the row may not apply: "—"            *)
NextKind == Step("kind", "none")
Twice(s) == s \o s

(* The sections.                                                            *)
Workloads == <<StartDeferred("return"),
  Loads("return"), Row,
  Loads("return"), Expect("return"), Row,
  Loads("return"), Expect("return"), Row,
  Loads("return"), Row,
  Loads("return"), Expect("return"), Row, ReturnNow>>
Transports == <<StartDeferred("return"), Loads("return"), Row, Loads("return"), Row,
                Loads("return"), Row, ReturnNow>>
H1VersusH2 == <<StartDeferred("return"), Loads("return"), Row, Loads("return"), Row, ReturnNow>>
CpuPerQuery == Twice(<<StartNow("return"), Loads("stop"), Row, Maybe, Loads("stop"), Row, StopNow>>)
Handshakes == Twice(<<StartNow("return"), Loads("carry"), StopNow, Check("return"), Row>>)
IdleRSS(f) == <<StartDeferred(f), Rss, ReturnNow>>
CacheFilledRSS == <<StartDeferred("return"), Rss, Loads("return"), ReturnNow>>
Memory == IdleRSS("return") \o <<Row>> \o IdleRSS("return") \o <<Row>>
            \o CacheFilledRSS \o CacheFilledRSS \o <<Row, Row>>
Shedding == Twice(<<StartNow("return"), Loads("carry"), StopNow, Check("return"), Row>>)
Loops == <<Gate>> \o Twice(<<StartNow("return"), Loads("carry"), Expect("carry"), Loads("carry"),
                             StopNow, Check("return"), Row>>)
Misses == Twice(<<Mock>> \o Twice(<<StartNow("return"), Loads("carry"), StopNow, Expect("carry"),
                                    Check("return"), Row>>))
Connections == Twice(<<Maybe, StartNow("return"), Rss, Once("carry"), StopNow, Check("return"), Row>>)
InFlight == <<Mock>> \o Twice(<<StartNow("return"), Rss, Once("carry"), StopNow, Check("return"), Row>>)
Latency == Twice(<<StartNow("return"), Loads("stop"), Expect("stop"), Row,
                   Loads("stop"), Expect("stop"), Row, StopNow>>)
LoggingCost ==
  LET logged == <<StartNow("return"), Loads("carry"), StopNow, Room("carry"), RemoveLog,
                  Check("return"), Row>>
  IN Twice(logged) \o logged

(* compare's four tables.                                                   *)
ListRSS == <<StartDeferred("cell"), Blocks("cell"), Rss, ReturnNow>>
PerCacheEntry == Twice(<<StartDeferred("cell"), Loads("cell"), Expect("cell"), Rss, ReturnNow>>)
CompareMemory == IdleRSS("cell") \o <<Row, Maybe>> \o ListRSS \o <<Row>> \o PerCacheEntry \o <<Row>>
HitCell == <<Maybe, Loads("cell"), Expect("cell"), Row>>
BlockedCell == <<Maybe, StartDeferred("cell"), Blocks("cell"), Loads("cell"), Expect("cell"), ReturnNow, Row>>
CompareHits == Twice(<<StartNow("kind")>> \o HitCell \o HitCell \o <<StopNow>> \o BlockedCell \o <<NextKind>>)
MissRow == <<Loads("carry"), Loads("carry"), Expect("carry"), Loads("carry"), Expect("carry")>>
CompareMisses == Twice(<<StartNow("kind")>> \o MissRow \o <<StopNow, Check("kind"), Row, NextKind>>)
HeldCell == <<Maybe, StartNow("cell"), Rss, Once("carry"), StopNow, Check("cell"), Row>>
InFlightCell == <<StartNow("cell"), Rss, Once("carry"), StopNow, Check("cell"), Row>>
CompareHeld == <<Mock>> \o Twice(HeldCell \o InFlightCell)
Compare == <<Gate>> \o CompareMemory \o CompareHits \o CompareMisses \o CompareHeld

(* dnssecSurvey, which -survey runs instead of any section: the domains,    *)
(* then every one of them asked; a question that fails is a verdict too.    *)
Survey == <<Step("domains", "return"), StartDeferred("return"), Step("ask", "none"), Row, ReturnNow>>

(* runAll's steps, in order, and the survey.                                *)
Steps == <<"workloads", "transports", "h1h2", "cpu", "handshake", "memory", "shedding",
           "loops", "misses", "connections", "inflight", "latency", "logging", "compare", "survey">>
Scripts == <<Workloads, Transports, H1VersusH2, CpuPerQuery, Handshakes, Memory, Shedding,
             Loops, Misses, Connections, InFlight, Latency, LoggingCost, Compare, Survey>>

-----------------------------------------------------------------------------
(* What the sections' functions keep to, read off their text.  Whether      *)
(* something holds when a step is reached depends on the steps before it:   *)
(* one of "on" and none of "off" since.                                     *)
Opens == {"start", "startDeferred"}
Closes == {"stop", "return"}
Measures == {"load", "expect", "once", "room", "blocks", "rss", "domains", "ask"}
ReadsProc == {"load", "once", "rss"}   (* those that read /proc             *)
Ops == Opens \cup Closes \cup Measures
         \cup {"check", "row", "mock", "gate", "maybe", "kind", "removeLog"}
Failures == {"return", "stop", "carry", "cell", "kind", "none"}

Since(i, on, off) == \E j \in on : j < i /\ \A k \in off : ~(j < k /\ k < i)
Where(s, ops) == {j \in 1..Len(s) : s[j].op \in ops}
RowsFinal(s) == {j \in Where(s, {"row"}) : ~(j < Len(s) /\ s[j + 1].op = "row")}

Up(s, i) == Since(i, Where(s, Opens), Where(s, Closes))
UpDeferred(s, i) == Since(i, Where(s, {"startDeferred"}), Where(s, {"start"} \cup Closes))
MayErr(s, i) == Since(i, {j \in 1..Len(s) : s[j].fail = "carry"}, Where(s, {"check"}))
Measured(s, i) == Since(i, Where(s, Measures), Where(s, Opens \cup {"kind"}) \cup RowsFinal(s))
MayLog(s, i) == Since(i, Where(s, Measures), Where(s, {"removeLog"}))

(* Where a failed cell, a failed row or a row that does not apply goes on.  *)
NextOp(s, i, o) == {r \in i..Len(s) : s[r].op = o /\ \A j \in i..(r - 1) : s[j].op # o}
GoesOn(s, i, o, up, deferring) ==
  /\ NextOp(s, i, o) # {}
  /\ \A r \in NextOp(s, i, o) :
       /\ Up(s, r + 1) <=> up
       /\ UpDeferred(s, r + 1) <=> deferring
       /\ r \in Where(s, {"kind"}) \cup RowsFinal(s)

StepKept(s, i) ==
  /\ s[i].op \in Opens => ~Up(s, i) /\ s[i].fail \in {"return", "cell", "kind"}
  /\ s[i].op = "stop" => Up(s, i) /\ ~UpDeferred(s, i)
  /\ s[i].op = "return" => UpDeferred(s, i)
  /\ s[i].op \in ReadsProc => Up(s, i)
  /\ s[i].op = "gate" => i = 1
  /\ s[i].op = "row" => Measured(s, i) /\ ~MayErr(s, i)
  /\ s[i].op = "maybe" => ~MayErr(s, i) /\ GoesOn(s, i, "row", Up(s, i), UpDeferred(s, i))
  /\ s[i].op \in {"check", "mock"} => s[i].fail \notin {"carry", "none"}
  /\ s[i].fail = "return" => ~Up(s, i) \/ UpDeferred(s, i)
  /\ s[i].fail = "stop" => Up(s, i) /\ ~UpDeferred(s, i)
  /\ s[i].fail = "cell" => GoesOn(s, i, "row", Up(s, i) /\ ~UpDeferred(s, i), FALSE)
  /\ s[i].fail = "kind" => GoesOn(s, i, "kind", Up(s, i) /\ ~UpDeferred(s, i), FALSE)

(* The section that logs queries to disk: it never leaves before the log is *)
(* removed.                                                                 *)
LogKept(s, i) ==
  /\ s[i].op \in Measures => s[i].fail \in {"carry", "none"}
  /\ s[i].op # "maybe" /\ s[i].fail \notin {"cell", "kind", "stop"}
  /\ s[i].fail = "return" => ~MayLog(s, i)

(* Every section starts a server only when it has none, stops it once,      *)
(* fails in a way that fits how it would stop it, reads its memory and CPU  *)
(* before it stops it, and looks at a carried error between a load and the  *)
(* row.                                                                     *)
ASSUME ScriptsKept ==
  \A n \in 1..Len(Steps) :
    LET s == Scripts[n]
    IN /\ s \in Seq([op : Ops, fail : Failures])
       /\ ~Up(s, Len(s) + 1)
       /\ \A i \in 1..Len(s) : StepKept(s, i)
       /\ Steps[n] = "logging" => /\ ~MayLog(s, Len(s) + 1)
                                  /\ \A i \in 1..Len(s) : LogKept(s, i)

-----------------------------------------------------------------------------
VARIABLES
  bmain,      (* "setup", "room", "running", "report", "write", "failed" or *)
              (* "exit"                                                     *)
  wanted,     (* the sections -only selects                                 *)
  sec, bpc,   (* the section running and the step it is at                  *)
  bphase,     (* inside startServer: "spawn", "waiting"; otherwise "idle"   *)
  tries,      (* startServer's attempts so far                              *)
  servers,    (* server processes running                                   *)
  deferred,   (* the function running has deferred its server's stop        *)
  berr,       (* the error carried to Check                                 *)
  figures,    (* since the last row: "none", "good", no load or check of    *)
              (* them having failed, or "bad"                               *)
  earned,     (* every row so far was written from good figures, and its    *)
              (* server was running when it was read                        *)
  procstat,   (* the section's latest reading of a server's memory and CPU: *)
              (* "unread", "read", "missed", which is written as 0, or      *)
              (* "gone", of a server already stopped                        *)
  logs,       (* a query log of a logged run is on the disk                 *)
  bmocks      (* mock upstreams running                                     *)

sectionVars == <<bmain, wanted, sec, bpc, bphase, tries, servers, deferred, berr, figures,
                 earned, procstat, logs, bmocks>>

Script == Scripts[sec]
Now == Script[bpc]
Running == bmain = "running" /\ sec <= Len(Steps) /\ Steps[sec] \in wanted /\ bpc <= Len(Script)
AfterNext(o) == 1 + CHOOSE i \in bpc..Len(Script) :
                      Script[i].op = o /\ \A j \in bpc..(i - 1) : Script[j].op # o

SectionsInit ==
  /\ bmain = "setup" /\ wanted \in Filters /\ sec = 1 /\ bpc = 1
  /\ bphase = "idle" /\ tries = 0 /\ servers = 0 /\ deferred = FALSE /\ berr = FALSE
  /\ figures = "none" /\ earned = TRUE /\ procstat = "unread" /\ logs = FALSE /\ bmocks = 0

-----------------------------------------------------------------------------
(* setup builds the two programs and the certificates, then starts the mock *)
(* upstream, which is the last thing in it that can fail.                   *)
Setup ==
  /\ bmain = "setup"
  /\ \/ bmain' = "room" /\ bmocks' = 1
     \/ bmain' = "exit" /\ UNCHANGED bmocks
  /\ UNCHANGED <<wanted, sec, bpc, bphase, tries, servers, deferred, berr, figures,
                 earned, procstat, logs>>

(* runAll asks for the log's disk room before the first section.            *)
LogDiskRoom ==
  /\ bmain = "room"
  /\ \/ bmain' = "running"
     \/ "logging" \in wanted /\ bmain' = "failed"
  /\ UNCHANGED <<wanted, sec, bpc, bphase, tries, servers, deferred, berr, figures,
                 earned, procstat, logs, bmocks>>

(* The next section that is wanted; after the last, the report.             *)
NextSection ==
  /\ bmain = "running"
  /\ IF sec > Len(Steps) THEN bmain' = "report" /\ UNCHANGED <<sec, bpc>>
     ELSE /\ Steps[sec] \notin wanted \/ bpc > Len(Script)
          /\ sec' = sec + 1 /\ bpc' = 1 /\ UNCHANGED bmain
  /\ figures' = "none" /\ berr' = FALSE /\ procstat' = "unread"
  /\ UNCHANGED <<wanted, bphase, tries, servers, deferred, earned, logs, bmocks>>

FailsLeaky(n) ==
  /\ bphase' = "idle" /\ tries' = 0
  /\ \/ /\ Now.fail \in {"return", "stop"}
        /\ bmain' = "failed"
        /\ servers' = servers - n - (IF deferred THEN 1 ELSE 0)
        /\ deferred' = FALSE /\ UNCHANGED <<bpc, berr, figures>>
     \/ /\ Now.fail = "carry"
        /\ berr' = TRUE /\ figures' = "bad" /\ bpc' = bpc + 1
        /\ servers' = servers - n /\ UNCHANGED <<bmain, deferred>>
     \/ /\ Now.fail \in {"cell", "kind"}
        /\ bpc' = AfterNext(IF Now.fail = "cell" THEN "row" ELSE "kind")
        /\ servers' = servers - n - (IF deferred THEN 1 ELSE 0)
        /\ deferred' = FALSE /\ berr' = FALSE /\ figures' = "none" /\ UNCHANGED bmain

(* A step fails, after it stopped n servers of its own.                     *)
Fails(n) ==
  /\ bphase' = "idle" /\ tries' = 0
  /\ \/ /\ Now.fail \in {"return", "stop"}
        /\ bmain' = "failed"
        /\ servers' = servers - n - (IF deferred \/ Now.fail = "stop" THEN 1 ELSE 0)
        /\ deferred' = FALSE /\ UNCHANGED <<bpc, berr, figures>>
     \/ /\ Now.fail = "carry"
        /\ berr' = TRUE /\ figures' = "bad" /\ bpc' = bpc + 1
        /\ servers' = servers - n /\ UNCHANGED <<bmain, deferred>>
     \/ /\ Now.fail \in {"cell", "kind"}
        /\ bpc' = AfterNext(IF Now.fail = "cell" THEN "row" ELSE "kind")
        /\ servers' = servers - n - (IF deferred THEN 1 ELSE 0)
        /\ deferred' = FALSE /\ berr' = FALSE /\ figures' = "none" /\ UNCHANGED bmain

(* startServer, three attempts at start: one that cannot start the process, *)
(* or whose server does not answer and is stopped, is tried again; one that *)
(* answers without the unit's environment is stopped and is not.            *)
Spawn ==
  /\ Running /\ Now.op \in Opens /\ bphase = "idle" /\ tries < 3
  /\ \/ servers' = servers + 1 /\ bphase' = "waiting" /\ UNCHANGED tries
     \/ tries' = tries + 1 /\ UNCHANGED <<servers, bphase>>
  /\ UNCHANGED <<bmain, wanted, sec, bpc, deferred, berr, figures, earned, procstat, logs, bmocks>>

ServerReady ==
  /\ Running /\ bphase = "waiting"
  /\ bphase' = "idle" /\ tries' = 0 /\ bpc' = bpc + 1
  /\ deferred' = (Now.op = "startDeferred")
  /\ figures' = "none"
  /\ UNCHANGED <<bmain, wanted, sec, servers, berr, earned, procstat, logs, bmocks>>

NotReady ==
  /\ Running /\ bphase = "waiting"
  /\ bphase' = "idle" /\ tries' = tries + 1 /\ servers' = servers - 1
  /\ UNCHANGED <<bmain, wanted, sec, bpc, deferred, berr, figures, earned, procstat, logs, bmocks>>

WrongEnvironment ==
  /\ Running /\ bphase = "waiting"
  /\ Fails(1)
  /\ UNCHANGED <<wanted, sec, earned, procstat, logs, bmocks>>

OutOfTries ==
  /\ Running /\ Now.op \in Opens /\ bphase = "idle" /\ tries = 3
  /\ Fails(0)
  /\ UNCHANGED <<wanted, sec, earned, procstat, logs, bmocks>>

(* rss, and the sampler of a load or a once row: an error of /proc is       *)
(* dropped, and the figure is 0.                                            *)
ProcReading == IF berr \/ Now.op \notin ReadsProc THEN {procstat}
           ELSE IF servers = 0 THEN {"gone"} ELSE {"read", "missed"}

(* A load, a check of its answers, a once row, the survey: done,            *)
(* failed, or passed over because an error is carried already.              *)
Measure ==
  /\ Running /\ Now.op \in Measures
  /\ \/ ~berr /\ Now.fail # "none" /\ Fails(0) /\ UNCHANGED procstat
     \/ /\ bpc' = bpc + 1
        /\ figures' = IF berr THEN figures ELSE "good"
        /\ procstat' \in ProcReading
        /\ UNCHANGED <<bmain, bphase, tries, servers, deferred, berr>>
  /\ logs' = (logs \/ Steps[sec] = "logging")
  /\ UNCHANGED <<wanted, sec, earned, bmocks>>

(* Check looks at a carried error.                                          *)
CheckErr ==
  /\ Running /\ Now.op = "check"
  /\ IF berr THEN Fails(0)
     ELSE bpc' = bpc + 1 /\ UNCHANGED <<bmain, bphase, tries, servers, deferred, berr, figures>>
  /\ UNCHANGED <<wanted, sec, earned, procstat, logs, bmocks>>

(* stop: SIGTERM, SIGKILL fifteen seconds later, and in either case a wait. *)
StopServer ==
  /\ Running
  /\ Now.op = "stop" \/ (Now.op = "return" /\ deferred)
  /\ servers' = servers - 1 /\ deferred' = FALSE /\ bpc' = bpc + 1
  /\ UNCHANGED <<bmain, wanted, sec, bphase, tries, berr, figures, earned, procstat, logs, bmocks>>

WriteRow ==
  /\ Running /\ Now.op = "row"
  /\ earned' = (earned /\ figures = "good" /\ procstat # "gone")
  /\ bpc' = bpc + 1
  /\ figures' = IF bpc < Len(Script) /\ Script[bpc + 1].op = "row" THEN figures ELSE "none"
  /\ berr' = FALSE
  /\ UNCHANGED <<bmain, wanted, sec, bphase, tries, servers, deferred, procstat, logs, bmocks>>

(* startMock; the mock lives until teardown.                                *)
StartMock ==
  /\ Running /\ Now.op = "mock"
  /\ \/ bmocks' = bmocks + 1 /\ bpc' = bpc + 1
        /\ UNCHANGED <<bmain, bphase, tries, servers, deferred, berr, figures>>
     \/ Fails(0) /\ UNCHANGED bmocks
  /\ UNCHANGED <<wanted, sec, earned, procstat, logs>>

(* Too few CPUs or no taskset skips the section; compare's receive buffer   *)
(* being too small fails it.  A row that does not apply is passed over.     *)
Passes ==
  /\ Running /\ Now.op \in {"gate", "maybe", "kind"}
  /\ \/ bpc' = bpc + 1 /\ UNCHANGED bmain
     \/ Now.op = "gate" /\ bpc' = Len(Script) + 1 /\ UNCHANGED bmain
     \/ Now.op = "gate" /\ Steps[sec] = "compare" /\ bmain' = "failed" /\ UNCHANGED bpc
     \/ Now.op = "maybe" /\ bpc' = AfterNext("row") /\ UNCHANGED bmain
  /\ UNCHANGED <<wanted, sec, bphase, tries, servers, deferred, berr, figures,
                 earned, procstat, logs, bmocks>>

Discard ==
  /\ Running /\ Now.op = "removeLog"
  /\ logs' = FALSE /\ bpc' = bpc + 1
  /\ UNCHANGED <<bmain, wanted, sec, bphase, tries, servers, deferred, berr, figures,
                 earned, procstat, bmocks>>

(* main: an error of runAll tears the mocks down before log.Fatalf; a good  *)
(* run prints, writes -out and returns through the deferred teardown; a     *)
(* write that fails leaves through log.Fatalf.                              *)
Teardown ==
  /\ bmain \in {"failed", "write"}
  /\ bmain' = "exit" /\ bmocks' = 0
  /\ UNCHANGED <<wanted, sec, bpc, bphase, tries, servers, deferred, berr, figures,
                 earned, procstat, logs>>

WriteReport ==
  /\ bmain = "report"
  /\ bmain' \in {"write", "exit"}
  /\ UNCHANGED <<wanted, sec, bpc, bphase, tries, servers, deferred, berr, figures,
                 earned, procstat, logs, bmocks>>

SectionsNext ==
  \/ Setup \/ LogDiskRoom \/ NextSection \/ Spawn \/ ServerReady \/ NotReady \/ WrongEnvironment
  \/ OutOfTries \/ Measure \/ CheckErr \/ StopServer \/ WriteRow \/ StartMock \/ Passes
  \/ Discard \/ Teardown \/ WriteReport

SectionsSpec == SectionsInit /\ [][SectionsNext]_sectionVars

-----------------------------------------------------------------------------
(* startServer, stop and the sections' error paths: one server runs at a    *)
(* time, so no figure is taken beside another server, and whichever step of *)
(* whichever section failed, none is left when it has returned, and no      *)
(* query log is left where the next section runs.                           *)
OneServer ==
  /\ servers <= 1
  /\ (bmain # "running" \/ (bpc = 1 /\ bphase = "idle")) => servers = 0 /\ ~deferred /\ ~logs

(* The sections' rows: none is written from figures whose load failed or    *)
(* whose answers were not what the row is about, although most sections     *)
(* stop the server before they look at the error; and none from the memory  *)
(* or CPU of a server that had been stopped.  Of a running one the reading  *)
(* may miss, and the row then says 0: rss drops the error.                  *)
RowsEarned == earned

(* One server at a time, none left by a failed step, and no row from a load *)
(* that failed or from a server that was not there to be read.              *)
SectionsSound == OneServer /\ RowsEarned
=============================================================================
