----------------------------- MODULE MCHarness -----------------------------
(* The benchmark harness on small instances: the load generator, the        *)
(* experiment's clients, its failing upstream, its arms, a row of held      *)
(* connections, the benchmark's sections, and what the harness computes     *)
(* without concurrency: the series of an arm, the unit's environment, the   *)
(* DNS messages.  They run in different processes or at different times and *)
(* share nothing, so a behaviour exercises one of them, chosen at the       *)
(* start; the others stay in one initial state.                             *)
EXTENDS LoadGen, ArmClients, MockOutage, Arm, HeldRow, UnitEnv, Sections, Series, Wire

VARIABLE part

runnerVars == <<loadVars, socketVars, attemptVars, mockVars, armVars, heldVars>>
benchVars == <<sectionVars, seriesVars, unitVars, wireVars>>
allVars == <<part, runnerVars, benchVars>>

(* Everything, -only logging, -only c and -survey.                          *)
MCFilters ==
  {{"workloads", "transports", "h1h2", "cpu", "handshake", "memory", "shedding", "loops",
    "misses", "connections", "inflight", "latency", "logging", "compare"},
   {"logging"}, {"cpu", "connections", "latency"}, {"survey"}}

(* One line may set one key, two, or one twice; of what the harness runs    *)
(* with, one assignment is an allocator's, two are of keys a unit may set,  *)
(* and one of those is what the unit sets it to.                            *)
MCFieldLists ==
  {<<<<"MALLOC", 1>>>>, <<<<"TZ", 1>>>>, <<<<"MALLOC", 1>>, <<"TZ", 2>>>>, <<<<"TZ", 1>>, <<"TZ", 2>>>>}
MCInherited == {<<"MALLOC", 9>>, <<"LD_PRELOAD", 1>>, <<"TZ", 1>>, <<"PATH", 1>>}

(* Labels that hold what would be a root label or a pointer elsewhere.      *)
MCLabels == {<<1>>, <<0, 192>>}

HarnessInit ==
  /\ part \in {"load", "sockets", "attempts", "mock", "arm", "held", "sections", "series",
              "unit", "wire"}
  /\ LoadInit /\ (part # "load" => transport = "udp")
  /\ SocketsInit /\ (part # "sockets" => style = "udp")
  /\ AttemptsInit /\ (part # "attempts" => kind = "redial")
  /\ MockInit /\ (part # "mock" => how = "refused")
  /\ ArmInit
  /\ HeldInit
  /\ SectionsInit /\ (part # "sections" => wanted = {"survey"})
  /\ SeriesInit /\ (part # "series" => early = 0 /\ series[1].ok)
  /\ UnitInit
  /\ IF part = "wire" THEN WireInit
     ELSE wquery = NoReply /\ reply = NoReply /\ mock = "reading"

HarnessNext ==
  /\ UNCHANGED part
  /\ \/ /\ part = "load" /\ LoadNext
        /\ UNCHANGED <<socketVars, attemptVars, mockVars, armVars, heldVars, benchVars>>
     \/ /\ part = "sockets" /\ SocketsNext
        /\ UNCHANGED <<loadVars, attemptVars, mockVars, armVars, heldVars, benchVars>>
     \/ /\ part = "attempts" /\ AttemptsNext
        /\ UNCHANGED <<loadVars, socketVars, mockVars, armVars, heldVars, benchVars>>
     \/ /\ part = "mock" /\ MockNext
        /\ UNCHANGED <<loadVars, socketVars, attemptVars, armVars, heldVars, benchVars>>
     \/ /\ part = "arm" /\ ArmNext
        /\ UNCHANGED <<loadVars, socketVars, attemptVars, mockVars, heldVars, benchVars>>
     \/ /\ part = "held" /\ HeldNext
        /\ UNCHANGED <<loadVars, socketVars, attemptVars, mockVars, armVars, benchVars>>
     \/ /\ part = "sections" /\ SectionsNext
        /\ UNCHANGED <<runnerVars, seriesVars, unitVars, wireVars>>
     \/ /\ part = "series" /\ SampleTick
        /\ UNCHANGED <<runnerVars, sectionVars, unitVars, wireVars>>
     \/ /\ part = "unit" /\ UnitNext
        /\ UNCHANGED <<runnerVars, sectionVars, seriesVars, wireVars>>
     \/ /\ part = "wire" /\ WireNext
        /\ UNCHANGED <<runnerVars, sectionVars, seriesVars, unitVars>>

(* The fairness of the parts' own specifications: the harness goes on by    *)
(* itself, whatever the server and the machine do.                          *)
HarnessProgress ==
  \/ part = "load" /\ LoadProgress /\ UNCHANGED <<socketVars, attemptVars, mockVars, armVars, heldVars, benchVars>>
  \/ part = "attempts" /\ AttemptsNext /\ UNCHANGED <<loadVars, socketVars, mockVars, armVars, heldVars, benchVars>>
  \/ part = "arm" /\ ArmProgress /\ UNCHANGED <<loadVars, socketVars, attemptVars, mockVars, heldVars, benchVars>>
  \/ part = "held" /\ HeldProgress /\ UNCHANGED <<loadVars, socketVars, attemptVars, mockVars, armVars, benchVars>>

HarnessSpec ==
  HarnessInit /\ [][HarnessNext]_allVars /\ WF_allVars(UNCHANGED part /\ HarnessProgress)

-----------------------------------------------------------------------------
(* Whatever the server does, the load generator's run, the stop of a        *)
(* client, the matrix of arms and a row of held connections come to an end. *)
HarnessEnds ==
  <>(CASE part = "load" -> main \in {"reported", "failed"}
       [] part = "attempts" -> stopping = "stopped"
       [] part = "arm" -> ended # "no"
       [] part = "held" -> orch \in {"row", "error"}
       [] OTHER -> TRUE)
=============================================================================
