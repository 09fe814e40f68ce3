---------------------------- MODULE HarnessProofs ----------------------------
(***************************************************************************)
(* The benchmark harness counts, stops and holds what it says whatever the  *)
(* number of its clients, sockets, workers, arms and questions: proofs      *)
(* about Arm, MockOutage, HeldRow, ArmSockets, ArmAttempts, LoadGen,        *)
(* UnitEnv, Sections, Series and Wire.                                      *)
(***************************************************************************)
EXTENDS LoadGen, ArmClients, MockOutage, Arm, HeldRow, UnitEnv, Sections, Series, Wire,
        FiniteSetTheorems, SequenceTheorems, WellFoundedInduction, TLAPS

-----------------------------------------------------------------------------
(* Arm: one arm after another.                                              *)

(* The goroutines that may run where runArm is: each is gone once it has    *)
(* been waited for.                                                         *)
MayRun(place) ==
  CASE place = "warming" -> {"warm"}
    [] place = "attack" -> {"procstat"}
    [] place = "victim" -> {"procstat", "attacker"}
    [] place = "load" -> {"procstat", "attacker", "victim"}
    [] place = "stopVictim" -> {"procstat", "attacker", "victim", "soak", "outage"}
    [] place = "stopAttacker" -> {"procstat", "attacker", "soak", "outage"}
    [] place = "stopSoak" -> {"procstat", "soak", "outage"}
    [] place = "stopProcstat" -> {"procstat", "outage"}
    [] place = "wait" -> {"outage"}
    [] OTHER -> {}

ArmPlaces ==
  {"pick", "outage", "server", "ready", "warm", "warming", "watch", "attack", "victim", "load",
   "stopVictim", "stopAttacker", "stopSoak", "stopProcstat", "wait", "counters", "unwind",
   "closing", "over"}

(* Nothing of an arm is there before it is started or after it is unwound;  *)
(* its server is signalled only on the way out, after it has been counted.  *)
ArmInv ==
  /\ at \in ArmPlaces
  /\ arm \in Nat
  /\ procs \subseteq {arm}
  /\ at # "over" => running \subseteq MayRun(at)
  /\ at \in {"pick", "outage", "server", "closing"} => procs = {}
  /\ at \in {"pick", "outage", "closing"} => ~mocks
  /\ at = "over" /\ ended # "died" => procs = {} /\ ~mocks
  /\ at \notin {"pick", "over"} => ended = "no"
  /\ at = "over" => ended \in {"failed", "died"}
  /\ at = "pick" => ended \in {"no", "reported"}
  /\ termed => at \in {"unwind", "closing", "over"}
  /\ at \notin {"unwind", "closing"} => armResult = "none"
  /\ armResult = "row" => scraped

LEMMA ArmInitInv == ArmInit => ArmInv
  BY DEF ArmInit, ArmInv, ArmPlaces, MayRun

LEMMA ArmNextInv ==
  ASSUME ArmInv, [ArmNext]_armVars
  PROVE  ArmInv'
<1> USE DEF ArmInv, ArmPlaces, MayRun, life
<1>1. CASE Pick BY <1>1 DEF Pick
<1>2. CASE StartOutage BY <1>2 DEF StartOutage
<1>3. CASE StartServer BY <1>3 DEF StartServer
<1>4. CASE Ready BY <1>4 DEF Ready
<1>5. CASE WarmUp BY <1>5 DEF WarmUp, Client, Tell
<1>6. CASE Watch BY <1>6 DEF Watch
<1>7. CASE Attack BY <1>7 DEF Attack, Client
<1>8. CASE Victim BY <1>8 DEF Victim, Client
<1>9. CASE Load BY <1>9 DEF Load
<1>10. CASE StopLoad BY <1>10 DEF StopLoad, StopSoak, Tell
<1>11. CASE Wait BY <1>11 DEF Wait
<1>12. CASE Counters BY <1>12 DEF Counters
<1>13. CASE Signal BY <1>13 DEF Signal
<1>14. CASE Unwind BY <1>14 DEF Unwind
<1>15. CASE Return BY <1>15 DEF Return
<1>16. CASE OutageEnds BY <1>16 DEF OutageEnds
<1>17. CASE Exits BY <1>17 DEF Exits
<1>18. CASE \E g \in {"warm", "attacker", "victim", "soak", "procstat"} : Leaves(g)
  BY <1>18 DEF Leaves
<1>19. CASE UNCHANGED armVars BY <1>19 DEF armVars
<1> QED
  BY <1>1, <1>2, <1>3, <1>4, <1>5, <1>6, <1>7, <1>8, <1>9, <1>10, <1>11, <1>12, <1>13, <1>14,
     <1>15, <1>16, <1>17, <1>18, <1>19
  DEF ArmNext, ArmProgress, Main

(* startServer, stop and runArm: however many arms the matrix has and       *)
(* whichever step of whichever failed, one server runs at a time and none   *)
(* is left, and nobody still writes what a row reads.                       *)
THEOREM ArmLeavesNothingHolds == ArmSpec => []ArmLeavesNothing
<1>1. ArmInv => ArmLeavesNothing
  BY DEF ArmInv, ArmLeavesNothing, ServersStopped, RowSettled, MayRun, ArmPlaces
<1> QED BY <1>1, ArmInitInv, ArmNextInv, PTL DEF ArmSpec

-----------------------------------------------------------------------------
(* MockOutage: the upstream that is taken away and comes back.              *)

(* The mode and the listener say where the schedule is.                     *)
ModeTells ==
  /\ how \in {"blackhole", "refused"}
  /\ mode = IF step \in {"closing", "holdUDP", "holdTCP", "down"} THEN how ELSE "up"
  /\ how = "blackhole" => step \in {"before", "down", "back"} /\ ln = 1 /\ pc = 1
  /\ how = "refused" => (ln = 1 <=> step \in {"before", "closing"})

(* A question a connection from before reads after the mock is gone meets   *)
(* the refused mode if it passed the listener, and is not answered.         *)
NoGhost ==
  /\ ghosts = 0
  /\ \A c \in Conns :
       how = "refused" /\ conn[c] = 1 /\ during[c] =>
         /\ query[c] # "reply"
         /\ query[c] = "known" => mode = "refused"
  /\ \A c \in Conns : during[c] => step # "before"
  /\ \A c \in Conns : conn[c] = 0 => query[c] = "none"

(* What a schedule without an error has of the two ports.                   *)
PortsAsScheduled ==
  ~mockErr =>
    /\ step \in {"before", "closing", "back", "serve"} \/ how = "blackhole" =>
         port["udp"] = "mock" /\ port["tcp"] = "mock"
    /\ step \in {"down", "releasing"} /\ how = "refused" => port["udp"] = "hold" /\ port["tcp"] = "hold"
    /\ step = "holdTCP" => port["udp"] = "hold"
    /\ step = "listenTCP" => port["udp"] = "mock"
    /\ step = "back" => pc # 0 /\ ln # 0

MockInv ==
  /\ port \in [{"udp", "tcp"} -> {"mock", "hold", "free", "stranger"}]
  /\ query \in [Conns -> {"none", "read", "known", "reply", "reset"}]
  /\ conn \in [Conns -> {0, 1, 2}] /\ ln \in {0, 1, 2} /\ pc \in {0, 1, 2}
  /\ during \in [Conns -> BOOLEAN]
  /\ ModeTells /\ NoGhost /\ PortsAsScheduled

LEMMA MockInitInv == MockInit => MockInv
  BY DEF MockInit, MockInv, ModeTells, NoGhost, PortsAsScheduled

(* The schedule.                                                            *)
LEMMA ScheduleInv ==
  ASSUME MockInv, Schedule
  PROVE  MockInv'
<1> USE DEF MockInv, ModeTells, NoGhost, PortsAsScheduled, mockSockets, trafficVars
<1>1. CASE Fail BY <1>1 DEF Fail
<1>2. CASE CloseSockets BY <1>2 DEF CloseSockets
<1>3. CASE HoldOne("udp", "holdUDP", "holdTCP") BY <1>3 DEF HoldOne
<1>4. CASE HoldOne("tcp", "holdTCP", "down") BY <1>4 DEF HoldOne
<1>5. CASE Restore BY <1>5 DEF Restore
<1>6. CASE ReleaseHolds BY <1>6 DEF ReleaseHolds
<1>7. CASE ListenUDP BY <1>7 DEF ListenUDP
<1>8. CASE ListenTCP BY <1>8 DEF ListenTCP
<1>9. CASE Serve BY <1>9 DEF Serve
<1> QED BY <1>1, <1>2, <1>3, <1>4, <1>5, <1>6, <1>7, <1>8, <1>9 DEF Schedule, HoldPorts

(* What the forwarder sends, and what else is on the machine.               *)
LEMMA TrafficInv ==
  ASSUME MockInv, Traffic \/ \E p \in {"udp", "tcp"} : StrangerBinds(p) \/ StrangerLeaves(p)
  PROVE  MockInv'
<1> USE DEF MockInv, ModeTells, NoGhost, PortsAsScheduled, mockSockets, trafficVars
<1>1. ASSUME NEW c \in Conns, Accept(c) PROVE MockInv' BY <1>1 DEF Accept
<1>2. ASSUME NEW c \in Conns, ReadQuery(c) PROVE MockInv' BY <1>2 DEF ReadQuery
<1>3. ASSUME NEW c \in Conns, CheckListener(c) PROVE MockInv' BY <1>3 DEF CheckListener
<1>4. ASSUME NEW c \in Conns, CheckMode(c) PROVE MockInv' BY <1>4 DEF CheckMode
<1>5. ASSUME NEW c \in Conns, Reply(c) PROVE MockInv' BY <1>5 DEF Reply
<1>6. ASSUME NEW d \in Datagrams, ReadDatagram(d) \/ AnswerDatagram(d) PROVE MockInv'
  BY <1>6 DEF ReadDatagram, AnswerDatagram
<1>7. ASSUME NEW p \in {"udp", "tcp"}, StrangerBinds(p) \/ StrangerLeaves(p) PROVE MockInv'
  BY <1>7 DEF StrangerBinds, StrangerLeaves
<1> QED BY <1>1, <1>2, <1>3, <1>4, <1>5, <1>6, <1>7 DEF Traffic

(* mock.fail, mock.restore and serveConn: whatever connections and queries  *)
(* come and whoever else takes a port, an outage without an error was one,  *)
(* and no connection from before it is answered again.                      *)
THEOREM OutageWasOneHolds == MockSpec => []OutageWasOne
<1>1. MockInv => OutageWasOne
  BY DEF MockInv, NoGhost, PortsAsScheduled, OutageWasOne, GoneStaysGone, OutageAsReported
<1>2. MockInv /\ UNCHANGED mockVars => MockInv'
  BY DEF mockVars, MockInv, ModeTells, NoGhost, PortsAsScheduled
<1>3. MockInv /\ MockNext => MockInv' BY ScheduleInv, TrafficInv DEF MockNext
<1> QED BY <1>1, <1>2, <1>3, MockInitInv, PTL DEF MockSpec

-----------------------------------------------------------------------------
(* HeldRow: the row of held connections.                                    *)
HeldTypes ==
  /\ client \in [RowClients -> {"new", "dialing", "asking", "answered", "failed"}]
  /\ open \in SUBSET RowClients
  /\ gen \in {"off", "running", "printed", "exited", "died"}
  /\ orch \in {"start", "decode", "settle", "unsample", "hangup", "wait", "stop", "row", "error"}
  /\ result \in [answered : Nat, errors : Nat]
  /\ read \in [conns : SUBSET RowClients, up : BOOLEAN]
  /\ server \in BOOLEAN /\ sampler \in BOOLEAN /\ err \in BOOLEAN /\ stdin \in BOOLEAN

(* Where the two processes are: the generator runs only while its result is *)
(* awaited, and leaves by itself only once it has been hung up on.          *)
InStep ==
  /\ orch = "start" => gen = "off"
  /\ gen = "off" => orch \in {"start", "stop", "row", "error"} /\ \A c \in RowClients : client[c] = "new"
  /\ gen = "running" => orch = "decode"
  /\ orch = "decode" => sampler
  /\ gen = "exited" => orch \in {"wait", "stop", "row", "error"}
  /\ ~stdin => orch \in {"wait", "stop", "row", "error"}
  /\ orch = "settle" => gen \in {"printed", "died"}
  /\ orch \in {"stop", "row"} /\ ~err => gen = "exited"
  /\ orch = "row" => ~err

(* What it printed is what its clients are, and they do not change after.   *)
Printed ==
  gen \in {"printed", "exited"} =>
    /\ \A c \in RowClients : client[c] \in {"answered", "failed"}
    /\ result.answered = Cardinality(In("answered"))
    /\ result.errors = Cardinality(In("failed"))

(* While the server and the generator live, a client that was answered is   *)
(* connected; so it was when the server was read, unless the generator died *)
(* or an error is on its way.                                               *)
Kept ==
  /\ server /\ gen \in {"running", "printed"} => In("asking") \cup In("answered") \subseteq open
  /\ (orch \in {"unsample", "hangup", "wait", "stop", "row"} /\ gen # "died" /\ ~err /\ read.up) =>
       In("answered") \subseteq read.conns

HeldInv == HeldTypes /\ InStep /\ Printed /\ Kept

LEMMA HeldInitInv == HeldInit => HeldInv
<1> SUFFICES ASSUME HeldInit PROVE HeldInv OBVIOUS
<1> USE DEF HeldInit
<1>1. HeldTypes BY DEF HeldTypes
<1>2. InStep /\ Printed BY DEF InStep, Printed
<1>3. Kept BY DEF Kept
<1> QED BY <1>1, <1>2, <1>3 DEF HeldInv

(* The clients of a row are finitely many.                                  *)
LEMMA InCounted == \A s : IsFiniteSet(In(s)) /\ Cardinality(In(s)) \in Nat
<1> SUFFICES ASSUME NEW s PROVE IsFiniteSet(In(s)) /\ Cardinality(In(s)) \in Nat OBVIOUS
<1>1. In(s) \subseteq RowClients BY DEF In
<1> QED BY <1>1, SomeRow, FS_Subset, FS_CardinalityType

LEMMA HeldNextInv ==
  ASSUME HeldInv, [HeldNext]_heldVars
  PROVE  HeldInv'
<1> USE DEF HeldInv, HeldTypes, InStep, Printed, Kept, In
<1>1. ASSUME NEW c \in RowClients, DialOne(c) PROVE HeldInv' BY <1>1 DEF DialOne
<1>2. ASSUME NEW c \in RowClients, Dialled(c) PROVE HeldInv' BY <1>2 DEF Dialled
<1>3. ASSUME NEW c \in RowClients, Asked(c) PROVE HeldInv' BY <1>3 DEF Asked
<1>4. CASE PrintResult BY <1>4, InCounted DEF PrintResult
<1>5. CASE Hold BY <1>5 DEF Hold
<1>6. CASE GenDies BY <1>6 DEF GenDies
<1>7. CASE ServerDies BY <1>7, ZenonT(40) DEF ServerDies
<1>8. CASE StartOnce BY <1>8 DEF StartOnce
<1>9. CASE Decode BY <1>9 DEF Decode
<1>10. CASE ReadServer BY <1>10 DEF ReadServer
<1>11. CASE StopSampling BY <1>11 DEF StopSampling
<1>12. CASE HangUp BY <1>12 DEF HangUp
<1>13. CASE WaitGen BY <1>13 DEF WaitGen
<1>14. CASE StopAndWrite BY <1>14 DEF StopAndWrite
<1>15. CASE UNCHANGED heldVars BY <1>15 DEF heldVars
<1> QED
  BY <1>1, <1>2, <1>3, <1>4, <1>5, <1>6, <1>7, <1>8, <1>9, <1>10, <1>11, <1>12, <1>13, <1>14, <1>15
  DEF HeldNext, HeldProgress, HeldOrch, HeldGen

(* harness.once and runOnce: whatever the number of clients, a row that     *)
(* reads "all" was taken with all of them connected, a row accounts for     *)
(* every client, and the peak is sampled while a question is outstanding.   *)
THEOREM HeldWhileReadHolds == HeldSpec => []HeldWhileRead
<1>1. HeldInv => HeldWhileRead
  <2> SUFFICES ASSUME HeldInv PROVE HeldWhileRead OBVIOUS
  <2>1. ASSUME orch = "row"
        PROVE  /\ result.answered + result.errors = Cardinality(RowClients)
               /\ result.answered = Cardinality(In("answered"))
               /\ read.up => In("answered") \subseteq read.conns
    <3>1. gen = "exited" /\ ~err BY <2>1 DEF HeldInv, InStep
    <3>2. /\ \A c \in RowClients : client[c] \in {"answered", "failed"}
          /\ result.answered = Cardinality(In("answered"))
          /\ result.errors = Cardinality(In("failed"))
      BY <3>1 DEF HeldInv, Printed
    <3>3. In("answered") \cup In("failed") = RowClients /\ In("answered") \cap In("failed") = {}
      BY <3>2 DEF In
    <3>4. Cardinality(RowClients) = Cardinality(In("answered")) + Cardinality(In("failed")) - Cardinality({})
      BY <3>3, InCounted, FS_Union
    <3>5. Cardinality({}) = 0 BY FS_EmptySet
    <3>6. PICK a \in Nat, b \in Nat : a = Cardinality(In("answered")) /\ b = Cardinality(In("failed"))
      BY InCounted
    <3> QED BY <2>1, <3>1, <3>2, <3>4, <3>5, <3>6 DEF HeldInv, Kept
  <2>2. ASSUME orch = "row", result.answered = Cardinality(RowClients), read.up
        PROVE  read.conns = RowClients
    <3>1. In("answered") \subseteq RowClients BY DEF In
    <3>2. In("answered") = RowClients BY <2>1, <2>2, <3>1, SomeRow, FS_Subset
    <3> QED BY <2>1, <2>2, <3>2 DEF HeldInv, HeldTypes
  <2>3. In("asking") # {} /\ gen # "died" => sampler
    BY DEF HeldInv, HeldTypes, InStep, Printed, In
  <2> QED BY <2>1, <2>2, <2>3 DEF HeldWhileRead
<1> QED BY <1>1, HeldInitInv, HeldNextInv, PTL DEF HeldSpec

-----------------------------------------------------------------------------
(* ArmAttempts: the clients whose questions are attempts of their own.      *)
InAir == {w \in Workers : workerAt[w] \in {"dialing", "asking"}}

AttemptTypes ==
  /\ workerAt \in [Workers -> {"loop", "taking", "adding", "loading", "dialing", "asking", "gone"}]
  /\ offered \in Nat /\ full \in Nat /\ closed \in Nat /\ failed \in Nat /\ other \in Nat
  /\ unfiled \in Nat /\ hangups \in Nat /\ seq \in Nat
  /\ stopping \in {"running", "cancelled", "stopped"}
  /\ kind \in {"redial", "handshake", "doh"}
  /\ kind = "doh" => \A w \in Workers : workerAt[w] # "dialing"
  /\ kind # "doh" => \A w \in Workers : workerAt[w] \notin {"taking", "adding", "loading"}
  /\ stopping = "stopped" => \A w \in Workers : workerAt[w] = "gone"

(* An attempt that was offered is filed or in the air.                      *)
Filed == offered = full + closed + failed + other + unfiled + Cardinality(InAir)

(* A DoH worker's names have numbers it has gone past when it is about to   *)
(* read its next, so the next is a new name.                                *)
Named ==
  /\ IsFiniteSet(names) /\ names \subseteq Workers \X Nat
  /\ kind = "doh" => Cardinality(names) = offered
  /\ \A w \in Workers, n \in Nat :
       <<w, n>> \in names => n <= seq /\ (workerAt[w] = "loading" => n < seq)

AttemptInv == AttemptTypes /\ Filed /\ Named /\ RefusalsDecided

LEMMA InAirFinite == IsFiniteSet(InAir) /\ Cardinality(InAir) \in Nat
  BY SomeWorkers, FS_Subset, FS_CardinalityType DEF InAir

LEMMA AttemptsInitInv == AttemptsInit => AttemptInv
<1> SUFFICES ASSUME AttemptsInit PROVE AttemptInv OBVIOUS
<1> USE DEF AttemptsInit
<1>1. AttemptTypes BY DEF AttemptTypes
<1>2. InAir = {} BY DEF InAir
<1>3. Filed BY <1>2, FS_EmptySet DEF Filed
<1>4. Named BY FS_EmptySet DEF Named
<1> QED BY <1>1, <1>3, <1>4 DEF AttemptInv, RefusalsDecided

(* A worker that starts an attempt puts one more in the air, one that ends  *)
(* one takes it out.                                                        *)
LEMMA TakesOff ==
  ASSUME AttemptTypes, NEW w \in Workers, workerAt[w] \notin {"dialing", "asking"},
         NEW to \in {"dialing", "asking"}, workerAt' = [workerAt EXCEPT ![w] = to]
  PROVE  Cardinality(InAir') = Cardinality(InAir) + 1
<1>1. InAir' = InAir \cup {w} /\ w \notin InAir BY DEF InAir, AttemptTypes
<1> QED BY <1>1, InAirFinite, FS_AddElement

LEMMA ComesDown ==
  ASSUME AttemptTypes, NEW w \in Workers, workerAt[w] \in {"dialing", "asking"},
         workerAt' = [workerAt EXCEPT ![w] = "loop"]
  PROVE  Cardinality(InAir') = Cardinality(InAir) - 1
<1>1. InAir' = InAir \ {w} /\ w \in InAir BY DEF InAir, AttemptTypes
<1> QED BY <1>1, InAirFinite, FS_RemoveElement

(* The end of an attempt in the air files it once.                          *)
LEMMA EndsInv ==
  ASSUME AttemptInv, NEW w \in Workers, workerAt[w] \in {"dialing", "asking"},
         workerAt' = [workerAt EXCEPT ![w] = "loop"],
         UNCHANGED <<flow, feed, seq, names, offered>>,
         full' \in Nat, closed' \in Nat, failed' \in Nat, other' \in Nat, unfiled' \in Nat,
         hangups' \in Nat,
         full' + closed' + failed' + other' + unfiled' =
           full + closed + failed + other + unfiled + 1,
         kind # "redial" /\ closed <= hangups => closed' <= hangups'
  PROVE  AttemptInv'
<1>1. AttemptTypes' BY DEF AttemptInv, AttemptTypes, flow
<1>2. Filed'
  <2>1. PICK n \in Nat : n = Cardinality(InAir) BY InAirFinite
  <2>2. Cardinality(InAir') = n - 1 BY <2>1, ComesDown DEF AttemptInv
  <2>3. PICK x \in Nat, y \in Nat :
          /\ x = full + closed + failed + other + unfiled
          /\ y = full' + closed' + failed' + other' + unfiled'
    <3>1. full + closed + failed + other + unfiled \in Nat BY DEF AttemptInv, AttemptTypes
    <3>2. full' + closed' + failed' + other' + unfiled' \in Nat
      <4>1. PICK z \in Nat : z = full + closed + failed + other + unfiled BY <3>1
      <4>2. z + 1 \in Nat OBVIOUS
      <4>3. full' + closed' + failed' + other' + unfiled' = z + 1 BY <4>1
      <4> QED BY <4>2, <4>3
    <3> QED BY <3>1, <3>2
  <2>4. y = x + 1 /\ offered = x + n /\ offered' = offered
    BY <2>1, <2>3 DEF AttemptInv, Filed
  <2>5. offered' = y + (n - 1) BY <2>1, <2>3, <2>4
  <2> QED BY <2>2, <2>3, <2>5 DEF Filed
<1>3. Named' BY DEF AttemptInv, AttemptTypes, Named, flow
<1>4. RefusalsDecided' BY DEF AttemptInv, AttemptTypes, RefusalsDecided, flow
<1> QED BY <1>1, <1>2, <1>3, <1>4 DEF AttemptInv

LEMMA BeginInv ==
  ASSUME AttemptInv, NEW w \in Workers, Begin(w)
  PROVE  AttemptInv'
<1>1. CASE kind = "doh"
  <2>1. PICK to \in {"taking", "adding"} :
          /\ workerAt' = [workerAt EXCEPT ![w] = to] /\ workerAt[w] = "loop"
          /\ UNCHANGED <<flow, seq, names, offered, filed>>
    BY <1>1 DEF Begin
  <2>2. InAir' = InAir BY <2>1 DEF AttemptInv, AttemptTypes, InAir
  <2>3. AttemptTypes' BY <1>1, <2>1 DEF AttemptInv, AttemptTypes, flow, filed, Begin
  <2>4. Named' BY <2>1 DEF AttemptInv, AttemptTypes, Named, flow
  <2> QED BY <2>1, <2>2, <2>3, <2>4 DEF AttemptInv, Filed, RefusalsDecided, flow, filed
<1>2. CASE kind # "doh"
  <2>1. /\ workerAt' = [workerAt EXCEPT ![w] = "dialing"] /\ workerAt[w] = "loop"
        /\ offered' = offered + 1 /\ UNCHANGED <<flow, seq, names, filed>>
    BY <1>2 DEF Begin
  <2>2. PICK n \in Nat : n = Cardinality(InAir) BY InAirFinite
  <2>6. Cardinality(InAir') = n + 1 BY <2>1, <2>2, TakesOff DEF AttemptInv
  <2>3. AttemptTypes' BY <1>2, <2>1 DEF AttemptInv, AttemptTypes, flow, filed, Begin
  <2>4. Filed' BY <2>1, <2>2, <2>6 DEF AttemptInv, AttemptTypes, Filed, filed
  <2>5. Named' BY <1>2, <2>1 DEF AttemptInv, AttemptTypes, Named, flow
  <2> QED BY <2>1, <2>3, <2>4, <2>5 DEF AttemptInv, RefusalsDecided, flow, filed
<1> QED BY <1>1, <1>2

(* The worker's index and a number read after its own add are a new name.   *)
LEMMA SeqLoadInv ==
  ASSUME AttemptInv, NEW w \in Workers, SeqLoad(w)
  PROVE  AttemptInv'
<1>1. /\ workerAt[w] = "loading" /\ workerAt' = [workerAt EXCEPT ![w] = "asking"]
      /\ names' = names \cup {<<w, seq>>} /\ offered' = offered + 1
      /\ UNCHANGED <<flow, feed, seq, filed>>
  BY DEF SeqLoad
<1>2. PICK n \in Nat : n = Cardinality(InAir) BY InAirFinite
<1>8. Cardinality(InAir') = n + 1 BY <1>1, <1>2, TakesOff DEF AttemptInv
<1>3. kind = "doh" BY <1>1 DEF AttemptInv, AttemptTypes
<1>4. AttemptTypes' BY <1>1, <1>3 DEF AttemptInv, AttemptTypes, flow, filed
<1>5. Filed' BY <1>1, <1>2, <1>8 DEF AttemptInv, AttemptTypes, Filed, filed
<1>6. <<w, seq>> \notin names
  <2>1. seq \in Nat /\ ~(seq < seq) BY DEF AttemptInv, AttemptTypes
  <2> QED BY <1>1, <2>1 DEF AttemptInv, Named
<1>7. Named'
  <2>1. IsFiniteSet(names') /\ Cardinality(names') = Cardinality(names) + 1
    BY <1>1, <1>6, FS_AddElement DEF AttemptInv, Named
  <2>2. names' \subseteq Workers \X Nat BY <1>1 DEF AttemptInv, AttemptTypes, Named
  <2>3. ASSUME NEW v \in Workers, NEW k \in Nat, <<v, k>> \in names'
        PROVE  k <= seq' /\ (workerAt'[v] = "loading" => k < seq')
    <3>1. CASE <<v, k>> \in names
      <4>1. k <= seq /\ (workerAt[v] = "loading" => k < seq) BY <3>1 DEF AttemptInv, Named
      <4>2. workerAt'[v] = "loading" => workerAt[v] = "loading"
        BY <1>1 DEF AttemptInv, AttemptTypes
      <4> QED BY <1>1, <4>1, <4>2
    <3>2. CASE <<v, k>> \notin names
      <4>1. v = w /\ k = seq BY <1>1, <2>3, <3>2
      <4>2. workerAt'[w] = "asking" BY <1>1 DEF AttemptInv, AttemptTypes
      <4> QED BY <1>1, <4>1, <4>2
    <3> QED BY <3>1, <3>2
  <2> QED BY <1>1, <1>3, <2>1, <2>2, <2>3 DEF AttemptInv, Named
<1> QED BY <1>1, <1>4, <1>5, <1>7 DEF AttemptInv, RefusalsDecided, flow, filed

(* The other steps of a worker leave the attempts as they are.              *)
LEMMA GroundInv ==
  ASSUME AttemptInv, NEW w \in Workers, Take(w) \/ Quit(w) \/ SeqAdd(w)
  PROVE  AttemptInv'
<1>1. PICK to \in {"gone", "adding", "loading"} :
        /\ workerAt[w] \in {"loop", "taking", "adding"} /\ workerAt' = [workerAt EXCEPT ![w] = to]
        /\ \/ seq' = seq /\ to = "gone"
           \/ seq' = seq /\ to = "adding" /\ workerAt[w] = "taking"
           \/ seq' = seq + 1 /\ to = "loading" /\ workerAt[w] = "adding"
        /\ UNCHANGED <<flow, names, offered, filed>>
  BY DEF Take, Quit, SeqAdd
<1>2. InAir' = InAir BY <1>1 DEF AttemptInv, AttemptTypes, InAir
<1>3. AttemptTypes' BY <1>1 DEF AttemptInv, AttemptTypes, flow, filed
<1>4. Named'
  <2>1. ASSUME NEW v \in Workers, NEW k \in Nat, <<v, k>> \in names
        PROVE  k <= seq' /\ (workerAt'[v] = "loading" => k < seq')
    <3>1. k <= seq /\ (workerAt[v] = "loading" => k < seq) /\ seq \in Nat
      BY <2>1 DEF AttemptInv, AttemptTypes, Named
    <3>2. workerAt'[v] = IF v = w THEN to ELSE workerAt[v] BY <1>1 DEF AttemptInv, AttemptTypes
    <3> QED BY <1>1, <3>1, <3>2
  <2> QED BY <1>1, <2>1 DEF AttemptInv, Named, flow
<1> QED BY <1>1, <1>2, <1>3, <1>4 DEF AttemptInv, Filed, RefusalsDecided, flow, filed

LEMMA AttemptsNextInv ==
  ASSUME AttemptInv, [AttemptsNext]_attemptVars
  PROVE  AttemptInv'
<1>0. /\ full \in Nat /\ closed \in Nat /\ failed \in Nat /\ other \in Nat /\ unfiled \in Nat
      /\ hangups \in Nat
  BY DEF AttemptInv, AttemptTypes
<1>1. ASSUME NEW w \in Workers, DialAttempt(w) PROVE AttemptInv'
  <2>1. CASE workerAt' = [workerAt EXCEPT ![w] = "asking"] /\ UNCHANGED failed
    <3>1. workerAt[w] = "dialing" /\ UNCHANGED <<flow, seq, names, offered, filed>>
      BY <1>1, <2>1 DEF DialAttempt, filed
    <3>2. InAir' = InAir BY <2>1, <3>1 DEF AttemptInv, AttemptTypes, InAir
    <3>3. AttemptTypes' BY <2>1, <3>1 DEF AttemptInv, AttemptTypes, flow, filed
    <3>4. Named' BY <2>1, <3>1 DEF AttemptInv, AttemptTypes, Named, flow
    <3> QED BY <3>1, <3>2, <3>3, <3>4 DEF AttemptInv, Filed, RefusalsDecided, flow, filed
  <2>2. CASE workerAt' = [workerAt EXCEPT ![w] = "loop"] /\ failed' = failed + 1
    <3>1. /\ workerAt[w] = "dialing" /\ UNCHANGED <<flow, feed, seq, names, offered>>
          /\ UNCHANGED <<full, closed, other, unfiled, hangups>>
      BY <1>1, <2>2 DEF DialAttempt
    <3>2. /\ failed' \in Nat
          /\ full + closed + failed' + other + unfiled = full + closed + failed + other + unfiled + 1
      BY <1>0, <2>2
    <3> QED BY <1>0, <2>2, <3>1, <3>2, EndsInv
  <2> QED BY <1>1, <2>1, <2>2 DEF DialAttempt
<1>2. ASSUME NEW w \in Workers, Succeed(w) PROVE AttemptInv'
  <2>1. /\ workerAt[w] = "asking" /\ workerAt' = [workerAt EXCEPT ![w] = "loop"]
        /\ UNCHANGED <<flow, feed, seq, names, offered>>
    BY <1>2 DEF Succeed, Ends
  <2>2. /\ full' \in Nat /\ closed' \in Nat /\ failed' \in Nat /\ other' \in Nat /\ unfiled' \in Nat
        /\ hangups' \in Nat
        /\ full' + closed' + failed' + other' + unfiled' =
             full + closed + failed + other + unfiled + 1
        /\ kind # "redial" /\ closed <= hangups => closed' <= hangups'
    BY <1>0, <1>2 DEF Succeed
  <2> QED BY <2>1, <2>2, EndsInv
<1>3. ASSUME NEW w \in Workers, Refused(w) PROVE AttemptInv'
  <2>1. /\ workerAt[w] = "asking" /\ workerAt' = [workerAt EXCEPT ![w] = "loop"]
        /\ UNCHANGED <<flow, feed, seq, names, offered>>
    BY <1>3 DEF Refused, Ends
  <2>2. /\ full' \in Nat /\ closed' \in Nat /\ failed' \in Nat /\ other' \in Nat /\ unfiled' \in Nat
        /\ hangups' \in Nat
        /\ full' + closed' + failed' + other' + unfiled' =
             full + closed + failed + other + unfiled + 1
        /\ kind # "redial" /\ closed <= hangups => closed' <= hangups'
    BY <1>0, <1>3 DEF Refused
  <2> QED BY <2>1, <2>2, EndsInv
<1>4. ASSUME NEW w \in Workers, HungUp(w) PROVE AttemptInv'
  <2>1. /\ workerAt[w] = "asking" /\ workerAt' = [workerAt EXCEPT ![w] = "loop"]
        /\ UNCHANGED <<flow, feed, seq, names, offered>>
    BY <1>4 DEF HungUp, Ends
  <2>2. /\ full' \in Nat /\ closed' \in Nat /\ failed' \in Nat /\ other' \in Nat /\ unfiled' \in Nat
        /\ hangups' \in Nat
        /\ full' + closed' + failed' + other' + unfiled' =
             full + closed + failed + other + unfiled + 1
        /\ kind # "redial" /\ closed <= hangups => closed' <= hangups'
    BY <1>0, <1>4 DEF HungUp
  <2> QED BY <2>1, <2>2, EndsInv
<1>5. ASSUME NEW w \in Workers, GiveUp(w) PROVE AttemptInv'
  <2>1. /\ workerAt[w] = "asking" /\ workerAt' = [workerAt EXCEPT ![w] = "loop"]
        /\ UNCHANGED <<flow, feed, seq, names, offered>>
    BY <1>5 DEF GiveUp, Ends
  <2>2. /\ full' \in Nat /\ closed' \in Nat /\ failed' \in Nat /\ other' \in Nat /\ unfiled' \in Nat
        /\ hangups' \in Nat
        /\ full' + closed' + failed' + other' + unfiled' =
             full + closed + failed + other + unfiled + 1
        /\ kind # "redial" /\ closed <= hangups => closed' <= hangups'
    BY <1>0, <1>5 DEF GiveUp
  <2> QED BY <2>1, <2>2, EndsInv
<1>6. CASE TimeUp \/ PacerTurns \/ PacerSends \/ Cancel \/ AttemptsReturn \/ UNCHANGED attemptVars
  <2>1. UNCHANGED <<kind, seq, workerAt, names, offered, filed>>
    BY <1>6 DEF TimeUp, PacerTurns, PacerSends, Cancel, AttemptsReturn, attemptVars, flow, feed, filed
  <2>2. AttemptTypes'
    BY <1>6, <2>1 DEF AttemptInv, AttemptTypes, TimeUp, PacerTurns, PacerSends, Cancel,
                     AttemptsReturn, attemptVars, flow, filed
  <2> QED BY <2>1, <2>2 DEF AttemptInv, Filed, Named, RefusalsDecided, InAir, filed
<1> QED
  BY <1>1, <1>2, <1>3, <1>4, <1>5, <1>6, BeginInv, SeqLoadInv, GroundInv DEF AttemptsNext, Worker

-----------------------------------------------------------------------------
(* ArmSockets: the clients that hold their sockets.                         *)

(* Connections the server ended whose readers have not heard of it, writes  *)
(* that have not been counted, and questions the server may still answer.   *)
Unheard == {s \in Sockets : sock[s] = "hungup" /\ reader[s] = "reading"}
Uncounted == {s \in Sockets : writer[s] = "wrote"}
Awaited == {x \in Sockets \X (1..MaxSent) : x[2] \in wire[x[1]]}

SocketTypes ==
  /\ style \in {"udp", "stream", "idle"}
  /\ phase \in {"opening", "running", "closing", "stopped", "fatal"}
  /\ stopped \in BOOLEAN
  /\ sock \in [Sockets -> {"none", "open", "hungup", "shut"}]
  /\ reader \in [Sockets -> {"none", "reading", "gone"}]
  /\ writer \in [Sockets -> {"none", "pacing", "put", "wrote", "gone"}]
  /\ sent \in [Sockets -> 0..MaxSent]
  /\ wire \in [Sockets -> SUBSET (1..MaxSent)] /\ tracked \in [Sockets -> SUBSET (1..MaxSent)]
  /\ sockOffered \in Nat /\ replies \in Nat /\ lat \in Nat /\ sockClosed \in Nat
  /\ sockFailed \in Nat /\ dialled \in Nat /\ sockHangups \in Nat

(* A socket nobody opened has no goroutine; an open one has its reader, and *)
(* only stop shuts one.                                                     *)
SocketPlaces ==
  /\ \A s \in Sockets : sock[s] = "open" => reader[s] = "reading"
  /\ \A s \in Sockets : reader[s] = "none" => sock[s] = "none" /\ writer[s] = "none"
  /\ \A s \in Sockets : sock[s] = "shut" => stopped
  /\ phase \in {"closing", "stopped"} => stopped
  /\ phase \notin {"opening", "fatal"} => Tried = Sockets
  /\ phase = "stopped" => \A s \in Sockets : writer[s] = "gone" /\ reader[s] = "gone"

(* What is on the wire is tracked, and a question is tracked before it is.  *)
TrackedFirst ==
  \A s \in Sockets :
    /\ wire[s] \subseteq tracked[s] /\ wire[s] \subseteq 1..sent[s]
    /\ writer[s] = "put" => sent[s] \in tracked[s] /\ sent[s] \notin wire[s] /\ sent[s] > 0

SocketInv ==
  /\ SocketTypes /\ SocketPlaces /\ TrackedFirst
  /\ sockClosed + Cardinality(Unheard) <= sockHangups
  /\ replies + Cardinality(Awaited) <= sockOffered + Cardinality(Uncounted)
  /\ lat = replies
  /\ style = "idle" => dialled + sockFailed = Cardinality(Tried)

LEMMA SocketsFinite ==
  /\ IsFiniteSet(Unheard) /\ Cardinality(Unheard) \in Nat
  /\ IsFiniteSet(Uncounted) /\ Cardinality(Uncounted) \in Nat
  /\ IsFiniteSet(Awaited) /\ Cardinality(Awaited) \in Nat
  /\ IsFiniteSet(Tried) /\ Cardinality(Tried) \in Nat
<1>1. IsFiniteSet(Sockets) BY SomeSockets
<1>2. IsFiniteSet(1..MaxSent) BY SomeSockets, FS_Interval
<1>3. IsFiniteSet(Sockets \X (1..MaxSent)) BY <1>1, <1>2, FS_Product
<1>4. Unheard \subseteq Sockets /\ Uncounted \subseteq Sockets /\ Tried \subseteq Sockets
      /\ Awaited \subseteq Sockets \X (1..MaxSent)
  BY DEF Unheard, Uncounted, Tried, Awaited
<1> QED BY <1>1, <1>3, <1>4, FS_Subset, FS_CardinalityType

LEMMA SocketsInitInv == SocketsInit => SocketInv
<1> SUFFICES ASSUME SocketsInit PROVE SocketInv OBVIOUS
<1> USE DEF SocketsInit
<1>1. SocketTypes
  <2>1. stopped \in BOOLEAN OBVIOUS
  <2>2. sent \in [Sockets -> 0..MaxSent] BY SomeSockets
  <2>3. /\ wire \in [Sockets -> SUBSET (1..MaxSent)] /\ tracked \in [Sockets -> SUBSET (1..MaxSent)]
        /\ sock \in [Sockets -> {"none", "open", "hungup", "shut"}]
        /\ reader \in [Sockets -> {"none", "reading", "gone"}]
        /\ writer \in [Sockets -> {"none", "pacing", "put", "wrote", "gone"}]
    OBVIOUS
  <2> QED BY <2>1, <2>2, <2>3 DEF SocketTypes
<1>2. SocketPlaces /\ TrackedFirst BY DEF SocketPlaces, TrackedFirst
<1>3. Unheard = {} /\ Awaited = {} /\ Uncounted = {} /\ Tried = {}
  BY DEF Unheard, Awaited, Uncounted, Tried
<1> QED BY <1>1, <1>2, <1>3, FS_EmptySet DEF SocketInv

(* The steps that only the socket's own state and at most one figure know.  *)
LEMMA DialSocketInv ==
  ASSUME SocketInv, NEW s \in Sockets, DialSocket(s)
  PROVE  SocketInv'
<1>1. /\ SocketTypes /\ SocketPlaces /\ TrackedFirst /\ phase = "opening" /\ reader[s] = "none"
      /\ sock[s] = "none" /\ writer[s] = "none"
  BY DEF SocketInv, DialSocket, SocketPlaces
<1>2. UNCHANGED <<style, stopped, sent, wire, tracked, sockOffered, replies, lat, sockClosed, sockHangups>>
  BY DEF DialSocket
<1>3. CASE UNCHANGED <<sock, reader, writer, sockFailed, dialled>> /\ phase' = "fatal"
  BY <1>1, <1>2, <1>3 DEF SocketInv, SocketTypes, SocketPlaces, TrackedFirst, Unheard, Uncounted, Awaited, Tried
<1>4. CASE reader' # reader
  <2>1. PICK so \in {"none", "open"}, re \in {"reading", "gone"}, wr \in {"pacing", "gone"} :
          /\ sock' = [sock EXCEPT ![s] = so] /\ reader' = [reader EXCEPT ![s] = re]
          /\ writer' = [writer EXCEPT ![s] = wr] /\ phase' = phase
          /\ so = "open" => re = "reading"
    BY <1>1, <1>4 DEF DialSocket, SocketTypes
  <2>2. /\ sockFailed' \in Nat /\ dialled' \in Nat
        /\ style = "idle" => dialled' + sockFailed' = dialled + sockFailed + 1
    BY <1>1, <1>4 DEF DialSocket, SocketTypes
  <2>3. Tried' = Tried \cup {s} /\ s \notin Tried BY <1>1, <2>1 DEF Tried, SocketTypes
  <2>4. Unheard' = Unheard /\ Uncounted' = Uncounted /\ Awaited' = Awaited
    BY <1>1, <1>2, <2>1 DEF Unheard, Uncounted, Awaited, SocketTypes
  <2>5. Cardinality(Tried') = Cardinality(Tried) + 1 BY <2>3, SocketsFinite, FS_AddElement
  <2>6. SocketTypes' BY <1>1, <1>2, <2>1, <2>2 DEF SocketTypes
  <2>7. SocketPlaces' BY <1>1, <1>2, <2>1 DEF SocketPlaces, SocketTypes
  <2>8. TrackedFirst' BY <1>1, <1>2, <2>1 DEF TrackedFirst, SocketTypes
  <2>9. style' = "idle" => dialled' + sockFailed' = Cardinality(Tried')
    <3>1. PICK n \in Nat : n = Cardinality(Tried) BY SocketsFinite
    <3> QED BY <1>1, <1>2, <2>2, <2>5, <3>1 DEF SocketInv, SocketTypes
  <2> QED BY <1>2, <2>4, <2>6, <2>7, <2>8, <2>9 DEF SocketInv
<1> QED BY <1>1, <1>3, <1>4 DEF DialSocket, SocketTypes

LEMMA PhaseInv ==
  ASSUME SocketInv, Opened \/ Stop \/ SocketsReturn \/ UNCHANGED socketVars
  PROVE  SocketInv'
<1>1. UNCHANGED <<style, sock, reader, writer, sent, wire, tracked, stats, sockHangups>>
  BY DEF Opened, Stop, SocketsReturn, socketVars, stats
<1>2. Unheard' = Unheard /\ Uncounted' = Uncounted /\ Awaited' = Awaited /\ Tried' = Tried
  BY <1>1 DEF Unheard, Uncounted, Awaited, Tried
<1>3. stopped' \in BOOLEAN BY DEF SocketInv, SocketTypes, Opened, Stop, SocketsReturn, socketVars
<1>4. phase' \in {"opening", "running", "closing", "stopped", "fatal"}
  BY DEF SocketInv, SocketTypes, Opened, Stop, SocketsReturn, socketVars
<1>5. SocketTypes' BY <1>1, <1>3, <1>4 DEF SocketInv, SocketTypes, stats
<1>6. SocketPlaces'
  BY <1>1, <1>2 DEF SocketInv, SocketPlaces, Opened, Stop, SocketsReturn, socketVars
<1> QED BY <1>1, <1>2, <1>5, <1>6 DEF SocketInv, TrackedFirst, stats

(* A writer paces, enters its question in the tracker, writes and counts.   *)
LEMMA SendInv ==
  ASSUME SocketInv, NEW s \in Sockets, Send(s) \/ WriterEnds(s)
  PROVE  SocketInv'
<1>1. /\ SocketTypes /\ SocketPlaces /\ TrackedFirst /\ writer[s] = "pacing"
      /\ UNCHANGED <<style, phase, stopped, sock, reader, wire, stats, sockHangups>>
  BY DEF SocketInv, Send, WriterEnds
<1>2. reader[s] # "none" /\ phase # "stopped" BY <1>1 DEF SocketPlaces
<1>3. PICK wr \in {"put", "gone"} : writer' = [writer EXCEPT ![s] = wr]
  BY DEF Send, WriterEnds
<1>4. Unheard' = Unheard /\ Uncounted' = Uncounted /\ Awaited' = Awaited /\ Tried' = Tried
  BY <1>1, <1>3 DEF Unheard, Uncounted, Awaited, Tried, SocketTypes
<1>5. SocketPlaces' BY <1>1, <1>2, <1>3, <1>4 DEF SocketPlaces, SocketTypes
<1>6. SocketTypes' /\ TrackedFirst'
  <2>1. CASE WriterEnds(s)
    BY <1>1, <2>1 DEF WriterEnds, SocketTypes, TrackedFirst, stats
  <2>2. CASE Send(s)
    <3>1. PICK k \in 0..MaxSent : k = sent[s] BY <1>1 DEF SocketTypes
    <3>2. /\ k + 1 \in 1..MaxSent /\ sent' = [sent EXCEPT ![s] = k + 1]
          /\ tracked' = [tracked EXCEPT ![s] = tracked[s] \cup {k + 1}]
          /\ writer' = [writer EXCEPT ![s] = "put"]
      BY <2>2, <3>1, SomeSockets DEF Send
    <3>3. k + 1 \notin 1..k BY <3>1
    <3>4. 1..k \subseteq 1..(k + 1) BY <3>1
    <3>5. SocketTypes' BY <1>1, <3>2 DEF SocketTypes, stats
    <3>6. TrackedFirst'
      <4>1. ASSUME NEW u \in Sockets, u # s
            PROVE  sent'[u] = sent[u] /\ tracked'[u] = tracked[u] /\ writer'[u] = writer[u]
        BY <1>1, <3>2, <4>1 DEF SocketTypes
      <4>2. sent'[s] = k + 1 /\ tracked'[s] = tracked[s] \cup {k + 1}
        BY <1>1, <3>2 DEF SocketTypes
      <4>3. wire[s] \subseteq tracked[s] /\ wire[s] \subseteq 1..k
        BY <1>1, <3>1 DEF TrackedFirst
      <4>4. k + 1 > 0 BY <3>1
      <4> QED BY <1>1, <3>3, <3>4, <4>1, <4>2, <4>3, <4>4 DEF TrackedFirst
    <3> QED BY <3>5, <3>6
  <2> QED BY <2>1, <2>2
<1> QED BY <1>1, <1>4, <1>5, <1>6 DEF SocketInv, stats

LEMMA WriteInv ==
  ASSUME SocketInv, NEW s \in Sockets, Write(s)
  PROVE  SocketInv'
<1>1. /\ SocketTypes /\ SocketPlaces /\ TrackedFirst /\ writer[s] = "put"
      /\ UNCHANGED <<style, phase, stopped, sock, reader, sent, tracked, stats, sockHangups>>
  BY DEF SocketInv, Write
<1>2. reader[s] # "none" /\ phase # "stopped" BY <1>1 DEF SocketPlaces
<1>3. PICK k \in 1..MaxSent : k = sent[s] /\ k \in tracked[s] /\ k \notin wire[s]
  BY <1>1, SomeSockets DEF SocketTypes, TrackedFirst
<1>4. PICK wr \in {"wrote", "gone"}, more \in {{}, {k}} :
        /\ writer' = [writer EXCEPT ![s] = wr]
        /\ wire' = [wire EXCEPT ![s] = wire[s] \cup more]
        /\ more # {} => wr = "wrote"
  <2>1. wire = [wire EXCEPT ![s] = wire[s] \cup {}] BY <1>1 DEF SocketTypes
  <2> QED BY <1>3, <2>1 DEF Write
<1>5. Unheard' = Unheard /\ Tried' = Tried BY <1>1 DEF Unheard, Tried
<1>6. SocketTypes' BY <1>1, <1>3, <1>4 DEF SocketTypes, stats
<1>7. SocketPlaces' BY <1>1, <1>2, <1>4, <1>5 DEF SocketPlaces, SocketTypes
<1>8. TrackedFirst'
  <2>1. k \in 1..k BY <1>3
  <2> QED BY <1>1, <1>3, <1>4, <2>1 DEF TrackedFirst, SocketTypes
<1>9. replies' + Cardinality(Awaited') <= sockOffered' + Cardinality(Uncounted')
  <2>1. CASE wr = "wrote"
    <3>1. Uncounted' = Uncounted \cup {s} /\ s \notin Uncounted
      BY <1>1, <1>4, <2>1 DEF Uncounted, SocketTypes
    <3>2. Cardinality(Uncounted') = Cardinality(Uncounted) + 1
      BY <3>1, SocketsFinite, FS_AddElement
    <3>3. Awaited' = Awaited \/ (Awaited' = Awaited \cup {<<s, k>>} /\ <<s, k>> \notin Awaited)
      BY <1>1, <1>3, <1>4 DEF Awaited, SocketTypes
    <3>4. Cardinality(Awaited') = Cardinality(Awaited) \/ Cardinality(Awaited') = Cardinality(Awaited) + 1
      BY <3>3, SocketsFinite, FS_AddElement
    <3>5. PICK a \in Nat, u \in Nat : a = Cardinality(Awaited) /\ u = Cardinality(Uncounted)
      BY SocketsFinite
    <3> QED BY <1>1, <3>2, <3>4, <3>5 DEF SocketInv, SocketTypes, stats
  <2>2. CASE wr = "gone"
    <3>1. Uncounted' = Uncounted /\ Awaited' = Awaited
      BY <1>1, <1>4, <2>2 DEF Uncounted, Awaited, SocketTypes
    <3> QED BY <1>1, <3>1 DEF SocketInv, stats
  <2> QED BY <2>1, <2>2
<1> QED BY <1>1, <1>5, <1>6, <1>7, <1>8, <1>9 DEF SocketInv, stats

LEMMA CountInv ==
  ASSUME SocketInv, NEW s \in Sockets, Count(s)
  PROVE  SocketInv'
<1>1. /\ SocketTypes /\ SocketPlaces /\ TrackedFirst /\ writer[s] = "wrote"
      /\ writer' = [writer EXCEPT ![s] = "pacing"] /\ sockOffered' = sockOffered + 1
      /\ UNCHANGED <<style, phase, stopped, sock, reader, sent, wire, tracked, replies, lat,
                     sockClosed, sockFailed, dialled, sockHangups>>
  BY DEF SocketInv, Count
<1>2. reader[s] # "none" /\ phase # "stopped" BY <1>1 DEF SocketPlaces
<1>3. Unheard' = Unheard /\ Awaited' = Awaited /\ Tried' = Tried
  BY <1>1 DEF Unheard, Awaited, Tried
<1>4. Uncounted' = Uncounted \ {s} /\ s \in Uncounted BY <1>1 DEF Uncounted, SocketTypes
<1>5. Cardinality(Uncounted') = Cardinality(Uncounted) - 1
  BY <1>4, SocketsFinite, FS_RemoveElement
<1>6. SocketTypes' BY <1>1 DEF SocketTypes
<1>7. SocketPlaces' BY <1>1, <1>2, <1>3 DEF SocketPlaces, SocketTypes
<1>8. TrackedFirst' BY <1>1 DEF TrackedFirst, SocketTypes
<1>9. replies' + Cardinality(Awaited') <= sockOffered' + Cardinality(Uncounted')
  <2>1. PICK a \in Nat, u \in Nat : a = Cardinality(Awaited) /\ u = Cardinality(Uncounted)
    BY SocketsFinite
  <2> QED BY <1>1, <1>3, <1>5, <2>1 DEF SocketInv, SocketTypes
<1> QED BY <1>1, <1>3, <1>6, <1>7, <1>8, <1>9 DEF SocketInv

(* A reader files an answer, and a latency: its id is tracked.              *)
LEMMA ReadsInv ==
  ASSUME SocketInv, NEW s \in Sockets, NEW q \in 1..MaxSent, Reads(s, q)
  PROVE  SocketInv'
<1>1. /\ SocketTypes /\ SocketPlaces /\ TrackedFirst /\ q \in wire[s]
      /\ wire' = [wire EXCEPT ![s] = wire[s] \ {q}]
      /\ tracked' = [tracked EXCEPT ![s] = tracked[s] \ {q}]
      /\ replies' = replies + 1
      /\ UNCHANGED <<style, phase, stopped, sock, reader, writer, sent, sockOffered, sockClosed,
                     sockFailed, dialled, sockHangups>>
  BY DEF SocketInv, Reads
<1>2. lat' = lat + 1 BY <1>1 DEF Reads, TrackedFirst
<1>3. Unheard' = Unheard /\ Uncounted' = Uncounted /\ Tried' = Tried
  BY <1>1 DEF Unheard, Uncounted, Tried
<1>4. Awaited' = Awaited \ {<<s, q>>} /\ <<s, q>> \in Awaited
  BY <1>1 DEF Awaited, SocketTypes
<1>5. Cardinality(Awaited') = Cardinality(Awaited) - 1
  BY <1>4, SocketsFinite, FS_RemoveElement
<1>6. SocketTypes' BY <1>1, <1>2 DEF SocketTypes
<1>7. SocketPlaces' BY <1>1, <1>3 DEF SocketPlaces
<1>8. TrackedFirst' BY <1>1 DEF TrackedFirst, SocketTypes
<1>9. replies' + Cardinality(Awaited') <= sockOffered' + Cardinality(Uncounted')
  <2>1. PICK a \in Nat, u \in Nat : a = Cardinality(Awaited) /\ u = Cardinality(Uncounted)
    BY SocketsFinite
  <2> QED BY <1>1, <1>3, <1>5, <2>1 DEF SocketInv, SocketTypes
<1>10. lat' = replies' BY <1>1, <1>2 DEF SocketInv
<1> QED BY <1>1, <1>3, <1>6, <1>7, <1>8, <1>9, <1>10 DEF SocketInv

(* A socket that is ended, by the server or by stop, loses what is on it.   *)
LEMMA FewerAwaited ==
  ASSUME SocketInv, NEW s \in Sockets, NEW kept \in SUBSET wire[s],
         wire' = [wire EXCEPT ![s] = kept], UNCHANGED <<writer, replies, sockOffered>>
  PROVE  replies' + Cardinality(Awaited') <= sockOffered' + Cardinality(Uncounted')
<1>1. Uncounted' = Uncounted BY DEF Uncounted
<1>2. Awaited' \subseteq Awaited BY DEF Awaited, SocketInv, SocketTypes
<1>3. Cardinality(Awaited') <= Cardinality(Awaited) /\ Cardinality(Awaited') \in Nat
  BY <1>2, SocketsFinite, FS_Subset, FS_CardinalityType
<1>4. PICK a \in Nat, u \in Nat : a = Cardinality(Awaited) /\ u = Cardinality(Uncounted)
  BY SocketsFinite
<1>5. PICK b \in Nat : b = Cardinality(Awaited') BY <1>3
<1>6. replies + a <= sockOffered + u /\ b <= a /\ replies \in Nat /\ sockOffered \in Nat
  BY <1>3, <1>4, <1>5 DEF SocketInv, SocketTypes
<1>7. replies + b <= sockOffered + u BY <1>6
<1> QED BY <1>1, <1>4, <1>5, <1>7

LEMMA ServerHangsUpInv ==
  ASSUME SocketInv, NEW s \in Sockets, ServerHangsUp(s)
  PROVE  SocketInv'
<1>1. /\ SocketTypes /\ SocketPlaces /\ TrackedFirst /\ sock[s] = "open"
      /\ sock' = [sock EXCEPT ![s] = "hungup"] /\ sockHangups' = sockHangups + 1
      /\ UNCHANGED <<style, phase, stopped, reader, writer, sent, tracked, stats>>
  BY DEF SocketInv, ServerHangsUp
<1>2. PICK kept \in SUBSET wire[s] : wire' = [wire EXCEPT ![s] = kept] BY DEF ServerHangsUp
<1>3. reader[s] = "reading" BY <1>1 DEF SocketPlaces
<1>4. Tried' = Tried BY <1>1 DEF Tried
<1>5. Unheard' = Unheard \cup {s} /\ s \notin Unheard BY <1>1, <1>3 DEF Unheard, SocketTypes
<1>6. Cardinality(Unheard') = Cardinality(Unheard) + 1 BY <1>5, SocketsFinite, FS_AddElement
<1>7. SocketTypes' BY <1>1, <1>2 DEF SocketTypes, stats
<1>8. SocketPlaces' BY <1>1, <1>3, <1>4 DEF SocketPlaces, SocketTypes
<1>9. TrackedFirst' BY <1>1, <1>2 DEF TrackedFirst, SocketTypes
<1>10. sockClosed' + Cardinality(Unheard') <= sockHangups'
  <2>1. PICK n \in Nat : n = Cardinality(Unheard) BY SocketsFinite
  <2> QED BY <1>1, <1>6, <2>1 DEF SocketInv, SocketTypes, stats
<1>11. replies' + Cardinality(Awaited') <= sockOffered' + Cardinality(Uncounted')
  BY <1>1, <1>2, FewerAwaited DEF stats
<1> QED BY <1>1, <1>4, <1>7, <1>8, <1>9, <1>10, <1>11 DEF SocketInv, stats

LEMMA ShutSocketInv ==
  ASSUME SocketInv, NEW s \in Sockets, ShutSocket(s)
  PROVE  SocketInv'
<1>1. /\ SocketTypes /\ SocketPlaces /\ TrackedFirst /\ phase = "closing"
      /\ sock' = [sock EXCEPT ![s] = "shut"] /\ wire' = [wire EXCEPT ![s] = {}]
      /\ sock[s] \in {"open", "hungup"}
      /\ UNCHANGED <<style, phase, stopped, reader, writer, sent, tracked, stats, sockHangups>>
  BY DEF SocketInv, ShutSocket, Open
<1>2. Tried' = Tried BY <1>1 DEF Tried
<1>3. Unheard' \subseteq Unheard BY <1>1 DEF Unheard, SocketTypes
<1>4. Cardinality(Unheard') <= Cardinality(Unheard) /\ Cardinality(Unheard') \in Nat
  BY <1>3, SocketsFinite, FS_Subset, FS_CardinalityType
<1>5. SocketTypes' BY <1>1 DEF SocketTypes, stats
<1>6. SocketPlaces'
  <2>1. reader[s] # "none" BY <1>1 DEF SocketPlaces
  <2> QED BY <1>1, <1>2, <2>1 DEF SocketPlaces, SocketTypes
<1>7. TrackedFirst' BY <1>1 DEF TrackedFirst, SocketTypes
<1>8. sockClosed' + Cardinality(Unheard') <= sockHangups'
  <2>1. PICK n \in Nat, m \in Nat : n = Cardinality(Unheard) /\ m = Cardinality(Unheard') /\ m <= n
    BY <1>4, SocketsFinite
  <2>2. sockClosed + n <= sockHangups /\ sockClosed \in Nat /\ sockHangups \in Nat
    BY <1>1, <2>1 DEF SocketInv, SocketTypes
  <2>3. sockClosed + m <= sockHangups BY <2>1, <2>2
  <2> QED BY <1>1, <2>1, <2>3 DEF stats
<1>9. replies' + Cardinality(Awaited') <= sockOffered' + Cardinality(Uncounted')
  BY <1>1, FewerAwaited DEF stats
<1> QED BY <1>1, <1>2, <1>5, <1>6, <1>7, <1>8, <1>9 DEF SocketInv, stats

(* A reader that counts a closed connection has not been stopped, so it is  *)
(* one the server ended.                                                    *)
LEMMA ReaderEndsInv ==
  ASSUME SocketInv, NEW s \in Sockets, ReaderEnds(s)
  PROVE  SocketInv'
<1>1. /\ SocketTypes /\ SocketPlaces /\ TrackedFirst /\ reader[s] = "reading"
      /\ sock[s] \in {"hungup", "shut"} /\ reader' = [reader EXCEPT ![s] = "gone"]
      /\ UNCHANGED <<style, phase, stopped, sock, writer, sent, wire, tracked, sockOffered, replies,
                     lat, sockFailed, dialled, sockHangups>>
  BY DEF SocketInv, ReaderEnds
<1>2. Tried' = Tried BY <1>1 DEF Tried, SocketTypes
<1>3. Awaited' = Awaited /\ Uncounted' = Uncounted BY <1>1 DEF Awaited, Uncounted
<1>4. SocketPlaces' BY <1>1, <1>2 DEF SocketPlaces, SocketTypes
<1>5. TrackedFirst' BY <1>1 DEF TrackedFirst
<1>6. sockClosed' \in Nat /\ sockClosed' + Cardinality(Unheard') <= sockHangups'
  <2>1. PICK n \in Nat : n = Cardinality(Unheard) BY SocketsFinite
  <2>2. sockClosed \in Nat /\ sockHangups \in Nat /\ sockClosed + n <= sockHangups
    BY <2>1 DEF SocketInv, SocketTypes
  <2>3. CASE sock[s] = "hungup"
    <3>1. Unheard' = Unheard \ {s} /\ s \in Unheard BY <1>1, <2>3 DEF Unheard, SocketTypes
    <3>2. Cardinality(Unheard') = n - 1 BY <2>1, <3>1, SocketsFinite, FS_RemoveElement
    <3>3. sockClosed' = sockClosed \/ sockClosed' = sockClosed + 1 BY DEF ReaderEnds
    <3>4. sockClosed' \in Nat /\ sockClosed' + (n - 1) <= sockHangups BY <2>1, <2>2, <3>3
    <3> QED BY <1>1, <3>2, <3>4
  <2>4. CASE sock[s] = "shut"
    <3>1. Unheard' = Unheard BY <1>1, <2>4 DEF Unheard, SocketTypes
    <3>2. sockClosed' = sockClosed BY <1>1, <2>4 DEF ReaderEnds, SocketPlaces
    <3> QED BY <1>1, <2>1, <2>2, <3>1, <3>2
  <2> QED BY <1>1, <2>3, <2>4
<1>7. SocketTypes' BY <1>1, <1>6 DEF SocketTypes
<1> QED BY <1>1, <1>2, <1>3, <1>4, <1>5, <1>6, <1>7 DEF SocketInv

LEMMA SocketsNextInv ==
  ASSUME SocketInv, [SocketsNext]_socketVars
  PROVE  SocketInv'
  BY DialSocketInv, PhaseInv, SendInv, WriteInv, CountInv, ReadsInv, ServerHangsUpInv,
     ShutSocketInv, ReaderEndsInv
  DEF SocketsNext, Socket

(* stats.closed: whatever the sockets, workers and questions of the two     *)
(* kinds of client, what they count as closed the server ended, short of    *)
(* what runTCPRedial takes for it.                                          *)
THEOREM ServersOwnHolds == SocketsSpec /\ AttemptsSpec => []ServersOwn
<1>1. SocketInv => NotOwnDoing
  <2> SUFFICES ASSUME SocketInv PROVE NotOwnDoing OBVIOUS
  <2>1. PICK n \in Nat : n = Cardinality(Unheard) BY SocketsFinite
  <2> QED BY <2>1 DEF SocketInv, SocketTypes, NotOwnDoing
<1>2. AttemptInv => RefusalsDecided BY DEF AttemptInv
<1>3. NotOwnDoing /\ RefusalsDecided => ServersOwn BY DEF ServersOwn
<1> QED
  BY <1>1, <1>2, <1>3, SocketsInitInv, SocketsNextInv, AttemptsInitInv, AttemptsNextInv, PTL
  DEF SocketsSpec, AttemptsSpec

(* The figures a report reads once its clients have been stopped: every     *)
(* answer was offered and has its latency, every idle connection and every  *)
(* attempt has one outcome, and no two DoH requests asked one name.         *)
THEOREM FiguresSettledHolds == SocketsSpec /\ AttemptsSpec => []FiguresSettled
<1>1. SocketInv => SocketsSettled
  <2> SUFFICES ASSUME SocketInv, phase = "stopped" PROVE SocketsSettled BY DEF SocketsSettled
  <2>1. \A s \in Sockets : writer[s] = "gone" /\ reader[s] = "gone" BY DEF SocketInv, SocketPlaces
  <2>2. Uncounted = {} /\ Tried = Sockets BY <2>1 DEF Uncounted, Tried
  <2>3. PICK n \in Nat : n = Cardinality(Awaited) BY SocketsFinite
  <2>4. replies <= sockOffered BY <2>2, <2>3, FS_EmptySet DEF SocketInv, SocketTypes
  <2> QED BY <2>1, <2>2, <2>4 DEF SocketInv, SocketsSettled
<1>2. AttemptInv => EveryAttemptFiled
  <2> SUFFICES ASSUME AttemptInv PROVE EveryAttemptFiled OBVIOUS
  <2>1. ASSUME stopping = "stopped" PROVE offered = full + closed + failed + other + unfiled
    <3>1. InAir = {} BY <2>1 DEF AttemptInv, AttemptTypes, InAir
    <3> QED BY <3>1, FS_EmptySet DEF AttemptInv, AttemptTypes, Filed
  <2> QED BY <2>1 DEF AttemptInv, Named, EveryAttemptFiled
<1>3. SocketsSettled /\ EveryAttemptFiled => FiguresSettled BY DEF FiguresSettled
<1> QED
  BY <1>1, <1>2, <1>3, SocketsInitInv, SocketsNextInv, AttemptsInitInv, AttemptsNextInv, PTL
  DEF SocketsSpec, AttemptsSpec

-----------------------------------------------------------------------------
(* LoadGen: the load generator's run.                                       *)

(* Latencies no slot has handed over, and slots that are dialling again.    *)
Unrecorded == {x \in AllSlots \X Questions : x[2] \in local[x[1]]}
Redialling == {w \in AllSlots : slotAt[w] = "redial"}

LoadTypes ==
  /\ transport \in {"udp", "stream", "doh", "handshake"}
  /\ main \in {"dialing", "running", "reported", "failed"}
  /\ clientConn \in [Clients -> {"dialing", "open", "closed", "refused"}]
  /\ slotAt \in [AllSlots -> {"loop", "turn", "asked", "redial", "done"}]
  /\ asks \in [AllSlots -> 0..MaxAsks]
  /\ measured \in [AllSlots -> BOOLEAN]
  /\ coming \in [AllSlots -> SUBSET Questions] /\ local \in [AllSlots -> SUBSET Questions]
  /\ outcomes \in [AllSlots -> [Questions -> Nat]]
  /\ errs \in Nat /\ answered \in Nat /\ errors \in Nat /\ reconnects \in Nat /\ recorded \in Nat

(* A question is counted once it is over, once: not while it is current,    *)
(* nor before it is asked.                                                  *)
CountedOnce ==
  \A w \in AllSlots :
    /\ slotAt[w] = "asked" => asks[w] > 0
    /\ \A q \in Questions :
         /\ outcomes[w][q] <= 1
         /\ q > asks[w] \/ (slotAt[w] = "asked" /\ q = asks[w]) =>
              outcomes[w][q] = 0 /\ q \notin local[w]

(* A slot the transport does not use has no latencies, a client that could  *)
(* not connect left its error, and a report follows the last slot's end and *)
(* every close.                                                             *)
Reportable ==
  /\ \A w \in AllSlots : w \notin Slots => local[w] = {}
  /\ \A c \in Clients : clientConn[c] = "refused" => errs > 0
  /\ main = "reported" =>
       /\ \A c \in Clients : clientConn[c] = "closed"
       /\ \A w \in Slots : slotAt[w] = "done"

LoadInv ==
  /\ LoadTypes /\ CountedOnce /\ Reportable
  /\ answered = recorded + Cardinality(Unrecorded)
  /\ reconnects + Cardinality(Redialling) <= errors

LEMMA LoadFinite ==
  /\ IsFiniteSet(Unrecorded) /\ Cardinality(Unrecorded) \in Nat
  /\ IsFiniteSet(Redialling) /\ Cardinality(Redialling) \in Nat
<1>1. IsFiniteSet(AllSlots)
  <2>1. IsFiniteSet({1, 2})
    <3>1. IsFiniteSet({1}) BY FS_Singleton
    <3>2. {1, 2} = {1} \cup {2} OBVIOUS
    <3> QED BY <3>1, <3>2, FS_AddElement
  <2> QED BY <2>1, SomeClients, FS_Product DEF AllSlots
<1>2. IsFiniteSet(Questions) BY LoadBounds, FS_Interval DEF Questions
<1>3. IsFiniteSet(AllSlots \X Questions) BY <1>1, <1>2, FS_Product
<1>4. Unrecorded \subseteq AllSlots \X Questions /\ Redialling \subseteq AllSlots
  BY DEF Unrecorded, Redialling
<1> QED BY <1>1, <1>3, <1>4, FS_Subset, FS_CardinalityType

LEMMA SlotsAreSlots == Slots \subseteq AllSlots BY SomeClients DEF Slots, AllSlots

LEMMA LoadInitInv == LoadInit => LoadInv
<1> SUFFICES ASSUME LoadInit PROVE LoadInv OBVIOUS
<1> USE DEF LoadInit
<1>1. LoadTypes
  <2>1. measured \in [AllSlots -> BOOLEAN] OBVIOUS
  <2>2. asks \in [AllSlots -> 0..MaxAsks] BY LoadBounds
  <2>3. /\ main \in {"dialing", "running", "reported", "failed"}
        /\ clientConn \in [Clients -> {"dialing", "open", "closed", "refused"}]
        /\ slotAt \in [AllSlots -> {"loop", "turn", "asked", "redial", "done"}]
        /\ coming \in [AllSlots -> SUBSET Questions] /\ local \in [AllSlots -> SUBSET Questions]
    OBVIOUS
  <2>4. outcomes \in [AllSlots -> [Questions -> Nat]] OBVIOUS
  <2> QED BY <2>1, <2>2, <2>3, <2>4 DEF LoadTypes
<1>2. CountedOnce BY DEF CountedOnce
<1>3. Reportable BY DEF Reportable
<1>4. Unrecorded = {} /\ Redialling = {} BY DEF Unrecorded, Redialling
<1> QED BY <1>1, <1>2, <1>3, <1>4, FS_EmptySet DEF LoadInv

(* What moves no question.                                                  *)
LEMMA QuietInv ==
  ASSUME LoadInv,
         \/ ServerTurns \/ Start \/ Tick \/ Report \/ UNCHANGED loadVars
         \/ \E c \in Clients : DialClient(c) \/ Close(c)
  PROVE  LoadInv'
<1>1. LoadTypes /\ CountedOnce /\ Reportable BY DEF LoadInv
<1>2. UNCHANGED <<transport, asks, measured, coming, outcomes, local, loadCounters>> /\ Slots' = Slots
  BY DEF ServerTurns, Start, Tick, Report, loadVars, DialClient, Close, loadCounters, Slots
<1>3. CASE \E c \in Clients : DialClient(c)
  <2>1. PICK c \in Clients : DialClient(c) BY <1>3
  <2>2. /\ main' = main /\ clientConn[c] = "dialing" /\ main # "reported"
        /\ \E to \in {"open", "refused"} : /\ clientConn' = [clientConn EXCEPT ![c] = to]
                                           /\ to = "refused" => errs' = errs + 1
        /\ errs' \in {errs, errs + 1}
        /\ slotAt' \in [AllSlots -> {"loop", "turn", "asked", "redial", "done"}]
        /\ \A w \in AllSlots : slotAt'[w] \in {slotAt[w], "done"}
    BY <1>1, <2>1 DEF DialClient, LoadTypes, Reportable
  <2>3. LoadTypes' BY <1>1, <1>2, <2>2 DEF LoadTypes, loadCounters
  <2>4. CountedOnce' BY <1>1, <1>2, <2>2 DEF CountedOnce
  <2>5. Reportable' BY <1>1, <1>2, <2>2 DEF Reportable, LoadTypes
  <2>6. Unrecorded' = Unrecorded /\ Redialling' \subseteq Redialling
    BY <1>2, <2>2 DEF Unrecorded, Redialling
  <2>7. Cardinality(Redialling') <= Cardinality(Redialling) /\ Cardinality(Redialling') \in Nat
    BY <2>6, LoadFinite, FS_Subset, FS_CardinalityType
  <2>8. reconnects + Cardinality(Redialling') <= errors
    <3>1. PICK n \in Nat, m \in Nat : n = Cardinality(Redialling) /\ m = Cardinality(Redialling') /\ m <= n
      BY <2>7, LoadFinite
    <3>2. reconnects \in Nat /\ errors \in Nat /\ reconnects + n <= errors
      BY <1>1, <3>1 DEF LoadInv, LoadTypes
    <3> QED BY <3>1, <3>2
  <2> QED BY <1>2, <2>3, <2>4, <2>5, <2>6, <2>8 DEF LoadInv, loadCounters
<1>4. CASE ~\E c \in Clients : DialClient(c)
  <2>1. UNCHANGED <<slotAt, errs>>
    BY <1>4 DEF ServerTurns, Start, Tick, Report, loadVars, Close
  <2>2. Unrecorded' = Unrecorded /\ Redialling' = Redialling
    BY <1>2, <2>1 DEF Unrecorded, Redialling
  <2>3. main' \in {"dialing", "running", "reported", "failed"}
    BY <1>1, <1>4 DEF LoadTypes, ServerTurns, Start, Tick, Report, loadVars, Close
  <2>4. /\ clientConn' \in [Clients -> {"dialing", "open", "closed", "refused"}]
        /\ \A c \in Clients : clientConn'[c] \in {clientConn[c], "closed"}
    BY <1>1, <1>4 DEF LoadTypes, ServerTurns, Start, Tick, Report, loadVars, Close
  <2>5. LoadTypes' BY <1>1, <1>2, <2>1, <2>3, <2>4 DEF LoadTypes, loadCounters
  <2>6. CountedOnce' BY <1>1, <1>2, <2>1 DEF CountedOnce
  <2>7. main' = "reported" =>
          (\A c \in Clients : clientConn'[c] = "closed") /\ \A w \in Slots : slotAt[w] = "done"
    <3>1. CASE main' = main BY <1>1, <2>4, <3>1 DEF Reportable
    <3>2. CASE main' # main /\ main' = "reported"
      <4>1. Report BY <1>4, <3>2 DEF ServerTurns, Start, Tick, loadVars, Close
      <4> QED BY <1>1, <3>2, <4>1 DEF Report, Reportable, LoadTypes
    <3> QED BY <3>1, <3>2
  <2>8. Reportable' BY <1>1, <1>2, <2>1, <2>4, <2>7 DEF Reportable
  <2> QED BY <1>2, <2>2, <2>5, <2>6, <2>8 DEF LoadInv, loadCounters
<1> QED BY <1>3, <1>4

LEMMA TurnInv ==
  ASSUME LoadInv, NEW w \in Slots, Turn(w)
  PROVE  LoadInv'
<1>1. LoadTypes /\ CountedOnce /\ Reportable /\ w \in AllSlots BY SlotsAreSlots DEF LoadInv
<1>2. /\ main = "running" /\ slotAt[w] = "loop" /\ slotAt' = [slotAt EXCEPT ![w] = "turn"]
      /\ UNCHANGED <<transport, main, clientConn, asks, measured, coming, outcomes, local, errs,
                     loadCounters>>
  BY DEF Turn
<1>3. Unrecorded' = Unrecorded /\ Redialling' = Redialling /\ Slots' = Slots
  BY <1>1, <1>2 DEF Unrecorded, Redialling, Slots, LoadTypes
<1>4. LoadTypes' BY <1>1, <1>2 DEF LoadTypes, loadCounters
<1>5. CountedOnce' BY <1>1, <1>2 DEF CountedOnce, LoadTypes
<1>6. Reportable' BY <1>1, <1>2, <1>3 DEF Reportable
<1> QED BY <1>2, <1>3, <1>4, <1>5, <1>6 DEF LoadInv, loadCounters

LEMMA AskInv ==
  ASSUME LoadInv, NEW w \in Slots, Ask(w)
  PROVE  LoadInv'
<1>1. LoadTypes /\ CountedOnce /\ Reportable /\ w \in AllSlots BY SlotsAreSlots DEF LoadInv
<1>2. PICK k \in 0..MaxAsks : k = asks[w] BY <1>1 DEF LoadTypes
<1>3. /\ main = "running" /\ slotAt[w] = "turn" /\ k + 1 \in Questions /\ k + 1 \in 0..MaxAsks
      /\ asks' = [asks EXCEPT ![w] = k + 1] /\ slotAt' = [slotAt EXCEPT ![w] = "asked"]
      /\ coming' = [coming EXCEPT ![w] = coming[w] \cup {k + 1}]
      /\ UNCHANGED <<transport, main, clientConn, outcomes, local, errs, loadCounters>>
  BY <1>2, LoadBounds DEF Ask, Questions
<1>4. measured' \in [AllSlots -> BOOLEAN] BY <1>1 DEF Ask, LoadTypes
<1>5. Unrecorded' = Unrecorded /\ Redialling' = Redialling /\ Slots' = Slots
  BY <1>1, <1>3 DEF Unrecorded, Redialling, Slots, LoadTypes
<1>6. LoadTypes' BY <1>1, <1>3, <1>4 DEF LoadTypes, loadCounters
<1>7. CountedOnce'
  <2>1. ASSUME NEW v \in AllSlots, v # w PROVE asks'[v] = asks[v] /\ slotAt'[v] = slotAt[v]
    BY <1>1, <1>3, <2>1 DEF LoadTypes
  <2>2. asks'[w] = k + 1 /\ slotAt'[w] = "asked" BY <1>1, <1>3 DEF LoadTypes
  <2>3. ASSUME NEW q \in Questions, q > k + 1 \/ q = k + 1
        PROVE  outcomes[w][q] = 0 /\ q \notin local[w]
    <3>1. q > k BY <1>2, <2>3 DEF Questions
    <3> QED BY <1>1, <1>2, <3>1 DEF CountedOnce
  <2>4. k + 1 > 0 BY <1>2
  <2> QED BY <1>1, <1>3, <2>1, <2>2, <2>3, <2>4 DEF CountedOnce
<1>8. Reportable' BY <1>1, <1>3, <1>5 DEF Reportable
<1> QED BY <1>3, <1>5, <1>6, <1>7, <1>8 DEF LoadInv, loadCounters

(* An answer counts the current question, which was not counted yet.        *)
LEMMA AnswerInv ==
  ASSUME LoadInv, NEW w \in Slots, NEW r \in Questions, Answer(w, r)
  PROVE  LoadInv'
<1>1. LoadTypes /\ CountedOnce /\ Reportable /\ w \in AllSlots BY SlotsAreSlots DEF LoadInv
<1>2. PICK more \in {{}, {r}} :
        /\ slotAt[w] = "asked" /\ r = asks[w]
        /\ coming' = [coming EXCEPT ![w] = coming[w] \ {r}]
        /\ slotAt' = [slotAt EXCEPT ![w] = "loop"]
        /\ local' = [local EXCEPT ![w] = local[w] \cup more]
        /\ answered' = IF more = {} THEN answered ELSE answered + 1
        /\ UNCHANGED <<transport, main, clientConn, asks, measured, errs, errors, reconnects, recorded>>
  <2>1. local[w] = local[w] \cup {} OBVIOUS
  <2> QED BY <1>1, <2>1 DEF Answer, LoadTypes
<1>3. outcomes[w][r] = 0 /\ r \notin local[w] /\ main # "reported"
  BY <1>1, <1>2 DEF CountedOnce, Reportable
<1>4. outcomes' = [outcomes EXCEPT ![w] = [outcomes[w] EXCEPT ![r] = 1]]
  BY <1>1, <1>3 DEF Answer, LoadTypes
<1>5. /\ outcomes' \in [AllSlots -> [Questions -> Nat]]
      /\ \A v \in AllSlots : v # w => outcomes'[v] = outcomes[v]
      /\ \A q \in Questions : outcomes'[w][q] = IF q = r THEN 1 ELSE outcomes[w][q]
  <2> DEFINE row == [outcomes[w] EXCEPT ![r] = 1]
  <2>1. row \in [Questions -> Nat] /\ \A q \in Questions : row[q] = IF q = r THEN 1 ELSE outcomes[w][q]
    BY <1>1 DEF LoadTypes
  <2>2. outcomes' = [outcomes EXCEPT ![w] = row] BY <1>4
  <2> HIDE DEF row
  <2> QED BY <1>1, <2>1, <2>2 DEF LoadTypes
<1>6. LoadTypes'
  <2>1. answered' \in Nat BY <1>1, <1>2 DEF LoadTypes
  <2>2. /\ coming' \in [AllSlots -> SUBSET Questions] /\ local' \in [AllSlots -> SUBSET Questions]
        /\ slotAt' \in [AllSlots -> {"loop", "turn", "asked", "redial", "done"}]
    BY <1>1, <1>2 DEF LoadTypes
  <2> QED BY <1>1, <1>2, <1>5, <2>1, <2>2 DEF LoadTypes
<1>7. CountedOnce'
  <2>1. ASSUME NEW v \in AllSlots, v # w PROVE local'[v] = local[v] /\ slotAt'[v] = slotAt[v]
    BY <1>1, <1>2, <2>1 DEF LoadTypes
  <2>2. slotAt'[w] = "loop" /\ local'[w] = local[w] \cup more BY <1>1, <1>2 DEF LoadTypes
  <2>3. ASSUME NEW q \in Questions, q > r PROVE outcomes'[w][q] = 0 /\ q \notin local'[w]
    <3>1. q # r BY <2>3 DEF Questions
    <3> QED BY <1>1, <1>2, <1>5, <2>2, <2>3, <3>1 DEF CountedOnce
  <2>4. \A q \in Questions : outcomes'[w][q] <= 1 BY <1>1, <1>5 DEF CountedOnce
  <2> QED BY <1>1, <1>2, <1>5, <2>1, <2>2, <2>3, <2>4 DEF CountedOnce
<1>8. Slots' = Slots BY <1>2 DEF Slots
<1>9. Reportable' BY <1>1, <1>2, <1>3, <1>8 DEF Reportable, LoadTypes
<1>10. Redialling' = Redialling BY <1>1, <1>2 DEF Redialling, LoadTypes
<1>11. answered' = recorded + Cardinality(Unrecorded')
  <2>1. PICK n \in Nat : n = Cardinality(Unrecorded) BY LoadFinite
  <2>2. CASE more = {}
    <3>1. Unrecorded' = Unrecorded BY <1>1, <1>2, <2>2 DEF Unrecorded, LoadTypes
    <3> QED BY <1>2, <2>2, <3>1 DEF LoadInv
  <2>3. CASE more = {r}
    <3>1. Unrecorded' = Unrecorded \cup {<<w, r>>} /\ <<w, r>> \notin Unrecorded
      BY <1>1, <1>2, <1>3, <2>3 DEF Unrecorded, LoadTypes
    <3>2. Cardinality(Unrecorded') = n + 1 BY <2>1, <3>1, LoadFinite, FS_AddElement
    <3> QED BY <1>1, <1>2, <2>1, <2>3, <3>2 DEF LoadInv, LoadTypes
  <2> QED BY <2>2, <2>3
<1> QED BY <1>2, <1>6, <1>7, <1>9, <1>10, <1>11 DEF LoadInv

LEMMA SkipInv ==
  ASSUME LoadInv, NEW w \in Slots, NEW r \in Questions, Skip(w, r)
  PROVE  LoadInv'
<1>1. LoadTypes /\ w \in AllSlots BY SlotsAreSlots DEF LoadInv
<1>2. /\ coming' = [coming EXCEPT ![w] = coming[w] \ {r}]
      /\ UNCHANGED <<transport, main, clientConn, slotAt, asks, measured, outcomes, local, errs, loadCounters>>
  BY DEF Skip
<1>3. Unrecorded' = Unrecorded /\ Redialling' = Redialling /\ Slots' = Slots
  BY <1>2 DEF Unrecorded, Redialling, Slots
<1>4. LoadTypes' BY <1>1, <1>2 DEF LoadTypes, loadCounters
<1> QED BY <1>2, <1>3, <1>4 DEF LoadInv, CountedOnce, Reportable, loadCounters

(* An error counts the current question; a stream's slot dials again.       *)
LEMMA QueryFailsInv ==
  ASSUME LoadInv, NEW w \in Slots, QueryFails(w)
  PROVE  LoadInv'
<1>1. LoadTypes /\ CountedOnce /\ Reportable /\ w \in AllSlots BY SlotsAreSlots DEF LoadInv
<1>2. slotAt[w] = "asked" /\ main # "reported" BY <1>1 DEF QueryFails, Reportable
<1>3. PICK r \in Questions : r = asks[w] /\ outcomes[w][r] = 0 /\ r \notin local[w]
  <2>1. asks[w] \in 0..MaxAsks /\ asks[w] > 0 BY <1>1, <1>2 DEF LoadTypes, CountedOnce
  <2>2. asks[w] \in Questions BY <2>1, LoadBounds DEF Questions
  <2> QED BY <1>1, <1>2, <2>2 DEF CountedOnce
<1>4. /\ errors' = errors + 1
      /\ UNCHANGED <<transport, main, asks, measured, local, errs, answered, reconnects, recorded>>
  BY DEF QueryFails
<1>5. PICK to \in {"redial", "loop"} : slotAt' = [slotAt EXCEPT ![w] = to]
  BY DEF QueryFails
<1>6. /\ clientConn' \in [Clients -> {"dialing", "open", "closed", "refused"}]
      /\ \A c \in Clients : clientConn'[c] \in {clientConn[c], "closed"}
  BY <1>1 DEF QueryFails, LoadTypes
<1>7. coming' \in [AllSlots -> SUBSET Questions] BY <1>1 DEF QueryFails, LoadTypes
<1>8. outcomes' = [outcomes EXCEPT ![w] = [outcomes[w] EXCEPT ![r] = 1]]
  BY <1>1, <1>3 DEF QueryFails, LoadTypes
<1>9. /\ outcomes' \in [AllSlots -> [Questions -> Nat]]
      /\ \A v \in AllSlots : v # w => outcomes'[v] = outcomes[v]
      /\ \A q \in Questions : outcomes'[w][q] = IF q = r THEN 1 ELSE outcomes[w][q]
  <2> DEFINE row == [outcomes[w] EXCEPT ![r] = 1]
  <2>1. row \in [Questions -> Nat] /\ \A q \in Questions : row[q] = IF q = r THEN 1 ELSE outcomes[w][q]
    BY <1>1 DEF LoadTypes
  <2>2. outcomes' = [outcomes EXCEPT ![w] = row] BY <1>8
  <2> HIDE DEF row
  <2> QED BY <1>1, <2>1, <2>2 DEF LoadTypes
<1>10. LoadTypes'
  <2>1. errors' \in Nat BY <1>1, <1>4 DEF LoadTypes
  <2>2. slotAt' \in [AllSlots -> {"loop", "turn", "asked", "redial", "done"}] BY <1>1, <1>5 DEF LoadTypes
  <2> QED BY <1>1, <1>4, <1>6, <1>7, <1>9, <2>1, <2>2 DEF LoadTypes
<1>11. CountedOnce'
  <2>1. ASSUME NEW v \in AllSlots, v # w PROVE slotAt'[v] = slotAt[v]
    BY <1>1, <1>5, <2>1 DEF LoadTypes
  <2>2. slotAt'[w] # "asked" BY <1>1, <1>5 DEF LoadTypes
  <2>3. ASSUME NEW q \in Questions, q > r PROVE outcomes'[w][q] = 0 /\ q \notin local[w]
    <3>1. q # r BY <2>3 DEF Questions
    <3> QED BY <1>1, <1>3, <1>9, <2>3, <3>1 DEF CountedOnce
  <2>4. \A q \in Questions : outcomes'[w][q] <= 1 BY <1>1, <1>9 DEF CountedOnce
  <2> QED BY <1>1, <1>3, <1>4, <1>9, <2>1, <2>2, <2>3, <2>4 DEF CountedOnce
<1>12. Slots' = Slots /\ Unrecorded' = Unrecorded BY <1>4 DEF Slots, Unrecorded
<1>13. Reportable' BY <1>1, <1>2, <1>4, <1>6, <1>12 DEF Reportable
<1>14. reconnects' + Cardinality(Redialling') <= errors'
  <2>1. PICK n \in Nat : n = Cardinality(Redialling) BY LoadFinite
  <2>2. Redialling' = Redialling \/ (Redialling' = Redialling \cup {w} /\ w \notin Redialling)
    BY <1>1, <1>2, <1>5 DEF Redialling, LoadTypes
  <2>3. Cardinality(Redialling') = n \/ Cardinality(Redialling') = n + 1
    BY <2>1, <2>2, LoadFinite, FS_AddElement
  <2> QED BY <1>1, <1>4, <2>1, <2>3 DEF LoadInv, LoadTypes
<1> QED BY <1>4, <1>10, <1>11, <1>12, <1>13, <1>14 DEF LoadInv

LEMMA RedialInv ==
  ASSUME LoadInv, NEW w \in Slots, Redial(w)
  PROVE  LoadInv'
<1>1. LoadTypes /\ CountedOnce /\ Reportable /\ w \in AllSlots BY SlotsAreSlots DEF LoadInv
<1>2. slotAt[w] = "redial" /\ main # "reported" BY <1>1 DEF Redial, Reportable
<1>3. PICK to \in {"loop", "done"} : slotAt' = [slotAt EXCEPT ![w] = to] BY DEF Redial
<1>4. UNCHANGED <<transport, main, asks, measured, coming, outcomes, local, errs, answered, errors, recorded>>
  BY DEF Redial
<1>5. /\ clientConn' \in [Clients -> {"dialing", "open", "closed", "refused"}]
      /\ \A c \in Clients : clientConn'[c] \in {clientConn[c], "open"}
  BY <1>1 DEF Redial, LoadTypes
<1>6. reconnects' \in {reconnects, reconnects + 1} BY DEF Redial
<1>7. LoadTypes' BY <1>1, <1>3, <1>4, <1>5, <1>6 DEF LoadTypes
<1>8. CountedOnce' BY <1>1, <1>3, <1>4 DEF CountedOnce, LoadTypes
<1>9. Slots' = Slots /\ Unrecorded' = Unrecorded BY <1>4 DEF Slots, Unrecorded
<1>10. Reportable' BY <1>1, <1>2, <1>4, <1>5, <1>9 DEF Reportable
<1>11. reconnects' + Cardinality(Redialling') <= errors'
  <2>1. PICK n \in Nat : n = Cardinality(Redialling) BY LoadFinite
  <2>2. Redialling' = Redialling \ {w} /\ w \in Redialling
    BY <1>1, <1>2, <1>3 DEF Redialling, LoadTypes
  <2>3. Cardinality(Redialling') = n - 1 BY <2>1, <2>2, LoadFinite, FS_RemoveElement
  <2> QED BY <1>1, <1>4, <1>6, <2>1, <2>3 DEF LoadInv, LoadTypes
<1> QED BY <1>4, <1>7, <1>8, <1>9, <1>10, <1>11 DEF LoadInv

(* A slot hands over all its latencies at once.                             *)
LEMMA FinishInv ==
  ASSUME LoadInv, NEW w \in Slots, Finish(w)
  PROVE  LoadInv'
<1>1. LoadTypes /\ CountedOnce /\ Reportable /\ w \in AllSlots BY SlotsAreSlots DEF LoadInv
<1>2. /\ slotAt[w] = "loop" /\ slotAt' = [slotAt EXCEPT ![w] = "done"]
      /\ recorded' = recorded + Cardinality(local[w]) /\ local' = [local EXCEPT ![w] = {}]
      /\ UNCHANGED <<transport, main, clientConn, asks, measured, coming, outcomes, errs, answered,
                     errors, reconnects>>
  BY DEF Finish
<1>3. main # "reported" BY <1>1, <1>2 DEF Reportable
<1>4. PICK mine \in SUBSET Questions : mine = local[w] BY <1>1 DEF LoadTypes
<1>5. IsFiniteSet(mine) /\ Cardinality(mine) \in Nat
  <2>1. IsFiniteSet(Questions) BY LoadBounds, FS_Interval DEF Questions
  <2>2. mine \subseteq Questions BY <1>4
  <2>3. IsFiniteSet(mine) BY <2>1, <2>2, FS_Subset
  <2> QED BY <2>3, FS_CardinalityType
<1>6. LoadTypes' BY <1>1, <1>2, <1>4, <1>5 DEF LoadTypes
<1>7. CountedOnce' BY <1>1, <1>2 DEF CountedOnce, LoadTypes
<1>8. Slots' = Slots BY <1>2 DEF Slots
<1>9. Reportable' BY <1>1, <1>2, <1>3, <1>8 DEF Reportable, LoadTypes
<1>10. Redialling' = Redialling BY <1>1, <1>2 DEF Redialling, LoadTypes
<1>11. answered' = recorded' + Cardinality(Unrecorded')
  <2> DEFINE handed == {w} \X mine
  <2>1. handed \cup Unrecorded' = Unrecorded /\ handed \cap Unrecorded' = {}
    BY <1>1, <1>2, <1>4 DEF Unrecorded, LoadTypes
  <2>2. IsFiniteSet(handed) /\ Cardinality(handed) = Cardinality(mine)
    <3>1. IsFiniteSet({w}) /\ Cardinality({w}) = 1 BY FS_Singleton
    <3>2. IsFiniteSet(handed) /\ Cardinality(handed) = Cardinality({w}) * Cardinality(mine)
      BY <1>5, <3>1, FS_Product
    <3> QED BY <1>5, <3>1, <3>2
  <2> HIDE DEF handed
  <2>3. IsFiniteSet(Unrecorded') BY <2>1, LoadFinite, FS_Subset
  <2>4. Cardinality(Unrecorded) = Cardinality(handed) + Cardinality(Unrecorded') - Cardinality({})
    BY <2>1, <2>2, <2>3, FS_Union
  <2>5. Cardinality({}) = 0 BY FS_EmptySet
  <2>6. PICK m \in Nat, n \in Nat, u \in Nat :
          m = Cardinality(mine) /\ n = Cardinality(Unrecorded') /\ u = Cardinality(Unrecorded)
    BY <1>5, <2>3, LoadFinite, FS_CardinalityType
  <2>7. u = m + n BY <2>2, <2>4, <2>5, <2>6
  <2> QED BY <1>1, <1>2, <1>4, <2>6, <2>7 DEF LoadInv, LoadTypes
<1> QED BY <1>2, <1>6, <1>7, <1>9, <1>10, <1>11 DEF LoadInv

LEMMA LoadNextInv ==
  ASSUME LoadInv, [LoadNext]_loadVars
  PROVE  LoadInv'
  BY QuietInv, TurnInv, AskInv, AnswerInv, SkipInv, QueryFailsInv, RedialInv, FinishInv
  DEF LoadNext, LoadProgress, Slot

(* run's Result: whatever the number of clients and questions, no question  *)
(* is counted twice, and a reported run had every client connected and      *)
(* every latency of an answered question, short of those of a stream client *)
(* that could not dial again.                                               *)
THEOREM LoadCountedHolds == LoadSpec => []LoadCounted
<1>1. LoadInv => LoadCounted
  <2> SUFFICES ASSUME LoadInv PROVE LoadCounted OBVIOUS
  <2>1. OneOutcome BY DEF LoadInv, CountedOnce, OneOutcome
  <2>2. ASSUME main = "reported" PROVE ResultComplete
    <3>1. PICK n \in Nat, m \in Nat : n = Cardinality(Unrecorded) /\ m = Cardinality(Redialling)
      BY LoadFinite
    <3>2. recorded <= answered /\ reconnects <= errors BY <3>1 DEF LoadInv, LoadTypes
    <3>3. \A c \in Clients : clientConn[c] = "closed" BY <2>2 DEF LoadInv, Reportable
    <3>4. ASSUME Abandoned = {} PROVE recorded = answered
      <4>1. ASSUME NEW w \in AllSlots PROVE local[w] = {}
        <5>1. w \in Slots => w[1] \in Clients /\ slotAt[w] = "done"
          BY <2>2 DEF LoadInv, Reportable, AllSlots
        <5> QED BY <3>3, <3>4, <5>1 DEF LoadInv, Reportable, Abandoned
      <4>2. Unrecorded = {} BY <4>1 DEF Unrecorded
      <4> QED BY <4>2, FS_EmptySet DEF LoadInv, LoadTypes
    <3> QED BY <3>2, <3>3, <3>4 DEF ResultComplete
  <2> QED BY <2>1, <2>2 DEF LoadCounted, ResultComplete
<1> QED BY <1>1, LoadInitInv, LoadNextInv, PTL DEF LoadSpec

-----------------------------------------------------------------------------
(* UnitEnv: the environment of a measured server.                           *)

(* What Parse carries from line to line is what systemd's reading, stated   *)
(* over all the lines before, says of the next one.                         *)
ParsedSoFar ==
  /\ continued <=> ~OwnLine(Len(unit) + 1)
  /\ inService <=> InServiceAt(Len(unit) + 1)
  /\ \A i \in Directives : unit[i].kind = "environment" /\ InServiceAt(i)
  /\ env = UNION {Range(unit[i].fields) : i \in Directives}
  /\ \A kv \in env, kw \in env : kv[1] = kw[1] => kv = kw

(* A process is started from what was read, or with what was inherited.     *)
StartedWith ==
  /\ checked # "none" => parse = "read" /\ proc \in {Shipped(env, Inherited), Inherited}
  /\ checked = "passed" => env \subseteq proc

UnitInv ==
  /\ unit \in Seq(Lines)
  /\ parse # "refused" => ParsedSoFar
  /\ StartedWith

(* A line's place among those before it is settled once it is read.         *)
LEMMA PlaceSettled ==
  ASSUME unit \in Seq(Lines), NEW l \in Lines, unit' = Append(unit, l),
         NEW i \in 1..(Len(unit) + 1)
  PROVE  /\ OwnLine(i)' <=> OwnLine(i)
         /\ InServiceAt(i)' <=> InServiceAt(i)
<1>1. \A j \in 1..Len(unit) : unit'[j] = unit[j] OBVIOUS
<1>2. \A k \in 1..(Len(unit) + 1) : OwnLine(k)' <=> OwnLine(k)
  <2> SUFFICES ASSUME NEW k \in 1..(Len(unit) + 1) PROVE OwnLine(k)' <=> OwnLine(k) OBVIOUS
  <2>1. \A j \in 1..(k - 1) : unit'[j] = unit[j] BY <1>1
  <2>2. \A j \in 1..(k - 1) : \A m \in (j + 1)..(k - 1) : unit'[m] = unit[m] BY <1>1
  <2>3. OwnLine(k) <=> \A j \in 1..(k - 1) :
          (unit[j].kind # "comment" /\ \A m \in (j + 1)..(k - 1) : unit[m].kind = "comment") =>
            ~unit[j].cont
    BY DEF OwnLine
  <2>4. OwnLine(k)' <=> \A j \in 1..(k - 1) :
          (unit'[j].kind # "comment" /\ \A m \in (j + 1)..(k - 1) : unit'[m].kind = "comment") =>
            ~unit'[j].cont
    BY DEF OwnLine
  <2> QED BY <2>1, <2>2, <2>3, <2>4
<1>3. \A h \in 1..(i - 1) : unit'[h] = unit[h] /\ (OwnLine(h)' <=> OwnLine(h)) BY <1>1, <1>2
<1>4. InServiceAt(i)' <=> InServiceAt(i)
  <2>1. \A h \in 1..(i - 1) : \A m \in (h + 1)..(i - 1) : m \in 1..(i - 1) OBVIOUS
  <2>2. InServiceAt(i) <=> \E h \in 1..(i - 1) :
          /\ unit[h].kind = "header" /\ OwnLine(h) /\ unit[h].service
          /\ \A m \in (h + 1)..(i - 1) : ~(unit[m].kind = "header" /\ OwnLine(m))
    BY DEF InServiceAt
  <2>3. InServiceAt(i)' <=> \E h \in 1..(i - 1) :
          /\ unit'[h].kind = "header" /\ OwnLine(h)' /\ unit'[h].service
          /\ \A m \in (h + 1)..(i - 1) : ~(unit'[m].kind = "header" /\ OwnLine(m)')
    BY DEF InServiceAt
  <2> QED BY <1>3, <2>1, <2>2, <2>3
<1> QED BY <1>2, <1>4

(* How one more line changes what the next one is.                          *)
LEMMA NextPlace ==
  ASSUME unit \in Seq(Lines), NEW l \in Lines, unit' = Append(unit, l),
         NEW n \in Nat, n = Len(unit)
  PROVE  /\ OwnLine(n + 2)' <=> IF l.kind = "comment" THEN OwnLine(n + 1) ELSE ~l.cont
         /\ InServiceAt(n + 2)' <=>
              IF l.kind = "header" /\ OwnLine(n + 1) THEN l.service ELSE InServiceAt(n + 1)
<1>1. \A j \in 1..n : unit'[j] = unit[j] OBVIOUS
<1>2. unit'[n + 1] = l OBVIOUS
<1>3. OwnLine(n + 2)' <=> \A j \in 1..(n + 1) :
        (unit'[j].kind # "comment" /\ \A m \in (j + 1)..(n + 1) : unit'[m].kind = "comment") =>
          ~unit'[j].cont
  BY <1>1 DEF OwnLine
<1>4. OwnLine(n + 1)' <=> \A j \in 1..n :
        (unit'[j].kind # "comment" /\ \A m \in (j + 1)..n : unit'[m].kind = "comment") =>
          ~unit'[j].cont
  BY <1>1 DEF OwnLine
<1>5. OwnLine(n + 2)' <=> IF l.kind = "comment" THEN OwnLine(n + 1)' ELSE ~l.cont
  BY <1>1, <1>2, <1>3, <1>4
<1>6. InServiceAt(n + 2)' <=> \E h \in 1..(n + 1) :
        /\ unit'[h].kind = "header" /\ OwnLine(h)' /\ unit'[h].service
        /\ \A m \in (h + 1)..(n + 1) : ~(unit'[m].kind = "header" /\ OwnLine(m)')
  BY <1>1 DEF InServiceAt
<1>7. InServiceAt(n + 1)' <=> \E h \in 1..n :
        /\ unit'[h].kind = "header" /\ OwnLine(h)' /\ unit'[h].service
        /\ \A m \in (h + 1)..n : ~(unit'[m].kind = "header" /\ OwnLine(m)')
  BY <1>1 DEF InServiceAt
<1>8. InServiceAt(n + 2)' <=>
        IF l.kind = "header" /\ OwnLine(n + 1)' THEN l.service ELSE InServiceAt(n + 1)'
  BY <1>1, <1>2, <1>6, <1>7
<1>9. (OwnLine(n + 1)' <=> OwnLine(n + 1)) /\ (InServiceAt(n + 1)' <=> InServiceAt(n + 1))
  BY <1>1, PlaceSettled
<1> QED BY <1>5, <1>8, <1>9

(* One line more adds at most itself to the directives.                     *)
LEMMA ReadLineParsed ==
  ASSUME NEW l \in Lines, unit \in Seq(Lines), ParsedSoFar, ReadLine(l), parse' # "refused"
  PROVE  ParsedSoFar'
<1> DEFINE n == Len(unit)
<1>1. n \in Nat /\ unit' = Append(unit, l) /\ Len(unit') = n + 1 BY DEF ReadLine
<1>2. unit'[n + 1] = l /\ \A j \in 1..n : unit'[j] = unit[j] BY <1>1
<1>3. \A i \in 1..(n + 1) : (OwnLine(i)' <=> OwnLine(i)) /\ (InServiceAt(i)' <=> InServiceAt(i))
  BY <1>1, PlaceSettled
<1>4. PICK k \in Nat : k = n BY <1>1
<1>5. /\ OwnLine(k + 2)' <=> IF l.kind = "comment" THEN OwnLine(k + 1) ELSE ~l.cont
      /\ InServiceAt(k + 2)' <=>
           IF l.kind = "header" /\ OwnLine(k + 1) THEN l.service ELSE InServiceAt(k + 1)
  BY <1>1, <1>4, NextPlace
<1>6. Len(unit') + 1 = k + 2 /\ Len(unit) + 1 = k + 1 BY <1>1, <1>4
<1>7. (OwnLine(Len(unit) + 1)' <=> OwnLine(k + 2)') /\ (InServiceAt(Len(unit) + 1)' <=> InServiceAt(k + 2)')
  BY <1>6
<1>8. (continued <=> ~OwnLine(k + 1)) /\ (inService <=> InServiceAt(k + 1))
  BY <1>6 DEF ParsedSoFar
<1>9. continued' <=> ~OwnLine(Len(unit) + 1)' BY <1>5, <1>7, <1>8 DEF ReadLine
<1>10. inService' <=> InServiceAt(Len(unit) + 1)' BY <1>5, <1>7, <1>8 DEF ReadLine
<1>11. Directives' = Directives \cup
         (IF ~continued /\ l.kind \in {"environment", "refused"} THEN {k + 1} ELSE {})
  BY <1>1, <1>2, <1>3, <1>4, <1>8 DEF Directives
<1>12. \A i \in Directives : i \in 1..n /\ unit'[i] = unit[i] BY <1>2 DEF Directives
<1>13. ~continued => l.kind # "refused" BY DEF ReadLine
<1>14. CASE continued \/ l.kind # "environment"
  <2>1. Directives' = Directives BY <1>11, <1>13, <1>14
  <2>2. env' = env BY <1>14 DEF ReadLine
  <2>3. \A i \in Directives' : unit'[i].kind = "environment" /\ InServiceAt(i)'
    BY <1>3, <1>12, <2>1 DEF ParsedSoFar
  <2>4. env' = UNION {Range(unit'[i].fields) : i \in Directives'}
    BY <1>12, <2>1, <2>2 DEF ParsedSoFar
  <2> QED BY <1>9, <1>10, <2>2, <2>3, <2>4 DEF ParsedSoFar, Range
<1>15. CASE ~continued /\ l.kind = "environment"
  <2>1. Directives' = Directives \cup {k + 1} BY <1>11, <1>15
  <2>2. env' = env \cup Range(l.fields) /\ inService /\ ~SetTwice(l.fields)
    BY <1>15 DEF ReadLine
  <2>3. \A i \in Directives' : unit'[i].kind = "environment" /\ InServiceAt(i)'
    BY <1>2, <1>3, <1>4, <1>8, <1>12, <1>15, <2>1, <2>2 DEF ParsedSoFar
  <2>4. env' = UNION {Range(unit'[i].fields) : i \in Directives'}
    BY <1>2, <1>4, <1>12, <2>1, <2>2 DEF ParsedSoFar
  <2>5. \A kv \in env', kw \in env' : kv[1] = kw[1] => kv = kw
    <3>1. \A kv \in env, kw \in env : kv[1] = kw[1] => kv = kw BY DEF ParsedSoFar
    <3>2. \A kv \in Range(l.fields), kw \in Range(l.fields) : kv[1] = kw[1] => kv = kw
      BY <2>2 DEF SetTwice, Range
    <3>3. \A kv \in Range(l.fields), kw \in env : kv[1] # kw[1]
      BY <2>2 DEF SetTwice, Keys
    <3> QED BY <2>2, <3>1, <3>2, <3>3
  <2> QED BY <1>9, <1>10, <2>3, <2>4, <2>5 DEF ParsedSoFar, Range
<1> QED BY <1>14, <1>15

LEMMA UnitInitInv == UnitInit => UnitInv
<1> SUFFICES ASSUME UnitInit PROVE UnitInv OBVIOUS
<1>1. unit \in Seq(Lines) /\ Len(unit) = 0 BY DEF UnitInit
<1>2. OwnLine(Len(unit) + 1) /\ ~InServiceAt(Len(unit) + 1) BY <1>1 DEF OwnLine, InServiceAt
<1>3. Directives = {} BY <1>1 DEF Directives
<1> QED BY <1>1, <1>2, <1>3 DEF UnitInit, UnitInv, ParsedSoFar, StartedWith

LEMMA UnitNextInv ==
  ASSUME UnitInv, [UnitNext]_unitVars
  PROVE  UnitInv'
<1>1. ASSUME NEW l \in Lines, ReadLine(l) PROVE UnitInv'
  <2>1. unit' \in Seq(Lines) BY <1>1 DEF UnitInv, ReadLine
  <2>2. parse' # "refused" => ParsedSoFar' BY <1>1, ReadLineParsed DEF UnitInv, ReadLine
  <2>3. StartedWith' BY <1>1 DEF UnitInv, StartedWith, ReadLine
  <2> QED BY <2>1, <2>2, <2>3 DEF UnitInv
<1>2. ASSUME UNCHANGED <<unit, inService, continued, env>>, ParsedSoFar PROVE ParsedSoFar'
  <2>1. unit' = unit /\ inService' = inService /\ continued' = continued /\ env' = env BY <1>2
  <2>2. \A i : OwnLine(i)' <=> OwnLine(i) BY <2>1 DEF OwnLine
  <2>3. \A i : InServiceAt(i)' <=> InServiceAt(i) BY <2>1, <2>2 DEF InServiceAt
  <2>4. Directives' = Directives BY <2>1, <2>2 DEF Directives
  <2>5. OwnLine(Len(unit) + 1)' <=> OwnLine(Len(unit) + 1) BY <2>1 DEF OwnLine
  <2>6. InServiceAt(Len(unit) + 1)' <=> InServiceAt(Len(unit) + 1)
    BY <2>1, <2>2 DEF InServiceAt
  <2> QED BY <1>2, <2>1, <2>3, <2>4, <2>5, <2>6 DEF ParsedSoFar, Range
<1>3. CASE EndOfUnit
  BY <1>2, <1>3 DEF UnitInv, EndOfUnit, StartedWith
<1>4. CASE StartProcess
  BY <1>2, <1>4 DEF UnitInv, StartProcess, StartedWith, Shipped, Keys
<1>5. CASE CheckProcess
  BY <1>2, <1>5 DEF UnitInv, CheckProcess, StartedWith, Shipped, Keys
<1>6. CASE UNCHANGED unitVars
  BY <1>2, <1>6 DEF UnitInv, unitVars, StartedWith, Shipped, Keys
<1> QED BY <1>1, <1>3, <1>4, <1>5, <1>6 DEF UnitNext

(* Parse, Shipped and Check: whatever lines a unit has and whatever the     *)
(* harness was run with, the environment that passed is the one systemd     *)
(* would give the server.                                                   *)
THEOREM EnvAsShippedHolds == UnitSpec => []EnvAsShipped
<1>1. UnitInv => EnvAsShipped
  <2> SUFFICES ASSUME UnitInv PROVE EnvAsShipped OBVIOUS
  <2>1. ASSUME parse = "read" PROVE ParsedSoFar BY <2>1 DEF UnitInv
  <2>2. ASSUME checked = "passed", ~(env \subseteq Inherited)
        PROVE  /\ \A kv \in env, kw \in proc : kw[1] = kv[1] => kw = kv
               /\ env \subseteq proc
               /\ Keys(proc) \cap Allocator \subseteq Keys(env)
    <3>1. parse = "read" /\ proc = Shipped(env, Inherited) /\ env \subseteq proc
      BY <2>2 DEF UnitInv, StartedWith
    <3>2. \A kv \in env, kw \in env : kv[1] = kw[1] => kv = kw
      BY <2>1, <3>1 DEF ParsedSoFar
    <3> QED BY <3>1, <3>2 DEF Shipped, Keys
  <2> QED BY <2>1, <2>2 DEF EnvAsShipped, ParsedSoFar
<1> QED BY <1>1, UnitInitInv, UnitNextInv, PTL DEF UnitSpec

-----------------------------------------------------------------------------
(* Sections: the benchmark's sections, one after another.                   *)

LEMMA SinceNext ==
  ASSUME NEW i \in Nat, NEW on \in SUBSET Nat, NEW off \in SUBSET Nat
  PROVE  Since(i + 1, on, off) <=> (i \in on \/ (Since(i, on, off) /\ i \notin off))
<1>1. ASSUME Since(i + 1, on, off) PROVE i \in on \/ (Since(i, on, off) /\ i \notin off)
  <2>1. PICK j \in on : j < i + 1 /\ \A k \in off : ~(j < k /\ k < i + 1) BY <1>1 DEF Since
  <2>2. CASE j = i BY <2>2
  <2>3. CASE j # i
    <3>1. j < i /\ i < i + 1 BY <2>1, <2>3
    <3>2. i \notin off BY <2>1, <3>1
    <3>3. \A k \in off : ~(j < k /\ k < i) BY <2>1
    <3> QED BY <3>1, <3>2, <3>3 DEF Since
  <2> QED BY <2>2, <2>3
<1>2. ASSUME i \in on PROVE Since(i + 1, on, off)
  <2>1. i < i + 1 /\ \A k \in off : ~(i < k /\ k < i + 1) OBVIOUS
  <2> QED BY <1>2, <2>1 DEF Since
<1>3. ASSUME Since(i, on, off), i \notin off PROVE Since(i + 1, on, off)
  <2>1. PICK j \in on : j < i /\ \A k \in off : ~(j < k /\ k < i) BY <1>3 DEF Since
  <2>2. j < i + 1 BY <2>1
  <2>3. \A k \in off : ~(j < k /\ k < i + 1)
    <3> SUFFICES ASSUME NEW k \in off, j < k, k < i + 1 PROVE FALSE OBVIOUS
    <3>1. k < i BY <1>3
    <3> QED BY <2>1, <3>1
  <2> QED BY <2>2, <2>3 DEF Since
<1> QED BY <1>1, <1>2, <1>3

ScriptSteps == [op : Ops, fail : Failures]

LEMMA ScriptFacts ==
  ASSUME NEW s \in Seq(ScriptSteps)
  PROVE  /\ Len(s) \in Nat
         /\ \A i \in 1..Len(s) : s[i].op \in Ops /\ s[i].fail \in Failures
         /\ RowsFinal(s) \in SUBSET Nat
         /\ \A ops : Where(s, ops) \in SUBSET Nat /\ \A i \in 1..Len(s) : i \in Where(s, ops) <=> s[i].op \in ops
<1>1. Len(s) \in Nat /\ \A i \in 1..Len(s) : s[i] \in ScriptSteps OBVIOUS
<1>2. \A ops : Where(s, ops) \in SUBSET Nat /\ \A i \in 1..Len(s) : i \in Where(s, ops) <=> s[i].op \in ops
  BY <1>1 DEF Where
<1>3. RowsFinal(s) \in SUBSET Nat BY <1>2 DEF RowsFinal
<1> QED BY <1>1, <1>2, <1>3 DEF ScriptSteps

(* What a step changes of what holds where it is.                           *)
LEMMA SinceSteps ==
  ASSUME NEW s \in Seq(ScriptSteps), NEW i \in 1..Len(s)
  PROVE  /\ Up(s, i + 1) <=> (s[i].op \in Opens \/ (Up(s, i) /\ s[i].op \notin Closes))
         /\ UpDeferred(s, i + 1) <=>
              (s[i].op = "startDeferred" \/ (UpDeferred(s, i) /\ s[i].op \notin {"start"} \cup Closes))
         /\ MayErr(s, i + 1) <=> (s[i].fail = "carry" \/ (MayErr(s, i) /\ s[i].op # "check"))
         /\ MayLog(s, i + 1) <=> (s[i].op \in Measures \/ (MayLog(s, i) /\ s[i].op # "removeLog"))
         /\ Measured(s, i + 1) <=>
              (s[i].op \in Measures \/ (Measured(s, i) /\ s[i].op \notin Opens \cup {"kind"} /\ i \notin RowsFinal(s)))
<1>0. i \in Nat /\ Len(s) \in Nat BY ScriptFacts
<1>1. \A ops : Where(s, ops) \in SUBSET Nat /\ (i \in Where(s, ops) <=> s[i].op \in ops) BY ScriptFacts
<1>2. Up(s, i + 1) <=> (s[i].op \in Opens \/ (Up(s, i) /\ s[i].op \notin Closes))
  <2> DEFINE on == Where(s, Opens)
             off == Where(s, Closes)
  <2>1. on \in SUBSET Nat /\ off \in SUBSET Nat /\ (i \in on <=> s[i].op \in Opens) /\ (i \in off <=> s[i].op \in Closes)
    BY <1>1
  <2>2. (Up(s, i + 1) <=> Since(i + 1, on, off)) /\ (Up(s, i) <=> Since(i, on, off)) BY DEF Up
  <2> HIDE DEF on, off
  <2> QED BY <1>0, <2>1, <2>2, SinceNext
<1>3. UpDeferred(s, i + 1) <=>
        (s[i].op = "startDeferred" \/ (UpDeferred(s, i) /\ s[i].op \notin {"start"} \cup Closes))
  <2> DEFINE on == Where(s, {"startDeferred"})
             off == Where(s, {"start"} \cup Closes)
  <2>1. on \in SUBSET Nat /\ off \in SUBSET Nat /\ (i \in on <=> s[i].op \in {"startDeferred"})
          /\ (i \in off <=> s[i].op \in {"start"} \cup Closes)
    BY <1>1
  <2>2. (UpDeferred(s, i + 1) <=> Since(i + 1, on, off)) /\ (UpDeferred(s, i) <=> Since(i, on, off)) BY DEF UpDeferred
  <2> HIDE DEF on, off
  <2> QED BY <1>0, <2>1, <2>2, SinceNext
<1>4. MayErr(s, i + 1) <=> (s[i].fail = "carry" \/ (MayErr(s, i) /\ s[i].op # "check"))
  <2> DEFINE on == {j \in 1..Len(s) : s[j].fail = "carry"}
             off == Where(s, {"check"})
  <2>1. on \in SUBSET Nat /\ off \in SUBSET Nat /\ (i \in on <=> s[i].fail = "carry") /\ (i \in off <=> s[i].op \in {"check"})
    BY <1>0, <1>1
  <2>2. (MayErr(s, i + 1) <=> Since(i + 1, on, off)) /\ (MayErr(s, i) <=> Since(i, on, off)) BY DEF MayErr
  <2> HIDE DEF on, off
  <2> QED BY <1>0, <2>1, <2>2, SinceNext
<1>5. MayLog(s, i + 1) <=> (s[i].op \in Measures \/ (MayLog(s, i) /\ s[i].op # "removeLog"))
  <2> DEFINE on == Where(s, Measures)
             off == Where(s, {"removeLog"})
  <2>1. on \in SUBSET Nat /\ off \in SUBSET Nat /\ (i \in on <=> s[i].op \in Measures) /\ (i \in off <=> s[i].op \in {"removeLog"})
    BY <1>1
  <2>2. (MayLog(s, i + 1) <=> Since(i + 1, on, off)) /\ (MayLog(s, i) <=> Since(i, on, off)) BY DEF MayLog
  <2> HIDE DEF on, off
  <2> QED BY <1>0, <2>1, <2>2, SinceNext
<1>6. Measured(s, i + 1) <=>
        (s[i].op \in Measures \/ (Measured(s, i) /\ s[i].op \notin Opens \cup {"kind"} /\ i \notin RowsFinal(s)))
  <2> DEFINE on == Where(s, Measures)
             off == Where(s, Opens \cup {"kind"}) \cup RowsFinal(s)
  <2>1. on \in SUBSET Nat /\ off \in SUBSET Nat /\ (i \in on <=> s[i].op \in Measures)
          /\ (i \in off <=> (s[i].op \in Opens \cup {"kind"} \/ i \in RowsFinal(s)))
    BY <1>1, ScriptFacts
  <2>2. (Measured(s, i + 1) <=> Since(i + 1, on, off)) /\ (Measured(s, i) <=> Since(i, on, off)) BY DEF Measured
  <2> HIDE DEF on, off
  <2> QED BY <1>0, <2>1, <2>2, SinceNext
<1> QED BY <1>2, <1>3, <1>4, <1>5, <1>6

(* Nothing holds where a section begins.                                    *)
LEMMA SinceStart ==
  ASSUME NEW s \in Seq(ScriptSteps)
  PROVE  ~Up(s, 1) /\ ~UpDeferred(s, 1) /\ ~MayErr(s, 1) /\ ~MayLog(s, 1) /\ ~Measured(s, 1)
<1>1. \A j \in 1..Len(s) : ~(j < 1) BY ScriptFacts
<1>2. \A ops : Where(s, ops) \subseteq 1..Len(s) BY DEF Where
<1>3. \A on, off : on \subseteq 1..Len(s) => ~Since(1, on, off) BY <1>1 DEF Since
<1> QED BY <1>2, <1>3 DEF Up, UpDeferred, MayErr, MayLog, Measured

LEMMA DeferredIsUp ==
  ASSUME NEW s \in Seq(ScriptSteps), NEW i \in Nat, UpDeferred(s, i)
  PROVE  Up(s, i)
<1>1. PICK j \in Where(s, {"startDeferred"}) : j < i /\ \A k \in Where(s, {"start"} \cup Closes) : ~(j < k /\ k < i)
  BY DEF UpDeferred, Since
<1>2. j \in Where(s, Opens) BY DEF Where, Opens
<1>3. Where(s, Closes) \subseteq Where(s, {"start"} \cup Closes) BY DEF Where
<1> QED BY <1>1, <1>2, <1>3 DEF Up, Since

-----------------------------------------------------------------------------
(* The state of a section that is at step pc of its text s is the one that  *)
(* the text says: whether a server is up and its stop deferred, whether an  *)
(* error may be carried or a log on the disk, and whether there are good    *)
(* figures for a row.                                                       *)
AsWritten(s, name, want, here, ph, sv, df, er, fg, lg) ==
  /\ here \in 1..(Len(s) + 1)
  /\ name \notin want => here = 1
  /\ ph = "waiting" => here <= Len(s) /\ s[here].op \in Opens /\ name \in want
  /\ sv = (IF Up(s, here) THEN 1 ELSE 0) + (IF ph = "waiting" THEN 1 ELSE 0)
  /\ df <=> UpDeferred(s, here)
  /\ er => MayErr(s, here)
  /\ lg => name = "logging" /\ MayLog(s, here)
  /\ here <= Len(s) /\ Measured(s, here) /\ ~er => fg = "good"

SectionsInv ==
  /\ bmain \in {"setup", "room", "running", "report", "write", "failed", "exit"}
  /\ bphase \in {"idle", "waiting"} /\ deferred \in BOOLEAN /\ berr \in BOOLEAN /\ logs \in BOOLEAN
  /\ earned = TRUE
  /\ bmain \in {"setup", "room"} => sec = 1 /\ bpc = 1 /\ ~berr
  /\ bmain # "running" \/ sec > Len(Steps) => servers = 0 /\ ~deferred /\ ~logs /\ bphase = "idle"
  /\ bmain = "running" => sec \in 1..(Len(Steps) + 1)
  /\ bmain = "running" /\ sec <= Len(Steps) =>
       AsWritten(Scripts[sec], Steps[sec], wanted, bpc, bphase, servers, deferred, berr, figures, logs)

LEMMA StepsLen == Len(Steps) \in Nat /\ Len(Steps) >= 1
  BY DEF Steps

LEMMA ScriptKept ==
  ASSUME NEW n \in 1..Len(Steps)
  PROVE  /\ Scripts[n] \in Seq(ScriptSteps)
         /\ ~Up(Scripts[n], Len(Scripts[n]) + 1)
         /\ \A i \in 1..Len(Scripts[n]) : StepKept(Scripts[n], i)
         /\ Steps[n] = "logging" =>
              /\ ~MayLog(Scripts[n], Len(Scripts[n]) + 1)
              /\ \A i \in 1..Len(Scripts[n]) : LogKept(Scripts[n], i)
<1> HIDE DEF Steps, Scripts
<1> QED BY ScriptsKept DEF ScriptSteps

(* A section starts with nothing.                                           *)
LEMMA StartsClean ==
  ASSUME NEW n \in 1..Len(Steps), NEW want, NEW fg
  PROVE  AsWritten(Scripts[n], Steps[n], want, 1, "idle", 0, FALSE, FALSE, fg, FALSE)
<1> DEFINE s == Scripts[n]
<1>1. s \in Seq(ScriptSteps) BY ScriptKept
<1> HIDE DEF s
<1>2. Len(s) \in Nat /\ ~Up(s, 1) /\ ~UpDeferred(s, 1) /\ ~Measured(s, 1) BY <1>1, SinceStart, ScriptFacts
<1> DEFINE name == Steps[n]
<1> HIDE DEF name
<1>3. AsWritten(s, name, want, 1, "idle", 0, FALSE, FALSE, fg, FALSE) BY <1>2 DEF AsWritten
<1> QED BY <1>3 DEF s, name

LEMMA SectionsInitInv == SectionsInit => SectionsInv
  BY StepsLen DEF SectionsInit, SectionsInv

(* What a running section's step has to go on.                              *)
LEMMA RunningFacts ==
  ASSUME SectionsInv, Running
  PROVE  /\ sec \in 1..Len(Steps) /\ Script = Scripts[sec] /\ Script \in Seq(ScriptSteps)
         /\ bpc \in 1..Len(Script) /\ bpc \in Nat /\ Len(Script) \in Nat /\ Now = Script[bpc]
         /\ Now.op \in Ops /\ Now.fail \in Failures
         /\ bmain = "running" /\ Steps[sec] \in wanted
         /\ StepKept(Script, bpc)
         /\ Steps[sec] = "logging" => LogKept(Script, bpc)
         /\ AsWritten(Script, Steps[sec], wanted, bpc, bphase, servers, deferred, berr, figures, logs)
<1>1. bmain = "running" /\ sec <= Len(Steps) /\ Steps[sec] \in wanted /\ bpc <= Len(Script) BY DEF Running
<1>2. sec \in 1..Len(Steps) BY <1>1, StepsLen DEF SectionsInv
<1>3. Script = Scripts[sec] /\ Script \in Seq(ScriptSteps) BY <1>2, ScriptKept DEF Script
<1>4. AsWritten(Script, Steps[sec], wanted, bpc, bphase, servers, deferred, berr, figures, logs)
  BY <1>1, <1>3 DEF SectionsInv
<1> HIDE DEF Script
<1>5. Len(Script) \in Nat BY <1>3, ScriptFacts
<1>6. bpc \in 1..Len(Script) BY <1>1, <1>4, <1>5 DEF AsWritten
<1>7. Now = Script[bpc] BY DEF Now
<1>8. Now.op \in Ops /\ Now.fail \in Failures BY <1>3, <1>6, <1>7, ScriptFacts
<1>9. StepKept(Script, bpc) /\ (Steps[sec] = "logging" => LogKept(Script, bpc))
  BY <1>2, <1>3, <1>6, ScriptKept
<1> QED BY <1>1, <1>2, <1>3, <1>4, <1>5, <1>6, <1>7, <1>8, <1>9

(* A step to another step of the section keeps the invariant when it keeps  *)
(* the section as written.                                                  *)
LEMMA StaysRunning ==
  ASSUME SectionsInv, Running, bmain' = "running", sec' = sec, earned' = TRUE,
         bphase' \in {"idle", "waiting"}, deferred' \in BOOLEAN, berr' \in BOOLEAN, logs' \in BOOLEAN,
         AsWritten(Script, Steps[sec], wanted', bpc', bphase', servers', deferred', berr', figures', logs')
  PROVE  SectionsInv'
<1>1. sec \in 1..Len(Steps) /\ Len(Steps) \in Nat /\ Script = Scripts[sec] BY RunningFacts, StepsLen
<1>2. (bmain = "running" /\ sec <= Len(Steps) =>
        AsWritten(Scripts[sec], Steps[sec], wanted, bpc, bphase, servers, deferred, berr, figures, logs))'
  BY <1>1
<1>3. ~(sec' > Len(Steps)) /\ sec' \in 1..(Len(Steps) + 1) BY <1>1
<1> QED BY <1>2, <1>3 DEF SectionsInv

LEMMA AfterNextIs ==
  ASSUME NEW o, NextOp(Script, bpc, o) # {}
  PROVE  \E r \in NextOp(Script, bpc, o) : AfterNext(o) = 1 + r
<1> DEFINE r == CHOOSE i \in bpc..Len(Script) : Script[i].op = o /\ \A j \in bpc..(i - 1) : Script[j].op # o
<1>1. r \in bpc..Len(Script) /\ Script[r].op = o /\ \A j \in bpc..(r - 1) : Script[j].op # o
  <2>1. \E i \in bpc..Len(Script) : Script[i].op = o /\ \A j \in bpc..(i - 1) : Script[j].op # o
    BY DEF NextOp
  <2> QED BY <2>1, Zenon
<1>2. AfterNext(o) = 1 + r BY DEF AfterNext
<1> HIDE DEF r
<1>3. r \in NextOp(Script, bpc, o) BY <1>1 DEF NextOp
<1> QED BY <1>2, <1>3

(* Where a jump lands there are no figures, and the server is as the text   *)
(* of the step that jumped says.                                            *)
LEMMA Landed ==
  ASSUME SectionsInv, Running, NEW o, NEW alive, NEW deferring, GoesOn(Script, bpc, o, alive, deferring)
  PROVE  /\ AfterNext(o) \in 1..(Len(Script) + 1)
         /\ Up(Script, AfterNext(o)) <=> alive
         /\ UpDeferred(Script, AfterNext(o)) <=> deferring
         /\ ~Measured(Script, AfterNext(o))
<1>1. NextOp(Script, bpc, o) # {} BY DEF GoesOn
<1>2. PICK r \in NextOp(Script, bpc, o) : AfterNext(o) = 1 + r BY <1>1, AfterNextIs
<1>3. bpc \in 1..Len(Script) /\ Len(Script) \in Nat /\ Script \in Seq(ScriptSteps) BY RunningFacts
<1>4. r \in 1..Len(Script) /\ 1 + r = r + 1 /\ r + 1 \in 1..(Len(Script) + 1) BY <1>3 DEF NextOp
<1>5. /\ Up(Script, r + 1) <=> alive
      /\ UpDeferred(Script, r + 1) <=> deferring
      /\ r \in Where(Script, {"kind"}) \cup RowsFinal(Script)
  BY DEF GoesOn
<1>6. Script[r].op \notin Measures /\ (Script[r].op \in {"kind"} \/ r \in RowsFinal(Script))
  BY <1>5 DEF Where, RowsFinal, Measures
<1>7. ~Measured(Script, r + 1) BY <1>3, <1>4, <1>6, SinceSteps
<1> QED BY <1>2, <1>4, <1>5, <1>7

LEMMA FailsKeeps ==
  ASSUME SectionsInv, Running, NEW n, n = IF bphase = "waiting" THEN 1 ELSE 0, Fails(n),
         Now.op \in Opens \cup Measures \cup {"check", "mock"},
         wanted' = wanted, sec' = sec, earned' = earned, logs' \in BOOLEAN,
         logs' => Steps[sec] = "logging" /\ Now.fail = "carry" /\ MayLog(Script, bpc + 1)
  PROVE  SectionsInv'
<1> DEFINE s == Script
           i == bpc
<1>0. /\ s \in Seq(ScriptSteps) /\ i \in 1..Len(s) /\ Len(s) \in Nat /\ Now = s[i] /\ i \in Nat
      /\ bmain = "running" /\ Steps[sec] \in wanted /\ StepKept(s, i)
      /\ AsWritten(s, Steps[sec], wanted, bpc, bphase, servers, deferred, berr, figures, logs)
  BY RunningFacts
<1>1. bphase' = "idle" BY DEF Fails
<1>2. /\ deferred \in BOOLEAN /\ (deferred <=> UpDeferred(s, i)) /\ earned = TRUE /\ berr \in BOOLEAN
      /\ bphase \in {"idle", "waiting"}
      /\ servers = (IF Up(s, i) THEN 1 ELSE 0) + n
      /\ (bphase = "waiting" => s[i].op \in Opens)
  BY <1>0 DEF SectionsInv, AsWritten
<1>3. UpDeferred(s, i) => Up(s, i) BY <1>0, DeferredIsUp
<1>4. s[i].op \in Opens => ~Up(s, i) /\ s[i].fail \in {"return", "cell", "kind"} BY <1>0 DEF StepKept
<1>5. n \in {0, 1} OBVIOUS
<1> HIDE DEF s, i
<1>6. CASE Now.fail \in {"return", "stop"}
  <2>1. /\ bmain' = "failed" /\ deferred' = FALSE /\ bpc' = bpc /\ berr' = berr
        /\ servers' = servers - n - (IF deferred \/ Now.fail = "stop" THEN 1 ELSE 0)
    BY <1>6 DEF Fails
  <2>2. /\ s[i].fail = "return" => ~Up(s, i) \/ UpDeferred(s, i)
        /\ s[i].fail = "stop" => Up(s, i) /\ ~UpDeferred(s, i)
    BY <1>0 DEF StepKept
  <2>3. servers' = 0 BY <2>1, <2>2, <1>0, <1>2, <1>3, <1>5, <1>6
  <2>4. logs' = FALSE BY <1>6
  <2> QED BY <2>1, <2>3, <2>4, <1>1, <1>2 DEF SectionsInv
<1>7. CASE Now.fail = "carry"
  <2>1. /\ berr' = TRUE /\ bpc' = i + 1 /\ servers' = servers - n /\ bmain' = bmain /\ deferred' = deferred
    BY <1>7 DEF Fails, i
  <2>2. s[i].op \notin Opens /\ s[i].op \notin Closes /\ s[i].fail = "carry" /\ bphase = "idle" /\ n = 0
    BY <1>0, <1>2, <1>4, <1>7 DEF Opens, Closes, Measures
  <2>3. (Up(s, i + 1) <=> Up(s, i)) /\ (UpDeferred(s, i + 1) <=> UpDeferred(s, i)) /\ MayErr(s, i + 1)
    BY <2>2, <1>0, SinceSteps DEF Opens
  <2>4. logs' => Steps[sec] = "logging" /\ MayLog(s, i + 1) BY DEF s, i
  <2>5. AsWritten(s, Steps[sec], wanted', bpc', bphase', servers', deferred', berr', figures', logs')
    BY <2>1, <2>2, <2>3, <2>4, <1>0, <1>1, <1>2 DEF AsWritten
  <2> QED BY <2>1, <2>5, <1>0, <1>1, <1>2, StaysRunning DEF s
<1>8. CASE Now.fail \in {"cell", "kind"}
  <2> DEFINE o == IF Now.fail = "cell" THEN "row" ELSE "kind"
             a == AfterNext(o)
  <2>1. /\ bpc' = a /\ servers' = servers - n - (IF deferred THEN 1 ELSE 0)
        /\ deferred' = FALSE /\ berr' = FALSE /\ figures' = "none" /\ bmain' = bmain
    BY <1>8 DEF Fails
  <2>2. GoesOn(s, i, o, Up(s, i) /\ ~UpDeferred(s, i), FALSE) BY <1>0, <1>8 DEF StepKept
  <2>3. /\ a \in 1..(Len(s) + 1) /\ (Up(s, a) <=> Up(s, i) /\ ~UpDeferred(s, i))
        /\ ~UpDeferred(s, a) /\ ~Measured(s, a)
    <3> HIDE DEF o
    <3> QED BY <2>2, Landed DEF s, i
  <2>4. logs' = FALSE BY <1>8
  <2> HIDE DEF a
  <2>5. servers' = IF Up(s, a) THEN 1 ELSE 0 BY <2>1, <2>3, <1>2, <1>3, <1>5
  <2>6. AsWritten(s, Steps[sec], wanted', bpc', bphase', servers', deferred', berr', figures', logs')
    BY <2>1, <2>3, <2>4, <2>5, <1>0, <1>1 DEF AsWritten
  <2> QED BY <2>1, <2>4, <2>6, <1>0, <1>1, <1>2, StaysRunning DEF s
<1> QED BY <1>6, <1>7, <1>8 DEF Fails

(* A step that goes to the next one.                                        *)
LEMMA NextStep ==
  ASSUME SectionsInv, Running, bmain' = bmain, sec' = sec, wanted' = wanted, earned' = TRUE,
         bpc' = bpc + 1, bphase' = "idle", berr' \in BOOLEAN, logs' \in BOOLEAN, deferred' \in BOOLEAN,
         servers' = IF Up(Script, bpc + 1) THEN 1 ELSE 0,
         deferred' <=> UpDeferred(Script, bpc + 1),
         berr' => MayErr(Script, bpc + 1),
         logs' => Steps[sec] = "logging" /\ MayLog(Script, bpc + 1),
         Measured(Script, bpc + 1) /\ ~berr' => figures' = "good"
  PROVE  SectionsInv'
<1>1. bpc \in 1..Len(Script) /\ Len(Script) \in Nat /\ bmain = "running" /\ Steps[sec] \in wanted BY RunningFacts
<1>2. AsWritten(Script, Steps[sec], wanted', bpc', bphase', servers', deferred', berr', figures', logs')
  BY <1>1 DEF AsWritten
<1> QED BY <1>1, <1>2, StaysRunning

(* A server is read only while the section's text has it up.                *)
LEMMA ReadWhileUp ==
  ASSUME SectionsInv, procstat # "gone", [SectionsNext]_sectionVars
  PROVE  procstat' # "gone"
<1>1. CASE Measure
  <2>1. Running /\ StepKept(Script, bpc) /\ Now = Script[bpc]
          /\ AsWritten(Script, Steps[sec], wanted, bpc, bphase, servers, deferred, berr, figures, logs)
    BY <1>1, RunningFacts DEF Measure
  <2>2. procstat' = procstat \/ procstat' \in ProcReading BY <1>1 DEF Measure
  <2>3. Now.op \in ReadsProc => servers # 0
    <3>1. Now.op \in ReadsProc => Up(Script, bpc) BY <2>1 DEF StepKept
    <3> QED BY <2>1, <3>1 DEF AsWritten
  <2> QED BY <2>2, <2>3 DEF ProcReading
<1>2. CASE NextSection BY <1>2 DEF NextSection
<1>3. CASE UNCHANGED procstat BY <1>3
<1> QED BY <1>1, <1>2, <1>3 DEF SectionsNext, sectionVars, Setup, LogDiskRoom, Spawn, ServerReady, NotReady,
             WrongEnvironment, OutOfTries, CheckErr, StopServer, WriteRow, StartMock, Passes, Discard,
             Teardown, WriteReport

LEMMA SectionsNextInv ==
  ASSUME SectionsInv, procstat # "gone", [SectionsNext]_sectionVars
  PROVE  SectionsInv'
<1> DEFINE s == Script
           i == bpc
<1>r. ASSUME Running
      PROVE  /\ s \in Seq(ScriptSteps) /\ i \in 1..Len(s) /\ i \in Nat /\ Len(s) \in Nat /\ Now = s[i]
             /\ Now.op \in Ops /\ Now.fail \in Failures
             /\ bmain = "running" /\ Steps[sec] \in wanted /\ StepKept(s, i)
             /\ Steps[sec] = "logging" => LogKept(s, i)
             /\ servers = (IF Up(s, i) THEN 1 ELSE 0) + (IF bphase = "waiting" THEN 1 ELSE 0)
             /\ deferred <=> UpDeferred(s, i)
             /\ berr => MayErr(s, i)
             /\ logs => Steps[sec] = "logging" /\ MayLog(s, i)
             /\ Measured(s, i) /\ ~berr => figures = "good"
             /\ bphase = "waiting" => Now.op \in Opens
             /\ UpDeferred(s, i) => Up(s, i)
  BY <1>r, RunningFacts, DeferredIsUp DEF AsWritten
<1>t. /\ bphase \in {"idle", "waiting"} /\ deferred \in BOOLEAN /\ berr \in BOOLEAN /\ logs \in BOOLEAN
      /\ earned = TRUE
  BY DEF SectionsInv
<1>s. ASSUME Running
      PROVE  /\ Up(s, i + 1) <=> (Now.op \in Opens \/ (Up(s, i) /\ Now.op \notin Closes))
             /\ UpDeferred(s, i + 1) <=>
                  (Now.op = "startDeferred" \/ (UpDeferred(s, i) /\ Now.op \notin {"start"} \cup Closes))
             /\ MayErr(s, i + 1) <=> (Now.fail = "carry" \/ (MayErr(s, i) /\ Now.op # "check"))
             /\ MayLog(s, i + 1) <=> (Now.op \in Measures \/ (MayLog(s, i) /\ Now.op # "removeLog"))
             /\ Measured(s, i + 1) <=>
                  (Now.op \in Measures \/ (Measured(s, i) /\ Now.op \notin Opens \cup {"kind"} /\ i \notin RowsFinal(s)))
  BY <1>s, <1>r, SinceSteps
<1>u. ASSUME Running, bphase = "idle" PROVE servers = IF Up(s, i) THEN 1 ELSE 0
  BY <1>r, <1>u
<1>w. ASSUME Running, Now.op \notin Opens PROVE bphase = "idle"
  BY <1>r, <1>w, <1>t
(* A log is never on the disk where a step that fails would leave it.       *)
<1>l. ASSUME Running, logs, Now.fail # "none", Now.op # "removeLog"
      PROVE  Steps[sec] = "logging" /\ Now.fail = "carry" /\ MayLog(s, i + 1)
  <2>1. Steps[sec] = "logging" /\ MayLog(s, i) /\ LogKept(s, i) BY <1>r, <1>l
  <2>2. Now.fail = "carry" BY <1>r, <1>l, <2>1 DEF LogKept, Failures
  <2> QED BY <1>s, <1>l, <2>1, <2>2
<1> HIDE DEF s, i
<1>1. CASE Setup BY <1>1 DEF Setup, SectionsInv
<1>2. CASE LogDiskRoom
  <2>1. CASE bmain' = "failed" BY <1>2, <2>1 DEF LogDiskRoom, SectionsInv
  <2>2. CASE bmain' = "running"
    <3>1. 1 \in 1..Len(Steps) /\ Len(Steps) \in Nat BY StepsLen
    <3>2. /\ sec' = 1 /\ bpc' = 1 /\ bphase' = "idle" /\ servers' = 0 /\ deferred' = FALSE /\ berr' = FALSE
          /\ logs' = FALSE /\ earned' = TRUE
      BY <1>2 DEF LogDiskRoom, SectionsInv
    <3>3. AsWritten(Scripts[1], Steps[1], wanted', 1, "idle", 0, FALSE, FALSE, figures', FALSE)
      BY <3>1, StartsClean
    <3>4. AsWritten(Scripts[sec], Steps[sec], wanted, bpc, bphase, servers, deferred, berr, figures, logs)'
      BY <3>2, <3>3
    <3>5. ~(sec' > Len(Steps)) /\ sec' \in 1..(Len(Steps) + 1) BY <3>1, <3>2
    <3> QED BY <2>2, <3>2, <3>4, <3>5 DEF SectionsInv
  <2> QED BY <1>2, <2>1, <2>2 DEF LogDiskRoom
<1>3. CASE NextSection
  <2>0. Len(Steps) \in Nat /\ bmain = "running" /\ sec \in 1..(Len(Steps) + 1)
    BY <1>3, StepsLen DEF NextSection, SectionsInv
  <2>1. CASE sec > Len(Steps) BY <1>3, <2>1 DEF NextSection, SectionsInv
  <2>2. CASE ~(sec > Len(Steps))
    <3>1. /\ Steps[sec] \notin wanted \/ bpc > Len(Script)
          /\ sec' = sec + 1 /\ bpc' = 1 /\ bmain' = bmain /\ berr' = FALSE /\ wanted' = wanted
          /\ bphase' = bphase /\ servers' = servers /\ deferred' = deferred /\ logs' = logs /\ earned' = earned
      BY <1>3, <2>2 DEF NextSection
    <3>2. sec \in 1..Len(Steps) BY <2>0, <2>2
    <3> DEFINE q == Scripts[sec]
               name == Steps[sec]
    <3>3. /\ q \in Seq(ScriptSteps) /\ ~Up(q, Len(q) + 1) /\ (name = "logging" => ~MayLog(q, Len(q) + 1))
          /\ q = Script
      BY <3>2, ScriptKept DEF Script
    <3>4. AsWritten(q, name, wanted, bpc, bphase, servers, deferred, berr, figures, logs)
      BY <2>0, <2>2, <3>2 DEF SectionsInv
    <3>5. name \notin wanted \/ bpc > Len(q) BY <3>1, <3>3
    <3> HIDE DEF q, name
    <3>6. Len(q) \in Nat /\ bpc \in 1..(Len(q) + 1) BY <3>3, <3>4, ScriptFacts DEF AsWritten
    <3>7. bpc = 1 \/ bpc = Len(q) + 1 BY <3>4, <3>5, <3>6 DEF AsWritten
    <3>8. ~Up(q, bpc) /\ ~UpDeferred(q, bpc) /\ (name = "logging" => ~MayLog(q, bpc))
      <4>1. ~Up(q, bpc) /\ (name = "logging" => ~MayLog(q, bpc)) BY <3>3, <3>7, SinceStart
      <4>2. bpc \in Nat BY <3>6
      <4> QED BY <4>1, <4>2, <3>3, DeferredIsUp
    <3>9. bphase # "waiting"
      <4> SUFFICES ASSUME bphase = "waiting" PROVE FALSE OBVIOUS
      <4>1. bpc <= Len(q) /\ name \in wanted BY <3>4 DEF AsWritten
      <4> QED BY <4>1, <3>5, <3>6
    <3>10. bphase = "idle" /\ servers = 0 /\ deferred = FALSE /\ logs = FALSE
      BY <3>4, <3>8, <3>9, <1>t DEF AsWritten
    <3>11. CASE sec = Len(Steps)
      <4>1. sec' > Len(Steps) /\ sec' \in 1..(Len(Steps) + 1) /\ ~(sec' <= Len(Steps)) BY <3>1, <3>11, <2>0
      <4> QED BY <4>1, <3>1, <3>10, <2>0, <1>t DEF SectionsInv
    <3>12. CASE sec # Len(Steps)
      <4>1. sec' \in 1..Len(Steps) /\ ~(sec' > Len(Steps)) /\ sec' \in 1..(Len(Steps) + 1) BY <3>1, <3>2, <3>12, <2>0
      <4>2. AsWritten(Scripts[sec'], Steps[sec'], wanted', 1, "idle", 0, FALSE, FALSE, figures', FALSE)
        BY <4>1, StartsClean
      <4> QED BY <4>1, <4>2, <3>1, <3>10, <2>0, <1>t DEF SectionsInv
    <3> QED BY <3>11, <3>12
  <2> QED BY <2>1, <2>2
<1>4. CASE Spawn
  <2>0. Running /\ Now.op \in Opens /\ bphase = "idle" BY <1>4 DEF Spawn
  <2>1. /\ bmain' = bmain /\ wanted' = wanted /\ sec' = sec /\ bpc' = bpc /\ deferred' = deferred /\ berr' = berr
        /\ figures' = figures /\ earned' = earned /\ logs' = logs
        /\ \/ servers' = servers + 1 /\ bphase' = "waiting"
           \/ servers' = servers /\ bphase' = bphase
    BY <1>4 DEF Spawn
  <2>2. AsWritten(Script, Steps[sec], wanted, bpc, bphase, servers, deferred, berr, figures, logs) BY <2>0, RunningFacts
  <2>3. Now.op = Script[bpc].op /\ bpc <= Len(Script) /\ Steps[sec] \in wanted /\ bmain = "running" BY <2>0, RunningFacts DEF Running
  <2>4. servers = IF Up(Script, bpc) THEN 1 ELSE 0 BY <2>0, <1>u DEF s, i
  <2>5. AsWritten(Script, Steps[sec], wanted', bpc', bphase', servers', deferred', berr', figures', logs')
    BY <2>0, <2>1, <2>2, <2>3, <2>4 DEF AsWritten
  <2> QED BY <2>0, <2>1, <2>3, <2>5, <1>t, StaysRunning
<1>5. CASE ServerReady
  <2>0. Running /\ bphase = "waiting" BY <1>5 DEF ServerReady
  <2>1. /\ bmain' = bmain /\ wanted' = wanted /\ sec' = sec /\ bpc' = bpc + 1 /\ berr' = berr /\ bphase' = "idle"
        /\ figures' = "none" /\ earned' = earned /\ logs' = logs /\ servers' = servers
        /\ deferred' = (Now.op = "startDeferred")
    BY <1>5 DEF ServerReady
  <2>2. Now.op \in Opens /\ ~Up(s, i) /\ Now.fail # "carry" BY <2>0, <1>r DEF StepKept
  <2>3. Now.op \notin Measures /\ Now.op \notin {"check", "removeLog"} BY <2>2 DEF Opens, Measures
  <2>4. /\ Up(s, i + 1) /\ (UpDeferred(s, i + 1) <=> Now.op = "startDeferred") /\ ~Measured(s, i + 1)
        /\ (MayErr(s, i) => MayErr(s, i + 1)) /\ (MayLog(s, i) => MayLog(s, i + 1))
    BY <2>0, <2>2, <2>3, <1>s DEF Opens
  <2>5. servers = 1 BY <2>0, <2>2, <1>r
  <2>6. (berr => MayErr(s, i)) /\ (logs => Steps[sec] = "logging" /\ MayLog(s, i)) BY <2>0, <1>r
  <2> QED BY <2>0, <2>1, <2>4, <2>5, <2>6, <1>t, NextStep DEF s, i
<1>6. CASE NotReady
  <2>0. Running /\ bphase = "waiting" BY <1>6 DEF NotReady
  <2>1. /\ bmain' = bmain /\ wanted' = wanted /\ sec' = sec /\ bpc' = bpc /\ deferred' = deferred /\ berr' = berr
        /\ figures' = figures /\ earned' = earned /\ logs' = logs /\ servers' = servers - 1 /\ bphase' = "idle"
    BY <1>6 DEF NotReady
  <2>2. AsWritten(Script, Steps[sec], wanted, bpc, bphase, servers, deferred, berr, figures, logs) /\ bmain = "running"
    BY <2>0, RunningFacts
  <2>5. AsWritten(Script, Steps[sec], wanted', bpc', bphase', servers', deferred', berr', figures', logs')
    BY <2>0, <2>1, <2>2 DEF AsWritten
  <2> QED BY <2>0, <2>1, <2>2, <2>5, <1>t, StaysRunning
<1>7. CASE WrongEnvironment
  <2>0. /\ Running /\ bphase = "waiting" /\ Fails(1) /\ wanted' = wanted /\ sec' = sec /\ earned' = earned /\ logs' = logs
    BY <1>7 DEF WrongEnvironment
  <2>1. Now.op \in Opens /\ Now.fail # "none" /\ Now.op # "removeLog" BY <2>0, <1>r DEF StepKept, Opens
  <2>2. logs' => Steps[sec] = "logging" /\ Now.fail = "carry" /\ MayLog(Script, bpc + 1)
    BY <2>0, <2>1, <1>l DEF s, i
  <2> QED BY <2>0, <2>1, <2>2, <1>t, FailsKeeps
<1>8. CASE OutOfTries
  <2>0. /\ Running /\ bphase = "idle" /\ Now.op \in Opens /\ Fails(0) /\ wanted' = wanted /\ sec' = sec
        /\ earned' = earned /\ logs' = logs
    BY <1>8 DEF OutOfTries
  <2>1. Now.fail # "none" /\ Now.op # "removeLog" BY <2>0, <1>r DEF StepKept, Opens
  <2>2. logs' => Steps[sec] = "logging" /\ Now.fail = "carry" /\ MayLog(Script, bpc + 1)
    BY <2>0, <2>1, <1>l DEF s, i
  <2> QED BY <2>0, <2>1, <2>2, <1>t, FailsKeeps
<1>9. CASE Measure
  <2>0. /\ Running /\ Now.op \in Measures /\ wanted' = wanted /\ sec' = sec /\ earned' = earned
        /\ logs' = (logs \/ Steps[sec] = "logging")
    BY <1>9 DEF Measure
  <2>1. Now.op \notin Opens /\ Now.op \notin Closes /\ Now.op \notin {"check", "kind", "removeLog", "startDeferred", "start"} BY <2>0 DEF Measures, Opens, Closes
  <2>2. bphase = "idle" /\ MayLog(s, i + 1) /\ logs' \in BOOLEAN /\ (logs' => Steps[sec] = "logging")
    BY <2>0, <2>1, <1>w, <1>s, <1>r, <1>t
  <2>3. CASE ~berr /\ Now.fail # "none" /\ Fails(0)
    <3>1. logs' => Now.fail = "carry" BY <2>0, <2>2, <2>3, <1>r DEF LogKept
    <3>2. logs' => Steps[sec] = "logging" /\ Now.fail = "carry" /\ MayLog(Script, bpc + 1) BY <3>1, <2>2 DEF s, i
    <3> QED BY <2>0, <2>2, <2>3, <3>2, FailsKeeps
  <2>4. CASE /\ bpc' = bpc + 1 /\ figures' = (IF berr THEN figures ELSE "good")
             /\ UNCHANGED <<bmain, bphase, tries, servers, deferred, berr>>
    <3>1. /\ (Up(s, i + 1) <=> Up(s, i)) /\ (UpDeferred(s, i + 1) <=> UpDeferred(s, i))
          /\ (MayErr(s, i) => MayErr(s, i + 1))
      BY <2>0, <2>1, <1>s
    <3>2. servers = IF Up(s, i + 1) THEN 1 ELSE 0 BY <2>0, <2>2, <3>1, <1>u
    <3>3. (deferred <=> UpDeferred(s, i + 1)) /\ (berr => MayErr(s, i + 1)) BY <2>0, <3>1, <1>r
    <3> QED BY <2>0, <2>2, <2>4, <3>2, <3>3, <1>t, NextStep DEF s, i
  <2> QED BY <1>9, <2>3, <2>4 DEF Measure
<1>10. CASE CheckErr
  <2>0. /\ Running /\ Now.op = "check" /\ wanted' = wanted /\ sec' = sec /\ earned' = earned /\ logs' = logs
    BY <1>10 DEF CheckErr
  <2>1. /\ Now.op \notin Opens /\ Now.op \notin Closes /\ Now.op \notin Measures /\ Now.fail \notin {"carry", "none"}
        /\ Now.op \notin {"kind", "row", "removeLog", "startDeferred", "start"}
    BY <2>0, <1>r DEF Opens, Closes, Measures, StepKept
  <2>2. bphase = "idle" BY <2>0, <2>1, <1>w
  <2>3. CASE berr
    <3>1. Fails(0) BY <1>10, <2>3 DEF CheckErr
    <3>2. logs' => Steps[sec] = "logging" /\ Now.fail = "carry" /\ MayLog(Script, bpc + 1)
      BY <2>0, <2>1, <1>l DEF s, i
    <3> QED BY <2>0, <2>2, <3>1, <3>2, <1>t, FailsKeeps
  <2>4. CASE ~berr
    <3>1. bpc' = bpc + 1 /\ UNCHANGED <<bmain, bphase, tries, servers, deferred, berr, figures>>
      BY <1>10, <2>4 DEF CheckErr
    <3>2. /\ (Up(s, i + 1) <=> Up(s, i)) /\ (UpDeferred(s, i + 1) <=> UpDeferred(s, i))
          /\ (MayLog(s, i) => MayLog(s, i + 1)) /\ (Measured(s, i + 1) => Measured(s, i))
      BY <2>0, <2>1, <1>s
    <3>3. servers = IF Up(s, i + 1) THEN 1 ELSE 0 BY <2>0, <2>2, <3>2, <1>u
    <3>4. /\ (deferred <=> UpDeferred(s, i + 1)) /\ (logs => Steps[sec] = "logging" /\ MayLog(s, i + 1))
          /\ (Measured(s, i + 1) => figures = "good")
      BY <2>0, <2>4, <3>2, <1>r
    <3> QED BY <2>0, <2>2, <2>4, <3>1, <3>3, <3>4, <1>t, NextStep DEF s, i
  <2> QED BY <2>3, <2>4
<1>11. CASE StopServer
  <2>0. /\ Running /\ (Now.op = "stop" \/ (Now.op = "return" /\ deferred)) /\ Now.op \in Closes
        /\ servers' = servers - 1 /\ deferred' = FALSE /\ bpc' = bpc + 1 /\ bmain' = bmain /\ wanted' = wanted
        /\ sec' = sec /\ bphase' = bphase /\ berr' = berr /\ figures' = figures /\ earned' = earned /\ logs' = logs
    BY <1>11 DEF StopServer, Closes
  <2>1. /\ Now.op \notin Opens /\ Now.op \notin Measures /\ Now.op \notin {"check", "kind", "removeLog", "startDeferred"}
    BY <2>0 DEF Opens, Closes, Measures
  <2>2. bphase = "idle" BY <2>0, <2>1, <1>w
  <2>3. Up(s, i) BY <2>0, <1>r DEF StepKept
  <2>4. /\ ~Up(s, i + 1) /\ ~UpDeferred(s, i + 1) /\ (Measured(s, i + 1) => Measured(s, i))
        /\ (MayErr(s, i) => MayErr(s, i + 1)) /\ (MayLog(s, i) => MayLog(s, i + 1))
    BY <2>0, <2>1, <1>s
  <2>5. servers = 1 BY <2>0, <2>2, <2>3, <1>u
  <2>6. /\ (berr => MayErr(s, i + 1)) /\ (logs => Steps[sec] = "logging" /\ MayLog(s, i + 1))
        /\ (Measured(s, i + 1) /\ ~berr => figures = "good")
    BY <2>0, <2>4, <1>r
  <2>7. servers' = IF Up(s, i + 1) THEN 1 ELSE 0 BY <2>0, <2>4, <2>5
  <2> QED BY <2>0, <2>2, <2>4, <2>6, <2>7, <1>t, NextStep DEF s, i
<1>12. CASE WriteRow
  <2>0. /\ Running /\ Now.op = "row" /\ earned' = (earned /\ figures = "good" /\ procstat # "gone") /\ bpc' = bpc + 1
        /\ figures' = (IF bpc < Len(Script) /\ Script[bpc + 1].op = "row" THEN figures ELSE "none")
        /\ berr' = FALSE /\ bmain' = bmain /\ wanted' = wanted /\ sec' = sec /\ bphase' = bphase
        /\ servers' = servers /\ deferred' = deferred /\ logs' = logs
    BY <1>12 DEF WriteRow
  <2>1. /\ Now.op \notin Opens /\ Now.op \notin Closes /\ Now.op \notin Measures
        /\ Now.op \notin {"check", "kind", "removeLog", "startDeferred", "start"}
    BY <2>0 DEF Opens, Closes, Measures
  <2>2. bphase = "idle" BY <2>0, <2>1, <1>w
  <2>3. Measured(s, i) /\ ~berr /\ figures = "good" BY <2>0, <1>r DEF StepKept
  <2>4. /\ (Up(s, i + 1) <=> Up(s, i)) /\ (UpDeferred(s, i + 1) <=> UpDeferred(s, i))
        /\ (MayLog(s, i) => MayLog(s, i + 1)) /\ (Measured(s, i + 1) => i \notin RowsFinal(s))
    BY <2>0, <2>1, <1>s
  <2>5. i \notin RowsFinal(s) => i < Len(s) /\ s[i + 1].op = "row"
    BY <2>0, <1>r DEF RowsFinal, Where
  <2>6. Measured(s, i + 1) => figures' = "good" BY <2>0, <2>3, <2>4, <2>5 DEF s, i
  <2>7. servers = IF Up(s, i + 1) THEN 1 ELSE 0 BY <2>0, <2>2, <2>4, <1>u
  <2>8. (deferred <=> UpDeferred(s, i + 1)) /\ (logs => Steps[sec] = "logging" /\ MayLog(s, i + 1))
    BY <2>0, <2>4, <1>r
  <2>9. earned' = TRUE BY <2>0, <2>3, <1>t
  <2> QED BY <2>0, <2>2, <2>6, <2>7, <2>8, <2>9, <1>t, NextStep DEF s, i
<1>13. CASE StartMock
  <2>0. /\ Running /\ Now.op = "mock" /\ wanted' = wanted /\ sec' = sec /\ earned' = earned /\ logs' = logs
    BY <1>13 DEF StartMock
  <2>1. /\ Now.op \notin Opens /\ Now.op \notin Closes /\ Now.op \notin Measures /\ Now.fail \notin {"carry", "none"}
        /\ Now.op \notin {"check", "kind", "row", "removeLog", "startDeferred", "start"}
    BY <2>0, <1>r DEF Opens, Closes, Measures, StepKept
  <2>2. bphase = "idle" BY <2>0, <2>1, <1>w
  <2>3. CASE Fails(0)
    <3>1. logs' => Steps[sec] = "logging" /\ Now.fail = "carry" /\ MayLog(Script, bpc + 1)
      BY <2>0, <2>1, <1>l DEF s, i
    <3> QED BY <2>0, <2>2, <2>3, <3>1, <1>t, FailsKeeps
  <2>4. CASE bpc' = bpc + 1 /\ UNCHANGED <<bmain, bphase, tries, servers, deferred, berr, figures>>
    <3>1. /\ (Up(s, i + 1) <=> Up(s, i)) /\ (UpDeferred(s, i + 1) <=> UpDeferred(s, i))
          /\ (MayLog(s, i) => MayLog(s, i + 1)) /\ (Measured(s, i + 1) => Measured(s, i))
          /\ (MayErr(s, i) => MayErr(s, i + 1))
      BY <2>0, <2>1, <1>s
    <3>2. servers = IF Up(s, i + 1) THEN 1 ELSE 0 BY <2>0, <2>2, <3>1, <1>u
    <3>3. /\ (deferred <=> UpDeferred(s, i + 1)) /\ (logs => Steps[sec] = "logging" /\ MayLog(s, i + 1))
          /\ (Measured(s, i + 1) /\ ~berr => figures = "good") /\ (berr => MayErr(s, i + 1))
      BY <2>0, <3>1, <1>r
    <3> QED BY <2>0, <2>2, <2>4, <3>2, <3>3, <1>t, NextStep DEF s, i
  <2> QED BY <1>13, <2>3, <2>4 DEF StartMock
<1>14. CASE Passes
  <2>0. /\ Running /\ Now.op \in {"gate", "maybe", "kind"}
        /\ UNCHANGED <<wanted, sec, bphase, tries, servers, deferred, berr, figures, earned, procstat, logs, bmocks>>
    BY <1>14 DEF Passes
  <2>1. /\ Now.op \notin Opens /\ Now.op \notin Closes /\ Now.op \notin Measures
        /\ Now.op \notin {"check", "row", "removeLog", "startDeferred", "start"}
    BY <2>0 DEF Opens, Closes, Measures
  <2>2. bphase = "idle" /\ servers = IF Up(s, i) THEN 1 ELSE 0 BY <2>0, <2>1, <1>w, <1>u
  <2>3. CASE bpc' = bpc + 1 /\ bmain' = bmain
    <3>1. /\ (Up(s, i + 1) <=> Up(s, i)) /\ (UpDeferred(s, i + 1) <=> UpDeferred(s, i))
          /\ (MayLog(s, i) => MayLog(s, i + 1)) /\ (Measured(s, i + 1) => Measured(s, i))
          /\ (MayErr(s, i) => MayErr(s, i + 1))
      BY <2>0, <2>1, <1>s
    <3>2. servers = IF Up(s, i + 1) THEN 1 ELSE 0 BY <2>2, <3>1
    <3>3. /\ (deferred <=> UpDeferred(s, i + 1)) /\ (logs => Steps[sec] = "logging" /\ MayLog(s, i + 1))
          /\ (Measured(s, i + 1) /\ ~berr => figures = "good") /\ (berr => MayErr(s, i + 1))
      BY <2>0, <3>1, <1>r
    <3> QED BY <2>0, <2>2, <2>3, <3>2, <3>3, <1>t, NextStep DEF s, i
  (* A gate is the first thing of its section.                              *)
  <2>g. ASSUME Now.op = "gate" PROVE servers = 0 /\ deferred = FALSE /\ berr = FALSE /\ logs = FALSE
    <3>1. i = 1 BY <2>0, <2>g, <1>r DEF StepKept
    <3>2. ~Up(s, 1) /\ ~UpDeferred(s, 1) /\ ~MayErr(s, 1) /\ ~MayLog(s, 1) BY <2>0, <1>r, SinceStart
    <3> QED BY <2>0, <2>2, <3>1, <3>2, <1>r, <1>t
  <2>4. CASE Now.op = "gate" /\ bpc' = Len(Script) + 1 /\ bmain' = bmain
    <3>1. ~Up(s, Len(s) + 1) /\ ~UpDeferred(s, Len(s) + 1)
      <4>1. sec \in 1..Len(Steps) /\ s = Scripts[sec] /\ Len(s) + 1 \in Nat BY <2>0, <1>r, RunningFacts DEF s
      <4>2. ~Up(s, Len(s) + 1) BY <4>1, ScriptKept
      <4> QED BY <2>0, <4>1, <4>2, <1>r, DeferredIsUp
    <3>2. Len(s) \in Nat /\ Steps[sec] \in wanted /\ bmain = "running" BY <2>0, <1>r
    <3>3. AsWritten(s, Steps[sec], wanted', bpc', bphase', servers', deferred', berr', figures', logs')
      <4>1. bpc' = Len(s) + 1 BY <2>4 DEF s
      <4>2. bpc' \in 1..(Len(s) + 1) /\ ~(bpc' <= Len(s)) BY <4>1, <3>2
      <4> QED BY <2>0, <2>2, <2>4, <2>g, <3>1, <3>2, <4>1, <4>2 DEF AsWritten
    <3> QED BY <2>0, <2>2, <2>4, <3>2, <3>3, <1>t, StaysRunning DEF s
  <2>5. CASE Now.op = "gate" /\ bmain' = "failed" BY <2>0, <2>2, <2>5, <2>g, <1>t DEF SectionsInv
  <2>6. CASE Now.op = "maybe" /\ bpc' = AfterNext("row") /\ bmain' = bmain
    <3> DEFINE a == AfterNext("row")
    <3>1. ~MayErr(s, i) /\ GoesOn(s, i, "row", Up(s, i), UpDeferred(s, i)) BY <2>0, <2>6, <1>r DEF StepKept
    <3>2. /\ a \in 1..(Len(s) + 1) /\ (Up(s, a) <=> Up(s, i)) /\ (UpDeferred(s, a) <=> UpDeferred(s, i))
          /\ ~Measured(s, a)
      BY <2>0, <3>1, Landed DEF s, i
    <3>3. berr = FALSE /\ Steps[sec] \in wanted /\ bmain = "running" /\ (deferred <=> UpDeferred(s, i))
      BY <2>0, <3>1, <1>r, <1>t
    <3>4. logs = FALSE BY <2>0, <2>6, <1>r, <1>t DEF LogKept
    <3> HIDE DEF a
    <3>5. AsWritten(s, Steps[sec], wanted', bpc', bphase', servers', deferred', berr', figures', logs')
      <4>1. bpc' = a BY <2>6 DEF a
      <4> QED BY <2>0, <2>2, <3>2, <3>3, <3>4, <4>1 DEF AsWritten
    <3> QED BY <2>0, <2>2, <2>6, <3>3, <3>5, <1>t, StaysRunning DEF s
  <2> QED BY <1>14, <2>3, <2>4, <2>5, <2>6 DEF Passes
<1>15. CASE Discard
  <2>0. /\ Running /\ Now.op = "removeLog" /\ logs' = FALSE /\ bpc' = bpc + 1
        /\ UNCHANGED <<bmain, wanted, sec, bphase, tries, servers, deferred, berr, figures, earned, procstat, bmocks>>
    BY <1>15 DEF Discard
  <2>1. /\ Now.op \notin Opens /\ Now.op \notin Closes /\ Now.op \notin Measures
        /\ Now.op \notin {"check", "kind", "row", "startDeferred", "start"}
    BY <2>0 DEF Opens, Closes, Measures
  <2>2. bphase = "idle" /\ servers = IF Up(s, i) THEN 1 ELSE 0 BY <2>0, <2>1, <1>w, <1>u
  <2>3. /\ (Up(s, i + 1) <=> Up(s, i)) /\ (UpDeferred(s, i + 1) <=> UpDeferred(s, i))
        /\ (Measured(s, i + 1) => Measured(s, i)) /\ (MayErr(s, i) => MayErr(s, i + 1))
    BY <2>0, <2>1, <1>s
  <2>4. /\ (deferred <=> UpDeferred(s, i + 1)) /\ (berr => MayErr(s, i + 1))
        /\ (Measured(s, i + 1) /\ ~berr => figures = "good") /\ servers = IF Up(s, i + 1) THEN 1 ELSE 0
    BY <2>0, <2>2, <2>3, <1>r
  <2> QED BY <2>0, <2>2, <2>4, <1>t, NextStep DEF s, i
<1>16. CASE Teardown BY <1>16 DEF Teardown, SectionsInv
<1>17. CASE WriteReport BY <1>17 DEF WriteReport, SectionsInv
<1>18. CASE UNCHANGED sectionVars
  <2>1. UNCHANGED <<bmain, wanted, sec, bpc, bphase, servers, deferred, berr, figures, earned, logs>> BY <1>18 DEF sectionVars
  <2> QED BY <2>1 DEF SectionsInv
<1> QED BY <1>1, <1>2, <1>3, <1>4, <1>5, <1>6, <1>7, <1>8, <1>9, <1>10, <1>11, <1>12, <1>13, <1>14,
           <1>15, <1>16, <1>17, <1>18 DEF SectionsNext

LEMMA SectionsInvSound == SectionsInv => SectionsSound
<1> SUFFICES ASSUME SectionsInv PROVE OneServer /\ earned BY DEF SectionsSound, RowsEarned
<1>1. CASE bmain # "running" \/ sec > Len(Steps) BY <1>1 DEF SectionsInv, OneServer
<1>2. CASE bmain = "running" /\ ~(sec > Len(Steps))
  <2>1. sec \in 1..Len(Steps) /\ sec <= Len(Steps) BY <1>2, StepsLen DEF SectionsInv
  <2> DEFINE s == Scripts[sec]
             name == Steps[sec]
  <2>2. s \in Seq(ScriptSteps) /\ \A i \in 1..Len(s) : StepKept(s, i) BY <2>1, ScriptKept
  <2>3. AsWritten(s, name, wanted, bpc, bphase, servers, deferred, berr, figures, logs) BY <1>2, <2>1 DEF SectionsInv
  <2> HIDE DEF s, name
  <2>4. Len(s) \in Nat /\ ~Up(s, 1) /\ ~UpDeferred(s, 1) /\ ~MayLog(s, 1) BY <2>2, SinceStart, ScriptFacts
  <2>5. servers <= 1
    <3>1. CASE bphase = "waiting"
      <4>1. bpc \in 1..Len(s) /\ s[bpc].op \in Opens BY <2>3, <2>4, <3>1 DEF AsWritten
      <4>2. ~Up(s, bpc) BY <2>2, <4>1 DEF StepKept
      <4> QED BY <2>3, <3>1, <4>2 DEF AsWritten
    <3>2. CASE bphase # "waiting" BY <2>3, <3>2 DEF AsWritten
    <3> QED BY <3>1, <3>2
  <2>6. bpc = 1 /\ bphase = "idle" => servers = 0 /\ ~deferred /\ ~logs BY <2>3, <2>4 DEF AsWritten
  <2> QED BY <1>2, <2>5, <2>6 DEF OneServer, SectionsInv
<1> QED BY <1>1, <1>2

(* bench: whichever sections are asked for and whichever of their steps     *)
(* fails, one server runs at a time, none outlives the section that started *)
(* it, and no row is written from a load or a check that failed, or from a  *)
(* server that was stopped before its memory and CPU were read.             *)
THEOREM SectionsSoundHolds == SectionsSpec => []SectionsSound
<1> DEFINE Inv == SectionsInv /\ procstat # "gone"
<1>1. SectionsInit => Inv BY SectionsInitInv DEF SectionsInit
<1>2. Inv /\ [SectionsNext]_sectionVars => Inv' BY SectionsNextInv, ReadWhileUp
<1>3. Inv => SectionsSound BY SectionsInvSound
<1> QED BY <1>1, <1>2, <1>3, PTL DEF SectionsSpec

-----------------------------------------------------------------------------
(* Series, and induction over data.  The library's theorems have a predicate for a      *)
(* parameter; these have a set or a function, and rest on a set of numbers  *)
(* having a least element.                                                  *)
LEMMA LeastOf ==
  ASSUME NEW S \in SUBSET Nat, S # {}
  PROVE  \E i \in S : \A j \in S : i <= j
<1>1. PICK x \in S : \A y \in S : ~ (<<y, x>> \in OpToRel(<, Nat))
  BY WFMin, NatLessThanWellFounded
<1>2. ASSUME NEW y \in S PROVE x <= y
  <2>1. x \in Nat /\ y \in Nat OBVIOUS
  <2>2. ~ (y < x) BY <1>1, <2>1 DEF OpToRel
  <2> QED BY <2>1, <2>2
<1> QED BY <1>2

LEMMA GreatestOf ==
  ASSUME NEW n \in Nat, NEW S \in SUBSET (1..n), S # {}
  PROVE  \E i \in S : \A j \in S : j <= i
<1> DEFINE T == {n - i : i \in S}
<1>0. \A i \in S : n - i \in Nat OBVIOUS
<1>1. T \in SUBSET Nat /\ T # {} BY <1>0
<1>2. PICK x \in T : \A y \in T : x <= y
  <2> HIDE DEF T
  <2> QED BY <1>1, LeastOf
<1>3. PICK i \in S : x = n - i OBVIOUS
<1>4. \A j \in S : n - i <= n - j BY <1>2, <1>3
<1> QED BY <1>4

(* What holds of 1 and passes from each number to the next holds up to n.   *)
LEMMA Upwards ==
  ASSUME NEW n \in Nat, NEW S, n > 0 => 1 \in S, \A i \in 1..(n - 1) : i \in S => i + 1 \in S
  PROVE  1..n \subseteq S
<1> SUFFICES ASSUME ~(1..n \subseteq S) PROVE FALSE OBVIOUS
<1> DEFINE T == {i \in 1..n : i \notin S}
<1>1. T \in SUBSET Nat /\ T # {} OBVIOUS
<1>2. PICK x \in T : \A y \in T : x <= y
  <2> HIDE DEF T
  <2> QED BY <1>1, LeastOf
<1>3. x # 1 OBVIOUS
<1>4. x - 1 \in 1..(n - 1) /\ x - 1 \in S BY <1>2, <1>3
<1> QED BY <1>4

(* A value that is carried along 1..n, each step from the one before.       *)
CarriedBy(n, V, v, move) ==
  \E g \in [1..n -> V] : g[1] = v /\ \A i \in 2..n : g[i] = move[i][g[i - 1]]

LEMMA Carried ==
  ASSUME NEW n \in Nat, n >= 1, NEW V, NEW v \in V, NEW move \in [1..n -> [V -> V]]
  PROVE  CarriedBy(n, V, v, move)
<1> DEFINE Walks(m, g) == g[1] = v /\ \A i \in 2..m : g[i] = move[i][g[i - 1]]
           S == {m \in 1..n : \E g \in [1..m -> V] : Walks(m, g)}
<1>1. n > 0 => 1 \in S
  <2> SUFFICES ASSUME n > 0 PROVE \E g \in [1..1 -> V] : Walks(1, g) OBVIOUS
  <2> WITNESS [i \in 1..1 |-> v] \in [1..1 -> V]
  <2> QED OBVIOUS
<1>2. ASSUME NEW m \in 1..(n - 1), m \in S PROVE m + 1 \in S
  <2>1. PICK g \in [1..m -> V] : Walks(m, g) BY <1>2
  <2> DEFINE h == [i \in 1..(m + 1) |-> IF i = m + 1 THEN move[m + 1][g[m]] ELSE g[i]]
  <2>2. g[m] \in V /\ m + 1 \in 1..n OBVIOUS
  <2>3. move[m + 1][g[m]] \in V BY <2>2
  <2>4. h \in [1..(m + 1) -> V] BY <2>3
  <2>5. ASSUME NEW i \in 2..(m + 1) PROVE h[i] = move[i][h[i - 1]]
    <3>0. i - 1 \in 1..(m + 1) /\ i - 1 # m + 1 /\ h[i - 1] = g[i - 1] OBVIOUS
    <3>1. CASE i = m + 1 BY <3>0, <3>1
    <3>2. CASE i # m + 1
      <4>1. i \in 2..m /\ h[i] = g[i] BY <3>2
      <4> QED BY <2>1, <4>1, <3>0
    <3> QED BY <3>1, <3>2
  <2>6. h[1] = v BY <2>1
  <2> HIDE DEF h
  <2>7. Walks(m + 1, h) BY <2>5, <2>6
  <2> QED BY <2>2, <2>4, <2>7
<1>3. 1..n \subseteq S
  <2> HIDE DEF S
  <2> QED BY <1>1, <1>2, Upwards
<1>4. n \in S BY <1>3
<1> QED BY <1>4 DEF CarriedBy

(* The least and the greatest of a set, as First and Last of the report.    *)
LEMMA FirstIs ==
  ASSUME NEW n \in Nat, NEW S \in SUBSET (1..n), S # {}
  PROVE  FirstOf(S) \in S /\ \A j \in S : FirstOf(S) <= j
<1>1. S \in SUBSET Nat OBVIOUS
<1>2. \E i \in S : \A j \in S : i <= j BY <1>1, LeastOf
<1> QED BY <1>2, Zenon DEF FirstOf

LEMMA LastIs ==
  ASSUME NEW n \in Nat, NEW S \in SUBSET (1..n), S # {}
  PROVE  LastOf(S) \in S /\ \A j \in S : j <= LastOf(S)
<1>1. \E i \in S : \A j \in S : j <= i BY GreatestOf
<1> QED BY <1>1, Zenon DEF LastOf

(* A reading of the series at place i.                                      *)
Readings == [at : Int, ok : BOOLEAN, srv : Nat, up : BOOLEAN, offered : Nat, full : Nat]

(* The clock and the server's counter are functions of the place, and the   *)
(* clients' counts never fall.                                              *)
SeriesInv ==
  /\ early \in {0, 1}
  /\ series \in Seq(Readings) /\ Len(series) >= 1
  /\ series[1].ok => series[1].up
  /\ \A i \in Indices :
       /\ series[i].at = (IF i = 1 THEN 0 ELSE Second(i - 1) - early)
       /\ series[i].srv = (IF series[i].ok THEN Counter(i - 1) ELSE 0)
  /\ \A i, j \in Indices : i <= j => /\ series[i].offered <= series[j].offered
                                    /\ series[i].full <= series[j].full

LEMMA SeriesInitInv == SeriesInit => SeriesInv
<1> SUFFICES ASSUME SeriesInit PROVE SeriesInv OBVIOUS
<1>1. PICK b \in BOOLEAN : series = <<TakeSample(0, 0, b, TRUE, 0, 0)>> BY DEF SeriesInit
<1> DEFINE s == TakeSample(0, 0, b, TRUE, 0, 0)
<1>2. s \in Readings /\ s.at = 0 /\ (s.ok => s.up) /\ s.srv = IF s.ok THEN Counter(0) ELSE 0
  BY DEF TakeSample, Readings, Counter
<1> HIDE DEF s
<1>3. series = <<s>> BY <1>1 DEF s
<1>4. series \in Seq(Readings) /\ Len(series) = 1 /\ series[1] = s BY <1>2, <1>3
<1>5. Indices = {1} BY <1>4 DEF Indices
<1>6. series[1].offered \in Nat /\ series[1].full \in Nat BY <1>2, <1>4 DEF Readings
<1>7. early \in {0, 1} BY DEF SeriesInit
<1>8. \A i \in Indices : i = 1 /\ i - 1 = 0 BY <1>5
<1>9. \A i, j \in Indices : i <= j => /\ series[i].offered <= series[j].offered
                                      /\ series[i].full <= series[j].full
  BY <1>6, <1>8
<1> QED BY <1>2, <1>4, <1>7, <1>8, <1>9 DEF SeriesInv

LEMMA SeriesNextInv ==
  ASSUME SeriesInv, [SampleTick]_seriesVars
  PROVE  SeriesInv'
<1>1. CASE UNCHANGED seriesVars BY <1>1 DEF SeriesInv, seriesVars, Indices, Second, Counter
<1>2. CASE SampleTick
  <2> DEFINE n == Len(series)
             last == series[n]
  <2>1. PICK b, u \in BOOLEAN, w \in Windows :
          series' = Append(series, TakeSample(n, Second(n) - early, b, u,
                                              last.offered + w[1], last.full + w[2]))
    BY <1>2 DEF SampleTick
  <2> DEFINE s == TakeSample(n, Second(n) - early, b, u, last.offered + w[1], last.full + w[2])
  <2>2. n \in Nat /\ n >= 1 /\ last \in Readings /\ early \in {0, 1} /\ w[1] \in Nat /\ w[2] \in Nat
    BY DEF SeriesInv, Windows
  <2>3. /\ s \in Readings /\ s.offered >= last.offered /\ s.full >= last.full
        /\ s.at = Second(n) - early /\ s.srv = IF s.ok THEN Counter(n) ELSE 0
    BY <2>2, SMTT(30) DEF TakeSample, Readings, Counter, Second
  <2> HIDE DEF s
  <2>4. series' = Append(series, s) BY <2>1 DEF s
  <2>5. /\ series' \in Seq(Readings) /\ Len(series') = n + 1 /\ series'[n + 1] = s
        /\ \A i \in Indices : series'[i] = series[i]
    BY <2>2, <2>3, <2>4 DEF SeriesInv, Indices
  <2>6. Indices' = Indices \cup {n + 1} /\ n + 1 \notin Indices BY <2>2, <2>5 DEF Indices
  <2>7. early' = early /\ (series'[1].ok => series'[1].up) BY <1>2, <2>2, <2>5 DEF SampleTick, SeriesInv, Indices
  <2>8. ASSUME NEW i \in Indices'
        PROVE  /\ series'[i].at = (IF i = 1 THEN 0 ELSE Second(i - 1) - early')
               /\ series'[i].srv = (IF series'[i].ok THEN Counter(i - 1) ELSE 0)
    <3>1. CASE i \in Indices BY <3>1, <2>5, <2>7 DEF SeriesInv
    <3>2. CASE i = n + 1 BY <3>2, <2>2, <2>3, <2>5, <2>7
    <3> QED BY <3>1, <3>2, <2>6
  <2>9. ASSUME NEW i \in Indices', NEW j \in Indices', i <= j
        PROVE  /\ series'[i].offered <= series'[j].offered
               /\ series'[i].full <= series'[j].full
    <3>1. CASE i \in Indices /\ j \in Indices BY <3>1, <2>5, <2>9 DEF SeriesInv
    <3>2. CASE i \in Indices /\ j = n + 1
      <4>1. n \in Indices /\ i <= n BY <3>2, <2>2 DEF Indices
      <4>2. /\ series[i].offered <= last.offered /\ series[i].full <= last.full
            /\ series[i] \in Readings
        BY <3>2, <4>1 DEF SeriesInv, Indices
      <4>3. /\ series[i].offered \in Nat /\ last.offered \in Nat /\ s.offered \in Nat
            /\ series[i].full \in Nat /\ last.full \in Nat /\ s.full \in Nat
        BY <4>2, <2>2, <2>3 DEF Readings
      <4> HIDE DEF n
      <4>4. series'[i] = series[i] /\ series'[j] = s BY <3>2, <2>5
      <4> QED BY <4>2, <4>3, <4>4, <2>3
    <3>3. CASE i = n + 1 /\ j = n + 1 BY <3>3, <2>3, <2>5, SMTT(30) DEF Readings
    <3>4. CASE i = n + 1 /\ j \in Indices BY <3>4, <2>2, <2>9 DEF Indices
    <3> QED BY <3>1, <3>2, <3>3, <3>4, <2>6
  <2> QED BY <2>2, <2>5, <2>7, <2>8, <2>9 DEF SeriesInv
<1> QED BY <1>1, <1>2
LEMMA SeriesFacts ==
  ASSUME SeriesInv
  PROVE  /\ Len(series) \in Nat /\ Len(series) >= 1 /\ Indices = 1..Len(series) /\ 1 \in Indices
         /\ \A i \in Indices : /\ series[i].at \in Int /\ series[i].ok \in BOOLEAN
                               /\ series[i].srv \in Nat /\ series[i].up \in BOOLEAN
                               /\ series[i].offered \in Nat /\ series[i].full \in Nat
<1>1. Len(series) \in Nat /\ Len(series) >= 1 BY DEF SeriesInv
<1>2. \A i \in Indices : series[i] \in Readings BY DEF SeriesInv, Indices
<1> QED BY <1>1, <1>2 DEF Readings, Indices

(* prev as its loop computes it.                                            *)
LEMMA PrevLoop ==
  ASSUME SeriesInv
  PROVE  /\ Prev \in [Indices -> Nat]
         /\ \A i \in Indices :
              Prev[i] = IF i <= 2 THEN 1 ELSE IF series[i - 1].ok THEN i - 1 ELSE Prev[i - 1]
<1> DEFINE n == Len(series)
           D(g, i) == IF i <= 2 THEN 1 ELSE IF series[i - 1].ok THEN i - 1 ELSE g[i - 1]
           move == [i \in 1..n |-> [x \in Nat |->
                      IF i <= 2 THEN 1 ELSE IF series[i - 1].ok THEN i - 1 ELSE x]]
<1>0. n \in Nat /\ n >= 1 /\ Indices = 1..n BY SeriesFacts
<1>1. move \in [1..n -> [Nat -> Nat]] BY <1>0
<1>2. PICK g \in [1..n -> Nat] : g[1] = 1 /\ \A i \in 2..n : g[i] = move[i][g[i - 1]]
  <2> DEFINE V == Nat
             v == 1
  <2>1. v \in V OBVIOUS
  <2>2. move \in [1..n -> [V -> V]] BY <1>1
  <2> HIDE DEF move, n, V, v
  <2>3. CarriedBy(n, V, v, move) BY <1>0, <2>1, <2>2, Carried
  <2> QED BY <2>3 DEF V, v, CarriedBy
<1>3. \A i \in 1..n : i # 1 => move[i][g[i - 1]] = D(g, i) BY <1>0
<1>4. g = [i \in 1..n |-> D(g, i)]
  <2>1. \A i \in 1..n : g[i] = D(g, i)
    <3> SUFFICES ASSUME NEW i \in 1..n PROVE g[i] = D(g, i) OBVIOUS
    <3>1. CASE i = 1 BY <3>1, <1>2
    <3>2. CASE i # 1
      <4> HIDE DEF move
      <4> QED BY <3>2, <1>2, <1>3
    <3> QED BY <3>1, <3>2
  <2> QED BY <2>1
<1>5. Prev = CHOOSE f : f = [i \in Indices |-> D(f, i)] BY DEF Prev
<1>6. Prev = [i \in 1..n |-> D(Prev, i)] BY <1>0, <1>4, <1>5
<1>7. \A i \in 1..n : Prev[i] = D(Prev, i) BY <1>6
<1>8. Prev \in [1..n -> Nat]
  <2> DEFINE S == {i \in 1..n : Prev[i] \in Nat}
  <2>1. n > 0 => 1 \in S BY <1>0, <1>7
  <2>2. \A i \in 1..(n - 1) : i \in S => i + 1 \in S BY <1>0, <1>7
  <2>3. 1..n \subseteq S
    <3> HIDE DEF S, n
    <3> QED BY <1>0, <2>1, <2>2, Upwards
  <2> QED BY <2>3, <1>6
<1> QED BY <1>0, <1>7, <1>8

(* A row's window starts at the last reading before it that was answered,   *)
(* and at the first reading when there is none.                             *)
LEMMA PrevIs ==
  ASSUME SeriesInv, NEW i \in Indices, i >= 2
  PROVE  /\ Prev[i] \in 1..(i - 1) /\ Prev[i] \in Indices
         /\ Prev[i] # 1 => series[Prev[i]].ok
         /\ \A j \in Good : j < i => j <= Prev[i]
<1> DEFINE n == Len(series)
           P(k) == /\ Prev[k] \in 1..(k - 1)
                   /\ Prev[k] # 1 => series[Prev[k]].ok
                   /\ \A j \in Good : j < k => j <= Prev[k]
           S == {k \in 1..n : k >= 2 => P(k)}
<1>0. n \in Nat /\ Indices = 1..n /\ Good \subseteq 1..n BY SeriesFacts DEF Good
<1>1. n > 0 => 1 \in S BY <1>0
<1>2. ASSUME NEW k \in 1..(n - 1), k \in S PROVE k + 1 \in S
  <2>1. k + 1 \in Indices /\ k + 1 - 1 = k /\ k \in Indices BY <1>0
  <2>2. Prev[k + 1] = IF k + 1 <= 2 THEN 1 ELSE IF series[k].ok THEN k ELSE Prev[k]
    BY <2>1, PrevLoop
  <2>3. CASE k = 1
    <3>1. Prev[k + 1] = 1 BY <2>2, <2>3
    <3> QED BY <3>1, <2>1, <2>3, <1>0
  <2>4. CASE k # 1 /\ series[k].ok
    <3>1. Prev[k + 1] = k BY <2>2, <2>4
    <3> QED BY <3>1, <2>1, <2>4, <1>0
  <2>5. CASE k # 1 /\ ~series[k].ok
    <3>1. Prev[k + 1] = Prev[k] /\ P(k) BY <1>2, <2>2, <2>5
    <3>2. k \notin Good BY <2>5 DEF Good
    <3>3. \A j \in Good : j < k + 1 => j < k BY <3>2, <1>0
    <3> QED BY <3>1, <3>3, <2>1, <1>0
  <2> QED BY <2>3, <2>4, <2>5
<1>3. 1..n \subseteq S
  <2> HIDE DEF S, n
  <2> QED BY <1>0, <1>1, <1>2, Upwards
<1>4. P(i) BY <1>0, <1>3
<1> QED BY <1>0, <1>4

LEMMA WindowsJoinHolds == SeriesInv => WindowsJoin
<1> SUFFICES ASSUME SeriesInv, series[1].ok, NEW i \in Rows
             PROVE  /\ Prev[i] = LastOf({j \in Good : j < i})
                    /\ RowDelta(i) = 3 * (i - Prev[i])
  BY DEF WindowsJoin
<1>1. i \in Indices /\ series[i].ok /\ i >= 2 /\ Good \subseteq Indices BY SeriesFacts DEF Rows, Good
<1>2. /\ Prev[i] \in 1..(i - 1) /\ Prev[i] \in Indices /\ (Prev[i] # 1 => series[Prev[i]].ok)
      /\ \A j \in Good : j < i => j <= Prev[i]
  BY <1>1, PrevIs
<1> DEFINE p == Prev[i]
           S == {j \in Good : j < i}
<1> HIDE DEF p
<1>3. p \in 1..(i - 1) /\ p \in Indices /\ series[p].ok /\ \A j \in S : j <= p BY <1>2 DEF p
<1>4. p \in S BY <1>1, <1>3 DEF Good, Indices
<1>5. S \in SUBSET (1..Len(series)) BY <1>1 DEF Indices
<1>6. p = LastOf(S)
  <2> HIDE DEF S
  <2>1. LastOf(S) \in S /\ \A j \in S : j <= LastOf(S) BY <1>4, <1>5, LastIs, SeriesFacts
  <2>2. \A j \in S : j \in Int BY <1>5, SeriesFacts
  <2>3. LastOf(S) <= p /\ p <= LastOf(S) BY <2>1, <1>3, <1>4
  <2> QED BY <2>1, <2>2, <2>3, <1>4
<1>7. series[i].srv = Counter(i - 1) /\ series[p].srv = Counter(p - 1)
  BY <1>1, <1>3 DEF SeriesInv
<1>8. i \in Int /\ p \in Int BY <1>1, <1>3 DEF Indices
<1>9. series[i].srv - series[p].srv = 3 * (i - p) BY <1>7, <1>8 DEF Counter
<1> QED BY <1>6, <1>9 DEF RowDelta, p

LEMMA DuringOrderedHolds == SeriesInv => DuringOrdered
<1> SUFFICES ASSUME SeriesInv, Good # {} PROVE DuringOrdered BY DEF DuringOrdered
<1> DEFINE n == Len(series)
           A == {i \in Good : series[i].at >= Second(DownAt) - Slack}
           B == {i \in Good : series[i].at >= Second(UpAt) - Slack}
           from == SampleAt(Second(DownAt))
           to == SampleAt(Second(UpAt))
<1>1. n \in Nat /\ Good \in SUBSET (1..n) /\ A \in SUBSET (1..n) /\ B \in SUBSET (1..n)
  BY SeriesFacts DEF Good, Indices
<1>2. B \subseteq A
  <2> SUFFICES ASSUME NEW i \in B PROVE i \in A OBVIOUS
  <2>1. i \in Good /\ i \in Indices /\ series[i].at \in Int BY SeriesFacts DEF Good
  <2> QED BY <2>1, OutageTimes DEF Second, Slack
<1>3. from = (IF A = {} THEN LastOf(Good) ELSE FirstOf(A)) /\ to = IF B = {} THEN LastOf(Good) ELSE FirstOf(B)
  BY DEF SampleAt, GoodSample
<1>4. LastOf(Good) \in Good /\ \A j \in Good : j <= LastOf(Good)
  <2> HIDE DEF n
  <2> QED BY <1>1, LastIs
<1>5. A # {} => FirstOf(A) \in A /\ \A j \in A : FirstOf(A) <= j
  <2> HIDE DEF n, A
  <2> QED BY <1>1, FirstIs
<1>6. B # {} => FirstOf(B) \in B /\ \A j \in B : FirstOf(B) <= j
  <2> HIDE DEF n, B
  <2> QED BY <1>1, FirstIs
<1>7. from \in Good /\ to \in Good /\ from <= to
  <2>1. A \subseteq Good /\ B \subseteq Good OBVIOUS
  <2>2. \A i \in Good : i \in Int BY <1>1
  <2> HIDE DEF A, B, from, to
  <2>3. CASE A = {} BY <2>1, <2>2, <2>3, <1>2, <1>3, <1>4
  <2>4. CASE A # {} /\ B = {} BY <2>1, <2>4, <1>3, <1>4, <1>5
  <2>5. CASE A # {} /\ B # {} BY <2>1, <2>5, <1>2, <1>3, <1>5, <1>6
  <2> QED BY <2>3, <2>4, <2>5
<1>8. /\ series[from].offered \in Nat /\ series[from].full \in Nat
      /\ series[to].offered \in Nat /\ series[to].full \in Nat
  BY <1>7, SeriesFacts DEF Good
<1>9. series[from].offered <= series[to].offered /\ series[from].full <= series[to].full
  BY <1>7 DEF SeriesInv, Good
<1>10. ASSUME NEW i \in Good, i > DownAt PROVE from > DownAt
  <2>1. i \in Indices /\ i \in 1..n /\ series[i].at = (IF i = 1 THEN 0 ELSE Second(i - 1) - early) /\ early \in {0, 1}
    BY <1>1 DEF Good, SeriesInv
  <2>2. series[i].at >= Second(DownAt) - Slack
    <3>1. CASE i = 1 BY <3>1, <2>1, <1>10, OutageTimes DEF Second, Slack
    <3>2. CASE i # 1 BY <3>2, <2>1, <1>10, OutageTimes DEF Second, Slack
    <3> QED BY <3>1, <3>2
  <2>3. A # {} BY <2>2
  <2>4. from \in A BY <2>3, <1>3, <1>5
  <2>5. /\ from \in 1..n /\ series[from].at = (IF from = 1 THEN 0 ELSE Second(from - 1) - early)
        /\ series[from].at >= Second(DownAt) - Slack
    BY <2>4, <1>1 DEF SeriesInv, Good
  <2> HIDE DEF from
  <2>6. CASE from = 1 BY <2>5, <2>6, OutageTimes DEF Second, Slack
  <2>7. CASE from # 1 BY <2>1, <2>5, <2>7, OutageTimes DEF Second, Slack
  <2> QED BY <2>6, <2>7
<1>11. During.from = from /\ During.to = to BY DEF During
<1>12. During.offered >= 0 /\ During.full >= 0
  <2>1. During.offered = series[to].offered - series[from].offered BY DEF During
  <2>2. During.full = series[to].full - series[from].full BY DEF During
  <2> HIDE DEF from, to
  <2> QED BY <2>1, <2>2, <1>8, <1>9
<1> HIDE DEF from, to
<1> QED BY <1>7, <1>10, <1>11, <1>12 DEF DuringOrdered

(* Where the first of a set is when the set grows at its end.               *)
LEMMA FirstUnique ==
  ASSUME NEW n \in Nat, NEW S \in SUBSET (1..n), NEW x \in S, \A j \in S : x <= j
  PROVE  FirstOf(S) = x
<1>1. PICK y \in S : y = FirstOf(S) /\ \A j \in S : y <= j BY FirstIs
<1>2. y \in Int /\ x \in Int /\ y <= x /\ x <= y BY <1>1
<1> QED BY <1>1, <1>2

LEMMA FirstGrows ==
  ASSUME NEW n \in Nat, NEW S \in SUBSET (1..n), NEW x \in 1..n, \A j \in S : j < x
  PROVE  FirstOf(S \cup {x}) = IF S = {} THEN x ELSE FirstOf(S)
<1> DEFINE T == S \cup {x}
<1>0. T \in SUBSET (1..n) OBVIOUS
<1>1. CASE S = {}
  <2>1. x \in T /\ \A j \in T : x <= j BY <1>1
  <2> HIDE DEF T
  <2>2. FirstOf(T) = x BY <1>0, <2>1, FirstUnique
  <2> QED BY <1>1, <2>2 DEF T
<1>2. CASE S # {}
  <2>1. PICK y \in S : y = FirstOf(S) /\ \A j \in S : y <= j BY <1>2, FirstIs
  <2>2. y \in T /\ \A j \in T : y <= j BY <2>1
  <2> HIDE DEF T
  <2>3. FirstOf(T) = y BY <1>0, <2>2, FirstUnique
  <2> QED BY <1>2, <2>1, <2>3 DEF T
<1> QED BY <1>1, <1>2

(* A time is 0 only when there is none: the first reading is in no set of   *)
(* which one is asked for.                                                  *)
LEMMA TimeIs ==
  ASSUME SeriesInv, NEW S \in SUBSET (2..Len(series))
  PROVE  TimeOf(S) \in Int /\ (TimeOf(S) = 0 <=> S = {})
<1>1. CASE S = {} BY <1>1 DEF TimeOf
<1>2. CASE S # {}
  <2>1. Len(series) \in Nat /\ S \in SUBSET (1..Len(series)) BY SeriesFacts
  <2> DEFINE x == FirstOf(S)
  <2>2. x \in S BY <1>2, <2>1, FirstIs
  <2> HIDE DEF x
  <2>3. x \in Int /\ x >= 2 /\ x \in Indices BY <2>1, <2>2 DEF Indices
  <2>4. series[x].at = Second(x - 1) - early /\ early \in {0, 1} BY <2>3 DEF SeriesInv
  <2>5. series[x].at \in Int /\ series[x].at # 0 BY <2>3, <2>4 DEF Second
  <2> QED BY <1>2, <2>5 DEF TimeOf, x
<1> QED BY <1>1, <1>2

LEMMA TimeGrows ==
  ASSUME SeriesInv, NEW S \in SUBSET (2..Len(series)), NEW x \in 2..Len(series), \A j \in S : j < x
  PROVE  TimeOf(S \cup {x}) = IF TimeOf(S) = 0 THEN series[x].at ELSE TimeOf(S)
<1>1. /\ Len(series) \in Nat /\ S \in SUBSET (1..Len(series)) /\ x \in 1..Len(series)
  BY SeriesFacts
<1>0. TimeOf(S) = 0 <=> S = {} BY TimeIs
<1>2. FirstOf(S \cup {x}) = IF S = {} THEN x ELSE FirstOf(S) BY <1>1, FirstGrows
<1>3. S \cup {x} # {} OBVIOUS
<1> QED BY <1>0, <1>2, <1>3 DEF TimeOf

(* recovered's loop, one reading at a time.                                 *)
Outcomes == [at : Int, lost : BOOLEAN]
RecoveredStep(i, before) ==
  IF ~series[i].ok \/ Offered(i) <= 0 \/ series[Prev[i]].at < Second(DownAt) - Slack
    THEN before
  ELSE IF ~Healthy(i)
    THEN [at |-> 0, lost |-> before.lost \/ series[Prev[i]].at < Second(UpAt) - Slack]
  ELSE [before EXCEPT !.at = IF @ = 0 THEN series[i].at ELSE @]

LEMMA RecoveredStepType ==
  ASSUME SeriesInv, NEW i \in Indices, NEW before \in Outcomes
  PROVE  RecoveredStep(i, before) \in Outcomes
<1>1. series[i].at \in Int BY SeriesFacts
<1>2. before.at \in Int /\ before.lost \in BOOLEAN BY DEF Outcomes
<1> HIDE DEF Second
<1> QED BY <1>1, <1>2 DEF RecoveredStep, Outcomes

LEMMA RecoveredIs ==
  ASSUME SeriesInv
  PROVE  /\ RecoveredLoop \in [Indices -> Outcomes]
         /\ RecoveredLoop[1] = [at |-> 0, lost |-> FALSE]
         /\ \A i \in Indices : i # 1 => RecoveredLoop[i] = RecoveredStep(i, RecoveredLoop[i - 1])
<1> DEFINE n == Len(series)
           v == [at |-> 0, lost |-> FALSE]
           D(g, i) == IF i = 1 THEN v ELSE RecoveredStep(i, g[i - 1])
           move == [i \in 1..n |-> [x \in Outcomes |-> RecoveredStep(i, x)]]
<1>0. n \in Nat /\ n >= 1 /\ Indices = 1..n BY SeriesFacts
<1>1. move \in [1..n -> [Outcomes -> Outcomes]] BY <1>0, RecoveredStepType
<1>2. PICK g \in [1..n -> Outcomes] : g[1] = v /\ \A i \in 2..n : g[i] = move[i][g[i - 1]]
  <2>1. v \in Outcomes BY DEF Outcomes
  <2> HIDE DEF move, n, v
  <2>3. CarriedBy(n, Outcomes, v, move) BY <1>0, <1>1, <2>1, Carried
  <2> QED BY <2>3 DEF CarriedBy
<1>3. g = [i \in 1..n |-> D(g, i)]
  <2>1. \A i \in 1..n : g[i] = D(g, i)
    <3> SUFFICES ASSUME NEW i \in 1..n PROVE g[i] = D(g, i) OBVIOUS
    <3>1. CASE i = 1 BY <3>1, <1>2
    <3>2. CASE i # 1
      <4>1. i \in 2..n /\ g[i - 1] \in Outcomes BY <1>0, <3>2
      <4> QED BY <3>2, <4>1, <1>2
    <3> QED BY <3>1, <3>2
  <2> HIDE DEF D
  <2> QED BY <2>1
<1>5. RecoveredLoop = CHOOSE f : f = [i \in Indices |-> D(f, i)] BY DEF RecoveredLoop, RecoveredStep
<1> HIDE DEF D
<1>6. RecoveredLoop = [i \in 1..n |-> D(RecoveredLoop, i)] BY <1>0, <1>3, <1>5
<1>7. \A i \in 1..n : RecoveredLoop[i] = D(RecoveredLoop, i) BY <1>6
<1>8. RecoveredLoop[1] = v /\ \A i \in 1..n : i # 1 => RecoveredLoop[i] = RecoveredStep(i, RecoveredLoop[i - 1])
  BY <1>0, <1>7 DEF D
<1>9. RecoveredLoop \in [1..n -> Outcomes]
  <2> DEFINE S == {i \in 1..n : RecoveredLoop[i] \in Outcomes}
  <2>0. v \in Outcomes BY DEF Outcomes
  <2>1. 1 \in S BY <1>0, <1>8, <2>0
  <2>2. ASSUME NEW i \in 1..(n - 1), i \in S PROVE i + 1 \in S
    <3>1. i + 1 \in Indices /\ i + 1 # 1 /\ (i + 1) - 1 = i BY <1>0
    <3>2. RecoveredLoop[i + 1] = RecoveredStep(i + 1, RecoveredLoop[i]) BY <1>0, <1>8, <3>1
    <3> QED BY <2>2, <3>1, <3>2, <1>0, RecoveredStepType
  <2>3. 1..n \subseteq S
    <3> HIDE DEF S, n
    <3> QED BY <1>0, <2>1, <2>2, Upwards
  <2> QED BY <2>3, <1>6
<1> QED BY <1>0, <1>8, <1>9

(* What recovered has by the reading i: the rows judged so far, and those   *)
(* of them from which every one was healthy.                                *)
JudgedBy(i) == {j \in Judged : j <= i}
RecoveriesBy(i) == {j \in JudgedBy(i) : \A k \in JudgedBy(i) : k >= j => Healthy(k)}
LostBy(i) == \E j \in JudgedBy(i) : ~Healthy(j) /\ series[Prev[j]].at < Second(UpAt) - Slack

LEMMA JudgedIs ==
  ASSUME SeriesInv
  PROVE  /\ Judged \subseteq 2..Len(series)
         /\ \A i \in Indices : i # 1 =>
              (i \in Judged <=> ~(~series[i].ok \/ Offered(i) <= 0 \/ series[Prev[i]].at < Second(DownAt) - Slack))
<1>0. Len(series) \in Nat /\ Indices = 1..Len(series) BY SeriesFacts
<1>1. Judged \subseteq 2..Len(series) BY <1>0 DEF Judged, Rows, Good
<1>2. ASSUME NEW i \in Indices, i # 1
      PROVE i \in Judged <=> ~(~series[i].ok \/ Offered(i) <= 0 \/ series[Prev[i]].at < Second(DownAt) - Slack)
  <2>1. i >= 2 /\ i \in Int BY <1>0, <1>2
  <2>2. Prev[i] \in Indices BY <2>1, PrevIs
  <2>3. /\ series[i].offered \in Nat /\ series[Prev[i]].offered \in Nat /\ series[Prev[i]].at \in Int
    BY <2>2, SeriesFacts
  <2>4. Offered(i) \in Int BY <2>3 DEF Offered
  <2>5. Second(DownAt) - Slack \in Int BY OutageTimes DEF Second, Slack
  <2>6. i \in Judged <=> /\ series[i].ok /\ Offered(i) > 0 /\ series[Prev[i]].at >= Second(DownAt) - Slack
    BY <2>1 DEF Judged, Rows, Good
  <2> DEFINE o == Offered(i)
             a == series[Prev[i]].at
             t == Second(DownAt) - Slack
  <2>7. o \in Int /\ a \in Int /\ t \in Int BY <2>3, <2>4, <2>5
  <2> HIDE DEF o, a, t
  <2>8. (o > 0 /\ a >= t) <=> ~(o <= 0 \/ a < t) BY <2>7
  <2> QED BY <2>6, <2>8 DEF o, a, t
<1> QED BY <1>1, <1>2

LEMMA RecoveredMeets ==
  ASSUME SeriesInv, NEW i \in Indices
  PROVE  /\ RecoveredLoop[i].at = TimeOf(RecoveriesBy(i))
         /\ RecoveredLoop[i].lost <=> LostBy(i)
<1> DEFINE n == Len(series)
           P(k) == /\ RecoveredLoop[k].at = TimeOf(RecoveriesBy(k))
                   /\ RecoveredLoop[k].lost <=> LostBy(k)
           S == {k \in 1..n : P(k)}
<1>0. n \in Nat /\ n >= 1 /\ Indices = 1..n /\ Judged \subseteq 2..n BY SeriesFacts, JudgedIs
<1>j. \A j \in Judged : j \in Int /\ 2 <= j
  <2> HIDE DEF n
  <2> QED BY <1>0
<1>1. 1 \in S
  <2>1. JudgedBy(1) = {} BY <1>j DEF JudgedBy
  <2>2. RecoveriesBy(1) = {} /\ ~LostBy(1) BY <2>1 DEF RecoveriesBy, LostBy
  <2>3. RecoveredLoop[1].at = 0 /\ RecoveredLoop[1].lost = FALSE BY RecoveredIs
  <2> QED BY <2>2, <2>3, <1>0 DEF TimeOf
<1>2. ASSUME NEW k \in 1..(n - 1), k \in S PROVE k + 1 \in S
  <2> DEFINE b == RecoveredLoop[k]
             c == RecoveredLoop[k + 1]
  <2>1. k + 1 \in Indices /\ k + 1 # 1 /\ (k + 1) - 1 = k /\ k \in Indices /\ k \in Int BY <1>0
  <2>2. c = RecoveredStep(k + 1, b) /\ b \in Outcomes BY <2>1, RecoveredIs
  <2>3. b.at = TimeOf(RecoveriesBy(k)) /\ (b.lost <=> LostBy(k)) BY <1>2
  <2>4. b.lost \in BOOLEAN /\ b.at \in Int /\ b = [at |-> b.at, lost |-> b.lost] BY <2>2 DEF Outcomes
  <2> HIDE DEF b, c
  <2>5. SUFFICES c.at = TimeOf(RecoveriesBy(k + 1)) /\ (c.lost <=> LostBy(k + 1)) BY <2>1, <1>0 DEF c
  <2>6. JudgedBy(k + 1) = IF k + 1 \in Judged THEN JudgedBy(k) \cup {k + 1} ELSE JudgedBy(k)
    <3>1. \A j \in Judged : j <= k + 1 <=> (j <= k \/ j = k + 1) BY <2>1, <1>j
    <3> QED BY <3>1, <2>1 DEF JudgedBy
  <2>7. JudgedBy(k) \subseteq 2..k /\ k + 1 \notin JudgedBy(k) BY <2>1, <1>j DEF JudgedBy
  <2>8. CASE k + 1 \notin Judged
    <3>1. c = b BY <2>8, <2>1, <2>2, JudgedIs DEF RecoveredStep
    <3>2. JudgedBy(k + 1) = JudgedBy(k) BY <2>6, <2>8
    <3>3. RecoveriesBy(k + 1) = RecoveriesBy(k) /\ (LostBy(k + 1) <=> LostBy(k))
      BY <3>2 DEF RecoveriesBy, LostBy
    <3> QED BY <3>1, <3>3, <2>3
  <2>9. CASE k + 1 \in Judged /\ ~Healthy(k + 1)
    <3>1. c = [at |-> 0, lost |-> b.lost \/ series[Prev[k + 1]].at < Second(UpAt) - Slack]
      BY <2>9, <2>1, <2>2, JudgedIs DEF RecoveredStep
    <3>2. JudgedBy(k + 1) = JudgedBy(k) \cup {k + 1} BY <2>6, <2>9
    <3>3. \A j \in JudgedBy(k + 1) : k + 1 >= j BY <3>2, <2>7, <2>1
    <3>4. RecoveriesBy(k + 1) = {} BY <3>2, <3>3, <2>9 DEF RecoveriesBy
    <3>5. c.at = TimeOf(RecoveriesBy(k + 1)) BY <3>1, <3>4 DEF TimeOf
    <3>6. LostBy(k + 1) <=> (LostBy(k) \/ series[Prev[k + 1]].at < Second(UpAt) - Slack)
      BY <3>2, <2>9 DEF LostBy
    <3>7. c.lost <=> (b.lost \/ series[Prev[k + 1]].at < Second(UpAt) - Slack) BY <3>1
    <3> QED BY <3>5, <3>6, <3>7, <2>3
  <2>10. CASE k + 1 \in Judged /\ Healthy(k + 1)
    <3>1. c = [b EXCEPT !.at = IF @ = 0 THEN series[k + 1].at ELSE @]
      BY <2>10, <2>1, <2>2, JudgedIs DEF RecoveredStep
    <3>2. JudgedBy(k + 1) = JudgedBy(k) \cup {k + 1} BY <2>6, <2>10
    <3>3. RecoveriesBy(k + 1) = RecoveriesBy(k) \cup {k + 1}
      <4>1. \A j \in JudgedBy(k) : ~(j >= k + 1) BY <2>7, <2>1
      <4>2. \A j \in JudgedBy(k + 1) : k + 1 >= j BY <3>2, <2>7, <2>1
      <4>3. \A j \in JudgedBy(k) :
              (\A m \in JudgedBy(k) \cup {k + 1} : m >= j => Healthy(m))
                <=> (\A m \in JudgedBy(k) : m >= j => Healthy(m))
        BY <2>10
      <4>4. \A m \in JudgedBy(k) \cup {k + 1} : m >= k + 1 => Healthy(m) BY <4>1, <2>10
      <4> QED BY <3>2, <4>3, <4>4 DEF RecoveriesBy
    <3>4. /\ RecoveriesBy(k) \in SUBSET (2..Len(series)) /\ k + 1 \in 2..Len(series)
          /\ \A j \in RecoveriesBy(k) : j < k + 1
      BY <2>1, <2>7, <1>0 DEF RecoveriesBy
    <3>5. TimeOf(RecoveriesBy(k + 1)) =
            IF TimeOf(RecoveriesBy(k)) = 0 THEN series[k + 1].at ELSE TimeOf(RecoveriesBy(k))
      BY <3>3, <3>4, TimeGrows
    <3>6. LostBy(k + 1) <=> LostBy(k) BY <3>2, <2>10 DEF LostBy
    <3>7. c.at = (IF b.at = 0 THEN series[k + 1].at ELSE b.at) /\ c.lost = b.lost BY <3>1, <2>4
    <3> QED BY <3>5, <3>6, <3>7, <2>3
  <2> QED BY <2>8, <2>9, <2>10
<1>3. 1..n \subseteq S
  <2> HIDE DEF S, n
  <2> QED BY <1>0, <1>1, <1>2, Upwards
<1> QED BY <1>0, <1>3

(* parked's loop, the same way.                                             *)
Parkings == [down : Int, up : Int]
ParkedStep(i, before) ==
  IF ~series[i].ok THEN before
  ELSE IF ~series[i].up /\ before.down = 0 THEN [before EXCEPT !.down = series[i].at]
  ELSE IF series[i].up /\ before.down # 0 /\ before.up = 0 THEN [before EXCEPT !.up = series[i].at]
  ELSE before

LEMMA ParkedStepType ==
  ASSUME SeriesInv, NEW i \in Indices, NEW before \in Parkings
  PROVE  ParkedStep(i, before) \in Parkings
<1>1. series[i].at \in Int BY SeriesFacts
<1> QED BY <1>1 DEF ParkedStep, Parkings

LEMMA ParkedIs ==
  ASSUME SeriesInv
  PROVE  /\ ParkedLoop \in [Indices -> Parkings]
         /\ ParkedLoop[1] = [down |-> 0, up |-> 0]
         /\ \A i \in Indices : i # 1 => ParkedLoop[i] = ParkedStep(i, ParkedLoop[i - 1])
<1> DEFINE n == Len(series)
           v == [down |-> 0, up |-> 0]
           D(g, i) == ParkedStep(i, IF i = 1 THEN v ELSE g[i - 1])
           move == [i \in 1..n |-> [x \in Parkings |-> ParkedStep(i, x)]]
<1>0. n \in Nat /\ n >= 1 /\ Indices = 1..n BY SeriesFacts
<1>v. v \in Parkings /\ ParkedStep(1, v) = v
  <2>1. series[1].ok => series[1].up BY DEF SeriesInv
  <2> QED BY <2>1 DEF Parkings, ParkedStep
<1>1. move \in [1..n -> [Parkings -> Parkings]] BY <1>0, ParkedStepType
<1>2. PICK g \in [1..n -> Parkings] : g[1] = v /\ \A i \in 2..n : g[i] = move[i][g[i - 1]]
  <2> HIDE DEF move, n, v
  <2>3. CarriedBy(n, Parkings, v, move) BY <1>0, <1>1, <1>v, Carried
  <2> QED BY <2>3 DEF CarriedBy
<1>3. g = [i \in 1..n |-> D(g, i)]
  <2>1. \A i \in 1..n : g[i] = D(g, i)
    <3> SUFFICES ASSUME NEW i \in 1..n PROVE g[i] = D(g, i) OBVIOUS
    <3>1. CASE i = 1 BY <3>1, <1>2, <1>v
    <3>2. CASE i # 1
      <4>1. i \in 2..n /\ g[i - 1] \in Parkings BY <1>0, <3>2
      <4> QED BY <3>2, <4>1, <1>2
    <3> QED BY <3>1, <3>2
  <2> HIDE DEF D
  <2> QED BY <2>1
<1>5. ParkedLoop = CHOOSE f : f = [i \in Indices |-> D(f, i)] BY DEF ParkedLoop, ParkedStep
<1> HIDE DEF D
<1>6. ParkedLoop = [i \in 1..n |-> D(ParkedLoop, i)] BY <1>0, <1>3, <1>5
<1>7. \A i \in 1..n : ParkedLoop[i] = D(ParkedLoop, i) BY <1>6
<1>8. ParkedLoop[1] = v /\ \A i \in 1..n : i # 1 => ParkedLoop[i] = ParkedStep(i, ParkedLoop[i - 1])
  <2> HIDE DEF v
  <2> QED BY <1>0, <1>7, <1>v DEF D
<1>9. ParkedLoop \in [1..n -> Parkings]
  <2> DEFINE S == {i \in 1..n : ParkedLoop[i] \in Parkings}
  <2>1. 1 \in S BY <1>0, <1>8, <1>v
  <2>2. ASSUME NEW i \in 1..(n - 1), i \in S PROVE i + 1 \in S
    <3>1. i + 1 \in Indices /\ i + 1 # 1 /\ (i + 1) - 1 = i BY <1>0
    <3>2. ParkedLoop[i + 1] = ParkedStep(i + 1, ParkedLoop[i]) BY <1>0, <1>8, <3>1
    <3> QED BY <2>2, <3>1, <3>2, <1>0, ParkedStepType
  <2>3. 1..n \subseteq S
    <3> HIDE DEF S, n
    <3> QED BY <1>0, <2>1, <2>2, Upwards
  <2> QED BY <2>3, <1>6
<1> QED BY <1>0, <1>8, <1>9

DownsBy(i) == {j \in Downs : j <= i}
UpsBy(i) == {j \in Ups : j <= i}

LEMMA ParkedMeets ==
  ASSUME SeriesInv, NEW i \in Indices
  PROVE  ParkedLoop[i] = [down |-> TimeOf(DownsBy(i)), up |-> TimeOf(UpsBy(i))]
<1> DEFINE n == Len(series)
           P(k) == ParkedLoop[k] = [down |-> TimeOf(DownsBy(k)), up |-> TimeOf(UpsBy(k))]
           S == {k \in 1..n : P(k)}
<1>0. n \in Nat /\ n >= 1 /\ Indices = 1..n BY SeriesFacts
<1>d. /\ \A j \in Downs : j \in Int /\ 2 <= j /\ j <= n
      /\ \A j \in Ups : j \in Int /\ 2 <= j /\ j <= n
  <2>1. \A j \in Good : j \in Int /\ 1 <= j /\ j <= n BY <1>0 DEF Good
  <2>2. 1 \notin Downs BY DEF SeriesInv, Downs, Good
  <2>3. \A j \in Downs : j \in Int /\ 2 <= j /\ j <= n BY <2>1, <2>2 DEF Downs
  <2> QED BY <2>1, <2>3 DEF Ups
<1>1. 1 \in S
  <2>1. DownsBy(1) = {} /\ UpsBy(1) = {} BY <1>d DEF DownsBy, UpsBy
  <2>2. TimeOf({}) = 0 BY DEF TimeOf
  <2>3. ParkedLoop[1] = [down |-> 0, up |-> 0] BY ParkedIs
  <2>4. P(1) BY <2>1, <2>2, <2>3
  <2>5. 1 \in 1..n BY <1>0
  <2> HIDE DEF P, n
  <2> QED BY <2>4, <2>5
<1>2. ASSUME NEW k \in 1..(n - 1), k \in S PROVE k + 1 \in S
  <2> DEFINE b == ParkedLoop[k]
             c == ParkedLoop[k + 1]
  <2>1. k + 1 \in Indices /\ k + 1 # 1 /\ (k + 1) - 1 = k /\ k \in Indices /\ k \in Int BY <1>0
  <2>2. c = ParkedStep(k + 1, b) BY <2>1, ParkedIs
  <2>3. b = [down |-> TimeOf(DownsBy(k)), up |-> TimeOf(UpsBy(k))] BY <1>2
  <2> HIDE DEF b, c
  <2>4. SUFFICES c = [down |-> TimeOf(DownsBy(k + 1)), up |-> TimeOf(UpsBy(k + 1))] BY <2>1, <1>0 DEF c
  <2>5. DownsBy(k + 1) = IF k + 1 \in Downs THEN DownsBy(k) \cup {k + 1} ELSE DownsBy(k)
    <3>1. \A j \in Downs : j <= k + 1 <=> (j <= k \/ j = k + 1) BY <2>1, <1>d
    <3> QED BY <3>1, <2>1 DEF DownsBy
  <2>6. UpsBy(k + 1) = IF k + 1 \in Ups THEN UpsBy(k) \cup {k + 1} ELSE UpsBy(k)
    <3>1. \A j \in Ups : j <= k + 1 <=> (j <= k \/ j = k + 1) BY <2>1, <1>d
    <3> QED BY <3>1, <2>1 DEF UpsBy
  <2>7. /\ DownsBy(k) \in SUBSET (2..Len(series)) /\ UpsBy(k) \in SUBSET (2..Len(series))
        /\ k + 1 \in 2..Len(series)
        /\ (\A j \in DownsBy(k) : j < k + 1) /\ (\A j \in UpsBy(k) : j < k + 1)
    BY <2>1, <1>0, <1>d DEF DownsBy, UpsBy
  <2>8. (TimeOf(DownsBy(k)) = 0 <=> DownsBy(k) = {}) BY <2>7, TimeIs
  <2>9. k + 1 \in Downs => TimeOf(DownsBy(k + 1)) =
          IF TimeOf(DownsBy(k)) = 0 THEN series[k + 1].at ELSE TimeOf(DownsBy(k))
    BY <2>5, <2>7, TimeGrows
  <2>10. k + 1 \in Ups => TimeOf(UpsBy(k + 1)) =
          IF TimeOf(UpsBy(k)) = 0 THEN series[k + 1].at ELSE TimeOf(UpsBy(k))
    BY <2>6, <2>7, TimeGrows
  <2>11. k + 1 \in Downs <=> series[k + 1].ok /\ ~series[k + 1].up BY <2>1 DEF Downs, Good
  <2>12. k + 1 \in Ups <=> series[k + 1].ok /\ series[k + 1].up /\ DownsBy(k) # {}
    <3>1. (\E j \in Downs : j < k + 1) <=> DownsBy(k) # {} BY <2>1, <1>d DEF DownsBy
    <3> QED BY <3>1, <2>1 DEF Ups, Good
  <2> DEFINE s == series[k + 1]
             dk == TimeOf(DownsBy(k))
             uk == TimeOf(UpsBy(k))
             dn == TimeOf(DownsBy(k + 1))
             un == TimeOf(UpsBy(k + 1))
  <2>13. b.down = dk /\ b.up = uk /\ b = [down |-> dk, up |-> uk] BY <2>3
  <2>14. /\ dn = IF s.ok /\ ~s.up /\ dk = 0 THEN s.at ELSE dk
         /\ un = IF s.ok /\ s.up /\ dk # 0 /\ uk = 0 THEN s.at ELSE uk
    <3>1. k + 1 \notin Downs => dn = dk BY <2>5
    <3>2. k + 1 \notin Ups => un = uk BY <2>6
    <3> HIDE DEF dk, uk, dn, un
    <3> QED BY <3>1, <3>2, <2>8, <2>9, <2>10, <2>11, <2>12 DEF dk, uk, dn, un
  <2> HIDE DEF dk, uk, dn, un
  <2>15. c = [down |-> dn, up |-> un] BY <2>2, <2>13, <2>14 DEF ParkedStep
  <2> QED BY <2>15 DEF dn, un
<1>3. 1..n \subseteq S
  <2> HIDE DEF S, n
  <2> QED BY <1>0, <1>1, <1>2, Upwards
<1> QED BY <1>0, <1>3

LEMMA RecoveryRightHolds == SeriesInv => RecoveryRight
<1> SUFFICES ASSUME SeriesInv PROVE RecoveryRight OBVIOUS
<1> DEFINE n == Len(series)
<1>0. n \in Nat /\ n \in Indices /\ Indices = 1..n BY SeriesFacts
<1>1. \A j \in Indices : j <= n BY <1>0
<1>2. Judged \subseteq Indices /\ Downs \subseteq Indices /\ Ups \subseteq Indices
  BY DEF Judged, Rows, Downs, Ups, Good
<1> HIDE DEF n
<1>3. JudgedBy(n) = Judged /\ DownsBy(n) = Downs /\ UpsBy(n) = Ups
  BY <1>1, <1>2 DEF JudgedBy, DownsBy, UpsBy
<1>4. RecoveriesBy(n) = Recoveries BY <1>3 DEF RecoveriesBy, Recoveries
<1>5. LostBy(n) <=> \E i \in Judged : ~Healthy(i) /\ series[Prev[i]].at < Second(UpAt) - Slack
  BY <1>3 DEF LostBy
<1>6. RecoveredLoop[n].at = TimeOf(RecoveriesBy(n)) /\ (RecoveredLoop[n].lost <=> LostBy(n))
  BY <1>0, RecoveredMeets
<1>7. ParkedLoop[n] = [down |-> TimeOf(DownsBy(n)), up |-> TimeOf(UpsBy(n))] BY <1>0, ParkedMeets
<1>8. Recovered = RecoveredLoop[n] /\ Parked = ParkedLoop[n] BY DEF n, Recovered, Parked
<1> QED BY <1>3, <1>4, <1>5, <1>6, <1>7, <1>8 DEF RecoveryRight

(* soak.go and arms_upstream.go: however long the arm runs, whenever the    *)
(* upstream goes and comes back and whichever readings were missed, the     *)
(* rows of a series join up, the outage's window is the outage's, and the   *)
(* recovery and the parking reported are the ones there were.               *)
THEOREM SeriesRightHolds == SeriesSpec => []SeriesRight
<1>1. SeriesInit => SeriesInv BY SeriesInitInv
<1>2. SeriesInv /\ [SampleTick]_seriesVars => SeriesInv' BY SeriesNextInv
<1>3. SeriesInv => SeriesRight
  BY WindowsJoinHolds, DuringOrderedHolds, RecoveryRightHolds DEF SeriesRight
<1> QED BY <1>1, <1>2, <1>3, PTL DEF SeriesSpec

(* A value found by following jumps upwards along 1..n.                     *)
ChasedBy(n, V, v, move, jump) ==
  \E g \in [1..n -> V] : \A i \in 1..n : g[i] = move[i][IF jump[i] <= n THEN g[jump[i]] ELSE v]

LEMMA Chased ==
  ASSUME NEW n \in Nat, n >= 1, NEW V, NEW v \in V, NEW move \in [1..n -> [V -> V]],
         NEW jump \in [1..n -> Nat], \A i \in 1..n : jump[i] > i
  PROVE  ChasedBy(n, V, v, move, jump)
<1> DEFINE Val(g, i) == move[i][IF jump[i] <= n THEN g[jump[i]] ELSE v]
           Walks(m, g) == \A i \in m..n : g[i] = Val(g, i)
           S == {k \in 1..n : \E g \in [(n + 1 - k)..n -> V] : Walks(n + 1 - k, g)}
<1>1. n > 0 => 1 \in S
  <2> DEFINE h == [i \in n..n |-> move[n][v]]
  <2>1. move[n][v] \in V /\ jump[n] \in Nat /\ jump[n] > n OBVIOUS
  <2>2. h \in [n..n -> V] BY <2>1
  <2>3. ASSUME NEW i \in n..n PROVE h[i] = Val(h, i)
    <3>1. i = n OBVIOUS
    <3>2. ~(jump[n] <= n) BY <2>1
    <3> QED BY <3>1, <3>2
  <2> HIDE DEF h
  <2>4. Walks(n, h) BY <2>3
  <2>5. n + 1 - 1 = n /\ 1 \in 1..n OBVIOUS
  <2> HIDE DEF Walks
  <2> QED BY <2>2, <2>4, <2>5
<1>2. ASSUME NEW k \in 1..(n - 1), k \in S PROVE k + 1 \in S
  <2> DEFINE m == n + 1 - k
  <2>1. PICK g \in [m..n -> V] : Walks(m, g) BY <1>2
  <2>2. m \in Int /\ m - 1 \in 1..n /\ n + 1 - (k + 1) = m - 1 /\ m <= n /\ m >= 2 /\ k + 1 \in 1..n OBVIOUS
  <2> HIDE DEF m
  <2> DEFINE o == m - 1
             j == jump[o]
             x == IF j <= n THEN g[j] ELSE v
             h == [i \in o..n |-> IF i = o THEN move[o][x] ELSE g[i]]
  <2>3. j \in Nat /\ j > o BY <2>2
  <2>4. x \in V BY <2>2, <2>3
  <2>5. move[o][x] \in V BY <2>2, <2>4
  <2>6. h \in [o..n -> V] BY <2>2, <2>5, SMTT(30)
  <2>7. ASSUME NEW i \in o..n PROVE h[i] = Val(h, i)
    <3>0. i \in 1..n /\ i \in Int /\ jump[i] \in Nat /\ jump[i] > i BY <2>2
    <3>1. jump[i] <= n => h[jump[i]] = g[jump[i]]
      <4> HIDE DEF j, x
      <4> QED BY <3>0, <2>2
    <3>2. CASE i = o BY <3>1, <3>2, <2>2, SMTT(30)
    <3>3. CASE i # o
      <4>1. i \in m..n /\ h[i] = g[i] BY <3>3, <2>2
      <4>2. g[i] = Val(g, i) BY <4>1, <2>1
      <4> QED BY <4>1, <4>2, <3>1
    <3> QED BY <3>2, <3>3
  <2> HIDE DEF h, j, x
  <2>8. Walks(o, h) BY <2>7
  <2> HIDE DEF Walks
  <2> QED BY <2>2, <2>6, <2>8
<1>3. 1..n \subseteq S
  <2> HIDE DEF S
  <2> QED BY <1>1, <1>2, Upwards
<1>4. n \in 1..n /\ n + 1 - n = 1 OBVIOUS
<1>5. n \in S
  <2> HIDE DEF S
  <2> QED BY <1>3, <1>4
<1>6. \E g \in [1..n -> V] : Walks(1, g)
  <2> HIDE DEF Walks
  <2> QED BY <1>4, <1>5
<1> QED BY <1>6 DEF ChasedBy

-----------------------------------------------------------------------------
(* The walk over a name, which both Question and questionEnd take.          *)
Walk(body, f, off) ==
  IF off > Len(body) THEN Bad
  ELSE IF body[off] = 0 THEN off + 1
  ELSE IF body[off] >= 64 THEN Bad
  ELSE f[off + 1 + body[off]]
WalkEnds(body) == CHOOSE f : f = [off \in 1..(Len(body) + 64) |-> Walk(body, f, off)]

LEMMA EndsIs ==
  ASSUME NEW body \in Seq(Nat)
  PROVE  /\ WalkEnds(body) = [off \in 1..(Len(body) + 64) |-> Walk(body, WalkEnds(body), off)]
         /\ \A off \in 1..(Len(body) + 64) : WalkEnds(body)[off] = Walk(body, WalkEnds(body), off)
<1> DEFINE n == Len(body) + 64
           stops == {i \in 1..n : i > Len(body) \/ body[i] = 0 \/ body[i] >= 64}
           val(i) == IF i > Len(body) THEN Bad ELSE IF body[i] = 0 THEN i + 1 ELSE Bad
           move == [i \in 1..n |-> [x \in Nat |-> IF i \in stops THEN val(i) ELSE x]]
           jump == [i \in 1..n |-> IF i \in stops THEN i + 1 ELSE i + 1 + body[i]]
<1>0. n \in Nat /\ n >= 1 /\ Len(body) \in Nat /\ 0 \in Nat OBVIOUS
<1>b. \A i \in 1..n : i <= Len(body) => body[i] \in Nat BY <1>0
<1>1. move \in [1..n -> [Nat -> Nat]] BY <1>0 DEF Bad
<1>2. jump \in [1..n -> Nat] /\ \A i \in 1..n : jump[i] > i BY <1>0, <1>b
<1>3. \A i \in 1..n : i \notin stops => jump[i] = i + 1 + body[i] /\ jump[i] <= n BY <1>0, <1>b
<1>4. PICK g \in [1..n -> Nat] : \A i \in 1..n : g[i] = move[i][IF jump[i] <= n THEN g[jump[i]] ELSE 0]
  <2> DEFINE V == Nat
             v == 0
  <2>1. v \in V /\ move \in [1..n -> [V -> V]] BY <1>0, <1>1
  <2> HIDE DEF move, n, V, v, jump
  <2>3. ChasedBy(n, V, v, move, jump) BY <1>0, <1>2, <2>1, Chased
  <2> QED BY <2>3 DEF V, v, ChasedBy
<1>5. \A i \in 1..n : g[i] = Walk(body, g, i)
  <2> SUFFICES ASSUME NEW i \in 1..n PROVE g[i] = Walk(body, g, i) OBVIOUS
  <2>1. CASE i \in stops
    <3>1. \A x \in Nat : move[i][x] = val(i) BY <2>1
    <3>2. (IF jump[i] <= n THEN g[jump[i]] ELSE 0) \in Nat BY <1>0, <1>2
    <3>3. g[i] = val(i)
      <4> HIDE DEF move, jump, val
      <4> QED BY <3>1, <3>2, <1>4
    <3> QED BY <2>1, <3>3 DEF Walk, Bad
  <2>2. CASE i \notin stops
    <3>1. jump[i] = i + 1 + body[i] /\ jump[i] <= n /\ jump[i] \in 1..n BY <2>2, <1>2, <1>3
    <3>2. g[jump[i]] \in Nat /\ \A x \in Nat : move[i][x] = x BY <2>2, <3>1
    <3>3. g[i] = g[jump[i]]
      <4> HIDE DEF move, jump
      <4> QED BY <3>1, <3>2, <1>4
    <3>4. g[i] = g[i + 1 + body[i]]
      <4> HIDE DEF jump
      <4> QED BY <3>1, <3>3
    <3> QED BY <2>2, <3>4 DEF Walk
  <2> QED BY <2>1, <2>2
<1>6. g = [off \in 1..n |-> Walk(body, g, off)]
  <2> HIDE DEF n
  <2> QED BY <1>5
<1>7. WalkEnds(body) = [off \in 1..n |-> Walk(body, WalkEnds(body), off)]
  <2> HIDE DEF n
  <2> QED BY <1>6 DEF WalkEnds, n
<1> QED BY <1>7

(* A label's length octet leads to another place in the walk.               *)
LEMMA Onwards ==
  ASSUME NEW body \in Seq(Nat), NEW off \in 1..(Len(body) + 64),
         ~(off > Len(body) \/ body[off] = 0 \/ body[off] >= 64)
  PROVE  /\ off \in 1..Len(body) /\ body[off] \in 1..63
         /\ off + 1 + body[off] \in 1..(Len(body) + 64) /\ off + 1 + body[off] > off
<1>1. Len(body) \in Nat OBVIOUS
<1>2. off \in Nat /\ off >= 1 /\ off <= Len(body) BY <1>1
<1>3. body[off] \in Nat BY <1>2
<1> DEFINE b == body[off]
           n == Len(body)
<1>4. b \in Nat /\ b # 0 /\ ~(b >= 64) /\ n \in Nat /\ off <= n BY <1>1, <1>2, <1>3
<1> HIDE DEF b, n
<1>5. off \in 1..n /\ b \in 1..63 /\ off + 1 + b \in 1..(n + 64) /\ off + 1 + b > off BY <1>2, <1>4
<1> QED BY <1>5 DEF b, n

(* A walk that ends does so after where it started and within the message.  *)
LEMMA EndsRange ==
  ASSUME NEW body \in Seq(Nat), NEW off \in 1..(Len(body) + 64)
  PROVE  /\ WalkEnds(body)[off] \in Nat
         /\ WalkEnds(body)[off] # Bad => off < WalkEnds(body)[off] /\ WalkEnds(body)[off] <= Len(body) + 1
<1> DEFINE n == Len(body) + 64
           E == WalkEnds(body)
           P(i) == E[i] \in Nat /\ (E[i] # Bad => i < E[i] /\ E[i] <= Len(body) + 1)
           S == {i \in 1..n : ~P(i)}
<1>0. n \in Nat /\ Len(body) \in Nat OBVIOUS
<1> SUFFICES ASSUME S # {} PROVE FALSE OBVIOUS
<1>1. PICK i \in S : \A j \in S : j <= i
  <2>1. S \in SUBSET (1..n) OBVIOUS
  <2> HIDE DEF S, n
  <2> QED BY <2>1, <1>0, GreatestOf
<1>2. i \in 1..n /\ E[i] = Walk(body, E, i) /\ ~P(i) BY EndsIs
<1>3. CASE i > Len(body) \/ body[i] = 0 \/ body[i] >= 64
  <2> HIDE DEF E
  <2>1. CASE i > Len(body) BY <2>1, <1>2 DEF Walk, Bad
  <2>2. CASE i <= Len(body) /\ body[i] = 0 BY <2>2, <1>2, <1>0 DEF Walk, Bad
  <2>3. CASE i <= Len(body) /\ body[i] # 0 /\ body[i] >= 64 BY <2>3, <1>2, <1>0 DEF Walk, Bad
  <2> QED BY <1>3, <2>1, <2>2, <2>3, <1>2, <1>0
<1>4. CASE ~(i > Len(body) \/ body[i] = 0 \/ body[i] >= 64)
  <2> DEFINE j == i + 1 + body[i]
  <2>2. j \in 1..n /\ j > i BY <1>2, <1>4, Onwards
  <2>3. E[i] = E[j] BY <1>2, <1>4 DEF Walk
  <2>4. P(j)
    <3> HIDE DEF j, P, n
    <3> QED BY <2>2, <1>1, <1>2
  <2> HIDE DEF j, E
  <2> QED BY <1>2, <2>2, <2>3, <2>4
<1> QED BY <1>3, <1>4

LEMMA NameEndIs ==
  ASSUME NEW body \in Seq(Nat)
  PROVE  NameEnd(body) = WalkEnds(body)[1]
<1> DEFINE n == Len(body) + 64
           D(f, off) == IF off > Len(body) THEN Bad
                        ELSE IF body[off] = 0 THEN off + 1
                        ELSE IF body[off] >= 64 THEN Bad
                        ELSE IF off + body[off] > Len(body) THEN Bad
                        ELSE f[off + 1 + body[off]]
           G == CHOOSE f : f = [off \in 1..n |-> D(f, off)]
<1>0. n \in Nat /\ Len(body) \in Nat OBVIOUS
<1>1. NameEnd(body) = G[1] BY DEF NameEnd
<1>2. ASSUME NEW f PROVE (f = [off \in 1..n |-> D(f, off)]) <=> (f = [off \in 1..n |-> Walk(body, f, off)])
  <2>1. ASSUME f = [off \in 1..n |-> D(f, off)] \/ f = [off \in 1..n |-> Walk(body, f, off)],
               NEW off \in 1..n
        PROVE  D(f, off) = Walk(body, f, off)
    <3>1. CASE off > Len(body) \/ body[off] = 0 \/ body[off] >= 64 BY <3>1 DEF Walk
    <3>2. CASE ~(off > Len(body) \/ body[off] = 0 \/ body[off] >= 64)
      <4>1. body[off] \in 1..63 /\ off \in 1..Len(body) BY <3>2, Onwards
      <4> DEFINE j == off + 1 + body[off]
      <4>2. j \in 1..n BY <3>2, Onwards
      <4>3. j > Len(body) => f[j] = Bad
        <5> HIDE DEF j, n
        <5> QED BY <4>2, <2>1 DEF Walk
      <4>4. off + body[off] > Len(body) => j > Len(body) BY <4>1, <1>0
      <4>5. Walk(body, f, off) = f[j] BY <3>2 DEF Walk
      <4>6. D(f, off) = IF off + body[off] > Len(body) THEN Bad ELSE f[j] BY <3>2
      <4> HIDE DEF j, D
      <4> QED BY <4>3, <4>4, <4>5, <4>6
    <3> QED BY <3>1, <3>2
  <2> HIDE DEF D
  <2>2. CASE f = [off \in 1..n |-> D(f, off)]
    <3>1. \A off \in 1..n : D(f, off) = Walk(body, f, off) BY <2>1, <2>2
    <3> QED BY <3>1, <2>2
  <2>3. CASE f = [off \in 1..n |-> Walk(body, f, off)]
    <3>1. \A off \in 1..n : D(f, off) = Walk(body, f, off) BY <2>1, <2>3
    <3> QED BY <3>1, <2>3
  <2> QED BY <2>2, <2>3
<1>3. G = WalkEnds(body)
  <2> HIDE DEF D, n
  <2> QED BY <1>2, ZenonT(40) DEF WalkEnds, n
<1> QED BY <1>1, <1>3

LEMMA QuestionEndIs ==
  ASSUME NEW m, m.header >= 12, m.header \in Nat
  PROVE  QuestionEnd(m) = LET after == WalkEnds(m.body)[1]
                          IN IF after = Bad \/ after + 3 > Len(m.body) THEN Bad ELSE after + 3
<1>1. ~(m.header < 12) OBVIOUS
<1> QED BY <1>1 DEF QuestionEnd, WalkEnds, Walk

(* What Question says where questionEnd finds a question, and elsewhere.    *)
LEMMA QuestionIs ==
  ASSUME NEW m, m.header \in Nat, m.body \in Seq(Nat)
  PROVE  /\ Question(m).ok \in BOOLEAN
         /\ Question(m).ok <=> QuestionEnd(m) # Bad
         /\ Question(m).ok =>
              LET a == WalkEnds(m.body)[1]
              IN /\ m.header >= 12 /\ a \in Nat /\ a # Bad /\ a >= 2 /\ a + 3 <= Len(m.body)
                 /\ QuestionEnd(m) = a + 3
                 /\ Question(m) = [ok |-> TRUE, qtype |-> 256 * m.body[a] + m.body[a + 1]]
<1> DEFINE a == WalkEnds(m.body)[1]
<1>0. Len(m.body) \in Nat /\ 1 \in 1..(Len(m.body) + 64) OBVIOUS
<1>1. a \in Nat /\ (a # Bad => 1 < a) BY <1>0, EndsRange
<1>2. NameEnd(m.body) = a BY NameEndIs
<1>3. CASE m.header < 12 BY <1>3 DEF Question, QuestionEnd
<1>4. CASE ~(m.header < 12)
  <2>1. QuestionEnd(m) = IF a = Bad \/ a + 3 > Len(m.body) THEN Bad ELSE a + 3
    BY <1>4, QuestionEndIs
  <2>2. Question(m) = IF a = Bad \/ a + 3 > Len(m.body) THEN [ok |-> FALSE, qtype |-> 0]
                      ELSE [ok |-> TRUE, qtype |-> 256 * m.body[a] + m.body[a + 1]]
    BY <1>2, <1>4 DEF Question
  <2> HIDE DEF a
  <2>3. CASE a = Bad \/ a + 3 > Len(m.body) BY <2>1, <2>2, <2>3
  <2>4. CASE ~(a = Bad \/ a + 3 > Len(m.body))
    <3>1. a # Bad /\ a + 3 <= Len(m.body) /\ a + 3 # 0 /\ a >= 2 BY <2>4, <1>0, <1>1
    <3>2. QuestionEnd(m) = a + 3 /\ QuestionEnd(m) # Bad BY <2>1, <2>4, <3>1 DEF Bad
    <3>3. Question(m) = [ok |-> TRUE, qtype |-> 256 * m.body[a] + m.body[a + 1]] BY <2>2, <2>4
    <3>4. Question(m).ok = TRUE BY <3>3
    <3>5. m.header >= 12 BY <1>4
    <3> QED BY <1>1, <3>1, <3>2, <3>3, <3>4, <3>5 DEF a
  <2> QED BY <2>3, <2>4
<1> QED BY <1>3, <1>4

(* Two bodies that agree up to e are walked alike up to e.                  *)
LEMMA SameWalk ==
  ASSUME NEW s \in Seq(Nat), NEW t \in Seq(Nat), NEW e \in Nat, e <= Len(s), e <= Len(t),
         \A k \in 1..e : s[k] = t[k],
         NEW off \in 1..(Len(s) + 64), WalkEnds(s)[off] # Bad, WalkEnds(s)[off] <= e + 1
  PROVE  WalkEnds(t)[off] = WalkEnds(s)[off]
<1> DEFINE n == Len(s) + 64
           F == WalkEnds(s)
           G == WalkEnds(t)
           S == {k \in 1..n : F[k] # Bad /\ F[k] <= e + 1 /\ G[k] # F[k]}
<1>0. n \in Nat /\ Len(s) \in Nat /\ Len(t) \in Nat OBVIOUS
<1> SUFFICES ASSUME S # {} PROVE FALSE OBVIOUS
<1>1. PICK i \in S : \A j \in S : j <= i
  <2>1. S \in SUBSET (1..n) OBVIOUS
  <2> HIDE DEF S, n
  <2> QED BY <2>1, <1>0, GreatestOf
<1>2. i \in 1..n /\ F[i] = Walk(s, F, i) /\ F[i] # Bad /\ F[i] <= e + 1 /\ G[i] # F[i] BY EndsIs
<1>3. F[i] \in Nat /\ i < F[i] BY <1>2, EndsRange
<1> HIDE DEF F, G
<1>4. i \in 1..e BY <1>2, <1>3
<1>5. i \in 1..(Len(t) + 64) /\ i <= Len(s) /\ i <= Len(t) /\ s[i] = t[i] /\ s[i] \in Nat BY <1>4, <1>0, SMTT(30)
<1>6. G[i] = Walk(t, G, i) BY <1>5, EndsIs DEF G
<1>7. CASE s[i] = 0
  <2>1. F[i] = i + 1 BY <1>2, <1>5, <1>7, <1>0 DEF Walk
  <2>2. G[i] = i + 1 BY <1>6, <1>5, <1>7, <1>0 DEF Walk
  <2> QED BY <2>1, <2>2, <1>2
<1>8. CASE s[i] >= 64
  <2>1. F[i] = Bad BY <1>2, <1>5, <1>8, <1>0, SMTT(30) DEF Walk
  <2> QED BY <2>1, <1>2
<1>9. CASE ~(s[i] = 0) /\ ~(s[i] >= 64)
  <2> DEFINE j == i + 1 + s[i]
  <2>0. ~(i > Len(s)) /\ ~(i > Len(t)) BY <1>5, <1>0, <1>4, SMTT(30)
  <2>1. F[i] = F[j] BY <1>2, <2>0, <1>9 DEF Walk
  <2>2. G[i] = G[j] BY <1>6, <1>5, <2>0, <1>9 DEF Walk
  <2>3. j \in 1..n /\ j > i BY <1>2, <1>9, <2>0, Onwards
  <2>4. i \in Int /\ j \in Int BY <2>3, <1>2
  <2> HIDE DEF j, n
  <2>5. j \in S BY <2>1, <2>2, <2>3, <1>2
  <2>6. j <= i
    <3> HIDE DEF S
    <3> QED BY <2>5, <1>1
  <2> QED BY <2>3, <2>4, <2>6
<1> QED BY <1>5, <1>7, <1>8, <1>9

-----------------------------------------------------------------------------
(* The names the generator builds.                                          *)
NamePart(labels, f, i) ==
  IF i > Len(labels) THEN <<0>> ELSE <<Len(labels[i])>> \o labels[i] \o f[i + 1]
NameParts(labels) == CHOOSE f : f = [i \in 1..(Len(labels) + 1) |-> NamePart(labels, f, i)]

LEMMA LabelFacts ==
  ASSUME NEW l \in Labels
  PROVE  l \in Seq(Nat) /\ Len(l) \in 1..63
<1>1. l \in Seq(0..255) /\ Len(l) \in 1..63 BY WireConstants
<1> DEFINE B == 0..255
<1>2. B \subseteq Nat OBVIOUS
<1>3. l \in Seq(B) BY <1>1
<1> HIDE DEF B
<1>4. \A k \in 1..Len(l) : l[k] \in B BY <1>3
<1>5. \A k \in 1..Len(l) : l[k] \in Nat BY <1>2, <1>4
<1> QED BY <1>1, <1>3, <1>5

LEMMA NamePartsIs ==
  ASSUME NEW labels \in Seq(Labels)
  PROVE  /\ NameParts(labels) \in [1..(Len(labels) + 1) -> Seq(Nat)]
         /\ \A i \in 1..(Len(labels) + 1) : NameParts(labels)[i] = NamePart(labels, NameParts(labels), i)
         /\ AppendName(labels) = NameParts(labels)[1]
<1> DEFINE n == Len(labels) + 1
           V == Seq(Nat)
           v == <<0>>
           move == [i \in 1..n |-> [x \in V |->
                      IF i > Len(labels) THEN <<0>> ELSE <<Len(labels[i])>> \o labels[i] \o x]]
           jump == [i \in 1..n |-> i + 1]
<1>0. n \in Nat /\ n >= 1 /\ Len(labels) \in Nat /\ v \in V OBVIOUS
<1>1. ASSUME NEW i \in 1..n, NEW x \in V, ~(i > Len(labels))
      PROVE  <<Len(labels[i])>> \o labels[i] \o x \in V
  <2>1. labels[i] \in Labels BY <1>0, <1>1
  <2>2. labels[i] \in Seq(Nat) /\ Len(labels[i]) \in Nat BY <2>1, LabelFacts
  <2> QED BY <2>2
<1>2. move \in [1..n -> [V -> V]]
  <2> HIDE DEF n, V
  <2> QED BY <1>0, <1>1 DEF v
<1>3. jump \in [1..n -> Nat] /\ \A i \in 1..n : jump[i] > i BY <1>0
<1>4. PICK g \in [1..n -> V] : \A i \in 1..n : g[i] = move[i][IF jump[i] <= n THEN g[jump[i]] ELSE v]
  <2> HIDE DEF move, n, V, v, jump
  <2>3. ChasedBy(n, V, v, move, jump) BY <1>0, <1>2, <1>3, Chased
  <2> QED BY <2>3 DEF ChasedBy
<1>5. \A i \in 1..n : g[i] = NamePart(labels, g, i)
  <2> SUFFICES ASSUME NEW i \in 1..n PROVE g[i] = NamePart(labels, g, i) OBVIOUS
  <2>1. CASE i > Len(labels)
    <3>1. jump[i] > n /\ i = n BY <2>1, <1>0
    <3>2. g[i] = move[i][v]
      <4>1. ~(jump[i] <= n) BY <3>1, <1>0
      <4> HIDE DEF move, jump, n, v
      <4> QED BY <1>4, <4>1
    <3> HIDE DEF V
    <3>3. move[i][v] = <<0>> BY <2>1, <1>0
    <3> QED BY <3>2, <3>3, <2>1 DEF NamePart
  <2>2. CASE ~(i > Len(labels))
    <3>1. jump[i] <= n /\ jump[i] = i + 1 /\ i + 1 \in 1..n BY <2>2, <1>0
    <3> HIDE DEF V
    <3>2. g[i] = move[i][g[i + 1]] /\ g[i + 1] \in V
      <4> HIDE DEF move, jump, n
      <4> QED BY <1>4, <3>1
    <3>3. move[i][g[i + 1]] = <<Len(labels[i])>> \o labels[i] \o g[i + 1] BY <2>2, <3>2
    <3> QED BY <3>2, <3>3, <2>2 DEF NamePart
  <2> QED BY <2>1, <2>2
<1>6. g = [i \in 1..n |-> NamePart(labels, g, i)]
  <2> HIDE DEF n, V
  <2> QED BY <1>5
<1> DEFINE N == NameParts(labels)
<1>7. N = [i \in 1..n |-> NamePart(labels, N, i)]
  <2> HIDE DEF n
  <2> QED BY <1>6 DEF NameParts, n
<1> HIDE DEF N
<1>8. \A i \in 1..n : N[i] = NamePart(labels, N, i)
  <2> HIDE DEF n
  <2> QED BY <1>7
<1>9. \A i \in 1..n : N[i] \in V
  <2> DEFINE S == {i \in 1..n : N[i] \notin V}
  <2> SUFFICES ASSUME S # {} PROVE FALSE OBVIOUS
  <2>1. PICK i \in S : \A j \in S : j <= i
    <3>1. S \in SUBSET (1..n) OBVIOUS
    <3> HIDE DEF S, n
    <3> QED BY <3>1, <1>0, GreatestOf
  <2>2. CASE i > Len(labels) BY <2>2, <1>8, <1>0 DEF NamePart
  <2>3. CASE ~(i > Len(labels))
    <3>1. i + 1 \in 1..n /\ i \in Int BY <2>3, <1>0
    <3>2. i + 1 \notin S
      <4> HIDE DEF S
      <4> QED BY <3>1, <2>1
    <3>3. N[i + 1] \in V BY <3>1, <3>2
    <3>4. N[i] = <<Len(labels[i])>> \o labels[i] \o N[i + 1] BY <2>3, <1>8 DEF NamePart
    <3>5. N[i] \in V
      <4> HIDE DEF V
      <4> QED BY <2>3, <3>3, <3>4, <1>1
    <3> QED BY <3>5
  <2> QED BY <2>2, <2>3
<1>10. N \in [1..n -> V]
  <2> HIDE DEF n, V
  <2> QED BY <1>7, <1>9
<1>11. AppendName(labels) = N[1] BY DEF AppendName, N, NameParts, NamePart
<1> QED BY <1>8, <1>10, <1>11 DEF N

JoinedBy(s, t, u) ==
  /\ u \in Seq(Nat) /\ Len(u) = Len(s) + Len(t) /\ Len(s) \in Nat /\ Len(t) \in Nat
  /\ \A k \in 1..Len(s) : u[k] = s[k]
  /\ \A k \in 1..Len(t) : u[Len(s) + k] = t[k]

LEMMA Joined ==
  ASSUME NEW s \in Seq(Nat), NEW t \in Seq(Nat), NEW u, u = s \o t
  PROVE  JoinedBy(s, t, u)
<1>1. Len(s) \in Nat /\ Len(t) \in Nat OBVIOUS
<1>2. /\ s \o t \in Seq(Nat) /\ Len(s \o t) = Len(s) + Len(t)
      /\ \A i \in 1..(Len(s) + Len(t)) : (s \o t)[i] = IF i <= Len(s) THEN s[i] ELSE t[i - Len(s)]
  BY ConcatProperties
<1>3. ASSUME NEW k \in 1..Len(s) PROVE u[k] = s[k]
  <2>1. k \in 1..(Len(s) + Len(t)) /\ k <= Len(s) BY <1>1
  <2> QED BY <1>2, <2>1
<1>4. ASSUME NEW k \in 1..Len(t) PROVE u[Len(s) + k] = t[k]
  <2>1. Len(s) + k \in 1..(Len(s) + Len(t)) /\ ~(Len(s) + k <= Len(s)) /\ Len(s) + k - Len(s) = k BY <1>1
  <2> QED BY <1>2, <2>1
<1> QED BY <1>1, <1>2, <1>3, <1>4 DEF JoinedBy

(* A body that holds s from offset o on.                                    *)
HoldsAt(body, o, s) == o + Len(s) <= Len(body) + 1 /\ \A k \in 1..Len(s) : body[o - 1 + k] = s[k]

(* A name that the generator built is walked to its end, wherever it is.    *)
LEMMA NameWalked ==
  ASSUME NEW labels \in Seq(Labels), NEW body \in Seq(Nat), NEW o \in Nat, o >= 1,
         HoldsAt(body, o, AppendName(labels))
  PROVE  WalkEnds(body)[o] = o + Len(AppendName(labels))
<1> DEFINE n == Len(labels) + 1
           N == NameParts(labels)
           F == WalkEnds(body)
           P(i) == \A q \in Nat : q >= 1 /\ HoldsAt(body, q, N[i]) => F[q] = q + Len(N[i])
           S == {i \in 1..n : ~P(i)}
<1>0. n \in Nat /\ n >= 1 /\ Len(labels) \in Nat /\ Len(body) \in Nat OBVIOUS
<1>1. /\ \A i \in 1..n : N[i] \in Seq(Nat) /\ N[i] = NamePart(labels, N, i)
      /\ AppendName(labels) = N[1]
  BY NamePartsIs
<1>2. \A q \in 1..(Len(body) + 64) : F[q] = Walk(body, F, q) BY EndsIs
<1> HIDE DEF N, F
<1>3. S = {}
  <2> SUFFICES ASSUME S # {} PROVE FALSE OBVIOUS
  <2>1. PICK i \in S : \A j \in S : j <= i
    <3>1. S \in SUBSET (1..n) OBVIOUS
    <3> HIDE DEF S, n
    <3> QED BY <3>1, <1>0, GreatestOf
  <2>2. PICK q \in Nat : q >= 1 /\ HoldsAt(body, q, N[i]) /\ F[q] # q + Len(N[i]) OBVIOUS
  <2>3. i \in 1..n /\ N[i] \in Seq(Nat) /\ N[i] = NamePart(labels, N, i) BY <1>1
  <2>4. CASE i > Len(labels)
    <3>1. N[i] = <<0>> BY <2>3, <2>4 DEF NamePart
    <3>2. Len(N[i]) = 1 /\ N[i][1] = 0 BY <3>1
    <3>3. q <= Len(body) /\ body[q - 1 + 1] = 0 BY <2>2, <3>2, <1>0, SMTT(30) DEF HoldsAt
    <3>4. q - 1 + 1 = q /\ q \in 1..(Len(body) + 64) /\ ~(q > Len(body)) BY <3>3, <2>2, <1>0, SMTT(30)
    <3>5. F[q] = q + 1 BY <1>2, <3>3, <3>4 DEF Walk
    <3> QED BY <2>2, <3>2, <3>5
  <2>5. CASE ~(i > Len(labels))
    <3>1. i \in 1..Len(labels) /\ i + 1 \in 1..n /\ i \in Int BY <2>3, <2>5, <1>0
    <3> DEFINE l == labels[i]
               r == N[i + 1]
               s == N[i]
               b == Len(l)
    <3>2. l \in Labels BY <3>1
    <3>3. l \in Seq(Nat) /\ b \in 1..63 BY <3>2, LabelFacts
    <3>4. r \in Seq(Nat) BY <3>1, <1>1
    <3>5. s = <<b>> \o l \o r BY <2>3, <2>5 DEF NamePart
    <3> HIDE DEF l, r, s
    <3>6. Len(s) = 1 + b + Len(r) /\ s[1] = b /\ \A k \in 1..Len(r) : s[1 + b + k] = r[k]
      <4> DEFINE u == <<b>> \o l
      <4>1. u \in Seq(Nat) /\ Len(u) = 1 + b /\ u[1] = b BY <3>3
      <4>2. s = u \o r BY <3>5
      <4> HIDE DEF u
      <4>3. Len(s) = Len(u) + Len(r) /\ s[1] = u[1] /\ \A k \in 1..Len(r) : s[Len(u) + k] = r[k]
        <5>1. 1 \in 1..Len(u) BY <4>1, <3>3
        <5>2. JoinedBy(u, r, s) BY <3>4, <4>1, <4>2, Joined
        <5> QED BY <5>1, <5>2 DEF JoinedBy
      <4> QED BY <4>1, <4>3
    <3>7. HoldsAt(body, q, s) BY <2>2 DEF s
    <3> HIDE DEF b
    <3>8. Len(r) \in Nat /\ b \in Nat /\ b # 0 /\ ~(b >= 64) BY <3>3, <3>4
    <3>9. q + Len(s) <= Len(body) + 1 /\ \A k \in 1..Len(s) : body[q - 1 + k] = s[k] BY <3>7 DEF HoldsAt
    <3>10. q + 1 + b + Len(r) <= Len(body) + 1 BY <3>6, <3>8, <3>9, <1>0
    <3>11. q \in 1..(Len(body) + 64) /\ ~(q > Len(body)) BY <3>8, <3>10, <2>2, <1>0, SMTT(30)
    <3>12. body[q] = b
      <4>1. 1 \in 1..Len(s) /\ q - 1 + 1 = q BY <3>6, <3>8
      <4> QED BY <3>6, <3>9, <4>1
    <3>13. F[q] = F[q + 1 + b] BY <3>8, <3>11, <3>12, <1>2 DEF Walk
    <3> DEFINE w == q + 1 + b
    <3>14. w \in Nat /\ w >= 1 BY <3>8, <2>2
    <3>15. HoldsAt(body, w, r)
      <4>1. ASSUME NEW k \in 1..Len(r) PROVE body[w - 1 + k] = r[k]
        <5>1. 1 + b + k \in 1..Len(s) /\ w - 1 + k = q - 1 + (1 + b + k) BY <3>6, <3>8
        <5>2. body[q - 1 + (1 + b + k)] = s[1 + b + k] BY <3>9, <5>1
        <5> QED BY <3>6, <5>1, <5>2
      <4>2. w + Len(r) <= Len(body) + 1 BY <3>10
      <4> HIDE DEF w
      <4> QED BY <4>1, <4>2 DEF HoldsAt
    <3>16. P(i + 1)
      <4>1. ~(i + 1 <= i) BY <3>1
      <4> HIDE DEF P, n
      <4> QED BY <2>1, <3>1, <4>1
    <3>17. F[w] = w + Len(r)
      <4> HIDE DEF w
      <4> QED BY <3>14, <3>15, <3>16 DEF r
    <3>18. F[q] = q + Len(s) BY <3>6, <3>8, <3>13, <3>17
    <3> QED BY <3>18, <2>2 DEF s
  <2> QED BY <2>4, <2>5
<1>4. P(1) BY <1>0, <1>3
<1> QED BY <1>1, <1>4 DEF F

-----------------------------------------------------------------------------
LEMMA BuiltHolds ==
  ASSUME NEW m \in Built
  PROVE  m.header = 12 /\ m.id \in Nat /\ m.body \in Seq(Nat) /\ Question(m).ok
<1>1. PICK id \in {1, 2}, labels \in UNION {[1..n -> Labels] : n \in 0..MaxLabels},
           qtype \in {1, 28}, opt \in BOOLEAN : m = Query(id, labels, qtype, opt)
  BY DEF Built
<1>2. PICK n \in 0..MaxLabels : labels \in [1..n -> Labels] BY <1>1
<1>3. labels \in Seq(Labels)
  <2>1. n \in Nat BY <1>2, WireConstants
  <2> QED BY <1>2, <2>1
<1> DEFINE name == AppendName(labels)
           tail == <<0, qtype, 0, 1>>
           rest == IF opt THEN <<0, 0, 41, 16, 0, 0, 0, 0, 0, 0, 0>> ELSE <<>>
<1>4. name \in Seq(Nat)
  <2>1. 1 \in 1..(Len(labels) + 1) BY <1>3
  <2> QED BY <1>3, <2>1, NamePartsIs
<1>5. m.header = 12 /\ m.id = id /\ m.body = name \o tail \o rest BY <1>1 DEF Query
<1>6. tail \in Seq(Nat) /\ Len(tail) = 4 OBVIOUS
<1>7. rest \in Seq(Nat)
  <2>1. CASE opt
    <3>1. <<0, 0, 41, 16, 0, 0, 0, 0, 0, 0, 0>> \in Seq(Nat) OBVIOUS
    <3> QED BY <2>1, <3>1
  <2>2. CASE ~opt BY <2>2
  <2> QED BY <2>1, <2>2
<1> HIDE DEF name, tail, rest
<1> DEFINE u == name \o tail
<1>8. u \in Seq(Nat) /\ Len(u) = Len(name) + 4 /\ \A k \in 1..Len(name) : u[k] = name[k]
  <2>1. u = name \o tail OBVIOUS
  <2> HIDE DEF u
  <2>2. JoinedBy(name, tail, u) BY <1>4, <1>6, <2>1, Joined
  <2> QED BY <1>6, <2>2 DEF JoinedBy
<1>9. m.body = u \o rest BY <1>5
<1> HIDE DEF u
<1>10. m.body \in Seq(Nat) /\ Len(m.body) = Len(u) + Len(rest) /\ \A k \in 1..Len(u) : m.body[k] = u[k]
  <2>1. JoinedBy(u, rest, m.body) BY <1>7, <1>8, <1>9, Joined
  <2> QED BY <2>1 DEF JoinedBy
<1>11. Len(name) \in Nat /\ Len(rest) \in Nat BY <1>4, <1>7
<1>12. HoldsAt(m.body, 1, name)
  <2>1. 1 + Len(name) <= Len(m.body) + 1 BY <1>8, <1>10, <1>11
  <2>2. ASSUME NEW k \in 1..Len(name) PROVE m.body[1 - 1 + k] = name[k]
    <3>1. 1 - 1 + k = k /\ k \in 1..Len(u) BY <1>8, <1>11
    <3> QED BY <3>1, <1>8, <1>10
  <2> QED BY <2>1, <2>2 DEF HoldsAt
<1>13. WalkEnds(m.body)[1] = 1 + Len(name) BY <1>3, <1>10, <1>12, NameWalked DEF name
<1>14. QuestionEnd(m) # Bad
  <2>1. m.header >= 12 /\ m.header \in Nat BY <1>5
  <2>2. ~(1 + Len(name) = Bad) /\ ~(1 + Len(name) + 3 > Len(m.body)) /\ ~(1 + Len(name) + 3 = Bad)
    BY <1>8, <1>10, <1>11 DEF Bad
  <2> QED BY <1>13, <2>1, <2>2, QuestionEndIs
<1>15. Question(m).ok
  <2>1. m.header \in Nat BY <1>5
  <2> QED BY <2>1, <1>10, <1>14, QuestionIs
<1> QED BY <1>1, <1>5, <1>10, <1>15

LEMMA MessagesHold ==
  ASSUME NEW m \in Messages
  PROVE  m.header \in Nat /\ m.id \in Nat /\ m.body \in Seq(Nat)
<1>1. m.header \in {11, 12} /\ m.id = 1 /\ m.body \in Bodies BY DEF Messages
<1>2. PICK n \in 0..MaxBody : m.body \in [1..n -> Octets] BY <1>1 DEF Bodies
<1>3. n \in Nat /\ Octets \subseteq Nat BY <1>2, WireConstants
<1> DEFINE b == m.body
<1>4. b \in [1..n -> Octets] BY <1>2
<1> HIDE DEF b
<1>5. b \in [1..n -> Nat] BY <1>3, <1>4
<1>6. b \in Seq(Nat) BY <1>3, <1>5
<1> QED BY <1>1, <1>6 DEF b

(* A question that was read is still the one there, an answer is the one    *)
(* AnswerTo makes of it, and only what held no question is dropped.         *)
WireInv ==
  /\ wquery.header \in Nat /\ wquery.body \in Seq(Nat)
  /\ wquery \in Built => Question(wquery).ok
  /\ mock \in {"delaying", "answered"} => Question(wquery).ok
  /\ mock = "answered" => \E records \in {0, 1} : reply = AnswerTo(wquery, records)
  /\ mock = "dropped" => ~Question(wquery).ok

LEMMA WireInitInv == WireInit => WireInv
<1> SUFFICES ASSUME WireInit PROVE WireInv OBVIOUS
<1>1. wquery \in Messages \/ wquery \in Built BY DEF WireInit
<1>2. wquery.header \in Nat /\ wquery.body \in Seq(Nat)
  BY <1>1, MessagesHold, BuiltHolds
<1>3. wquery \in Built => Question(wquery).ok BY BuiltHolds
<1>4. mock = "reading" BY DEF WireInit
<1> QED BY <1>2, <1>3, <1>4 DEF WireInv

(* An answer to a question that was read is not NoReply.                    *)
LEMMA Answers ==
  ASSUME WireInv, Question(wquery).ok, NEW records
  PROVE  /\ AnswerTo(wquery, records) # NoReply
         /\ AnswerTo(wquery, records) =
              [header |-> 12, id |-> wquery.id, qr |-> TRUE, ancount |-> records,
               body |-> SubSeq(wquery.body, 1, QuestionEnd(wquery))
                          \o (IF records = 1 THEN RecordA ELSE <<>>)]
<1>1. QuestionEnd(wquery) # Bad BY QuestionIs DEF WireInv
<1>2. AnswerTo(wquery, records) =
        [header |-> 12, id |-> wquery.id, qr |-> TRUE, ancount |-> records,
         body |-> SubSeq(wquery.body, 1, QuestionEnd(wquery))
                    \o (IF records = 1 THEN RecordA ELSE <<>>)]
  BY <1>1 DEF AnswerTo
<1>3. AnswerTo(wquery, records).header = 12 BY <1>2
<1>4. NoReply.header = 0 BY DEF NoReply
<1> QED BY <1>2, <1>3, <1>4

LEMMA WireNextInv ==
  ASSUME WireInv, [WireNext]_wireVars
  PROVE  WireInv'
<1>1. CASE Receive
  <2>1. wquery' = wquery /\ reply' = reply /\ mock' = IF Question(wquery).ok THEN "delaying" ELSE "dropped"
    BY <1>1 DEF Receive
  <2>2. Question(wquery)' = Question(wquery) BY <2>1 DEF Question, NameEnd
  <2>3. (wquery \in Built)' = (wquery \in Built) BY <2>1 DEF Built
  <2> QED BY <2>1, <2>2, <2>3 DEF WireInv
<1>2. CASE SendReply
  <2> DEFINE r == IF Question(wquery).qtype = 1 THEN 1 ELSE 0
  <2>1. wquery' = wquery /\ reply' = AnswerTo(wquery, r) /\ mock = "delaying" /\ r \in {0, 1}
    BY <1>2 DEF SendReply
  <2> HIDE DEF r
  <2>2. reply' # NoReply BY <2>1, Answers DEF WireInv
  <2>3. mock' = "answered" BY <1>2, <2>2 DEF SendReply
  <2>4. AnswerTo(wquery, r)' = AnswerTo(wquery', r') OBVIOUS
  <2>5. wquery.header \in Nat /\ wquery.body \in Seq(Nat) /\ Question(wquery).ok BY <2>1 DEF WireInv
  <2> QED BY <2>1, <2>3, <2>5 DEF WireInv
<1>3. CASE UNCHANGED wireVars BY <1>3 DEF WireInv, wireVars
<1> QED BY <1>1, <1>2, <1>3 DEF WireNext

LEMMA WalksAgreeHolds == WireInv => WalksAgree
<1> SUFFICES ASSUME WireInv PROVE WalksAgree OBVIOUS
<1>1. wquery.header \in Nat /\ wquery.body \in Seq(Nat) BY DEF WireInv
<1>2. Question(wquery).ok <=> QuestionEnd(wquery) # Bad BY <1>1, QuestionIs
<1>3. mock = "dropped" => wquery \notin Built BY DEF WireInv
<1>4. ASSUME mock = "answered"
      PROVE  /\ ParseReply(reply).ok /\ ParseReply(reply).id = wquery.id
             /\ QuestionEnd(reply) = QuestionEnd(wquery)
             /\ Question(reply) = Question(wquery)
             /\ Len(reply.body) = QuestionEnd(wquery) + 16 * reply.ancount
  <2>1. PICK records \in {0, 1} : reply = AnswerTo(wquery, records) BY <1>4 DEF WireInv
  <2>2. Question(wquery).ok BY <1>4 DEF WireInv
  <2> DEFINE e == QuestionEnd(wquery)
             s == wquery.body
             q == SubSeq(s, 1, e)
             x == IF records = 1 THEN RecordA ELSE <<>>
             t == reply.body
             a == WalkEnds(s)[1]
  <2>3. reply = [header |-> 12, id |-> wquery.id, qr |-> TRUE, ancount |-> records, body |-> q \o x]
    BY <2>1, <2>2, Answers
  <2>4. /\ a \in Nat /\ a # Bad /\ a >= 2 /\ a + 3 <= Len(s) /\ e = a + 3
        /\ Question(wquery) = [ok |-> TRUE, qtype |-> 256 * s[a] + s[a + 1]]
    BY <1>1, <2>2, QuestionIs
  <2>5. reply.header = 12 /\ reply.id = wquery.id /\ reply.qr = TRUE /\ reply.ancount = records /\ t = q \o x
    BY <2>3
  <2>6. s \in Seq(Nat) BY <1>1
  <2>7. x \in Seq(Nat) /\ Len(x) = 16 * records BY <2>1 DEF RecordA
  <2> HIDE DEF e, s, x, t, a
  <2>8. e \in Nat /\ e >= 1 /\ e <= Len(s) /\ Len(s) \in Nat BY <2>4, <2>6
  <2>9. q \in Seq(Nat) /\ Len(q) = e /\ \A k \in 1..e : q[k] = s[k] BY <2>6, <2>8
  <2> HIDE DEF q
  <2>10. t \in Seq(Nat) /\ Len(t) = e + 16 * records /\ \A k \in 1..e : t[k] = s[k]
    BY <2>5, <2>7, <2>9
  <2>11. WalkEnds(t)[1] = a
    <3>1. 1 \in 1..(Len(s) + 64) /\ e <= Len(t) /\ a <= e + 1 BY <2>1, <2>4, <2>8, <2>10
    <3>2. WalkEnds(s)[1] = a BY DEF a
    <3>3. \A k \in 1..e : s[k] = t[k] BY <2>10
    <3> QED BY <2>4, <2>6, <2>8, <2>10, <3>1, <3>2, <3>3, SameWalk, ZenonT(40)
  <2>12. ~(a = Bad) /\ ~(a + 3 > Len(t)) BY <2>1, <2>4, <2>10
  <2>13. QuestionEnd(reply) = e
    <3>1. reply.header >= 12 /\ reply.header \in Nat BY <2>5
    <3> QED BY <2>4, <2>11, <2>12, <3>1, QuestionEndIs DEF t
  <2>14. Question(reply) = Question(wquery)
    <3>1. NameEnd(t) = a BY <2>10, <2>11, NameEndIs
    <3>2. ~(reply.header < 12) BY <2>5
    <3>3. Question(reply) = [ok |-> TRUE, qtype |-> 256 * t[a] + t[a + 1]]
      BY <2>12, <3>1, <3>2 DEF Question, t
    <3>4. a \in 1..e /\ a + 1 \in 1..e BY <2>4
    <3> QED BY <2>4, <2>10, <3>3, <3>4, ZenonT(40)
  <2>15. ParseReply(reply).ok /\ ParseReply(reply).id = wquery.id BY <2>5 DEF ParseReply
  <2>16. Len(reply.body) = e + 16 * reply.ancount BY <2>5, <2>10 DEF t
  <2> QED BY <2>13, <2>14, <2>15, <2>16 DEF e
<1> QED BY <1>2, <1>3, <1>4 DEF WalksAgree

(* dnswire's Question and questionEnd agree on which messages hold a        *)
(* question, whatever the octets and however long the message; the mock     *)
(* answers every query that the generator builds, and an answer holds the   *)
(* question that was asked and nothing else of the query.                   *)
THEOREM WalksAgreeAlways == WireSpec => []WalksAgree
<1>1. WireInit => WireInv BY WireInitInv
<1>2. WireInv /\ [WireNext]_wireVars => WireInv' BY WireNextInv
<1>3. WireInv => WalksAgree BY WalksAgreeHolds
<1> QED BY <1>1, <1>2, <1>3, PTL DEF WireSpec
=============================================================================
