-------------------------- MODULE MaintenanceProofs --------------------------
(***************************************************************************)
(* Proofs about Maintenance, for any configurations and any number of      *)
(* reloads: a change a reload took in is never dropped, the rules in       *)
(* effect are those the live configuration asks for once they are up to    *)
(* date, and no failed download takes a list's rules away.                 *)
(***************************************************************************)
EXTENDS Maintenance, TLAPS

States == {"none", "running", "loaded", "done"}
Loads == {<<>>} \union UNION {LoadsOf(c) : c \in Configs}
Rebuild == [st : States, cfg : Configs, asked : Nat, loads : Loads, current : BOOLEAN]
OffKey == [urls |-> {}, file |-> FALSE]

(* What the types have to say: asked counts the SIGHUPs acted on.          *)
MainTyped ==
    /\ pc \in {"boot", "boot_wait", "stop?", "rebuilt?", "reload?", "tick?",
               "stopping", "drained", "ended", "exited"}
    /\ live \in Configs /\ retry \in 0..RetryCap /\ asked \in Nat
    /\ rebuild_again \in BOOLEAN /\ after_reload \in BOOLEAN

EnvTyped ==
    /\ file \in Configs \union {Unusable} /\ signals \in 0..MaxSignals
    /\ reload_requested \in BOOLEAN /\ stop_requested \in BOOLEAN
    /\ asked <= signals /\ (reload_requested => asked < signals)

ThreadTyped ==
    /\ rebuild \in Rebuild /\ kept \in BOOLEAN
    /\ rules.asked \in Nat /\ rules.asked <= asked
    /\ lists_loaded \subseteq Urls
    /\ rebuild.asked <= asked
    /\ rebuild.st = "loaded" => rebuild.loads \in LoadsOf(rebuild.cfg)

(* Before the loop nothing was loaded that a rebuild could keep, and the   *)
(* first one is for the configuration the process started with.            *)
Booting ==
    /\ pc \in {"boot", "boot_wait"} => asked = 0
    /\ pc = "boot" => rebuild.st = "none" /\ lists_loaded = {} /\ rules = [key |-> OffKey, asked |-> 0]
    /\ pc = "boot_wait" =>
         /\ rebuild.st # "none" /\ rebuild.cfg = live /\ rebuild.asked = 0
         /\ rebuild.st = "done" => rules = [key |-> Key(live), asked |-> 0]
         /\ rebuild.st # "done" => lists_loaded = {}

(* The rebuild there is is for the last reload, or another follows it.     *)
Following ==
    rebuild.st # "none" =>
        /\ rebuild.asked = asked => Key(rebuild.cfg) = Key(live)
        /\ rebuild.asked = asked \/ rebuild_again

(* One that is over and was for the last reload kept the old rules, or the *)
(* new ones are in effect.                                                 *)
Ended ==
    rebuild.st = "done" /\ rebuild.asked = asked /\ ~Applied => kept

Freed == pc = "ended" => rebuild.st = "none"

Typed == MainTyped /\ EnvTyped /\ ThreadTyped
MInv == Typed /\ Booting /\ Following /\ Ended /\ Freed /\ RulesMatch /\ ChangeNotDropped

-----------------------------------------------------------------------------

LEMMA KeyOff == ASSUME NEW c \in Configs, ~c.on PROVE Key(c) = OffKey
  BY DEF Key, OffKey

(* rules_changed never takes for unchanged what the rules depend on.       *)
LEMMA UnchangedKey ==
  ASSUME NEW a \in Configs, NEW b \in Configs, ~rules_changed(a, b)
  PROVE  Key(a) = Key(b)
<1>1. CASE ~a.on /\ ~b.on
  BY <1>1 DEF Key
<1>2. CASE a.on = b.on /\ a.urls = b.urls /\ a.file = b.file
  BY <1>2 DEF Key
<1> QED
  BY <1>1, <1>2, MaintenanceAssumption DEF rules_changed, Config

LEMMA StartedTyped ==
  ASSUME NEW c \in Configs, NEW n \in Nat
  PROVE  /\ Started(n, c) \in Rebuild /\ Started(n, c).st = "running"
         /\ Started(n, c).cfg = c /\ Started(n, c).asked = n
  BY DEF Started, Rebuild, States, Loads

LEMMA IdleTyped ==
  ASSUME live \in Configs
  PROVE  Idle \in Rebuild /\ Idle.st = "none" /\ Idle.asked = 0
  BY DEF Idle, Rebuild, States, Loads

LEMMA RetryTyped ==
  ASSUME NEW r \in 0..RetryCap PROVE refresh_retry(r) \in 0..RetryCap
  BY MaintenanceAssumption DEF refresh_retry

LEMMA CollectedTyped ==
  ASSUME retry \in 0..RetryCap, NEW current, NEW c
  PROVE  collected_retry(current, c) \in 0..RetryCap
<1>1. 0 \in 0..RetryCap
  BY MaintenanceAssumption
<1> QED  BY <1>1, RetryTyped DEF collected_retry

LEMMA FirstTyped == ASSUME NEW current PROVE FirstRetry(current) \in 0..RetryCap
<1>1. 0 \in 0..RetryCap
  BY MaintenanceAssumption
<1> QED  BY <1>1, RetryTyped DEF FirstRetry

LEMMA MInitially == Init => MInv
<1> SUFFICES ASSUME Init PROVE MInv
  OBVIOUS
<1>1. /\ live \in Configs /\ file = live /\ signals = 0
      /\ reload_requested = FALSE /\ stop_requested = FALSE
      /\ rebuild_again = FALSE /\ after_reload = FALSE /\ retry = 0 /\ lists_loaded = {}
      /\ asked = 0 /\ kept = FALSE /\ pc = "boot"
      /\ rules = [key |-> OffKey, asked |-> 0]
      /\ rebuild = [st |-> "none", cfg |-> live, asked |-> 0, loads |-> <<>>, current |-> FALSE]
  BY DEF Init, OffKey
<1>2. rebuild \in Rebuild /\ rebuild.st = "none" /\ rebuild.asked = 0 /\ rules.asked = 0
  BY <1>1 DEF Rebuild, States, Loads
<1>3. 0 \in 0..RetryCap /\ 0 \in 0..MaxSignals
  BY MaintenanceAssumption
<1>3a. /\ reload_requested \in BOOLEAN /\ stop_requested \in BOOLEAN /\ kept \in BOOLEAN
       /\ rebuild_again \in BOOLEAN /\ after_reload \in BOOLEAN /\ ~reload_requested
  BY <1>1, Zenon
<1>3b. live \in Configs /\ file = live /\ signals = 0 /\ retry = 0 /\ lists_loaded = {} /\ asked = 0 /\ pc = "boot"
       /\ rules = [key |-> OffKey, asked |-> 0]
  BY <1>1, Zenon
<1>4. MainTyped /\ EnvTyped
  BY <1>3a, <1>3b, <1>3 DEF MainTyped, EnvTyped
<1>5. ThreadTyped /\ Booting /\ Following /\ Ended /\ Freed
  BY <1>2, <1>3a, <1>3b DEF ThreadTyped, Booting, Following, Ended, Freed
<1>6. RulesMatch /\ ChangeNotDropped
  BY <1>2, <1>3b DEF RulesMatch, ChangeNotDropped, Applied
<1> QED  BY <1>4, <1>5, <1>6 DEF MInv, Typed

-----------------------------------------------------------------------------
(* The operator, and the steps that only move the main thread on.          *)

LEMMA OperatorStep ==
  ASSUME MInv, UNCHANGED <<main, thread>>, EnvTyped'
  PROVE  MInv'
<1>1. UNCHANGED <<pc, live, rebuild_again, after_reload, retry, asked,
                  rebuild, rules, lists_loaded, kept>>
  BY DEF main, thread
<1> QED
  BY <1>1 DEF MInv, Typed, MainTyped, ThreadTyped, Booting, Following, Ended, Freed,
              RulesMatch, ChangeNotDropped, Applied, rebuild_busy

LEMMA HangupStep == ASSUME MInv, Hangup PROVE MInv'
<1>1. /\ signals < MaxSignals /\ signals' = signals + 1 /\ file' \in Configs \union {Unusable}
      /\ reload_requested' = TRUE /\ UNCHANGED stop_requested /\ UNCHANGED <<main, thread>>
  BY DEF Hangup
<1>2. asked' = asked
  BY <1>1 DEF main
<1>3. EnvTyped'
  BY <1>1, <1>2, MaintenanceAssumption DEF MInv, Typed, MainTyped, EnvTyped
<1> QED  BY <1>1, <1>3, OperatorStep

LEMMA TerminateStep == ASSUME MInv, Terminate PROVE MInv'
<1>1. /\ UNCHANGED <<main, thread>> /\ UNCHANGED <<file, signals, reload_requested>>
      /\ stop_requested' = TRUE
  BY DEF Terminate
<1>2. asked' = asked /\ stop_requested' \in BOOLEAN
  BY <1>1 DEF main
<1>3. EnvTyped'
  BY <1>1, <1>2 DEF MInv, Typed, EnvTyped
<1> QED  BY <1>1, <1>3, OperatorStep

LEMMA PcStep ==
  ASSUME MInv, UNCHANGED <<live, rebuild_again, after_reload, retry, asked, env, thread>>,
         \/ pc' = "exited"
         \/ /\ pc \notin {"boot", "boot_wait", "ended", "exited"}
            /\ pc' \in {"stop?", "rebuilt?", "reload?", "tick?", "stopping", "drained"}
  PROVE  MInv'
<1>1. UNCHANGED <<live, rebuild_again, after_reload, retry, asked, file, signals,
                  reload_requested, stop_requested, rebuild, rules, lists_loaded, kept>>
  BY DEF env, thread
<1>2. MainTyped' /\ EnvTyped' /\ ThreadTyped' /\ Following' /\ Ended' /\ Freed' /\ Booting'
  BY <1>1 DEF MInv, Typed, MainTyped, EnvTyped, ThreadTyped, Following, Ended, Freed, Booting, Applied
<1>3. RulesMatch' /\ ChangeNotDropped'
  BY <1>1 DEF MInv, RulesMatch, ChangeNotDropped, Applied, rebuild_busy
<1> QED  BY <1>2, <1>3 DEF MInv, Typed

-----------------------------------------------------------------------------
(* The rebuild thread.                                                     *)

LEMMA LoadStep ==
  ASSUME MInv, NEW loads \in LoadsOf(rebuild.cfg), Load(loads) PROVE MInv'
<1>1. /\ pc \notin {"ended", "exited"} /\ rebuild.st = "running"
      /\ rebuild' = [rebuild EXCEPT !.st = "loaded", !.loads = loads]
      /\ UNCHANGED <<pc, live, rebuild_again, after_reload, retry, asked, file, signals,
                     reload_requested, stop_requested, rules, lists_loaded, kept>>
  BY DEF Load, main, env
<1>2. rebuild \in Rebuild
  BY DEF MInv, Typed, ThreadTyped
<1>3. loads \in Loads
  BY <1>2 DEF Loads, Rebuild
<1>4. /\ rebuild' \in Rebuild /\ rebuild'.st = "loaded" /\ rebuild'.loads = loads
      /\ rebuild'.cfg = rebuild.cfg /\ rebuild'.asked = rebuild.asked
  BY <1>1, <1>2, <1>3 DEF Rebuild, States
<1>5. ThreadTyped' /\ MainTyped' /\ EnvTyped'
  BY <1>1, <1>4 DEF MInv, Typed, ThreadTyped, MainTyped, EnvTyped
<1>6. Following' /\ Ended' /\ Freed' /\ Booting'
  BY <1>1, <1>4 DEF MInv, Following, Ended, Freed, Booting
<1>7. RulesMatch' /\ ChangeNotDropped'
  BY <1>1, <1>4 DEF MInv, RulesMatch, ChangeNotDropped, Applied, rebuild_busy
<1> QED  BY <1>5, <1>6, <1>7 DEF MInv, Typed

LEMMA RebuildEndStep == ASSUME MInv, RebuildEnd PROVE MInv'
<1> DEFINE c == rebuild.cfg
           keep == c.on /\ Lost(c, rebuild.loads, lists_loaded)
           all == \A u \in DOMAIN rebuild.loads : rebuild.loads[u] = "Current"
<1>1. /\ pc \notin {"ended", "exited"} /\ rebuild.st = "loaded"
      /\ kept' = keep
      /\ rules' = IF keep THEN rules ELSE [key |-> Key(c), asked |-> rebuild.asked]
      /\ lists_loaded' =
            IF keep THEN lists_loaded
            ELSE {u \in DOMAIN rebuild.loads : rebuild.loads[u] \in {"Current", "Stale"}}
      /\ rebuild' = [rebuild EXCEPT !.st = "done", !.loads = <<>>, !.current = all]
  BY DEF RebuildEnd
<1>2. UNCHANGED <<pc, live, rebuild_again, after_reload, retry, asked, file, signals,
                  reload_requested, stop_requested>>
  BY DEF RebuildEnd, main, env
<1>3. rebuild \in Rebuild /\ c \in Configs /\ rebuild.loads \in LoadsOf(c) /\ rebuild.asked \in Nat
  BY <1>1 DEF MInv, Typed, ThreadTyped, Rebuild
<1>4. all \in BOOLEAN
  OBVIOUS
<1>5. (keep => c.on) /\ keep \in BOOLEAN
  <2>1. c.on \in BOOLEAN
    BY <1>3, MaintenanceAssumption DEF Config
  <2> QED  BY <2>1
<1>6. DOMAIN rebuild.loads \subseteq Urls
  BY <1>3, MaintenanceAssumption DEF LoadsOf, Config
<1>7. (pc = "boot_wait" => ~keep) /\ pc # "boot"
  <2>1. pc = "boot_wait" => lists_loaded = {}
    BY <1>1 DEF MInv, Booting
  <2>2. pc # "boot"
    BY <1>1 DEF MInv, Booting
  <2> QED  BY <2>1, <2>2 DEF Lost
<1> HIDE DEF all, keep
<1>8. /\ rebuild' \in Rebuild /\ rebuild'.st = "done"
      /\ rebuild'.cfg = rebuild.cfg /\ rebuild'.asked = rebuild.asked
  BY <1>1, <1>3, <1>4 DEF Rebuild, States, Loads
<1>9. kept' \in BOOLEAN /\ (kept' => keep) /\ (keep => kept')
  BY <1>1, <1>5
<1>10. /\ keep => rules' = rules
       /\ ~keep => rules' = [key |-> Key(c), asked |-> rebuild.asked]
       /\ lists_loaded' \subseteq Urls
  BY <1>1, <1>6 DEF MInv, Typed, ThreadTyped
<1>11. MainTyped' /\ EnvTyped'
  BY <1>2 DEF MInv, Typed, MainTyped, EnvTyped
<1>12. ThreadTyped'
  BY <1>2, <1>3, <1>8, <1>9, <1>10 DEF MInv, Typed, ThreadTyped
<1>13. Booting'
  <2>1. pc = "boot_wait" => rules' = [key |-> Key(live), asked |-> 0]
    BY <1>7, <1>10 DEF MInv, Booting
  <2> QED  BY <1>2, <1>7, <1>8, <2>1 DEF MInv, Booting
<1>14. Following' /\ Freed'
  BY <1>1, <1>2, <1>8 DEF MInv, Following, Freed
<1>15. Ended'
  BY <1>2, <1>8, <1>9, <1>10 DEF Ended, Applied
<1>16. RulesMatch'
  <2>1. CASE keep
    BY <1>2, <1>10, <2>1 DEF MInv, RulesMatch, Applied
  <2>2. CASE ~keep
    BY <1>1, <1>2, <1>10, <2>2 DEF MInv, RulesMatch, Applied, Following
  <2> QED  BY <2>1, <2>2
<1>17. ChangeNotDropped'
  BY <1>1, <1>2, <1>8 DEF MInv, Following, ChangeNotDropped, rebuild_busy
<1> QED  BY <1>11, <1>12, <1>13, <1>14, <1>15, <1>16, <1>17 DEF MInv, Typed

-----------------------------------------------------------------------------
(* The main thread before the loop.                                        *)

LEMMA BootStartStep == ASSUME MInv, BootStart PROVE MInv'
<1>1. /\ pc = "boot" /\ pc' = "boot_wait" /\ rebuild' = Started(0, live)
      /\ UNCHANGED <<live, rebuild_again, after_reload, retry, asked, file, signals,
                     reload_requested, stop_requested, rules, lists_loaded, kept>>
  BY DEF BootStart, env
<1>2. live \in Configs /\ asked = 0 /\ rules = [key |-> OffKey, asked |-> 0] /\ lists_loaded = {}
  BY <1>1 DEF MInv, Typed, MainTyped, Booting
<1>3. /\ rebuild' \in Rebuild /\ rebuild'.st = "running"
      /\ rebuild'.cfg = live /\ rebuild'.asked = 0
  BY <1>1, <1>2, StartedTyped
<1>4. MainTyped' /\ EnvTyped' /\ ThreadTyped'
  BY <1>1, <1>2, <1>3 DEF MInv, Typed, MainTyped, EnvTyped, ThreadTyped
<1>5. Booting' /\ Following' /\ Ended' /\ Freed' /\ RulesMatch' /\ ChangeNotDropped'
  BY <1>1, <1>2, <1>3
  DEF Booting, Following, Ended, Freed, RulesMatch, ChangeNotDropped, Applied
<1> QED  BY <1>4, <1>5 DEF MInv, Typed

LEMMA BootInlineStep == ASSUME MInv, BootInline PROVE MInv'
<1>1. /\ pc = "boot" /\ pc' = "stop?"
      /\ UNCHANGED <<live, rebuild_again, after_reload, asked, file, signals,
                     reload_requested, stop_requested, rebuild, kept>>
  BY DEF BootInline, env
<1>2. PICK loads \in LoadsOf(live) :
          /\ rules' = [key |-> Key(live), asked |-> 0]
          /\ lists_loaded' = {u \in DOMAIN loads : loads[u] \in {"Current", "Stale"}}
          /\ retry' = FirstRetry(\A u \in DOMAIN loads : loads[u] = "Current")
  BY DEF BootInline
<1>3. live \in Configs /\ asked = 0 /\ rebuild.st = "none"
  BY <1>1 DEF MInv, Typed, MainTyped, Booting
<1>4. lists_loaded' \subseteq Urls
  BY <1>2, <1>3, MaintenanceAssumption DEF LoadsOf, Config
<1>5. retry' \in 0..RetryCap
  BY <1>2, FirstTyped
<1>6. rules'.asked = 0 /\ rules'.key = Key(live)
  BY <1>2
<1>7. MainTyped' /\ EnvTyped' /\ ThreadTyped'
  BY <1>1, <1>3, <1>4, <1>5, <1>6 DEF MInv, Typed, MainTyped, EnvTyped, ThreadTyped
<1>8. Booting' /\ Following' /\ Ended' /\ Freed' /\ RulesMatch' /\ ChangeNotDropped'
  BY <1>1, <1>3, <1>6
  DEF Booting, Following, Ended, Freed, RulesMatch, ChangeNotDropped, Applied
<1> QED  BY <1>7, <1>8 DEF MInv, Typed

LEMMA BootOffStep == ASSUME MInv, BootOff PROVE MInv'
<1>1. /\ pc = "boot" /\ pc' = "stop?" /\ ~live.on
      /\ UNCHANGED <<live, rebuild_again, after_reload, retry, asked, file, signals,
                     reload_requested, stop_requested, rebuild, rules, lists_loaded, kept>>
  BY DEF BootOff, env, thread
<1>2. /\ live \in Configs /\ asked = 0 /\ rebuild.st = "none"
      /\ rules.asked = 0 /\ rules.key = OffKey
  BY <1>1 DEF MInv, Typed, MainTyped, Booting
<1>3. rules.key = Key(live)
  BY <1>1, <1>2, KeyOff
<1>4. MainTyped' /\ EnvTyped' /\ ThreadTyped'
  BY <1>1, <1>2 DEF MInv, Typed, MainTyped, EnvTyped, ThreadTyped
<1>5. Booting' /\ Following' /\ Ended' /\ Freed' /\ RulesMatch' /\ ChangeNotDropped'
  BY <1>1, <1>2, <1>3
  DEF Booting, Following, Ended, Freed, RulesMatch, ChangeNotDropped, Applied
<1> QED  BY <1>4, <1>5 DEF MInv, Typed

LEMMA BootWaitStep == ASSUME MInv, BootWait PROVE MInv'
<1>1. /\ pc = "boot_wait"
      /\ UNCHANGED <<live, rebuild_again, after_reload, asked, file, signals,
                     reload_requested, stop_requested, rules, lists_loaded, kept>>
  BY DEF BootWait, env
<1>2. CASE pc' = "exited" /\ UNCHANGED <<retry, rebuild>>
  BY <1>1, <1>2, PcStep DEF env, thread
<1>3. CASE rebuild_done /\ retry' = FirstRetry(rebuild.current) /\ rebuild' = Idle /\ pc' = "stop?"
  <2>1. /\ live \in Configs /\ asked = 0 /\ rules.asked = 0 /\ rules.key = Key(live)
    BY <1>1, <1>3 DEF MInv, Typed, MainTyped, Booting, rebuild_done
  <2>2. rebuild' \in Rebuild /\ rebuild'.st = "none" /\ rebuild'.asked = 0 /\ retry' \in 0..RetryCap
    BY <1>3, <2>1, IdleTyped, FirstTyped
  <2>3. MainTyped' /\ EnvTyped' /\ ThreadTyped'
    BY <1>1, <1>3, <2>1, <2>2 DEF MInv, Typed, MainTyped, EnvTyped, ThreadTyped
  <2>4. Booting' /\ Following' /\ Ended' /\ Freed' /\ RulesMatch' /\ ChangeNotDropped'
    BY <1>1, <1>3, <2>1, <2>2
    DEF Booting, Following, Ended, Freed, RulesMatch, ChangeNotDropped, Applied
  <2> QED  BY <2>3, <2>4 DEF MInv, Typed
<1> QED  BY <1>2, <1>3 DEF BootWait

-----------------------------------------------------------------------------
(* The loop.                                                               *)

(* A round of the loop that collects, asks for or starts a rebuild: after  *)
(* it none runs and one is wanted or none is needed, or one runs for the   *)
(* last reload, or the one there was goes on.                              *)
LEMMA LoopStep ==
  ASSUME MInv, pc \notin {"boot", "boot_wait", "ended", "exited"}, pc' = "stop?",
         UNCHANGED <<rules, lists_loaded, kept>>, MainTyped', EnvTyped',
         rebuild' \in Rebuild, rebuild'.asked <= asked', asked <= asked',
         asked' = asked => Key(live') = Key(live),
         \/ /\ rebuild'.st = "none"
            /\ rebuild_again' \/ (asked' = asked /\ (Applied \/ kept))
         \/ /\ rebuild'.st = "running" /\ rebuild'.asked = asked'
            /\ Key(rebuild'.cfg) = Key(live')
         \/ /\ rebuild' = rebuild /\ rebuild.st # "none"
            /\ rebuild_again' \/ (asked' = asked /\ ~rebuild_again)
  PROVE  MInv'
<1>1. asked \in Nat /\ asked' \in Nat /\ rules.asked \in Nat /\ rules.asked <= asked
  BY DEF MInv, Typed, MainTyped, ThreadTyped
<1>2. ThreadTyped'
  BY <1>1 DEF MInv, Typed, ThreadTyped
<1>3. Booting' /\ Freed'
  BY DEF Booting, Freed
<1>4. Following'
  <2>1. CASE rebuild'.st = "none"
    BY <2>1 DEF Following
  <2>2. CASE rebuild'.asked = asked' /\ Key(rebuild'.cfg) = Key(live')
    BY <2>2 DEF Following
  <2>3. CASE /\ rebuild' = rebuild /\ rebuild.st # "none"
             /\ rebuild_again' \/ (asked' = asked /\ ~rebuild_again)
    <3>1. rebuild.asked <= asked /\ rebuild.asked \in Nat
      BY DEF MInv, Typed, ThreadTyped, Rebuild
    <3>2. rebuild.asked = asked' => asked' = asked
      BY <1>1, <3>1
    <3> QED  BY <2>3, <3>1, <3>2 DEF MInv, Following
  <2> QED  BY <2>1, <2>2, <2>3
<1>5. Ended'
  <2>1. CASE rebuild'.st \in {"none", "running"}
    BY <2>1 DEF Ended
  <2>2. CASE rebuild' = rebuild
    <3>1. rebuild.asked <= asked /\ rebuild.asked \in Nat
      BY DEF MInv, Typed, ThreadTyped, Rebuild
    <3>2. rebuild.asked = asked' => asked' = asked
      BY <1>1, <3>1
    <3> QED  BY <2>2, <3>2 DEF MInv, Ended, Applied
  <2> QED  BY <2>1, <2>2
<1>6. RulesMatch'
  <2>1. rules.asked = asked' => asked' = asked
    BY <1>1
  <2> QED  BY <2>1 DEF MInv, RulesMatch, Applied
<1>7. ChangeNotDropped'
  <2>1. CASE /\ rebuild'.st = "none"
             /\ rebuild_again' \/ (asked' = asked /\ (Applied \/ kept))
    BY <2>1 DEF ChangeNotDropped, Applied
  <2>2. CASE rebuild'.st = "running" /\ rebuild'.asked = asked' /\ Key(rebuild'.cfg) = Key(live')
    BY <2>2 DEF ChangeNotDropped, rebuild_busy
  <2>3. CASE rebuild_again'
    BY <2>3 DEF ChangeNotDropped
  <2>4. CASE rebuild' = rebuild /\ rebuild.st # "none" /\ asked' = asked /\ ~rebuild_again
    BY <2>4 DEF MInv, Following, ChangeNotDropped, rebuild_busy
  <2> QED  BY <2>1, <2>2, <2>3, <2>4
<1> QED  BY <1>2, <1>3, <1>4, <1>5, <1>6, <1>7 DEF MInv, Typed

LEMMA StartStep ==
  ASSUME NEW th, NEW r \in Rebuild, r.st = "none", NEW c \in Configs, NEW n \in Nat,
         r.asked <= n, NEW after \in BOOLEAN, start_rebuild(th, r, c, n, after)
  PROVE  /\ rebuild' \in Rebuild /\ rebuild'.asked <= n
         /\ after_reload' \in BOOLEAN /\ rebuild_again' \in BOOLEAN
         /\ \/ rebuild'.st = "running" /\ rebuild'.asked = n /\ rebuild'.cfg = c
            \/ rebuild'.st = "none" /\ (after \/ rebuild_again => rebuild_again')
<1>1. CASE th
  <2>1. rebuild' = Started(n, c) /\ after_reload' = after /\ rebuild_again' = FALSE
    BY <1>1 DEF start_rebuild
  <2>2. rebuild' \in Rebuild /\ rebuild'.st = "running" /\ rebuild'.asked = n /\ rebuild'.cfg = c
    BY <2>1, StartedTyped
  <2>3. after_reload' \in BOOLEAN /\ rebuild_again' \in BOOLEAN
    BY <2>1, Zenon
  <2> QED  BY <2>2, <2>3
<1>2. CASE ~th
  <2>1. /\ rebuild' = r
        /\ after_reload' = (after_reload /\ ~(rebuild_done /\ ~rebuild_again))
        /\ rebuild_again' = (rebuild_again \/ after)
    BY <1>2 DEF start_rebuild
  <2>2. after_reload' \in BOOLEAN /\ rebuild_again' \in BOOLEAN
    BY <2>1, Zenon
  <2>3. after \/ rebuild_again => rebuild_again'
    BY <2>1, Zenon
  <2> QED  BY <2>1, <2>2, <2>3
<1> QED  BY <1>1, <1>2

LEMMA CollectStep == ASSUME MInv, NEW th \in BOOLEAN, collect(th) PROVE MInv'
<1>1. /\ pc = "rebuilt?" /\ pc' = "stop?" /\ rebuild.st = "done"
      /\ UNCHANGED <<live, asked, file, signals, reload_requested, stop_requested,
                     rules, lists_loaded, kept>>
  BY DEF collect, env, rebuild_done
<1>2. /\ live \in Configs /\ asked \in Nat /\ retry \in 0..RetryCap /\ rebuild_again \in BOOLEAN
  BY DEF MInv, Typed, MainTyped
<1>3. Idle \in Rebuild /\ Idle.st = "none" /\ Idle.asked <= asked
  BY <1>2, IdleTyped
<1>4. EnvTyped'
  BY <1>1 DEF MInv, Typed, EnvTyped
<1>5. CASE rebuild_again
  <2>1. start_rebuild(th, Idle, live, asked, TRUE) /\ retry' = retry
    BY <1>5 DEF collect
  <2>2. /\ rebuild' \in Rebuild /\ rebuild'.asked <= asked
        /\ after_reload' \in BOOLEAN /\ rebuild_again' \in BOOLEAN
        /\ \/ rebuild'.st = "running" /\ rebuild'.asked = asked /\ rebuild'.cfg = live
           \/ rebuild'.st = "none" /\ rebuild_again'
    BY <1>2, <1>3, <2>1, StartStep
  <2>3. MainTyped'
    BY <1>1, <1>2, <2>1, <2>2 DEF MainTyped
  <2> QED  BY <1>1, <1>2, <1>4, <2>2, <2>3, LoopStep
<1>6. CASE ~rebuild_again
  <2>1. /\ rebuild' = Idle /\ retry' = collected_retry(rebuild.current, live)
        /\ after_reload' = FALSE /\ rebuild_again' = rebuild_again
    BY <1>6 DEF collect
  <2>2. retry' \in 0..RetryCap
    BY <1>2, <2>1, CollectedTyped
  <2>3. after_reload' \in BOOLEAN
    BY <2>1, Zenon
  <2>4. MainTyped'
    BY <1>1, <1>2, <2>1, <2>2, <2>3 DEF MainTyped
  <2>5. Applied \/ kept
    BY <1>1, <1>6 DEF MInv, Following, Ended
  <2> QED  BY <1>1, <1>2, <1>3, <1>4, <2>1, <2>4, <2>5, LoopStep
<1> QED  BY <1>5, <1>6

(* What a reload that asks for new rules does, with another to follow the  *)
(* one in progress.                                                        *)
LEMMA AskRebuildStep ==
  ASSUME MInv, NEW th \in BOOLEAN, NEW c \in Configs, AskRebuild(th, c)
  PROVE  /\ asked' = asked + 1 /\ retry' \in 0..RetryCap
         /\ rebuild' \in Rebuild /\ rebuild'.asked <= asked + 1
         /\ after_reload' \in BOOLEAN /\ rebuild_again' \in BOOLEAN
         /\ \/ rebuild'.st = "none" /\ rebuild_again'
            \/ rebuild'.st = "running" /\ rebuild'.asked = asked + 1 /\ rebuild'.cfg = c
            \/ rebuild' = rebuild /\ rebuild.st # "none" /\ rebuild_again'
<1>1. /\ live \in Configs /\ asked \in Nat /\ retry \in 0..RetryCap
      /\ rebuild_again \in BOOLEAN /\ after_reload \in BOOLEAN
      /\ rebuild \in Rebuild /\ rebuild.asked <= asked /\ rebuild.asked \in Nat
  BY DEF MInv, Typed, MainTyped, ThreadTyped, Rebuild
<1>2. asked' = asked + 1 /\ asked + 1 \in Nat
  BY <1>1 DEF AskRebuild
<1>3. retry' \in 0..RetryCap
  BY <1>1, CollectedTyped DEF AskRebuild
<1>4. \/ rebuild_busy /\ rebuild_again' = TRUE /\ UNCHANGED <<rebuild, after_reload>>
      \/ rebuild' = Started(asked + 1, c) /\ after_reload' = TRUE /\ rebuild_again' = TRUE
      \/ start_rebuild(th, Idle, c, asked + 1, TRUE)
  BY DEF AskRebuild
<1>5. CASE rebuild_busy /\ rebuild_again' = TRUE /\ UNCHANGED <<rebuild, after_reload>>
  <2>1. rebuild_again' \in BOOLEAN /\ rebuild_again' /\ rebuild.st # "none"
    BY <1>5 DEF rebuild_busy
  <2>2. rebuild.asked <= asked + 1
    BY <1>1
  <2> QED  BY <1>1, <1>2, <1>3, <1>5, <2>1, <2>2
<1>6. CASE rebuild' = Started(asked + 1, c) /\ after_reload' = TRUE /\ rebuild_again' = TRUE
  <2>1. rebuild_again' \in BOOLEAN /\ after_reload' \in BOOLEAN
    BY <1>6
  <2>2. /\ rebuild' \in Rebuild /\ rebuild'.st = "running"
        /\ rebuild'.cfg = c /\ rebuild'.asked = asked + 1
    BY <1>2, <1>6, StartedTyped
  <2> QED  BY <1>2, <1>3, <2>1, <2>2
<1>7. CASE start_rebuild(th, Idle, c, asked + 1, TRUE)
  <2>1. Idle \in Rebuild /\ Idle.st = "none" /\ Idle.asked <= asked + 1
    BY <1>1, IdleTyped
  <2>2. /\ rebuild' \in Rebuild /\ rebuild'.asked <= asked + 1
        /\ after_reload' \in BOOLEAN /\ rebuild_again' \in BOOLEAN
        /\ \/ rebuild'.st = "running" /\ rebuild'.asked = asked + 1 /\ rebuild'.cfg = c
           \/ rebuild'.st = "none" /\ rebuild_again'
    BY <1>2, <1>7, <2>1, StartStep
  <2> QED  BY <1>2, <1>3, <2>2
<1> QED  BY <1>4, <1>5, <1>6, <1>7

LEMMA ReloadStep == ASSUME MInv, NEW th \in BOOLEAN, Reload(th) PROVE MInv'
<1>1. /\ pc = "reload?" /\ pc' = "stop?" /\ reload_requested /\ reload_requested' = FALSE
      /\ UNCHANGED <<file, signals, stop_requested, rules, lists_loaded, kept>>
  BY DEF Reload
<1>2. /\ live \in Configs /\ asked \in Nat /\ retry \in 0..RetryCap
      /\ rebuild_again \in BOOLEAN /\ after_reload \in BOOLEAN
      /\ rebuild \in Rebuild /\ rebuild.asked <= asked /\ asked < signals /\ signals \in Nat
      /\ file \in Configs \union {Unusable}
  BY <1>1 DEF MInv, Typed, MainTyped, EnvTyped, ThreadTyped
<1>3. reload_requested' \in BOOLEAN /\ ~reload_requested'
  BY <1>1
<1>4. asked' \in {asked, asked + 1} => EnvTyped'
  BY <1>1, <1>2, <1>3 DEF MInv, Typed, EnvTyped
<1>5. PICK c \in Configs : /\ live' = c
                           /\ \/ NoRebuild /\ (c = live \/ ~rules_changed(live, c))
                              \/ AskRebuild(th, c)
  <2>1. CASE live' = live
    BY <1>2, <2>1 DEF Reload
  <2>2. CASE file \notin {Unusable, live} /\ live' = file
    BY <1>2, <2>2 DEF Reload
  <2> QED  BY <2>1, <2>2 DEF Reload
<1>6. CASE NoRebuild /\ (c = live \/ ~rules_changed(live, c))
  <2>1. UNCHANGED <<asked, retry, rebuild, rebuild_again, after_reload>>
    BY <1>6 DEF NoRebuild
  <2>2. Key(live') = Key(live)
    BY <1>2, <1>5, <1>6, UnchangedKey
  <2>3. MainTyped'
    BY <1>1, <1>2, <1>5, <2>1 DEF MainTyped
  <2>4. rebuild.st = "none" => rebuild_again \/ Applied \/ kept
    BY DEF MInv, ChangeNotDropped, rebuild_busy
  <2>5. EnvTyped'
    BY <1>4, <2>1
  <2> QED  BY <1>1, <1>2, <2>1, <2>2, <2>3, <2>4, <2>5, LoopStep
<1>7. CASE AskRebuild(th, c)
  <2>1. /\ asked' = asked + 1 /\ retry' \in 0..RetryCap
        /\ rebuild' \in Rebuild /\ rebuild'.asked <= asked + 1
        /\ after_reload' \in BOOLEAN /\ rebuild_again' \in BOOLEAN
        /\ \/ rebuild'.st = "none" /\ rebuild_again'
           \/ rebuild'.st = "running" /\ rebuild'.asked = asked + 1 /\ rebuild'.cfg = c
           \/ rebuild' = rebuild /\ rebuild.st # "none" /\ rebuild_again'
    BY <1>7, AskRebuildStep
  <2>2. asked <= asked' /\ asked' # asked /\ asked' \in Nat
    BY <1>2, <2>1
  <2>3. MainTyped'
    BY <1>1, <1>5, <2>1, <2>2 DEF MainTyped
  <2>4. EnvTyped'
    BY <1>4, <2>1
  <2> QED  BY <1>1, <1>5, <2>1, <2>2, <2>3, <2>4, LoopStep
<1> QED  BY <1>5, <1>6, <1>7

LEMMA TickStep == ASSUME MInv, NEW th \in BOOLEAN, NEW due \in BOOLEAN, Tick(th, due) PROVE MInv'
<1>1. /\ pc = "tick?" /\ pc' = "stop?"
      /\ UNCHANGED <<live, retry, asked, file, signals, reload_requested, stop_requested,
                     rules, lists_loaded, kept>>
  BY DEF Tick, env
<1>2. /\ live \in Configs /\ asked \in Nat /\ retry \in 0..RetryCap
      /\ rebuild_again \in BOOLEAN /\ after_reload \in BOOLEAN
      /\ rebuild \in Rebuild /\ rebuild.asked <= asked
  BY DEF MInv, Typed, MainTyped, ThreadTyped
<1>3. EnvTyped'
  BY <1>1 DEF MInv, Typed, EnvTyped
<1>4. rebuild.st = "none" => rebuild_again \/ Applied \/ kept
  BY DEF MInv, ChangeNotDropped, rebuild_busy
<1>5. ASSUME rebuild.st = "none", NEW after \in BOOLEAN,
             start_rebuild(th, rebuild, live, asked, after)
      PROVE  MInv'
  <2>1. /\ rebuild' \in Rebuild /\ rebuild'.asked <= asked
        /\ after_reload' \in BOOLEAN /\ rebuild_again' \in BOOLEAN
        /\ \/ rebuild'.st = "running" /\ rebuild'.asked = asked /\ rebuild'.cfg = live
           \/ rebuild'.st = "none" /\ (rebuild_again => rebuild_again')
    BY <1>2, <1>5, StartStep
  <2>2. MainTyped'
    BY <1>1, <1>2, <2>1 DEF MainTyped
  <2> QED  BY <1>1, <1>2, <1>3, <1>4, <1>5, <2>1, <2>2, LoopStep
<1>6. CASE UNCHANGED <<rebuild, rebuild_again, after_reload>>
  <2>1. MainTyped'
    BY <1>1, <1>2, <1>6 DEF MainTyped
  <2> QED  BY <1>1, <1>2, <1>3, <1>4, <1>6, <2>1, LoopStep
<1> QED  BY <1>5, <1>6 DEF Tick, rebuild_busy

LEMMA EndStep == ASSUME MInv, End PROVE MInv'
<1>1. /\ pc = "drained"
      /\ UNCHANGED <<live, rebuild_again, after_reload, retry, asked, file, signals,
                     reload_requested, stop_requested, rules, lists_loaded, kept>>
  BY DEF End, env
<1>2. CASE pc' = "exited" /\ UNCHANGED rebuild
  BY <1>1, <1>2, PcStep DEF env, thread
<1>3. CASE pc' = "ended" /\ rebuild' = Idle /\ ~(rebuild_busy /\ ~rebuild_done)
  <2>1. live \in Configs /\ asked \in Nat
    BY DEF MInv, Typed, MainTyped
  <2>2. rebuild' \in Rebuild /\ rebuild'.st = "none" /\ rebuild'.asked <= asked
    BY <1>3, <2>1, IdleTyped
  <2>3. MainTyped' /\ EnvTyped' /\ ThreadTyped'
    BY <1>1, <1>3, <2>2 DEF MInv, Typed, MainTyped, EnvTyped, ThreadTyped
  <2>4. Booting' /\ Following' /\ Ended' /\ Freed'
    BY <1>1, <1>3, <2>2 DEF Booting, Following, Ended, Freed
  <2>5. RulesMatch'
    BY <1>1, <1>3 DEF MInv, RulesMatch, Applied
  <2>6. ~Applied => rebuild_again \/ kept
    BY <1>3 DEF MInv, Following, Ended, ChangeNotDropped, rebuild_busy, rebuild_done
  <2>7. ChangeNotDropped'
    BY <1>1, <2>6 DEF ChangeNotDropped, Applied
  <2> QED  BY <2>3, <2>4, <2>5, <2>7 DEF MInv, Typed
<1> QED  BY <1>2, <1>3 DEF End

-----------------------------------------------------------------------------

LEMMA MStep == MInv /\ [Next]_vars => MInv'
<1> SUFFICES ASSUME MInv, [Next]_vars PROVE MInv'
  OBVIOUS
<1>1. CASE Thread
  BY <1>1, LoadStep, RebuildEndStep DEF Thread
<1>2. CASE TerminateAgain \/ CheckStop \/ CheckRebuilt \/ CheckReload \/ NotYet \/ Drain
  BY <1>2, PcStep DEF TerminateAgain, CheckStop, CheckRebuilt, CheckReload, NotYet, Drain
<1>3. CASE UNCHANGED vars
  <2>1. UNCHANGED <<main, thread>> /\ UNCHANGED <<file, signals, reload_requested, stop_requested, asked>>
    BY <1>3 DEF vars, main, env
  <2>2. EnvTyped'
    BY <2>1 DEF MInv, Typed, EnvTyped
  <2> QED  BY <2>1, <2>2, OperatorStep
<1>4. CASE Main
  BY <1>2, <1>4, BootStartStep, BootInlineStep, BootOffStep, BootWaitStep, CollectStep,
     ReloadStep, TickStep, EndStep DEF Main
<1> QED
  BY <1>1, <1>2, <1>3, <1>4, HangupStep, TerminateStep DEF Next, Over

LEMMA MAlways == Spec => []MInv
  BY MInitially, MStep, PTL DEF Spec

(* main.odin, rebuild.odin, reload.odin: for any configurations and any    *)
(* number of SIGHUPs, before, during and after a rebuild and with threads  *)
(* to be had or not, no change a reload took in is dropped, rules that are *)
(* up to date are those the live configuration asks for, and nothing is    *)
(* freed under a rebuild.                                                  *)
THEOREM RebuildSoundHolds == Spec => []RebuildSound
<1>1. ASSUME MInv PROVE RebuildSound
  <2>1. MainTyped /\ EnvTyped /\ ThreadTyped /\ Freed /\ RulesMatch /\ ChangeNotDropped
    BY <1>1 DEF MInv, Typed
  <2>2. /\ asked \in 0..MaxSignals /\ rebuild.asked \in 0..MaxSignals /\ rules.asked \in 0..MaxSignals
    BY <2>1, MaintenanceAssumption DEF MainTyped, EnvTyped, ThreadTyped, Rebuild
  <2>3. rebuild.st \in States /\ rebuild.cfg \in Configs /\ rebuild.current \in BOOLEAN
    BY <2>1 DEF ThreadTyped, Rebuild
  <2>4. {reload_requested, stop_requested, rebuild_again, after_reload, kept} \subseteq BOOLEAN
    BY <2>1, Zenon DEF MainTyped, EnvTyped, ThreadTyped
  <2>5. TypeOK
    BY <2>1, <2>2, <2>3, <2>4 DEF TypeOK, MainTyped, EnvTyped, ThreadTyped, States
  <2> QED  BY <2>1, <2>5 DEF RebuildSound, NoFreeUnderRebuild, Freed
<1> QED  BY MAlways, <1>1, PTL

(* reload_filters_from: for any lists, a rebuild takes rules in effect away *)
(* only for a list its configuration does not name, or one that was had and *)
(* held nothing.                                                            *)
THEOREM NoListLostHolds == Spec => NoListLost
<1> DEFINE Kept(u) == u \notin lists_loaded' =>
             ~rebuild.cfg.on \/ u \notin rebuild.cfg.urls \/ rebuild.loads[u] = "Empty"
<1>1. ASSUME MInv, [Next]_vars, NEW u \in lists_loaded PROVE Kept(u)
  <2>1. CASE lists_loaded' = lists_loaded
    BY <2>1
  <2>2. CASE BootInline
    BY <2>2, <1>1 DEF BootInline, MInv, Booting
  <2>3. CASE RebuildEnd
    <3> SUFFICES ASSUME u \notin lists_loaded', rebuild.cfg.on, u \in rebuild.cfg.urls
                 PROVE  rebuild.loads[u] = "Empty"
      OBVIOUS
    <3>1. rebuild.st = "loaded" /\ rebuild.loads \in LoadsOf(rebuild.cfg)
      BY <1>1, <2>3 DEF RebuildEnd, MInv, Typed, ThreadTyped
    <3>2. u \in DOMAIN rebuild.loads /\ rebuild.loads[u] \in List_Load
      BY <3>1 DEF LoadsOf
    <3>3. ~Lost(rebuild.cfg, rebuild.loads, lists_loaded)
      BY <1>1, <2>3 DEF RebuildEnd
    <3>4. rebuild.loads[u] \notin {"Current", "Stale"}
      BY <2>3, <3>2, <3>3 DEF RebuildEnd
    <3> QED  BY <3>2, <3>3, <3>4 DEF Lost, List_Load
  <2> QED
    BY <1>1, <2>1, <2>2, <2>3
    DEF Next, Hangup, Terminate, TerminateAgain, Thread, Load, Main, BootStart, BootOff,
        BootWait, CheckStop, CheckRebuilt, CheckReload, NotYet, collect, Reload, Tick,
        Drain, End, Over, vars, thread
<1>2. MInv /\ [Next]_vars => \A u \in lists_loaded : Kept(u)
  BY <1>1
<1> QED  BY MAlways, <1>2, PTL DEF NoListLost, Spec
=============================================================================
