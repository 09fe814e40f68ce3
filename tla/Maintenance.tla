---------------------------- MODULE Maintenance ----------------------------
(***************************************************************************)
(* The maintenance loop of main/main.odin and the rebuild of the rule sets *)
(* it runs on a thread of its own (server/rebuild.odin, reload.odin and    *)
(* reload_filters_from of lists.odin).                                     *)
(*                                                                         *)
(* Three actors: the operator, who edits the file and sends SIGHUP or      *)
(* SIGTERM; the main thread, which starts, collects and asks again for     *)
(* rebuilds; and the rebuild thread.  A configuration is cut down to what  *)
(* they tell apart: whether blocking is on, the downloaded lists it names, *)
(* whether it names a `file:` list, and whether blocking.refresh is above  *)
(* zero.                                                                   *)
(***************************************************************************)
EXTENDS Naturals, FiniteSets

CONSTANTS Urls,        \* the downloaded lists a configuration may name
          Configs,     \* the configurations the file may hold
          Unusable,    \* a file that does not load
          NoFetch,     \* opts.no_fetch
          MaxSignals,  \* bound on the SIGHUPs sent
          RetryCap     \* min(refresh, REFRESH_RETRY_MAX), in REFRESH_RETRY_FIRSTs

Config == [on : BOOLEAN, urls : SUBSET Urls, file : BOOLEAN, refresh : BOOLEAN]

ASSUME MaintenanceAssumption ==
    /\ Configs \subseteq Config
    /\ Unusable \notin Config
    /\ NoFetch \in BOOLEAN
    /\ MaxSignals \in Nat
    /\ RetryCap \in Nat \ {0}

VARIABLES
    pc,            \* where the main thread is
    live,          \* live_config(s)
    file,          \* the configuration on disk, or Unusable
    signals,       \* SIGHUPs sent so far
    reload_requested, stop_requested,
    rebuild,       \* the Rebuild record, with where its thread is
    rebuild_again, after_reload, retry,        \* of struct Maintenance
    rules,         \* the rule sets in effect
    lists_loaded,  \* the downloaded lists those were built from
    asked,         \* reloads so far that asked for a rebuild
    kept           \* the last rebuild to end kept the rules in effect

main == <<pc, live, rebuild_again, after_reload, retry, asked>>
env == <<file, signals, reload_requested, stop_requested>>
thread == <<rebuild, rules, lists_loaded, kept>>
vars == <<main, env, thread>>

-----------------------------------------------------------------------------

List_Load == {"Current", "Stale", "Empty", "Unavailable"}

(* What the rule sets depend on; the key of the sets with blocking off.    *)
Key(c) == IF c.on THEN [urls |-> c.urls, file |-> c.file]
                  ELSE [urls |-> {}, file |-> FALSE]

Idle == [st |-> "none", cfg |-> live, asked |-> 0, loads |-> <<>>, current |-> FALSE]

rebuild_busy == rebuild.st # "none"
rebuild_done == rebuild.st = "done"

(* rules_changed compares everything but the keys read per query or tick,  *)
(* of which refresh is the one kept here.                                  *)
rules_changed(a, b) ==
    /\ a.on \/ b.on
    /\ <<a.on, a.urls, a.file>> # <<b.on, b.urls, b.file>>

reads_list_files(c) == c.on /\ c.file

(* The wait before the next attempt; zero when there is none to make.      *)
refresh_retry(r) == IF r = 0 THEN 1 ELSE IF 2 * r < RetryCap THEN 2 * r ELSE RetryCap

Init ==
    /\ live \in Configs
    /\ file = live
    /\ signals = 0 /\ reload_requested = FALSE /\ stop_requested = FALSE
    /\ rebuild = [st |-> "none", cfg |-> live, asked |-> 0, loads |-> <<>>, current |-> FALSE]
    /\ rebuild_again = FALSE /\ after_reload = FALSE /\ retry = 0
    /\ rules = [key |-> [urls |-> {}, file |-> FALSE], asked |-> 0]
    /\ lists_loaded = {}
    /\ asked = 0
    /\ kept = FALSE
    /\ pc = "boot"

-----------------------------------------------------------------------------
(* The operator. *)

(* SIGHUP, with the file as it was or edited.  A second before the first   *)
(* is acted on is the same request; a `file:` list may have been edited    *)
(* whatever the configuration says.                                        *)
Hangup ==
    /\ pc \notin {"ended", "exited"}
    /\ signals < MaxSignals
    /\ signals' = signals + 1
    /\ file' \in Configs \union {Unusable}
    /\ reload_requested' = TRUE
    /\ UNCHANGED <<main, stop_requested, thread>>

Terminate ==
    /\ pc \notin {"ended", "exited"}
    /\ ~stop_requested
    /\ stop_requested' = TRUE
    /\ UNCHANGED <<main, file, signals, reload_requested, thread>>

(* A second one gets the default disposition, which ends the process.      *)
TerminateAgain ==
    /\ pc \notin {"ended", "exited"}
    /\ stop_requested
    /\ pc' = "exited"
    /\ UNCHANGED <<live, rebuild_again, after_reload, retry, asked, env, thread>>

-----------------------------------------------------------------------------
(* The rebuild thread: rebuild_rules under the copy taken at the start.    *)

(* build_filter_sets: every list read, each with its own outcome.  With    *)
(* --no-fetch only the cached copy is tried, and it is current or absent.  *)
Load(loads) ==
    /\ pc \notin {"ended", "exited"}
    /\ rebuild.st = "running"
    /\ NoFetch => \A u \in DOMAIN loads : loads[u] \in {"Current", "Unavailable"}
    /\ rebuild' = [rebuild EXCEPT !.st = "loaded", !.loads = loads]
    /\ UNCHANGED <<main, env, rules, lists_loaded, kept>>

LoadsOf(c) == [(IF c.on THEN c.urls ELSE {}) -> List_Load]
AllCurrent(c) == [u \in (IF c.on THEN c.urls ELSE {}) |-> "Current"]

(* reload_filters_from keeps the rules in effect for a list that loaded    *)
(* before and cannot be had now.                                           *)
LostWhenAllAre(cfg, loads, loaded) ==
    \A u \in cfg.urls : loads[u] = "Unavailable" /\ u \in loaded
Lost(cfg, loads, loaded) ==
    \E u \in cfg.urls : loads[u] = "Unavailable" /\ u \in loaded

(* The end of rebuild_rules: the sets are swapped in, or the old ones kept.*)
RebuildEnd ==
    /\ pc \notin {"ended", "exited"}
    /\ rebuild.st = "loaded"
    /\ LET c == rebuild.cfg
           keep == c.on /\ Lost(c, rebuild.loads, lists_loaded)
           all == \A u \in DOMAIN rebuild.loads : rebuild.loads[u] = "Current"
       IN /\ kept' = keep
          /\ rules' = IF keep THEN rules ELSE [key |-> Key(c), asked |-> rebuild.asked]
          /\ lists_loaded' =
                IF keep THEN lists_loaded
                ELSE {u \in DOMAIN rebuild.loads : rebuild.loads[u] \in {"Current", "Stale"}}
          /\ rebuild' = [rebuild EXCEPT !.st = "done", !.loads = <<>>, !.current = all]
    /\ UNCHANGED <<main, env>>

-----------------------------------------------------------------------------
(* The main thread before the loop: run builds the first sets with nothing *)
(* listening yet.                                                          *)

Started(ask, cfg) ==
    [st |-> "running", cfg |-> cfg, asked |-> ask, loads |-> <<>>, current |-> FALSE]

(* The first retry a start whose lists are not all current schedules.      *)
FirstRetry(current) ==
    IF ~current /\ ~NoFetch /\ live.refresh THEN refresh_retry(0) ELSE 0

BootStart ==
    /\ pc = "boot"
    /\ live.on
    /\ rebuild' = Started(0, live)
    /\ pc' = "boot_wait"
    /\ UNCHANGED <<live, rebuild_again, after_reload, retry, asked, env, rules, lists_loaded, kept>>

(* No thread to be had: built here, where nothing was loaded before and so *)
(* nothing is kept back.                                                   *)
BootInline ==
    /\ pc = "boot"
    /\ live.on
    /\ \E loads \in LoadsOf(live) :
          /\ NoFetch => \A u \in DOMAIN loads : loads[u] \in {"Current", "Unavailable"}
          /\ rules' = [key |-> Key(live), asked |-> 0]
          /\ lists_loaded' = {u \in DOMAIN loads : loads[u] \in {"Current", "Stale"}}
          /\ retry' = FirstRetry(\A u \in DOMAIN loads : loads[u] = "Current")
    /\ pc' = "stop?"
    /\ UNCHANGED <<live, rebuild_again, after_reload, asked, env, rebuild, kept>>

BootOff ==
    /\ pc = "boot"
    /\ ~live.on
    /\ pc' = "stop?"
    /\ UNCHANGED <<live, rebuild_again, after_reload, retry, asked, env, thread>>

BootWait ==
    /\ pc = "boot_wait"
    /\ \/ /\ rebuild_done
          /\ retry' = FirstRetry(rebuild.current)
          /\ rebuild' = Idle
          /\ pc' = "stop?"
       \/ /\ ~rebuild_done
          /\ stop_requested
          /\ pc' = "exited"
          /\ UNCHANGED <<retry, rebuild>>
    /\ UNCHANGED <<live, rebuild_again, after_reload, asked, env, rules, lists_loaded, kept>>

-----------------------------------------------------------------------------
(* The maintenance loop.  wait_for_tick looks at the stop, the rebuild, the*)
(* reload and the clock in that order, and each may change after its look. *)

(* start_rebuild, leaving the record r when no thread can be had (th); a   *)
(* reload that collected a rebuild on the way has cleared after_reload.    *)
start_rebuild(th, r, cfg, ask, after) ==
    IF th
    THEN /\ rebuild' = Started(ask, cfg)
         /\ after_reload' = after
         /\ rebuild_again' = FALSE
    ELSE /\ rebuild' = r
         /\ after_reload' = (after_reload /\ ~(rebuild_done /\ ~rebuild_again))
         /\ rebuild_again' = (rebuild_again \/ after)

(* collect: the retries go on from the last wait, or start afresh after a  *)
(* rebuild a reload asked for; one a reload has overtaken decides nothing. *)
collected_retry(current, cfg) ==
    IF current \/ NoFetch \/ ~cfg.refresh THEN 0
    ELSE refresh_retry(IF after_reload THEN 0 ELSE retry)

CheckStop ==
    /\ pc = "stop?"
    /\ pc' = IF stop_requested THEN "stopping" ELSE "rebuilt?"
    /\ UNCHANGED <<live, rebuild_again, after_reload, retry, asked, env, thread>>

CheckRebuilt ==
    /\ pc = "rebuilt?"
    /\ ~rebuild_done
    /\ pc' = "reload?"
    /\ UNCHANGED <<live, rebuild_again, after_reload, retry, asked, env, thread>>

collect(th) ==
    /\ pc = "rebuilt?"
    /\ rebuild_done
    /\ IF rebuild_again
       THEN /\ start_rebuild(th, Idle, live, asked, TRUE)
            /\ UNCHANGED retry
       ELSE /\ rebuild' = Idle
            /\ retry' = collected_retry(rebuild.current, live)
            /\ after_reload' = FALSE
            /\ UNCHANGED rebuild_again
    /\ pc' = "stop?"
    /\ UNCHANGED <<live, asked, env, rules, lists_loaded, kept>>

CheckReload ==
    /\ pc = "reload?"
    /\ ~reload_requested
    /\ pc' = "tick?"
    /\ UNCHANGED <<live, rebuild_again, after_reload, retry, asked, env, thread>>

(* The reload takes a rebuild in progress for the one it wants.            *)
AskRebuildIfIdle(th, new) ==
    /\ asked' = asked + 1
    /\ UNCHANGED retry
    /\ IF rebuild_busy THEN UNCHANGED <<rebuild, after_reload, rebuild_again>>
       ELSE start_rebuild(th, Idle, new, asked + 1, TRUE)

(* What a reload asking for new rules does about the rebuild: one over and *)
(* not yet collected is collected first, and collecting it starts the one  *)
(* asked for before; one in progress is let finish, and another follows.   *)
AskRebuild(th, new) ==
    \E first \in BOOLEAN :
       /\ asked' = asked + 1
       /\ retry' = IF rebuild_done /\ ~rebuild_again
                   THEN collected_retry(rebuild.current, new) ELSE retry
       /\ IF rebuild_busy /\ ~rebuild_done
          THEN /\ rebuild_again' = TRUE
               /\ UNCHANGED <<rebuild, after_reload>>
          ELSE IF rebuild_done /\ rebuild_again /\ first
          THEN /\ rebuild' = Started(asked + 1, new)
               /\ after_reload' = TRUE
               /\ rebuild_again' = TRUE
          ELSE start_rebuild(th, Idle, new, asked + 1, TRUE)

NoRebuild == UNCHANGED <<asked, retry, rebuild, rebuild_again, after_reload>>

(* reload: an unusable file, or one build_live cannot put into effect,     *)
(* changes nothing; an unchanged one only reads `file:` lists again.       *)
Reload(th) ==
    /\ pc = "reload?"
    /\ reload_requested
    /\ reload_requested' = FALSE
    /\ \/ /\ file = Unusable \/ file # live
          /\ UNCHANGED live
          /\ NoRebuild
       \/ /\ file = live
          /\ UNCHANGED live
          /\ IF reads_list_files(live) THEN AskRebuild(th, live) ELSE NoRebuild
       \/ /\ file \notin {Unusable, live}
          /\ live' = file
          /\ IF rules_changed(live, file) \/ reads_list_files(file)
             THEN AskRebuild(th, file) ELSE NoRebuild
    /\ pc' = "stop?"
    /\ UNCHANGED <<file, signals, stop_requested, rules, lists_loaded, kept>>

NotYet ==
    /\ pc = "tick?"
    /\ pc' = "stop?"
    /\ UNCHANGED <<live, rebuild_again, after_reload, retry, asked, env, thread>>

(* The rebuild asked for is left to whoever collects one.                  *)
TickRefreshesOnly(th, due) ==
    /\ pc = "tick?"
    /\ IF ~rebuild_busy /\ ~rebuild_again /\ due /\ live.on /\ ~NoFetch /\ live.refresh
       THEN start_rebuild(th, rebuild, live, asked, FALSE)
       ELSE UNCHANGED <<rebuild, rebuild_again, after_reload>>
    /\ pc' = "stop?"
    /\ UNCHANGED <<live, retry, asked, env, rules, lists_loaded, kept>>

(* tick: the rebuild asked for, or a refresh that is due.                  *)
Tick(th, due) ==
    /\ pc = "tick?"
    /\ \/ /\ ~rebuild_busy
          /\ rebuild_again
          /\ start_rebuild(th, rebuild, live, asked, TRUE)
       \/ /\ ~rebuild_busy
          /\ ~rebuild_again
          /\ due /\ live.on /\ ~NoFetch /\ live.refresh
          /\ start_rebuild(th, rebuild, live, asked, FALSE)
       \/ /\ \/ rebuild_busy
             \/ ~rebuild_again /\ ~(due /\ live.on /\ ~NoFetch /\ live.refresh)
          /\ UNCHANGED <<rebuild, rebuild_again, after_reload>>
    /\ pc' = "stop?"
    /\ UNCHANGED <<live, retry, asked, env, rules, lists_loaded, kept>>

-----------------------------------------------------------------------------
(* The stop: the deferred blocks of run, last written first.               *)

(* stop_listeners, stop_metrics, drain_queries and stop_loops.             *)
Drain ==
    /\ pc = "stopping"
    /\ pc' = "drained"
    /\ UNCHANGED <<live, rebuild_again, after_reload, retry, asked, env, thread>>

(* A rebuild still running is not waited for and nothing is freed under it:*)
(* the process ends with it.  One over is joined and the rest is freed.    *)
End ==
    /\ pc = "drained"
    /\ IF rebuild_busy /\ ~rebuild_done
       THEN pc' = "exited" /\ UNCHANGED rebuild
       ELSE pc' = "ended" /\ rebuild' = Idle
    /\ UNCHANGED <<live, rebuild_again, after_reload, retry, asked, env, rules, lists_loaded, kept>>

Over == pc \in {"ended", "exited"} /\ UNCHANGED vars

Main ==
    \/ BootStart \/ BootInline \/ BootOff \/ BootWait
    \/ CheckStop \/ CheckRebuilt \/ CheckReload \/ NotYet
    \/ \E th \in BOOLEAN : collect(th) \/ Reload(th)
    \/ \E th, due \in BOOLEAN : Tick(th, due)
    \/ Drain \/ End

Thread ==
    \/ \E loads \in LoadsOf(rebuild.cfg) : Load(loads)
    \/ RebuildEnd

Next == Hangup \/ Terminate \/ TerminateAgain \/ Thread \/ Main \/ Over

Spec == Init /\ [][Next]_vars

(* The main thread always runs on.  Until a stop is asked for, a rebuild   *)
(* ends, a tick comes round with its refresh due and a thread to be had,   *)
(* and lists tried for ever are all had at some point; nothing is assumed  *)
(* of a download once the process is to stop.                              *)
Fairness ==
    /\ WF_vars(Main)
    /\ WF_vars(~stop_requested /\ Thread)
    /\ SF_vars(~stop_requested /\ Tick(TRUE, TRUE))
    /\ SF_vars(~stop_requested /\ Load(AllCurrent(rebuild.cfg)))

FairSpec == Spec /\ Fairness

-----------------------------------------------------------------------------

(* Every variable stays in its range.                                      *)
TypeOK ==
    /\ pc \in {"boot", "boot_wait", "stop?", "rebuilt?", "reload?", "tick?",
               "stopping", "drained", "ended", "exited"}
    /\ live \in Configs
    /\ file \in Configs \union {Unusable}
    /\ signals \in 0..MaxSignals
    /\ {reload_requested, stop_requested, rebuild_again, after_reload, kept} \subseteq BOOLEAN
    /\ rebuild.st \in {"none", "running", "loaded", "done"}
    /\ rebuild.cfg \in Configs
    /\ rebuild.asked \in 0..MaxSignals /\ rebuild.current \in BOOLEAN
    /\ retry \in 0..RetryCap
    /\ rules.asked \in 0..MaxSignals
    /\ lists_loaded \subseteq Urls
    /\ asked \in 0..MaxSignals

(* The rules of the last reload that asked for new ones are in effect.     *)
Applied == rules.asked = asked

(* Rules that are up to date by the reload's own account are the ones the  *)
(* live configuration asks for: reload_config never takes for unchanged a  *)
(* blocking section the rules depend on.                                   *)
RulesMatch == (Applied /\ pc \notin {"boot", "boot_wait", "exited"}) => rules.key = Key(live)

(* A change a reload has taken in is never dropped: while it is not in     *)
(* effect a rebuild is wanted, or runs for the rules the live one asks for,*)
(* or the one that ran last kept the old ones for a list that was gone.    *)
ChangeNotDropped ==
    ~Applied =>
      \/ rebuild_again
      \/ rebuild_busy /\ rebuild.asked = asked /\ Key(rebuild.cfg) = Key(live)
      \/ kept

(* A list whose rules are in effect is lost from the sets only to a        *)
(* configuration that does not name it: no failed download empties them.   *)
NoListLost ==
    [][\A u \in lists_loaded : u \notin lists_loaded' =>
          ~rebuild.cfg.on \/ u \notin rebuild.cfg.urls \/ rebuild.loads[u] = "Empty"]_vars

(* run frees the engine and lists_loaded only with no rebuild thread left. *)
NoFreeUnderRebuild == pc = "ended" => rebuild.st \notin {"running", "loaded"}

(* A stop is never held by a rebuild, at boot or later: the process ends   *)
(* even if no download ever returns.                                       *)
StopEnds == stop_requested ~> pc \in {"ended", "exited"}

(* docs/install.md of a list that loaded before and cannot be had on a     *)
(* reload: the rules in effect are kept "and the change applies at the     *)
(* retry", once the list is back.                                          *)
KeptChangeApplies == (kept /\ ~Applied) ~> (Applied \/ stop_requested)

(* The rules of the last reload come into effect, and stay, unless the     *)
(* process is told to stop or the configuration has no refreshes.          *)
RulesFollow == <>[](stop_requested \/ Applied \/ NoFetch \/ ~live.refresh)

(* Of a rebuild and the reloads around it: the rules in effect are those a  *)
(* configuration asked for, no change is dropped, and nothing the rebuild   *)
(* thread uses is freed under it.                                           *)
RebuildSound == TypeOK /\ RulesMatch /\ ChangeNotDropped /\ NoFreeUnderRebuild

(* The maintenance loop gets there: a stop ends the process, and until then *)
(* the last reload's rules come into effect.                                *)
StopAndFollow == StopEnds /\ RulesFollow
============================================================================
