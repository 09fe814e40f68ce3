# elodin: a TLA+ verification project

elodin is a filtering DNS forwarder written in Odin. It answers clients over
UDP, TCP, TLS and HTTPS, from its own tables, its block lists, its cache, or an
upstream it forwards to, and reloads its configuration and its lists while it
runs. Beside it, under `bench/`, the repository keeps a harness in Go that
measures the server: it starts it in a known environment, loads it over every
transport, takes its upstreams away, and reports what happened. This directory
models the parts of both whose correctness rests on the order in which things
happen, checks them with TLC on small instances, and proves with TLAPS, for every
size, each safety property that a passing run checks, and that the lock, the mutex,
the semaphore and the answer cache implement the simpler things others take them for.

The server is all of the Odin code and the larger half of the models. The Go code
is the harness only; a statement about a Go module is a statement about what the
measurements can be trusted for, not about the server.

Paths below are relative to the repository's root; the server's packages are in
`src/`, the harness in `bench/`.

## 1. The system

### Components, their state and their operations

| Component | State | Operations | What makes it correct |
|---|---|---|---|
| `brlock` | a count per stripe, `writing`, a writers' mutex | read_lock, read_unlock, write_lock, write_unlock | a writer is alone; counts come back to the stripe they left; a writer gets in |
| configuration generations (`server/generation.odin`, `reload.odin`) | `current`, the retired list, references striped per generation, the parts each owns | pin, unpin, build_live, swap_generation, reap_generations, destroy_generations | nothing reachable is freed; each part is released once, by one owner; an answer judged by old rules is never read under new ones; what is retired is released |
| maintenance loop and rebuilds (`main/main.odin`, `server/rebuild.odin`, `lists.odin`) | configuration in effect, rules in effect, the rebuild in progress, the change it is for, the retry, the signals | wait_for_tick, reload, rebuild_start, rebuild_collect, tick, the stop | no change is dropped; a list that loaded is not lost to a failed download; the engine is not freed under a rebuild; a stop ends |
| upstream group (`upstream/group.odin`) | cursor, members, a question's deadline and attempts | resolve_insisting, resolve_sequential, resolve_race, sweep | the wait is bounded; everybody is tried honestly; the best reply stands |
| upstream health (`upstream/upstream.odin`) | failures, hang-ups, cooldown, answering | exchange, record_failure, record_success | a dead member parks, a hang-up alone parks it late, no failure revives it |
| racing (`upstream/group.odin`) | Race_State with its references, Racer_Budget, the semaphore | resolve_race, race_worker | freed by its last user; budgets exact; an error means every leg failed |
| query coalescing (`server/inflight.odin`) | an open-addressed table of flights in their leaders' stack frames | flight_join, flight_follow, flight_land | no follower reads a frame that is gone; one flight per key; all return |
| stale refresh and prefetch (`server/refresh.odin`, `queries.odin`) | refreshes with three references, the table of those running, queries in flight | start_refresh, refresh_take, refresh_job, finish_refresh | references exact; one refresh per key; stale bytes only for cause |
| answer cache (`cache/cache.odin`) | up to 16 LRU shards, shard_bits, serials, limits | get, put, note_checked, forget, reconfigure, sweep, clear_all | a verdict belongs to the bytes it is stored with; an entry is where a lookup looks; a bounded size |
| loop synchronisation (`loop/sync.odin`) | mutexes, semaphores and conds with waiter nodes on fiber stacks | lock, unlock, wait, post, deadlines | no lost wake-up; no touching the node of a fiber that returned |
| event loops and fibers (`loop/`) | ready queues, timers, the inbox of other threads' posts | spawn, park, wake, cancel | planned |
| connection table (`server/conns.odin`) | the entries with their indices, the listener loops among them, the limits, `stopped` | conn_spawn, conn_entry_run, conn_manager_stop_permanent, conn_manager_shutdown | an entry is where it thinks it is; the limits hold; nothing starts in a table found empty |
| listeners and the shutdown (`server/listeners.odin`, `queries.odin`, `main/main.odin`) | `stop`, the uses of a reader's socket, queries in flight, the contexts the loops were given | udp_loop, accept_loop, submit_query, query_done, stop_listeners, drain_queries, destroy_listeners | no socket is closed and no context freed under what uses it, and each is in the end |
| rate limiter, cookies | token buckets per prefix; secrets and their rotation | allow, slip; issue, check | planned |
| upstream connections (`upstream/pipeline.odin`) | the shared connection and who dials it; per connection its references, waiters, reader and silent timeouts | get_pipe, pipe_query, pipe_write, pipe_wait, pipe_read_one, pipe_kill, close_pipe, exchange_pipelined | somebody reads for whoever is parked; closed by the last that holds it; one dials at a time |
| bootstrap | addresses of the upstreams' hostnames, their age | resolve, refresh | planned |
| HTTP/2 (`h2/`), DoH | streams, windows, HPACK tables | frames in and out, resets | planned |
| DNSSEC (`dnssec/`, `server/dnssec.odin`) | the zone cache, budgets, flights per zone | chain walk, NSEC proofs | planned |
| filter engine (`filter/`) | compiled sets, the generation number | match, swap | the swap is in Generations and AnswerCache; matching is planned |
| resolver (`server/resolver.odin` and its guards) | one query's state | the order of decisions about a query | the cache's part of it is in AnswerCache; the rest is planned |
| list copies on disk (`server/lists.odin`) | the copy, its `.src` fingerprint, the temporary file, the copies of earlier builds | list_contents, save_cached_copy, mark_copy_source, move_query_named_caches | a copy that stands in is whole and of that url; there goes on being one |
| TLS tickets, logging | rotating keys; the repeat guard | rotate; reopen | planned |
| configuration, YAML, wire format, regular expressions, metrics, privileges | none that outlives a call | parse, format | not modelled: sequential conversions, covered by the repository's tests and fuzzers |
| load generator (`bench/cmd/loadgen`) | connections, questions out, counters, the recorder | run, runHandshake, runOnce | no question is counted twice; a result rests on every client; a row of held connections is read while they are held |
| experiment clients (`bench/cmd/rrlexp` client, tls, doh) | sockets, the tracker, tokens, the stop channel | runUDP, runStream, runIdle, runTCPRedial, runHandshakeFlood, runDoH and their stops | a refusal counted is the server's; figures stay once a client is stopped |
| experiment's failing upstream (`mock.go`, `arms_upstream.go`) | mode, sockets, held ports | fail, restore, serveUDP, serveConn | an outage reported was one; a connection from before it stays dead |
| experiment arms (`main.go`, `server.go`, `soak.go`) | the arm's server, mocks, samplers and clients | runMatrix, runArm, startServer, stop | no server or sampler outlives its arm; a row is read once it is settled |
| experiment series (`soak.go`, `arms_upstream.go`) | the samples of an arm | takeSample, soakTable, failSummary, failSeries | no query is lost between two rows; recovery is when the upstream was back |
| benchmark orchestrator (`bench/cmd/bench`) | the server under test, its section, the mocks | setup, runAll, its fourteen sections and the survey, teardown | one server at a time; no row from a load that failed or a server already stopped |
| unit environment (`bench/internal/unitenv`) | the parse of the shipped unit | Parse, Shipped, Check | the server is measured in the environment systemd would give it |
| DNS messages of the harness (`bench/internal/dnswire`, `bench/cmd/mockdns`) | none | query, Question, AnswerA, AnswerEmpty, ParseReply | the mock answers every question it can read, and the reply is accepted |

### How they interact

A listener hands a query to a fiber on one of the event loops. The fiber *pins*
the current generation (brlock inside), matches the question against the filter
engine (brlock again), asks the answer cache, and on a miss joins or leads a
*flight*. The leader asks an upstream *group*, which tries its members in turn or
*races* them; each exchange moves that member's *health*. An entry found expired
starts a detached *refresh* the client waits on for a while. Everything that
waits does so on `loop.Mutex`, `loop.Cond` or `loop.Sema`, which park a fiber on
a node in its own stack frame. Beside them the maintenance thread reloads the
configuration, swaps generations, sweeps the cache and runs rebuilds of the rule
sets on a thread of their own; a rebuild ends in `engine_swap`, and what it
downloaded in a copy on disk. An exchange over TCP or TLS is a query *pipelined*
on the member's shared connection. On a stop the main thread cancels the listener
loops, waits for the connections and then for the queries in flight, and only
then frees what they were given.

The harness meets the server only from outside: over its sockets, its process
and its metrics page. The orchestrator runs the load generator as a process of
its own, which it talks to through stdin and stdout; the experiment runs its
clients, its failing upstream and its samplers as goroutines of one process and
reads their counters once it has stopped them.

### What is hard about it

* State in a stack frame that others hold: a flight, a waiter's node, a race.
* Reference counts with several ways out: generations, races, refreshes,
  upstream connections, a reader's socket.
* Values read before a wait and used after it: a cached entry's serial, a
  generation's number, a member's health, the shard a key hashes to.
* Timeouts that race the answer: a race's deadline, a refresh's patience, a
  semaphore's deadline against its post.
* A duty that moves from one waiter to another: whoever reads an upstream
  connection reads for all, and may leave at any moment.
* Two files that belong together, and a stop between them.
* Signals that arrive while the work of the last one is still under way.
* In the harness, a measurement that looks like one and is not: an answer that
  arrives after its question was given up, an error the harness caused itself,
  a connection that survived an outage, a load that failed under a row that is
  written all the same, a server left running beside the next one.

`PROJECT.json` lists each of these under `hazards`, at its line, with the
properties that would catch it.

## 2. Modules

| Module | Models | Built on |
|---|---|---|
| `BrLock` | the lock, one action per atomic operation | implements `RwLock` |
| `RwLock` | what a lock promises: each operation one step | the abstraction of `BrLock` and of `LoopMutex` |
| `Generations` | pin to reap; the lock is the exclusion `BrLock` establishes | |
| `Maintenance` | operator, main thread, rebuild thread | |
| `MemberHealth`, `MemberLife` | the health counters; one member under concurrent exchanges | `MemberLife` extends `MemberHealth` and `MemberCondition` |
| `MemberCondition` | what a group may assume of a member's health | the abstraction of `MemberHealth` |
| `Group` | one question asked of a group | extends `MemberCondition`; the race is one wait |
| `Race` | the inside of that wait | |
| `Inflight` | flights and followers | |
| `Refresh` | detached refreshes and the count of queries in flight | |
| `AnswerCache` | the cache under queries, reloads, sweeps and the engine's swap | implements `AnswerStore` |
| `AnswerStore` | what the cache promises: one store, each call one step | the abstraction of `AnswerCache` |
| `LoopMutex`, `LoopSema` | the two primitives a fiber parks on | implement `RwLock` and `Semaphore` |
| `Semaphore` | what the semaphore promises: a number of permits | the abstraction of `LoopSema` |
| `Pipeline` | the queries on one upstream's connections | |
| `ListCopies` | the copy on disk of one downloaded list | |
| `Serving` | the connection table, a UDP reader, an accept loop, the queries in flight, the shutdown | |
| `LoadGen` | run and runHandshake of the load generator | |
| `HeldRow` | harness.once and the generator's `-once` mode, two processes on a pipe | |
| `ArmSockets` | the experiment's clients that hold their sockets | |
| `ArmAttempts` | the experiment's clients whose questions are attempts of their own | |
| `ArmClients` | the two together, for the figures they both fill | extends `ArmSockets` and `ArmAttempts` |
| `MockOutage` | the upstream that is taken away and comes back | |
| `Arm` | one arm after another: server, mocks, samplers, clients | the clients and the outage are goroutines here, described by the three modules above |
| `Sections` | the benchmark's sections, each a sequence of steps with what follows when one fails | the held rows are one step, described by `HeldRow` |
| `Series` | the readings of an arm, the tables and the recovery computed from them | |
| `UnitEnv` | the environment of a measured server | |
| `Wire` | the harness's DNS messages and the mock that answers them | |
| `MCServerSync` | instances of `BrLock`, `LoopSema`, `LoopMutex`, `Refresh` | extends all four |
| `MCForwarding` | instances of `Inflight`, `Race` | extends both |
| `MCAnswerCache` | instances of `AnswerCache`, `ListCopies` | extends both |
| `MCUpstream` | instances of `Group`, `MemberLife`, `Pipeline` | extends all three |
| `MCLifecycle` | instances of `Generations` and `Serving` | extends `MCGenerations` and `Serving` |
| `MCMaintenance` | instances of `Maintenance` | extends it |
| `MCHarness` | instances of the harness modules | extends them all |
| `SyncProofs` | proofs about `BrLock`, `LoopSema`, `LoopMutex` | extends them |
| `RefreshProofs` | proofs about `Refresh` | extends it |
| `ForwardingProofs` | proofs about `Inflight` and about `Race` | extends both |
| `LifecycleProofs` | proofs about `Generations` and `Serving` | extends both |
| `UpstreamProofs` | proofs about `MemberLife`, `Group`, `Pipeline` | extends them |
| `StoreProofs` | proofs about `AnswerCache`, `ListCopies` | extends both |
| `MaintenanceProofs` | proofs about `Maintenance` | extends it |
| `HarnessProofs` | proofs about `LoadGen`, `ArmSockets`, `ArmAttempts`, `MockOutage`, `Arm`, `HeldRow`, `UnitEnv`, `Sections`, `Series`, `Wire` | extends them, the two clients through `ArmClients` |

A property that is proved as well as checked is defined in the module of the
component it is about, so the run and the theorem are about one definition; the
modules one run extends have no variable and no action in common.

Actions carry the names of the procedures they model; where a procedure gives up
its lock or waits, it is several actions, one per stretch between two such
points. A procedure that runs under one lock throughout is one action, since
nobody can see the middle of it. Definitions that `PROJECT.json` lists as mutants are
not part of any specification: each is the definition below it with a plausible
bug, named for it, and is there to show that a property can fail.

What the models leave out of the data:

* An answer is a number, a verdict is (the answer it is about, the version of
  the rules it was reached under), a reply from an upstream is one of three
  kinds, a configuration is the few switches that the modelled code reads.
* In `AnswerCache` a lifetime is fresh, stale or lapsed, entries are counted
  and not weighed, and only answers that redirect are there, for only those are
  judged again. `sweep` and `clear_all` go through the shards one at a time; the
  model lets them visit any shard at any moment, which includes every pass.
* In `Group` a member's health is its condition - parked, up or answering - and
  a failure may do anything `MemberCondition` allows. That `MemberHealth` keeps
  to it is `FailureNeverRevives`, checked in the same run.
* An exchange of `Group` takes any time up to its timeout and `Grace`. The comment
  in `resolve_insisting` has an exchange overrun a deadline "by one timeout and no
  more"; the code lets it overrun the timeout itself. A message that has been
  started is given `PIPE_FRAMING_GRACE`, one second, to finish
  (`pipe_framing_deadline`), a dead DoH connection is torn down first
  (`docs/upstreams.md` has both, as "about a second"), and a writer waits for its
  turn on `wmu` behind those already writing, for which the code has no figure.
  `Grace` is all of them together and may be any number. A race of several waits
  on a semaphore for the timeout and no longer; one candidate is asked in place.
* Failover is a round robin that starts at 0, so `Group` takes it as one start
  among those of the round robin.
* In `Pipeline` an id is the caller it was drawn for, and every deadline may have
  passed wherever the code looks at one; so may the idle ceiling, learned or not.
  The backlog gate may turn a caller away whenever somebody else is on the
  connection, which is the only time it can. A cancelled fiber leaves pipe_wait
  with time to spare, so its query may still be asked again.
* `ListCopies` has one list under a name that stays and a url whose query
  changes; which copy is fresh, and whether a download works and holds rules, is
  any choice. A temporary file that was not synced may be cut short by a stop.
* In `Serving` a stream connection is one that starts queries of its own (HTTP/2,
  a refresh) and ends when it likes; one reader and one accept loop stand for
  those of every transport.
* In the harness modules a latency is one more element counted, an id is a
  number that does not repeat, and a payload is left out; the server is an
  environment that may answer, refuse, hang up or die at any step. `Sections`
  has a step for every call that starts, loads, checks, reads or stops a server
  and for every row; what the figures are is left out, but not how they may be
  missing. `server.rss` and `Sampler` drop the errors of `/proc`, so wherever a
  row has a memory or CPU figure (workloads, memory, CPU per query, handshakes,
  connections, in flight, every table of the comparison) it may be 0, or a
  difference from 0, and the row is written all the same. The model has that reading, "missed", and `RowsEarned` does not
  exclude it: it says that no row comes from a load or a check that failed, nor
  from a server that had already been stopped when it was read. `Series` reads a counter
  that grows by three a tick, any reading of which may be missed.
* In `UnitEnv` a line is what Parse can tell of it: header, comment, directive,
  environment or refused, and whether it goes on; an environment is a set of
  assignments, two of which may be of one key. `Wire` keeps the octets, for
  the name's walk is about them; the octets are drawn from a root label, two
  lengths and a pointer.

## 3. Runs

| Run | What it asks | Instance |
|---|---|---|
| `server_sync` | `LockSound`, `PostsConserved`, `NoLostWake`, `RefsExact`, `StaleOnlyForCause`, `WaitersServed` | three threads on two stripes; three fibers and four posts on a semaphore; four fibers on a mutex; two clients, two keys, two refreshes, one other query |
| `forwarding` | `FrameOutlivesFollowers`, `FlightSound`, `LegsCounted`, `ErrorMeansAllFailed`, `WaitsEnd` | three queries, two keys, three slots, windows of two; two queries racing three members with a budget of four legs |
| `answer_cache` | `OwnVerdict`, `EntriesSound`; `CopiesSound` | two queries, two keys in different shards, limits of one to three entries, one swap of the rules; one list with three urls, one of them without a query |
| `lifecycle` | `PartsSound`, `JudgedByOwnRules`; `TableSound`, `NothingClosedUnder` | two requests nesting twice, three generations, two stripes, one leg; a reader, an accept loop, three connections of two prefixes for two places and one of each prefix, two queries in flight |
| `generations_liveness` | `RetiredReleased` | the generations with one request |
| `upstream` | `WaitBounded`, `FairTurns`, `BestReplyStands`; `ParkedInTime`, `FailureNeverRevives`; `NobodyStranded`, `RefsHeld` | three members, two attempts, a deadline of four units, exchanges of a timeout of two overrunning by one; three exchanges at once on one member with the shipped threshold; three callers crowding one connection, and two callers with two connections, for a limit of one waiter |
| `maintenance` | `RebuildSound`, `NoListLost`, `StopAndFollow` | five configurations, two SIGHUPs, a SIGTERM at any moment |
| `harness` | `LoadCounted`; `HeldWhileRead`; `ServersOwn`, `FiguresSettled`; `OutageWasOne`; `ArmLeavesNothing`; `SectionsSound`; `SeriesRight`; `EnvAsShipped`; `WalksAgree`; `HarnessEnds` | two or three clients, sockets or workers of each kind, two arms, five readings, units of up to four lines, messages of up to seven octets |
| `loop_mutex_order` (violated) | `ServedInTurn` | four fibers |
| `rebuild_retry_doc` (violated) | `KeptChangeApplies` | one reload with `blocking.refresh` at 0 |
| `redial_closed_doc` (violated) | `ClosedByServer` | one client that redials |
| `soak_baseline_doc` (violated) | `MissedIsNoBaseline` | a series of five readings |

`server_sync`, `forwarding`, `answer_cache`, `lifecycle`, `upstream` and
`harness` each hold several models
that share no variable: a variable `part`, chosen at the start, says which of
them a behaviour exercises, and the others stay where they began. Each part has
its own variables and its own next-state relation, so such a run reaches exactly
the states of its parts' own runs, one after another.

A property that belongs together with others is checked as their conjunction,
with the type invariant of its module in it:

* `LockSound` is `Exclusion` and `CountsExact`; `FlightSound` is
  `CountsExact` and `OneFlightPerKey`;
* `EntriesSound` is `OneHome` and `SerialNames`; `PartsSound` is
  `NoUseAfterFree` and `OwnedOnce`; `FairTurns` is `HonestTry` and `FreshFirst`;
* `RebuildSound` is `RulesMatch`, `ChangeNotDropped` and `NoFreeUnderRebuild`;
  `StopAndFollow` is `StopEnds` and `RulesFollow`;
* `ParkedInTime` is `HangUpsParkLate` and `DeadMemberParks`;
* `PostsConserved` is `PostsKept`, `NodesOnStack` and `NoCountBesideWaiter`;
  `NoLostWake` is `OneHolder` and `WakeOnItsWay`; `RefsExact` is `RefsAreHolders`
  and `Refresh`'s `TableSound`; `LegsCounted` is `FreedByLast` and `BudgetExact`;
* in `ArmClients` `ServersOwn` is `NotOwnDoing` and `RefusalsDecided`, and
  `FiguresSettled` is `SocketsSettled` and `EveryAttemptFiled`; `LoadCounted` is
  `OneOutcome` and `ResultComplete`, `OutageWasOne` is `GoneStaysGone` and
  `OutageAsReported`, `ArmLeavesNothing` is `ServersStopped` and `RowSettled`;
* `SectionsSound` is `OneServer` and `RowsEarned`, and `SeriesRight` is
  `WindowsJoin`, `DuringOrdered` and `RecoveryRight`.

### Why the bounds are enough

The proofs lift every bound for safety; for liveness, and to see that the
interesting cases are reached, the bounds are these:

* *BrLock*: two stripes so that a scan can pass one and wait at the other,
  three threads so that two readers can meet a writer, or two writers a reader.
* *Generations*: three generations are a current one, one it replaced, and one
  before that which shares a part with both; two requests let one hold while
  the other arrives.
* *Maintenance*: two of the configurations have blocking off and differ in the
  lists they do not read, so that a reload may change one and change no rule. The
  second SIGHUP lands while the rebuild of the first is
  running, done and uncollected, or retried. `RetryCap` is 1 because a tick may
  find the retry due or not in any state, so a longer schedule adds no order.
* *Group*: with three members one can be parked, one tried and one left; the
  deadline of four units is met after one, two or more exchanges of up to three
  units each, and the one that crosses it may be the one that overruns. `MemberLife` has the threshold the code ships with.
* *Race*: four legs are fewer than two full races, so the budget runs out in
  the middle of the second.
* *Inflight*: the two keys' windows overlap, so a hole one of them leaves is in
  the other's path. The ceiling is fixed, although a reload can change it: a
  join reads it once, under the table's lock.
* *Refresh*: an idle refresh is picked by name, the two being alike; one
  other query is enough to bring the count to its bound between the table and
  the submission.
* *AnswerCache*: the limits 1, 2 and 3 give one shard, two equal shares and two
  unequal ones, so that a reload changes the shard count, or only the shares;
  MIN_SHARD_ENTRIES is 1 and MAX_SHARDS 2 (the proof has up to its 16). Two answers are enough for one to
  replace the other under a query that holds it, on either side of a reshard.
* *LoopSema*: four posts exceed the three fibers, so a post meets an empty list.
* *Pipeline*: callers given the connection before any of them has registered
  crowd it whatever the limit, so three on one connection are one that reads, one
  that is parked and one on its way, and with a limit of one a caller that comes
  later has to dial its own; two connections let a caller keep the dead one while
  it is given, or dials, another, and let the shared one be replaced under a
  caller.
* *ListCopies*: two queries, so that one's copy can be found by the other, and
  the url with none, which has no fingerprint. Stops and loads are not bounded.
* *Serving*: limits of two places, and of one for a prefix, meet three
  connections, two of one prefix, so either limit can be the one that refuses;
  entries of both loops and two connections are removed from every place of the
  table. Two queries fill `max_pending`, one of them started by the other.
* *LoadGen*: two questions of a client are enough for an answer to the first to
  arrive under the second; two clients for one to fail where the other does not.
* *ArmAttempts*: one worker may still take a token when the duration is up, for it
  looked at the time before it waited. A channel of one token and three tokens fill it while both
  workers are busy, which is where the stop finds the pacer.
* *MockOutage*: two connections, one from before the outage and one made in it
  or after, each with a query under way at every step of the schedule.
* *Arm*, *Sections*: the second arm, and the second of a loop's rounds, finds
  what the first left behind. Every step of every section may fail.
* *HeldRow*: three clients for two dial tokens, so one has to wait for its turn.
* *Series*: five readings with the outage in the middle of them leave one before,
  two in and one after it; each may be missed, and the ticker may be early by a
  tenth, within the slack the code allows.
* *UnitEnv*: four lines hold a section, a continued line, what it runs into and
  an assignment. *Wire*: seven octets hold every short body, two short labels
  with type and class among them; the messages `query` builds are there besides, for
  names of up to two labels, one of which holds what would be the root label and a
  pointer if a walk came to it out of step.

### Fairness

Safety is checked without any. Liveness assumes:

* a thread or fiber that can take its next step does so (weak fairness of
  readers and writers in `BrLock`, of the leader and its followers in
  `Inflight`, of clients and jobs in `Refresh`, of starting queries and legs in
  `Race`, of woken and holding fibers in `LoopMutex`): the operating system
  schedules threads and a loop runs its ready queue to the end;
* no fairness for a timer or a deadline where the claim is that a wake-up
  suffices: `WaitersServed` and `WaitsEnd` hold though no timer ever fires.
  A leg ends because `exchange` has a timeout of its own;
* in `Generations`, requests finish and a maintenance tick comes again. The
  outermost unpin has strong fairness: a request may be nested in another pin
  again and again, and does finish all the same;
* in `Maintenance`, the main thread runs, and the rebuild thread runs *until a
  stop is asked for*: `StopEnds` must hold although a download never returns.
  For `RulesFollow` a tick finds the retry due, and a load gets all of its
  lists, infinitely often if it is attempted infinitely often; without that no
  retry could be shown to end.

* in `MCHarness`, the harness takes its own next step, its timers and deadlines
  included, and nothing at all is assumed of the server: it may stay silent,
  hang up or die. Only the four parts that wait for somebody have it: the load
  generator, the clients whose stop waits for workers, the matrix of arms and a
  row of held connections. Its parts stop when they are done, so the run does
  not take a stop for a deadlock; that none stops early is `HarnessEnds`.

`WaitersServed` is conditional on what the code itself leaves open: a fiber
may take `loop.Mutex` past the queue each time it is free, so a waiter is only
sure of it once fibers stop doing that. What is shown is that being overtaken,
however often, never leaves a waiter where no unlock finds it.

### Four disagreements with the documentation

* `loop_mutex_order`: the comment on `Mutex` (`src/loop/sync.odin`) says that
  waiters "are served in turn". An unlock that finds the first waiter already
  woken and still on its way wakes the second one as well, and the two compete.
  No waiter is lost (`NoLostWake`, `WaitersServed`), only the order.
* `rebuild_retry_doc`: `docs/install.md` says that a change kept back for a list
  that cannot be had "applies at the retry". With `blocking.refresh` at 0, or
  with `--no-fetch`, no retry is scheduled and the change waits for the next
  SIGHUP.
* `redial_closed_doc`: `closed` is documented as the connections the server
  closed (`bench/cmd/rrlexp/main.go`). runTCPRedial also counts there a read that
  its own deadline of two seconds ended; the other clients keep those apart,
  which is `RefusalsDecided`.
* `soak_baseline_doc`: "a missed scrape is not a baseline", says soakTable. It
  looks at that from the second reading on; when the first is the one missed,
  the first row is a difference from nothing, and counts the warm-up in.

### Behaviours the properties leave open

* In a sequential group whose first two members are dead, one query per cooldown
  pays for finding that out again. The comment on `resolve_sequential` states it
  as the design; at a low query rate that can be most of the queries.
* A client of an experiment arm that cannot open its sockets calls `fatal` inside
  runClient, which leaves the arm's server running. `ServersStopped` is about the
  ways out of runArm, and says nothing once the process has died.
* When the orchestrator cannot write its report to `-out`, it ends without
  stopping its own mocks.
* A stream client of the load generator that loses its connection for good does
  not hand over the latencies it still holds. `ResultComplete` leaves the latencies
  of such a client out.
* A stop, or a write that fails, between the removal of a copy's fingerprint and
  the write of the new one leaves a copy that a list the file does not name cannot
  fall back on, although it is of its url. One before the removal leaves the new
  url's copy beside the old url's fingerprint, for which it would stand in if the
  configuration went back. A list the file does name takes a copy without a
  fingerprint for its own whatever the query. `CopiesSound` states these as
  exceptions; the comment in save_cached_copy knows of the stop between the two.
* The shutdown waits for connections "with no overall deadline" (stop_metrics'
  comment): a client that keeps asking on a stream connection holds it up, for
  `stop` is looked at by the listener loops only. So no liveness is claimed for
  it; `NothingClosedUnder` says what may not happen before the end.
* A memory or CPU reading that misses, because the server has died or `/proc` does
  not answer, is written as 0 or as a difference from 0, in every section that has
  such a figure: `server.rss` and `Sampler` drop the error. `HeldWhileRead` is about
  the connections, `SectionsSound` about loads, checks and servers already stopped;
  neither says that the figure was read.
* The comment in `resolve_insisting` (`src/upstream/group.odin`) bounds the overrun
  past the deadline by one timeout; it disregards the grace of a started message,
  which `docs/upstreams.md` has. `WaitBounded` is stated with it.

## 4. Proofs

Every invariant and every action property that a passing run checks is a theorem,
for every value of the constants that satisfies the named assumptions of its
module; the bounds of section 3 are then only those of a search. An assumption says that a set of threads, queries or connections is
finite, that a limit is a number, or that the value standing for "none" is not one
of the others; the few that say more are named below. Each proof has the same shape: an inductive invariant, a lemma that
Init implies it, a lemma per action that the action keeps it, and a lemma or a
step that it implies the property. Each invariant has been checked by TLC, on
the instances of section 3, as an invariant of its own.

| Module | Theorems | Invariant |
|---|---|---|
| `SyncProofs` | `ExclusionHolds`, `CountsExactHolds`, `LockSoundHolds`, `LockImplementedHolds`; `PostsConservedHolds`, `SemaImplementedHolds`; `NoLostWakeHolds`, `MutexImplementedHolds` | `LockInv`; `SemaInv`; `MutexInv` |
| `RefreshProofs` | `RefsExactHolds`, `StaleOnlyForCauseHolds`, `PendingExactHolds` | `RefreshInv` |
| `ForwardingProofs` | `FrameOutlivesFollowersHolds`, `CountsExactHolds`, `OneFlightPerKeyHolds`, `FlightSoundHolds`; `LegsCountedHolds`, `ErrorMeansAllFailedHolds` | `IInv`; `RaceInv` |
| `LifecycleProofs` | `PartsSoundHolds`, `JudgedByOwnRulesHolds`; `TableSoundHolds`, `NothingClosedUnderHolds` | `GenInv`; `ServingInv` |
| `UpstreamProofs` | `ParkedInTimeHolds`, `FailureNeverRevivesHolds`; `RefsHeldHolds`, `NobodyStrandedHolds`; `WaitBoundedHolds`, `FairTurnsHolds`, `BestReplyStandsHolds` | `MemberInv`; `PipeInv`; `GroupInv` |
| `StoreProofs` | `CopiesSoundHolds`; `OwnVerdictHolds`, `EntriesSoundHolds`, `CacheImplementedHolds` | `CopyInv`; `CacheInv` |
| `MaintenanceProofs` | `RebuildSoundHolds`, `NoListLostHolds` | `MInv` |
| `HarnessProofs` | `LoadCountedHolds`; `ServersOwnHolds`, `FiguresSettledHolds`; `OutageWasOneHolds`; `ArmLeavesNothingHolds`; `HeldWhileReadHolds`; `EnvAsShippedHolds`; `SectionsSoundHolds`; `SeriesRightHolds`; `WalksAgreeAlways` | `LoadInv`; `SocketInv` and `AttemptInv`; `MockInv`; `ArmInv`; `HeldInv`; `UnitInv`; `SectionsInv`; `SeriesInv`; `WireInv` |

### The lock, the semaphore and the mutex

`Exclusion` is not inductive: that a writer inside meets no reader inside follows
from what it saw of each stripe *some time ago*. The inductive invariant `LockInv`
adds `TypeOK`; `CountsExact`, that a stripe's count is the number of readers
announced on it, which turns the writer's reading of zero into a statement about
the readers; that the writers' mutex names the only writer and `writing` is
raised while it scans; and `Drained` for every stripe a scanning writer is past,
that no reader is inside on it, which is what the order of the four atomic
operations buys. The proof has one step per action and under it one per part the
action can disturb. The counting lemmas rest on the facts of
`FiniteSetTheorems` about adding and removing one element.

`LockImplementedHolds` is the refinement: with the readers inside and the writer
inside as its state, `BrLock` implements `RwLock`, a reader entering at the look at
`writing` that finds it lowered and a writer at the last stripe it sees at zero;
every other step is a stutter. It is what allows `Generations`, and `AnswerCache`
for the swap of the filter's rule sets, to take a stretch under the lock as one
step. TLC finds it so on the instance of
`server_sync` too, as `LockImplemented`.

`PostsConserved` of the semaphore needs one fact more, `ExpiredFound`: a fiber
whose deadline passed is on the list still, or a post has marked its node, and one
that was woken has been marked. That is what its last look under the lock goes by,
and without it a post could be both consumed and reported as a timeout.
`NoLostWake` is proved with the history of arrivals made exact (`ArrivedExact`),
the holder unique, and `WakeOnItsWay` inductive with them.

`SemaImplementedHolds` says what those facts come to for the callers: `LoopSema`
implements `Semaphore`, whose permits are the count and the marks not yet seen. A
wait that returns true has one permit less behind it, no newcomer takes a permit
while as many are asleep as there are permits, and a wait that returns false
leaves no more permits than there are others to use them. The waits that returned
true are part of the abstraction: without them a mark that was thrown away would
pass for a permit that was used. `Race` and `Refresh` have a count of permits
where the code has a `Sema`, which is this. `MutexImplementedHolds` says of
`loop.Mutex`, which releases the lock and lets the woken waiter race for it, that
it implements `RwLock` with writers only. TLC finds both so on the instance of
`server_sync`.

### Refreshes

The references of a refresh are counted through who it is that holds them: a
client has at most one refresh and a refresh at most one client (`Holding`); until
the job has been handed its reference the client has all three (`Slotted`,
`RefCounts`), so a refused submission gives back exactly what was taken. That the
permit of the semaphore is posted once, after the result stands (`Published`),
makes a stale answer one for cause. `PendingExact` comes out beside them: the
queries in flight are the jobs and the other queries, at every moment.

### Flights

The three properties of `Inflight` are proved together, since each needs the
others. A leader leaves when its flight has no waiters, so that its frame outlives
its followers rests on the count being exact. The count is exact across a new lead
because nobody follows a query that is out, which is the frame property again. The
inductive invariant adds `Placed` (a query that follows is inside flight_follow,
and is not itself followed: a query may keep a landed flight from an earlier lead)
and `InTable` (the table names only leaders still flying, at the slot their flight
remembers and within their key's window), which makes a search of the window a
search of the whole table. That the first free slot is a free one takes the
well-foundedness of the naturals.

### Races

A race's own state is a function of its legs: `Counted` says that the references
are the legs running and the query itself, and `Told` what a post of the semaphore
means, a winner recorded before or the last leg gone. With that an error returned
is one every leg gave. Races meet only in the budget, whose count is the legs of
all of them.

### Generations and the shutdown

That nothing is freed under a request (`PartsSound`) rests on an order: the
generations that exist are the retired, the current one and, between its build and
its swap, a private one, oldest first (`InOrder`); a part has one owner among
them, no older than any that holds it (`Owned`), so the oldest retired generation
owns nothing a younger one still uses; and what reap_generations has read of its
stripes is still so when it has read the last of them (`ReapedRight`), because a
retired generation gains no pins: a request counts itself in on the generation it
read with the lock held (`Pinned`). `JudgedByOwnRules` needs that a policy number
stands for one set of rules in every generation and every stored answer, and that
no stored answer has one from the future (`PolicyTells`).

`TableSound` rests on the table and the fibers' own indices being each other's
inverse, which is what lets the last entry take the place of the one that goes.
`NothingClosedUnder` counts the uses of the reader's socket (`HeldExact`): the
listener's own, one for a datagram in hand, and one for each query to be answered
on it.

### Upstreams

`ParkedInTime` is arithmetic on two counters: `Paced` bounds the failures charged
by the two, and the square of the threshold in the property is where fewer than a
threshold of hang-ups may pass between two failures that count.
`FailureNeverRevives` is the step from `MemberHealth` to `MemberCondition`, the
abstraction `Group` is built on: the health of a member changes on a failure only
as the abstraction allows.

`NobodyStranded` needs who is registered where (`Registered`), that one at most
reads (`OneReads`) and that a parked caller has somebody awake on its connection
(`SomeoneAwake`), which every way out of the reading has to restore. The
references count the callers on a connection, those that keep a dead one, and the
upstream while it shares it.

In `Group` the budget of a call is tied to the deadline of the question (`Timed`),
which an exchange may cross once and by its own length (`Longest`: no exchange is
started past the line, so overruns do not add up), what is in hand to what was
heard (`Heard`), and the place of the scan to who was
asked (`Scanned`): one pass from any start meets every member, whatever cooldowns
end under it. That is the one arithmetic argument, about remainders.

### The answer cache and the lists

The cache's invariant says of each shard that its list is sound (`Housed`: every
entry hashes there, alone under its key, numbered by the shard, its verdict about
its bytes) and of each query that the number it holds names the bytes it read, in
every shard (`Held`). Every operation but put and reshard *draws* the new list
from the old one, each entry at most once; that drawing keeps both is one lemma
the operations share. Put's number is above any a query holds; reshard starts all
shards from the highest. The proof takes up to sixteen shards, which is the code's
`MAX_SHARDS`, and any hash; the powers of two are taken case by case, there being
no induction over the exponent.

`CacheImplementedHolds` takes the shards away: the answers of all the lists are one
store (`AnswerStore`), a lookup begins when a query makes for the lock and is one
step under it. The store may forget anything at any moment, which is what a cache
is; what the refinement excludes is that it makes up, mixes up or brings back. A
lookup that misses leaves nothing under its key in *any* list, which is where
`AnswerHome`, an answer being in the list its key leads to, meets the second look
at `shard_bits` in lock_shard; a stored answer takes the place of every earlier one
of its key and is itself kept, every shard in use having room for one; and forget
takes the bytes its query holds or nothing (`Held` again). Under the mutant
`AimedOnce`, a lock_shard that does not look again, TLC finds a miss of an answer
that is there; with the code as it is TLC finds the refinement to hold on the
instance of `answer_cache` with limits of one and two.

A list's copy on disk is whole because what is renamed to its name has been
synced. Whose it is follows from the replacement having got to its end: until then
the copy there is the one just put there (`Replacing`), and afterwards the
fingerprint, or there being none, tells the truth (`Told`). One url at most of the
list is assumed to have no query, the list's name and the rest of the url being
given.

### Maintenance

The rebuild there is is for the last reload, or another one follows it
(`Following`), and one that is over and was for the last reload kept the old rules
for a list that was gone, or the new ones are in effect (`Ended`). `Booting` says
that nothing had been loaded before the first. The proof corrected the property:
`ChangeNotDropped` said that the rebuild in progress is for the *lists* of the
live configuration, which is false of two configurations with blocking off, whose
lists nobody reads; what the code compares, and what now is stated, is the
snapshot that the rules depend on. The instance has had two such configurations
since.

### The harness

The load generator's result rests on two counts (`LoadInv`): the answered
questions are those recorded and those whose latencies no slot has handed over
yet, and the errors cover the reconnects made and being made. `CountedOnce` says
when a question can be counted: not while it is the slot's current one and not
before it was asked, so a reply that comes after its question was given up finds
nothing to count. `Reportable` says that a report follows every slot and every
close.

The clients of an arm that hold their sockets are counted three ways
(`SocketInv`): those counted closed and those whose readers have not heard of it
yet are no more than the server ended; the replies and the questions it may still
answer are no more than those offered and those written but not yet counted; and a
reply has its latency, because a question is tracked before it is written
(`TrackedFirst`). The clients whose questions are attempts
have each attempt filed or in the air (`Filed`), and a DoH worker about to read
its next number has gone past every number it used (`Named`), which is why two
workers may share one counter. The theorems of the two together assume both
specifications at once, as the report does.

`ArmInv` says which goroutines may run at each place of runArm, and with that
nobody writes a row that is read; `MockInv` what the mode and the listener tell of
the schedule (`ModeTells`), why a connection from before the outage is not
answered in it (`NoGhost`: it is found stale by the listener, or, past that, by the
mode) and who has the ports when no error was met; `HeldInv` that the two
processes of a held row keep in step over their pipe (`InStep`), that what was
printed still is so when it is used (`Printed`), and that an answered client is
connected while its generator lives (`Kept`).

The parse of the unit is one pass with two flags, and `EnvAsShipped` compares it
with a reading of all the lines at once. `UnitInv` says that after each line the
flags are what that reading says of the *next* line (`ParsedSoFar`), and two lemmas
how one more line changes it: what is before a line settles its place
(`PlaceSettled`), and a comment passes on the place of the line it follows
(`NextPlace`). The proof made the exception exact: a process that a wrapper left
with the harness's own environment passes Check when that has every assignment of
the unit, and then any other allocator setting with them.

`SectionsInv` says of the benchmark that where a section is in its script decides
what there is (`AsWritten`): whether a server runs and whether its stop is
deferred, whether an error may be carried and a log may lie about, and that the
figures at a row are of loads and checks that passed. A reading of `/proc` is
always of a running server (`ReadWhileUp`), though it may miss. What the script has to be like for that is
`ScriptsKept`, an assumption of `Sections` that has no parameter: TLC evaluates it
for the scripts as they are written, in full, and the proof goes from there to
every selection of sections and every way the steps may fail.

A series may have any length. `SeriesInv` gives each reading its clock and counter
as functions of its place; what the loops over the readings compute is then proved
by lemmas about sets of places, whose parameters are sets and functions and not
predicates: a set of numbers has a least element (`LeastOf`), what holds at the
start and is passed on holds throughout (`Upwards`), and so for what a loop carries
(`Carried`). The outage is assumed to begin before it ends (`OutageTimes`).

`WalksAgree` compares two walks over a message of any octets. A walk is a recursive
function, which is the chosen fixed point of its definition: that there is one is
proved from the end of the message backwards (`Chased`), and then that Question
reads a question exactly where questionEnd finds one, and to the same end
(`QuestionIs`). A walk depends on nothing past its end (`SameWalk`), which is why
a reply that begins with the query's question has that question. For the queries
the harness builds, of labels of 1 to 63 octets (`WireConstants`), the walk is
followed label by label (`NameWalked`) and always reaches the question's end.

The other assumptions are that clients, sockets, workers and a row's clients are
finitely many, that DoH's are among the clients, and that the caps are numbers.

### Checked with TLC only

Liveness, for fairness and ENABLED are outside the prover's reach:
`WaitersServed`, `WaitsEnd`, `RetiredReleased`, `StopAndFollow`, `HarnessEnds`. The
properties of the runs that expect a violation are false, and have no proof.

## 5. Plan, and what is not modelled

Done, in this order: the lock, generations, maintenance, groups and health,
races, flights, refreshes, loop synchronisation, the cache's verdicts and shards;
then the harness, from the clients to the orchestrator; then upstream
connections, the lists' copies on disk, and the listeners, the connection table
and the shutdown.

Next to model:

1. `Scheduler`: posting to a loop, parking and waking a fiber, cancellation;
   `LoopSema` and `LoopMutex` are then stated over it.
2. `Bootstrap`, and the DNSSEC zone cache with its single flights and budgets.
3. `AnswerLife`: TTL ceilings, `min_ttl`, signatures, stale windows and prefetch
   claims, as pure operators checked against the RFCs' reading in the comments.
4. `RateLimit`, cookies, ticket keys, the log's repeat guard.
5. HTTP/2: stream states and windows; one stream connection's reads, budgets and
   linger; the resolver's order of decisions; which filter rule wins.

Not to be modelled: configuration and YAML, the wire format of the server, the
regular expressions and their differential test against RE2, DNSSEC's canonical
form and signatures, metrics, addresses and privileges, and in the harness the
report's text, the tables of arms and the configurations of the other servers.
They are conversions, tables or calls into libraries, with no order of events to
get wrong; the repository tests and fuzzes them. Of the modelled parts these are
left out: the load generator's paced schedule and percentiles, the verdicts drawn
from a soak, and the medians and verdicts of the benchmark's tables.

Next to prove: compositions. `Race` and `Refresh` wait on a number of permits and
`Generations` under an exclusion; with `LoopSema` and `BrLock` in their places they
should implement the modules as they are, now that those two are known to implement
the permits and the lock.

## 6. Running it

    tlc -config MCServerSync.cfg MCServerSync
    tlapm SyncProofs.tla

and so on for each pair in `PROJECT.json`; no run takes more than three minutes
on two cores.
