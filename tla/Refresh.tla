------------------------------ MODULE Refresh ------------------------------
(***************************************************************************)
(* The detached refresh of an expired or expiring entry, in                 *)
(* src/server/refresh.odin, and the count of queries in flight it is        *)
(* admitted by (submit_query, src/server/queries.odin).                     *)
(*                                                                         *)
(* A refresh is held by the client that waits on it, the table that keeps   *)
(* others from starting it again, and the job that runs it.  Each critical  *)
(* section is an action; a client's timer may fire at any moment it sleeps. *)
(***************************************************************************)
EXTENDS Integers, FiniteSets

CONSTANTS
  Clients,     (* queries that find their entry expired, or about to        *)
  Keys,        (* the cache keys they ask for                               *)
  Refreshes,   (* the refreshes there may be, reused as they are freed      *)
  Ceiling,     (* refresh_ceiling, of at most REFRESH_SLOTS                 *)
  MaxPending,  (* server.max_pending                                        *)
  MaxOthers,   (* how many other queries the model has in flight            *)
  None         (* no refresh, no key                                        *)

ASSUME RefreshesFinite == IsFiniteSet(Clients) /\ IsFiniteSet(Refreshes)
ASSUME RefreshBounds == {Ceiling, MaxPending, MaxOthers} \subseteq Nat
ASSUME NoneIsNone == None \notin Keys \cup Refreshes

VARIABLES
  r,         (* each refresh: key, refs, done, result, permits of its sema  *)
  table,     (* the refreshes in the table's slots                          *)
  job,       (* where the job of each refresh is                            *)
  client,    (* where each client is                                        *)
  holds,     (* the refresh each client holds, or None                      *)
  fired,     (* the clients whose timer fired                               *)
  pending,   (* s.pending                                                   *)
  others,    (* how many of those are queries of another kind               *)
  stopped    (* the loops start no more fibers                              *)

refreshVars == <<r, table, job, client, holds, fired, pending, others, stopped>>

Gone == [key |-> None, refs |-> 0, done |-> FALSE, result |-> "none", permits |-> 0]
Idle == {x \in Refreshes : r[x].refs = 0 /\ job[x] = "none" /\ x \notin table}

RefreshInit ==
  /\ r = [x \in Refreshes |-> Gone]
  /\ table = {}
  /\ job = [x \in Refreshes |-> "none"]
  /\ client = [c \in Clients |-> "out"]
  /\ holds = [c \in Clients |-> None]
  /\ fired = {}
  /\ pending = 0 /\ others = 0 /\ stopped = FALSE

(* refresh_release: the last of the three frees it.                         *)
Released(x, n) == [r EXCEPT ![x] = IF r[x].refs = n THEN Gone ELSE [r[x] EXCEPT !.refs = @ - n]]

-----------------------------------------------------------------------------
(* start_refresh, its critical section.  A client that is declined is       *)
(* served its expired bytes and changes nothing.                            *)
Running(k) == \E x \in table : r[x].key = k

StartRefresh(c, k, prefetch) ==
  /\ client[c] = "out"
  /\ ~Running(k) /\ Cardinality(table) < Ceiling
  /\ Idle # {}
  /\ LET x == CHOOSE x \in Idle : TRUE
     IN  /\ r' = [r EXCEPT ![x] = [Gone EXCEPT !.key = k, !.refs = 3]]
         /\ table' = table \cup {x}
         /\ holds' = [holds EXCEPT ![c] = x]
  /\ client' = [client EXCEPT ![c] = IF prefetch THEN "prefetching" ELSE "submitting"]
  /\ UNCHANGED <<job, fired, pending, others, stopped>>

(* submit_query: counted and admitted in one step; a prefetch's caller lets *)
(* go of its reference at once.                                             *)
Submit(c) ==
  /\ client[c] \in {"submitting", "prefetching"} /\ ~stopped
  /\ pending < MaxPending
  /\ pending' = pending + 1
  /\ job' = [job EXCEPT ![holds[c]] = "resolving"]
  /\ client' = [client EXCEPT ![c] = IF client[c] = "prefetching" THEN "leaving" ELSE "checking"]
  /\ UNCHANGED <<r, table, holds, fired, others, stopped>>

(* Full, or the loops are stopping: all three references go, the table's    *)
(* slot first.                                                              *)
SubmitRefused(c) ==
  /\ client[c] \in {"submitting", "prefetching"}
  /\ stopped \/ pending >= MaxPending
  /\ table' = table \ {holds[c]}
  /\ client' = [client EXCEPT ![c] = "undoing"]
  /\ UNCHANGED <<r, job, holds, fired, pending, others, stopped>>

Undo(c) ==
  /\ client[c] = "undoing"
  /\ r' = Released(holds[c], 3)
  /\ holds' = [holds EXCEPT ![c] = None]
  /\ client' = [client EXCEPT ![c] = "out"]
  /\ UNCHANGED <<table, job, fired, pending, others, stopped>>

-----------------------------------------------------------------------------
(* refresh_take.                                                            *)
TakeChecksOnly(c) ==
  /\ client[c] = "checking"
  /\ client' = [client EXCEPT ![c] = IF r[holds[c]].done THEN "reading" ELSE "stale"]
  /\ UNCHANGED <<r, table, job, holds, fired, pending, others, stopped>>

TakeChecks(c) ==
  /\ client[c] = "checking"
  /\ client' = [client EXCEPT ![c] = IF r[holds[c]].done THEN "reading" ELSE "sleeping"]
  /\ UNCHANGED <<r, table, job, holds, fired, pending, others, stopped>>

TakeWoken(c) ==
  /\ client[c] = "sleeping" /\ r[holds[c]].permits > 0
  /\ r' = [r EXCEPT ![holds[c]].permits = @ - 1]
  /\ client' = [client EXCEPT ![c] = "reading"]
  /\ UNCHANGED <<table, job, holds, fired, pending, others, stopped>>

TimerFires(c) ==
  /\ client[c] = "sleeping"
  /\ client' = [client EXCEPT ![c] = "stale"]
  /\ fired' = fired \cup {c}
  /\ UNCHANGED <<r, table, job, holds, pending, others, stopped>>

TakeReads(c) ==
  /\ client[c] = "reading"
  /\ client' = [client EXCEPT ![c] = IF r[holds[c]].result = "answer" THEN "leaving" ELSE "stale"]
  /\ UNCHANGED <<r, table, job, holds, fired, pending, others, stopped>>

(* The caller's refresh_release, whichever way it was answered.             *)
Leave(c) ==
  /\ client[c] \in {"leaving", "stale"}
  /\ r' = Released(holds[c], 1)
  /\ holds' = [holds EXCEPT ![c] = None]
  /\ fired' = fired \ {c}
  /\ client' = [client EXCEPT ![c] = "out"]
  /\ UNCHANGED <<table, job, pending, others, stopped>>

-----------------------------------------------------------------------------
(* refresh_job: resolve_query over its own copy of the query, and the       *)
(* result published under the refresh's lock, with an answer in it or       *)
(* without (undecoded, not ok, unanswered, empty: refresh_take reads them   *)
(* alike); then finish_refresh, then query_done.                            *)
JobResolves(x) ==
  /\ job[x] = "resolving"
  /\ \E got \in {"answer", "none"} : r' = [r EXCEPT ![x].result = got]
  /\ job' = [job EXCEPT ![x] = "resolved"]
  /\ UNCHANGED <<table, client, holds, fired, pending, others, stopped>>

JobUnslots(x) ==
  /\ job[x] = "resolved"
  /\ table' = table \ {x}
  /\ job' = [job EXCEPT ![x] = "unslotted"]
  /\ UNCHANGED <<r, client, holds, fired, pending, others, stopped>>

JobReleasesSlot(x) ==
  /\ job[x] = "unslotted"
  /\ r' = Released(x, 1)
  /\ job' = [job EXCEPT ![x] = "finishing"]
  /\ UNCHANGED <<table, client, holds, fired, pending, others, stopped>>

JobMarksDone(x) ==
  /\ job[x] = "finishing"
  /\ r' = [r EXCEPT ![x].done = TRUE]
  /\ job' = [job EXCEPT ![x] = "done"]
  /\ UNCHANGED <<table, client, holds, fired, pending, others, stopped>>

JobPosts(x) ==
  /\ job[x] = "done"
  /\ r' = [r EXCEPT ![x].permits = @ + 1]
  /\ job' = [job EXCEPT ![x] = "posted"]
  /\ UNCHANGED <<table, client, holds, fired, pending, others, stopped>>

JobReleasesBoth(x) ==
  /\ job[x] = "posted"
  /\ r' = Released(x, 2)
  /\ job' = [job EXCEPT ![x] = "ending"]
  /\ UNCHANGED <<table, client, holds, fired, pending, others, stopped>>

JobReleases(x) ==
  /\ job[x] = "posted"
  /\ r' = Released(x, 1)
  /\ job' = [job EXCEPT ![x] = "ending"]
  /\ UNCHANGED <<table, client, holds, fired, pending, others, stopped>>

JobEnds(x) ==
  /\ job[x] = "ending"
  /\ pending' = pending - 1
  /\ job' = [job EXCEPT ![x] = "none"]
  /\ UNCHANGED <<r, table, client, holds, fired, others, stopped>>

-----------------------------------------------------------------------------
(* Other queries admitted by the same count, and the loops stopping.        *)
OtherBegins ==
  /\ ~stopped /\ pending < MaxPending /\ others < MaxOthers
  /\ pending' = pending + 1 /\ others' = others + 1
  /\ UNCHANGED <<r, table, job, client, holds, fired, stopped>>

OtherEnds ==
  /\ others > 0
  /\ pending' = pending - 1 /\ others' = others - 1
  /\ UNCHANGED <<r, table, job, client, holds, fired, stopped>>

Stop ==
  /\ ~stopped
  /\ stopped' = TRUE
  /\ UNCHANGED <<r, table, job, client, holds, fired, pending, others>>

Client(c) ==
  \/ Submit(c) \/ SubmitRefused(c) \/ Undo(c)
  \/ TakeChecks(c) \/ TakeWoken(c) \/ TakeReads(c) \/ Leave(c)

Job(x) ==
  \/ JobResolves(x) \/ JobUnslots(x) \/ JobReleasesSlot(x) \/ JobMarksDone(x)
  \/ JobPosts(x) \/ JobReleases(x) \/ JobEnds(x)

RefreshNext ==
  \/ \E c \in Clients :
       \/ \E k \in Keys, prefetch \in BOOLEAN : StartRefresh(c, k, prefetch)
       \/ Client(c) \/ TimerFires(c)
  \/ \E x \in Refreshes : Job(x)
  \/ OtherBegins \/ OtherEnds \/ Stop

RefreshSpec == RefreshInit /\ [][RefreshNext]_refreshVars

(* A fiber that can run runs on and resolve_query ends by its deadline.     *)
(* Nothing is assumed of the timer: the post alone must wake the client.    *)
RefreshFairness ==
  /\ \A c \in Clients : WF_refreshVars(Client(c))
  /\ \A x \in Refreshes : WF_refreshVars(Job(x))

RefreshFairSpec == RefreshSpec /\ RefreshFairness

-----------------------------------------------------------------------------
(* Every variable stays in its range.                                       *)
RefreshTypeOK ==
  /\ r \in [Refreshes -> [key : Keys \cup {None}, refs : 0 .. 3, done : BOOLEAN,
                          result : {"none", "answer"}, permits : 0 .. 1]]
  /\ table \in SUBSET Refreshes /\ fired \in SUBSET Clients
  /\ job \in [Refreshes -> {"none", "resolving", "resolved", "unslotted", "finishing", "done", "posted", "ending"}]
  /\ client \in [Clients -> {"out", "submitting", "prefetching", "undoing", "checking",
                         "sleeping", "reading", "leaving", "stale"}]
  /\ holds \in [Clients -> Refreshes \cup {None}]
  /\ pending \in Nat /\ others \in 0 .. MaxOthers /\ stopped \in BOOLEAN

(* The parties that still have a reference to x and may touch it: its       *)
(* client, the table until the slot's reference is dropped, and the job.    *)
WaiterRef(x) == Cardinality({c \in Clients : holds[c] = x})
TableRef(x) == IF x \in table \/ job[x] = "unslotted" THEN 1 ELSE 0
JobRef(x) == IF job[x] \notin {"none", "ending"} THEN 1 ELSE 0

(* The references of a refresh are exactly those who will still touch it:   *)
(* none of them finds it freed, and the last of them frees it.  A refresh   *)
(* being handed over has the one that is about to be the job's, and one     *)
(* being undone has all three in its client's hands.                        *)
RefsAreHolders ==
  \A x \in Refreshes :
    r[x].refs =
      IF \E c \in Clients : holds[c] = x /\ client[c] \in {"submitting", "prefetching", "undoing"}
      THEN 3 ELSE WaiterRef(x) + TableRef(x) + JobRef(x)

(* One refresh per key is in the table, never more than the ceiling, and    *)
(* each has a job or a client bound to take it out again.                   *)
TableSound ==
  /\ \A x, y \in table : r[x].key = r[y].key => x = y
  /\ Cardinality(table) <= Ceiling
  /\ \A x \in table :
       \/ job[x] \in {"resolving", "resolved"}
       \/ \E c \in Clients : holds[c] = x /\ client[c] \in {"submitting", "prefetching"}

(* The references and the table of the refreshes.                           *)
RefsExact == RefreshTypeOK /\ RefsAreHolders /\ TableSound

(* A client is given its expired bytes only where its timer fired or the    *)
(* refresh it waited for came back with nothing.                            *)
StaleOnlyForCause ==
  \A c \in Clients : client[c] = "stale" => c \in fired \/ (r[holds[c]].done /\ r[holds[c]].result # "answer")
=============================================================================
