---------------------------- MODULE MCServerSync ----------------------------
(* What the server's threads and fibers wait on, on small instances: the    *)
(* reader-writer lock, the loop's semaphore and mutex, and a refresh, whose *)
(* client waits on such a semaphore.  A behaviour exercises one of them,    *)
(* chosen at the start.                                                     *)
EXTENDS BrLock, LoopSema, LoopMutex, Refresh

CONSTANTS
  t1, t2, t3,              (* BrLock                                        *)
  f1, f2, f3, f4,          (* LoopSema and LoopMutex                        *)
  c1, c2, k1, k2, x1, x2   (* Refresh                                       *)

VARIABLE part              (* the one exercised                             *)

MCThreads == {t1, t2, t3}
MCSemaFibers == {f1, f2, f3}
MCLockFibers == {f1, f2, f3, f4}
MCClients == {c1, c2}
MCKeys == {k1, k2}
MCRefreshes == {x1, x2}

allVars == <<part, vars, semaVars, mutexVars, refreshVars>>

SyncInit ==
  /\ part \in {"brlock", "sema", "mutex", "refresh"}
  /\ Init /\ SemaInit /\ MutexInit /\ RefreshInit

SyncNext ==
  /\ UNCHANGED part
  /\ \/ part = "brlock" /\ Next /\ UNCHANGED <<semaVars, mutexVars, refreshVars>>
     \/ part = "sema" /\ SemaNext /\ UNCHANGED <<vars, mutexVars, refreshVars>>
     \/ part = "mutex" /\ MutexNext /\ UNCHANGED <<vars, semaVars, refreshVars>>
     \/ part = "refresh" /\ RefreshNext /\ UNCHANGED <<vars, semaVars, mutexVars>>

(* Each part's own fairness, in the behaviours that exercise it.            *)
SyncFairness ==
  /\ \A t \in Threads : /\ WF_vars(part = "brlock" /\ Reader(t))
                        /\ WF_vars(part = "brlock" /\ Writer(t))
  /\ \A f \in LockFibers : /\ WF_mutexVars(part = "mutex" /\ Runs(f))
                           /\ WF_mutexVars(part = "mutex" /\ Unlock(f))
  /\ \A c \in Clients : WF_refreshVars(part = "refresh" /\ Client(c))
  /\ \A x \in Refreshes : WF_refreshVars(part = "refresh" /\ Job(x))

SyncSpec == SyncInit /\ [][SyncNext]_allVars /\ SyncFairness

-----------------------------------------------------------------------------
(* The i-th waits: a writer for the stripes to drain, a fiber for the       *)
(* mutex, a client on a refresh, or a refresh for those that hold it.       *)
Waits(i) ==
  \/ i \in 1..3 /\ pc[<<t1, t2, t3>>[i]] = "scan"
  \/ i \in 1..4 /\ doing[<<f1, f2, f3, f4>>[i]] \in {"queued", "woken"}
  \/ i \in 1..2 /\ holds[<<c1, c2>>[i]] # None
  \/ i \in 3..4 /\ r[<<x1, x2>>[i - 2]].refs > 0

(* write_lock past new readers, lock (once fibers stop taking the mutex     *)
(* past its queue) and refresh_take (by the job's post alone, with no help  *)
(* from the timer): nobody waits for good.                                  *)
WaitersServed ==
  <>[][\A f \in LockFibers : ~LockFast(f)]_mutexVars =>
    \A i \in 1..4 : Waits(i) ~> ~Waits(i)
=============================================================================
