------------------------------ MODULE LoopSema ------------------------------
(***************************************************************************)
(* loop.Sema of src/loop/sync.odin, with waiter_block's wait: a fiber parks *)
(* on a node in its own stack frame, and a post and the fiber's deadline    *)
(* (or its cancellation) may both wake it.  A post takes its count on the   *)
(* waiter's behalf and marks the node; a waiter whose deadline passed looks *)
(* at the mark under the lock before it takes itself off the list.          *)
(***************************************************************************)
EXTENDS Naturals, Sequences, FiniteSets, Functions, SequencesExt

CONSTANTS
  SemaFibers,  (* fibers and threads that wait                             *)
  MaxPosts     (* bound: posts in one behaviour                            *)

ASSUME SemaFibersFinite == IsFiniteSet(SemaFibers)
ASSUME MaxPostsNat == MaxPosts \in Nat

VARIABLES
  count,      (* Sema.count                                                *)
  waiters,    (* Sema.waiters, whose nodes live in the fibers' frames      *)
  signalled,  (* fibers whose node a post has marked                       *)
  waiting,    (* each fiber: "out", "parked", or woken for a reason        *)
  posted,     (* history: counts posted                                    *)
  taken       (* history: waits that returned true                         *)

semaVars == <<count, waiters, signalled, waiting, posted, taken>>

SemaInit ==
  /\ count = 0
  /\ waiters = <<>>
  /\ signalled = {}
  /\ waiting = [f \in SemaFibers |-> "out"]
  /\ posted = 0
  /\ taken = 0

-----------------------------------------------------------------------------
(* Slips the code could have had are named for what they get wrong.         *)

(* sema_wait_until: the count at once, or a place on the list.              *)
WaitTakes(f) ==
  /\ waiting[f] = "out" /\ count > 0
  /\ count' = count - 1
  /\ taken' = taken + 1
  /\ UNCHANGED <<waiters, signalled, waiting, posted>>

WaitParks(f) ==
  /\ waiting[f] = "out" /\ count = 0
  /\ waiters' = Append(waiters, f)
  /\ waiting' = [waiting EXCEPT ![f] = "parked"]
  /\ UNCHANGED <<count, signalled, posted, taken>>

(* sema_post: as many waiters as there are counts, from the head, each      *)
(* popped, marked and woken under the lock.                                 *)
Post(n) ==
  /\ posted + n <= MaxPosts
  /\ LET served == SubSeq(waiters, 1, IF count + n < Len(waiters) THEN count + n ELSE Len(waiters))
     IN  /\ count' = count + n - Len(served)
         /\ waiters' = SubSeq(waiters, Len(served) + 1, Len(waiters))
         /\ signalled' = signalled \cup Range(served)
         /\ waiting' = [f \in SemaFibers |-> IF f \in Range(served) /\ waiting[f] = "parked" THEN "woken" ELSE waiting[f]]
  /\ posted' = posted + n
  /\ UNCHANGED taken

(* list_remove: the list without the node of f.                             *)
Unlinked(f) == RemoveAt(waiters, CHOOSE i \in DOMAIN waiters : waiters[i] = f)

(* The deadline passed, or the fiber was cancelled; it has not run yet.     *)
Expires(f) ==
  /\ waiting[f] = "parked"
  /\ waiting' = [waiting EXCEPT ![f] = "expired"]
  /\ UNCHANGED <<count, waiters, signalled, posted, taken>>

ReturnsFalseMarked(f) ==
  /\ waiting[f] = "expired"
  /\ waiters' = IF f \in signalled THEN waiters ELSE Unlinked(f)
  /\ signalled' = signalled \ {f}
  /\ waiting' = [waiting EXCEPT ![f] = "out"]
  /\ UNCHANGED <<count, posted, taken>>

(* waiter_block with the lock held again: the mark decides, whatever woke   *)
(* the fiber.                                                               *)
ReturnsTrue(f) ==
  /\ waiting[f] \in {"woken", "expired"} /\ f \in signalled
  /\ signalled' = signalled \ {f}
  /\ waiting' = [waiting EXCEPT ![f] = "out"]
  /\ taken' = taken + 1
  /\ UNCHANGED <<count, waiters, posted>>

ReturnsFalse(f) ==
  /\ waiting[f] = "expired" /\ f \notin signalled
  /\ waiters' = Unlinked(f)
  /\ waiting' = [waiting EXCEPT ![f] = "out"]
  /\ UNCHANGED <<count, signalled, posted, taken>>

-----------------------------------------------------------------------------
Returns(f) == ReturnsTrue(f) \/ ReturnsFalse(f)

SemaNext ==
  \/ \E f \in SemaFibers : WaitTakes(f) \/ WaitParks(f) \/ Expires(f) \/ Returns(f)
  \/ \E n \in 1 .. MaxPosts : Post(n)

SemaSpec == SemaInit /\ [][SemaNext]_semaVars

-----------------------------------------------------------------------------
(* Every variable stays in its range.                                       *)
SemaTypeOK ==
  /\ count \in Nat /\ posted \in 0 .. MaxPosts /\ taken \in Nat
  /\ waiters \in Seq(SemaFibers)
  /\ signalled \in SUBSET SemaFibers
  /\ waiting \in [SemaFibers -> {"out", "parked", "woken", "expired"}]

(* No post is lost to a deadline that passes as it arrives, and none is      *)
(* taken twice: what was posted is the count, what waits returned true for,  *)
(* and the marks their owners have yet to see.                               *)
PostsKept == posted = count + taken + Cardinality(signalled)

(* The list names only frames still being waited in, each once: a poster    *)
(* never touches the node of a fiber that has returned.                     *)
NodesOnStack ==
  /\ IsInjective(waiters)
  /\ \A f \in Range(waiters) : waiting[f] \in {"parked", "expired"} /\ f \notin signalled
  /\ \A f \in signalled : waiting[f] # "out"

(* A count and a waiter are never left side by side, and a fiber parked off  *)
(* the list has been woken.                                                  *)
NoCountBesideWaiter ==
  /\ count > 0 => waiters = <<>>
  /\ \A f \in SemaFibers : waiting[f] = "parked" => f \in Range(waiters)

(* A post reaches one waiter, or stays in the count for the next.            *)
PostsConserved == SemaTypeOK /\ PostsKept /\ NodesOnStack /\ NoCountBesideWaiter

-----------------------------------------------------------------------------
(* The semaphore as its callers see it: a permit is a count, or the mark a  *)
(* post has left for a waiter that has not run yet.                         *)
Permits == INSTANCE Semaphore WITH
  Users <- SemaFibers,
  permits <- count + Cardinality(signalled),
  asleep <- {f \in SemaFibers : waiting[f] # "out"},
  granted <- taken

(* sema_wait_until and sema_post, with the list, the marks and the race of  *)
(* a post with a deadline, implement a number of permits.                   *)
SemaImplemented == Permits!PermitsSpec
=============================================================================
