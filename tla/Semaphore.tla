------------------------------ MODULE Semaphore ------------------------------
(* What loop.Sema promises those that wait on it, and all that Race and     *)
(* Refresh take of it: a number of permits.  Whoever waits is not overtaken *)
(* by one that comes later, and nobody gives up while there is a permit     *)
(* that the others waiting cannot all use.                                  *)
EXTENDS Naturals, FiniteSets

CONSTANT Users    (* the fibers and threads that may wait                   *)

VARIABLES
  permits,        (* posted, and not yet returned with                      *)
  asleep,         (* the users inside a wait                                *)
  granted         (* the waits that returned true                           *)

permitVars == <<permits, asleep, granted>>

PermitsInit == permits = 0 /\ asleep = {} /\ granted = 0

Posted ==
  /\ permits' \in Nat /\ permits' > permits
  /\ UNCHANGED <<asleep, granted>>

(* A wait that returns true without sleeping: all that sleep have a permit. *)
TakesAtOnce(u) ==
  /\ u \notin asleep /\ permits > Cardinality(asleep)
  /\ permits' = permits - 1 /\ granted' = granted + 1
  /\ UNCHANGED asleep

Sleeps(u) ==
  /\ u \notin asleep /\ permits <= Cardinality(asleep)
  /\ asleep' = asleep \cup {u}
  /\ UNCHANGED <<permits, granted>>

(* A wait that returns true, and one that returns false.                    *)
Served(u) ==
  /\ u \in asleep /\ permits > 0
  /\ permits' = permits - 1 /\ granted' = granted + 1
  /\ asleep' = asleep \ {u}

GivesUp(u) ==
  /\ u \in asleep /\ permits < Cardinality(asleep)
  /\ asleep' = asleep \ {u}
  /\ UNCHANGED <<permits, granted>>

PermitsNext ==
  \/ Posted
  \/ \E u \in Users : TakesAtOnce(u) \/ Sleeps(u) \/ Served(u) \/ GivesUp(u)

PermitsSpec == PermitsInit /\ [][PermitsNext]_permitVars
=============================================================================
