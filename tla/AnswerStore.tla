----------------------------- MODULE AnswerStore -----------------------------
(* What the answer cache promises the queries that use it: one store, in    *)
(* which each call takes one step.  It may forget, and at any moment; it    *)
(* does not make up, mix up or bring back.  A lookup finds what was last    *)
(* stored under its key, and misses only what is not there.                 *)
EXTENDS Naturals

CONSTANTS
  Users,          (* the queries                                            *)
  Questions       (* the keys                                               *)

VARIABLES
  kept,           (* the answers in the store: <<key, bytes>>               *)
  looking,        (* user -> the key it is looking up, if it is             *)
  storing,        (* user -> the answer it has to store, if it has          *)
  holding,        (* user -> the bytes a lookup gave it                     *)
  given           (* the answers the upstreams have given                   *)

askedVars == <<kept, looking, storing, holding, given>>

Nothing == [u \in Users |-> {}]

StoreInit ==
  /\ kept = {} /\ given = 0
  /\ looking = Nothing /\ storing = Nothing /\ holding = Nothing

Looks(u) ==
  /\ looking[u] = {} /\ storing[u] = {}
  /\ \E k \in Questions : looking' = [looking EXCEPT ![u] = {k}]
  /\ holding' = [holding EXCEPT ![u] = {}]
  /\ UNCHANGED <<kept, storing, given>>

Finds(u) ==
  /\ \E x \in kept : x[1] \in looking[u] /\ holding' = [holding EXCEPT ![u] = {x[2]}]
  /\ looking' = [looking EXCEPT ![u] = {}]
  /\ UNCHANGED <<kept, storing, given>>

(* A miss: nothing is under the key, or what was has just been forgotten.   *)
Misses(u) ==
  /\ looking[u] # {}
  /\ kept' = {x \in kept : x[1] \notin looking[u]}
  /\ looking' = [looking EXCEPT ![u] = {}]
  /\ UNCHANGED <<storing, holding, given>>

(* An upstream has given an answer that none gave before.                   *)
Brings(u) ==
  /\ looking[u] = {} /\ storing[u] = {}
  /\ given' = given + 1
  /\ \E k \in Questions : storing' = [storing EXCEPT ![u] = {<<k, given + 1>>}]
  /\ holding' = [holding EXCEPT ![u] = {}]
  /\ UNCHANGED <<kept, looking>>

(* It is in the store, and what was under its key is not; others may have   *)
(* had to go.                                                               *)
Stores(u) ==
  /\ \E x \in storing[u] :
       \E rest \in SUBSET {y \in kept : y[1] # x[1]} : kept' = rest \cup {x}
  /\ storing' = [storing EXCEPT ![u] = {}]
  /\ UNCHANGED <<looking, holding, given>>

(* Done with the answer it holds, which it may have taken out of the store  *)
(* if it was there still: that one, and none that came in its place.        *)
LetsGo(u) ==
  /\ holding[u] # {}
  /\ \E gone \in SUBSET {x \in kept : x[2] \in holding[u]} : kept' = kept \ gone
  /\ holding' = [holding EXCEPT ![u] = {}]
  /\ UNCHANGED <<looking, storing, given>>

Forgets ==
  /\ \E rest \in SUBSET kept : kept' = rest
  /\ UNCHANGED <<looking, storing, holding, given>>

StoreNext ==
  \/ \E u \in Users : \/ Looks(u) \/ Finds(u) \/ Misses(u)
                      \/ Brings(u) \/ Stores(u) \/ LetsGo(u)
  \/ Forgets

StoreSpec == StoreInit /\ [][StoreNext]_askedVars
=============================================================================
