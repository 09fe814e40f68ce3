----------------------------- MODULE Generations -----------------------------
(***************************************************************************)
(* The configuration generations of src/server/generation.odin and the      *)
(* reload of src/server/reload.odin.                                        *)
(*                                                                         *)
(* A request pins the current generation and reads everything through it;   *)
(* the maintenance thread builds the next generation, handing over every    *)
(* part whose section did not change, swaps it in, and later releases the   *)
(* generations nothing uses any more.  A part is named by the generation    *)
(* that built it, so two generations holding one part name the same builder.*)
(*                                                                         *)
(* The read lock of `pin` and the write lock of `swap_generation` are       *)
(* brlock's, whose exclusion BrLock checks: here a swap that has announced  *)
(* itself keeps new readers out and waits for every request that is between *)
(* its read_lock and its read_unlock.                                       *)
(***************************************************************************)
EXTENDS Naturals, Sequences, FiniteSets, Functions

CONSTANTS
  Requests,   (* request fibers                                            *)
  STRIPES,    (* stripes a generation's references are counted on          *)
  Parts,      (* the parts of a Live, "Upstreams" and "Answers" among them *)
  Rules,      (* the rules an answer is judged by before it is cached      *)
  MaxGen,     (* bound: generations built in one behaviour                 *)
  MaxRacers,  (* the racer budget's limit                                  *)
  MaxDepth    (* bound: how deep a request nests its pins                  *)

ASSUME RequestsFinite == IsFiniteSet(Requests)
ASSUME StripesPositive == STRIPES \in Nat \ {0}
ASSUME PartsNamed == {"Upstreams", "Answers"} \subseteq Parts
ASSUME BoundsPositive == {MaxGen, MaxRacers, MaxDepth} \subseteq Nat \ {0}

Gens == 1 .. MaxGen
Stripes == 0 .. STRIPES - 1
Off == 0        (* a part whose feature is off, and no generation at all    *)

VARIABLES
  current,    (* the generation `pin` takes                                *)
  last,       (* the number of generations built                           *)
  holds,      (* per generation and part, the builder of that part, or Off *)
  owns,       (* per generation, the parts it is to release                *)
  rules,      (* per generation, the rules its configuration judges by     *)
  policy,     (* per generation, the number those rules go by in cache keys*)
  refs,       (* per generation and stripe, requests counted in            *)
  retired,    (* swapped out and not released, oldest first                *)
  destroyed,  (* generations freed                                         *)
  released,   (* per builder and part, how often the part was released     *)
  racing,     (* per builder, legs still asking the group it built         *)
  stored,     (* per builder, what is in the cache it built                *)
  pin,        (* each request's pin                                        *)
  maint       (* the maintenance thread                                    *)

vars == <<current, last, holds, owns, rules, policy, refs, retired,
          destroyed, released, racing, stored, pin, maint>>

genVars == <<current, last, holds, owns, rules, policy, retired>>
heapVars == <<destroyed, released>>

NoPin == [at |-> "out", gen |-> Off, stripe |-> 0, depth |-> 0]
Waiting == [at |-> "wait", gen |-> Off, carried |-> {}, stripe |-> 0, seen |-> 0]
Reaping == [Waiting EXCEPT !.at = "reap"]

(* The parts `g` holds under their builders' names.                         *)
Held(g) == {p \in Parts : holds[g][p] # Off}

(* Release every part in `ps` of `g`, as release_parts does.                *)
Release(ps, g) ==
  released' = [b \in Gens |-> [p \in Parts |->
    released[b][p] + (IF p \in ps /\ holds[g][p] = b THEN 1 ELSE 0)]]

(* boot_generation: the first generation builds everything that is on.      *)
Init ==
  /\ current = 1 /\ last = 1
  /\ \E on \in SUBSET Parts, r \in Rules :
       /\ "Upstreams" \in on
       /\ holds = [g \in Gens |-> [p \in Parts |-> IF g = 1 /\ p \in on THEN 1 ELSE Off]]
       /\ owns = [g \in Gens |-> IF g = 1 THEN on ELSE {}]
       /\ rules = [g \in Gens |-> r]
  /\ policy = [g \in Gens |-> 0]
  /\ refs = [g \in Gens |-> [s \in Stripes |-> 0]]
  /\ retired = <<>>
  /\ destroyed = {}
  /\ released = [b \in Gens |-> [p \in Parts |-> 0]]
  /\ racing = [b \in Gens |-> 0]
  /\ stored = [b \in Gens |-> {}]
  /\ pin = [r \in Requests |-> NoPin]
  /\ maint = Waiting

-----------------------------------------------------------------------------
(* Requests.  Operators whose names say what they get wrong are slips the   *)
(* code could have had; no behaviour of Spec uses them.                     *)

(* pin, up to reading `current` under the read lock, on any thread's stripe.*)
PinRead(r) ==
  /\ maint.at \notin {"locking", "stopped"}
  /\ pin[r].at = "out"
  /\ \E s \in Stripes :
       pin' = [pin EXCEPT ![r] = [at |-> "reading", gen |-> current, stripe |-> s, depth |-> 0]]
  /\ UNCHANGED <<genVars, heapVars, refs, racing, stored, maint>>

(* The rest of it: the reference, and the read lock let go.                 *)
PinCount(r) ==
  /\ pin[r].at = "reading"
  /\ refs' = [refs EXCEPT ![pin[r].gen][pin[r].stripe] = @ + 1]
  /\ pin' = [pin EXCEPT ![r].at = "in", ![r].depth = 1]
  /\ UNCHANGED <<genVars, heapVars, racing, stored, maint>>

PinNested(r) ==
  /\ pin[r].at = "in" /\ pin[r].depth < MaxDepth
  /\ pin' = [pin EXCEPT ![r].depth = @ + 1]
  /\ UNCHANGED <<genVars, heapVars, refs, racing, stored, maint>>

Unpin(r) ==
  /\ pin[r].at = "in"
  /\ IF pin[r].depth > 1
       THEN pin' = [pin EXCEPT ![r].depth = @ - 1] /\ UNCHANGED refs
       ELSE /\ refs' = [refs EXCEPT ![pin[r].gen][pin[r].stripe] = @ - 1]
            /\ pin' = [pin EXCEPT ![r] = NoPin]
  /\ UNCHANGED <<genVars, heapVars, racing, stored, maint>>

(* A leg of resolve_race: counted on the group before the request goes on,  *)
(* within the budget every group shares.                                    *)
StartRacer(r) ==
  /\ pin[r].at = "in"
  /\ FoldFunction(+, 0, racing) < MaxRacers
  /\ racing' = [racing EXCEPT ![holds[pin[r].gen]["Upstreams"]] = @ + 1]
  /\ UNCHANGED <<genVars, heapVars, refs, stored, pin, maint>>

(* race_worker's last line.                                                 *)
RacerEnd(b) ==
  /\ racing[b] > 0
  /\ racing' = [racing EXCEPT ![b] = @ - 1]
  /\ UNCHANGED <<genVars, heapVars, refs, stored, pin, maint>>

(* An answer judged under the request's rules, stored under their number.   *)
Store(r) ==
  LET g == pin[r].gen IN
  /\ pin[r].at = "in"
  /\ holds[g]["Answers"] # Off
  /\ stored' = [stored EXCEPT ![holds[g]["Answers"]] =
                  @ \cup {[policy |-> policy[g], rules |-> rules[g]]}]
  /\ UNCHANGED <<genVars, heapVars, refs, racing, pin, maint>>

-----------------------------------------------------------------------------
(* build_live: the parts on, of which those in `changed` (the cache never)   *)
(* or off before are built and the others carried over.                     *)
Built(on, changed) ==
  {p \in on : holds[current][p] = Off \/ (p \in changed /\ p # "Answers")}

PolicyStays(r) == policy[current]

(* policy_changed moves the number the rules go by.                         *)
Policy(r) == policy[current] + (IF r # rules[current] THEN 1 ELSE 0)

(* A reload whose build succeeds: the new generation is still private.      *)
BuildLive ==
  /\ maint.at = "wait" /\ last < MaxGen
  /\ \E on, changed \in SUBSET Parts, r \in Rules :
       LET g == last + 1
           built == Built(on, changed)
       IN  /\ "Upstreams" \in on /\ changed \subseteq on
           /\ holds' = [holds EXCEPT ![g] = [p \in Parts |->
                IF p \in built THEN g ELSE IF p \in on THEN holds[current][p] ELSE Off]]
           /\ owns' = [owns EXCEPT ![g] = built]
           /\ rules' = [rules EXCEPT ![g] = r]
           /\ policy' = [policy EXCEPT ![g] = Policy(r)]
           /\ maint' = [Waiting EXCEPT !.at = "built", !.gen = g, !.carried = on \ built]
  /\ last' = last + 1
  /\ UNCHANGED <<current, retired, heapVars, refs, racing, stored, pin>>

(* One whose build fails at some part: what it had built is released, by     *)
(* build_live and not again by destroy_generation, and nothing is swapped.  *)
BuildFails ==
  /\ maint.at = "wait" /\ last < MaxGen
  /\ \E done \in SUBSET (Parts \ {"Answers"}) :
       released' = [released EXCEPT ![last + 1] = [p \in Parts |-> IF p \in done THEN 1 ELSE 0]]
  /\ last' = last + 1
  /\ destroyed' = destroyed \cup {last + 1}
  /\ maint' = Reaping
  /\ UNCHANGED <<current, holds, owns, rules, policy, retired, refs, racing, stored, pin>>

TickLeavesRetired ==
  /\ maint.at = "wait"
  /\ retired # <<>>
  /\ UNCHANGED vars

(* A turn of the maintenance loop that reloads nothing.                     *)
Tick ==
  /\ maint.at = "wait"
  /\ retired # <<>>
  /\ maint' = Reaping
  /\ UNCHANGED <<genVars, heapVars, refs, racing, stored, pin>>

Swapped(carried) ==
  /\ current' = maint.gen
  /\ owns' = [owns EXCEPT ![maint.gen] = @ \cup (owns[current] \cap carried),
                          ![current] = @ \ carried]
  /\ retired' = Append(retired, current)
  /\ maint' = [Waiting EXCEPT !.at =
       IF "Answers" \in carried /\ policy[maint.gen] # policy[current] THEN "flush" ELSE "reap"]
  /\ UNCHANGED <<last, holds, rules, policy, heapVars, refs, racing, stored, pin>>

(* write_lock's announcement.                                               *)
WriteLock ==
  /\ maint.at = "built"
  /\ maint' = [maint EXCEPT !.at = "locking"]
  /\ UNCHANGED <<genVars, heapVars, refs, racing, stored, pin>>

SwapUnlocked ==
  /\ maint.at = "locking"
  /\ Swapped(maint.carried)

(* swap_generation: under the write lock the pointer, then what only this   *)
(* thread reads, the duty to release and the list of the retired.           *)
SwapGeneration ==
  /\ maint.at = "locking"
  /\ \A r \in Requests : pin[r].at # "reading"
  /\ Swapped(maint.carried)

(* reload_config's cache.clear_all, after the swap.                         *)
ClearAll ==
  /\ maint.at = "flush"
  /\ stored' = [stored EXCEPT ![holds[current]["Answers"]] = {}]
  /\ maint' = Reaping
  /\ UNCHANGED <<genVars, heapVars, refs, racing, pin>>

-----------------------------------------------------------------------------
(* reap_generations.  The references of the oldest are read stripe by       *)
(* stripe, then its groups' legs, and only then is it released.             *)
Oldest == Head(retired)

ReapRefs ==
  /\ maint.at = "reap" /\ retired # <<>>
  /\ LET seen == maint.seen + refs[Oldest][maint.stripe]
         more == maint.stripe + 1 < STRIPES
     IN  maint' = IF more THEN [maint EXCEPT !.stripe = @ + 1, !.seen = seen]
                  ELSE IF seen > 0 THEN Waiting
                  ELSE [Waiting EXCEPT !.at = "racing"]
  /\ UNCHANGED <<genVars, heapVars, refs, racing, stored, pin>>

(* generation_racing asks only the groups the generation still owns.        *)
ReapRacing ==
  /\ maint.at = "racing"
  /\ maint' = IF "Upstreams" \in owns[Oldest] /\ racing[holds[Oldest]["Upstreams"]] > 0
              THEN Waiting ELSE [Waiting EXCEPT !.at = "free"]
  /\ UNCHANGED <<genVars, heapVars, refs, racing, stored, pin>>

DestroyGeneration ==
  /\ maint.at = "free"
  /\ Release(owns[Oldest], Oldest)
  /\ destroyed' = destroyed \cup {Oldest}
  /\ retired' = Tail(retired)
  /\ maint' = Reaping
  /\ UNCHANGED <<current, last, holds, owns, rules, policy, refs, racing, stored, pin>>

ReapDone ==
  /\ maint.at = "reap" /\ retired = <<>>
  /\ maint' = Waiting
  /\ UNCHANGED <<genVars, heapVars, refs, racing, stored, pin>>

(* destroy_generations at shutdown, once queries are drained and the loops,  *)
(* with every leg on them, are stopped: retired ones first, then the current.*)
DestroyGenerations ==
  LET left == Range(retired) \cup {current} IN
  /\ maint.at = "wait"
  /\ \A r \in Requests : pin[r].at = "out"
  /\ \A b \in Gens : racing[b] = 0
  /\ released' = [b \in Gens |-> [p \in Parts |->
       released[b][p] + Cardinality({g \in left : p \in owns[g] /\ holds[g][p] = b})]]
  /\ destroyed' = destroyed \cup left
  /\ retired' = <<>>
  /\ maint' = [Waiting EXCEPT !.at = "stopped"]
  /\ UNCHANGED <<current, last, holds, owns, rules, policy, refs, racing, stored, pin>>

-----------------------------------------------------------------------------
Request(r) ==
  \/ PinRead(r) \/ PinCount(r) \/ PinNested(r) \/ Unpin(r)
  \/ StartRacer(r) \/ Store(r)

Reap == ReapRefs \/ ReapRacing \/ DestroyGeneration \/ ReapDone

Maintenance ==
  \/ BuildLive \/ BuildFails \/ Tick \/ WriteLock \/ SwapGeneration \/ ClearAll
  \/ Reap \/ DestroyGenerations

Next ==
  \/ \E r \in Requests : Request(r)
  \/ \E b \in Gens : RacerEnd(b)
  \/ Maintenance

Spec == Init /\ [][Next]_vars

(* A pinned request finishes, however often it nests; a leg ends at its own  *)
(* timeout; the maintenance loop turns every tick and, once a swap has       *)
(* begun, goes through with it.                                              *)
Fairness ==
  /\ \A r \in Requests : WF_vars(PinCount(r)) /\ WF_vars(Unpin(r))
                          /\ SF_vars(pin[r].depth = 1 /\ Unpin(r))
  /\ \A b \in Gens : WF_vars(RacerEnd(b))
  /\ WF_vars(Tick) /\ WF_vars(Reap) /\ WF_vars(ClearAll)
  /\ WF_vars(WriteLock) /\ WF_vars(SwapGeneration)

FairSpec == Spec /\ Fairness

-----------------------------------------------------------------------------
(* Every variable stays in its range; no count goes below zero.             *)
TypeOK ==
  /\ current \in Gens /\ last \in Gens
  /\ holds \in [Gens -> [Parts -> Gens \cup {Off}]]
  /\ owns \in [Gens -> SUBSET Parts]
  /\ rules \in [Gens -> Rules]
  /\ policy \in [Gens -> Nat]
  /\ refs \in [Gens -> [Stripes -> Nat]]
  /\ retired \in Seq(Gens)
  /\ destroyed \in SUBSET Gens
  /\ released \in [Gens -> [Parts -> Nat]]
  /\ racing \in [Gens -> Nat]
  /\ stored \in [Gens -> SUBSET [policy : Nat, rules : Rules]]
  /\ pin \in [Requests -> [at : {"out", "reading", "in"}, gen : Gens \cup {Off},
                           stripe : Stripes, depth : 0 .. MaxDepth]]
  /\ maint \in [at : {"wait", "built", "locking", "flush", "reap", "racing", "free", "stopped"},
                gen : Gens \cup {Off}, carried : SUBSET Parts,
                stripe : Stripes, seen : Nat]

(* Nothing a request or a leg can still reach has been released: not the     *)
(* generation it pinned, not a part that generation reads whoever owns it    *)
(* by now, not the group a leg that outlived its request is asking.          *)
NoUseAfterFree ==
  /\ \A r \in Requests : pin[r].at # "out" =>
       /\ pin[r].gen \notin destroyed
       /\ \A p \in Held(pin[r].gen) : released[holds[pin[r].gen][p]][p] = 0
  /\ \A b \in Gens : racing[b] > 0 => released[b]["Upstreams"] = 0

(* However often parts are handed on and builds fail, a part that is not     *)
(* released is owned by exactly one generation that still exists, and a      *)
(* released one was released once and by its only owner: nothing leaks and   *)
(* nothing is freed twice.                                                  *)
OwnedOnce ==
  \A b \in 1 .. last, p \in Parts :
    LET owners == {g \in 1 .. last \ destroyed : p \in owns[g] /\ holds[g][p] = b} IN
    /\ released[b][p] <= 1
    /\ released[b][p] = 1 => owners = {}
    /\ released[b][p] = 0 /\ holds[b][p] = b => Cardinality(owners) = 1

(* An answer a request would find under its own policy number was judged by  *)
(* the very rules of the generation it pinned, although requests of older    *)
(* generations go on storing into the same cache after it was emptied.       *)
JudgedByOwnRules ==
  \A r \in Requests : pin[r].at = "in" =>
    LET g == pin[r].gen IN
    \A e \in IF holds[g]["Answers"] = Off THEN {} ELSE stored[holds[g]["Answers"]] :
      e.policy = policy[g] => e.rules = rules[g]

(* A generation that was swapped out is released once what uses it is done.  *)
RetiredReleased ==
  \A g \in Gens : (g \in Range(retired)) ~> (g \in destroyed)

(* A part is there for all who can still reach it, and has one owner until   *)
(* its one release: pin against swap_generation and reap_generations.        *)
PartsSound == TypeOK /\ NoUseAfterFree /\ OwnedOnce
=============================================================================
