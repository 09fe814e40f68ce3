--------------------------- MODULE LifecycleProofs ---------------------------
(***************************************************************************)
(* What serves a query is there for as long as it is used, for any number   *)
(* of requests, stripes, parts, rules and generations, and of connections,  *)
(* queries and limits: proofs about modules Generations and Serving.        *)
(***************************************************************************)
EXTENDS Generations, Serving, FiniteSetTheorems, FunctionTheorems, SequenceTheorems, TLAPS

(* The generations that exist: the retired, the current one and, between    *)
(* its build and its swap, a private one.                                   *)
Alive == (1 .. last) \ destroyed
Private == IF maint.at \in {"built", "locking"} THEN {maint.gen} ELSE {}

(* Generations are swapped in in the order they are built and retired in    *)
(* the order they are swapped in.                                           *)
InOrder ==
  maint.at # "stopped" =>
    /\ Alive = Range(retired) \cup {current} \cup Private
    /\ \A i, j \in DOMAIN retired : i < j => retired[i] < retired[j]
    /\ \A g \in Range(retired) : g < current
    /\ \A g \in Private : g = last /\ current < g

Stopped ==
  maint.at = "stopped" => Alive = {} /\ \A r \in Requests : pin[r].at = "out"

(* A number nobody built under yet has nothing.                             *)
Unbuilt ==
  \A g \in Gens : g > last =>
    /\ owns[g] = {} /\ racing[g] = 0 /\ g \notin destroyed
    /\ \A p \in Parts : holds[g][p] = Off /\ released[g][p] = 0

(* A part goes by the generation that built it, which held it too.          *)
Named ==
  \A g \in Gens, p \in Parts :
    holds[g][p] # Off => holds[g][p] <= g /\ holds[holds[g][p]][p] = holds[g][p]

Owner(g, b, p) == g \in Alive /\ p \in owns[g] /\ holds[g][p] = b

(* A part some generation holds has one owner among those that exist, no    *)
(* older than any that holds it but the private one, whose carried parts    *)
(* are still the current one's.                                             *)
Owned ==
  /\ \A g \in Gens : \A p \in owns[g] : holds[g][p] # Off
  /\ \A g, h \in Alive : \A p \in owns[g] \cap owns[h] : holds[g][p] = holds[h][p] => g = h
  /\ \A h \in Alive : \A p \in Held(h) :
       \E g \in Alive : Owner(g, holds[h][p], p) /\ (h <= g \/ g = current)
  /\ \A g \in Private :
       /\ Held(g) = owns[g] \cup maint.carried /\ owns[g] \cap maint.carried = {}
       /\ \A p \in owns[g] : holds[g][p] = g
       /\ \A p \in maint.carried : holds[g][p] = holds[current][p]

(* A part is released once at most, not while a generation that exists      *)
(* holds it, and otherwise it has its owner.                                *)
ReleasedRight ==
  /\ \A b \in Gens, p \in Parts : released[b][p] <= 1
  /\ \A h \in Alive : \A p \in Held(h) : released[holds[h][p]][p] = 0
  /\ \A b \in 1 .. last, p \in Parts :
       holds[b][p] = b /\ released[b][p] = 0 => \E g \in Alive : Owner(g, b, p)

(* The references of a generation are the requests counted in on it, and a  *)
(* request that has read `current` and not counted itself in holds the swap.*)
In(g, s) == {r \in Requests : pin[r].at = "in" /\ pin[r].gen = g /\ pin[r].stripe = s}

Pinned ==
  /\ \A g \in Gens, s \in Stripes : refs[g][s] = Cardinality(In(g, s))
  /\ \A r \in Requests : pin[r].at # "out" => pin[r].gen \in Alive /\ pin[r].gen <= current
  /\ \A r \in Requests : pin[r].at = "reading" => pin[r].gen = current
  /\ \A r \in Requests : pin[r].at = "in" => pin[r].depth > 0

(* What reap_generations has read so far of the oldest is still so.         *)
ReapedRight ==
  /\ maint.at = "reap" /\ retired # <<>> /\ maint.seen = 0 =>
       \A s \in Stripes : s < maint.stripe => refs[Oldest][s] = 0
  /\ maint.at \in {"racing", "free"} =>
       retired # <<>> /\ \A s \in Stripes : refs[Oldest][s] = 0
  /\ maint.at = "free" /\ "Upstreams" \in owns[Oldest] => racing[holds[Oldest]["Upstreams"]] = 0

LegsSafe == \A b \in Gens : racing[b] > 0 => released[b]["Upstreams"] = 0

(* A policy number stands for one set of rules, in the generations that     *)
(* exist and in every answer stored, and no answer has one from the future. *)
PolicyTells ==
  /\ \A g, h \in Alive : policy[g] = policy[h] => rules[g] = rules[h]
  /\ \A g \in Alive : g <= current => policy[g] <= policy[current]
  /\ \A g \in Private : policy[current] <= policy[g]
  /\ \A b \in Gens : \A e \in stored[b] :
       /\ maint.at # "stopped" => e.policy <= policy[current]
       /\ \A g \in Alive : e.policy = policy[g] => e.rules = rules[g]

GenInv ==
  /\ TypeOK /\ InOrder /\ Stopped /\ Unbuilt /\ Named /\ Owned
  /\ ReleasedRight /\ Pinned /\ ReapedRight /\ LegsSafe /\ PolicyTells

-----------------------------------------------------------------------------
Pins == [at : {"out", "reading", "in"}, gen : Gens \cup {Off}, stripe : Stripes,
         depth : 0 .. MaxDepth]
Maints == [at : {"wait", "built", "locking", "flush", "reap", "racing", "free", "stopped"},
           gen : Gens \cup {Off}, carried : SUBSET Parts, stripe : Stripes, seen : Nat]

LEMMA Bounds ==
  /\ MaxGen \in Nat /\ MaxGen > 0 /\ MaxDepth \in Nat /\ MaxDepth > 0
  /\ STRIPES \in Nat /\ STRIPES > 0 /\ 0 \in Stripes /\ Off \notin Gens /\ 1 \in Gens
  /\ Gens \subseteq Nat
  BY BoundsPositive, StripesPositive DEF Gens, Stripes, Off

LEMMA AliveType == TypeOK => Alive \subseteq Gens /\ Alive \subseteq 1 .. last
  BY Bounds DEF TypeOK, Alive, Gens

(* The counts and names of TypeOK one by one.                               *)
LEMMA Counts ==
  ASSUME TypeOK
  PROVE  /\ current \in Nat /\ last \in Nat /\ last >= 1
         /\ refs \in [Gens -> [Stripes -> Nat]] /\ \A g \in Gens, s \in Stripes : refs[g][s] \in Nat
         /\ racing \in [Gens -> Nat] /\ \A b \in Gens : racing[b] \in Nat
         /\ \A g \in Gens, p \in Parts : holds[g][p] \in Gens \cup {Off} /\ released[g][p] \in Nat
         /\ \A g \in Gens : policy[g] \in Nat /\ rules[g] \in Rules
<1>1. current \in Nat /\ last \in Nat /\ last >= 1 BY Bounds DEF TypeOK, Gens
<1>2. refs \in [Gens -> [Stripes -> Nat]] /\ racing \in [Gens -> Nat] BY DEF TypeOK
<1>3. \A g \in Gens, p \in Parts : holds[g][p] \in Gens \cup {Off} /\ released[g][p] \in Nat
  BY DEF TypeOK
<1>4. \A g \in Gens : policy[g] \in Nat /\ rules[g] \in Rules BY DEF TypeOK
<1> QED BY <1>1, <1>2, <1>3, <1>4

LEMMA WaitingType ==
  /\ NoPin \in Pins /\ Waiting \in Maints /\ Reaping \in Maints
  /\ Waiting = [at |-> "wait", gen |-> Off, carried |-> {}, stripe |-> 0, seen |-> 0]
  /\ Reaping = [at |-> "reap", gen |-> Off, carried |-> {}, stripe |-> 0, seen |-> 0]
  BY Bounds DEF NoPin, Waiting, Reaping, Pins, Maints

(* Requests counted in are some of the requests.                            *)
LEMMA InFinite == \A g, s : IsFiniteSet(In(g, s)) /\ IsFiniteSet(In(g, s)')
  BY RequestsFinite, FS_Subset DEF In

(* The oldest retired generation, and what is left when it goes.            *)
LEMMA OldestFacts ==
  ASSUME TypeOK, InOrder, maint.at # "stopped", retired # <<>>
  PROVE  /\ Oldest \in Gens /\ Oldest \in Alive /\ Oldest < current /\ Oldest \notin Private
         /\ \A g \in Alive : Oldest <= g
         /\ Tail(retired) \in Seq(Gens)
         /\ Range(Tail(retired)) = Range(retired) \ {Oldest}
         /\ \A i, j \in DOMAIN Tail(retired) : i < j => Tail(retired)[i] < Tail(retired)[j]
<1> DEFINE t == Tail(retired)
<1>1. /\ t \in Seq(Gens) /\ Len(retired) \in Nat /\ Len(retired) > 0 /\ Len(t) = Len(retired) - 1
      /\ \A i \in 1 .. Len(t) : t[i] = retired[i + 1]
      /\ DOMAIN t = 1 .. Len(retired) - 1 /\ DOMAIN retired = 1 .. Len(retired)
      /\ Oldest = retired[1] /\ \A i \in 1 .. Len(retired) : retired[i] \in Gens
  BY SMTT(30) DEF TypeOK, Oldest
<1> HIDE DEF t
<1>2. \A i, j \in DOMAIN retired : i < j => retired[i] < retired[j] BY DEF InOrder
<1>3. Gens \subseteq Nat /\ current \in Nat BY Bounds DEF TypeOK
<1>4. Oldest \in Gens /\ Oldest \in Range(retired) BY <1>1 DEF Range
<1>5. Oldest \in Alive /\ Oldest < current /\ Oldest \notin Private
  BY <1>3, <1>4 DEF InOrder
<1>6. \A i \in 2 .. Len(retired) : Oldest < retired[i]
  BY <1>1, <1>2
<1>7. ASSUME NEW g \in Alive PROVE Oldest <= g
  <2>1. CASE g \in Range(retired)
    <3>1. PICK i \in 1 .. Len(retired) : retired[i] = g BY <1>1, <2>1 DEF Range
    <3>2. i = 1 \/ i \in 2 .. Len(retired) BY <1>1
    <3>3. g \in Nat /\ Oldest \in Nat BY <1>3, <1>4, <1>7, AliveType
    <3>4. CASE i = 1 BY <1>1, <3>1, <3>3, <3>4
    <3>5. CASE i \in 2 .. Len(retired)
      <4>1. Oldest < g BY <1>6, <3>1, <3>5
      <4> QED BY <3>3, <4>1
    <3> QED BY <3>2, <3>4, <3>5
  <2>2. CASE g = current BY <1>3, <1>4, <1>5, <2>2
  <2>3. CASE g \in Private
    <3>1. current < g /\ g \in Nat BY <2>3, <1>3, AliveType, <1>7 DEF InOrder
    <3> QED BY <1>3, <1>4, <1>5, <3>1
  <2> QED BY <1>7, <2>1, <2>2, <2>3 DEF InOrder
<1>8. Range(t) = Range(retired) \ {Oldest}
  <2>1. ASSUME NEW i \in 1 .. Len(retired) - 1 PROVE t[i] \in Range(retired) \ {Oldest}
    <3>1. i + 1 \in 2 .. Len(retired) /\ i + 1 \in DOMAIN retired /\ t[i] = retired[i + 1] BY <1>1
    <3>2. retired[i + 1] \in Nat /\ Oldest \in Nat BY <1>1, <1>3, <1>4, <3>1
    <3> QED BY <1>6, <3>1, <3>2 DEF Range
  <2>2. ASSUME NEW i \in 2 .. Len(retired) PROVE retired[i] \in Range(t)
    <3>1. i - 1 \in 1 .. Len(t) /\ (i - 1) + 1 = i BY <1>1
    <3>2. i - 1 \in DOMAIN t /\ t[i - 1] = retired[i] BY <1>1, <3>1
    <3> QED BY <3>2 DEF Range
  <2>3. Range(t) \subseteq Range(retired) \ {Oldest} BY <1>1, <2>1 DEF Range
  <2>4. ASSUME NEW g \in Range(retired), g # Oldest PROVE g \in Range(t)
    <3>1. PICK i \in 1 .. Len(retired) : retired[i] = g BY <1>1 DEF Range
    <3>2. i \in 2 .. Len(retired) BY <1>1, <2>4, <3>1
    <3> QED BY <2>2, <3>1, <3>2
  <2> QED BY <2>3, <2>4
<1>9. ASSUME NEW i \in DOMAIN t, NEW j \in DOMAIN t, i < j PROVE t[i] < t[j]
  <2>1. i + 1 \in DOMAIN retired /\ j + 1 \in DOMAIN retired /\ i + 1 < j + 1
    BY <1>1, <1>9
  <2>2. t[i] = retired[i + 1] /\ t[j] = retired[j + 1] BY <1>1
  <2> QED BY <1>2, <2>1, <2>2
<1> QED BY <1>1, <1>4, <1>5, <1>7, <1>8, <1>9 DEF t

(* No reference on any stripe: no request is on the oldest, and none that   *)
(* is between reading and counting can be.                                  *)
LEMMA OldestUnpinned ==
  ASSUME TypeOK, InOrder, Pinned, maint.at # "stopped", retired # <<>>,
         \A s \in Stripes : refs[Oldest][s] = 0
  PROVE  \A r \in Requests : pin[r].at # "out" => pin[r].gen # Oldest
<1> SUFFICES ASSUME NEW r \in Requests, pin[r].at # "out", pin[r].gen = Oldest PROVE FALSE
  OBVIOUS
<1>1. Oldest \in Gens /\ Oldest < current BY OldestFacts
<1>2. current \in Nat /\ Oldest \in Nat BY <1>1, Bounds DEF TypeOK
<1>3. pin[r].at \in {"reading", "in"} /\ pin[r].stripe \in Stripes BY DEF TypeOK
<1>4. pin[r].at = "in" BY <1>1, <1>2, <1>3 DEF Pinned
<1>5. PICK s \in Stripes : s = pin[r].stripe BY <1>3
<1>6. r \in In(Oldest, s) BY <1>4, <1>5 DEF In
<1>7. Cardinality(In(Oldest, s)) = 0 BY <1>1, <1>5 DEF Pinned
<1>8. In(Oldest, s) = {} BY <1>7, InFinite, FS_EmptySet
<1> QED BY <1>6, <1>8

(* What the oldest still owns, no other generation that exists holds.       *)
LEMMA OldestOwnsAlone ==
  ASSUME TypeOK, InOrder, Owned, maint.at # "stopped", retired # <<>>,
         NEW p \in owns[Oldest], NEW h \in Alive, p \in Held(h), holds[h][p] = holds[Oldest][p]
  PROVE  h = Oldest
<1>1. Oldest \in Alive /\ Oldest < current /\ Oldest <= h BY OldestFacts
<1>2. PICK g \in Alive : Owner(g, holds[h][p], p) /\ (h <= g \/ g = current) BY DEF Owned
<1>3. g = Oldest BY <1>1, <1>2 DEF Owned, Owner
<1>4. h \in Nat /\ Oldest \in Nat /\ current \in Nat BY <1>1, AliveType, Bounds DEF TypeOK
<1> QED BY <1>1, <1>2, <1>3, <1>4

-----------------------------------------------------------------------------
LEMMA GenInitOK == Init => GenInv
<1> SUFFICES ASSUME Init PROVE GenInv
  OBVIOUS
<1>1. PICK on \in SUBSET Parts, r \in Rules :
        /\ holds = [g \in Gens |-> [p \in Parts |-> IF g = 1 /\ p \in on THEN 1 ELSE Off]]
        /\ owns = [g \in Gens |-> IF g = 1 THEN on ELSE {}]
        /\ rules = [g \in Gens |-> r]
  BY DEF Init
<1>2. /\ current = 1 /\ last = 1 /\ policy = [g \in Gens |-> 0]
      /\ refs = [g \in Gens |-> [s \in Stripes |-> 0]] /\ retired = <<>> /\ destroyed = {}
      /\ released = [b \in Gens |-> [p \in Parts |-> 0]] /\ racing = [b \in Gens |-> 0]
      /\ stored = [b \in Gens |-> {}] /\ pin = [q \in Requests |-> NoPin] /\ maint = Waiting
  BY DEF Init
<1>3. \A q \in Requests : pin[q] \in Pins /\ pin[q].at = "out" BY <1>2, WaitingType DEF NoPin
<1>4. maint \in Maints /\ maint.at = "wait" BY <1>2, WaitingType DEF Waiting
<1>5. Alive = {1} /\ Private = {} /\ Range(retired) = {} /\ DOMAIN retired = {}
  BY <1>2, <1>4 DEF Alive, Private, Range
<1>6. TypeOK
  <2>1. pin \in [Requests -> Pins] BY <1>2, <1>3
  <2>2. holds \in [Gens -> [Parts -> Gens \cup {Off}]] /\ owns \in [Gens -> SUBSET Parts]
    BY <1>1, Bounds
  <2>3. retired \in Seq(Gens) BY <1>2
  <2>4. /\ stored \in [Gens -> SUBSET [policy : Nat, rules : Rules]]
        /\ released \in [Gens -> [Parts -> Nat]] /\ racing \in [Gens -> Nat]
        /\ refs \in [Gens -> [Stripes -> Nat]] /\ policy \in [Gens -> Nat]
    BY <1>2
  <2> QED BY <1>1, <1>2, <1>4, <2>1, <2>2, <2>3, <2>4, Bounds DEF TypeOK, Pins, Maints
<1>7. InOrder BY <1>2, <1>5 DEF InOrder
<1>8. Stopped BY <1>4 DEF Stopped
<1>9. Unbuilt BY <1>1, <1>2, Bounds DEF Unbuilt
<1>10. Named BY <1>1, Bounds DEF Named, Off
<1>11. Owned
  <2>1. \A g \in Gens : \A p \in owns[g] : holds[g][p] # Off BY <1>1 DEF Off
  <2>2. \A p \in Held(1) : Owner(1, holds[1][p], p)
    BY <1>1, <1>5, Bounds DEF Held, Owner, Off
  <2> QED BY <1>2, <1>5, <2>1, <2>2 DEF Owned
<1>12. ReleasedRight
  <2>1. \A b \in Gens, p \in Parts : released[b][p] = 0 BY <1>2
  <2>2. ASSUME NEW p \in Parts, holds[1][p] = 1 PROVE Owner(1, 1, p)
    BY <1>1, <1>5, <2>2, Bounds DEF Owner, Off
  <2>3. \A h \in Alive : \A p \in Held(h) : released[holds[h][p]][p] = 0
    BY <1>1, <1>5, <2>1, Bounds DEF Held, Off
  <2> QED BY <1>2, <1>5, <2>1, <2>2, <2>3 DEF ReleasedRight
<1>13. Pinned
  <2>1. ASSUME NEW g, NEW s PROVE In(g, s) = {} BY <1>3 DEF In
  <2> QED BY <1>2, <1>3, <2>1, FS_EmptySet DEF Pinned
<1>14. ReapedRight BY <1>4 DEF ReapedRight
<1>15. LegsSafe BY <1>2 DEF LegsSafe
<1>16. PolicyTells BY <1>1, <1>2, <1>5, Bounds DEF PolicyTells
<1> QED BY <1>6, <1>7, <1>8, <1>9, <1>10, <1>11, <1>12, <1>13, <1>14, <1>15, <1>16 DEF GenInv

-----------------------------------------------------------------------------
(* Requests leave the generations, what they hold and the maintenance       *)
(* thread alone.                                                            *)
LEMMA RequestFrame ==
  ASSUME GenInv, UNCHANGED <<genVars, heapVars, maint>>
  PROVE  /\ InOrder' /\ Named' /\ Owned' /\ ReleasedRight'
         /\ Alive' = Alive /\ Private' = Private
<1> USE DEF genVars, heapVars
<1>1. Alive' = Alive /\ Private' = Private BY DEF Alive, Private
<1>2. InOrder' BY <1>1 DEF GenInv, InOrder
<1>3. Named' BY DEF GenInv, Named
<1>4. Owned' BY <1>1 DEF GenInv, Owned, Owner, Held
<1>5. ReleasedRight' BY <1>1 DEF GenInv, ReleasedRight, Owner, Held
<1> QED BY <1>1, <1>2, <1>3, <1>4, <1>5

(* A maintenance step that reads.                                           *)
LEMMA MaintFrame ==
  ASSUME GenInv, UNCHANGED <<genVars, heapVars, refs, racing, pin>>,
         maint.at # "stopped", maint'.at # "stopped",
         Private' = Private, Private # {} => maint'.carried = maint.carried
  PROVE  /\ InOrder' /\ Stopped' /\ Unbuilt' /\ Named' /\ Owned' /\ ReleasedRight' /\ Pinned'
         /\ LegsSafe' /\ Alive' = Alive
<1> USE DEF genVars, heapVars
<1>1. Alive' = Alive BY DEF Alive
<1>2. InOrder' BY <1>1 DEF GenInv, InOrder
<1>3. Named' BY DEF GenInv, Named
<1>4. Owned' BY <1>1 DEF GenInv, Owned, Owner, Held
<1>5. ReleasedRight' BY <1>1 DEF GenInv, ReleasedRight, Owner, Held
<1>6. Pinned'
  <2>1. \A g, s : In(g, s)' = In(g, s) BY DEF In
  <2> QED BY <1>1, <2>1 DEF GenInv, Pinned
<1>7. Stopped' /\ Unbuilt' /\ LegsSafe' BY DEF GenInv, Stopped, Unbuilt, LegsSafe
<1> QED BY <1>1, <1>2, <1>3, <1>4, <1>5, <1>6, <1>7

(* A request's pin moves while the maintenance thread is not stopped.       *)
LEMMA PinMoves ==
  ASSUME GenInv, NEW r \in Requests, NEW new \in Pins,
         UNCHANGED <<genVars, heapVars, maint, racing, stored>>,
         maint.at # "stopped", pin' = [pin EXCEPT ![r] = new],
         refs' \in [Gens -> [Stripes -> Nat]], Pinned', ReapedRight'
  PROVE  GenInv'
<1>1. InOrder' /\ Named' /\ Owned' /\ ReleasedRight' /\ Alive' = Alive /\ Private' = Private
  BY RequestFrame DEF genVars, heapVars
<1>2. TypeOK'
  <2>1. pin' \in [Requests -> Pins] BY DEF GenInv, TypeOK, Pins
  <2> QED BY <2>1 DEF GenInv, TypeOK, Pins, genVars, heapVars
<1>3. Stopped' BY DEF Stopped
<1>4. Unbuilt' /\ LegsSafe' BY DEF GenInv, Unbuilt, LegsSafe, genVars, heapVars
<1>5. PolicyTells' BY <1>1 DEF GenInv, PolicyTells, genVars
<1> QED BY <1>1, <1>2, <1>3, <1>4, <1>5 DEF GenInv

LEMMA PinReadOK ==
  ASSUME GenInv, NEW r \in Requests, PinRead(r)
  PROVE  GenInv'
<1>1. TypeOK /\ InOrder /\ Pinned /\ ReapedRight BY DEF GenInv
<1>2. PICK s \in Stripes :
        pin' = [pin EXCEPT ![r] = [at |-> "reading", gen |-> current, stripe |-> s, depth |-> 0]]
  BY DEF PinRead
<1> DEFINE new == [at |-> "reading", gen |-> current, stripe |-> s, depth |-> 0]
<1>3. new \in Pins /\ new.at = "reading" /\ new.gen = current
  BY <1>1, Bounds DEF Pins, TypeOK
<1> HIDE DEF new
<1>4. /\ maint.at \notin {"locking", "stopped"} /\ pin[r].at = "out"
      /\ UNCHANGED <<genVars, heapVars, refs, racing, stored, maint>>
  BY DEF PinRead
<1>5. \A q \in Requests : pin'[q] = IF q = r THEN new ELSE pin[q] BY <1>1, <1>2 DEF TypeOK, new
<1>6. Pinned'
  <2>1. Alive' = Alive BY <1>4 DEF Alive, genVars, heapVars
  <2>2. current \in Alive /\ current \in Nat BY <1>1, <1>4, Bounds DEF InOrder, TypeOK
  <2>3. \A g \in Gens, t \in Stripes : In(g, t)' = In(g, t) BY <1>3, <1>4, <1>5 DEF In
  <2>4. \A g \in Gens, t \in Stripes : refs'[g][t] = Cardinality(In(g, t)')
    BY <1>1, <1>4, <2>3 DEF Pinned
  <2> QED BY <1>1, <1>3, <1>4, <1>5, <2>1, <2>2, <2>4 DEF Pinned, genVars
<1>7. ReapedRight' BY <1>1, <1>4 DEF ReapedRight, Oldest, genVars
<1>8. refs' \in [Gens -> [Stripes -> Nat]] BY <1>1, <1>4 DEF TypeOK
<1>9. pin' = [pin EXCEPT ![r] = new] BY <1>2 DEF new
<1> QED BY <1>3, <1>4, <1>6, <1>7, <1>8, <1>9, PinMoves

(* A request that has read `current` counts itself in: the swap waited for  *)
(* it, so the generation is not one being reaped.                           *)
LEMMA PinCountOK ==
  ASSUME GenInv, NEW r \in Requests, PinCount(r)
  PROVE  GenInv'
<1>1. TypeOK /\ InOrder /\ Stopped /\ Pinned /\ ReapedRight BY DEF GenInv
<1>2. PICK g \in Gens, s \in Stripes : g = pin[r].gen /\ s = pin[r].stripe /\ g = current
  BY <1>1 DEF PinCount, Pinned, TypeOK
<1> DEFINE new == [pin[r] EXCEPT !.at = "in", !.depth = 1]
<1>3. new \in Pins /\ new.at = "in" /\ new.gen = g /\ new.stripe = s /\ new.depth = 1
  <2>1. pin[r] \in Pins BY <1>1 DEF TypeOK, Pins
  <2>2. 1 \in 0 .. MaxDepth BY Bounds
  <2> QED BY <1>2, <2>1, <2>2 DEF Pins
<1>4. /\ pin[r].at = "reading" /\ maint.at # "stopped"
      /\ UNCHANGED <<genVars, heapVars, racing, stored, maint>>
      /\ refs' = [refs EXCEPT ![g][s] = @ + 1]
  BY <1>1, <1>2 DEF PinCount, Stopped
<1>5. pin' = [pin EXCEPT ![r] = new]
  BY <1>1 DEF PinCount, TypeOK
<1> HIDE DEF new
<1>6. \A q \in Requests : pin'[q] = IF q = r THEN new ELSE pin[q] BY <1>1, <1>5 DEF TypeOK
<1>7. /\ refs' \in [Gens -> [Stripes -> Nat]]
      /\ \A h \in Gens, t \in Stripes :
           refs'[h][t] = IF h = g /\ t = s THEN refs[h][t] + 1 ELSE refs[h][t]
  <2>1. refs \in [Gens -> [Stripes -> Nat]] /\ refs[g][s] + 1 \in Nat BY <1>1, Counts
  <2> QED BY <1>4, <2>1
<1>8. Pinned'
  <2>1. Alive' = Alive BY <1>4 DEF Alive, genVars, heapVars
  <2>2. In(g, s)' = In(g, s) \cup {r} /\ r \notin In(g, s) BY <1>3, <1>4, <1>6 DEF In
  <2>3. ASSUME NEW h \in Gens, NEW t \in Stripes, ~(h = g /\ t = s) PROVE In(h, t)' = In(h, t)
    BY <1>3, <1>4, <1>6, <2>3 DEF In
  <2>4. Cardinality(In(g, s)') = Cardinality(In(g, s)) + 1
    BY <2>2, InFinite, FS_AddElement
  <2>5. ASSUME NEW h \in Gens, NEW t \in Stripes PROVE refs'[h][t] = Cardinality(In(h, t)')
    <3>1. CASE h = g /\ t = s BY <1>1, <1>7, <2>4, <3>1 DEF Pinned
    <3>2. CASE ~(h = g /\ t = s) BY <1>1, <1>7, <2>3, <3>2 DEF Pinned
    <3> QED BY <3>1, <3>2
  <2>6. g \in Alive /\ g <= current BY <1>1, <1>2, <1>4 DEF Pinned
  <2> QED BY <1>1, <1>3, <1>4, <1>6, <2>1, <2>5, <2>6 DEF Pinned, genVars
<1>9. ReapedRight'
  <2>1. retired # <<>> => Oldest \in Gens /\ Oldest # g
    <3> SUFFICES ASSUME retired # <<>> PROVE Oldest \in Gens /\ Oldest # g OBVIOUS
    <3>1. Oldest \in Gens /\ Oldest < current BY <1>1, <1>4, OldestFacts
    <3> QED BY <1>2, <3>1, Bounds DEF TypeOK
  <2>2. Oldest' = Oldest /\ retired' = retired /\ maint' = maint BY <1>4 DEF Oldest, genVars
  <2>3. retired # <<>> => \A t \in Stripes : refs'[Oldest][t] = refs[Oldest][t] BY <1>7, <2>1
  <2> QED BY <1>1, <1>4, <2>2, <2>3 DEF ReapedRight, genVars
<1> QED BY <1>3, <1>4, <1>5, <1>7, <1>8, <1>9, PinMoves

LEMMA PinNestedOK ==
  ASSUME GenInv, NEW r \in Requests, PinNested(r)
  PROVE  GenInv'
<1>1. TypeOK /\ Stopped /\ Pinned /\ ReapedRight BY DEF GenInv
<1>2. pin[r] \in Pins /\ pin[r].at = "in" /\ pin[r].depth < MaxDepth /\ maint.at # "stopped"
  BY <1>1 DEF TypeOK, Pins, PinNested, Stopped
<1> DEFINE new == [pin[r] EXCEPT !.depth = pin[r].depth + 1]
<1>3. /\ new \in Pins /\ new.at = "in" /\ new.gen = pin[r].gen /\ new.stripe = pin[r].stripe
      /\ new.depth > 0
  <2>1. pin[r].depth + 1 \in 0 .. MaxDepth /\ pin[r].depth + 1 > 0 BY <1>2, Bounds DEF Pins
  <2> QED BY <1>2, <2>1 DEF Pins
<1>4. UNCHANGED <<genVars, heapVars, refs, racing, stored, maint>> BY DEF PinNested
<1>5. pin' = [pin EXCEPT ![r] = new] BY <1>1 DEF PinNested, TypeOK
<1> HIDE DEF new
<1>6. \A q \in Requests : pin'[q] = IF q = r THEN new ELSE pin[q] BY <1>1, <1>5 DEF TypeOK
<1>7. Pinned'
  <2>1. Alive' = Alive BY <1>4 DEF Alive, genVars, heapVars
  <2>2. \A g \in Gens, t \in Stripes : In(g, t)' = In(g, t) BY <1>2, <1>3, <1>6 DEF In
  <2>3. \A g \in Gens, t \in Stripes : refs'[g][t] = Cardinality(In(g, t)')
    BY <1>1, <1>4, <2>2 DEF Pinned
  <2> QED BY <1>1, <1>2, <1>3, <1>4, <1>6, <2>1, <2>3 DEF Pinned, genVars
<1>8. ReapedRight' BY <1>1, <1>4 DEF ReapedRight, Oldest, genVars
<1>9. refs' \in [Gens -> [Stripes -> Nat]] BY <1>1, <1>4 DEF TypeOK
<1> QED BY <1>2, <1>3, <1>4, <1>5, <1>7, <1>8, <1>9, PinMoves

(* The outermost unpin takes its reference back from where it put it.       *)
LEMMA UnpinOK ==
  ASSUME GenInv, NEW r \in Requests, Unpin(r)
  PROVE  GenInv'
<1>1. TypeOK /\ InOrder /\ Stopped /\ Pinned /\ ReapedRight BY DEF GenInv
<1>2. pin[r] \in Pins /\ pin[r].at = "in" /\ maint.at # "stopped"
  BY <1>1 DEF TypeOK, Pins, Unpin, Stopped
<1>3. UNCHANGED <<genVars, heapVars, racing, stored, maint>> BY DEF Unpin
<1>4. Alive' = Alive BY <1>3 DEF Alive, genVars, heapVars
<1>5. CASE pin[r].depth > 1
  <2> DEFINE new == [pin[r] EXCEPT !.depth = pin[r].depth - 1]
  <2>1. /\ new \in Pins /\ new.at = "in" /\ new.gen = pin[r].gen /\ new.stripe = pin[r].stripe
        /\ new.depth > 0
    <3>1. pin[r].depth - 1 \in 0 .. MaxDepth /\ pin[r].depth - 1 > 0 BY <1>2, <1>5, Bounds DEF Pins
    <3> QED BY <1>2, <3>1 DEF Pins
  <2>2. pin' = [pin EXCEPT ![r] = new] /\ refs' = refs BY <1>1, <1>5 DEF Unpin, TypeOK
  <2> HIDE DEF new
  <2>3. \A q \in Requests : pin'[q] = IF q = r THEN new ELSE pin[q] BY <1>1, <2>2 DEF TypeOK
  <2>4. \A g \in Gens, t \in Stripes : In(g, t)' = In(g, t) BY <1>2, <2>1, <2>3 DEF In
  <2>5. \A g \in Gens, t \in Stripes : refs'[g][t] = Cardinality(In(g, t)')
    BY <1>1, <2>2, <2>4 DEF Pinned
  <2>6. Pinned' BY <1>1, <1>2, <1>3, <1>4, <2>1, <2>3, <2>5 DEF Pinned, genVars
  <2>7. ReapedRight' BY <1>1, <1>3, <2>2 DEF ReapedRight, Oldest, genVars
  <2>8. refs' \in [Gens -> [Stripes -> Nat]] BY <1>1, <2>2 DEF TypeOK
  <2> QED BY <1>2, <1>3, <2>1, <2>2, <2>6, <2>7, <2>8, PinMoves
<1>6. CASE ~(pin[r].depth > 1)
  <2>1. PICK g \in Gens, s \in Stripes : g = pin[r].gen /\ s = pin[r].stripe
    <3>1. pin[r].gen \in Gens BY <1>1, <1>2, AliveType DEF Pinned
    <3> QED BY <1>2, <3>1 DEF Pins
  <2>2. pin' = [pin EXCEPT ![r] = NoPin] /\ refs' = [refs EXCEPT ![g][s] = @ - 1]
    BY <1>6, <2>1 DEF Unpin
  <2>3. NoPin \in Pins /\ NoPin.at = "out" BY WaitingType DEF NoPin
  <2>4. \A q \in Requests : pin'[q] = IF q = r THEN NoPin ELSE pin[q] BY <1>1, <2>2 DEF TypeOK
  <2>5. In(g, s)' = In(g, s) \ {r} /\ r \in In(g, s) BY <1>2, <2>1, <2>3, <2>4 DEF In
  <2>6. ASSUME NEW h \in Gens, NEW t \in Stripes, ~(h = g /\ t = s) PROVE In(h, t)' = In(h, t)
    BY <1>2, <2>1, <2>3, <2>4, <2>6 DEF In
  <2>7. Cardinality(In(g, s)') = Cardinality(In(g, s)) - 1 /\ Cardinality(In(g, s)') \in Nat
    BY <2>5, InFinite, FS_RemoveElement, FS_CardinalityType
  <2>8. refs[g][s] - 1 \in Nat BY <1>1, <2>7 DEF Pinned
  <2>9. /\ refs' \in [Gens -> [Stripes -> Nat]]
        /\ \A h \in Gens, t \in Stripes :
             refs'[h][t] = IF h = g /\ t = s THEN refs[h][t] - 1 ELSE refs[h][t]
    BY <1>1, <2>2, <2>8 DEF TypeOK
  <2>10. ASSUME NEW h \in Gens, NEW t \in Stripes PROVE refs'[h][t] = Cardinality(In(h, t)')
    <3>1. CASE h = g /\ t = s BY <1>1, <2>7, <2>9, <3>1 DEF Pinned
    <3>2. CASE ~(h = g /\ t = s) BY <1>1, <2>6, <2>9, <3>2 DEF Pinned
    <3> QED BY <3>1, <3>2
  <2>11. Pinned' BY <1>1, <1>3, <1>4, <2>3, <2>4, <2>10 DEF Pinned, genVars
  <2>12. ReapedRight'
    <3>1. Oldest' = Oldest /\ retired' = retired /\ maint' = maint BY <1>3 DEF Oldest, genVars
    <3>2. ASSUME retired # <<>>, NEW t \in Stripes, refs[Oldest][t] = 0 PROVE refs'[Oldest][t] = 0
      <4>1. Oldest \in Gens BY <1>1, <1>2, <3>2, OldestFacts
      <4> QED BY <2>8, <2>9, <3>2, <4>1
    <3> QED BY <1>1, <1>3, <3>1, <3>2 DEF ReapedRight, genVars
  <2> QED BY <1>2, <1>3, <2>2, <2>3, <2>9, <2>11, <2>12, PinMoves
<1> QED BY <1>5, <1>6

(* A leg asks the group of a generation its request has pinned, so not one  *)
(* the oldest alone owns once the reap has found nobody on that.            *)
LEMMA StartRacerOK ==
  ASSUME GenInv, NEW r \in Requests, StartRacer(r)
  PROVE  GenInv'
<1>1. TypeOK /\ InOrder /\ Stopped /\ Unbuilt /\ Named /\ Owned /\ ReleasedRight /\ Pinned
      /\ ReapedRight /\ LegsSafe /\ PolicyTells
  BY DEF GenInv
<1>2. /\ pin[r].at = "in" /\ maint.at # "stopped"
      /\ racing' = [racing EXCEPT ![holds[pin[r].gen]["Upstreams"]] = @ + 1]
      /\ UNCHANGED <<genVars, heapVars, refs, stored, pin, maint>>
  BY <1>1 DEF StartRacer, Stopped
<1>3. PICK g \in Alive : g = pin[r].gen BY <1>1, <1>2 DEF Pinned
<1>4. g \in Gens /\ g \in 1 .. last BY <1>1, AliveType
<1>5. PICK b \in Gens \cup {Off} : b = holds[g]["Upstreams"]
  BY <1>1, <1>4, PartsNamed, Counts
<1>6. racing' \in [Gens -> Nat] /\ \A c \in Gens : racing'[c] = IF c = b THEN racing[c] + 1 ELSE racing[c]
  <2>1. racing \in [Gens -> Nat] /\ \A c \in Gens : racing[c] + 1 \in Nat BY <1>1, Counts
  <2>2. racing' = [racing EXCEPT ![b] = @ + 1] BY <1>2, <1>3, <1>5
  <2> QED BY <2>1, <2>2
<1>7. InOrder' /\ Named' /\ Owned' /\ ReleasedRight' /\ Alive' = Alive /\ Private' = Private
  BY <1>2, RequestFrame
<1>8. TypeOK' BY <1>1, <1>2, <1>6 DEF TypeOK, genVars, heapVars
<1>9. Stopped' BY <1>2 DEF Stopped
<1>10. Unbuilt'
  <2>1. b <= last
    <3>1. CASE b = Off BY <1>1, <3>1, Bounds DEF TypeOK, Off
    <3>2. CASE b # Off
      <4>1. b <= g BY <1>1, <1>4, <1>5, <3>2, PartsNamed DEF Named
      <4>2. b \in Nat /\ g \in Nat /\ last \in Nat /\ g <= last BY <1>1, <1>4, <1>5, <3>2, Bounds, Counts
      <4> QED BY <4>1, <4>2
    <3> QED BY <3>1, <3>2
  <2>2. \A c \in Gens : c > last => c # b BY <1>1, <2>1, Bounds, Counts
  <2> QED BY <1>1, <1>2, <1>6, <2>2 DEF Unbuilt, genVars, heapVars
<1>11. Pinned'
  <2>1. \A h, s : In(h, s)' = In(h, s) BY <1>2 DEF In
  <2> QED BY <1>1, <1>2, <1>7, <2>1 DEF Pinned, genVars
<1>12. ReapedRight'
  <2>1. Oldest' = Oldest /\ retired' = retired /\ maint' = maint /\ refs' = refs /\ owns' = owns /\ holds' = holds
    BY <1>2 DEF Oldest, genVars
  <2>2. ASSUME maint.at = "free", "Upstreams" \in owns[Oldest]
        PROVE  racing'[holds[Oldest]["Upstreams"]] = 0
    <3>1. retired # <<>> /\ (\A s \in Stripes : refs[Oldest][s] = 0) /\ racing[holds[Oldest]["Upstreams"]] = 0
      BY <1>1, <2>2 DEF ReapedRight
    <3>2. Oldest \in Gens BY <1>1, <1>2, <3>1, OldestFacts
    <3>3. holds[Oldest]["Upstreams"] # Off /\ holds[Oldest]["Upstreams"] \in Gens
      BY <1>1, <2>2, <3>2, PartsNamed DEF Owned, TypeOK
    <3>4. g # Oldest BY <1>1, <1>2, <1>3, <3>1, OldestUnpinned
    <3>5. b # holds[Oldest]["Upstreams"]
      <4> SUFFICES ASSUME b = holds[Oldest]["Upstreams"] PROVE FALSE OBVIOUS
      <4>1. "Upstreams" \in Held(g) BY <1>5, <3>3, PartsNamed DEF Held
      <4>2. g = Oldest BY <1>1, <1>2, <1>5, <2>2, <3>1, <4>1, OldestOwnsAlone
      <4> QED BY <3>4, <4>2
    <3> QED BY <1>6, <3>1, <3>3, <3>5
  <2> QED BY <1>1, <2>1, <2>2 DEF ReapedRight
<1>13. LegsSafe'
  <2>1. b # Off => released[b]["Upstreams"] = 0
    BY <1>1, <1>3, <1>5, PartsNamed DEF ReleasedRight, Held
  <2>2. released' = released BY <1>2 DEF heapVars
  <2>3. \A c \in Gens : c = b => c # Off BY Bounds
  <2> QED BY <1>1, <1>6, <2>1, <2>2, <2>3 DEF LegsSafe
<1>14. PolicyTells' BY <1>1, <1>2, <1>7 DEF PolicyTells, genVars
<1> QED BY <1>7, <1>8, <1>9, <1>10, <1>11, <1>12, <1>13, <1>14 DEF GenInv

LEMMA RacerEndOK ==
  ASSUME GenInv, NEW b \in Gens, RacerEnd(b)
  PROVE  GenInv'
<1>1. TypeOK /\ Stopped /\ Unbuilt /\ Pinned /\ ReapedRight /\ LegsSafe /\ PolicyTells
  BY DEF GenInv
<1>2. racing[b] > 0 /\ UNCHANGED <<genVars, heapVars, refs, stored, pin, maint>>
  BY DEF RacerEnd
<1>3. racing' \in [Gens -> Nat] /\ \A c \in Gens : racing'[c] = IF c = b THEN racing[c] - 1 ELSE racing[c]
  <2>1. racing \in [Gens -> Nat] /\ racing[b] - 1 \in Nat BY <1>1, <1>2, SMTT(30) DEF TypeOK
  <2>2. racing' = [racing EXCEPT ![b] = racing[b] - 1] BY DEF RacerEnd
  <2> QED BY <2>1, <2>2
<1>4. \A c \in Gens : (racing[c] = 0 => racing'[c] = 0) /\ (racing'[c] > 0 => racing[c] > 0)
  BY <1>1, <1>2, <1>3, Counts
<1>5. InOrder' /\ Named' /\ Owned' /\ ReleasedRight' /\ Alive' = Alive /\ Private' = Private
  BY <1>2, RequestFrame
<1>6. TypeOK' BY <1>1, <1>2, <1>3 DEF TypeOK, genVars, heapVars
<1>7. Stopped' BY <1>1, <1>2, <1>5 DEF Stopped
<1>8. Unbuilt' BY <1>1, <1>2, <1>4 DEF Unbuilt, genVars, heapVars
<1>9. Pinned'
  <2>1. \A h, s : In(h, s)' = In(h, s) BY <1>2 DEF In
  <2> QED BY <1>1, <1>2, <1>5, <2>1 DEF Pinned, genVars
<1>10. ReapedRight'
  <2>1. Oldest' = Oldest /\ retired' = retired /\ maint' = maint /\ refs' = refs /\ owns' = owns /\ holds' = holds
    BY <1>2 DEF Oldest, genVars
  <2>2. ASSUME maint.at = "free", "Upstreams" \in owns[Oldest]
        PROVE  racing'[holds[Oldest]["Upstreams"]] = 0
    <3>1. retired # <<>> /\ racing[holds[Oldest]["Upstreams"]] = 0 BY <1>1, <2>2 DEF ReapedRight
    <3>2. Oldest \in Gens BY <1>1, <2>2, <3>1, OldestFacts DEF GenInv
    <3>3. holds[Oldest]["Upstreams"] \in Gens
      BY <1>1, <2>2, <3>2, PartsNamed DEF GenInv, Owned, TypeOK
    <3> QED BY <1>4, <3>1, <3>3
  <2> QED BY <1>1, <2>1, <2>2 DEF ReapedRight
<1>11. LegsSafe' BY <1>1, <1>2, <1>4 DEF LegsSafe, heapVars
<1>12. PolicyTells' BY <1>1, <1>2, <1>5 DEF PolicyTells, genVars
<1> QED BY <1>5, <1>6, <1>7, <1>8, <1>9, <1>10, <1>11, <1>12 DEF GenInv

(* An answer goes in under the number its own generation goes by.           *)
LEMMA StoreOK ==
  ASSUME GenInv, NEW r \in Requests, Store(r)
  PROVE  GenInv'
<1>1. TypeOK /\ InOrder /\ Stopped /\ Unbuilt /\ Pinned /\ ReapedRight /\ LegsSafe /\ PolicyTells
  BY DEF GenInv
<1>2. pin[r].at = "in" /\ UNCHANGED <<genVars, heapVars, refs, racing, pin, maint>>
  BY DEF Store
<1>3. PICK g \in Alive : g = pin[r].gen /\ g <= current BY <1>1, <1>2 DEF Pinned
<1>4. g \in Gens BY <1>1, AliveType
<1>5. PICK b \in Gens : b = holds[g]["Answers"]
  <2>1. holds[g]["Answers"] # Off BY <1>3 DEF Store
  <2> QED BY <1>1, <1>4, <2>1, PartsNamed, Counts
<1> DEFINE e == [policy |-> policy[g], rules |-> rules[g]]
<1>6. e \in [policy : Nat, rules : Rules] /\ e.policy = policy[g] /\ e.rules = rules[g]
  BY <1>1, <1>4 DEF TypeOK
<1>7. stored' = [stored EXCEPT ![b] = stored[b] \cup {e}] BY <1>3, <1>5 DEF Store
<1> HIDE DEF e
<1>8. /\ stored' \in [Gens -> SUBSET [policy : Nat, rules : Rules]]
      /\ \A c \in Gens : \A x \in stored'[c] : x \in stored[c] \/ x = e
  BY <1>1, <1>6, <1>7 DEF TypeOK
<1>9. InOrder' /\ Named' /\ Owned' /\ ReleasedRight' /\ Alive' = Alive /\ Private' = Private
  BY <1>2, RequestFrame
<1>10. TypeOK' BY <1>1, <1>2, <1>8 DEF TypeOK, genVars, heapVars
<1>11. Stopped' BY <1>1, <1>2, <1>9 DEF Stopped
<1>12. Unbuilt' /\ LegsSafe' BY <1>1, <1>2 DEF Unbuilt, LegsSafe, genVars, heapVars
<1>13. Pinned'
  <2>1. \A h, s : In(h, s)' = In(h, s) BY <1>2 DEF In
  <2> QED BY <1>1, <1>2, <1>9, <2>1 DEF Pinned, genVars
<1>14. ReapedRight' BY <1>1, <1>2 DEF ReapedRight, Oldest, genVars
<1>15. PolicyTells'
  <2>1. /\ e.policy <= policy[current]
        /\ \A h \in Alive : e.policy = policy[h] => e.rules = rules[h]
    BY <1>1, <1>3, <1>6 DEF PolicyTells
  <2> QED BY <1>1, <1>2, <1>8, <1>9, <2>1 DEF PolicyTells, genVars
<1> QED BY <1>9, <1>10, <1>11, <1>12, <1>13, <1>14, <1>15 DEF GenInv

-----------------------------------------------------------------------------
(* The maintenance thread, where it only moves.                             *)
LEMMA MaintMoves ==
  ASSUME GenInv, UNCHANGED <<genVars, heapVars, refs, racing, stored, pin>>,
         maint' \in Maints, maint.at # "stopped", maint'.at # "stopped",
         Private' = Private, Private # {} => maint'.carried = maint.carried, ReapedRight'
  PROVE  GenInv'
<1>1. /\ InOrder' /\ Stopped' /\ Unbuilt' /\ Named' /\ Owned' /\ ReleasedRight' /\ Pinned'
      /\ LegsSafe' /\ Alive' = Alive
  BY MaintFrame
<1>2. TypeOK' BY DEF GenInv, TypeOK, Maints, genVars, heapVars
<1>3. PolicyTells' BY <1>1 DEF GenInv, PolicyTells, genVars
<1> QED BY <1>1, <1>2, <1>3 DEF GenInv

LEMMA TickOK ==
  ASSUME GenInv, Tick
  PROVE  GenInv'
<1>1. /\ maint.at = "wait" /\ maint' = Reaping
      /\ UNCHANGED <<genVars, heapVars, refs, racing, stored, pin>> BY DEF Tick
<1>2. maint' \in Maints /\ maint'.at = "reap" /\ maint'.stripe = 0 BY <1>1, WaitingType
<1>3. Private = {} /\ Private' = {} BY <1>1, <1>2 DEF Private
<1>4. ReapedRight'
  <2>1. \A s \in Stripes : ~(s < maint'.stripe) BY <1>2, Bounds DEF Stripes
  <2> QED BY <1>2, <2>1 DEF ReapedRight
<1> QED BY <1>1, <1>2, <1>3, <1>4, MaintMoves

LEMMA ReapDoneOK ==
  ASSUME GenInv, ReapDone
  PROVE  GenInv'
<1>1. /\ maint.at = "reap" /\ maint' = Waiting
      /\ UNCHANGED <<genVars, heapVars, refs, racing, stored, pin>> BY DEF ReapDone
<1>2. maint' \in Maints /\ maint'.at = "wait" BY <1>1, WaitingType
<1>3. Private = {} /\ Private' = {} BY <1>1, <1>2 DEF Private
<1>4. ReapedRight' BY <1>2 DEF ReapedRight
<1> QED BY <1>1, <1>2, <1>3, <1>4, MaintMoves

LEMMA WriteLockOK ==
  ASSUME GenInv, WriteLock
  PROVE  GenInv'
<1>1. /\ maint.at = "built" /\ maint' = [maint EXCEPT !.at = "locking"]
      /\ UNCHANGED <<genVars, heapVars, refs, racing, stored, pin>> BY DEF WriteLock
<1>2. maint \in Maints BY DEF GenInv, TypeOK, Maints
<1>3. /\ maint' \in Maints /\ maint'.at = "locking" /\ maint'.gen = maint.gen
      /\ maint'.carried = maint.carried
  BY <1>1, <1>2 DEF Maints
<1>4. Private' = Private BY <1>1, <1>3 DEF Private
<1>5. ReapedRight' BY <1>3 DEF ReapedRight
<1> QED BY <1>1, <1>3, <1>4, <1>5, MaintMoves

(* One stripe more of the oldest has been read.                             *)
LEMMA ReapRefsOK ==
  ASSUME GenInv, ReapRefs
  PROVE  GenInv'
<1>1. TypeOK /\ InOrder /\ ReapedRight BY DEF GenInv
<1>2. /\ maint.at = "reap" /\ retired # <<>>
      /\ UNCHANGED <<genVars, heapVars, refs, racing, stored, pin>> BY DEF ReapRefs
<1>3. maint \in Maints /\ maint.stripe \in Stripes /\ maint.seen \in Nat BY <1>1 DEF TypeOK, Maints
<1>4. Oldest \in Gens BY <1>1, <1>2, OldestFacts
<1>5. Oldest' = Oldest BY <1>2 DEF Oldest, genVars
<1>6. PICK n \in Nat : n = refs[Oldest][maint.stripe] BY <1>1, <1>3, <1>4, Counts
<1>7. maint.seen + n \in Nat BY <1>3
<1>8. CASE maint.stripe + 1 < STRIPES
  <2>1. maint' = [maint EXCEPT !.stripe = maint.stripe + 1, !.seen = maint.seen + n]
    BY <1>6, <1>8 DEF ReapRefs
  <2>2. maint.stripe + 1 \in Stripes BY <1>3, <1>8, Bounds DEF Stripes
  <2>3. /\ maint' \in Maints /\ maint'.at = "reap" /\ maint'.stripe = maint.stripe + 1
        /\ maint'.seen = maint.seen + n
    BY <1>2, <1>3, <1>7, <2>1, <2>2 DEF Maints
  <2>4. Private = {} /\ Private' = {} BY <1>2, <2>3 DEF Private
  <2>5. ReapedRight'
    <3>1. ASSUME maint'.seen = 0, NEW s \in Stripes, s < maint'.stripe PROVE refs[Oldest][s] = 0
      <4>1. maint.seen = 0 /\ n = 0 BY <1>3, <2>3, <3>1
      <4>2. s < maint.stripe \/ s = maint.stripe
        <5>1. s \in Nat /\ maint.stripe \in Nat BY <1>3, Bounds DEF Stripes
        <5>2. s < maint.stripe + 1 BY <2>3, <3>1
        <5> QED BY <5>1, <5>2
      <4> QED BY <1>1, <1>2, <1>6, <4>1, <4>2 DEF ReapedRight
    <3> QED BY <1>2, <1>5, <2>3, <3>1 DEF ReapedRight
  <2> QED BY <1>2, <2>3, <2>4, <2>5, MaintMoves
<1>9. CASE ~(maint.stripe + 1 < STRIPES) /\ maint.seen + n > 0
  <2>1. maint' = Waiting BY <1>6, <1>9 DEF ReapRefs
  <2>2. maint' \in Maints /\ maint'.at = "wait" BY <2>1, WaitingType
  <2>3. Private = {} /\ Private' = {} BY <1>2, <2>2 DEF Private
  <2>4. ReapedRight' BY <2>2 DEF ReapedRight
  <2> QED BY <1>2, <2>2, <2>3, <2>4, MaintMoves
<1>10. CASE ~(maint.stripe + 1 < STRIPES) /\ ~(maint.seen + n > 0)
  <2>1. maint' = [Waiting EXCEPT !.at = "racing"] BY <1>6, <1>10 DEF ReapRefs
  <2>2. maint' \in Maints /\ maint'.at = "racing" BY <2>1, WaitingType DEF Maints
  <2>3. Private = {} /\ Private' = {} BY <1>2, <2>2 DEF Private
  <2>4. ReapedRight'
    <3>1. maint.seen = 0 /\ n = 0 BY <1>3, <1>10
    <3>2. \A s \in Stripes : s < maint.stripe \/ s = maint.stripe BY <1>3, <1>10, Bounds DEF Stripes
    <3>3. \A s \in Stripes : refs[Oldest][s] = 0 BY <1>1, <1>2, <1>6, <3>1, <3>2 DEF ReapedRight
    <3> QED BY <1>2, <1>5, <2>2, <3>3 DEF ReapedRight, genVars
  <2> QED BY <1>2, <2>2, <2>3, <2>4, MaintMoves
<1> QED BY <1>8, <1>9, <1>10

LEMMA ReapRacingOK ==
  ASSUME GenInv, ReapRacing
  PROVE  GenInv'
<1>1. TypeOK /\ InOrder /\ ReapedRight BY DEF GenInv
<1>2. maint.at = "racing" /\ UNCHANGED <<genVars, heapVars, refs, racing, stored, pin>>
  BY DEF ReapRacing
<1>3. Oldest' = Oldest BY <1>2 DEF Oldest, genVars
<1>4. CASE "Upstreams" \in owns[Oldest] /\ racing[holds[Oldest]["Upstreams"]] > 0
  <2>1. maint' = Waiting BY <1>4 DEF ReapRacing
  <2>2. maint' \in Maints /\ maint'.at = "wait" BY <2>1, WaitingType
  <2>3. Private = {} /\ Private' = {} BY <1>2, <2>2 DEF Private
  <2>4. ReapedRight' BY <2>2 DEF ReapedRight
  <2> QED BY <1>2, <2>2, <2>3, <2>4, MaintMoves
<1>5. CASE ~("Upstreams" \in owns[Oldest] /\ racing[holds[Oldest]["Upstreams"]] > 0)
  <2>1. maint' = [Waiting EXCEPT !.at = "free"] BY <1>5 DEF ReapRacing
  <2>2. maint' \in Maints /\ maint'.at = "free" BY <2>1, WaitingType DEF Maints
  <2>3. Private = {} /\ Private' = {} BY <1>2, <2>2 DEF Private
  <2>4. retired # <<>> /\ \A s \in Stripes : refs[Oldest][s] = 0 BY <1>1, <1>2 DEF ReapedRight
  <2>5. Oldest \in Gens BY <1>1, <1>2, <2>4, OldestFacts
  <2>6. ASSUME "Upstreams" \in owns[Oldest] PROVE racing[holds[Oldest]["Upstreams"]] = 0
    <3>1. holds[Oldest]["Upstreams"] # Off BY <2>5, <2>6 DEF GenInv, Owned
    <3>2. holds[Oldest]["Upstreams"] \in Gens BY <1>1, <2>5, <3>1, PartsNamed, Counts
    <3>3. racing[holds[Oldest]["Upstreams"]] \in Nat BY <1>1, <3>2, Counts
    <3> QED BY <1>5, <2>6, <3>3
  <2>7. ReapedRight' BY <1>2, <1>3, <2>2, <2>4, <2>6 DEF ReapedRight, genVars
  <2> QED BY <1>2, <2>2, <2>3, <2>7, MaintMoves
<1> QED BY <1>4, <1>5

(* The cache the new rules would not have filled is emptied.                *)
LEMMA ClearAllOK ==
  ASSUME GenInv, ClearAll
  PROVE  GenInv'
<1>1. TypeOK /\ PolicyTells BY DEF GenInv
<1>2. /\ maint.at = "flush" /\ maint' = Reaping
      /\ UNCHANGED <<genVars, heapVars, refs, racing, pin>> BY DEF ClearAll
<1>3. maint' \in Maints /\ maint'.at = "reap" /\ maint'.stripe = 0 BY <1>2, WaitingType
<1>4. Private = {} /\ Private' = {} BY <1>2, <1>3 DEF Private
<1>5. /\ InOrder' /\ Stopped' /\ Unbuilt' /\ Named' /\ Owned' /\ ReleasedRight' /\ Pinned'
      /\ LegsSafe' /\ Alive' = Alive
  BY <1>2, <1>3, <1>4, MaintFrame
<1>6. ReapedRight'
  <2>1. \A s \in Stripes : ~(s < maint'.stripe) BY <1>3, Bounds DEF Stripes
  <2> QED BY <1>3, <2>1 DEF ReapedRight
<1>7. /\ stored' \in [Gens -> SUBSET [policy : Nat, rules : Rules]]
      /\ \A b \in Gens : stored'[b] \subseteq stored[b]
  BY <1>1 DEF ClearAll, TypeOK
<1>8. TypeOK' BY <1>1, <1>2, <1>3, <1>7 DEF TypeOK, Maints, genVars, heapVars
<1>9. PolicyTells' BY <1>1, <1>2, <1>3, <1>4, <1>5, <1>7 DEF PolicyTells, genVars
<1> QED BY <1>5, <1>6, <1>8, <1>9 DEF GenInv

-----------------------------------------------------------------------------
(* build_live: a private generation more, which owns what it built and      *)
(* names the rest after the current one.                                    *)
LEMMA BuildLiveOK ==
  ASSUME GenInv, BuildLive
  PROVE  GenInv'
<1>1. TypeOK /\ InOrder /\ Stopped /\ Unbuilt /\ Named /\ Owned /\ ReleasedRight /\ Pinned
      /\ ReapedRight /\ LegsSafe /\ PolicyTells
  BY DEF GenInv
<1>2. /\ maint.at = "wait" /\ last < MaxGen /\ last' = last + 1
      /\ UNCHANGED <<current, retired, heapVars, refs, racing, stored, pin>>
  BY DEF BuildLive
<1>3. PICK g \in Gens : g = last + 1
  BY <1>1, <1>2, Counts, Bounds DEF Gens
<1>a. PICK on \in SUBSET Parts, changed \in SUBSET Parts, r \in Rules :
        /\ "Upstreams" \in on /\ changed \subseteq on
        /\ holds' = [holds EXCEPT ![last + 1] = [p \in Parts |->
             IF p \in Built(on, changed) THEN last + 1 ELSE IF p \in on THEN holds[current][p] ELSE Off]]
        /\ owns' = [owns EXCEPT ![last + 1] = Built(on, changed)]
        /\ rules' = [rules EXCEPT ![last + 1] = r]
        /\ policy' = [policy EXCEPT ![last + 1] = Policy(r)]
        /\ maint' = [Waiting EXCEPT !.at = "built", !.gen = last + 1, !.carried = on \ Built(on, changed)]
  BY DEF BuildLive
<1>4. /\ "Upstreams" \in on /\ changed \subseteq on
      /\ holds' = [holds EXCEPT ![g] = [p \in Parts |->
          IF p \in Built(on, changed) THEN g ELSE IF p \in on THEN holds[current][p] ELSE Off]]
      /\ owns' = [owns EXCEPT ![g] = Built(on, changed)]
      /\ rules' = [rules EXCEPT ![g] = r]
      /\ policy' = [policy EXCEPT ![g] = Policy(r)]
      /\ maint' = [Waiting EXCEPT !.at = "built", !.gen = g, !.carried = on \ Built(on, changed)]
  BY <1>3, <1>a
<1> DEFINE built == Built(on, changed)
<1>5. built \in SUBSET on /\ \A p \in on \ built : holds[current][p] # Off
  BY DEF Built
<1>6. PICK n \in Nat : n = Policy(r) /\ ((n = policy[current] /\ r = rules[current]) \/ n = policy[current] + 1)
  <2>1. policy[current] \in Nat BY <1>1, Counts DEF TypeOK
  <2> QED BY <2>1 DEF Policy
<1> HIDE DEF built
<1>7. /\ holds \in [Gens -> [Parts -> Gens \cup {Off}]] /\ owns \in [Gens -> SUBSET Parts]
      /\ rules \in [Gens -> Rules] /\ policy \in [Gens -> Nat] /\ current \in Gens
  BY <1>1 DEF TypeOK
<1>8. /\ holds' \in [Gens -> [Parts -> Gens \cup {Off}]]
      /\ \A p \in Parts : holds'[g][p] = IF p \in built THEN g ELSE IF p \in on THEN holds[current][p] ELSE Off
      /\ \A h \in Gens : h # g => holds'[h] = holds[h]
  <2> DEFINE row == [p \in Parts |-> IF p \in built THEN g ELSE IF p \in on THEN holds[current][p] ELSE Off]
  <2>1. row \in [Parts -> Gens \cup {Off}] BY <1>7
  <2>2. \A p \in Parts : row[p] = IF p \in built THEN g ELSE IF p \in on THEN holds[current][p] ELSE Off
    OBVIOUS
  <2>3. holds' = [holds EXCEPT ![g] = row] BY <1>4 DEF built
  <2> HIDE DEF row
  <2> QED BY <1>7, <2>1, <2>2, <2>3
<1>9. /\ owns' \in [Gens -> SUBSET Parts] /\ owns'[g] = built
      /\ \A h \in Gens : h # g => owns'[h] = owns[h]
  BY <1>4, <1>5, <1>7 DEF built
<1>10. /\ rules' \in [Gens -> Rules] /\ policy' \in [Gens -> Nat] /\ rules'[g] = r /\ policy'[g] = n
       /\ \A h \in Gens : h # g => rules'[h] = rules[h] /\ policy'[h] = policy[h]
  BY <1>4, <1>6, <1>7
<1>11. /\ maint' \in Maints /\ maint'.at = "built" /\ maint'.gen = g /\ maint'.carried = on \ built
  BY <1>4, WaitingType DEF Maints, built
<1>12. /\ last \in Nat /\ current \in Nat /\ g \in Nat /\ current <= last /\ current < g
       /\ \A h \in Alive : h \in Gens /\ h \in Nat /\ h <= last /\ h < g
  <2>1. last \in Nat /\ current \in Nat BY <1>1, Counts
  <2>2. \A h \in Alive : h \in Gens /\ h \in Nat /\ h <= last
    BY <1>1, <2>1, AliveType, Bounds DEF Alive
  <2>3. current \in Alive BY <1>1, <1>2 DEF InOrder
  <2> QED BY <1>3, <2>1, <2>2, <2>3
<1>13. Private = {} /\ Private' = {g} BY <1>2, <1>11 DEF Private
<1>14. Alive' = Alive \cup {g} /\ g \notin Alive /\ current \in Alive
  <2>1. g \notin destroyed BY <1>1, <1>3, <1>12 DEF Unbuilt
  <2>2. 1 .. (last + 1) = (1 .. last) \cup {g} BY <1>3, <1>12
  <2> QED BY <1>1, <1>2, <1>3, <1>12, <2>1, <2>2 DEF Alive, InOrder, heapVars
<1>15. ASSUME NEW h \in Alive
       PROVE  holds'[h] = holds[h] /\ owns'[h] = owns[h] /\ rules'[h] = rules[h] /\ policy'[h] = policy[h]
  BY <1>8, <1>9, <1>10, <1>12, <1>14
<1>16. TypeOK'
  BY <1>1, <1>2, <1>3, <1>8, <1>9, <1>10, <1>11 DEF TypeOK, Maints, heapVars
<1>17. InOrder' BY <1>1, <1>2, <1>3, <1>11, <1>12, <1>13, <1>14 DEF InOrder
<1>18. Stopped' BY <1>11 DEF Stopped
<1>19. Unbuilt'
  <2>1. ASSUME NEW h \in Gens, h > last + 1 PROVE h > last /\ h # g
    <3>1. h \in Nat BY Bounds
    <3>2. last \in Nat /\ g = last + 1 BY <1>3, <1>12
    <3> QED BY <2>1, <3>1, <3>2
  <2> QED BY <1>1, <1>2, <1>8, <1>9, <2>1 DEF Unbuilt, heapVars
<1>20. Named'
  <2>1. ASSUME NEW h \in Gens, NEW p \in Parts, holds[h][p] # Off
        PROVE  /\ holds[h][p] \in Gens /\ holds[h][p] # g /\ h # g /\ holds[h][p] <= h
               /\ holds[holds[h][p]][p] = holds[h][p]
    <3>1. h \in Nat /\ ~(h > last) BY <1>1, <2>1, Bounds DEF Unbuilt
    <3>2. holds[h][p] \in Gens BY <1>1, <2>1, Counts
    <3>3. holds[h][p] \in Nat /\ holds[h][p] <= h /\ holds[holds[h][p]][p] = holds[h][p]
      BY <1>1, <2>1, <3>2, Bounds DEF Named
    <3> QED BY <1>3, <1>12, <3>1, <3>2, <3>3
  <2>2. ASSUME NEW h \in Gens, NEW p \in Parts, holds'[h][p] # Off
        PROVE  holds'[h][p] <= h /\ holds'[holds'[h][p]][p] = holds'[h][p]
    <3>1. CASE h # g BY <1>8, <2>1, <2>2, <3>1
    <3>2. CASE h = g /\ p \in built BY <1>8, <1>12, <3>2
    <3>3. CASE h = g /\ p \notin built
      <4>1. holds'[g][p] = holds[current][p] /\ holds[current][p] # Off BY <1>8, <2>2, <3>3
      <4>2. PICK b \in Gens : b = holds[current][p] BY <1>7, <2>1, <4>1
      <4>3. b # g /\ b <= current /\ holds[b][p] = b BY <1>7, <2>1, <4>1, <4>2
      <4>4. b \in Nat BY Bounds
      <4>5. b \in Nat /\ b <= g
        <5>1. current \in Nat /\ g \in Nat /\ current < g BY <1>12
        <5> QED BY <4>3, <4>4, <5>1
      <4> QED BY <1>8, <3>3, <4>1, <4>2, <4>3, <4>5
    <3> QED BY <3>1, <3>2, <3>3
  <2> QED BY <2>2 DEF Named
<1>21. ASSUME NEW h \in Alive, NEW b, NEW p PROVE Owner(h, b, p)' <=> Owner(h, b, p)
  BY <1>14, <1>15 DEF Owner
<1>22. ASSUME NEW h \in Alive, NEW p \in Held(h)
       PROVE  holds[h][p] \in Gens /\ holds[h][p] # g /\ p \in Parts
  <2>1. p \in Parts /\ holds[h][p] # Off BY DEF Held
  <2>2. holds[h][p] \in Gens /\ holds[h][p] <= h BY <1>1, <1>12, <2>1, Counts DEF Named
  <2> QED BY <1>12, <2>1, <2>2, Bounds
<1>23. Owned'
  <2>1. ASSUME NEW h \in Gens, NEW p \in owns'[h] PROVE holds'[h][p] # Off
    <3>1. CASE h = g BY <1>5, <1>8, <1>9, <2>1, <3>1, Bounds
    <3>2. CASE h # g BY <1>1, <1>8, <1>9, <2>1, <3>2 DEF Owned
    <3> QED BY <3>1, <3>2
  <2>2. ASSUME NEW h \in Alive, NEW p \in owns[h] PROVE p \in Held(h) /\ holds[h][p] # g
    <3>1. p \in Held(h) BY <1>1, <1>7, <1>12 DEF Owned, Held
    <3> QED BY <1>22, <3>1
  <2>3. \A p \in built : holds'[g][p] = g BY <1>5, <1>8
  <2>4. ASSUME NEW h \in Alive', NEW k \in Alive', NEW p \in owns'[h] \cap owns'[k],
               holds'[h][p] = holds'[k][p]
        PROVE  h = k
    <3>1. CASE h \in Alive /\ k \in Alive BY <1>1, <1>15, <2>4, <3>1 DEF Owned
    <3>2. CASE h = g /\ k \in Alive
      <4>1. p \in built /\ p \in owns[k] /\ holds'[g][p] = holds[k][p] BY <1>9, <1>15, <2>4, <3>2
      <4> QED BY <2>2, <2>3, <3>2, <4>1
    <3>3. CASE h \in Alive /\ k = g
      <4>1. p \in built /\ p \in owns[h] /\ holds'[g][p] = holds[h][p] BY <1>9, <1>15, <2>4, <3>3
      <4> QED BY <2>2, <2>3, <3>3, <4>1
    <3> QED BY <1>14, <3>1, <3>2, <3>3
  <2>5. ASSUME NEW h \in Alive', NEW p \in Held(h)'
        PROVE  \E k \in Alive' : Owner(k, holds[h][p], p)' /\ (h <= k \/ k = current')
    <3>1. CASE h \in Alive
      <4>1. p \in Held(h) /\ holds'[h][p] = holds[h][p] BY <1>15, <3>1 DEF Held
      <4>2. PICK k \in Alive : Owner(k, holds[h][p], p) /\ (h <= k \/ k = current)
        BY <1>1, <3>1, <4>1 DEF Owned
      <4>3. PICK b \in Gens : b = holds[h][p] /\ b = holds'[h][p] BY <1>22, <3>1, <4>1
      <4>4. Owner(k, b, p)' BY <1>21, <4>2, <4>3
      <4>5. Owner(k, holds[h][p], p)' BY <4>3, <4>4 DEF Owner
      <4> QED BY <1>2, <1>14, <4>2, <4>5
    <3>2. CASE h = g /\ p \in built
      <4>1. Owner(g, holds[g][p], p)' BY <1>9, <1>14, <3>2 DEF Owner
      <4> QED BY <1>12, <1>14, <3>2, <4>1
    <3>3. CASE h = g /\ p \notin built
      <4>1. p \in Parts /\ p \in on /\ holds'[g][p] = holds[current][p] /\ holds[current][p] # Off
        BY <1>8, <3>3 DEF Held
      <4>2. p \in Held(current) BY <4>1 DEF Held
      <4>3. PICK k \in Alive : Owner(k, holds[current][p], p) /\ (current <= k \/ k = current)
        BY <1>1, <1>14, <4>2 DEF Owned
      <4>4. k = current
        <5>1. k \in Range(retired) \/ k = current BY <1>1, <1>2, <1>13 DEF InOrder
        <5>2. k \in Range(retired) => k < current BY <1>1, <1>2 DEF InOrder
        <5> QED BY <1>12, <4>3, <5>1, <5>2
      <4>5. PICK b \in Gens : b = holds[current][p] /\ b = holds'[g][p] BY <1>14, <1>22, <4>1, <4>2
      <4>a. PICK c \in Alive : c = current BY <1>14
      <4>b. Owner(c, b, p)' BY <1>21, <4>3, <4>4, <4>5, <4>a
      <4>6. Owner(current, b, p)' BY <1>2, <4>a, <4>b DEF Owner
      <4>7. current' = current /\ current \in Alive' BY <1>2, <1>14
      <4>8. Owner(current, holds[g][p], p)' BY <4>5, <4>6 DEF Owner
      <4> QED BY <3>3, <4>7, <4>8 DEF Owner
    <3> QED BY <1>14, <3>1, <3>2, <3>3
  <2>6. Held(g)' = owns'[g] \cup maint'.carried /\ owns'[g] \cap maint'.carried = {}
    BY <1>5, <1>8, <1>9, <1>11, Bounds DEF Held
  <2>7. \A p \in maint'.carried : holds'[g][p] = holds'[current'][p]
    BY <1>2, <1>8, <1>11, <1>14, <1>15
  <2> QED BY <1>9, <1>13, <2>1, <2>3, <2>4, <2>5, <2>6, <2>7 DEF Owned
<1>24. ReleasedRight'
  <2>1. released' = released BY <1>2 DEF heapVars
  <2>2. ASSUME NEW h \in Alive', NEW p \in Held(h)' PROVE released[holds'[h][p]][p] = 0
    <3>1. CASE h \in Alive
      <4>1. p \in Held(h) /\ holds'[h][p] = holds[h][p] BY <1>15, <3>1 DEF Held
      <4> QED BY <1>1, <3>1, <4>1 DEF ReleasedRight
    <3>2. CASE h = g /\ p \in built
      <4>1. p \in Parts /\ holds'[g][p] = g /\ g > last BY <1>3, <1>8, <1>12, <3>2 DEF Held
      <4> QED BY <1>1, <3>2, <4>1 DEF Unbuilt
    <3>3. CASE h = g /\ p \notin built
      <4>1. p \in Parts /\ holds'[g][p] = holds[current][p] /\ holds[current][p] # Off
        BY <1>8, <3>3 DEF Held
      <4>2. p \in Held(current) BY <4>1 DEF Held
      <4> QED BY <1>1, <1>14, <3>3, <4>1, <4>2 DEF ReleasedRight
    <3> QED BY <1>14, <3>1, <3>2, <3>3
  <2>3. ASSUME NEW b \in 1 .. last', NEW p \in Parts, holds'[b][p] = b, released[b][p] = 0
        PROVE  \E k \in Alive' : Owner(k, b, p)'
    <3>1. CASE b = g
      <4>1. p \in built
        <5> SUFFICES ASSUME p \notin built PROVE FALSE OBVIOUS
        <5>1. holds[current][p] = g BY <1>8, <2>3, <3>1, Bounds
        <5>2. p \in Held(current) BY <5>1, Bounds DEF Held
        <5> QED BY <1>14, <1>22, <5>1, <5>2
      <4>2. Owner(g, b, p)' BY <1>9, <1>14, <2>3, <3>1, <4>1 DEF Owner
      <4> QED BY <1>14, <4>2
    <3>2. CASE b # g
      <4>0. b \in 1 .. last + 1 BY <1>2
      <4>1. b \in 1 .. last /\ b \in Gens BY <1>2, <1>3, <1>12, <3>2, <4>0, Bounds DEF Gens
      <4>2. holds[b][p] = b BY <1>8, <2>3, <3>2, <4>1
      <4>3. PICK k \in Alive : Owner(k, b, p) BY <1>1, <2>3, <4>1, <4>2 DEF ReleasedRight
      <4> QED BY <1>14, <1>21, <4>3
    <3> QED BY <3>1, <3>2
  <2> QED BY <1>1, <2>1, <2>2, <2>3 DEF ReleasedRight
<1>25. Pinned'
  <2>1. \A h, s : In(h, s)' = In(h, s) BY <1>2 DEF In
  <2> QED BY <1>1, <1>2, <1>14, <2>1 DEF Pinned
<1>26. ReapedRight' BY <1>11 DEF ReapedRight
<1>27. LegsSafe' BY <1>1, <1>2 DEF LegsSafe, heapVars
<1>28. PolicyTells'
  <2>1. ASSUME NEW h \in Alive, policy[h] = n PROVE rules[h] = r
    <3>1. policy[h] <= policy[current] /\ policy[current] \in Nat
      <4>1. h <= current
        <5>1. h \in Range(retired) \/ h = current BY <1>1, <1>2, <1>13 DEF InOrder
        <5>2. h \in Range(retired) => h < current BY <1>1, <1>2 DEF InOrder
        <5> QED BY <1>12, <5>1, <5>2
      <4> QED BY <1>1, <1>7, <4>1, Counts DEF PolicyTells
    <3>2. n = policy[current] /\ r = rules[current] BY <1>6, <2>1, <3>1
    <3> QED BY <1>1, <1>14, <2>1, <3>2 DEF PolicyTells
  <2>2. ASSUME NEW h \in Alive', NEW k \in Alive', policy'[h] = policy'[k] PROVE rules'[h] = rules'[k]
    BY <1>1, <1>10, <1>14, <1>15, <2>1, <2>2 DEF PolicyTells
  <2>3. ASSUME NEW h \in Alive', h <= current PROVE policy'[h] <= policy'[current]
    <3>1. h \in Alive BY <1>12, <1>14, <2>3
    <3> QED BY <1>1, <1>14, <1>15, <2>3, <3>1 DEF PolicyTells
  <2>4. ASSUME NEW b \in Gens, NEW e \in stored[b]
        PROVE  /\ e.policy <= policy'[current]
               /\ \A h \in Alive' : e.policy = policy'[h] => e.rules = rules'[h]
    <3>1. e.policy <= policy[current] /\ \A h \in Alive : e.policy = policy[h] => e.rules = rules[h]
      BY <1>1, <1>2, <2>4 DEF PolicyTells
    <3>2. e.policy \in Nat /\ policy[current] \in Nat BY <1>1, <1>7 DEF TypeOK
    <3>3. e.policy = n => e.rules = r BY <1>6, <1>14, <3>1, <3>2
    <3> QED BY <1>10, <1>14, <1>15, <3>1, <3>3
  <2>5. current' = current /\ stored' = stored BY <1>2
  <2>6. \A h \in Private' : policy'[current] <= policy'[h]
    <3>1. policy[current] \in Nat BY <1>7
    <3>2. policy[current] <= n BY <1>6, <3>1
    <3> QED BY <1>10, <1>13, <1>14, <1>15, <3>2
  <2> QED BY <2>2, <2>3, <2>4, <2>5, <2>6 DEF PolicyTells
<1> QED BY <1>16, <1>17, <1>18, <1>19, <1>20, <1>23, <1>24, <1>25, <1>26, <1>27, <1>28 DEF GenInv

(* A build that fails leaves a number nothing bears, and what it had built  *)
(* released.                                                                *)
LEMMA BuildFailsOK ==
  ASSUME GenInv, BuildFails
  PROVE  GenInv'
<1>1. TypeOK /\ InOrder /\ Stopped /\ Unbuilt /\ Named /\ Owned /\ ReleasedRight /\ Pinned
      /\ ReapedRight /\ LegsSafe /\ PolicyTells
  BY DEF GenInv
<1>2. /\ maint.at = "wait" /\ last < MaxGen /\ last' = last + 1 /\ maint' = Reaping
      /\ destroyed' = destroyed \cup {last + 1}
      /\ UNCHANGED <<current, holds, owns, rules, policy, retired, refs, racing, stored, pin>>
  BY DEF BuildFails
<1>3. PICK g \in Gens : g = last + 1 /\ last \in Nat /\ g \in Nat
  BY <1>1, <1>2, Counts, Bounds DEF Gens
<1>4. PICK done \in SUBSET (Parts \ {"Answers"}) :
        released' = [released EXCEPT ![last + 1] = [p \in Parts |-> IF p \in done THEN 1 ELSE 0]]
  BY DEF BuildFails
<1>5. /\ released' \in [Gens -> [Parts -> Nat]]
      /\ \A p \in Parts : released'[g][p] \in {0, 1}
      /\ \A b \in Gens : b # g => released'[b] = released[b]
  <2> DEFINE row == [p \in Parts |-> IF p \in done THEN 1 ELSE 0]
  <2>1. row \in [Parts -> Nat] /\ \A p \in Parts : row[p] \in {0, 1} OBVIOUS
  <2>2. released' = [released EXCEPT ![g] = row] BY <1>3, <1>4
  <2>3. released \in [Gens -> [Parts -> Nat]] BY <1>1 DEF TypeOK
  <2> HIDE DEF row
  <2> QED BY <2>1, <2>2, <2>3
<1>6. maint' \in Maints /\ maint'.at = "reap" /\ maint'.stripe = 0 BY <1>2, WaitingType
<1>7. Private = {} /\ Private' = {} BY <1>2, <1>6 DEF Private
<1>8. Alive' = Alive /\ g \notin Alive
  <2>1. 1 .. (last + 1) = (1 .. last) \cup {g} /\ g \notin 1 .. last BY <1>3
  <2> QED BY <1>2, <1>3, <2>1 DEF Alive
<1>9. TypeOK' BY <1>1, <1>2, <1>3, <1>5, <1>6 DEF TypeOK, Maints
<1>10. InOrder' BY <1>1, <1>2, <1>7, <1>8 DEF InOrder
<1>11. Stopped' BY <1>6 DEF Stopped
<1>12. Unbuilt'
  <2>1. ASSUME NEW h \in Gens, h > last + 1 PROVE h > last /\ h # g
    <3>1. h \in Nat BY Bounds
    <3>2. last \in Nat /\ g = last + 1 BY <1>3
    <3> QED BY <2>1, <3>1, <3>2
  <2>2. ASSUME NEW h \in Gens, h > last + 1
        PROVE  /\ owns[h] = {} /\ racing[h] = 0 /\ h \notin destroyed \cup {last + 1}
               /\ \A p \in Parts : holds[h][p] = Off /\ released'[h][p] = 0
    <3>1. h > last /\ h # g BY <2>1, <2>2
    <3>2. /\ owns[h] = {} /\ racing[h] = 0 /\ h \notin destroyed
          /\ \A p \in Parts : holds[h][p] = Off /\ released[h][p] = 0
      BY <1>1, <3>1 DEF Unbuilt
    <3>3. released'[h] = released[h] BY <1>5, <3>1
    <3> QED BY <1>3, <3>1, <3>2, <3>3
  <2> QED BY <1>2, <2>2 DEF Unbuilt
<1>13. Named' BY <1>1, <1>2 DEF Named
<1>14. Owned' BY <1>1, <1>2, <1>7, <1>8 DEF Owned, Owner, Held
<1>15. \A h \in Gens, p \in Parts : holds[h][p] # g
  <2> SUFFICES ASSUME NEW h \in Gens, NEW p \in Parts, holds[h][p] = g PROVE FALSE OBVIOUS
  <2>1. holds[g][p] = g BY <1>1, Bounds DEF Named
  <2>2. holds[g][p] = Off BY <1>1, <1>3 DEF Unbuilt
  <2> QED BY <2>1, <2>2, Bounds
<1>16. ReleasedRight'
  <2>1. \A b \in Gens, p \in Parts : released'[b][p] <= 1 BY <1>1, <1>5 DEF ReleasedRight
  <2>2. ASSUME NEW h \in Alive, NEW p \in Held(h) PROVE released'[holds[h][p]][p] = 0
    <3>1. h \in Gens /\ p \in Parts /\ holds[h][p] # Off BY <1>1, AliveType DEF Held
    <3>2. holds[h][p] \in Gens /\ holds[h][p] # g BY <1>1, <1>15, <3>1, Counts
    <3> QED BY <1>1, <1>5, <3>2 DEF ReleasedRight
  <2>3. ASSUME NEW b \in 1 .. last', NEW p \in Parts, holds[b][p] = b, released'[b][p] = 0
        PROVE  \E k \in Alive : Owner(k, b, p)
    <3>0. b \in 1 .. last + 1 BY <1>2
    <3>1. b \in Gens BY <1>2, <1>3, <3>0, Bounds DEF Gens
    <3>2. b # g BY <1>15, <2>3, <3>1
    <3>3. b \in 1 .. last BY <1>3, <3>0, <3>2
    <3> QED BY <1>1, <1>5, <2>3, <3>1, <3>2, <3>3 DEF ReleasedRight
  <2> QED BY <1>2, <1>8, <2>1, <2>2, <2>3 DEF ReleasedRight, Owner, Held
<1>17. Pinned'
  <2>1. \A h, s : In(h, s)' = In(h, s) BY <1>2 DEF In
  <2> QED BY <1>1, <1>2, <1>8, <2>1 DEF Pinned
<1>18. ReapedRight'
  <2>1. \A s \in Stripes : ~(s < maint'.stripe) BY <1>6, Bounds DEF Stripes
  <2> QED BY <1>6, <2>1 DEF ReapedRight
<1>19. LegsSafe'
  <2>1. racing[g] = 0 BY <1>1, <1>3 DEF Unbuilt
  <2> QED BY <1>1, <1>2, <1>5, <2>1 DEF LegsSafe
<1>20. PolicyTells' BY <1>1, <1>2, <1>6, <1>7, <1>8 DEF PolicyTells
<1> QED BY <1>9, <1>10, <1>11, <1>12, <1>13, <1>14, <1>16, <1>17, <1>18, <1>19, <1>20 DEF GenInv

(* swap_generation: the pointer moves, and with it the duty to release what *)
(* the new generation carries on.                                           *)
LEMMA SwapGenerationOK ==
  ASSUME GenInv, SwapGeneration
  PROVE  GenInv'
<1>1. TypeOK /\ InOrder /\ Stopped /\ Unbuilt /\ Named /\ Owned /\ ReleasedRight /\ Pinned
      /\ ReapedRight /\ LegsSafe /\ PolicyTells
  BY DEF GenInv
<1>2. /\ maint.at = "locking" /\ \A r \in Requests : pin[r].at # "reading"
      /\ current' = maint.gen
      /\ owns' = [owns EXCEPT ![maint.gen] = @ \cup (owns[current] \cap maint.carried),
                              ![current] = @ \ maint.carried]
      /\ retired' = Append(retired, current)
      /\ maint' = [Waiting EXCEPT !.at =
           IF "Answers" \in maint.carried /\ policy[maint.gen] # policy[current] THEN "flush" ELSE "reap"]
      /\ UNCHANGED <<last, holds, rules, policy, heapVars, refs, racing, stored, pin>>
  BY DEF SwapGeneration, Swapped
<1>3. Private = {maint.gen} BY <1>2 DEF Private
<1>4. PICK c \in Gens : c = current /\ c \in Nat BY <1>1, Bounds DEF TypeOK
<1>5. PICK g \in Gens : g = maint.gen /\ g = last /\ g \in Nat /\ c < g /\ g \in Alive /\ c \in Alive
  <2>1. maint.gen \in Alive /\ current \in Alive /\ maint.gen = last /\ current < maint.gen
    BY <1>1, <1>2, <1>3 DEF InOrder
  <2> QED BY <1>1, <1>4, <2>1, AliveType, Bounds
<1>6. PICK ps \in SUBSET Parts : ps = maint.carried BY <1>1 DEF TypeOK
<1>7. /\ owns' \in [Gens -> SUBSET Parts] /\ owns'[c] = owns[c] \ ps
      /\ owns'[g] = owns[g] \cup (owns[c] \cap ps)
      /\ \A h \in Gens : h # c /\ h # g => owns'[h] = owns[h]
  <2>1. owns \in [Gens -> SUBSET Parts] /\ c # g BY <1>1, <1>4, <1>5 DEF TypeOK
  <2>2. owns' = [owns EXCEPT ![g] = @ \cup (owns[c] \cap ps), ![c] = @ \ ps]
    BY <1>2, <1>4, <1>5, <1>6
  <2> QED BY <2>1, <2>2
<1>8. maint' \in Maints /\ maint'.at \in {"flush", "reap"} /\ maint'.stripe = 0
  BY <1>2, WaitingType DEF Maints
<1>9. Alive' = Alive /\ Private' = {} BY <1>2, <1>8 DEF Alive, Private, heapVars
<1>10. /\ retired' \in Seq(Gens) /\ Range(retired') = Range(retired) \cup {c}
       /\ \A i, j \in DOMAIN retired' : i < j => retired'[i] < retired'[j]
  <2>1. /\ retired \in Seq(Gens) /\ Len(retired) \in Nat /\ DOMAIN retired = 1 .. Len(retired)
        /\ retired' \in Seq(Gens) /\ DOMAIN retired' = 1 .. Len(retired) + 1
        /\ \A i \in 1 .. Len(retired) : retired'[i] = retired[i]
        /\ retired'[Len(retired) + 1] = c
    <3>1. retired \in Seq(Gens) BY <1>1 DEF TypeOK
    <3> QED BY <1>2, <1>4, <3>1
  <2>2. Range(retired') = Range(retired) \cup {c} BY <2>1 DEF Range
  <2>3. \A i, j \in DOMAIN retired : i < j => retired[i] < retired[j] BY <1>1, <1>2 DEF InOrder
  <2>4. \A i \in 1 .. Len(retired) : retired[i] < c BY <1>1, <1>2, <1>4, <2>1 DEF InOrder, Range
  <2>5. ASSUME NEW i \in DOMAIN retired', NEW j \in DOMAIN retired', i < j
        PROVE  retired'[i] < retired'[j]
    <3>1. i \in 1 .. Len(retired) BY <2>1, <2>5
    <3>2. CASE j \in 1 .. Len(retired) BY <2>1, <2>3, <2>5, <3>1, <3>2
    <3>3. CASE j = Len(retired) + 1 BY <2>1, <2>4, <3>1, <3>3
    <3> QED BY <2>1, <3>2, <3>3
  <2> QED BY <2>1, <2>2, <2>5
<1>11. \A h \in Alive : h \in Gens /\ h \in Nat /\ (h = g \/ h <= c)
  <2>1. ASSUME NEW h \in Alive PROVE h = g \/ h = c \/ h \in Range(retired)
    BY <1>1, <1>2, <1>3, <1>4, <1>5 DEF InOrder
  <2>2. \A h \in Range(retired) : h < c BY <1>1, <1>2, <1>4 DEF InOrder
  <2> QED BY <1>1, <1>4, <2>1, <2>2, AliveType, Bounds
<1>12. TypeOK' BY <1>1, <1>2, <1>5, <1>7, <1>8, <1>10 DEF TypeOK, Maints, heapVars
<1>13. InOrder'
  <2>1. Alive = Range(retired') \cup {g} BY <1>1, <1>2, <1>3, <1>4, <1>5, <1>10 DEF InOrder
  <2>2. \A h \in Range(retired) : h < c /\ h \in Nat
    BY <1>1, <1>2, <1>4, AliveType, Bounds DEF InOrder
  <2>3. \A h \in Range(retired') : h < g BY <1>4, <1>5, <1>10, <2>2
  <2> QED BY <1>2, <1>5, <1>9, <1>10, <2>1, <2>3 DEF InOrder
<1>14. Stopped' BY <1>8 DEF Stopped
<1>15. Unbuilt'
  <2>1. ASSUME NEW h \in Gens, h > last PROVE h # c /\ h # g BY <1>4, <1>5, <2>1, Bounds
  <2> QED BY <1>1, <1>2, <1>7, <2>1 DEF Unbuilt, heapVars
<1>16. Named' BY <1>1, <1>2 DEF Named
<1>17. /\ Held(g) = owns[g] \cup ps /\ owns[g] \cap ps = {}
       /\ \A p \in owns[g] : holds[g][p] = g
       /\ \A p \in ps : holds[g][p] = holds[c][p] /\ holds[c][p] # Off
  <2>1. /\ Held(g) = owns[g] \cup ps /\ owns[g] \cap ps = {}
        /\ \A p \in owns[g] : holds[g][p] = g
        /\ \A p \in ps : holds[g][p] = holds[c][p]
    BY <1>1, <1>3, <1>4, <1>5, <1>6 DEF Owned
  <2> QED BY <2>1 DEF Held
(* What is carried is the current one's to hand on.                         *)
<1>18. ps \subseteq owns[c]
  <2> SUFFICES ASSUME NEW p \in ps PROVE p \in owns[c] OBVIOUS
  <2>1. p \in Held(c) BY <1>6, <1>17 DEF Held
  <2>2. PICK k \in Alive : Owner(k, holds[c][p], p) /\ (c <= k \/ k = c)
    BY <1>1, <1>4, <1>5, <2>1 DEF Owned
  <2>3. k # g
    <3> SUFFICES ASSUME k = g PROVE FALSE OBVIOUS
    <3>1. p \in owns[g] BY <2>2 DEF Owner
    <3> QED BY <1>17, <3>1
  <2>4. k = c BY <1>4, <1>11, <2>2, <2>3
  <2> QED BY <2>2, <2>4 DEF Owner
(* Who owned a part still does, or handed it on to the new one.             *)
<1>19. ASSUME NEW k \in Alive, NEW b, NEW p, Owner(k, b, p), ~(k = c /\ p \in ps)
       PROVE  Owner(k, b, p)'
  <2>1. k \in Gens /\ p \in owns[k] /\ holds[k][p] = b BY <1>11, <1>19 DEF Owner
  <2>2. p \in owns'[k] BY <1>7, <1>19, <2>1
  <2> QED BY <1>2, <1>9, <2>1, <2>2 DEF Owner
<1>20. ASSUME NEW b, NEW p \in ps, Owner(c, b, p) PROVE Owner(g, b, p)'
  BY <1>2, <1>5, <1>7, <1>9, <1>17, <1>20 DEF Owner
<1>21. Owned'
  <2>1. ASSUME NEW h \in Gens, NEW p \in owns'[h] PROVE holds[h][p] # Off
    <3>1. CASE h = g
      <4>1. p \in owns[g] \/ p \in ps BY <1>7, <2>1, <3>1
      <4> QED BY <1>1, <1>17, <3>1, <4>1 DEF Owned
    <3>2. CASE h # g
      <4>1. p \in owns[h] BY <1>7, <2>1, <3>2
      <4> QED BY <1>1, <4>1 DEF Owned
    <3> QED BY <3>1, <3>2
  <2>2. ASSUME NEW h \in Alive, NEW k \in Alive, NEW p \in owns'[h] \cap owns'[k],
               holds[h][p] = holds[k][p]
        PROVE  h = k
    <3>1. ASSUME NEW x \in Alive, NEW y \in Alive, p \in owns'[x], p \in owns'[y],
                 holds[x][p] = holds[y][p], x = g, y # g
          PROVE  FALSE
      <4>1. p \in owns[y] /\ y \in Gens BY <1>7, <1>11, <3>1
      <4>2. CASE p \in owns[g]
        <5>1. x = y BY <1>1, <3>1, <4>1, <4>2 DEF Owned
        <5> QED BY <3>1, <5>1
      <4>3. CASE p \notin owns[g]
        <5>1. p \in owns[c] /\ p \in ps BY <1>7, <3>1, <4>3
        <5>2. holds[c][p] = holds[y][p] BY <1>17, <3>1, <5>1
        <5>3. c = y BY <1>1, <1>5, <3>1, <4>1, <5>1, <5>2 DEF Owned
        <5> QED BY <1>7, <3>1, <5>1, <5>3
      <4> QED BY <4>2, <4>3
    <3>2. CASE h = g /\ k # g BY <2>2, <3>1, <3>2
    <3>3. CASE h # g /\ k = g BY <2>2, <3>1, <3>3
    <3>4. CASE h # g /\ k # g
      <4>1. p \in owns[h] /\ p \in owns[k] BY <1>7, <1>11, <2>2, <3>4
      <4> QED BY <1>1, <2>2, <4>1 DEF Owned
    <3> QED BY <3>2, <3>3, <3>4
  <2>3. ASSUME NEW h \in Alive, NEW p \in Held(h)
        PROVE  \E k \in Alive : Owner(k, holds[h][p], p)' /\ (h <= k \/ k = current')
    <3>1. PICK k \in Alive : Owner(k, holds[h][p], p) /\ (h <= k \/ k = current)
      BY <1>1 DEF Owned
    <3>2. PICK b : b = holds[h][p] OBVIOUS
    <3>3. CASE k = c /\ p \in ps
      <4>1. Owner(g, b, p)' BY <1>20, <3>1, <3>2, <3>3
      <4>2. Owner(g, holds[h][p], p)' BY <1>2, <3>2, <4>1 DEF Owner
      <4> QED BY <1>2, <1>5, <4>2
    <3>4. CASE ~(k = c /\ p \in ps)
      <4>1. Owner(k, b, p)' BY <1>19, <3>1, <3>2, <3>4
      <4>2. Owner(k, holds[h][p], p)' BY <1>2, <3>2, <4>1 DEF Owner
      <4>3. h <= k \/ k = current'
        <5>1. CASE h <= k BY <5>1
        <5>2. CASE k = c /\ h = g
          <6>1. p \in owns[g] BY <1>17, <3>4, <5>2
          <6>2. holds[g][p] = g /\ holds[c][p] = g BY <1>17, <3>1, <5>2, <6>1 DEF Owner
          <6>3. g = c BY <1>1, <1>5, <3>1, <5>2, <6>1, <6>2 DEF Owned, Owner
          <6> QED BY <1>4, <1>5, <6>3
        <5>3. CASE k = c /\ h <= c BY <5>3
        <5> QED BY <1>4, <1>11, <3>1, <5>1, <5>2, <5>3
      <4> QED BY <4>2, <4>3
    <3> QED BY <3>3, <3>4
  <2>4. \A h : Held(h)' = Held(h) BY <1>2 DEF Held
  <2>5. \A h \in Alive' : \A p \in Held(h)' :
          \E k \in Alive' : Owner(k, holds[h][p], p)' /\ (h <= k \/ k = current')
    BY <1>9, <2>3, <2>4
  <2>6. \A h \in Gens : \A p \in owns'[h] : holds'[h][p] # Off BY <1>2, <2>1
  <2>7. \A h, k \in Alive' : \A p \in owns'[h] \cap owns'[k] : holds'[h][p] = holds'[k][p] => h = k
    BY <1>2, <1>9, <2>2
  <2> QED BY <1>9, <2>5, <2>6, <2>7 DEF Owned
<1>22. ReleasedRight'
  <2>1. ASSUME NEW b, NEW p, \E k \in Alive : Owner(k, b, p) PROVE \E k \in Alive : Owner(k, b, p)'
    <3>1. PICK k \in Alive : Owner(k, b, p) BY <2>1
    <3>2. CASE k = c /\ p \in ps
      <4>1. Owner(g, b, p)' BY <1>20, <3>1, <3>2
      <4> QED BY <1>5, <4>1
    <3>3. CASE ~(k = c /\ p \in ps)
      <4>1. Owner(k, b, p)' BY <1>19, <3>1, <3>3
      <4> QED BY <4>1
    <3> QED BY <3>2, <3>3
  <2>2. released' = released /\ last' = last /\ holds' = holds BY <1>2 DEF heapVars
  <2>3. \A h \in Alive : Held(h)' = Held(h) BY <2>2 DEF Held
  <2> QED BY <1>1, <1>9, <2>1, <2>2, <2>3 DEF ReleasedRight
<1>23. Pinned'
  <2>1. \A h, s : In(h, s)' = In(h, s) BY <1>2 DEF In
  <2>2. ASSUME NEW r \in Requests, pin[r].at # "out" PROVE pin[r].gen <= g
    <3>1. PICK h \in Alive : h = pin[r].gen /\ h <= c BY <1>1, <1>4, <2>2 DEF Pinned
    <3>2. h \in Nat BY <1>11
    <3> QED BY <1>4, <1>5, <3>1, <3>2
  <2> QED BY <1>1, <1>2, <1>5, <1>9, <2>1, <2>2 DEF Pinned
<1>24. ReapedRight'
  <2>1. \A s \in Stripes : ~(s < maint'.stripe) BY <1>8, Bounds DEF Stripes
  <2> QED BY <1>8, <2>1 DEF ReapedRight
<1>25. LegsSafe' BY <1>1, <1>2 DEF LegsSafe, heapVars
<1>26. PolicyTells'
  <2>1. policy[c] <= policy[g] /\ policy[c] \in Nat /\ policy[g] \in Nat
    BY <1>1, <1>3, <1>4, <1>5, Counts DEF PolicyTells
  <2>2. ASSUME NEW h \in Alive PROVE policy[h] <= policy[g]
    <3>1. CASE h = g BY <2>1, <3>1
    <3>2. CASE h <= c
      <4>1. policy[h] <= policy[c] /\ policy[h] \in Nat
        BY <1>1, <1>4, <1>11, <3>2, Counts DEF PolicyTells
      <4> QED BY <2>1, <4>1
    <3> QED BY <1>11, <3>1, <3>2
  <2>3. ASSUME NEW b \in Gens, NEW e \in stored[b] PROVE e.policy <= policy[g]
    <3>1. e.policy <= policy[c] BY <1>1, <1>2, <1>4 DEF PolicyTells
    <3>2. e.policy \in Nat BY <1>1 DEF TypeOK
    <3> QED BY <2>1, <3>1, <3>2
  <2> QED BY <1>1, <1>2, <1>5, <1>9, <2>2, <2>3 DEF PolicyTells
<1> QED BY <1>12, <1>13, <1>14, <1>15, <1>16, <1>21, <1>22, <1>23, <1>24, <1>25, <1>26 DEF GenInv

(* The oldest is released with what it owns, which nobody else has.         *)
LEMMA DestroyGenerationOK ==
  ASSUME GenInv, DestroyGeneration
  PROVE  GenInv'
<1>1. TypeOK /\ InOrder /\ Stopped /\ Unbuilt /\ Named /\ Owned /\ ReleasedRight /\ Pinned
      /\ ReapedRight /\ LegsSafe /\ PolicyTells
  BY DEF GenInv
<1>2. /\ maint.at = "free" /\ maint' = Reaping /\ destroyed' = destroyed \cup {Oldest}
      /\ retired' = Tail(retired)
      /\ released' = [b \in Gens |-> [p \in Parts |->
           released[b][p] + (IF p \in owns[Oldest] /\ holds[Oldest][p] = b THEN 1 ELSE 0)]]
      /\ UNCHANGED <<current, last, holds, owns, rules, policy, refs, racing, stored, pin>>
  BY DEF DestroyGeneration, Release
<1>3. retired # <<>> /\ \A s \in Stripes : refs[Oldest][s] = 0 BY <1>1, <1>2 DEF ReapedRight
<1>4. PICK o \in Gens : o = Oldest /\ o \in Alive /\ o < current /\ \A g \in Alive : o <= g
  BY <1>1, <1>2, <1>3, OldestFacts
<1>5. /\ retired' \in Seq(Gens) /\ Range(retired') = Range(retired) \ {o}
      /\ \A i, j \in DOMAIN retired' : i < j => retired'[i] < retired'[j]
  BY <1>1, <1>2, <1>3, <1>4, OldestFacts
<1>6. maint' \in Maints /\ maint'.at = "reap" /\ maint'.stripe = 0 BY <1>2, WaitingType
<1>7. Private = {} /\ Private' = {} BY <1>2, <1>6 DEF Private
<1>8. Alive' = Alive \ {o} BY <1>2, <1>4 DEF Alive
<1>9. Alive \subseteq Gens /\ current \in Alive /\ current # o /\ current \in Nat
  <2>1. Alive \subseteq Gens /\ current \in Alive BY <1>1, <1>2, AliveType DEF InOrder
  <2>2. current \in Nat /\ o \in Nat BY <1>1, Counts, Bounds
  <2> QED BY <1>4, <2>1, <2>2
<1>10. /\ released' \in [Gens -> [Parts -> Nat]]
       /\ \A b \in Gens, p \in Parts :
            released'[b][p] = IF p \in owns[o] /\ holds[o][p] = b THEN released[b][p] + 1 ELSE released[b][p]
  <2>1. ASSUME NEW b \in Gens, NEW p \in Parts
        PROVE  released[b][p] \in Nat BY <1>1, Counts
  <2> QED BY <1>2, <1>4, <2>1
<1>11. ASSUME NEW p \in owns[o], NEW h \in Alive, p \in Held(h), holds[h][p] = holds[o][p]
       PROVE  h = o
  BY <1>1, <1>2, <1>3, <1>4, <1>11, OldestOwnsAlone
<1>12. ASSUME NEW p \in owns[o] PROVE p \in Parts /\ p \in Held(o)
  BY <1>1 DEF Owned, Held, TypeOK
<1>13. TypeOK' BY <1>1, <1>2, <1>4, <1>5, <1>6, <1>10, ZenonT(40) DEF TypeOK, Maints
<1>14. InOrder' BY <1>1, <1>2, <1>5, <1>7, <1>8, <1>9 DEF InOrder
<1>15. Stopped' BY <1>6 DEF Stopped
<1>16. Unbuilt'
  <2>1. ASSUME NEW g \in Gens, g > last, NEW p \in Parts PROVE released'[g][p] = 0
    <3>1. released[g][p] = 0 /\ holds[g][p] = Off BY <1>1, <2>1 DEF Unbuilt
    <3>2. holds[o][p] # g
      <4> SUFFICES ASSUME holds[o][p] = g PROVE FALSE OBVIOUS
      <4>1. holds[g][p] = g BY <1>1, Bounds DEF Named
      <4> QED BY <3>1, <4>1, Bounds
    <3> QED BY <1>10, <3>1, <3>2
  <2>2. ASSUME NEW g \in Gens, g > last PROVE g \notin destroyed'
    <3>1. g \notin destroyed BY <1>1, <2>2 DEF Unbuilt
    <3>2. o \in 1 .. last BY <1>1, <1>4, AliveType
    <3> QED BY <1>1, <1>2, <1>4, <2>2, <3>1, <3>2, Counts, Bounds
  <2> QED BY <1>1, <1>2, <2>1, <2>2 DEF Unbuilt
<1>17. Named' BY <1>1, <1>2 DEF Named
<1>18. ASSUME NEW k \in Alive, NEW b, NEW p, k # o PROVE Owner(k, b, p)' <=> Owner(k, b, p)
  BY <1>2, <1>8, <1>18 DEF Owner
<1>19. Owned'
  <2>1. ASSUME NEW h \in Alive', NEW p \in Held(h)'
        PROVE  \E k \in Alive' : Owner(k, holds[h][p], p)' /\ (h <= k \/ k = current')
    <3>1. h \in Alive /\ h # o /\ p \in Held(h) BY <1>2, <1>8 DEF Held
    <3>2. PICK b : b = holds[h][p] OBVIOUS
    <3>3. PICK k \in Alive : Owner(k, b, p) /\ (h <= k \/ k = current)
      BY <1>1, <3>1, <3>2 DEF Owned
    <3>4. k # o
      <4> SUFFICES ASSUME k = o PROVE FALSE OBVIOUS
      <4>1. p \in owns[o] /\ holds[o][p] = holds[h][p] BY <3>2, <3>3 DEF Owner
      <4> QED BY <1>11, <3>1, <4>1
    <3>5. Owner(k, b, p)' BY <1>18, <3>3, <3>4
    <3>6. Owner(k, holds[h][p], p)' BY <1>2, <3>2, <3>5 DEF Owner
    <3> QED BY <1>2, <1>8, <3>3, <3>4, <3>6
  <2> QED BY <1>1, <1>2, <1>7, <1>8, <2>1 DEF Owned
<1>20. ReleasedRight'
  <2>1. ASSUME NEW b \in Gens, NEW p \in Parts PROVE released'[b][p] <= 1
    <3>1. CASE p \in owns[o] /\ holds[o][p] = b
      <4>1. released[b][p] = 0 BY <1>1, <1>4, <1>12, <3>1 DEF ReleasedRight
      <4> QED BY <1>10, <3>1, <4>1
    <3>2. CASE ~(p \in owns[o] /\ holds[o][p] = b) BY <1>1, <1>10, <3>2 DEF ReleasedRight
    <3> QED BY <3>1, <3>2
  <2>2. ASSUME NEW h \in Alive', NEW p \in Held(h)' PROVE released'[holds'[h][p]][p] = 0
    <3>1. h \in Alive /\ h # o /\ p \in Held(h) /\ p \in Parts /\ holds[h][p] # Off
      BY <1>2, <1>8 DEF Held
    <3>2. PICK b \in Gens : b = holds[h][p] BY <1>1, <1>9, <3>1, Counts
    <3>3. ~(p \in owns[o] /\ holds[o][p] = b) BY <1>11, <3>1, <3>2
    <3>4. released[b][p] = 0 BY <1>1, <3>1, <3>2 DEF ReleasedRight
    <3> QED BY <1>2, <1>10, <3>1, <3>2, <3>3, <3>4
  <2>3. ASSUME NEW b \in 1 .. last', NEW p \in Parts, holds'[b][p] = b, released'[b][p] = 0
        PROVE  \E k \in Alive' : Owner(k, b, p)'
    <3>1. b \in 1 .. last /\ b \in Gens /\ holds[b][p] = b
      BY <1>1, <1>2, <2>3, Bounds DEF TypeOK, Gens
    <3>2. ~(p \in owns[o] /\ holds[o][p] = b) /\ released[b][p] = 0
      <4>1. released[b][p] \in Nat BY <1>1, <3>1, Counts
      <4> QED BY <1>10, <2>3, <3>1, <4>1
    <3>3. PICK k \in Alive : Owner(k, b, p) BY <1>1, <3>1, <3>2 DEF ReleasedRight
    <3>4. k # o BY <3>2, <3>3 DEF Owner
    <3> QED BY <1>8, <1>18, <3>3, <3>4
  <2> QED BY <2>1, <2>2, <2>3 DEF ReleasedRight
<1>21. Pinned'
  <2>1. \A h, s : In(h, s)' = In(h, s) BY <1>2 DEF In
  <2>2. \A r \in Requests : pin[r].at # "out" => pin[r].gen # o
    BY <1>1, <1>2, <1>3, <1>4, OldestUnpinned
  <2> QED BY <1>1, <1>2, <1>8, <2>1, <2>2 DEF Pinned
<1>22. ReapedRight'
  <2>1. \A s \in Stripes : ~(s < maint'.stripe) BY <1>6, Bounds DEF Stripes
  <2> QED BY <1>6, <2>1 DEF ReapedRight
<1>23. LegsSafe'
  <2>1. ASSUME NEW b \in Gens, racing[b] > 0 PROVE released'[b]["Upstreams"] = 0
    <3>1. ~("Upstreams" \in owns[o] /\ holds[o]["Upstreams"] = b)
      BY <1>1, <1>2, <1>4, <2>1 DEF ReapedRight
    <3> QED BY <1>1, <1>10, <2>1, <3>1, PartsNamed DEF LegsSafe
  <2> QED BY <1>2, <2>1 DEF LegsSafe
<1>24. PolicyTells' BY <1>1, <1>2, <1>6, <1>7, <1>8 DEF PolicyTells
<1> QED BY <1>13, <1>14, <1>15, <1>16, <1>17, <1>19, <1>20, <1>21, <1>22, <1>23, <1>24 DEF GenInv

(* The shutdown releases what is left, each part by its one owner.          *)
LEMMA DestroyGenerationsOK ==
  ASSUME GenInv, DestroyGenerations
  PROVE  GenInv'
<1>1. TypeOK /\ InOrder /\ Stopped /\ Unbuilt /\ Named /\ Owned /\ ReleasedRight /\ Pinned
      /\ ReapedRight /\ LegsSafe /\ PolicyTells
  BY DEF GenInv
<1>2. /\ maint.at = "wait" /\ \A r \in Requests : pin[r].at = "out"
      /\ \A b \in Gens : racing[b] = 0
      /\ retired' = <<>> /\ maint' = [Waiting EXCEPT !.at = "stopped"]
      /\ UNCHANGED <<current, last, holds, owns, rules, policy, refs, racing, stored, pin>>
  BY DEF DestroyGenerations
<1>3. Private = {} BY <1>2 DEF Private
<1>4. Alive = Range(retired) \cup {current} BY <1>1, <1>2, <1>3 DEF InOrder
<1> DEFINE Owners(b, p) == {g \in Alive : p \in owns[g] /\ holds[g][p] = b}
<1>5. /\ destroyed' = destroyed \cup Alive
      /\ released' = [b \in Gens |-> [p \in Parts |-> released[b][p] + Cardinality(Owners(b, p))]]
  BY <1>4 DEF DestroyGenerations
<1>6. maint' \in Maints /\ maint'.at = "stopped" BY <1>2, WaitingType DEF Maints
<1>7. Alive' = {} /\ Private' = {} BY <1>2, <1>5, <1>6 DEF Alive, Private
<1>8. Alive \subseteq Gens /\ Alive \subseteq 1 .. last BY <1>1, AliveType
<1>9. ASSUME NEW b \in Gens, NEW p \in Parts, NEW k \in Alive, Owner(k, b, p)
      PROVE  Cardinality(Owners(b, p)) = 1 /\ released[b][p] = 0
  <2>1. Owners(b, p) = {k} BY <1>1, <1>9 DEF Owned, Owner
  <2>2. p \in Held(k) /\ holds[k][p] = b BY <1>1, <1>8, <1>9 DEF Owned, Owner, Held
  <2> QED BY <1>1, <2>1, <2>2, FS_Singleton DEF ReleasedRight
<1>10. ASSUME NEW b \in Gens, NEW p \in Parts, ~\E k \in Alive : Owner(k, b, p)
       PROVE  Cardinality(Owners(b, p)) = 0
  <2>1. Owners(b, p) = {} BY <1>10 DEF Owner
  <2> QED BY <2>1, FS_EmptySet
<1> HIDE DEF Owners
<1>11. ASSUME NEW b \in Gens, NEW p \in Parts
       PROVE  /\ released'[b][p] \in Nat /\ released'[b][p] <= 1
              /\ (\E k \in Alive : Owner(k, b, p)) => released'[b][p] = 1
              /\ (~\E k \in Alive : Owner(k, b, p)) => released'[b][p] = released[b][p]
  <2>1. released'[b][p] = released[b][p] + Cardinality(Owners(b, p)) BY <1>5
  <2>2. released[b][p] \in Nat /\ released[b][p] <= 1 BY <1>1, Counts DEF ReleasedRight
  <2>3. CASE \E k \in Alive : Owner(k, b, p)
    <3>1. Cardinality(Owners(b, p)) = 1 /\ released[b][p] = 0 BY <1>9, <2>3
    <3> QED BY <2>1, <2>3, <3>1
  <2>4. CASE ~\E k \in Alive : Owner(k, b, p)
    <3>1. Cardinality(Owners(b, p)) = 0 BY <1>10, <2>4
    <3> QED BY <2>1, <2>2, <2>4, <3>1
  <2> QED BY <2>3, <2>4
<1>12. TypeOK'
  <2>1. released' \in [Gens -> [Parts -> Nat]]
    <3>1. \A b \in Gens, p \in Parts : released[b][p] + Cardinality(Owners(b, p)) \in Nat
      BY <1>5, <1>11
    <3> QED BY <1>5, <3>1
  <2>2. retired' \in Seq(Gens) BY <1>2
  <2>3. destroyed' \in SUBSET Gens BY <1>1, <1>5, <1>8 DEF TypeOK
  <2> QED BY <1>1, <1>2, <1>6, <2>1, <2>2, <2>3 DEF TypeOK, Maints
<1>13. InOrder' BY <1>6 DEF InOrder
<1>14. Stopped' BY <1>2, <1>7 DEF Stopped
<1>15. Unbuilt'
  <2>1. ASSUME NEW g \in Gens, g > last, NEW p \in Parts PROVE released'[g][p] = 0
    <3>1. released[g][p] = 0 /\ holds[g][p] = Off BY <1>1, <2>1 DEF Unbuilt
    <3>2. ~\E k \in Alive : Owner(k, g, p)
      <4> SUFFICES ASSUME NEW k \in Alive, holds[k][p] = g PROVE FALSE BY DEF Owner
      <4>1. holds[g][p] = g BY <1>1, <1>8, Bounds DEF Named
      <4> QED BY <3>1, <4>1, Bounds
    <3> QED BY <1>11, <3>1, <3>2
  <2>2. ASSUME NEW g \in Gens, g > last PROVE g \notin destroyed'
    <3>1. g \notin destroyed BY <1>1, <2>2 DEF Unbuilt
    <3> QED BY <1>1, <1>5, <1>8, <2>2, <3>1, Counts, Bounds
  <2> QED BY <1>1, <1>2, <2>1, <2>2 DEF Unbuilt
<1>16. Named' BY <1>1, <1>2 DEF Named
<1>17. Owned' BY <1>1, <1>2, <1>7 DEF Owned
<1>18. ReleasedRight'
  <2>1. ASSUME NEW b \in 1 .. last', NEW p \in Parts, holds'[b][p] = b PROVE released'[b][p] # 0
    <3>1. b \in 1 .. last /\ b \in Gens /\ holds[b][p] = b
      BY <1>1, <1>2, <2>1, Bounds DEF TypeOK, Gens
    <3>2. released[b][p] \in Nat BY <1>1, <3>1, Counts
    <3>3. released[b][p] = 0 => \E k \in Alive : Owner(k, b, p) BY <1>1, <3>1 DEF ReleasedRight
    <3> QED BY <1>11, <3>1, <3>2, <3>3
  <2> QED BY <1>7, <1>11, <2>1 DEF ReleasedRight
<1>19. Pinned'
  <2>1. \A h, s : In(h, s)' = In(h, s) BY <1>2 DEF In
  <2> QED BY <1>1, <1>2, <2>1 DEF Pinned
<1>20. ReapedRight' BY <1>6 DEF ReapedRight
<1>21. LegsSafe' BY <1>2 DEF LegsSafe
<1>22. PolicyTells' BY <1>1, <1>2, <1>6, <1>7 DEF PolicyTells
<1> QED BY <1>12, <1>13, <1>14, <1>15, <1>16, <1>17, <1>18, <1>19, <1>20, <1>21, <1>22 DEF GenInv

-----------------------------------------------------------------------------
LEMMA GenStep == GenInv /\ [Next]_vars => GenInv'
<1> SUFFICES ASSUME GenInv, [Next]_vars PROVE GenInv'
  OBVIOUS
<1>1. CASE UNCHANGED vars
  <2>1. UNCHANGED <<genVars, heapVars, maint>> BY <1>1 DEF vars, genVars, heapVars
  <2>2. InOrder' /\ Named' /\ Owned' /\ ReleasedRight' /\ Alive' = Alive /\ Private' = Private
    BY <2>1, RequestFrame
  <2>3. TypeOK' BY <1>1 DEF GenInv, TypeOK, vars
  <2>4. Stopped' /\ Unbuilt' /\ LegsSafe' BY <1>1, <2>2 DEF GenInv, Stopped, Unbuilt, LegsSafe, vars
  <2>5. Pinned'
    <3>1. \A h, s : In(h, s)' = In(h, s) BY <1>1 DEF In, vars
    <3> QED BY <1>1, <2>2, <3>1 DEF GenInv, Pinned, vars
  <2>6. ReapedRight' BY <1>1 DEF GenInv, ReapedRight, Oldest, vars
  <2>7. PolicyTells' BY <1>1, <2>2 DEF GenInv, PolicyTells, vars
  <2> QED BY <2>2, <2>3, <2>4, <2>5, <2>6, <2>7 DEF GenInv
<1>2. ASSUME NEW r \in Requests, Request(r) PROVE GenInv'
  BY <1>2, PinReadOK, PinCountOK, PinNestedOK, UnpinOK, StartRacerOK, StoreOK DEF Request
<1>3. ASSUME NEW b \in Gens, RacerEnd(b) PROVE GenInv' BY <1>3, RacerEndOK
<1>4. CASE Reap
  BY <1>4, ReapRefsOK, ReapRacingOK, DestroyGenerationOK, ReapDoneOK DEF Reap
<1>5. CASE Maintenance
  BY <1>4, <1>5, BuildLiveOK, BuildFailsOK, TickOK, WriteLockOK, SwapGenerationOK, ClearAllOK,
     DestroyGenerationsOK DEF Maintenance
<1> QED BY <1>1, <1>2, <1>3, <1>5 DEF Next

LEMMA GenInvHolds == Spec => []GenInv
  BY GenInitOK, GenStep, PTL DEF Spec

LEMMA PartsFollow == GenInv => PartsSound
<1> SUFFICES ASSUME GenInv PROVE PartsSound
  OBVIOUS
<1>1. TypeOK /\ Unbuilt /\ Named /\ Owned /\ ReleasedRight /\ Pinned /\ LegsSafe BY DEF GenInv
<1>2. NoUseAfterFree
  <2>1. ASSUME NEW r \in Requests, pin[r].at # "out"
        PROVE  /\ pin[r].gen \notin destroyed
               /\ \A p \in Held(pin[r].gen) : released[holds[pin[r].gen][p]][p] = 0
    <3>1. pin[r].gen \in Alive BY <1>1, <2>1 DEF Pinned
    <3> QED BY <1>1, <3>1 DEF Alive, ReleasedRight
  <2> QED BY <1>1, <2>1 DEF NoUseAfterFree, LegsSafe
<1>3. OwnedOnce
  <2> SUFFICES ASSUME NEW b \in 1 .. last, NEW p \in Parts
               PROVE  LET owners == {g \in 1 .. last \ destroyed : p \in owns[g] /\ holds[g][p] = b} IN
                      /\ released[b][p] <= 1
                      /\ released[b][p] = 1 => owners = {}
                      /\ released[b][p] = 0 /\ holds[b][p] = b => Cardinality(owners) = 1
    BY DEF OwnedOnce
  <2> DEFINE owners == {g \in 1 .. last \ destroyed : p \in owns[g] /\ holds[g][p] = b}
  <2>1. b \in Gens BY <1>1, Bounds DEF TypeOK, Gens
  <2>2. ASSUME NEW g \in owners PROVE Owner(g, b, p) /\ g \in Alive BY DEF Owner, Alive
  <2>3. released[b][p] = 1 => owners = {}
    <3> SUFFICES ASSUME released[b][p] = 1, NEW g \in owners PROVE FALSE OBVIOUS
    <3>1. Owner(g, b, p) /\ g \in Alive BY <2>2
    <3>2. p \in Held(g) /\ holds[g][p] = b BY <1>1, <3>1, AliveType DEF Owned, Owner, Held
    <3> QED BY <1>1, <3>1, <3>2 DEF ReleasedRight
  <2>4. ASSUME released[b][p] = 0, holds[b][p] = b PROVE Cardinality(owners) = 1
    <3>1. PICK k \in Alive : Owner(k, b, p) BY <1>1, <2>4 DEF ReleasedRight
    <3>2. owners = {k} BY <1>1, <2>2, <3>1 DEF Owned, Owner, Alive
    <3> QED BY <3>2, FS_Singleton
  <2> QED BY <1>1, <2>1, <2>3, <2>4 DEF ReleasedRight
<1> QED BY <1>1, <1>2, <1>3 DEF PartsSound

(* Whatever the number of requests, stripes, parts and generations: nothing *)
(* pin or a leg of resolve_race can still reach is released by              *)
(* reap_generations, and every part is released once, by its one owner.     *)
THEOREM PartsSoundHolds == Spec => []PartsSound
  BY GenInvHolds, PartsFollow, PTL

(* Whatever the number of requests, rules and generations: an answer found  *)
(* under a request's own policy number was judged by that request's rules.  *)
THEOREM JudgedByOwnRulesHolds == Spec => []JudgedByOwnRules
<1>1. GenInv => JudgedByOwnRules
  <2> SUFFICES ASSUME GenInv, NEW r \in Requests, pin[r].at = "in",
                      holds[pin[r].gen]["Answers"] # Off,
                      NEW e \in stored[holds[pin[r].gen]["Answers"]],
                      e.policy = policy[pin[r].gen]
               PROVE  e.rules = rules[pin[r].gen]
    BY DEF JudgedByOwnRules
  <2>1. pin[r].gen \in Alive BY DEF GenInv, Pinned
  <2>2. pin[r].gen \in Gens BY <2>1, AliveType DEF GenInv
  <2>3. holds[pin[r].gen]["Answers"] \in Gens BY <2>2, PartsNamed, Counts DEF GenInv
  <2> QED BY <2>1, <2>3 DEF GenInv, PolicyTells
<1> QED BY <1>1, GenInvHolds, PTL

-----------------------------------------------------------------------------
(* Serving                                                                  *)

Places == {"none", "top", "waiting", "got", "held", "serving", "leaving"}
JobStates == [st : {"none", "flying", "answered", "released"}, from : Fibers \cup {Refresh}]

Running == {f \in Fibers : fiber[f] # "none"}
Uses == {j \in Jobs : job[j].from = reader /\ job[j].st \in {"flying", "answered"}}
Flying == {j \in Jobs : job[j].st # "none"}
Early == {"serving", "cancel", "loops"}

(* The table and the fibers' own indices are each other's inverse: what     *)
(* lets the last entry take the place of the one that goes.                 *)
Indexed ==
  /\ \A f \in Running : index[f] \in DOMAIN entries /\ entries[index[f]] = f
  /\ \A i \in DOMAIN entries : entries[i] \in Running /\ index[entries[i]] = i

Peers(c) == {d \in Running \ Loops : client_prefix[d] = client_prefix[c]}

Limited ==
  /\ permanent = Cardinality(Running \cap Loops)
  /\ Cardinality(Running \ Loops) <= limit
  /\ prefix_limit > 0 => \A c \in Clients : Cardinality(Peers(c)) <= prefix_limit

(* Where a fiber of each kind can be, and what the shutdown has waited for. *)
Phased ==
  /\ fiber[accepter] # "held" /\ fiber[reader] # "serving" /\ fiber[accepter] # "serving"
  /\ \A c \in Clients : fiber[c] \in {"none", "serving", "leaving"}
  /\ main \notin Early => Running \cap Loops = {}
  /\ main \in {"drain", "over"} => Running = {}
  /\ main = "over" => Flying = {}

(* The uses of the reader's socket: its listener's until it closes it, the  *)
(* one taken for the datagram in hand, and the queries to be answered on it.*)
HeldExact ==
  reader_holds = (IF main \in Early THEN 1 ELSE 0) + (IF fiber[reader] = "held" THEN 1 ELSE 0)
                   + Cardinality(Uses)

Opened ==
  /\ "udp" \in open <=> reader_holds > 0
  /\ "listening" \in open <=> main \in Early
  /\ "contexts" \in open <=> main # "over"

ServingInv ==
  /\ ServingTypeOK /\ Indexed /\ Limited /\ Phased /\ HeldExact /\ Opened
  /\ pending = Cardinality(Flying)

LEMMA FibersFinite ==
  /\ IsFiniteSet(Fibers) /\ IsFiniteSet(Loops) /\ Loops \subseteq Fibers /\ Fibers \ Loops = Clients
  /\ reader \in Fibers /\ accepter \in Fibers /\ reader \in Loops /\ accepter \in Loops
<1>1. IsFiniteSet({}) /\ Loops = ({} \cup {reader}) \cup {accepter} BY FS_EmptySet DEF Loops
<1>2. IsFiniteSet({} \cup {reader}) BY <1>1, FS_AddElement
<1>3. IsFiniteSet(Loops) BY <1>1, <1>2, FS_AddElement
<1>4. IsFiniteSet(Fibers) BY <1>3, ServersFinite, FS_Union DEF Fibers
<1> QED BY <1>3, <1>4, FibersApart DEF Fibers, Loops

LEMMA CountsFinite ==
  /\ IsFiniteSet(Running) /\ IsFiniteSet(Running \cap Loops) /\ IsFiniteSet(Running \ Loops)
  /\ IsFiniteSet(Uses) /\ IsFiniteSet(Flying)
  /\ Cardinality(Running \cap Loops) \in Nat /\ Cardinality(Running \ Loops) \in Nat
  /\ Cardinality(Uses) \in Nat /\ Cardinality(Flying) \in Nat
  /\ \A c : IsFiniteSet(Peers(c)) /\ Cardinality(Peers(c)) \in Nat
<1>1. IsFiniteSet(Running) BY FibersFinite, FS_Subset DEF Running
<1>2. IsFiniteSet(Running \cap Loops) /\ IsFiniteSet(Running \ Loops)
  BY <1>1, FS_Subset
<1>3. \A c : IsFiniteSet(Peers(c)) BY <1>1, FS_Subset DEF Peers
<1>4. IsFiniteSet(Uses) /\ IsFiniteSet(Flying) BY ServersFinite, FS_Subset DEF Uses, Flying
<1> QED BY <1>1, <1>2, <1>3, <1>4, FS_CardinalityType

(* The table has as many entries as there are fibers running.               *)
LEMMA TableCounts ==
  ASSUME ServingTypeOK, Indexed
  PROVE  Listed = Running /\ Len(entries) = Cardinality(Running)
<1>1. entries \in Seq(Fibers) /\ Len(entries) \in Nat /\ DOMAIN entries = 1 .. Len(entries)
  BY DEF ServingTypeOK
<1>2. Listed = Running
  <2>1. Listed \subseteq Running BY DEF Indexed, Listed
  <2>2. Running \subseteq Listed BY DEF Indexed, Listed
  <2> QED BY <2>1, <2>2
<1>3. entries \in Bijection(1 .. Len(entries), Running)
  <2>1. entries \in [1 .. Len(entries) -> Running]
    <3>1. entries \in [1 .. Len(entries) -> Fibers] BY <1>1, LenProperties
    <3> QED BY <1>1, <3>1 DEF Indexed
  <2>2. \A i, k \in 1 .. Len(entries) : entries[i] = entries[k] => i = k BY <1>1 DEF Indexed
  <2>3. \A f \in Running : \E i \in 1 .. Len(entries) : entries[i] = f BY <1>1 DEF Indexed
  <2> QED BY <2>1, <2>2, <2>3, Fun_IsBij
<1>4. ExistsBijection(1 .. Len(entries), Running) BY <1>3 DEF ExistsBijection
<1> QED BY <1>1, <1>2, <1>4, FS_CountingElements

LEMMA ServingInitOK == ServingInit => ServingInv
<1> SUFFICES ASSUME ServingInit PROVE ServingInv
  OBVIOUS
<1> USE DEF ServingInit
<1>1. /\ entries \in Seq(Fibers) /\ DOMAIN entries = {1, 2} /\ entries[1] = reader /\ entries[2] = accepter
      /\ Len(entries) = 2
  BY FibersFinite
<1>2. /\ index \in [Fibers -> Nat] /\ index[reader] = 1 /\ index[accepter] = 2
  BY FibersFinite, FibersApart
<1>3. /\ fiber \in [Fibers -> Places] /\ fiber[reader] = "top" /\ fiber[accepter] = "top"
      /\ \A c \in Clients : fiber[c] = "none"
  BY FibersFinite, FibersApart DEF Places, Fibers
<1>4. Running = Loops /\ Running \cap Loops = Loops /\ Running \ Loops = {}
  BY FibersFinite, <1>3 DEF Running, Loops, Fibers
<1>5. \A j \in Jobs : job[j] = NoJob /\ job[j].st = "none" BY DEF NoJob
<1>6. job \in [Jobs -> JobStates] BY <1>5 DEF NoJob, JobStates
<1>7. Uses = {} /\ Flying = {} BY <1>5 DEF Uses, Flying
<1>8. ServingTypeOK BY <1>1, <1>2, <1>3, <1>6 DEF ServingTypeOK, Places, JobStates
<1>9. Indexed BY <1>1, <1>2, <1>4 DEF Indexed, Loops
<1>10. Cardinality(Loops) = 2
  <2>1. Loops = {reader} \cup {accepter} /\ accepter \notin {reader} BY FibersApart DEF Loops
  <2>2. IsFiniteSet({reader}) /\ Cardinality({reader}) = 1 BY FS_Singleton
  <2>3. Cardinality({reader} \cup {accepter}) = Cardinality({reader}) + 1
    BY <2>1, <2>2, FS_AddElement
  <2> QED BY <2>1, <2>2, <2>3
<1>11. Limited
  <2>1. \A c : Peers(c) = {} BY <1>4 DEF Peers
  <2>2. limit >= 0 /\ prefix_limit >= 0 BY LimitsNat
  <2> QED BY <1>4, <1>10, <2>1, <2>2, FS_EmptySet DEF Limited
<1>12. Phased BY <1>3 DEF Phased, Early
<1>13. HeldExact BY <1>3, <1>7, FS_EmptySet DEF HeldExact, Early
<1>14. Opened BY DEF Opened, Early
<1> QED BY <1>7, <1>8, <1>9, <1>11, <1>12, <1>13, <1>14, FS_EmptySet DEF ServingInv

-----------------------------------------------------------------------------
(* A fiber that goes on running leaves the table as it is.                  *)
LEMMA TableFrame ==
  ASSUME ServingInv, UNCHANGED tableVars, \A f \in Fibers : fiber'[f] = "none" <=> fiber[f] = "none"
  PROVE  Running' = Running /\ Indexed' /\ Limited'
<1>1. Running' = Running BY DEF Running
<1>2. \A c \in Clients : Peers(c)' = Peers(c) BY <1>1 DEF Peers
<1> QED BY <1>1, <1>2 DEF ServingInv, Indexed, Limited, tableVars

(* One that moves while the queries stay.                                   *)
LEMMA FiberMoves ==
  ASSUME ServingInv, NEW f \in Fibers, NEW to \in Places,
         fiber[f] # "none", to # "none", fiber' = [fiber EXCEPT ![f] = to],
         f \in Clients => to \in {"serving", "leaving"},
         f \in Loops => to # "serving", f = accepter => to # "held",
         UNCHANGED <<stopVars, tableVars, open, pending, job>>,
         reader_holds' \in Nat, HeldExact', Opened'
  PROVE  ServingInv'
<1> USE DEF stopVars, tableVars
<1>1. fiber' \in [Fibers -> Places] /\ \A g \in Fibers : fiber'[g] = IF g = f THEN to ELSE fiber[g]
  BY DEF ServingInv, ServingTypeOK, Places
<1>2. Running' = Running /\ Indexed' /\ Limited' BY <1>1, TableFrame
<1>3. ServingTypeOK' BY <1>1 DEF ServingInv, ServingTypeOK, Places
<1>4. Flying' = Flying BY DEF Flying
<1>5. Phased'
  <2>1. \A c \in Clients : c \in Fibers BY DEF Fibers
  <2> QED BY <1>1, <1>2, <1>4, <2>1, FibersFinite DEF ServingInv, Phased
<1> QED BY <1>2, <1>3, <1>4, <1>5 DEF ServingInv

LEMMA UsesSame == job' = job => Uses' = Uses /\ Flying' = Flying
  BY DEF Uses, Flying

LEMMA LoopTopOK ==
  ASSUME ServingInv, NEW f \in Loops, LoopTop(f)
  PROVE  ServingInv'
<1> DEFINE to == IF stop THEN "leaving" ELSE "waiting"
<1>1. /\ to \in Places /\ to # "none" /\ to # "serving" /\ to # "held" /\ fiber[f] = "top"
      /\ fiber' = [fiber EXCEPT ![f] = to] /\ f \in Fibers /\ f \notin Clients
      /\ UNCHANGED <<stopVars, tableVars, reader_holds, open, pending, job>>
  BY FibersFinite DEF LoopTop, Places
<1> HIDE DEF to
<1>2. (fiber'[reader] = "held") <=> (fiber[reader] = "held")
  BY <1>1, FibersFinite DEF ServingInv, ServingTypeOK
<1>3. HeldExact' BY <1>1, <1>2, UsesSame DEF ServingInv, HeldExact, stopVars
<1>4. Opened' BY <1>1 DEF ServingInv, Opened, stopVars
<1>5. reader_holds' \in Nat BY <1>1 DEF ServingInv, ServingTypeOK
<1> QED BY <1>1, <1>3, <1>4, <1>5, FiberMoves

LEMMA LoopWaitOK ==
  ASSUME ServingInv, NEW f \in Loops, LoopWait(f)
  PROVE  ServingInv'
<1>1. PICK to \in {"got", "leaving"} : fiber' = [fiber EXCEPT ![f] = to] BY DEF LoopWait
<1>2. /\ to \in Places /\ to # "none" /\ to # "serving" /\ to # "held" /\ fiber[f] = "waiting"
      /\ f \in Fibers /\ f \notin Clients
      /\ UNCHANGED <<stopVars, tableVars, reader_holds, open, pending, job>>
  BY FibersFinite DEF LoopWait, Places
<1>3. (fiber'[reader] = "held") <=> (fiber[reader] = "held")
  BY <1>1, <1>2, FibersFinite DEF ServingInv, ServingTypeOK
<1>4. HeldExact' BY <1>2, <1>3, UsesSame DEF ServingInv, HeldExact, stopVars
<1>5. Opened' BY <1>2 DEF ServingInv, Opened, stopVars
<1>6. reader_holds' \in Nat BY <1>2 DEF ServingInv, ServingTypeOK
<1> QED BY <1>1, <1>2, <1>4, <1>5, <1>6, FiberMoves

LEMMA ConnEndsOK ==
  ASSUME ServingInv, NEW c \in Clients, ConnEnds(c)
  PROVE  ServingInv'
<1>1. /\ fiber[c] = "serving" /\ fiber' = [fiber EXCEPT ![c] = "leaving"] /\ "leaving" \in Places
      /\ c \in Fibers /\ c \notin Loops /\ c # reader /\ c # accepter
      /\ UNCHANGED <<stopVars, tableVars, reader_holds, open, pending, job>>
  BY FibersApart DEF ConnEnds, Fibers, Loops, Places
<1>2. fiber'[reader] = fiber[reader]
  BY <1>1, FibersFinite DEF ServingInv, ServingTypeOK
<1>3. HeldExact' BY <1>1, <1>2, UsesSame DEF ServingInv, HeldExact, stopVars
<1>4. Opened' BY <1>1 DEF ServingInv, Opened, stopVars
<1>5. reader_holds' \in Nat BY <1>1 DEF ServingInv, ServingTypeOK
<1> QED BY <1>1, <1>3, <1>4, <1>5, FiberMoves

LEMMA ReaderTakesOK ==
  ASSUME ServingInv, ReaderTakes
  PROVE  ServingInv'
<1>1. /\ fiber[reader] = "got" /\ reader \in Fibers /\ reader \in Loops /\ reader \notin Clients
      /\ reader # accepter /\ UNCHANGED <<stopVars, tableVars, open, pending, job>>
  BY FibersFinite, FibersApart DEF ReaderTakes, Loops
<1>2. PICK n \in Nat : n = Cardinality(Uses) /\ n = Cardinality(Uses')
  BY <1>1, CountsFinite, UsesSame
<1>3. reader_holds \in Nat /\ fiber \in [Fibers -> Places] BY DEF ServingInv, ServingTypeOK, Places
<1>4. CASE fiber' = [fiber EXCEPT ![reader] = "top"] /\ reader_holds' = reader_holds
  <2>1. fiber'[reader] = "top" /\ "top" \in Places BY <1>1, <1>3, <1>4 DEF Places
  <2>2. HeldExact' BY <1>1, <1>2, <1>4, <2>1 DEF ServingInv, HeldExact, stopVars
  <2>3. Opened' BY <1>1, <1>4 DEF ServingInv, Opened, stopVars
  <2> QED BY <1>1, <1>3, <1>4, <2>1, <2>2, <2>3, FiberMoves
<1>5. CASE fiber' = [fiber EXCEPT ![reader] = "held"] /\ reader_holds' = reader_holds + 1
  <2>1. fiber'[reader] = "held" /\ "held" \in Places BY <1>1, <1>3, <1>5 DEF Places
  <2>2. HeldExact'
    <3>1. reader_holds = (IF main \in Early THEN 1 ELSE 0) + n
      BY <1>1, <1>2 DEF ServingInv, HeldExact
    <3>2. reader_holds' = (IF main \in Early THEN 1 ELSE 0) + 1 + n BY <1>5, <3>1
    <3> QED BY <1>1, <1>2, <2>1, <3>2 DEF HeldExact, stopVars
  <2>3. reader_holds > 0
    <3>1. main \in Early BY <1>1 DEF ServingInv, Phased, Running
    <3> QED BY <1>1, <1>2, <3>1 DEF ServingInv, HeldExact
  <2>4. Opened' BY <1>1, <1>3, <1>5, <2>3 DEF ServingInv, Opened, stopVars
  <2>5. reader_holds' \in Nat BY <1>3, <1>5
  <2> QED BY <1>1, <1>5, <2>1, <2>2, <2>4, <2>5, FiberMoves
<1> QED BY <1>4, <1>5 DEF ReaderTakes

-----------------------------------------------------------------------------
(* Queries come and go while the fibers stay in the table.                  *)
LEMMA QueryMoves ==
  ASSUME ServingInv, UNCHANGED <<stopVars, tableVars>>,
         fiber' \in [Fibers -> Places],
         \A f \in Fibers : fiber'[f] = fiber[f] \/ (f = reader /\ fiber[f] # "none" /\ fiber'[f] = "top"),
         main = "over" => Flying' = {},
         reader_holds' \in Nat, open' \in SUBSET {"udp", "listening", "contexts"},
         pending' \in Nat, job' \in [Jobs -> JobStates],
         HeldExact', Opened', pending' = Cardinality(Flying')
  PROVE  ServingInv'
<1> USE DEF stopVars, tableVars
<1>1. \A f \in Fibers : fiber'[f] = "none" <=> fiber[f] = "none" OBVIOUS
<1>2. Running' = Running /\ Indexed' /\ Limited' BY <1>1, TableFrame
<1>3. ServingTypeOK' BY DEF ServingInv, ServingTypeOK, Places, JobStates
<1>4. Phased'
  <2>1. \A c \in Clients : c \in Fibers /\ c # reader BY FibersApart DEF Fibers
  <2> QED BY <1>2, <2>1, FibersFinite, FibersApart DEF ServingInv, Phased
<1> QED BY <1>2, <1>3, <1>4 DEF ServingInv

LEMMA ServingCounts ==
  ASSUME ServingInv
  PROVE  /\ reader_holds \in Nat /\ pending \in Nat /\ permanent \in Nat
         /\ fiber \in [Fibers -> Places] /\ job \in [Jobs -> JobStates]
         /\ open \in SUBSET {"udp", "listening", "contexts"}
  BY DEF ServingInv, ServingTypeOK, Places, JobStates

(* submit_query's fiber: one query more in flight, and one use of the       *)
(* reader's socket more when it is the reader's.                            *)
LEMMA SubmittedFacts ==
  ASSUME ServingInv, NEW j \in Jobs, NEW from \in Fibers \cup {Refresh}, Submitted(j, from)
  PROVE  /\ job' \in [Jobs -> JobStates] /\ pending' \in Nat /\ pending' = Cardinality(Flying')
         /\ Cardinality(Uses') = IF from = reader THEN Cardinality(Uses) + 1 ELSE Cardinality(Uses)
<1> DEFINE new == [st |-> "flying", from |-> from]
<1>1. new \in JobStates /\ new.st = "flying" /\ new.from = from BY DEF JobStates
<1>2. job' = [job EXCEPT ![j] = new] /\ pending' = pending + 1 /\ job[j].st = "none" BY DEF Submitted
<1> HIDE DEF new
<1>3. /\ job' \in [Jobs -> JobStates] /\ \A k \in Jobs : job'[k] = IF k = j THEN new ELSE job[k]
  BY <1>1, <1>2, ServingCounts
<1>4. Flying' = Flying \cup {j} /\ j \notin Flying BY <1>1, <1>2, <1>3 DEF Flying
<1>5. pending' = Cardinality(Flying') BY <1>2, <1>4, CountsFinite, FS_AddElement DEF ServingInv
<1>6. pending' \in Nat BY <1>2, ServingCounts
<1>7. j \notin Uses BY <1>2 DEF Uses
<1>8. CASE from = reader
  <2>1. Uses' = Uses \cup {j} BY <1>1, <1>3, <1>8 DEF Uses
  <2> QED BY <1>3, <1>5, <1>6, <1>7, <1>8, <2>1, CountsFinite, FS_AddElement
<1>9. CASE from # reader
  <2>1. Uses' = Uses BY <1>1, <1>3, <1>7, <1>9 DEF Uses
  <2> QED BY <1>3, <1>5, <1>6, <1>9, <2>1
<1> QED BY <1>8, <1>9

LEMMA ReaderSubmitsOK ==
  ASSUME ServingInv, ReaderSubmits
  PROVE  ServingInv'
<1>1. /\ fiber[reader] = "held" /\ fiber' = [fiber EXCEPT ![reader] = "top"]
      /\ UNCHANGED <<stopVars, tableVars>> /\ reader \in Fibers /\ reader \in Loops
  BY FibersFinite DEF ReaderSubmits
<1>2. /\ fiber' \in [Fibers -> Places] /\ fiber'[reader] = "top"
      /\ \A f \in Fibers : fiber'[f] = fiber[f] \/ (f = reader /\ fiber[f] # "none" /\ fiber'[f] = "top")
  BY <1>1, ServingCounts DEF Places
<1>3. main \in Early /\ main' = main /\ main # "over"
  BY <1>1 DEF ServingInv, Phased, Running, Early, stopVars
<1>4. PICK n \in Nat : n = Cardinality(Uses) BY CountsFinite
<1>5. reader_holds = 2 + n BY <1>1, <1>3, <1>4 DEF ServingInv, HeldExact
<1>6. CASE (\E j \in Jobs : Submitted(j, reader)) /\ UNCHANGED <<reader_holds, open>>
  <2>1. PICK j \in Jobs : Submitted(j, reader) BY <1>6
  <2>2. /\ job' \in [Jobs -> JobStates] /\ pending' \in Nat /\ pending' = Cardinality(Flying')
        /\ Cardinality(Uses') = n + 1
    BY <1>1, <1>4, <2>1, SubmittedFacts
  <2>3. HeldExact' BY <1>2, <1>3, <1>5, <1>6, <2>2 DEF HeldExact
  <2>4. Opened' BY <1>3, <1>6 DEF ServingInv, Opened
  <2> QED BY <1>1, <1>2, <1>3, <1>6, <2>2, <2>3, <2>4, ServingCounts, QueryMoves
<1>7. CASE ReleaseReader /\ UNCHANGED <<pending, job>>
  <2>1. reader_holds' = 1 + n /\ open' = open BY <1>5, <1>7 DEF ReleaseReader
  <2>2. Uses' = Uses /\ Flying' = Flying BY <1>7, UsesSame
  <2>3. HeldExact' BY <1>2, <1>3, <1>4, <2>1, <2>2 DEF HeldExact
  <2>4. Opened' BY <1>3, <1>5, <2>1 DEF ServingInv, Opened
  <2>5. reader_holds' \in Nat /\ pending' = Cardinality(Flying') BY <1>7, <2>1, <2>2 DEF ServingInv
  <2> QED BY <1>1, <1>2, <1>3, <1>7, <2>1, <2>3, <2>4, <2>5, ServingCounts, QueryMoves
<1> QED BY <1>6, <1>7 DEF ReaderSubmits

(* A query started by a connection or for a refresh.                        *)
LEMMA SubmitOK ==
  ASSUME ServingInv, main # "over", NEW j \in Jobs, NEW from \in Clients \cup {Refresh},
         Submitted(j, from), UNCHANGED <<stopVars, tableVars, fiber, reader_holds, open>>
  PROVE  ServingInv'
<1>1. from \in Fibers \cup {Refresh} /\ from # reader BY FibersApart DEF Fibers
<1>2. /\ job' \in [Jobs -> JobStates] /\ pending' \in Nat /\ pending' = Cardinality(Flying')
      /\ Cardinality(Uses') = Cardinality(Uses)
  BY <1>1, SubmittedFacts
<1>3. HeldExact' /\ Opened' BY <1>2 DEF ServingInv, HeldExact, Opened, stopVars
<1> QED BY <1>2, <1>3, ServingCounts, QueryMoves

LEMMA ConnAsksOK ==
  ASSUME ServingInv, NEW c \in Clients, ConnAsks(c)
  PROVE  ServingInv'
<1>1. c \in Running /\ main # "over" BY DEF ConnAsks, ServingInv, Phased, Running, Fibers
<1> QED BY <1>1, SubmitOK DEF ConnAsks

LEMMA JobRefreshesOK ==
  ASSUME ServingInv, NEW j \in Jobs, JobRefreshes(j)
  PROVE  ServingInv'
<1>1. j \in Flying /\ main # "over" BY DEF JobRefreshes, ServingInv, Phased, Flying
<1> QED BY <1>1, SubmitOK DEF JobRefreshes

(* A query in flight takes its next step.                                   *)
LEMMA JobMoves ==
  ASSUME ServingInv, NEW j \in Jobs, NEW to \in {"answered", "released"}, job[j].st # "none",
         job' = [job EXCEPT ![j].st = to]
  PROVE  /\ job' \in [Jobs -> JobStates] /\ Flying' = Flying
         /\ job'[j].st = to /\ job'[j].from = job[j].from
         /\ \A k \in Jobs : k # j => job'[k] = job[k]
<1> DEFINE new == [job[j] EXCEPT !.st = to]
<1>1. job[j] \in JobStates BY ServingCounts
<1>2. new \in JobStates /\ new.st = to /\ new.from = job[j].from BY <1>1 DEF JobStates
<1>3. job' = [job EXCEPT ![j] = new] OBVIOUS
<1> HIDE DEF new
<1>4. /\ job' \in [Jobs -> JobStates] /\ \A k \in Jobs : job'[k] = IF k = j THEN new ELSE job[k]
  BY <1>2, <1>3, ServingCounts
<1> QED BY <1>2, <1>4 DEF Flying

LEMMA JobAnswersOK ==
  ASSUME ServingInv, NEW j \in Jobs, JobAnswers(j)
  PROVE  ServingInv'
<1>1. /\ job[j].st = "flying" /\ job' = [job EXCEPT ![j].st = "answered"]
      /\ UNCHANGED <<stopVars, tableVars, fiber, reader_holds, open, pending>>
  BY DEF JobAnswers
<1>2. /\ job' \in [Jobs -> JobStates] /\ Flying' = Flying
      /\ job'[j].st = "answered" /\ job'[j].from = job[j].from
      /\ \A k \in Jobs : k # j => job'[k] = job[k]
  BY <1>1, JobMoves
<1>3. Uses' = Uses BY <1>1, <1>2 DEF Uses
<1>4. HeldExact' /\ Opened' BY <1>1, <1>3 DEF ServingInv, HeldExact, Opened, stopVars
<1>5. pending' = Cardinality(Flying') /\ (main = "over" => Flying' = {})
  BY <1>1, <1>2 DEF ServingInv, Phased
<1> QED BY <1>1, <1>2, <1>4, <1>5, ServingCounts, QueryMoves

LEMMA JobReleasesOK ==
  ASSUME ServingInv, NEW j \in Jobs, JobReleases(j)
  PROVE  ServingInv'
<1>1. /\ job[j].st = "answered" /\ job' = [job EXCEPT ![j].st = "released"]
      /\ UNCHANGED <<stopVars, tableVars, fiber, pending>>
  BY DEF JobReleases
<1>2. /\ job' \in [Jobs -> JobStates] /\ Flying' = Flying
      /\ job'[j].st = "released" /\ job'[j].from = job[j].from
      /\ \A k \in Jobs : k # j => job'[k] = job[k]
  BY <1>1, JobMoves
<1>3. pending' = Cardinality(Flying') /\ (main = "over" => Flying' = {})
  BY <1>1, <1>2 DEF ServingInv, Phased
<1>4. CASE job[j].from = reader
  <2>1. Uses' = Uses \ {j} /\ j \in Uses BY <1>1, <1>2, <1>4 DEF Uses
  <2>2. PICK n \in Nat : n = Cardinality(Uses') BY CountsFinite, <2>1, FS_RemoveElement, FS_CardinalityType
  <2>3. Cardinality(Uses) = n + 1
    <3>1. Cardinality(Uses \ {j}) = Cardinality(Uses) - 1 BY CountsFinite, <2>1, FS_RemoveElement
    <3> QED BY CountsFinite, <2>1, <2>2, <3>1
  <2>4. reader_holds \in Nat /\ reader_holds >= 1 /\ reader_holds' = reader_holds - 1
        /\ open' = IF reader_holds = 1 THEN open \ {"udp"} ELSE open
    BY <1>4, <2>2, <2>3, ServingCounts DEF JobReleases, ReleaseReader, ServingInv, HeldExact
  <2>5. HeldExact'
    <3>1. reader_holds = (IF main \in Early THEN 1 ELSE 0) + (IF fiber[reader] = "held" THEN 1 ELSE 0) + (n + 1)
      BY <2>3 DEF ServingInv, HeldExact
    <3> QED BY <1>1, <2>2, <2>4, <3>1 DEF HeldExact, stopVars
  <2>6. Opened' BY <1>1, <2>4 DEF ServingInv, Opened, stopVars
  <2>7. reader_holds' \in Nat /\ open' \in SUBSET {"udp", "listening", "contexts"}
    BY <2>4, ServingCounts
  <2> QED BY <1>1, <1>2, <1>3, <2>5, <2>6, <2>7, ServingCounts, QueryMoves
<1>5. CASE job[j].from # reader
  <2>1. Uses' = Uses BY <1>1, <1>2, <1>5 DEF Uses
  <2>2. UNCHANGED <<reader_holds, open>> BY <1>5 DEF JobReleases
  <2>3. HeldExact' /\ Opened' BY <1>1, <2>1, <2>2 DEF ServingInv, HeldExact, Opened, stopVars
  <2> QED BY <1>1, <1>2, <1>3, <2>2, <2>3, ServingCounts, QueryMoves
<1> QED BY <1>4, <1>5

LEMMA QueryDoneOK ==
  ASSUME ServingInv, NEW j \in Jobs, query_done(j)
  PROVE  ServingInv'
<1>1. /\ job[j].st = "released" /\ job' = [job EXCEPT ![j] = NoJob] /\ pending' = pending - 1
      /\ UNCHANGED <<stopVars, tableVars, fiber, reader_holds, open>>
  BY DEF query_done
<1>2. NoJob \in JobStates /\ NoJob.st = "none" BY DEF NoJob, JobStates
<1>3. /\ job' \in [Jobs -> JobStates] /\ \A k \in Jobs : job'[k] = IF k = j THEN NoJob ELSE job[k]
  BY <1>1, <1>2, ServingCounts
<1>4. Uses' = Uses BY <1>1, <1>2, <1>3 DEF Uses
<1>5. Flying' = Flying \ {j} /\ j \in Flying BY <1>1, <1>2, <1>3 DEF Flying
<1>6. Cardinality(Flying') = Cardinality(Flying) - 1 /\ Cardinality(Flying') \in Nat
  BY <1>5, CountsFinite, FS_RemoveElement, FS_CardinalityType
<1>7. pending' = Cardinality(Flying') /\ pending' \in Nat BY <1>1, <1>6 DEF ServingInv
<1>8. main # "over" BY <1>5 DEF ServingInv, Phased
<1>9. HeldExact' /\ Opened' BY <1>1, <1>4 DEF ServingInv, HeldExact, Opened, stopVars
<1> QED BY <1>1, <1>3, <1>7, <1>8, <1>9, ServingCounts, QueryMoves

-----------------------------------------------------------------------------
LEMMA TableType ==
  ASSUME ServingInv
  PROVE  /\ entries \in Seq(Fibers) /\ Len(entries) \in Nat /\ DOMAIN entries = 1 .. Len(entries)
         /\ index \in [Fibers -> Nat] /\ Indexed
         /\ Listed = Running /\ Len(entries) = Cardinality(Running)
<1>1. ServingTypeOK /\ Indexed BY DEF ServingInv
<1> QED BY <1>1, TableCounts DEF ServingTypeOK

(* A connection is let in: it has the last place of the table, and neither  *)
(* the limit nor its prefix's share is passed.                              *)
LEMMA AdmitOK ==
  ASSUME ServingInv, main \in Early, fiber[accepter] = "got",
         NEW c \in Clients, fiber[c] = "none", Admits(c),
         entries' = Append(entries, c), index' = [index EXCEPT ![c] = Len(entries) + 1],
         fiber' = [fiber EXCEPT ![accepter] = "top", ![c] = "serving"],
         UNCHANGED <<permanent, stopVars, reader_holds, open, pending, job>>
  PROVE  ServingInv'
<1> DEFINE n == Len(entries)
<1>1. c \in Fibers /\ c \notin Loops /\ c # reader /\ c # accepter
  BY FibersApart DEF Fibers, Loops
<1>2. /\ fiber' \in [Fibers -> Places] /\ fiber'[c] = "serving" /\ fiber'[accepter] = "top"
      /\ \A f \in Fibers : f # c /\ f # accepter => fiber'[f] = fiber[f]
  BY <1>1, ServingCounts, FibersFinite DEF Places
<1>3. Running' = Running \cup {c} /\ c \notin Running
  BY <1>1, <1>2, FibersFinite DEF Running
<1>4. /\ entries' \in Seq(Fibers) /\ Len(entries') = n + 1 /\ DOMAIN entries' = 1 .. (n + 1)
      /\ \A i \in 1 .. n : entries'[i] = entries[i]
      /\ entries'[n + 1] = c
  BY <1>1, TableType, AppendProperties, LenProperties
<1>5. index' \in [Fibers -> Nat] /\ index'[c] = n + 1 /\ \A f \in Fibers : f # c => index'[f] = index[f]
  BY <1>1, TableType
<1>6. ServingTypeOK'
  BY <1>2, <1>4, <1>5 DEF ServingInv, ServingTypeOK, stopVars, Places
<1>7. Indexed'
  <2>1. /\ n \in Nat /\ DOMAIN entries = 1 .. n
        /\ \A f \in Running : index[f] \in 1 .. n /\ entries[index[f]] = f
        /\ \A i \in 1 .. n : entries[i] \in Running /\ index[entries[i]] = i
    BY TableType DEF Indexed
  <2> HIDE DEF n
  <2>2. \A f \in Running' : index'[f] \in DOMAIN entries' /\ entries'[index'[f]] = f
    <3>1. \A f \in Running : f \in Fibers /\ f # c BY <1>3 DEF Running
    <3>2. \A f \in Running : index'[f] \in 1 .. n /\ entries'[index'[f]] = f
      BY <1>4, <1>5, <2>1, <3>1
    <3>3. index'[c] \in 1 .. (n + 1) /\ entries'[index'[c]] = c BY <1>4, <1>5, <2>1
    <3> QED BY <1>3, <1>4, <2>1, <3>2, <3>3
  <2>3. \A i \in DOMAIN entries' : entries'[i] \in Running' /\ index'[entries'[i]] = i
    <3>1. \A i \in 1 .. n : entries'[i] \in Running /\ index'[entries'[i]] = i
      BY <1>3, <1>4, <1>5, <2>1 DEF Running
    <3>2. \A i \in 1 .. (n + 1) : i \in 1 .. n \/ i = n + 1 BY <2>1
    <3> QED BY <1>3, <1>4, <1>5, <3>1, <3>2
  <2> QED BY <2>2, <2>3 DEF Indexed
<1>8. Limited'
  <2>1. Running' \cap Loops = Running \cap Loops /\ Running' \ Loops = (Running \ Loops) \cup {c}
        /\ c \notin Running \ Loops
    BY <1>1, <1>3
  <2>2. Cardinality(Running' \ Loops) = Cardinality(Running \ Loops) + 1
    BY <2>1, CountsFinite, FS_AddElement
  <2>3. Cardinality(Running \ Loops) < limit
    <3> DEFINE L == Running \cap Loops
               R == Running \ Loops
    <3>1. L \cup R = Running /\ L \cap R = {} OBVIOUS
    <3>2. IsFiniteSet(L) /\ IsFiniteSet(R) /\ Cardinality(L) \in Nat /\ Cardinality(R) \in Nat BY CountsFinite
    <3> HIDE DEF L, R
    <3>3. Cardinality(L \cup R) = Cardinality(L) + Cardinality(R) - Cardinality(L \cap R)
      BY <3>2, FS_Union
    <3>4. Len(entries) = Cardinality(L) + Cardinality(R)
      <4>1. Cardinality(L \cap R) = 0 BY <3>1, FS_EmptySet
      <4>2. Cardinality(L \cup R) = Len(entries) BY <3>1, TableType
      <4> QED BY <3>2, <3>3, <4>1, <4>2
    <3>5. permanent = Cardinality(L) BY DEF ServingInv, Limited, L
    <3>6. Len(entries) - permanent < limit BY DEF Admits
    <3>7. Cardinality(R) < limit BY <3>2, <3>4, <3>5, <3>6, LimitsNat
    <3> QED BY <3>7 DEF R
  <2>4. Cardinality(Running' \ Loops) <= limit BY <2>2, <2>3, CountsFinite, LimitsNat
  <2>5. ASSUME prefix_limit > 0, NEW d \in Clients
        PROVE  Cardinality(Peers(d)') <= prefix_limit
    <3>1. CASE client_prefix[d] = client_prefix[c]
      <4>1. Share(client_prefix[c]) = Peers(d)
        BY <3>1, TableType DEF Share, Connections, Peers
      <4>2. Cardinality(Peers(d)) < prefix_limit BY <2>5, <4>1 DEF Admits
      <4>3. Peers(d)' = Peers(d) \cup {c} /\ c \notin Peers(d) BY <2>1, <3>1 DEF Peers
      <4>4. Cardinality(Peers(d)') = Cardinality(Peers(d)) + 1
        BY <4>3, CountsFinite, FS_AddElement
      <4>5. Cardinality(Peers(d)) \in Nat BY CountsFinite
      <4> QED BY <4>2, <4>4, <4>5, LimitsNat
    <3>2. CASE client_prefix[d] # client_prefix[c]
      <4>1. Peers(d)' = Peers(d) BY <2>1, <3>2 DEF Peers
      <4> QED BY <2>5, <4>1 DEF ServingInv, Limited
    <3> QED BY <3>1, <3>2
  <2> QED BY <2>1, <2>4, <2>5 DEF ServingInv, Limited
<1>9. Flying' = Flying /\ Uses' = Uses BY UsesSame
<1>10. Phased'
  <2>1. \A d \in Clients : d \in Fibers /\ d # accepter BY FibersApart DEF Fibers
  <2>2. main' = main /\ main' \in Early /\ main' \notin {"drain", "over"} BY DEF stopVars, Early
  <2> QED BY <1>1, <1>2, <2>1, <2>2, FibersFinite, FibersApart DEF ServingInv, Phased
<1>11. HeldExact' /\ Opened'
  <2>1. fiber'[reader] = fiber[reader] BY <1>1, <1>2, FibersFinite, FibersApart
  <2> QED BY <1>9, <2>1 DEF ServingInv, HeldExact, Opened, stopVars
<1> QED BY <1>6, <1>7, <1>8, <1>9, <1>10, <1>11 DEF ServingInv

LEMMA ConnSpawnOK ==
  ASSUME ServingInv, ConnSpawn
  PROVE  ServingInv'
<1>1. /\ fiber[accepter] = "got" /\ UNCHANGED <<stopVars, reader_holds, open, pending, job>>
      /\ accepter \in Fibers /\ accepter \in Loops /\ accepter \notin Clients /\ accepter # reader
  BY FibersFinite, FibersApart DEF ConnSpawn, Loops
<1>2. main \in Early BY <1>1 DEF ServingInv, Phased, Running
<1>3. CASE fiber' = [fiber EXCEPT ![accepter] = "top"] /\ UNCHANGED tableVars
  <2>1. fiber'[reader] = fiber[reader] BY <1>1, <1>3, ServingCounts, FibersFinite
  <2>2. HeldExact' /\ Opened' BY <1>1, <2>1, UsesSame DEF ServingInv, HeldExact, Opened, stopVars
  <2>3. reader_holds' \in Nat /\ "top" \in Places BY <1>1, ServingCounts DEF Places
  <2> QED BY <1>1, <1>3, <2>2, <2>3, FiberMoves
<1>4. CASE \E c \in Clients :
             /\ fiber[c] = "none" /\ Admits(c)
             /\ entries' = Append(entries, c)
             /\ index' = [index EXCEPT ![c] = Len(entries) + 1]
             /\ fiber' = [fiber EXCEPT ![accepter] = "top", ![c] = "serving"]
             /\ UNCHANGED permanent
  BY <1>1, <1>2, <1>4, AdmitOK
<1> QED BY <1>3, <1>4 DEF ConnSpawn

(* A fiber leaves the table, and the last entry takes its place.            *)
LEMMA LeaveOK ==
  ASSUME ServingInv, NEW e \in Fibers, Leave(e)
  PROVE  ServingInv'
<1> DEFINE n == Len(entries)
           k == index[e]
           m == entries[Len(entries)]
<1>1. /\ fiber[e] = "leaving" /\ fiber' = [fiber EXCEPT ![e] = "none"]
      /\ entries' = SubSeq([entries EXCEPT ![k] = m], 1, n - 1)
      /\ index' = [index EXCEPT ![m] = k, ![e] = 0]
      /\ permanent' = IF e \in Loops THEN permanent - 1 ELSE permanent
      /\ UNCHANGED <<stopVars, reader_holds, open, pending, job>>
  BY DEF Leave, Removed
<1>2. e \in Running BY <1>1 DEF Running
<1>3. /\ n \in Nat /\ DOMAIN entries = 1 .. n
      /\ \A f \in Running : index[f] \in 1 .. n /\ entries[index[f]] = f
      /\ \A i \in 1 .. n : entries[i] \in Running /\ index[entries[i]] = i
  BY TableType DEF Indexed
<1>4. k \in 1 .. n /\ entries[k] = e BY <1>2, <1>3
<1>5. n \in 1 .. n /\ m \in Running /\ index[m] = n
  <2>1. n \in 1 .. n BY <1>3, <1>4
  <2> QED BY <1>3, <2>1
<1>6. Running \subseteq Fibers BY DEF Running
<1> HIDE DEF n, k, m
<1>7. /\ entries' \in Seq(Fibers) /\ Len(entries') = n - 1 /\ DOMAIN entries' = 1 .. (n - 1)
      /\ \A i \in 1 .. (n - 1) : entries'[i] = IF i = k THEN m ELSE entries[i]
  <2> DEFINE moved == [entries EXCEPT ![k] = m]
  <2>1. moved \in Seq(Fibers) /\ Len(moved) = n
        /\ \A i \in 1 .. n : moved[i] = IF i = k THEN m ELSE entries[i]
    BY <1>4, <1>5, <1>6, TableType, ExceptSeq DEF n
  <2> HIDE DEF moved
  <2>2. \A i \in 1 .. (n - 1) : i \in 1 .. n /\ moved[i] \in Fibers
    BY <1>3, <2>1, LenProperties
  <2>3. entries' = SubSeq(moved, 1, n - 1) BY <1>1 DEF moved
  <2>4. n - 1 \in Int /\ 1 \in Int /\ (n - 1) - 1 + 1 = n - 1 /\ (1 <= n - 1 \/ n - 1 = 0)
    BY <1>3, <1>5
  <2>5. SubSeq(moved, 1, n - 1) \in Seq(Fibers) /\ Len(SubSeq(moved, 1, n - 1)) = n - 1
        /\ \A i \in 1 .. ((n - 1) - 1 + 1) : SubSeq(moved, 1, n - 1)[i] = moved[1 + i - 1]
    BY <2>2, <2>4, SubSeqProperties
  <2>6. \A i \in 1 .. (n - 1) : entries'[i] = moved[i] BY <2>3, <2>4, <2>5
  <2> QED BY <2>1, <2>2, <2>3, <2>5, <2>6, LenProperties
<1>8. /\ index' \in [Fibers -> Nat] /\ index'[e] = 0 /\ (m # e => index'[m] = k)
      /\ \A f \in Fibers : f # e /\ f # m => index'[f] = index[f]
  BY <1>1, <1>3, <1>4, <1>5, <1>6, TableType, ZenonT(40)
<1>9. /\ fiber' \in [Fibers -> Places] /\ fiber'[e] = "none"
      /\ \A f \in Fibers : f # e => fiber'[f] = fiber[f]
  BY <1>1, ServingCounts DEF Places
<1>10. Running' = Running \ {e} BY <1>9 DEF Running
<1>11. Indexed'
  <2>1. m = e <=> k = n BY <1>3, <1>4, <1>5, <1>2 DEF k
  <2>2. \A f \in Running : f # e => index[f] # k BY <1>3, <1>4
  <2>3. \A f \in Running : f # m => index[f] # n BY <1>3, <1>5 DEF m, n
  <2>4. ASSUME NEW f \in Running \ {e}
        PROVE  index'[f] \in 1 .. (n - 1) /\ entries'[index'[f]] = f
    <3>1. CASE f = m
      <4>1. index'[f] = k /\ k \in 1 .. (n - 1) BY <1>3, <1>4, <1>8, <2>1, <2>4, <3>1
      <4> QED BY <1>7, <3>1, <4>1
    <3>2. CASE f # m
      <4>1. index'[f] = index[f] /\ index[f] # k /\ index[f] \in 1 .. (n - 1)
        BY <1>3, <1>6, <1>8, <2>2, <2>3, <2>4, <3>2
      <4> QED BY <1>3, <1>7, <2>4, <4>1
    <3> QED BY <3>1, <3>2
  <2>5. ASSUME NEW i \in 1 .. (n - 1)
        PROVE  entries'[i] \in Running \ {e} /\ index'[entries'[i]] = i
    <3>0. i \in 1 .. n /\ i # n BY <1>3
    <3>1. CASE i = k
      <4>1. entries'[i] = m /\ m # e BY <1>7, <2>1, <3>0, <3>1
      <4> QED BY <1>5, <1>8, <3>1, <4>1
    <3>2. CASE i # k
      <4>1. entries'[i] = entries[i] /\ entries[i] \in Running /\ index[entries[i]] = i
        BY <1>3, <1>7, <3>0, <3>2
      <4>2. entries[i] # e /\ entries[i] # m BY <1>5, <3>0, <3>2, <4>1 DEF k
      <4> QED BY <1>6, <1>8, <4>1, <4>2
    <3> QED BY <3>1, <3>2
  <2> QED BY <1>7, <1>10, <2>4, <2>5 DEF Indexed
<1>12. Limited' /\ permanent' \in Nat
  <2>1. permanent' = Cardinality(Running' \cap Loops) /\ permanent' \in Nat
    <3>1. permanent = Cardinality(Running \cap Loops) /\ permanent \in Nat
      BY ServingCounts DEF ServingInv, Limited
    <3>2. CASE e \in Loops
      <4>1. Running' \cap Loops = (Running \cap Loops) \ {e} /\ e \in Running \cap Loops BY <1>2, <1>10, <3>2
      <4>2. Cardinality((Running \cap Loops) \ {e}) = Cardinality(Running \cap Loops) - 1
            /\ Cardinality((Running \cap Loops) \ {e}) \in Nat
        BY <4>1, CountsFinite, FS_RemoveElement, FS_CardinalityType
      <4> QED BY <1>1, <3>1, <3>2, <4>1, <4>2
    <3>3. CASE e \notin Loops
      <4>1. Running' \cap Loops = Running \cap Loops BY <1>10, <3>3
      <4> QED BY <1>1, <3>1, <3>3, <4>1
    <3> QED BY <3>2, <3>3
  <2>2. Cardinality(Running' \ Loops) <= limit
    <3>1. Running' \ Loops \subseteq Running \ Loops BY <1>10
    <3>2. Cardinality(Running' \ Loops) <= Cardinality(Running \ Loops)
          /\ Cardinality(Running' \ Loops) \in Nat
      BY <3>1, CountsFinite, FS_Subset, FS_CardinalityType
    <3> QED BY <3>2, CountsFinite, LimitsNat DEF ServingInv, Limited
  <2>3. ASSUME prefix_limit > 0, NEW d \in Clients
        PROVE  Cardinality(Peers(d)') <= prefix_limit
    <3>1. Peers(d)' \subseteq Peers(d) BY <1>10 DEF Peers
    <3>2. Cardinality(Peers(d)') <= Cardinality(Peers(d)) /\ Cardinality(Peers(d)') \in Nat
          /\ Cardinality(Peers(d)) \in Nat
      BY <3>1, CountsFinite, FS_Subset, FS_CardinalityType
    <3>3. Cardinality(Peers(d)) <= prefix_limit BY <2>3 DEF ServingInv, Limited
    <3> QED BY <3>2, <3>3, LimitsNat
  <2> QED BY <2>1, <2>2, <2>3 DEF Limited
<1>13. ServingTypeOK' BY <1>1, <1>7, <1>8, <1>9, <1>12 DEF ServingInv, ServingTypeOK, stopVars, Places
<1>14. Flying' = Flying /\ Uses' = Uses BY <1>1, UsesSame
<1>15. Phased'
  <2>1. \A d \in Clients : d \in Fibers BY DEF Fibers
  <2>2. Running' \subseteq Running /\ main' = main BY <1>1, <1>10 DEF stopVars
  <2> QED BY <1>9, <1>14, <2>1, <2>2, FibersFinite DEF ServingInv, Phased
<1>16. HeldExact' /\ Opened'
  <2>1. fiber'[reader] = "held" <=> fiber[reader] = "held" BY <1>1, <1>9, FibersFinite
  <2> QED BY <1>1, <1>14, <2>1 DEF ServingInv, HeldExact, Opened, stopVars
<1> QED BY <1>1, <1>11, <1>12, <1>13, <1>14, <1>15, <1>16 DEF ServingInv

-----------------------------------------------------------------------------
(* The shutdown moves on while every fiber and query stays where it is.     *)
LEMMA ShutdownMoves ==
  ASSUME ServingInv, UNCHANGED <<tableVars, fiber, pending, job>>,
         main' \in {"serving", "cancel", "loops", "shut", "connections", "drain", "over"},
         stop' \in BOOLEAN, stopped' \in BOOLEAN, cancelled' \in SUBSET Fibers,
         reader_holds' \in Nat, open' \in SUBSET {"udp", "listening", "contexts"},
         main' \notin Early => Running \cap Loops = {},
         main' \in {"drain", "over"} => Running = {}, main' = "over" => Flying = {},
         HeldExact', Opened'
  PROVE  ServingInv'
<1>1. Running' = Running /\ Indexed' /\ Limited' BY TableFrame
<1>2. Flying' = Flying BY UsesSame
<1>3. ServingTypeOK' BY DEF ServingInv, ServingTypeOK, tableVars
<1>4. Phased' BY <1>1, <1>2 DEF ServingInv, Phased
<1> QED BY <1>1, <1>2, <1>3, <1>4 DEF ServingInv

LEMMA ShutdownOK ==
  ASSUME ServingInv, Shutdown
  PROVE  ServingInv'
<1>1. /\ stop \in BOOLEAN /\ stopped \in BOOLEAN /\ cancelled \in SUBSET Fibers
  BY DEF ServingInv, ServingTypeOK
<1>2. CASE StopListeners
  <2>1. HeldExact' /\ Opened' BY <1>2, UsesSame DEF StopListeners, ServingInv, HeldExact, Opened, Early
  <2> QED BY <1>1, <1>2, <2>1, ServingCounts, ShutdownMoves DEF StopListeners, Early
<1>3. CASE CancelPermanent
  <2>1. HeldExact' /\ Opened' BY <1>3, UsesSame DEF CancelPermanent, ServingInv, HeldExact, Opened, Early
  <2>2. cancelled' \in SUBSET Fibers BY <1>3, FibersFinite DEF CancelPermanent
  <2> QED BY <1>1, <1>3, <2>1, <2>2, ServingCounts, ShutdownMoves DEF CancelPermanent, Early
<1>4. CASE CloseSockets
  <2>1. Running \cap Loops = {}
    BY <1>4, CountsFinite, FS_EmptySet DEF CloseSockets, LoopsLeft, ServingInv, Limited
  <2>2. fiber[reader] = "none" /\ fiber'[reader] = "none"
    BY <1>4, <2>1, FibersFinite DEF Running, CloseSockets
  <2>3. PICK u \in Nat : u = Cardinality(Uses) /\ u = Cardinality(Uses')
    BY <1>4, CountsFinite, UsesSame DEF CloseSockets
  <2>4. reader_holds = 1 + u /\ reader_holds' = u
    BY <1>4, <2>2, <2>3 DEF CloseSockets, LoopsLeft, ServingInv, HeldExact, Early
  <2>5. HeldExact' BY <1>4, <2>2, <2>3, <2>4 DEF CloseSockets, HeldExact, Early
  <2>6. Opened' BY <1>4, <2>3, <2>4 DEF CloseSockets, LoopsLeft, ServingInv, Opened, Early
  <2>7. open' \in SUBSET {"udp", "listening", "contexts"} BY <1>4, ServingCounts DEF CloseSockets
  <2> QED BY <1>1, <1>4, <2>1, <2>4, <2>5, <2>6, <2>7, ShutdownMoves DEF CloseSockets, Early
<1>5. CASE ShutTable
  <2>1. HeldExact' /\ Opened' BY <1>5, UsesSame DEF ShutTable, ServingInv, HeldExact, Opened, Early
  <2>2. Running \cap Loops = {} BY <1>5 DEF ShutTable, ServingInv, Phased, Early
  <2> QED BY <1>1, <1>5, <2>1, <2>2, ServingCounts, ShutdownMoves DEF ShutTable, Early
<1>6. CASE TableEmpty
  <2>1. HeldExact' /\ Opened' BY <1>6, UsesSame DEF TableEmpty, ServingInv, HeldExact, Opened, Early
  <2>2. Running = {} BY <1>6, TableType DEF TableEmpty, Indexed
  <2> QED BY <1>1, <1>6, <2>1, <2>2, ServingCounts, ShutdownMoves DEF TableEmpty, Early
<1>7. CASE Drained
  <2>1. Flying = {} BY <1>7, CountsFinite, FS_EmptySet DEF Drained, ServingInv
  <2>2. Running = {} BY <1>7 DEF Drained, ServingInv, Phased
  <2>3. Uses = {} BY <2>1 DEF Uses, Flying
  <2>4. reader_holds = 0
    <3>1. fiber[reader] = "none" BY <2>2, FibersFinite DEF Running
    <3> QED BY <1>7, <2>3, <3>1, FS_EmptySet DEF Drained, ServingInv, HeldExact, Early
  <2>5. HeldExact' BY <1>7, UsesSame DEF Drained, ServingInv, HeldExact, Early
  <2>6. Opened' BY <1>7, <2>4 DEF Drained, Opened, Early
  <2> QED BY <1>1, <1>7, <2>1, <2>2, <2>5, <2>6, ServingCounts, ShutdownMoves DEF Drained, Early
<1> QED BY <1>2, <1>3, <1>4, <1>5, <1>6, <1>7 DEF Shutdown

LEMMA ServingStep == ServingInv /\ [ServingNext]_servingVars => ServingInv'
<1> SUFFICES ASSUME ServingInv, [ServingNext]_servingVars PROVE ServingInv'
  OBVIOUS
<1>1. CASE UNCHANGED servingVars
  <2> USE <1>1 DEF servingVars
  <2>1. Running' = Running /\ Indexed' /\ Limited' BY TableFrame DEF tableVars
  <2>2. Uses' = Uses /\ Flying' = Flying BY UsesSame
  <2>3. ServingTypeOK' BY DEF ServingInv, ServingTypeOK
  <2>4. Phased' /\ HeldExact' /\ Opened' BY <2>1, <2>2 DEF ServingInv, Phased, HeldExact, Opened
  <2> QED BY <2>1, <2>2, <2>3, <2>4 DEF ServingInv
<1>2. CASE \E f \in Loops : LoopTop(f) \/ LoopWait(f) BY <1>2, LoopTopOK, LoopWaitOK
<1>3. CASE ReaderTakes \/ ReaderSubmits \/ ConnSpawn BY <1>3, ReaderTakesOK, ReaderSubmitsOK, ConnSpawnOK
<1>4. CASE \E c \in Clients : ConnAsks(c) \/ ConnEnds(c) BY <1>4, ConnAsksOK, ConnEndsOK
<1>5. CASE \E f \in Fibers : Leave(f) BY <1>5, LeaveOK
<1>6. CASE \E j \in Jobs : JobRefreshes(j) \/ JobAnswers(j) \/ JobReleases(j) \/ query_done(j)
  BY <1>6, JobRefreshesOK, JobAnswersOK, JobReleasesOK, QueryDoneOK
<1>7. CASE Shutdown BY <1>7, ShutdownOK
<1> QED BY <1>1, <1>2, <1>3, <1>4, <1>5, <1>6, <1>7 DEF ServingNext

LEMMA ServingInvHolds == ServingSpec => []ServingInv
  BY ServingInitOK, ServingStep, PTL DEF ServingSpec

(* conn_spawn and conn_entry_remove_locked, for any number of connections   *)
(* and any limits: each running fiber is in the table once, at the index it *)
(* keeps, the limit and the prefix's share are never passed, and nothing    *)
(* runs once shutdown has found the table empty.                            *)
THEOREM TableSoundHolds == ServingSpec => []TableSound
<1>1. ServingInv => TableSound
  <2> SUFFICES ASSUME ServingInv PROVE TableSound
    OBVIOUS
  <2>1. Listed = Running /\ Len(entries) = Cardinality(Running) BY TableType
  <2>2. Connections = Running \ Loops BY <2>1 DEF Connections
  <2>3. \A c \in Clients : Share(client_prefix[c]) = Peers(c) BY <2>2 DEF Share, Peers
  <2>4. \A f \in Fibers : fiber[f] # "none" => index[f] \in DOMAIN entries /\ entries[index[f]] = f
    BY DEF ServingInv, Indexed, Running
  <2>5. Len(entries) = Cardinality({f \in Fibers : fiber[f] # "none"}) BY <2>1 DEF Running
  <2>6. permanent = Cardinality(Listed \cap Loops) /\ Cardinality(Connections) <= limit
    BY <2>1, <2>2 DEF ServingInv, Limited
  <2>7. prefix_limit > 0 => \A c \in Clients : Cardinality(Share(client_prefix[c])) <= prefix_limit
    BY <2>3 DEF ServingInv, Limited
  <2>8. main \in {"drain", "over"} => \A f \in Fibers : fiber[f] = "none"
    BY DEF ServingInv, Phased, Running
  <2> QED BY <2>4, <2>5, <2>6, <2>7, <2>8 DEF TableSound, ServingInv
<1> QED BY <1>1, ServingInvHolds, PTL

(* stop_listeners, release_udp_reader, drain_queries, destroy_listeners: no *)
(* socket is closed and no context freed under a loop or a query that uses  *)
(* it, and the reader's socket is closed with its last use, however many    *)
(* queries are in flight.                                                   *)
THEOREM NothingClosedUnderHolds == ServingSpec => []NothingClosedUnder
<1>1. ServingInv => NothingClosedUnder
  <2> SUFFICES ASSUME ServingInv PROVE NothingClosedUnder
    OBVIOUS
  <2>1. Cardinality(Uses) \in Nat /\ (Cardinality(Uses) = 0 <=> Uses = {}) /\ reader_holds \in Nat
    BY CountsFinite, FS_EmptySet, ServingCounts
  <2>2. \A f \in Loops : fiber[f] # "none" => main \in Early
    BY FibersFinite DEF ServingInv, Phased, Running
  <2>3. reader \in Loops /\ accepter \in Loops BY FibersFinite
  <2>4. fiber[reader] # "none" \/ Uses # {} => "udp" \in open
    <3>1. HeldExact /\ Opened BY DEF ServingInv
    <3>2. main \in Early => reader_holds > 0 BY <2>1, <3>1 DEF HeldExact
    <3>3. Uses # {} => reader_holds > 0 BY <2>1, <3>1 DEF HeldExact
    <3> QED BY <2>2, <2>3, <3>1, <3>2, <3>3 DEF Opened
  <2>5. fiber[reader] = "none" /\ Uses = {} /\ main \notin Early => "udp" \notin open
    BY <2>1 DEF ServingInv, HeldExact, Opened
  <2>6. fiber[accepter] # "none" => "listening" \in open BY <2>2, <2>3 DEF ServingInv, Opened
  <2>7. (\E f \in Fibers : fiber[f] # "none") \/ Flying # {} => "contexts" \in open
    BY DEF ServingInv, Phased, Opened, Running
  <2>8. pending = Cardinality(Flying) BY DEF ServingInv
  <2> QED BY <2>4, <2>5, <2>6, <2>7, <2>8 DEF NothingClosedUnder, Uses, Flying, Early
<1> QED BY <1>1, ServingInvHolds, PTL
=============================================================================
