----------------------------- MODULE AnswerCache -----------------------------
(* The answer cache (cache/cache.odin) under the queries that share it, the   *)
(* reload that resizes it, the sweep, and the filter engine whose number      *)
(* dates every stored verdict (filter/filter.odin, server/resolver.odin).     *)
(*                                                                            *)
(* The cache is up to MAX_SHARDS lists, each under its own mutex, most        *)
(* recently used first.  A lookup works out its shard from shard_bits before  *)
(* it has the lock; a reload changes shard_bits and moves every entry while   *)
(* it holds all of them.  A query reads the engine's number when it begins,   *)
(* judges the names of an answer some time later, and writes the verdict back *)
(* later still, by the entry's key and serial.                                *)
(*                                                                            *)
(* An answer's bytes are its number in the order the upstreams gave them, so  *)
(* two entries have the same bytes only if they are the same entry.  A verdict is *)
(* the bytes it is about and the version of the rule sets it was reached      *)
(* under: of a walk over several names, the oldest version it met.  Every     *)
(* answer here redirects (Entry.redirects), for no other is ever judged.      *)
(* Lifetimes are reduced to three ages; the byte budget, which bounds a shard *)
(* as the entry count does, and the counters are left out.                    *)
EXTENDS Integers, Sequences, FiniteSets, FiniteSetsExt, SequencesExt

CONSTANTS
    Queries,           \* the fibers that resolve a question
    Keys,              \* the questions, as make_key encodes them
    MaxBits,           \* log2 of MAX_SHARDS
    Hash,              \* key -> the top MaxBits bits of its hash
    MinShardEntries,   \* MIN_SHARD_ENTRIES
    Limits,            \* the values of cache.max_entries a reload may set
    MaxVersion,        \* bound: the rule sets are swapped this often
    MaxAnswers,        \* bound: the answers that come from upstreams
    None               \* no entry held

ASSUME CacheAssumption ==
    /\ Keys # {}
    /\ MaxBits \in 0..4 /\ Hash \in [Keys -> 0 .. 2^MaxBits - 1]
    /\ MinShardEntries \in Nat \ {0}
    /\ Limits # {} /\ Limits \subseteq Nat \ {0}
    /\ MaxVersion \in Nat /\ MaxAnswers \in Nat
    /\ None \notin [bytes : Nat, serial : Nat]

VARIABLES
    sets,      \* the version of the rule sets engine_match reads
    number,    \* Engine.generation
    bits,      \* Cache.shard_bits
    limit,     \* Cache.max_entries
    shards,    \* shard -> its entries, Shard.head first
    serials,   \* shard -> Shard.serials
    answers,   \* history: how many answers the upstreams have given
    pc,        \* query -> the step it takes next
    key,       \* query -> the key it asks for
    gen,       \* query -> st.generation, the number it read
    aim,       \* query -> the shard_bits lock_shard last read, -1 before that
    hit,       \* query -> the Cached_Answer it holds
    verdict    \* query -> the verdict it acts on: stored with the entry, or its own

engineVars == <<sets, number>>
storeVars  == <<bits, limit, shards, serials, answers>>
queryVars  == <<pc, key, gen, aim, hit, verdict>>
vars       == <<engineVars, storeVars, queryVars>>

ShardIds == 0 .. 2^MaxBits - 1
NoAim    == -1
NoVerdict == [of |-> 0, under |-> 0]

\* The steps of a query that begin with lock_shard.
Locking == {"get", "lend", "note", "drop", "put"}

\* Swap in progress: the sets are published and the number is still to move.
Swapping == sets # number

-----------------------------------------------------------------------------
(* Shards and shares.                                                         *)

\* shard_count, as the number of bits: halve until every share has its floor.
shard_count(total) ==
    Max({0} \cup {k \in 0..MaxBits : total \div 2^k >= MinShardEntries})

\* shard_for: the top bits of the key's hash.
shard_for(k, nbits) == Hash[k] \div 2^(MaxBits - nbits)

\* split: the floor, and one more for the first of them.
split(total, count, i) == total \div count + (IF i < total % count THEN 1 ELSE 0)

\* The share apply_options gives shard i; the shards not in use get none.
Share(total, nbits, i) == IF i < 2^nbits THEN split(total, 2^nbits, i) ELSE 0

\* evict_over_limits: from the tail until the bound holds.
Bounded(list, share) == IF Len(list) > share THEN SubSeq(list, 1, share) ELSE list

Entry(i, k) == {p \in 1..Len(shards[i]) : shards[i][p].key = k}

\* remove_entry: what is under the key goes, if anything is.
Without(i, k) ==
    IF Entry(i, k) = {} THEN shards[i]
    ELSE RemoveAt(shards[i], CHOOSE p \in Entry(i, k) : TRUE)

\* The members of S as the order `before` lists them: the one function there is.
InOrder(S, before) ==
    {f \in [1..Cardinality(S) -> S] :
        \A j, k \in 1..Cardinality(S) : j < k => <<f[j], f[k]>> \in before}

-----------------------------------------------------------------------------

Init ==
    /\ sets = 0 /\ number = 0
    /\ limit \in Limits
    /\ bits = shard_count(limit)
    /\ shards = [i \in ShardIds |-> <<>>]
    /\ serials = [i \in ShardIds |-> 0]
    /\ answers = 0
    /\ pc = [q \in Queries |-> "idle"]
    /\ key = [q \in Queries |-> CHOOSE k \in Keys : TRUE]
    /\ gen = [q \in Queries |-> 0]
    /\ aim = [q \in Queries |-> NoAim]
    /\ hit = [q \in Queries |-> None]
    /\ verdict = [q \in Queries |-> NoVerdict]

\* The query goes to step `to`; lock_shard of its next call starts anew.
Goto(q, to) ==
    /\ pc' = [pc EXCEPT ![q] = to]
    /\ aim' = [aim EXCEPT ![q] = NoAim]

\* The response is out: the fiber and everything it held are gone.
Return(q) ==
    /\ Goto(q, "idle")
    /\ key' = [key EXCEPT ![q] = CHOOSE k \in Keys : TRUE]
    /\ gen' = [gen EXCEPT ![q] = 0]
    /\ hit' = [hit EXCEPT ![q] = None]
    /\ verdict' = [verdict EXCEPT ![q] = NoVerdict]

-----------------------------------------------------------------------------
(* The query, up to the lock.                                                 *)

\* resolve_query reads the engine's number, once, before it looks anything up.
\* A prefetch goes past the entry it came to replace.
Begin(q) ==
    /\ pc[q] = "idle"
    /\ \E k \in Keys, to \in {"get", "forward"} :
         /\ Goto(q, to)
         /\ key' = [key EXCEPT ![q] = k]
    /\ gen' = [gen EXCEPT ![q] = number]
    /\ UNCHANGED <<engineVars, storeVars, hit, verdict>>

\* lock_shard reads shard_bits, before the lock and again each time round.
Aim(q) ==
    /\ pc[q] \in Locking
    /\ aim[q] # bits
    /\ aim' = [aim EXCEPT ![q] = bits]
    /\ UNCHANGED <<engineVars, storeVars, pc, key, gen, hit, verdict>>

\* Mutant: the number is not read again once the lock is held.
AimedOnce(q) == aim[q] # NoAim

\* lock_shard returns: the lock is held and shard_bits is what it was.
Locked(q) == aim[q] = bits

Home(q) == shard_for(key[q], aim[q])

-----------------------------------------------------------------------------
(* cache.get.                                                                 *)

\* move_to_front, under the shard's lock.
Fronted(list, p) == <<list[p]>> \o RemoveAt(list, p)

\* Where what get found goes: an expired entry is held back while the query is
\* forwarded, unless it is being lent.  serve_from_cache walks an entry whose
\* verdict is dated otherwise than the query is, and takes the stored verdict
\* of any other for its own.
Found(e, q) ==
    IF e.age = "stale" /\ pc[q] = "get" THEN "forward"
    ELSE IF e.checked # gen[q] THEN "walk" ELSE "serve"

GetMiss(q) ==
    /\ Entry(Home(q), key[q]) = {}
    /\ UNCHANGED shards
    /\ IF pc[q] = "lend" THEN Return(q) ELSE Goto(q, "forward") /\ UNCHANGED <<key, gen, hit, verdict>>

\* Past its deadline, the entry goes and the lookup is a miss.
GetLapsed(q) ==
    /\ \E p \in Entry(Home(q), key[q]) :
         /\ shards[Home(q)][p].age = "lapsed"
         /\ shards' = [shards EXCEPT ![Home(q)] = RemoveAt(@, p)]
    /\ IF pc[q] = "lend" THEN Return(q) ELSE Goto(q, "forward") /\ UNCHANGED <<key, gen, hit, verdict>>

GetFound(q) ==
    /\ \E p \in Entry(Home(q), key[q]) :
         LET e == shards[Home(q)][p]
         IN  /\ e.age # "lapsed"
             /\ shards' = [shards EXCEPT ![Home(q)] = Fronted(@, p)]
             /\ hit' = [hit EXCEPT ![q] = [bytes |-> e.bytes, serial |-> e.serial]]
             /\ verdict' = [verdict EXCEPT ![q] =
                    IF Found(e, q) = "serve" THEN e.verdict ELSE NoVerdict]
             /\ Goto(q, Found(e, q))
    /\ UNCHANGED <<key, gen>>

Get(q) ==
    /\ pc[q] \in {"get", "lend"}
    /\ Locked(q)
    /\ GetMiss(q) \/ GetLapsed(q) \/ GetFound(q)
    /\ UNCHANGED <<engineVars, bits, limit, serials, answers>>

\* serve_from_cache hands over the stored answer, or its stored refusal.
Serve(q) ==
    /\ pc[q] = "serve"
    /\ Return(q)
    /\ UNCHANGED <<engineVars, storeVars>>

-----------------------------------------------------------------------------
(* The walk an entry is owed, and what it writes back.                        *)

\* block_cloaked_answer matches under the engine's read lock, which a swap
\* keeps out.  A verdict worth keeping is noted; one that is not, or bytes that
\* will not decode, drop the entry.
Walk(q) ==
    /\ pc[q] = "walk"
    /\ ~Swapping
    /\ \/ /\ Goto(q, "note")
          /\ verdict' = [verdict EXCEPT ![q] = [of |-> hit[q].bytes, under |-> sets]]
       \/ Goto(q, "drop") /\ UNCHANGED verdict
    /\ UNCHANGED <<engineVars, storeVars, key, gen, hit>>

\* note_checked: the very entry that was judged, and never backwards.
Noted(q, e) == e.serial = hit[q].serial /\ gen[q] > e.checked

NoteChecked(q) ==
    /\ pc[q] = "note"
    /\ Locked(q)
    /\ shards' = [shards EXCEPT ![Home(q)] = [p \in 1..Len(shards[Home(q)]) |->
                     LET e == shards[Home(q)][p]
                     IN  IF e.key = key[q] /\ Noted(q, e)
                         THEN [e EXCEPT !.checked = gen[q], !.verdict = verdict[q]]
                         ELSE e]]
    /\ Return(q)
    /\ UNCHANGED <<engineVars, bits, limit, serials, answers>>

\* forget: the entry under the key, if it is still the one the query holds.
Forget(q) ==
    /\ pc[q] = "drop"
    /\ Locked(q)
    /\ IF \E p \in Entry(Home(q), key[q]) : shards[Home(q)][p].serial = hit[q].serial
       THEN shards' = [shards EXCEPT ![Home(q)] = Without(Home(q), key[q])]
       ELSE UNCHANGED shards
    /\ Return(q)
    /\ UNCHANGED <<engineVars, bits, limit, serials, answers>>

-----------------------------------------------------------------------------
(* Forwarding, and cache.put.                                                 *)

\* The upstream answered, and the names of its answer were matched.
Judge(q) ==
    /\ pc[q] = "forward"
    /\ ~Swapping
    /\ answers < MaxAnswers
    /\ answers' = answers + 1
    /\ verdict' = [verdict EXCEPT ![q] = [of |-> answers + 1, under |-> sets]]
    /\ Goto(q, "put")
    /\ hit' = [hit EXCEPT ![q] = None]
    /\ UNCHANGED <<engineVars, bits, limit, shards, serials, key, gen>>

\* An answer that cannot be kept still replaces the expired copy; what is not
\* an answer, or one not worth storing, leaves the cache alone.
Unstored(q) ==
    /\ pc[q] = "forward"
    /\ \/ hit[q] # None /\ Goto(q, "drop") /\ UNCHANGED <<key, gen, hit, verdict>>
       \/ Return(q)
    /\ UNCHANGED <<engineVars, storeVars>>

\* upstream_failed: lend_stale reads the entry again, and the number with it.
UpstreamFailed(q) ==
    /\ pc[q] = "forward"
    /\ hit[q] # None
    /\ Goto(q, "lend")
    /\ gen' = [gen EXCEPT ![q] = number]
    /\ hit' = [hit EXCEPT ![q] = None]
    /\ UNCHANGED <<engineVars, storeVars, key, verdict>>

\* Mutant: the number is read when the answer is stored.
StampNow(q) == number

\* put is handed st.generation, which resolve_query read before it matched.
Stamp(q) == gen[q]

\* put: replace what is there, number the entry, insert, evict to the bound.
Put(q) ==
    /\ pc[q] = "put"
    /\ Locked(q)
    /\ LET s    == Home(q)
           e    == [key |-> key[q], bytes |-> verdict[q].of, serial |-> serials[s] + 1,
                    age |-> "fresh", checked |-> Stamp(q), verdict |-> verdict[q]]
       IN  /\ shards' = [shards EXCEPT ![s] =
                            Bounded(<<e>> \o Without(s, key[q]), Max({1, Share(limit, bits, s)}))]
           /\ serials' = [serials EXCEPT ![s] = @ + 1]
    /\ Return(q)
    /\ UNCHANGED <<engineVars, bits, limit, answers>>

-----------------------------------------------------------------------------
(* The maintenance thread, the filter engine and the clock.                   *)

\* Where the entries are: the shard, and the place in its list.
Places == UNION {{<<i, p>> : p \in 1..Len(shards[i])} : i \in ShardIds}

\* reshard moves the entries a step at a time from the old shards' tails in
\* turn, each to the front of its new list: b is moved before a.
ArrivesBefore(b, a) ==
    LET Turn(x) == Len(shards[x[1]]) - x[2]
    IN  Turn(b) < Turn(a) \/ (Turn(b) = Turn(a) /\ b[1] < a[1])

\* reshard: every shard goes on from the highest number any of them gave out.
SerialsRaised == [i \in ShardIds |-> Max({serials[j] : j \in 0 .. 2^bits - 1})]

\* The lists that shard i may have after a reshard into 2^nbits: one.
Moved(i, nbits) ==
    LET came == {x \in Places : shard_for(shards[x[1]][x[2]].key, nbits) = i}
    IN  {[j \in 1..Cardinality(came) |-> shards[f[j][1]][f[j][2]]] :
            f \in InOrder(came, {x \in came \X came : ArrivesBefore(x[2], x[1])})}

\* reconfigure, under every lock: new shares, the entries moved if the shards
\* are counted differently, and every shard down to its share.
Reconfigure ==
    /\ \E total \in Limits \ {limit} :
         LET nbits == shard_count(total)
             Bound(i, list) == Bounded(list, Share(total, nbits, i))
         IN  /\ limit' = total
             /\ bits' = nbits
             /\ \/ /\ nbits = bits
                   /\ shards' = [i \in ShardIds |-> Bound(i, shards[i])]
                   /\ UNCHANGED serials
                \/ /\ nbits # bits
                   /\ \E lists \in [ShardIds -> UNION {Moved(i, nbits) : i \in ShardIds}] :
                        /\ \A i \in ShardIds : lists[i] \in Moved(i, nbits)
                        /\ shards' = [i \in ShardIds |-> Bound(i, lists[i])]
                   /\ serials' = SerialsRaised
    /\ UNCHANGED <<engineVars, answers, queryVars>>

\* sweep and clear_all go through the shards one at a time, each under its own
\* lock, while queries go on in the others.
SweepShard(i) ==
    /\ LET kept == {p \in 1..Len(shards[i]) : shards[i][p].age # "lapsed"}
       IN  \E f \in InOrder(kept, {x \in kept \X kept : x[1] < x[2]}) :
             shards' = [shards EXCEPT ![i] = [j \in 1..Cardinality(kept) |-> shards[i][f[j]]]]
    /\ UNCHANGED <<engineVars, bits, limit, serials, answers, queryVars>>

ClearShard(i) ==
    /\ shards' = [shards EXCEPT ![i] = <<>>]
    /\ UNCHANGED <<engineVars, bits, limit, serials, answers, queryVars>>

\* engine_swap, under the engine's write lock: the sets, then the number.
PublishSets ==
    /\ ~Swapping
    /\ sets < MaxVersion
    /\ sets' = sets + 1
    /\ UNCHANGED <<number, storeVars, queryVars>>

MoveNumber ==
    /\ Swapping
    /\ number' = number + 1
    /\ UNCHANGED <<sets, storeVars, queryVars>>

\* An entry expires, and later passes its deadline; at once without serve_stale.
Age ==
    /\ \E i \in ShardIds, older \in {"stale", "lapsed"} : \E p \in 1..Len(shards[i]) :
         /\ shards[i][p].age # older /\ shards[i][p].age # "lapsed"
         /\ shards' = [shards EXCEPT ![i] = [@ EXCEPT ![p] = [shards[i][p] EXCEPT !.age = older]]]
    /\ UNCHANGED <<engineVars, bits, limit, serials, answers, queryVars>>

Query(q) ==
    \/ Begin(q) \/ Aim(q) \/ Get(q) \/ Serve(q) \/ Walk(q) \/ NoteChecked(q)
    \/ Forget(q) \/ Judge(q) \/ Unstored(q) \/ UpstreamFailed(q) \/ Put(q)

Next ==
    \/ \E q \in Queries : Query(q)
    \/ \E i \in ShardIds : SweepShard(i) \/ ClearShard(i)
    \/ Reconfigure \/ PublishSets \/ MoveNumber \/ Age

Spec == Init /\ [][Next]_vars

-----------------------------------------------------------------------------

\* An answer that leaves the cache without being judged again carries a verdict
\* about those very bytes, reached under rule sets at least as new as the ones
\* the query was told are in force.  Three writers race: the query that stores
\* an answer after a swap it did not see, the one that notes a verdict on an
\* entry replaced meanwhile, and the swap itself.
OwnVerdict ==
    \A q \in Queries :
        pc[q] = "serve" => verdict[q].of = hit[q].bytes /\ verdict[q].under >= gen[q]

\* Every entry is in the shard its key hashes to now, alone under its key, and
\* every shard is within its share of the limit: what a lookup racing a reload
\* of the shard count could break, leaving an entry no lookup finds again.
OneHome ==
    \A i \in ShardIds :
        /\ Len(shards[i]) <= Share(limit, bits, i)
        /\ \A p \in 1..Len(shards[i]) :
             /\ shard_for(shards[i][p].key, bits) = i
             /\ Entry(i, shards[i][p].key) = {p}

\* The serial a query holds names the bytes it was read with: no entry that
\* comes to its key later, through replacement, eviction, clearing or a change
\* of shards, has that number.  note_checked and forget rest on it.
SerialNames ==
    \A q \in Queries :
        hit[q] # None =>
            \A i \in ShardIds : \A p \in Entry(i, key[q]) :
                shards[i][p].serial = hit[q].serial => shards[i][p].bytes = hit[q].bytes

(* An entry is where a lookup finds it, and nowhere else, and a serial a      *)
(* query holds names the bytes it read: reshard and eviction move and drop    *)
(* entries under queries that are between two locks.                          *)
EntriesSound == OneHome /\ SerialNames

-----------------------------------------------------------------------------
(* The cache as its queries see it: the answers of all the lists are one      *)
(* store, and a query is in a call from before it looks for the lock until    *)
(* it has let it go.                                                          *)
AnswersOf(list) == {<<list[p].key, list[p].bytes>> : p \in 1..Len(list)}
AnswersKept == UNION {AnswersOf(shards[i]) : i \in ShardIds}
LookingFor == [q \in Queries |-> IF pc[q] \in {"get", "lend"} THEN {key[q]} ELSE {}]
ToStore == [q \in Queries |-> IF pc[q] = "put" THEN {<<key[q], verdict[q].of>>} ELSE {}]
AnswerHeld == [q \in Queries |-> IF hit[q] = None THEN {} ELSE {hit[q].bytes}]

Store == INSTANCE AnswerStore WITH
    Users <- Queries, Questions <- Keys, kept <- AnswersKept, looking <- LookingFor,
    storing <- ToStore, holding <- AnswerHeld, given <- answers

(* get, put, forget and reconfigure, over shards whose number a reload        *)
(* changes between a query's look at it and its lock, implement one store.    *)
CacheImplemented == Store!StoreSpec
=============================================================================
