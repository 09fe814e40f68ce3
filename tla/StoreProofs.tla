----------------------------- MODULE StoreProofs -----------------------------
(* Proofs about what the server keeps: the copy of a downloaded list on disk   *)
(* (module ListCopies), and the answers in memory (module AnswerCache).        *)
EXTENDS AnswerCache, ListCopies, FiniteSetTheorems, SequenceTheorems, WellFoundedInduction, TLAPS

-----------------------------------------------------------------------------
(* The copy of a list.                                                         *)

\* What is renamed to the copy's name has been synced, so the copy is whole
\* whenever the machine stops.
CopyTypeOK ==
    /\ named \in BOOLEAN /\ marked \in BOOLEAN /\ had \in BOOLEAN
    /\ listUrl \in Urls
    /\ src \in Urls \cup {NoCopy}
    /\ copy \in {NoCopy} \cup [of : Urls, disk : {"synced"}]
    /\ doing \in {"idle", "move", "load", "sync", "rename", "unmark", "mark"}
    /\ then \in {"idle", "load"}
    /\ doing = "rename" => tmp = "synced"

\* Between the copy and its fingerprint the copy is the one just put there.
Replacing == doing \in {"unmark", "mark"} => copy = Synced(listUrl) /\ ~marked

\* A replacement that got to its end left a fingerprint that tells the truth.
Told ==
    marked /\ copy # NoCopy =>
        IF src = NoCopy THEN copy.of \in Plain ELSE copy.of = src

StoodIn ==
    used # NoCopy =>
        /\ used.copy.disk # "torn"
        /\ used.copy.of = listUrl \/ ~used.marked \/ (named /\ used.copy.of \in Plain)

Kept == had => Usable(listUrl) \/ (src = NoCopy /\ ~marked)

CopyInv == CopyTypeOK /\ Replacing /\ Told /\ StoodIn /\ Kept

LEMMA CopyInitially == CopiesInit => CopyInv
<1> SUFFICES ASSUME CopiesInit PROVE CopyInv
  OBVIOUS
<1>1. named \in BOOLEAN /\ marked \in BOOLEAN /\ had \in BOOLEAN
  BY Zenon DEF CopiesInit
<1>2. /\ listUrl \in Urls /\ src = NoCopy /\ used = NoCopy /\ had = FALSE
      /\ doing = "idle" /\ then = "load"
  BY Zenon DEF CopiesInit
<1>3. copy = NoCopy \/ (~marked /\ copy = Synced(listUrl))
  BY Zenon DEF CopiesInit
<1> QED
  BY <1>1, <1>2, <1>3 DEF CopyInv, CopyTypeOK, Replacing, Told, StoodIn, Kept, Synced

\* A synced copy is a copy.
LEMMA SyncedIsCopy ==
  ASSUME NEW u \in Urls
  PROVE  /\ Synced(u) \in [of : Urls, disk : {"synced"}]
         /\ Synced(u) # NoCopy /\ Synced(u).of = u
  BY CopiesAssumption DEF Synced

\* Each operation on the copy's files keeps the invariant; a stop tears only
\* what was not synced, and the copy always is.
LEMMA CopyStep == CopyInv /\ [CopiesNext]_copyVars => CopyInv'
<1> SUFFICES ASSUME CopyInv, [CopiesNext]_copyVars PROVE CopyInv'
  OBVIOUS
<1> USE CopiesAssumption DEF CopyInv
<1>1. CASE \E u \in Urls : BeginLoad(u)
  <2>1. PICK u \in Urls : BeginLoad(u)
    BY <1>1
  <2>2. had' = (Usable(u) \/ (had /\ u = listUrl))
    BY <2>1 DEF BeginLoad
  <2>3. had' \in BOOLEAN
    BY <2>2
  <2>4. had' => Usable(u) \/ (had /\ u = listUrl)
    BY <2>2
  <2>5. /\ listUrl' = u /\ doing' = "move" /\ used' = NoCopy
        /\ UNCHANGED <<named, copy, tmp, src, marked, then>>
    BY <2>1 DEF BeginLoad, disk
  <2> QED
    BY <2>3, <2>4, <2>5
    DEF CopyTypeOK, Replacing, Told, StoodIn, Kept, Usable, CopyIsOf
<1>2. CASE MoveCopy
  <2>1. CASE Goes("load") /\ UNCHANGED disk
    BY <1>2, <2>1 DEF MoveCopy, Goes, disk, CopyTypeOK, Replacing, Told, StoodIn, Kept, Usable, CopyIsOf
  <2>2. CASE Goes("load") /\ UNCHANGED <<copy, tmp, src, marked>>
    BY <1>2, <2>2 DEF MoveCopy, Goes, CopyTypeOK, Replacing, Told, StoodIn, Kept, Usable, CopyIsOf
  <2>3. CASE /\ ~(copy # NoCopy /\ CopyIsOf(listUrl))
             /\ copy' = Synced(listUrl) /\ marked' = FALSE
             /\ doing' = "unmark" /\ then' = "load"
             /\ UNCHANGED <<named, listUrl, tmp, src, used, had>>
    BY <2>3, SyncedIsCopy DEF CopyTypeOK, Replacing, Told, StoodIn, Kept, Usable, CopyIsOf
  <2> QED  BY <1>2, <2>1, <2>2, <2>3 DEF MoveCopy
<1>3. CASE UseCopy
  BY <1>3 DEF UseCopy, disk, CopyTypeOK, Replacing, Told, StoodIn, Kept, Usable, CopyIsOf
<1>4. CASE WriteTmp
  BY <1>4 DEF WriteTmp, Goes, CopyTypeOK, Replacing, Told, StoodIn, Kept, Usable, CopyIsOf
<1>5. CASE SyncTmp
  BY <1>5 DEF SyncTmp, Goes, CopyTypeOK, Replacing, Told, StoodIn, Kept, Usable, CopyIsOf
<1>6. CASE RenameTmp
  <2>1. copy' = Synced(listUrl)
    BY <1>6 DEF RenameTmp, CopyTypeOK, Synced
  <2> QED
    BY <1>6, <2>1, SyncedIsCopy
    DEF RenameTmp, CopyTypeOK, Replacing, Told, StoodIn, Kept, Usable, CopyIsOf
<1>7. CASE WriteFails
  BY <1>7 DEF WriteFails, Goes, CopyTypeOK, Replacing, Told, StoodIn, Kept, Usable, CopyIsOf
<1>8. CASE Unmark
  BY <1>8 DEF Unmark, Goes, CopyTypeOK, Replacing, Told, StoodIn, Kept, Usable, CopyIsOf
<1>9. CASE Mark
  <2>1. copy = Synced(listUrl) /\ copy # NoCopy /\ copy.of = listUrl
    BY <1>9, SyncedIsCopy DEF Mark, Replacing, CopyTypeOK
  <2>2. /\ doing' = then /\ UNCHANGED <<named, listUrl, then, used, had, copy>>
        /\ marked' \in BOOLEAN
        /\ \/ src' = listUrl
           \/ src' = src /\ marked' = marked
           \/ src' = src /\ listUrl \in Plain /\ marked' = (src = NoCopy)
    BY <1>9 DEF Mark, Goes, CopyTypeOK
  <2>3. marked' = marked \/ src' = listUrl \/ (listUrl \in Plain /\ (marked' => src' = NoCopy))
    BY <2>2
  <2>4. Told'
    BY <2>1, <2>2, <2>3 DEF Told, CopyTypeOK
  <2>5. Kept'
    <3>1. CASE src' = listUrl
      BY <2>1, <2>2, <3>1 DEF Kept, Usable, CopyIsOf, CopyTypeOK
    <3>2. CASE src' = src /\ marked' = marked
      BY <2>2, <3>2 DEF Kept, Usable, CopyIsOf
    <3>3. CASE src' = src /\ listUrl \in Plain
      BY <2>1, <2>2, <3>3 DEF Kept, Usable, CopyIsOf
    <3> QED  BY <2>2, <3>1, <3>2, <3>3
  <2>6. CopyTypeOK' /\ Replacing' /\ StoodIn'
    BY <2>2 DEF CopyTypeOK, Replacing, StoodIn
  <2> QED  BY <2>4, <2>5, <2>6
<1>10. CASE Stop
  <2>1. copy' = copy
    BY <1>10 DEF Stop, Torn, CopyTypeOK
  <2> QED
    BY <1>10, <2>1 DEF Stop, CopyTypeOK, Replacing, Told, StoodIn, Kept, Usable, CopyIsOf
<1>11. CASE UNCHANGED copyVars
  BY <1>11 DEF copyVars, CopyTypeOK, Replacing, Told, StoodIn, Kept, Usable, CopyIsOf
<1> QED
  BY <1>1, <1>2, <1>3, <1>4, <1>5, <1>6, <1>7, <1>8, <1>9, <1>10, <1>11 DEF CopiesNext

\* list_contents, save_cached_copy, mark_copy_source: for any urls, the copy
\* that stands in for a download is whole and of that url but in the two cases
\* that leave no fingerprint to tell by, and a list that had a copy keeps one.
THEOREM CopiesSoundHolds == CopiesSpec => []CopiesSound
<1>1. CopyInv => CopiesSound
  BY DEF CopyInv, StoodIn, Kept, CopiesSound
<1> QED
  BY CopyInitially, CopyStep, <1>1, PTL DEF CopiesSpec

-----------------------------------------------------------------------------
(* The answers: what the actions make of a shard's list.                       *)

Steps == {"idle", "get", "forward", "walk", "serve", "note", "drop", "put", "lend"}
Verdicts == [of : Nat, under : Nat]
Hits == [bytes : Nat, serial : Nat]
Entries == [key : Keys, bytes : Nat, serial : Nat, age : {"fresh", "stale", "lapsed"},
            checked : Nat, verdict : Verdicts]

\* The verdict an entry carries is about its bytes, and no older than it says.
Sound(e) == e.verdict.of = e.bytes /\ e.verdict.under >= e.checked

Alone(list) == \A p, r \in 1..Len(list) : list[p].key = list[r].key => p = r

\* The list of shard i under nb bits, when top is the last number it gave out;
\* and under a limit of total.
ListOK(list, i, nb, top) ==
    /\ list \in Seq(Entries)
    /\ Alone(list)
    /\ \A p \in 1..Len(list) :
         shard_for(list[p].key, nb) = i /\ list[p].serial <= top /\ Sound(list[p])

ShardOK(list, i, nb, total, top) ==
    ListOK(list, i, nb, top) /\ Len(list) <= Share(total, nb, i)

\* The number of h names the bytes of h among the entries under k.
Names(list, k, h) ==
    \A p \in 1..Len(list) :
        list[p].key = k /\ list[p].serial = h.serial => list[p].bytes = h.bytes

SameEntry(a, b) ==
    a.key = b.key /\ a.bytes = b.bytes /\ a.serial = b.serial /\ (Sound(b) => Sound(a))

\* Every entry of one list is an entry of the other, none of them twice.
DrawnFrom(new, list) ==
    /\ new \in Seq(Entries) /\ Len(new) <= Len(list)
    /\ \E f \in [1..Len(new) -> 1..Len(list)] :
         /\ \A j \in 1..Len(new) : SameEntry(new[j], list[f[j]])
         /\ \A j, k \in 1..Len(new) : f[j] = f[k] => j = k

\* What is drawn from a sound list is sound.
LEMMA DrawnKeeps ==
  ASSUME NEW list, NEW new, NEW i, NEW nb, NEW top,
         ListOK(list, i, nb, top), DrawnFrom(new, list)
  PROVE  /\ ListOK(new, i, nb, top) /\ Len(new) <= Len(list)
         /\ \A k, h : Names(list, k, h) => Names(new, k, h)
<1>1. PICK f \in [1..Len(new) -> 1..Len(list)] :
         /\ \A j \in 1..Len(new) : SameEntry(new[j], list[f[j]])
         /\ \A j, k \in 1..Len(new) : f[j] = f[k] => j = k
  BY DEF DrawnFrom
<1>2. new \in Seq(Entries) /\ list \in Seq(Entries) /\ Len(new) \in Nat /\ Len(list) \in Nat
  BY LenProperties DEF DrawnFrom, ListOK
<1>3. Len(new) <= Len(list)
  BY DEF DrawnFrom
<1>4. Alone(new)
  <2> SUFFICES ASSUME NEW p \in 1..Len(new), NEW r \in 1..Len(new), new[p].key = new[r].key
               PROVE  p = r
    BY DEF Alone
  <2>1. list[f[p]].key = list[f[r]].key /\ f[p] \in 1..Len(list) /\ f[r] \in 1..Len(list)
    BY <1>1 DEF SameEntry
  <2> QED  BY <1>1, <2>1 DEF ListOK, Alone
<1>5. \A p \in 1..Len(new) :
         shard_for(new[p].key, nb) = i /\ new[p].serial <= top /\ Sound(new[p])
  <2>1. SUFFICES ASSUME NEW p \in 1..Len(new)
                 PROVE  shard_for(new[p].key, nb) = i /\ new[p].serial <= top /\ Sound(new[p])
    OBVIOUS
  <2>2. f[p] \in 1..Len(list) /\ SameEntry(new[p], list[f[p]])
    BY <1>1
  <2> QED  BY <2>2 DEF ListOK, SameEntry
<1>6. \A k, h : Names(list, k, h) => Names(new, k, h)
  <2> TAKE k, h
  <2> HAVE Names(list, k, h)
  <2>1. SUFFICES ASSUME NEW p \in 1..Len(new), new[p].key = k, new[p].serial = h.serial
                 PROVE  new[p].bytes = h.bytes
    BY DEF Names
  <2>2. f[p] \in 1..Len(list) /\ SameEntry(new[p], list[f[p]])
    BY <1>1
  <2> QED  BY <2>1, <2>2 DEF Names, SameEntry
<1> QED  BY <1>2, <1>3, <1>4, <1>5, <1>6 DEF ListOK

LEMMA DrawnBy ==
  ASSUME NEW list, NEW new \in Seq(Entries), Len(new) <= Len(list),
         NEW f \in [1..Len(new) -> 1..Len(list)],
         \A j \in 1..Len(new) : SameEntry(new[j], list[f[j]]),
         \A j, k \in 1..Len(new) : f[j] = f[k] => j = k
  PROVE  DrawnFrom(new, list)
  BY Zenon DEF DrawnFrom

LEMMA DrawnSelf ==
  ASSUME NEW list \in Seq(Entries) PROVE DrawnFrom(list, list)
<1> DEFINE f == [j \in 1..Len(list) |-> j]
<1>1. f \in [1..Len(list) -> 1..Len(list)]
  OBVIOUS
<1>2. \A j \in 1..Len(list) : SameEntry(list[j], list[f[j]])
  BY DEF SameEntry
<1>3. \A j, k \in 1..Len(list) : f[j] = f[k] => j = k
  OBVIOUS
<1>4. Len(list) \in Nat
  BY LenProperties
<1> HIDE DEF f
<1> QED  BY <1>1, <1>2, <1>3, <1>4 DEF DrawnFrom

\* Drawing twice is drawing.
LEMMA DrawnTwice ==
  ASSUME NEW a, NEW b, NEW list,
         DrawnFrom(a, b), DrawnFrom(b, list), Len(list) \in Nat
  PROVE  DrawnFrom(a, list)
<1>1. PICK f \in [1..Len(a) -> 1..Len(b)] :
         /\ \A j \in 1..Len(a) : SameEntry(a[j], b[f[j]])
         /\ \A j, k \in 1..Len(a) : f[j] = f[k] => j = k
  BY DEF DrawnFrom
<1>2. PICK g \in [1..Len(b) -> 1..Len(list)] :
         /\ \A j \in 1..Len(b) : SameEntry(b[j], list[g[j]])
         /\ \A j, k \in 1..Len(b) : g[j] = g[k] => j = k
  BY DEF DrawnFrom
<1> DEFINE h == [j \in 1..Len(a) |-> g[f[j]]]
<1>3. h \in [1..Len(a) -> 1..Len(list)]
  BY <1>1, <1>2
<1>4. \A j \in 1..Len(a) : SameEntry(a[j], list[h[j]])
  BY <1>1, <1>2, ZenonT(40) DEF SameEntry
<1>5. \A j, k \in 1..Len(a) : h[j] = h[k] => j = k
  BY <1>1, <1>2
<1>6. a \in Seq(Entries) /\ Len(a) <= Len(list)
  <2>1. a \in Seq(Entries) /\ b \in Seq(Entries) /\ Len(a) <= Len(b) /\ Len(b) <= Len(list)
    BY DEF DrawnFrom
  <2>2. Len(a) \in Nat /\ Len(b) \in Nat
    BY <2>1, LenProperties
  <2> QED  BY <2>1, <2>2
<1> HIDE DEF h
<1> QED  BY <1>3, <1>4, <1>5, <1>6 DEF DrawnFrom

\* remove_entry, and the list with an entry taken out of it.
LEMMA RemoveProperties ==
  ASSUME NEW list \in Seq(Entries), NEW p \in 1..Len(list)
  PROVE  /\ RemoveAt(list, p) \in Seq(Entries)
         /\ Len(RemoveAt(list, p)) = Len(list) - 1
         /\ \A j \in 1..Len(list) - 1 :
              RemoveAt(list, p)[j] = IF j < p THEN list[j] ELSE list[j + 1]
<1>1. Len(list) \in Nat
  BY LenProperties
<1> DEFINE a == SubSeq(list, 1, p - 1)
           b == SubSeq(list, p + 1, Len(list))
<1>2. /\ a \in Seq(Entries) /\ Len(a) = p - 1 /\ \A j \in 1..p - 1 : a[j] = list[j]
      /\ b \in Seq(Entries) /\ Len(b) = Len(list) - p
      /\ \A j \in 1..Len(list) - p : b[j] = list[p + j]
  BY <1>1
<1>3. RemoveAt(list, p) = a \o b
  BY DEF RemoveAt
<1> HIDE DEF a, b
<1>4. /\ a \o b \in Seq(Entries) /\ Len(a \o b) = Len(list) - 1
      /\ \A j \in 1..Len(list) - 1 : (a \o b)[j] = IF j < p THEN a[j] ELSE b[j - (p - 1)]
  BY <1>1, <1>2
<1>5. \A j \in 1..Len(list) - 1 : (a \o b)[j] = IF j < p THEN list[j] ELSE list[j + 1]
  <2>1. SUFFICES ASSUME NEW j \in 1..Len(list) - 1
                 PROVE  (a \o b)[j] = IF j < p THEN list[j] ELSE list[j + 1]
    OBVIOUS
  <2>2. CASE j < p
    BY <1>1, <1>2, <1>4, <2>2
  <2>3. CASE ~(j < p)
    <3>1. j - (p - 1) \in 1..Len(list) - p /\ p + (j - (p - 1)) = j + 1
      BY <1>1, <2>3
    <3> QED  BY <1>1, <1>2, <1>4, <2>3, <3>1
  <2> QED  BY <2>2, <2>3
<1> QED  BY <1>3, <1>4, <1>5

LEMMA RemovedDrawn ==
  ASSUME NEW list \in Seq(Entries), NEW p \in 1..Len(list)
  PROVE  DrawnFrom(RemoveAt(list, p), list)
<1> DEFINE new == RemoveAt(list, p)
           f == [j \in 1..Len(new) |-> IF j < p THEN j ELSE j + 1]
<1>1. Len(list) \in Nat
  BY LenProperties
<1>2. new \in Seq(Entries) /\ Len(new) = Len(list) - 1
  BY RemoveProperties
<1>3. \A j \in 1..Len(new) : new[j] = IF j < p THEN list[j] ELSE list[j + 1]
  BY <1>2, RemoveProperties
<1> HIDE DEF new
<1>4. f \in [1..Len(new) -> 1..Len(list)]
  BY <1>1, <1>2
<1>5. \A j, k \in 1..Len(new) : f[j] = f[k] => j = k
  BY <1>1, <1>2
<1>6. \A j \in 1..Len(new) : SameEntry(new[j], list[f[j]])
  BY <1>3 DEF SameEntry
<1> HIDE DEF f
<1>7. DrawnFrom(new, list)
  <2>1. Len(new) <= Len(list)
    BY <1>1, <1>2
  <2> QED  BY <1>2, <2>1, <1>4, <1>5, <1>6, DrawnBy
<1> QED  BY <1>7 DEF new

\* move_to_front.
LEMMA FrontedDrawn ==
  ASSUME NEW list \in Seq(Entries), NEW p \in 1..Len(list)
  PROVE  DrawnFrom(Fronted(list, p), list)
<1> DEFINE rest == RemoveAt(list, p)
           new == <<list[p]>> \o rest
           f == [j \in 1..Len(new) |-> IF j = 1 THEN p ELSE IF j <= p THEN j - 1 ELSE j]
<1>1. Len(list) \in Nat /\ list[p] \in Entries
  BY LenProperties, ElementOfSeq
<1>2. rest \in Seq(Entries) /\ Len(rest) = Len(list) - 1
  BY RemoveProperties
<1>3. \A j \in 1..Len(list) - 1 : rest[j] = IF j < p THEN list[j] ELSE list[j + 1]
  BY <1>2, RemoveProperties
<1> HIDE DEF rest
<1>4. new \in Seq(Entries) /\ Len(new) = Len(list) /\ new[1] = list[p]
  BY <1>1, <1>2
<1>5. \A j \in 2..Len(list) : new[j] = rest[j - 1]
  BY <1>1, <1>2
<1> HIDE DEF new
<1>6. \A j \in 1..Len(new) : new[j] = list[f[j]]
  BY <1>1, <1>3, <1>4, <1>5
<1>7. f \in [1..Len(new) -> 1..Len(list)]
  BY <1>1, <1>4
<1>8. \A j, k \in 1..Len(new) : f[j] = f[k] => j = k
  BY <1>1, <1>4
<1>9. \A j \in 1..Len(new) : SameEntry(new[j], list[f[j]])
  BY <1>6 DEF SameEntry
<1> HIDE DEF f
<1>10. DrawnFrom(new, list)
  <2>1. Len(new) <= Len(list)
    BY <1>1, <1>4
  <2> QED  BY <1>4, <2>1, <1>7, <1>8, <1>9, DrawnBy
<1> QED  BY <1>10 DEF new, rest, Fronted

\* evict_over_limits.
LEMMA BoundedDrawn ==
  ASSUME NEW list \in Seq(Entries), NEW share \in Nat
  PROVE  DrawnFrom(Bounded(list, share), list) /\ Len(Bounded(list, share)) <= share
<1>1. Len(list) \in Nat
  BY LenProperties
<1>2. CASE Len(list) > share
  <2> DEFINE new == SubSeq(list, 1, share)
             f == [j \in 1..Len(new) |-> j]
  <2>1. new \in Seq(Entries) /\ Len(new) = share /\ \A j \in 1..share : new[j] = list[j]
    BY <1>1, <1>2
  <2> HIDE DEF new
  <2>2. f \in [1..Len(new) -> 1..Len(list)]
    BY <1>1, <1>2, <2>1
  <2>3. \A j \in 1..Len(new) : SameEntry(new[j], list[f[j]])
    BY <2>1 DEF SameEntry
  <2>4. \A j, k \in 1..Len(new) : f[j] = f[k] => j = k
    OBVIOUS
  <2> HIDE DEF f
  <2>5. DrawnFrom(new, list)
    <3>1. Len(new) <= Len(list)
      BY <1>1, <1>2, <2>1
    <3> QED  BY <2>1, <3>1, <2>2, <2>3, <2>4, DrawnBy
  <2> QED  BY <1>2, <2>1, <2>5 DEF Bounded, new
<1>3. CASE ~(Len(list) > share)
  BY <1>1, <1>3, DrawnSelf DEF Bounded
<1> QED  BY <1>2, <1>3

-----------------------------------------------------------------------------
(* The answers: numbers and shares.                                            *)

LEMMA Powers == 2^0 = 1 /\ 2^1 = 2 /\ 2^2 = 4 /\ 2^3 = 8 /\ 2^4 = 16
  BY SMT

LEMMA BitsAre == MaxBits \in {0, 1, 2, 3, 4} /\ 0..MaxBits \subseteq {0, 1, 2, 3, 4}
  BY CacheAssumption

LEMMA PowerOf ==
  ASSUME NEW n \in {0, 1, 2, 3, 4}
  PROVE  \E t \in Nat \ {0} : /\ t = 2^n
                              /\ (n = 0 => t = 1) /\ (n = 1 => t = 2) /\ (n = 2 => t = 4)
                              /\ (n = 3 => t = 8) /\ (n = 4 => t = 16)
<1>1. CASE n = 0
  BY <1>1, Powers
<1>2. CASE n = 1
  BY <1>2, Powers
<1>3. CASE n = 2
  BY <1>3, Powers
<1>4. CASE n = 3
  BY <1>4, Powers
<1>5. CASE n = 4
  BY <1>5, Powers
<1> QED  BY <1>1, <1>2, <1>3, <1>4, <1>5

LEMMA PowerType == ASSUME NEW n \in 0..MaxBits PROVE 2^n \in Nat \ {0} /\ 2^n <= 2^MaxBits
<1>1. n \in {0, 1, 2, 3, 4} /\ MaxBits \in {0, 1, 2, 3, 4} /\ n <= MaxBits
  BY BitsAre
<1>2. PICK t \in Nat \ {0} : /\ t = 2^n
                             /\ (n = 0 => t = 1) /\ (n = 1 => t = 2) /\ (n = 2 => t = 4)
                             /\ (n = 3 => t = 8) /\ (n = 4 => t = 16)
  BY <1>1, PowerOf
<1>3. PICK u \in Nat \ {0} : /\ u = 2^MaxBits
                             /\ (MaxBits = 0 => u = 1) /\ (MaxBits = 1 => u = 2)
                             /\ (MaxBits = 2 => u = 4) /\ (MaxBits = 3 => u = 8)
                             /\ (MaxBits = 4 => u = 16)
  BY <1>1, PowerOf
<1>4. t <= u
  BY <1>1, <1>2, <1>3
<1> QED  BY <1>2, <1>3, <1>4

LEMMA ShardIdsAre == ShardIds \subseteq Nat /\ IsFiniteSet(ShardIds)
<1>1. 2^MaxBits \in Nat
  BY PowerOf, BitsAre
<1>2. PICK zero \in Int, last \in Int : zero = 0 /\ last = 2^MaxBits - 1
  BY <1>1
<1>3. IsFiniteSet(zero..last)
  BY FS_Interval
<1> QED  BY <1>1, <1>2, <1>3 DEF ShardIds

LEMMA InUse == ASSUME NEW nb \in 0..MaxBits PROVE 0 .. 2^nb - 1 \subseteq ShardIds
<1>1. PICK a \in Nat, b \in Nat : a = 2^nb /\ b = 2^MaxBits /\ a <= b
  BY PowerType, BitsAre
<1>2. 0 .. a - 1 \subseteq 0 .. b - 1
  BY <1>1
<1> QED  BY <1>1, <1>2 DEF ShardIds

\* shard_for never leads outside the shards in use.
LEMMA ShardForInUse ==
  ASSUME NEW k \in Keys, NEW nb \in 0..MaxBits
  PROVE  shard_for(k, nb) \in ShardIds /\ shard_for(k, nb) \in 0 .. 2^nb - 1
<1>1. PICK h, m, n : h = Hash[k] /\ m = MaxBits - nb /\ n = MaxBits
  OBVIOUS
<1>2. n \in {0, 1, 2, 3, 4} /\ nb \in {0, 1, 2, 3, 4} /\ nb <= n /\ m = n - nb
  BY <1>1, BitsAre
<1>3. PICK t \in Nat \ {0} : /\ t = 2^nb
                             /\ (nb = 0 => t = 1) /\ (nb = 1 => t = 2) /\ (nb = 2 => t = 4)
                             /\ (nb = 3 => t = 8) /\ (nb = 4 => t = 16)
  BY <1>2, PowerOf
<1>3a. PICK u \in Nat \ {0} : /\ u = 2^n
                             /\ (n = 0 => u = 1) /\ (n = 1 => u = 2) /\ (n = 2 => u = 4)
                             /\ (n = 3 => u = 8) /\ (n = 4 => u = 16)
  BY <1>2, PowerOf
<1>3b. h \in Int /\ 0 <= h /\ h < u
  BY <1>1, <1>3a, CacheAssumption
<1>4. h \div 2^m \in 0 .. 2^nb - 1
  <2>1. CASE m = 0
    <3>1. u = t /\ h \div 1 \in 0 .. t - 1
      BY <1>2, <1>3, <1>3a, <1>3b, <2>1
    <3> QED  BY <1>3, <2>1, <3>1, Powers
  <2>2. CASE m = 1
    <3>1. u = 2 * t /\ h \div 2 \in 0 .. t - 1
      BY <1>2, <1>3, <1>3a, <1>3b, <2>2
    <3> QED  BY <1>3, <2>2, <3>1, Powers
  <2>3. CASE m = 2
    <3>1. u = 4 * t /\ h \div 4 \in 0 .. t - 1
      BY <1>2, <1>3, <1>3a, <1>3b, <2>3
    <3> QED  BY <1>3, <2>3, <3>1, Powers
  <2>4. CASE m = 3
    <3>1. u = 8 * t /\ h \div 8 \in 0 .. t - 1
      BY <1>2, <1>3, <1>3a, <1>3b, <2>4
    <3> QED  BY <1>3, <2>4, <3>1, Powers
  <2>5. CASE m = 4
    <3>1. u = 16 * t /\ h \div 16 \in 0 .. t - 1
      BY <1>2, <1>3, <1>3a, <1>3b, <2>5
    <3> QED  BY <1>3, <2>5, <3>1, Powers
  <2> QED  BY <1>2, <2>1, <2>2, <2>3, <2>4, <2>5
<1>5. shard_for(k, nb) = h \div 2^m
  BY <1>1 DEF shard_for
<1> QED  BY <1>4, <1>5, InUse

LEMMA Divided ==
  ASSUME NEW n \in Nat, NEW nb \in 0..MaxBits
  PROVE  n \div 2^nb \in Nat /\ n % 2^nb \in Nat
<1>1. CASE nb = 0
  BY <1>1, Powers
<1>2. CASE nb = 1
  BY <1>2, Powers
<1>3. CASE nb = 2
  BY <1>3, Powers
<1>4. CASE nb = 3
  BY <1>4, Powers
<1>5. CASE nb = 4
  BY <1>5, Powers
<1> QED  BY <1>1, <1>2, <1>3, <1>4, <1>5, BitsAre

LEMMA ShareType ==
  ASSUME NEW total \in Nat, NEW nb \in 0..MaxBits, NEW i \in ShardIds
  PROVE  Share(total, nb, i) \in Nat
  BY Divided DEF Share, split

\* shard_count halves until every shard keeps an entry.
LEMMA CountIsBits ==
  ASSUME NEW total \in Limits
  PROVE  /\ shard_count(total) \in 0..MaxBits
         /\ total \div 2^shard_count(total) >= 1
<1>1. total \in Nat /\ total >= 1
  BY CacheAssumption
<1> DEFINE S == {0} \cup {k \in 0..MaxBits : total \div 2^k >= MinShardEntries}
<1>2. S \subseteq 0..MaxBits /\ 0 \in S
  BY BitsAre
<1>3. Max(S) \in S
  <2>1. S \subseteq {0, 1, 2, 3, 4}
    BY <1>2, BitsAre
  <2>2. \E x \in S : \A y \in S : x >= y
    <3> HIDE DEF S
    <3> QED  BY <1>2, <2>1
  <2> QED  BY <2>2 DEF Max
<1>4. \A k \in S : k # 0 => total \div 2^k >= MinShardEntries
  OBVIOUS
<1>5. shard_count(total) = Max(S)
  BY DEF shard_count
<1> HIDE DEF S
<1>6. PICK c \in 0..MaxBits : c = shard_count(total) /\ c \in S
  BY <1>2, <1>3, <1>5
<1>7. total \div 2^c >= 1
  <2>1. CASE c = 0
    BY <1>1, <2>1, Powers
  <2>2. CASE c # 0
    BY <1>1, <1>4, <1>6, <2>2, Divided, CacheAssumption
  <2> QED  BY <2>1, <2>2
<1> QED  BY <1>6, <1>7

\* So every shard in use has a share, and put's insertion stays within it.
LEMMA ShareInUse ==
  ASSUME NEW total \in Limits, NEW i \in ShardIds, i \in 0 .. 2^shard_count(total) - 1
  PROVE  Share(total, shard_count(total), i) >= 1
<1>1. PICK c \in 0..MaxBits : c = shard_count(total) /\ total \div 2^c >= 1
  BY CountIsBits
<1>2. total \in Nat
  BY CacheAssumption
<1>3. PICK d \in Nat : d = total \div 2^c
  BY <1>2, Divided
<1>4. i < 2^c
  BY <1>1, PowerType
<1> QED  BY <1>1, <1>3, <1>4 DEF Share, split

\* A finite set of numbers that is not empty has a greatest.
LEMMA Greatest ==
  ASSUME NEW S, IsFiniteSet(S), S \subseteq Nat, S # {}
  PROVE  Max(S) \in S /\ \A y \in S : Max(S) >= y
<1> DEFINE Above(n) == {y \in S : y >= n}
           Sizes == {Cardinality(Above(n)) : n \in S}
           Less == OpToRel(<, Nat)
<1>1. \A n \in S : IsFiniteSet(Above(n)) /\ Cardinality(Above(n)) \in Nat
  BY FS_Subset, FS_CardinalityType
<1>2. Sizes \subseteq Nat /\ Sizes # {}
  BY <1>1
<1>3. PICK c \in Sizes : \A d \in Sizes : ~ (<<d, c>> \in Less)
  <2> HIDE DEF Sizes
  <2> QED  BY <1>2, WFMin, NatLessThanWellFounded
<1>4. PICK x \in S : c = Cardinality(Above(x))
  OBVIOUS
<1>5. \A y \in S : x >= y
  <2> SUFFICES ASSUME NEW y \in S, y > x PROVE FALSE
    OBVIOUS
  <2>0. x \in Nat /\ y \in Nat /\ \A z \in S : z \in Nat
    BY Zenon
  <2>1. /\ \A z \in S : z >= y => z >= x
        /\ x >= x /\ ~(x >= y)
    BY <2>0
  <2>1a. Above(y) \subseteq Above(x) /\ x \in Above(x) /\ x \notin Above(y)
    BY <2>1, Zenon
  <2>2. Cardinality(Above(y)) < Cardinality(Above(x))
    <3> HIDE DEF Above
    <3> QED  BY <1>1, <2>1a, FS_Subset
  <2>3. Cardinality(Above(y)) \in Sizes /\ c \in Nat /\ Cardinality(Above(y)) \in Nat
    BY <1>1, <1>2
  <2> HIDE DEF Above, Sizes
  <2> QED  BY <1>3, <1>4, <2>2, <2>3 DEF OpToRel
<1> QED  BY <1>4, <1>5 DEF Max

-----------------------------------------------------------------------------
(* The answers: the invariant.                                                 *)

CacheTypeOK ==
    /\ sets \in Nat /\ number \in Nat /\ answers \in Nat
    /\ limit \in Limits /\ bits = shard_count(limit)
    /\ shards \in [ShardIds -> Seq(Entries)]
    /\ serials \in [ShardIds -> Nat]

QueryTypeOK ==
    /\ pc \in [Queries -> Steps]
    /\ key \in [Queries -> Keys]
    /\ gen \in [Queries -> Nat]
    /\ hit \in [Queries -> Hits \cup {None}]
    /\ verdict \in [Queries -> Verdicts]

\* The number never runs ahead of the sets it dates, nor a query of the number.
Dated == number <= sets /\ \A q \in Queries : gen[q] <= number

Housed == \A i \in ShardIds : ShardOK(shards[i], i, bits, limit, serials[i])

\* What a query holds between two locks: the entry it read, by a number its
\* shard has given out and will not give out again.
Held ==
    \A q \in Queries : hit[q] # None =>
        /\ hit[q].serial <= serials[shard_for(key[q], bits)]
        /\ \A i \in ShardIds : Names(shards[i], key[q], hit[q])

\* The verdict a query acts on, at the steps where it does.
Judged ==
    \A q \in Queries :
        /\ pc[q] \in {"idle", "get", "lend", "put"} => hit[q] = None
        /\ pc[q] \in {"walk", "note", "drop"} => hit[q] # None
        /\ pc[q] \in {"note", "serve"} => verdict[q].of = hit[q].bytes
        /\ pc[q] \in {"note", "serve", "put"} => verdict[q].under >= gen[q]

CacheInv == CacheTypeOK /\ QueryTypeOK /\ Dated /\ Housed /\ Held /\ Judged

LEMMA CacheInitially == Init => CacheInv
<1> SUFFICES ASSUME Init PROVE CacheInv
  OBVIOUS
<1>1. CacheTypeOK
  BY DEF Init, CacheTypeOK
<1>2. QueryTypeOK
  <2>1. (CHOOSE k \in Keys : TRUE) \in Keys
    BY CacheAssumption
  <2> QED  BY <2>1 DEF Init, QueryTypeOK, Steps, Hits, Verdicts, NoVerdict
<1>3. Dated /\ Held /\ Judged
  BY DEF Init, Dated, Held, Judged
<1>4. Housed
  <2> SUFFICES ASSUME NEW i \in ShardIds PROVE ShardOK(shards[i], i, bits, limit, serials[i])
    BY DEF Housed
  <2>1. shards[i] = <<>> /\ bits = shard_count(limit) /\ limit \in Limits
    BY DEF Init
  <2>2. Share(limit, bits, i) \in Nat
    BY <2>1, CountIsBits, ShareType, CacheAssumption
  <2> QED  BY <2>1, <2>2 DEF ShardOK, ListOK, Alone
<1> QED  BY <1>1, <1>2, <1>3, <1>4 DEF CacheInv

\* What the types say where the lemmas need it.
LEMMA CacheTypes ==
  ASSUME CacheInv
  PROVE  /\ bits \in 0..MaxBits /\ limit \in Nat /\ bits = shard_count(limit) /\ limit \in Limits
         /\ \A i \in ShardIds :
              /\ shards[i] \in Seq(Entries) /\ Len(shards[i]) \in Nat /\ serials[i] \in Nat
              /\ Share(limit, bits, i) \in Nat
<1>1. bits \in 0..MaxBits /\ limit \in Nat /\ bits = shard_count(limit) /\ limit \in Limits
  BY CountIsBits, CacheAssumption DEF CacheInv, CacheTypeOK
<1>2. \A i \in ShardIds : shards[i] \in Seq(Entries) /\ serials[i] \in Nat
  BY DEF CacheInv, CacheTypeOK
<1> QED  BY <1>1, <1>2, ShareType, LenProperties

\* A step that only takes entries out of lists, moves them within one or judges
\* them anew, while queries at most let go of what they hold.
LEMMA DrawnStep ==
  ASSUME CacheInv, UNCHANGED <<bits, limit, serials>>,
         shards' \in [ShardIds -> Seq(Entries)],
         \A i \in ShardIds : DrawnFrom(shards'[i], shards[i])
  PROVE  /\ Housed'
         /\ \A i \in ShardIds : \A k, h : Names(shards[i], k, h) => Names(shards'[i], k, h)
<1>1. \A i \in ShardIds :
        /\ ShardOK(shards'[i], i, bits, limit, serials[i])
        /\ \A k, h : Names(shards[i], k, h) => Names(shards'[i], k, h)
  <2> TAKE i \in ShardIds
  <2>1. ListOK(shards[i], i, bits, serials[i]) /\ Len(shards[i]) <= Share(limit, bits, i)
    BY DEF CacheInv, Housed, ShardOK
  <2>2. /\ ListOK(shards'[i], i, bits, serials[i]) /\ Len(shards'[i]) <= Len(shards[i])
        /\ \A k, h : Names(shards[i], k, h) => Names(shards'[i], k, h)
    BY <2>1, DrawnKeeps
  <2>3. Len(shards'[i]) \in Nat /\ Len(shards[i]) \in Nat /\ Share(limit, bits, i) \in Nat
    BY CacheTypes, LenProperties
  <2> QED  BY <2>1, <2>2, <2>3 DEF ShardOK
<1> QED  BY <1>1 DEF Housed

LEMMA HeldStep ==
  ASSUME CacheInv, UNCHANGED <<bits, serials>>,
         \A q \in Queries : hit'[q] = None \/ (hit'[q] = hit[q] /\ key'[q] = key[q]),
         \A i \in ShardIds : \A k, h : Names(shards[i], k, h) => Names(shards'[i], k, h)
  PROVE  Held'
<1> SUFFICES ASSUME NEW q \in Queries, hit'[q] # None
             PROVE  /\ hit'[q].serial <= serials[shard_for(key'[q], bits)]
                    /\ \A i \in ShardIds : Names(shards'[i], key'[q], hit'[q])
  BY DEF Held
<1>1. hit'[q] = hit[q] /\ key'[q] = key[q] /\ hit[q] # None
  OBVIOUS
<1> QED  BY <1>1 DEF CacheInv, Held

\* The query is done, and holds nothing.
LEMMA ReturnStep ==
  ASSUME CacheInv, NEW q \in Queries, Return(q), UNCHANGED engineVars
  PROVE  /\ QueryTypeOK' /\ Dated' /\ Judged'
         /\ \A r \in Queries : hit'[r] = None \/ (hit'[r] = hit[r] /\ key'[r] = key[r])
<1> USE DEF CacheInv
<1>1. (CHOOSE k \in Keys : TRUE) \in Keys /\ NoVerdict \in Verdicts
  BY CacheAssumption DEF Verdicts, NoVerdict
<1>2. QueryTypeOK'
  BY <1>1 DEF QueryTypeOK, Return, Goto, Steps
<1>3. \A r \in Queries \ {q} : /\ pc'[r] = pc[r] /\ hit'[r] = hit[r] /\ key'[r] = key[r]
                               /\ gen'[r] = gen[r] /\ verdict'[r] = verdict[r]
  BY DEF QueryTypeOK, Return, Goto
<1>4. pc'[q] = "idle" /\ hit'[q] = None /\ gen'[q] = 0
  BY DEF QueryTypeOK, Return, Goto
<1>5. Dated'
  BY <1>3, <1>4 DEF Dated, engineVars, CacheTypeOK
<1>6. Judged'
  BY <1>3, <1>4 DEF Judged
<1> QED  BY <1>2, <1>3, <1>4, <1>5, <1>6

\* A step of one query that leaves the store alone.
LEMMA StoreStill ==
  ASSUME CacheInv, UNCHANGED <<engineVars, bits, limit, shards, serials>>, answers' \in Nat
  PROVE  CacheTypeOK' /\ Housed' /\ \A i \in ShardIds : shards'[i] = shards[i]
  BY DEF CacheInv, CacheTypeOK, Housed, engineVars

-----------------------------------------------------------------------------
(* The answers: the steps of a query that touch no entry.                      *)

\* A query that goes on, with what it holds or with nothing.
LEMMA QueryStep ==
  ASSUME CacheInv, UNCHANGED <<engineVars, bits, limit, shards, serials>>, answers' \in Nat,
         QueryTypeOK', Dated', Judged',
         \A r \in Queries : hit'[r] = None \/ (hit'[r] = hit[r] /\ key'[r] = key[r])
  PROVE  CacheInv'
<1>1. CacheTypeOK' /\ Housed' /\ \A i \in ShardIds : shards'[i] = shards[i]
  BY StoreStill
<1>2. Held'
  BY <1>1, HeldStep
<1> QED  BY <1>1, <1>2 DEF CacheInv

LEMMA BeginStep ==
  ASSUME CacheInv, NEW q \in Queries, Begin(q) PROVE CacheInv'
<1>1. PICK k \in Keys, to \in {"get", "forward"} : Goto(q, to) /\ key' = [key EXCEPT ![q] = k]
  BY DEF Begin
<1>2. /\ pc[q] = "idle" /\ pc' = [pc EXCEPT ![q] = to] /\ key' = [key EXCEPT ![q] = k]
      /\ gen' = [gen EXCEPT ![q] = number]
      /\ UNCHANGED <<sets, number, bits, limit, shards, serials, answers, hit, verdict>>
  BY <1>1 DEF Begin, Goto, engineVars, storeVars
<1>3. QueryTypeOK'
  BY <1>2 DEF CacheInv, CacheTypeOK, QueryTypeOK, Steps
<1>4. Dated'
  BY <1>2 DEF CacheInv, CacheTypeOK, QueryTypeOK, Dated
<1>5. Judged'
  BY <1>2 DEF CacheInv, QueryTypeOK, Judged
<1>6. \A r \in Queries : hit'[r] = None \/ (hit'[r] = hit[r] /\ key'[r] = key[r])
  BY <1>2 DEF CacheInv, QueryTypeOK, Judged
<1>7. answers' \in Nat /\ UNCHANGED <<engineVars, bits, limit, shards, serials>>
  BY <1>2 DEF CacheInv, CacheTypeOK, engineVars
<1> QED  BY <1>3, <1>4, <1>5, <1>6, <1>7, QueryStep

LEMMA AimStep ==
  ASSUME CacheInv, NEW q \in Queries, Aim(q) PROVE CacheInv'
<1>1. UNCHANGED <<sets, number, bits, limit, shards, serials, answers, pc, key, gen, hit, verdict>>
  BY DEF Aim, engineVars, storeVars
<1> QED
  BY <1>1 DEF CacheInv, CacheTypeOK, QueryTypeOK, Dated, Housed, Held, Judged

LEMMA ServeStep ==
  ASSUME CacheInv, NEW q \in Queries, Serve(q) PROVE CacheInv'
<1>1. Return(q) /\ UNCHANGED <<engineVars, bits, limit, shards, serials>> /\ answers' = answers
  BY DEF Serve, storeVars
<1> QED  BY <1>1, ReturnStep, QueryStep DEF CacheInv, CacheTypeOK

LEMMA WalkStep ==
  ASSUME CacheInv, NEW q \in Queries, Walk(q) PROVE CacheInv'
<1>1. /\ pc[q] = "walk" /\ UNCHANGED <<sets, number, bits, limit, shards, serials, answers, key, gen, hit>>
      /\ \/ /\ pc' = [pc EXCEPT ![q] = "note"]
            /\ verdict' = [verdict EXCEPT ![q] = [of |-> hit[q].bytes, under |-> sets]]
         \/ pc' = [pc EXCEPT ![q] = "drop"] /\ verdict' = verdict
  BY DEF Walk, Goto, engineVars, storeVars
<1>2. hit[q] # None /\ hit[q] \in Hits /\ gen[q] <= sets
  BY <1>1 DEF CacheInv, CacheTypeOK, QueryTypeOK, Dated, Judged
<1>3. [of |-> hit[q].bytes, under |-> sets] \in Verdicts
  BY <1>2 DEF CacheInv, CacheTypeOK, Hits, Verdicts
<1>4. QueryTypeOK'
  BY <1>1, <1>3 DEF CacheInv, QueryTypeOK, Steps
<1>5. Dated'
  BY <1>1 DEF CacheInv, Dated
<1>6. Judged'
  BY <1>1, <1>2 DEF CacheInv, QueryTypeOK, Judged
<1>7. answers' \in Nat /\ UNCHANGED <<engineVars, bits, limit, shards, serials>>
  BY <1>1 DEF CacheInv, CacheTypeOK, engineVars
<1>8. \A r \in Queries : hit'[r] = None \/ (hit'[r] = hit[r] /\ key'[r] = key[r])
  BY <1>1
<1> QED  BY <1>4, <1>5, <1>6, <1>7, <1>8, QueryStep

LEMMA JudgeStep ==
  ASSUME CacheInv, NEW q \in Queries, Judge(q) PROVE CacheInv'
<1>1. /\ UNCHANGED <<sets, number, bits, limit, shards, serials, key, gen>>
      /\ answers' = answers + 1
      /\ pc' = [pc EXCEPT ![q] = "put"] /\ hit' = [hit EXCEPT ![q] = None]
      /\ verdict' = [verdict EXCEPT ![q] = [of |-> answers + 1, under |-> sets]]
  BY DEF Judge, Goto, engineVars
<1>2. gen[q] <= sets /\ answers' \in Nat
  BY <1>1 DEF CacheInv, CacheTypeOK, QueryTypeOK, Dated
<1>3. [of |-> answers + 1, under |-> sets] \in Verdicts
  BY DEF CacheInv, CacheTypeOK, Verdicts
<1>4. QueryTypeOK'
  BY <1>1, <1>3 DEF CacheInv, QueryTypeOK, Steps
<1>5. Dated'
  BY <1>1 DEF CacheInv, Dated
<1>6. Judged'
  BY <1>1, <1>2 DEF CacheInv, QueryTypeOK, Judged
<1>7. UNCHANGED <<engineVars, bits, limit, shards, serials>>
  BY <1>1 DEF engineVars
<1>8. \A r \in Queries : hit'[r] = None \/ (hit'[r] = hit[r] /\ key'[r] = key[r])
  BY <1>1 DEF CacheInv, QueryTypeOK
<1> QED  BY <1>2, <1>4, <1>5, <1>6, <1>7, <1>8, QueryStep

LEMMA UnstoredStep ==
  ASSUME CacheInv, NEW q \in Queries, Unstored(q) PROVE CacheInv'
<1>1. answers' \in Nat /\ UNCHANGED <<engineVars, bits, limit, shards, serials>>
  BY DEF Unstored, storeVars, CacheInv, CacheTypeOK
<1>2. CASE Return(q)
  BY <1>1, <1>2, ReturnStep, QueryStep
<1>3. CASE hit[q] # None /\ Goto(q, "drop") /\ UNCHANGED <<key, gen, hit, verdict>>
  <2>1. QueryTypeOK' /\ Dated' /\ Judged'
    BY <1>1, <1>3 DEF CacheInv, QueryTypeOK, Dated, Judged, Goto, Steps, engineVars
  <2> QED  BY <1>1, <1>3, <2>1, QueryStep
<1> QED  BY <1>2, <1>3 DEF Unstored

LEMMA UpstreamFailedStep ==
  ASSUME CacheInv, NEW q \in Queries, UpstreamFailed(q) PROVE CacheInv'
<1>1. /\ UNCHANGED <<sets, number, bits, limit, shards, serials, answers, key, verdict>>
      /\ pc' = [pc EXCEPT ![q] = "lend"] /\ hit' = [hit EXCEPT ![q] = None]
      /\ gen' = [gen EXCEPT ![q] = number]
  BY DEF UpstreamFailed, Goto, engineVars, storeVars
<1>2. QueryTypeOK'
  BY <1>1 DEF CacheInv, CacheTypeOK, QueryTypeOK, Steps
<1>3. Dated'
  BY <1>1 DEF CacheInv, CacheTypeOK, QueryTypeOK, Dated
<1>4. Judged'
  BY <1>1 DEF CacheInv, QueryTypeOK, Judged
<1>5. answers' \in Nat /\ UNCHANGED <<engineVars, bits, limit, shards, serials>>
  BY <1>1 DEF CacheInv, CacheTypeOK, engineVars
<1>6. \A r \in Queries : hit'[r] = None \/ (hit'[r] = hit[r] /\ key'[r] = key[r])
  BY <1>1 DEF CacheInv, QueryTypeOK
<1> QED  BY <1>2, <1>3, <1>4, <1>5, <1>6, QueryStep

-----------------------------------------------------------------------------
(* The answers: the steps of a query under a shard's lock.                     *)

\* Under the lock, the shard the query aimed at is the one its key is in.
LEMMA HomeIsCurrent ==
  ASSUME CacheInv, NEW q \in Queries, Locked(q)
  PROVE  /\ Home(q) = shard_for(key[q], bits) /\ Home(q) \in ShardIds
         /\ Home(q) \in 0 .. 2^bits - 1
  BY CacheTypes, ShardForInUse DEF Locked, Home, CacheInv, QueryTypeOK

\* One shard's list replaced by one drawn from it.
LEMMA OneShardDrawn ==
  ASSUME CacheInv, NEW i \in ShardIds, NEW new, DrawnFrom(new, shards[i]),
         shards' = [shards EXCEPT ![i] = new],
         UNCHANGED <<engineVars, bits, limit, serials, answers>>
  PROVE  /\ CacheTypeOK' /\ Housed'
         /\ \A j \in ShardIds : \A k, h : Names(shards[j], k, h) => Names(shards'[j], k, h)
<1>1. new \in Seq(Entries)
  BY DEF DrawnFrom
<1>2. shards' \in [ShardIds -> Seq(Entries)]
  BY <1>1 DEF CacheInv, CacheTypeOK
<1>3. \A j \in ShardIds : DrawnFrom(shards'[j], shards[j])
  <2>1. shards'[i] = new /\ \A j \in ShardIds \ {i} : shards'[j] = shards[j]
    BY DEF CacheInv, CacheTypeOK
  <2> QED  BY <2>1, DrawnSelf, CacheTypes
<1>4. CacheTypeOK'
  BY <1>2 DEF CacheInv, CacheTypeOK, engineVars
<1> QED  BY <1>2, <1>3, <1>4, DrawnStep

\* So do a query that then returns, and the maintenance thread.
LEMMA DrawnAndReturn ==
  ASSUME CacheInv, NEW q \in Queries, Return(q),
         NEW i \in ShardIds, NEW new, DrawnFrom(new, shards[i]),
         shards' = [shards EXCEPT ![i] = new],
         UNCHANGED <<engineVars, bits, limit, serials, answers>>
  PROVE  CacheInv'
<1>1. /\ CacheTypeOK' /\ Housed'
      /\ \A j \in ShardIds : \A k, h : Names(shards[j], k, h) => Names(shards'[j], k, h)
  BY OneShardDrawn
<1>2. /\ QueryTypeOK' /\ Dated' /\ Judged'
      /\ \A r \in Queries : hit'[r] = None \/ (hit'[r] = hit[r] /\ key'[r] = key[r])
  BY ReturnStep
<1>3. Held'
  BY <1>1, <1>2, HeldStep
<1> QED  BY <1>1, <1>2, <1>3 DEF CacheInv

LEMMA DrawnUnseen ==
  ASSUME CacheInv, NEW i \in ShardIds, NEW new, DrawnFrom(new, shards[i]),
         shards' = [shards EXCEPT ![i] = new],
         UNCHANGED <<engineVars, bits, limit, serials, answers, queryVars>>
  PROVE  CacheInv'
<1>1. /\ CacheTypeOK' /\ Housed'
      /\ \A j \in ShardIds : \A k, h : Names(shards[j], k, h) => Names(shards'[j], k, h)
  BY OneShardDrawn
<1>2. QueryTypeOK' /\ Dated' /\ Judged'
  BY DEF CacheInv, QueryTypeOK, Dated, Judged, queryVars, engineVars
<1>3. \A r \in Queries : hit'[r] = None \/ (hit'[r] = hit[r] /\ key'[r] = key[r])
  BY DEF queryVars
<1>4. Held'
  BY <1>1, <1>3, HeldStep
<1> QED  BY <1>1, <1>2, <1>4 DEF CacheInv

\* get finds nothing, or an entry past its deadline.
LEMMA MissStep ==
  ASSUME CacheInv, NEW q \in Queries, UNCHANGED engineVars,
         Return(q) \/ (Goto(q, "forward") /\ UNCHANGED <<key, gen, hit, verdict>>)
  PROVE  /\ QueryTypeOK' /\ Dated' /\ Judged'
         /\ \A r \in Queries : hit'[r] = None \/ (hit'[r] = hit[r] /\ key'[r] = key[r])
<1>1. CASE Return(q)
  BY <1>1, ReturnStep
<1>2. CASE Goto(q, "forward") /\ UNCHANGED <<key, gen, hit, verdict>>
  BY <1>2 DEF CacheInv, QueryTypeOK, Dated, Judged, Goto, Steps, engineVars
<1> QED  BY <1>1, <1>2

LEMMA GetMissStep ==
  ASSUME CacheInv, NEW q \in Queries, Get(q), GetMiss(q) PROVE CacheInv'
<1>1. /\ UNCHANGED <<engineVars, bits, limit, shards, serials>> /\ answers' \in Nat
      /\ Return(q) \/ (Goto(q, "forward") /\ UNCHANGED <<key, gen, hit, verdict>>)
  BY DEF Get, GetMiss, CacheInv, CacheTypeOK
<1> QED  BY <1>1, MissStep, QueryStep

LEMMA GetLapsedStep ==
  ASSUME CacheInv, NEW q \in Queries, Get(q), GetLapsed(q) PROVE CacheInv'
<1>1. /\ UNCHANGED <<engineVars, bits, limit, serials, answers>> /\ Locked(q)
      /\ Return(q) \/ (Goto(q, "forward") /\ UNCHANGED <<key, gen, hit, verdict>>)
  BY DEF Get, GetLapsed
<1>2. PICK s : s = Home(q)
  OBVIOUS
<1>3. s \in ShardIds
  BY <1>1, <1>2, HomeIsCurrent
<1>4. PICK p \in Entry(s, key[q]) : shards' = [shards EXCEPT ![s] = RemoveAt(shards[s], p)]
  BY <1>2, <1>3 DEF GetLapsed
<1>5. DrawnFrom(RemoveAt(shards[s], p), shards[s])
  BY <1>3, <1>4, RemovedDrawn, CacheTypes DEF Entry
<1>6. /\ CacheTypeOK' /\ Housed'
      /\ \A j \in ShardIds : \A k, h : Names(shards[j], k, h) => Names(shards'[j], k, h)
  BY <1>1, <1>3, <1>4, <1>5, OneShardDrawn
<1>7. /\ QueryTypeOK' /\ Dated' /\ Judged'
      /\ \A r \in Queries : hit'[r] = None \/ (hit'[r] = hit[r] /\ key'[r] = key[r])
  BY <1>1, MissStep
<1>8. Held'
  BY <1>1, <1>6, <1>7, HeldStep
<1> QED  BY <1>6, <1>7, <1>8 DEF CacheInv

\* get takes the entry's bytes, number and verdict in one hold of the lock.
LEMMA GetFoundStep ==
  ASSUME CacheInv, NEW q \in Queries, Get(q), GetFound(q) PROVE CacheInv'
<1>1. /\ UNCHANGED <<engineVars, bits, limit, serials, answers, key, gen>> /\ Locked(q)
      /\ pc[q] \in {"get", "lend"}
  BY DEF Get, GetFound
<1>2. PICK s : s = Home(q)
  OBVIOUS
<1>3. s \in ShardIds /\ s = shard_for(key[q], bits)
  BY <1>1, <1>2, HomeIsCurrent
<1>4. PICK p \in Entry(s, key[q]) :
        /\ shards' = [shards EXCEPT ![s] = Fronted(shards[s], p)]
        /\ hit' = [hit EXCEPT ![q] = [bytes |-> shards[s][p].bytes, serial |-> shards[s][p].serial]]
        /\ verdict' = [verdict EXCEPT ![q] =
              IF Found(shards[s][p], q) = "serve" THEN shards[s][p].verdict ELSE NoVerdict]
        /\ pc' = [pc EXCEPT ![q] = Found(shards[s][p], q)]
  BY <1>2, <1>3 DEF GetFound, Goto
<1>5. p \in 1..Len(shards[s]) /\ shards[s][p].key = key[q]
  BY <1>4 DEF Entry
<1>6. PICK e : e = shards[s][p]
  OBVIOUS
<1>7. /\ e \in Entries /\ e.key = key[q] /\ Sound(e) /\ e.serial <= serials[s]
  <2>1. ShardOK(shards[s], s, bits, limit, serials[s])
    BY <1>3 DEF CacheInv, Housed
  <2> QED  BY <1>3, <1>5, <1>6, <2>1, CacheTypes, ElementOfSeq DEF ShardOK, ListOK
<1> DEFINE h == [bytes |-> e.bytes, serial |-> e.serial]
           v == IF Found(e, q) = "serve" THEN e.verdict ELSE NoVerdict
<1>8. h \in Hits /\ h # None /\ h.bytes = e.bytes /\ h.serial = e.serial
  BY <1>7, CacheAssumption DEF Hits, Entries
<1>9. v \in Verdicts
  BY <1>7 DEF Entries, Verdicts, NoVerdict
<1>10. /\ Found(e, q) \in {"forward", "walk", "serve"}
       /\ Found(e, q) = "serve" => e.checked = gen[q] /\ v = e.verdict
  BY DEF Found
<1>11. /\ hit' = [hit EXCEPT ![q] = h] /\ verdict' = [verdict EXCEPT ![q] = v]
       /\ pc' = [pc EXCEPT ![q] = Found(e, q)]
  BY <1>4, <1>6
<1>12. Found(e, q) = "serve" => v.of = h.bytes /\ v.under >= gen[q]
  BY <1>7, <1>8, <1>10 DEF Sound
<1> HIDE DEF h, v
<1>13. QueryTypeOK'
  BY <1>1, <1>8, <1>9, <1>10, <1>11 DEF CacheInv, QueryTypeOK, Steps
<1>14. Dated'
  BY <1>1 DEF CacheInv, Dated, engineVars
<1>15. Judged'
  <2>1. /\ hit'[q] = h /\ verdict'[q] = v /\ pc'[q] = Found(e, q) /\ gen'[q] = gen[q]
        /\ \A r \in Queries \ {q} : /\ hit'[r] = hit[r] /\ verdict'[r] = verdict[r]
                                    /\ pc'[r] = pc[r] /\ gen'[r] = gen[r]
    BY <1>1, <1>11 DEF CacheInv, QueryTypeOK
  <2>2. SUFFICES ASSUME NEW r \in Queries
                 PROVE  /\ pc'[r] \in {"idle", "get", "lend", "put"} => hit'[r] = None
                        /\ pc'[r] \in {"walk", "note", "drop"} => hit'[r] # None
                        /\ pc'[r] \in {"note", "serve"} => verdict'[r].of = hit'[r].bytes
                        /\ pc'[r] \in {"note", "serve", "put"} => verdict'[r].under >= gen'[r]
    BY DEF Judged
  <2>3. CASE r = q
    BY <1>8, <1>10, <1>12, <2>1, <2>3
  <2>4. CASE r # q
    BY <2>1, <2>4 DEF CacheInv, Judged
  <2> QED  BY <2>3, <2>4
<1>16. DrawnFrom(Fronted(shards[s], p), shards[s])
  BY <1>3, <1>5, FrontedDrawn, CacheTypes
<1>17. /\ CacheTypeOK' /\ Housed'
       /\ \A j \in ShardIds : \A k, g : Names(shards[j], k, g) => Names(shards'[j], k, g)
  BY <1>1, <1>3, <1>4, <1>16, OneShardDrawn
<1>18. \A j \in ShardIds : Names(shards[j], key[q], h)
  <2> SUFFICES ASSUME NEW j \in ShardIds, NEW r \in 1..Len(shards[j]),
                      shards[j][r].key = key[q]
               PROVE  shards[j][r].bytes = h.bytes
    BY DEF Names
  <2>1. ShardOK(shards[j], j, bits, limit, serials[j])
    BY DEF CacheInv, Housed
  <2>2. j = s
    BY <2>1, <1>3 DEF ShardOK, ListOK
  <2>3. r = p
    BY <2>1, <2>2, <1>5 DEF ShardOK, ListOK, Alone
  <2> QED  BY <2>2, <2>3, <1>6, <1>8
<1>19. Held'
  <2> SUFFICES ASSUME NEW r \in Queries, hit'[r] # None
               PROVE  /\ hit'[r].serial <= serials[shard_for(key[r], bits)]
                      /\ \A j \in ShardIds : Names(shards'[j], key[r], hit'[r])
    BY <1>1 DEF Held
  <2>1. CASE r = q
    <3>1. hit'[q] = h
      BY <1>11 DEF CacheInv, QueryTypeOK
    <3> QED  BY <2>1, <3>1, <1>3, <1>7, <1>8, <1>17, <1>18
  <2>2. CASE r # q
    <3>1. hit'[r] = hit[r]
      BY <2>2, <1>11 DEF CacheInv, QueryTypeOK
    <3> QED  BY <3>1, <1>17 DEF CacheInv, Held
  <2> QED  BY <2>1, <2>2
<1> QED  BY <1>13, <1>14, <1>15, <1>17, <1>19 DEF CacheInv

\* note_checked changes an entry's verdict only if the verdict is about its
\* bytes: by the number the query holds, and Held.
LEMMA NoteCheckedStep ==
  ASSUME CacheInv, NEW q \in Queries, NoteChecked(q) PROVE CacheInv'
<1>1. /\ pc[q] = "note" /\ Locked(q) /\ Return(q)
      /\ UNCHANGED <<engineVars, bits, limit, serials, answers>>
  BY DEF NoteChecked
<1>2. PICK s : s = Home(q)
  OBVIOUS
<1>3. s \in ShardIds
  BY <1>1, <1>2, HomeIsCurrent
<1>4. PICK list : list = shards[s]
  OBVIOUS
<1>5. list \in Seq(Entries) /\ Len(list) \in Nat
  BY <1>3, <1>4, CacheTypes
<1> DEFINE noted(e) == e.key = key[q] /\ Noted(q, e)
           after(e) == IF noted(e) THEN [e EXCEPT !.checked = gen[q], !.verdict = verdict[q]] ELSE e
           new == [p \in 1..Len(list) |-> after(list[p])]
<1>6. shards' = [shards EXCEPT ![s] = new]
  BY <1>2, <1>4 DEF NoteChecked
<1>7. /\ hit[q] # None /\ hit[q] \in Hits /\ verdict[q] \in Verdicts /\ gen[q] \in Nat
      /\ verdict[q].of = hit[q].bytes /\ verdict[q].under >= gen[q]
      /\ Names(list, key[q], hit[q])
  BY <1>1, <1>3, <1>4 DEF CacheInv, QueryTypeOK, Judged, Held
<1>8. \A p \in 1..Len(list) : after(list[p]) \in Entries /\ SameEntry(after(list[p]), list[p])
  <2> TAKE p \in 1..Len(list)
  <2>1. PICK e : e = list[p]
    OBVIOUS
  <2>2. e \in Entries
    BY <1>5, <2>1, ElementOfSeq
  <2>3. CASE noted(e)
    <3> DEFINE f == [e EXCEPT !.checked = gen[q], !.verdict = verdict[q]]
    <3>1. f \in Entries
      BY <1>7, <2>2 DEF Entries
    <3>2. /\ f.key = e.key /\ f.bytes = e.bytes /\ f.serial = e.serial
          /\ f.checked = gen[q] /\ f.verdict = verdict[q]
      BY <2>2 DEF Entries
    <3>3. e.bytes = hit[q].bytes
      BY <1>7, <2>1, <2>3 DEF Names, Noted
    <3> HIDE DEF f
    <3>4. SameEntry(f, e)
      BY <1>7, <3>2, <3>3 DEF SameEntry, Sound
    <3> QED  BY <2>1, <2>3, <3>1, <3>4 DEF f
  <2>4. CASE ~noted(e)
    BY <2>1, <2>2, <2>4 DEF SameEntry
  <2> QED  BY <2>3, <2>4
<1> HIDE DEF after
<1>9. new \in Seq(Entries) /\ Len(new) = Len(list) /\ \A p \in 1..Len(list) : new[p] = after(list[p])
  BY <1>5, <1>8
<1> HIDE DEF new
<1>10. DrawnFrom(new, list)
  <2> DEFINE f == [j \in 1..Len(new) |-> j]
  <2>1. f \in [1..Len(new) -> 1..Len(list)]
    BY <1>9
  <2>2. \A j \in 1..Len(new) : SameEntry(new[j], list[f[j]])
    BY <1>8, <1>9
  <2>3. \A j, k \in 1..Len(new) : f[j] = f[k] => j = k
    OBVIOUS
  <2>4. Len(new) <= Len(list)
    BY <1>5, <1>9
  <2> HIDE DEF f
  <2> QED  BY <1>9, <2>1, <2>2, <2>3, <2>4, DrawnBy
<1> QED  BY <1>1, <1>3, <1>4, <1>6, <1>10, DrawnAndReturn

\* What is left when a key's entry is removed.
LEMMA WithoutDrawn ==
  ASSUME CacheInv, NEW i \in ShardIds, NEW k
  PROVE  /\ DrawnFrom(Without(i, k), shards[i])
         /\ \A p \in 1..Len(Without(i, k)) : Without(i, k)[p].key # k
<1>1. ShardOK(shards[i], i, bits, limit, serials[i]) /\ shards[i] \in Seq(Entries)
  BY CacheTypes DEF CacheInv, Housed
<1>2. CASE Entry(i, k) = {}
  <2>1. Without(i, k) = shards[i]
    BY <1>2 DEF Without
  <2> QED  BY <1>1, <1>2, <2>1, DrawnSelf DEF Entry
<1>3. CASE Entry(i, k) # {}
  <2>1. PICK p \in Entry(i, k) : Without(i, k) = RemoveAt(shards[i], p)
    BY <1>3 DEF Without
  <2>2. p \in 1..Len(shards[i]) /\ shards[i][p].key = k
    BY <2>1 DEF Entry
  <2>3. DrawnFrom(Without(i, k), shards[i])
    BY <1>1, <2>1, <2>2, RemovedDrawn
  <2>4. \A j \in 1..Len(Without(i, k)) : Without(i, k)[j].key # k
    <3> TAKE j \in 1..Len(Without(i, k))
    <3>1. Len(shards[i]) \in Nat
      BY CacheTypes
    <3>2. j \in 1..Len(shards[i]) - 1
      BY <1>1, <2>1, <2>2, RemoveProperties
    <3>3. Without(i, k)[j] = IF j < p THEN shards[i][j] ELSE shards[i][j + 1]
      BY <1>1, <2>1, <2>2, <3>2, RemoveProperties
    <3>4. \A r \in 1..Len(shards[i]) : r # p => shards[i][r].key # k
      BY <1>1, <2>2 DEF ShardOK, ListOK, Alone
    <3>5. CASE j < p
      BY <3>1, <3>2, <3>3, <3>4, <3>5
    <3>6. CASE ~(j < p)
      <4>1. j + 1 \in 1..Len(shards[i]) /\ j + 1 # p
        BY <2>2, <3>1, <3>2, <3>6
      <4> QED  BY <3>3, <3>4, <3>6, <4>1
    <3> QED  BY <3>5, <3>6
  <2> QED  BY <2>3, <2>4
<1> QED  BY <1>2, <1>3

LEMMA ForgetStep ==
  ASSUME CacheInv, NEW q \in Queries, Forget(q) PROVE CacheInv'
<1>1. Locked(q) /\ Return(q) /\ UNCHANGED <<engineVars, bits, limit, serials, answers>>
  BY DEF Forget
<1>2. PICK s : s = Home(q)
  OBVIOUS
<1>3. s \in ShardIds
  BY <1>1, <1>2, HomeIsCurrent
<1>4. CASE shards' = [shards EXCEPT ![s] = Without(s, key[q])]
  BY <1>1, <1>3, <1>4, WithoutDrawn, DrawnAndReturn
<1>5. CASE UNCHANGED shards
  BY <1>1, <1>5, ReturnStep, QueryStep DEF CacheInv, CacheTypeOK
<1> QED  BY <1>2, <1>4, <1>5 DEF Forget

\* put: what the new entry joins has no other under its key, and its number is
\* above any a query holds.
LEMMA PutStep ==
  ASSUME CacheInv, NEW q \in Queries, Put(q) PROVE CacheInv'
<1>1. /\ pc[q] = "put" /\ Locked(q) /\ Return(q) /\ UNCHANGED <<engineVars, bits, limit, answers>>
  BY DEF Put
<1>2. PICK s : s = Home(q)
  OBVIOUS
<1>3. s \in ShardIds /\ s = shard_for(key[q], bits) /\ s \in 0 .. 2^bits - 1
  BY <1>1, <1>2, HomeIsCurrent
<1>4. PICK top : top = serials[s] + 1
  OBVIOUS
<1> DEFINE e == [key |-> key[q], bytes |-> verdict[q].of, serial |-> serials[s] + 1,
                 age |-> "fresh", checked |-> Stamp(q), verdict |-> verdict[q]]
           rest == Without(s, key[q])
           full == <<e>> \o rest
           new == Bounded(full, Share(limit, bits, s))
<1>5. serials[s] \in Nat /\ top \in Nat /\ serials[s] <= top
  BY <1>3, <1>4, CacheTypes
<1>6. e \in Entries /\ e.key = key[q] /\ e.serial = top /\ Sound(e)
  <2>1. /\ key[q] \in Keys /\ verdict[q] \in Verdicts /\ gen[q] \in Nat /\ verdict[q].under >= gen[q]
    BY <1>1 DEF CacheInv, QueryTypeOK, Judged
  <2>2. verdict[q].of \in Nat
    BY <2>1 DEF Verdicts
  <2> QED  BY <1>4, <1>5, <2>1, <2>2 DEF Entries, Sound, Stamp
<1>7. Share(limit, bits, s) \in Nat /\ Share(limit, bits, s) >= 1
  BY <1>3, CacheTypes, ShareInUse
<1>8. Max({1, Share(limit, bits, s)}) = Share(limit, bits, s)
  <2>1. PICK n \in Nat : n = Share(limit, bits, s) /\ n >= 1
    BY <1>7
  <2>2. Max({1, n}) \in {1, n} /\ \A y \in {1, n} : Max({1, n}) >= y
    <3>1. \E x \in {1, n} : \A y \in {1, n} : x >= y
      BY <2>1
    <3> QED  BY <3>1 DEF Max
  <2> QED  BY <2>1, <2>2
<1>9. shards' = [shards EXCEPT ![s] = new] /\ serials' = [serials EXCEPT ![s] = top]
  BY <1>2, <1>3, <1>4, <1>8 DEF Put, CacheInv, CacheTypeOK
<1>10. /\ DrawnFrom(rest, shards[s]) /\ ListOK(rest, s, bits, serials[s])
       /\ \A k, h : Names(shards[s], k, h) => Names(rest, k, h)
       /\ \A p \in 1..Len(rest) : rest[p].key # key[q]
  <2>1. ListOK(shards[s], s, bits, serials[s])
    BY <1>3 DEF CacheInv, Housed, ShardOK
  <2>2. DrawnFrom(rest, shards[s]) /\ \A p \in 1..Len(rest) : rest[p].key # key[q]
    BY <1>3, WithoutDrawn
  <2> QED  BY <2>1, <2>2, DrawnKeeps
<1> HIDE DEF e, rest
<1>11. rest \in Seq(Entries) /\ Len(rest) \in Nat
  BY <1>10, LenProperties DEF DrawnFrom
<1>12. /\ full \in Seq(Entries) /\ Len(full) = Len(rest) + 1 /\ full[1] = e
       /\ \A p \in 2..Len(rest) + 1 : full[p] = rest[p - 1]
  BY <1>6, <1>11
<1> HIDE DEF full
<1>13. \A p \in 1..Len(full) : p = 1 \/ (p - 1 \in 1..Len(rest) /\ full[p] = rest[p - 1])
  BY <1>11, <1>12
<1>14. ListOK(full, s, bits, top)
  <2>1. Alone(full)
    <3> SUFFICES ASSUME NEW p \in 1..Len(full), NEW r \in 1..Len(full), full[p].key = full[r].key
                 PROVE  p = r
      BY DEF Alone
    <3>1. CASE p = 1 \/ r = 1
      BY <1>6, <1>10, <1>12, <1>13, <3>1
    <3>2. CASE p # 1 /\ r # 1
      <4>1. p - 1 = r - 1
        BY <1>10, <1>13, <3>2 DEF ListOK, Alone
      <4> QED  BY <4>1, <1>11, <1>12
    <3> QED  BY <3>1, <3>2
  <2>2. ASSUME NEW p \in 1..Len(full)
        PROVE  shard_for(full[p].key, bits) = s /\ full[p].serial <= top /\ Sound(full[p])
    <3>1. CASE p = 1
      BY <1>3, <1>5, <1>6, <1>12, <3>1
    <3>2. CASE p # 1
      <4>1. p - 1 \in 1..Len(rest) /\ full[p] = rest[p - 1]
        BY <1>13, <3>2
      <4>2. rest[p - 1] \in Entries
        BY <1>11, <4>1, ElementOfSeq
      <4>3. rest[p - 1].serial \in Nat
        BY <4>2 DEF Entries
      <4> QED  BY <1>5, <1>10, <4>1, <4>3 DEF ListOK
    <3> QED  BY <3>1, <3>2
  <2> QED  BY <1>12, <2>1, <2>2 DEF ListOK
<1>15. ShardOK(new, s, bits, limit, top) /\ new \in Seq(Entries)
       /\ \A k, h : Names(full, k, h) => Names(new, k, h)
  <2>1. DrawnFrom(new, full) /\ Len(new) <= Share(limit, bits, s)
    BY <1>7, <1>12, BoundedDrawn
  <2> HIDE DEF new
  <2>2. ListOK(new, s, bits, top) /\ \A k, h : Names(full, k, h) => Names(new, k, h)
    BY <1>14, <2>1, DrawnKeeps
  <2>3. new \in Seq(Entries)
    BY <2>2 DEF ListOK
  <2> QED  BY <2>1, <2>2, <2>3 DEF ShardOK
<1> HIDE DEF new
<1>16. /\ shards'[s] = new /\ serials'[s] = top
       /\ \A j \in ShardIds \ {s} : shards'[j] = shards[j] /\ serials'[j] = serials[j]
  BY <1>3, <1>9 DEF CacheInv, CacheTypeOK
<1>17. CacheTypeOK'
  BY <1>1, <1>3, <1>5, <1>9, <1>15 DEF CacheInv, CacheTypeOK, engineVars
<1>18. Housed'
  BY <1>1, <1>15, <1>16 DEF CacheInv, Housed
<1>19. /\ QueryTypeOK' /\ Dated' /\ Judged'
       /\ \A r \in Queries : hit'[r] = None \/ (hit'[r] = hit[r] /\ key'[r] = key[r])
  BY <1>1, ReturnStep
<1>20. Held'
  <2> SUFFICES ASSUME NEW r \in Queries, hit'[r] # None
               PROVE  /\ hit'[r].serial <= serials'[shard_for(key'[r], bits)]
                      /\ \A j \in ShardIds : Names(shards'[j], key'[r], hit'[r])
    BY <1>1 DEF Held
  <2>1. /\ hit'[r] = hit[r] /\ key'[r] = key[r] /\ hit[r] \in Hits
        /\ hit[r].serial <= serials[shard_for(key[r], bits)]
        /\ \A j \in ShardIds : Names(shards[j], key[r], hit[r])
    BY <1>19 DEF CacheInv, Held, QueryTypeOK
  <2>2. hit[r].serial \in Nat
    BY <2>1 DEF Hits
  <2>3. shard_for(key[r], bits) \in ShardIds
    BY CacheTypes, ShardForInUse DEF CacheInv, QueryTypeOK
  <2>4. hit[r].serial <= serials'[shard_for(key[r], bits)]
    BY <1>5, <1>16, <2>1, <2>2, <2>3
  <2>5. Names(full, key[r], hit[r])
    <3> SUFFICES ASSUME NEW p \in 1..Len(full), full[p].key = key[r],
                        full[p].serial = hit[r].serial
                 PROVE  full[p].bytes = hit[r].bytes
      BY DEF Names
    <3>1. p # 1
      <4> SUFFICES ASSUME p = 1 PROVE FALSE
        OBVIOUS
      <4>1. key[r] = key[q] /\ hit[r].serial = top
        BY <1>6, <1>12
      <4>2. hit[r].serial <= serials[s]
        BY <1>3, <2>1, <4>1
      <4> QED  BY <1>4, <1>5, <2>2, <4>1, <4>2
    <3>2. p - 1 \in 1..Len(rest) /\ full[p] = rest[p - 1]
      BY <1>13, <3>1
    <3>3. Names(rest, key[r], hit[r])
      BY <1>3, <1>10, <2>1
    <3> QED  BY <3>2, <3>3 DEF Names
  <2>6. \A j \in ShardIds : Names(shards'[j], key[r], hit[r])
    BY <1>15, <1>16, <2>1, <2>5
  <2> QED  BY <2>1, <2>4, <2>6
<1> QED  BY <1>17, <1>18, <1>19, <1>20 DEF CacheInv

-----------------------------------------------------------------------------
(* The answers: the maintenance thread, the engine and the clock.              *)

\* sweep takes some of a list, in the order it is in.
LEMMA SweptDrawn ==
  ASSUME CacheInv, NEW i \in ShardIds, SweepShard(i)
  PROVE  \E new : shards' = [shards EXCEPT ![i] = new] /\ DrawnFrom(new, shards[i])
<1> DEFINE kept == {p \in 1..Len(shards[i]) : shards[i][p].age # "lapsed"}
           n == Cardinality(kept)
<1>2. shards[i] \in Seq(Entries) /\ Len(shards[i]) \in Nat
  BY CacheTypes
<1>3. PICK f :
        /\ f \in InOrder(kept, {x \in kept \X kept : x[1] < x[2]})
        /\ shards' = [shards EXCEPT ![i] = [j \in 1..n |-> shards[i][f[j]]]]
  BY DEF SweepShard
<1>4. f \in [1..n -> kept] /\ \A j, k \in 1..n : j < k => f[j] < f[k]
  BY <1>3 DEF InOrder
<1>5. IsFiniteSet(1..Len(shards[i])) /\ Cardinality(1..Len(shards[i])) = Len(shards[i])
  <2>1. PICK m \in Nat : m = Len(shards[i])
    BY <1>2
  <2>2. IsFiniteSet(1..m) /\ Cardinality(1..m) = IF 1 > m THEN 0 ELSE m - 1 + 1
    BY FS_Interval
  <2> QED  BY <2>1, <2>2
<1>6. n \in Nat /\ n <= Len(shards[i])
  BY <1>5, FS_Subset, FS_CardinalityType
<1>7. \A j \in 1..n : f[j] \in 1..Len(shards[i])
  BY <1>4
<1> HIDE DEF kept, n
<1>8. \A j, k \in 1..n : f[j] = f[k] => j = k
  <2> TAKE j, k \in 1..n
  <2>1. f[j] \in Int /\ f[k] \in Int /\ j \in Int /\ k \in Int
    BY <1>6, <1>7
  <2>2. (j < k => f[j] < f[k]) /\ (k < j => f[k] < f[j])
    BY <1>4
  <2> QED  BY <2>1, <2>2
<1> DEFINE new == [j \in 1..n |-> shards[i][f[j]]]
<1>9. new \in Seq(Entries) /\ Len(new) = n /\ \A j \in 1..n : new[j] = shards[i][f[j]]
  <2>1. \A j \in 1..n : shards[i][f[j]] \in Entries
    BY <1>2, <1>7, ElementOfSeq
  <2> QED  BY <1>6, <2>1
<1>10. shards' = [shards EXCEPT ![i] = new]
  BY <1>3
<1> HIDE DEF new
<1>11. f \in [1..Len(new) -> 1..Len(shards[i])]
  BY <1>4, <1>7, <1>9
<1>12. \A j \in 1..Len(new) : SameEntry(new[j], shards[i][f[j]])
  BY <1>9 DEF SameEntry
<1>13. DrawnFrom(new, shards[i])
  BY <1>6, <1>8, <1>9, <1>11, <1>12, DrawnBy
<1> QED  BY <1>10, <1>13

LEMMA SweepShardStep ==
  ASSUME CacheInv, NEW i \in ShardIds, SweepShard(i) PROVE CacheInv'
<1>1. UNCHANGED <<engineVars, bits, limit, serials, answers, queryVars>>
  BY DEF SweepShard
<1> QED  BY <1>1, SweptDrawn, DrawnUnseen

LEMMA ClearShardStep ==
  ASSUME CacheInv, NEW i \in ShardIds, ClearShard(i) PROVE CacheInv'
<1>1. Len(shards[i]) \in Nat
  BY CacheTypes
<1>2. DrawnFrom(<<>>, shards[i])
  <2> DEFINE f == [j \in 1..0 |-> 1]
  <2>1. f \in [1..Len(<<>>) -> 1..Len(shards[i])] /\ Len(<<>>) = 0 /\ <<>> \in Seq(Entries)
    OBVIOUS
  <2>2. Len(<<>>) <= Len(shards[i]) /\ 1..Len(<<>>) = {}
    BY <1>1, <2>1
  <2> HIDE DEF f
  <2>3. PICK none \in Seq(Entries) : none = <<>>
    BY <2>1
  <2>4. 1..Len(none) = {} /\ Len(none) <= Len(shards[i]) /\ f \in [1..Len(none) -> 1..Len(shards[i])]
    BY <2>1, <2>2, <2>3
  <2>5. DrawnFrom(none, shards[i])
    BY <2>4, DrawnBy
  <2> QED  BY <2>3, <2>5
<1> QED  BY <1>2, DrawnUnseen DEF ClearShard

LEMMA AgeStep ==
  ASSUME CacheInv, Age PROVE CacheInv'
<1>1. PICK i \in ShardIds, older \in {"stale", "lapsed"} : \E p \in 1..Len(shards[i]) :
        shards' = [shards EXCEPT ![i] = [shards[i] EXCEPT ![p] = [shards[i][p] EXCEPT !.age = older]]]
  BY DEF Age, CacheInv, CacheTypeOK
<1>2. PICK p \in 1..Len(shards[i]) :
        shards' = [shards EXCEPT ![i] = [shards[i] EXCEPT ![p] = [shards[i][p] EXCEPT !.age = older]]]
  BY <1>1
<1>3. PICK list : list = shards[i]
  OBVIOUS
<1>4. list \in Seq(Entries) /\ Len(list) \in Nat
  BY <1>3, CacheTypes
<1> DEFINE e == [list[p] EXCEPT !.age = older]
           new == [list EXCEPT ![p] = e]
           f == [j \in 1..Len(new) |-> j]
<1>5. e \in Entries /\ SameEntry(e, list[p])
  <2>1. PICK d \in Entries : d = list[p]
    BY <1>3, <1>4, ElementOfSeq
  <2>2. e = [d EXCEPT !.age = older]
    BY <2>1
  <2>3. e \in Entries /\ e.key = d.key /\ e.bytes = d.bytes /\ e.serial = d.serial
        /\ e.verdict = d.verdict /\ e.checked = d.checked
    BY <2>2 DEF Entries
  <2> HIDE DEF e
  <2> QED  BY <2>1, <2>3 DEF SameEntry, Sound
<1>6. shards' = [shards EXCEPT ![i] = new]
  BY <1>2, <1>3
<1> HIDE DEF e
<1>7. new \in Seq(Entries) /\ Len(new) = Len(list)
      /\ \A j \in 1..Len(list) : new[j] = IF j = p THEN e ELSE list[j]
  BY <1>3, <1>4, <1>5
<1> HIDE DEF new
<1>8. f \in [1..Len(new) -> 1..Len(list)] /\ \A j, k \in 1..Len(new) : f[j] = f[k] => j = k
  BY <1>7
<1>9. \A j \in 1..Len(new) : SameEntry(new[j], list[f[j]])
  BY <1>5, <1>7 DEF SameEntry
<1>10. Len(new) <= Len(list)
  BY <1>4, <1>7
<1> HIDE DEF f
<1>11. DrawnFrom(new, list)
  BY <1>7, <1>8, <1>9, <1>10, DrawnBy
<1> QED  BY <1>3, <1>6, <1>11, DrawnUnseen DEF Age

\* engine_swap: the sets first, then the number.
LEMMA SwapStep ==
  ASSUME CacheInv, PublishSets \/ MoveNumber PROVE CacheInv'
<1>1. UNCHANGED <<bits, limit, shards, serials, answers, pc, key, gen, hit, verdict>>
  BY DEF PublishSets, MoveNumber, storeVars, queryVars
<1>2. QueryTypeOK' /\ Housed' /\ Held' /\ Judged'
  BY <1>1 DEF CacheInv, QueryTypeOK, Housed, Held, Judged
<1>3. /\ sets \in Nat /\ number \in Nat /\ number <= sets
      /\ \A q \in Queries : gen[q] \in Nat /\ gen[q] <= number
  BY DEF CacheInv, CacheTypeOK, QueryTypeOK, Dated
<1>4. \/ sets' = sets + 1 /\ number' = number
      \/ sets' = sets /\ number' = number + 1 /\ sets # number
  BY DEF PublishSets, MoveNumber, Swapping
<1>5. Dated' /\ sets' \in Nat /\ number' \in Nat
  BY <1>1, <1>3, <1>4 DEF Dated
<1>6. CacheTypeOK'
  BY <1>1, <1>5 DEF CacheInv, CacheTypeOK
<1> QED  BY <1>2, <1>5, <1>6 DEF CacheInv

LEMMA PlacesFinite ==
  ASSUME CacheInv
  PROVE  /\ IsFiniteSet(Places)
         /\ \A x \in Places : /\ x[1] \in ShardIds /\ x[2] \in 1..Len(shards[x[1]])
                              /\ x = <<x[1], x[2]>>
<1> DEFINE In(i) == {<<i, p>> : p \in 1..Len(shards[i])}
<1>1. \A i \in ShardIds : IsFiniteSet(In(i))
  <2> TAKE i \in ShardIds
  <2>1. PICK one \in Int, n \in Int : one = 1 /\ n = Len(shards[i])
    BY CacheTypes
  <2>2. IsFiniteSet(one..n) /\ IsFiniteSet({i})
    BY FS_Interval, FS_Singleton
  <2>3. IsFiniteSet({i} \X (1..Len(shards[i])))
    BY <2>1, <2>2, FS_Product
  <2>4. In(i) \subseteq {i} \X (1..Len(shards[i]))
    OBVIOUS
  <2> QED  BY <2>3, <2>4, FS_Subset
<1>2. IsFiniteSet({In(i) : i \in ShardIds})
  <2> HIDE DEF In
  <2>1. [i \in ShardIds |-> In(i)] \in Surjection(ShardIds, {In(i) : i \in ShardIds})
    BY DEF Surjection
  <2> QED  BY <2>1, ShardIdsAre, FS_Surjection
<1>3. IsFiniteSet(UNION {In(i) : i \in ShardIds})
  <2> HIDE DEF In
  <2> QED  BY <1>1, <1>2, FS_UNION
<1>4. \A x \in Places : /\ x[1] \in ShardIds /\ x[2] \in 1..Len(shards[x[1]])
                        /\ x = <<x[1], x[2]>>
  BY DEF Places
<1> QED  BY <1>3, <1>4 DEF Places

\* Two entries under one key are one entry, wherever they are.
LEMMA OneEntry ==
  ASSUME CacheInv, NEW x \in Places, NEW y \in Places,
         shards[x[1]][x[2]].key = shards[y[1]][y[2]].key
  PROVE  x = y
<1>1. /\ x[1] \in ShardIds /\ x[2] \in 1..Len(shards[x[1]]) /\ x = <<x[1], x[2]>>
      /\ y[1] \in ShardIds /\ y[2] \in 1..Len(shards[y[1]]) /\ y = <<y[1], y[2]>>
  BY PlacesFinite
<1>2. /\ ListOK(shards[x[1]], x[1], bits, serials[x[1]])
      /\ ListOK(shards[y[1]], y[1], bits, serials[y[1]])
  BY <1>1 DEF CacheInv, Housed, ShardOK
<1>3. x[1] = y[1]
  BY <1>1, <1>2 DEF ListOK
<1>4. x[2] = y[2]
  BY <1>1, <1>2, <1>3 DEF ListOK, Alone
<1> QED  BY <1>1, <1>3, <1>4

\* Every entry of the list is one of the shards'.
WasThere(list) ==
    \A j \in 1..Len(list) : \E a \in ShardIds : \E p \in 1..Len(shards[a]) : list[j] = shards[a][p]

\* reshard: a new list holds the entries whose key leads there now, each once.
LEMMA MovedOK ==
  ASSUME CacheInv, NEW i \in ShardIds, NEW nb \in 0..MaxBits, NEW list, list \in Moved(i, nb),
         NEW top \in Nat, \A j \in 0 .. 2^bits - 1 : serials[j] <= top
  PROVE  /\ ListOK(list, i, nb, top)
         /\ \A k, h : (\A j \in ShardIds : Names(shards[j], k, h)) => Names(list, k, h)
         /\ WasThere(list)
<1> DEFINE came == {x \in Places : shard_for(shards[x[1]][x[2]].key, nb) = i}
           n == Cardinality(came)
<1>1. PICK f :
        /\ f \in InOrder(came, {x \in came \X came : ArrivesBefore(x[2], x[1])})
        /\ list = [j \in 1..n |-> shards[f[j][1]][f[j][2]]]
  BY DEF Moved
<1>2. f \in [1..n -> came] /\ \A j, k \in 1..n : j < k => ArrivesBefore(f[k], f[j])
  BY <1>1 DEF InOrder
<1>2a. list = [j \in 1..n |-> shards[f[j][1]][f[j][2]]]
  BY <1>1
<1>3. n \in Nat
  BY PlacesFinite, FS_Subset, FS_CardinalityType
<1>4. \A x \in came : x \in Places /\ shard_for(shards[x[1]][x[2]].key, nb) = i
  OBVIOUS
<1> HIDE DEF came, n
<1>5. \A x \in came : ~ArrivesBefore(x, x)
  <2> TAKE x \in came
  <2>1. x[1] \in Nat /\ x[2] \in 1..Len(shards[x[1]]) /\ Len(shards[x[1]]) \in Nat
    BY <1>4, PlacesFinite, CacheTypes, ShardIdsAre
  <2>2. PICK t \in Int : t = Len(shards[x[1]]) - x[2]
    BY <2>1
  <2>3. ~(t < t) /\ ~(x[1] < x[1])
    BY <2>1
  <2> QED  BY <2>2, <2>3 DEF ArrivesBefore
<1>6. \A j, k \in 1..n : f[j] = f[k] => j = k
  <2> TAKE j, k \in 1..n
  <2>1. j < k => f[j] # f[k]
    BY <1>2, <1>5
  <2>2. k < j => f[k] # f[j]
    BY <1>2, <1>5
  <2> QED  BY <1>3, <2>1, <2>2
<1>7. \A x \in came :
        /\ x[1] \in ShardIds /\ x[2] \in 1..Len(shards[x[1]])
        /\ shards[x[1]][x[2]] \in Entries /\ Sound(shards[x[1]][x[2]])
        /\ shards[x[1]][x[2]].serial <= top
  <2> TAKE x \in came
  <2>1. x[1] \in ShardIds /\ x[2] \in 1..Len(shards[x[1]])
    BY <1>4, PlacesFinite
  <2>2. PICK a, p : a = x[1] /\ p = x[2]
    OBVIOUS
  <2>3. a \in ShardIds /\ p \in 1..Len(shards[a]) /\ ListOK(shards[a], a, bits, serials[a])
    BY <2>1, <2>2 DEF CacheInv, Housed, ShardOK
  <2>4. shards[a][p] \in Entries /\ serials[a] \in Nat /\ bits \in 0..MaxBits
    BY <2>3, CacheTypes, ElementOfSeq
  <2>5. /\ Sound(shards[a][p]) /\ shards[a][p].serial <= serials[a]
        /\ shard_for(shards[a][p].key, bits) = a
    BY <2>3 DEF ListOK
  <2>6. a \in 0 .. 2^bits - 1
    BY <2>4, <2>5, ShardForInUse DEF Entries
  <2>7. shards[a][p].serial \in Nat
    BY <2>4 DEF Entries
  <2>8. serials[a] <= top
    BY <2>6
  <2>9. shards[a][p].serial <= top
    BY <2>4, <2>5, <2>7, <2>8
  <2> QED  BY <2>1, <2>2, <2>4, <2>5, <2>9
<1>8. /\ list \in Seq(Entries) /\ Len(list) = n
      /\ \A j \in 1..n : list[j] = shards[f[j][1]][f[j][2]]
  <2>1. \A j \in 1..n : shards[f[j][1]][f[j][2]] \in Entries
    BY <1>2, <1>7
  <2> QED  BY <1>2a, <1>3, <2>1
<1>9. Alone(list)
  <2> SUFFICES ASSUME NEW j \in 1..n, NEW k \in 1..n, list[j].key = list[k].key PROVE j = k
    BY <1>8 DEF Alone
  <2>1. f[j] \in Places /\ f[k] \in Places
    BY <1>2, <1>4
  <2>2. f[j] = f[k]
    BY <1>8, <2>1, OneEntry, ZenonT(40)
  <2> QED  BY <1>6, <2>2
<1>10. ListOK(list, i, nb, top)
  BY <1>2, <1>4, <1>7, <1>8, <1>9 DEF ListOK
<1>11. \A k, h : (\A j \in ShardIds : Names(shards[j], k, h)) => Names(list, k, h)
  <2> TAKE k, h
  <2> HAVE \A j \in ShardIds : Names(shards[j], k, h)
  <2> SUFFICES ASSUME NEW j \in 1..n, list[j].key = k, list[j].serial = h.serial
               PROVE  list[j].bytes = h.bytes
    BY <1>8 DEF Names
  <2>1. PICK a, p : a = f[j][1] /\ p = f[j][2]
    OBVIOUS
  <2>2. a \in ShardIds /\ p \in 1..Len(shards[a]) /\ list[j] = shards[a][p]
    BY <1>2, <1>7, <1>8, <2>1
  <2> QED  BY <2>2 DEF Names
<1>12. WasThere(list)
  <2> SUFFICES ASSUME NEW j \in 1..Len(list)
               PROVE  \E a \in ShardIds : \E p \in 1..Len(shards[a]) : list[j] = shards[a][p]
    BY DEF WasThere
  <2>1. f[j] \in came /\ list[j] = shards[f[j][1]][f[j][2]]
    BY <1>2, <1>8
  <2>2. f[j][1] \in ShardIds /\ f[j][2] \in 1..Len(shards[f[j][1]])
    BY <1>7, <2>1
  <2> QED  BY <2>1, <2>2
<1> QED  BY <1>10, <1>11, <1>12

LEMMA RaisedOK ==
  ASSUME CacheInv
  PROVE  \E top \in Nat : /\ SerialsRaised = [i \in ShardIds |-> top]
                          /\ \A j \in 0 .. 2^bits - 1 : serials[j] <= top
<1> DEFINE S == {serials[j] : j \in 0 .. 2^bits - 1}
<1>1. bits \in 0..MaxBits /\ 0 .. 2^bits - 1 \subseteq ShardIds /\ 0 \in 0 .. 2^bits - 1
  BY CacheTypes, InUse, PowerType
<1>2. \A j \in 0 .. 2^bits - 1 : serials[j] \in Nat
  BY <1>1, CacheTypes
<1>3. S \subseteq Nat /\ S # {} /\ IsFiniteSet(S)
  <2>1. IsFiniteSet(0 .. 2^bits - 1)
    BY <1>1, ShardIdsAre, FS_Subset
  <2>2. PICK inUse : inUse = 0 .. 2^bits - 1
    OBVIOUS
  <2>3. S = {serials[j] : j \in inUse}
    BY <2>2
  <2>4. [j \in inUse |-> serials[j]] \in Surjection(inUse, {serials[j] : j \in inUse})
    BY DEF Surjection
  <2>5. IsFiniteSet(S)
    BY <2>1, <2>2, <2>3, <2>4, FS_Surjection
  <2> QED  BY <1>1, <1>2, <2>5
<1>4. Max(S) \in S /\ \A y \in S : Max(S) >= y
  <2> HIDE DEF S
  <2> QED  BY <1>3, Greatest
<1>5. Max(S) \in Nat /\ \A j \in 0 .. 2^bits - 1 : serials[j] <= Max(S)
  BY <1>2, <1>3, <1>4
<1>6. SerialsRaised = [i \in ShardIds |-> Max(S)]
  BY DEF SerialsRaised
<1> QED  BY <1>5, <1>6

\* reconfigure, whether or not the number of shards changes.
LEMMA ReconfigureStep ==
  ASSUME CacheInv, Reconfigure PROVE CacheInv'
<1>1. UNCHANGED <<sets, number, answers, pc, key, gen, hit, verdict>>
  BY DEF Reconfigure, engineVars, queryVars
<1>2. PICK total, nb, lists :
        /\ total \in Limits /\ nb = shard_count(total)
        /\ limit' = total /\ bits' = nb
        /\ shards' = [i \in ShardIds |-> Bounded(lists[i], Share(total, nb, i))]
        /\ \/ nb = bits /\ lists = shards /\ serials' = serials
           \/ (\A i \in ShardIds : lists[i] \in Moved(i, nb)) /\ serials' = SerialsRaised
  BY DEF Reconfigure
<1>3. nb \in 0..MaxBits /\ total \in Nat /\ \A i \in ShardIds : Share(total, nb, i) \in Nat
  BY <1>2, CountIsBits, CacheAssumption, ShareType
<1>4. /\ serials' \in [ShardIds -> Nat]
      /\ \A i \in ShardIds : ListOK(lists[i], i, nb, serials'[i])
      /\ \A i \in ShardIds : \A k, h : (\A j \in ShardIds : Names(shards[j], k, h)) => Names(lists[i], k, h)
      /\ \A k \in Keys : serials[shard_for(k, bits)] <= serials'[shard_for(k, nb)]
  <2>1. CASE nb = bits /\ lists = shards /\ serials' = serials
    <3>1. serials' \in [ShardIds -> Nat] /\ \A i \in ShardIds : ListOK(lists[i], i, nb, serials'[i])
      BY <2>1 DEF CacheInv, CacheTypeOK, Housed, ShardOK
    <3>2. \A k \in Keys : serials[shard_for(k, bits)] <= serials'[shard_for(k, nb)]
      BY <1>3, <2>1, CacheTypes, ShardForInUse
    <3> QED  BY <2>1, <3>1, <3>2
  <2>2. CASE (\A i \in ShardIds : lists[i] \in Moved(i, nb)) /\ serials' = SerialsRaised
    <3>1. PICK top \in Nat : /\ SerialsRaised = [i \in ShardIds |-> top]
                             /\ \A j \in 0 .. 2^bits - 1 : serials[j] <= top
      BY RaisedOK
    <3>2. serials' \in [ShardIds -> Nat] /\ \A i \in ShardIds : serials'[i] = top
      BY <2>2, <3>1
    <3>3. \A i \in ShardIds :
            /\ ListOK(lists[i], i, nb, top)
            /\ \A k, h : (\A j \in ShardIds : Names(shards[j], k, h)) => Names(lists[i], k, h)
      BY <1>3, <2>2, <3>1, MovedOK
    <3>4. \A k \in Keys : serials[shard_for(k, bits)] <= serials'[shard_for(k, nb)]
      BY <1>3, <3>1, <3>2, CacheTypes, ShardForInUse
    <3> QED  BY <3>2, <3>3, <3>4
  <2> QED  BY <1>2, <2>1, <2>2
<1>5. \A i \in ShardIds :
        /\ shards'[i] \in Seq(Entries) /\ ShardOK(shards'[i], i, nb, total, serials'[i])
        /\ \A k, h : Names(lists[i], k, h) => Names(shards'[i], k, h)
  <2> TAKE i \in ShardIds
  <2>1. shards'[i] = Bounded(lists[i], Share(total, nb, i))
    BY <1>2
  <2>2. lists[i] \in Seq(Entries)
    BY <1>4 DEF ListOK
  <2>3. DrawnFrom(shards'[i], lists[i]) /\ Len(shards'[i]) <= Share(total, nb, i)
    BY <1>3, <2>1, <2>2, BoundedDrawn
  <2>4. /\ ListOK(shards'[i], i, nb, serials'[i])
        /\ \A k, h : Names(lists[i], k, h) => Names(shards'[i], k, h)
    BY <1>4, <2>3, DrawnKeeps
  <2>5. shards'[i] \in Seq(Entries)
    BY <2>4 DEF ListOK
  <2> QED  BY <2>3, <2>4, <2>5 DEF ShardOK
<1>6. CacheTypeOK'
  <2>1. shards' \in [ShardIds -> Seq(Entries)]
    BY <1>2, <1>5
  <2> QED  BY <1>1, <1>2, <1>4, <2>1 DEF CacheInv, CacheTypeOK
<1>7. QueryTypeOK' /\ Dated' /\ Judged'
  BY <1>1 DEF CacheInv, QueryTypeOK, Dated, Judged
<1>8. Housed'
  BY <1>2, <1>5 DEF Housed
<1>9. Held'
  <2> SUFFICES ASSUME NEW r \in Queries, hit[r] # None
               PROVE  /\ hit[r].serial <= serials'[shard_for(key[r], nb)]
                      /\ \A i \in ShardIds : Names(shards'[i], key[r], hit[r])
    BY <1>1, <1>2 DEF Held
  <2>0. key[r] \in Keys
    BY DEF CacheInv, QueryTypeOK
  <2>1. /\ hit[r].serial <= serials[shard_for(key[r], bits)] /\ hit[r] \in Hits
        /\ \A i \in ShardIds : Names(shards[i], key[r], hit[r])
    BY DEF CacheInv, Held, QueryTypeOK
  <2>2. /\ hit[r].serial \in Nat /\ serials[shard_for(key[r], bits)] \in Nat
        /\ serials'[shard_for(key[r], nb)] \in Nat
    BY <1>3, <1>4, <2>0, <2>1, CacheTypes, ShardForInUse DEF Hits
  <2>3. serials[shard_for(key[r], bits)] <= serials'[shard_for(key[r], nb)]
    BY <1>4, <2>0
  <2>4. hit[r].serial <= serials'[shard_for(key[r], nb)]
    BY <2>1, <2>2, <2>3
  <2>5. \A i \in ShardIds : Names(lists[i], key[r], hit[r])
    BY <1>4, <2>1
  <2>6. \A i \in ShardIds : Names(shards'[i], key[r], hit[r])
    BY <1>5, <2>5
  <2> QED  BY <2>4, <2>6
<1> QED  BY <1>6, <1>7, <1>8, <1>9 DEF CacheInv

-----------------------------------------------------------------------------
(* The answers: the theorems.                                                  *)

LEMMA CacheStep == CacheInv /\ [Next]_vars => CacheInv'
<1> SUFFICES ASSUME CacheInv, [Next]_vars PROVE CacheInv'
  OBVIOUS
<1>1. ASSUME NEW q \in Queries, Query(q) PROVE CacheInv'
  <2>1. CASE Get(q)
    <3>1. GetMiss(q) \/ GetLapsed(q) \/ GetFound(q)
      BY <2>1 DEF Get
    <3> QED  BY <2>1, <3>1, GetMissStep, GetLapsedStep, GetFoundStep
  <2> QED
    BY <1>1, <2>1, BeginStep, AimStep, ServeStep, WalkStep, NoteCheckedStep, ForgetStep,
       JudgeStep, UnstoredStep, UpstreamFailedStep, PutStep DEF Query
<1>2. ASSUME NEW i \in ShardIds, SweepShard(i) \/ ClearShard(i) PROVE CacheInv'
  BY <1>2, SweepShardStep, ClearShardStep
<1>3. CASE UNCHANGED vars
  BY <1>3 DEF vars, engineVars, storeVars, queryVars, CacheInv, CacheTypeOK, QueryTypeOK,
              Dated, Housed, Held, Judged
<1> QED
  BY <1>1, <1>2, <1>3, ReconfigureStep, SwapStep, AgeStep DEF Next

LEMMA CacheAlways == Spec => []CacheInv
  BY CacheInitially, CacheStep, PTL DEF Spec

\* serve_from_cache, note_checked, put, engine_swap: for any number of queries,
\* keys, answers and swaps, what leaves the cache unjudged carries a verdict
\* about its own bytes, under sets at least as new as the query was told.
THEOREM OwnVerdictHolds == Spec => []OwnVerdict
<1>1. CacheInv => OwnVerdict
  BY DEF CacheInv, Judged, OwnVerdict
<1> QED  BY CacheAlways, <1>1, PTL

\* lock_shard, put, reconfigure, reshard: for any limits and any queries caught
\* between two locks, an entry is in its shard, alone under its key and within
\* the share, and a number a query holds names the bytes it was read with.
THEOREM EntriesSoundHolds == Spec => []EntriesSound
<1>1. ASSUME CacheInv PROVE OneHome
  <2> SUFFICES ASSUME NEW i \in ShardIds
               PROVE  /\ Len(shards[i]) <= Share(limit, bits, i)
                      /\ \A p \in 1..Len(shards[i]) :
                           /\ shard_for(shards[i][p].key, bits) = i
                           /\ Entry(i, shards[i][p].key) = {p}
    BY DEF OneHome
  <2>1. ShardOK(shards[i], i, bits, limit, serials[i])
    BY <1>1 DEF CacheInv, Housed
  <2> QED  BY <2>1 DEF ShardOK, ListOK, Alone, Entry
<1>2. ASSUME CacheInv PROVE SerialNames
  BY <1>2 DEF CacheInv, Held, Names, SerialNames, Entry
<1> QED  BY CacheAlways, <1>1, <1>2, PTL DEF EntriesSound

-----------------------------------------------------------------------------
(* The answers: the cache implements one store.                                *)

\* What the operations do to the answers of a list.
LEMMA AnswersIn ==
  ASSUME NEW list, NEW x
  PROVE  x \in AnswersOf(list)
           <=> \E p \in 1..Len(list) : x = <<list[p].key, list[p].bytes>>
  BY DEF AnswersOf

LEMMA DrawnAnswers ==
  ASSUME NEW new, NEW list, DrawnFrom(new, list)
  PROVE  AnswersOf(new) \subseteq AnswersOf(list)
<1>1. PICK f \in [1..Len(new) -> 1..Len(list)] :
        \A j \in 1..Len(new) : SameEntry(new[j], list[f[j]])
  BY DEF DrawnFrom
<1> SUFFICES ASSUME NEW x \in AnswersOf(new) PROVE x \in AnswersOf(list)
  OBVIOUS
<1>2. PICK j \in 1..Len(new) : x = <<new[j].key, new[j].bytes>>
  BY AnswersIn
<1>3. f[j] \in 1..Len(list) /\ x = <<list[f[j]].key, list[f[j]].bytes>>
  BY <1>1, <1>2 DEF SameEntry
<1> QED  BY <1>3, AnswersIn

LEMMA SameAnswers ==
  ASSUME NEW new, NEW list, Len(new) = Len(list),
         \A p \in 1..Len(list) : new[p].key = list[p].key /\ new[p].bytes = list[p].bytes
  PROVE  AnswersOf(new) = AnswersOf(list)
<1>1. \A x : x \in AnswersOf(new) <=> x \in AnswersOf(list)
  BY AnswersIn
<1> QED  BY <1>1

\* remove_entry takes the one answer there is under the key.
LEMMA RemovedAnswers ==
  ASSUME NEW list \in Seq(Entries), Alone(list), NEW p \in 1..Len(list)
  PROVE  AnswersOf(RemoveAt(list, p)) = {x \in AnswersOf(list) : x[1] # list[p].key}
<1> DEFINE new == RemoveAt(list, p)
<1>1. Len(list) \in Nat
  BY LenProperties
<1>2. Len(new) = Len(list) - 1
      /\ \A j \in 1..Len(list) - 1 : new[j] = IF j < p THEN list[j] ELSE list[j + 1]
  BY RemoveProperties
<1> HIDE DEF new
<1>3. ASSUME NEW x \in AnswersOf(new)
      PROVE  x \in AnswersOf(list) /\ x[1] # list[p].key
  <2>1. PICK j \in 1..Len(new) : x = <<new[j].key, new[j].bytes>>
    BY <1>3, AnswersIn
  <2>2. PICK r \in 1..Len(list) : r # p /\ new[j] = list[r]
    <3>1. CASE j < p
      BY <1>1, <1>2, <2>1, <3>1
    <3>2. CASE ~(j < p)
      <4>1. j + 1 \in 1..Len(list) /\ j + 1 # p /\ new[j] = list[j + 1]
        BY <1>1, <1>2, <2>1, <3>2
      <4> QED  BY <4>1
    <3> QED  BY <3>1, <3>2
  <2>3. list[r].key # list[p].key
    BY <2>2 DEF Alone
  <2>4. x = <<list[r].key, list[r].bytes>> /\ x[1] = list[r].key
    BY <2>1, <2>2
  <2> QED  BY <2>3, <2>4, AnswersIn
<1>4. ASSUME NEW x \in AnswersOf(list), x[1] # list[p].key
      PROVE  x \in AnswersOf(new)
  <2>1. PICK r \in 1..Len(list) : x = <<list[r].key, list[r].bytes>>
    BY AnswersIn
  <2>2. r # p
    BY <1>4, <2>1
  <2>3. PICK j \in 1..Len(new) : new[j] = list[r]
    <3>1. CASE r < p
      BY <1>1, <1>2, <3>1
    <3>2. CASE ~(r < p)
      <4>1. r - 1 \in 1..Len(new) /\ ~(r - 1 < p) /\ (r - 1) + 1 = r
        BY <1>1, <1>2, <2>2, <3>2
      <4>2. new[r - 1] = list[r]
        BY <1>2, <4>1
      <4> QED  BY <4>1, <4>2
    <3> QED  BY <3>1, <3>2
  <2> QED  BY <2>1, <2>3, AnswersIn
<1>5. AnswersOf(new) = {x \in AnswersOf(list) : x[1] # list[p].key}
  BY <1>3, <1>4
<1> QED  BY <1>5 DEF new

\* move_to_front loses none.
LEMMA FrontedAnswers ==
  ASSUME NEW list \in Seq(Entries), Alone(list), NEW p \in 1..Len(list)
  PROVE  AnswersOf(Fronted(list, p)) = AnswersOf(list)
<1> DEFINE rest == RemoveAt(list, p)
           new == <<list[p]>> \o rest
<1>1. Len(list) \in Nat /\ list[p] \in Entries
  BY LenProperties, ElementOfSeq
<1>2. /\ rest \in Seq(Entries) /\ Len(rest) = Len(list) - 1
      /\ AnswersOf(rest) = {x \in AnswersOf(list) : x[1] # list[p].key}
  BY RemoveProperties, RemovedAnswers
<1> HIDE DEF rest
<1>3. /\ Len(new) = Len(list) /\ new[1] = list[p]
      /\ \A j \in 1..Len(rest) : new[j + 1] = rest[j]
  BY <1>1, <1>2
<1> HIDE DEF new
<1>4. AnswersOf(new) \subseteq AnswersOf(list)
  BY FrontedDrawn, DrawnAnswers DEF new, rest, Fronted
<1>5. ASSUME NEW x \in AnswersOf(list) PROVE x \in AnswersOf(new)
  <2>1. PICK r \in 1..Len(list) : x = <<list[r].key, list[r].bytes>>
    BY AnswersIn
  <2>2. CASE r = p
    <3>1. 1 \in 1..Len(new) /\ x = <<new[1].key, new[1].bytes>>
      BY <1>1, <1>3, <2>1, <2>2
    <3> QED  BY <3>1, AnswersIn
  <2>3. CASE r # p
    <3>1. x[1] # list[p].key
      BY <2>1, <2>3 DEF Alone
    <3>2. PICK j \in 1..Len(rest) : x = <<rest[j].key, rest[j].bytes>>
      BY <1>2, <3>1, AnswersIn
    <3>3. j + 1 \in 1..Len(new) /\ x = <<new[j + 1].key, new[j + 1].bytes>>
      BY <1>1, <1>2, <1>3, <3>2
    <3> QED  BY <3>3, AnswersIn
  <2> QED  BY <2>2, <2>3
<1> QED  BY <1>4, <1>5 DEF new, rest, Fronted

\* The answers of all the lists, when one of them changes.
LEMMA AnswersIs ==
  ASSUME NEW x
  PROVE  /\ x \in AnswersKept <=> \E i \in ShardIds : x \in AnswersOf(shards[i])
         /\ x \in AnswersKept' <=> \E i \in ShardIds : x \in AnswersOf(shards'[i])
<1>1. AnswersKept' = UNION {AnswersOf(shards'[i]) : i \in ShardIds}
  BY DEF AnswersKept, AnswersOf, ShardIds
<1> QED  BY <1>1 DEF AnswersKept

LEMMA OneListChanged ==
  ASSUME CacheInv, NEW s \in ShardIds, NEW new, shards' = [shards EXCEPT ![s] = new], NEW x
  PROVE  x \in AnswersKept'
           <=> x \in AnswersOf(new) \/ \E i \in ShardIds \ {s} : x \in AnswersOf(shards[i])
<1>1. shards'[s] = new /\ \A i \in ShardIds \ {s} : shards'[i] = shards[i]
  BY DEF CacheInv, CacheTypeOK
<1> QED  BY <1>1, AnswersIs

LEMMA SameListsSame ==
  ASSUME UNCHANGED shards PROVE AnswersKept' = AnswersKept
  BY DEF AnswersKept, AnswersOf, ShardIds

\* An answer is in the list its key leads to.
LEMMA AnswerHome ==
  ASSUME CacheInv, NEW i \in ShardIds, NEW x \in AnswersOf(shards[i])
  PROVE  shard_for(x[1], bits) = i
<1>1. PICK p \in 1..Len(shards[i]) : x = <<shards[i][p].key, shards[i][p].bytes>>
  BY AnswersIn
<1>2. x[1] = shards[i][p].key
  BY <1>1
<1> QED  BY <1>2 DEF CacheInv, Housed, ShardOK, ListOK

\* What a step of one query changes of what the queries are seen to do.
LEMMA QuerySeen ==
  ASSUME NEW q \in Queries,
         \A r \in Queries \ {q} : /\ pc'[r] = pc[r] /\ key'[r] = key[r]
                                  /\ hit'[r] = hit[r] /\ verdict'[r] = verdict[r]
  PROVE  /\ pc'[q] \in {"get", "lend"} => LookingFor' = [LookingFor EXCEPT ![q] = {key'[q]}]
         /\ pc'[q] \notin {"get", "lend"} => LookingFor' = [LookingFor EXCEPT ![q] = {}]
         /\ pc'[q] = "put" => ToStore' = [ToStore EXCEPT ![q] = {<<key'[q], verdict'[q].of>>}]
         /\ pc'[q] # "put" => ToStore' = [ToStore EXCEPT ![q] = {}]
         /\ hit'[q] = None => AnswerHeld' = [AnswerHeld EXCEPT ![q] = {}]
         /\ hit'[q] # None => AnswerHeld' = [AnswerHeld EXCEPT ![q] = {hit'[q].bytes}]
         /\ {pc[q], pc'[q]} \cap {"get", "lend"} = {} => LookingFor' = LookingFor
         /\ "put" \notin {pc[q], pc'[q]} => ToStore' = ToStore
         /\ hit'[q] = hit[q] => AnswerHeld' = AnswerHeld
<1>1. /\ pc'[q] \in {"get", "lend"} => LookingFor' = [LookingFor EXCEPT ![q] = {key'[q]}]
      /\ pc'[q] \notin {"get", "lend"} => LookingFor' = [LookingFor EXCEPT ![q] = {}]
      /\ {pc[q], pc'[q]} \cap {"get", "lend"} = {} => LookingFor' = LookingFor
  BY DEF LookingFor
<1>2. /\ pc'[q] = "put" => ToStore' = [ToStore EXCEPT ![q] = {<<key'[q], verdict'[q].of>>}]
      /\ pc'[q] # "put" => ToStore' = [ToStore EXCEPT ![q] = {}]
      /\ "put" \notin {pc[q], pc'[q]} => ToStore' = ToStore
  BY DEF ToStore
<1>3. /\ hit'[q] = None => AnswerHeld' = [AnswerHeld EXCEPT ![q] = {}]
      /\ hit'[q] # None => AnswerHeld' = [AnswerHeld EXCEPT ![q] = {hit'[q].bytes}]
      /\ hit'[q] = hit[q] => AnswerHeld' = AnswerHeld
  BY DEF AnswerHeld
<1> QED  BY <1>1, <1>2, <1>3

LEMMA QueryCalls ==
  ASSUME NEW q \in Queries
  PROVE  /\ LookingFor[q] = IF pc[q] \in {"get", "lend"} THEN {key[q]} ELSE {}
         /\ ToStore[q] = IF pc[q] = "put" THEN {<<key[q], verdict[q].of>>} ELSE {}
         /\ AnswerHeld[q] = IF hit[q] = None THEN {} ELSE {hit[q].bytes}
  BY DEF LookingFor, ToStore, AnswerHeld

LEMMA NobodySeen ==
  ASSUME UNCHANGED <<pc, key, hit, verdict>>
  PROVE  UNCHANGED <<LookingFor, ToStore, AnswerHeld>>
  BY DEF LookingFor, ToStore, AnswerHeld

\* A query that returns is in no call and holds nothing.
LEMMA ReturnSeen ==
  ASSUME CacheInv, NEW q \in Queries, Return(q)
  PROVE  /\ LookingFor' = [LookingFor EXCEPT ![q] = {}]
         /\ ToStore' = [ToStore EXCEPT ![q] = {}]
         /\ AnswerHeld' = [AnswerHeld EXCEPT ![q] = {}]
         /\ pc[q] \notin {"get", "lend"} => LookingFor' = LookingFor
         /\ pc[q] # "put" => ToStore' = ToStore
         /\ hit[q] = None => AnswerHeld' = AnswerHeld
<1>1. \A r \in Queries \ {q} : /\ pc'[r] = pc[r] /\ key'[r] = key[r]
                               /\ hit'[r] = hit[r] /\ verdict'[r] = verdict[r]
  BY DEF CacheInv, QueryTypeOK, Return, Goto
<1>2. pc'[q] = "idle" /\ hit'[q] = None
  BY DEF CacheInv, QueryTypeOK, Return, Goto
<1> QED  BY <1>1, <1>2, QuerySeen

\* A step of the cache is one of the store, or none.
Simulated == [Store!StoreNext]_(Store!askedVars)

\* A query that was in no call returns, having let its answer go.
LEMMA ReturnLets ==
  ASSUME CacheInv, NEW q \in Queries, Return(q), pc[q] \notin {"get", "lend", "put"},
         answers' = answers,
         \/ AnswersKept' = AnswersKept
         \/ /\ hit[q] # None
            /\ \E gone \in SUBSET {x \in AnswersKept : x[2] = hit[q].bytes} :
                 AnswersKept' = AnswersKept \ gone
  PROVE  Simulated
<1>2. UNCHANGED <<LookingFor, ToStore>> /\ AnswerHeld' = [AnswerHeld EXCEPT ![q] = {}]
  BY ReturnSeen
<1>3. CASE hit[q] = None
  <2>1. AnswersKept' = AnswersKept /\ AnswerHeld' = AnswerHeld
    BY <1>3, ReturnSeen
  <2> QED  BY <1>2, <2>1 DEF Simulated, Store!askedVars
<1>4. CASE hit[q] # None
  <2>1. AnswerHeld[q] = {hit[q].bytes}
    BY <1>4, QueryCalls
  <2>2. \E gone \in SUBSET {x \in AnswersKept : x[2] \in AnswerHeld[q]} :
          AnswersKept' = AnswersKept \ gone
    <3>1. CASE AnswersKept' = AnswersKept
      BY <3>1
    <3>2. CASE \E gone \in SUBSET {x \in AnswersKept : x[2] = hit[q].bytes} :
                 AnswersKept' = AnswersKept \ gone
      BY <2>1, <3>2
    <3> QED  BY <3>1, <3>2
  <2>3. Store!LetsGo(q)
    BY <1>2, <2>1, <2>2 DEF Store!LetsGo
  <2> QED  BY <2>3 DEF Simulated, Store!StoreNext
<1> QED  BY <1>3, <1>4

LEMMA BeginSimulated ==
  ASSUME CacheInv, NEW q \in Queries, Begin(q) PROVE Simulated
<1>1. PICK k \in Keys, to \in {"get", "forward"} : Goto(q, to) /\ key' = [key EXCEPT ![q] = k]
  BY DEF Begin
<1>2. /\ pc[q] = "idle" /\ pc' = [pc EXCEPT ![q] = to] /\ key' = [key EXCEPT ![q] = k]
      /\ UNCHANGED <<shards, answers, hit, verdict>>
  BY <1>1 DEF Begin, Goto, storeVars
<1>3. \A r \in Queries \ {q} : /\ pc'[r] = pc[r] /\ key'[r] = key[r]
                               /\ hit'[r] = hit[r] /\ verdict'[r] = verdict[r]
  BY <1>2 DEF CacheInv, QueryTypeOK
<1>4. pc'[q] = to /\ key'[q] = k /\ hit'[q] = None /\ hit[q] = None
  BY <1>2 DEF CacheInv, QueryTypeOK, Judged
<1>5. /\ LookingFor[q] = {} /\ ToStore[q] = {} /\ AnswersKept' = AnswersKept
      /\ ToStore' = ToStore /\ AnswerHeld' = [AnswerHeld EXCEPT ![q] = {}] /\ AnswerHeld' = AnswerHeld
      /\ to = "get" => LookingFor' = [LookingFor EXCEPT ![q] = {k}]
      /\ to = "forward" => LookingFor' = LookingFor
  <2>1. LookingFor[q] = {} /\ ToStore[q] = {} /\ AnswersKept' = AnswersKept
    BY <1>2, QueryCalls, SameListsSame
  <2>2. "put" \notin {pc[q], pc'[q]} /\ hit'[q] = hit[q]
    BY <1>2, <1>4
  <2>3. ToStore' = ToStore /\ AnswerHeld' = [AnswerHeld EXCEPT ![q] = {}] /\ AnswerHeld' = AnswerHeld
    BY <1>3, <1>4, <2>2, QuerySeen
  <2>4. to = "get" => LookingFor' = [LookingFor EXCEPT ![q] = {k}]
    BY <1>3, <1>4, QuerySeen
  <2>5. to = "forward" => LookingFor' = LookingFor
    BY <1>2, <1>3, <1>4, QuerySeen
  <2> QED  BY <2>1, <2>3, <2>4, <2>5
<1>6. CASE to = "get"
  <2>1. Store!Looks(q)
    BY <1>2, <1>5, <1>6 DEF Store!Looks
  <2> QED  BY <2>1 DEF Simulated, Store!StoreNext
<1>7. CASE to = "forward"
  BY <1>2, <1>5, <1>7 DEF Simulated, Store!askedVars
<1> QED  BY <1>6, <1>7

LEMMA ServeSimulated ==
  ASSUME CacheInv, NEW q \in Queries, Serve(q) PROVE Simulated
<1>1. Return(q) /\ pc[q] = "serve" /\ UNCHANGED <<shards, answers>>
  BY DEF Serve, storeVars
<1> QED  BY <1>1, SameListsSame, ReturnLets

LEMMA WalkSimulated ==
  ASSUME CacheInv, NEW q \in Queries, Walk(q) PROVE Simulated
<1>1. /\ pc[q] = "walk" /\ UNCHANGED <<shards, answers, key, hit>>
      /\ \/ /\ pc' = [pc EXCEPT ![q] = "note"]
            /\ verdict' = [verdict EXCEPT ![q] = [of |-> hit[q].bytes, under |-> sets]]
         \/ pc' = [pc EXCEPT ![q] = "drop"] /\ verdict' = verdict
  BY DEF Walk, Goto, storeVars
<1>2. \A r \in Queries \ {q} : /\ pc'[r] = pc[r] /\ key'[r] = key[r]
                               /\ hit'[r] = hit[r] /\ verdict'[r] = verdict[r]
  BY <1>1 DEF CacheInv, QueryTypeOK
<1>3. pc'[q] \in {"note", "drop"}
  BY <1>1 DEF CacheInv, QueryTypeOK
<1>4. UNCHANGED <<LookingFor, ToStore, AnswerHeld, AnswersKept, answers>>
  BY <1>1, <1>2, <1>3, QuerySeen, QueryCalls, SameListsSame
<1> QED  BY <1>4 DEF Simulated, Store!askedVars

LEMMA JudgeSimulated ==
  ASSUME CacheInv, NEW q \in Queries, Judge(q) PROVE Simulated
<1>1. /\ UNCHANGED <<shards, key>> /\ answers' = answers + 1 /\ pc[q] = "forward"
      /\ pc' = [pc EXCEPT ![q] = "put"] /\ hit' = [hit EXCEPT ![q] = None]
      /\ verdict' = [verdict EXCEPT ![q] = [of |-> answers + 1, under |-> sets]]
  BY DEF Judge, Goto
<1>2. \A r \in Queries \ {q} : /\ pc'[r] = pc[r] /\ key'[r] = key[r]
                               /\ hit'[r] = hit[r] /\ verdict'[r] = verdict[r]
  BY <1>1 DEF CacheInv, QueryTypeOK
<1>3. pc'[q] = "put" /\ hit'[q] = None /\ verdict'[q].of = answers + 1 /\ key'[q] = key[q] /\ key[q] \in Keys
  BY <1>1 DEF CacheInv, QueryTypeOK
<1>4. /\ LookingFor[q] = {} /\ ToStore[q] = {} /\ AnswersKept' = AnswersKept
      /\ LookingFor' = LookingFor /\ AnswerHeld' = [AnswerHeld EXCEPT ![q] = {}]
      /\ ToStore' = [ToStore EXCEPT ![q] = {<<key[q], answers + 1>>}]
  BY <1>1, <1>2, <1>3, QuerySeen, QueryCalls, SameListsSame
<1>5. Store!Brings(q)
  BY <1>1, <1>3, <1>4 DEF Store!Brings
<1> QED  BY <1>5 DEF Simulated, Store!StoreNext

LEMMA UnstoredSimulated ==
  ASSUME CacheInv, NEW q \in Queries, Unstored(q) PROVE Simulated
<1>1. pc[q] = "forward" /\ UNCHANGED <<shards, answers>>
  BY DEF Unstored, storeVars
<1>2. CASE Return(q)
  BY <1>1, <1>2, SameListsSame, ReturnLets
<1>3. CASE Goto(q, "drop") /\ UNCHANGED <<key, gen, hit, verdict>>
  <2>1. \A r \in Queries \ {q} : /\ pc'[r] = pc[r] /\ key'[r] = key[r]
                                 /\ hit'[r] = hit[r] /\ verdict'[r] = verdict[r]
    BY <1>3 DEF CacheInv, QueryTypeOK, Goto
  <2>2. pc'[q] = "drop" /\ hit'[q] = hit[q]
    BY <1>3 DEF CacheInv, QueryTypeOK, Goto
  <2>3. UNCHANGED <<LookingFor, ToStore, AnswerHeld, AnswersKept, answers>>
    BY <1>1, <2>1, <2>2, QuerySeen, QueryCalls, SameListsSame
  <2> QED  BY <2>3 DEF Simulated, Store!askedVars
<1> QED  BY <1>2, <1>3 DEF Unstored

LEMMA UpstreamFailedSimulated ==
  ASSUME CacheInv, NEW q \in Queries, UpstreamFailed(q) PROVE Simulated
<1>1. /\ UNCHANGED <<shards, answers, key, verdict>> /\ pc[q] = "forward"
      /\ pc' = [pc EXCEPT ![q] = "lend"] /\ hit' = [hit EXCEPT ![q] = None]
  BY DEF UpstreamFailed, Goto, storeVars
<1>2. \A r \in Queries \ {q} : /\ pc'[r] = pc[r] /\ key'[r] = key[r]
                               /\ hit'[r] = hit[r] /\ verdict'[r] = verdict[r]
  BY <1>1 DEF CacheInv, QueryTypeOK
<1>3. pc'[q] = "lend" /\ hit'[q] = None /\ key'[q] = key[q] /\ key[q] \in Keys
  BY <1>1 DEF CacheInv, QueryTypeOK
<1>4. /\ LookingFor[q] = {} /\ ToStore[q] = {} /\ AnswersKept' = AnswersKept
      /\ ToStore' = ToStore /\ AnswerHeld' = [AnswerHeld EXCEPT ![q] = {}]
      /\ LookingFor' = [LookingFor EXCEPT ![q] = {key[q]}]
  BY <1>1, <1>2, <1>3, QuerySeen, QueryCalls, SameListsSame
<1>5. Store!Looks(q)
  BY <1>1, <1>3, <1>4 DEF Store!Looks
<1> QED  BY <1>5 DEF Simulated, Store!StoreNext

\* get finds nothing under the key in its shard, and so nothing anywhere.
LEMMA MissSeen ==
  ASSUME CacheInv, NEW q \in Queries, pc[q] \in {"get", "lend"}, answers' = answers,
         AnswersKept' = {x \in AnswersKept : x[1] # key[q]},
         Return(q) \/ (Goto(q, "forward") /\ UNCHANGED <<key, gen, hit, verdict>>)
  PROVE  Simulated
<1>1. hit[q] = None /\ LookingFor[q] = {key[q]}
  BY QueryCalls DEF CacheInv, Judged
<1>2. LookingFor' = [LookingFor EXCEPT ![q] = {}] /\ ToStore' = ToStore /\ AnswerHeld' = AnswerHeld
  <2>1. CASE Return(q)
    BY <1>1, <2>1, ReturnSeen
  <2>2. CASE Goto(q, "forward") /\ UNCHANGED <<key, gen, hit, verdict>>
    <3>1. \A r \in Queries \ {q} : /\ pc'[r] = pc[r] /\ key'[r] = key[r]
                                   /\ hit'[r] = hit[r] /\ verdict'[r] = verdict[r]
      BY <2>2 DEF CacheInv, QueryTypeOK, Goto
    <3>2. pc'[q] = "forward" /\ hit'[q] = hit[q]
      BY <2>2 DEF CacheInv, QueryTypeOK, Goto
    <3> QED  BY <3>1, <3>2, QuerySeen
  <2> QED  BY <2>1, <2>2
<1>3. AnswersKept' = {x \in AnswersKept : x[1] \notin LookingFor[q]}
  BY <1>1
<1>4. Store!Misses(q)
  BY <1>1, <1>2, <1>3 DEF Store!Misses
<1> QED  BY <1>4 DEF Simulated, Store!StoreNext

LEMMA GetMissSimulated ==
  ASSUME CacheInv, NEW q \in Queries, Get(q), GetMiss(q) PROVE Simulated
<1>1. /\ pc[q] \in {"get", "lend"} /\ Locked(q) /\ UNCHANGED <<shards, answers>>
      /\ Entry(Home(q), key[q]) = {}
      /\ Return(q) \/ (Goto(q, "forward") /\ UNCHANGED <<key, gen, hit, verdict>>)
  BY DEF Get, GetMiss
<1>2. \A x \in AnswersKept : x[1] # key[q]
  <2> SUFFICES ASSUME NEW x \in AnswersKept, x[1] = key[q] PROVE FALSE
    OBVIOUS
  <2>1. PICK i \in ShardIds : x \in AnswersOf(shards[i])
    BY AnswersIs
  <2>2. i = Home(q)
    BY <1>1, <2>1, AnswerHome, HomeIsCurrent
  <2>3. PICK p \in 1..Len(shards[i]) : x = <<shards[i][p].key, shards[i][p].bytes>>
    BY <2>1, AnswersIn
  <2>4. p \in Entry(i, key[q])
    BY <2>3 DEF Entry
  <2> QED  BY <1>1, <2>2, <2>4
<1>3. AnswersKept' = AnswersKept /\ AnswersKept = {x \in AnswersKept : x[1] # key[q]}
  BY <1>1, <1>2, SameListsSame
<1> QED  BY <1>1, <1>3, MissSeen

\* One list loses the entry under k: so does the store.
LEMMA KeyGone ==
  ASSUME CacheInv, NEW k \in Keys, NEW s, s = shard_for(k, bits), s \in ShardIds,
         NEW p \in Entry(s, k), shards' = [shards EXCEPT ![s] = RemoveAt(shards[s], p)]
  PROVE  AnswersKept' = {x \in AnswersKept : x[1] # k}
<1>1. p \in 1..Len(shards[s]) /\ shards[s][p].key = k /\ shards[s] \in Seq(Entries) /\ Alone(shards[s])
  BY CacheTypes DEF Entry, CacheInv, Housed, ShardOK, ListOK
<1>2. AnswersOf(RemoveAt(shards[s], p)) = {x \in AnswersOf(shards[s]) : x[1] # k}
  BY <1>1, RemovedAnswers
<1>3. \A i \in ShardIds \ {s} : \A x \in AnswersOf(shards[i]) : x[1] # k
  BY AnswerHome
<1>4. \A x : x \in AnswersKept' <=> x \in AnswersKept /\ x[1] # k
  <2> TAKE x
  <2>1. x \in AnswersKept' <=> \/ x \in AnswersOf(shards[s]) /\ x[1] # k
                               \/ \E i \in ShardIds \ {s} : x \in AnswersOf(shards[i])
    BY <1>2, OneListChanged
  <2> QED  BY <1>3, <2>1, AnswersIs
<1> QED  BY <1>4

LEMMA GetLapsedSimulated ==
  ASSUME CacheInv, NEW q \in Queries, Get(q), GetLapsed(q) PROVE Simulated
<1>1. /\ pc[q] \in {"get", "lend"} /\ Locked(q) /\ answers' = answers
      /\ Return(q) \/ (Goto(q, "forward") /\ UNCHANGED <<key, gen, hit, verdict>>)
  BY DEF Get, GetLapsed
<1>2. PICK s : s = Home(q)
  OBVIOUS
<1>3. s \in ShardIds /\ s = shard_for(key[q], bits) /\ key[q] \in Keys
  BY <1>1, <1>2, HomeIsCurrent DEF CacheInv, QueryTypeOK
<1>4. PICK p \in Entry(s, key[q]) : shards' = [shards EXCEPT ![s] = RemoveAt(shards[s], p)]
  BY <1>2, <1>3 DEF GetLapsed
<1>5. AnswersKept' = {x \in AnswersKept : x[1] # key[q]}
  BY <1>3, <1>4, KeyGone
<1> QED  BY <1>1, <1>5, MissSeen

LEMMA GetFoundSimulated ==
  ASSUME CacheInv, NEW q \in Queries, Get(q), GetFound(q) PROVE Simulated
<1>1. pc[q] \in {"get", "lend"} /\ Locked(q) /\ UNCHANGED <<answers, key>>
  BY DEF Get, GetFound
<1>2. PICK s : s = Home(q)
  OBVIOUS
<1>3. s \in ShardIds
  BY <1>1, <1>2, HomeIsCurrent
<1>4. PICK p \in Entry(s, key[q]) :
        /\ shards' = [shards EXCEPT ![s] = Fronted(shards[s], p)]
        /\ hit' = [hit EXCEPT ![q] = [bytes |-> shards[s][p].bytes, serial |-> shards[s][p].serial]]
        /\ verdict' = [verdict EXCEPT ![q] =
              IF Found(shards[s][p], q) = "serve" THEN shards[s][p].verdict ELSE NoVerdict]
        /\ pc' = [pc EXCEPT ![q] = Found(shards[s][p], q)]
  BY <1>2, <1>3 DEF GetFound, Goto
<1>5. /\ p \in 1..Len(shards[s]) /\ shards[s][p].key = key[q] /\ shards[s] \in Seq(Entries)
      /\ Alone(shards[s]) /\ shards[s][p] \in Entries
  <2>1. p \in 1..Len(shards[s]) /\ shards[s][p].key = key[q] /\ shards[s] \in Seq(Entries) /\ Alone(shards[s])
    BY <1>3, <1>4, CacheTypes DEF Entry, CacheInv, Housed, ShardOK, ListOK
  <2> QED  BY <2>1, ElementOfSeq
<1>6. AnswersKept' = AnswersKept
  <2>1. AnswersOf(Fronted(shards[s], p)) = AnswersOf(shards[s])
    BY <1>5, FrontedAnswers
  <2>2. \A x : x \in AnswersKept' <=> x \in AnswersKept
    <3> TAKE x
    <3>1. x \in AnswersKept' <=> \/ x \in AnswersOf(shards[s])
                                 \/ \E i \in ShardIds \ {s} : x \in AnswersOf(shards[i])
      BY <1>3, <1>4, <2>1, OneListChanged
    <3> QED  BY <1>3, <3>1, AnswersIs
  <2> QED  BY <2>2
<1>7. PICK h : h = [bytes |-> shards[s][p].bytes, serial |-> shards[s][p].serial]
  OBVIOUS
<1>8. h # None /\ h.bytes = shards[s][p].bytes
  <2>1. shards[s][p].bytes \in Nat /\ shards[s][p].serial \in Nat
    BY <1>5 DEF Entries
  <2> QED  BY <1>7, <2>1, CacheAssumption
<1>9. /\ \A r \in Queries \ {q} : /\ pc'[r] = pc[r] /\ key'[r] = key[r]
                                  /\ hit'[r] = hit[r] /\ verdict'[r] = verdict[r]
      /\ pc'[q] \in {"forward", "walk", "serve"} /\ hit'[q] = h
  BY <1>1, <1>4, <1>7 DEF CacheInv, QueryTypeOK, Found
<1>10. PICK x : x = <<shards[s][p].key, shards[s][p].bytes>>
  OBVIOUS
<1>11. x \in AnswersKept /\ x[1] = key[q] /\ x[2] = h.bytes
  BY <1>3, <1>5, <1>8, <1>10, AnswersIs, AnswersIn
<1>12. /\ LookingFor' = [LookingFor EXCEPT ![q] = {}] /\ ToStore' = ToStore
       /\ AnswerHeld' = [AnswerHeld EXCEPT ![q] = {x[2]}] /\ x[1] \in LookingFor[q]
  <2>1. pc'[q] \notin {"get", "lend"} /\ "put" \notin {pc[q], pc'[q]} /\ hit'[q] # None
    BY <1>1, <1>8, <1>9
  <2> QED  BY <1>1, <1>9, <1>11, <2>1, QuerySeen, QueryCalls
<1>13. Store!Finds(q)
  BY <1>1, <1>6, <1>11, <1>12 DEF Store!Finds
<1> QED  BY <1>13 DEF Simulated, Store!StoreNext

\* A list whose entries are judged anew, or age, has the same answers.
LEMMA ListRejudged ==
  ASSUME CacheInv, NEW s \in ShardIds, NEW new, shards' = [shards EXCEPT ![s] = new],
         Len(new) = Len(shards[s]),
         \A p \in 1..Len(shards[s]) : new[p].key = shards[s][p].key /\ new[p].bytes = shards[s][p].bytes
  PROVE  AnswersKept' = AnswersKept
<1>1. AnswersOf(new) = AnswersOf(shards[s])
  BY SameAnswers
<1>2. \A x : x \in AnswersKept' <=> x \in AnswersKept
  <2> TAKE x
  <2>1. x \in AnswersKept' <=> \/ x \in AnswersOf(shards[s])
                               \/ \E i \in ShardIds \ {s} : x \in AnswersOf(shards[i])
    BY <1>1, OneListChanged
  <2> QED  BY <2>1, AnswersIs
<1> QED  BY <1>2

LEMMA NoteCheckedSimulated ==
  ASSUME CacheInv, NEW q \in Queries, NoteChecked(q) PROVE Simulated
<1>1. pc[q] = "note" /\ Locked(q) /\ Return(q) /\ answers' = answers
  BY DEF NoteChecked
<1>2. PICK s : s = Home(q)
  OBVIOUS
<1>3. s \in ShardIds
  BY <1>1, <1>2, HomeIsCurrent
<1>4. PICK list : list = shards[s]
  OBVIOUS
<1>5. list \in Seq(Entries) /\ Len(list) \in Nat
  BY <1>3, <1>4, CacheTypes
<1> DEFINE after(e) == IF e.key = key[q] /\ Noted(q, e)
                       THEN [e EXCEPT !.checked = gen[q], !.verdict = verdict[q]] ELSE e
           new == [p \in 1..Len(list) |-> after(list[p])]
<1>6. shards' = [shards EXCEPT ![s] = new]
  BY <1>2, <1>4 DEF NoteChecked
<1>7. \A e \in Entries : after(e).key = e.key /\ after(e).bytes = e.bytes
  BY DEF Entries
<1>8. \A p \in 1..Len(list) : list[p] \in Entries
  BY <1>5, ElementOfSeq
<1> HIDE DEF after
<1>9. Len(new) = Len(list) /\ \A p \in 1..Len(list) : new[p] = after(list[p])
  BY <1>5
<1> HIDE DEF new
<1>10. AnswersKept' = AnswersKept
  BY <1>3, <1>4, <1>6, <1>7, <1>8, <1>9, ListRejudged
<1> QED  BY <1>1, <1>10, ReturnLets

\* forget takes the answer the query holds, and no other.
LEMMA ForgetSimulated ==
  ASSUME CacheInv, NEW q \in Queries, Forget(q) PROVE Simulated
<1>1. pc[q] = "drop" /\ Locked(q) /\ Return(q) /\ answers' = answers
  BY DEF Forget
<1>2. PICK s : s = Home(q)
  OBVIOUS
<1>3. s \in ShardIds /\ s = shard_for(key[q], bits) /\ key[q] \in Keys
  BY <1>1, <1>2, HomeIsCurrent DEF CacheInv, QueryTypeOK
<1>4. hit[q] # None /\ Names(shards[s], key[q], hit[q])
  BY <1>1, <1>3 DEF CacheInv, Judged, Held
<1>5. CASE UNCHANGED shards
  BY <1>1, <1>5, SameListsSame, ReturnLets
<1>6. CASE /\ \E p \in Entry(s, key[q]) : shards[s][p].serial = hit[q].serial
           /\ shards' = [shards EXCEPT ![s] = Without(s, key[q])]
  <2>1. PICK p \in Entry(s, key[q]) : shards[s][p].serial = hit[q].serial
    BY <1>6
  <2>2. PICK r \in Entry(s, key[q]) : shards' = [shards EXCEPT ![s] = RemoveAt(shards[s], r)]
    BY <1>6, <2>1 DEF Without
  <2>3. AnswersKept' = {x \in AnswersKept : x[1] # key[q]}
    BY <1>3, <2>2, KeyGone
  <2>4. shards[s][p].bytes = hit[q].bytes
    BY <1>4, <2>1 DEF Names, Entry
  <2>5. \A x \in AnswersKept : x[1] = key[q] => x[2] = hit[q].bytes
    <3> SUFFICES ASSUME NEW x \in AnswersKept, x[1] = key[q] PROVE x[2] = hit[q].bytes
      OBVIOUS
    <3>1. PICK i \in ShardIds : x \in AnswersOf(shards[i])
      BY AnswersIs
    <3>2. i = s
      BY <1>3, <3>1, AnswerHome
    <3>3. PICK t \in 1..Len(shards[s]) : x = <<shards[s][t].key, shards[s][t].bytes>>
      BY <3>1, <3>2, AnswersIn
    <3>4. t = p
      BY <1>3, <2>1, <3>3 DEF Entry, CacheInv, Housed, ShardOK, ListOK, Alone
    <3> QED  BY <2>4, <3>3, <3>4
  <2>6. PICK gone : gone = {x \in AnswersKept : x[1] = key[q]}
    OBVIOUS
  <2>7. gone \in SUBSET {x \in AnswersKept : x[2] = hit[q].bytes} /\ AnswersKept' = AnswersKept \ gone
    BY <2>3, <2>5, <2>6
  <2> QED  BY <1>1, <1>4, <2>7, ReturnLets
<1> QED  BY <1>2, <1>5, <1>6 DEF Forget

\* put: the new entry stays, for a shard in use has room for one.
LEMMA PutSimulated ==
  ASSUME CacheInv, NEW q \in Queries, Put(q) PROVE Simulated
<1>1. pc[q] = "put" /\ Locked(q) /\ Return(q) /\ answers' = answers /\ hit[q] = None
  BY DEF Put, CacheInv, Judged
<1>2. PICK s : s = Home(q)
  OBVIOUS
<1>3. s \in ShardIds /\ s = shard_for(key[q], bits) /\ s \in 0 .. 2^bits - 1
  BY <1>1, <1>2, HomeIsCurrent
<1> DEFINE e == [key |-> key[q], bytes |-> verdict[q].of, serial |-> serials[s] + 1,
                 age |-> "fresh", checked |-> Stamp(q), verdict |-> verdict[q]]
           rest == Without(s, key[q])
           full == <<e>> \o rest
           room == Max({1, Share(limit, bits, s)})
           new == Bounded(full, room)
<1>4. e.key = key[q] /\ e.bytes = verdict[q].of
  OBVIOUS
<1>5. e \in Entries
  <2>1. key[q] \in Keys /\ verdict[q] \in Verdicts /\ gen[q] \in Nat /\ serials[s] + 1 \in Nat
    BY <1>3, CacheTypes DEF CacheInv, QueryTypeOK
  <2>2. verdict[q].of \in Nat
    BY <2>1 DEF Verdicts
  <2> QED  BY <2>1, <2>2 DEF Entries, Stamp
<1>6. room \in Nat /\ room >= 1
  <2>1. PICK n \in Nat : n = Share(limit, bits, s)
    BY <1>3, CacheTypes
  <2>2. \E x \in {1, n} : \A y \in {1, n} : x >= y
    BY <2>1
  <2>3. Max({1, n}) \in {1, n} /\ \A y \in {1, n} : Max({1, n}) >= y
    BY <2>2 DEF Max
  <2> QED  BY <2>1, <2>3
<1>7. shards' = [shards EXCEPT ![s] = new]
  BY <1>2 DEF Put
<1>8. DrawnFrom(rest, shards[s]) /\ \A p \in 1..Len(rest) : rest[p].key # key[q]
  BY <1>3, WithoutDrawn
<1> HIDE DEF e, rest, room
<1>9. rest \in Seq(Entries) /\ Len(rest) \in Nat
  BY <1>8, LenProperties DEF DrawnFrom
<1>10. /\ full \in Seq(Entries) /\ Len(full) = Len(rest) + 1 /\ full[1] = e
       /\ \A p \in 2..Len(full) : p - 1 \in 1..Len(rest) /\ full[p] = rest[p - 1]
  BY <1>5, <1>9
<1> HIDE DEF full
<1>11. DrawnFrom(new, full) /\ Len(new) \in Nat /\ Len(new) >= 1 /\ new[1] = e
  <2>1. DrawnFrom(new, full)
    BY <1>6, <1>10, BoundedDrawn
  <2>2. CASE Len(full) > room
    <3>1. new = SubSeq(full, 1, room)
      BY <2>2 DEF Bounded
    <3>2. Len(SubSeq(full, 1, room)) = room /\ SubSeq(full, 1, room)[1] = full[1]
      BY <1>6, <1>9, <1>10, <2>2
    <3> QED  BY <1>6, <1>10, <2>1, <3>1, <3>2
  <2>3. CASE ~(Len(full) > room)
    BY <1>9, <1>10, <2>1, <2>3 DEF Bounded
  <2> QED  BY <2>2, <2>3
<1> HIDE DEF new
<1>12. PICK a : a = <<key[q], verdict[q].of>>
  OBVIOUS
<1>13. a[1] = key[q] /\ ToStore[q] = {a} /\ a = <<e.key, e.bytes>>
  BY <1>1, <1>4, <1>12, QueryCalls
<1>14. a \in AnswersOf(new)
  <2>1. 1 \in 1..Len(new)
    BY <1>11
  <2> QED  BY <1>11, <1>13, <2>1, AnswersIn
<1>15. \A x \in AnswersOf(new) : x = a \/ (x \in AnswersOf(shards[s]) /\ x[1] # key[q])
  <2> TAKE x \in AnswersOf(new)
  <2>1. x \in AnswersOf(full)
    BY <1>11, DrawnAnswers
  <2>2. PICK p \in 1..Len(full) : x = <<full[p].key, full[p].bytes>>
    BY <2>1, AnswersIn
  <2>3. CASE p = 1
    BY <1>10, <1>13, <2>2, <2>3
  <2>4. CASE p # 1
    <3>1. p \in 2..Len(full)
      BY <1>9, <1>10, <2>4
    <3>2. p - 1 \in 1..Len(rest) /\ x = <<rest[p - 1].key, rest[p - 1].bytes>>
      BY <1>10, <2>2, <3>1
    <3>3. x \in AnswersOf(rest) /\ x[1] # key[q]
      BY <1>8, <3>2, AnswersIn
    <3> QED  BY <1>8, <3>3, DrawnAnswers
  <2> QED  BY <2>3, <2>4
<1>16. PICK others : others = AnswersKept' \ {a}
  OBVIOUS
<1>17. /\ others \in SUBSET {y \in AnswersKept : y[1] # a[1]}
       /\ AnswersKept' = others \cup {a}
  <2>1. a \in AnswersKept'
    BY <1>3, <1>7, <1>14, OneListChanged
  <2>2. ASSUME NEW y \in AnswersKept', y # a PROVE y \in AnswersKept /\ y[1] # key[q]
    <3>1. y \in AnswersOf(new) \/ \E i \in ShardIds \ {s} : y \in AnswersOf(shards[i])
      BY <1>3, <1>7, OneListChanged
    <3>2. CASE y \in AnswersOf(new)
      BY <1>3, <1>15, <2>2, <3>2, AnswersIs
    <3>3. CASE \E i \in ShardIds \ {s} : y \in AnswersOf(shards[i])
      BY <1>3, <3>3, AnswersIs, AnswerHome
    <3> QED  BY <3>1, <3>2, <3>3
  <2> QED  BY <1>13, <1>16, <2>1, <2>2
<1>18. LookingFor' = LookingFor /\ AnswerHeld' = AnswerHeld /\ ToStore' = [ToStore EXCEPT ![q] = {}]
  BY <1>1, ReturnSeen
<1>19. Store!Stores(q)
  BY <1>1, <1>13, <1>17, <1>18 DEF Store!Stores
<1> QED  BY <1>19 DEF Simulated, Store!StoreNext

\* A step of the maintenance thread or the clock after which there is no answer
\* that there was not before.
LEMMA ForgetsSome ==
  ASSUME UNCHANGED <<answers, pc, key, hit, verdict>>, AnswersKept' \subseteq AnswersKept
  PROVE  Simulated
<1>1. UNCHANGED <<LookingFor, ToStore, AnswerHeld>>
  BY NobodySeen
<1>2. \E rest \in SUBSET AnswersKept : AnswersKept' = rest
  OBVIOUS
<1>3. Store!Forgets
  BY <1>1, <1>2 DEF Store!Forgets
<1> QED  BY <1>3 DEF Simulated, Store!StoreNext

LEMMA ListShrinks ==
  ASSUME CacheInv, NEW i \in ShardIds, NEW new, shards' = [shards EXCEPT ![i] = new],
         AnswersOf(new) \subseteq AnswersOf(shards[i])
  PROVE  AnswersKept' \subseteq AnswersKept
<1>1. \A x : x \in AnswersKept' => x \in AnswersKept
  BY OneListChanged, AnswersIs
<1> QED  BY <1>1

LEMMA SweepSimulated ==
  ASSUME CacheInv, NEW i \in ShardIds, SweepShard(i) \/ ClearShard(i) PROVE Simulated
<1>1. UNCHANGED <<answers, pc, key, hit, verdict>>
  BY DEF SweepShard, ClearShard, queryVars
<1>2. PICK new : shards' = [shards EXCEPT ![i] = new] /\ AnswersOf(new) \subseteq AnswersOf(shards[i])
  <2>1. CASE SweepShard(i)
    BY <2>1, SweptDrawn, DrawnAnswers
  <2>2. CASE ClearShard(i)
    <3>1. AnswersOf(<<>>) = {}
      BY DEF AnswersOf
    <3> QED  BY <2>2, <3>1 DEF ClearShard
  <2> QED  BY <2>1, <2>2
<1> QED  BY <1>1, <1>2, ListShrinks, ForgetsSome

LEMMA AgeSimulated ==
  ASSUME CacheInv, Age PROVE Simulated
<1>1. PICK i \in ShardIds, older \in {"stale", "lapsed"} : \E p \in 1..Len(shards[i]) :
        shards' = [shards EXCEPT ![i] = [shards[i] EXCEPT ![p] = [shards[i][p] EXCEPT !.age = older]]]
  BY DEF Age, CacheInv, CacheTypeOK
<1>2. PICK p \in 1..Len(shards[i]) :
        shards' = [shards EXCEPT ![i] = [shards[i] EXCEPT ![p] = [shards[i][p] EXCEPT !.age = older]]]
  BY <1>1
<1>3. PICK list : list = shards[i]
  OBVIOUS
<1>4. list \in Seq(Entries) /\ Len(list) \in Nat /\ list[p] \in Entries
  BY <1>3, CacheTypes, ElementOfSeq
<1>5. PICK e : e = [list[p] EXCEPT !.age = older]
  OBVIOUS
<1>6. e \in Entries /\ e.key = list[p].key /\ e.bytes = list[p].bytes
  BY <1>4, <1>5 DEF Entries
<1>7. PICK new : new = [list EXCEPT ![p] = e]
  OBVIOUS
<1>8. Len(new) = Len(list) /\ \A j \in 1..Len(list) : new[j] = IF j = p THEN e ELSE list[j]
  BY <1>3, <1>4, <1>6, <1>7
<1>9. AnswersKept' = AnswersKept
  <2>1. shards' = [shards EXCEPT ![i] = new]
    BY <1>2, <1>3, <1>5, <1>7
  <2> QED  BY <1>3, <1>6, <1>8, <2>1, ListRejudged
<1>10. UNCHANGED <<answers, pc, key, hit, verdict>>
  BY DEF Age, queryVars
<1> QED  BY <1>9, <1>10, ForgetsSome

LEMMA ReconfigureSimulated ==
  ASSUME CacheInv, Reconfigure PROVE Simulated
<1>1. UNCHANGED <<answers, pc, key, hit, verdict>>
  BY DEF Reconfigure, queryVars
<1>2. PICK total, nb, lists :
        /\ total \in Limits /\ nb = shard_count(total)
        /\ shards' = [i \in ShardIds |-> Bounded(lists[i], Share(total, nb, i))]
        /\ \/ nb = bits /\ lists = shards
           \/ \A i \in ShardIds : lists[i] \in Moved(i, nb)
  BY DEF Reconfigure
<1>3. nb \in 0..MaxBits /\ total \in Nat /\ \A i \in ShardIds : Share(total, nb, i) \in Nat
  BY <1>2, CountIsBits, CacheAssumption, ShareType
<1>4. \A i \in ShardIds : /\ lists[i] \in Seq(Entries)
                          /\ \A x \in AnswersOf(lists[i]) : x \in AnswersKept
  <2> TAKE i \in ShardIds
  <2>1. CASE nb = bits /\ lists = shards
    BY <2>1, CacheTypes, AnswersIs
  <2>2. CASE \A j \in ShardIds : lists[j] \in Moved(j, nb)
    <3>1. lists[i] \in Seq(Entries) /\ WasThere(lists[i])
      <4>1. PICK top \in Nat : \A j \in 0 .. 2^bits - 1 : serials[j] <= top
        BY RaisedOK
      <4>2. ListOK(lists[i], i, nb, top) /\ WasThere(lists[i])
        BY <1>3, <2>2, <4>1, MovedOK
      <4> QED  BY <4>2 DEF ListOK
    <3>2. ASSUME NEW x \in AnswersOf(lists[i]) PROVE x \in AnswersKept
      <4>1. PICK j \in 1..Len(lists[i]) : x = <<lists[i][j].key, lists[i][j].bytes>>
        BY <3>2, AnswersIn
      <4>2. PICK a \in ShardIds : \E p \in 1..Len(shards[a]) : lists[i][j] = shards[a][p]
        BY <3>1 DEF WasThere
      <4>3. x \in AnswersOf(shards[a])
        BY <4>1, <4>2, AnswersIn
      <4> QED  BY <4>3, AnswersIs
    <3> QED  BY <3>1, <3>2
  <2> QED  BY <1>2, <2>1, <2>2
<1>5. \A x : x \in AnswersKept' => x \in AnswersKept
  <2> SUFFICES ASSUME NEW x \in AnswersKept' PROVE x \in AnswersKept
    OBVIOUS
  <2>1. PICK i \in ShardIds : x \in AnswersOf(shards'[i])
    BY AnswersIs
  <2>2. shards'[i] = Bounded(lists[i], Share(total, nb, i))
    BY <1>2
  <2>3. DrawnFrom(shards'[i], lists[i])
    BY <1>3, <1>4, <2>2, BoundedDrawn
  <2> QED  BY <1>4, <2>1, <2>3, DrawnAnswers
<1> QED  BY <1>1, <1>5, ForgetsSome

LEMMA UnseenSimulated ==
  ASSUME UNCHANGED <<shards, answers, pc, key, hit, verdict>> PROVE Simulated
  BY SameListsSame, ForgetsSome

LEMMA CacheSimulated == CacheInv /\ [Next]_vars => [Store!StoreNext]_(Store!askedVars)
<1> SUFFICES ASSUME CacheInv, [Next]_vars PROVE Simulated
  BY DEF Simulated
<1>1. ASSUME NEW q \in Queries, Query(q) PROVE Simulated
  <2>1. CASE Get(q)
    <3>1. GetMiss(q) \/ GetLapsed(q) \/ GetFound(q)
      BY <2>1 DEF Get
    <3> QED  BY <2>1, <3>1, GetMissSimulated, GetLapsedSimulated, GetFoundSimulated
  <2>2. CASE Aim(q)
    BY <2>2, UnseenSimulated DEF Aim, storeVars
  <2> QED
    BY <1>1, <2>1, <2>2, BeginSimulated, ServeSimulated, WalkSimulated, NoteCheckedSimulated,
       ForgetSimulated, JudgeSimulated, UnstoredSimulated, UpstreamFailedSimulated, PutSimulated
    DEF Query
<1>2. CASE PublishSets \/ MoveNumber
  BY <1>2, UnseenSimulated DEF PublishSets, MoveNumber, storeVars, queryVars
<1>3. CASE UNCHANGED vars
  BY <1>3, UnseenSimulated DEF vars, storeVars, queryVars
<1> QED
  BY <1>1, <1>2, <1>3, SweepSimulated, ReconfigureSimulated, AgeSimulated DEF Next

\* get, put, forget, note_checked, sweep, reconfigure: for any limits, hashes and
\* queries caught between two locks, the shards are one store in which every
\* call is one step.  A lookup finds what was last stored under its key and
\* misses nothing that is there, an answer that went does not come back, and
\* forget takes the answer its query holds or none.
THEOREM CacheImplementedHolds == Spec => CacheImplemented
<1>1. Init => Store!StoreInit
  <2> SUFFICES ASSUME Init PROVE Store!StoreInit
    OBVIOUS
  <2>1. \A i \in ShardIds : shards[i] = <<>>
    BY DEF Init
  <2>2. AnswersOf(<<>>) = {}
    BY DEF AnswersOf
  <2>3. \A x : x \notin AnswersKept
    BY <2>1, <2>2, AnswersIs
  <2>4. AnswersKept = {} /\ answers = 0
    BY <2>3 DEF Init
  <2>5. LookingFor = Store!Nothing /\ ToStore = Store!Nothing /\ AnswerHeld = Store!Nothing
    BY DEF Init, LookingFor, ToStore, AnswerHeld, Store!Nothing
  <2> QED  BY <2>4, <2>5 DEF Store!StoreInit
<1> QED  BY <1>1, CacheAlways, CacheSimulated, PTL DEF Spec, CacheImplemented, Store!StoreSpec
=============================================================================
