----------------------------- MODULE ListCopies -----------------------------
(* The copy on disk of one downloaded list, server/lists.odin: the copy, the *)
(* fingerprint beside it of the url it came from, and the copies an earlier  *)
(* build kept under the whole url.  A list goes by the name the file gives   *)
(* it, or by its url up to the query; under one name the query may change at *)
(* every load.  Any operation on a file may fail, and the process or the     *)
(* machine may stop between any two.                                         *)
CONSTANTS
  Urls,   (* the urls the list has had, alike up to the query                *)
  Plain,  (* the one of them with no query, in a set                         *)
  NoCopy  (* no file, nothing used                                           *)

ASSUME CopiesAssumption ==
  /\ Plain \subseteq Urls /\ (\A u, v \in Plain : u = v)
  /\ NoCopy \notin Urls
  /\ NoCopy \notin [of : Urls, disk : {"synced"}]

VARIABLES
  named,  (* list.named                                                      *)
  listUrl, (* the url the configuration gives it                             *)
  copy,   (* the copy: the url it is of, and how it is on disk               *)
  tmp,    (* how the temporary file beside it is on disk, or NoCopy          *)
  src,    (* the fingerprint beside it: the url it is of                     *)
  old,    (* the urls that have a copy under their whole name                *)
  doing,  (* where the load of the list is                                   *)
  then,   (* where it goes on after mark_copy_source                         *)
  used,   (* the copy that stood in at this load, as it was then             *)
  marked, (* history: the last replacement of the copy got to its end, the   *)
          (* fingerprint written, or removed for a url with no query         *)
  had     (* history: at some load since the list has this url, its copy was *)
          (* there to stand in                                               *)

copyVars == <<named, listUrl, copy, tmp, src, old, doing, then, used, marked, had>>
disk == <<copy, tmp, src, old, marked>>

(* copy_is_of.  A copy with no fingerprint is of the url with no query, or   *)
(* of a list the file names.                                                 *)
CopyIsOfUnmarked(u) == IF src = NoCopy THEN TRUE ELSE src = u
CopyIsOf(u) == IF src = NoCopy THEN named \/ u \in Plain ELSE src = u

Usable(u) == copy # NoCopy /\ copy.of = u /\ CopyIsOf(u)

Synced(u) == [of |-> u, disk |-> "synced"]

(* What an earlier build left: under the given name a copy and no            *)
(* fingerprint, or copies under the whole url.                               *)
CopiesInit ==
  /\ named \in BOOLEAN /\ listUrl \in Urls
  /\ copy \in {NoCopy} \cup (IF named THEN {Synced(listUrl)} ELSE {})
  /\ src = NoCopy /\ tmp = NoCopy
  /\ old \in IF named THEN {{}} ELSE SUBSET (Urls \ Plain)
  /\ doing = "idle" /\ then = "load" /\ used = NoCopy
  /\ marked = (copy = NoCopy)
  /\ had = FALSE

(* build_filter_sets, at the start, on SIGHUP or for a refresh.              *)
BeginLoad(u) ==
  /\ doing = "idle"
  /\ listUrl' = u
  /\ had' = (Usable(u) \/ (had /\ u = listUrl))
  /\ doing' = "move" /\ used' = NoCopy
  /\ UNCHANGED <<named, disk, then>>

Goes(to) == doing' = to /\ UNCHANGED <<named, listUrl, then, used, had>>

(* move_query_named_caches: an earlier build's copy of this url is removed   *)
(* when there is one of it under the name, else renamed to it.               *)
MoveCopy ==
  /\ doing = "move"
  /\ \/ Goes("load") /\ UNCHANGED disk
     \/ /\ listUrl \in old /\ copy # NoCopy /\ CopyIsOf(listUrl)
        /\ old' = old \ {listUrl}
        /\ Goes("load") /\ UNCHANGED <<copy, tmp, src, marked>>
     \/ /\ listUrl \in old /\ ~(copy # NoCopy /\ CopyIsOf(listUrl))
        /\ old' = old \ {listUrl}
        /\ copy' = Synced(listUrl) /\ marked' = FALSE
        /\ doing' = "unmark" /\ then' = "load"
        /\ UNCHANGED <<named, listUrl, tmp, src, used, had>>

(* list_contents without a download: fresh, offline, a download that failed  *)
(* or held no rules.  cached_copy gives the copy if it is of this url and    *)
(* can be read.                                                              *)
UseCopy ==
  /\ doing = "load"
  /\ doing' = "idle"
  /\ \/ used' = NoCopy
     \/ /\ copy # NoCopy /\ CopyIsOf(listUrl)
        /\ used' = [copy |-> copy, marked |-> marked]
  /\ UNCHANGED <<named, listUrl, disk, then, had>>

(* save_cached_copy of a download that held rules, the copy first:           *)
(* write_cache_file writes a temporary file, syncs it and renames it to the  *)
(* copy's name, or tries to remove it.                                       *)
WriteTmp ==
  /\ doing = "load"
  /\ tmp' = "cached"
  /\ Goes("sync") /\ UNCHANGED <<copy, src, old, marked>>

SyncTmp ==
  /\ doing = "sync"
  /\ tmp' = "synced"
  /\ Goes("rename") /\ UNCHANGED <<copy, src, old, marked>>

RenameTmp ==
  /\ doing = "rename"
  /\ copy' = [of |-> listUrl, disk |-> tmp] /\ tmp' = NoCopy
  /\ marked' = FALSE
  /\ doing' = "unmark" /\ then' = "idle"
  /\ UNCHANGED <<named, listUrl, src, old, used, had>>

WriteFails ==
  /\ doing \in {"sync", "rename"}
  /\ tmp' \in {NoCopy, tmp}
  /\ Goes("idle") /\ UNCHANGED <<copy, src, old, marked>>

(* mark_copy_source: the old fingerprint goes, if it can be removed...       *)
Unmark ==
  /\ doing = "unmark"
  /\ Goes("mark") /\ UNCHANGED <<copy, tmp, old, marked>>
  /\ src' \in {NoCopy, src}

(* ... and the new one is written, for a url with a query.                   *)
Mark ==
  /\ doing = "mark"
  /\ Goes(then) /\ UNCHANGED <<copy, tmp, old>>
  /\ \/ listUrl \notin Plain /\ src' = listUrl /\ marked' = TRUE
     \/ listUrl \notin Plain /\ UNCHANGED <<src, marked>>
     \/ listUrl \in Plain /\ marked' = (src = NoCopy) /\ UNCHANGED src

(* The power goes: what was not synced may be cut short.                     *)
Torn(d) == IF d = "cached" THEN "torn" ELSE d

Stop ==
  /\ doing' = "idle" /\ used' = NoCopy
  /\ tmp' = Torn(tmp)
  /\ copy' = IF copy = NoCopy THEN NoCopy ELSE [copy EXCEPT !.disk = Torn(@)]
  /\ UNCHANGED <<named, listUrl, src, old, then, marked, had>>

CopiesNext ==
  \/ \E u \in Urls : BeginLoad(u)
  \/ MoveCopy \/ UseCopy \/ WriteTmp \/ SyncTmp \/ RenameTmp \/ WriteFails
  \/ Unmark \/ Mark \/ Stop

CopiesSpec == CopiesInit /\ [][CopiesNext]_copyVars

(* save_cached_copy, mark_copy_source, copy_is_of.  A copy that stands in is *)
(* whole, and was downloaded from the url it stands in for unless the last   *)
(* replacement was cut short between the copy and its fingerprint, or the    *)
(* file names the list and the copy is of the url without a query, which has *)
(* no fingerprint to tell by.  And a list keeps a copy to fall back on, stop *)
(* or failed write, unless that was between the old fingerprint's removal    *)
(* and the new one's write.                                                  *)
CopiesSound ==
  /\ used # NoCopy =>
       /\ used.copy.disk # "torn"
       /\ \/ used.copy.of = listUrl
          \/ ~used.marked
          \/ named /\ used.copy.of \in Plain
  /\ had => Usable(listUrl) \/ (src = NoCopy /\ ~marked)
=============================================================================
