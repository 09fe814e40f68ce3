---------------------------- MODULE MCAnswerCache ----------------------------
(* What the server keeps, on small instances: answers in memory, for two       *)
(* queries and two keys in different shards under limits of one to three       *)
(* entries; and a downloaded list on disk, whose url has had no query and two. *)
(* They share nothing, so a behaviour is of one of them.                       *)
EXTENDS AnswerCache, ListCopies, TLC

CONSTANTS k1, k2

VARIABLE part   \* "answers" or "copies"

MCHash == [k \in {k1, k2} |-> IF k = k2 THEN 1 ELSE 0]

MCInit ==
    /\ part \in {"answers", "copies"}
    /\ Init /\ (part = "copies" => limit = 1)
    /\ CopiesInit
    /\ part = "answers" => named /\ copy = NoCopy /\ listUrl \in Plain

MCNext ==
    \/ part = "answers" /\ Next /\ UNCHANGED <<part, copyVars>>
    \/ part = "copies" /\ CopiesNext /\ UNCHANGED <<part, vars>>

MCSpec == MCInit /\ [][MCNext]_<<part, vars, copyVars>>

\* The queries are alike.
QuerySymmetry == Permutations(Queries)
=============================================================================
