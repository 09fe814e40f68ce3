------------------------------- MODULE UnitEnv -------------------------------
(* The environment a measured server is started with,                       *)
(* bench/internal/unitenv: Parse reads the shipped unit's Environment=      *)
(* lines, Shipped puts them before what the harness inherited, and Check    *)
(* reads back what the process really got.  A line of the unit is what      *)
(* Parse can tell of it; an assignment is <<key, value>>, and an            *)
(* environment the set of its assignments: two values of one key are two of *)
(* them, so that which comes last does not matter to what is shown.         *)
EXTENDS Naturals, Sequences, Functions

CONSTANTS
  FieldLists, (* what an Environment= line may assign: sequences            *)
  Inherited,  (* the assignments the harness itself runs with               *)
  MaxLines    (* bound: lines of a unit                                     *)

(* kind: "header" ([Service], which nothing follows on its line, or another *)
(* section), "comment", "directive"                                         *)
(* (no environment), "environment" (of interest to this harness) or         *)
(* "refused" (an environment directive or value it does not interpret).     *)
(* cont: the line ends in a backslash that escapes nothing; an Environment= *)
(* line that does is refused.                                               *)
Line(k, s, c, f) == [kind |-> k, service |-> s, cont |-> c, fields |-> f]
Lines ==
  {Line("header", TRUE, FALSE, <<>>)} \cup {Line("header", FALSE, c, <<>>) : c \in BOOLEAN}
    \cup {Line(k, FALSE, c, <<>>) : k \in {"comment", "directive"}, c \in BOOLEAN}
    \cup {Line("refused", FALSE, c, <<>>) : c \in BOOLEAN}
    \cup {Line("environment", FALSE, FALSE, f) : f \in FieldLists}

Allocator == {"MALLOC", "GLIBC_TUNABLES", "LD_PRELOAD"}

VARIABLES
  unit,       (* the lines read so far                                      *)
  parse,      (* Parse: "reading", "refused" or "read"                      *)
  inService, continued,
  env,        (* the assignments so far                                     *)
  proc,       (* what the process was started with                          *)
  checked     (* "none", "started", and Check's verdict "passed" or "failed" *)

unitVars == <<unit, parse, inService, continued, env, proc, checked>>

Keys(e) == {kv[1] : kv \in e}

UnitInit ==
  /\ unit = <<>> /\ parse = "reading" /\ inService = FALSE /\ continued = FALSE
  /\ env = {} /\ proc = {} /\ checked = "none"

(* addAssignment over the fields of one line: a key set twice is refused.   *)
SetTwice(fields) ==
  \/ Keys(Range(fields)) \cap Keys(env) # {}
  \/ \E i, j \in DOMAIN fields : i # j /\ fields[i][1] = fields[j][1]

ReadLineJoined(l) ==
  /\ parse = "reading" /\ Len(unit) < MaxLines
  /\ unit' = Append(unit, l)
  /\ continued' = (l.kind # "comment" /\ l.cont)
  /\ IF continued THEN UNCHANGED <<parse, inService, env>>
     ELSE /\ inService' = IF l.kind = "header" THEN l.service ELSE inService
          /\ parse' = IF \/ l.kind = "refused"
                         \/ l.kind = "environment" /\ (~inService \/ SetTwice(l.fields))
                        THEN "refused" ELSE parse
          /\ env' = IF l.kind = "environment" /\ parse' = "reading"
                      THEN env \cup Range(l.fields) ELSE env
  /\ UNCHANGED <<proc, checked>>

(* Parse's loop: a line the one before continues is not a directive of its  *)
(* own, and a comment in between neither ends nor starts a continuation.    *)
ReadLine(l) ==
  /\ parse = "reading" /\ Len(unit) < MaxLines
  /\ unit' = Append(unit, l)
  /\ continued' = IF continued THEN l.kind = "comment" \/ l.cont
                               ELSE l.kind # "comment" /\ l.cont
  /\ IF continued THEN UNCHANGED <<parse, inService, env>>
     ELSE /\ inService' = IF l.kind = "header" THEN l.service ELSE inService
          /\ parse' = IF \/ l.kind = "refused"
                         \/ l.kind = "environment" /\ (~inService \/ SetTwice(l.fields))
                        THEN "refused" ELSE parse
          /\ env' = IF l.kind = "environment" /\ parse' = "reading"
                      THEN env \cup Range(l.fields) ELSE env
  /\ UNCHANGED <<proc, checked>>

(* Load returns; a unit that was refused starts nothing.                    *)
EndOfUnit ==
  /\ parse = "reading"
  /\ parse' = "read"
  /\ UNCHANGED <<unit, inService, continued, env, proc, checked>>

(* Shipped: the unit's assignments, then what is inherited without the      *)
(* allocator's settings and without the keys the unit sets.                 *)
Shipped(e, inherited) == e \cup {kv \in inherited : kv[1] \notin Allocator \cup Keys(e)}

(* The server is started, through a wrapper that may drop its environment.  *)
StartProcess ==
  /\ parse = "read" /\ checked = "none"
  /\ proc' \in {Shipped(env, Inherited), Inherited}
  /\ checked' = "started"
  /\ UNCHANGED <<unit, parse, inService, continued, env>>

(* Check: every assignment of the unit is in /proc/<pid>/environ.           *)
CheckProcess ==
  /\ checked = "started"
  /\ checked' = IF env \subseteq proc THEN "passed" ELSE "failed"
  /\ UNCHANGED <<unit, parse, inService, continued, env, proc>>

UnitNext == (\E l \in Lines : ReadLine(l)) \/ EndOfUnit \/ StartProcess \/ CheckProcess

UnitSpec == UnitInit /\ [][UnitNext]_unitVars

-----------------------------------------------------------------------------
(* A line of its own, as systemd takes it: the last line before it that is  *)
(* not a comment does not end in a backslash.                               *)
OwnLine(i) ==
  \A j \in 1..(i - 1) :
    (unit[j].kind # "comment" /\ \A m \in (j + 1)..(i - 1) : unit[m].kind = "comment") =>
      ~unit[j].cont
InServiceAt(i) ==
  \E h \in 1..(i - 1) :
    /\ unit[h].kind = "header" /\ OwnLine(h) /\ unit[h].service
    /\ \A m \in (h + 1)..(i - 1) : ~(unit[m].kind = "header" /\ OwnLine(m))
Directives == {i \in 1..Len(unit) : OwnLine(i) /\ unit[i].kind \in {"environment", "refused"}}

(* Parse, Shipped and Check together: a server whose environment passed the *)
(* check runs with exactly the assignments systemd would give it, each key  *)
(* once and with no other allocator setting, and a unit Parse accepted has  *)
(* no environment directive it did not read.  (A process the wrapper left   *)
(* with the harness's own environment fails the check, unless the harness   *)
(* ran with all that the unit sets.)                                        *)
EnvAsShipped ==
  /\ parse = "read" =>
       /\ \A i \in Directives : unit[i].kind = "environment" /\ InServiceAt(i)
       /\ env = UNION {Range(unit[i].fields) : i \in Directives}
  /\ checked = "passed" /\ ~(env \subseteq Inherited) =>
       /\ \A kv \in env, kw \in proc : kw[1] = kv[1] => kw = kv
       /\ env \subseteq proc
       /\ Keys(proc) \cap Allocator \subseteq Keys(env)
=============================================================================
