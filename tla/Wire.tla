-------------------------------- MODULE Wire --------------------------------
(* The DNS messages of the harness, bench/internal/dnswire, and the mock    *)
(* upstream that answers them, bench/cmd/mockdns.  A message is its header  *)
(* fields and the octets after the header; header is the octets of it that  *)
(* are there.  Only the octets' part in the name's structure matters, so    *)
(* they are drawn from a small set.                                         *)
EXTENDS Naturals, Sequences

CONSTANTS
  Octets,     (* the octets a body is made of, 192 (a pointer) among them   *)
  MaxBody,    (* bound: octets after the header                             *)
  Labels,     (* the labels of the names asked for, each 1 to 63 octets     *)
  MaxLabels   (* bound: labels in a name                                    *)

ASSUME WireConstants ==
  /\ Octets \subseteq 0..255 /\ MaxBody \in Nat /\ MaxLabels \in Nat
  /\ Labels \subseteq Seq(0..255) /\ \A l \in Labels : Len(l) \in 1..63

VARIABLES
  wquery,     (* what reached the mock                                      *)
  reply,      (* what it answered, NoReply for nothing                      *)
  mock        (* "reading", "delaying", "answered" or "dropped"             *)

wireVars == <<wquery, reply, mock>>

NoReply == [header |-> 0, id |-> 0, qr |-> FALSE, ancount |-> 0, body |-> <<>>]
Bodies == UNION {[1..n -> Octets] : n \in 0..MaxBody}
Messages ==
  [header : {11, 12}, id : {1}, qr : {FALSE}, ancount : {0}, body : Bodies]

(* query and appendName: the labels with their lengths, the root label,     *)
(* type and class, and an OPT record when a UDP size is advertised.         *)
AppendName(labels) ==
  LET name[i \in 1..(Len(labels) + 1)] ==
        IF i > Len(labels) THEN <<0>> ELSE <<Len(labels[i])>> \o labels[i] \o name[i + 1]
  IN name[1]
Query(id, labels, qtype, opt) ==
  [header |-> 12, id |-> id, qr |-> FALSE, ancount |-> 0,
   body |-> AppendName(labels) \o <<0, qtype, 0, 1>>
              \o (IF opt THEN <<0, 0, 41, 16, 0, 0, 0, 0, 0, 0, 0>> ELSE <<>>)]
Built ==
  {Query(id, labels, qtype, opt) :
     id \in {1, 2}, labels \in UNION {[1..n -> Labels] : n \in 0..MaxLabels},
     qtype \in {1, 28}, opt \in BOOLEAN}

WireInit ==
  /\ wquery \in {m \in Messages : m.header = 12 \/ m.body = <<>>} \cup Built
  /\ reply = NoReply /\ mock = "reading"

Bad == 0

(* The name in body from offset off: the offset after its root label, or    *)
(* Bad.  Question checks each label against the message.                    *)
NameEnd(body) ==
  LET end[off \in 1..(Len(body) + 64)] ==
        IF off > Len(body) THEN Bad
        ELSE IF body[off] = 0 THEN off + 1
        ELSE IF body[off] >= 64 THEN Bad
        ELSE IF off + body[off] > Len(body) THEN Bad
        ELSE end[off + 1 + body[off]]
  IN end[1]

(* Question: the name, here the octets before its root label, and the type. *)
Question(m) ==
  IF m.header < 12 THEN [ok |-> FALSE, qtype |-> 0]
  ELSE LET off == NameEnd(m.body)
       IN IF off = Bad \/ off + 3 > Len(m.body) THEN [ok |-> FALSE, qtype |-> 0]
          ELSE [ok |-> TRUE, qtype |-> 256 * m.body[off] + m.body[off + 1]]

QuestionEndShort(m) ==
  IF m.header < 12 THEN Bad
  ELSE LET end[off \in 1..(Len(m.body) + 64)] ==
             IF off > Len(m.body) THEN Bad
             ELSE IF m.body[off] = 0 THEN off + 1
             ELSE IF m.body[off] >= 64 THEN Bad
             ELSE end[off + 1 + m.body[off]]
           after == end[1]
       IN IF after = Bad \/ after + 1 > Len(m.body) THEN Bad ELSE after + 1

(* questionEnd: the offset of the question's last octet, or Bad.  A label   *)
(* that runs past the message is met at the next length octet.              *)
QuestionEnd(m) ==
  IF m.header < 12 THEN Bad
  ELSE LET end[off \in 1..(Len(m.body) + 64)] ==
             IF off > Len(m.body) THEN Bad
             ELSE IF m.body[off] = 0 THEN off + 1
             ELSE IF m.body[off] >= 64 THEN Bad
             ELSE end[off + 1 + m.body[off]]
           after == end[1]
       IN IF after = Bad \/ after + 3 > Len(m.body) THEN Bad ELSE after + 3

(* AnswerA and AnswerEmpty: the query up to the end of its question, with   *)
(* the counts set for it, and one A record or none.                         *)
RecordA == <<192, 12, 0, 1, 0, 1, 0, 0, 1, 44, 0, 4, 93, 184, 216, 34>>
AnswerTo(m, records) ==
  LET end == QuestionEnd(m)
  IN IF end = Bad THEN NoReply
     ELSE [header |-> 12, id |-> m.id, qr |-> TRUE, ancount |-> records,
           body |-> SubSeq(m.body, 1, end) \o (IF records = 1 THEN RecordA ELSE <<>>)]

(* ParseReply, as far as the harness looks: a whole header with QR set.     *)
ParseReply(m) == [ok |-> m.header = 12 /\ m.qr, id |-> m.id, ancount |-> m.ancount]

(* answer: serveUDP runs it in a goroutine for each query, serveTCP in the  *)
(* connection's own.  It answers after the delay; a query it cannot read is *)
(* dropped, over TCP with its connection.                                   *)
Receive ==
  /\ mock = "reading"
  /\ mock' = IF Question(wquery).ok THEN "delaying" ELSE "dropped"
  /\ UNCHANGED <<wquery, reply>>

SendReply ==
  /\ mock = "delaying"
  /\ reply' = AnswerTo(wquery, IF Question(wquery).qtype = 1 THEN 1 ELSE 0)
  /\ mock' = IF reply' = NoReply THEN "dropped" ELSE "answered"
  /\ UNCHANGED wquery

WireNext == Receive \/ SendReply

WireSpec == WireInit /\ [][WireNext]_wireVars

-----------------------------------------------------------------------------
(* dnswire walks a question in two places that check it differently:        *)
(* whatever the octets, the two agree on which messages hold one, so the    *)
(* mock answers every question it has read and every query the generator    *)
(* builds, and its answer is one the generator takes for that query and     *)
(* holds the question and nothing else of the query.                        *)
WalksAgree ==
  /\ Question(wquery).ok <=> QuestionEnd(wquery) # Bad
  /\ mock = "dropped" => wquery \notin Built
  /\ mock = "answered" =>
       /\ ParseReply(reply).ok /\ ParseReply(reply).id = wquery.id
       /\ QuestionEnd(reply) = QuestionEnd(wquery)
       /\ Question(reply) = Question(wquery)
       /\ Len(reply.body) = QuestionEnd(wquery) + 16 * reply.ancount
=============================================================================
