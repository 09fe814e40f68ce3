------------------------------- MODULE Series -------------------------------
(* The series of an arm that is read while it runs, and what the report     *)
(* says of it: bench/cmd/rrlexp/soak.go and the upstream-fail tables of     *)
(* arms_upstream.go.  Any reading of the server may fail; the clients' own  *)
(* counts in it do not.  Times are tenths of a second.                      *)
EXTENDS Naturals, Integers, Sequences

CONSTANTS
  Ticks,      (* bound: readings after the first                            *)
  DownAt, UpAt  (* ticks at which the upstream goes and comes back          *)

ASSUME OutageTimes == DownAt \in Nat /\ UpAt \in Nat /\ DownAt <= UpAt

VARIABLES
  series,     (* row.samples                                                *)
  early       (* how early this arm's ticker fires                          *)

seriesVars == <<series, early>>

Slack == 2
Second(i) == 10 * i
(* A window's misses: none offered but a late answer, one lost, one         *)
(* answered.                                                                *)
Windows == {<<0, 1>>, <<1, 0>>, <<1, 1>>}

(* The server's query counter: one at the start from the warm-up, then      *)
(* three a tick.                                                            *)
Counter(i) == 1 + 3 * i

(* takeSample: the clients first, then the scrape, of which a miss leaves   *)
(* an empty map that reads as zeros.                                        *)
TakeSample(i, at, ok, up, offered, full) ==
  [at |-> at, ok |-> ok, srv |-> IF ok THEN Counter(i) ELSE 0, up |-> ok /\ up,
   offered |-> offered, full |-> full]

(* startSoakSampler: the baseline, before the window opens.                 *)
SeriesInit ==
  /\ early \in {0, 1}
  /\ \E ok \in BOOLEAN : series = <<TakeSample(0, 0, ok, TRUE, 0, 0)>>

SampleTick ==
  /\ Len(series) <= Ticks
  /\ \E ok, up \in BOOLEAN : \E w \in Windows :
       /\ ~ok => up
       /\ LET last == series[Len(series)]
          IN series' = Append(series,
               TakeSample(Len(series), Second(Len(series)) - early, ok, up,
                          last.offered + w[1], last.full + w[2]))
  /\ UNCHANGED early

SeriesSpec == SeriesInit /\ [][SampleTick]_seriesVars

-----------------------------------------------------------------------------
(* The report.                                                              *)
Indices == 1..Len(series)
Good == {i \in Indices : series[i].ok}
FirstOf(S) == CHOOSE i \in S : \A j \in S : i <= j
LastOf(S) == CHOOSE i \in S : \A j \in S : j <= i

(* goodSample, 0 when the server never answered.                            *)
GoodSample(last) == IF Good = {} THEN 0 ELSE IF last THEN LastOf(Good) ELSE FirstOf(Good)

SampleAt(t) ==
  LET after == {i \in Good : series[i].at >= t - Slack}
  IN IF after = {} THEN GoodSample(TRUE) ELSE FirstOf(after)

(* prev in soakTable, failSeries and recovered: the reading a row is a      *)
(* difference from.  A missed scrape does not become one, but the first     *)
(* reading is one even when it was missed.                                  *)
Prev ==
  LET prev[i \in Indices] ==
        IF i <= 2 THEN 1 ELSE IF series[i - 1].ok THEN i - 1 ELSE prev[i - 1]
  IN prev

(* soakRow and failSeries: the queries of the window before reading i.      *)
RowDelta(i) == series[i].srv - series[Prev[i]].srv

(* failSummary: what was offered and answered between the outage's ends.    *)
During ==
  LET from == SampleAt(Second(DownAt))
      to == SampleAt(Second(UpAt))
  IN [from |-> from, to |-> to,
      offered |-> series[to].offered - series[from].offered,
      full |-> series[to].full - series[from].full]

Offered(i) == series[i].offered - series[Prev[i]].offered
Full(i) == series[i].full - series[Prev[i]].full
Healthy(i) == 20 * Full(i) >= 19 * Offered(i)

RecoveredKept ==
  LET loop[i \in Indices] ==
        IF i = 1 THEN [at |-> 0, lost |-> FALSE]
        ELSE LET before == loop[i - 1]
                 start == series[Prev[i]].at
             IN IF ~series[i].ok \/ Offered(i) <= 0 \/ start < Second(DownAt) - Slack
                  THEN before
                ELSE IF ~Healthy(i)
                  THEN [before EXCEPT !.lost = @ \/ start < Second(UpAt) - Slack]
                ELSE [before EXCEPT !.at = IF @ = 0 THEN series[i].at ELSE @]
  IN loop[Len(series)]

(* recovered's loop: at is the end of the window the misses came back in,   *)
(* 0 for none, and lost whether they were ever gone during the outage.      *)
RecoveredLoop ==
  LET loop[i \in Indices] ==
        IF i = 1 THEN [at |-> 0, lost |-> FALSE]
        ELSE LET before == loop[i - 1]
                 start == series[Prev[i]].at
             IN IF ~series[i].ok \/ Offered(i) <= 0 \/ start < Second(DownAt) - Slack
                  THEN before
                ELSE IF ~Healthy(i)
                  THEN [at |-> 0, lost |-> before.lost \/ start < Second(UpAt) - Slack]
                ELSE [before EXCEPT !.at = IF @ = 0 THEN series[i].at ELSE @]
  IN loop
Recovered == RecoveredLoop[Len(series)]

(* parked's loop: when the gauge fell to 0 and when it was back at 1.       *)
ParkedLoop ==
  LET loop[i \in Indices] ==
        LET before == IF i = 1 THEN [down |-> 0, up |-> 0] ELSE loop[i - 1]
            s == series[i]
        IN IF ~s.ok THEN before
           ELSE IF ~s.up /\ before.down = 0 THEN [before EXCEPT !.down = s.at]
           ELSE IF s.up /\ before.down # 0 /\ before.up = 0 THEN [before EXCEPT !.up = s.at]
           ELSE before
  IN loop
Parked == ParkedLoop[Len(series)]

-----------------------------------------------------------------------------
Rows == {i \in Good : i > 1}

(* soakTable and failSeries: each row's window starts at the last reading   *)
(* the server answered, so the windows of a table join up and every query   *)
(* is in exactly one, however many readings were missed between - provided  *)
(* the first reading was answered.                                          *)
WindowsJoin ==
  (Len(series) > 1 /\ series[1].ok) =>
    \A i \in Rows :
      /\ Prev[i] = LastOf({j \in Good : j < i})
      /\ RowDelta(i) = 3 * (i - Prev[i])

(* failSummary: the window reported as "during" starts no earlier than the  *)
(* outage when any reading of it was answered, and never runs backwards,    *)
(* whichever readings were missed, so no count in it is negative.           *)
DuringOrdered ==
  Good # {} =>
    /\ During.from <= During.to
    /\ During.offered >= 0 /\ During.full >= 0
    /\ (\E i \in Good : i > DownAt) => During.from > DownAt

Judged == {i \in Rows : Offered(i) > 0 /\ series[Prev[i]].at >= Second(DownAt) - Slack}
Recoveries == {i \in Judged : \A j \in Judged : j >= i => Healthy(j)}

Downs == {i \in Good : ~series[i].up}
Ups == {i \in Good : series[i].up /\ \E j \in Downs : j < i}
TimeOf(S) == IF S = {} THEN 0 ELSE series[FirstOf(S)].at

(* recovered and parked, against what their comments promise: the end of    *)
(* the first window from which every window to the end answered 95%, and    *)
(* the first reading at 0 with the first at 1 after it.                     *)
RecoveryRight ==
  /\ Recovered.at = TimeOf(Recoveries)
  /\ Recovered.lost <=> \E i \in Judged : /\ ~Healthy(i)
                                          /\ series[Prev[i]].at < Second(UpAt) - Slack
  /\ Parked = [down |-> TimeOf(Downs), up |-> TimeOf(Ups)]

(* No query is lost between two rows of a series, the outage's window is    *)
(* the outage's, and the recovery is the one there was.                     *)
SeriesRight == WindowsJoin /\ DuringOrdered /\ RecoveryRight

(* soakTable as its comment has it: "A missed scrape is not a baseline."     *)
(* The first reading is one, missed or not.                                  *)
MissedIsNoBaseline == \A i \in Rows : series[Prev[i]].ok
=============================================================================
