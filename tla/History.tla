-------------------------------- MODULE History --------------------------------
(***************************************************************************)
(* Historical data: which spans of time EcoFlow is asked for, and what is  *)
(* made of its answers.  Two callers ask: a run of a collector, for the    *)
(* past day or week (internal/server/service/collector.go), and the        *)
(* command `ecoflow hs` (internal/terminal/commands.go) through the        *)
(* server's handler, for the time between two arguments, cut into days or  *)
(* weeks by tm.TimeRanges.                                                 *)
(*                                                                         *)
(* Time is in seconds, counted from a Sunday, midnight.  A span includes   *)
(* its first and its last second.  Days of 23 or 25 hours are left out.    *)
(* EcoFlow is external: it answers with attributes in any order, some of   *)
(* them without a value, or fails.                                         *)
(***************************************************************************)
EXTENDS Integers, Sequences, SequencesExt, FiniteSets

CONSTANTS Day,         \* seconds of a day
          Horizon,     \* bound: the last second
          MaxRanges,   \* bound: ranges a command asks for
          Attributes   \* attributes EcoFlow knows, numbered as their names sort

ASSUME HistoryAssumption ==
  /\ Day \in Nat \ {0} /\ Horizon \in Nat /\ MaxRanges \in Nat
  /\ Attributes \subseteq Nat /\ IsFiniteSet(Attributes)

VARIABLES
  caller,   \* the arguments of the command, or the run of the collector
  todo,     \* the ranges it has yet to ask for
  asked,    \* the spans EcoFlow was asked for, each with the attributes of its answer
  header,   \* what a command prints: the attributes above the columns,
  rows,     \* and lines of attributes, each with its span; a run's samples
  status    \* "runs", "ok" (exit 0), "failed" (exit 1) or "panic"

vars == <<caller, todo, asked, header, rows, status>>

-----------------------------------------------------------------------------
(* Spans of time *)

Week == 7 * Day
Least(a, b) == IF a <= b THEN a ELSE b

Span(s, e) == [start |-> s, end |-> e]
Seconds(span) == span.start .. span.end

(* Faulty variant of NextStart: a range may end after the end. *)
NextStartUncapped(current, end, skip) == current + skip

(* Where the range that starts at current is followed by the next one. *)
NextStart(current, end, skip) == Least(current + skip, end)

(* Faulty variant of TimeRanges: no offset is added. *)
TimeRangesTouching(start, end, skip, offset) ==
  LET from[current \in Nat] ==
        IF current >= end THEN <<>>
        ELSE LET next == NextStart(current, end, skip)
             IN <<Span(current, next)>> \o from[next]
  IN from[start]

(* tm.TimeRanges without a trailing range, as its only caller uses it. *)
TimeRanges(start, end, skip, offset) ==
  LET from[current \in Nat] ==
        IF current >= end THEN <<>>
        ELSE LET next == NextStart(current, end, skip)
             IN <<Span(current, next + offset)>> \o from[next]
  IN from[start]

(* The collector: days are counted from the Sunday of second 0. *)
DayOf(t) == t \div Day
Days(d, e) == Span(d * Day, e * Day + Day - 1)

(* Faulty variant of Weekday: Sunday is the first day of the week. *)
WeekdayFromSunday(d) == d % 7

(* Sunday is the seventh day. *)
Weekday(d) == IF d % 7 = 0 THEN 7 ELSE d % 7

Yesterday(t) == Days(DayOf(t) - 1, DayOf(t) - 1)

LastWeek(t) ==
  LET monday == DayOf(t) - Weekday(DayOf(t)) + 1 - 7 IN Days(monday, monday + 6)

-----------------------------------------------------------------------------
(* The callers *)

(* With an interval the time is cut; the error for a begin that is not      *)
(* before the end is ignored, and there is no range.  Without an interval   *)
(* the time is asked for as it is.  A collector asks once.                  *)
Ranges(c) ==
  CASE c.interval = "none"      -> <<Span(c.begin, c.end)>>
    [] c.interval = "daily"     -> TimeRanges(c.begin, c.end, Day, -1)
    [] c.interval = "weekly"    -> TimeRanges(c.begin, c.end, Week, -1)
    [] c.interval = "yesterday" -> <<Yesterday(c.end)>>
    [] c.interval = "last week" -> <<LastWeek(c.end)>>

Commands ==
  {c \in [begin : 0..Horizon, end : 0..Horizon, interval : {"none", "daily", "weekly"},
          rowWise : BOOLEAN] : Len(Ranges(c)) <= MaxRanges}

(* The runs of collectors, which end at the second they run. *)
Runs ==
  [begin : {0}, end : 2 * Week .. Horizon, interval : {"yesterday", "last week"},
   rowWise : {FALSE}]

IsCommand == caller \in Commands

(* EcoFlow's answers: attributes in some order, and those without a value. *)
Answers == [listed : SetToAllKPermutations(Attributes), valueless : SUBSET Attributes]

(* Faulty variant of GetHistory: attributes without a value are passed on. *)
GetHistoryAll(answer) == answer.listed

(* GetHistory: attributes without a value are left out. *)
GetHistory(answer) ==
  LET kept[i \in 0..Len(answer.listed)] ==
        IF i = 0 THEN <<>>
        ELSE IF answer.listed[i] \in answer.valueless THEN kept[i - 1]
        ELSE Append(kept[i - 1], answer.listed[i])
  IN kept[Len(answer.listed)]

(* Faulty variant of Columns: as they come. *)
ColumnsAsListed(data) == data

(* Row by row, the attributes are sorted by name. *)
Sorted(S) == CHOOSE q \in [1..Cardinality(S) -> S] : \A i, j \in DOMAIN q : i < j => q[i] < q[j]
Columns(data) == Sorted(ToSet(data))

(* The header and the lines for an answer; a run exports a sample for each  *)
(* attribute, labelled with the span.                                       *)
Header(data) == IF caller.rowWise THEN Columns(data) ELSE <<>>

Lines(span, data) ==
  IF caller.rowWise THEN <<[span |-> span, cells |-> Columns(data)]>>
  ELSE [i \in DOMAIN data |-> [span |-> span, cells |-> <<data[i]>>]]

TypeOK ==
  /\ caller \in Commands \cup Runs
  /\ \A i \in DOMAIN todo : todo[i].start \in 0..Horizon /\ todo[i].end \in 0..Horizon
  /\ \A i \in DOMAIN asked : asked[i].attributes \subseteq Attributes
  /\ header \in Seq(Attributes)
  /\ \A i \in DOMAIN rows : rows[i].cells \in Seq(Attributes)
  /\ status \in {"runs", "ok", "failed", "panic"}

Init ==
  /\ caller \in Commands \cup Runs
  /\ todo = Ranges(caller)
  /\ asked = <<>>
  /\ header = <<>>
  /\ rows = <<>>
  /\ status = "runs"

(* One range: the request, the handler, EcoFlow's answer, and the lines.    *)
(* Printing a value that is not there is fatal; a run skips it.             *)
Ask(answer) ==
  LET data == GetHistory(answer) IN
  /\ status = "runs" /\ todo # <<>>
  /\ todo' = Tail(todo)
  /\ asked' = Append(asked, [span |-> Head(todo), attributes |-> ToSet(data)])
  /\ IF IsCommand /\ ToSet(data) \cap answer.valueless # {}
       THEN status' = "panic" /\ UNCHANGED <<header, rows>>
       ELSE /\ header' = Header(data)
            /\ rows' = rows \o Lines(Head(todo), data)
            /\ UNCHANGED status
  /\ UNCHANGED caller

(* The server cannot be reached, or EcoFlow fails: nothing is printed, and  *)
(* nothing exported.                                                        *)
AskFails ==
  /\ status = "runs" /\ todo # <<>>
  /\ status' = "failed"
  /\ header' = <<>> /\ rows' = <<>>
  /\ UNCHANGED <<caller, todo, asked>>

(* All ranges are answered: the table is printed, or the run is over. *)
Finish ==
  /\ status = "runs" /\ todo = <<>>
  /\ status' = "ok"
  /\ UNCHANGED <<caller, todo, asked, header, rows>>

Next == (\E answer \in Answers : Ask(answer)) \/ AskFails \/ Finish

Spec == Init /\ [][Next]_vars

-----------------------------------------------------------------------------
(* Properties *)

(* The usage of `--interval` (internal/terminal/commands.go:215): "Splits   *)
(* begin to end time range into individual distinct sub time ranges with a  *)
(* given interval step size".  When the command succeeds, EcoFlow was asked *)
(* for every second from begin to before end once, in order, and for none   *)
(* outside, whatever is left for the last range (tm/time.go:16-43).         *)
EverySecondOnce ==
  status = "ok" /\ caller.interval \in {"daily", "weekly"} =>
    /\ \A s \in 0..Horizon :
         Cardinality({i \in DOMAIN asked : s \in Seconds(asked[i].span)})
           = IF s \in caller.begin .. caller.end - 1 THEN 1 ELSE 0
    /\ \A i \in DOMAIN asked : i > 1 => asked[i].span.start > asked[i - 1].span.start

(* The usage of `--bt` and `--et` (commands.go:187, 193): EcoFlow answers   *)
(* for at most a week.  A range that is cut is never longer and never ends  *)
(* before it starts, although nothing checks the offset against the last,   *)
(* short range (tm/time.go:33).                                             *)
RangesAreAnswerable ==
  caller.interval # "none" =>
    \A i \in DOMAIN todo : Cardinality(Seconds(todo[i])) \in 1..Week

(* Row by row, the header is that of the last answer (commands.go:694): it  *)
(* names the columns of every line as long as EcoFlow answers all ranges    *)
(* with the same attributes, in whatever order.                             *)
RowsUnderHeader ==
  status = "ok" /\ caller.rowWise /\ (\A i, j \in DOMAIN asked :
                                     asked[i].attributes = asked[j].attributes)
    => \A i \in DOMAIN rows : rows[i].cells = header

(* No answer of EcoFlow stops the command (commands.go:731, 746 print       *)
(* *v.IndexValue, ecoflow_http.go:136 leaves out the ones that are nil).    *)
NeverPanics == status # "panic"

(* The usage of `--step` (commands.go:205): a collector queries "full PAST  *)
(* period (last week starting from Monday to Sunday or yesterday)".  At     *)
(* whatever second it runs, that is the last whole day, or the last week    *)
(* from Monday to Sunday, that is over (collector.go:316-333).              *)
PastIsLastWhole ==
  \A i \in DOMAIN asked :
    LET span == asked[i].span
        whole(length, first) ==
          /\ span.start % length = first /\ span.end = span.start + length - 1
          /\ caller.end - span.end \in 1..length
    IN /\ caller.interval = "yesterday" => whole(Day, 0)
       /\ caller.interval = "last week" => whole(Week, Day)
=============================================================================
