------------------------------ MODULE Calendar ------------------------------
(***************************************************************************)
(* Reporting dates: what a filter selects, what it is compared with and    *)
(* which snapshots its figures are taken from (internal/domain/filter.go,  *)
(* internal/service/dwh/dashboard.go and the demo service's own copy).     *)
(*                                                                         *)
(* A date is a record; Go's time package is modelled as far as it is used: *)
(* months and days outside their range carry over.                         *)
(***************************************************************************)
EXTENDS Integers, FiniteSets

Modes == {"daily", "monthly", "yearly"}

-----------------------------------------------------------------------------
(* Go's time. *)

Leap(y) == y % 4 = 0 /\ (y % 100 # 0 \/ y % 400 = 0)

DaysIn(y, m) ==
  CASE m = 2            -> IF Leap(y) THEN 29 ELSE 28
    [] m \in {4, 6, 9, 11} -> 30
    [] OTHER            -> 31

\* The first of a month; months outside 1..12 belong to other years.
FirstOf(y, m) == [y |-> y + ((m - 1) \div 12), m |-> ((m - 1) % 12) + 1, d |-> 1]
Length(first) == DaysIn(first.y, first.m)

\* time.Date, for days at most a month outside the month.
Date(y, m, d) ==
  LET this == FirstOf(y, m) IN
    CASE d < 1 ->
           LET before == FirstOf(y, m - 1)
           IN [before EXCEPT !.d = d + Length(before)]
      [] d > Length(this) -> [FirstOf(y, m + 1) EXCEPT !.d = d - Length(this)]
      [] OTHER -> [this EXCEPT !.d = d]

AddDate(date, y, m, d) == Date(date.y + y, date.m + m, date.d + d)

Before(a, b) ==
  \/ a.y < b.y
  \/ a.y = b.y /\ a.m < b.m
  \/ a.y = b.y /\ a.m = b.m /\ a.d < b.d

IsDate(date) ==
  date \in [y : Int, m : 1..12, d : 1..31] /\ date.d <= DaysIn(date.y, date.m)

MonthEnd(date) == Date(date.y, date.m + 1, 0)

-----------------------------------------------------------------------------
(* Filters. *)

Filter(mode, date) == [mode |-> mode, date |-> date]

\* The period is the text of `in` in the layout of the mode.
SamePeriod(mode, in, date) ==
  \/ mode = "monthly" /\ in.y = date.y /\ in.m = date.m
  \/ mode = "yearly" /\ in.y = date.y

\* Mutant of ParseFilterAt: every open period ends on the latest date.
ParseFilterCapped(mode, in, latest) ==
  LET end == CASE mode = "daily"   -> in
               [] mode = "monthly" -> AddDate(FirstOf(in.y, in.m), 0, 1, -1)
               [] mode = "yearly"  -> Date(in.y, 12, 31)
  IN Filter(mode, IF Before(latest, end) THEN latest ELSE end)

\* The period's last day, or the latest date when it is that date's period.
ParseFilterAt(mode, in, latest) ==
  LET end == CASE mode = "daily"   -> in
               [] mode = "monthly" -> AddDate(FirstOf(in.y, in.m), 0, 1, -1)
               [] mode = "yearly"  -> Date(in.y, 12, 31)
  IN Filter(mode, IF Before(latest, end) /\ SamePeriod(mode, in, latest)
                  THEN latest ELSE end)

PreviousMonth(date) ==
  LET end == Date(date.y, date.m, 0) IN
    IF Before(date, MonthEnd(date)) /\ date.d < end.d
    THEN Date(end.y, end.m, date.d) ELSE end

Previous(f) ==
  [f EXCEPT !.date = CASE f.mode = "daily"   -> AddDate(@, 0, 0, -1)
                       [] f.mode = "monthly" -> PreviousMonth(@)
                       [] f.mode = "yearly"  -> AddDate(@, -1, 0, 0)]

PeriodStart(f) ==
  CASE f.mode = "daily"   -> f.date
    [] f.mode = "monthly" -> FirstOf(f.date.y, f.date.m)
    [] OTHER              -> Date(f.date.y, 1, 1)

\* Mutant of ShiftMonths: AddDate, which carries the 31st over.
AddMonths(date, n) == AddDate(date, 0, n, 0)

\* The same day of another month, its last day when there is no such day or the
\* month of `date` is complete.
ShiftMonths(date, n) ==
  LET first == FirstOf(date.y, date.m + n)
      end == AddDate(first, 0, 1, -1)
  IN Date(first.y, first.m,
          IF date.d = MonthEnd(date).d \/ date.d > end.d THEN end.d ELSE date.d)

Shift(f, n) ==
  [f EXCEPT !.date = CASE f.mode = "daily"   -> AddDate(@, 0, 0, n)
                       [] f.mode = "monthly" -> ShiftMonths(@, n)
                       [] f.mode = "yearly"  -> AddDate(@, n, 0, 0)]

\* The twelve points of a chart, the last one the filter itself.
Points(f) == [i \in 1..12 |-> Shift(f, i - 12)]

\* The filters whose figures a page needs; snapshots are looked up by their dates.
ReportFilters(f) == {Points(f)[i] : i \in 1..12} \cup {Previous(f)}

\* Mutant of NimDate: months counted from zero.
NimDateEarlier(date, month) == Date(date.y, month - 1, date.d)

\* The balance sheet of a month that NIM averages: the same day, carried over.
NimDate(date, month) == Date(date.y, month, date.d)

-----------------------------------------------------------------------------
(* What the dates promise, for a filter. *)

\* A filter is in the period asked for, and the links of its page (filterQuery)
\* open it again.
OpensAgain(mode, in, latest) ==
  LET f == ParseFilterAt(mode, in, latest) IN
    /\ mode # "daily" => SamePeriod(mode, in, f.date)
    /\ ParseFilterAt(mode, f.date, latest) = f

\* The comparison period (domain.Previous) is the chart's last but one point
\* (shift of the DWH service), so a page needs twelve snapshots, not thirteen:
\* the figure compared with and the bar before the last one are the same.
PreviousIsPoint(f) ==
  Previous(f) = Points(f)[11] /\ Cardinality(ReportFilters(f)) = 12

\* The periods of two points share no day: no booking is in two bars.
PeriodsApart(f) ==
  \A i \in 2..12 : /\ Before(Points(f)[i - 1].date, PeriodStart(Points(f)[i]))
                   /\ ~Before(Points(f)[i].date, PeriodStart(Points(f)[i]))

\* A whole month is compared with whole months, an open one up to the same day or
\* the end of a shorter month.
LikeCutoff(f) ==
  f.mode = "monthly" =>
    \A i \in 1..12 : LET p == Points(f)[i].date IN
      IF f.date = MonthEnd(f.date) THEN p = MonthEnd(p)
      ELSE p.d = f.date.d \/ (p.d < f.date.d /\ p = MonthEnd(p))

\* The balance sheets that NIM adds up are one for each month of the year so far,
\* all different, none after the date, the last one the date's own.
NimSamplesApart(f) ==
  LET date == f.date IN
    /\ NimDate(date, date.m) = date
    /\ \A m \in 1..date.m : NimDate(date, m).y = date.y
    /\ \A m \in 2..date.m : Before(NimDate(date, m - 1), NimDate(date, m))

=============================================================================
