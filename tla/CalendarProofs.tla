--------------------------- MODULE CalendarProofs ---------------------------
(***************************************************************************)
(* Proofs about the reporting dates, for every date and mode, and about    *)
(* the NIM of a card, for every content of the cache and of the sources.   *)
(***************************************************************************)
EXTENDS Performance, TLAPS, FiniteSetTheorems

-----------------------------------------------------------------------------
(* Months and days. *)

\* A month has 28 to 31 days.
LEMMA DaysInBounds ==
  ASSUME NEW y \in Int, NEW m \in 1..12
  PROVE  DaysIn(y, m) \in 28..31 /\ (m \in {1, 12} => DaysIn(y, m) = 31)
  BY DEF DaysIn

\* The first of a month, counted from the year 0.
LEMMA FirstOfMonth ==
  ASSUME NEW y \in Int, NEW m \in Int
  PROVE  LET f == FirstOf(y, m) IN
           /\ IsDate(f) /\ f.d = 1
           /\ 12 * f.y + f.m = 12 * y + m
           /\ m \in 1..12 => f = [y |-> y, m |-> m, d |-> 1]
<1> DEFINE f == FirstOf(y, m)
<1>1. f.y \in Int /\ f.m \in 1..12 /\ f.d = 1 /\ f \in [y : Int, m : 1..12, d : 1..31]
  BY DEF FirstOf
<1>2. IsDate(f)
  BY <1>1, DaysInBounds DEF IsDate
<1> QED BY <1>1, <1>2 DEF FirstOf

\* Months are told apart by their number since the year 0.
LEMMA SameMonth ==
  ASSUME NEW y \in Int, NEW m \in 1..12, NEW z \in Int, NEW n \in 1..12,
         12 * y + m = 12 * z + n
  PROVE  y = z /\ m = n
  OBVIOUS

\* A month with a greater number is later.
LEMMA LaterMonth ==
  ASSUME NEW y \in Int, NEW m \in 1..12, NEW z \in Int, NEW n \in 1..12,
         12 * y + m < 12 * z + n
  PROVE  y < z \/ (y = z /\ m < n)
  OBVIOUS

\* A date is its three fields.
LEMMA SameDate ==
  ASSUME NEW a, IsDate(a), NEW b, IsDate(b), a.y = b.y, a.m = b.m, a.d = b.d
  PROVE  a = b
  BY DEF IsDate

\* The length of a month outside 1..12 is that of the month it stands for.
LEMMA MonthLength ==
  ASSUME NEW y \in Int, NEW m \in Int
  PROVE  /\ Length(FirstOf(y, m)) \in 28..31
         /\ Length(FirstOf(y, m)) = DaysIn(FirstOf(y, m).y, FirstOf(y, m).m)
<1>1. FirstOf(y, m).y \in Int /\ FirstOf(y, m).m \in 1..12
  BY FirstOfMonth DEF IsDate
<1> QED BY <1>1, DaysInBounds DEF Length

\* A day of a month.
LEMMA DayOfMonth ==
  ASSUME NEW y \in Int, NEW m \in Int, NEW d \in 1..Length(FirstOf(y, m))
  PROVE  LET date == [FirstOf(y, m) EXCEPT !.d = d] IN
           /\ IsDate(date)
           /\ date.y = FirstOf(y, m).y /\ date.m = FirstOf(y, m).m /\ date.d = d
<1> DEFINE first == FirstOf(y, m)
<1>1. Length(first) = DaysIn(first.y, first.m) /\ Length(first) \in 28..31
  BY MonthLength
<1>2. IsDate(first)
  BY FirstOfMonth
<1> HIDE DEF first
<1>3. d \in 1..Length(first)
  BY DEF first
<1> QED BY <1>1, <1>2, <1>3 DEF IsDate, first

\* time.Date: a day that the month has, one of the month before, one of the month after.
LEMMA DateWithin ==
  ASSUME NEW y \in Int, NEW m \in Int, NEW d \in 1..Length(FirstOf(y, m))
  PROVE  LET date == Date(y, m, d) IN
           /\ IsDate(date)
           /\ date.y = FirstOf(y, m).y /\ date.m = FirstOf(y, m).m /\ date.d = d
<1>1. Length(FirstOf(y, m)) \in 28..31
  BY MonthLength
<1>2. Date(y, m, d) = [FirstOf(y, m) EXCEPT !.d = d]
  BY <1>1 DEF Date
<1> QED BY <1>2, DayOfMonth

\* A day before the first carries over to the month before.
LEMMA DateEarlier ==
  ASSUME NEW y \in Int, NEW m \in Int, NEW d \in Int, d < 1, d + 28 > 0
  PROVE  LET f == FirstOf(y, m - 1)
             date == Date(y, m, d)
         IN IsDate(date) /\ date.y = f.y /\ date.m = f.m /\ date.d = d + Length(f)
<1> DEFINE e == d + Length(FirstOf(y, m - 1))
<1>1. Length(FirstOf(y, m - 1)) \in 28..31 /\ Length(FirstOf(y, m)) \in 28..31
  BY MonthLength
<1>2. Date(y, m, d) = [FirstOf(y, m - 1) EXCEPT !.d = e]
  BY <1>1 DEF Date
<1>3. e \in 1..Length(FirstOf(y, m - 1))
  BY <1>1
<1> HIDE DEF e
<1>4. LET date == [FirstOf(y, m - 1) EXCEPT !.d = e] IN
        /\ IsDate(date)
        /\ date.y = FirstOf(y, m - 1).y /\ date.m = FirstOf(y, m - 1).m /\ date.d = e
  BY <1>3, DayOfMonth
<1> QED BY <1>2, <1>4 DEF e

\* A day after the last carries over to the next month.
LEMMA DateLater ==
  ASSUME NEW y \in Int, NEW m \in Int, NEW d \in Int,
         d > Length(FirstOf(y, m)), d <= 56
  PROVE  LET f == FirstOf(y, m + 1)
             date == Date(y, m, d)
         IN /\ IsDate(date)
            /\ date.y = f.y /\ date.m = f.m /\ date.d = d - Length(FirstOf(y, m))
<1> DEFINE e == d - Length(FirstOf(y, m))
<1>1. Length(FirstOf(y, m + 1)) \in 28..31 /\ Length(FirstOf(y, m)) \in 28..31
  BY MonthLength
<1>2. Date(y, m, d) = [FirstOf(y, m + 1) EXCEPT !.d = e]
  BY <1>1 DEF Date
<1>3. e \in 1..Length(FirstOf(y, m + 1))
  BY <1>1
<1> HIDE DEF e
<1>4. LET date == [FirstOf(y, m + 1) EXCEPT !.d = e] IN
        /\ IsDate(date)
        /\ date.y = FirstOf(y, m + 1).y /\ date.m = FirstOf(y, m + 1).m /\ date.d = e
  BY <1>3, DayOfMonth
<1> QED BY <1>2, <1>4 DEF e

\* Every day at most a month outside a month is a date.
LEMMA DateIsDate ==
  ASSUME NEW y \in Int, NEW m \in Int, NEW d \in Int, d + 28 > 0, d <= 56
  PROVE  IsDate(Date(y, m, d))
<1>1. Length(FirstOf(y, m)) \in 28..31
  BY MonthLength
<1>2. CASE d < 1
  BY <1>2, DateEarlier
<1>3. CASE d \in 1..Length(FirstOf(y, m))
  BY <1>3, DateWithin
<1>4. CASE d > Length(FirstOf(y, m))
  BY <1>4, DateLater
<1> QED BY <1>1, <1>2, <1>3, <1>4

\* The last day of a month.
LEMMA EndOfMonth ==
  ASSUME NEW y \in Int, NEW m \in Int
  PROVE  LET f == FirstOf(y, m)
             end == Date(y, m + 1, 0)
         IN IsDate(end) /\ end.y = f.y /\ end.m = f.m /\ end.d = Length(f)
<1>1. m + 1 \in Int /\ (m + 1) - 1 = m /\ 0 \in Int /\ 0 < 1 /\ 0 + 28 > 0
  OBVIOUS
<1>2. 0 + Length(FirstOf(y, m)) = Length(FirstOf(y, m))
  <2>1. Length(FirstOf(y, m)) \in 28..31
    BY MonthLength
  <2> QED BY <2>1
<1>3. LET f == FirstOf(y, (m + 1) - 1)
          end == Date(y, m + 1, 0)
      IN IsDate(end) /\ end.y = f.y /\ end.m = f.m /\ end.d = 0 + Length(f)
  BY <1>1, DateEarlier
<1> QED BY <1>1, <1>2, <1>3

\* The types of the fields.
LEMMA DateFields ==
  ASSUME NEW date, IsDate(date)
  PROVE  date.y \in Int /\ date.m \in 1..12 /\ date.d \in 1..31
  BY DEF IsDate

\* A date is itself among the days of its month.
LEMMA DateOfItself ==
  ASSUME NEW date, IsDate(date)
  PROVE  /\ FirstOf(date.y, date.m).y = date.y /\ FirstOf(date.y, date.m).m = date.m
         /\ FirstOf(date.y, date.m).d = 1
         /\ Length(FirstOf(date.y, date.m)) \in 28..31
         /\ date.d <= Length(FirstOf(date.y, date.m))
         /\ Date(date.y, date.m, date.d) = date
<1>1. date.y \in Int /\ date.m \in 1..12 /\ date.d \in 1..31
  BY DateFields
<1>2. /\ FirstOf(date.y, date.m).y = date.y /\ FirstOf(date.y, date.m).m = date.m
      /\ FirstOf(date.y, date.m).d = 1
  BY <1>1 DEF FirstOf
<1>3. Length(FirstOf(date.y, date.m)) \in 28..31
  <2>1. date.y \in Int /\ date.m \in Int
    BY <1>1
  <2> QED BY <2>1, MonthLength, Zenon
<1>4. date.d <= Length(FirstOf(date.y, date.m))
  BY <1>2 DEF IsDate, Length
<1>5. Date(date.y, date.m, date.d) = date
  <2>1. date.d \in 1..Length(FirstOf(date.y, date.m))
    BY <1>1, <1>3, <1>4
  <2>2. date.y \in Int /\ date.m \in Int
    BY <1>1
  <2>3. LET f == FirstOf(date.y, date.m)
            day == Date(date.y, date.m, date.d)
        IN IsDate(day) /\ day.y = f.y /\ day.m = f.m /\ day.d = date.d
    BY <2>1, <2>2, DateWithin
  <2> QED BY <1>2, <2>3, SameDate
<1> QED BY <1>2, <1>3, <1>4, <1>5

\* The last day of the month of a date.
LEMMA MonthEndOf ==
  ASSUME NEW date, IsDate(date)
  PROVE  LET end == MonthEnd(date) IN
           /\ IsDate(end) /\ end.y = date.y /\ end.m = date.m
           /\ end.d = Length(FirstOf(date.y, date.m))
<1>1. date.y \in Int /\ date.m \in Int
  BY DateFields
<1>2. FirstOf(date.y, date.m).y = date.y /\ FirstOf(date.y, date.m).m = date.m
  BY DateOfItself
<1> QED BY <1>1, <1>2, EndOfMonth DEF MonthEnd

-----------------------------------------------------------------------------
(* The order of dates. *)

\* Dates are ordered.
LEMMA BeforeOrders ==
  ASSUME NEW a, IsDate(a), NEW b, IsDate(b)
  PROVE  ~Before(a, a) /\ (Before(a, b) => ~Before(b, a)) /\ (Before(a, b) \/ a = b \/ Before(b, a))
<1>1. a.y \in Int /\ a.m \in Int /\ a.d \in Int /\ b.y \in Int /\ b.m \in Int /\ b.d \in Int
  BY DateFields
<1>2. Before(a, b) \/ Before(b, a) \/ (a.y = b.y /\ a.m = b.m /\ a.d = b.d)
  BY <1>1 DEF Before
<1>3. ~Before(a, a) /\ (Before(a, b) => ~Before(b, a))
  BY <1>1 DEF Before
<1> QED BY <1>2, <1>3, SameDate

\* The order is transitive.
LEMMA BeforeTransitive ==
  ASSUME NEW a, IsDate(a), NEW b, IsDate(b), NEW c, IsDate(c)
  PROVE  /\ Before(a, b) /\ Before(b, c) => Before(a, c)
         /\ Before(a, b) /\ ~Before(c, b) => Before(a, c)
         /\ ~Before(b, a) /\ Before(b, c) => Before(a, c)
         /\ ~Before(b, a) /\ ~Before(c, b) => ~Before(c, a)
<1>1. /\ a.y \in Int /\ a.m \in Int /\ a.d \in Int
      /\ b.y \in Int /\ b.m \in Int /\ b.d \in Int
      /\ c.y \in Int /\ c.m \in Int /\ c.d \in Int
  BY DateFields
<1> QED BY <1>1 DEF Before

-----------------------------------------------------------------------------
(* Periods. *)

\* A filter with a date.
IsFilter(f) == f \in [mode : Modes, date : {f.date}] /\ IsDate(f.date)

\* The last day of the period of a date.
PeriodEnd(mode, in) ==
  CASE mode = "daily"   -> in
    [] mode = "monthly" -> AddDate(FirstOf(in.y, in.m), 0, 1, -1)
    [] mode = "yearly"  -> Date(in.y, 12, 31)

\* The last day of a period, before it is capped.
LEMMA PeriodEndIs ==
  ASSUME NEW mode \in Modes, NEW in, IsDate(in)
  PROVE  LET end == PeriodEnd(mode, in) IN
           /\ IsDate(end)
           /\ mode = "daily" => end = in
           /\ mode = "monthly" => end = MonthEnd(in)
           /\ mode = "yearly" => end = Date(in.y, 12, 31) /\ end.y = in.y
<1>1. in.y \in Int /\ in.m \in 1..12
  BY DateFields
<1>2. CASE mode = "daily"
  BY <1>2 DEF PeriodEnd
<1>3. CASE mode = "monthly"
  <2>1. /\ FirstOf(in.y, in.m).y = in.y /\ FirstOf(in.y, in.m).m = in.m
        /\ FirstOf(in.y, in.m).d = 1
    BY DateOfItself
  <2>2. in.y + 0 = in.y /\ 1 + -1 = 0
    BY <1>1
  <2>3. AddDate(FirstOf(in.y, in.m), 0, 1, -1) = Date(in.y, in.m + 1, 0)
    BY <2>1, <2>2 DEF AddDate
  <2> QED BY <1>3, <2>3, MonthEndOf DEF PeriodEnd, MonthEnd
<1>4. CASE mode = "yearly"
  <2>1. FirstOf(in.y, 12).y = in.y /\ FirstOf(in.y, 12).m = 12 /\ Length(FirstOf(in.y, 12)) = 31
    BY <1>1 DEF FirstOf, Length, DaysIn
  <2>2. 31 \in 1..Length(FirstOf(in.y, 12)) /\ 12 \in Int
    BY <2>1
  <2>3. LET end == Date(in.y, 12, 31) IN IsDate(end) /\ end.y = FirstOf(in.y, 12).y
    BY <1>1, <2>2, DateWithin
  <2> QED BY <1>4, <2>1, <2>3 DEF PeriodEnd
<1> QED BY <1>2, <1>3, <1>4 DEF Modes

\* What ParseFilterAt yields: the period's end, or the latest date of an open period.
LEMMA ParseFilterIs ==
  ASSUME NEW mode \in Modes, NEW in, IsDate(in), NEW latest, IsDate(latest)
  PROVE  LET f == ParseFilterAt(mode, in, latest)
             end == PeriodEnd(mode, in)
         IN /\ f = [mode |-> mode, date |-> f.date] /\ IsDate(f.date)
            /\ f.date = IF Before(latest, end) /\ SamePeriod(mode, in, latest)
                        THEN latest ELSE end
            /\ mode # "daily" => SamePeriod(mode, in, f.date)
<1> DEFINE end == PeriodEnd(mode, in)
           date == IF Before(latest, end) /\ SamePeriod(mode, in, latest) THEN latest ELSE end
<1>1. ParseFilterAt(mode, in, latest) = [mode |-> mode, date |-> date]
  BY DEF ParseFilterAt, Filter, PeriodEnd
<1>2. IsDate(date)
  BY PeriodEndIs
<1>3. ASSUME mode # "daily" PROVE SamePeriod(mode, in, end)
  <2>1. CASE mode = "monthly"
    <3>1. end = MonthEnd(in)
      BY <2>1, PeriodEndIs
    <3> QED BY <2>1, <3>1, MonthEndOf DEF SamePeriod
  <2>2. CASE mode = "yearly"
    <3>1. end.y = in.y
      BY <2>2, PeriodEndIs
    <3> QED BY <2>2, <3>1 DEF SamePeriod
  <2> QED BY <1>3, <2>1, <2>2 DEF Modes
<1> HIDE DEF end
<1> QED BY <1>1, <1>2, <1>3 DEF end

\* Every period asked for opens again: the date of its filter is in the period, and
\* opens the same filter (domain.ParseFilterAt).
LEMMA PeriodsOpen ==
  ASSUME NEW mode \in Modes, NEW in, IsDate(in), NEW latest, IsDate(latest)
  PROVE  OpensAgain(mode, in, latest)
<1> DEFINE f == ParseFilterAt(mode, in, latest)
           g == ParseFilterAt(mode, f.date, latest)
<1>1. /\ f = [mode |-> mode, date |-> f.date] /\ IsDate(f.date)
      /\ f.date = IF Before(latest, PeriodEnd(mode, in)) /\ SamePeriod(mode, in, latest)
                  THEN latest ELSE PeriodEnd(mode, in)
      /\ mode # "daily" => SamePeriod(mode, in, f.date)
  BY ParseFilterIs
<1>2. /\ g = [mode |-> mode, date |-> g.date]
      /\ g.date = IF Before(latest, PeriodEnd(mode, f.date)) /\ SamePeriod(mode, f.date, latest)
                  THEN latest ELSE PeriodEnd(mode, f.date)
  BY <1>1, ParseFilterIs
<1> HIDE DEF f, g
<1>3. PeriodEnd(mode, f.date) = IF mode = "daily" THEN f.date ELSE PeriodEnd(mode, in)
  <2>1. CASE mode = "daily"
    BY <2>1 DEF PeriodEnd
  <2>2. CASE mode = "monthly"
    <3>1. f.date.y = in.y /\ f.date.m = in.m
      BY <1>1, <2>2 DEF SamePeriod
    <3> QED BY <2>2, <3>1 DEF PeriodEnd
  <2>3. CASE mode = "yearly"
    <3>1. f.date.y = in.y
      BY <1>1, <2>3 DEF SamePeriod
    <3> QED BY <2>3, <3>1 DEF PeriodEnd
  <2> QED BY <2>1, <2>2, <2>3 DEF Modes
<1>4. SamePeriod(mode, f.date, latest) <=> SamePeriod(mode, in, latest)
  BY <1>1 DEF SamePeriod, Modes
<1>5. PeriodEnd("daily", in) = in
  BY DEF PeriodEnd
<1>6. g.date = f.date
  BY <1>1, <1>2, <1>3, <1>4, <1>5 DEF SamePeriod
<1> QED BY <1>1, <1>2, <1>6 DEF OpensAgain, f, g

-----------------------------------------------------------------------------
(* The points of a chart. *)

\* A number of days back, at most eleven.
LEMMA ShiftDays ==
  ASSUME NEW date, IsDate(date), NEW n \in Int, n <= 0, n + 11 >= 0
  PROVE  LET p == AddDate(date, 0, 0, n)
             f == FirstOf(date.y, date.m - 1)
         IN /\ IsDate(p)
            /\ date.d + n > 0 => p.y = date.y /\ p.m = date.m /\ p.d = date.d + n
            /\ date.d + n < 1 => p.y = f.y /\ p.m = f.m /\ p.d = date.d + n + Length(f)
<1> DEFINE p == AddDate(date, 0, 0, n)
           f == FirstOf(date.y, date.m - 1)
           e == date.d + n
<1>1. /\ date.y \in Int /\ date.m \in Int /\ date.d \in 1..31 /\ e \in Int
      /\ e + 28 > 0 /\ e <= 56
  BY DateFields
<1>2. p = Date(date.y, date.m, e)
  <2>1. date.y + 0 = date.y /\ date.m + 0 = date.m
    BY <1>1
  <2> QED BY <2>1 DEF AddDate
<1>3. IsDate(p)
  BY <1>1, <1>2, DateIsDate
<1>4. ASSUME e > 0 PROVE p.y = date.y /\ p.m = date.m /\ p.d = e
  <2>1. /\ FirstOf(date.y, date.m).y = date.y /\ FirstOf(date.y, date.m).m = date.m
        /\ e \in 1..Length(FirstOf(date.y, date.m))
    <3>1. /\ date.d <= Length(FirstOf(date.y, date.m))
          /\ Length(FirstOf(date.y, date.m)) \in 28..31
      BY DateOfItself
    <3>2. e \in 1..Length(FirstOf(date.y, date.m))
      BY <1>1, <1>4, <3>1
    <3> QED BY <3>2, DateOfItself
  <2> HIDE DEF e, p
  <2> QED BY <1>1, <1>2, <2>1, DateWithin
<1>5. ASSUME e < 1 PROVE p.y = f.y /\ p.m = f.m /\ p.d = e + Length(f)
  <2> HIDE DEF e, p
  <2>1. LET g == FirstOf(date.y, date.m - 1)
            day == Date(date.y, date.m, e)
        IN IsDate(day) /\ day.y = g.y /\ day.m = g.m /\ day.d = e + Length(g)
    <3>1. date.y \in Int /\ date.m \in Int /\ e \in Int /\ e < 1 /\ e + 28 > 0
      BY <1>1, <1>5
    <3> QED BY <3>1, DateEarlier, ZenonT(60)
  <2> QED BY <1>2, <2>1
<1> HIDE DEF p
<1> QED BY <1>3, <1>4, <1>5 DEF p

\* A date in another year; the 29th of February carries over.
LEMMA ShiftYears ==
  ASSUME NEW date, IsDate(date), NEW n \in Int
  PROVE  LET p == AddDate(date, n, 0, 0) IN
           /\ IsDate(p) /\ p.y = date.y + n
           /\ n = 0 => p = date
<1> DEFINE p == AddDate(date, n, 0, 0)
           f == FirstOf(date.y + n, date.m)
<1>1. /\ date.y \in Int /\ date.m \in 1..12 /\ date.m \in Int
      /\ date.d \in Int /\ date.d + 28 > 0 /\ date.d <= 56 /\ date.d \in 1..31
      /\ date.y + n \in Int
  BY DateFields
<1>2. p = Date(date.y + n, date.m, date.d)
  <2>1. date.m + 0 = date.m /\ date.d + 0 = date.d
    BY <1>1
  <2> QED BY <2>1 DEF AddDate
<1>3. IsDate(p)
  <2>1. IsDate(Date(date.y + n, date.m, date.d))
    BY <1>1, DateIsDate
  <2> QED BY <1>2, <2>1
<1>4. f.y = date.y + n /\ f.m = date.m /\ Length(f) = DaysIn(date.y + n, date.m)
  BY <1>1 DEF FirstOf, Length
<1>5. p.y = date.y + n
  <2>1. CASE date.d \in 1..Length(f)
    <3> HIDE DEF p
    <3> QED BY <1>1, <1>2, <1>4, <2>1, DateWithin
  <2>2. CASE date.d > Length(f)
    <3>1. date.m # 12
      BY <1>1, <1>4, <2>2, DaysInBounds
    <3>2. FirstOf(date.y + n, date.m + 1).y = date.y + n
      BY <1>1, <3>1 DEF FirstOf
    <3>3. Date(date.y + n, date.m, date.d).y = FirstOf(date.y + n, date.m + 1).y
      BY <1>1, <2>2, DateLater
    <3> QED BY <1>2, <3>2, <3>3
  <2>3. Length(f) \in 28..31
    <3>1. date.y + n \in Int /\ date.m \in Int
      BY <1>1
    <3> QED BY <3>1, MonthLength
  <2> HIDE DEF f
  <2> QED BY <1>1, <2>1, <2>2, <2>3
<1>6. ASSUME n = 0 PROVE p = date
  BY <1>1, <1>2, <1>6, DateOfItself
<1> HIDE DEF p
<1> QED BY <1>3, <1>5, <1>6 DEF p

\* ShiftMonths: the month is n later, the day the same or the last of either month.
LEMMA ShiftMonthsIs ==
  ASSUME NEW date, IsDate(date), NEW n \in Int
  PROVE  LET p == ShiftMonths(date, n)
             f == FirstOf(date.y, date.m + n)
         IN /\ IsDate(p) /\ p.y = f.y /\ p.m = f.m
            /\ 12 * p.y + p.m = 12 * date.y + date.m + n
            /\ p.d = IF date.d = MonthEnd(date).d \/ date.d > Length(f)
                     THEN Length(f) ELSE date.d
<1> DEFINE f == FirstOf(date.y, date.m + n)
           end == AddDate(f, 0, 1, -1)
           e == IF date.d = MonthEnd(date).d \/ date.d > Length(f) THEN Length(f) ELSE date.d
<1>1. date.y \in Int /\ date.m \in Int /\ date.d \in 1..31 /\ date.m + n \in Int
  BY DateFields
<1>2. /\ IsDate(f) /\ f.d = 1 /\ 12 * f.y + f.m = 12 * date.y + (date.m + n)
      /\ Length(f) \in 28..31
  BY <1>1, FirstOfMonth, MonthLength
<1>3. f.y \in Int /\ f.m \in 1..12
  BY <1>2 DEF IsDate
<1>4. /\ FirstOf(f.y, f.m).y = f.y /\ FirstOf(f.y, f.m).m = f.m
      /\ Length(FirstOf(f.y, f.m)) = Length(f)
  BY <1>2, <1>3, DateOfItself DEF Length
<1>5. end.d = Length(f)
  <2>1. f.y + 0 = f.y /\ 1 + -1 = 0
    BY <1>3
  <2>2. end = Date(f.y, f.m + 1, 0)
    BY <1>2, <2>1 DEF AddDate
  <2> HIDE DEF end, f
  <2>3. f.m \in Int
    BY <1>3
  <2> QED BY <1>3, <1>4, <2>2, <2>3, EndOfMonth
<1>6. ShiftMonths(date, n) = Date(f.y, f.m, e)
  BY <1>5 DEF ShiftMonths
<1>7. e \in 1..Length(FirstOf(f.y, f.m))
  BY <1>1, <1>2, <1>4
<1>8. LET p == Date(f.y, f.m, e)
      IN IsDate(p) /\ p.y = f.y /\ p.m = f.m /\ p.d = e
  <2> HIDE DEF e, f
  <2>1. f.m \in Int
    BY <1>3
  <2> QED BY <1>3, <1>4, <1>7, <2>1, DateWithin
<1> HIDE DEF f, e
<1>9. 12 * f.y + f.m = 12 * date.y + date.m + n
  BY <1>1, <1>2, <1>3
<1> QED BY <1>6, <1>8, <1>9 DEF f, e

\* domain.Previous of a month is the shift by one month back of the DWH service.
LEMMA PreviousMonthIs ==
  ASSUME NEW date, IsDate(date)
  PROVE  PreviousMonth(date) = ShiftMonths(date, -1)
<1> DEFINE f == FirstOf(date.y, date.m - 1)
           end == Date(date.y, date.m, 0)
           p == ShiftMonths(date, -1)
           q == PreviousMonth(date)
<1>1. /\ date.y \in Int /\ date.m \in Int /\ date.d \in 1..31 /\ date.m - 1 \in Int
      /\ (date.m - 1) + 1 = date.m /\ date.m + -1 = date.m - 1
  BY DateFields
<1>2. /\ IsDate(f) /\ f.y \in Int /\ f.m \in Int /\ f.m \in 1..12 /\ Length(f) \in 28..31
      /\ FirstOf(f.y, f.m).y = f.y /\ FirstOf(f.y, f.m).m = f.m
      /\ Length(FirstOf(f.y, f.m)) = Length(f)
  <2>1. IsDate(f) /\ Length(f) \in 28..31
    BY <1>1, FirstOfMonth, MonthLength
  <2> HIDE DEF f
  <2> QED BY <2>1, DateFields, DateOfItself DEF Length
<1>3. IsDate(end) /\ end.y = f.y /\ end.m = f.m /\ end.d = Length(f)
  <2>1. LET g == FirstOf(date.y, date.m - 1)
            day == Date(date.y, (date.m - 1) + 1, 0)
        IN IsDate(day) /\ day.y = g.y /\ day.m = g.m /\ day.d = Length(g)
    BY <1>1, EndOfMonth
  <2> QED BY <1>1, <2>1
<1>4. /\ IsDate(p) /\ p.y = f.y /\ p.m = f.m
      /\ p.d = IF date.d = MonthEnd(date).d \/ date.d > Length(f) THEN Length(f) ELSE date.d
  <2>1. LET r == ShiftMonths(date, -1)
            g == FirstOf(date.y, date.m + -1)
        IN /\ IsDate(r) /\ r.y = g.y /\ r.m = g.m
           /\ 12 * r.y + r.m = 12 * date.y + date.m + -1
           /\ r.d = IF date.d = MonthEnd(date).d \/ date.d > Length(g)
                    THEN Length(g) ELSE date.d
    BY ShiftMonthsIs
  <2> QED BY <1>1, <2>1
<1>5. /\ MonthEnd(date).y = date.y /\ MonthEnd(date).m = date.m
      /\ MonthEnd(date).d \in Int /\ date.d <= MonthEnd(date).d
  <2>1. /\ MonthEnd(date).y = date.y /\ MonthEnd(date).m = date.m
        /\ MonthEnd(date).d = Length(FirstOf(date.y, date.m))
    BY MonthEndOf
  <2>2. /\ date.d <= Length(FirstOf(date.y, date.m))
        /\ Length(FirstOf(date.y, date.m)) \in 28..31
    BY DateOfItself
  <2> QED BY <2>1, <2>2
<1>6. Before(date, MonthEnd(date)) <=> date.d # MonthEnd(date).d
  BY <1>1, <1>5 DEF Before
<1>7. CASE date.d # MonthEnd(date).d /\ date.d < Length(f)
  <2>1. q = Date(f.y, f.m, date.d)
    BY <1>3, <1>6, <1>7 DEF PreviousMonth
  <2>2. date.d \in 1..Length(FirstOf(f.y, f.m))
    BY <1>1, <1>2, <1>7
  <2>3. LET g == FirstOf(f.y, f.m)
            day == Date(f.y, f.m, date.d)
        IN IsDate(day) /\ day.y = g.y /\ day.m = g.m /\ day.d = date.d
    <3> HIDE DEF f
    <3> QED BY <1>2, <2>2, DateWithin
  <2>4. p.d = date.d
    BY <1>1, <1>2, <1>4, <1>7
  <2> HIDE DEF p, q, f
  <2>5. p = q
    BY <1>2, <1>4, <2>1, <2>3, <2>4, SameDate
  <2> QED BY <2>5 DEF p, q
<1>8. CASE date.d = MonthEnd(date).d \/ ~(date.d < Length(f))
  <2>1. q = end
    BY <1>3, <1>6, <1>8 DEF PreviousMonth
  <2>2. p.d = Length(f)
    BY <1>1, <1>2, <1>4, <1>8
  <2> HIDE DEF p, q, f, end
  <2>3. p = q
    BY <1>3, <1>4, <2>1, <2>2, SameDate
  <2> QED BY <2>3 DEF p, q
<1> QED BY <1>7, <1>8

\* A filter with another date.
LEMMA FilterWith ==
  ASSUME NEW f, IsFilter(f), NEW x
  PROVE  [f EXCEPT !.date = x] = [mode |-> f.mode, date |-> x]
  BY DEF IsFilter

\* A date of the chart.
LEMMA PointIs ==
  ASSUME NEW f, IsFilter(f), NEW n \in Int, n <= 0, n + 11 >= 0
  PROVE  LET p == Shift(f, n) IN
           /\ p = [mode |-> f.mode, date |-> p.date] /\ IsDate(p.date)
           /\ f.mode = "daily" => p.date = AddDate(f.date, 0, 0, n)
           /\ f.mode = "monthly" => /\ p.date = ShiftMonths(f.date, n)
                                    /\ 12 * p.date.y + p.date.m = 12 * f.date.y + f.date.m + n
           /\ f.mode = "yearly" => /\ p.date = AddDate(f.date, n, 0, 0)
                                   /\ p.date.y = f.date.y + n
<1> DEFINE date == Shift(f, n).date
<1>1. f \in [mode : Modes, date : {f.date}] /\ IsDate(f.date)
  BY DEF IsFilter
<1>2. Shift(f, n) = [mode |-> f.mode, date |-> date]
  <2> DEFINE x == CASE f.mode = "daily"   -> AddDate(f.date, 0, 0, n)
                    [] f.mode = "monthly" -> ShiftMonths(f.date, n)
                    [] f.mode = "yearly"  -> AddDate(f.date, n, 0, 0)
  <2>1. Shift(f, n) = [f EXCEPT !.date = x]
    BY DEF Shift
  <2> HIDE DEF x
  <2> QED BY <2>1, FilterWith
<1>3. CASE f.mode = "daily"
  <2>1. date = AddDate(f.date, 0, 0, n)
    BY <1>1, <1>3 DEF Shift
  <2> HIDE DEF date
  <2>2. IsDate(date)
    BY <1>1, <2>1, ShiftDays
  <2> QED BY <1>2, <1>3, <2>1, <2>2 DEF date
<1>4. CASE f.mode = "monthly"
  <2>1. date = ShiftMonths(f.date, n)
    BY <1>1, <1>4 DEF Shift
  <2> HIDE DEF date
  <2>2. IsDate(date) /\ 12 * date.y + date.m = 12 * f.date.y + f.date.m + n
    BY <1>1, <2>1, ShiftMonthsIs
  <2> QED BY <1>2, <1>4, <2>1, <2>2 DEF date
<1>5. CASE f.mode = "yearly"
  <2>1. date = AddDate(f.date, n, 0, 0)
    BY <1>1, <1>5 DEF Shift
  <2> HIDE DEF date
  <2>2. IsDate(date) /\ date.y = f.date.y + n
    BY <1>1, <2>1, ShiftYears
  <2> QED BY <1>2, <1>5, <2>1, <2>2 DEF date
<1>6. f.mode \in Modes
  BY <1>1
<1> QED BY <1>3, <1>4, <1>5, <1>6 DEF Modes

\* The last point is the filter itself, the last but one the comparison period.
LEMMA LastPoints ==
  ASSUME NEW f, IsFilter(f)
  PROVE  Shift(f, 0) = f /\ Shift(f, -1) = Previous(f)
<1>1. IsDate(f.date) /\ f.mode \in Modes
  BY DEF IsFilter
<1>2. Shift(f, 0) = [mode |-> f.mode, date |-> Shift(f, 0).date]
  <2>1. 0 <= 0 /\ 0 + 11 >= 0
    OBVIOUS
  <2> QED BY <2>1, PointIs
<1>3. Shift(f, 0).date = f.date
  <2>1. 0 <= 0 /\ 0 + 11 >= 0
    OBVIOUS
  <2>2. CASE f.mode = "daily"
    <3>1. Shift(f, 0).date = AddDate(f.date, 0, 0, 0)
      BY <2>1, <2>2, PointIs
    <3> QED BY <1>1, <3>1, ShiftYears
  <2>3. CASE f.mode = "monthly"
    <3> DEFINE p == ShiftMonths(f.date, 0)
    <3>1. Shift(f, 0).date = p
      BY <2>1, <2>3, PointIs
    <3>2. /\ f.date.y \in Int /\ f.date.m \in Int /\ f.date.m + 0 = f.date.m
          /\ f.date.d <= Length(FirstOf(f.date.y, f.date.m))
          /\ f.date.d \in Int /\ Length(FirstOf(f.date.y, f.date.m)) \in 28..31
      BY <1>1, DateFields, DateOfItself
    <3>3. LET r == ShiftMonths(f.date, 0)
              g == FirstOf(f.date.y, f.date.m + 0)
          IN /\ IsDate(r) /\ r.y = g.y /\ r.m = g.m
             /\ 12 * r.y + r.m = 12 * f.date.y + f.date.m + 0
             /\ r.d = IF f.date.d = MonthEnd(f.date).d \/ f.date.d > Length(g)
                      THEN Length(g) ELSE f.date.d
      BY <1>1, ShiftMonthsIs
    <3>4. MonthEnd(f.date).d = Length(FirstOf(f.date.y, f.date.m))
      BY <1>1, MonthEndOf
    <3>5. p.d = f.date.d
      BY <3>2, <3>3, <3>4
    <3>6. p.y = f.date.y /\ p.m = f.date.m
      BY <1>1, <3>2, <3>3, DateOfItself
    <3> HIDE DEF p
    <3> QED BY <1>1, <3>1, <3>3, <3>5, <3>6, SameDate DEF p
  <2>4. CASE f.mode = "yearly"
    <3>1. Shift(f, 0).date = AddDate(f.date, 0, 0, 0)
      BY <2>1, <2>4, PointIs
    <3> QED BY <1>1, <3>1, ShiftYears
  <2> QED BY <1>1, <2>2, <2>3, <2>4 DEF Modes
<1>4. f = [mode |-> f.mode, date |-> f.date]
  BY DEF IsFilter
<1>5. Shift(f, -1) = Previous(f)
  <2>1. CASE f.mode = "daily"
    BY <2>1 DEF Shift, Previous
  <2>2. CASE f.mode = "monthly"
    <3>1. PreviousMonth(f.date) = ShiftMonths(f.date, -1)
      BY <1>1, PreviousMonthIs
    <3> QED BY <2>2, <3>1 DEF Shift, Previous
  <2>3. CASE f.mode = "yearly"
    BY <2>3 DEF Shift, Previous
  <2> QED BY <1>1, <2>1, <2>2, <2>3 DEF Modes
<1> QED BY <1>2, <1>3, <1>4, <1>5

\* Points differ: by days, months or years.
LEMMA PointsDiffer ==
  ASSUME NEW f, IsFilter(f), NEW i \in Int, NEW j \in Int,
         i <= 0, i + 11 >= 0, j <= 0, j + 11 >= 0, i < j
  PROVE  Before(Shift(f, i).date, Shift(f, j).date)
<1> DEFINE p == Shift(f, i).date
           q == Shift(f, j).date
<1>1. IsDate(f.date) /\ f.mode \in Modes /\ IsDate(p) /\ IsDate(q)
  BY PointIs DEF IsFilter
<1>2. /\ p.y \in Int /\ p.m \in 1..12 /\ p.d \in Int
      /\ q.y \in Int /\ q.m \in 1..12 /\ q.d \in Int
      /\ f.date.y \in Int /\ f.date.m \in 1..12 /\ f.date.d \in 1..31
  <2> HIDE DEF p, q
  <2> QED BY <1>1, DateFields
<1>3. CASE f.mode = "daily"
  <2> DEFINE g == FirstOf(f.date.y, f.date.m - 1)
  <2>1. p = AddDate(f.date, 0, 0, i) /\ q = AddDate(f.date, 0, 0, j)
    BY <1>3, PointIs
  <2> HIDE DEF p, q
  <2>2. /\ f.date.d + i > 0 => p.y = f.date.y /\ p.m = f.date.m /\ p.d = f.date.d + i
        /\ f.date.d + i < 1 => p.y = g.y /\ p.m = g.m /\ p.d = f.date.d + i + Length(g)
    BY <1>1, <2>1, ShiftDays
  <2>3. /\ f.date.d + j > 0 => q.y = f.date.y /\ q.m = f.date.m /\ q.d = f.date.d + j
        /\ f.date.d + j < 1 => q.y = g.y /\ q.m = g.m /\ q.d = f.date.d + j + Length(g)
    BY <1>1, <2>1, ShiftDays
  <2>4. /\ 12 * g.y + g.m = 12 * f.date.y + (f.date.m - 1) /\ g.y \in Int /\ g.m \in 1..12
        /\ Length(g) \in 28..31
    <3>1. f.date.m - 1 \in Int
      BY <1>2
    <3>2. IsDate(g) /\ 12 * g.y + g.m = 12 * f.date.y + (f.date.m - 1) /\ Length(g) \in 28..31
      BY <1>2, <3>1, FirstOfMonth, MonthLength
    <3> HIDE DEF g
    <3> QED BY <3>2, DateFields
  <2> HIDE DEF g
  <2>5. Before(p, q)
    BY <1>2, <2>2, <2>3, <2>4 DEF Before
  <2> QED BY <2>5 DEF p, q
<1>4. CASE f.mode = "monthly"
  <2>1. /\ 12 * p.y + p.m = 12 * f.date.y + f.date.m + i
        /\ 12 * q.y + q.m = 12 * f.date.y + f.date.m + j
    BY <1>4, PointIs
  <2> HIDE DEF p, q
  <2>2. p.y < q.y \/ (p.y = q.y /\ p.m < q.m)
    <3>1. 12 * p.y + p.m < 12 * q.y + q.m
      BY <1>2, <2>1
    <3> QED BY <1>2, <3>1, LaterMonth
  <2>3. Before(p, q)
    BY <2>2 DEF Before
  <2> QED BY <2>3 DEF p, q
<1>5. CASE f.mode = "yearly"
  <2>1. p.y = f.date.y + i /\ q.y = f.date.y + j
    BY <1>5, PointIs
  <2> HIDE DEF p, q
  <2>2. p.y < q.y
    BY <1>2, <2>1
  <2>3. Before(p, q)
    BY <2>2 DEF Before
  <2> QED BY <2>3 DEF p, q
<1> QED BY <1>1, <1>3, <1>4, <1>5 DEF Modes

\* The figure a card is compared with is the chart's last but one, so a page needs the
\* snapshots of twelve filters (domain.Previous beside the DWH service's shift).
LEMMA ComparedWithPoint ==
  ASSUME NEW f, IsFilter(f)
  PROVE  PreviousIsPoint(f)
<1> DEFINE P == Points(f)
           R == {P[i] : i \in 1..12}
<1>1. \A i \in 1..12 : P[i] = Shift(f, i - 12)
  BY DEF Points
<1>2. Previous(f) = P[11]
  BY <1>1, LastPoints
<1>3. ReportFilters(f) = R
  BY <1>2 DEF ReportFilters
<1>4. ASSUME NEW i \in 1..12, NEW j \in 1..12, i < j
      PROVE  P[i] # P[j]
  <2>1. Before(Shift(f, i - 12).date, Shift(f, j - 12).date)
    BY <1>4, PointsDiffer
  <2>2. IsDate(Shift(f, i - 12).date)
    BY PointIs
  <2> QED BY <1>1, <2>1, <2>2, BeforeOrders
<1>5. P \in Bijection(1..12, R)
  <2>1. P \in [1..12 -> R]
    BY DEF Points
  <2>2. \A i, j \in 1..12 : i # j => P[i] # P[j]
    BY <1>4
  <2> HIDE DEF P
  <2> QED BY <2>1, <2>2 DEF Bijection, Injection, Surjection, IsInjective
<1>6. Cardinality(R) = 12
  <2>1. ExistsBijection(1..12, R)
    BY <1>5 DEF ExistsBijection
  <2>2. IsFiniteSet(1..12) /\ Cardinality(1..12) = 12
    <3>1. /\ IsFiniteSet(1..12)
          /\ Cardinality(1..12) = IF 1 > 12 THEN 0 ELSE 12 - 1 + 1
      <4>1. 1 \in Int /\ 12 \in Int
        OBVIOUS
      <4> QED BY <4>1, FS_Interval
    <3> QED BY <3>1
  <2> HIDE DEF R
  <2> QED BY <2>1, <2>2, FS_Bijection
<1> QED BY <1>2, <1>3, <1>6 DEF PreviousIsPoint

\* The first day of a point's period is not after the point.
LEMMA PeriodStartIs ==
  ASSUME NEW f, IsFilter(f)
  PROVE  /\ IsDate(PeriodStart(f)) /\ ~Before(f.date, PeriodStart(f))
         /\ f.mode = "daily" => PeriodStart(f) = f.date
         /\ f.mode = "monthly" => /\ PeriodStart(f).y = f.date.y
                                  /\ PeriodStart(f).m = f.date.m /\ PeriodStart(f).d = 1
         /\ f.mode = "yearly" => /\ PeriodStart(f).y = f.date.y
                                 /\ PeriodStart(f).m = 1 /\ PeriodStart(f).d = 1
<1> DEFINE s == PeriodStart(f)
           date == f.date
<1>1. /\ IsDate(date) /\ f.mode \in Modes
      /\ date.y \in Int /\ date.m \in 1..12 /\ date.d \in 1..31
  BY DateFields DEF IsFilter
<1>2. CASE f.mode = "daily"
  BY <1>1, <1>2, BeforeOrders DEF PeriodStart
<1>3. CASE f.mode = "monthly"
  <2>1. s = FirstOf(date.y, date.m)
    BY <1>3 DEF PeriodStart
  <2>2. IsDate(s) /\ s.y = date.y /\ s.m = date.m /\ s.d = 1
    <3>1. date.y \in Int /\ date.m \in Int
      BY <1>1
    <3>2. IsDate(s)
      BY <2>1, <3>1, FirstOfMonth
    <3>3. s.y = date.y /\ s.m = date.m /\ s.d = 1
      BY <1>1, <2>1, DateOfItself
    <3> QED BY <3>2, <3>3
  <2>3. ~Before(date, s)
    BY <1>1, <2>2 DEF Before
  <2> QED BY <1>3, <2>2, <2>3
<1>4. CASE f.mode = "yearly"
  <2> DEFINE g == FirstOf(date.y, 1)
  <2>1. s = Date(date.y, 1, 1)
    BY <1>4 DEF PeriodStart
  <2>2. g.y = date.y /\ g.m = 1
    BY <1>1 DEF FirstOf
  <2>3. 1 \in 1..Length(g) /\ 1 \in Int
    <3>1. Length(g) \in 28..31
      BY <1>1, MonthLength
    <3> HIDE DEF g
    <3> QED BY <3>1
  <2>4. LET h == FirstOf(date.y, 1)
            day == Date(date.y, 1, 1)
        IN IsDate(day) /\ day.y = h.y /\ day.m = h.m /\ day.d = 1
    BY <1>1, <2>3, DateWithin
  <2>5. IsDate(s) /\ s.y = date.y /\ s.m = 1 /\ s.d = 1
    BY <2>1, <2>2, <2>4
  <2>6. ~Before(date, s)
    BY <1>1, <2>5 DEF Before
  <2> QED BY <1>4, <2>5, <2>6
<1> QED BY <1>1, <1>2, <1>3, <1>4 DEF Modes

\* The periods of two neighbouring points share no day (shift and PeriodStart).
LEMMA PointsApart ==
  ASSUME NEW f, IsFilter(f)
  PROVE  PeriodsApart(f)
<1> SUFFICES ASSUME NEW i \in 2..12
             PROVE  /\ Before(Points(f)[i - 1].date, PeriodStart(Points(f)[i]))
                    /\ ~Before(Points(f)[i].date, PeriodStart(Points(f)[i]))
  BY DEF PeriodsApart
<1> DEFINE p == Shift(f, (i - 1) - 12)
           q == Shift(f, i - 12)
<1>1. Points(f)[i - 1] = p /\ Points(f)[i] = q
  BY DEF Points
<1>2. /\ (i - 1) - 12 \in Int /\ (i - 1) - 12 <= 0 /\ (i - 1) - 12 + 11 >= 0
      /\ i - 12 \in Int /\ i - 12 <= 0 /\ i - 12 + 11 >= 0 /\ (i - 1) - 12 < i - 12
  OBVIOUS
<1>3. Before(p.date, q.date)
  BY <1>2, PointsDiffer
<1>4. /\ p = [mode |-> f.mode, date |-> p.date] /\ IsDate(p.date)
      /\ q = [mode |-> f.mode, date |-> q.date] /\ IsDate(q.date)
  BY <1>2, PointIs
<1>5. f.mode \in Modes /\ f.date.y \in Int /\ f.date.m \in 1..12
  BY DateFields DEF IsFilter
<1>6. IsFilter(q) /\ q.mode = f.mode
  <2> HIDE DEF p, q
  <2> QED BY <1>4, <1>5 DEF IsFilter
<1>7. ~Before(q.date, PeriodStart(q)) /\ IsDate(PeriodStart(q))
  BY <1>6, PeriodStartIs
<1>8. Before(p.date, PeriodStart(q))
  <2> DEFINE s == PeriodStart(q)
  <2>1. /\ p.date.y \in Int /\ p.date.m \in 1..12 /\ q.date.y \in Int /\ q.date.m \in 1..12
    BY <1>4, DateFields
  <2>2. CASE f.mode = "daily"
    BY <1>3, <1>6, <2>2, PeriodStartIs
  <2>3. CASE f.mode = "monthly"
    <3>1. /\ 12 * p.date.y + p.date.m = 12 * f.date.y + f.date.m + ((i - 1) - 12)
          /\ 12 * q.date.y + q.date.m = 12 * f.date.y + f.date.m + (i - 12)
      BY <1>2, <2>3, PointIs
    <3>2. s.y = q.date.y /\ s.m = q.date.m
      BY <1>6, <2>3, PeriodStartIs
    <3> HIDE DEF p, q, s
    <3>3. p.date.y < q.date.y \/ (p.date.y = q.date.y /\ p.date.m < q.date.m)
      <4>1. 12 * p.date.y + p.date.m < 12 * q.date.y + q.date.m
        BY <1>5, <2>1, <3>1
      <4> QED BY <2>1, <4>1, LaterMonth
    <3>4. Before(p.date, s)
      BY <3>2, <3>3 DEF Before
    <3> QED BY <3>4 DEF s
  <2>4. CASE f.mode = "yearly"
    <3>1. p.date.y = f.date.y + ((i - 1) - 12) /\ q.date.y = f.date.y + (i - 12)
      BY <1>2, <2>4, PointIs
    <3>2. s.y = q.date.y
      BY <1>6, <2>4, PeriodStartIs
    <3> HIDE DEF p, q, s
    <3>3. p.date.y < s.y
      BY <1>5, <2>1, <3>1, <3>2
    <3>4. Before(p.date, s)
      BY <3>3 DEF Before
    <3> QED BY <3>4 DEF s
  <2> QED BY <1>5, <2>2, <2>3, <2>4 DEF Modes
<1> QED BY <1>1, <1>7, <1>8

\* A whole month is compared with whole months, an open one up to the same day or the
\* end of a shorter month (ShiftMonths).
LEMMA MonthsAlike ==
  ASSUME NEW f, IsFilter(f)
  PROVE  LikeCutoff(f)
<1> SUFFICES ASSUME f.mode = "monthly", NEW i \in 1..12
             PROVE  LET p == Points(f)[i].date IN
                      IF f.date = MonthEnd(f.date) THEN p = MonthEnd(p)
                      ELSE p.d = f.date.d \/ (p.d < f.date.d /\ p = MonthEnd(p))
  BY DEF LikeCutoff
<1> DEFINE n == i - 12
           p == Shift(f, n).date
           g == FirstOf(f.date.y, f.date.m + n)
<1>1. Points(f)[i].date = p
  BY DEF Points
<1>2. IsDate(f.date) /\ n \in Int /\ n <= 0 /\ n + 11 >= 0
  BY DEF IsFilter
<1>3. p = ShiftMonths(f.date, n)
  BY <1>2, PointIs
<1>4. /\ IsDate(p) /\ p.y = g.y /\ p.m = g.m
      /\ p.d = IF f.date.d = MonthEnd(f.date).d \/ f.date.d > Length(g)
               THEN Length(g) ELSE f.date.d
  <2> HIDE DEF p
  <2> QED BY <1>2, <1>3, ShiftMonthsIs
<1>5. f.date.m + n \in Int /\ f.date.y \in Int /\ f.date.d \in Int
  BY <1>2, DateFields
<1>6. /\ IsDate(MonthEnd(p)) /\ MonthEnd(p).y = p.y /\ MonthEnd(p).m = p.m
      /\ MonthEnd(p).d = Length(FirstOf(p.y, p.m))
  <2> HIDE DEF p
  <2> QED BY <1>4, MonthEndOf
<1>7. Length(FirstOf(p.y, p.m)) = Length(g) /\ Length(g) \in 28..31
  <2>1. IsDate(g)
    BY <1>5, FirstOfMonth
  <2>2. FirstOf(g.y, g.m).y = g.y /\ FirstOf(g.y, g.m).m = g.m
    <3> HIDE DEF g
    <3> QED BY <2>1, DateOfItself
  <2>3. Length(g) \in 28..31
    BY <1>5, MonthLength
  <2> HIDE DEF g, p
  <2> QED BY <1>4, <2>2, <2>3 DEF Length
<1> HIDE DEF p, g, n
<1>8. p.d = Length(g) => p = MonthEnd(p)
  BY <1>4, <1>6, <1>7, SameDate
<1>9. CASE f.date = MonthEnd(f.date)
  BY <1>1, <1>4, <1>8, <1>9
<1>10. CASE f.date # MonthEnd(f.date)
  <2>1. f.date.d # MonthEnd(f.date).d
    BY <1>2, <1>10, MonthEndOf, SameDate
  <2>2. CASE f.date.d > Length(g)
    BY <1>1, <1>4, <1>5, <1>7, <1>8, <1>10, <2>2
  <2>3. CASE ~(f.date.d > Length(g))
    BY <1>1, <1>4, <1>10, <2>1, <2>3
  <2> QED BY <2>2, <2>3
<1> QED BY <1>9, <1>10

-----------------------------------------------------------------------------
(* The balance sheets of NIM. *)

\* The sheet of a month up to the date's: the same day, or one of the first days of the
\* next month.
LEMMA NimDateIs ==
  ASSUME NEW date, IsDate(date), NEW m \in 1..date.m
  PROVE  LET p == NimDate(date, m) IN
           /\ IsDate(p) /\ p.y = date.y
           /\ m = date.m => p = date
           /\ \/ p.m = m /\ p.d = date.d /\ date.d <= Length(FirstOf(date.y, m))
              \/ /\ p.m = m + 1 /\ p.d = date.d - Length(FirstOf(date.y, m)) /\ m < date.m
                 /\ date.d > Length(FirstOf(date.y, m))
<1> DEFINE p == NimDate(date, m)
           g == FirstOf(date.y, m)
           h == FirstOf(date.y, m + 1)
<1>1. /\ date.y \in Int /\ date.m \in 1..12 /\ date.d \in 1..31 /\ m \in 1..12
      /\ m \in Int /\ date.d \in Int /\ date.d <= 56 /\ date.d + 28 > 0
  BY DateFields
<1>2. p = Date(date.y, m, date.d)
  BY DEF NimDate
<1>3. g.y = date.y /\ g.m = m /\ Length(g) \in 28..31
  <2>1. Length(g) \in 28..31
    BY <1>1, MonthLength
  <2>2. g.y = date.y /\ g.m = m
    BY <1>1 DEF FirstOf
  <2> QED BY <2>1, <2>2
<1>4. m = date.m => p = date
  BY <1>2, DateOfItself
<1>5. CASE date.d <= Length(g)
  <2>1. date.d \in 1..Length(g)
    BY <1>1, <1>3, <1>5
  <2>2. LET k == FirstOf(date.y, m)
            day == Date(date.y, m, date.d)
        IN IsDate(day) /\ day.y = k.y /\ day.m = k.m /\ day.d = date.d
    BY <1>1, <2>1, DateWithin
  <2> QED BY <1>2, <1>3, <1>4, <1>5, <2>2
<1>6. CASE date.d > Length(g)
  <2>1. m < date.m
    <3>1. m # date.m
      <4>1. date.d <= Length(FirstOf(date.y, date.m))
        BY DateOfItself
      <4>2. Length(FirstOf(date.y, date.m)) \in 28..31
        BY DateOfItself
      <4> QED BY <1>1, <1>6, <4>1, <4>2
    <3> QED BY <1>1, <3>1
  <2>2. h.y = date.y /\ h.m = m + 1
    BY <1>1, <2>1 DEF FirstOf
  <2>3. LET k == FirstOf(date.y, m + 1)
            day == Date(date.y, m, date.d)
        IN /\ IsDate(day)
           /\ day.y = k.y /\ day.m = k.m /\ day.d = date.d - Length(FirstOf(date.y, m))
    BY <1>1, <1>6, DateLater
  <2> QED BY <1>2, <1>4, <1>6, <2>1, <2>2, <2>3
<1> QED BY <1>1, <1>3, <1>5, <1>6

\* NIM averages one balance sheet for each month so far, all different and none after
\* the date, though setMonth carries days over (nimDate).
LEMMA SamplesApart ==
  ASSUME NEW f, IsDate(f.date)
  PROVE  NimSamplesApart(f)
<1> DEFINE date == f.date
<1>1. date.y \in Int /\ date.m \in 1..12 /\ date.d \in 1..31 /\ date.m \in 1..date.m
  BY DateFields
<1>2. NimDate(date, date.m) = date
  BY <1>1, NimDateIs
<1>3. \A m \in 1..date.m : NimDate(date, m).y = date.y
  BY NimDateIs
<1>4. ASSUME NEW m \in 2..date.m
      PROVE  Before(NimDate(date, m - 1), NimDate(date, m))
  <2> DEFINE p == NimDate(date, m - 1)
             q == NimDate(date, m)
  <2>1. m - 1 \in 1..date.m /\ m \in 1..date.m /\ m \in Int /\ m - 1 \in Int
    BY <1>1
  <2>2. Length(FirstOf(date.y, m - 1)) \in 28..31 /\ Length(FirstOf(date.y, m)) \in 28..31
    BY <1>1, <2>1, MonthLength
  <2>3. /\ p.y = date.y
        /\ \/ p.m = m - 1
           \/ p.m = (m - 1) + 1 /\ p.d = date.d - Length(FirstOf(date.y, m - 1))
    BY <2>1, NimDateIs
  <2>4. /\ q.y = date.y
        /\ \/ q.m = m /\ q.d = date.d
           \/ q.m = m + 1
    BY <2>1, NimDateIs
  <2> HIDE DEF p, q
  <2>5. p.m < q.m \/ (p.m = q.m /\ p.d < q.d)
    BY <1>1, <2>1, <2>2, <2>3, <2>4
  <2>6. Before(p, q)
    BY <2>3, <2>4, <2>5 DEF Before
  <2> QED BY <2>6 DEF p, q
<1> QED BY <1>2, <1>3, <1>4 DEF NimSamplesApart

\* The samples of a date are the date and days before it.
LEMMA SamplesBefore ==
  ASSUME NEW date, IsDate(date)
  PROVE  /\ date \in Samples(date)
         /\ \A e \in Samples(date) : IsDate(e) /\ (e = date \/ Before(e, date))
<1>1. date.y \in Int /\ date.m \in 1..12 /\ date.d \in 1..31 /\ date.m \in 1..date.m
  BY DateFields
<1>2. date \in Samples(date)
  BY <1>1, NimDateIs DEF Samples
<1>3. ASSUME NEW m \in 1..date.m
      PROVE  IsDate(NimDate(date, m)) /\ (NimDate(date, m) = date \/ Before(NimDate(date, m), date))
  <2> DEFINE p == NimDate(date, m)
  <2>1. m \in Int
    OBVIOUS
  <2>2. Length(FirstOf(date.y, m)) \in 28..31
    BY <1>1, <2>1, MonthLength
  <2>3. IsDate(p)
    BY NimDateIs
  <2>4. CASE m = date.m
    BY <2>3, <2>4, NimDateIs
  <2>5. CASE m # date.m
    <3>1. /\ p.y = date.y
          /\ p.m = m \/ (p.m = m + 1 /\ p.d = date.d - Length(FirstOf(date.y, m)))
      BY NimDateIs
    <3> HIDE DEF p
    <3>2. p.m < date.m \/ (p.m = date.m /\ p.d < date.d)
      BY <1>1, <2>2, <2>5, <3>1
    <3>3. Before(p, date)
      BY <3>1, <3>2 DEF Before
    <3> QED BY <2>3, <3>3 DEF p
  <2> QED BY <2>4, <2>5
<1> QED BY <1>2, <1>3 DEF Samples

-----------------------------------------------------------------------------
(* NIM, from the cache and from the sources. *)

IsWorld(w) == IsDate(w.today) /\ w.loaded \in BOOLEAN /\ w.published \in BOOLEAN

\* The source of a day has its balance sheet.
Has(w, d) ==
  IF d = w.today /\ ~w.loaded THEN w.published
  ELSE d \notin w.gaps /\ (Before(d, w.today) \/ d = w.today)

\* The NIM that the sources give.
TrueNim(w, date) == IF \A e \in Samples(date) : Has(w, e) THEN Samples(date) ELSE {}

\* The source of a day has its balance sheet if any has.
LEMMA HasOfOwnSource ==
  ASSUME NEW w, IsWorld(w), NEW days, NEW d \in days
  PROVE  d \in BalanceSheets(w, SourceFor(w, d), days) <=> Has(w, d)
<1>1. ~Before(w.today, w.today)
  BY BeforeOrders DEF IsWorld
<1> QED BY <1>1 DEF BalanceSheets, SourceFor, Has, IsWorld

\* The DWH returns only days that were asked for and that it has.
LEMMA SourceOfDwh ==
  ASSUME NEW w, IsWorld(w), NEW days, NEW d \in BalanceSheets(w, "dwh", days)
  PROVE  d \in days /\ Has(w, d)
<1>1. ~Before(w.today, w.today)
  BY BeforeOrders DEF IsWorld
<1> QED BY <1>1 DEF BalanceSheets, Has, IsWorld

\* The earlier samples of a day that has a sheet are days of the DWH.
LEMMA EarlierSamples ==
  ASSUME NEW w, IsWorld(w), NEW d, IsDate(d), Has(w, d), NEW e \in Samples(d), e # d
  PROVE  /\ Before(e, w.today) /\ e # w.today /\ SourceFor(w, e) = "dwh"
         /\ Has(w, e) <=> e \notin w.gaps
<1>1. IsDate(e) /\ Before(e, d)
  BY SamplesBefore
<1>2. Before(e, w.today)
  BY <1>1, BeforeTransitive DEF Has, IsWorld
<1>3. e # w.today
  BY <1>2, BeforeOrders DEF IsWorld
<1> QED BY <1>2, <1>3 DEF SourceFor, Has

\* The NIM among a day's metrics (metricRows), whichever source the day is taken from.
LEMMA MetricNimIs ==
  ASSUME NEW w, IsWorld(w), NEW d, IsDate(d), Has(w, d)
  PROVE  MetricNim(w, d) = TrueNim(w, d)
<1> DEFINE S == Samples(d)
           whole == {d} \cup BalanceSheets(w, "dwh", S \ {d})
<1>1. d \in S
  BY SamplesBefore
<1>2. ASSUME NEW e \in S
      PROVE  e \in whole <=> Has(w, e)
  <2>1. CASE e = d
    BY <2>1
  <2>2. CASE e # d
    <3>1. e \in whole <=> e \notin w.gaps
      BY <2>2, EarlierSamples DEF BalanceSheets
    <3> QED BY <2>2, <3>1, EarlierSamples
  <2> QED BY <2>1, <2>2
<1>3. MetricNim(w, d) = IF S \subseteq whole \cup {} THEN S \cap whole ELSE {}
  BY DEF MetricNim, Nim
<1> HIDE DEF whole, S
<1>4. MetricNim(w, d) = IF \A e \in S : Has(w, e) THEN S ELSE {}
  <2>1. CASE \A e \in S : Has(w, e)
    <3>1. S \subseteq whole
      BY <1>2, <2>1
    <3>2. S \cap whole = S /\ S \subseteq whole \cup {}
      BY <3>1
    <3> QED BY <1>3, <2>1, <3>2
  <2>2. CASE ~\A e \in S : Has(w, e)
    <3>1. ~(S \subseteq whole \cup {})
      BY <1>2, <2>2
    <3> QED BY <1>3, <2>2, <3>1
  <2> QED BY <2>1, <2>2
<1> QED BY <1>4 DEF TrueNim, S

\* A card whose page has no metric store: each day is asked of its own source.
LEMMA CardOfSources ==
  ASSUME NEW w, IsWorld(w), NEW f, IsDate(f.date), IsDate(Previous(f).date), NEW requested
  PROVE  NimCard(LoadSources(requested, f, w), f)
           = IF Has(w, f.date)
             THEN [value |-> TrueNim(w, f.date), previous |-> TrueNim(w, Previous(f).date)]
             ELSE [value |-> {}, previous |-> {}]
<1> DEFINE days == requested \cup Samples(f.date) \cup Samples(Previous(f).date)
           Of(source) == {d \in days : SourceFor(w, d) = source}
           whole == UNION {BalanceSheets(w, s, Of(s)) : s \in {"realtime", "dwh"}}
           x == LoadSources(requested, f, w)
<1>1. x = [row |-> <<>>, whole |-> whole, partial |-> {}]
  BY DEF LoadSources
<1>2. ASSUME NEW d \in days
      PROVE  d \in whole <=> Has(w, d)
  <2>1. \A s \in {"realtime", "dwh"} : d \in Of(s) <=> SourceFor(w, d) = s
    OBVIOUS
  <2>2. SourceFor(w, d) \in {"realtime", "dwh"}
    BY DEF SourceFor
  <2>3. \A s \in {"realtime", "dwh"} : BalanceSheets(w, s, Of(s)) \subseteq Of(s)
    BY DEF BalanceSheets
  <2>4. d \in BalanceSheets(w, SourceFor(w, d), Of(SourceFor(w, d))) <=> Has(w, d)
    <3>1. d \in Of(SourceFor(w, d))
      OBVIOUS
    <3> HIDE DEF Of
    <3> QED BY <3>1, HasOfOwnSource
  <2> HIDE DEF Of
  <2> QED BY <2>1, <2>2, <2>3, <2>4
<1>3. x.row = <<>> /\ x.whole = whole /\ x.partial = {} /\ DOMAIN x.row = {}
  BY <1>1
<1> HIDE DEF whole, x
<1>4. ASSUME NEW date, IsDate(date), Samples(date) \subseteq days
      PROVE  Financial(x, date) = TrueNim(w, date) /\ (date \in whole <=> Has(w, date))
  <2>1. date \in Samples(date)
    BY <1>4, SamplesBefore
  <2>2. Financial(x, date)
          = IF date \in whole THEN (IF Samples(date) \subseteq whole \cup {}
                                    THEN Samples(date) \cap whole ELSE {}) ELSE {}
    BY <1>3 DEF Financial, Nim
  <2>3. \A e \in Samples(date) : e \in whole <=> Has(w, e)
    BY <1>2, <1>4
  <2>4. CASE \A e \in Samples(date) : Has(w, e)
    <3>1. Samples(date) \cap whole = Samples(date) /\ Samples(date) \subseteq whole \cup {}
      BY <2>3, <2>4
    <3> QED BY <2>1, <2>2, <2>3, <2>4, <3>1 DEF TrueNim
  <2>5. CASE ~\A e \in Samples(date) : Has(w, e)
    <3>1. ~(Samples(date) \subseteq whole \cup {})
      BY <2>3, <2>5
    <3> QED BY <2>1, <2>2, <2>3, <2>5, <3>1 DEF TrueNim
  <2> QED BY <2>4, <2>5
<1>5. Samples(f.date) \subseteq days /\ Samples(Previous(f).date) \subseteq days
  OBVIOUS
<1> QED BY <1>3, <1>4, <1>5 DEF NimCard, x

\* With a metric store, whichever days of a page it holds: a day without metrics is asked
\* of its source together with its samples, and today's metrics are committed with the
\* generation that has its sheet.
LEMMA CardOfCache ==
  ASSUME NEW w, IsWorld(w), NEW f, IsDate(f.date), IsDate(Previous(f).date),
         NEW requested, f.date \in requested, Previous(f).date \in requested,
         NEW cached, w.today \in requested => SameCommit(cached, w)
  PROVE  NimCard(LoadCached(requested, cached, w), f)
           = IF Has(w, f.date)
             THEN [value |-> TrueNim(w, f.date), previous |-> TrueNim(w, Previous(f).date)]
             ELSE [value |-> {}, previous |-> {}]
<1> DEFINE Missing(source) == {d \in requested \ cached : SourceFor(w, d) = source}
           hits == {d \in requested \cap cached : Balanced(w, d)}
           Sheets(source) == BalanceSheets(w, source, FallbackDays(Missing(source)))
           whole == UNION {Sheets(s) : s \in {"realtime", "dwh"}}
           x == LoadCached(requested, cached, w)
<1>1. x = [row |-> [d \in hits |-> MetricNim(w, d)], whole |-> whole, partial |-> hits]
  BY DEF LoadCached
<1>2. \A d \in hits : d \in requested /\ d \in cached
  OBVIOUS
<1>3. ASSUME NEW d \in requested
      PROVE  d \in hits <=> d \in cached /\ Has(w, d)
  <2>1. BalanceSheets(w, SourceFor(w, d), {d}) \subseteq {d}
    BY DEF BalanceSheets
  <2>2. d \in BalanceSheets(w, SourceFor(w, d), {d}) <=> Has(w, d)
    BY HasOfOwnSource
  <2>3. Balanced(w, d) <=> Has(w, d)
    BY <2>1, <2>2 DEF Balanced
  <2> QED BY <2>3
<1>4. ASSUME NEW d \in Missing("realtime") PROVE d = w.today /\ ~w.loaded
  BY DEF SourceFor
<1>5. ASSUME NEW e \in whole PROVE Has(w, e)
  <2>1. CASE e \in Sheets("dwh")
    <3> HIDE DEF Missing
    <3> QED BY <2>1, SourceOfDwh
  <2>2. CASE e \in Sheets("realtime")
    <3>1. Missing("realtime") # {}
      BY <2>2 DEF BalanceSheets, FallbackDays
    <3>2. ~w.loaded
      BY <1>4, <3>1
    <3>3. e = w.today /\ w.published
      BY <2>2 DEF BalanceSheets
    <3> QED BY <3>2, <3>3 DEF Has
  <2> QED BY <2>1, <2>2
<1>6. ASSUME NEW d \in requested, d \notin cached, Has(w, d)
      PROVE  SourceFor(w, d) = "dwh"
  <2>1. SUFFICES ASSUME d = w.today, ~w.loaded PROVE FALSE
    BY DEF SourceFor
  <2>2. w.published
    BY <1>6, <2>1 DEF Has
  <2>3. SameCommit(cached, w)
    BY <2>1
  <2>4. SourceFor(w, w.today) = "realtime"
    BY <2>1 DEF SourceFor
  <2> QED BY <1>6, <2>1, <2>2, <2>3, <2>4 DEF SameCommit
<1>7. ASSUME NEW d \in requested, IsDate(d), d \notin cached, Has(w, d),
             NEW e \in Samples(d)
      PROVE  e \in whole <=> Has(w, e)
  <2>1. d \in Missing("dwh")
    BY <1>6, <1>7
  <2>2. e \in FallbackDays(Missing("dwh"))
    BY <2>1 DEF FallbackDays
  <2>3. SourceFor(w, e) = "dwh"
    <3>1. CASE e = d
      BY <1>6, <1>7, <3>1
    <3>2. CASE e # d
      BY <1>7, <3>2, EarlierSamples
    <3> QED BY <3>1, <3>2
  <2>4. e \in Sheets("dwh") <=> Has(w, e)
    <3>1. e \in BalanceSheets(w, SourceFor(w, e), FallbackDays(Missing("dwh"))) <=> Has(w, e)
      <4> HIDE DEF Missing
      <4> QED BY <2>2, HasOfOwnSource
    <3> QED BY <2>3, <3>1
  <2>5. Sheets("dwh") \subseteq whole
    OBVIOUS
  <2> HIDE DEF Sheets, whole
  <2> QED BY <1>5, <2>4, <2>5
<1>8. /\ x.row = [d \in hits |-> MetricNim(w, d)] /\ DOMAIN x.row = hits
      /\ x.whole = whole /\ x.partial = hits
  BY <1>1
<1> HIDE DEF whole, hits, x, Missing, Sheets
<1>9. ASSUME NEW date \in requested, IsDate(date)
      PROVE  Financial(x, date) = TrueNim(w, date) /\ (date \in whole \cup hits <=> Has(w, date))
  <2>1. date \in Samples(date)
    BY <1>9, SamplesBefore
  <2>2. CASE date \in hits
    <3>1. Has(w, date)
      BY <1>3, <2>2
    <3>2. Financial(x, date) = MetricNim(w, date)
      BY <1>8, <2>2 DEF Financial
    <3> QED BY <1>9, <2>2, <3>1, <3>2, MetricNimIs
  <2>3. CASE date \notin hits /\ ~Has(w, date)
    <3>1. date \notin whole
      BY <1>5, <2>3
    <3>2. Financial(x, date) = {}
      BY <1>8, <2>3, <3>1 DEF Financial
    <3>3. TrueNim(w, date) = {}
      BY <2>1, <2>3 DEF TrueNim
    <3> QED BY <2>3, <3>1, <3>2, <3>3
  <2>4. CASE date \notin hits /\ Has(w, date)
    <3> DEFINE S == Samples(date)
    <3>1. date \notin cached
      BY <1>3, <2>4
    <3>2. \A e \in S : e \in whole <=> Has(w, e)
      BY <1>7, <1>9, <2>4, <3>1
    <3>3. date \in whole
      BY <2>1, <2>4, <3>2
    <3>4. Financial(x, date) = IF S \subseteq whole \cup hits THEN S \cap whole ELSE {}
      BY <1>8, <2>4, <3>3 DEF Financial, Nim
    <3>5. \A e \in hits : Has(w, e)
      BY <1>2, <1>3
    <3>6. CASE \A e \in S : Has(w, e)
      <4>1. S \subseteq whole \cup hits /\ S \cap whole = S
        BY <3>2, <3>6
      <4> QED BY <2>4, <3>3, <3>4, <3>6, <4>1 DEF TrueNim
    <3>7. CASE ~\A e \in S : Has(w, e)
      <4>1. ~(S \subseteq whole \cup hits)
        BY <3>2, <3>5, <3>7
      <4> QED BY <2>4, <3>3, <3>4, <3>7, <4>1 DEF TrueNim
    <3> QED BY <3>6, <3>7
  <2> QED BY <2>2, <2>3, <2>4
<1> QED BY <1>8, <1>9 DEF NimCard, x

\* The NIM of a card does not depend on the days that are cached, for every filter, every
\* day of the calendar and every gap of the DWH (cachedSnapshot, load and metricRows).
LEMMA CacheChangesNothing ==
  ASSUME NEW f, IsFilter(f), NEW w, IsWorld(w), NEW cached,
         w.today \in Requested(f) => SameCommit(cached, w)
  PROVE  NimCard(LoadCached(Requested(f), cached, w), f)
           = NimCard(LoadSources(Requested(f), f, w), f)
<1>1. IsDate(f.date)
  BY DEF IsFilter
<1>2. IsDate(Previous(f).date)
  <2>1. -1 \in Int /\ -1 <= 0 /\ -1 + 11 >= 0
    OBVIOUS
  <2>2. IsDate(Shift(f, -1).date)
    BY <2>1, PointIs
  <2> QED BY <2>2, LastPoints
<1>3. f \in ReportFilters(f) /\ Previous(f) \in ReportFilters(f)
  <2>1. Points(f)[12] = Shift(f, 0)
    BY DEF Points
  <2>2. Points(f)[12] = f
    BY <2>1, LastPoints
  <2> QED BY <2>2 DEF ReportFilters
<1>4. f.date \in Requested(f) /\ Previous(f).date \in Requested(f)
  BY <1>3 DEF Requested
<1>5. NimCard(LoadCached(Requested(f), cached, w), f)
        = NimCard(LoadSources(Requested(f), f, w), f)
  BY <1>1, <1>2, <1>4, CardOfCache, CardOfSources, SMTT(30)
<1> QED BY <1>5

\* CacheChangesNoNim for every date, gap and set of cached days.
LEMMA NimFromCache ==
  ASSUME NEW f, IsFilter(f), NEW today, IsDate(today)
  PROVE  CacheChangesNoNim(f, today)
<1> SUFFICES ASSUME NEW gaps \in GapsOf(f), NEW w \in Worlds(today, gaps),
                    NEW cached \in Caches(Requested(f), f),
                    today \in Requested(f) => SameCommit(cached, w)
             PROVE  NimCard(LoadCached(Requested(f), cached, w), f)
                      = NimCard(LoadSources(Requested(f), f, w), f)
  BY DEF CacheChangesNoNim
<1>1. w.today = today /\ w.loaded \in BOOLEAN /\ w.published \in BOOLEAN
  <2>1. PICK s \in {"loaded", "published", "none"} :
          w = [today |-> today, gaps |-> gaps,
               loaded |-> s = "loaded", published |-> s = "published"]
    BY DEF Worlds
  <2>2. w.today = today
    BY <2>1
  <2>3. w.loaded = (s = "loaded") /\ w.published = (s = "published")
    BY <2>1
  <2>4. (s = "loaded") \in BOOLEAN /\ (s = "published") \in BOOLEAN
    OBVIOUS
  <2> QED BY <2>2, <2>3, <2>4
<1> QED BY <1>1, CacheChangesNothing DEF IsWorld

=============================================================================
