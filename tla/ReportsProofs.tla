--------------------------- MODULE ReportsProofs ---------------------------
(***************************************************************************)
(* Proofs about the figures of periods, for every set of loans, branches   *)
(* and days with bookings; about the dates that the walk of `today` meets, *)
(* on every day of any calendar; and about the maturity page and its       *)
(* account tables, for any deposits and any size of a page.                *)
(***************************************************************************)
EXTENDS Reports, CalendarProofs, Sums, SequenceTheorems

-----------------------------------------------------------------------------
(* Today. *)

\* Tomorrow is a date.
LEMMA NextDayIsDate ==
  ASSUME NEW date, IsDate(date)
  PROVE  IsDate(NextDay(date))
<1>1. /\ date.y \in Int /\ date.m \in Int /\ date.d \in 1..31
      /\ date.y + 0 = date.y /\ date.m + 0 = date.m
  BY DateFields
<1>2. date.d + 1 \in Int /\ date.d + 1 + 28 > 0 /\ date.d + 1 <= 56
  BY <1>1
<1>3. NextDay(date) = Date(date.y, date.m, date.d + 1)
  BY <1>1 DEF NextDay, AddDate
<1> QED BY <1>1, <1>2, <1>3, DateIsDate

\* Tomorrow is later.
LEMMA NextDayIsLater ==
  ASSUME NEW date, IsDate(date)
  PROVE  Before(date, NextDay(date))
<1> DEFINE g == FirstOf(date.y, date.m)
           h == FirstOf(date.y, date.m + 1)
           p == NextDay(date)
<1>1. /\ date.y \in Int /\ date.m \in 1..12 /\ date.m \in Int /\ date.d \in 1..31
      /\ date.m + 1 \in Int
      /\ date.y + 0 = date.y /\ date.m + 0 = date.m
      /\ date.d + 1 \in Int /\ date.d + 1 <= 56
  BY DateFields
<1>2. p = Date(date.y, date.m, date.d + 1)
  BY <1>1 DEF NextDay, AddDate
<1>3. g.y = date.y /\ g.m = date.m /\ Length(g) \in 28..31
  BY DateOfItself
<1>4. CASE date.d + 1 \in 1..Length(g)
  <2>1. LET f == FirstOf(date.y, date.m)
            day == Date(date.y, date.m, date.d + 1)
        IN IsDate(day) /\ day.y = f.y /\ day.m = f.m /\ day.d = date.d + 1
    BY <1>1, <1>4, DateWithin
  <2> HIDE DEF p
  <2>2. p.y = date.y /\ p.m = date.m /\ p.d = date.d + 1
    BY <1>2, <1>3, <2>1
  <2>3. Before(date, p)
    BY <1>1, <2>2 DEF Before
  <2> QED BY <2>3 DEF p
<1>5. CASE date.d + 1 > Length(g)
  <2>1. p.y = h.y /\ p.m = h.m
    <3> DEFINE e == date.d + 1
    <3>1. /\ date.y \in Int /\ date.m \in Int /\ e \in Int
          /\ e > Length(FirstOf(date.y, date.m)) /\ e <= 56
      BY <1>1, <1>5
    <3> HIDE DEF e
    <3>2. LET f == FirstOf(date.y, date.m + 1)
              day == Date(date.y, date.m, e)
          IN /\ IsDate(day)
             /\ day.y = f.y /\ day.m = f.m /\ day.d = e - Length(FirstOf(date.y, date.m))
      BY <3>1, DateLater
    <3> QED BY <1>2, <3>2 DEF e
  <2> HIDE DEF p
  <2>2. IsDate(h) /\ 12 * h.y + h.m = 12 * date.y + (date.m + 1)
    BY <1>1, FirstOfMonth
  <2>3. h.y \in Int /\ h.m \in 1..12
    <3> HIDE DEF h
    <3> QED BY <2>2, DateFields
  <2> HIDE DEF h
  <2>5. 12 * date.y + date.m < 12 * h.y + h.m
    BY <1>1, <2>2, <2>3
  <2>6. date.y < h.y \/ (date.y = h.y /\ date.m < h.m)
    BY <1>1, <2>3, <2>5, LaterMonth
  <2>7. Before(date, p)
    BY <2>1, <2>6 DEF Before
  <2> QED BY <2>7 DEF p
<1>6. date.d + 1 \in 1..Length(g) \/ date.d + 1 > Length(g)
  <2> HIDE DEF g
  <2> QED BY <1>1, <1>3
<1> QED BY <1>4, <1>5, <1>6

\* The calendar has dates.
THEOREM TodayIsDate == Spec => []IsDate(today)
<1>1. Init => IsDate(today)
  BY ReportsAssumption DEF Init
<1>2. IsDate(today) /\ [Next]_vars => IsDate(today)'
  <2> SUFFICES ASSUME IsDate(today), [Next]_vars PROVE IsDate(today')
    BY DEF IsDate
  <2>1. CASE Midnight
    BY <2>1, NextDayIsDate DEF Midnight
  <2>2. CASE ~Midnight
    <3>1. today' = today
      BY <2>2 DEF Next, vars, Book, Close, Sign, RefreshReads, RefreshPublishes, ChunkReads,
                  ChunkWrites
    <3> QED BY <3>1
  <2> QED BY <2>1, <2>2
<1> QED BY <1>1, <1>2, PTL DEF Spec

\* What may be asked for are dates.
LEMMA AskedAreDates ==
  ASSUME IsDate(today) PROVE \A in \in Asked : IsDate(in)
<1>1. /\ today.y \in Int /\ today.m \in Int /\ today.d \in 1..31 /\ today.m + 1 \in Int
      /\ 0 \in Int /\ 0 + 28 > 0 /\ 0 <= 56
  BY DateFields
<1>2. IsDate(Date(today.y, today.m, 0))
  BY <1>1, DateIsDate
<1>3. IsDate(FirstOf(today.y, today.m + 1))
  BY <1>1, FirstOfMonth
<1>4. IsDate(AddDate(today, -1, 0, 0)) /\ IsDate(AddDate(today, 1, 0, 0))
  BY ShiftYears
<1> QED BY <1>2, <1>3, <1>4, NextDayIsDate DEF Asked

\* The filters of a page are dates of a mode.
LEMMA FiltersAreFilters ==
  ASSUME IsDate(today) PROVE \A f \in FiltersOfToday : IsFilter(f)
<1> SUFFICES ASSUME NEW mode \in Modes, NEW in \in {today, Date(today.y, today.m, 0)}
             PROVE  IsFilter(ParseFilterAt(mode, in, today))
  BY DEF FiltersOfToday
<1>1. IsDate(in)
  BY AskedAreDates DEF Asked
<1> DEFINE f == ParseFilterAt(mode, in, today)
<1>2. f = [mode |-> mode, date |-> f.date] /\ IsDate(f.date)
  BY <1>1, ParseFilterIs
<1> HIDE DEF f
<1>3. IsFilter(f)
  BY <1>2 DEF IsFilter
<1> QED BY <1>3 DEF f

-----------------------------------------------------------------------------
(* The laws of dates. *)

\* Every period asked for opens a filter of that period, and its links open the same
\* filter again, on every day (domain.ParseFilterAt).
THEOREM FiltersOpenAgain == Spec => []PeriodsOpenAgain
<1>1. IsDate(today) => PeriodsOpenAgain
  BY AskedAreDates, PeriodsOpen DEF PeriodsOpenAgain
<1> QED BY <1>1, TodayIsDate, PTL

\* Cards are compared with their chart's last but one bar, bars share no day, and months
\* are compared up to the same day, on every day (domain.Previous, shift).
THEOREM FiguresAreComparable == Spec => []ComparedLikeWithLike
<1>1. IsDate(today) => ComparedLikeWithLike
  BY FiltersAreFilters, ComparedWithPoint, PointsApart, MonthsAlike DEF ComparedLikeWithLike
<1> QED BY <1>1, TodayIsDate, PTL

\* NIM averages one balance sheet for each month so far, on every day (nimDate).
THEOREM OneSampleEachMonth == Spec => []NimSamples
<1>1. IsDate(today) => NimSamples
  BY FiltersAreFilters, SamplesApart DEF NimSamples, IsFilter
<1> QED BY <1>1, TodayIsDate, PTL

\* The NIM of a card does not depend on which days are cached, on every day (cachedSnapshot,
\* load and metricRows).
THEOREM CacheKeepsNim == Spec => []NimFromAnywhere
<1>1. IsDate(today) => NimFromAnywhere
  BY FiltersAreFilters, NimFromCache DEF NimFromAnywhere
<1> QED BY <1>1, TodayIsDate, PTL

-----------------------------------------------------------------------------
(* Sums of signed applications. *)

\* Applications of each day and branch.
Applications == [Window -> [Branches -> Nat]]

\* Over all days and branches.
AllOf(c) == SumFunction([d \in Window |-> Of(c[d], "ALL")])

\* The channeling metrics of a day, of the applications c.
RowOf(c, d) ==
  [booking |-> [s \in Scopes |-> Of(c[d], s)],
   plafond |-> [s \in Scopes |-> SumFunction([e \in Until[d] |-> Of(c[e], s)])]]

\* A branch has no more applications than all branches.
LEMMA OfIsPart ==
  ASSUME NEW n \in [Branches -> Nat], NEW s \in Scopes
  PROVE  Of(n, s) \in Nat /\ Of(n, "ALL") \in Nat /\ Of(n, s) <= Of(n, "ALL")
<1>1. Of(n, "ALL") = SumFunctionOnSet(n, Branches)
  BY DEF Of, SumFunction
<1>2. IsFiniteSet(Branches) /\ \A b \in Branches : n[b] \in Nat
  BY NominativeAssumption
<1>3. Of(n, "ALL") \in Nat
  BY <1>1, <1>2, SumNat
<1>4. CASE s = "ALL"
  BY <1>3, <1>4
<1>5. CASE s # "ALL"
  <2>1. s \in Branches /\ Of(n, s) = n[s]
    BY <1>5 DEF Scopes, Of
  <2>2. n[s] <= SumFunctionOnSet(n, Branches)
    BY <1>2, <2>1, SumHasEach
  <2> QED BY <1>1, <1>2, <1>3, <2>1, <2>2
<1> QED BY <1>4, <1>5

\* No figure exceeds the number of applications.
LEMMA RowsBounded ==
  ASSUME NEW c \in Applications
  PROVE  /\ AllOf(c) \in Nat
         /\ \A d \in Window, b \in Branches : c[d][b] <= AllOf(c)
         /\ \A d \in Window :
              RowOf(c, d) \in [booking : [Scopes -> 0..AllOf(c)], plafond : [Scopes -> 0..AllOf(c)]]
<1> DEFINE F(s) == [e \in Window |-> Of(c[e], s)]
<1>1. \A e \in Window : c[e] \in [Branches -> Nat]
  BY DEF Applications
<1>2. \A s \in Scopes : \A e \in Window :
        F(s)[e] = Of(c[e], s) /\ F(s)[e] \in Nat /\ F("ALL")[e] \in Nat /\ F(s)[e] <= F("ALL")[e]
  BY <1>1, OfIsPart
<1>3. IsFiniteSet(Window)
  BY ReportsAssumption
<1>4. AllOf(c) = SumFunctionOnSet(F("ALL"), Window)
  BY DEF AllOf, SumFunction
<1>5. "ALL" \in Scopes /\ \A b \in Branches : b \in Scopes
  BY DEF Scopes
<1>6. \A e \in Window : F("ALL")[e] \in Nat
  BY <1>2, <1>5
<1> HIDE DEF F
<1>7. AllOf(c) \in Nat
  BY <1>3, <1>4, <1>6, SumNat
<1>8. ASSUME NEW d \in Window, NEW s \in Scopes
      PROVE  Of(c[d], s) \in 0..AllOf(c)
  <2>1. F("ALL")[d] <= SumFunctionOnSet(F("ALL"), Window)
    BY <1>3, <1>6, SumHasEach
  <2>2. F(s)[d] = Of(c[d], s) /\ F(s)[d] \in Nat /\ F("ALL")[d] \in Nat /\ F(s)[d] <= F("ALL")[d]
    BY <1>2
  <2> QED BY <1>4, <1>7, <2>1, <2>2
<1>9. ASSUME NEW d \in Window, NEW b \in Branches
      PROVE  c[d][b] <= AllOf(c)
  <2>1. c[d][b] \in Nat /\ F("ALL")[d] \in Nat /\ F("ALL")[d] = Of(c[d], "ALL")
    BY <1>1, <1>2, <1>5
  <2>2. c[d][b] <= Of(c[d], "ALL")
    <3>1. Of(c[d], "ALL") = SumFunctionOnSet(c[d], Branches)
      BY <1>1 DEF Of, SumFunction
    <3>2. IsFiniteSet(Branches) /\ \A k \in Branches : c[d][k] \in Nat
      BY <1>1, NominativeAssumption
    <3> QED BY <3>1, <3>2, SumHasEach
  <2>3. F("ALL")[d] <= SumFunctionOnSet(F("ALL"), Window)
    BY <1>3, <1>6, SumHasEach
  <2> QED BY <1>4, <1>7, <2>1, <2>2, <2>3
<1>10. ASSUME NEW d \in Window, NEW s \in Scopes
       PROVE  SumFunction([e \in Until[d] |-> Of(c[e], s)]) \in 0..AllOf(c)
  <2> DEFINE U == Until[d]
             G == [e \in U |-> Of(c[e], s)]
  <2>1. U \in SUBSET Window
    BY DEF Until
  <2>2. IsFiniteSet(U)
    BY <1>3, <2>1, FS_Subset
  <2>3. \A e \in U : G[e] = F(s)[e]
    BY <1>2, <2>1
  <2>4. SumFunction(G) = SumFunctionOnSet(G, U)
    BY DEF SumFunction
  <2> HIDE DEF U, G
  <2>5. SumFunctionOnSet(G, U) = SumFunctionOnSet(F(s), U)
    BY <2>2, <2>3, SumCongruence
  <2>6. \A e \in U : F(s)[e] \in Nat /\ F("ALL")[e] \in Nat /\ F(s)[e] <= F("ALL")[e]
    BY <1>2, <2>1
  <2>7. SumFunctionOnSet(F(s), U) \in Nat
    BY <2>2, <2>6, SumNat
  <2>8. SumFunctionOnSet(F(s), U) <= SumFunctionOnSet(F("ALL"), U)
    <3>1. \A e \in U : F(s)[e] \in Int /\ F("ALL")[e] \in Int /\ F(s)[e] <= F("ALL")[e]
      BY <2>6
    <3> QED BY <2>2, <3>1, SumAtMost
  <2>9. SumFunctionOnSet(F("ALL"), U) <= SumFunctionOnSet(F("ALL"), Window)
    BY <1>3, <1>6, <2>1, SumMonotone
  <2>10. SumFunctionOnSet(F("ALL"), U) \in Nat
    BY <2>2, <2>6, SumNat
  <2>11. SumFunction(G) \in 0..AllOf(c)
    BY <1>4, <1>7, <2>4, <2>5, <2>7, <2>8, <2>9, <2>10
  <2> QED BY <2>11 DEF G, U
<1>11. ASSUME NEW d \in Window
       PROVE  RowOf(c, d) \in [booking : [Scopes -> 0..AllOf(c)], plafond : [Scopes -> 0..AllOf(c)]]
  <2> DEFINE booking == [s \in Scopes |-> Of(c[d], s)]
             plafond == [s \in Scopes |-> SumFunction([e \in Until[d] |-> Of(c[e], s)])]
  <2>1. booking \in [Scopes -> 0..AllOf(c)]
    BY <1>8
  <2>2. plafond \in [Scopes -> 0..AllOf(c)]
    BY <1>10
  <2>3. RowOf(c, d) = [booking |-> booking, plafond |-> plafond]
    BY DEF RowOf
  <2> HIDE DEF booking, plafond
  <2> QED BY <2>1, <2>2, <2>3
<1> QED BY <1>7, <1>9, <1>11

\* One application more.
LEMMA OneMore ==
  ASSUME NEW c \in Applications, NEW d \in Window, NEW b \in Branches,
         NEW n, n = [c EXCEPT ![d][b] = @ + 1]
  PROVE  n \in Applications /\ AllOf(n) = AllOf(c) + 1
<1> DEFINE F == [e \in Window |-> Of(c[e], "ALL")]
           G == [e \in Window |-> Of(n[e], "ALL")]
<1>1. /\ \A e \in Window : c[e] \in [Branches -> Nat]
      /\ n \in Applications /\ n[d] = [c[d] EXCEPT ![b] = @ + 1]
      /\ \A e \in Window \ {d} : n[e] = c[e]
  BY DEF Applications
<1>2. Of(n[d], "ALL") = Of(c[d], "ALL") + 1
  <2> DEFINE p == c[d]
             q == n[d]
  <2>1. /\ p \in [Branches -> Nat] /\ q \in [Branches -> Nat] /\ q[b] = p[b] + 1
        /\ \A k \in Branches \ {b} : q[k] = p[k]
    BY <1>1 DEF Applications
  <2>2. IsFiniteSet(Branches) /\ (\A k \in Branches : p[k] \in Int) /\ p[b] \in Int /\ q[b] \in Int
    BY <2>1, NominativeAssumption
  <2>3. Of(p, "ALL") = SumFunctionOnSet(p, Branches) /\ Of(q, "ALL") = SumFunctionOnSet(q, Branches)
    BY <2>1 DEF Of, SumFunction
  <2> HIDE DEF p, q
  <2>4. SumFunctionOnSet(q, Branches) = SumFunctionOnSet(p, Branches) + q[b] - p[b]
    BY <2>1, <2>2, SumExcept
  <2>5. SumFunctionOnSet(p, Branches) \in Int
    BY <2>2, SumInt
  <2>6. Of(q, "ALL") = Of(p, "ALL") + 1
    BY <2>1, <2>2, <2>3, <2>4, <2>5
  <2> QED BY <2>6 DEF p, q
<1>3. /\ \A e \in Window : F[e] \in Int /\ F[e] = Of(c[e], "ALL") /\ G[e] = Of(n[e], "ALL")
      /\ \A e \in Window \ {d} : G[e] = F[e]
  <2>1. "ALL" \in Scopes
    BY DEF Scopes
  <2>2. \A e \in Window : Of(c[e], "ALL") \in Int
    BY <1>1, <2>1, OfIsPart
  <2> QED BY <1>1, <2>2
<1>4. AllOf(c) = SumFunctionOnSet(F, Window) /\ AllOf(n) = SumFunctionOnSet(G, Window)
  BY DEF AllOf, SumFunction
<1> HIDE DEF F, G
<1>5. F[d] \in Int /\ G[d] = F[d] + 1 /\ G[d] \in Int /\ IsFiniteSet(Window)
  BY <1>2, <1>3, ReportsAssumption
<1>6. SumFunctionOnSet(G, Window) = SumFunctionOnSet(F, Window) + G[d] - F[d]
  BY <1>3, <1>5, SumExcept
<1>7. SumFunctionOnSet(F, Window) \in Int
  BY <1>3, <1>5, SumInt
<1> QED BY <1>1, <1>4, <1>5, <1>6, <1>7

\* materializeChanneling computes, for each day, what is signed for it and until it,
\* whatever the other days of the job.
LEMMA ComputedRows ==
  ASSUME NEW from \in Window, NEW to \in Window
  PROVE  ChannelingRows(from, to) = [d \in Between(from, to) |-> RowOf(signed, d)]
<1> DEFINE daily == Daily(to)
<1>1. daily = [e \in Until[to] |-> signed[e]] /\ DOMAIN daily = Until[to]
  BY DEF Daily
<1>2. \A e \in Until[to] : daily[e] = signed[e]
  BY <1>1
<1>3. ASSUME NEW d \in Between(from, to)
      PROVE  d \in DOMAIN daily /\ Until[d] \cap DOMAIN daily = Until[d] /\ d \in Window
  <2>1. d \in Window /\ ~Before(to, d)
    BY DEF Between
  <2>2. \A e \in Window : ~Before(d, e) => ~Before(to, e)
    BY <2>1, ReportsAssumption, BeforeTransitive
  <2> HIDE DEF daily
  <2> QED BY <1>1, <2>1, <2>2 DEF Until
<1> HIDE DEF daily
<1>4. ASSUME NEW d \in Between(from, to), NEW s \in Scopes
      PROVE  /\ (IF d \in DOMAIN daily THEN Of(daily[d], s) ELSE 0) = Of(signed[d], s)
             /\ [e \in Until[d] \cap DOMAIN daily |-> Of(daily[e], s)]
                  = [e \in Until[d] |-> Of(signed[e], s)]
  <2>1. d \in DOMAIN daily /\ Until[d] \cap DOMAIN daily = Until[d]
    BY <1>3
  <2>2. \A e \in Until[d] : daily[e] = signed[e]
    BY <1>1, <1>2, <2>1
  <2> QED BY <1>1, <1>2, <2>1, <2>2
<1> QED BY <1>4 DEF ChannelingRows, RowOf, daily

-----------------------------------------------------------------------------
(* Types, and what keeps the counts within their bound. *)

\* Metrics are of past days or today.
RowsTyped ==
  /\ DOMAIN rows = Window /\ built \subseteq Window /\ stale \subseteq Window
  /\ \A d \in Window : rows[d] # NoRow => ~Before(today, d)

\* So are computed ones; a chunk's are of past days.
JobsTyped ==
  /\ DOMAIN jobs = Writers
  /\ \A w \in Writers :
       LET new == jobs[w].rows IN
         /\ jobs[w] = [rows |-> new, missed |-> jobs[w].missed]
         /\ \A d \in DOMAIN new : d \in Window /\ ~Before(today, d) /\ new[d] \in Counts
  /\ \A d \in DOMAIN jobs["materialize"].rows : Before(d, today)

Typed == TypeOK /\ RowsTyped /\ JobsTyped /\ Changes <= MaxChanges

\* A loan that is not entered begins on no day.
LEMMA NoDateIsNone == NoDate \notin Window
<1>1. ~IsDate(NoDate)
  BY DEF IsDate, NoDate
<1> QED BY <1>1, ReportsAssumption

\* Metrics are told apart from none.
LEMMA CountedRows == \A r \in Counts : r # NoRow
<1> SUFFICES ASSUME NEW r \in Counts, r = NoRow PROVE FALSE
  OBVIOUS
<1>1. r.booking \in [Scopes -> 0..MaxChanges] /\ r.booking = <<>>
  BY DEF Counts, NoRow
<1>2. DOMAIN r.booking = Scopes /\ "ALL" \in Scopes
  BY <1>1 DEF Scopes
<1>3. DOMAIN <<>> = {}
  OBVIOUS
<1> QED BY <1>1, <1>2, <1>3

\* The three kinds of change are counted apart.
LEMMA ChangesAre ==
  ASSUME TypeOK
  PROVE  /\ signed \in Applications
         /\ Changes = Cardinality({l \in Loans : begun[l] # NoDate})
                      + Cardinality({l \in Loans : begun[l] # NoDate /\ l \notin open})
                      + AllOf(signed)
         /\ Cardinality({l \in Loans : begun[l] # NoDate}) \in Nat
         /\ Cardinality({l \in Loans : begun[l] # NoDate /\ l \notin open}) \in Nat
         /\ AllOf(signed) \in Nat
<1>1. signed \in Applications
  BY DEF TypeOK, Applications
<1>2. IsFiniteSet(Loans) /\ \A S \in SUBSET Loans : IsFiniteSet(S)
  BY ReportsAssumption, FS_Subset
<1>3. \A S \in SUBSET Loans : Cardinality(S) \in Nat
  BY <1>2, FS_CardinalityType
<1>4. Changes = Cardinality({l \in Loans : begun[l] # NoDate})
                + Cardinality({l \in Loans : begun[l] # NoDate /\ l \notin open})
                + AllOf(signed)
  BY DEF Changes, AllOf
<1> QED BY <1>1, <1>3, <1>4, RowsBounded

\* A job's metrics are within their bounds.
LEMMA ComputedTyped ==
  ASSUME TypeOK, Changes <= MaxChanges, NEW from \in Window, NEW to \in Window
  PROVE  /\ DOMAIN ChannelingRows(from, to) = Between(from, to)
         /\ \A d \in Between(from, to) : ChannelingRows(from, to)[d] \in Counts
<1>1. AllOf(signed) \in Nat /\ AllOf(signed) <= MaxChanges /\ signed \in Applications
  BY ChangesAre, ReportsAssumption
<1>2. ChannelingRows(from, to) = [d \in Between(from, to) |-> RowOf(signed, d)]
  BY ComputedRows
<1>3. ASSUME NEW d \in Window PROVE RowOf(signed, d) \in Counts
  <2>1. RowOf(signed, d) \in [booking : [Scopes -> 0..AllOf(signed)],
                              plafond : [Scopes -> 0..AllOf(signed)]]
    BY <1>1, RowsBounded
  <2>2. 0..AllOf(signed) \subseteq 0..MaxChanges
    BY <1>1, ReportsAssumption
  <2> HIDE DEF RowOf
  <2> QED BY <2>1, <2>2 DEF Counts
<1>4. Between(from, to) \subseteq Window
  BY DEF Between
<1> QED BY <1>2, <1>3, <1>4

\* The invariant holds at first.
LEMMA InitTyped == Init => Typed
<1> SUFFICES ASSUME Init PROVE Typed
  OBVIOUS
<1>1. IsDate(today) /\ live \in BOOLEAN
  BY ReportsAssumption DEF Init
<1>2. /\ begun \in [Loans -> {NoDate} \cup Window] /\ open = {}
      /\ \A l \in Loans : begun[l] = NoDate
  BY DEF Init
<1>3. eod \in [Window -> SUBSET Loans] /\ built = {} /\ stale = {}
  BY DEF Init
<1>4. signed \in [Window -> [Branches -> 0..MaxChanges]]
  BY ReportsAssumption DEF Init
<1>5. DOMAIN rows = Window /\ \A d \in Window : rows[d] = NoRow
  BY DEF Init
<1>6. DOMAIN jobs = Writers /\ \A w \in Writers : jobs[w] = NoJob
  BY DEF Init
<1>7. /\ DOMAIN NoJob.rows = {} /\ NoJob.missed = {}
      /\ NoJob = [rows |-> NoJob.rows, missed |-> NoJob.missed]
  BY DEF NoJob
<1>8. TypeOK
  BY <1>1, <1>2, <1>3, <1>4, <1>5, <1>6, <1>7 DEF TypeOK
<1>9. RowsTyped
  BY <1>3, <1>5 DEF RowsTyped
<1>10. JobsTyped
  <2>1. "materialize" \in Writers
    BY DEF Writers
  <2> HIDE DEF NoJob
  <2> QED BY <1>6, <1>7, <2>1 DEF JobsTyped
<1>11. Changes = 0
  <2>1. /\ {l \in Loans : begun[l] # NoDate} = {}
        /\ {l \in Loans : begun[l] # NoDate /\ l \notin open} = {}
    BY <1>2
  <2>2. Cardinality({}) = 0
    BY FS_EmptySet
  <2>3. AllOf(signed) = 0
    <3> DEFINE F == [d \in Window |-> Of(signed[d], "ALL")]
    <3>1. AllOf(signed) = SumFunctionOnSet(F, Window)
      BY DEF AllOf, SumFunction
    <3>2. ASSUME NEW d \in Window PROVE Of(signed[d], "ALL") = 0
      <4> DEFINE n == [b \in Branches |-> 0]
      <4>1. signed[d] = n /\ Of(n, "ALL") = SumFunctionOnSet(n, Branches)
        BY DEF Init, Of, SumFunction
      <4>2. IsFiniteSet(Branches) /\ \A b \in Branches : n[b] = 0
        BY NominativeAssumption
      <4> HIDE DEF n
      <4>3. SumFunctionOnSet(n, Branches) = 0
        BY <4>2, SumZero
      <4> QED BY <4>1, <4>3
    <3>3. IsFiniteSet(Window) /\ \A d \in Window : F[d] = 0
      BY <3>2, ReportsAssumption
    <3> HIDE DEF F
    <3> QED BY <3>1, <3>3, SumZero
  <2> QED BY <1>8, <2>1, <2>2, <2>3, ChangesAre
<1> QED BY <1>8, <1>9, <1>10, <1>11, ReportsAssumption DEF Typed

\* Book: one loan more that is entered.
LEMMA BookTyped ==
  ASSUME Typed, NEW l \in Loans, NEW d \in Window, Book(l, d)
  PROVE  Typed'
<1>1. /\ begun[l] = NoDate /\ begun' = [begun EXCEPT ![l] = d] /\ open' = open \cup {l}
      /\ Changes < MaxChanges
      /\ UNCHANGED <<today, eod, live, built, signed, rows, jobs, stale>>
  BY DEF Book, MayChange, channelVars
<1>2. begun \in [Loans -> {NoDate} \cup Window] /\ open \subseteq {k \in Loans : begun[k] # NoDate}
  BY DEF Typed, TypeOK
<1>3. d # NoDate
  BY NoDateIsNone
<1>4. /\ begun' \in [Loans -> {NoDate} \cup Window]
      /\ open' \subseteq {k \in Loans : begun'[k] # NoDate}
  BY <1>1, <1>2, <1>3
<1>5. TypeOK'
  BY <1>1, <1>4 DEF Typed, TypeOK
<1>6. RowsTyped' /\ JobsTyped'
  BY <1>1 DEF Typed, RowsTyped, JobsTyped
<1>7. Changes' <= MaxChanges
  <2> DEFINE A == {k \in Loans : begun[k] # NoDate}
             C == {k \in Loans : begun[k] # NoDate /\ k \notin open}
  <2>1. /\ {k \in Loans : begun'[k] # NoDate} = A \cup {l} /\ l \notin A
        /\ {k \in Loans : begun'[k] # NoDate /\ k \notin open'} = C
    BY <1>1, <1>2, <1>3
  <2>2. IsFiniteSet(A)
    BY ReportsAssumption, FS_Subset
  <2> HIDE DEF A, C
  <2>3. Cardinality(A \cup {l}) = Cardinality(A) + 1
    BY <2>1, <2>2, FS_AddElement
  <2>4. Changes' = Cardinality(A \cup {l}) + Cardinality(C) + AllOf(signed)
    BY <1>1, <2>1 DEF Changes, AllOf
  <2>5. /\ Changes = Cardinality(A) + Cardinality(C) + AllOf(signed)
        /\ Cardinality(A) \in Nat /\ Cardinality(C) \in Nat /\ AllOf(signed) \in Nat
    BY ChangesAre DEF Typed, A, C
  <2> QED BY <1>1, <2>3, <2>4, <2>5, ReportsAssumption
<1> QED BY <1>5, <1>6, <1>7 DEF Typed

\* Close: one loan more that is closed.
LEMMA CloseTyped ==
  ASSUME Typed, NEW l \in Loans, Close(l)
  PROVE  Typed'
<1>1. /\ l \in open /\ open' = open \ {l} /\ Changes < MaxChanges
      /\ UNCHANGED <<today, begun, eod, live, built, signed, rows, jobs, stale>>
  BY DEF Close, MayChange, channelVars
<1>2. open \subseteq {k \in Loans : begun[k] # NoDate}
  BY DEF Typed, TypeOK
<1>3. TypeOK'
  BY <1>1, <1>2 DEF Typed, TypeOK
<1>4. RowsTyped' /\ JobsTyped'
  BY <1>1 DEF Typed, RowsTyped, JobsTyped
<1>5. Changes' <= MaxChanges
  <2> DEFINE A == {k \in Loans : begun[k] # NoDate}
             C == {k \in Loans : begun[k] # NoDate /\ k \notin open}
  <2>1. /\ {k \in Loans : begun'[k] # NoDate} = A
        /\ {k \in Loans : begun'[k] # NoDate /\ k \notin open'} = C \cup {l} /\ l \notin C
    BY <1>1, <1>2
  <2>2. IsFiniteSet(C)
    BY ReportsAssumption, FS_Subset
  <2> HIDE DEF A, C
  <2>3. Cardinality(C \cup {l}) = Cardinality(C) + 1
    BY <2>1, <2>2, FS_AddElement
  <2>4. Changes' = Cardinality(A) + Cardinality(C \cup {l}) + AllOf(signed)
    BY <1>1, <2>1 DEF Changes, AllOf
  <2>5. /\ Changes = Cardinality(A) + Cardinality(C) + AllOf(signed)
        /\ Cardinality(A) \in Nat /\ Cardinality(C) \in Nat /\ AllOf(signed) \in Nat
    BY ChangesAre DEF Typed, A, C
  <2> QED BY <1>1, <2>3, <2>4, <2>5, ReportsAssumption
<1> QED BY <1>3, <1>4, <1>5 DEF Typed

\* Sign: one application more; the metrics that lack it are stale.
LEMMA SignTyped ==
  ASSUME Typed, NEW d \in Window, NEW b \in Branches, Sign(d, b)
  PROVE  Typed'
<1> DEFINE counts(e) == ~Before(e, d)
<1>1. /\ Changes < MaxChanges /\ signed' = [signed EXCEPT ![d][b] = @ + 1]
      /\ stale' = stale \cup {e \in Window : rows[e] # NoRow /\ counts(e)}
      /\ jobs' = [w \in Writers |->
                   [jobs[w] EXCEPT !.missed = @ \cup {e \in DOMAIN jobs[w].rows : counts(e)}]]
      /\ UNCHANGED <<today, live, begun, open, eod, built, rows>>
  BY DEF Sign, MayChange, loanVars
<1>2. /\ signed \in Applications
      /\ Changes = Cardinality({l \in Loans : begun[l] # NoDate})
                   + Cardinality({l \in Loans : begun[l] # NoDate /\ l \notin open})
                   + AllOf(signed)
      /\ Cardinality({l \in Loans : begun[l] # NoDate}) \in Nat
      /\ Cardinality({l \in Loans : begun[l] # NoDate /\ l \notin open}) \in Nat
      /\ AllOf(signed) \in Nat
  BY ChangesAre DEF Typed
<1>3. signed' \in Applications /\ AllOf(signed') = AllOf(signed) + 1
  BY <1>1, <1>2, OneMore, ZenonT(60)
<1>4. Changes' <= MaxChanges
  <2>1. Changes' = Cardinality({l \in Loans : begun[l] # NoDate})
                   + Cardinality({l \in Loans : begun[l] # NoDate /\ l \notin open})
                   + AllOf(signed')
    BY <1>1 DEF Changes, AllOf
  <2> QED BY <1>1, <1>2, <1>3, <2>1, ReportsAssumption
<1>5. signed' \in [Window -> [Branches -> 0..MaxChanges]]
  <2>1. AllOf(signed') \in Nat /\ AllOf(signed') <= MaxChanges
    BY <1>1, <1>2, <1>3, ReportsAssumption
  <2>2. \A e \in Window, k \in Branches : signed'[e][k] <= AllOf(signed')
    BY <1>3, RowsBounded
  <2>3. signed' \in [Window -> [Branches -> Nat]]
    BY <1>3 DEF Applications
  <2>4. \A e \in Window, k \in Branches : signed'[e][k] \in 0..MaxChanges
    BY <2>1, <2>2, <2>3, ReportsAssumption
  <2> QED BY <2>3, <2>4
<1>6. \A e \in stale' : ~Before(today, e) /\ rows[e] # NoRow
  BY <1>1 DEF Typed, TypeOK, RowsTyped
<1>7. /\ DOMAIN jobs' = Writers
      /\ \A w \in Writers :
           /\ jobs'[w].rows = jobs[w].rows
           /\ jobs'[w].missed = jobs[w].missed \cup {e \in DOMAIN jobs[w].rows : counts(e)}
           /\ jobs'[w] = [rows |-> jobs'[w].rows, missed |-> jobs'[w].missed]
  <2> SUFFICES ASSUME NEW w \in Writers
               PROVE  /\ jobs'[w].rows = jobs[w].rows
                      /\ jobs'[w].missed
                           = jobs[w].missed \cup {e \in DOMAIN jobs[w].rows : counts(e)}
                      /\ jobs'[w] = [rows |-> jobs'[w].rows, missed |-> jobs'[w].missed]
    BY <1>1
  <2> DEFINE missed == jobs[w].missed \cup {e \in DOMAIN jobs[w].rows : counts(e)}
  <2>1. jobs[w] = [rows |-> jobs[w].rows, missed |-> jobs[w].missed]
    BY DEF Typed, JobsTyped
  <2>2. jobs'[w] = [jobs[w] EXCEPT !.missed = missed]
    BY <1>1
  <2> HIDE DEF missed
  <2>3. jobs'[w] = [rows |-> jobs[w].rows, missed |-> missed]
    BY <2>1, <2>2
  <2> QED BY <2>3 DEF missed
<1>8. \A w \in Writers : jobs'[w].missed \subseteq DOMAIN jobs'[w].rows
  BY <1>7 DEF Typed, TypeOK
<1>9. TypeOK'
  BY <1>1, <1>5, <1>6, <1>8 DEF Typed, TypeOK
<1>10. RowsTyped'
  BY <1>1 DEF Typed, RowsTyped
<1>11. JobsTyped'
  <2>1. "materialize" \in Writers
    BY DEF Writers
  <2>2. DOMAIN jobs' = Writers /\ today' = today
    BY <1>1
  <2>3. \A w \in Writers : jobs'[w].rows = jobs[w].rows
                            /\ jobs'[w] = [rows |-> jobs'[w].rows, missed |-> jobs'[w].missed]
    BY <1>7
  <2> QED BY <2>1, <2>2, <2>3 DEF Typed, JobsTyped
<1> QED BY <1>4, <1>9, <1>10, <1>11 DEF Typed

\* Midnight: all that is dated stays in the past.
LEMMA MidnightTyped ==
  ASSUME Typed, Midnight
  PROVE  Typed'
<1>1. /\ today' = NextDay(today) /\ live' = FALSE
      /\ eod' = IF today \in Window THEN [eod EXCEPT ![today] = open] ELSE eod
      /\ UNCHANGED <<begun, open, built, signed, rows, jobs, stale>>
  BY DEF Midnight, channelVars
<1>2. IsDate(today) /\ IsDate(today') /\ Before(today, today')
  <2>1. IsDate(today)
    BY DEF Typed, TypeOK
  <2> QED BY <1>1, <2>1, NextDayIsDate, NextDayIsLater
<1>3. \A d \in Window : IsDate(d)
  BY ReportsAssumption
<1>4. \A d \in Window : /\ Before(d, today) => Before(d, today')
                        /\ ~Before(today, d) => ~Before(today', d)
  BY <1>2, <1>3, BeforeTransitive
<1>5. eod' \in [Window -> SUBSET Loans]
  BY <1>1 DEF Typed, TypeOK
<1>6. built \subseteq Window /\ stale \subseteq Window
  BY DEF Typed, RowsTyped
<1>9. TypeOK'
  BY <1>1, <1>2, <1>4, <1>5, <1>6 DEF Typed, TypeOK
<1>10. RowsTyped'
  BY <1>1, <1>4 DEF Typed, RowsTyped
<1>11. JobsTyped'
  BY <1>1, <1>4 DEF Typed, JobsTyped, Writers
<1>12. Changes' = Changes
  BY <1>1 DEF Changes
<1> QED BY <1>9, <1>10, <1>11, <1>12 DEF Typed

\* A writer has computed its metrics (RefreshReads, ChunkReads).
LEMMA ComputeTyped ==
  ASSUME Typed, NEW w \in Writers, NEW from \in Window, NEW to \in Window,
         Compute(w, from, to), ~Before(today, to), w = "materialize" => Before(to, today),
         UNCHANGED <<today, live, loanVars, signed, rows, stale>>
  PROVE  Typed'
<1> DEFINE new == ChannelingRows(from, to)
<1>1. /\ jobs' = [jobs EXCEPT ![w] = [rows |-> new, missed |-> {}]]
      /\ UNCHANGED <<today, live, begun, open, eod, built, signed, rows, stale>>
  BY DEF Compute, loanVars
<1>2. DOMAIN new = Between(from, to) /\ \A d \in DOMAIN new : new[d] \in Counts
  BY ComputedTyped DEF Typed
<1>3. IsDate(today) /\ (\A d \in Window : IsDate(d)) /\ DOMAIN jobs = Writers
  BY ReportsAssumption DEF Typed, TypeOK, JobsTyped
<1>4. ASSUME NEW d \in DOMAIN new
      PROVE  /\ d \in Window /\ ~Before(today, d)
             /\ w = "materialize" => Before(d, today)
  <2>1. d \in Window /\ ~Before(to, d)
    BY <1>2 DEF Between
  <2> QED BY <1>3, <2>1, BeforeTransitive
<1> HIDE DEF new
<1>5. /\ DOMAIN jobs' = Writers /\ jobs'[w] = [rows |-> new, missed |-> {}]
      /\ jobs'[w].rows = new /\ jobs'[w].missed = {}
      /\ \A v \in Writers \ {w} : jobs'[v] = jobs[v]
  BY <1>1, <1>3
<1>6. \A v \in Writers : jobs'[v].missed \subseteq DOMAIN jobs'[v].rows
  BY <1>5 DEF Typed, TypeOK
<1>7. TypeOK'
  BY <1>1, <1>6 DEF Typed, TypeOK
<1>8. RowsTyped'
  BY <1>1 DEF Typed, RowsTyped
<1>9. JobsTyped'
  <2>1. ASSUME NEW v \in Writers
        PROVE  /\ jobs'[v] = [rows |-> jobs'[v].rows, missed |-> jobs'[v].missed]
               /\ \A d \in DOMAIN jobs'[v].rows :
                    d \in Window /\ ~Before(today, d) /\ jobs'[v].rows[d] \in Counts
    <3>1. CASE v = w
      BY <1>2, <1>4, <1>5, <3>1
    <3>2. CASE v # w
      BY <1>5, <3>2 DEF Typed, JobsTyped
    <3> QED BY <3>1, <3>2
  <2>2. \A d \in DOMAIN jobs'["materialize"].rows : Before(d, today)
    <3>1. CASE w = "materialize"
      BY <1>4, <1>5, <3>1
    <3>2. CASE w # "materialize"
      BY <1>5, <3>2 DEF Typed, JobsTyped, Writers
    <3> QED BY <3>1, <3>2
  <2> QED BY <1>1, <1>5, <2>1, <2>2 DEF JobsTyped
<1>10. Changes' = Changes
  BY <1>1 DEF Changes
<1> QED BY <1>7, <1>8, <1>9, <1>10 DEF Typed

\* What put writes, and what it leaves.
LEMMA PutIs ==
  ASSUME Typed, NEW w \in Writers, Put(w), today' = today
  PROVE  /\ DOMAIN rows' = Window /\ stale' \subseteq Window /\ DOMAIN jobs[w].rows \subseteq Window
         /\ \A d \in Window :
              rows'[d] = IF d \in DOMAIN jobs[w].rows THEN jobs[w].rows[d] ELSE rows[d]
         /\ \A d \in DOMAIN jobs[w].rows : rows'[d] \in Counts
         /\ \A d \in Window : rows'[d] = NoRow \/ rows'[d] \in Counts
         /\ \A d \in Window : rows'[d] # NoRow => ~Before(today, d)
         /\ \A d \in Window : rows[d] # NoRow => rows'[d] # NoRow
         /\ \A d \in stale' : ~Before(today, d) /\ rows'[d] # NoRow
         /\ \A v \in Writers : jobs'[v].missed \subseteq DOMAIN jobs'[v].rows
         /\ JobsTyped'
<1> DEFINE new == jobs[w].rows
<1>1. /\ rows' = [d \in Window |-> IF d \in DOMAIN new THEN new[d] ELSE rows[d]]
      /\ stale' = (stale \ DOMAIN new) \cup jobs[w].missed
      /\ jobs' = [jobs EXCEPT ![w] = NoJob]
  BY DEF Put
<1>2. \A d \in DOMAIN new : d \in Window /\ ~Before(today, d) /\ new[d] \in Counts /\ new[d] # NoRow
  BY CountedRows DEF Typed, JobsTyped
<1>3. jobs[w].missed \subseteq DOMAIN new
  BY DEF Typed, TypeOK
<1>4. /\ stale \subseteq Window /\ DOMAIN jobs = Writers
      /\ \A d \in Window : rows[d] # NoRow => ~Before(today, d)
      /\ \A d \in Window : rows[d] = NoRow \/ rows[d] \in Counts
      /\ \A d \in stale : ~Before(today, d) /\ rows[d] # NoRow
  BY DEF Typed, RowsTyped, JobsTyped, TypeOK
<1>5. /\ DOMAIN NoJob.rows = {} /\ NoJob.missed = {}
      /\ NoJob = [rows |-> NoJob.rows, missed |-> NoJob.missed]
  BY DEF NoJob
<1> HIDE DEF new
<1>6. \A d \in Window : rows'[d] = IF d \in DOMAIN new THEN new[d] ELSE rows[d]
  BY <1>1
<1>7. /\ \A d \in DOMAIN new : rows'[d] \in Counts
      /\ \A d \in Window : rows'[d] = NoRow \/ rows'[d] \in Counts
      /\ \A d \in Window : rows'[d] # NoRow => ~Before(today, d)
      /\ \A d \in Window : rows[d] # NoRow => rows'[d] # NoRow
  BY <1>2, <1>4, <1>6
<1>8. stale' \subseteq Window /\ \A d \in stale' : ~Before(today, d) /\ rows'[d] # NoRow
  BY <1>1, <1>2, <1>3, <1>4, <1>6
<1>9. /\ DOMAIN jobs' = Writers /\ jobs'[w] = NoJob
      /\ \A v \in Writers \ {w} : jobs'[v] = jobs[v]
  BY <1>1, <1>4
<1>10. \A v \in Writers : jobs'[v].missed \subseteq DOMAIN jobs'[v].rows
  BY <1>5, <1>9 DEF Typed, TypeOK
<1>11. JobsTyped'
  <2>1. ASSUME NEW v \in Writers
        PROVE  /\ jobs'[v] = [rows |-> jobs'[v].rows, missed |-> jobs'[v].missed]
               /\ \A d \in DOMAIN jobs'[v].rows :
                    d \in Window /\ ~Before(today, d) /\ jobs'[v].rows[d] \in Counts
    <3>1. CASE v = w
      BY <1>5, <1>9, <3>1
    <3>2. CASE v # w
      BY <1>9, <3>2 DEF Typed, JobsTyped
    <3> QED BY <3>1, <3>2
  <2>2. \A d \in DOMAIN jobs'["materialize"].rows : Before(d, today)
    <3>1. CASE w = "materialize"
      BY <1>5, <1>9, <3>1
    <3>2. CASE w # "materialize"
      BY <1>9, <3>2 DEF Typed, JobsTyped, Writers
    <3> QED BY <3>1, <3>2
  <2> QED BY <1>9, <2>1, <2>2 DEF JobsTyped
<1>12. DOMAIN rows' = Window
  BY <1>1
<1> QED BY <1>2, <1>6, <1>7, <1>8, <1>10, <1>11, <1>12 DEF new

\* RefreshPublishes: the metrics of the day of the job, and its snapshot.
LEMMA RefreshPublishesTyped ==
  ASSUME Typed, RefreshPublishes
  PROVE  Typed'
<1>1. /\ Put("refresh") /\ UNCHANGED <<today, begun, open, built, signed>>
      /\ IF today \in DOMAIN jobs["refresh"].rows
         THEN live' = TRUE /\ eod' = [eod EXCEPT ![today] = open]
         ELSE UNCHANGED <<live, eod>>
  BY DEF RefreshPublishes
<1>2. "refresh" \in Writers /\ today' = today
  BY <1>1 DEF Writers
<1>3. /\ DOMAIN rows' = Window /\ stale' \subseteq Window
      /\ DOMAIN jobs["refresh"].rows \subseteq Window
      /\ \A d \in Window : rows'[d] = NoRow \/ rows'[d] \in Counts
      /\ \A d \in Window : rows'[d] # NoRow => ~Before(today, d)
      /\ \A d \in Window : rows[d] # NoRow => rows'[d] # NoRow
      /\ \A d \in stale' : ~Before(today, d) /\ rows'[d] # NoRow
      /\ \A v \in Writers : jobs'[v].missed \subseteq DOMAIN jobs'[v].rows
      /\ JobsTyped'
  BY <1>1, <1>2, PutIs
<1>4. live' \in BOOLEAN /\ eod' \in [Window -> SUBSET Loans]
  <2>1. live \in BOOLEAN /\ eod \in [Window -> SUBSET Loans] /\ open \subseteq Loans
    BY DEF Typed, TypeOK
  <2> QED BY <1>1, <2>1
<1>5. built \subseteq Window
  BY DEF Typed, RowsTyped
<1>6. TypeOK'
  BY <1>1, <1>3, <1>4, <1>5 DEF Typed, TypeOK
<1>7. RowsTyped'
  BY <1>1, <1>3, <1>5 DEF RowsTyped
<1>8. Changes' = Changes
  BY <1>1 DEF Changes
<1> QED BY <1>3, <1>6, <1>7, <1>8 DEF Typed

\* ChunkWrites: the metrics of past days.
LEMMA ChunkWritesTyped ==
  ASSUME Typed, ChunkWrites
  PROVE  Typed'
<1> DEFINE new == jobs["materialize"].rows
<1>1. /\ Put("materialize") /\ UNCHANGED <<today, begun, open, eod, live, signed>>
      /\ built' = built \cup DOMAIN new
  BY DEF ChunkWrites
<1>2. "materialize" \in Writers /\ today' = today
  BY <1>1 DEF Writers
<1>3. /\ DOMAIN rows' = Window /\ stale' \subseteq Window /\ DOMAIN new \subseteq Window
      /\ \A d \in DOMAIN new : rows'[d] \in Counts
      /\ \A d \in Window : rows'[d] = NoRow \/ rows'[d] \in Counts
      /\ \A d \in Window : rows'[d] # NoRow => ~Before(today, d)
      /\ \A d \in Window : rows[d] # NoRow => rows'[d] # NoRow
      /\ \A d \in stale' : ~Before(today, d) /\ rows'[d] # NoRow
      /\ \A v \in Writers : jobs'[v].missed \subseteq DOMAIN jobs'[v].rows
      /\ JobsTyped'
  BY <1>1, <1>2, PutIs
<1>4. /\ \A d \in DOMAIN new : Before(d, today)
      /\ built \subseteq Window /\ \A d \in built : Before(d, today) /\ rows[d] # NoRow
  BY DEF Typed, RowsTyped, JobsTyped, TypeOK
<1>5. \A d \in built' : Before(d, today) /\ rows'[d] # NoRow
  BY <1>1, <1>3, <1>4, CountedRows
<1>6. TypeOK'
  BY <1>1, <1>3, <1>5 DEF Typed, TypeOK
<1>7. RowsTyped'
  BY <1>1, <1>3, <1>4 DEF RowsTyped
<1>8. Changes' = Changes
  BY <1>1 DEF Changes
<1> QED BY <1>3, <1>6, <1>7, <1>8 DEF Typed

\* Every step keeps the invariant.
LEMMA StepTyped == Typed /\ [Next]_vars => Typed'
<1> SUFFICES ASSUME Typed, [Next]_vars PROVE Typed'
  OBVIOUS
<1>1. CASE Midnight
  BY <1>1, MidnightTyped
<1>2. ASSUME NEW l \in Loans, Close(l) PROVE Typed'
  BY <1>2, CloseTyped
<1>3. ASSUME NEW l \in Loans, NEW d \in Window, Book(l, d) PROVE Typed'
  BY <1>3, BookTyped
<1>4. ASSUME NEW d \in Window, NEW b \in Branches, Sign(d, b) PROVE Typed'
  BY <1>4, SignTyped
<1>5. CASE RefreshReads
  <2>1. /\ today \in Window /\ Compute("refresh", today, today)
        /\ UNCHANGED <<today, live, loanVars, signed, rows, stale>>
    BY <1>5 DEF RefreshReads
  <2>2. "refresh" \in Writers /\ "refresh" # "materialize"
    BY DEF Writers
  <2>3. ~Before(today, today)
    BY BeforeOrders DEF Typed, TypeOK
  <2> QED BY <2>1, <2>2, <2>3, ComputeTyped
<1>6. CASE RefreshPublishes
  BY <1>6, RefreshPublishesTyped
<1>7. ASSUME NEW from \in Window, NEW to \in Window, ChunkReads(from, to) PROVE Typed'
  <2>1. /\ Before(to, today) /\ Compute("materialize", from, to)
        /\ UNCHANGED <<today, live, loanVars, signed, rows, stale>>
    BY <1>7 DEF ChunkReads
  <2>2. "materialize" \in Writers
    BY DEF Writers
  <2>3. ~Before(today, to)
    BY <2>1, BeforeOrders, ReportsAssumption DEF Typed, TypeOK
  <2> QED BY <2>1, <2>2, <2>3, ComputeTyped
<1>8. CASE ChunkWrites
  BY <1>8, ChunkWritesTyped
<1>9. CASE UNCHANGED vars
  <2>1. UNCHANGED <<today, begun, open, eod, live, built, signed, rows, jobs, stale>>
    BY <1>9 DEF vars
  <2>2. Changes' = Changes
    BY <2>1 DEF Changes
  <2> QED BY <2>1, <2>2 DEF Typed, TypeOK, RowsTyped, JobsTyped
<1> QED BY <1>1, <1>2, <1>3, <1>4, <1>5, <1>6, <1>7, <1>8, <1>9 DEF Next

\* The invariant of types, days and counts.
LEMMA AlwaysTyped == Spec => []Typed
  BY InitTyped, StepTyped, PTL DEF Spec

\* Every count stays within the number of changes, days with metrics are past or today, and
\* those of source dwh and of the past have channeling metrics too (put of one chunk).
THEOREM TypeCorrect == Spec => []TypeOK
<1>1. Typed => TypeOK
  BY DEF Typed
<1> QED BY <1>1, AlwaysTyped, PTL

-----------------------------------------------------------------------------
(* Channeling. *)

\* Metrics, written or still with a writer, are those of the applications of now,
\* unless one was signed since that they should count.
Fresh ==
  /\ \A d \in Window : rows[d] # NoRow /\ d \notin stale => rows[d] = RowOf(signed, d)
  /\ \A w \in Writers : \A d \in DOMAIN jobs[w].rows :
       d \notin jobs[w].missed => jobs[w].rows[d] = RowOf(signed, d)

\* What the metrics of a day count for a branch or for all.
LEMMA RowBooking ==
  ASSUME NEW c, NEW d, NEW s \in Scopes PROVE RowOf(c, d).booking[s] = Of(c[d], s)
  BY DEF RowOf

\* And the plafond until the day.
LEMMA RowPlafond ==
  ASSUME NEW c, NEW d, NEW s \in Scopes
  PROVE  RowOf(c, d).plafond[s] = SumFunction([e \in Until[d] |-> Of(c[e], s)])
  BY DEF RowOf

\* A later application changes no metrics of a day.
LEMMA LaterSigning ==
  ASSUME NEW c, NEW n, NEW d \in Window, \A x \in Window \ {d} : n[x] = c[x],
         NEW e \in Window, Before(e, d)
  PROVE  RowOf(n, e) = RowOf(c, e)
<1>1. \A x \in Window \ {d} : n[x] = c[x]
  OBVIOUS
<1>2. e # d
  BY BeforeOrders, ReportsAssumption
<1>3. \A x \in Until[e] : x \in Window \ {d}
  BY DEF Until
<1>4. \A s \in Scopes : Of(n[e], s) = Of(c[e], s)
  BY <1>1, <1>2
<1>5. \A s \in Scopes : [x \in Until[e] |-> Of(n[x], s)] = [x \in Until[e] |-> Of(c[x], s)]
  BY <1>1, <1>3
<1> QED BY <1>4, <1>5 DEF RowOf

\* Nothing is built at first.
LEMMA InitFresh == Init => Fresh
<1> SUFFICES ASSUME Init PROVE Fresh
  OBVIOUS
<1>1. /\ \A d \in Window : rows[d] = NoRow
      /\ \A w \in Writers : jobs[w].rows = <<>>
  BY DEF Init, NoJob
<1>2. DOMAIN <<>> = {}
  OBVIOUS
<1> QED BY <1>1, <1>2 DEF Fresh

\* Sign: what should count the application is stale or missed it.
LEMMA SignFresh ==
  ASSUME Typed, Fresh, NEW d \in Window, NEW b \in Branches, Sign(d, b)
  PROVE  Fresh'
<1> DEFINE counts(e) == ~Before(e, d)
<1>1. /\ signed' = [signed EXCEPT ![d][b] = @ + 1] /\ rows' = rows
      /\ stale' = stale \cup {e \in Window : rows[e] # NoRow /\ counts(e)}
      /\ jobs' = [w \in Writers |->
                   [jobs[w] EXCEPT !.missed = @ \cup {e \in DOMAIN jobs[w].rows : counts(e)}]]
  BY DEF Sign
<1>2. signed \in Applications
  BY ChangesAre DEF Typed
<1>3. ASSUME NEW e \in Window, Before(e, d) PROVE RowOf(signed', e) = RowOf(signed, e)
  <2>1. \A x \in Window \ {d} : signed'[x] = signed[x]
    BY <1>1, <1>2 DEF Applications
  <2> QED BY <1>3, <2>1, LaterSigning
<1>4. ASSUME NEW e \in Window, rows[e] # NoRow, e \notin stale'
      PROVE  rows[e] = RowOf(signed', e)
  <2>1. e \notin stale /\ Before(e, d)
    BY <1>1, <1>4
  <2> QED BY <1>3, <1>4, <2>1 DEF Fresh
<1>5. ASSUME NEW w \in Writers, NEW e \in DOMAIN jobs'[w].rows, e \notin jobs'[w].missed
      PROVE  jobs'[w].rows[e] = RowOf(signed', e)
  <2> DEFINE missed == jobs[w].missed \cup {x \in DOMAIN jobs[w].rows : counts(x)}
  <2>1. /\ jobs[w] = [rows |-> jobs[w].rows, missed |-> jobs[w].missed]
        /\ \A x \in DOMAIN jobs[w].rows : x \in Window
    BY DEF Typed, JobsTyped
  <2>2. jobs'[w] = [jobs[w] EXCEPT !.missed = missed]
    BY <1>1
  <2>3. jobs'[w].rows = jobs[w].rows /\ jobs'[w].missed = missed
    <3> HIDE DEF missed
    <3>1. jobs'[w] = [rows |-> jobs[w].rows, missed |-> missed]
      BY <2>1, <2>2
    <3> QED BY <3>1
  <2>4. e \in Window /\ e \notin jobs[w].missed /\ Before(e, d)
    BY <1>5, <2>1, <2>3
  <2> QED BY <1>3, <1>5, <2>3, <2>4 DEF Fresh
<1> QED BY <1>1, <1>4, <1>5 DEF Fresh

\* A writer that has just read misses nothing.
LEMMA ComputeFresh ==
  ASSUME Typed, Fresh, NEW w \in Writers, NEW from \in Window, NEW to \in Window,
         Compute(w, from, to), UNCHANGED <<signed, rows, stale>>
  PROVE  Fresh'
<1> DEFINE new == ChannelingRows(from, to)
<1>1. new = [d \in Between(from, to) |-> RowOf(signed, d)]
  BY ComputedRows
<1>2. \A d \in DOMAIN new : new[d] = RowOf(signed, d)
  <2> HIDE DEF new
  <2> QED BY <1>1
<1>3. jobs' = [jobs EXCEPT ![w] = [rows |-> new, missed |-> {}]] /\ DOMAIN jobs = Writers
  BY DEF Compute, Typed, JobsTyped
<1> HIDE DEF new
<1>4. jobs'[w].rows = new /\ \A v \in Writers \ {w} : jobs'[v] = jobs[v]
  BY <1>3
<1>5. ASSUME NEW v \in Writers, NEW d \in DOMAIN jobs'[v].rows, d \notin jobs'[v].missed
      PROVE  jobs'[v].rows[d] = RowOf(signed, d)
  <2>1. CASE v = w
    BY <1>2, <1>4, <1>5, <2>1
  <2>2. CASE v # w
    BY <1>4, <1>5, <2>2 DEF Fresh
  <2> QED BY <2>1, <2>2
<1> QED BY <1>5 DEF Fresh

\* put: what it writes is fresh, but for what was missed meanwhile.
LEMMA PutFresh ==
  ASSUME Typed, Fresh, NEW w \in Writers, Put(w), UNCHANGED <<today, signed>>
  PROVE  Fresh'
<1> DEFINE new == jobs[w].rows
<1>1. stale' = (stale \ DOMAIN new) \cup jobs[w].missed
  BY DEF Put
<1>2. \A d \in Window : rows'[d] = IF d \in DOMAIN new THEN new[d] ELSE rows[d]
  BY PutIs
<1>3. ASSUME NEW d \in Window, rows'[d] # NoRow, d \notin stale'
      PROVE  rows'[d] = RowOf(signed, d)
  <2>1. CASE d \in DOMAIN new
    BY <1>1, <1>2, <1>3, <2>1 DEF Fresh
  <2>2. CASE d \notin DOMAIN new
    BY <1>1, <1>2, <1>3, <2>2 DEF Fresh
  <2> QED BY <2>1, <2>2
<1>4. jobs' = [jobs EXCEPT ![w] = NoJob] /\ DOMAIN jobs = Writers
  BY DEF Put, Typed, JobsTyped
<1>5. jobs'[w].rows = <<>> /\ \A v \in Writers \ {w} : jobs'[v] = jobs[v]
  BY <1>4 DEF NoJob
<1>6. ASSUME NEW v \in Writers, NEW d \in DOMAIN jobs'[v].rows, d \notin jobs'[v].missed
      PROVE  jobs'[v].rows[d] = RowOf(signed, d)
  <2>1. CASE v = w
    <3>1. DOMAIN <<>> = {}
      OBVIOUS
    <3> QED BY <1>5, <1>6, <2>1, <3>1
  <2>2. CASE v # w
    BY <1>5, <1>6, <2>2 DEF Fresh
  <2> QED BY <2>1, <2>2
<1> QED BY <1>3, <1>6 DEF Fresh

\* One step of anyone.
LEMMA StepFresh == Typed /\ Fresh /\ [Next]_vars => Fresh'
<1> SUFFICES ASSUME Typed, Fresh, [Next]_vars PROVE Fresh'
  OBVIOUS
<1>1. ASSUME UNCHANGED <<signed, rows, jobs, stale>> PROVE Fresh'
  BY <1>1 DEF Fresh
<1>2. ASSUME NEW d \in Window, NEW b \in Branches, Sign(d, b) PROVE Fresh'
  BY <1>2, SignFresh
<1>3. CASE RefreshReads
  <2>1. today \in Window /\ "refresh" \in Writers
    BY <1>3 DEF RefreshReads, Writers
  <2> QED BY <1>3, <2>1, ComputeFresh DEF RefreshReads
<1>4. ASSUME NEW from \in Window, NEW to \in Window, ChunkReads(from, to) PROVE Fresh'
  <2>1. "materialize" \in Writers
    BY DEF Writers
  <2> QED BY <1>4, <2>1, ComputeFresh DEF ChunkReads
<1>5. CASE RefreshPublishes
  <2>1. "refresh" \in Writers
    BY DEF Writers
  <2> QED BY <1>5, <2>1, PutFresh DEF RefreshPublishes
<1>6. CASE ChunkWrites
  <2>1. "materialize" \in Writers
    BY DEF Writers
  <2> QED BY <1>6, <2>1, PutFresh DEF ChunkWrites
<1>7. CASE Midnight
  BY <1>1, <1>7 DEF Midnight, channelVars
<1>8. ASSUME NEW l \in Loans, Close(l) PROVE Fresh'
  BY <1>1, <1>8 DEF Close, channelVars
<1>9. ASSUME NEW l \in Loans, NEW d \in Window, Book(l, d) PROVE Fresh'
  BY <1>1, <1>9 DEF Book, channelVars
<1>10. CASE UNCHANGED vars
  BY <1>1, <1>10 DEF vars
<1> QED BY <1>2, <1>3, <1>4, <1>5, <1>6, <1>7, <1>8, <1>9, <1>10 DEF Next

\* The two parts of the inductive invariant.
LEMMA AlwaysFresh == Spec => [](Typed /\ Fresh)
<1>1. Init => Typed /\ Fresh
  BY InitTyped, InitFresh
<1>2. Typed /\ Fresh /\ [Next]_vars => (Typed /\ Fresh)'
  BY StepTyped, StepFresh
<1> QED BY <1>1, <1>2, PTL DEF Spec

\* The last day of a period is in it, and the period of a day is that day.
LEMMA PeriodHas ==
  ASSUME NEW f \in Filters
  PROVE  /\ f.date \in Window /\ f.mode \in Modes /\ f.date \in Period[f]
         /\ Period[f] = Between(PeriodStart(f), f.date)
         /\ f.mode = "daily" => Period[f] = {f.date}
<1>1. f = [mode |-> f.mode, date |-> f.date] /\ f.date \in Window /\ f.mode \in Modes
  BY DEF Filters
<1>2. IsDate(f.date) /\ \A d \in Window : IsDate(d)
  BY <1>1, ReportsAssumption
<1>3. IsFilter(f)
  BY <1>1, <1>2 DEF IsFilter
<1>4. ~Before(f.date, PeriodStart(f)) /\ (f.mode = "daily" => PeriodStart(f) = f.date)
  BY <1>3, PeriodStartIs
<1>5. Period[f] = Between(PeriodStart(f), f.date)
  BY DEF Period
<1>6. ~Before(f.date, f.date)
  BY <1>2, BeforeOrders
<1>7. f.date \in Period[f]
  BY <1>1, <1>4, <1>5, <1>6 DEF Between
<1>8. ASSUME f.mode = "daily" PROVE Period[f] = {f.date}
  <2>1. Period[f] = {d \in Window : ~Before(d, f.date) /\ ~Before(f.date, d)}
    BY <1>4, <1>5, <1>8 DEF Between
  <2>2. \A d \in Window : ~Before(d, f.date) /\ ~Before(f.date, d) => d = f.date
    BY <1>2, BeforeOrders
  <2> QED BY <1>7, <2>1, <2>2
<1> QED BY <1>1, <1>5, <1>7, <1>8

\* Channeling figures from metrics are Newsinergi's own, for any number of days, branches
\* and applications, unless one was signed since (MetricStore.channeling, Positions).
THEOREM ChannelingIsExact == Spec => []ChannelingExact
<1>1. Typed /\ Fresh => ChannelingExact
  <2> SUFFICES ASSUME Typed, Fresh, NEW f \in Filters, Period[f] \cap stale = {}, NEW s \in Scopes
               PROVE  Channeling(f, s) = Positions(f, s)
    BY DEF ChannelingExact
  <2>1. CASE \E d \in Period[f] : rows[d] = NoRow
    BY <2>1 DEF Channeling
  <2>2. CASE \A d \in Period[f] : rows[d] # NoRow
    <3>1. f.date \in Period[f] /\ \A d \in Period[f] : d \in Window
      BY PeriodHas DEF Between
    <3>2. \A d \in Period[f] : rows[d] = RowOf(signed, d)
      BY <2>2, <3>1 DEF Fresh
    <3>3. ASSUME NEW d \in Period[f] PROVE rows[d].booking[s] = Of(signed[d], s)
      <4>1. RowOf(signed, d).booking[s] = Of(signed[d], s)
        BY RowBooking
      <4> QED BY <3>2, <4>1
    <3>4. rows[f.date].plafond[s] = SumFunction([e \in Until[f.date] |-> Of(signed[e], s)])
      BY <3>1, <3>2, RowPlafond
    <3>5. [d \in Period[f] |-> rows[d].booking[s]] = [d \in Period[f] |-> Of(signed[d], s)]
      BY <3>3
    <3> QED BY <2>2, <3>4, <3>5 DEF Channeling, Positions
  <2> QED BY <2>1, <2>2
<1> QED BY <1>1, AlwaysFresh, PTL

-----------------------------------------------------------------------------
(* Booking. *)

\* Summed from daily metrics or asked of one snapshot, the booking of a period is the
\* same for any loans and days, if each loan was entered on its first day and is still
\* open (cachedSnapshot and load, beside loan_organic_booking).
THEOREM EitherWayOneBooking == Spec => []BookingsAgree
<1>1. TypeOK => BookingsAgree
  <2> SUFFICES ASSUME TypeOK, NEW f \in Known,
                      \A l \in Loans : begun[l] \in Period[f] =>
                        (l \in eod[begun[l]] <=> l \in eod[f.date])
               PROVE  Booking(f) = LoanBooking(f.mode, f.date)
    BY DEF BookingsAgree
  <2> DEFINE P == Period[f]
             last == eod[f.date]
             Sold(d) == {l \in last : begun[l] = d}
             H == [d \in P |-> Cardinality(Sold(d))]
  <2>1. /\ f \in Filters /\ f.date \in Window /\ Filter(f.mode, f.date) = f
        /\ P \in SUBSET Window /\ last \in SUBSET Loans
        /\ \A d \in Window : eod[d] \in SUBSET Loans
    <3>1. f \in Filters /\ f.date \in Window /\ P = Between(PeriodStart(f), f.date)
      BY PeriodHas DEF Known
    <3>2. Filter(f.mode, f.date) = f
      BY <3>1 DEF Filters, Filter
    <3>3. eod \in [Window -> SUBSET Loans]
      BY DEF TypeOK
    <3> QED BY <3>1, <3>2, <3>3 DEF Between
  <2>2. IsFiniteSet(P) /\ IsFiniteSet(last)
    BY <2>1, ReportsAssumption, FS_Subset
  <2>3. LoanBooking(f.mode, f.date) = Cardinality({l \in last : begun[l] \in P})
    BY <2>1 DEF LoanBooking
  <2>4. CASE ~\A d \in P : Present(d)
    BY <2>4 DEF Booking
  <2>5. CASE \A d \in P : Present(d)
    <3>1. ASSUME NEW d \in P PROVE MetricBooking(d) = H[d]
      <4> DEFINE g == Filter("daily", d)
      <4>1. d \in Window /\ g \in Filters /\ g.mode = "daily" /\ g.date = d
        BY <2>1 DEF Filters, Filter, Modes
      <4>2. Period[g] = {d}
        <5> HIDE DEF g
        <5> QED BY <4>1, PeriodHas
      <4>3. MetricBooking(d) = Cardinality({l \in eod[d] : begun[l] = d})
        BY <4>2 DEF MetricBooking, LoanBooking
      <4>4. {l \in eod[d] : begun[l] = d} = Sold(d)
        BY <2>1, <4>1
      <4> QED BY <4>3, <4>4
    <3>2. Booking(f) = SumFunction(H)
      <4>1. [d \in P |-> MetricBooking(d)] = H
        BY <3>1
      <4> HIDE DEF H
      <4> QED BY <2>5, <4>1 DEF Booking
    <3>3. SumFunction(H) = SumFunctionOnSet(H, P)
      BY DEF SumFunction
    <3>4. Cardinality({l \in last : begun[l] \in P}) = SumFunctionOnSet(H, P)
      <4> HIDE DEF P, last
      <4> QED BY <2>2, CardinalityByKey
    <3> QED BY <2>3, <3>2, <3>3, <3>4
  <2> QED BY <2>4, <2>5
<1> QED BY <1>1, TypeCorrect, PTL

-----------------------------------------------------------------------------
(* MySQL's number of a day grows with the date. *)

\* Days before a year, and before a month of it.
DaysBeforeYear(y) ==
  365 * (y - 1) + ((y - 1) \div 4) - ((y - 1) \div 100) + ((y - 1) \div 400)
DaysBeforeIn(y, m) == DaysBeforeMonth[m] + (IF m > 2 /\ Leap(y) THEN 1 ELSE 0)
LeapDay(y) == IF Leap(y) THEN 1 ELSE 0

\* A quotient grows by one at each multiple of the divisor.
LEMMA Quotients ==
  ASSUME NEW x \in Int
  PROVE  /\ x \div 4 \in Int /\ (x - 1) \div 4 = IF x % 4 = 0 THEN (x \div 4) - 1 ELSE x \div 4
         /\ x \div 100 \in Int
         /\ (x - 1) \div 100 = IF x % 100 = 0 THEN (x \div 100) - 1 ELSE x \div 100
         /\ x \div 400 \in Int
         /\ (x - 1) \div 400 = IF x % 400 = 0 THEN (x \div 400) - 1 ELSE x \div 400
         /\ x % 100 = 0 => x % 4 = 0
         /\ x % 400 = 0 => x % 100 = 0
  OBVIOUS

\* There are no fewer multiples of 4 than of 100 between two years.
LEMMA QuotientsGrow ==
  ASSUME NEW x \in Int, NEW y \in Int, x <= y
  PROVE  /\ (x \div 4) - (x \div 100) <= (y \div 4) - (y \div 100)
         /\ x \div 400 <= y \div 400
  OBVIOUS

\* A year has 365 days, a leap year one more.
LEMMA YearHas ==
  ASSUME NEW y \in Int
  PROVE  /\ DaysBeforeYear(y) \in Int
         /\ DaysBeforeYear(y + 1) = DaysBeforeYear(y) + 365 + LeapDay(y)
<1>1. /\ y \div 4 \in Int /\ (y - 1) \div 4 = IF y % 4 = 0 THEN (y \div 4) - 1 ELSE y \div 4
      /\ y \div 100 \in Int
      /\ (y - 1) \div 100 = IF y % 100 = 0 THEN (y \div 100) - 1 ELSE y \div 100
      /\ y \div 400 \in Int
      /\ (y - 1) \div 400 = IF y % 400 = 0 THEN (y \div 400) - 1 ELSE y \div 400
      /\ y % 100 = 0 => y % 4 = 0
      /\ y % 400 = 0 => y % 100 = 0
  BY Quotients
<1>2. (y + 1) - 1 = y
  OBVIOUS
<1>3. DaysBeforeYear(y + 1) = 365 * y + (y \div 4) - (y \div 100) + (y \div 400)
  BY <1>2 DEF DaysBeforeYear
<1>4. LeapDay(y) = IF y % 400 = 0 THEN 1 ELSE IF y % 100 = 0 THEN 0 ELSE IF y % 4 = 0 THEN 1 ELSE 0
  BY <1>1 DEF LeapDay, Leap
<1> QED BY <1>1, <1>3, <1>4 DEF DaysBeforeYear

\* A later year has more days before it.
LEMMA YearsGrow ==
  ASSUME NEW y \in Int, NEW z \in Int, y <= z
  PROVE  DaysBeforeYear(y) <= DaysBeforeYear(z)
<1>1. y - 1 \in Int /\ z - 1 \in Int /\ y - 1 <= z - 1
  OBVIOUS
<1>2. /\ ((y - 1) \div 4) - ((y - 1) \div 100) <= ((z - 1) \div 4) - ((z - 1) \div 100)
      /\ (y - 1) \div 400 <= (z - 1) \div 400
  BY <1>1, QuotientsGrow, ZenonT(60)
<1>3. /\ (y - 1) \div 4 \in Int /\ (y - 1) \div 100 \in Int /\ (y - 1) \div 400 \in Int
      /\ (z - 1) \div 4 \in Int /\ (z - 1) \div 100 \in Int /\ (z - 1) \div 400 \in Int
  BY <1>1, Quotients
<1> QED BY <1>2, <1>3 DEF DaysBeforeYear

\* The months of a year follow each other.
LEMMA MonthsFollow ==
  ASSUME NEW y \in Int, NEW m \in 1..12
  PROVE  /\ DaysBeforeIn(y, m) \in 0..335
         /\ DaysBeforeIn(y, m) + DaysIn(y, m) <= 365 + LeapDay(y)
         /\ \A n \in 1..12 : m < n => DaysBeforeIn(y, m) + DaysIn(y, m) <= DaysBeforeIn(y, n)
<1>1. /\ DaysBeforeMonth[1] = 0 /\ DaysBeforeMonth[2] = 31 /\ DaysBeforeMonth[3] = 59
      /\ DaysBeforeMonth[4] = 90 /\ DaysBeforeMonth[5] = 120 /\ DaysBeforeMonth[6] = 151
      /\ DaysBeforeMonth[7] = 181 /\ DaysBeforeMonth[8] = 212 /\ DaysBeforeMonth[9] = 243
      /\ DaysBeforeMonth[10] = 273 /\ DaysBeforeMonth[11] = 304 /\ DaysBeforeMonth[12] = 334
  BY DEF DaysBeforeMonth
<1> HIDE DEF DaysBeforeMonth, Leap
<1>2. CASE Leap(y)
  BY <1>1, <1>2 DEF DaysBeforeIn, DaysIn, LeapDay
<1>3. CASE ~Leap(y)
  BY <1>1, <1>3 DEF DaysBeforeIn, DaysIn, LeapDay
<1> QED BY <1>2, <1>3

\* DATEDIFF orders days as they follow each other.
LEMMA DayNumbersGrow ==
  ASSUME NEW a, IsDate(a), NEW b, IsDate(b)
  PROVE  /\ DayNumber(a) \in Int
         /\ Before(a, b) => DayNumber(a) < DayNumber(b)
<1>1. /\ a.y \in Int /\ a.m \in 1..12 /\ a.d \in 1..31 /\ a.d <= DaysIn(a.y, a.m)
      /\ b.y \in Int /\ b.m \in 1..12 /\ b.d \in 1..31 /\ b.d <= DaysIn(b.y, b.m)
  BY DEF IsDate
<1>2. /\ DayNumber(a) = DaysBeforeYear(a.y) + DaysBeforeIn(a.y, a.m) + a.d
      /\ DayNumber(b) = DaysBeforeYear(b.y) + DaysBeforeIn(b.y, b.m) + b.d
  <2>1. ASSUME NEW c, IsDate(c)
        PROVE  DayNumber(c) = DaysBeforeYear(c.y) + DaysBeforeIn(c.y, c.m) + c.d
    <3> DEFINE u == DaysBeforeYear(c.y)
               v == DaysBeforeMonth[c.m]
               l == IF c.m > 2 /\ Leap(c.y) THEN 1 ELSE 0
    <3>1. DayNumber(c) = u + v + l + c.d
      BY DEF DayNumber, DaysBeforeYear
    <3>2. c.y \in Int /\ c.m \in 1..12 /\ c.d \in Int
      BY <2>1, DateFields
    <3>3. u \in Int /\ l \in Int /\ v \in Int
      <4>1. u \in Int
        BY <3>2, YearHas, Zenon
      <4>2. v \in Int
        BY <3>2 DEF DaysBeforeMonth
      <4> QED BY <4>1, <4>2
    <3>4. DaysBeforeIn(c.y, c.m) = v + l
      BY DEF DaysBeforeIn
    <3> HIDE DEF u, v, l
    <3>5. DayNumber(c) = u + DaysBeforeIn(c.y, c.m) + c.d
      BY <3>1, <3>2, <3>3, <3>4
    <3> QED BY <3>5 DEF u
  <2> QED BY <2>1
<1> DEFINE u == DaysBeforeYear(a.y)
           v == DaysBeforeIn(a.y, a.m)
           l == DaysIn(a.y, a.m)
           leap == LeapDay(a.y)
           x == DaysBeforeYear(b.y)
           z == DaysBeforeIn(b.y, b.m)
<1>3. /\ DayNumber(a) = u + v + a.d /\ DayNumber(b) = x + z + b.d
      /\ u \in Int /\ x \in Int /\ DaysBeforeYear(a.y + 1) = u + 365 + leap
  BY <1>1, <1>2, YearHas
<1>4. /\ v \in 0..335 /\ v + l <= 365 + leap
      /\ \A n \in 1..12 : a.m < n => v + l <= DaysBeforeIn(a.y, n)
  <2>1. a.y \in Int /\ a.m \in 1..12
    BY <1>1
  <2> QED BY <2>1, MonthsFollow, ZenonT(60)
<1>5. z \in 0..335
  BY <1>1, MonthsFollow, Zenon
<1>6. l \in 28..31 /\ leap \in 0..1 /\ a.d <= l
  BY <1>1, DaysInBounds DEF LeapDay
<1>7. CASE a.y < b.y
  <2>1. a.y + 1 \in Int /\ a.y + 1 <= b.y
    BY <1>1, <1>7
  <2>2. DaysBeforeYear(a.y + 1) <= x
    BY <1>1, <2>1, YearsGrow
  <2>3. u + 365 + leap <= x
    BY <1>3, <2>2
  <2> HIDE DEF u, v, l, leap, x, z
  <2>4. DayNumber(a) < DayNumber(b)
    BY <1>1, <1>3, <1>4, <1>5, <1>6, <2>3
  <2> QED BY <1>1, <1>3, <1>4, <2>4
<1>8. CASE a.y = b.y /\ a.m < b.m
  <2>1. v + l <= z /\ u = x
    BY <1>1, <1>4, <1>8
  <2> HIDE DEF u, v, l, leap, x, z
  <2>2. DayNumber(a) < DayNumber(b)
    BY <1>1, <1>3, <1>4, <1>5, <1>6, <2>1
  <2> QED BY <1>1, <1>3, <1>4, <2>2
<1>9. CASE a.y = b.y /\ a.m = b.m /\ a.d < b.d
  <2>1. u = x /\ v = z
    BY <1>9
  <2> HIDE DEF u, v, l, leap, x, z
  <2> QED BY <1>1, <1>3, <1>4, <1>9, <2>1
<1>10. DayNumber(a) \in Int
  <2> HIDE DEF u, v, l, leap, x, z
  <2> QED BY <1>1, <1>3, <1>4
<1> QED BY <1>7, <1>8, <1>9, <1>10 DEF Before

\* What is not yet due falls due in no days or more.
LEMMA DueIn ==
  ASSUME NEW date, IsDate(date), NEW p \in NotYetDue(date)
  PROVE  p \in Deposits /\ DateDiff(p.due, date) \in Nat
<1>1. p \in Deposits /\ IsDate(p.due) /\ ~Before(p.due, date)
  BY NominativeAssumption DEF NotYetDue
<1>2. p.due = date \/ Before(date, p.due)
  BY <1>1, BeforeOrders
<1>3. DayNumber(p.due) \in Int /\ DayNumber(date) \in Int /\ DayNumber(date) <= DayNumber(p.due)
  BY <1>1, <1>2, DayNumbersGrow
<1> QED BY <1>1, <1>3 DEF DateDiff

\* The ranges of the cards and of their links are the same, and each day count is in one.
LEMMA RangesAreBuckets ==
  ASSUME NEW days \in Nat
  PROVE  /\ \A x \in Ranges : RangeOf(days) = x <=> InBucket(days, BucketOf[x])
         /\ RangeOf(days) \in Ranges /\ InBucket(days, "")
         /\ WeekOf(days) \in 0..11 <=> days < 84
<1>1. \A x \in Ranges : RangeOf(days) = x <=> InBucket(days, BucketOf[x])
  BY DEF Ranges, RangeOf, InBucket, BucketOf
<1>2. RangeOf(days) \in Ranges /\ InBucket(days, "")
  BY DEF Ranges, RangeOf, InBucket
<1>3. WeekOf(days) \in 0..11 <=> days < 84
  <2>1. days \div 7 \in Nat /\ (days \div 7 < 12 <=> days < 84)
    OBVIOUS
  <2> QED BY <2>1 DEF WeekOf
<1> QED BY <1>1, <1>2, <1>3

\* The number of accounts in three ranges of which no account has two.
LEMMA ThreeRanges ==
  ASSUME NEW S, IsFiniteSet(S), NEW Key, \A p \in S : Key[p] \in Ranges
  PROVE  Cardinality({p \in S : Key[p] = "7d"}) + Cardinality({p \in S : Key[p] = "30d"})
         + Cardinality({p \in S : Key[p] = "gt30d"}) = Cardinality(S)
<1> DEFINE A == {p \in S : Key[p] = "7d"}
           B == {p \in S : Key[p] = "30d"}
           C == {p \in S : Key[p] = "gt30d"}
<1>1. S = (A \cup B) \cup C /\ A \cap B = {} /\ (A \cup B) \cap C = {}
  BY DEF Ranges
<1>2. IsFiniteSet(A) /\ IsFiniteSet(B) /\ IsFiniteSet(C) /\ IsFiniteSet(A \cup B)
  BY FS_Subset
<1> HIDE DEF A, B, C
<1>3. Cardinality(A \cup B) = Cardinality(A) + Cardinality(B) - Cardinality({})
  BY <1>1, <1>2, FS_Union
<1>4. Cardinality(S) = Cardinality(A \cup B) + Cardinality(C) - Cardinality({})
  BY <1>1, <1>2, FS_Union
<1>5. /\ Cardinality({}) = 0 /\ Cardinality(A) \in Nat /\ Cardinality(B) \in Nat
      /\ Cardinality(C) \in Nat
  BY <1>2, FS_EmptySet, FS_CardinalityType
<1>6. Cardinality(A) + Cardinality(B) + Cardinality(C) = Cardinality(S)
  BY <1>3, <1>4, <1>5
<1> QED BY <1>6 DEF A, B, C

\* The chart's weeks hold what falls due within twelve weeks.
LEMMA WeeksAddUp ==
  ASSUME NEW S \in SUBSET Deposits, NEW days, \A p \in S : days[p] \in Nat
  PROVE  SumFunction([w \in 0..11 |-> Total({p \in S : WeekOf(days[p]) = w})])
           = Total({p \in S : days[p] < 84})
<1> DEFINE F == [p \in Deposits |-> p.nominal]
           Key == [p \in S |-> WeekOf(days[p])]
           With(w) == {p \in S : Key[p] = w}
           G == [w \in 0..11 |-> SumFunctionOnSet(F, With(w))]
           H == [w \in 0..11 |-> Total({p \in S : WeekOf(days[p]) = w})]
<1>1. IsFiniteSet(S) /\ IsFiniteSet(0..11) /\ \A p \in S : F[p] \in Int
  <2>1. IsFiniteSet(S)
    BY NominativeAssumption, FS_Subset
  <2>2. IsFiniteSet(0..11)
    <3>1. 0 \in Int /\ 11 \in Int
      OBVIOUS
    <3> QED BY <3>1, FS_Interval
  <2>3. \A p \in S : F[p] \in Int
    BY NominativeAssumption
  <2> QED BY <2>1, <2>2, <2>3
<1>2. ASSUME NEW T \in SUBSET S PROVE Total(T) = SumFunctionOnSet(F, T)
  <2> DEFINE f == [p \in T |-> p.nominal]
  <2>1. Total(T) = SumFunctionOnSet(f, T)
    BY DEF Total, SumFunction
  <2>2. \A p \in T : f[p] = F[p]
    OBVIOUS
  <2>3. IsFiniteSet(T)
    BY <1>1, FS_Subset
  <2> HIDE DEF f, F
  <2> QED BY <2>1, <2>2, <2>3, SumCongruence
<1>3. \A w \in 0..11 : H[w] = G[w]
  <2> SUFFICES ASSUME NEW w \in 0..11
               PROVE  Total({p \in S : WeekOf(days[p]) = w}) = SumFunctionOnSet(F, With(w))
    OBVIOUS
  <2>1. {p \in S : WeekOf(days[p]) = w} = With(w) /\ With(w) \in SUBSET S
    OBVIOUS
  <2> HIDE DEF With, F
  <2> QED BY <1>2, <2>1
<1>4. H = G
  BY <1>3
<1>5. SumFunction(G) = SumFunctionOnSet(G, 0..11)
  BY DEF SumFunction
<1>6. SumFunctionOnSet(F, {p \in S : Key[p] \in 0..11}) = SumFunctionOnSet(G, 0..11)
  <2> DEFINE D == 0..11
             E == [d \in D |-> SumFunctionOnSet(F, {p \in S : Key[p] = d})]
  <2>1. IsFiniteSet(S) /\ IsFiniteSet(D) /\ \A p \in S : F[p] \in Int
    BY <1>1
  <2> HIDE DEF F, Key, D
  <2>2. SumFunctionOnSet(F, {p \in S : Key[p] \in D}) = SumFunctionOnSet(E, D)
    BY <2>1, SumByKey
  <2>3. E = G
    BY DEF D
  <2> QED BY <2>2, <2>3 DEF D
<1>7. {p \in S : Key[p] \in 0..11} = {p \in S : days[p] < 84}
  BY RangesAreBuckets
<1>8. Total({p \in S : days[p] < 84}) = SumFunctionOnSet(F, {p \in S : days[p] < 84})
  <2> DEFINE T == {p \in S : days[p] < 84}
  <2>1. T \in SUBSET S
    OBVIOUS
  <2> HIDE DEF T, F
  <2>2. Total(T) = SumFunctionOnSet(F, T)
    BY <1>2, <2>1
  <2> QED BY <2>2 DEF T
<1> HIDE DEF F, G
<1>9. SumFunction(G) = Total({p \in S : days[p] < 84})
  BY <1>5, <1>6, <1>7, <1>8
<1> QED BY <1>4, <1>9

\* The maturity page agrees with its account tables, on any date, for any deposits.
LEMMA CardsReconcile ==
  ASSUME NEW date, IsDate(date), NEW branch
  PROVE  Reconciles(date, branch)
<1> DEFINE due == Scope(NotYetDue(date), branch)
           days == [p \in due |-> DateDiff(p.due, date)]
           range == [p \in due |-> RangeOf(days[p])]
           all == {p.account : p \in Deposits}
           m == MaturityMetrics(date, branch)
           Card(x) == {p \in due : RangeOf(DateDiff(p.due, date)) = x}
           week == [w \in 0..11 |-> Total({p \in due : WeekOf(DateDiff(p.due, date)) = w})]
<1>1. /\ due \in SUBSET Deposits /\ IsFiniteSet(due)
      /\ \A p \in due : days[p] = DateDiff(p.due, date) /\ days[p] \in Nat
  <2>1. \A p \in due : p \in Deposits /\ DateDiff(p.due, date) \in Nat
    BY DueIn DEF Scope
  <2>2. due \in SUBSET Deposits
    BY <2>1
  <2>3. IsFiniteSet(due)
    BY <2>2, NominativeAssumption, FS_Subset
  <2> QED BY <2>1, <2>2, <2>3
<1>2. /\ m.noa = [x \in Ranges |-> Cardinality(Card(x))]
      /\ m.nominal = [x \in Ranges |-> Total(Card(x))]
      /\ m.week = week
  BY DEF MaturityMetrics
<1>3. \A bucket : LET table == NominativeOf(date, branch, bucket, 1, all)
                      selected == Selected(date, branch, bucket)
                  IN table.count = Cardinality(selected) /\ table.total = Total(selected)
  BY DEF NominativeOf
<1>4. \A bucket : Selected(date, branch, bucket)
                    = {p \in due : InBucket(DateDiff(p.due, date), bucket)}
  BY DEF Selected
<1> HIDE DEF m, all, due
<1>5. \A x \in Ranges : Selected(date, branch, BucketOf[x]) = Card(x)
  <2> SUFFICES ASSUME NEW x \in Ranges
               PROVE  Selected(date, branch, BucketOf[x]) = Card(x)
    OBVIOUS
  <2>1. \A p \in due : RangeOf(DateDiff(p.due, date)) = x
                          <=> InBucket(DateDiff(p.due, date), BucketOf[x])
    BY <1>1, RangesAreBuckets
  <2> QED BY <1>4, <2>1
<1>6. Selected(date, branch, "") = due
  <2>1. \A p \in due : InBucket(DateDiff(p.due, date), "")
    BY <1>1, RangesAreBuckets
  <2> QED BY <1>4, <2>1
<1>7. \A x \in Ranges : LET table == NominativeOf(date, branch, BucketOf[x], 1, all)
                        IN m.noa[x] = table.count /\ m.nominal[x] = table.total
  <2> SUFFICES ASSUME NEW x \in Ranges
               PROVE  LET table == NominativeOf(date, branch, BucketOf[x], 1, all)
                      IN m.noa[x] = table.count /\ m.nominal[x] = table.total
    OBVIOUS
  <2>1. m.noa[x] = Cardinality(Card(x)) /\ m.nominal[x] = Total(Card(x))
    BY <1>2
  <2> QED BY <1>3, <1>5, <2>1
<1>8. m.noa["7d"] + m.noa["30d"] + m.noa["gt30d"]
        = NominativeOf(date, branch, "", 1, all).count
  <2>1. \A p \in due : range[p] \in Ranges
    BY <1>1, RangesAreBuckets
  <2>2. \A x : {p \in due : range[p] = x} = Card(x)
    BY <1>1
  <2> HIDE DEF range
  <2>3. Cardinality({p \in due : range[p] = "7d"}) + Cardinality({p \in due : range[p] = "30d"})
        + Cardinality({p \in due : range[p] = "gt30d"}) = Cardinality(due)
    BY <1>1, <2>1, ThreeRanges
  <2>4. Cardinality(Card("7d")) + Cardinality(Card("30d")) + Cardinality(Card("gt30d"))
          = Cardinality(due)
    BY <2>2, <2>3
  <2>5. "7d" \in Ranges /\ "30d" \in Ranges /\ "gt30d" \in Ranges
    BY DEF Ranges
  <2>6. NominativeOf(date, branch, "", 1, all).count = Cardinality(due)
    BY <1>3, <1>6
  <2> HIDE DEF Card
  <2>7. /\ m.noa["7d"] = Cardinality(Card("7d")) /\ m.noa["30d"] = Cardinality(Card("30d"))
        /\ m.noa["gt30d"] = Cardinality(Card("gt30d"))
    BY <1>2, <2>5
  <2> QED BY <2>4, <2>6, <2>7
<1>9. SumFunction(m.week)
        = Total({p \in Selected(date, branch, "") : DateDiff(p.due, date) < 84})
  <2>1. week = [w \in 0..11 |-> Total({p \in due : WeekOf(days[p]) = w})]
    <3>1. \A w \in 0..11 : {p \in due : WeekOf(DateDiff(p.due, date)) = w}
                             = {p \in due : WeekOf(days[p]) = w}
      BY <1>1
    <3> HIDE DEF days
    <3> QED BY <3>1
  <2>2. {p \in due : DateDiff(p.due, date) < 84} = {p \in due : days[p] < 84}
    BY <1>1
  <2> HIDE DEF days, week
  <2>3. \A p \in due : days[p] \in Nat
    BY <1>1
  <2>4. SumFunction([w \in 0..11 |-> Total({p \in due : WeekOf(days[p]) = w})])
          = Total({p \in due : days[p] < 84})
    BY <1>1, <2>3, WeeksAddUp
  <2> QED BY <1>2, <1>6, <2>1, <2>2, <2>4
<1> QED BY <1>7, <1>8, <1>9 DEF Reconciles, m, all

\* The cards of the maturity page agree with the account tables behind their links, on
\* every day, for any deposits (maturityMetrics beside Nominative).
THEOREM CardsAndTables == Spec => []MaturitiesReconcile
<1>1. IsDate(today) => MaturitiesReconcile
  BY CardsReconcile DEF MaturitiesReconcile
<1> QED BY <1>1, TodayIsDate, PTL

-----------------------------------------------------------------------------
(* The account table, page by page. *)

\* Accounts that are told apart by their numbers.
IsAccounts(S) ==
  /\ IsFiniteSet(S) /\ \A p \in S : p.account \in Int
  /\ \A p, q \in S : p.account = q.account => p = q

\* The number of accounts before one.
Rank(S, p) == Cardinality({q \in S : q.account < p.account})

\* An account with a greater number has more accounts before it.
LEMMA RanksOrder ==
  ASSUME NEW S, IsAccounts(S), NEW p \in S, NEW q \in S
  PROVE  /\ Cardinality(S) \in Nat /\ Rank(S, p) \in 0..(Cardinality(S) - 1)
         /\ p.account < q.account => Rank(S, p) < Rank(S, q)
<1> DEFINE Below(x) == {y \in S : y.account < x.account}
<1>1. IsFiniteSet(S) /\ \A x \in S : x.account \in Int
  BY DEF IsAccounts
<1>2. Cardinality(S) \in Nat
  BY <1>1, FS_CardinalityType
<1>3. ASSUME NEW A \in SUBSET S, NEW B \in SUBSET S, A \subseteq B, A # B
      PROVE  Cardinality(A) \in Nat /\ Cardinality(B) \in Nat /\ Cardinality(A) < Cardinality(B)
  <2>1. IsFiniteSet(A) /\ IsFiniteSet(B)
    BY <1>1, FS_Subset
  <2>2. Cardinality(A) \in Nat /\ Cardinality(B) \in Nat
    BY <2>1, FS_CardinalityType
  <2>3. Cardinality(A) <= Cardinality(B) /\ (Cardinality(B) = Cardinality(A) => B = A)
    BY <1>3, <2>1, FS_Subset
  <2> QED BY <1>3, <2>2, <2>3
<1>4. Below(p) \in SUBSET S /\ Below(q) \in SUBSET S /\ p \notin Below(p)
  BY <1>1
<1>5. p.account < q.account => Below(p) \subseteq Below(q) /\ p \in Below(q)
  BY <1>1
<1>6. Rank(S, p) = Cardinality(Below(p)) /\ Rank(S, q) = Cardinality(Below(q))
  BY DEF Rank
<1> HIDE DEF Below
<1>7. Cardinality(Below(p)) \in Nat /\ Cardinality(Below(p)) < Cardinality(S)
  <2>1. S \in SUBSET S /\ Below(p) \subseteq S /\ Below(p) # S
    BY <1>4
  <2> QED BY <1>3, <1>4, <2>1
<1>8. p.account < q.account => Cardinality(Below(p)) < Cardinality(Below(q))
  BY <1>3, <1>4, <1>5
<1> QED BY <1>2, <1>6, <1>7, <1>8

\* Every place is taken.
LEMMA RanksAll ==
  ASSUME NEW S, IsAccounts(S), NEW i \in 0..(Cardinality(S) - 1)
  PROVE  \E p \in S : Rank(S, p) = i
<1> DEFINE n == Cardinality(S)
           T == 0..(n - 1)
           f == [p \in S |-> Rank(S, p)]
<1>1. IsFiniteSet(S) /\ n \in Nat
  BY FS_CardinalityType DEF IsAccounts
<1>2. f \in [S -> T]
  BY RanksOrder
<1>3. \A p, q \in S : f[p] = f[q] => p = q
  <2> SUFFICES ASSUME NEW p \in S, NEW q \in S, Rank(S, p) = Rank(S, q) PROVE p = q
    OBVIOUS
  <2>1. /\ p.account < q.account => Rank(S, p) < Rank(S, q)
        /\ q.account < p.account => Rank(S, q) < Rank(S, p)
        /\ Rank(S, p) \in T /\ Rank(S, q) \in T
    BY RanksOrder
  <2>2. p.account \in Int /\ q.account \in Int /\ (p.account = q.account => p = q)
    BY DEF IsAccounts
  <2>3. Rank(S, p) \in Int /\ Rank(S, q) \in Int
    BY <1>1, <2>1
  <2> QED BY <2>1, <2>2, <2>3
<1>4. IsFiniteSet(T) /\ Cardinality(T) = n
  <2>1. 0 \in Int /\ n - 1 \in Int
    BY <1>1
  <2>2. IsFiniteSet(T) /\ Cardinality(T) = IF 0 > n - 1 THEN 0 ELSE (n - 1) - 0 + 1
    BY <2>1, FS_Interval
  <2> HIDE DEF n
  <2> QED BY <1>1, <2>2
<1>5. f \in Injection(S, T)
  BY <1>2, <1>3 DEF Injection, IsInjective
<1>6. f \in Surjection(S, T)
  <2> HIDE DEF f, T
  <2> QED BY <1>4, <1>5, FS_Injection
<1> QED BY <1>6 DEF Surjection

\* The listing has every account once, in order.
LEMMA Listing ==
  ASSUME NEW S, IsAccounts(S)
  PROVE  LET s == InOrder(S)
             n == Cardinality(S)
         IN /\ n \in Nat /\ s \in [1..n -> S]
            /\ \A i, j \in 1..n : i < j => s[i].account < s[j].account
            /\ \A p \in S : \E i \in 1..n : s[i] = p
<1> DEFINE s == InOrder(S)
           n == Cardinality(S)
           At(i) == CHOOSE p \in S : Rank(S, p) = i - 1
<1>1. n \in Nat
  BY FS_CardinalityType DEF IsAccounts
<1>2. s = [i \in 1..n |-> At(i)]
  BY DEF InOrder, Rank
<1>3. ASSUME NEW i \in 1..n PROVE At(i) \in S /\ Rank(S, At(i)) = i - 1
  <2>1. i - 1 \in 0..(n - 1)
    <3> HIDE DEF n
    <3> QED BY <1>1
  <2>2. \E p \in S : Rank(S, p) = i - 1
    BY <2>1, RanksAll
  <2> QED BY <2>2
<1> HIDE DEF At
<1>4. s \in [1..n -> S] /\ \A i \in 1..n : s[i] = At(i)
  BY <1>2, <1>3
<1> HIDE DEF s
<1>5. \A i \in 1..n : s[i] \in S /\ Rank(S, s[i]) = i - 1
  BY <1>3, <1>4
<1>6. ASSUME NEW i \in 1..n, NEW j \in 1..n, i < j
      PROVE  s[i].account < s[j].account
  <2> DEFINE p == s[i]
             q == s[j]
  <2>1. p \in S /\ q \in S /\ Rank(S, p) = i - 1 /\ Rank(S, q) = j - 1
    BY <1>5
  <2> HIDE DEF p, q
  <2>2. p.account \in Int /\ q.account \in Int /\ (p.account = q.account => p = q)
    BY <2>1 DEF IsAccounts
  <2>3. q.account < p.account => Rank(S, q) < Rank(S, p)
    BY <2>1, RanksOrder
  <2>4. i \in Int /\ j \in Int
    BY <1>1
  <2>5. p.account < q.account
    BY <1>6, <2>1, <2>2, <2>3, <2>4
  <2> QED BY <2>5 DEF p, q
<1>7. ASSUME NEW p \in S PROVE \E i \in 1..n : s[i] = p
  <2> DEFINE i == Rank(S, p) + 1
  <2>1. Rank(S, p) \in 0..(n - 1)
    BY RanksOrder
  <2>2. i \in 1..n /\ i - 1 = Rank(S, p)
    <3> HIDE DEF n
    <3> QED BY <1>1, <2>1
  <2> HIDE DEF i
  <2> DEFINE q == s[i]
  <2>3. q \in S /\ Rank(S, q) = Rank(S, p)
    BY <1>5, <2>2
  <2> HIDE DEF q
  <2>4. /\ p.account < q.account => Rank(S, p) < Rank(S, q)
        /\ q.account < p.account => Rank(S, q) < Rank(S, p)
    BY <2>3, RanksOrder
  <2>5. p.account \in Int /\ q.account \in Int /\ (q.account = p.account => q = p)
    BY <2>3 DEF IsAccounts
  <2>6. Rank(S, p) \in Int
    <3> HIDE DEF n
    <3> QED BY <1>1, <2>1
  <2>7. q = p
    BY <2>3, <2>4, <2>5, <2>6
  <2> QED BY <2>2, <2>7 DEF q
<1> QED BY <1>1, <1>4, <1>6, <1>7 DEF s

\* Of some numbers, one is first.
LEMMA FirstOne ==
  ASSUME NEW k \in Nat, NEW A, A \subseteq 1..k, A # {}
  PROVE  \E i \in A : i - 1 \notin A
<1> DEFINE W == 1..k
           Parts == {1..i : i \in A}
<1>1. IsFiniteSet(W)
  BY FS_Interval
<1>2. \A i \in W : 1..i \in SUBSET W
  OBVIOUS
<1>3. Parts \subseteq SUBSET W /\ Parts # {}
  <2> HIDE DEF W
  <2>1. A \subseteq W
    BY DEF W
  <2> QED BY <1>2, <2>1
<1>4. PICK x \in Parts : \A y \in Parts : ~(y \subseteq x /\ y # x)
  <2> HIDE DEF Parts, W
  <2> QED BY <1>1, <1>3, SmallestSubset
<1>5. PICK i \in A : x = 1..i
  OBVIOUS
<1>6. i \in Int /\ i >= 1 /\ 1..(i - 1) \subseteq 1..i /\ 1..(i - 1) # 1..i
  OBVIOUS
<1>7. ASSUME i - 1 \in A PROVE FALSE
  <2>1. 1..(i - 1) \in Parts
    BY <1>7
  <2> HIDE DEF Parts
  <2> QED BY <1>4, <1>5, <1>6, <2>1
<1> QED BY <1>7

\* A sequence is cut into k consecutive parts that end where c says.
Cuts(s, k, c) ==
  /\ k \in Nat \ {0} /\ c \in [0..k -> 0..Len(s)]
  /\ c[0] = 0 /\ c[k] = Len(s) /\ \A i \in 1..k : c[i - 1] <= c[i]

\* It is read again from its parts.
LEMMA FlattenCuts ==
  ASSUME NEW S, NEW s \in Seq(S), NEW k, NEW c, Cuts(s, k, c)
  PROVE  FlattenSeq([i \in 1..k |-> SubSeq(s, c[i - 1] + 1, c[i])]) = s
<1> SUFFICES ASSUME k \in Nat \ {0}, c \in [0..k -> 0..Len(s)],
                    c[0] = 0, c[k] = Len(s), \A i \in 1..k : c[i - 1] <= c[i],
                    NEW r, r = [i \in 1..k |-> SubSeq(s, c[i - 1] + 1, c[i])]
             PROVE  FlattenSeq(r) = s
  BY DEF Cuts
<1> DEFINE Flattens(f) == f = [i \in 1..k |-> IF i = 1 THEN r[i] ELSE f[i - 1] \o r[i]]
           g == [i \in 1..k |-> SubSeq(s, 1, c[i])]
           h == CHOOSE f : Flattens(f)
<1>1. Len(s) \in Nat /\ \A i \in 1..Len(s) : s[i] \in S
  BY LenProperties, ElementOfSeq
<1>2. \A i \in 1..k : /\ c[i] \in 0..Len(s) /\ c[i - 1] \in 0..Len(s) /\ c[i - 1] <= c[i]
                      /\ r[i] = SubSeq(s, c[i - 1] + 1, c[i])
                      /\ i - 1 \in 0..k /\ (i # 1 => i - 1 \in 1..k)
  <2>1. \A i \in 1..k : i - 1 \in 0..k /\ i \in 0..k /\ (i # 1 => i - 1 \in 1..k)
    OBVIOUS
  <2> QED BY <2>1
<1>3. Len(r) = k
  <2>1. ASSUME NEW i \in 1..k PROVE r[i] \in Seq(S)
    <3> DEFINE u == c[i - 1]
               a == u + 1
               b == c[i]
    <3>1. a \in Int /\ b \in Int /\ \A j \in a..b : j \in 1..Len(s)
      <4>1. u \in 0..Len(s) /\ b \in 0..Len(s)
        BY <1>2
      <4> HIDE DEF u, b
      <4> QED BY <1>1, <4>1
    <3> HIDE DEF a, b
    <3>2. SubSeq(s, a, b) \in Seq(S)
      BY <1>1, <3>1, SubSeqProperties
    <3> QED BY <1>2, <3>2 DEF a, b
  <2>2. r \in [1..k -> Seq(S)]
    BY <2>1
  <2>3. r \in Seq(Seq(S))
    <3> DEFINE T == Seq(S)
    <3>1. r \in [1..k -> T] /\ k \in Nat
      BY <2>2
    <3> HIDE DEF T
    <3>2. r \in UNION {[1..n -> T] : n \in Nat}
      BY <3>1
    <3> QED BY <3>2, SeqDef DEF T
  <2>4. Len(r) \in Nat /\ DOMAIN r = 1..Len(r)
    BY <2>3, LenProperties
  <2>5. 1..Len(r) = 1..k
    BY <2>2, <2>4
  <2> QED BY <2>4, <2>5
<1>4. ASSUME NEW i \in 1..k
      PROVE  g[i] = IF i = 1 THEN r[i] ELSE g[i - 1] \o r[i]
  <2>1. CASE i = 1
    <3>1. c[i - 1] + 1 = 1
      BY <2>1
    <3> QED BY <1>2, <2>1, <3>1
  <2>2. CASE i # 1
    <3> DEFINE a == c[i - 1]
               b == c[i]
    <3>1. g[i - 1] = SubSeq(s, 1, a) /\ g[i] = SubSeq(s, 1, b) /\ r[i] = SubSeq(s, a + 1, b)
      BY <1>2, <2>2
    <3>2. a \in 0..Len(s) /\ b \in 0..Len(s) /\ a <= b
      BY <1>2
    <3> HIDE DEF a, b, g
    <3>3. 1 \in 1..Len(s) + 1 /\ a \in (1 - 1)..Len(s) /\ b \in a..Len(s)
      BY <1>1, <3>2
    <3>4. SubSeq(s, 1, a) \o SubSeq(s, a + 1, b) = SubSeq(s, 1, b)
      BY <3>3, ConcatAdjacentSubSeq
    <3> QED BY <2>2, <3>1, <3>4
  <2> QED BY <2>1, <2>2
<1>5. Flattens(g)
  <2>1. g = [i \in 1..k |-> g[i]]
    OBVIOUS
  <2> HIDE DEF g
  <2> QED BY <1>4, <2>1
<1>6. Flattens(h)
  <2> HIDE DEF Flattens, g
  <2> QED BY <1>5
<1>7. \A i \in 1..k : h[i] = g[i]
  <2> DEFINE Bad == {i \in 1..k : h[i] # g[i]}
  <2> SUFFICES ASSUME Bad # {} PROVE FALSE
    OBVIOUS
  <2>1. Bad \subseteq 1..k
    OBVIOUS
  <2>2. PICK i \in Bad : i - 1 \notin Bad
    <3> HIDE DEF Bad
    <3> QED BY <2>1, FirstOne
  <2>3. h[i] = IF i = 1 THEN r[i] ELSE h[i - 1] \o r[i]
    <3> HIDE DEF h
    <3> QED BY <1>6
  <2>4. i \in 1..k /\ h[i] # g[i]
    BY <2>2, Zenon
  <2> HIDE DEF h, g
  <2>5. i # 1
    BY <1>4, <2>3, <2>4
  <2>6. i - 1 \in 1..k
    BY <2>4, <2>5
  <2>7. h[i - 1] = g[i - 1]
    BY <2>2, <2>6
  <2>8. g[i] = g[i - 1] \o r[i]
    BY <1>4, <2>4, <2>5
  <2> QED BY <2>3, <2>4, <2>5, <2>7, <2>8
<1>8. FlattenSeq(r) = h[k]
  BY <1>3 DEF FlattenSeq
<1>9. g[k] = s
  <2>1. g[k] = SubSeq(s, 1, Len(s))
    BY SMTT(30)
  <2> HIDE DEF g
  <2> QED BY <2>1, SubSeqFull
<1>10. h[k] = g[k]
  <2> HIDE DEF h, g
  <2> QED BY <1>7
<1> HIDE DEF h, g
<1> QED BY <1>8, <1>9, <1>10

\* The pages are as many as it takes, one for no accounts.
LEMMA PagesFit ==
  ASSUME NEW n \in Nat, NEW p \in Nat \ {0}, NEW k, k = Max({1, (n + p - 1) \div p})
  PROVE  k \in Nat \ {0} /\ (k - 1) * p <= n /\ n <= k * p
<1> DEFINE q == (n + p - 1) \div p
<1>1. q \in Nat /\ q * p <= n + p - 1 /\ n + p - 1 < q * p + p
  OBVIOUS
<1> HIDE DEF q
<1>2. k = IF q > 1 THEN q ELSE 1
  <2>1. k = Max({1, q})
    BY DEF q
  <2> QED BY <1>1, <2>1 DEF Max
<1>3. CASE q > 1
  <2>1. (q - 1) * p = q * p - p /\ q * p \in Int
    BY <1>1
  <2> QED BY <1>1, <1>2, <1>3, <2>1
<1>4. CASE q <= 1
  <2>1. k = 1
    BY <1>1, <1>2, <1>4
  <2>2. q * p <= p
    BY <1>1, <1>4
  <2> QED BY <1>1, <2>1, <2>2
<1> QED BY <1>1, <1>3, <1>4

\* Read page after page, the table is the listing.
LEMMA PagesRead ==
  ASSUME NEW A, IsAccounts(A)
  PROVE  /\ PagesOf(A) \in Nat \ {0}
         /\ FlattenSeq([i \in 1..PagesOf(A) |-> PageRows(A, i)]) = InOrder(A)
<1> DEFINE n == Cardinality(A)
           s == InOrder(A)
           k == PagesOf(A)
           p == PageSize
           c == [i \in 0..k |-> IF i * p <= n THEN i * p ELSE n]
           r == [i \in 1..k |-> SubSeq(s, c[i - 1] + 1, c[i])]
<1>1. n \in Nat /\ s \in [1..n -> A]
  BY Listing
<1>2. s \in Seq(A) /\ Len(s) = n
  <2> HIDE DEF n, s
  <2>1. s \in UNION {[1..m -> A] : m \in Nat}
    BY <1>1
  <2>2. s \in Seq(A)
    BY <2>1, SeqDef
  <2>3. Len(s) \in Nat /\ DOMAIN s = 1..Len(s)
    BY <2>2, LenProperties
  <2>4. 1..Len(s) = 1..n
    BY <1>1, <2>3
  <2> QED BY <1>1, <2>2, <2>3, <2>4
<1>3. p \in Nat \ {0} /\ k = Max({1, (n + p - 1) \div p})
  BY NominativeAssumption DEF PagesOf
<1> HIDE DEF n, s, k, p
<1>4. k \in Nat \ {0} /\ (k - 1) * p <= n /\ n <= k * p
  BY <1>1, <1>3, PagesFit
<1>5. ASSUME NEW i \in 1..k
      PROVE  /\ (i - 1) * p \in Nat /\ i * p \in Nat /\ (i - 1) * p <= n
             /\ (i - 1) * p + p = i * p
  <2>1. i - 1 \in Nat /\ i - 1 <= k - 1 /\ k - 1 \in Nat
    BY <1>4
  <2>2. (i - 1) * p <= (k - 1) * p
    BY <1>3, <2>1
  <2>3. (i - 1) * p \in Nat /\ i * p \in Nat /\ (i - 1) * p + p = i * p /\ (k - 1) * p \in Nat
    BY <1>3, <2>1
  <2> QED BY <1>1, <1>4, <2>2, <2>3
<1>6. ASSUME NEW i \in 1..k
      PROVE  /\ c[i - 1] = (i - 1) * p /\ c[i] = IF i * p <= n THEN i * p ELSE n
             /\ c[i - 1] <= c[i]
  <2>1. i - 1 \in 0..k /\ i \in 0..k
    BY <1>4
  <2>2. c[i - 1] = (i - 1) * p /\ c[i] = IF i * p <= n THEN i * p ELSE n
    BY <1>5, <2>1
  <2> DEFINE a == (i - 1) * p
             b == i * p
             x == c[i]
  <2>3. a \in Nat /\ b \in Nat /\ a <= n /\ a + p = b /\ x = IF b <= n THEN b ELSE n
    BY <1>5, <2>2
  <2> HIDE DEF a, b, x
  <2>4. a <= x
    BY <1>1, <1>3, <2>3
  <2> QED BY <2>2, <2>4 DEF a, x
<1>7. c \in [0..k -> 0..n] /\ c[0] = 0 /\ c[k] = n
  <2>1. ASSUME NEW i \in 0..k PROVE i * p \in Nat
    BY <1>3, <1>4
  <2>2. c \in [0..k -> 0..n]
    BY <1>1, <2>1
  <2>3. 0 \in 0..k /\ 0 * p = 0 /\ k \in 0..k /\ k * p \in Nat
    BY <1>3, <1>4
  <2>4. c[0] = 0
    BY <1>1, <2>3
  <2>5. c[k] = n
    BY <1>1, <1>4, <2>3
  <2> QED BY <2>2, <2>4, <2>5
<1>8. ASSUME NEW i \in 1..k PROVE PageRows(A, i) = SubSeq(s, c[i - 1] + 1, c[i])
  <2> DEFINE from == (i - 1) * p
  <2>1. Clamp(A, i) = i
    BY <1>4 DEF Clamp, k
  <2>2. PageRows(A, i) = SubSeq(s, from + 1, Min({from + p, n}))
    BY <2>1 DEF PageRows, s, n, p
  <2>3. from \in Nat /\ from + p = i * p /\ i * p \in Nat
    BY <1>5
  <2>4. c[i - 1] = from /\ c[i] = IF i * p <= n THEN i * p ELSE n
    BY <1>6
  <2> HIDE DEF from, c
  <2>5. Min({from + p, n}) = c[i]
    BY <1>1, <2>3, <2>4 DEF Min
  <2> QED BY <2>2, <2>4, <2>5
<1>9. [i \in 1..k |-> PageRows(A, i)] = r
  BY <1>8
<1>10. FlattenSeq(r) = s
  <2> HIDE DEF c
  <2>1. Cuts(s, k, c)
    BY <1>2, <1>4, <1>6, <1>7 DEF Cuts
  <2> QED BY <1>2, <2>1, FlattenCuts
<1> HIDE DEF r
<1> QED BY <1>4, <1>9, <1>10 DEF k, s

\* Every account of a search is shown once, in order, on any date.
LEMMA PagesCoverAll ==
  ASSUME NEW date, NEW branch, NEW bucket, NEW found
  PROVE  PagesCover(date, branch, bucket, found)
<1> DEFINE selected == Selected(date, branch, bucket)
           A == {p \in selected : p.account \in found}
           At(i) == NominativeOf(date, branch, bucket, i, found)
           k == PagesOf(A)
           s == InOrder(A)
           n == Cardinality(A)
<1>1. A \in SUBSET Deposits
  BY DEF Selected, Scope, NotYetDue
<1>2. \A i : /\ At(i).rows = PageRows(A, i) /\ At(i).pages = k
             /\ At(i).filterCount = n
  BY DEF NominativeOf
<1>3. \A i, j : Clamp(A, i) = Clamp(A, j) => At(i) = At(j)
  BY DEF NominativeOf, PageRows
<1> HIDE DEF A, At
<1>4. IsAccounts(A)
  BY <1>1, NominativeAssumption, FS_Subset DEF IsAccounts
<1>5. k \in Nat \ {0} /\ FlattenSeq([i \in 1..k |-> PageRows(A, i)]) = s
  BY <1>4, PagesRead
<1>6. /\ n \in Nat /\ s \in [1..n -> A]
      /\ \A i, j \in 1..n : i < j => s[i].account < s[j].account
      /\ \A p \in A : \E i \in 1..n : s[i] = p
  BY <1>4, Listing
<1> HIDE DEF n, s
<1>7. Len(s) = n
  <2>1. s \in UNION {[1..m -> A] : m \in Nat}
    BY <1>6
  <2>2. s \in Seq(A)
    BY <2>1, SeqDef
  <2>3. Len(s) \in Nat /\ DOMAIN s = 1..Len(s)
    BY <2>2, LenProperties
  <2>4. 1..Len(s) = 1..n
    BY <1>6, <2>3
  <2> QED BY <1>6, <2>3, <2>4
<1>8. FlattenSeq([i \in 1..At(1).pages |-> At(i).rows]) = s
  <2>1. [i \in 1..At(1).pages |-> At(i).rows] = [i \in 1..k |-> PageRows(A, i)]
    BY <1>2
  <2> QED BY <1>5, <2>1
<1>9. {s[i] : i \in DOMAIN s} = A
  BY <1>6
<1>10. \A i \in 2..Len(s) : s[i - 1].account < s[i].account
  <2> SUFFICES ASSUME NEW i \in 2..n PROVE s[i - 1].account < s[i].account
    BY <1>7
  <2>1. i - 1 \in 1..n /\ i \in 1..n /\ i - 1 < i
    BY <1>6
  <2> QED BY <1>6, <2>1
<1>11. Clamp(A, 0) = Clamp(A, 1) /\ Clamp(A, k + 1) = Clamp(A, k)
  BY <1>5 DEF Clamp
<1>12. At(0) = At(1) /\ At(At(1).pages + 1) = At(At(1).pages)
  BY <1>2, <1>3, <1>11
<1>13. At(1).filterCount = n
  BY <1>2
<1> QED BY <1>7, <1>8, <1>9, <1>10, <1>12, <1>13 DEF PagesCover, At, A

\* Paging through an account table shows each account once, on every day, for any
\* deposits, buckets and searches and any size of a page (reader.Nominative).
THEOREM PagesAreWhole == Spec => []PagesShowEachOnce
<1>1. PagesShowEachOnce
  BY PagesCoverAll DEF PagesShowEachOnce
<1> QED BY <1>1, PTL

=============================================================================
