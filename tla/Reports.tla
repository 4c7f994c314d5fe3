------------------------------ MODULE Reports ------------------------------
(***************************************************************************)
(* Period figures over time: the booking of loans and the channeling       *)
(* position of a daily, monthly or yearly filter, read from the daily      *)
(* metrics (internal/service/dwh/cache.go) or, where those have a gap, from *)
(* the sources themselves (internal/service/dwh/repository.go and          *)
(* internal/service/newsinergi/repository.go).                             *)
(*                                                                         *)
(* `today` walks from day to day through years, so that the laws of        *)
(* Calendar and Nominative meet every date; loans are booked and closed,   *)
(* applications signed and metrics built on the days of Window alone.      *)
(* Metrics of the days before Window exist and hold zeros.  Amounts are 1. *)
(* Generations, locks and the choice of days are Refresh, Materializer and *)
(* PageRead.                                                               *)
(***************************************************************************)
EXTENDS Nominative, Performance

CONSTANTS FirstDay,    \* where the walk begins
          Window,      \* consecutive days; the walk ends the day after the last
          Loans,
          LateEntry,   \* loans may be entered after the day they begin
          MaxChanges   \* bound on bookings, closings and signings

VARIABLES today,    \* the calendar day in Jakarta
          begun,    \* periode_mulai of each loan, NoDate before it is entered
          open,     \* loans of the core banking
          eod,      \* loans of each day's snapshot, for the past days final
          live,     \* the snapshot of today is published
          built,    \* days with loan metrics of source dwh
          signed,   \* Newsinergi: signed applications of each day and branch
          rows,     \* channeling metrics of each day, NoRow when there are none
          jobs,     \* channeling metrics computed and not yet written
          stale     \* history: days with rows older than a signing they should count

vars == <<today, begun, open, eod, live, built, signed, rows, jobs, stale>>

loanVars == <<begun, open, eod, built>>
channelVars == <<signed, rows, jobs, stale>>

NoDate == [y |-> 0, m |-> 0, d |-> 0]
NoRow == [booking |-> <<>>, plafond |-> <<>>]
NoJob == [rows |-> <<>>, missed |-> {}]

Writers == {"refresh", "materialize"}
Scopes == Branches \cup {"ALL"}
NextDay(date) == AddDate(date, 0, 0, 1)
Between(from, to) == {d \in Window : ~Before(d, from) /\ ~Before(to, d)}
Until == [date \in Window |-> {d \in Window : ~Before(date, d)}]
Filters == [mode : Modes, date : Window]
Period == [f \in Filters |-> Between(PeriodStart(f), f.date)]

ASSUME ReportsAssumption ==
  /\ IsDate(FirstDay) /\ MaxChanges \in Nat /\ LateEntry \in BOOLEAN
  /\ IsFiniteSet(Window) /\ IsFiniteSet(Loans)
  /\ \A d \in Window : IsDate(d) /\ ~Before(d, FirstDay)

-----------------------------------------------------------------------------
(* Booking. *)

\* LoanPosition: booking of a snapshot, for the period of the mode.
LoanBooking(mode, date) ==
  Cardinality({l \in eod[date] : begun[l] \in Period[Filter(mode, date)]})

\* Mutant of MetricBooking: built with the mode of a page.
MetricBookingMonthly(date) == LoanBooking("monthly", date)

\* loan_organic_booking of a day.
MetricBooking(date) == LoanBooking("daily", date)

\* Days with loan metrics of the source that serves them.
Present(d) == d \in built \/ (d = today /\ live)

\* cachedSnapshot and load: the days' sum, or one query on the last day.
Booking(f) ==
  IF \A d \in Period[f] : Present(d) THEN SumFunction([d \in Period[f] |-> MetricBooking(d)])
  ELSE LoanBooking(f.mode, f.date)

-----------------------------------------------------------------------------
(* Channeling. *)

\* Mutant of Daily: the last day is left out.
DailyBefore(through) ==
  [d \in {e \in Window : Before(e, through)} |-> signed[d]]

Daily(through) == [d \in Until[through] |-> signed[d]]

\* Applications of a branch, or of all.
Of(counts, scope) ==
  IF scope = "ALL" THEN SumFunction(counts) ELSE counts[scope]

\* materializeChanneling: each day's booking and all that was signed until then.
ChannelingRows(from, to) ==
  LET daily == Daily(to)
  IN [d \in Between(from, to) |->
       [booking |-> [s \in Scopes |-> IF d \in DOMAIN daily THEN Of(daily[d], s) ELSE 0],
        plafond |-> [s \in Scopes |->
          SumFunction([e \in Until[d] \cap DOMAIN daily |-> Of(daily[e], s)])]]]

\* Positions: booking of the period and plafond until its last day.
Positions(f, scope) ==
  LET Signed(days) == SumFunction([d \in days |-> Of(signed[d], scope)])
      plafond == Signed(Until[f.date])
  IN [booking |-> Signed(Period[f]), plafond |-> plafond, exists |-> plafond > 0]

\* MetricStore.channeling, asking Newsinergi when a day of the period is missing.
Channeling(f, scope) ==
  IF \E d \in Period[f] : rows[d] = NoRow THEN Positions(f, scope)
  ELSE LET plafond == rows[f.date].plafond[scope]
       IN [booking |-> SumFunction([d \in Period[f] |-> rows[d].booking[scope]]),
           plafond |-> plafond, exists |-> plafond > 0]

-----------------------------------------------------------------------------
(* The core banking and Newsinergi. *)

Changes ==
  Cardinality({l \in Loans : begun[l] # NoDate})
  + Cardinality({l \in Loans : begun[l] # NoDate /\ l \notin open})
  + SumFunction([d \in Window |-> Of(signed[d], "ALL")])

MayChange == today \in Window /\ Changes < MaxChanges

\* A loan is entered on the day it begins, or later.
Book(l, d) ==
  /\ MayChange
  /\ begun[l] = NoDate
  /\ d = today \/ (LateEntry /\ Before(d, today))
  /\ begun' = [begun EXCEPT ![l] = d]
  /\ open' = open \cup {l}
  /\ UNCHANGED <<today, eod, live, built, channelVars>>

Close(l) ==
  /\ MayChange
  /\ l \in open
  /\ open' = open \ {l}
  /\ UNCHANGED <<today, begun, eod, live, built, channelVars>>

\* An application is signed, with the date of today or an earlier one.
Sign(d, b) ==
  /\ MayChange
  /\ ~Before(today, d)
  /\ signed' = [signed EXCEPT ![d][b] = @ + 1]
  /\ LET counts(e) == ~Before(e, d) IN
       /\ stale' = stale \cup {e \in Window : rows[e] # NoRow /\ counts(e)}
       /\ jobs' = [w \in Writers |->
                    [jobs[w] EXCEPT !.missed = @ \cup {e \in DOMAIN jobs[w].rows : counts(e)}]]
  /\ UNCHANGED <<today, live, loanVars, rows>>

\* The day ends with its last snapshot.
Midnight ==
  /\ \E d \in Window : ~Before(d, today)
  /\ today' = NextDay(today)
  /\ live' = FALSE
  /\ eod' = IF today \in Window THEN [eod EXCEPT ![today] = open] ELSE eod
  /\ UNCHANGED <<begun, open, built, channelVars>>

-----------------------------------------------------------------------------
(* The writers of metrics. *)

Compute(w, from, to) ==
  jobs' = [jobs EXCEPT ![w] = [rows |-> ChannelingRows(from, to), missed |-> {}]]

\* put replaces the rows of the job's days.
Put(w) ==
  LET new == jobs[w].rows IN
    /\ rows' = [d \in Window |-> IF d \in DOMAIN new THEN new[d] ELSE rows[d]]
    /\ stale' = (stale \ DOMAIN new) \cup jobs[w].missed
    /\ jobs' = [jobs EXCEPT ![w] = NoJob]

\* A refresh reads Newsinergi for its day and publishes later, even past midnight.
RefreshReads ==
  /\ today \in Window /\ jobs["refresh"] = NoJob
  /\ Compute("refresh", today, today)
  /\ UNCHANGED <<today, live, loanVars, signed, rows, stale>>

RefreshPublishes ==
  /\ jobs["refresh"] # NoJob
  /\ Put("refresh")
  /\ IF today \in DOMAIN jobs["refresh"].rows
     THEN live' = TRUE /\ eod' = [eod EXCEPT ![today] = open]
     ELSE UNCHANGED <<live, eod>>
  /\ UNCHANGED <<today, begun, open, built, signed>>

\* Mutant of ChunkReads: the running day is built as if it were over.
ChunkReadsLive(from, to) ==
  /\ ~Before(today, to) /\ ~Before(to, from) /\ jobs["materialize"] = NoJob
  /\ Compute("materialize", from, to)
  /\ UNCHANGED <<today, live, loanVars, signed, rows, stale>>

\* A chunk of past days, which the DWH has, of the DWH and of Newsinergi.
ChunkReads(from, to) ==
  /\ Before(to, today) /\ ~Before(to, from) /\ jobs["materialize"] = NoJob
  /\ Compute("materialize", from, to)
  /\ UNCHANGED <<today, live, loanVars, signed, rows, stale>>

ChunkWrites ==
  /\ jobs["materialize"] # NoJob
  /\ built' = built \cup DOMAIN jobs["materialize"].rows
  /\ Put("materialize")
  /\ UNCHANGED <<today, begun, open, eod, live, signed>>

-----------------------------------------------------------------------------

Init ==
  /\ today = FirstDay
  /\ begun = [l \in Loans |-> NoDate]
  /\ open = {} /\ eod = [d \in Window |-> {}]
  /\ live = FALSE /\ built = {}
  /\ signed = [d \in Window |-> [b \in Branches |-> 0]]
  /\ rows = [d \in Window |-> NoRow]
  /\ jobs = [w \in Writers |-> NoJob]
  /\ stale = {}

Next ==
  \/ Midnight
  \/ \E l \in Loans : Close(l) \/ \E d \in Window : Book(l, d)
  \/ \E d \in Window, b \in Branches : Sign(d, b)
  \/ RefreshReads \/ RefreshPublishes
  \/ \E from, to \in Window : ChunkReads(from, to)
  \/ ChunkWrites

Spec == Init /\ [][Next]_vars

-----------------------------------------------------------------------------
(* Properties. *)

Counts == [booking : [Scopes -> 0..MaxChanges], plafond : [Scopes -> 0..MaxChanges]]

\* Every variable keeps to its domain; days with metrics of source dwh, and with a
\* snapshot, are in the past or today.
TypeOK ==
  /\ IsDate(today) /\ live \in BOOLEAN
  /\ begun \in [Loans -> {NoDate} \cup Window]
  /\ open \subseteq {l \in Loans : begun[l] # NoDate}
  /\ eod \in [Window -> SUBSET Loans]
  /\ signed \in [Window -> [Branches -> 0..MaxChanges]]
  /\ \A d \in Window : rows[d] = NoRow \/ rows[d] \in Counts
  /\ \A w \in Writers : jobs[w].missed \subseteq DOMAIN jobs[w].rows
  /\ \A d \in built : Before(d, today) /\ rows[d] # NoRow
  /\ \A d \in stale : ~Before(today, d) /\ rows[d] # NoRow

\* The laws of dates are evaluated once for each day, before Window.
Walking == \A d \in Window : Before(today, d)

\* The default filters of a page today and the last whole periods before them.
FiltersOfToday ==
  {ParseFilterAt(mode, in, today) : mode \in Modes, in \in {today, Date(today.y, today.m, 0)}}

\* What may be asked for: today's period, its neighbours and the same last year.
Asked == {today, NextDay(today), Date(today.y, today.m, 0), FirstOf(today.y, today.m + 1),
          AddDate(today, -1, 0, 0), AddDate(today, 1, 0, 0)}

\* Every period asked for opens a filter of that period, and the links of its page
\* open the same filter (domain.ParseFilterAt and the renderer's filterQuery).
PeriodsOpenAgain ==
  Walking => \A mode \in Modes, in \in Asked : OpensAgain(mode, in, today)

\* What a card is compared with and the chart's bars are the same snapshots, whole
\* periods are compared with whole ones and open ones up to the same day, and no
\* day is in two bars (domain.Previous beside the DWH service's shift).
ComparedLikeWithLike ==
  Walking => \A f \in FiltersOfToday : PreviousIsPoint(f) /\ PeriodsApart(f) /\ LikeCutoff(f)

\* NIM averages one balance sheet for each month so far, though setMonth carries
\* days over (nimDate).
NimSamples == Walking => \A f \in FiltersOfToday : NimSamplesApart(f)

\* The NIM of a card does not depend on which days are cached (cachedSnapshot and
\* load, beside the rows that metricRows builds), though the cache has no productive
\* assets to average and a missing day is loaded with samples of its own.
NimFromAnywhere ==
  Walking => \A f \in FiltersOfToday : CacheChangesNoNim(f, today)

\* docs/DWH_AUDIT.md:20: NIM needs samples of every month from January on, and is hidden
\* rather than shown from incomplete history.
NimWholeOrHidden ==
  Walking => \A f \in FiltersOfToday : WholeOrHidden(f, today)

\* The cards of the maturity page agree with the account tables behind their links.
MaturitiesReconcile == Walking => \A b \in Scopes : Reconciles(today, b)

\* Paging through an account table shows each account once, for every bucket and
\* search (Nominative's LIMIT and OFFSET).
PagesShowEachOnce ==
  Walking => \A b \in Scopes, x \in {"", "0-7", "8-30", "31+"}, n \in 0..Cardinality(Deposits) :
    PagesCover(today, b, x, 1..n)

\* Filters and chart points within Window that have a snapshot.
Known == {f \in Filters :
            Before(f.date, today) \/ (f.date = today /\ live)}

\* Summed from daily metrics or asked of one snapshot, the booking of a period is
\* the same, provided that every loan of the period was entered on its first day
\* and is still open: backfilling a missing day then changes no figure.
BookingsAgree ==
  \A f \in Known :
    (\A l \in Loans : begun[l] \in Period[f] => (l \in eod[begun[l]] <=> l \in eod[f.date]))
      => Booking(f) = LoanBooking(f.mode, f.date)

\* docs/DWH_AUDIT.md:13: booking is the principal of the accounts on the reporting
\* date's snapshot that began in the period; the account table shows those.
BookingIsSnapshot ==
  \A f \in Known : Booking(f) = LoanBooking(f.mode, f.date)

\* Channeling figures from metrics are Newsinergi's own, whichever days were built
\* by refreshes or by chunks, in whatever order they wrote, as long as nothing was
\* signed for the period's days, or before them, after they were read.
ChannelingExact ==
  \A f \in Filters :
    Period[f] \cap stale = {} => \A s \in Scopes : Channeling(f, s) = Positions(f, s)

=============================================================================
