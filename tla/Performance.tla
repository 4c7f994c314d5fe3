----------------------------- MODULE Performance -----------------------------
(***************************************************************************)
(* The balance sheets behind the ratios of Kinerja Keuangan, and which of  *)
(* them NIM averages (GetFinancialPerformance, load and financial in       *)
(* internal/service/dwh/dashboard.go; cachedSnapshot and metricRows in     *)
(* internal/service/dwh/cache.go).                                         *)
(*                                                                         *)
(* A sheet is whole, with all accounts of a source, or, out of the cache,  *)
(* has assets and profit alone.  NIM is the set of the dates whose         *)
(* productive assets it averages, and is hidden when that set is empty.    *)
(* A world w says what the sources hold while a page is read: today's date, *)
(* the dates the DWH lacks (gaps), whether it has loaded today, whether a   *)
(* generation of today is published.                                       *)
(***************************************************************************)
EXTENDS Calendar

Worlds(today, gaps) ==
  {[today |-> today, gaps |-> gaps, loaded |-> s = "loaded", published |-> s = "published"] :
     s \in {"loaded", "published", "none"}}

\* sourceFor, in hybrid mode.
SourceFor(w, date) == IF date = w.today /\ ~w.loaded THEN "realtime" ELSE "dwh"

\* BalanceSheetPosition: the days asked for that the source has.  The realtime tables
\* have the rows of one generation, here of today.
BalanceSheets(w, source, days) ==
  IF source = "realtime"
  THEN {d \in days : d = w.today /\ w.published}
  ELSE {d \in days : d \notin w.gaps
                     /\ (Before(d, w.today) \/ (d = w.today /\ w.loaded))}

Samples(date) == {NimDate(date, m) : m \in 1..date.m}

\* completeNIM: every sample must have a sheet, and counts as far as it is whole.
Nim(date, whole, partial) ==
  IF Samples(date) \subseteq whole \cup partial THEN Samples(date) \cap whole ELSE {}

-----------------------------------------------------------------------------
(* The cache. *)

\* balance_present of a day's metrics: its own source had a sheet.
Balanced(w, date) == BalanceSheets(w, SourceFor(w, date), {date}) # {}

\* The NIM of its metrics, with the earlier samples out of the DWH, whether a chunk
\* builds them or a publication for its own day (MaterializeRealtime).
MetricNim(w, date) ==
  Nim(date, {date} \cup BalanceSheets(w, "dwh", Samples(date) \ {date}), {})

\* Mutant of FallbackDays: the missing days alone.
FallbackDaysBare(days) == days

\* The days asked of a source for those the cache lacks.
FallbackDays(days) == days \cup UNION {Samples(d) : d \in days}

Requested(f) == {g.date : g \in ReportFilters(f)}

\* load with a metric store, for kind b: `cached` are the days with metrics when the
\* page read them, w is the world when it asked the sources for the others.
LoadCached(requested, cached, w) ==
  LET Missing(source) == {d \in requested \ cached : SourceFor(w, d) = source}
      hits == {d \in requested \cap cached : Balanced(w, d)}
  IN [row     |-> [d \in hits |-> MetricNim(w, d)],
      whole   |-> UNION {BalanceSheets(w, s, FallbackDays(Missing(s))) :
                           s \in {"realtime", "dwh"}},
      partial |-> hits]

\* load without a metric store: each day is asked of its own source.
LoadSources(requested, f, w) ==
  LET days == requested \cup Samples(f.date) \cup Samples(Previous(f).date)
      Of(source) == {d \in days : SourceFor(w, d) = source}
  IN [row     |-> <<>>,
      whole   |-> UNION {BalanceSheets(w, s, Of(s)) : s \in {"realtime", "dwh"}},
      partial |-> {}]

-----------------------------------------------------------------------------
(* The page. *)

\* financial: the cached figures, or those of the loaded sheets.
Financial(x, date) ==
  IF date \in DOMAIN x.row THEN x.row[date]
  ELSE IF date \in x.whole THEN Nim(date, x.whole, x.partial) ELSE {}

\* The NIM of the card and the one it is compared with; without a sheet of the
\* reporting date the page is empty.
NimCard(x, f) ==
  IF f.date \in x.whole \cup x.partial
  THEN [value |-> Financial(x, f.date), previous |-> Financial(x, Previous(f).date)]
  ELSE [value |-> {}, previous |-> {}]

-----------------------------------------------------------------------------
(* What the card promises. *)

\* Days whose metrics a page may find: all but the date, all but the one it is compared
\* with, or every other one.
Caches(requested, f) ==
  {requested \ {f.date}, requested \ {Previous(f).date}, {d \in requested : d.d % 2 = d.m % 2}}

\* Gaps of the DWH: none, or the sheet of a month in the middle of the year so far.
GapsOf(f) == {{}, {NimDate(f.date, (f.date.m + 1) \div 2)}}

\* Today's metrics are committed with their generation, so a page that reads cache
\* and sources between the same two publications finds both or neither.
SameCommit(cached, w) ==
  SourceFor(w, w.today) = "realtime" => (w.today \in cached <=> w.published)

\* Whichever days are cached, a card has the NIM that the sources alone would give.
CacheChangesNoNim(f, today) ==
  LET requested == Requested(f)
      caches == Caches(requested, f)
  IN \A gaps \in GapsOf(f) : \A w \in Worlds(today, gaps) :
       LET card == NimCard(LoadSources(requested, f, w), f)
       IN \A cached \in caches :
            (today \in requested => SameCommit(cached, w))
              => NimCard(LoadCached(requested, cached, w), f) = card

\* A card's NIM averages the sheets of all months from January on, or is hidden; a page
\* may have read the cache before today's first publication and ask the sources after it.
WholeOrHidden(f, today) ==
  LET requested == Requested(f)
  IN \A gaps \in GapsOf(f), cached \in Caches(requested, f) : \A w \in Worlds(today, gaps) :
       (today \in cached => w.loaded \/ w.published) =>
         LET card == NimCard(LoadCached(requested, cached, w), f) IN
           /\ card.value \in {{}, Samples(f.date)}
           /\ card.previous \in {{}, Samples(Previous(f).date)}

=============================================================================
