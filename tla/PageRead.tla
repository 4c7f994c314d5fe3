------------------------------ MODULE PageRead ------------------------------
(***************************************************************************)
(* One page request of the DWH-backed dashboard, query by query            *)
(* (internal/service/dwh/dashboard.go and the cached reads of cache.go),   *)
(* while the calendar, the DWH, the schedulers and the publications move.  *)
(*                                                                         *)
(* A figure is reduced to where it was read from: the DWH, or generation   *)
(* `id` of the realtime store.  The kinds of data a page loads are "d"     *)
(* (deposits; savings and the balance sheet are read the same way), "l"    *)
(* (loans, with the booking that is summed over a period) and "m" (the     *)
(* deposit maturities).  A branch is taken to have rows of every kind.     *)
(***************************************************************************)
EXTENDS Integers

CONSTANTS Hybrid,       \* DASHBOARD_DATA_SOURCE is "hybrid", not "dwh"
          MaxDay,       \* bound on the calendar
          MaxId,        \* bound on generations
          FirstDay,     \* the calendar date when the process starts
          Pages,        \* the sets of kinds that pages load
          Points,       \* the dates of a page's chart and comparison
          PeriodStart   \* the first day of the period that ends on a day

Days == 1..MaxDay
Kinds == {"d", "l", "m"}

ASSUME PageReadAssumption ==
  /\ Hybrid \in BOOLEAN /\ MaxDay \in Nat /\ MaxId \in Nat
  /\ FirstDay \in Days
  /\ Pages \subseteq SUBSET Kinds
  /\ \A page \in Pages : "m" \in page => page = {"m"}
  /\ Points \in [Days -> SUBSET Days]
  /\ PeriodStart \in [Days -> Days]
  /\ \A d \in Days : PeriodStart[d] <= d

VARIABLES today,      \* the calendar date in WIB
          loaded,     \* the DWH holds all tables up to this day
          watermark,  \* DashboardService.watermark
          cached,     \* days with 'dwh' rows in dashboard_daily_metrics
          latest,     \* newest published generation, 0 if none
          agg,        \* generation of each date's 'realtime' rows, 0 if none
          pc,         \* where the request is
          req,        \* its date and kinds; when it came and what was published
          label,      \* the provenance shown in the page's head
          rows,       \* rows of the running cache query not yet scanned
          vals,       \* rows scanned and kept
          missing,    \* the dates of each kind that the cache lacks
          queries,    \* source queries grouped but not yet run
          shown,      \* the figures of the page
          seen        \* history: the newest figure of each day ever shown

store == <<latest, agg>>
world == <<today, loaded, watermark, cached, latest, agg>>
reading == <<label, rows, vals, missing, queries, shown>>
vars == <<world, pc, req, reading, seen>>

Publication == INSTANCE Publication WITH Dates <- Days

\* Marker row and figures of each kind; "preview" is a table of its own.
Marker == [d |-> "deposit_present", l |-> "loan_present",
           m |-> "maturity_present"]
Booking == "loan_organic_booking"
Figures == [d |-> {"deposit_total"}, l |-> {"loan_organic_bade", Booking},
            m |-> {"deposit_due_nominal", "preview"}]
Items == UNION {Figures[k] \cup {Marker[k]} : k \in Kinds}

Sources == {"dwh", "realtime"}
Row == [day : Days, item : Items, source : Sources, id : 0..MaxId]
Figure == [day : Days, item : Items, from : Days, source : Sources,
           id : 0..MaxId]

NoMissing == [k \in Kinds |-> {}]
NoLabel == [kind |-> "none", id |-> 0]
NoRequest == [date |-> FirstDay, kinds |-> {}, day |-> FirstDay, floor |-> 0]

Init ==
  /\ today = FirstDay
  /\ loaded = FirstDay - 1 /\ watermark = loaded
  /\ cached \in SUBSET (1..loaded)
  /\ Publication!Init
  /\ pc = "idle" /\ req = NoRequest /\ label = NoLabel
  /\ rows = {} /\ vals = {} /\ missing = NoMissing /\ queries = {}
  /\ shown = {}
  /\ seen = [d \in Days |-> 0]

-----------------------------------------------------------------------------
(* Where a day is read from. *)

\* The day is today and the DWH is not known to have it.
Live(d) == Hybrid /\ d = today /\ watermark < d

\* Mutant of SourceFor: the DWH stands in until something is published.
SourceForPublished(d) ==
  IF Live(d) /\ agg[d] # 0 THEN "realtime" ELSE "dwh"

\* Reads the clock and the watermark at the moment of the call.
SourceFor(d) == IF Live(d) THEN "realtime" ELSE "dwh"

\* Rows of dashboard_daily_metrics: one per day, key and source.
MetricRows(days, items) ==
  [day : days \cap cached, item : items, source : {"dwh"}, id : {0}]
  \cup {[day |-> d, item |-> i, source |-> "realtime", id |-> agg[d]] :
          d \in {x \in days : agg[x] # 0}, i \in items}

\* Mutant of RepoDays: the realtime tables are not filtered by as_of_date.
RepoAnyDay(source) ==
  IF source = "dwh" THEN 1..loaded ELSE {d \in Days : latest # 0}

\* The days a repository has rows of: its queries select by as_of_date, and the
\* realtime tables are the newest published generation's.
RepoDays(source) ==
  IF source = "dwh" THEN 1..loaded
  ELSE {d \in Days : latest # 0 /\ agg[d] = latest}

RepoFigures(days, kind, source) ==
  {[day |-> d, item |-> i, from |-> d, source |-> source,
    id |-> IF source = "dwh" THEN 0 ELSE latest] :
      d \in days, i \in Figures[kind]}

-----------------------------------------------------------------------------
(* The request. *)

\* Without realtime data LatestDate is what LatestCommon answered at the start.
DefaultDate == IF Hybrid THEN today ELSE FirstDay - 1

\* base: the filter is parsed; any date may be asked for.
Open(d, kinds) ==
  /\ pc \in {"idle", "done"}
  /\ pc' = "routing"
  /\ req' = [date |-> d, kinds |-> kinds, day |-> today,
             floor |-> IF Live(d) THEN agg[d] ELSE 0]
  /\ label' = NoLabel /\ rows' = {} /\ vals' = {}
  /\ missing' = NoMissing /\ queries' = {} /\ shown' = {}
  /\ UNCHANGED <<world, seen>>

\* Provenance: the source of the date, and for today the newest generation.
Route ==
  /\ pc = "routing"
  /\ label' = [kind |-> SourceFor(req.date), id |-> 0]
  /\ pc' = IF SourceFor(req.date) = "realtime" THEN "stamping" ELSE "loading"
  /\ UNCHANGED <<world, req, rows, vals, missing, queries, shown, seen>>

\* Unavailable (id 0) unless the newest generation is of the date.
Stamp ==
  /\ pc = "stamping"
  /\ label' = IF req.date \in RepoDays("realtime")
                THEN [label EXCEPT !.id = latest] ELSE label
  /\ pc' = "loading"
  /\ UNCHANGED <<world, req, rows, vals, missing, queries, shown, seen>>

\* base ignores an error of Provenance.
StampError ==
  /\ pc = "stamping"
  /\ label' = NoLabel
  /\ pc' = "loading"
  /\ UNCHANGED <<world, req, rows, vals, missing, queries, shown, seen>>

\* The dates whose figures the page shows.
Requested ==
  IF req.kinds = {"m"} THEN {req.date} ELSE Points[req.date] \cup {req.date}

\* The rows the page uses of those it reads.
Keys == UNION {{Marker[k]} \cup (Figures[k] \ {"preview"}) : k \in req.kinds}

\* readDates, or read for the maturities.
ReadDates ==
  /\ pc = "loading"
  /\ rows' = MetricRows(Requested, Keys)
  /\ pc' = "scanning"
  /\ UNCHANGED <<world, req, label, vals, missing, queries, shown, seen>>

\* scanMetrics asks for the source of the day anew at every row, in date order.
ScanRow ==
  /\ pc \in {"scanning", "summing"}
  /\ \E r \in rows :
       /\ \A s \in rows : r.day <= s.day
       /\ rows' = rows \ {r}
       /\ vals' = IF r.source = SourceFor(r.day)
                   THEN {v \in vals : v.day # r.day \/ v.item # r.item} \cup {r}
                   ELSE vals
  /\ UNCHANGED <<world, pc, req, label, missing, queries, shown, seen>>

\* The days of the period that ends on d.
Period(d) == PeriodStart[d]..d

\* readBooking: a second query, over every day of the periods; its rows replace
\* those of the first.
ReadBooking ==
  /\ pc = "scanning" /\ rows = {} /\ "l" \in req.kinds
  /\ rows' = MetricRows(UNION {Period(d) : d \in Requested},
                         {Marker["l"], Booking})
  /\ pc' = "summing"
  /\ UNCHANGED <<world, req, label, vals, missing, queries, shown, seen>>

Marked(d, kind) == \E v \in vals : v.day = d /\ v.item = Marker[kind]

\* Every day of the period has its loan row.
Complete(d) == \A x \in Period(d) : Marked(x, "l")

\* Mutant of Lacks: booking of an incomplete period is not looked up.
LacksMarker(d, kind) == ~Marked(d, kind)

\* The cache cannot answer for this kind of data on this date.
Lacks(d, kind) == ~Marked(d, kind) \/ (kind = "l" /\ ~Complete(d))

\* What the cache answers for a date: each figure from its own row, booking from
\* the rows of every day of the period.
Positions(d) ==
  {[day |-> d, item |-> v.item, from |-> d, source |-> v.source, id |-> v.id] :
     v \in {w \in vals : w.day = d /\ \E k \in req.kinds :
              Marked(d, k) /\ w.item \in Figures[k] \ {Booking}}}
Bookings(d) ==
  {[day |-> d, item |-> Booking, from |-> v.day, source |-> v.source,
    id |-> v.id] :
     v \in {w \in vals : w.item = Booking /\ w.day \in Period(d)
                         /\ "l" \in req.kinds /\ Complete(d)}}

\* The end of cachedSnapshot or cachedMaturities. The maturity preview, if there
\* are totals, is read from the source that the date has by now.
Assemble ==
  /\ rows = {}
  /\ pc = IF "l" \in req.kinds THEN "summing" ELSE "scanning"
  /\ shown' = UNION {Positions(d) \cup Bookings(d) : d \in Requested}
  /\ missing' = [k \in Kinds |-> IF k \in req.kinds
                   THEN {d \in Requested : Lacks(d, k)} ELSE {}]
  /\ queries' = IF req.kinds = {"m"} /\ Positions(req.date) # {}
                 THEN {[kind |-> "preview", source |-> SourceFor(req.date),
                        days |-> {req.date}]} ELSE {}
  /\ pc' = "filling"
  /\ vals' = {}
  /\ UNCHANGED <<world, req, label, rows, seen>>

\* load groups the missing dates of a kind by source, and runs one read-only
\* transaction per group.
Group ==
  /\ pc = "filling" /\ queries = {}
  /\ \E k \in req.kinds \ {"m"} :
       /\ missing[k] # {}
       /\ missing' = [missing EXCEPT ![k] = {}]
       /\ queries' = {[kind |-> k, source |-> SourceFor(d),
                       days |-> {x \in missing[k] : SourceFor(x) = SourceFor(d)}] :
                        d \in missing[k]}
  /\ UNCHANGED <<world, pc, req, label, rows, vals, shown, seen>>

\* GetDepositMaturities reads totals and preview in one transaction.
FallBack ==
  /\ pc = "filling" /\ missing["m"] # {}
  /\ missing' = NoMissing
  /\ queries' = {[kind |-> "m", source |-> SourceFor(req.date),
                  days |-> {req.date}]}
  /\ UNCHANGED <<world, pc, req, label, rows, vals, shown, seen>>

\* loadFrom and merge: a date the source has replaces what was there.
LoadFrom ==
  /\ pc = "filling"
  /\ \E q \in {x \in queries : x.kind \in Kinds} :
       LET found == q.days \cap RepoDays(q.source) IN
       /\ queries' = queries \ {q}
       /\ shown' = {s \in shown : s.day \notin found \/ s.item \notin Figures[q.kind]}
                    \cup RepoFigures(found, q.kind, q.source)
  /\ UNCHANGED <<world, pc, req, label, rows, vals, missing, seen>>

\* Mutant of ReadPreview: the preview is read from the source in the page's head.
ReadPreviewOfHead ==
  /\ pc = "filling"
  /\ \E q \in {x \in queries : x.kind = "preview"} :
       /\ queries' = queries \ {q}
       /\ shown' = shown \cup
            {[day |-> r.day, item |-> r.item, from |-> r.day,
              source |-> r.source, id |-> r.id] :
                r \in {x \in MetricRows(q.days, {"preview"}) : x.source = label.kind}}
  /\ UNCHANGED <<world, pc, req, label, rows, vals, missing, seen>>

\* MetricStore.preview: written with the metrics of its date and source.
ReadPreview ==
  /\ pc = "filling"
  /\ \E q \in {x \in queries : x.kind = "preview"} :
       /\ queries' = queries \ {q}
       /\ shown' = shown \cup
            {[day |-> r.day, item |-> r.item, from |-> r.day,
              source |-> r.source, id |-> r.id] :
                r \in {x \in MetricRows(q.days, {"preview"}) : x.source = q.source}}
  /\ UNCHANGED <<world, pc, req, label, rows, vals, missing, seen>>

\* A figure of the DWH supersedes every generation.
Rank(s) == IF s.source = "dwh" THEN MaxId + 1 ELSE s.id

Filled == pc = "filling" /\ queries = {} /\ missing = NoMissing

Witnessed(d) == {Rank(s) : s \in {x \in shown : x.from = d}}

Highest(S) == CHOOSE n \in S : \A m \in S : m <= n

\* Mutant of Finish: the provenance is asked for after the figures.
FinishStamped ==
  /\ Filled
  /\ pc' = "done"
  /\ label' = [kind |-> SourceFor(req.date),
               id |-> IF Live(req.date) /\ req.date \in RepoDays("realtime")
                      THEN latest ELSE 0]
  /\ seen' = [d \in Days |-> Highest(Witnessed(d) \cup {seen[d]})]
  /\ UNCHANGED <<world, req, rows, vals, missing, queries, shown>>

\* finish renders the page.
Finish ==
  /\ Filled
  /\ pc' = "done"
  /\ seen' = [d \in Days |-> Highest(Witnessed(d) \cup {seen[d]})]
  /\ UNCHANGED <<world, req, reading>>

\* Any query fails: the page shows the error and no figures.
ReadError ==
  /\ pc \in {"loading", "scanning", "summing", "filling"}
  /\ pc' = "idle"
  /\ req' = NoRequest /\ label' = NoLabel
  /\ rows' = {} /\ vals' = {} /\ missing' = NoMissing /\ queries' = {}
  /\ shown' = {}
  /\ UNCHANGED <<world, seen>>

RequestStep ==
  \/ \E d \in Days, kinds \in Pages : Open(d, kinds)
  \/ Route \/ Stamp \/ StampError
  \/ ReadDates \/ ScanRow \/ ReadBooking \/ Assemble
  \/ Group \/ FallBack \/ LoadFrom \/ ReadPreview \/ Finish \/ ReadError

-----------------------------------------------------------------------------
(* Everyone else. *)

Midnight ==
  /\ today < MaxDay
  /\ today' = today + 1
  /\ UNCHANGED <<loaded, watermark, cached, store, pc, req, reading, seen>>

\* External: the DWH load of a day, in date order and after the day's end of day;
\* no request lasts from the evening before until then.
Load ==
  /\ loaded < today
  /\ loaded + 1 = today => req.day = today \/ pc \in {"idle", "done"}
  /\ loaded' = loaded + 1
  /\ UNCHANGED <<today, watermark, cached, store, pc, req, reading, seen>>

\* Mutant of SetWatermark: the first day to materialize is stored.
SetWatermarkNext ==
  /\ \E w \in watermark + 1..loaded : watermark' = w + 1
  /\ UNCHANGED <<today, loaded, cached, store, pc, req, reading, seen>>

\* Mutant of SetWatermark: an answer of any age is stored.
SetWatermarkAny ==
  /\ \E w \in 0..loaded : watermark' = w
  /\ UNCHANGED <<today, loaded, cached, store, pc, req, reading, seen>>

\* The scheduler stores what LatestCommon answered a moment ago.
SetWatermark ==
  /\ \E w \in watermark + 1..loaded : watermark' = w
  /\ UNCHANGED <<today, loaded, cached, store, pc, req, reading, seen>>

\* A chunk of Materialize commits a day the DWH has.
Materialize ==
  /\ \E d \in 1..loaded : d \notin cached /\ cached' = cached \cup {d}
  /\ UNCHANGED <<today, loaded, watermark, store, pc, req, reading, seen>>

\* A generation is published for the day its refresh started, this day or the
\* day before.
Publish ==
  /\ Hybrid
  /\ \E i \in {latest + 1} \cap 1..MaxId, d \in {today - 1, today} \cap Days :
       Publication!Publish(i, d)
  /\ UNCHANGED <<today, loaded, watermark, cached, pc, req, reading, seen>>

WorldStep ==
  Midnight \/ Load \/ SetWatermark \/ Materialize \/ Publish

Next == RequestStep \/ WorldStep

Spec == Init /\ [][Next]_vars

-----------------------------------------------------------------------------
(* Properties. *)

\* Every variable has its type; a query is of one source.
TypeOK ==
  /\ today \in Days /\ loaded \in 0..MaxDay /\ watermark \in 0..MaxDay
  /\ cached \subseteq Days
  /\ latest \in 0..MaxId /\ agg \in [Days -> 0..MaxId]
  /\ pc \in {"idle", "routing", "stamping", "loading", "scanning", "summing",
             "filling", "done"}
  /\ req \in [date : Days, kinds : SUBSET Kinds, day : Days, floor : 0..MaxId]
  /\ label \in [kind : {"none"} \cup Sources, id : 0..MaxId]
  /\ rows \subseteq Row /\ vals \subseteq Row
  /\ missing \in [Kinds -> SUBSET Days]
  /\ queries \subseteq
       [kind : Kinds \cup {"preview"}, source : Sources, days : SUBSET Days]
  /\ shown \subseteq Figure
  /\ seen \in [Days -> 0..(MaxId + 1)]

\* What the page shows of its own date.
OfDate(item) ==
  {s \in shown : s.day = req.date /\ s.from = req.date /\ s.item = item}

\* What was published for today when a page was asked for is on the page, every
\* figure of it, and none is older, whichever of the cache and the tables of the
\* newest generation answered and whatever was published meanwhile
\* (DashboardService.load, GetDepositMaturities).
PublishedIsShown ==
  (pc = "done" /\ req.floor > 0 /\ Live(req.date)) =>
    \A k \in req.kinds : \A item \in Figures[k] :
      /\ OfDate(item) # {}
      /\ \A s \in OfDate(item) : s.source = "realtime" /\ s.id >= req.floor

\* The head of a page does not claim data newer than the page's figures: base
\* asks for the provenance before the page's queries.
HeadNotNewer ==
  pc = "done" => \A s \in shown :
    (s.source = "realtime" /\ s.from = req.date) => s.id >= label.id

\* A realtime figure is of a generation of its own day: today's view is empty
\* while nothing was published today (README.md:17), also when an older
\* generation still is the newest (Repository.read over realtimeTables).
OwnDay ==
  \A s \in shown : s.source = "realtime" => s.id \in 1..agg[s.from]

\* The DWH never stands in for today's missing generation: until the watermark
\* has reached today no page of today shows DWH figures of it, though the DWH
\* and the cache may have some (HYBRID_AUDIT.md:16, sourceFor).
NoSubstitute ==
  (pc = "done" /\ Live(req.date)) =>
    \A s \in shown : s.from = req.date => s.source = "realtime"

\* Two pages in a row never go back in time: no figure of a day is older than
\* one a page showed before, and the DWH once shown stays (sourceFor,
\* SetWatermark).
NeverOlder ==
  [][(pc # "done" /\ pc' = "done") =>
       \A s \in shown : Rank(s) >= seen[s.from]]_vars

\* Maturity totals and preview are two queries of the cache: whatever is published
\* in between, the preview is of the totals' generation, a newer one or the DWH.
\* It is missing only if the date went over to the DWH meanwhile
\* (cachedMaturities, cache.go:242-250).
PreviewFollows ==
  pc = "done" => \A t \in OfDate("deposit_due_nominal") :
    /\ \A p \in OfDate("preview") : Rank(p) >= Rank(t)
    /\ OfDate("preview") = {} => t.source = "realtime" /\ ~Live(req.date)

\* "The real source uses the latest common DWH snapshot as the default date"
\* (README.md:69), the dwh mode's main and base.
DefaultIsLatest == ~Hybrid => DefaultDate = watermark

=============================================================================
