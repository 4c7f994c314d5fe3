--------------------------- MODULE PageReadProofs ---------------------------
(***************************************************************************)
(* Proofs about a page request for every calendar, every number of         *)
(* generations and whatever else moves between its queries.                *)
(***************************************************************************)
EXTENDS PageRead, WellFoundedInduction, TLAPS

(* Days, items and rows. *)

\* Days are positive numbers.
LEMMA DaysAreNumbers ==
  /\ MaxDay \in Nat /\ MaxId \in Nat /\ FirstDay \in Days
  /\ \A d \in Days : d \in Nat /\ 1 <= d /\ d <= MaxDay
BY PageReadAssumption DEF Days

\* The figures and markers of kinds are items.
LEMMA KindFacts ==
  /\ \A k \in Kinds : Figures[k] \subseteq Items /\ Marker[k] \in Items
  /\ "preview" \in Items /\ Booking \in Items
<1>1. \A k \in Kinds : Figures[k] \subseteq Items /\ Marker[k] \in Items
  BY DEF Items
<1>2. "preview" \in Figures["m"] /\ Booking \in Figures["l"] /\ "m" \in Kinds /\ "l" \in Kinds
  BY DEF Figures, Kinds
<1> QED
  BY <1>1, <1>2

\* Highest is the greatest member of a set of ranks.
LEMMA HighestIsHighest ==
  ASSUME NEW S \in SUBSET (0..(MaxId + 1)), S # {}
  PROVE  Highest(S) \in S /\ \A m \in S : m <= Highest(S)
<1> DEFINE N == MaxId + 1
           T == {n \in Nat : N - n \in S}
<1>n. N \in Nat /\ \A k \in S : k \in 0..N
  BY DaysAreNumbers
<1>1. \A k \in S : N - k \in Nat /\ N - (N - k) = k
  BY <1>n
<1>2. T \subseteq Nat /\ T # {}
  BY <1>1
<1>3. PICK m \in T : \A n \in T : ~(<<n, m>> \in OpToRel(<, Nat))
  BY <1>2, NatLessThanWellFounded, WFMin
<1>4. \A n \in T : ~(n < m)
  BY <1>3 DEF OpToRel
<1>5. ASSUME NEW k \in S PROVE k <= N - m
  <2>1. N - k \in T
    BY <1>1
  <2>2. ~(N - k < m)
    BY <1>4, <2>1
  <2> QED
    BY <1>n, <2>2
<1>6. \E n \in S : \A k \in S : k <= n
  BY <1>5
<1> QED
  BY <1>6 DEF Highest

-----------------------------------------------------------------------------
(* The world around a request. *)

\* The DWH follows the calendar, the watermark and the cache the DWH; today's
\* aggregates, when there are any, are the newest generation's.
WorldOK ==
  /\ FirstDay <= today
  /\ loaded <= today /\ watermark <= loaded /\ cached \subseteq 1..loaded
  /\ \A d \in Days : agg[d] <= latest
  /\ \A d \in Days : d > today => agg[d] = 0
  /\ agg[today] > 0 => agg[today] = latest

\* Never live again: past, or known to be in the DWH.
Settled(d) == ~Hybrid \/ d < today \/ d <= watermark

\* A day up to today is live or settled, and read from realtime exactly when it is live.
LEMMA LiveOrSettled ==
  ASSUME TypeOK, NEW d \in Days
  PROVE  /\ Live(d) => ~Settled(d) /\ d = today
         /\ ~Live(d) => Settled(d) \/ d > today
         /\ SourceFor(d) \in Sources
         /\ SourceFor(d) = "realtime" <=> Live(d)
<1>1. d \in Nat /\ today \in Nat /\ watermark \in Nat
  BY DaysAreNumbers DEF TypeOK
<1>2. Hybrid \in BOOLEAN
  BY PageReadAssumption
<1>3. Live(d) => ~Settled(d) /\ d = today
  BY <1>1 DEF Live, Settled
<1>4. ~Live(d) => Settled(d) \/ d > today
  BY <1>1 DEF Live, Settled
<1> QED
  BY <1>3, <1>4 DEF SourceFor, Sources

\* Rows of the cache are of cached days, or of the generation behind the aggregates.
LEMMA MetricRowsFacts ==
  ASSUME TypeOK, WorldOK, NEW days \in SUBSET Days, NEW items \in SUBSET Items,
         NEW r \in MetricRows(days, items)
  PROVE  /\ r \in Row /\ r.day \in days /\ r.day \in Days /\ r.item \in items
         /\ \/ r.source = "dwh" /\ r.day <= loaded /\ r.day \in cached
            \/ r.source = "realtime" /\ r.id = agg[r.day] /\ agg[r.day] # 0
<1>1. /\ agg \in [Days -> 0..MaxId] /\ loaded \in Nat /\ MaxId \in Nat
      /\ \A d \in cached : d <= loaded
  BY DaysAreNumbers DEF TypeOK, WorldOK
<1>2. CASE r \in [day : days \cap cached, item : items, source : {"dwh"}, id : {0}]
  <2>1. r.day \in days /\ r.day \in cached /\ r.item \in items /\ r.source = "dwh" /\ r.id = 0
    BY <1>2
  <2>2. r = [day |-> r.day, item |-> r.item, source |-> r.source, id |-> r.id]
    BY <1>2
  <2>3. r.day \in Days /\ r.item \in Items /\ r.source \in Sources /\ r.id \in 0..MaxId
    BY <1>1, <2>1 DEF Sources
  <2>4. r \in Row
    BY <2>2, <2>3 DEF Row
  <2>5. r.day <= loaded
    BY <1>1, <2>1
  <2> QED
    BY <2>1, <2>3, <2>4, <2>5
<1>3. CASE r \in {[day |-> d, item |-> i, source |-> "realtime", id |-> agg[d]] :
                    d \in {x \in days : agg[x] # 0}, i \in items}
  <2>1. PICK d \in days, i \in items :
          agg[d] # 0 /\ r = [day |-> d, item |-> i, source |-> "realtime", id |-> agg[d]]
    BY <1>3
  <2>2. r.day = d /\ r.item = i /\ r.source = "realtime" /\ r.id = agg[d]
    BY <2>1
  <2>3. d \in Days /\ i \in Items /\ agg[d] \in 0..MaxId
    BY <1>1
  <2>4. r \in Row
    BY <2>1, <2>3 DEF Row, Sources
  <2> QED
    BY <2>1, <2>2, <2>3, <2>4
<1> QED
  BY <1>2, <1>3 DEF MetricRows

\* The aggregates of a day are among its rows.
LEMMA MetricRowsHas ==
  ASSUME NEW days, NEW items, NEW d \in days, NEW i \in items, agg[d] # 0
  PROVE  [day |-> d, item |-> i, source |-> "realtime", id |-> agg[d]] \in MetricRows(days, items)
BY DEF MetricRows

\* What a repository answers is of the days and the source asked for.
LEMMA RepoFiguresFacts ==
  ASSUME TypeOK, WorldOK, NEW kind \in Kinds, NEW source \in Sources,
         NEW days \in SUBSET RepoDays(source), NEW s \in RepoFigures(days, kind, source)
  PROVE  /\ s \in Figure /\ s.day \in days /\ s.day \in Days /\ s.from = s.day
         /\ s.item \in Figures[kind] /\ s.source = source
         /\ source = "dwh" => s.day <= loaded
         /\ source = "realtime" => s.id = latest /\ s.id = agg[s.day] /\ s.id # 0
<1>1. /\ latest \in 0..MaxId /\ MaxId \in Nat /\ loaded \in Nat /\ MaxDay \in Nat
      /\ loaded <= MaxDay
  BY DaysAreNumbers DEF TypeOK, WorldOK
<1>2. PICK d \in days, i \in Figures[kind] :
        s = [day |-> d, item |-> i, from |-> d, source |-> source,
             id |-> IF source = "dwh" THEN 0 ELSE latest]
  BY DEF RepoFigures
<1>3. s.day = d /\ s.item = i /\ s.from = d /\ s.source = source
      /\ s.id = IF source = "dwh" THEN 0 ELSE latest
  BY <1>2
<1>4. d \in Days /\ (source = "dwh" => d <= loaded)
      /\ (source = "realtime" => latest # 0 /\ agg[d] = latest)
  BY <1>1 DEF RepoDays, Days
<1>5. i \in Items
  BY KindFacts
<1>6. s \in Figure
  BY <1>1, <1>2, <1>4, <1>5 DEF Figure
<1> QED
  BY <1>3, <1>4, <1>6

-----------------------------------------------------------------------------
(* Types. *)

\* What the step of a request leaves as it is.
LEMMA RequestLeavesWorld ==
  ASSUME RequestStep
  PROVE  UNCHANGED world
BY DEF RequestStep, Open, Route, Stamp, StampError, ReadDates, ScanRow,
       ReadBooking, Assemble, Group, FallBack, LoadFrom, ReadPreview, Finish,
       ReadError

\* A page asks for days of the calendar.
LEMMA RequestedDays ==
  ASSUME TypeOK
  PROVE  /\ Requested \subseteq Days /\ req.date \in Requested /\ req.date \in Days
         /\ Keys \subseteq Items
         /\ \A d \in Days : Period(d) \subseteq Days /\ d \in Period(d)
<1>1. req.date \in Days /\ req.kinds \in SUBSET Kinds
  BY DEF TypeOK
<1>2. Points[req.date] \subseteq Days
  BY <1>1, PageReadAssumption
<1>3. Requested \subseteq Days /\ req.date \in Requested
  BY <1>1, <1>2 DEF Requested
<1>4. Keys \subseteq Items
  BY <1>1, KindFacts DEF Keys
<1>5. \A d \in Days : Period(d) \subseteq Days /\ d \in Period(d)
  BY PageReadAssumption, DaysAreNumbers DEF Period, Days
<1> QED
  BY <1>1, <1>3, <1>4, <1>5

\* What the cache answers consists of rows that were kept.
LEMMA AnsweredFacts ==
  ASSUME TypeOK, NEW d \in Requested, NEW s \in Positions(d) \cup Bookings(d)
  PROVE  /\ s \in Figure /\ s.day = d
         /\ \E v \in vals : v.day = s.from /\ v.item = s.item
                            /\ v.source = s.source /\ v.id = s.id
<1>1. PICK v \in vals : /\ s.item = v.item /\ s.source = v.source /\ s.id = v.id
                        /\ s = [day |-> d, item |-> v.item, from |-> v.day,
                                source |-> v.source, id |-> v.id]
  <2>1. CASE s \in Positions(d)
    <3>1. PICK v \in vals : v.day = d /\ s = [day |-> d, item |-> v.item, from |-> d,
                                              source |-> v.source, id |-> v.id]
      BY <2>1 DEF Positions
    <3> QED
      BY <3>1
  <2>2. CASE s \in Bookings(d)
    <3>1. PICK v \in vals : v.item = Booking
            /\ s = [day |-> d, item |-> Booking, from |-> v.day,
                    source |-> v.source, id |-> v.id]
      BY <2>2 DEF Bookings
    <3> QED
      BY <3>1
  <2> QED
    BY <2>1, <2>2
<1>2. v \in Row /\ d \in Days
  BY RequestedDays DEF TypeOK
<1>3. v.day \in Days /\ v.item \in Items /\ v.source \in Sources /\ v.id \in 0..MaxId
  BY <1>2 DEF Row
<1>4. s.day = d /\ s.from = v.day /\ s \in Figure
  BY <1>1, <1>2, <1>3 DEF Figure
<1> QED
  BY <1>1, <1>4

\* Figures rank by generation, those of the DWH above all.
LEMMA WitnessedRanks ==
  ASSUME TypeOK, NEW d \in Days
  PROVE  /\ Witnessed(d) \cup {seen[d]} \in SUBSET (0..(MaxId + 1))
         /\ \A s \in shown : /\ Rank(s) \in 0..(MaxId + 1)
                             /\ s.source = "dwh" <=> Rank(s) = MaxId + 1
                             /\ s.source = "realtime" <=> Rank(s) = s.id
<1>1. MaxId \in Nat /\ seen[d] \in 0..(MaxId + 1)
  BY DaysAreNumbers DEF TypeOK
<1>2. \A s \in shown : s.id \in 0..MaxId /\ s.source \in {"dwh", "realtime"}
  BY DEF TypeOK, Figure, Sources
<1>3. \A s \in shown : /\ Rank(s) \in 0..(MaxId + 1)
                       /\ s.source = "dwh" <=> Rank(s) = MaxId + 1
                       /\ s.source = "realtime" <=> Rank(s) = s.id
  BY <1>1, <1>2 DEF Rank
<1> QED
  BY <1>1, <1>3 DEF Witnessed

\* Every step of a request keeps the types.
LEMMA RequestTypes ==
  ASSUME TypeOK, WorldOK, RequestStep
  PROVE  TypeOK'
<1> DEFINE Queries == [kind : Kinds \cup {"preview"}, source : Sources, days : SUBSET Days]
           PCs == {"idle", "routing", "stamping", "loading", "scanning", "summing",
                   "filling", "done"}
           Labels == [kind : {"none"} \cup Sources, id : 0..MaxId]
           Requests == [date : Days, kinds : SUBSET Kinds, day : Days, floor : 0..MaxId]
<1>w. UNCHANGED world
  BY RequestLeavesWorld
<1>m. MaxId \in Nat /\ FirstDay \in Days /\ latest \in 0..MaxId /\ today \in Days
      /\ agg \in [Days -> 0..MaxId]
  BY DaysAreNumbers DEF TypeOK
<1>t. /\ pc \in PCs /\ req \in Requests /\ label \in Labels
      /\ rows \subseteq Row /\ vals \subseteq Row /\ missing \in [Kinds -> SUBSET Days]
      /\ queries \subseteq Queries /\ shown \subseteq Figure
      /\ seen \in [Days -> 0..(MaxId + 1)]
      /\ req.date \in Days /\ req.kinds \in SUBSET Kinds
  BY DEF TypeOK
<1>n. NoMissing \in [Kinds -> SUBSET Days] /\ NoLabel \in Labels /\ NoRequest \in Requests
  BY <1>m DEF NoMissing, NoLabel, NoRequest
<1>s. \A d \in Days : SourceFor(d) \in Sources
  BY LiveOrSettled
<1> SUFFICES /\ pc' \in PCs /\ req' \in Requests /\ label' \in Labels
             /\ rows' \subseteq Row /\ vals' \subseteq Row
             /\ missing' \in [Kinds -> SUBSET Days]
             /\ queries' \subseteq Queries /\ shown' \subseteq Figure
             /\ seen' \in [Days -> 0..(MaxId + 1)]
  BY <1>w DEF TypeOK, world
<1> HIDE DEF Queries, PCs, Labels, Requests
<1>p. /\ "idle" \in PCs /\ "routing" \in PCs /\ "stamping" \in PCs /\ "loading" \in PCs
      /\ "scanning" \in PCs /\ "summing" \in PCs /\ "filling" \in PCs /\ "done" \in PCs
  BY DEF PCs
<1>1. CASE \E d \in Days, kinds \in Pages : Open(d, kinds)
  <2>1. PICK d \in Days, kinds \in Pages : Open(d, kinds)
    BY <1>1
  <2>2. kinds \in SUBSET Kinds
    BY PageReadAssumption
  <2>3. (IF Live(d) THEN agg[d] ELSE 0) \in 0..MaxId
    BY <1>m
  <2>4. req' \in Requests
    BY <1>m, <2>1, <2>2, <2>3 DEF Open, Requests
  <2> QED
    BY <1>t, <1>n, <1>p, <2>1, <2>4 DEF Open, reading
<1>2. CASE Route
  <2>1. label' \in Labels
    BY <1>2, <1>m, <1>s, <1>t DEF Route, Labels
  <2> QED
    BY <1>2, <1>t, <1>p, <2>1 DEF Route
<1>3. CASE Stamp
  <2>1. label' \in Labels
    BY <1>3, <1>m, <1>t DEF Stamp, Labels
  <2> QED
    BY <1>3, <1>t, <1>p, <2>1 DEF Stamp
<1>4. CASE StampError
  BY <1>4, <1>t, <1>n, <1>p DEF StampError
<1>5. CASE ReadDates
  <2>1. rows' \subseteq Row
    BY <1>5, RequestedDays, MetricRowsFacts DEF ReadDates
  <2> QED
    BY <1>5, <1>t, <1>p, <2>1 DEF ReadDates
<1>6. CASE ScanRow
  BY <1>6, <1>t DEF ScanRow
<1>7. CASE ReadBooking
  <2>1. UNION {Period(d) : d \in Requested} \in SUBSET Days
    BY RequestedDays
  <2>2. {Marker["l"], Booking} \in SUBSET Items
    BY KindFacts DEF Kinds
  <2>3. rows' \subseteq Row
    BY <1>7, <2>1, <2>2, MetricRowsFacts DEF ReadBooking
  <2> QED
    BY <1>7, <1>t, <1>p, <2>3 DEF ReadBooking
<1>8. CASE Assemble
  <2>1. shown' \subseteq Figure
    BY <1>8, AnsweredFacts DEF Assemble
  <2>2. missing' \in [Kinds -> SUBSET Days]
    BY <1>8, RequestedDays DEF Assemble
  <2>3. queries' \subseteq Queries
    BY <1>8, <1>s, <1>t DEF Assemble, Queries
  <2> QED
    BY <1>8, <1>t, <1>p, <2>1, <2>2, <2>3 DEF Assemble
<1>9. CASE Group
  <2>1. PICK k \in req.kinds \ {"m"} :
          /\ missing' = [missing EXCEPT ![k] = {}]
          /\ queries' = {[kind |-> k, source |-> SourceFor(d),
                          days |-> {x \in missing[k] : SourceFor(x) = SourceFor(d)}] :
                           d \in missing[k]}
    BY <1>9 DEF Group
  <2>2. k \in Kinds /\ missing[k] \in SUBSET Days
    BY <1>t, <2>1
  <2>3. missing' \in [Kinds -> SUBSET Days]
    BY <1>t, <2>1
  <2>4. queries' \subseteq Queries
    BY <1>s, <2>1, <2>2 DEF Queries
  <2> QED
    BY <1>9, <1>t, <2>3, <2>4 DEF Group
<1>10. CASE FallBack
  <2>1. queries' \subseteq Queries
    BY <1>10, <1>s, <1>t DEF FallBack, Queries, Kinds
  <2> QED
    BY <1>10, <1>t, <1>n, <2>1 DEF FallBack
<1>11. CASE LoadFrom
  <2>1. PICK q \in queries :
          /\ q.kind \in Kinds /\ queries' = queries \ {q}
          /\ shown' = {s \in shown : s.day \notin q.days \cap RepoDays(q.source)
                                     \/ s.item \notin Figures[q.kind]}
                      \cup RepoFigures(q.days \cap RepoDays(q.source), q.kind, q.source)
    BY <1>11 DEF LoadFrom
  <2>2. q.source \in Sources
    BY <1>t DEF Queries
  <2>3. shown' \subseteq Figure
    BY <1>t, <2>1, <2>2, RepoFiguresFacts
  <2> QED
    BY <1>11, <1>t, <2>1, <2>3 DEF LoadFrom
<1>12. CASE ReadPreview
  <2>1. PICK q \in queries :
          /\ queries' = queries \ {q}
          /\ shown' = shown \cup
               {[day |-> r.day, item |-> r.item, from |-> r.day,
                 source |-> r.source, id |-> r.id] :
                  r \in {x \in MetricRows(q.days, {"preview"}) : x.source = q.source}}
    BY <1>12 DEF ReadPreview
  <2>2. q.days \in SUBSET Days /\ {"preview"} \in SUBSET Items
    BY <1>t, KindFacts DEF Queries
  <2>3. \A r \in MetricRows(q.days, {"preview"}) :
          [day |-> r.day, item |-> r.item, from |-> r.day,
           source |-> r.source, id |-> r.id] \in Figure
    BY <2>2, MetricRowsFacts DEF Row, Figure
  <2>4. shown' \subseteq Figure
    BY <1>t, <2>1, <2>3
  <2> QED
    BY <1>12, <1>t, <2>1, <2>4 DEF ReadPreview
<1>13. CASE Finish
  <2>1. seen' = [d \in Days |-> Highest(Witnessed(d) \cup {seen[d]})]
    BY <1>13 DEF Finish
  <2>2. \A d \in Days : Highest(Witnessed(d) \cup {seen[d]}) \in 0..(MaxId + 1)
    BY WitnessedRanks, HighestIsHighest
  <2>3. seen' \in [Days -> 0..(MaxId + 1)]
    BY <2>1, <2>2
  <2> QED
    BY <1>13, <1>t, <1>p, <2>3 DEF Finish, reading
<1>14. CASE ReadError
  BY <1>14, <1>t, <1>n, <1>p DEF ReadError
<1> QED
  BY <1>1, <1>2, <1>3, <1>4, <1>5, <1>6, <1>7, <1>8, <1>9, <1>10, <1>11, <1>12,
     <1>13, <1>14 DEF RequestStep

\* What a step of the others does.
LEMMA WorldMoves ==
  ASSUME TypeOK, WorldOK, WorldStep
  PROVE  /\ TypeOK' /\ WorldOK'
         /\ UNCHANGED <<pc, req, reading, seen>>
         /\ today <= today' /\ watermark <= watermark' /\ loaded <= loaded'
         /\ \A d \in Days : agg[d] <= agg'[d]
         /\ loaded' = loaded \/ loaded' < today'
              \/ req.day = today' \/ pc \in {"idle", "done"}
<1>1. UNCHANGED <<pc, req, reading, seen>>
  BY DEF WorldStep, Midnight, Load, SetWatermark, Materialize, Publish
<1>2. /\ today \in Days /\ today \in Nat /\ MaxDay \in Nat /\ MaxId \in Nat
      /\ loaded \in 0..MaxDay /\ watermark \in 0..MaxDay
      /\ FirstDay \in Nat /\ FirstDay <= today
      /\ loaded <= today /\ watermark <= loaded /\ cached \subseteq 1..loaded
      /\ latest \in 0..MaxId /\ agg \in [Days -> 0..MaxId]
      /\ \A d \in Days : d \in Nat
      /\ cached \subseteq Days
  BY DaysAreNumbers DEF TypeOK, WorldOK
<1>3. SUFFICES /\ today' \in Days /\ loaded' \in 0..MaxDay /\ watermark' \in 0..MaxDay
               /\ cached' \subseteq Days /\ latest' \in 0..MaxId
               /\ agg' \in [Days -> 0..MaxId] /\ WorldOK'
               /\ today <= today' /\ watermark <= watermark' /\ loaded <= loaded'
               /\ \A d \in Days : agg[d] <= agg'[d]
               /\ loaded' = loaded \/ loaded' < today'
                    \/ req.day = today' \/ pc \in {"idle", "done"}
  <2>1. ASSUME /\ today' \in Days /\ loaded' \in 0..MaxDay /\ watermark' \in 0..MaxDay
               /\ cached' \subseteq Days /\ latest' \in 0..MaxId
               /\ agg' \in [Days -> 0..MaxId]
        PROVE  TypeOK'
    BY <1>1, <2>1 DEF TypeOK, reading
  <2> QED
    BY <1>1, <2>1
<1>4. CASE Midnight
  <2>1. /\ today' = today + 1 /\ today < MaxDay /\ loaded' = loaded
        /\ watermark' = watermark /\ cached' = cached /\ latest' = latest /\ agg' = agg
    BY <1>4 DEF Midnight, store
  <2>2. today' \in Days /\ agg[today + 1] = 0
    BY <1>2, <2>1 DEF Days, WorldOK
  <2>3. WorldOK'
    BY <1>2, <2>1, <2>2 DEF WorldOK
  <2> QED
    BY <1>2, <2>1, <2>2, <2>3
<1>5. CASE Load
  <2>1. /\ today' = today /\ loaded < today /\ loaded' = loaded + 1
        /\ watermark' = watermark /\ cached' = cached /\ latest' = latest /\ agg' = agg
        /\ loaded + 1 = today => req.day = today \/ pc \in {"idle", "done"}
    BY <1>5 DEF Load, store
  <2>2. loaded' \in 0..MaxDay /\ cached \subseteq 1..loaded'
    BY <1>2, <2>1 DEF Days
  <2>3. WorldOK'
    BY <1>2, <2>1, <2>2 DEF WorldOK
  <2> QED
    BY <1>2, <2>1, <2>2, <2>3
<1>6. CASE SetWatermark
  <2>1. /\ today' = today /\ loaded' = loaded /\ watermark' \in watermark + 1..loaded
        /\ cached' = cached /\ latest' = latest /\ agg' = agg
    BY <1>6 DEF SetWatermark, store
  <2>2. WorldOK' /\ watermark' \in 0..MaxDay /\ watermark <= watermark'
    BY <1>2, <2>1 DEF WorldOK
  <2> QED
    BY <1>2, <2>1, <2>2
<1>7. CASE Materialize
  <2>1. /\ today' = today /\ loaded' = loaded /\ watermark' = watermark
        /\ latest' = latest /\ agg' = agg
        /\ \E d \in 1..loaded : cached' = cached \cup {d}
    BY <1>7 DEF Materialize, store
  <2>2. cached' \subseteq 1..loaded /\ cached' \subseteq Days
    BY <1>2, <2>1 DEF Days
  <2>3. WorldOK'
    BY <1>2, <2>1, <2>2 DEF WorldOK
  <2> QED
    BY <1>2, <2>1, <2>2, <2>3
<1>8. CASE Publish
  <2>1. PICK i \in {latest + 1} \cap 1..MaxId, d \in {today - 1, today} \cap Days :
          Publication!Publish(i, d)
    BY <1>8 DEF Publish
  <2>2. /\ today' = today /\ loaded' = loaded /\ watermark' = watermark
        /\ cached' = cached /\ latest' = latest + 1 /\ latest + 1 \in 1..MaxId
        /\ agg' = [agg EXCEPT ![d] = latest + 1]
    BY <1>8, <2>1 DEF Publish, Publication!Publish
  <2>3. agg' \in [Days -> 0..MaxId] /\ latest' \in 0..MaxId
    BY <1>2, <2>2
  <2>4. agg[today] > 0 => d = today
    <3> SUFFICES ASSUME agg[today] > 0 PROVE d = today
      OBVIOUS
    <3>1. agg[today] # 0 /\ today \in Days
      BY <1>2
    <3>2. today <= d
      BY <2>1, <3>1 DEF Publication!Publish
    <3> QED
      BY <1>2, <2>1, <3>2
  <2>5. \A x \in Days : agg'[x] = IF x = d THEN latest + 1 ELSE agg[x]
    BY <1>2, <2>2
  <2>6. d <= today /\ d \in Nat
    BY <1>2, <2>1
  <2>7. \A x \in Days : agg[x] <= latest /\ agg[x] \in Nat /\ (x > today => agg[x] = 0)
    BY <1>2 DEF WorldOK
  <2>8. \A x \in Days : agg[x] <= agg'[x] /\ agg'[x] <= latest'
                        /\ (x > today' => agg'[x] = 0)
    BY <1>2, <2>2, <2>5, <2>6, <2>7
  <2>9. agg'[today] > 0 => agg'[today] = latest'
    BY <1>2, <2>2, <2>4, <2>5, <2>7
  <2>10. WorldOK'
    BY <1>2, <2>2, <2>8, <2>9 DEF WorldOK
  <2> QED
    BY <1>2, <2>2, <2>3, <2>8, <2>10
<1> QED
  BY <1>4, <1>5, <1>6, <1>7, <1>8 DEF WorldStep

-----------------------------------------------------------------------------
(* Where figures come from. *)

\* What a request has not come to yet, or is done with, is empty.
Stages ==
  /\ pc \in {"idle", "routing", "stamping", "loading"} =>
       rows = {} /\ vals = {} /\ queries = {} /\ shown = {}
  /\ pc \in {"scanning", "summing"} => queries = {} /\ shown = {}
  /\ pc \in {"filling", "done"} => rows = {} /\ vals = {}

\* A request that has outlived its day is over before the DWH has the next one.
Began ==
  /\ req.day <= today
  /\ (pc \notin {"idle", "done"} /\ req.day < today) => loaded < today

\* The head of the page and what was asked for are covered by the aggregates.
Covered == label.id <= agg[req.date] /\ req.floor <= agg[req.date]

\* What was shown is still the newest there is of its day.
SeenOK ==
  \A d \in Days : IF seen[d] = MaxId + 1 THEN Settled(d) ELSE seen[d] <= agg[d]

\* Generation `id` of day d is read after the head of the page was stamped.
Fresh(d, id) ==
  /\ 1 <= id /\ id <= agg[d]
  /\ d = req.date => label.id <= id /\ req.floor <= id

RowsOK ==
  \A r \in rows :
    IF r.source = "dwh" THEN r.day <= loaded
    ELSE Fresh(r.day, r.id) /\ (seen[r.day] # MaxId + 1 => seen[r.day] <= r.id)

ValsOK ==
  \A v \in vals :
    IF v.source = "dwh" THEN Settled(v.day)
    ELSE Fresh(v.day, v.id) /\ seen[v.day] <= v.id

QueriesOK ==
  \A q \in queries : \A d \in q.days :
    IF q.source = "dwh" THEN Settled(d) \/ req.day < d
    ELSE seen[d] # MaxId + 1

ShownOK ==
  \A s \in shown :
    IF s.source = "dwh" THEN Settled(s.from)
    ELSE Fresh(s.from, s.id) /\ (pc # "done" => seen[s.from] <= s.id)

SourcesOK == RowsOK /\ ValsOK /\ QueriesOK /\ ShownOK

IInv ==
  /\ TypeOK /\ WorldOK /\ Stages /\ Began /\ Covered /\ SeenOK /\ SourcesOK

\* No request has come yet.
LEMMA InitOK ==
  ASSUME Init
  PROVE  IInv
<1>1. /\ today = FirstDay /\ loaded = FirstDay - 1 /\ watermark = FirstDay - 1
      /\ cached \subseteq 1..loaded /\ latest = 0 /\ agg = [d \in Days |-> 0]
      /\ pc = "idle" /\ req = NoRequest /\ label = NoLabel /\ rows = {} /\ vals = {}
      /\ missing = NoMissing /\ queries = {} /\ shown = {} /\ seen = [d \in Days |-> 0]
  BY DEF Init, Publication!Init
<1>2. /\ FirstDay \in Days /\ FirstDay \in 1..MaxDay /\ MaxDay \in Nat /\ MaxId \in Nat
      /\ \A d \in Days : d \in Nat
  BY DaysAreNumbers DEF Days
<1>3. TypeOK
  <2>1. cached \subseteq Days
    BY <1>1, <1>2 DEF Days
  <2>2. agg \in [Days -> 0..MaxId] /\ seen \in [Days -> 0..(MaxId + 1)]
    BY <1>1, <1>2
  <2>3. loaded \in 0..MaxDay /\ watermark \in 0..MaxDay /\ latest \in 0..MaxId
    BY <1>1, <1>2
  <2>4. /\ req \in [date : Days, kinds : SUBSET Kinds, day : Days, floor : 0..MaxId]
        /\ label \in [kind : {"none"} \cup Sources, id : 0..MaxId]
    BY <1>1, <1>2 DEF NoRequest, NoLabel
  <2>5. missing \in [Kinds -> SUBSET Days]
    BY <1>1 DEF NoMissing
  <2> QED
    BY <1>1, <1>2, <2>1, <2>2, <2>3, <2>4, <2>5 DEF TypeOK
<1>4. WorldOK
  BY <1>1, <1>2 DEF WorldOK
<1>5. Stages /\ Began
  BY <1>1, <1>2 DEF NoRequest, Stages, Began
<1>6. Covered
  BY <1>1, <1>2 DEF Covered, NoRequest, NoLabel
<1>7. SeenOK
  BY <1>1, <1>2 DEF SeenOK
<1>8. SourcesOK
  BY <1>1 DEF SourcesOK, RowsOK, ValsOK, QueriesOK, ShownOK
<1> QED
  BY <1>3, <1>4, <1>5, <1>6, <1>7, <1>8 DEF IInv

\* Numbers, for the steps below.
LEMMA Numbers ==
  ASSUME TypeOK, WorldOK
  PROVE  /\ MaxId \in Nat /\ today \in Nat /\ watermark \in Nat /\ loaded \in Nat
         /\ latest \in Nat /\ req.day \in Nat /\ req.floor \in Nat /\ label.id \in Nat
         /\ req.date \in Days /\ req.kinds \in SUBSET Kinds
         /\ \A d \in Days : /\ d \in Nat /\ agg[d] \in Nat /\ agg[d] <= MaxId
                            /\ seen[d] \in Nat /\ seen[d] <= MaxId + 1
         /\ \A r \in rows \cup vals : /\ r.day \in Days /\ r.id \in Nat /\ r.item \in Items
                                      /\ r.source \in {"dwh", "realtime"}
         /\ \A s \in shown : /\ s.from \in Days /\ s.day \in Days /\ s.id \in Nat
                             /\ s.source \in {"dwh", "realtime"} /\ s.item \in Items
         /\ \A q \in queries : q.days \in SUBSET Days /\ q.source \in {"dwh", "realtime"}
<1>1. /\ MaxId \in Nat /\ today \in Nat /\ watermark \in Nat /\ loaded \in Nat
      /\ latest \in Nat /\ \A d \in Days : d \in Nat
  BY DaysAreNumbers DEF TypeOK
<1>2. req.day \in Days /\ req.floor \in Nat /\ label.id \in Nat /\ req.date \in Days
      /\ req.kinds \in SUBSET Kinds
  BY <1>1 DEF TypeOK
<1>3. \A d \in Days : agg[d] \in Nat /\ agg[d] <= MaxId /\ seen[d] \in Nat /\ seen[d] <= MaxId + 1
  BY <1>1 DEF TypeOK
<1>4. \A r \in rows \cup vals : /\ r.day \in Days /\ r.id \in Nat /\ r.item \in Items
                                /\ r.source \in {"dwh", "realtime"}
  BY <1>1 DEF TypeOK, Row, Sources
<1>5. \A s \in shown : /\ s.from \in Days /\ s.day \in Days /\ s.id \in Nat
                       /\ s.source \in {"dwh", "realtime"} /\ s.item \in Items
  BY <1>1 DEF TypeOK, Figure, Sources
<1>6. \A q \in queries : q.days \in SUBSET Days /\ q.source \in {"dwh", "realtime"}
  BY DEF TypeOK, Sources
<1> QED
  BY <1>1, <1>2, <1>3, <1>4, <1>5, <1>6

\* Whatever a request knows stays true while the world moves on.
LEMMA WorldKeeps ==
  ASSUME IInv, WorldStep
  PROVE  IInv'
<1>1. TypeOK /\ WorldOK
  BY DEF IInv
<1>2. /\ TypeOK' /\ WorldOK' /\ UNCHANGED <<pc, req, reading, seen>>
      /\ today <= today' /\ watermark <= watermark' /\ loaded <= loaded'
      /\ \A d \in Days : agg[d] <= agg'[d]
      /\ loaded' = loaded \/ loaded' < today' \/ req.day = today' \/ pc \in {"idle", "done"}
  BY <1>1, WorldMoves
<1>3. /\ pc' = pc /\ req' = req /\ label' = label /\ rows' = rows /\ vals' = vals
      /\ queries' = queries /\ shown' = shown /\ seen' = seen
  BY <1>2 DEF reading
<1>4. /\ today' \in Nat /\ watermark' \in Nat /\ loaded' \in Nat
      /\ \A d \in Days : agg'[d] \in Nat
  BY <1>2, DaysAreNumbers DEF TypeOK
<1>5. \A d \in Days : Settled(d) => Settled(d)'
  BY <1>1, <1>2, <1>4, Numbers DEF Settled
<1>6. \A d \in Days, id \in Nat : Fresh(d, id) => Fresh(d, id)'
  BY <1>1, <1>2, <1>3, <1>4, Numbers DEF Fresh
<1>7. Stages'
  BY <1>3 DEF IInv, Stages
<1>8. Began'
  BY <1>1, <1>2, <1>3, <1>4, Numbers DEF IInv, Began, WorldOK
<1>9. Covered'
  BY <1>1, <1>2, <1>3, <1>4, Numbers DEF IInv, Covered
<1>10. SeenOK'
  BY <1>1, <1>2, <1>3, <1>4, <1>5, Numbers DEF IInv, SeenOK
<1>11. RowsOK'
  BY <1>1, <1>2, <1>3, <1>4, <1>6, Numbers DEF IInv, SourcesOK, RowsOK
<1>12. ValsOK'
  BY <1>1, <1>3, <1>5, <1>6, Numbers DEF IInv, SourcesOK, ValsOK
<1>13. QueriesOK'
  BY <1>1, <1>3, <1>5, Numbers DEF IInv, SourcesOK, QueriesOK
<1>14. ShownOK'
  BY <1>1, <1>3, <1>5, <1>6, Numbers DEF IInv, SourcesOK, ShownOK
<1> QED
  BY <1>2, <1>7, <1>8, <1>9, <1>10, <1>11, <1>12, <1>13, <1>14 DEF IInv, SourcesOK

\* Rows read now are as fresh as can be.
LEMMA ReadNow ==
  ASSUME IInv, NEW days \in SUBSET Days, NEW items \in SUBSET Items,
         NEW r \in MetricRows(days, items)
  PROVE  IF r.source = "dwh" THEN r.day <= loaded
         ELSE Fresh(r.day, r.id) /\ (seen[r.day] # MaxId + 1 => seen[r.day] <= r.id)
<1>1. TypeOK /\ WorldOK
  BY DEF IInv
<1>2. CASE r.source = "dwh" /\ r.day <= loaded
  BY <1>2
<1>3. CASE r.source = "realtime" /\ r.id = agg[r.day] /\ agg[r.day] # 0
  <2>1. r.day \in Days
    BY <1>1, MetricRowsFacts
  <2>2. 1 <= agg[r.day] /\ agg[r.day] \in Nat
    BY <1>1, <1>3, <2>1, Numbers
  <2> QED
    BY <1>3, <2>1, <2>2 DEF IInv, Covered, SeenOK, Fresh
<1> QED
  BY <1>1, <1>2, <1>3, MetricRowsFacts

\* The DWH has a day that was not live, or that began after the request: settled.
LEMMA HadIsSettled ==
  ASSUME IInv, pc \notin {"idle", "done"}, NEW d \in Days, d <= loaded,
         Settled(d) \/ req.day < d
  PROVE  Settled(d)
<1>1. TypeOK /\ WorldOK /\ Began
  BY DEF IInv
<1> QED
  BY <1>1, Numbers DEF WorldOK, Began, Settled

\* The world a step of a request finds is the one it leaves.
LEMMA RequestKeepsWorld ==
  ASSUME IInv, RequestStep
  PROVE  /\ TypeOK' /\ WorldOK'
         /\ today' = today /\ loaded' = loaded /\ watermark' = watermark
         /\ cached' = cached /\ latest' = latest /\ agg' = agg
         /\ \A d \in Days : Settled(d)' = Settled(d)
<1>1. TypeOK /\ WorldOK
  BY DEF IInv
<1>2. TypeOK' /\ UNCHANGED world
  BY <1>1, RequestTypes, RequestLeavesWorld
<1>3. /\ today' = today /\ loaded' = loaded /\ watermark' = watermark
      /\ cached' = cached /\ latest' = latest /\ agg' = agg
  BY <1>2 DEF world
<1>4. WorldOK'
  BY <1>1, <1>3 DEF WorldOK
<1>5. \A d \in Days : Settled(d)' = Settled(d)
  BY <1>3 DEF Settled
<1> QED
  BY <1>2, <1>3, <1>4, <1>5

\* A request begins, and is stamped, before it has read anything.
LEMMA BeginningKeeps ==
  ASSUME IInv, RequestStep,
         \/ \E d \in Days, kinds \in Pages : Open(d, kinds)
         \/ Route \/ Stamp \/ StampError \/ ReadError
  PROVE  IInv'
<1>1. TypeOK /\ WorldOK
  BY DEF IInv
<1>w. /\ TypeOK' /\ WorldOK' /\ today' = today /\ loaded' = loaded
      /\ latest' = latest /\ agg' = agg /\ \A d \in Days : Settled(d)' = Settled(d)
  BY RequestKeepsWorld
<1>2. /\ rows' = {} /\ vals' = {} /\ queries' = {} /\ shown' = {} /\ seen' = seen
      /\ pc' \in {"idle", "routing", "stamping", "loading"}
  <2>1. CASE \E d \in Days, kinds \in Pages : Open(d, kinds)
    BY <2>1 DEF Open
  <2>2. CASE Route \/ Stamp \/ StampError
    BY <2>2 DEF Route, Stamp, StampError, IInv, Stages
  <2>3. CASE ReadError
    BY <2>3 DEF ReadError
  <2> QED
    BY <2>1, <2>2, <2>3
<1>3. Stages' /\ SourcesOK'
  BY <1>2 DEF Stages, SourcesOK, RowsOK, ValsOK, QueriesOK, ShownOK
<1>4. SeenOK'
  BY <1>w, <1>2 DEF IInv, SeenOK
<1>5. Began'
  <2>1. CASE \E d \in Days, kinds \in Pages : Open(d, kinds)
    <3>1. req'.day = today
      BY <2>1 DEF Open
    <3> QED
      BY <1>1, <1>w, <3>1, Numbers DEF Began
  <2>2. CASE Route \/ Stamp \/ StampError
    BY <1>w, <2>2 DEF Route, Stamp, StampError, IInv, Began
  <2>3. CASE ReadError
    BY <1>1, <1>w, <2>3 DEF ReadError, NoRequest, WorldOK, Began
  <2> QED
    BY <2>1, <2>2, <2>3
<1>6. Covered'
  <2>1. CASE \E d \in Days, kinds \in Pages : Open(d, kinds)
    <3>1. PICK d \in Days, kinds \in Pages : Open(d, kinds)
      BY <2>1
    <3>2. /\ req'.date = d /\ req'.floor = (IF Live(d) THEN agg[d] ELSE 0)
          /\ label'.id = 0
      BY <3>1 DEF Open, NoLabel
    <3> QED
      BY <1>1, <1>w, <3>2, Numbers DEF Covered
  <2>2. CASE Route
    <3>1. label'.id = 0 /\ req' = req
      BY <2>2 DEF Route
    <3> QED
      BY <1>1, <1>w, <3>1, Numbers DEF IInv, Covered
  <2>3. CASE Stamp
    <3>1. req' = req /\ label \in [kind : {"none"} \cup Sources, id : 0..MaxId]
      BY <1>1, <2>3 DEF Stamp, TypeOK
    <3>2. CASE req.date \in RepoDays("realtime")
      <4>1. label'.id = latest /\ agg[req.date] = latest
        BY <2>3, <3>1, <3>2 DEF Stamp, RepoDays
      <4> QED
        BY <1>1, <1>w, <3>1, <4>1, Numbers DEF IInv, Covered
    <3>3. CASE req.date \notin RepoDays("realtime")
      BY <1>w, <2>3, <3>1, <3>3 DEF Stamp, IInv, Covered
    <3> QED
      BY <3>2, <3>3
  <2>4. CASE StampError
    <3>1. label'.id = 0 /\ req' = req
      BY <2>4 DEF StampError, NoLabel
    <3> QED
      BY <1>1, <1>w, <3>1, Numbers DEF IInv, Covered
  <2>5. CASE ReadError
    <3>1. label'.id = 0 /\ req'.floor = 0 /\ req'.date = FirstDay
      BY <2>5 DEF ReadError, NoLabel, NoRequest
    <3> QED
      BY <1>1, <1>w, <3>1, Numbers, DaysAreNumbers DEF Covered
  <2> QED
    BY <2>1, <2>2, <2>3, <2>4, <2>5
<1> QED
  BY <1>w, <1>3, <1>4, <1>5, <1>6 DEF IInv

\* What a step that reads leaves alone.
LEMMA ReadingKeeps ==
  ASSUME IInv, RequestStep, pc \notin {"idle", "done"}, pc' # "done",
         req' = req, label' = label, seen' = seen
  PROVE  /\ TypeOK' /\ WorldOK' /\ Began' /\ Covered' /\ SeenOK'
         /\ \A d \in Days : Settled(d)' = Settled(d)
         /\ \A d, id : Fresh(d, id)' = Fresh(d, id)
<1>w. /\ TypeOK' /\ WorldOK' /\ today' = today /\ loaded' = loaded
      /\ latest' = latest /\ agg' = agg /\ \A d \in Days : Settled(d)' = Settled(d)
  BY RequestKeepsWorld
<1>1. Began' /\ Covered'
  BY <1>w DEF IInv, Began, Covered
<1>2. SeenOK'
  BY <1>w DEF IInv, SeenOK
<1>3. \A d, id : Fresh(d, id)' = Fresh(d, id)
  BY <1>w DEF Fresh
<1> QED
  BY <1>w, <1>1, <1>2, <1>3

\* The two cache queries and the scan of their rows.
LEMMA ScanKeeps ==
  ASSUME IInv, RequestStep, ReadDates \/ ReadBooking \/ ScanRow
  PROVE  IInv'
<1>1. TypeOK /\ WorldOK /\ Stages
  BY DEF IInv
<1>2. /\ req' = req /\ label' = label /\ seen' = seen /\ pc \notin {"idle", "done"}
      /\ pc' \in {"scanning", "summing"} /\ queries' = {} /\ shown' = {}
  BY <1>1 DEF ReadDates, ReadBooking, ScanRow, Stages
<1>3. /\ TypeOK' /\ WorldOK' /\ Began' /\ Covered' /\ SeenOK' /\ loaded' = loaded
      /\ \A d \in Days : Settled(d)' = Settled(d)
      /\ \A d, id : Fresh(d, id)' = Fresh(d, id)
  BY <1>2, ReadingKeeps, RequestKeepsWorld
<1>4. Stages' /\ QueriesOK' /\ ShownOK'
  BY <1>2 DEF Stages, QueriesOK, ShownOK
<1>5. RowsOK'
  <2>1. CASE ReadDates
    <3>1. rows' = MetricRows(Requested, Keys)
      BY <2>1 DEF ReadDates
    <3>2. Requested \in SUBSET Days /\ Keys \in SUBSET Items
      BY <1>1, RequestedDays
    <3> QED
      BY <1>2, <1>3, <3>1, <3>2, ReadNow DEF RowsOK
  <2>2. CASE ReadBooking
    <3>1. rows' = MetricRows(UNION {Period(d) : d \in Requested}, {Marker["l"], Booking})
      BY <2>2 DEF ReadBooking
    <3>2. /\ UNION {Period(d) : d \in Requested} \in SUBSET Days
          /\ {Marker["l"], Booking} \in SUBSET Items
      BY <1>1, RequestedDays, KindFacts DEF Kinds
    <3> QED
      BY <1>2, <1>3, <3>1, <3>2, ReadNow DEF RowsOK
  <2>3. CASE ScanRow
    <3>1. rows' \subseteq rows
      BY <2>3 DEF ScanRow
    <3> QED
      BY <1>2, <1>3, <3>1 DEF IInv, SourcesOK, RowsOK
  <2> QED
    BY <2>1, <2>2, <2>3
<1>6. ValsOK'
  <2>1. CASE ReadDates \/ ReadBooking
    <3>1. vals' = vals
      BY <2>1 DEF ReadDates, ReadBooking
    <3> QED
      BY <1>1, <1>2, <1>3, <3>1, Numbers DEF IInv, SourcesOK, ValsOK
  <2>2. CASE ScanRow
    <3>1. PICK r \in rows :
            vals' = IF r.source = SourceFor(r.day)
                    THEN {v \in vals : v.day # r.day \/ v.item # r.item} \cup {r}
                    ELSE vals
      BY <2>2 DEF ScanRow
    <3>2. r.source = SourceFor(r.day) =>
            IF r.source = "dwh" THEN Settled(r.day)
            ELSE Fresh(r.day, r.id) /\ seen[r.day] <= r.id
      <4> SUFFICES ASSUME r.source = SourceFor(r.day)
                   PROVE  IF r.source = "dwh" THEN Settled(r.day)
                          ELSE Fresh(r.day, r.id) /\ seen[r.day] <= r.id
        OBVIOUS
      <4>1. r.day \in Days
        BY <1>1, Numbers
      <4>2. CASE r.source = "dwh"
        <5>1. r.day <= loaded /\ ~Live(r.day)
          BY <1>1, <4>1, <4>2, LiveOrSettled DEF IInv, SourcesOK, RowsOK
        <5>2. ~(r.day > today)
          BY <1>1, <4>1, <5>1, Numbers DEF WorldOK
        <5> QED
          BY <1>1, <4>1, <4>2, <5>1, <5>2, LiveOrSettled
      <4>3. CASE r.source # "dwh"
        <5>1. SourceFor(r.day) = "realtime"
          BY <1>1, <4>3, Numbers
        <5>2. ~Settled(r.day)
          BY <1>1, <4>1, <5>1, LiveOrSettled
        <5>3. seen[r.day] # MaxId + 1
          BY <4>1, <5>2 DEF IInv, SeenOK
        <5> QED
          BY <4>3, <5>3 DEF IInv, SourcesOK, RowsOK
      <4> QED
        BY <4>2, <4>3
    <3>3. \A v \in vals' :
            IF v.source = "dwh" THEN Settled(v.day)
            ELSE Fresh(v.day, v.id) /\ seen[v.day] <= v.id
      BY <3>1, <3>2 DEF IInv, SourcesOK, ValsOK
    <3>4. \A v \in vals' : v.day \in Days
      BY <1>1, <3>1, Numbers
    <3> QED
      BY <1>2, <1>3, <3>3, <3>4 DEF ValsOK
  <2> QED
    BY <2>1, <2>2
<1> QED
  BY <1>3, <1>4, <1>5, <1>6 DEF IInv, SourcesOK

\* The cache's answer, and the queries for what it lacks.
LEMMA FillKeeps ==
  ASSUME IInv, RequestStep, Assemble \/ Group \/ FallBack
  PROVE  IInv'
<1>1. TypeOK /\ WorldOK /\ Stages
  BY DEF IInv
<1>2. /\ req' = req /\ label' = label /\ seen' = seen /\ pc \notin {"idle", "done"}
      /\ pc' = "filling" /\ rows' = {} /\ vals' = {}
  BY <1>1 DEF Assemble, Group, FallBack, Stages
<1>3. /\ TypeOK' /\ WorldOK' /\ Began' /\ Covered' /\ SeenOK' /\ loaded' = loaded
      /\ today' = today /\ watermark' = watermark
      /\ \A d \in Days : Settled(d)' = Settled(d)
      /\ \A d, id : Fresh(d, id)' = Fresh(d, id)
  BY <1>2, ReadingKeeps, RequestKeepsWorld
<1>4. Stages' /\ RowsOK' /\ ValsOK'
  BY <1>2 DEF Stages, RowsOK, ValsOK
<1>5. ShownOK'
  <2>1. CASE Assemble
    <3>1. shown' = UNION {Positions(d) \cup Bookings(d) : d \in Requested}
      BY <2>1 DEF Assemble
    <3>2. ASSUME NEW s \in shown'
          PROVE  IF s.source = "dwh" THEN Settled(s.from)
                 ELSE Fresh(s.from, s.id) /\ seen[s.from] <= s.id
      <4>1. PICK d \in Requested : s \in Positions(d) \cup Bookings(d)
        BY <3>1
      <4>2. PICK v \in vals : v.day = s.from /\ v.source = s.source /\ v.id = s.id
        BY <1>1, <4>1, AnsweredFacts
      <4> QED
        BY <4>2 DEF IInv, SourcesOK, ValsOK
    <3>3. \A s \in shown' : s.from \in Days
      BY <1>3 DEF TypeOK, Figure
    <3> QED
      BY <1>2, <1>3, <3>2, <3>3 DEF ShownOK
  <2>2. CASE Group \/ FallBack
    <3>1. shown' = shown /\ pc = "filling"
      BY <2>2 DEF Group, FallBack
    <3> QED
      BY <1>1, <1>2, <1>3, <3>1, Numbers DEF IInv, SourcesOK, ShownOK
  <2> QED
    BY <2>1, <2>2
<1>6. QueriesOK'
  <2> SUFFICES ASSUME NEW q \in queries', NEW d \in q.days
               PROVE  IF q.source = "dwh" THEN Settled(d) \/ req.day < d
                      ELSE seen[d] # MaxId + 1
    <3>1. \A q \in queries' : \A d \in q.days : d \in Days
      BY <1>3 DEF TypeOK
    <3> QED
      BY <1>2, <1>3, <3>1 DEF QueriesOK
  <2>1. d \in Days /\ q.source = SourceFor(d)
    <3>1. d \in Days
      BY <1>3 DEF TypeOK
    <3>2. CASE Assemble
      <4>1. q = [kind |-> "preview", source |-> SourceFor(req.date), days |-> {req.date}]
        BY <3>2 DEF Assemble
      <4> QED
        BY <3>1, <4>1
    <3>3. CASE FallBack
      <4>1. q = [kind |-> "m", source |-> SourceFor(req.date), days |-> {req.date}]
        BY <3>3 DEF FallBack
      <4> QED
        BY <3>1, <4>1
    <3>4. CASE Group
      <4>1. PICK k \in req.kinds \ {"m"} : \E x \in missing[k] :
              q = [kind |-> k, source |-> SourceFor(x),
                   days |-> {y \in missing[k] : SourceFor(y) = SourceFor(x)}]
        BY <3>4 DEF Group
      <4> QED
        BY <3>1, <4>1
    <3> QED
      BY <3>2, <3>3, <3>4
  <2>2. IF SourceFor(d) = "dwh" THEN Settled(d) \/ d > today
        ELSE seen[d] # MaxId + 1
    <3>1. CASE SourceFor(d) = "dwh"
      BY <1>1, <2>1, <3>1, LiveOrSettled
    <3>2. CASE SourceFor(d) # "dwh"
      <4>1. ~Settled(d)
        BY <1>1, <2>1, <3>2, LiveOrSettled DEF Sources
      <4> QED
        BY <2>1, <3>2, <4>1 DEF IInv, SeenOK
    <3> QED
      BY <3>1, <3>2
  <2> QED
    BY <1>1, <2>1, <2>2, Numbers DEF IInv, Began
<1> QED
  BY <1>3, <1>4, <1>5, <1>6 DEF IInv, SourcesOK

\* The answers to these queries.
LEMMA AnswerKeeps ==
  ASSUME IInv, RequestStep, LoadFrom \/ ReadPreview
  PROVE  IInv'
<1>1. TypeOK /\ WorldOK /\ Stages
  BY DEF IInv
<1>2. /\ req' = req /\ label' = label /\ seen' = seen /\ pc = "filling" /\ pc' = pc
      /\ rows' = {} /\ vals' = {}
  BY <1>1 DEF LoadFrom, ReadPreview, Stages
<1>3. /\ TypeOK' /\ WorldOK' /\ Began' /\ Covered' /\ SeenOK'
      /\ \A d \in Days : Settled(d)' = Settled(d)
      /\ \A d, id : Fresh(d, id)' = Fresh(d, id)
  BY <1>2, ReadingKeeps
<1>4. Stages' /\ RowsOK' /\ ValsOK'
  BY <1>2 DEF Stages, RowsOK, ValsOK
<1>5. QueriesOK'
  <2>1. queries' \subseteq queries
    BY DEF LoadFrom, ReadPreview
  <2>2. \A q \in queries : \A d \in q.days : d \in Days
    BY <1>1, Numbers
  <2> QED
    BY <1>2, <1>3, <2>1, <2>2 DEF IInv, SourcesOK, QueriesOK
<1>6. ASSUME NEW s \in shown'
      PROVE  IF s.source = "dwh" THEN Settled(s.from)
             ELSE Fresh(s.from, s.id) /\ seen[s.from] <= s.id
  <2>0. CASE s \in shown
    BY <1>2, <2>0 DEF IInv, SourcesOK, ShownOK
  <2>1. ASSUME NEW q \in queries, NEW d \in q.days, d \in Days, d <= loaded,
               q.source = "dwh"
        PROVE  Settled(d)
    BY <1>2, <2>1, HadIsSettled DEF IInv, SourcesOK, QueriesOK
  <2>2. CASE LoadFrom /\ s \notin shown
    <3>1. PICK q \in queries :
            /\ q.kind \in Kinds
            /\ s \in RepoFigures(q.days \cap RepoDays(q.source), q.kind, q.source)
      BY <2>2 DEF LoadFrom
    <3>2. q.source \in Sources /\ q.source \in {"dwh", "realtime"}
      BY <1>1, Numbers DEF Sources
    <3>3. /\ s.day \in q.days /\ s.day \in Days /\ s.from = s.day /\ s.source = q.source
          /\ q.source = "dwh" => s.day <= loaded
          /\ q.source = "realtime" => s.id = agg[s.day] /\ s.id # 0
      BY <1>1, <3>1, <3>2, RepoFiguresFacts
    <3>4. CASE q.source = "dwh"
      BY <2>1, <3>3, <3>4
    <3>5. CASE q.source = "realtime"
      <4>1. seen[s.day] # MaxId + 1
        BY <3>3, <3>5 DEF IInv, SourcesOK, QueriesOK
      <4>2. 1 <= s.id /\ seen[s.day] <= s.id
        BY <1>1, <3>3, <3>5, <4>1, Numbers DEF IInv, SeenOK
      <4> QED
        BY <1>1, <3>3, <3>5, <4>2, Numbers DEF IInv, Covered, Fresh
    <3> QED
      BY <3>2, <3>4, <3>5
  <2>3. CASE ReadPreview /\ s \notin shown
    <3>1. PICK q \in queries : \E r \in MetricRows(q.days, {"preview"}) :
            /\ r.source = q.source
            /\ s = [day |-> r.day, item |-> r.item, from |-> r.day,
                    source |-> r.source, id |-> r.id]
      BY <2>3 DEF ReadPreview
    <3>2. PICK r \in MetricRows(q.days, {"preview"}) :
            r.source = q.source /\ s.from = r.day /\ s.source = r.source /\ s.id = r.id
      BY <3>1
    <3>3. q.days \in SUBSET Days /\ {"preview"} \in SUBSET Items
          /\ q.source \in {"dwh", "realtime"}
      BY <1>1, Numbers, KindFacts
    <3>4. r.day \in q.days /\ r.day \in Days
      BY <1>1, <3>3, MetricRowsFacts
    <3>5. IF r.source = "dwh" THEN r.day <= loaded
          ELSE Fresh(r.day, r.id) /\ (seen[r.day] # MaxId + 1 => seen[r.day] <= r.id)
      BY <3>3, ReadNow
    <3>6. CASE q.source = "dwh"
      BY <2>1, <3>2, <3>4, <3>5, <3>6
    <3>7. CASE q.source # "dwh"
      <4>1. seen[r.day] # MaxId + 1
        BY <3>4, <3>7 DEF IInv, SourcesOK, QueriesOK
      <4> QED
        BY <3>2, <3>5, <3>7, <4>1
    <3> QED
      BY <3>6, <3>7
  <2> QED
    BY <2>0, <2>2, <2>3
<1>7. ShownOK'
  <2>1. \A s \in shown' : s.from \in Days
    BY <1>3 DEF TypeOK, Figure
  <2> QED
    BY <1>2, <1>3, <1>6, <2>1 DEF ShownOK
<1> QED
  BY <1>3, <1>4, <1>5, <1>7 DEF IInv, SourcesOK

\* Once a page is shown, its figures are the newest that were.
LEMMA FinishKeeps ==
  ASSUME IInv, RequestStep, Finish
  PROVE  IInv'
<1>1. TypeOK /\ WorldOK /\ Stages
  BY DEF IInv
<1>2. /\ req' = req /\ label' = label /\ rows' = {} /\ vals' = {} /\ queries' = {}
      /\ shown' = shown /\ pc = "filling" /\ pc' = "done"
      /\ seen' = [d \in Days |-> Highest(Witnessed(d) \cup {seen[d]})]
  BY <1>1 DEF Finish, Filled, reading, Stages
<1>3. /\ TypeOK' /\ WorldOK' /\ agg' = agg /\ today' = today /\ loaded' = loaded
      /\ \A d \in Days : Settled(d)' = Settled(d)
  BY RequestKeepsWorld
<1>4. \A d, id : Fresh(d, id)' = Fresh(d, id)
  BY <1>2, <1>3 DEF Fresh
<1>5. Stages' /\ RowsOK' /\ ValsOK' /\ QueriesOK'
  BY <1>2 DEF Stages, RowsOK, ValsOK, QueriesOK
<1>6. Began' /\ Covered'
  BY <1>2, <1>3 DEF IInv, Began, Covered
<1>7. ShownOK'
  BY <1>1, <1>2, <1>3, <1>4, Numbers DEF IInv, SourcesOK, ShownOK
<1>8. SeenOK'
  <2> SUFFICES ASSUME NEW d \in Days
               PROVE  IF seen'[d] = MaxId + 1 THEN Settled(d) ELSE seen'[d] <= agg[d]
    BY <1>3 DEF SeenOK
  <2>1. seen'[d] \in Witnessed(d) \cup {seen[d]}
    BY <1>1, <1>2, WitnessedRanks, HighestIsHighest
  <2>2. CASE seen'[d] = seen[d]
    BY <2>2 DEF IInv, SeenOK
  <2>3. CASE seen'[d] \in Witnessed(d)
    <3>1. PICK s \in shown : s.from = d /\ seen'[d] = Rank(s)
      BY <2>3 DEF Witnessed
    <3>2. CASE s.source = "dwh"
      <4>1. seen'[d] = MaxId + 1
        BY <1>1, <3>1, <3>2, WitnessedRanks
      <4>2. Settled(d)
        BY <3>1, <3>2 DEF IInv, SourcesOK, ShownOK
      <4> QED
        BY <4>1, <4>2
    <3>3. CASE s.source = "realtime"
      <4>1. seen'[d] = s.id
        BY <1>1, <3>1, <3>3, WitnessedRanks
      <4>2. s.id <= agg[d]
        BY <3>1, <3>3 DEF IInv, SourcesOK, ShownOK, Fresh
      <4> QED
        BY <1>1, <4>1, <4>2, Numbers
    <3> QED
      BY <1>1, <3>2, <3>3, Numbers
  <2> QED
    BY <2>1, <2>2, <2>3
<1> QED
  BY <1>3, <1>5, <1>6, <1>7, <1>8 DEF IInv, SourcesOK

\* The invariant is inductive.
LEMMA NextKeeps ==
  ASSUME IInv, [Next]_vars
  PROVE  IInv'
<1>1. CASE RequestStep
  <2>1. CASE \/ \E d \in Days, kinds \in Pages : Open(d, kinds)
             \/ Route \/ Stamp \/ StampError \/ ReadError
    BY <1>1, <2>1, BeginningKeeps
  <2>2. CASE ReadDates \/ ReadBooking \/ ScanRow
    BY <1>1, <2>2, ScanKeeps
  <2>3. CASE Assemble \/ Group \/ FallBack
    BY <1>1, <2>3, FillKeeps
  <2>4. CASE LoadFrom \/ ReadPreview
    BY <1>1, <2>4, AnswerKeeps
  <2>5. CASE Finish
    BY <1>1, <2>5, FinishKeeps
  <2> QED
    BY <1>1, <2>1, <2>2, <2>3, <2>4, <2>5 DEF RequestStep
<1>2. CASE WorldStep
  BY <1>2, WorldKeeps
<1>3. CASE UNCHANGED vars
  <2>1. /\ UNCHANGED <<pc, req, reading, seen>> /\ today' = today /\ loaded' = loaded
        /\ watermark' = watermark /\ cached' = cached /\ latest' = latest /\ agg' = agg
    BY <1>3 DEF vars, world
  <2>2. /\ label' = label /\ rows' = rows /\ vals' = vals /\ missing' = missing
        /\ queries' = queries /\ shown' = shown /\ pc' = pc /\ req' = req /\ seen' = seen
    BY <2>1 DEF reading
  <2>3. \A d : Settled(d)' = Settled(d)
    BY <2>1 DEF Settled
  <2>4. \A d, id : Fresh(d, id)' = Fresh(d, id)
    BY <2>1, <2>2 DEF Fresh
  <2>5. TypeOK'
    BY <2>1, <2>2 DEF IInv, TypeOK
  <2>6. WorldOK' /\ Stages' /\ Began' /\ Covered' /\ SeenOK'
    BY <2>1, <2>2, <2>3 DEF IInv, WorldOK, Stages, Began, Covered, SeenOK
  <2>7. SourcesOK'
    BY <2>1, <2>2, <2>3, <2>4 DEF IInv, SourcesOK, RowsOK, ValsOK, QueriesOK, ShownOK
  <2> QED
    BY <2>5, <2>6, <2>7 DEF IInv
<1> QED
  BY <1>1, <1>2, <1>3 DEF Next

-----------------------------------------------------------------------------
(* The theorems. *)

\* The invariant holds in every state.
LEMMA Invariant == Spec => []IInv
<1>1. Init => IInv
  BY InitOK
<1>2. IInv /\ [Next]_vars => IInv'
  BY NextKeeps
<1> QED
  BY <1>1, <1>2, PTL DEF Spec

\* Every variable of a page request, and of the world around it, keeps its type
\* (dashboard.go, cache.go).
THEOREM TypeCorrect == Spec => []TypeOK
<1>1. IInv => TypeOK
  BY DEF IInv
<1> QED
  BY <1>1, Invariant, PTL

\* A realtime figure is of a generation published for its own day, whichever of
\* the cache and the tables it was read from (Repository.read, scanMetrics).
THEOREM FiguresAreOfTheirDay == Spec => []OwnDay
<1>1. IInv => OwnDay
  <2> SUFFICES ASSUME IInv, NEW s \in shown, s.source = "realtime"
               PROVE  s.id \in 1..agg[s.from]
    BY DEF OwnDay
  <2>1. TypeOK /\ WorldOK /\ Fresh(s.from, s.id)
    BY DEF IInv, SourcesOK, ShownOK
  <2> QED
    BY <2>1, Numbers DEF Fresh
<1> QED
  BY <1>1, Invariant, PTL

\* No page of a day that the watermark has not reached shows DWH figures of it,
\* though queries are grouped, and rows scanned, at different times (sourceFor).
THEOREM NothingStandsIn == Spec => []NoSubstitute
<1>1. IInv => NoSubstitute
  <2> SUFFICES ASSUME IInv, Live(req.date), NEW s \in shown, s.from = req.date
               PROVE  s.source = "realtime"
    BY DEF NoSubstitute
  <2>1. TypeOK /\ WorldOK
    BY DEF IInv
  <2>2. ~Settled(s.from)
    BY <2>1, Numbers, LiveOrSettled
  <2>3. s.source # "dwh"
    BY <2>2 DEF IInv, SourcesOK, ShownOK
  <2> QED
    BY <2>1, <2>3, Numbers
<1> QED
  BY <1>1, Invariant, PTL

\* The provenance in a page's head is not newer than the page's figures, because
\* base asks for it first and generations only get newer.
THEOREM HeadIsNotNewer == Spec => []HeadNotNewer
<1>1. IInv => HeadNotNewer
  <2> SUFFICES ASSUME IInv, NEW s \in shown, s.source = "realtime", s.from = req.date
               PROVE  s.id >= label.id
    BY DEF HeadNotNewer
  <2>1. TypeOK /\ WorldOK /\ Fresh(s.from, s.id)
    BY DEF IInv, SourcesOK, ShownOK
  <2> QED
    BY <2>1, Numbers DEF Fresh
<1> QED
  BY <1>1, Invariant, PTL

\* No page shows an older figure of a day than a page before it did, and a day
\* once shown from the DWH is never shown from realtime again.
THEOREM PagesNeverGetOlder == Spec => NeverOlder
<1>1. IInv /\ [Next]_vars =>
        [(pc # "done" /\ pc' = "done") => \A s \in shown : Rank(s) >= seen[s.from]]_vars
  <2> SUFFICES ASSUME IInv, pc # "done", NEW s \in shown
               PROVE  Rank(s) >= seen[s.from]
    OBVIOUS
  <2>1. TypeOK /\ WorldOK
    BY DEF IInv
  <2>2. CASE s.source = "dwh"
    BY <2>1, <2>2, Numbers, WitnessedRanks
  <2>3. CASE s.source = "realtime"
    <3>1. seen[s.from] <= s.id
      BY <2>3 DEF IInv, SourcesOK, ShownOK
    <3>2. Rank(s) = s.id
      BY <2>1, <2>3, Numbers, WitnessedRanks
    <3> QED
      BY <2>1, <3>1, <3>2, Numbers
  <2> QED
    BY <2>1, <2>2, <2>3, Numbers
<1> QED
  BY <1>1, Invariant, PTL DEF Spec, NeverOlder

-----------------------------------------------------------------------------
(* Nothing that was published is missing from the page. *)

\* The request is for today and something was published for it before.
Owed == req.floor > 0 /\ Live(req.date)

KindsOK == "m" \in req.kinds => req.kinds = {"m"}

\* The cache's row of today is still to be scanned, or was kept.
Found(i) ==
  \E v \in rows \cup vals : v.day = req.date /\ v.item = i /\ v.source = "realtime"

\* Booking may be looked up in the sources, the preview is always read apart.
Pending(i) ==
  \/ i = Booking /\ \/ req.date \in missing["l"]
                    \/ \E q \in queries : q.kind = "l" /\ req.date \in q.days
  \/ i = "preview" /\ \E q \in queries : q.kind = "preview" /\ req.date \in q.days

RowsFound == pc \in {"scanning", "summing"} => \A i \in Keys : Found(i)

FillingUp ==
  pc = "filling" =>
    /\ missing["m"] = {}
    /\ \A q \in queries : req.date \in q.days => q.source = "realtime"
    /\ \A k \in req.kinds : \A i \in Figures[k] : OfDate(i) # {} \/ Pending(i)

AllShown == pc = "done" => \A k \in req.kinds : \A i \in Figures[k] : OfDate(i) # {}

PageOK == KindsOK /\ (Owed => RowsFound /\ FillingUp /\ AllShown)

\* Booking is a figure of loans alone, the preview one of maturities alone.
LEMMA FigureKinds ==
  /\ "preview" # Booking
  /\ \A k \in Kinds : /\ Booking \in Figures[k] => k = "l"
                      /\ "preview" \in Figures[k] => k = "m"
  /\ Booking \in Figures["l"] /\ Booking \notin Figures["m"]
  /\ "deposit_due_nominal" \in Figures["m"] /\ "deposit_due_nominal" # "preview"
BY DEF Figures, Kinds, Booking

\* What is owed was owed before, unless the request has just come.
LEMMA OwedBefore ==
  ASSUME IInv, WorldStep, Owed'
  PROVE  Owed /\ UNCHANGED <<pc, req, reading>>
<1>1. TypeOK /\ WorldOK /\ Covered
  BY DEF IInv
<1>2. /\ TypeOK' /\ UNCHANGED <<pc, req, reading>>
      /\ today <= today' /\ watermark <= watermark'
  BY <1>1, WorldMoves
<1>3. today' \in Nat /\ watermark' \in Nat
  BY <1>2, DaysAreNumbers DEF TypeOK
<1>4. req.floor > 0 /\ Hybrid /\ req.date = today' /\ watermark' < req.date
  BY <1>2 DEF Owed, Live
<1>5. agg[req.date] > 0
  BY <1>1, <1>4, Numbers DEF Covered
<1>6. ~(req.date > today)
  BY <1>1, <1>5, Numbers DEF WorldOK
<1> QED
  BY <1>1, <1>2, <1>3, <1>4, <1>6, Numbers DEF Owed, Live

\* While something is owed, today's source is realtime and it has today's rows.
LEMMA OwedFacts ==
  ASSUME IInv, Owed
  PROVE  /\ SourceFor(req.date) = "realtime" /\ agg[req.date] # 0
         /\ req.date \in RepoDays("realtime") /\ req.date \in Days
<1>1. TypeOK /\ WorldOK /\ Covered
  BY DEF IInv
<1>2. agg[req.date] > 0 /\ agg[req.date] \in Nat /\ req.date \in Days
  BY <1>1, Numbers DEF Owed, Covered
<1>3. req.date = today
  BY DEF Owed, Live
<1>4. agg[req.date] = latest /\ latest # 0
  BY <1>2, <1>3 DEF IInv, WorldOK
<1> QED
  BY <1>2, <1>4 DEF RepoDays, SourceFor, Owed

\* Nothing is owed to a page at first.
LEMMA PageInit ==
  ASSUME Init
  PROVE  PageOK
BY DEF Init, PageOK, KindsOK, Owed, NoRequest

\* What others do takes nothing away from what a page will show.
LEMMA PageWorld ==
  ASSUME IInv, PageOK, WorldStep
  PROVE  PageOK'
<1>1. UNCHANGED <<pc, req, reading>>
  BY WorldMoves DEF IInv
<1>2. KindsOK'
  BY <1>1 DEF PageOK, KindsOK
<1>3. ASSUME Owed' PROVE (RowsFound /\ FillingUp /\ AllShown)'
  <2>1. RowsFound /\ FillingUp /\ AllShown
    BY <1>3, OwedBefore DEF PageOK
  <2>2. /\ pc' = pc /\ req' = req /\ rows' = rows /\ vals' = vals
        /\ missing' = missing /\ queries' = queries /\ shown' = shown
    BY <1>1 DEF reading
  <2>3. /\ Keys' = Keys
        /\ \A i : Found(i)' = Found(i)
        /\ \A i : Pending(i)' = Pending(i)
        /\ \A i : OfDate(i)' = OfDate(i)
    BY <2>2 DEF Keys, Found, Pending, OfDate
  <2> QED
    BY <2>1, <2>2, <2>3 DEF RowsFound, FillingUp, AllShown
<1> QED
  BY <1>2, <1>3 DEF PageOK

\* After a step that leaves the request, what is owed was owed before.
LEMMA OwedStays ==
  ASSUME RequestStep, req' = req
  PROVE  Owed' = Owed /\ Keys' = Keys
BY RequestLeavesWorld DEF world, Owed, Live, Keys

\* The queries of the cache find every row of today, and the scan keeps them.
LEMMA PageScan ==
  ASSUME IInv, PageOK, RequestStep, ReadDates \/ ReadBooking \/ ScanRow
  PROVE  PageOK'
<1>1. /\ req' = req /\ pc' \in {"scanning", "summing"}
      /\ pc \in {"loading", "scanning", "summing"}
  BY DEF ReadDates, ReadBooking, ScanRow
<1>2. KindsOK' /\ Owed' = Owed /\ Keys' = Keys
  BY <1>1, OwedStays DEF PageOK, KindsOK
<1>3. ASSUME Owed, NEW i \in Keys PROVE Found(i)'
  <2>1. /\ SourceFor(req.date) = "realtime" /\ agg[req.date] # 0 /\ req.date \in Days
    BY <1>3, OwedFacts
  <2>2. CASE ReadDates
    <3>1. rows' = MetricRows(Requested, Keys) /\ req.date \in Requested
      BY <2>2, RequestedDays DEF ReadDates, IInv
    <3>2. [day |-> req.date, item |-> i, source |-> "realtime", id |-> agg[req.date]] \in rows'
      BY <1>3, <2>1, <3>1, MetricRowsHas
    <3> QED
      BY <1>1, <3>2 DEF Found
  <2>3. CASE ReadBooking
    <3>1. rows = {} /\ vals' = vals /\ pc = "scanning"
      BY <2>3 DEF ReadBooking
    <3>2. Found(i)
      BY <1>3, <3>1 DEF PageOK, RowsFound
    <3> QED
      BY <1>1, <3>1, <3>2 DEF Found
  <2>4. CASE ScanRow
    <3>1. PICK r \in rows :
            /\ rows' = rows \ {r}
            /\ vals' = IF r.source = SourceFor(r.day)
                       THEN {v \in vals : v.day # r.day \/ v.item # r.item} \cup {r}
                       ELSE vals
      BY <2>4 DEF ScanRow
    <3>2. Found(i)
      BY <1>3, <2>4 DEF ScanRow, PageOK, RowsFound
    <3>3. PICK v \in rows \cup vals :
            v.day = req.date /\ v.item = i /\ v.source = "realtime"
      BY <3>2 DEF Found
    <3>4. CASE v = r
      <4>1. r \in vals'
        BY <2>1, <3>1, <3>3, <3>4
      <4> QED
        BY <1>1, <3>3, <3>4, <4>1 DEF Found
    <3>5. CASE v \in rows /\ v # r
      BY <1>1, <3>1, <3>3, <3>5 DEF Found
    <3>6. CASE v \in vals
      <4>1. CASE v \in vals'
        BY <1>1, <3>3, <4>1 DEF Found
      <4>2. CASE v \notin vals'
        <5>1. r.source = SourceFor(r.day) /\ v.day = r.day /\ v.item = r.item /\ r \in vals'
          BY <3>1, <3>6, <4>2
        <5> QED
          BY <1>1, <2>1, <3>3, <5>1 DEF Found
      <4> QED
        BY <4>1, <4>2
    <3> QED
      BY <3>3, <3>4, <3>5, <3>6
  <2> QED
    BY <2>2, <2>3, <2>4
<1>4. Owed' => (RowsFound /\ FillingUp /\ AllShown)'
  BY <1>1, <1>2, <1>3 DEF RowsFound, FillingUp, AllShown
<1> QED
  BY <1>2, <1>4 DEF PageOK

\* The cache answers with all of them, or booking and the preview are asked for.
LEMMA PageAssemble ==
  ASSUME IInv, PageOK, RequestStep, Assemble
  PROVE  PageOK'
<1> DEFINE D == req.date
<1>1. /\ req' = req /\ pc' = "filling" /\ pc \in {"scanning", "summing"} /\ rows = {}
      /\ shown' = UNION {Positions(d) \cup Bookings(d) : d \in Requested}
      /\ missing' = [k \in Kinds |-> IF k \in req.kinds
                       THEN {d \in Requested : Lacks(d, k)} ELSE {}]
      /\ queries' = IF req.kinds = {"m"} /\ Positions(D) # {}
                     THEN {[kind |-> "preview", source |-> SourceFor(D), days |-> {D}]}
                     ELSE {}
  BY DEF Assemble
<1>2. KindsOK' /\ Owed' = Owed
  BY <1>1, OwedStays DEF PageOK, KindsOK
<1>3. /\ TypeOK /\ D \in Days /\ D \in Requested /\ D \in Period(D)
      /\ req.kinds \in SUBSET Kinds
  BY RequestedDays, Numbers DEF IInv
<1>4. ASSUME Owed PROVE FillingUp'
  <2>1. \A i \in Keys : \E v \in vals : v.day = D /\ v.item = i /\ v.source = "realtime"
    BY <1>1, <1>4 DEF PageOK, RowsFound, Found
  <2>2. \A k \in req.kinds : Marked(D, k)
    <3> SUFFICES ASSUME NEW k \in req.kinds PROVE Marked(D, k)
      OBVIOUS
    <3>1. Marker[k] \in Keys
      BY DEF Keys
    <3> QED
      BY <2>1, <3>1 DEF Marked
  <2>3. ASSUME NEW k \in req.kinds, NEW i \in Figures[k], i # "preview"
        PROVE  \E v \in vals : v.day = D /\ v.item = i
    <3>1. i \in Keys
      BY <2>3 DEF Keys
    <3> QED
      BY <2>1, <3>1
  <2>4. ASSUME NEW k \in req.kinds, NEW i \in Figures[k], i # "preview", i # Booking
        PROVE  \E s \in Positions(D) : s.day = D /\ s.from = D /\ s.item = i
    <3>1. PICK v \in vals : v.day = D /\ v.item = i
      BY <2>3, <2>4
    <3>2. v.item \in Figures[k] \ {Booking} /\ Marked(D, k)
      BY <2>2, <2>4, <3>1
    <3> DEFINE s == [day |-> D, item |-> v.item, from |-> D, source |-> v.source,
                     id |-> v.id]
    <3>3. s \in Positions(D)
      BY <3>1, <3>2 DEF Positions
    <3>4. s.day = D /\ s.from = D /\ s.item = i
      BY <3>1
    <3> QED
      BY <3>3, <3>4
  <2>5. ASSUME "l" \in req.kinds, Complete(D)
        PROVE  \E s \in Bookings(D) : s.day = D /\ s.from = D /\ s.item = Booking
    <3>1. PICK v \in vals : v.day = D /\ v.item = Booking
      BY <2>3, <2>5, FigureKinds
    <3> DEFINE s == [day |-> D, item |-> Booking, from |-> v.day, source |-> v.source,
                     id |-> v.id]
    <3>2. s \in Bookings(D)
      BY <1>3, <2>5, <3>1 DEF Bookings
    <3>3. s.day = D /\ s.from = D /\ s.item = Booking
      BY <3>1
    <3> QED
      BY <3>2, <3>3
  <2>6. \A s \in Positions(D) \cup Bookings(D) : s \in shown'
    BY <1>1, <1>3
  <2>7. SourceFor(D) = "realtime"
    BY <1>4, OwedFacts
  <2>8. missing'["m"] = {}
    <3>1. CASE "m" \in req.kinds
      <4>1. req.kinds = {"m"}
        BY <3>1 DEF PageOK, KindsOK
      <4>2. Requested = {D} /\ ~Lacks(D, "m")
        BY <2>2, <4>1 DEF Requested, Lacks
      <4>3. "m" \in Kinds
        BY DEF Kinds
      <4> QED
        BY <1>1, <3>1, <4>2, <4>3
    <3>2. CASE "m" \notin req.kinds
      BY <1>1, <3>2 DEF Kinds
    <3> QED
      BY <3>1, <3>2
  <2>9. \A q \in queries' : D \in q.days => q.source = "realtime"
    BY <1>1, <2>7
  <2>10. ASSUME NEW k \in req.kinds, NEW i \in Figures[k]
         PROVE  (OfDate(i) # {})' \/ Pending(i)'
    <3>1. CASE i = "preview"
      <4>1. k = "m" /\ req.kinds = {"m"}
        BY <1>3, <2>10, <3>1, FigureKinds DEF PageOK, KindsOK
      <4>2. Positions(D) # {}
        BY <2>4, <4>1, FigureKinds
      <4>3. [kind |-> "preview", source |-> SourceFor(D), days |-> {D}] \in queries'
        BY <1>1, <4>1, <4>2
      <4>4. \E q \in queries' : q.kind = "preview" /\ D \in q.days
        BY <4>3
      <4> QED
        BY <1>1, <3>1, <4>4 DEF Pending
    <3>2. CASE i = Booking /\ Complete(D)
      <4>1. k = "l"
        BY <1>3, <2>10, <3>2, FigureKinds
      <4>2. PICK s \in Bookings(D) : s.day = D /\ s.from = D /\ s.item = Booking
        BY <2>5, <3>2, <4>1
      <4> QED
        BY <1>1, <2>6, <3>2, <4>2 DEF OfDate
    <3>3. CASE i = Booking /\ ~Complete(D)
      <4>1. k = "l" /\ k \in Kinds
        BY <1>3, <2>10, <3>3, FigureKinds
      <4>2. D \in missing'["l"]
        BY <1>1, <1>3, <2>10, <3>3, <4>1 DEF Lacks
      <4> QED
        BY <1>1, <3>3, <4>2 DEF Pending
    <3>4. CASE i # "preview" /\ i # Booking
      <4>1. PICK s \in Positions(D) : s.day = D /\ s.from = D /\ s.item = i
        BY <2>4, <3>4
      <4> QED
        BY <1>1, <2>6, <4>1 DEF OfDate
    <3> QED
      BY <3>1, <3>2, <3>3, <3>4
  <2> QED
    BY <1>1, <2>8, <2>9, <2>10 DEF FillingUp
<1>5. Owed' => (RowsFound /\ FillingUp /\ AllShown)'
  BY <1>1, <1>2, <1>4 DEF RowsFound, AllShown
<1> QED
  BY <1>2, <1>5 DEF PageOK

\* What is missing is grouped with today's source, which is realtime.
LEMMA PageGroup ==
  ASSUME IInv, PageOK, RequestStep, Group \/ FallBack
  PROVE  PageOK'
<1>1. req' = req /\ pc' = "filling" /\ pc = "filling" /\ shown' = shown
  BY DEF Group, FallBack
<1>2. KindsOK' /\ Owed' = Owed
  BY <1>1, OwedStays DEF PageOK, KindsOK
<1>3. ASSUME Owed PROVE FillingUp'
  <2>1. FillingUp /\ missing["m"] = {}
    BY <1>1, <1>3 DEF PageOK, FillingUp
  <2>2. Group
    BY <2>1 DEF FallBack
  <2>3. PICK k \in req.kinds \ {"m"} :
          /\ missing' = [missing EXCEPT ![k] = {}]
          /\ queries' = {[kind |-> k, source |-> SourceFor(d),
                          days |-> {x \in missing[k] : SourceFor(x) = SourceFor(d)}] :
                           d \in missing[k]}
    BY <2>2 DEF Group
  <2>4. queries = {}
    BY <2>2 DEF Group
  <2>5. missing \in [Kinds -> SUBSET Days] /\ k \in Kinds /\ SourceFor(req.date) = "realtime"
    BY <1>3, <2>3, Numbers, OwedFacts DEF IInv, TypeOK
  <2>6. missing'["m"] = {}
    BY <2>1, <2>3, <2>5
  <2>7. \A q \in queries' : req.date \in q.days => q.source = "realtime"
    BY <2>3, <2>5
  <2>8. ASSUME NEW i, Pending(i) PROVE Pending(i)'
    <3>1. i = Booking /\ req.date \in missing["l"]
      BY <2>4, <2>8 DEF Pending, FillingUp
    <3>2. CASE k = "l"
      <4>1. [kind |-> k, source |-> SourceFor(req.date),
             days |-> {x \in missing[k] : SourceFor(x) = SourceFor(req.date)}] \in queries'
        BY <2>3, <3>1, <3>2
      <4>2. \E q \in queries' : q.kind = "l" /\ req.date \in q.days
        BY <3>1, <3>2, <4>1
      <4> QED
        BY <1>1, <3>1, <4>2 DEF Pending
    <3>3. CASE k # "l"
      <4>1. req.date \in missing'["l"]
        BY <2>3, <2>5, <3>1, <3>3 DEF Kinds
      <4> QED
        BY <1>1, <3>1, <4>1 DEF Pending
    <3> QED
      BY <3>2, <3>3
  <2>9. \A i : OfDate(i)' = OfDate(i)
    BY <1>1 DEF OfDate
  <2> QED
    BY <1>1, <2>1, <2>6, <2>7, <2>8, <2>9 DEF FillingUp
<1>4. Owed' => (RowsFound /\ FillingUp /\ AllShown)'
  BY <1>1, <1>2, <1>3 DEF RowsFound, AllShown
<1> QED
  BY <1>2, <1>4 DEF PageOK

\* An answer replaces today's figures of its kind by all of that kind.
LEMMA PageAnswer ==
  ASSUME IInv, PageOK, RequestStep, LoadFrom \/ ReadPreview
  PROVE  PageOK'
<1> DEFINE D == req.date
<1>1. req' = req /\ pc' = "filling" /\ pc = "filling" /\ missing' = missing
  BY DEF LoadFrom, ReadPreview
<1>2. KindsOK' /\ Owed' = Owed
  BY <1>1, OwedStays DEF PageOK, KindsOK
<1>3. ASSUME Owed PROVE FillingUp'
  <2>1. FillingUp
    BY <1>3 DEF PageOK
  <2>2. D \in Days /\ agg[D] # 0 /\ D \in RepoDays("realtime")
    BY <1>3, OwedFacts
  <2>3. queries' \subseteq queries
    BY DEF LoadFrom, ReadPreview
  <2>4. ASSUME LoadFrom, NEW k \in req.kinds, NEW i \in Figures[k]
        PROVE  (OfDate(i) # {})' \/ Pending(i)'
    <3>1. PICK q \in queries :
            /\ q.kind \in Kinds /\ queries' = queries \ {q}
            /\ shown' = {s \in shown : s.day \notin q.days \cap RepoDays(q.source)
                                       \/ s.item \notin Figures[q.kind]}
                        \cup RepoFigures(q.days \cap RepoDays(q.source), q.kind, q.source)
      BY <2>4 DEF LoadFrom
    <3>2. CASE D \in q.days /\ i \in Figures[q.kind]
      <4>1. q.source = "realtime"
        BY <1>1, <2>1, <3>2 DEF FillingUp
      <4> DEFINE s == [day |-> D, item |-> i, from |-> D, source |-> q.source,
                       id |-> IF q.source = "dwh" THEN 0 ELSE latest]
      <4>2. D \in q.days \cap RepoDays(q.source)
        BY <2>2, <3>2, <4>1
      <4>3. s \in RepoFigures(q.days \cap RepoDays(q.source), q.kind, q.source)
        BY <3>2, <4>2 DEF RepoFigures
      <4>4. s \in shown' /\ s.day = D /\ s.from = D /\ s.item = i
        BY <3>1, <4>3
      <4> QED
        BY <1>1, <4>4 DEF OfDate
    <3>3. CASE ~(D \in q.days /\ i \in Figures[q.kind])
      <4>1. OfDate(i) \subseteq OfDate(i)'
        BY <1>1, <3>1, <3>3 DEF OfDate
      <4>2. ASSUME Pending(i) PROVE Pending(i)'
        <5>1. CASE i = Booking /\ D \in missing["l"]
          BY <1>1, <5>1 DEF Pending
        <5>2. CASE i = Booking /\ \E x \in queries : x.kind = "l" /\ D \in x.days
          <6>1. PICK x \in queries : x.kind = "l" /\ D \in x.days
            BY <5>2
          <6>2. x # q
            BY <3>3, <5>2, <6>1, FigureKinds
          <6>3. x \in queries'
            BY <3>1, <6>1, <6>2
          <6> QED
            BY <1>1, <5>2, <6>1, <6>3 DEF Pending
        <5>3. CASE i = "preview" /\ \E x \in queries : x.kind = "preview" /\ D \in x.days
          <6>1. PICK x \in queries : x.kind = "preview" /\ D \in x.days
            BY <5>3
          <6>2. x # q
            BY <3>1, <6>1 DEF Kinds
          <6>3. x \in queries'
            BY <3>1, <6>1, <6>2
          <6> QED
            BY <1>1, <5>3, <6>1, <6>3 DEF Pending
        <5> QED
          BY <4>2, <5>1, <5>2, <5>3 DEF Pending
      <4> QED
        BY <1>1, <2>1, <2>4, <4>1, <4>2 DEF FillingUp
    <3> QED
      BY <3>2, <3>3
  <2>5. ASSUME ReadPreview, NEW k \in req.kinds, NEW i \in Figures[k]
        PROVE  (OfDate(i) # {})' \/ Pending(i)'
    <3>1. PICK q \in queries :
            /\ q.kind = "preview" /\ queries' = queries \ {q}
            /\ shown' = shown \cup
                 {[day |-> r.day, item |-> r.item, from |-> r.day,
                   source |-> r.source, id |-> r.id] :
                    r \in {x \in MetricRows(q.days, {"preview"}) : x.source = q.source}}
      BY <2>5 DEF ReadPreview
    <3>2. OfDate(i) \subseteq OfDate(i)'
      BY <1>1, <3>1 DEF OfDate
    <3>3. CASE D \in q.days /\ i = "preview"
      <4>1. q.source = "realtime"
        BY <1>1, <2>1, <3>3 DEF FillingUp
      <4> DEFINE r == [day |-> D, item |-> "preview", source |-> "realtime", id |-> agg[D]]
                 s == [day |-> r.day, item |-> r.item, from |-> r.day,
                       source |-> r.source, id |-> r.id]
      <4>2. r \in MetricRows(q.days, {"preview"})
        BY <2>2, <3>3, MetricRowsHas
      <4>3. r \in {x \in MetricRows(q.days, {"preview"}) : x.source = q.source}
        BY <4>1, <4>2
      <4>4. s \in shown'
        BY <3>1, <4>3
      <4>5. s.day = D /\ s.from = D /\ s.item = i
        BY <3>3
      <4> QED
        BY <1>1, <4>4, <4>5 DEF OfDate
    <3>4. CASE ~(D \in q.days /\ i = "preview")
      <4>1. ASSUME Pending(i) PROVE Pending(i)'
        <5>1. CASE i = Booking /\ D \in missing["l"]
          BY <1>1, <5>1 DEF Pending
        <5>2. CASE i = Booking /\ \E x \in queries : x.kind = "l" /\ D \in x.days
          <6>1. PICK x \in queries : x.kind = "l" /\ D \in x.days
            BY <5>2
          <6>2. x \in queries'
            BY <3>1, <6>1
          <6> QED
            BY <1>1, <5>2, <6>1, <6>2 DEF Pending
        <5>3. CASE i = "preview" /\ \E x \in queries : x.kind = "preview" /\ D \in x.days
          <6>1. PICK x \in queries : x.kind = "preview" /\ D \in x.days
            BY <5>3
          <6>2. x \in queries'
            BY <3>1, <3>4, <5>3, <6>1
          <6> QED
            BY <1>1, <5>3, <6>1, <6>2 DEF Pending
        <5> QED
          BY <4>1, <5>1, <5>2, <5>3 DEF Pending
      <4> QED
        BY <1>1, <2>1, <2>5, <3>2, <4>1 DEF FillingUp
    <3> QED
      BY <3>3, <3>4
  <2> QED
    BY <1>1, <2>1, <2>3, <2>4, <2>5 DEF FillingUp
<1>4. Owed' => (RowsFound /\ FillingUp /\ AllShown)'
  BY <1>1, <1>2, <1>3 DEF RowsFound, AllShown
<1> QED
  BY <1>2, <1>4 DEF PageOK

\* Every step of a request keeps what is owed to the page.
LEMMA PageRequest ==
  ASSUME IInv, PageOK, RequestStep
  PROVE  PageOK'
<1>1. CASE \E d \in Days, kinds \in Pages : Open(d, kinds)
  <2>1. PICK d \in Days, kinds \in Pages : Open(d, kinds)
    BY <1>1
  <2>2. req'.kinds = kinds /\ pc' = "routing"
    BY <2>1 DEF Open
  <2> QED
    BY <2>2, PageReadAssumption DEF PageOK, KindsOK, RowsFound, FillingUp, AllShown
<1>2. CASE Route \/ Stamp \/ StampError
  <2>1. req' = req /\ pc' \in {"stamping", "loading"}
    BY <1>2 DEF Route, Stamp, StampError
  <2> QED
    BY <2>1 DEF PageOK, KindsOK, RowsFound, FillingUp, AllShown
<1>3. CASE ReadError
  <2>1. req'.kinds = {} /\ pc' = "idle"
    BY <1>3 DEF ReadError, NoRequest
  <2> QED
    BY <2>1 DEF PageOK, KindsOK, RowsFound, FillingUp, AllShown
<1>4. CASE ReadDates \/ ReadBooking \/ ScanRow
  BY <1>4, PageScan
<1>5. CASE Assemble
  BY <1>5, PageAssemble
<1>6. CASE Group \/ FallBack
  BY <1>6, PageGroup
<1>7. CASE LoadFrom \/ ReadPreview
  BY <1>7, PageAnswer
<1>8. CASE Finish
  <2>1. /\ req' = req /\ pc = "filling" /\ pc' = "done" /\ shown' = shown
        /\ queries = {} /\ missing["l"] = {}
    BY <1>8 DEF Finish, Filled, reading, NoMissing, Kinds
  <2>2. KindsOK' /\ Owed' = Owed
    BY <2>1, OwedStays DEF PageOK, KindsOK
  <2>3. \A i : OfDate(i)' = OfDate(i) /\ ~Pending(i)
    BY <2>1 DEF OfDate, Pending
  <2>4. Owed => AllShown'
    BY <2>1, <2>3 DEF PageOK, FillingUp, AllShown
  <2> QED
    BY <2>1, <2>2, <2>4 DEF PageOK, RowsFound, FillingUp
<1> QED
  BY <1>1, <1>2, <1>3, <1>4, <1>5, <1>6, <1>7, <1>8 DEF RequestStep

\* What was published for today when a page was asked for is on the page, all of it
\* and nothing older, whatever is published, materialized or loaded meanwhile
\* (DashboardService.load, GetDepositMaturities).
THEOREM PublishedGetsShown == Spec => []PublishedIsShown
<1>1. Init => PageOK
  BY PageInit
<1>2. IInv /\ PageOK /\ [Next]_vars => PageOK'
  <2> SUFFICES ASSUME IInv, PageOK, [Next]_vars
               PROVE  PageOK'
    OBVIOUS
  <2>1. CASE UNCHANGED vars
    <3>1. /\ pc' = pc /\ req' = req /\ rows' = rows /\ vals' = vals /\ missing' = missing
          /\ queries' = queries /\ shown' = shown /\ today' = today
          /\ watermark' = watermark
      BY <2>1 DEF vars, world, reading
    <3>2. /\ Keys' = Keys
          /\ \A i : Found(i)' = Found(i)
          /\ \A i : Pending(i)' = Pending(i)
          /\ \A i : OfDate(i)' = OfDate(i)
          /\ Owed' = Owed
      BY <3>1 DEF Keys, Found, Pending, OfDate, Owed, Live
    <3> QED
      BY <3>1, <3>2 DEF PageOK, KindsOK, RowsFound, FillingUp, AllShown
  <2> QED
    BY <2>1, PageWorld, PageRequest DEF Next
<1>3. IInv /\ PageOK => PublishedIsShown
  <2> SUFFICES ASSUME IInv, PageOK, pc = "done", Owed,
                      NEW k \in req.kinds, NEW item \in Figures[k]
               PROVE  /\ OfDate(item) # {}
                      /\ \A s \in OfDate(item) : s.source = "realtime" /\ s.id >= req.floor
    BY DEF PublishedIsShown, Owed
  <2>1. OfDate(item) # {}
    BY DEF PageOK, AllShown
  <2>2. TypeOK /\ WorldOK
    BY DEF IInv
  <2>3. ASSUME NEW s \in OfDate(item) PROVE s.source = "realtime" /\ s.id >= req.floor
    <3>1. s \in shown /\ s.from = req.date
      BY DEF OfDate
    <3>2. ~Settled(s.from)
      BY <2>2, <3>1, Numbers, LiveOrSettled DEF Owed
    <3>3. s.source # "dwh" /\ Fresh(s.from, s.id)
      BY <3>1, <3>2 DEF IInv, SourcesOK, ShownOK
    <3>4. s.source = "realtime"
      BY <2>2, <3>1, <3>3, Numbers
    <3> QED
      BY <2>2, <3>1, <3>3, <3>4, Numbers DEF Fresh
  <2> QED
    BY <2>1, <2>3
<1> QED
  BY <1>1, <1>2, <1>3, Invariant, PTL DEF Spec

-----------------------------------------------------------------------------
(* The maturity preview follows its totals. *)

Totals == OfDate("deposit_due_nominal")

\* The cache's rows never include the preview; those of the DWH are of cached days.
CacheRows ==
  \A r \in rows \cup vals :
    r.item # "preview" /\ (r.source = "dwh" => r.day \in cached)

\* Nothing is shown of maturities that are still to be read from a source.
FallsBack ==
  /\ missing["m"] # {} => req.kinds = {"m"} /\ queries = {} /\ shown = {}
  /\ \A q \in queries : q.kind = "m" => queries = {q} /\ shown = {}

\* The pending query of the preview will find no less than the totals did.
Awaited ==
  \A q \in queries : q.kind = "preview" =>
    /\ queries = {q} /\ q.days = {req.date} /\ OfDate("preview") = {}
    /\ \A t \in Totals :
         IF q.source = "dwh"
         THEN (t.source = "realtime" /\ Settled(req.date)) \/ req.date \in cached
         ELSE t.source = "realtime"

\* Without such a query, what the page has is in order.
Follows ==
  (\A q \in queries : q.kind # "preview") =>
    \A t \in Totals :
      /\ \A p \in OfDate("preview") : Rank(p) >= Rank(t)
      /\ OfDate("preview") = {} => t.source = "realtime" /\ Settled(req.date)

InTurn == FallsBack /\ Awaited /\ Follows

\* A finished page waits for no query.
Answered == pc = "done" => queries = {}

PreviewOK == KindsOK /\ CacheRows /\ InTurn /\ Answered

\* A step that leaves what is shown and asked for leaves them in order.
LEMMA InTurnStays ==
  ASSUME InTurn, UNCHANGED <<req, missing, queries, shown>>,
         cached \subseteq cached', Settled(req.date) => Settled(req.date)'
  PROVE  InTurn'
<1>1. /\ req' = req /\ missing' = missing /\ queries' = queries /\ shown' = shown
  OBVIOUS
<1>2. Totals' = Totals /\ OfDate("preview")' = OfDate("preview")
  BY <1>1 DEF Totals, OfDate
<1>3. FallsBack'
  BY <1>1 DEF InTurn, FallsBack
<1>4. Awaited'
  BY <1>1, <1>2 DEF InTurn, Awaited
<1>5. Follows'
  BY <1>1, <1>2 DEF InTurn, Follows, Rank
<1> QED
  BY <1>3, <1>4, <1>5 DEF InTurn

\* No maturities have been asked for at first.
LEMMA PreviewInit ==
  ASSUME Init
  PROVE  PreviewOK
<1>1. /\ req = NoRequest /\ rows = {} /\ vals = {} /\ missing = NoMissing
      /\ queries = {} /\ shown = {}
  BY DEF Init
<1>2. missing["m"] = {} /\ "m" \notin req.kinds
  BY <1>1 DEF NoMissing, NoRequest, Kinds
<1> QED
  BY <1>1, <1>2 DEF PreviewOK, KindsOK, CacheRows, InTurn, FallsBack, Awaited, Follows,
                    Totals, OfDate, Answered

\* What is cached stays cached, and what is settled stays settled.
LEMMA PreviewWorld ==
  ASSUME IInv, PreviewOK, WorldStep
  PROVE  PreviewOK'
<1>1. TypeOK /\ WorldOK
  BY DEF IInv
<1>2. /\ TypeOK' /\ UNCHANGED <<pc, req, reading>>
      /\ today <= today' /\ watermark <= watermark'
  BY <1>1, WorldMoves
<1>3. today' \in Nat /\ watermark' \in Nat
  BY <1>2, DaysAreNumbers DEF TypeOK
<1>4. Settled(req.date) => Settled(req.date)'
  BY <1>1, <1>2, <1>3, Numbers DEF Settled
<1>5. cached \subseteq cached'
  BY DEF WorldStep, Midnight, Load, SetWatermark, Materialize, Publish
<1>6. InTurn'
  BY <1>2, <1>4, <1>5, InTurnStays DEF PreviewOK, reading
<1>7. KindsOK' /\ CacheRows' /\ Answered'
  BY <1>2, <1>5 DEF PreviewOK, KindsOK, CacheRows, Answered, reading
<1> QED
  BY <1>6, <1>7 DEF PreviewOK

\* The cache is read for markers and figures, the preview apart.
LEMMA PreviewScan ==
  ASSUME IInv, PreviewOK, RequestStep, ReadDates \/ ReadBooking \/ ScanRow
  PROVE  PreviewOK'
<1>1. UNCHANGED <<req, missing, queries, shown>>
  BY DEF ReadDates, ReadBooking, ScanRow
<1>2. /\ TypeOK /\ WorldOK /\ Requested \in SUBSET Days /\ Keys \in SUBSET Items
      /\ UNION {Period(d) : d \in Requested} \in SUBSET Days
      /\ {Marker["l"], Booking} \in SUBSET Items
      /\ req.date \in Days
  BY RequestedDays, KindFacts DEF IInv, Kinds
<1>3. cached' = cached /\ (Settled(req.date) => Settled(req.date)')
  BY <1>1, <1>2, RequestKeepsWorld
<1>4. InTurn'
  BY <1>1, <1>3, InTurnStays DEF PreviewOK
<1>5. KindsOK' /\ Answered'
  BY <1>1 DEF PreviewOK, KindsOK, Answered, ReadDates, ReadBooking, ScanRow
<1>6. "preview" \notin Keys /\ "preview" \notin {Marker["l"], Booking}
  BY DEF Keys, Marker, Booking, TypeOK, Kinds, IInv
<1>7. CASE ReadDates
  <2>1. \A r \in rows' : r.item # "preview" /\ (r.source = "dwh" => r.day \in cached)
    BY <1>2, <1>6, <1>7, MetricRowsFacts DEF ReadDates
  <2> QED
    BY <1>3, <1>4, <1>5, <1>7, <2>1 DEF PreviewOK, CacheRows, ReadDates
<1>8. CASE ReadBooking
  <2>1. \A r \in rows' : r.item # "preview" /\ (r.source = "dwh" => r.day \in cached)
    BY <1>2, <1>6, <1>8, MetricRowsFacts DEF ReadBooking
  <2> QED
    BY <1>3, <1>4, <1>5, <1>8, <2>1 DEF PreviewOK, CacheRows, ReadBooking
<1>9. CASE ScanRow
  <2>1. rows' \cup vals' \subseteq rows \cup vals
    BY <1>9 DEF ScanRow
  <2> QED
    BY <1>3, <1>4, <1>5, <2>1 DEF PreviewOK, CacheRows
<1> QED
  BY <1>7, <1>8, <1>9

\* The totals that the cache answers with are followed by a query of the source
\* that the date has by then.
LEMMA PreviewAssemble ==
  ASSUME IInv, PreviewOK, RequestStep, Assemble
  PROVE  PreviewOK'
<1> DEFINE D == req.date
<1>1. /\ req' = req /\ rows' = {} /\ vals' = {}
      /\ shown' = UNION {Positions(d) \cup Bookings(d) : d \in Requested}
      /\ missing' = [k \in Kinds |-> IF k \in req.kinds
                       THEN {d \in Requested : Lacks(d, k)} ELSE {}]
      /\ queries' = IF req.kinds = {"m"} /\ Positions(D) # {}
                     THEN {[kind |-> "preview", source |-> SourceFor(D), days |-> {D}]}
                     ELSE {}
  BY DEF Assemble, IInv, Stages
<1>2. /\ TypeOK /\ WorldOK /\ D \in Days /\ D \in Requested
      /\ req.kinds \in SUBSET Kinds /\ "m" \in Kinds
  BY RequestedDays, Numbers DEF IInv, Kinds
<1>3. cached' = cached /\ Settled(D)' = Settled(D)
  BY <1>1, <1>2, RequestKeepsWorld
<1>4. KindsOK' /\ CacheRows' /\ Answered'
  BY <1>1 DEF PreviewOK, KindsOK, CacheRows, Answered, Assemble
<1>5. CASE req.kinds = {"m"}
  <2>1. Requested = {D} /\ shown' = Positions(D)
    BY <1>1, <1>5 DEF Requested, Bookings
  <2>2. missing'["m"] # {} => Positions(D) = {}
    BY <1>1, <1>2, <1>5, <2>1 DEF Lacks, Positions
  <2>3. FallsBack'
    <3>1. \A q \in queries' : q.kind = "preview"
      BY <1>1
    <3>2. Positions(D) = {} => queries' = {}
      BY <1>1
    <3> QED
      BY <1>1, <1>5, <2>1, <2>2, <3>1, <3>2 DEF FallsBack
  <2>4. \A s \in Positions(D) : s.item # "preview" /\ s.day = D /\ s.from = D
    <3> SUFFICES ASSUME NEW s \in Positions(D)
                 PROVE  s.item # "preview" /\ s.day = D /\ s.from = D
      OBVIOUS
    <3>1. PICK v \in vals : s = [day |-> D, item |-> v.item, from |-> D,
                                 source |-> v.source, id |-> v.id]
      BY DEF Positions
    <3> QED
      BY <3>1 DEF PreviewOK, CacheRows
  <2>5. OfDate("preview")' = {}
    BY <1>1, <2>1, <2>4 DEF OfDate
  <2>6. ASSUME NEW s \in Positions(D)
        PROVE  IF SourceFor(D) = "dwh"
               THEN (s.source = "realtime" /\ Settled(D)) \/ D \in cached
               ELSE s.source = "realtime"
    <3>1. PICK v \in vals : /\ v.day = D
                            /\ s = [day |-> D, item |-> v.item, from |-> D,
                                    source |-> v.source, id |-> v.id]
      BY DEF Positions
    <3>2. CASE v.source = "dwh"
      <4>1. Settled(D) /\ D \in cached
        BY <3>1, <3>2 DEF PreviewOK, CacheRows, IInv, SourcesOK, ValsOK
      <4>2. SourceFor(D) = "dwh"
        BY <1>2, <4>1, LiveOrSettled DEF Sources
      <4> QED
        BY <4>1, <4>2
    <3>3. CASE v.source = "realtime"
      <4>1. Fresh(D, v.id) /\ v.id \in Nat /\ agg[D] \in Nat
        BY <1>2, <3>1, <3>3, Numbers DEF IInv, SourcesOK, ValsOK
      <4>2. ~(D > today)
        BY <1>2, <4>1 DEF Fresh, WorldOK
      <4>3. SourceFor(D) = "dwh" => Settled(D)
        BY <1>2, <4>2, LiveOrSettled
      <4> QED
        BY <3>1, <3>3, <4>3
    <3> QED
      BY <1>2, <3>1, <3>2, <3>3, Numbers
  <2>7. Awaited'
    <3>1. \A t \in Totals' : t \in Positions(D)
      BY <2>1 DEF Totals, OfDate
    <3>2. ASSUME NEW q \in queries', NEW t \in Totals'
          PROVE  IF q.source = "dwh"
                 THEN (t.source = "realtime" /\ Settled(D)') \/ D \in cached'
                 ELSE t.source = "realtime"
      <4>1. q.source = SourceFor(D)
        BY <1>1
      <4> QED
        BY <1>3, <2>6, <3>1, <3>2, <4>1
    <3>3. \A q \in queries' : queries' = {q} /\ q.days = {D}
      BY <1>1
    <3> QED
      BY <1>1, <2>5, <3>2, <3>3 DEF Awaited
  <2>8. Follows'
    <3>1. CASE Positions(D) = {}
      BY <2>1, <3>1 DEF Follows, Totals, OfDate
    <3>2. CASE Positions(D) # {}
      <4>1. queries' = {[kind |-> "preview", source |-> SourceFor(D), days |-> {D}]}
        BY <1>1, <1>5, <3>2
      <4>2. \E q \in queries' : q.kind = "preview"
        BY <4>1
      <4> QED
        BY <4>2 DEF Follows
    <3> QED
      BY <3>1, <3>2
  <2> QED
    BY <1>4, <2>3, <2>7, <2>8 DEF PreviewOK, InTurn
<1>6. CASE "m" \notin req.kinds
  <2>1. missing'["m"] = {} /\ queries' = {}
    BY <1>1, <1>2, <1>6
  <2>2. Totals' = {}
    <3>1. ASSUME NEW d \in Requested, NEW s \in Positions(d) \cup Bookings(d)
          PROVE  s.item # "deposit_due_nominal"
      <4>1. CASE s \in Bookings(d)
        BY <4>1 DEF Bookings, Booking
      <4>2. CASE s \in Positions(d)
        <5>1. PICK v \in vals : s.item = v.item /\ \E k \in req.kinds : v.item \in Figures[k]
          BY <4>2 DEF Positions
        <5> QED
          BY <1>2, <1>6, <5>1 DEF Figures, Booking, Kinds
      <4> QED
        BY <3>1, <4>1, <4>2
    <3> QED
      BY <1>1, <3>1 DEF Totals, OfDate
  <2> QED
    BY <1>4, <2>1, <2>2 DEF PreviewOK, InTurn, FallsBack, Awaited, Follows
<1> QED
  BY <1>5, <1>6 DEF PreviewOK, KindsOK

\* Maturities are looked up in a source only when the cache had no totals.
LEMMA PreviewGroup ==
  ASSUME IInv, PreviewOK, RequestStep, Group \/ FallBack
  PROVE  PreviewOK'
<1>1. /\ req' = req /\ rows' = rows /\ vals' = vals /\ shown' = shown /\ queries = {}
  <2>1. CASE Group
    BY <2>1 DEF Group
  <2>2. CASE FallBack
    BY <2>2 DEF FallBack, PreviewOK, InTurn, FallsBack
  <2> QED
    BY <2>1, <2>2
<1>2. TypeOK /\ WorldOK /\ req.date \in Days /\ req.kinds \in SUBSET Kinds
  BY Numbers DEF IInv
<1>3. cached' = cached /\ Settled(req.date)' = Settled(req.date)
  BY <1>1, <1>2, RequestKeepsWorld
<1>4. KindsOK' /\ CacheRows' /\ Answered'
  BY <1>1, <1>3 DEF PreviewOK, KindsOK, CacheRows, Answered, Group, FallBack
<1>5. Totals' = Totals /\ OfDate("preview")' = OfDate("preview")
  BY <1>1 DEF Totals, OfDate
<1>6. Follows'
  BY <1>1, <1>3, <1>5 DEF PreviewOK, InTurn, Follows, Rank
<1>7. CASE Group
  <2>1. PICK k \in req.kinds \ {"m"} :
          /\ missing' = [missing EXCEPT ![k] = {}]
          /\ queries' = {[kind |-> k, source |-> SourceFor(d),
                          days |-> {x \in missing[k] : SourceFor(x) = SourceFor(d)}] :
                           d \in missing[k]}
    BY <1>7 DEF Group
  <2>2. missing["m"] = {}
    BY <2>1 DEF PreviewOK, InTurn, FallsBack
  <2>3. missing'["m"] = {}
    BY <1>2, <2>1, <2>2 DEF TypeOK, Kinds
  <2>4. \A q \in queries' : q.kind # "m" /\ q.kind # "preview"
    BY <1>2, <2>1 DEF Kinds
  <2> QED
    BY <1>4, <1>6, <2>3, <2>4 DEF PreviewOK, InTurn, FallsBack, Awaited
<1>8. CASE FallBack
  <2>1. shown = {} /\ missing' = NoMissing /\ \E q : q.kind = "m" /\ queries' = {q}
    <3>1. queries' = {[kind |-> "m", source |-> SourceFor(req.date), days |-> {req.date}]}
      BY <1>8 DEF FallBack
    <3> QED
      BY <1>8, <3>1 DEF FallBack, PreviewOK, InTurn, FallsBack
  <2>2. missing'["m"] = {}
    BY <2>1 DEF NoMissing, Kinds
  <2>3. FallsBack' /\ Awaited'
    BY <1>1, <2>1, <2>2 DEF FallsBack, Awaited
  <2> QED
    BY <1>4, <1>6, <2>3 DEF PreviewOK, InTurn
<1> QED
  BY <1>7, <1>8

\* A source answers with totals and preview of one generation, or with neither.
LEMMA PreviewLoaded ==
  ASSUME IInv, PreviewOK, RequestStep, LoadFrom
  PROVE  PreviewOK'
<1> DEFINE D == req.date
<1>1. PICK q \in queries :
        /\ q.kind \in Kinds /\ queries' = queries \ {q}
        /\ shown' = {s \in shown : s.day \notin q.days \cap RepoDays(q.source)
                                   \/ s.item \notin Figures[q.kind]}
                    \cup RepoFigures(q.days \cap RepoDays(q.source), q.kind, q.source)
  BY DEF LoadFrom
<1>2. /\ req' = req /\ rows' = rows /\ vals' = vals /\ missing' = missing
  BY DEF LoadFrom
<1>3. TypeOK /\ WorldOK /\ D \in Days
  BY Numbers DEF IInv
<1>4. cached' = cached /\ Settled(D)' = Settled(D)
  BY <1>2, <1>3, RequestKeepsWorld
<1>5. KindsOK' /\ CacheRows' /\ Answered'
  BY <1>2, <1>4 DEF PreviewOK, KindsOK, CacheRows, Answered, LoadFrom
<1>6. missing'["m"] = {} /\ \A x \in queries : x.kind # "preview"
  <2>1. "preview" \notin Kinds
    BY DEF Kinds
  <2> QED
    BY <1>1, <1>2, <2>1 DEF PreviewOK, InTurn, FallsBack, Awaited
<1> DEFINE found == q.days \cap RepoDays(q.source)
<1>7. CASE q.kind = "m"
  <2>1. queries' = {} /\ shown' = RepoFigures(found, "m", q.source)
    BY <1>1, <1>7 DEF PreviewOK, InTurn, FallsBack
  <2>2. Follows'
    <3> SUFFICES ASSUME NEW t \in Totals'
                 PROVE  /\ \A p \in OfDate("preview")' : (Rank(p) >= Rank(t))'
                        /\ OfDate("preview")' # {}
      BY DEF Follows
    <3> DEFINE id == IF q.source = "dwh" THEN 0 ELSE latest
               p0 == [day |-> D, item |-> "preview", from |-> D, source |-> q.source,
                      id |-> id]
    <3>1. \A s \in shown' : s.source = q.source /\ s.id = id /\ s.day \in found
      BY <2>1 DEF RepoFigures
    <3>2. t \in shown' /\ t.day = D
      BY <1>2 DEF Totals, OfDate
    <3>3. p0 \in shown'
      BY <2>1, <3>1, <3>2 DEF RepoFigures, Figures
    <3>4. p0 \in OfDate("preview")'
      BY <1>2, <3>3 DEF OfDate
    <3>5. ASSUME NEW p \in OfDate("preview")' PROVE (Rank(p) >= Rank(t))'
      <4>1. p \in shown'
        BY DEF OfDate
      <4>2. p.source = t.source /\ p.id = t.id /\ t.id \in Nat /\ MaxId \in Nat
        BY <1>3, <3>1, <3>2, <4>1, Numbers
      <4> QED
        BY <4>2 DEF Rank
    <3> QED
      BY <3>4, <3>5
  <2> QED
    BY <1>5, <1>6, <2>1, <2>2 DEF PreviewOK, InTurn, FallsBack, Awaited
<1>8. CASE q.kind # "m"
  <2>1. "preview" \notin Figures[q.kind] /\ "deposit_due_nominal" \notin Figures[q.kind]
    BY <1>1, <1>8 DEF Kinds, Figures, Booking
  <2>2. \A s \in RepoFigures(found, q.kind, q.source) : s.item \in Figures[q.kind]
    BY DEF RepoFigures
  <2>3. Totals' = Totals /\ OfDate("preview")' = OfDate("preview")
    BY <1>1, <1>2, <2>1, <2>2 DEF Totals, OfDate
  <2>4. \A x \in queries : x.kind # "m"
    BY <1>1, <1>8 DEF PreviewOK, InTurn, FallsBack
  <2>5. queries' \subseteq queries
    BY <1>1
  <2>6. FallsBack' /\ Awaited'
    BY <1>6, <2>4, <2>5 DEF FallsBack, Awaited
  <2>7. Follows'
    BY <1>2, <1>4, <1>6, <2>3 DEF PreviewOK, InTurn, Follows, Rank
  <2> QED
    BY <1>5, <2>6, <2>7 DEF PreviewOK, InTurn
<1> QED
  BY <1>7, <1>8

\* The preview is read after its totals, from no worse a source.
LEMMA PreviewReads ==
  ASSUME IInv, PreviewOK, RequestStep, ReadPreview
  PROVE  PreviewOK'
<1> DEFINE D == req.date
           read(q) == {x \in MetricRows(q.days, {"preview"}) : x.source = q.source}
           figure(r) == [day |-> r.day, item |-> r.item, from |-> r.day,
                         source |-> r.source, id |-> r.id]
<1>1. PICK q \in queries :
        /\ q.kind = "preview" /\ queries' = queries \ {q}
        /\ shown' = shown \cup {figure(r) : r \in read(q)}
  BY DEF ReadPreview
<1>2. /\ req' = req /\ rows' = rows /\ vals' = vals /\ missing' = missing
  BY DEF ReadPreview
<1>3. /\ TypeOK /\ WorldOK /\ D \in Days /\ MaxId \in Nat /\ agg[D] \in 0..MaxId
      /\ {D} \in SUBSET Days /\ {"preview"} \in SUBSET Items
  BY Numbers, KindFacts DEF IInv
<1>4. cached' = cached /\ Settled(D)' = Settled(D)
  BY <1>2, <1>3, RequestKeepsWorld
<1>5. /\ queries = {q} /\ q.days = {D} /\ OfDate("preview") = {}
      /\ \A t \in Totals :
           IF q.source = "dwh"
           THEN (t.source = "realtime" /\ Settled(D)) \/ D \in cached
           ELSE t.source = "realtime"
  BY <1>1 DEF PreviewOK, InTurn, Awaited
<1>6. \A r \in read(q) :
        /\ r.item = "preview" /\ r.day = D /\ r.source = q.source
        /\ r.source = "realtime" => r.id = agg[D]
  BY <1>3, <1>5, MetricRowsFacts
<1>7. Totals' = Totals
  BY <1>1, <1>2, <1>6 DEF Totals, OfDate
<1>8. missing'["m"] = {} /\ queries' = {}
  BY <1>1, <1>2, <1>5 DEF PreviewOK, InTurn, FallsBack
<1>9. ASSUME NEW p \in OfDate("preview")'
      PROVE  \E r \in read(q) : p.source = r.source /\ p.id = r.id
  <2>1. p \in shown' /\ p.day = D /\ p.from = D /\ p.item = "preview"
    BY <1>2 DEF OfDate
  <2>2. p \notin shown
    BY <1>5, <2>1 DEF OfDate
  <2> QED
    BY <1>1, <2>1, <2>2
<1>10. ASSUME NEW r \in read(q) PROVE OfDate("preview")' # {}
  <2>1. figure(r) \in shown' /\ figure(r).day = D /\ figure(r).from = D
        /\ figure(r).item = "preview"
    BY <1>1, <1>6
  <2> QED
    BY <1>2, <2>1 DEF OfDate
<1>11. ASSUME NEW t \in Totals
       PROVE  /\ \A p \in OfDate("preview")' : (Rank(p) >= Rank(t))'
              /\ OfDate("preview")' = {} => t.source = "realtime" /\ Settled(D)
  <2>1. /\ t \in shown /\ t.from = D /\ t.id \in 0..MaxId
        /\ t.source \in {"dwh", "realtime"}
    BY <1>3 DEF Totals, OfDate, TypeOK, Figure, Sources
  <2>2. t.source = "realtime" => 1 <= t.id /\ t.id <= agg[D]
    BY <1>3, <2>1 DEF IInv, SourcesOK, ShownOK, Fresh
  <2>3. CASE q.source = "dwh"
    <3>1. \A p \in OfDate("preview")' : p.source = "dwh"
      BY <1>6, <1>9, <2>3
    <3>2. ASSUME D \in cached PROVE OfDate("preview")' # {}
      <4>1. [day |-> D, item |-> "preview", source |-> "dwh", id |-> 0] \in read(q)
        BY <1>5, <2>3, <3>2 DEF MetricRows
      <4> QED
        BY <1>10, <4>1
    <3> QED
      BY <1>3, <1>5, <2>1, <2>3, <3>1, <3>2 DEF Rank
  <2>4. CASE q.source = "realtime"
    <3>1. t.source = "realtime" /\ agg[D] # 0
      BY <1>3, <1>5, <2>1, <2>2, <2>4
    <3>2. \A p \in OfDate("preview")' : p.source = "realtime" /\ p.id = agg[D]
      BY <1>6, <1>9, <2>4
    <3>3. [day |-> D, item |-> "preview", source |-> "realtime", id |-> agg[D]] \in read(q)
      BY <1>5, <2>4, <3>1, MetricRowsHas
    <3>4. OfDate("preview")' # {}
      BY <1>10, <3>3
    <3> QED
      BY <1>3, <2>1, <2>2, <3>1, <3>2, <3>4 DEF Rank
  <2>5. q.source \in {"dwh", "realtime"}
    BY <1>3, Numbers
  <2> QED
    BY <2>3, <2>4, <2>5
<1>12. Follows'
  BY <1>4, <1>7, <1>11 DEF Follows
<1>13. FallsBack' /\ Awaited'
  BY <1>8 DEF FallsBack, Awaited
<1> QED
  BY <1>2, <1>4, <1>8, <1>12, <1>13 DEF PreviewOK, KindsOK, CacheRows, InTurn, Answered

\* Every step of a request keeps the preview in turn.
LEMMA PreviewRequest ==
  ASSUME IInv, PreviewOK, RequestStep
  PROVE  PreviewOK'
<1>1. CASE (\E d \in Days, kinds \in Pages : Open(d, kinds)) \/ ReadError
  <2>1. /\ rows' = {} /\ vals' = {} /\ missing' = NoMissing /\ queries' = {}
        /\ shown' = {} /\ \E kinds \in Pages \cup {{}} : req'.kinds = kinds
    BY <1>1 DEF Open, ReadError, NoRequest
  <2>2. missing'["m"] = {} /\ KindsOK'
    BY <2>1, PageReadAssumption DEF NoMissing, Kinds, KindsOK
  <2> QED
    BY <2>1, <2>2 DEF PreviewOK, CacheRows, InTurn, FallsBack, Awaited, Follows,
                      Totals, OfDate, Answered
<1>2. CASE Route \/ Stamp \/ StampError \/ Finish
  <2>1. UNCHANGED <<req, rows, vals, missing, queries, shown>>
    BY <1>2 DEF Route, Stamp, StampError, Finish, reading
  <2>2. req.date \in Days
    BY Numbers DEF IInv
  <2>3. cached' = cached /\ (Settled(req.date) => Settled(req.date)')
    BY <2>1, <2>2, RequestKeepsWorld
  <2>4. InTurn'
    BY <2>1, <2>3, InTurnStays DEF PreviewOK
  <2>5. Answered'
    BY <1>2 DEF PreviewOK, Answered, Route, Stamp, StampError, Finish, Filled, reading
  <2> QED
    BY <2>1, <2>3, <2>4, <2>5 DEF PreviewOK, KindsOK, CacheRows
<1> QED
  BY <1>1, <1>2, PreviewScan, PreviewAssemble, PreviewGroup, PreviewLoaded, PreviewReads
     DEF RequestStep

\* Under the totals of maturities a page shows the preview of the same generation
\* or of a newer one, or of the DWH; none only when the date went over to the DWH
\* between the two queries (cachedMaturities, GetDepositMaturities).
THEOREM PreviewIsNotOlder == Spec => []PreviewFollows
<1>1. Init => PreviewOK
  BY PreviewInit
<1>2. IInv /\ PreviewOK /\ [Next]_vars => PreviewOK'
  <2> SUFFICES ASSUME IInv, PreviewOK, [Next]_vars
               PROVE  PreviewOK'
    OBVIOUS
  <2>1. CASE UNCHANGED vars
    <3>1. /\ UNCHANGED <<pc, req, rows, vals, missing, queries, shown>>
          /\ cached' = cached
      BY <2>1 DEF vars, world, reading
    <3>2. Settled(req.date) => Settled(req.date)'
      BY <2>1 DEF vars, world, Settled
    <3>3. InTurn'
      BY <3>1, <3>2, InTurnStays DEF PreviewOK
    <3> QED
      BY <3>1, <3>3 DEF PreviewOK, KindsOK, CacheRows, Answered
  <2> QED
    BY <2>1, PreviewWorld, PreviewRequest DEF Next
<1>3. IInv /\ PreviewOK => PreviewFollows
  <2> SUFFICES ASSUME IInv, PreviewOK, pc = "done", NEW t \in Totals
               PROVE  /\ \A p \in OfDate("preview") : Rank(p) >= Rank(t)
                      /\ OfDate("preview") = {} => t.source = "realtime" /\ ~Live(req.date)
    BY DEF PreviewFollows, Totals
  <2>1. queries = {}
    BY DEF PreviewOK, Answered
  <2>2. Settled(req.date) => ~Live(req.date)
    BY Numbers, LiveOrSettled DEF IInv
  <2> QED
    BY <2>1, <2>2 DEF PreviewOK, InTurn, Follows
<1> QED
  BY <1>1, <1>2, <1>3, Invariant, PTL DEF Spec

=============================================================================
