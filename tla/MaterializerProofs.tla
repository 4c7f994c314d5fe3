------------------------- MODULE MaterializerProofs -------------------------
(***************************************************************************)
(* Proofs about the reporting cache for every calendar, every number of    *)
(* schedulers and commands and every number of failures.                   *)
(***************************************************************************)
EXTENDS Materializer, FiniteSetTheorems, WellFoundedInduction, TLAPS

(* Least and greatest elements. *)

\* A set of numbers has a least one.
LEMMA Least ==
  ASSUME NEW S \in SUBSET Nat, S # {}
  PROVE  \E m \in S : \A n \in S : m <= n
<1>1. PICK m \in S : \A n \in S : ~(<<n, m>> \in OpToRel(<, Nat))
  BY NatLessThanWellFounded, WFMin
<1>2. \A n \in S : ~(n < m)
  BY <1>1 DEF OpToRel
<1> QED
  BY <1>2

\* A bounded set of numbers has a greatest one.
LEMMA Greatest ==
  ASSUME NEW B \in Nat, NEW S \in SUBSET (0..B), S # {}
  PROVE  \E m \in S : \A n \in S : n <= m
<1> DEFINE T == {n \in Nat : B - n \in S}
<1>1. \A k \in S : B - k \in Nat /\ B - (B - k) = k
  OBVIOUS
<1>2. T # {}
  BY <1>1
<1>3. PICK m \in T : \A n \in T : m <= n
  BY <1>2, Least
<1>4. ASSUME NEW k \in S PROVE k <= B - m
  <2>1. m <= B - k
    BY <1>1, <1>3
  <2> QED
    BY <2>1
<1> QED
  BY <1>4

-----------------------------------------------------------------------------
(* The helpers of the model. *)

\* The completed watermark is the greatest end of a complete range.
LEMMA LatestIsGreatest ==
  ASSUME complete \subseteq Ranges
  PROVE  /\ LatestDWH \in 0..MaxDay
         /\ complete = {} => LatestDWH = 0
         /\ complete # {} => /\ LatestDWH \in Days
                             /\ \E r \in complete : r[2] = LatestDWH
<1> USE MaterializerAssumption DEF Days
<1>1. CASE complete = {}
  BY <1>1 DEF LatestDWH
<1>2. CASE complete # {}
  <2> DEFINE Ends == {r[2] : r \in complete}
  <2>1. Ends \in SUBSET (0..MaxDay) /\ Ends # {}
    BY <1>2 DEF Ranges
  <2>2. PICK d \in Ends : \A e \in Ends : e <= d
    BY <2>1, Greatest
  <2>3. \E x \in Days : (\E r \in complete : r[2] = x) /\ (\A r \in complete : r[2] <= x)
    BY <2>2 DEF Ranges
  <2>4. /\ LatestDWH \in Days
        /\ \E r \in complete : r[2] = LatestDWH
    BY <1>2, <2>3 DEF LatestDWH
  <2> QED
    BY <1>2, <2>4
<1> QED
  BY <1>1, <1>2

\* The current range is one of the actor's ranges, and no other starts before.
LEMMA CurrentIsFirst ==
  ASSUME NEW a \in Actors, work[a].ranges \subseteq Ranges, work[a].ranges # {}
  PROVE  /\ Current(a) \in work[a].ranges
         /\ \A q \in work[a].ranges : Current(a)[1] <= q[1]
<1> USE MaterializerAssumption DEF Days
<1> DEFINE Starts == {r[1] : r \in work[a].ranges}
<1>1. Starts \in SUBSET Nat /\ Starts # {}
  BY DEF Ranges
<1>2. PICK d \in Starts : \A e \in Starts : d <= e
  BY <1>1, Least
<1>3. \E r \in work[a].ranges : \A q \in work[a].ranges : r[1] <= q[1]
  BY <1>2
<1> QED
  BY <1>3 DEF Current

\* The end of a chunk is in the range asked for, not before its start.
LEMMA ChunkEndInRange ==
  ASSUME NEW w \in Work, 1 <= w.start, w.start <= w.to
  PROVE  ChunkEnd(w) \in Days /\ w.start <= ChunkEnd(w) /\ ChunkEnd(w) <= w.to
<1>1. w.start \in Days /\ w.to \in Days
  BY MaterializerAssumption DEF Work, Days
<1>2. MonthEnd[w.start] \in Int /\ w.start <= MonthEnd[w.start]
  BY <1>1, MaterializerAssumption
<1> QED
  BY <1>1, <1>2, MaterializerAssumption DEF ChunkEnd, Days

\* missingRanges misses no day.
LEMMA MissingCovered ==
  ASSUME NEW from \in Days, NEW to \in Days, NEW d \in from..to, d \notin cached
  PROVE  \E r \in MissingRanges(from, to) : d \in r[1]..r[2]
<1> USE MaterializerAssumption DEF Days
<1> DEFINE Below == {x \in from..d : x..d \cap cached = {}}
           Above == {y \in d..to : d..y \cap cached = {}}
<1>1. d \in Below /\ d \in Above
  BY DEF Below, Above
<1>2. PICK lo \in Below : \A x \in Below : lo <= x
  <2>1. Below \in SUBSET Nat
    OBVIOUS
  <2> QED
    BY <1>1, <2>1, Least
<1>3. PICK hi \in Above : \A y \in Above : y <= hi
  <2>1. Above \in SUBSET (0..MaxDay)
    OBVIOUS
  <2> QED
    BY <1>1, <2>1, Greatest
<1>4. lo \in from..d /\ hi \in d..to
  BY <1>2, <1>3
<1>5. lo..hi \cap cached = {}
  <2>1. lo..d \cap cached = {} /\ d..hi \cap cached = {}
    BY <1>2, <1>3
  <2>2. lo..hi = (lo..d) \cup (d..hi)
    BY <1>4
  <2> QED
    BY <2>1, <2>2
<1>6. lo = from \/ lo - 1 \in cached
  <2> SUFFICES ASSUME lo # from, lo - 1 \notin cached PROVE FALSE
    OBVIOUS
  <2>1. lo - 1 \in from..d /\ (lo - 1)..d = {lo - 1} \cup (lo..d)
    BY <1>4
  <2>2. (lo - 1)..d \cap cached = {}
    BY <1>2, <2>1
  <2>3. lo - 1 \in Below
    BY <2>1, <2>2
  <2> QED
    BY <1>2, <1>4, <2>3
<1>7. hi = to \/ hi + 1 \in cached
  <2> SUFFICES ASSUME hi # to, hi + 1 \notin cached PROVE FALSE
    OBVIOUS
  <2>1. hi + 1 \in d..to /\ d..(hi + 1) = {hi + 1} \cup (d..hi)
    BY <1>4
  <2>2. d..(hi + 1) \cap cached = {}
    BY <1>3, <2>1
  <2>3. hi + 1 \in Above
    BY <2>1, <2>2
  <2> QED
    BY <1>3, <1>4, <2>3
<1>8. <<lo, hi>> \in Ranges
  BY <1>4 DEF Ranges
<1>9. <<lo, hi>> \in MissingRanges(from, to)
  BY <1>4, <1>5, <1>6, <1>7, <1>8 DEF MissingRanges
<1> QED
  BY <1>4, <1>9

-----------------------------------------------------------------------------
(* Type correctness, and where the chunks lie. *)

Placed == TypeOK /\ InRange

\* At first nobody works.
LEMMA InitPlaced == Init => Placed
BY MaterializerAssumption
   DEF Init, Placed, TypeOK, InRange, NoWork, Work, Days

\* A step of actor a moves only a.
LEMMA OnlyOne ==
  ASSUME NEW a \in Actors, pc \in [Actors -> {"idle", "latest", "month", "chunk", "recording"}],
         work \in [Actors -> Work], NEW step, NEW w,
         pc' = [pc EXCEPT ![a] = step], work' = [work EXCEPT ![a] = w]
  PROVE  /\ pc'[a] = step /\ work'[a] = w
         /\ \A b \in Actors : b # a => pc'[b] = pc[b] /\ work'[b] = work[b]
OBVIOUS

\* Every step keeps the types and the chunks in their ranges.
LEMMA StepPlaced ==
  ASSUME Placed, [Next]_vars
  PROVE  Placed'
<1> USE MaterializerAssumption DEF Placed
<1>t. /\ TypeOK /\ InRange /\ NoWork \in Work
      /\ \A a \in Actors : work[a] \in Work
  BY DEF TypeOK, NoWork, Work, Days
<1>u. /\ watermark \in Nat /\ watermark <= MaxDay /\ MaxDay \in Nat
      /\ \A a \in Actors : /\ work[a].start \in Int /\ work[a].to \in Int
                           /\ work[a].ranges \subseteq Ranges
  BY <1>t DEF TypeOK, Work
<1> DEFINE Frame == UNCHANGED <<watermark, cached, complete, shown, failures>>
           Bounds(w, step) ==
             /\ w.to <= watermark
             /\ step = "month" => w.start >= 1
             /\ step \in {"chunk", "recording"} =>
                  /\ 1 <= w.start /\ w.start <= w.to
                  /\ \A r \in w.ranges : r[2] <= ChunkEnd(w)
             /\ step = "recording" => w.ranges # {}
\* A step that gives a new local state, within its bounds, to one actor.
<1>m. ASSUME NEW a \in Actors, NEW w \in Work,
             NEW step \in {"idle", "latest", "month", "chunk", "recording"},
             pc' = [pc EXCEPT ![a] = step], work' = [work EXCEPT ![a] = w],
             watermark' = watermark, Bounds(w, step)
      PROVE  InRange' /\ pc' \in [Actors -> {"idle", "latest", "month", "chunk", "recording"}]
                      /\ work' \in [Actors -> Work]
  <2>1. /\ pc'[a] = step /\ work'[a] = w
        /\ \A b \in Actors : b # a => pc'[b] = pc[b] /\ work'[b] = work[b]
    BY <1>m, <1>t DEF TypeOK
  <2>2. \A b \in Actors : Bounds(work[b], pc[b])
    BY <1>t DEF InRange
  <2>3. \A b \in Actors : Bounds(work'[b], pc'[b])
    BY <1>m, <2>1, <2>2
  <2>4. InRange'
    BY <1>m, <2>3 DEF InRange
  <2> QED
    BY <1>m, <1>t, <2>4 DEF TypeOK
<1>e. \A w \in Work : w.to <= watermark => Bounds(w, "idle") /\ Bounds(w, "latest")
  OBVIOUS
<1>n. Bounds(NoWork, "idle") /\ NoWork.to <= watermark
  BY <1>u DEF NoWork
\* Current is one of the ranges, all of days.
<1>c. ASSUME NEW a \in Actors, work[a].ranges # {}
      PROVE  Current(a) \in Ranges /\ Current(a)[1]..Current(a)[2] \subseteq Days
  BY <1>c, <1>u, CurrentIsFirst DEF Ranges, Days
<1>1. CASE UNCHANGED vars
  BY <1>1, <1>t DEF vars, TypeOK, InRange
<1>2. CASE Load
  <2>1. TypeOK'
    BY <1>2, <1>t, <1>u DEF Load, TypeOK
  <2>2. \A a \in Actors : work[a].to <= watermark'
    BY <1>2, <1>t, <1>u DEF Load, InRange
  <2> QED
    BY <1>2, <1>t, <2>1, <2>2 DEF Load, InRange
<1>3. ASSUME NEW s \in Schedulers, ReadWatermark(s) PROVE Placed'
  <2> DEFINE w == [work[s] EXCEPT !.to = watermark]
  <2>1. s \in Actors /\ w \in Work /\ Bounds(w, "latest")
    BY <1>t, <1>u DEF Actors, Work
  <2>2. pc' = [pc EXCEPT ![s] = "latest"] /\ work' = [work EXCEPT ![s] = w]
    BY <1>3 DEF ReadWatermark, Goto
  <2> QED
    BY <1>3, <1>t, <1>u, <1>m, <2>1, <2>2 DEF ReadWatermark, TypeOK
<1>4. ASSUME NEW s \in Schedulers, ReadLatest(s) PROVE Placed'
  <2> DEFINE from == IF LatestDWH = 0 THEN Backfill ELSE LatestDWH + 1
             w == [work[s] EXCEPT !.start = from]
  <2>0. s \in Actors
    BY DEF Actors
  <2>1. from \in 0..(MaxDay + 1)
    BY <1>t, LatestIsGreatest DEF TypeOK, Days
  <2>2. CASE from = 0 \/ from > work[s].to
    <3>1. pc' = [pc EXCEPT ![s] = "idle"] /\ work' = [work EXCEPT ![s] = NoWork]
      BY <1>4, <2>2 DEF ReadLatest, Return, Goto
    <3> QED
      BY <1>4, <1>t, <1>m, <1>n, <2>0, <3>1 DEF ReadLatest, TypeOK
  <2>3. CASE ~(from = 0 \/ from > work[s].to)
    <3>1. pc' = [pc EXCEPT ![s] = "month"] /\ work' = [work EXCEPT ![s] = w]
      BY <1>4, <2>3 DEF ReadLatest, Goto
    <3>2. w \in Work /\ w.start = from /\ w.to = work[s].to
      BY <1>t, <2>0, <2>1 DEF Work
    <3>3. Bounds(w, "month")
      BY <1>t, <2>0, <2>1, <2>3, <3>2 DEF InRange
    <3> QED
      BY <1>4, <1>t, <1>m, <2>0, <3>1, <3>2, <3>3 DEF ReadLatest, TypeOK
  <2> QED
    BY <2>2, <2>3
<1>5. ASSUME NEW c \in Commands, Command(c) PROVE Placed'
  <2>1. PICK from \in CommandFroms, to \in Days, force \in BOOLEAN :
          /\ from <= to /\ to <= watermark
          /\ work' = [work EXCEPT ![c] = [NoWork EXCEPT !.start = from, !.to = to,
                                                        !.force = force]]
    BY <1>5 DEF Command
  <2> DEFINE w == [NoWork EXCEPT !.start = from, !.to = to, !.force = force]
  <2>2. from \in Days /\ c \in Actors
    BY DEF Actors
  <2>3. w \in Work /\ w.start = from /\ w.to = to
    <3>1. from \in 0..(MaxDay + 1) /\ to \in 0..MaxDay
      BY <1>u, <2>2 DEF Days
    <3>2. NoWork \in [start : 0..(MaxDay + 1), to : 0..MaxDay, force : BOOLEAN,
                      ranges : SUBSET Ranges, ok : BOOLEAN]
      BY <1>t DEF Work
    <3> QED
      BY <3>1, <3>2 DEF Work
  <2>4. Bounds(w, "month")
    BY <2>1, <2>2, <2>3 DEF Days
  <2>5. pc' = [pc EXCEPT ![c] = "month"] /\ work' = [work EXCEPT ![c] = w]
    BY <1>5, <2>1 DEF Command, Goto
  <2> QED
    BY <1>5, <1>t, <1>m, <2>2, <2>3, <2>4, <2>5 DEF Command, TypeOK
<1>6. ASSUME NEW a \in Actors, Month(a) PROVE Placed'
  <2>1. CASE work[a].start > work[a].to
    <3>1. pc' = [pc EXCEPT ![a] = "idle"] /\ work' = [work EXCEPT ![a] = NoWork]
      BY <1>6, <2>1 DEF Month, Return, Goto
    <3> QED
      BY <1>6, <1>t, <1>m, <1>n, <3>1 DEF Month, TypeOK
  <2>2. CASE ~(work[a].start > work[a].to)
    <3> DEFINE rs == IF work[a].force THEN {<<work[a].start, ChunkEnd(work[a])>>}
                     ELSE MissingRanges(work[a].start, ChunkEnd(work[a]))
               w == [work[a] EXCEPT !.ranges = rs]
    <3>1. pc' = [pc EXCEPT ![a] = "chunk"] /\ work' = [work EXCEPT ![a] = w]
      BY <1>6, <2>2 DEF Month, Goto
    <3>2. 1 <= work[a].start /\ work[a].start <= work[a].to
      BY <1>6, <1>t, <1>u, <2>2 DEF Month, InRange
    <3>3. /\ ChunkEnd(work[a]) \in Days /\ work[a].start <= ChunkEnd(work[a])
          /\ work[a].start \in Days
      BY <1>t, <1>u, <3>2, ChunkEndInRange DEF Days
    <3>4. rs \subseteq Ranges /\ \A r \in rs : r[2] <= ChunkEnd(work[a])
      <4>1. CASE work[a].force
        BY <3>3, <4>1 DEF Ranges, Days
      <4>2. CASE ~work[a].force
        BY <4>2 DEF MissingRanges
      <4> QED
        BY <4>1, <4>2
    <3>5. /\ w \in Work /\ w.start = work[a].start /\ w.to = work[a].to
          /\ w.ranges = rs /\ ChunkEnd(w) = ChunkEnd(work[a])
      BY <1>t, <3>4 DEF Work, ChunkEnd
    <3>6. Bounds(w, "chunk")
      BY <1>t, <3>2, <3>4, <3>5 DEF InRange
    <3> HIDE DEF rs, w
    <3> QED
      BY <1>6, <1>t, <1>m, <3>1, <3>5, <3>6 DEF Month, TypeOK
  <2> QED
    BY <2>1, <2>2
<1>7. ASSUME NEW a \in Actors, MonthDone(a) PROVE Placed'
  <2> DEFINE w == [work[a] EXCEPT !.start = ChunkEnd(work[a]) + 1]
  <2>1. pc' = [pc EXCEPT ![a] = "month"] /\ work' = [work EXCEPT ![a] = w]
    BY <1>7 DEF MonthDone, Goto
  <2>2. 1 <= work[a].start /\ work[a].start <= work[a].to
    BY <1>7, <1>t DEF MonthDone, InRange
  <2>3. ChunkEnd(work[a]) \in Days
    BY <1>t, <2>2, ChunkEndInRange
  <2>4. w \in Work /\ w.start = ChunkEnd(work[a]) + 1 /\ w.to = work[a].to
    <3>1. ChunkEnd(work[a]) + 1 \in 0..(MaxDay + 1)
      BY <1>u, <2>3 DEF Days
    <3>2. work[a] \in Work
      BY <1>t
    <3> QED
      BY <3>1, <3>2 DEF Work
  <2>5. Bounds(w, "month")
    BY <1>t, <2>3, <2>4 DEF InRange, Days
  <2> QED
    BY <1>7, <1>t, <1>m, <2>1, <2>4, <2>5 DEF MonthDone, TypeOK
<1>8. ASSUME NEW a \in Actors, Build(a) \/ BuildError(a) PROVE Placed'
  <2>1. PICK ok \in BOOLEAN : work' = [work EXCEPT ![a].ok = ok]
    BY <1>8 DEF Build, BuildError
  <2> DEFINE w == [work[a] EXCEPT !.ok = ok]
  <2>2. pc' = [pc EXCEPT ![a] = "recording"] /\ work' = [work EXCEPT ![a] = w]
    BY <1>8, <2>1 DEF Build, BuildError, Goto
  <2>3. /\ w \in Work /\ w.start = work[a].start /\ w.to = work[a].to
        /\ w.ranges = work[a].ranges /\ ChunkEnd(w) = ChunkEnd(work[a])
    BY <1>t DEF Work, ChunkEnd
  <2>4. pc[a] = "chunk" /\ work[a].ranges # {}
    BY <1>8 DEF Build, BuildError
  <2>5. Bounds(w, "recording")
    BY <1>t, <2>3, <2>4 DEF InRange
  <2>6. /\ cached' \subseteq Days /\ failures' \in 0..MaxFailures
        /\ UNCHANGED <<watermark, complete, shown>>
    BY <1>8, <1>t, <1>c, <2>4 DEF Build, BuildError, Fails, TypeOK
  <2> QED
    BY <1>t, <1>m, <2>2, <2>3, <2>5, <2>6 DEF TypeOK
<1>9. ASSUME NEW a \in Actors, Record(a) \/ RecordError(a) PROVE Placed'
  <2>1. pc[a] = "recording" /\ work[a].ranges # {}
    BY <1>9, <1>t DEF Record, RecordError, InRange
  <2>2. /\ complete' \subseteq Ranges /\ failures' \in 0..MaxFailures
        /\ UNCHANGED <<watermark, cached, shown>>
    BY <1>9, <1>t, <1>c, <2>1 DEF Record, RecordError, Fails, TypeOK
  <2>3. CASE work' = [work EXCEPT ![a] = NoWork] /\ pc' = [pc EXCEPT ![a] = "idle"]
    BY <1>t, <1>m, <1>n, <2>2, <2>3 DEF TypeOK
  <2>4. CASE /\ work' = [work EXCEPT ![a].ranges = @ \ {Current(a)}]
             /\ pc' = [pc EXCEPT ![a] = "chunk"]
    <3> DEFINE w == [work[a] EXCEPT !.ranges = work[a].ranges \ {Current(a)}]
    <3>1. work' = [work EXCEPT ![a] = w]
      BY <2>4
    <3>2. /\ w \in Work /\ w.start = work[a].start /\ w.to = work[a].to
          /\ w.ranges \subseteq work[a].ranges /\ ChunkEnd(w) = ChunkEnd(work[a])
      BY <1>t DEF Work, ChunkEnd
    <3>3. Bounds(w, "chunk")
      BY <1>t, <2>1, <3>2 DEF InRange
    <3> HIDE DEF w
    <3> QED
      BY <1>t, <1>m, <2>2, <2>4, <3>1, <3>2, <3>3 DEF TypeOK
  <2> QED
    BY <1>9, <2>3, <2>4 DEF Record, RecordError, Return, Goto
<1>10. ASSUME NEW a \in Actors, Abandon(a) PROVE Placed'
  <2>1. pc' = [pc EXCEPT ![a] = "idle"] /\ work' = [work EXCEPT ![a] = NoWork]
    BY <1>10 DEF Abandon, Return, Goto
  <2>2. failures' \in 0..MaxFailures
    BY <1>10, <1>t DEF Abandon, Fails, TypeOK
  <2> QED
    BY <1>10, <1>t, <1>m, <1>n, <2>1, <2>2 DEF Abandon, TypeOK
<1> QED
  BY <1>1, <1>2, <1>3, <1>4, <1>5, <1>6, <1>7, <1>8, <1>9, <1>10
     DEF Next, SchedulerStep, Materialize, Actors

\* Types and places of chunks are inductive.
LEMMA PlacedInvariant == Spec => []Placed
<1>1. Placed /\ [Next]_vars => Placed'
  BY StepPlaced
<1> QED
  BY <1>1, InitPlaced, PTL DEF Spec

\* Every variable keeps its type, and every chunk that is built or recorded
\* lies in the calendar (cache.go:388-463).
THEOREM MaterializerTypeCorrect == Spec => []TypeOK
BY PlacedInvariant, PTL DEF Placed

-----------------------------------------------------------------------------
(* What runs marked complete say. *)

Quiet(a) ==
  \/ a \in Schedulers /\ (ReadWatermark(a) \/ ReadLatest(a))
  \/ a \in Commands /\ Command(a)
  \/ Month(a) \/ MonthDone(a) \/ Abandon(a)

\* The steps, sorted by what they change.
LEMMA NextSteps ==
  ASSUME Next
  PROVE  \/ Load
         \/ \E a \in Actors : \/ Quiet(a) \/ Build(a) \/ BuildError(a)
                              \/ Record(a) \/ RecordError(a)
BY DEF Next, SchedulerStep, Materialize, Actors, Quiet

\* A step of one actor leaves the others where they are and forgets no day.
LEMMA OthersStay ==
  ASSUME Placed, NEW a \in Actors,
         Quiet(a) \/ Build(a) \/ BuildError(a) \/ Record(a) \/ RecordError(a)
  PROVE  /\ cached \subseteq cached'
         /\ \A b \in Actors : b # a =>
              /\ pc'[b] = pc[b] /\ work'[b] = work[b]
              /\ Current(b)' = Current(b)
<1>1. /\ \E step : pc' = [pc EXCEPT ![a] = step]
      /\ \E w : work' = [work EXCEPT ![a] = w]
      /\ cached \subseteq cached'
  <2>1. CASE Quiet(a)
    <3>1. CASE ReadWatermark(a)
      BY <3>1 DEF ReadWatermark, Goto
    <3>2. CASE ReadLatest(a)
      BY <3>2 DEF ReadLatest, Return, Goto
    <3>3. CASE Command(a)
      BY <3>3 DEF Command, Goto
    <3>4. CASE Month(a)
      BY <3>4 DEF Month, Return, Goto
    <3>5. CASE MonthDone(a)
      BY <3>5 DEF MonthDone, Goto
    <3>6. CASE Abandon(a)
      BY <3>6 DEF Abandon, Return, Goto
    <3> QED
      BY <2>1, <3>1, <3>2, <3>3, <3>4, <3>5, <3>6 DEF Quiet
  <2>2. CASE Build(a)
    BY <2>2 DEF Build, Goto
  <2>3. CASE BuildError(a)
    BY <2>3 DEF BuildError, Goto
  <2>4. CASE Record(a)
    BY <2>4 DEF Record, Return, Goto
  <2>5. CASE RecordError(a)
    BY <2>5 DEF RecordError, Return, Goto
  <2> QED
    BY <2>1, <2>2, <2>3, <2>4, <2>5
<1>2. ASSUME NEW b \in Actors, b # a
      PROVE  pc'[b] = pc[b] /\ work'[b] = work[b] /\ Current(b)' = Current(b)
  <2>1. pc'[b] = pc[b] /\ work'[b] = work[b]
    BY <1>1, <1>2 DEF Placed, TypeOK
  <2>2. Current(b)' = Current(b)
    BY <2>1 DEF Current
  <2> QED
    BY <2>1, <2>2
<1> QED
  BY <1>1, <1>2

\* A quiet step touches neither table and leads to no recording.
LEMMA QuietStep ==
  ASSUME Placed, NEW a \in Actors, Quiet(a)
  PROVE  cached' = cached /\ complete' = complete /\ pc'[a] # "recording"
<1>t. pc \in [Actors -> {"idle", "latest", "month", "chunk", "recording"}]
  BY DEF Placed, TypeOK
<1>1. CASE ReadWatermark(a)
  BY <1>1, <1>t DEF ReadWatermark, Goto
<1>2. CASE ReadLatest(a)
  BY <1>2, <1>t DEF ReadLatest, Return, Goto
<1>3. CASE Command(a)
  BY <1>3, <1>t DEF Command, Goto
<1>4. CASE Month(a)
  BY <1>4, <1>t DEF Month, Return, Goto
<1>5. CASE MonthDone(a)
  BY <1>5, <1>t DEF MonthDone, Goto
<1>6. CASE Abandon(a)
  BY <1>6, <1>t DEF Abandon, Return, Goto
<1> QED
  BY <1>1, <1>2, <1>3, <1>4, <1>5, <1>6 DEF Quiet

Covered == CompleteCovered /\ Recorded

\* Every step keeps what completed runs and recordings say.
LEMMA StepCovered ==
  ASSUME Placed, Covered, [Next]_vars
  PROVE  Covered'
<1>1. CASE UNCHANGED vars
  BY <1>1 DEF vars, Covered, CompleteCovered, Recorded, Current
<1>2. CASE Load
  BY <1>2 DEF Load, Covered, CompleteCovered, Recorded, Current
<1>3. ASSUME NEW a \in Actors, Quiet(a) PROVE Covered'
  <2>1. CompleteCovered'
    BY <1>3, QuietStep DEF Covered, CompleteCovered
  <2>2. Recorded'
    BY <1>3, QuietStep, OthersStay DEF Covered, Recorded
  <2> QED
    BY <2>1, <2>2 DEF Covered
<1>4. ASSUME NEW a \in Actors, Build(a) \/ BuildError(a) PROVE Covered'
  <2>1. complete' = complete /\ cached \subseteq cached'
    BY <1>4, OthersStay DEF Build, BuildError
  <2>2. CompleteCovered'
    BY <2>1 DEF Covered, CompleteCovered
  <2>3. work'[a].ok => Current(a)[1]..Current(a)[2] \subseteq cached'
    <3>1. CASE Build(a)
      BY <3>1 DEF Build
    <3>2. CASE BuildError(a)
      BY <3>2 DEF BuildError, Placed, TypeOK, Work
    <3> QED
      BY <1>4, <3>1, <3>2
  <2>4. Current(a)' = Current(a)
    <3>1. work'[a].ranges = work[a].ranges
      BY <1>4 DEF Build, BuildError, Placed, TypeOK, Work
    <3> QED
      BY <3>1 DEF Current
  <2>5. Recorded'
    BY <1>4, <2>1, <2>3, <2>4, OthersStay DEF Covered, Recorded
  <2> QED
    BY <2>2, <2>5 DEF Covered
<1>5. ASSUME NEW a \in Actors, Record(a) \/ RecordError(a) PROVE Covered'
  <2>1. cached' = cached /\ pc'[a] # "recording"
    BY <1>5 DEF Record, RecordError, Return, Goto, Placed, TypeOK
  <2>2. \/ complete' = complete
        \/ /\ complete' = complete \cup {Current(a)}
           /\ pc[a] = "recording" /\ work[a].ok
    BY <1>5 DEF Record, RecordError
  <2>3. CompleteCovered'
    BY <2>1, <2>2 DEF Covered, CompleteCovered, Recorded
  <2>4. Recorded'
    BY <1>5, <2>1, OthersStay DEF Covered, Recorded
  <2> QED
    BY <2>3, <2>4 DEF Covered
<1> QED
  BY <1>1, <1>2, <1>3, <1>4, <1>5, NextSteps

\* The days of a run marked complete are cached: the mark follows the commit,
\* and no rebuild of another actor takes a day away (cache.go:455-470, 531-549).
THEOREM CompleteRunsAreCovered == Spec => []CompleteCovered
<1>1. Init => Covered
  BY DEF Init, Covered, CompleteCovered, Recorded
<1>2. Placed /\ Covered /\ [Next]_vars => Covered'
  BY StepCovered
<1> QED
  BY <1>1, <1>2, PlacedInvariant, PTL DEF Spec, Covered

-----------------------------------------------------------------------------
(* The cache and the watermark. *)

\* Every step keeps the cache behind the watermark.
LEMMA StepNotAhead ==
  ASSUME Placed, NotAheadOfDWH, [Next]_vars
  PROVE  NotAheadOfDWH'
<1>t. cached \subseteq Days /\ watermark \in Nat
  BY MaterializerAssumption DEF Placed, TypeOK
<1>1. CASE UNCHANGED vars
  BY <1>1 DEF vars, NotAheadOfDWH
<1>2. CASE Load
  BY <1>2, <1>t DEF Load, NotAheadOfDWH, Days
<1>3. ASSUME NEW a \in Actors, Quiet(a) \/ Record(a) \/ RecordError(a)
      PROVE  NotAheadOfDWH'
  <2>1. cached' = cached /\ watermark' = watermark
    BY <1>3 DEF Quiet, ReadWatermark, ReadLatest, Command, Month, MonthDone,
                Abandon, Record, RecordError
  <2> QED
    BY <2>1 DEF NotAheadOfDWH
<1>4. ASSUME NEW a \in Actors, Build(a) \/ BuildError(a) PROVE NotAheadOfDWH'
  <2>1. /\ pc[a] = "chunk" /\ work[a].ranges # {} /\ watermark' = watermark
        /\ cached' \subseteq cached \cup (Current(a)[1]..Current(a)[2])
    BY <1>4 DEF Build, BuildError
  <2>2. work[a] \in Work /\ work[a].ranges \subseteq Ranges
    BY DEF Placed, TypeOK, Work
  <2>3. Current(a) \in work[a].ranges
    BY <2>1, <2>2, CurrentIsFirst
  <2>4. /\ Current(a)[2] <= ChunkEnd(work[a]) /\ work[a].to <= watermark
        /\ 1 <= work[a].start /\ work[a].start <= work[a].to
    BY <2>1, <2>3 DEF Placed, InRange
  <2>5. ChunkEnd(work[a]) \in Days /\ ChunkEnd(work[a]) <= work[a].to
    BY <2>2, <2>4, ChunkEndInRange
  <2>6. Current(a)[1] \in Int /\ Current(a)[2] \in Int /\ work[a].to \in Int
    BY <2>2, <2>3, MaterializerAssumption DEF Ranges, Days, Work
  <2>7. Current(a)[2] <= watermark
    BY <1>t, <2>4, <2>5, <2>6, MaterializerAssumption DEF Days
  <2>8. \A d \in Current(a)[1]..Current(a)[2] : d <= watermark
    BY <1>t, <2>6, <2>7
  <2> QED
    BY <2>1, <2>8 DEF NotAheadOfDWH
<1> QED
  BY <1>1, <1>2, <1>3, <1>4, NextSteps

\* No day is cached, as empty, before the DWH has it: a chunk ends with the
\* range asked for, which ends with the watermark (cache.go:395-398).
THEOREM CacheIsNotAhead == Spec => []NotAheadOfDWH
<1>1. Init => NotAheadOfDWH
  BY DEF Init, NotAheadOfDWH
<1>2. Placed /\ NotAheadOfDWH /\ [Next]_vars => NotAheadOfDWH'
  BY StepNotAhead
<1> QED
  BY <1>1, <1>2, PlacedInvariant, PTL DEF Spec

-----------------------------------------------------------------------------
(* No holes, when every materialization starts at the backfill date. *)

\* --from is MATERIALIZE_BACKFILL_FROM, its default, or a day before it.
FromBackfill == Backfill > 0 /\ \A from \in CommandFroms : from <= Backfill

\* Ahead of an actor, in its month: a day is cached or in a range it has left.
Pending(a) ==
  \A d \in Backfill..ChunkEnd(work[a]) :
    d \in cached \/ \E r \in work[a].ranges : d \in r[1]..r[2]

\* Days before the current range are cached.
LEMMA BehindCurrent ==
  ASSUME Placed, NEW a \in Actors, work[a].ranges # {}, Pending(a),
         pc[a] = "recording"
  PROVE  \A d \in Backfill..Current(a)[2] :
           d \in cached \/ d \in Current(a)[1]..Current(a)[2]
<1> USE MaterializerAssumption
<1>1. work[a] \in Work /\ work[a].ranges \subseteq Ranges
  BY DEF Placed, TypeOK, Work
<1>2. /\ Current(a) \in work[a].ranges
      /\ \A q \in work[a].ranges : Current(a)[1] <= q[1]
  BY <1>1, CurrentIsFirst
<1>3. Current(a)[2] <= ChunkEnd(work[a])
  BY <1>2 DEF Placed, InRange
<1>4. ChunkEnd(work[a]) \in Int
  BY <1>1, ChunkEndInRange DEF Placed, InRange, Days
<1>5. \A q \in work[a].ranges : q[1] \in Int /\ q[2] \in Int
  BY <1>1 DEF Ranges, Days
<1>6. Backfill \in Int
  BY DEF Days
<1> SUFFICES ASSUME NEW d \in Backfill..Current(a)[2], d \notin cached
             PROVE  d \in Current(a)[1]..Current(a)[2]
  OBVIOUS
<1>7. d \in Backfill..ChunkEnd(work[a])
  BY <1>2, <1>3, <1>4, <1>5, <1>6
<1>8. PICK q \in work[a].ranges : d \in q[1]..q[2]
  BY <1>7 DEF Pending
<1> QED
  BY <1>2, <1>5, <1>6, <1>8

\* Every step leaves no day behind an actor, if nobody starts behind the backfill date.
LEMMA StepNoneBehind ==
  ASSUME FromBackfill, Placed, Covered, NoneBehind, [Next]_vars
  PROVE  NoneBehind'
<1> USE MaterializerAssumption
<1>t. /\ \A a \in Actors : work[a] \in Work
      /\ complete \subseteq Ranges /\ Backfill \in Days
      /\ work \in [Actors -> Work]
      /\ pc \in [Actors -> {"idle", "latest", "month", "chunk", "recording"}]
  BY DEF Placed, TypeOK, FromBackfill
<1>u. \A a \in Actors : work[a].start \in Int /\ work[a].to \in Int
  BY <1>t DEF Work
<1> DEFINE Behind(a) ==
             /\ pc[a] = "month" => Backfill..(work[a].start - 1) \subseteq cached
             /\ pc[a] \in {"chunk", "recording"} => Pending(a)
<1>b. \A a \in Actors : Behind(a)
  BY DEF NoneBehind, Pending
\* Enough that the runs and the actor that moved are in order.
<1>m. ASSUME NEW a \in Actors,
             Quiet(a) \/ Build(a) \/ BuildError(a) \/ Record(a) \/ RecordError(a),
             \A r \in complete' : Backfill..r[2] \subseteq cached',
             pc'[a] = "month" => Backfill..(work'[a].start - 1) \subseteq cached',
             pc'[a] \in {"chunk", "recording"} => Pending(a)'
      PROVE  NoneBehind'
  <2>1. ASSUME NEW b \in Actors, b # a
        PROVE  /\ pc'[b] = "month" => Backfill..(work'[b].start - 1) \subseteq cached'
               /\ pc'[b] \in {"chunk", "recording"} => Pending(b)'
    BY <1>b, <1>m, <2>1, OthersStay DEF Pending
  <2> QED
    BY <1>m, <2>1 DEF NoneBehind, Pending
<1>1. CASE UNCHANGED vars
  BY <1>1 DEF vars, NoneBehind
<1>2. CASE Load
  BY <1>2 DEF Load, NoneBehind
<1>q. ASSUME NEW a \in Actors, Quiet(a)
      PROVE  \A r \in complete' : Backfill..r[2] \subseteq cached'
  BY <1>q, QuietStep DEF NoneBehind
<1>3. ASSUME NEW a \in Actors, Quiet(a), pc'[a] \in {"idle", "latest"}
      PROVE  NoneBehind'
  BY <1>3, <1>q, <1>m
<1>4. ASSUME NEW s \in Schedulers, ReadWatermark(s) PROVE NoneBehind'
  BY <1>4, <1>3, <1>t DEF ReadWatermark, Goto, Quiet, Actors
<1>5. ASSUME NEW s \in Schedulers, ReadLatest(s) PROVE NoneBehind'
  <2> DEFINE from == IF LatestDWH = 0 THEN Backfill ELSE LatestDWH + 1
  <2>0. s \in Actors /\ Quiet(s)
    BY <1>5 DEF Quiet, Actors
  <2>1. CASE from = 0 \/ from > work[s].to
    BY <1>3, <1>5, <1>t, <2>0, <2>1 DEF ReadLatest, Return, Goto
  <2>2. CASE ~(from = 0 \/ from > work[s].to)
    <3>1. pc'[s] = "month" /\ work'[s].start = from /\ cached' = cached
      BY <1>5, <1>t, <2>0, <2>2 DEF ReadLatest, Goto, Work
    <3>2. Backfill..(from - 1) \subseteq cached
      <4>1. CASE LatestDWH = 0
        BY <1>t, <4>1 DEF Days
      <4>2. CASE LatestDWH # 0
        <5>1. PICK r \in complete : r[2] = LatestDWH
          BY <1>t, <4>2, LatestIsGreatest
        <5>2. LatestDWH \in Int /\ from - 1 = LatestDWH
          BY <1>t, <4>2, LatestIsGreatest
        <5> QED
          BY <5>1, <5>2 DEF NoneBehind
      <4> QED
        BY <4>1, <4>2
    <3> QED
      BY <1>m, <1>q, <2>0, <3>1, <3>2
  <2> QED
    BY <2>1, <2>2
<1>6. ASSUME NEW c \in Commands, Command(c) PROVE NoneBehind'
  <2>0. c \in Actors /\ Quiet(c)
    BY <1>6 DEF Quiet, Actors
  <2>1. PICK from \in CommandFroms, to \in Days, force \in BOOLEAN :
          work' = [work EXCEPT ![c] = [NoWork EXCEPT !.start = from, !.to = to,
                                                     !.force = force]]
    BY <1>6 DEF Command
  <2>2. pc'[c] = "month" /\ work'[c].start = from
    BY <1>6, <1>t, <2>0, <2>1 DEF Command, Goto, NoWork
  <2>3. Backfill..(from - 1) = {}
    BY <1>t DEF FromBackfill, Days
  <2> QED
    BY <1>m, <1>q, <2>0, <2>2, <2>3
<1>7. ASSUME NEW a \in Actors, Month(a) PROVE NoneBehind'
  <2>0. Quiet(a) /\ cached' = cached
    BY <1>7 DEF Quiet, Month
  <2>1. CASE work[a].start > work[a].to
    BY <1>3, <1>7, <1>t, <2>0, <2>1 DEF Month, Return, Goto
  <2>2. CASE ~(work[a].start > work[a].to)
    <3> DEFINE start == work[a].start
               end == ChunkEnd(work[a])
    <3>1. /\ pc'[a] = "chunk" /\ work'[a].start = start /\ ChunkEnd(work'[a]) = end
          /\ work'[a].ranges = IF work[a].force THEN {<<start, end>>}
                               ELSE MissingRanges(start, end)
      <4> DEFINE rs == IF work[a].force THEN {<<start, end>>}
                       ELSE MissingRanges(start, end)
      <4>1. pc'[a] = "chunk" /\ work' = [work EXCEPT ![a].ranges = rs]
        BY <1>7, <1>t, <2>2 DEF Month, Goto
      <4> HIDE DEF rs
      <4>2. work'[a] = [work[a] EXCEPT !.ranges = rs]
        BY <1>t, <4>1
      <4>3. /\ work'[a].start = start /\ work'[a].to = work[a].to
            /\ work'[a].ranges = rs
        BY <1>t, <4>2 DEF Work
      <4>4. ChunkEnd(work'[a]) = end
        BY <4>3 DEF ChunkEnd
      <4> QED
        BY <4>1, <4>3, <4>4 DEF rs
    <3>2. 1 <= start /\ start <= work[a].to
      BY <1>7, <1>u, <2>2 DEF Month, Placed, InRange
    <3>3. /\ end \in Days /\ start <= end /\ start \in Days
      BY <1>t, <1>u, <3>2, ChunkEndInRange DEF Days
    <3>4. Backfill..(start - 1) \subseteq cached
      BY <1>7, <1>b DEF Month
    <3>5. ASSUME NEW d \in Backfill..end, d \notin cached
          PROVE  \E r \in work'[a].ranges : d \in r[1]..r[2]
      <4>1. d \in start..end
        BY <1>t, <3>3, <3>4, <3>5 DEF Days
      <4>2. CASE work[a].force
        <5>1. <<start, end>> \in work'[a].ranges
          BY <3>1, <4>2
        <5>2. d \in <<start, end>>[1]..<<start, end>>[2]
          BY <4>1
        <5> QED
          BY <5>1, <5>2
      <4>3. CASE ~work[a].force
        <5>1. \E r \in MissingRanges(start, end) : d \in r[1]..r[2]
          BY <3>3, <3>5, <4>1, MissingCovered
        <5> QED
          BY <3>1, <4>3, <5>1
      <4> QED
        BY <4>2, <4>3
    <3>6. Pending(a)'
      BY <2>0, <3>1, <3>5 DEF Pending
    <3> QED
      BY <1>m, <1>q, <2>0, <3>1, <3>6
  <2> QED
    BY <2>1, <2>2
<1>8. ASSUME NEW a \in Actors, MonthDone(a) PROVE NoneBehind'
  <2>1. /\ Quiet(a) /\ cached' = cached /\ pc[a] = "chunk" /\ work[a].ranges = {}
        /\ pc'[a] = "month" /\ work'[a].start = ChunkEnd(work[a]) + 1
    BY <1>8, <1>t DEF MonthDone, Quiet, Goto, Work
  <2>2. ChunkEnd(work[a]) \in Int
    BY <1>t, <2>1, ChunkEndInRange DEF Placed, InRange, Days
  <2>3. Backfill..ChunkEnd(work[a]) \subseteq cached
    BY <1>b, <2>1 DEF Pending
  <2> QED
    BY <1>m, <1>q, <2>1, <2>2, <2>3
<1>9. ASSUME NEW a \in Actors, Build(a) \/ BuildError(a) PROVE NoneBehind'
  <2>1. /\ pc[a] = "chunk" /\ pc'[a] = "recording" /\ complete' = complete
        /\ work'[a].ranges = work[a].ranges /\ ChunkEnd(work'[a]) = ChunkEnd(work[a])
    BY <1>9, <1>t DEF Build, BuildError, Goto, Work, ChunkEnd
  <2>2. cached \subseteq cached'
    BY <1>9, OthersStay
  <2>3. Pending(a)'
    BY <1>b, <2>1, <2>2 DEF Pending
  <2>4. \A r \in complete' : Backfill..r[2] \subseteq cached'
    BY <2>1, <2>2 DEF NoneBehind
  <2> QED
    BY <1>m, <1>9, <2>1, <2>3, <2>4
<1>10. ASSUME NEW a \in Actors, Record(a) \/ RecordError(a) PROVE NoneBehind'
  <2>1. pc[a] = "recording" /\ work[a].ranges # {} /\ cached' = cached
    BY <1>10 DEF Record, RecordError, Placed, InRange
  <2>2. work[a].ok => Current(a)[1]..Current(a)[2] \subseteq cached
    BY <2>1 DEF Covered, Recorded
  <2>3. work[a].ok => Backfill..Current(a)[2] \subseteq cached
    BY <1>b, <2>1, <2>2, BehindCurrent
  <2>4. complete' = complete \/ (work[a].ok /\ complete' = complete \cup {Current(a)})
    BY <1>10 DEF Record, RecordError
  <2>5. \A r \in complete' : Backfill..r[2] \subseteq cached'
    BY <2>1, <2>3, <2>4 DEF NoneBehind
  <2>6. pc'[a] \in {"idle", "chunk"} /\ (pc'[a] = "chunk" => Record(a) /\ work[a].ok)
    BY <1>10, <1>t DEF Record, RecordError, Return, Goto
  <2>7. ASSUME pc'[a] = "chunk" PROVE Pending(a)'
    <3>1. /\ work'[a].ranges = work[a].ranges \ {Current(a)}
          /\ ChunkEnd(work'[a]) = ChunkEnd(work[a])
      BY <1>t, <2>6, <2>7 DEF Record, Work, ChunkEnd
    <3>2. \A d \in Backfill..ChunkEnd(work[a]) :
            d \in cached \/ \E r \in work'[a].ranges : d \in r[1]..r[2]
      BY <1>b, <2>1, <2>2, <2>6, <2>7, <3>1 DEF Pending
    <3> QED
      BY <2>1, <3>1, <3>2 DEF Pending
  <2> QED
    BY <1>m, <1>10, <2>5, <2>6, <2>7
<1>11. ASSUME NEW a \in Actors, Abandon(a) PROVE NoneBehind'
  BY <1>11, <1>3, <1>t DEF Abandon, Return, Goto, Quiet
<1> QED
  BY <1>1, <1>2, <1>4, <1>5, <1>6, <1>7, <1>8, <1>9, <1>10, <1>11
     DEF Next, SchedulerStep, Materialize, Actors

\* When every materialization starts at the backfill date or at the day after
\* the last completed range, the completed watermark never passes over a day
\* that is missing (cache.go:376-447, main.go:232-246).
THEOREM CacheHasNoHoles ==
  ASSUME FromBackfill
  PROVE  Spec => []NoHoles
<1>1. Init => Covered /\ NoneBehind
  BY DEF Init, Covered, CompleteCovered, Recorded, NoneBehind
<1>2. Placed /\ Covered /\ [Next]_vars => Covered'
  BY StepCovered
<1>3. Placed /\ Covered /\ NoneBehind /\ [Next]_vars => NoneBehind'
  BY StepNoneBehind
<1>4. Placed /\ NoneBehind => NoHoles
  <2> SUFFICES ASSUME Placed, NoneBehind, LatestDWH # 0
               PROVE  Backfill..LatestDWH \subseteq cached
    BY DEF NoHoles
  <2>1. PICK r \in complete : r[2] = LatestDWH
    BY LatestIsGreatest DEF Placed, TypeOK
  <2> QED
    BY <2>1 DEF NoneBehind
<1> QED
  BY <1>1, <1>2, <1>3, <1>4, PlacedInvariant, PTL DEF Spec
-----------------------------------------------------------------------------
(* A materialization has finitely many steps. *)

\* The actor is on a month or about to take one.
Busy(a) == pc[a] \in {"month", "chunk", "recording"}

\* It returns; or, with the same range asked for, it goes on to a later month, takes
\* up the month's ranges, builds one, or records it and has one range less.
Closer(a) ==
  \/ pc'[a] = "idle"
  \/ /\ work'[a].to = work[a].to
     /\ \/ pc'[a] = "month" /\ work[a].start < work'[a].start /\ work[a].start <= work[a].to
        \/ /\ work'[a].start = work[a].start
           /\ \/ pc[a] = "month" /\ pc'[a] = "chunk"
              \/ pc[a] = "chunk" /\ pc'[a] = "recording" /\ work'[a].ranges = work[a].ranges
              \/ /\ pc[a] = "recording" /\ pc'[a] = "chunk"
                 /\ Cardinality(work'[a].ranges) < Cardinality(work[a].ranges)

\* The ranges of a month are finitely many.
LEMMA RangesFinite ==
  ASSUME NEW S, S \subseteq Ranges
  PROVE  IsFiniteSet(S)
<1>1. IsFiniteSet(Days)
  BY MaterializerAssumption, FS_Interval DEF Days
<1>2. IsFiniteSet(Days \X Days)
  BY <1>1, FS_Product
<1>3. S \subseteq Days \X Days
  BY DEF Ranges
<1> QED
  BY <1>2, <1>3, FS_Subset

\* Whatever an actor does brings its materialization closer to its end.
LEMMA StepCloser ==
  ASSUME Placed, NEW a \in Actors, Busy(a), Materialize(a) \/ Abandon(a)
  PROVE  Closer(a)
<1>t. /\ pc \in [Actors -> {"idle", "latest", "month", "chunk", "recording"}]
      /\ work \in [Actors -> Work] /\ work[a] \in Work
      /\ work[a].start \in Int /\ work[a].to \in Int
  BY MaterializerAssumption DEF Placed, TypeOK, Work
<1>1. CASE Month(a)
  BY <1>1, <1>t DEF Month, Return, Goto, Closer, Work
<1>2. CASE MonthDone(a)
  <2>1. /\ pc[a] = "chunk" /\ pc'[a] = "month"
        /\ work' = [work EXCEPT ![a].start = ChunkEnd(work[a]) + 1]
    BY <1>2, <1>t DEF MonthDone, Goto
  <2>2. work'[a].start = ChunkEnd(work[a]) + 1 /\ work'[a].to = work[a].to
    BY <1>t, <2>1 DEF Work
  <2>3. 1 <= work[a].start /\ work[a].start <= work[a].to
    BY <2>1 DEF Placed, InRange
  <2>4. ChunkEnd(work[a]) \in Days /\ work[a].start <= ChunkEnd(work[a])
    BY <1>t, <2>3, ChunkEndInRange
  <2>5. work[a].start < work'[a].start
    BY <1>t, <2>2, <2>4 DEF Days
  <2> QED
    BY <2>1, <2>2, <2>3, <2>5 DEF Closer
<1>3. CASE Build(a) \/ BuildError(a)
  <2>1. /\ pc[a] = "chunk" /\ pc'[a] = "recording"
        /\ \E ok \in BOOLEAN : work' = [work EXCEPT ![a].ok = ok]
    BY <1>3, <1>t DEF Build, BuildError, Goto
  <2>2. /\ work'[a].start = work[a].start /\ work'[a].ranges = work[a].ranges
        /\ work'[a].to = work[a].to
    BY <1>t, <2>1 DEF Work
  <2> QED
    BY <2>1, <2>2 DEF Closer
<1>4. CASE Record(a) /\ work[a].ok
  <2>1. /\ pc[a] = "recording" /\ pc'[a] = "chunk"
        /\ work' = [work EXCEPT ![a].ranges = @ \ {Current(a)}]
    BY <1>4, <1>t DEF Record, Goto
  <2>2. /\ work'[a].start = work[a].start /\ work'[a].to = work[a].to
        /\ work'[a].ranges = work[a].ranges \ {Current(a)}
    BY <1>t, <2>1 DEF Work
  <2>3. work[a].ranges \subseteq Ranges /\ work[a].ranges # {}
    BY <1>t, <2>1 DEF Work, Placed, InRange
  <2>4. Current(a) \in work[a].ranges /\ IsFiniteSet(work[a].ranges)
    BY <2>3, CurrentIsFirst, RangesFinite
  <2>5. /\ Cardinality(work[a].ranges) \in Nat
        /\ Cardinality(work[a].ranges \ {Current(a)}) = Cardinality(work[a].ranges) - 1
    BY <2>4, FS_CardinalityType, FS_RemoveElement
  <2>6. Cardinality(work'[a].ranges) < Cardinality(work[a].ranges)
    BY <2>2, <2>5
  <2> QED
    BY <2>1, <2>2, <2>6 DEF Closer
<1>5. CASE (Record(a) /\ ~work[a].ok) \/ RecordError(a) \/ Abandon(a)
  <2>1. Return(a)
    BY <1>5 DEF Record, RecordError, Abandon
  <2>2. pc'[a] = "idle" /\ work'[a] = NoWork
    BY <1>t, <2>1 DEF Return, Goto
  <2> QED
    BY <1>t, <2>2 DEF Closer
<1> QED
  BY <1>1, <1>2, <1>3, <1>4, <1>5 DEF Materialize

\* A materialization that is under way is left alone or brought closer to its end by
\* every step of the system, whatever days other actors cache meanwhile: no range is
\* built twice and no month is returned to (cache.go:388-463).
THEOREM MaterializationGetsCloser ==
  Spec => [][\A a \in Actors : Busy(a) =>
               Closer(a) \/ (pc'[a] = pc[a] /\ work'[a] = work[a])]_vars
<1>1. ASSUME Placed, [Next]_vars, NEW a \in Actors, Busy(a)
      PROVE  Closer(a) \/ (pc'[a] = pc[a] /\ work'[a] = work[a])
  <2>1. CASE UNCHANGED vars
    BY <2>1 DEF vars
  <2>2. CASE Load
    BY <2>2 DEF Load
  <2>3. ASSUME NEW b \in Actors,
               Quiet(b) \/ Build(b) \/ BuildError(b) \/ Record(b) \/ RecordError(b)
        PROVE  Closer(a) \/ (pc'[a] = pc[a] /\ work'[a] = work[a])
    <3>1. CASE b # a
      BY <1>1, <2>3, <3>1, OthersStay
    <3>2. CASE b = a
      <4>1. Materialize(a) \/ Abandon(a)
        BY <1>1, <2>3, <3>2
           DEF Busy, Quiet, ReadWatermark, ReadLatest, Command, Materialize
      <4> QED
        BY <1>1, <4>1, StepCloser
    <3> QED
      BY <3>1, <3>2
  <2> QED
    BY <1>1, <2>1, <2>2, <2>3, NextSteps
<1>2. ASSUME Placed, [Next]_vars
      PROVE  [\A a \in Actors : Busy(a) =>
                Closer(a) \/ (pc'[a] = pc[a] /\ work'[a] = work[a])]_vars
  BY <1>1, <1>2
<1> QED
  BY <1>2, PlacedInvariant, PTL DEF Spec


=============================================================================
