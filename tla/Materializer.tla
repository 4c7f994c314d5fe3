---------------------------- MODULE Materializer ----------------------------
(***************************************************************************)
(* The reporting cache of historical days: MetricStore.Materialize          *)
(* (internal/service/dwh/cache.go), run by the scheduler of each server     *)
(* process and by the `materialize` command (cmd/web/main.go).              *)
(*                                                                         *)
(* A day is cached when dashboard_daily_metrics has its rows.  A chunk      *)
(* reads the DWH, then replaces its days' rows in one transaction, then     *)
(* marks its row of dashboard_materialization_runs: the transaction and the *)
(* mark are separate steps, and only rows marked 'complete' are ever read.  *)
(***************************************************************************)
EXTENDS Integers

CONSTANTS Schedulers,   \* scheduleMaterialization goroutines, one per process
          Commands,     \* `materialize` commands
          MaxDay,       \* bound on the calendar; days are 1..MaxDay
          MonthEnd,     \* the last day of each day's month
          Backfill,     \* MATERIALIZE_BACKFILL_FROM, 0 when it is not set
          CommandFroms, \* --from dates an operator may give
          MaxFailures   \* bound on errors and crashes

Days == 1..MaxDay

ASSUME MaterializerAssumption ==
  /\ MaxDay \in Nat /\ MaxFailures \in Nat
  /\ MonthEnd \in [Days -> Int]
  /\ \A d \in Days : d <= MonthEnd[d]
  /\ Backfill \in {0} \cup Days
  /\ CommandFroms \subseteq Days
  /\ Schedulers \cap Commands = {}

VARIABLES watermark,  \* the latest date all four DWH tables have, 0 if none
          cached,     \* the days that are materialized
          complete,   \* date ranges of the runs marked 'complete'
          shown,      \* the watermark each process's dashboard was last given
          failures,   \* errors and crashes so far
          pc,         \* where each actor is
          work        \* local variables of each actor

vars == <<watermark, cached, complete, shown, failures, pc, work>>

Actors == Schedulers \cup Commands
Ranges == {r \in Days \X Days : r[1] <= r[2]}

\* start, to, force and ranges as in Materialize; ok is "err == nil" of the
\* chunk that is about to be recorded.
Work == [start : 0..(MaxDay + 1), to : 0..MaxDay, force : BOOLEAN,
         ranges : SUBSET Ranges, ok : BOOLEAN]

NoWork == [start |-> 0, to |-> 0, force |-> FALSE, ranges |-> {}, ok |-> TRUE]

Init ==
  /\ watermark = 0
  /\ cached = {} /\ complete = {}
  /\ shown = [a \in Schedulers |-> 0]
  /\ failures = 0
  /\ pc = [a \in Actors |-> "idle"]
  /\ work = [a \in Actors |-> NoWork]

Goto(a, step) == pc' = [pc EXCEPT ![a] = step]
Return(a) == Goto(a, "idle") /\ work' = [work EXCEPT ![a] = NoWork]

\* LatestDWH: MAX(date_to) of the complete runs, 0 when there is none.
LatestDWH ==
  IF complete = {} THEN 0
  ELSE CHOOSE d \in Days : /\ \E r \in complete : r[2] = d
                           /\ \A r \in complete : r[2] <= d

\* Mutant of MissingRanges: the scan stops at the last day, so a range that
\* reaches it is never closed.
MissingRangesUnclosed(from, to) ==
  {r \in Ranges :
     /\ from <= r[1] /\ r[2] < to
     /\ r[1]..r[2] \cap cached = {}
     /\ r[1] = from \/ r[1] - 1 \in cached
     /\ r[2] + 1 \in cached}

\* missingRanges: the maximal runs of days of from..to that are not cached.
MissingRanges(from, to) ==
  {r \in Ranges :
     /\ from <= r[1] /\ r[2] <= to
     /\ r[1]..r[2] \cap cached = {}
     /\ r[1] = from \/ r[1] - 1 \in cached
     /\ r[2] = to \/ r[2] + 1 \in cached}

\* Mutant of ChunkEnd: a chunk always runs to the end of its month.
WholeMonth(w) == MonthEnd[w.start]

\* The end of the month that starts the remaining range, or the range's.
ChunkEnd(w) == IF MonthEnd[w.start] > w.to THEN w.to ELSE MonthEnd[w.start]

-----------------------------------------------------------------------------
(* What starts a materialization. *)

\* A tick of the scheduler: LatestCommon, which is an error while a table is
\* empty, and SetWatermark.
ReadWatermark(s) ==
  /\ pc[s] = "idle"
  /\ watermark > 0
  /\ shown' = [shown EXCEPT ![s] = watermark]
  /\ work' = [work EXCEPT ![s].to = watermark]
  /\ Goto(s, "latest")
  /\ UNCHANGED <<watermark, cached, complete, failures>>

\* The day after the last completed range, or the backfill date; nothing to do
\* without either or beyond the watermark.
ReadLatest(s) ==
  /\ pc[s] = "latest"
  /\ LET from == IF LatestDWH = 0 THEN Backfill ELSE LatestDWH + 1
     IN  IF from = 0 \/ from > work[s].to
         THEN Return(s)
         ELSE work' = [work EXCEPT ![s].start = from] /\ Goto(s, "month")
  /\ UNCHANGED <<watermark, cached, complete, shown, failures>>

\* The command checks --to against the watermark.
Command(c) ==
  /\ pc[c] = "idle"
  /\ \E from \in CommandFroms, to \in Days, force \in BOOLEAN :
       /\ from <= to /\ to <= watermark
       /\ work' = [work EXCEPT ![c] = [NoWork EXCEPT !.start = from, !.to = to,
                                                     !.force = force]]
  /\ Goto(c, "month")
  /\ UNCHANGED <<watermark, cached, complete, shown, failures>>

-----------------------------------------------------------------------------
(* Materialize. *)

\* One month: what there is to build of it, all of it with --force.
Month(a) ==
  /\ pc[a] = "month"
  /\ LET w == work[a]
     IN  IF w.start > w.to
         THEN Return(a)
         ELSE /\ work' = [work EXCEPT ![a].ranges =
                   IF w.force THEN {<<w.start, ChunkEnd(w)>>}
                   ELSE MissingRanges(w.start, ChunkEnd(w))]
              /\ Goto(a, "chunk")
  /\ UNCHANGED <<watermark, cached, complete, shown, failures>>

MonthDone(a) ==
  /\ pc[a] = "chunk"
  /\ work[a].ranges = {}
  /\ work' = [work EXCEPT ![a].start = ChunkEnd(work[a]) + 1]
  /\ Goto(a, "month")
  /\ UNCHANGED <<watermark, cached, complete, shown, failures>>

\* The range materializeChunk is on: the earliest that is left.
Current(a) ==
  CHOOSE r \in work[a].ranges : \A q \in work[a].ranges : r[1] <= q[1]

\* materializeChunk up to its COMMIT: the reads of the DWH, the INSERT of its
\* 'running' row (never read), the DELETE and INSERT of its days.
Build(a) ==
  /\ pc[a] = "chunk"
  /\ work[a].ranges # {}
  /\ cached' = cached \cup (Current(a)[1]..Current(a)[2])
  /\ work' = [work EXCEPT ![a].ok = TRUE]
  /\ Goto(a, "recording")
  /\ UNCHANGED <<watermark, complete, shown, failures>>

Fails ==
  /\ failures < MaxFailures
  /\ failures' = failures + 1

\* An error before the commit, or a commit whose answer is lost.
BuildError(a) ==
  /\ pc[a] = "chunk"
  /\ work[a].ranges # {}
  /\ Fails
  /\ \/ cached' = cached \cup (Current(a)[1]..Current(a)[2])
     \/ UNCHANGED cached
  /\ work' = [work EXCEPT ![a].ok = FALSE]
  /\ Goto(a, "recording")
  /\ UNCHANGED <<watermark, complete, shown>>

\* Mutant of Record: the status is "complete" whatever the error.
RecordComplete(a) ==
  /\ pc[a] = "recording"
  /\ complete' = complete \cup {Current(a)}
  /\ work' = [work EXCEPT ![a].ranges = @ \ {Current(a)}]
  /\ Goto(a, "chunk")
  /\ UNCHANGED <<watermark, cached, shown, failures>>

\* Mutant of Record: after a failed chunk the next one is built.
RecordGoOn(a) ==
  /\ pc[a] = "recording"
  /\ complete' = IF work[a].ok THEN complete \cup {Current(a)} ELSE complete
  /\ work' = [work EXCEPT ![a].ranges = @ \ {Current(a)}]
  /\ Goto(a, "chunk")
  /\ UNCHANGED <<watermark, cached, shown, failures>>

\* The deferred UPDATE of the run's status.  After an error Materialize
\* returns it: no later range or month is built.
Record(a) ==
  /\ pc[a] = "recording"
  /\ IF work[a].ok
     THEN /\ complete' = complete \cup {Current(a)}
          /\ work' = [work EXCEPT ![a].ranges = @ \ {Current(a)}]
          /\ Goto(a, "chunk")
     ELSE Return(a) /\ UNCHANGED complete
  /\ UNCHANGED <<watermark, cached, shown, failures>>

\* The UPDATE fails, applied or not, and becomes the chunk's error.
RecordError(a) ==
  /\ pc[a] = "recording"
  /\ Fails
  /\ \/ work[a].ok /\ complete' = complete \cup {Current(a)}
     \/ UNCHANGED complete
  /\ Return(a)
  /\ UNCHANGED <<watermark, cached, shown>>

\* A failing read, the twenty-minute timeout or a crash of the process ends
\* what the actor was doing.
Abandon(a) ==
  /\ pc[a] # "idle"
  /\ Fails
  /\ Return(a)
  /\ UNCHANGED <<watermark, cached, complete, shown>>

-----------------------------------------------------------------------------

\* The DWH load reaches the next date.
Load ==
  /\ watermark < MaxDay
  /\ watermark' = watermark + 1
  /\ UNCHANGED <<cached, complete, shown, failures, pc, work>>

Materialize(a) ==
  \/ Month(a) \/ MonthDone(a) \/ Build(a) \/ BuildError(a)
  \/ Record(a) \/ RecordError(a)

SchedulerStep(s) == ReadWatermark(s) \/ ReadLatest(s) \/ Materialize(s)

Next ==
  \/ Load
  \/ \E s \in Schedulers : SchedulerStep(s)
  \/ \E c \in Commands : Command(c) \/ Materialize(c)
  \/ \E a \in Actors : Abandon(a)

Spec == Init /\ [][Next]_vars

\* The scheduler's ticker keeps firing and each of its calls returns; failures
\* are bounded, so it is not disturbed for ever.  No command has to be run.
FairSpec == Spec /\ \A s \in Schedulers : WF_vars(SchedulerStep(s))

-----------------------------------------------------------------------------
(* Properties. *)

\* Every variable stays in its domain (cache.go:376-463).
TypeOK ==
  /\ watermark \in 0..MaxDay
  /\ cached \subseteq Days
  /\ complete \subseteq Ranges
  /\ shown \in [Schedulers -> 0..MaxDay]
  /\ failures \in 0..MaxFailures
  /\ pc \in [Actors -> {"idle", "latest", "month", "chunk", "recording"}]
  /\ work \in [Actors -> Work]

\* The days of a run marked complete are cached, whatever failed around it and
\* whoever else was rebuilding them (cache.go:455-470, 531-549).
CompleteCovered == \A r \in complete : r[1]..r[2] \subseteq cached

\* No day is materialized before the DWH has it: it would be cached as empty
\* and, being cached, never be filled (cache.go:395-398, main.go:200, 246).
NotAheadOfDWH == \A d \in cached : d <= watermark

\* When every materialization starts at the backfill date or after the last
\* completed range, no day up to that range is missing: the scheduler, which
\* never looks further back, leaves no hole, however chunks of several actors
\* interleave and fail (cache.go:376-386, main.go:232-246).
NoHoles == LatestDWH # 0 => Backfill..LatestDWH \subseteq cached

\* Every day from the backfill date that the DWH reaches ends up cached: the
\* chunk that failed, was left unrecorded or was cut off is built by a later
\* tick (README, "Local reporting cache").
CatchesUp ==
  \A d \in Days : Backfill <= d /\ d <= watermark ~> d \in cached

-----------------------------------------------------------------------------
(* The parts of the inductive invariants that the proofs add. *)

\* A chunk lies in its month, its month in the range asked for, and that range
\* up to the watermark.
InRange ==
  \A a \in Actors :
    /\ work[a].to <= watermark
    /\ pc[a] = "month" => work[a].start >= 1
    /\ pc[a] \in {"chunk", "recording"} =>
         /\ 1 <= work[a].start /\ work[a].start <= work[a].to
         /\ \A r \in work[a].ranges : r[2] <= ChunkEnd(work[a])
    /\ pc[a] = "recording" => work[a].ranges # {}

\* What is about to be recorded as complete is cached.
Recorded ==
  \A a \in Actors :
    pc[a] = "recording" /\ work[a].ok =>
      Current(a)[1]..Current(a)[2] \subseteq cached

\* Behind an actor every day is cached; in the month it is on, every day that
\* is not is in a range it has still to build.
NoneBehind ==
  /\ \A r \in complete : Backfill..r[2] \subseteq cached
  /\ \A a \in Actors :
       /\ pc[a] = "month" => Backfill..(work[a].start - 1) \subseteq cached
       /\ pc[a] \in {"chunk", "recording"} =>
            \A d \in Backfill..ChunkEnd(work[a]) :
              \/ d \in cached
              \/ \E r \in work[a].ranges : d \in r[1]..r[2]

=============================================================================
