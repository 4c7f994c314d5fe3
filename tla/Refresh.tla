------------------------------ MODULE Refresh ------------------------------
(***************************************************************************)
(* The realtime refresh: a Refresher (internal/service/realtime/refresh.go) *)
(* fetches the four Fincloud reports and publishes them as one generation  *)
(* of the snapshot store (internal/service/realtime/store.go).             *)
(*                                                                         *)
(* A job is one goroutine that may run Refresher.refresh; Host says in     *)
(* which server process it lives.  Every database statement outside the    *)
(* publishing transaction is a step of its own.  The transaction's writes  *)
(* are invisible until its COMMIT, so it appears here as three steps:      *)
(* taking the generation, writing the rows and the aggregates (which locks *)
(* the aggregates of the day) and committing.                              *)
(***************************************************************************)
EXTENDS Integers, FiniteSets

CONSTANTS Jobs,       \* refresh goroutines
          Hosts,      \* server processes
          Host,       \* the process of each job
          Retention,  \* REALTIME_SNAPSHOT_RETENTION
          Dates,      \* business dates
          DateOf,     \* the WIB date at each reading of the clock
          Timeout,    \* clock ticks a refresh lives: ten minutes and the
                      \* five seconds of its failure context
          Day,        \* clock ticks in the day after which Retain reaps
          MaxClock,   \* bound on the clock
          MaxId       \* bound on the AUTO_INCREMENT id

ASSUME RefreshAssumption ==
  /\ Host \in [Jobs -> Hosts]
  /\ Retention \in Int
  /\ MaxClock \in Nat
  /\ MaxId \in Nat
  /\ Dates \subseteq Int
  /\ DateOf \in [0..MaxClock -> Dates]
  /\ \A s, t \in 0..MaxClock : s <= t => DateOf[s] <= DateOf[t]
  /\ Timeout \in Nat
  /\ Day \in Nat
  /\ Timeout < Day

VARIABLES clock,    \* wall clock of the processes and of the database
          nextId,   \* AUTO_INCREMENT of dashboard_snapshot_runs
          gens,     \* dashboard_snapshot_runs with the rt_* rows it owns
          agg,      \* generation the realtime aggregates of a date come from
          running,  \* Refresher.running of each process
          pc,       \* where each job is in Refresher.refresh
          work      \* local variables of each job

dbVars == <<nextId, gens, agg>>
vars == <<clock, nextId, gens, agg, running, pc, work>>

Ids   == 1..MaxId
Times == 0..MaxClock

\* What Fincloud may answer: reports that validate accepts, or not.
Reports == {"complete", "incomplete"}

\* A row of dashboard_snapshot_runs and the dataset rows that reference it
\* (ON DELETE CASCADE, so they live and die with it).  'validating' exists
\* only inside the publishing transaction.
Generation ==
  [status  : {"absent", "loading", "failed", "published"},
   date    : Dates,
   started : Times,
   rows    : Reports \cup {"none"}]

Steps == {"idle", "starting", "fetching", "publishing", "writing",
          "committing", "failing", "selecting", "deleting", "reaping"}

Work == [id    : {0} \cup Ids,
         date  : Dates,
         begun : Times,
         data  : Reports \cup {"none"},
         sweep : {"published", "failed"},
         old   : SUBSET Ids]

\* Between Start and Retain a job has a generation of its own.
Owning == {"fetching", "publishing", "writing", "committing", "failing"}

NoWork == [id |-> 0, date |-> DateOf[0], begun |-> 0, data |-> "none",
           sweep |-> "published", old |-> {}]
NoGen  == [status |-> "absent", date |-> DateOf[0], started |-> 0,
           rows |-> "none"]

\* The jobs whose publishing transaction is open.
InTransaction(j) == pc[j] \in {"writing", "committing"}

WithStatus(s) == {i \in Ids : gens[i].status = s}

Newest(ids) ==
  IF ids = {} THEN 0 ELSE CHOOSE i \in ids : \A k \in ids : k <= i

\* Store.Latest: the newest published generation, 0 when there is none.
Latest == Newest(WithStatus("published"))

\* Store.Retain keeps at least one generation of each status.
Keep == IF Retention < 1 THEN 1 ELSE Retention

\* Mutant of Valid: nothing is checked.
AnyReport(report) == report \in Reports

\* validate
Valid(report) == report = "complete"

Goto(j, step) == pc' = [pc EXCEPT ![j] = step]

\* The goroutine returns; its deferred call clears the flag.
Return(j) ==
  /\ pc' = [pc EXCEPT ![j] = "idle"]
  /\ running' = [running EXCEPT ![Host[j]] = FALSE]
  /\ work' = [work EXCEPT ![j] = NoWork]

Init ==
  /\ clock = 0
  /\ nextId = 1
  /\ gens = [i \in Ids |-> NoGen]
  /\ agg = [d \in Dates |-> 0]
  /\ running = [h \in Hosts |-> FALSE]
  /\ pc = [j \in Jobs |-> "idle"]
  /\ work = [j \in Jobs |-> NoWork]

-----------------------------------------------------------------------------
(* The refresh, step by step. *)

\* Mutant of Trigger: two triggers may both start a job.
TriggerAlways(j) ==
  /\ pc[j] = "idle"
  /\ running' = [running EXCEPT ![Host[j]] = TRUE]
  /\ work' = [work EXCEPT ![j] = [NoWork EXCEPT !.date = DateOf[clock],
                                                !.begun = clock]]
  /\ Goto(j, "starting")
  /\ UNCHANGED <<clock, dbVars>>

\* Mutant of Trigger: the job remembers its deadline, not its start.
TriggerDeadline(j) ==
  /\ pc[j] = "idle"
  /\ ~running[Host[j]]
  /\ running' = [running EXCEPT ![Host[j]] = TRUE]
  /\ work' = [work EXCEPT ![j] = [NoWork EXCEPT !.date = DateOf[clock],
                                                !.begun = clock + Timeout]]
  /\ Goto(j, "starting")
  /\ UNCHANGED <<clock, dbVars>>

\* The scheduler's tick, its first call or POST /refresh starts a job unless
\* one is running; the job fixes its business date before anything else.
Trigger(j) ==
  /\ pc[j] = "idle"
  /\ ~running[Host[j]]
  /\ running' = [running EXCEPT ![Host[j]] = TRUE]
  /\ work' = [work EXCEPT ![j] = [NoWork EXCEPT !.date = DateOf[clock],
                                                !.begun = clock]]
  /\ Goto(j, "starting")
  /\ UNCHANGED <<clock, dbVars>>

\* INSERT ... 'loading'
InsertRun(j) ==
  /\ nextId <= MaxId
  /\ gens' = [gens EXCEPT ![nextId] = [status |-> "loading",
                                       date |-> work[j].date,
                                       started |-> clock,
                                       rows |-> "none"]]
  /\ nextId' = nextId + 1

Start(j) ==
  /\ pc[j] = "starting"
  /\ InsertRun(j)
  /\ work' = [work EXCEPT ![j].id = nextId]
  /\ Goto(j, "fetching")
  /\ UNCHANGED <<clock, agg, running>>

\* Start fails: the job returns at once, without Fail or Retain, whether the
\* row was inserted (the answer was lost) or not.
StartError(j) ==
  /\ pc[j] = "starting"
  /\ InsertRun(j) \/ UNCHANGED <<gens, nextId>>
  /\ Return(j)
  /\ UNCHANGED <<clock, agg>>

\* Fetch validates before it returns.  The Dataset carries the date the job
\* passed in, so the date comparison that follows never fails.
Fetch(j) ==
  /\ pc[j] = "fetching"
  /\ \E report \in Reports :
       IF Valid(report)
       THEN /\ work' = [work EXCEPT ![j].data = report]
            /\ Goto(j, "publishing")
       ELSE Goto(j, "failing") /\ UNCHANGED work
  /\ UNCHANGED <<clock, dbVars, running>>

\* Any call before the COMMIT may return an error (the ten-minute context
\* included); the deferred Rollback undoes the transaction.
RefreshError(j) ==
  /\ \/ pc[j] \in {"fetching", "publishing"}
     \/ InTransaction(j)
  /\ Goto(j, "failing")
  /\ UNCHANGED <<clock, dbVars, running, work>>

\* Publish validates again and takes the generation if it is still loading.
BeginPublish(j) ==
  /\ pc[j] = "publishing"
  /\ LET run == gens[work[j].id]
     IN  IF /\ Valid(work[j].data)
            /\ run.status = "loading"
            /\ run.date = work[j].date
         THEN Goto(j, "writing")
         ELSE Goto(j, "failing")
  /\ UNCHANGED <<clock, dbVars, running, work>>

\* Mutant of WriteRows: the aggregates are written outside the transaction.
WriteRowsOutside(j) ==
  /\ pc[j] = "writing"
  /\ agg' = [agg EXCEPT ![work[j].date] = work[j].id]
  /\ Goto(j, "committing")
  /\ UNCHANGED <<clock, nextId, gens, running, work>>

\* Mutant of AggregatesFree: both transactions hold the day's rows before they
\* ask to replace them, so each waits for the other.
AggregatesShared(j) ==
  \A k \in Jobs \ {j} : ~(InTransaction(k) /\ work[k].date = work[j].date)

\* put and putPreview delete and insert the day's rows, which waits for another
\* transaction that holds them.
AggregatesFree(j) ==
  \A k \in Jobs \ {j} : ~(pc[k] = "committing" /\ work[k].date = work[j].date)

\* The dataset rows, then OnPublish, which replaces the aggregates of the day;
\* last the generation is marked published.  Nothing is visible yet.
WriteRows(j) ==
  /\ pc[j] = "writing"
  /\ AggregatesFree(j)
  /\ Goto(j, "committing")
  /\ UNCHANGED <<clock, dbVars, running, work>>

\* Mutant of CommitWrites: the generation commits without its aggregates.
CommitRowsOnly(j) ==
  /\ gens' = [gens EXCEPT ![work[j].id] =
                 [@ EXCEPT !.status = "published", !.rows = work[j].data]]
  /\ UNCHANGED <<nextId, agg>>

\* The aggregates of the day are computed from the generation's own rows.
MaterializeRealtime(j) == agg' = [agg EXCEPT ![work[j].date] = work[j].id]

\* What COMMIT makes visible, all at once.
CommitWrites(j) ==
  /\ gens' = [gens EXCEPT ![work[j].id] =
                 [@ EXCEPT !.status = "published", !.rows = work[j].data]]
  /\ MaterializeRealtime(j)
  /\ UNCHANGED nextId

Commit(j) ==
  /\ pc[j] = "committing"
  /\ CommitWrites(j)
  /\ Goto(j, "selecting")
  /\ UNCHANGED <<clock, running, work>>

\* The database commits but the connection breaks before it says so: Publish
\* returns an error for a generation that is published.
CommitAnswerLost(j) ==
  /\ pc[j] = "committing"
  /\ CommitWrites(j)
  /\ Goto(j, "failing")
  /\ UNCHANGED <<clock, running, work>>

\* Mutant of Fail: no "AND status='loading'".
FailAny(j) ==
  /\ pc[j] = "failing"
  /\ \/ gens' = [gens EXCEPT ![work[j].id].status = "failed"]
     \/ UNCHANGED gens
  /\ Goto(j, "selecting")
  /\ UNCHANGED <<clock, nextId, agg, running, work>>

\* UPDATE ... SET status='failed' WHERE id=? AND status='loading', or an error
\* that is only logged.  Either way the job goes on to Retain.
Fail(j) ==
  /\ pc[j] = "failing"
  /\ \/ /\ gens[work[j].id].status = "loading"
        /\ gens' = [gens EXCEPT ![work[j].id].status = "failed"]
     \/ UNCHANGED gens
  /\ Goto(j, "selecting")
  /\ UNCHANGED <<clock, nextId, agg, running, work>>

-----------------------------------------------------------------------------
(* Retain: no transaction; a SELECT and one DELETE per generation for each *)
(* of the two statuses, then a DELETE of abandoned loading rows.           *)

\* Mutant of Surplus: the rows are listed oldest first.
SurplusNewest(s) ==
  {i \in WithStatus(s) :
     \E older \in SUBSET WithStatus(s) :
       /\ Cardinality(older) = Keep
       /\ \A k \in older : k < i}

\* The ids of a status after the newest Keep.
Surplus(s) ==
  {i \in WithStatus(s) :
     \E newer \in SUBSET WithStatus(s) :
       /\ Cardinality(newer) = Keep
       /\ \A k \in newer : i < k}

RetainSelect(j) ==
  /\ pc[j] = "selecting"
  /\ work' = [work EXCEPT ![j].old = Surplus(work[j].sweep)]
  /\ Goto(j, "deleting")
  /\ UNCHANGED <<clock, dbVars, running>>

\* DELETE ... WHERE id=? AND status=?, newest first.
RetainDelete(j) ==
  /\ pc[j] = "deleting"
  /\ \E i \in work[j].old :
       /\ \A k \in work[j].old : k <= i
       /\ gens' = IF gens[i].status = work[j].sweep
                  THEN [gens EXCEPT ![i] = NoGen]
                  ELSE gens
       /\ work' = [work EXCEPT ![j].old = work[j].old \ {i}]
  /\ UNCHANGED <<clock, nextId, agg, running, pc>>

RetainNext(j) ==
  /\ pc[j] = "deleting"
  /\ work[j].old = {}
  /\ IF work[j].sweep = "published"
     THEN /\ work' = [work EXCEPT ![j].sweep = "failed"]
          /\ Goto(j, "selecting")
     ELSE Goto(j, "reaping") /\ UNCHANGED work
  /\ UNCHANGED <<clock, dbVars, running>>

\* Mutant of Abandoned: every loading row, whatever its age.
AnyLoading == WithStatus("loading")

\* Loading rows started more than a day ago.
Abandoned == {i \in WithStatus("loading") : gens[i].started + Day < clock}

\* The DELETE waits for a row that an open transaction has taken.
RetainReap(j) ==
  /\ pc[j] = "reaping"
  /\ \A k \in Jobs : InTransaction(k) => work[k].id \notin Abandoned
  /\ gens' = [i \in Ids |-> IF i \in Abandoned THEN NoGen ELSE gens[i]]
  /\ Return(j)
  /\ UNCHANGED <<clock, nextId, agg>>

\* An error of any statement of Retain ends it; the error is only logged.
RetainError(j) ==
  /\ pc[j] \in {"selecting", "deleting", "reaping"}
  /\ Return(j)
  /\ UNCHANGED <<clock, dbVars>>

-----------------------------------------------------------------------------
(* The environment. *)

\* Contexts bound every call, so no job outlives its timeout.
Tick ==
  /\ clock < MaxClock
  /\ \A j \in Jobs : pc[j] # "idle" => clock < work[j].begun + Timeout
  /\ clock' = clock + 1
  /\ UNCHANGED <<dbVars, running, pc, work>>

\* A process dies and is started again.  A transaction whose COMMIT is under
\* way may or may not have been applied; any other is rolled back.
Crash(h) ==
  /\ running[h]
  /\ \/ UNCHANGED dbVars
     \/ \E j \in Jobs : /\ Host[j] = h
                        /\ pc[j] = "committing"
                        /\ CommitWrites(j)
  /\ running' = [running EXCEPT ![h] = FALSE]
  /\ pc' = [j \in Jobs |-> IF Host[j] = h THEN "idle" ELSE pc[j]]
  /\ work' = [j \in Jobs |-> IF Host[j] = h THEN NoWork ELSE work[j]]
  /\ UNCHANGED clock

\* The steps a started job takes of itself; it may end at its first only because
\* the ids are bounded.
Proceed(j) ==
  \/ Start(j) \/ StartError(j)
  \/ Fetch(j) \/ BeginPublish(j) \/ WriteRows(j) \/ Commit(j)
  \/ Fail(j)
  \/ RetainSelect(j) \/ RetainDelete(j) \/ RetainNext(j) \/ RetainReap(j)

\* A step of a started job: it may be cut short by an error at any other.
JobStep(j) ==
  \/ Proceed(j)
  \/ RefreshError(j) \/ CommitAnswerLost(j) \/ RetainError(j)

Next ==
  \/ Tick
  \/ \E h \in Hosts : Crash(h)
  \/ \E j \in Jobs : Trigger(j) \/ JobStep(j)

Spec == Init /\ [][Next]_vars

\* Go schedules every goroutine and the database answers what does not wait for
\* a lock.  No error is forced, the deadline of a context included: a job that
\* waits for the rows of another gets them only because the other goes on.
\* Nothing forces a trigger, a crash or a tick.
FairSpec == Spec /\ \A j \in Jobs : WF_vars(Proceed(j))

-----------------------------------------------------------------------------
(* Properties. *)

\* Every variable stays in its domain: in particular 'validating' is never
\* seen outside the publishing transaction (store.go:184,223).
TypeOK ==
  /\ clock \in Times
  /\ nextId \in 1..(MaxId + 1)
  /\ gens \in [Ids -> Generation]
  /\ agg \in [Dates -> {0} \cup Ids]
  /\ running \in [Hosts -> BOOLEAN]
  /\ pc \in [Jobs -> Steps]
  /\ work \in [Jobs -> Work]

\* A generation has its dataset exactly when it is published, and the dataset
\* is complete: a failed or incomplete refresh shows nothing, whatever crash
\* or lost answer ended it (README, "Realtime publication").
PublishedComplete ==
  \A i \in Ids :
    gens[i].rows = IF gens[i].status = "published" THEN "complete" ELSE "none"

\* Until a refresh publishes or fails, its generation is there, loading and of
\* its date: no Retain of another refresh, on this process or another, and no
\* job before a restart takes it away (store.go:326).
ActiveSurvives ==
  \A j \in Jobs :
    pc[j] \in Owning \ {"failing"} =>
      /\ gens[work[j].id].status = "loading"
      /\ gens[work[j].id].date = work[j].date

\* The aggregates of a date never come from a generation that was not
\* published for that date: they commit with it, whatever interleaving, crash
\* or lost answer (store.go:217-226).
AggregatesPublished ==
  \A d \in Dates :
    agg[d] # 0 =>
      \/ gens[agg[d]].status = "absent"
      \/ gens[agg[d]].status = "published" /\ gens[agg[d]].date = d

\* With one process the aggregates of the visible generation's date are that
\* generation's own: the page's cached figures and the realtime tables it falls
\* back to agree (cache.go:610-673, repository.go:27-32).
AggregatesCurrent ==
  Latest # 0 => agg[gens[Latest].date] = Latest

\* Keep generations newer than i are published.
Superseded(i) ==
  \E newer \in SUBSET WithStatus("published") :
    /\ Cardinality(newer) = Keep
    /\ \A k \in newer : i < k

\* A published generation only ever leaves by Retain, and only when Keep newer
\* published ones are there: not by a late Fail after a lost COMMIT answer,
\* not by two Retains working from old lists.
PublishedStays ==
  [][\A i \in WithStatus("published") :
       \/ gens'[i].status = "published"
       \/ gens'[i].status = "absent" /\ Superseded(i)]_vars

\* Every refresh ends and frees its process for the next one without a timeout
\* to help it: what a publication or a Retain waits for is always released
\* (cache.go:38, 75; store.go:326).
RefreshEnds == \A h \in Hosts : running[h] ~> ~running[h]

\* What readers see of the store.
Reader == INSTANCE Publication WITH latest <- Latest

\* With one process, every behaviour of the store is one of Publication:
\* readers see newer generations, each with its aggregates, atomically, and go
\* back neither in generations nor in dates (store.go:146-227, 295-329): a
\* refresh that began before midnight never replaces one that began after it.
ReaderSpec == Reader!Spec

\* Generations that may still be published: loading, or not handed out yet.
Open == WithStatus("loading") \cup {i \in Ids : i >= nextId}

Shared == INSTANCE SharedPublication WITH latest <- Latest, open <- Open

\* Whatever the number of processes, no generation is published twice or without
\* the aggregates of its date, and the visible one is never replaced by an older
\* one: not by a slow refresh that ends last, not by a prune (store.go:146-227,
\* 295-329; main.go:222 on several processes).
SharedSpec == Shared!Spec

-----------------------------------------------------------------------------
(* The parts of the inductive invariants that the proofs add. *)

\* Ids are handed out in order, each to one job.
IdsIssued ==
  /\ \A i \in Ids : i >= nextId => gens[i].status = "absent"
  /\ \A d \in Dates : agg[d] < nextId
  /\ \A j \in Jobs :
       pc[j] \in Owning => work[j].id \in Ids /\ work[j].id < nextId
  /\ \A j, k \in Jobs :
       j # k /\ pc[j] \in Owning /\ pc[k] \in Owning => work[j].id # work[k].id

\* A job runs within its timeout and its generation is not older than it.
Deadlines ==
  \A j \in Jobs :
    /\ pc[j] # "idle" =>
         work[j].begun <= clock /\ clock <= work[j].begun + Timeout
    /\ pc[j] \in Owning \ {"failing"} =>
         work[j].begun <= gens[work[j].id].started

\* What is about to be published has been validated.
Validated ==
  \A j \in Jobs :
    pc[j] \in {"publishing", "writing", "committing"} =>
      work[j].data = "complete"

Ownership == IdsIssued /\ Deadlines /\ ActiveSurvives /\ Validated

\* A published generation on a Retain's list stays superseded, and one that is
\* gone never comes back.
OldSuperseded ==
  \A j \in Jobs : work[j].sweep = "published" =>
    \A i \in work[j].old :
      /\ i < nextId
      /\ \/ gens[i].status = "absent"
         \/ gens[i].status = "published" /\ Superseded(i)

\* With one process, at most one job is under way.
Alone ==
  /\ \A j \in Jobs : pc[j] # "idle" => running[Host[j]]
  /\ \A j, k \in Jobs : pc[j] # "idle" /\ pc[k] # "idle" => j = k

\* So its generation is the last one handed out.
OwnsLast == \A j \in Jobs : pc[j] \in Owning => work[j].id = nextId - 1

\* No published generation is newer than its date's aggregates, and these are
\* not newer than the newest published generation.
AggregatesBetween ==
  /\ \A i \in WithStatus("published") : i <= agg[gens[i].date]
  /\ \A d \in Dates :
       agg[d] # 0 => \E i \in WithStatus("published") : agg[d] <= i


\* With one process, nothing is published for a later date than a job works
\* for: the job fixed its date when no other was under way.
DatesInOrder ==
  /\ \A d \in Dates : agg[d] # 0 => d <= DateOf[clock]
  /\ \A j \in Jobs : pc[j] # "idle" =>
       /\ work[j].date <= DateOf[clock]
       /\ \A d \in Dates : agg[d] # 0 => d <= work[j].date

=============================================================================
