# A TLA+ model of the dashboard

This directory holds TLA+ modules that model the program in `src/` (a Go web
dashboard fed by a data warehouse and by the core banking system Fincloud), TLC
configurations that check them, and proofs checked by TLAPS. Line numbers below
are those of `src/` at the modelled commit; `PROJECT.json` maps every definition
to the lines it stands for.

## The system

| Part | State it keeps | Operations | Who calls it, what it calls |
| --- | --- | --- | --- |
| **Refresher** `realtime/refresh.go` | `running` flag of the process | `Trigger`, `refresh`, `Schedule` (`Run` is not used by the program) | the scheduler goroutine and `POST /refresh`; calls the Fincloud client, then the store |
| **Snapshot store** `realtime/store.go` | `dashboard_snapshot_runs`, the four `dashboard_rt_*` tables | `Start`, `Fail`, `Publish`, `Retain`, `Latest` | the Refresher writes; pages read through `Latest` |
| **Fincloud client** `realtime/fincloud.go` | one session | `Fetch` (`login`, `download`, parsers) | called by `refresh`; external HTTP service |
| **Metric store** `dwh/cache.go` | `dashboard_daily_metrics`, `dashboard_materialization_runs`, `dashboard_maturity_preview` | `Materialize`, `MaterializeRealtime`, `LatestDWH`, the cached reads | the materialization scheduler, the `materialize` command, the store's `OnPublish`, pages |
| **Dashboard service** `dwh/dashboard.go` | the watermark | `SetWatermark`, `load`, `Provenance`, the pages' queries | handlers; reads the cache, falls back to the DWH or the snapshot |
| **DWH and Newsinergi repositories** `dwh/repository.go`, `newsinergi/` | none (read-only) | queries; account tables page by page (`dwh/nominative.go`) | dashboard service, metric store |
| **Sessions** `http/middleware/auth.go` | token map under a mutex | `Login`, `User`, `CheckCSRF`, `Logout`, `RequireAuth`, `RequireAdmin` | every request; reads the accounts |
| **User accounts** `users/` | `bm_users` | `Save`, `BootstrapAdmin`, `SeedCSV` | user forms, the commands `bootstrap-admin` and `seed-users` |
| **Report filter** `domain/filter.go` | none | `ParseFilterAt`, `Previous`, `PeriodStart` | handlers, dashboard service |
| **Mock service, views** | none | demo data, layout | handlers |

What is hard: several goroutines and possibly several server processes share one
MySQL database with no lock but its transactions; a refresh of ten minutes may be
cut off, crash or lose the answer of its COMMIT at any statement; pruning works
from a list it read earlier; the historical cache is filled by a scheduler and by
operators at the same time and only remembers a watermark; Fincloud's reports
are taken one after another while midnight and Fincloud's end of day pass; a request
asks up to three times who its user is while administrators, commands and other
requests of the same session change the answer; and a figure of a period is
summed from days that were read at different times, over months of different
lengths. `PROJECT.json` lists each of these under `hazards` at its line, with the
property that covers it or a note why none does.

## Modules

| Module | Role |
| --- | --- |
| `Refresh` | Refresher and snapshot store, statement by statement, for any number of jobs (goroutines) and hosts (processes) |
| `Publication` | abstract specification: what readers of the store are promised by one process |
| `SharedPublication` | abstract specification: what is left of it with several processes |
| `FincloudFetch` | `Fincloud.Fetch`: order of reports, re-login, date checks, against a calendar and Fincloud's business date |
| `Materializer` | `MetricStore.Materialize` run by schedulers and `materialize` commands |
| `PageRead` | one page request, query by query, over `Publication`, the DWH, the cache, the watermark and the calendar |
| `Accounts` | table `bm_users`, `Save`, and the commands `bootstrap-admin` and `seed-users` |
| `Sessions` | extends `Accounts`: sessions, access control and user forms, one request after another and beside each other |
| `Calendar` | filters, comparison periods and sample dates as operators, over Go's calendar |
| `Nominative` | extends `Calendar`: maturity totals and the account tables behind them |
| `Performance` | extends `Calendar`: the balance sheets a page loads, from cache and sources, and those that NIM averages |
| `Reports` | extends `Nominative` and `Performance`: booking and channeling figures of a period, from daily metrics or from the sources, as days pass |
| `MCRefresh`, `MCMaterializer`, `MCPageRead`, `MCSessions`, `MCReports` | definitions that give the constants small values |
| `RefreshProofs` | theorems about `Refresh` |
| `MaterializerProofs` | theorems about `Materializer` |
| `FetchProofs` | theorems about `FincloudFetch` |
| `PageReadProofs` | theorems about `PageRead` |
| `SessionsProofs` | theorems about `Sessions` and `Accounts` |
| `Sums` | laws of `SumFunction`, of which `Nominative` and `Reports` build their figures |
| `CalendarProofs` | lemmas about `Calendar` and `Performance`, for every date |
| `ReportsProofs` | extends the two: theorems about `Reports` and `Nominative` |

### Refresh

A job is a goroutine that may run `refresh`; `Host` says which process it is in,
and `running[h]` is that process's atomic flag. `pc[j]` follows the code:

| `pc` | Code |
| --- | --- |
| `starting` | `Store.Start` (`Start`, `StartError`) |
| `fetching` | `Fetcher.Fetch` (`Fetch`) |
| `publishing`, `writing`, `committing` | `Publish`: the UPDATE that takes the generation; rows and aggregates; COMMIT |
| `failing` | `Fail` |
| `selecting`, `deleting`, `reaping` | `Retain`: SELECT and one DELETE per generation, for `published` and then `failed`; the sweep of old `loading` rows |

The writes of the publishing transaction become visible in one step (`Commit`).
What it locks is modelled where another actor would wait: the aggregates of its
date (`AggregatesFree`) and its generation's row (`RetainReap`). `CommitAnswerLost` is a commit whose
answer never arrives: the code goes on to `Fail`. `RefreshError` is any error
before that, the ten-minute context included. `Crash` ends every job of a process
at any step, and a commit under way may or may not be applied. `Tick` cannot pass a
job's deadline: every call carries the context. A dataset is `complete` or
`incomplete`, which is all that `validate` decides.

### FincloudFetch

A report stands for the business date of its rows. The deposit and loan parsers
compare it with the date asked for, the savings report has none, a balance sheet
is asked for by date. Fincloud's business date turns with the calendar, except to the
days in `Late`, whose end of day comes some time after midnight. What Fincloud answers
is external.

### Materializer

`cached` is the set of days with rows in `dashboard_daily_metrics`, `complete` the
ranges of runs marked `complete` (no other status is ever read), `watermark` the
latest date common to the DWH's tables. A chunk is two steps because the code
makes two: the transaction (`Build`, `BuildError`) and the deferred status update
(`Record`, `RecordError`). `missingRanges` is stated as the set of maximal runs of
missing days and the chunks are built from the earliest. The values of the figures
are left out.

### PageRead

The store appears as its abstract specification `Publication`, which the store of one
process is proved to implement; that no generation is of an earlier date than the one it
replaces is part of it, and the proofs about pages rest on it. A figure is only where it was read from: the DWH or a generation.
`pc` follows a request:

| `pc` | Code |
| --- | --- |
| `routing`, `stamping` | `base` and `Provenance` (`Route`, `Stamp`, `StampError`) |
| `loading`, `scanning`, `summing` | the cache queries and their scan row by row (`ReadDates`, `ReadBooking`, `ScanRow`); `sourceFor` reads clock and watermark at every row |
| `filling` | after `Assemble`: one transaction per kind and source for what the cache lacks (`Group`, `LoadFrom`), or for the maturities (`FallBack`), and the preview (`ReadPreview`) |
| `done` | `Finish`; an error of any query (`ReadError`) shows no figures |

Kind "d" stands for the kinds that are read alike (savings, deposits, balance sheet),
"l" for loans with booking, "m" for maturities. `req.floor` is what was published for
the date when the request came, `seen` the newest figure of each day shown so far.

### Accounts and Sessions

`rows` is the table; rows are never deleted, so that a row's place is its id. Username,
role, branch and the active flag are what anything depends on; a password stands for its
hash, a username for all spellings the database holds equal. `bootstrap-admin` and
`seed-users` run at terminals, `cmd[t]`, statement by statement: the count or the lookup
is one step, the insert another.

A request's `pc` names the question it asks next. Each question is two steps, the session
under the lock (`Lookup`) and the account in the database:

| `pc` | Code |
| --- | --- |
| `auth`, `authRead` | `RequireAuth` (`Authenticate`) |
| `admin`, `adminRead` | `RequireAdmin` (`Administer`) |
| `base`, `baseRead` | `base`, which goes on without a user when there is none (`Base`) |
| `csrf`, `find`, `save` | `saveUser`: `CheckCSRF`, the look at the account to edit, `Save` |
| `csrf` | also `App.logout` and `App.refresh` (kind `post`): the one goes on to `Logout`, the other only triggers a job of `Refresh` |
| `logout` | `Logout`, after its `CheckCSRF` |
| `issue` | `Login`, after the password was checked |
| `shown` | what the last request showed, kept until the next one arrives |

A token stands for its CSRF token too. Three fields record what a request is entitled to
and steer nothing: `who`, the account of its session; `held`, the branches that account
was allowed at some moment of the request while it was active; `dead`, that the session
had been ended before the request came. `lease` says when each session was to end.
`Answers` includes "no user" always, for a query may fail.

### Calendar, Nominative, Performance and Reports

`Calendar` has `ParseFilterAt`, `Previous`, `PeriodStart`, `shift`, `points`, `nimDate` as
operators over date records, above Go's `time.Date` whose carry-over of days and months
is modelled. Texts of periods are left out: a period is the date that it names.

`Nominative` has the totals of `maturityMetrics`, MySQL's `DATEDIFF` computed from day
numbers, and the account table with its bucket, search, count, total, clamp, LIMIT and
OFFSET. A deposit is an account with branch, maturity and nominal.

`Performance` has the balance sheets of Kinerja Keuangan. `LoadCached` and `LoadSources` are
`load` with and without a metric store, as functions of what the cache had when the page read
it and what the sources have when they are asked; `MetricNim` is the figure that chunks and
publications store. A sheet from the cache is partial (assets and profit), and NIM is the set
of dates whose productive assets it averages: empty when it is hidden. Accounts and amounts
are left out, hence also that NIM is hidden when the productive assets add up to zero.

`Reports` has the days. `today` walks through the calendar; `begun`, `open`, `eod` are the
loans of the core banking, entered, closed, and in each day's snapshot; `signed` the
applications of Newsinergi. A refresh reads Newsinergi (`RefreshReads`) and publishes later
(`RefreshPublishes`), a chunk of past days likewise (`ChunkReads`, `ChunkWrites`), and
either may overwrite the other's rows. `stale` records the days whose rows miss a signing that
came after they were read. `Booking` and `Channeling` are what a page shows: sums of days,
or the source's own query when a day is missing. Amounts are 1 and branches matter to
channeling only; which days are cached and which generation is shown is the subject of
`Materializer` and `PageRead`.

`Reports` gives its two writers one Newsinergi. The server opens it with `APP_DBSTRING`
(`main.go:81`) and the `materialize` command with `DWH_DBSTRING` (`main.go:206`), each with the
database name replaced by `newsinergi`; the messages of both name `DWH_DBSTRING`. That the two lead
to the same data is an assumption about the deployment, on which `ChannelingExact` rests: otherwise
a command's chunk would store figures of a Newsinergi that no page and no refresh reads.

## Runs

| Run | Instance | What it shows |
| --- | --- | --- |
| `refresh_one_host` | 2 jobs in 1 process, 3 generations, 3 clock ticks over 2 dates, retention 1 | `ReaderSpec` (refinement of `Publication`), `AggregatesCurrent`, `PublishedComplete`, `TypeOK` |
| `refresh_two_hosts` | the same with 2 processes of one job each | `SharedSpec` (refinement of `SharedPublication`), `ActiveSurvives`, `AggregatesPublished`, `PublishedStays` |
| `refresh_live` | 2 processes, 2 generations, 2 ticks | `RefreshEnds`, through the waits for a day's aggregates and for a reaped row |
| `fetch` | 9 branches, 4 dates, a late one among them, unbounded expiries | `OnlySavingsEarly`, `FetchEnds`, `TypeOK` |
| `fetch_lagging` | 2 branches, 3 dates, one late | **violates** `OneBusinessDate`: see Findings |
| `materializer` | scheduler and command, 4 days in months of 2 from day 2 on, 2 failures | `CompleteCovered`, `NotAheadOfDWH`, `NoHoles`, `CatchesUp`, `TypeOK` |
| `page_hybrid` | 3 days in months of 2, starting on day 2, 2 generations, one page after another | `PublishedIsShown`, `HeadNotNewer`, `OwnDay`, `NoSubstitute`, `PreviewFollows`, `NeverOlder`, `TypeOK` |
| `page_default` | the same without realtime data | **violates** `DefaultIsLatest`: see Findings |
| `sessions` | 2 requests (one reads, one writes), 2 terminals, 3 accounts, 2 branches, 2 tokens, 2 clock ticks | `UniqueUsernames`, `EndedIsShut`, `ShownAsHeld`, `KeepsAccounts`, `AdminsFromAdmins`, `TypeOK` |
| `reports` | every day from 2024-01-01 to 2028-01-03, events from 31 December 2027 to 2 January 2028, 1 loan, 2 branches, 5 deposits, pages of 2 | `PeriodsOpenAgain`, `ComparedLikeWithLike`, `NimSamples`, `NimFromAnywhere`, `MaturitiesReconcile`, `PagesShowEachOnce`, `BookingsAgree`, `ChannelingExact`, `TypeOK` |
| `reports_booking` | the same three days, loans entered on the day they begin | **violates** `BookingIsSnapshot`: see Findings |
| `reports_nim` | as `reports` | **violates** `NimWholeOrHidden`: see Findings |

Bounds. `MaxId` = 3 with retention 1 lets a generation be superseded twice while
another job's list is stale; `MaxClock` = 3 with two ticks a day and a timeout of
one crosses midnight during a refresh and lets an abandoned generation outlive the
day. In the materializer four days in months of two, {2, 3} and {4, 5}, give a full month, a range that
starts inside one (after a watermark of 2) and months cut at the watermark, and two failures let both actors fail,
or one fail twice. Symmetry is used only in runs without liveness and between values that
no formula tells apart: the two jobs of one process (`refresh_one_host`; `ReaderSpec` has no
fairness), the terminals of `sessions`, the branches of `reports`. In `page_hybrid` day 2 ends a month
whose first day may be missing from the cache, so booking falls back to the newest
generation; midnight takes a page from day 2 to day 3, compared with day 1; and two
generations let one be published between any two queries.

In `sessions` the terminals are alike (symmetry), the requests are not: one reads pages,
Kinerja and the list of users, the other logs in and out and sends forms, so that every step of
a reader meets every edit. The four forms deactivate a user, move it to another branch, make
it an administrator (with a new password) and create the username that the seed file names too.
Two tokens let a login replace the other request's session; `TTL` = 0 and one tick let a
session expire between any two of its lookups. Three rows hold the administrator, the user
and the one created by a form or a seed.

In `reports` the laws of dates, maturities and paging depend on `today` alone and are checked
once for each of the 1461 days before `Window` (`Walking`), which hold a leap day, all lengths of
months and of their neighbours, and four turns of the year. For NIM each day is
taken with the DWH complete or without one month's sheet, with today loaded, published or neither, and
with the cache lacking the date, the date compared with, or every other day. Each day is taken as the latest date, with
the default filters of that day and the last whole periods before it, periods asked for in
the past and the future, both branches and all, all buckets and all searches. The five deposits fall due around a leap day and
the end of a quarter. The three days of `Window` lie in two months and two years, so that a
monthly and a yearly period begin inside it, and two changes (a loan entered, late
even, or closed, an application signed, also for an earlier day) meet every order of refresh, chunk and
midnight. Metrics of earlier days exist and hold zeros, which no formula distinguishes from
their absence but `Booking`'s and `Channeling`'s test for a missing day, exercised within `Window`.

`CHECK_DEADLOCK FALSE` is set for the fetch, which is one call that returns, for
`sessions`, where tokens, accounts and the clock run out, and for `reports`, whose walk ends.

Fairness. `Refresh`: weak fairness of each job's own steps (`Proceed`), since Go
schedules goroutines and the database answers whoever need not wait. The deadline helps nobody: no
error is fair, so a transaction that waits for another one's aggregates, or Retain for a
taken row, goes on only because the other commits, rolls back or dies. Only `StartError`
is among them, for ids are bounded. No trigger, tick or crash is fair. `Fetch` is one step
of a refresh; that its re-login ends is `FetchEnds`' subject alone. The aggregates of a day are one
lock here, taken in one step; InnoDB's finer ones (the gaps that two deletes lock) may
close a cycle, which it breaks with an error in one of the transactions, a
`RefreshError`. `FincloudFetch`: weak fairness of the fetch's steps, for the client has a
timeout of three minutes. `Materializer`: weak fairness of each scheduler, whose
ticker fires for as long as the process lives; failures are bounded by
`MaxFailures` (a month that fails for ever is never cached, and blocks those
after it); no command has to run.

Each property has a mutant: an operator beside the definition it mutates (dropped
guard, missing reset, swapped order) under which the property fails. They are
named in `PROJECT.json` and used by no specification.

## Findings

`fetch_lagging`: `refresh` fails with "Fincloud business date differs from refresh
date" when the dataset's date is not its own (`refresh.go:70-71`), but `Fetch` puts
the date it was given into the dataset (`fincloud.go:42`), so this never happens,
and `parseSavings` has no date to check. When Fincloud's business date still is the
day before when savings are read and its end of day completes before deposits are,
the dataset is accepted with the old savings under the new date. On other
days the order of the reports protects it, since the dated ones come later, and
on these the savings are at most of the day before (`OnlySavingsEarly`).

`page_default`: in dwh mode `main` stores the date `LatestCommon` answered at startup
(`main.go:96`) and sets no `App.Latest`, so pages default to that date for as long as the
process runs, while the scheduler moves the watermark. README.md:69 says the real source
uses the latest common DWH snapshot as the default date.

What the page properties leave open, and no document excludes: a page may mix
generations published while it was read (booking and outstanding, maturity totals and
preview), and a page asked for before the first publication of the day may show some
kinds and not others. Of totals and preview `PreviewFollows` says what is left: the preview is
of the totals' generation or a newer one, or of the DWH. It is missing below realtime totals when
midnight or the watermark passes between the two queries, since `cachedMaturities` asks for the
date's source again (`cache.go:243`) and the DWH's preview may not be materialized yet.

`reports_booking`: the booking of a period is the sum of the daily bookings cached for it
(`cache.go:343`), so a loan begun in the period and closed before the reporting date counts.
docs/DWH_AUDIT.md:13 defines booking on the reporting date's snapshot, whose limit :18 names
("cannot include loans booked and fully closed before the reporting date"); the code asks that
snapshot when a day of the period is not cached, and always for the card's account table. The card
therefore changes when the missing day is backfilled, and differs from its table.
`BookingsAgree` states when the two agree: every loan of the period was entered on its first day
and is still open.

`reports_nim`: when a page finds nothing of today in the cache and today's first generation is
published before the page asks the sources, `load` asks the realtime tables, which have today
alone, for the samples of the earlier months too (`dashboard.go:180`). `financial` then
takes the cached sheets of those months, which have no productive assets (`cache.go:334`),
for complete samples: income of the year is divided by today's assets alone. docs/DWH_AUDIT.md:20
says that NIM needs samples from January on and is hidden rather than shown from incomplete
history. The metrics of a day are right (`MetricNim`), so the page is too from its next request on;
without that publication in between the card agrees with the sources (`NimFromAnywhere`).

What the models of dates keep and no document excludes: a yearly filter whose latest date is
29 February is compared with 1 March of the years before, in `Previous` and in `shift` alike. In
`Sessions`: saving an unchanged form is refused like a missing account (MySQL counts changed rows),
a form undoes what another administrator saved since it was opened, and an administrator may
demote or deactivate the last one.

Documented limit, not a finding: with two processes the aggregates of the visible
generation's date may be an older generation's (`main.go:222`), and the visible generation
may be of an earlier date than the one it replaces: ids are issued when a refresh starts,
dates fixed before. `AggregatesCurrent` and `ReaderSpec` are therefore stated for one process,
`SharedSpec` for any number.

## Proofs

All theorems hold for every value of the constants that meets the modules' named
assumptions (`RefreshAssumption`: in particular a job's timeout is shorter than the
day after which loading rows are reaped, and the date does not go back with time; `MaterializerAssumption`: a month does not
end before its days; `PageReadAssumption`: a period does not start after the day that ends
it, and the maturity page loads nothing else; `SessionsAssumption`: "ALL" is not a branch, as `Validate` has it;
`NominativeAssumption` and `ReportsAssumption`: finitely many deposits, branches, loans and
days, deposits that fall due on dates, with whole nominals and account numbers of their own).

| Theorem | States | Argument |
| --- | --- | --- |
| `TypeCorrect` | `TypeOK` of `Refresh` | inductive by itself |
| `ActiveGenerationSurvives` | `ActiveSurvives` | with `Ownership`: ids are issued in order to one job each (`IdsIssued`), a job is within its deadline and its generation is not older than it (`Deadlines`), so it is never old enough to be reaped |
| `PublishedIsComplete`, `AggregatesArePublished` | `PublishedComplete`, `AggregatesPublished` | what is about to be published was validated (`Validated`) and is still loading (`Ownership`) |
| `PublishedGenerationsStay` | `PublishedStays` | `OldSuperseded`: a published generation on any job's list has Keep newer published ones, and pruning never removes one of these newest |
| `AggregatesAreCurrent` | `AggregatesCurrent`, assuming `OneProcess` | one job at a time (`Alone`) with the newest id (`OwnsLast`); `AggregatesBetween` bounds the aggregates from both sides |
| `StoreImplementsPublication` | `ReaderSpec`, assuming `OneProcess` | each step leaves `Latest` and the aggregates alone or is a `Publish` of a newer id; `DatesInOrder`: a job fixes its date when no other is under way, so dates are published in order too |
| `StoreImplementsSharedPublication` | `SharedSpec` | `CommitView`: what is published was loading until then; `OpenStep`: what is not loading nor still to be handed out never is again; `LatestStays`, `LatestAfter`: Retain spares the visible generation and COMMIT leaves the newer of the two |
| `RefreshGetsCloser` | every step leaves a running refresh alone or brings it closer to its end | the stages left, and within one stage of Retain the generations left to delete |
| `MaterializerTypeCorrect`, `CacheIsNotAhead` | `TypeOK`, `NotAheadOfDWH` | `InRange`: a chunk lies in its month, its range and below the watermark |
| `CompleteRunsAreCovered` | `CompleteCovered` | `Recorded`: the range about to be recorded is cached |
| `CacheHasNoHoles` | `NoHoles`, assuming `FromBackfill` | `NoneBehind`: behind every actor all days are cached, and in its month each missing day is in a range it still has; `MissingCovered` shows that `missingRanges` misses no day |
| `MaterializationGetsCloser` | the same for a materialization | the days before the end asked for, then the ranges left of the month |
| `TypeCorrect`, `SavingsAreCovered` of `FetchProofs` | `TypeOK`, `OnlySavingsEarly` of `FincloudFetch` | `Dated`: the savings are of a day from the first that Fincloud can be at, for the fetch's date, to the one it is at; a dated report behind them is accepted only if Fincloud has not passed the fetch's date. `ReportOrder` is where the order of the reports enters |
| `FetchGetsCloser` | the same for a fetch | the reports left, then whether the current one was retried |
| `TypeCorrect` of `PageReadProofs` | `TypeOK` of `PageRead` | part of its invariant `IInv` |
| `FiguresAreOfTheirDay` | `OwnDay` | `SourcesOK`: every row, kept value, query and figure is of the DWH for a `Settled` day (past, or reached by the watermark, hence never live again), or of a generation published for its day that is not older than the head's and than what pages showed of that day |
| `NothingStandsIn` | `NoSubstitute` | the same: a day that is still live is not `Settled`, so nothing on the page is of the DWH |
| `HeadIsNotNewer` | `HeadNotNewer` | the same: the head was stamped first, and aggregates and generations only grow |
| `PagesNeverGetOlder` | `NeverOlder` | the same, with `seen` among the lower bounds; `Began`: the DWH gets no day while a request from before that day's midnight lasts |
| `PublishedGetsShown` | `PublishedIsShown` | `PageOK`: while today's generation is owed to the page, each figure is in a row still to be scanned (`RowsFound`), kept, shown, or pending in a query (`FillingUp`) |
| `PreviewIsNotOlder` | `PreviewFollows` | `PreviewOK`: while the preview's query is pending (`Awaited`) its source is the totals' or the DWH, and if totals came from the DWH the day is cached; a fallback begins with nothing shown (`FallsBack`) |
| `TypeCorrect` of `SessionsProofs` | `TypeOK` of `Sessions` | part of `Invariant` |
| `EndedStaysShut` | `EndedIsShut` | `SessionsOK`: what is still in the table ends when it was to end, and a token is drawn once; so `current` finds no ended session (`EndedIsNotLive`) |
| `ShownWasHeld` | `ShownAsHeld` | `AsksOwn`: until it is over, a request knows only the account of its own session, and `held` covers what that account is allowed now; whoever `User` answers is thus in `held` (`AnswersOwn`) |
| `AccountsKept`, `AdminsGiven` | `KeepsAccounts`, `AdminsFromAdmins` | a request on its way to a form has "ALL" in `held` (`Manages`); `RowsMove` lists all steps that write accounts |
| `UsernamesUnique` | `UniqueUsernames` | `InsertFacts`, `UpdateFacts`: the unique key decides in the step that writes |
| `FiltersOpenAgain` | `PeriodsOpenAgain` | `ParseFilterIs`: a filter ends on the period's last day or on the latest date |
| `FiguresAreComparable` | `ComparedLikeWithLike` | `PointIs` and `ShiftMonthsIs`: the chart's points, month by month; `LastPoints`: its last but one is `Previous` |
| `OneSampleEachMonth` | `NimSamples` | `NimDateIs`: what a sample's date is when its month is shorter |
| `CacheKeepsNim` | `NimFromAnywhere` | `CardOfSources`, `CardOfCache`: both ways the samples averaged are those of the stored metric (`MetricNimIs`), or none |
| `TypeCorrect` of `ReportsProofs` | `TypeOK` of `Reports` | `Typed`: the counts of a row are bounded by the applications signed so far (`RowsBounded`), and rows that a writer still holds are of past days or today |
| `ChannelingIsExact` | `ChannelingExact` | `Fresh`: rows that are written and rows that are still to be written are those of the applications signed by now, but for the days that miss one |
| `EitherWayOneBooking` | `BookingsAgree` | `CardinalityByKey`: the period's loans counted day by day |
| `CardsAndTables` | `MaturitiesReconcile` | `DayNumbersGrow`: MySQL's day numbers are in the order of dates, so no difference is negative; `ThreeRanges`, `WeeksAddUp`: the groups are apart and miss none |
| `PagesAreWhole` | `PagesShowEachOnce` | `RanksAll`: each number of predecessors belongs to one account; `FlattenCuts`: pages are consecutive cuts of the listing |

`Sessions`' properties are not inductive: that an answer belongs to the request's account
rests on the session table, which other requests change, and on the accounts, which
administrators and commands change. `EnvironmentKeeps` is the lemma about all of these: a request that
does nothing stays as it should be while sessions end, accounts are added or changed and
time passes.

The first four properties of `Reports` speak of `today` alone: that it is a date (`TodayIsDate`)
is all the invariant they need, and the lemmas of `CalendarProofs` hold for every date of Go's
calendar, where TLC walks through four years. `MaturitiesReconcile` and `PagesShowEachOnce` are in the
same way lemmas about every date, branch, bucket, search and set of deposits (`CardsReconcile`,
`PagesCoverAll`). `TypeOK` is not inductive: that a count stays within `MaxChanges` follows from
`Changes`, and rows that a refresh or a chunk has computed and not written yet must be as
good as written ones. Nor is `ChannelingExact`, of which `Fresh` says the same for what a
writer holds: between its read and its write another one may have replaced the rows, and
applications may have been signed.

Sums are folds over sets. `Sums` starts from the library's recursive equation for them
and proves each law by contradiction from a smallest set that breaks it (`SetInduction`), since the
library's induction theorem takes an operator as a parameter. Accounts are listed by how
many others have smaller numbers (`InOrder`), the meaning of ORDER BY by a unique key:
no recursive sort is needed to say it, nor to prove that the list holds every account once.

Only model-checked: the liveness properties `RefreshEnds`, `FetchEnds` and `CatchesUp`, which
rest on fairness and so on ENABLED, out of the prover's reach. The `GetsCloser` theorems are their
part that is a matter of steps: nothing that others do sets a refresh, a fetch or a
materialization back, so each ends if its own steps are taken. That a process is always able to take
one (`AggregatesFree` and `RetainReap` wait for others), and that a failed chunk is built by a later tick,
is shown by TLC alone. Every other property of the passing runs has a theorem.

## Not modelled

In `PageRead`: the Newsinergi figures of the loan page (they are in `Reports`), the older
months' samples that NIM needs (they are in `Performance`), and more than one process (each has its own watermark). It assumes that no
request lasts from before midnight until the DWH has loaded the day that then began, and
that a branch has rows of every kind.

In `Sessions`: cookies' attributes, the random drawing of tokens (they are all different),
request parsing and the login page, which redirects whoever is logged in. In `Reports`:
amounts, rounding and times of day; the account tables of other categories than maturities,
whose predicates are columns of tables outside this repository.

The content of reports and figures (ratios of one balance sheet, parsing of cells), SQL over tables of
other systems, formatting and pages, and the demo data of the mock service, which has no state. In `Materializer`, data that
changes in the DWH after a day was cached: the code
never notices and no document says it should; an operator's `--force` rebuilds it.
A `materialize` command that starts after the completed range leaves a hole for good,
as documented ("fills dates after the last completed range"); `NoHoles` excludes it.

## Plan

The modules were written in the order of what depends on what: publication (`Refresh`), what it
publishes (`FincloudFetch`), the historical cache (`Materializer`), what a page shows
of all three (`PageRead`), who may see it (`Accounts`, `Sessions`) and which dates and days its
figures come from (`Calendar`, `Nominative`, `Performance`, `Reports`). What is left, in order:

1. Versions of a day's data in `Materializer`, for stale caching and forced rebuilds of
   DWH figures, as `Reports` has them for channeling, with the proof that a cached day is as
   fresh as its last build.
2. That a page request, too, gets closer to its end with every step, whatever is published, loaded
   or materialized meanwhile.
