--------------------------- MODULE FincloudFetch ---------------------------
(***************************************************************************)
(* Fincloud.Fetch (internal/service/realtime/fincloud.go): one login, three *)
(* "Today" reports and one balance sheet per branch, each downloaded again *)
(* at most once after a new login when the session has expired.            *)
(*                                                                         *)
(* A report stands for the business date its rows are of.  The savings     *)
(* report has no date column, so nothing checks its date; the deposit and  *)
(* loan rows carry theirs; a balance sheet is asked for by date.           *)
(***************************************************************************)
EXTENDS Integers, Sequences

CONSTANTS LastBranch,   \* branches are 0..LastBranch (000..008)
          Late,         \* the days whose end of day comes after midnight
          MaxDate       \* bound on the calendar

ASSUME FetchAssumption ==
  LastBranch \in Nat /\ MaxDate \in Nat /\ Late \subseteq Nat

VARIABLES today,     \* the calendar date in WIB
          bank,      \* Fincloud's business date
          session,   \* whether Fincloud still accepts the session in use
          pc,        \* where Fetch is
          date,      \* the date Fetch was called with
          retried,   \* it has logged in again for the current report
          taken      \* the dates of the reports parsed so far, in order

vars == <<today, bank, session, pc, date, retried, taken>>

\* The reports in the order Fetch asks for them.
BalanceSheets == [i \in 1..(LastBranch + 1) |-> "balance"]
SavingsLast == <<"deposits", "loans", "savings">>  \* mutant: the order swapped
TodayReports == <<"savings", "deposits", "loans">>
Reports == TodayReports \o BalanceSheets

Init ==
  /\ today = 0 /\ bank = 0
  /\ session = "none"
  /\ pc = "idle"
  /\ date = 0 /\ retried = FALSE
  /\ taken = <<>>

-----------------------------------------------------------------------------
(* Fetch. *)

\* Mutant of Begin: the date is taken in a zone ahead of Fincloud's.
BeginAhead ==
  /\ pc = "idle"
  /\ date' = today + 1
  /\ pc' = "login"
  /\ UNCHANGED <<today, bank, session, retried, taken>>

\* refresh fixes the date, then calls Fetch with it.
Begin ==
  /\ pc = "idle"
  /\ date' = today
  /\ pc' = "login"
  /\ UNCHANGED <<today, bank, session, retried, taken>>

Login ==
  /\ pc = "login"
  /\ session' = "live"
  /\ pc' = "download"
  /\ UNCHANGED <<today, bank, date, retried, taken>>

\* The date of the rows Fincloud answers with.
AnswerDate(report) == IF report = "balance" THEN date ELSE bank

\* parseDeposits and parseLoans compare every row's date with the date asked
\* for; parseSavings has none to compare, parseBalance asked for its own.
Accepts(report, rows) ==
  report \in {"deposits", "loans"} => rows = date

\* The next report arrives; after the last one validate accepts the dataset.
Download ==
  /\ pc = "download"
  /\ session = "live"
  /\ LET report == Reports[Len(taken) + 1]
         rows == AnswerDate(report)
     IN  IF Accepts(report, rows)
         THEN /\ taken' = Append(taken, rows)
              /\ retried' = FALSE
              /\ pc' = IF Len(taken) + 1 = Len(Reports) THEN "done" ELSE "download"
         ELSE pc' = "failed" /\ UNCHANGED <<taken, retried>>
  /\ UNCHANGED <<today, bank, date, session>>

\* Mutant of DownloadExpired: a new login whenever the session has expired.
DownloadUntilLive ==
  /\ pc = "download"
  /\ session = "expired"
  /\ pc' = "login"
  /\ UNCHANGED <<today, bank, date, session, retried, taken>>

\* 401 or 403: log in again, once per report.
DownloadExpired ==
  /\ pc = "download"
  /\ session = "expired"
  /\ IF retried
     THEN pc' = "failed" /\ UNCHANGED retried
     ELSE pc' = "login" /\ retried' = TRUE
  /\ UNCHANGED <<today, bank, date, session, taken>>

\* Any other error of a call, an invalid report included, ends the fetch.
CallError ==
  /\ pc \in {"login", "download"}
  /\ pc' = "failed"
  /\ UNCHANGED <<today, bank, date, session, retried, taken>>

-----------------------------------------------------------------------------
(* The calendar and Fincloud. *)

\* Fincloud's business date turns with the calendar, except to a late day.
Midnight ==
  /\ today < MaxDate
  /\ bank = today
  /\ today' = today + 1
  /\ bank' = IF today' \in Late THEN bank ELSE today'
  /\ UNCHANGED <<session, pc, date, retried, taken>>

\* The end of day of a late day.
EndOfDay ==
  /\ bank < today
  /\ bank' = bank + 1
  /\ UNCHANGED <<today, session, pc, date, retried, taken>>

\* Fincloud drops the session in use, any number of times.
Expire ==
  /\ session = "live"
  /\ session' = "expired"
  /\ UNCHANGED <<today, bank, pc, date, retried, taken>>

FetchStep == Begin \/ Login \/ Download \/ DownloadExpired \/ CallError

Next == FetchStep \/ Midnight \/ EndOfDay \/ Expire

Spec == Init /\ [][Next]_vars

\* The goroutine runs and each of its calls returns within the client's three
\* minutes.
FairSpec == Spec /\ WF_vars(FetchStep)

-----------------------------------------------------------------------------
(* Properties. *)

\* Every variable stays in its domain; the date is one the bank has reached or
\* is about to (refresh.go:32-35).
TypeOK ==
  /\ today \in 0..MaxDate /\ bank \in 0..today
  /\ session \in {"none", "live", "expired"}
  /\ pc \in {"idle", "login", "download", "done", "failed"}
  /\ date \in 0..today
  /\ retried \in BOOLEAN
  /\ Len(taken) <= Len(Reports)

\* A dataset that Fetch returns has every report, and every report but the savings
\* is of the date Fetch was called with. The undated savings are of that date too,
\* whenever midnight comes, because the dated reports are read after them; only on
\* a day whose end of day comes late may they be of the day before
\* (fincloud.go:42-88, refresh.go:70-72).
OnlySavingsEarly ==
  pc = "done" =>
    /\ Len(taken) = Len(Reports)
    /\ \A i \in 2..Len(taken) : taken[i] = date
    /\ taken[1] = date \/ (taken[1] = date - 1 /\ date \in Late)

\* All data that refresh publishes is of its own date: it compares the dataset's
\* date with it (refresh.go:71).
OneBusinessDate ==
  pc = "done" => \A i \in 1..Len(taken) : taken[i] = date

\* A fetch ends however often its sessions expire: a report is retried once
\* (fincloud.go:53-58, 70-75).
FetchEnds == pc = "login" ~> pc \in {"done", "failed"}

=============================================================================
