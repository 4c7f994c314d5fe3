---------------------------- MODULE FetchProofs ----------------------------
(***************************************************************************)
(* Proofs about a fetch for any number of branches, dates and expiries.    *)
(***************************************************************************)
EXTENDS FincloudFetch, SequenceTheorems, TLAPS

\* The order of the reports is what protects the undated one.
LEMMA ReportOrder ==
  /\ Len(Reports) = LastBranch + 4
  /\ Reports[1] = "savings" /\ Reports[2] = "deposits" /\ Reports[3] = "loans"
  /\ \A i \in 4..Len(Reports) : Reports[i] = "balance"
<1> DEFINE Kinds == {"savings", "deposits", "loans", "balance"}
<1>1. LastBranch \in Nat
  BY FetchAssumption
<1>2. TodayReports \in Seq(Kinds) /\ Len(TodayReports) = 3
  BY DEF TodayReports
<1>3. BalanceSheets \in Seq(Kinds) /\ Len(BalanceSheets) = LastBranch + 1
      /\ \A i \in 1..(LastBranch + 1) : BalanceSheets[i] = "balance"
  <2>1. /\ BalanceSheets \in [1..(LastBranch + 1) -> Kinds]
        /\ \A i \in 1..(LastBranch + 1) : BalanceSheets[i] = "balance"
    BY DEF BalanceSheets
  <2>2. LastBranch + 1 \in Nat
    BY <1>1
  <2>3. BalanceSheets \in Seq(Kinds)
    BY <2>1, <2>2, SeqDef
  <2>4. Len(BalanceSheets) \in Nat /\ DOMAIN BalanceSheets = 1..Len(BalanceSheets)
    BY <2>3, LenProperties
  <2>5. DOMAIN BalanceSheets = 1..(LastBranch + 1)
    BY <2>1
  <2>6. Len(BalanceSheets) = LastBranch + 1
    BY <2>2, <2>4, <2>5
  <2> QED
    BY <2>1, <2>3, <2>6
<1>4. /\ Len(Reports) = LastBranch + 4
      /\ \A i \in 1..Len(Reports) :
           Reports[i] = IF i <= 3 THEN TodayReports[i] ELSE BalanceSheets[i - 3]
  <2> HIDE DEF Kinds
  <2>1. TodayReports \in Seq(Kinds) /\ BalanceSheets \in Seq(Kinds)
    BY <1>2, <1>3
  <2>2. /\ Len(TodayReports \o BalanceSheets) = Len(TodayReports) + Len(BalanceSheets)
        /\ \A i \in 1..Len(TodayReports) + Len(BalanceSheets) :
             (TodayReports \o BalanceSheets)[i] =
               IF i <= Len(TodayReports) THEN TodayReports[i]
               ELSE BalanceSheets[i - Len(TodayReports)]
    BY <2>1, ConcatProperties
  <2>3. Len(TodayReports) = 3 /\ Len(BalanceSheets) = LastBranch + 1
    BY <1>2, <1>3
  <2>4. Reports = TodayReports \o BalanceSheets
    BY DEF Reports
  <2> QED
    BY <1>1, <2>2, <2>3, <2>4
<1>5. \A i \in 4..Len(Reports) : Reports[i] = "balance"
  <2> TAKE i \in 4..Len(Reports)
  <2>1. i \in 1..Len(Reports) /\ ~(i <= 3) /\ i - 3 \in 1..(LastBranch + 1)
    BY <1>1, <1>4
  <2> QED
    BY <1>3, <1>4, <2>1
<1>6. 1 \in 1..Len(Reports) /\ 2 \in 1..Len(Reports) /\ 3 \in 1..Len(Reports)
  BY <1>1, <1>4
<1>7. Reports[1] = TodayReports[1] /\ Reports[2] = TodayReports[2] /\ Reports[3] = TodayReports[3]
  BY <1>4, <1>6
<1> QED
  BY <1>4, <1>5, <1>7 DEF TodayReports

-----------------------------------------------------------------------------
(* The inductive invariant. *)

Types ==
  /\ today \in 0..MaxDate /\ bank \in 0..today
  /\ session \in {"none", "live", "expired"}
  /\ pc \in {"idle", "login", "download", "done", "failed"}
  /\ date \in 0..today
  /\ retried \in BOOLEAN
  /\ taken \in Seq(Int) /\ Len(taken) <= Len(Reports)

\* While the fetch goes on there is a next report; it ends with all of them.
Progress ==
  /\ pc = "idle" => taken = <<>>
  /\ pc \in {"login", "download"} => Len(taken) < Len(Reports)
  /\ pc = "done" => Len(taken) = Len(Reports)

\* Fincloud's date is the calendar's or, on a late day, the day before. The
\* savings are of a day from the fetch's first possible one to Fincloud's, and a
\* dated report behind them shows that Fincloud had not passed the fetch's date.
Dated ==
  /\ today - 1 <= bank /\ (today \notin Late => bank = today)
  /\ date - 1 <= bank /\ (date \notin Late => date <= bank)
  /\ Len(taken) >= 1 =>
       /\ date - 1 <= taken[1] /\ taken[1] <= bank
       /\ date \notin Late => date <= taken[1]
  /\ Len(taken) >= 2 => taken[1] <= date
  /\ \A i \in 2..Len(taken) : taken[i] = date

IInv == Types /\ Progress /\ Dated

\* Nothing is taken yet.
LEMMA InitOK ==
  ASSUME Init
  PROVE  IInv
<1>1. taken \in Seq(Int) /\ Len(taken) = 0
  BY EmptySeq DEF Init
<1>2. Len(Reports) \in Nat /\ Len(Reports) > 0
  BY ReportOrder, FetchAssumption
<1>3. /\ today = 0 /\ bank = 0 /\ session = "none" /\ pc = "idle" /\ date = 0
      /\ retried = FALSE /\ taken = <<>> /\ MaxDate \in Nat
  BY FetchAssumption DEF Init
<1>4. Types /\ Progress
  <2>1. Len(taken) <= Len(Reports)
    BY <1>1, <1>2
  <2>2. today \in 0..MaxDate /\ bank \in 0..today /\ date \in 0..today
    BY <1>3
  <2>3. Types
    BY <1>1, <1>3, <2>1, <2>2, Zenon DEF Types
  <2> QED
    BY <1>3, <2>3, Zenon DEF Progress
<1>5. Dated
  BY <1>1, <1>3 DEF Dated
<1> QED
  BY <1>4, <1>5 DEF IInv

\* A report that arrives is appended if its date is right.
LEMMA DownloadKeeps ==
  ASSUME IInv, Download
  PROVE  IInv'
<1> DEFINE n == Len(taken) + 1
           rows == AnswerDate(Reports[n])
<1>1. /\ pc = "download" /\ bank' = bank /\ today' = today /\ date' = date
      /\ session' = session
  BY DEF Download
<1>2. /\ Len(taken) \in Nat /\ taken \in Seq(Int) /\ n \in 1..Len(Reports)
      /\ today \in Int /\ bank \in Int /\ date \in Int /\ retried \in BOOLEAN
  BY <1>1, LenProperties, ReportOrder, FetchAssumption DEF IInv, Types, Progress
<1>3. CASE ~Accepts(Reports[n], rows)
  <2>1. pc' = "failed" /\ taken' = taken /\ retried' = retried
    BY <1>3 DEF Download
  <2> QED
    BY <1>1, <2>1 DEF IInv, Types, Progress, Dated
<1>4. CASE Accepts(Reports[n], rows)
  <2>1. /\ taken' = Append(taken, rows) /\ retried' = FALSE
        /\ pc' = IF n = Len(Reports) THEN "done" ELSE "download"
    BY <1>4 DEF Download
  <2>2. rows \in Int
    BY <1>2 DEF AnswerDate
  <2>3. /\ taken' \in Seq(Int) /\ Len(taken') = n
        /\ \A i \in 1..Len(taken) : taken'[i] = taken[i]
        /\ taken'[n] = rows
    BY <1>2, <2>1, <2>2, AppendProperties
  <2>4. Types'
    <3>1. retried' \in BOOLEAN /\ pc' \in {"idle", "login", "download", "done", "failed"}
      BY <2>1
    <3>2. Len(taken') <= Len(Reports)
      BY <1>2, <2>3
    <3> QED
      BY <1>1, <2>3, <3>1, <3>2 DEF IInv, Types
  <2>6. Len(Reports) \in Nat /\ Len(Reports) > 0
    BY ReportOrder, FetchAssumption
  <2>7. Progress'
    BY <1>2, <2>1, <2>3, <2>6 DEF Progress
  <2>5. Dated'
    <3>0. /\ today - 1 <= bank /\ (today \notin Late => bank = today)
          /\ date - 1 <= bank /\ (date \notin Late => date <= bank)
          /\ Len(taken) >= 1 => taken[1] \in Int
      BY <1>2, ElementOfSeq DEF IInv, Dated
    <3>2. CASE n = 1
      <4>1. rows = bank
        BY <3>2, ReportOrder DEF AnswerDate
      <4> QED
        BY <1>1, <1>2, <2>2, <2>3, <3>0, <3>2, <4>1 DEF Dated
    <3>3. CASE n # 1
      <4>1. rows = date
        <5>1. CASE n \in {2, 3}
          BY <1>4, <5>1, ReportOrder DEF Accepts
        <5>2. CASE n \in 4..Len(Reports)
          BY <5>2, ReportOrder DEF AnswerDate
        <5> QED
          BY <1>2, <3>3, <5>1, <5>2, ReportOrder, FetchAssumption
      <4>2. taken[1] <= date
        <5>1. CASE n = 2
          <6>1. rows = bank
            BY <5>1, ReportOrder DEF AnswerDate
          <6> QED
            BY <1>2, <3>0, <4>1, <5>1, <6>1 DEF IInv, Dated
        <5>2. CASE n > 2
          BY <1>2, <5>2 DEF IInv, Dated
        <5> QED
          BY <1>2, <3>3, <5>1, <5>2
      <4>3. /\ taken'[1] = taken[1] /\ \A i \in 2..Len(taken) : taken'[i] = date
            /\ date - 1 <= taken[1] /\ taken[1] <= bank
            /\ date \notin Late => date <= taken[1]
        BY <1>2, <2>3, <3>3 DEF IInv, Dated
      <4>4. \A i \in 2..n : taken'[i] = date
        BY <1>2, <2>3, <4>1, <4>3
      <4> QED
        BY <1>1, <1>2, <2>3, <3>0, <4>2, <4>3, <4>4 DEF Dated
    <3> QED
      BY <3>2, <3>3
  <2> QED
    BY <2>4, <2>5, <2>7 DEF IInv
<1> QED
  BY <1>3, <1>4

\* The invariant is inductive.
LEMMA NextKeeps ==
  ASSUME IInv, [Next]_vars
  PROVE  IInv'
<1>0. /\ today \in Int /\ bank \in Int /\ date \in Int /\ MaxDate \in Nat
      /\ Len(Reports) \in Nat /\ Len(Reports) > 0
  BY ReportOrder, FetchAssumption DEF IInv, Types
<1>1. CASE UNCHANGED vars
  BY <1>1 DEF vars, IInv, Types, Progress, Dated
<1>2. CASE Begin
  <2>1. Len(taken) = 0 /\ taken' = taken
    BY <1>2, EmptySeq DEF Begin, IInv, Progress
  <2> QED
    BY <1>0, <1>2, <2>1 DEF Begin, IInv, Types, Progress, Dated
<1>3. CASE Login
  BY <1>3 DEF Login, IInv, Types, Progress, Dated
<1>4. CASE Download
  BY <1>4, DownloadKeeps
<1>5. CASE DownloadExpired
  BY <1>5 DEF DownloadExpired, IInv, Types, Progress, Dated
<1>6. CASE CallError
  BY <1>6 DEF CallError, IInv, Types, Progress, Dated
<1>7. CASE Midnight
  <2>1. /\ today' = today + 1 /\ today < MaxDate /\ bank = today
        /\ bank' = IF today' \in Late THEN bank ELSE today'
        /\ session' = session /\ pc' = pc /\ date' = date /\ retried' = retried
        /\ taken' = taken
    BY <1>7 DEF Midnight
  <2>2. Types' /\ Progress'
    BY <1>0, <2>1 DEF IInv, Types, Progress
  <2>3. Dated'
    <3>1. Len(taken) >= 1 => taken[1] \in Int
      BY LenProperties, ElementOfSeq DEF IInv, Types
    <3>2. /\ today' - 1 <= bank' /\ (today' \notin Late => bank' = today')
          /\ bank <= bank' /\ bank' \in Int
      BY <1>0, <2>1
    <3> QED
      BY <1>0, <2>1, <3>1, <3>2 DEF IInv, Dated
  <2> QED
    BY <2>2, <2>3 DEF IInv
<1>8. CASE EndOfDay
  <2>1. /\ bank < today /\ bank' = bank + 1 /\ today' = today /\ session' = session
        /\ pc' = pc /\ date' = date /\ retried' = retried /\ taken' = taken
    BY <1>8 DEF EndOfDay
  <2>2. Types' /\ Progress'
    BY <1>0, <2>1 DEF IInv, Types, Progress
  <2>3. Dated'
    <3>1. Len(taken) >= 1 => taken[1] \in Int
      BY LenProperties, ElementOfSeq DEF IInv, Types
    <3> QED
      BY <1>0, <2>1, <3>1 DEF IInv, Dated
  <2> QED
    BY <2>2, <2>3 DEF IInv
<1>9. CASE Expire
  BY <1>9 DEF Expire, IInv, Types, Progress, Dated
<1> QED
  BY <1>1, <1>2, <1>3, <1>4, <1>5, <1>6, <1>7, <1>8, <1>9 DEF Next, FetchStep

-----------------------------------------------------------------------------
(* The theorems. *)

\* The invariant holds in every state of a fetch.
LEMMA Invariant == Spec => []IInv
<1>1. Init => IInv
  BY InitOK
<1>2. IInv /\ [Next]_vars => IInv'
  BY NextKeeps
<1> QED
  BY <1>1, <1>2, PTL DEF Spec

\* Every variable of a fetch keeps its type, and no report is asked for beyond the
\* last (fincloud.go Fetch).
THEOREM TypeCorrect == Spec => []TypeOK
<1>1. IInv => TypeOK
  BY DEF IInv, Types, TypeOK
<1> QED
  BY <1>1, Invariant, PTL

\* A fetch that succeeds has every report, all but the savings of the date it was
\* called with; the savings too unless the end of that day comes late, whenever
\* midnight falls and however often sessions expire: the undated savings are read
\* before the dated deposits (fincloud.go:43-50).
THEOREM SavingsAreCovered == Spec => []OnlySavingsEarly
<1>1. IInv => OnlySavingsEarly
  <2> SUFFICES ASSUME IInv, pc = "done"
               PROVE  /\ Len(taken) = Len(Reports)
                      /\ \A i \in 2..Len(taken) : taken[i] = date
                      /\ taken[1] = date \/ (taken[1] = date - 1 /\ date \in Late)
    BY DEF OnlySavingsEarly
  <2>1. Len(taken) = Len(Reports) /\ Len(taken) \in Nat /\ Len(taken) >= 2
    BY ReportOrder, FetchAssumption DEF IInv, Progress
  <2>2. Dated /\ date \in Int /\ taken[1] \in Int
    BY <2>1, ElementOfSeq DEF IInv, Types
  <2> QED
    BY <2>1, <2>2 DEF Dated
<1> QED
  BY <1>1, Invariant, PTL
-----------------------------------------------------------------------------
(* A fetch has finitely many steps. *)

Running == pc \in {"login", "download"}

\* A report more, the one new login of the report that is on, or the end of a login;
\* or the fetch is over.
Closer ==
  \/ pc' \notin {"login", "download"}
  \/ Len(taken) < Len(taken') /\ Len(taken') <= Len(Reports)
  \/ taken' = taken /\ ~retried /\ retried'
  \/ taken' = taken /\ retried' = retried /\ pc = "login" /\ pc' = "download"

\* A fetch that is under way is left alone or brought closer to its end by every step,
\* for any number of branches: sessions may expire without end, but each report is
\* downloaded at most twice (fincloud.go:53-58, 70-75).
THEOREM FetchGetsCloser ==
  Spec => [][Running => Closer \/ UNCHANGED <<pc, date, retried, taken>>]_vars
<1>1. ASSUME IInv, [Next]_vars, Running
      PROVE  Closer \/ UNCHANGED <<pc, date, retried, taken>>
  <2>1. CASE UNCHANGED vars
    BY <2>1 DEF vars
  <2>2. CASE Begin
    BY <1>1, <2>2 DEF Begin, Running
  <2>3. CASE Login
    BY <2>3 DEF Login, Closer
  <2>4. CASE Download
    <3>1. CASE taken' = Append(taken, AnswerDate(Reports[Len(taken) + 1]))
      <4>1. Len(taken') = Len(taken) + 1 /\ Len(taken) \in Nat
        <5>1. taken \in Seq(Int) /\ bank \in Int /\ date \in Int
          BY <1>1 DEF IInv, Types
        <5>2. AnswerDate(Reports[Len(taken) + 1]) \in Int
          BY <5>1 DEF AnswerDate
        <5> QED
          BY <3>1, <5>1, <5>2, AppendProperties, LenProperties
      <4>2. IInv'
        BY <1>1, NextKeeps
      <4>3. Len(taken') <= Len(Reports)
        BY <4>2 DEF IInv, Types
      <4> QED
        BY <4>1, <4>3 DEF Closer
    <3>2. CASE pc' = "failed"
      BY <3>2 DEF Closer
    <3> QED
      BY <2>4, <3>1, <3>2 DEF Download
  <2>5. CASE DownloadExpired
    <3>1. CASE retried
      BY <2>5, <3>1 DEF DownloadExpired, Closer
    <3>2. CASE ~retried
      BY <2>5, <3>2 DEF DownloadExpired, Closer
    <3> QED
      BY <3>1, <3>2
  <2>6. CASE CallError
    BY <2>6 DEF CallError, Closer
  <2>7. CASE Midnight \/ EndOfDay \/ Expire
    BY <2>7 DEF Midnight, EndOfDay, Expire
  <2> QED
    BY <1>1, <2>1, <2>2, <2>3, <2>4, <2>5, <2>6, <2>7 DEF Next, FetchStep
<1>2. ASSUME IInv, [Next]_vars
      PROVE  [Running => Closer \/ UNCHANGED <<pc, date, retried, taken>>]_vars
  BY <1>1, <1>2
<1> QED
  BY <1>2, Invariant, PTL DEF Spec


=============================================================================
