----------------------------- MODULE Nominative -----------------------------
(***************************************************************************)
(* Deposits that fall due: the three ranges of the maturity page           *)
(* (maturityMetrics in internal/service/dwh/cache.go) and the account      *)
(* tables their links open (internal/service/dwh/nominative.go), page by   *)
(* page.  A deposit is an account with a branch, a maturity and a nominal; *)
(* the snapshot of a date holds all of them.  Account numbers are integers *)
(* that stand for their place in MySQL's order.                            *)
(***************************************************************************)
EXTENDS Calendar, FiniteSetsExt, SequencesExt

CONSTANTS Deposits,   \* the deposits of every snapshot
          Branches,   \* branch codes other than "ALL"
          PageSize    \* rows of a page, 50 in the code

ASSUME NominativeAssumption ==
  /\ PageSize \in Nat \ {0} /\ IsFiniteSet(Branches) /\ IsFiniteSet(Deposits)
  /\ \A p \in Deposits :
       IsDate(p.due) /\ p.branch \in Branches /\ p.nominal \in Int /\ p.account \in Int
  /\ \A p, q \in Deposits : p.account = q.account => p = q

-----------------------------------------------------------------------------
(* MySQL. *)

DaysBeforeMonth == <<0, 31, 59, 90, 120, 151, 181, 212, 243, 273, 304, 334>>

DayNumber(date) ==
  LET y == date.y - 1
  IN 365 * y + (y \div 4) - (y \div 100) + (y \div 400) + DaysBeforeMonth[date.m]
     + (IF date.m > 2 /\ Leap(date.y) THEN 1 ELSE 0) + date.d

DateDiff(a, b) == DayNumber(a) - DayNumber(b)

Total(rows) == SumFunction([p \in rows |-> p.nominal])

Scope(rows, branch) == {p \in rows : branch = "ALL" \/ p.branch = branch}

-----------------------------------------------------------------------------
(* The maturity page. *)

Ranges == {"7d", "30d", "gt30d"}

\* Mutant of RangeOf: the thirtieth day is counted as later.
RangeOfShort(days) ==
  CASE days <= 7 -> "7d" [] days > 7 /\ days < 30 -> "30d" [] OTHER -> "gt30d"

RangeOf(days) ==
  CASE days <= 7 -> "7d" [] days > 7 /\ days <= 30 -> "30d" [] OTHER -> "gt30d"

\* The week of the chart, 12 for all later ones.
WeekOf(days) == IF days \div 7 > 12 THEN 12 ELSE days \div 7

NotYetDue(date) == {p \in Deposits : ~Before(p.due, date)}

\* The query's groups, added up for the branch; what is due on the day counts.
MaturityMetrics(date, branch) ==
  LET due == Scope(NotYetDue(date), branch)
      In(range) == {p \in due : RangeOf(DateDiff(p.due, date)) = range}
      InWeek(w) == {p \in due : WeekOf(DateDiff(p.due, date)) = w}
  IN [noa     |-> [range \in Ranges |-> Cardinality(In(range))],
      nominal |-> [range \in Ranges |-> Total(In(range))],
      week    |-> [w \in 0..11 |-> Total(InWeek(w))]]

\* maturityDashboard: the range a card's link carries.
BucketOf == [x \in Ranges |-> CASE x = "7d"  -> "0-7"
                                [] x = "30d" -> "8-30"
                                [] OTHER     -> "31+"]

-----------------------------------------------------------------------------
(* The account table of category jatuh-tempo. *)

InBucket(days, bucket) ==
  CASE bucket = "0-7"  -> days \in 0..7
    [] bucket = "8-30" -> days \in 8..30
    [] bucket = "31+"  -> days > 30
    [] OTHER           -> TRUE

Selected(date, branch, bucket) ==
  {p \in Scope(NotYetDue(date), branch) : InBucket(DateDiff(p.due, date), bucket)}

\* Mutant of PagesOf: the last page that is not full is forgotten.
PagesOfFull(rows) == Max({1, Cardinality(rows) \div PageSize})

PagesOf(rows) == Max({1, (Cardinality(rows) + PageSize - 1) \div PageSize})

\* The page shown for the page asked for.
Clamp(rows, page) ==
  IF page < 1 THEN 1 ELSE IF page > PagesOf(rows) THEN PagesOf(rows) ELSE page

\* ORDER BY account: row i has i - 1 accounts before it.
InOrder(rows) ==
  [i \in 1..Cardinality(rows) |->
    CHOOSE p \in rows : Cardinality({q \in rows : q.account < p.account}) = i - 1]

\* LIMIT PageSize OFFSET (page - 1) * PageSize.
PageRows(rows, page) ==
  LET from == (Clamp(rows, page) - 1) * PageSize
  IN SubSeq(InOrder(rows), from + 1, Min({from + PageSize, Cardinality(rows)}))

\* Count and total of the selection, and the page of the rows that a search finds.
NominativeOf(date, branch, bucket, page, found) ==
  LET rows == Selected(date, branch, bucket)
      filtered == {p \in rows : p.account \in found}
  IN [count |-> Cardinality(rows), total |-> Total(rows),
      filterCount |-> Cardinality(filtered), filtered |-> Total(filtered),
      page |-> Clamp(filtered, page), pages |-> PagesOf(filtered),
      rows |-> PageRows(filtered, page)]

-----------------------------------------------------------------------------

\* The cards of the maturity page and the tables behind their links have the same
\* number of accounts and the same nominal, no account is in two cards, and the
\* chart's weeks hold what falls due within twelve weeks (README.md:65).
Reconciles(date, branch) ==
  LET m == MaturityMetrics(date, branch)
      all == NominativeOf(date, branch, "", 1, {p.account : p \in Deposits})
      Of(range) == NominativeOf(date, branch, BucketOf[range], 1,
                                {p.account : p \in Deposits})
  IN /\ \A x \in Ranges : m.noa[x] = Of(x).count /\ m.nominal[x] = Of(x).total
     /\ m.noa["7d"] + m.noa["30d"] + m.noa["gt30d"] = all.count
     /\ SumFunction(m.week)
          = Total({p \in Selected(date, branch, "") : DateDiff(p.due, date) < 84})

\* Reading on from page to page shows every account of the search once, in order,
\* and nothing else; a page outside 1..Pages shows the nearest one.
PagesCover(date, branch, bucket, found) ==
  LET At(n) == NominativeOf(date, branch, bucket, n, found)
      pages == At(1).pages
      read == FlattenSeq([n \in 1..pages |-> At(n).rows])
  IN /\ Len(read) = At(1).filterCount
     /\ {read[i] : i \in DOMAIN read}
          = {p \in Selected(date, branch, bucket) : p.account \in found}
     /\ \A i \in 2..Len(read) : read[i - 1].account < read[i].account
     /\ At(0) = At(1) /\ At(pages + 1) = At(pages)

=============================================================================
