----------------------------- MODULE MCReports -----------------------------
(***************************************************************************)
(* Small instances of Reports for TLC: four years of days, from a leap     *)
(* year on, and events around a turn of the year.                         *)
(***************************************************************************)
EXTENDS Reports

CONSTANTS b1, b2

BranchesAlike == Permutations(Branches)

Day(y, m, d) == [y |-> y, m |-> m, d |-> d]

NewYear2024 == Day(2024, 1, 1)
EndOf2027 == Day(2027, 12, 31)
TurnOf2028 == {EndOf2027, Day(2028, 1, 1), Day(2028, 1, 2)}

Deposit(account, branch, due, nominal) ==
  [account |-> account, branch |-> branch, due |-> due, nominal |-> nominal]

FiveDeposits ==
  {Deposit(1, b1, Day(2024, 1, 5), 3), Deposit(2, b2, Day(2024, 2, 29), 5),
   Deposit(3, b1, Day(2024, 3, 1), 7), Deposit(4, b1, Day(2024, 3, 31), 11),
   Deposit(5, b2, Day(2024, 3, 31), 13)}

=============================================================================
