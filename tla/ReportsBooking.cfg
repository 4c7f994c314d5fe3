CONSTANTS
  FirstDay <- EndOf2027
  Window <- TurnOf2028
  Branches = {b1, b2}
  b1 = b1
  b2 = b2
  Loans = {l1}
  l1 = l1
  Deposits <- FiveDeposits
  PageSize = 2
  MaxChanges = 2
  LateEntry = FALSE
SYMMETRY BranchesAlike
SPECIFICATION Spec
INVARIANTS
  BookingIsSnapshot
CHECK_DEADLOCK FALSE
