CONSTANTS
  FirstDay <- NewYear2024
  Window <- TurnOf2028
  Branches = {b1, b2}
  b1 = b1
  b2 = b2
  Loans = {l1}
  l1 = l1
  Deposits <- FiveDeposits
  PageSize = 2
  MaxChanges = 2
  LateEntry = TRUE
SYMMETRY BranchesAlike
SPECIFICATION Spec
INVARIANTS
  TypeOK
  PeriodsOpenAgain
  ComparedLikeWithLike
  NimSamples
  NimFromAnywhere
  MaturitiesReconcile
  PagesShowEachOnce
  BookingsAgree
  ChannelingExact
CHECK_DEADLOCK FALSE
