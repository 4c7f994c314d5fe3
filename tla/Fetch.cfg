SPECIFICATION FairSpec
CONSTANTS
  LastBranch = 8
  Late = {1}
  MaxDate = 3
INVARIANTS TypeOK OnlySavingsEarly
PROPERTY FetchEnds
CHECK_DEADLOCK FALSE
