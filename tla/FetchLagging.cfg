SPECIFICATION Spec
CONSTANTS
  LastBranch = 1
  Late = {1}
  MaxDate = 2
INVARIANT OneBusinessDate
CHECK_DEADLOCK FALSE
