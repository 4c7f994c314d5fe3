SPECIFICATION FairSpec
CONSTANTS
  Schedulers = {s1}
  Commands = {c1}
  MaxDay = 4
  MonthEnd <- TwoDayMonths
  Backfill = 2
  CommandFroms = {1}
  MaxFailures = 2
INVARIANTS TypeOK CompleteCovered NotAheadOfDWH NoHoles
PROPERTY CatchesUp
