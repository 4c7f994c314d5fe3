SPECIFICATION Spec
CONSTANTS
  Hybrid = FALSE
  MaxDay = 3
  MaxId = 1
  FirstDay = 2
  Pages = {{"d"}, {"l"}, {"m"}}
  Points <- MonthBefore
  PeriodStart <- TwoDayMonths
INVARIANT DefaultIsLatest
