SPECIFICATION Spec
CONSTANTS
  Hybrid = TRUE
  MaxDay = 3
  MaxId = 2
  FirstDay = 2
  Pages = {{"d"}, {"l"}, {"m"}}
  Points <- MonthBefore
  PeriodStart <- TwoDayMonths
INVARIANTS TypeOK PublishedIsShown HeadNotNewer OwnDay NoSubstitute PreviewFollows
PROPERTY NeverOlder
