SPECIFICATION Spec
CONSTANTS
  j1 = j1
  j2 = j2
  h1 = h1
  h2 = h2
  Jobs = {j1, j2}
  Hosts = {h1, h2}
  Host <- TwoHosts
  Retention = 1
  Dates <- MCDates
  DateOf <- MCDateOf
  Timeout = 1
  Day = 2
  MaxClock = 3
  MaxId = 3
INVARIANTS ActiveSurvives AggregatesPublished
PROPERTIES PublishedStays SharedSpec
