SPECIFICATION FairDashSpec
CONSTANTS
  Visitors = {v1}
  Links = {l1}
  View = View
  Procs = {p1, p2}
  NoOne = NoOne
  ViewWindow = 3
  ClickWindow = 2
  Lag = 1
  MaxTime = 3
  Days = 1
  MaxDay = 2
INVARIANTS TypeOK LossExplained ChartCoversTotals
PROPERTIES CountedApart ExpiredEventsLeave
CHECK_DEADLOCK FALSE
