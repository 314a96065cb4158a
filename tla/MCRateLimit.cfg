SPECIFICATION FairSpec
CONSTANTS
  Keys = {k1}
  Procs = {p1, p2}
  NoKey = NoKey
  Cost = 2
  Burst = 4
  TTL = 6
  Lag = 1
  MaxTime = 16
INVARIANTS TypeOK RateHeld
PROPERTIES RefusedOnlyWhenSpent IdleKeysLeave
CHECK_DEADLOCK FALSE
