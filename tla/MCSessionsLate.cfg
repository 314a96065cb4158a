SPECIFICATION CalmSpec
CONSTANTS
  Users = {ann, bob}
  Procs = {p1, p2}
  NoUser = NoUser
  MaxToken = 2
  MaxEpoch = 2
  MaxTime = 2
  TTL = 1
INVARIANT PasswordChangeRevokes
CHECK_DEADLOCK FALSE
