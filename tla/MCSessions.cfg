SPECIFICATION Spec
CONSTANTS
  Users = {ann, bob}
  Procs = {p1, p2}
  NoUser = NoUser
  MaxToken = 2
  MaxEpoch = 2
  MaxTime = 2
  TTL = 1
SYMMETRY Symmetry
INVARIANTS TypeOK OldSessionsEnd
PROPERTY OnlyRevokedEnds
CHECK_DEADLOCK FALSE
