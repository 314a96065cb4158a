SPECIFICATION PageSpec
CONSTANTS
  Users = {ann}
  Procs = {p1, p2}
  NoUser = NoUser
  MaxId = 3
  Handles = {h1, h2}
  NoHandle = NoHandle
  Visits = {}
PROPERTY AppendedLast
CHECK_DEADLOCK FALSE
