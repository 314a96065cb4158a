SPECIFICATION PageSpec
CONSTANTS
  Users = {ann, bob}
  Procs = {p1, p2}
  NoUser = NoUser
  MaxId = 3
  Handles = {h1, h2, h3}
  NoHandle = NoHandle
  Visits = {v1}
SYMMETRY Symmetry
INVARIANTS TypeOK MeasuredIsEnd PositionsDistinct PageTypeOK OneAccount
PROPERTY KeepsOrder
CHECK_DEADLOCK FALSE
