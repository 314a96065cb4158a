SPECIFICATION LifeSpec
CONSTANTS
  Users = {ann}
  Procs = {p1, p2}
  NoUser = NoUser
  MaxFile = 3
INVARIANTS TypeOK PicturesExist NothingForgotten DrainedBeforeClosed
PROPERTY Stops
CHECK_DEADLOCK FALSE
