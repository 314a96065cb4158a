SPECIFICATION Spec
CONSTANTS
  Calls = {c1, c2}
  First = 2
  MaxId = 2
  Drafts = {TRUE}
  Drags = {2}
PROPERTY RollbackToServer
CHECK_DEADLOCK FALSE
