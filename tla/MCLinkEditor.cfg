SPECIFICATION Spec
CONSTANTS
  Calls = {c1, c2}
  First = 1
  MaxId = 2
  Drafts = {TRUE}
  Drags = {2}
SYMMETRY Symmetry
INVARIANTS TypeOK PageAgrees
CHECK_DEADLOCK FALSE
PROPERTY ServerKeepsOrder
