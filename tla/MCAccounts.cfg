SPECIFICATION Spec
CONSTANTS
  Servers = {s1}
  Workers = {w1}
  Clis = {c1}
  Names = {ann, bob, cem}
  NoName = NoName
  Root = ann
  CliCommands = {"create", "set-owner"}
  MaxId = 3
  Notable = {2}
SYMMETRY Symmetry
INVARIANTS TypeOK Integrity OwnerHoldsPage OwnerUnlessRaced RankRespected
PROPERTY OwnershipOnlyByTransfer
CHECK_DEADLOCK FALSE
