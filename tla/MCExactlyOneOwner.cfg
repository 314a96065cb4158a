SPECIFICATION Spec
CONSTANTS
  Servers = {s1}
  Workers = {w1}
  Clis = {c1}
  Names = {ann, bob, cem}
  NoName = NoName
  Root = ann
  CliCommands = {"set-owner"}
  MaxId = 3
  Notable = {2}
SYMMETRY Symmetry
INVARIANT ExactlyOneOwner
CHECK_DEADLOCK FALSE
