SPECIFICATION FairSpec
CONSTANTS
  Servers = {s1, s2}
  Clis = {c1}
  Names = {root, creator}
  NoName = noName
  Root = root
  Legacy = creator
  NoSecret = noSecret
  OldVersions = {3, 5}
  MaxId = 2
  MaxDeaths = 1
INVARIANTS TypeOK OwnerUnlessCliFirst OwnersPage PageHeld SeedAdopted ProfilesComplete OneSecret
PROPERTY Serves
CHECK_DEADLOCK FALSE
