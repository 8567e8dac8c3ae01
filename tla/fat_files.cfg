SPECIFICATION Spec
CONSTANTS
  NumClusters = 3
  ClusterSectors = 2
  SectorUnits = 1
  NumSlots = 2
  Dot = Dot
  Dash = Dash
  Names = {a, b, c}
  NoName = NoName
  Units = {Dot, Dash}
  Blank = Blank
  Junk = Junk
  Texts <- SomeTexts
  Pieces = 2
INVARIANT CacheHonest
INVARIANT NoSharing
INVARIANT HandlesAgree
INVARIANT NothingLost
INVARIANT ReadsExact
PROPERTY CutOnlyWhenFull
PROPERTY ImplementsStore
SYMMETRY SameNames
