SPECIFICATION Spec
CONSTANTS
  NumClusters = 3
  ClusterSectors = 1
  SectorUnits = 2
  NumSlots = 2
  Dot = Dot
  Dash = Dash
  Names = {a, b, c}
  NoName = NoName
  Units = {Dot, Dash}
  Blank = Blank
  Junk = Junk
  Texts <- LongTexts
  Pieces = 3
PROPERTIES CopyExact
