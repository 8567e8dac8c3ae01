CONSTANTS
  Blocks = {b1, b2}
  Names = {"a", "b"}
  Data = {u, v}
  Handles = {1, 2}
  Chains = {1, 2}
  Slots = {1, 2}
  Gens = 2
  ClusterRecs = 2
  ExtentRecs = 4
  Files <- SomeFiles
  WriteOpened = FALSE
  MaxOpens = 3
  MaxRecs = 2
SYMMETRY Same
SPECIFICATION Spec
INVARIANT Reaches
 
 
CHECK_DEADLOCK FALSE
