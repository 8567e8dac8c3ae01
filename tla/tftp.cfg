CONSTANTS
  NumBlocks = 4
  Tries = 3
  Threads = {1, 2, 3}
SPECIFICATION Spec
INVARIANT ReadExact
 
CHECK_DEADLOCK FALSE
