CONSTANTS
  Cmd <- SomeCmd
  Line <- SomeLine
  Disk <- SomeDisk
  Typed <- Usual
  MaxTyped = 3
  None = "none"
  Garbage = "garbage"
SPECIFICATION Spec
INVARIANT WindowHeld
INVARIANT ConsoleBack
PROPERTY OutputLands
CHECK_DEADLOCK FALSE
