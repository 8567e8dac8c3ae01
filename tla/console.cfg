SPECIFICATION Spec
CONSTANTS
  KbdSize = 3
  BufSize = 4
  RxSize = 2
  Burst = 2
  Window <- SomeKeys
  Stdin <- SomeBytes
  LineMax = 2
  MaxCalls = 2
INVARIANT Faithful
PROPERTY LostOnlyWhenFull
PROPERTY Answered
CHECK_DEADLOCK FALSE
