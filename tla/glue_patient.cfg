SPECIFICATION GlueSpec
CONSTANTS
  TxLen = 2
  RxLen = 4
  FragBytes = 24
  RxBytes = 64
  Groups = {}
  WireLens = {60}
  WireDst = {"bcast"}
  OwnDst = {"self", "bcast"}
  Modes <- All
  MaxFrags = 2
  OwnLast = FALSE
  EmptyFrags = FALSE
  QuietWire = TRUE
  MaxTx = 2
  MaxRx = 1
  MaxInits = 3
  Patient = TRUE
PROPERTY CountIsExact
INVARIANT LoopReturns
