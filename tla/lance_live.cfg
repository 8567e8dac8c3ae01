SPECIFICATION Spec
CONSTANTS
  TxLen = 2
  RxLen = 2
  FragBytes = 800
  RxBytes = 100
  Groups = {}
  WireLens = {120}
  WireDst = {"self"}
  OwnDst = {"other"}
  Modes <- Normal
  MaxFrags = 2
  OwnLast = FALSE
  EmptyFrags = TRUE
  QuietWire = TRUE
  MaxTx = 2
  MaxRx = 1
  MaxInits = 1
INVARIANT UnderrunStops
PROPERTY TxDrains
PROPERTY RxDrains
