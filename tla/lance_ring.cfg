SPECIFICATION Spec
CONSTANTS
  TxLen = 2
  RxLen = 2
  FragBytes = 64
  RxBytes = 100
  Groups = {}
  WireLens = {60, 120}
  WireDst = {"self"}
  OwnDst = {"other"}
  Modes <- Normal
  MaxFrags = 2
  OwnLast = TRUE
  EmptyFrags = FALSE
  QuietWire = TRUE
  MaxTx = 3
  MaxRx = 3
  MaxInits = 2
INVARIANT StatusAgrees
INVARIANT RingsInStep
INVARIANT WireWholeInOrder
INVARIANT ReturnedMeansSent
INVARIANT RxIsQueue
INVARIANT NoLostWakeup
PROPERTY ChangesHands
