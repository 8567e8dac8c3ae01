SPECIFICATION BoardSpec
CONSTANTS
  ABits = 2
  DBits = 2
  GiveUp = 8
  Used <- TwoUsed
  Values <- OneValue
  MaxProbe = 11
INVARIANT SizeFound
PROPERTY ImplementsStore
