SPECIFICATION PinsSpec
CONSTANTS
  ABits = 2
  DBits = 2
  GiveUp = 8
  Images <- Counting
  MaxClocks = 10
  MaxSelects = 2
INVARIANT MatchesStream
INVARIANT ReadsCurrent
