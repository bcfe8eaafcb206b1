SPECIFICATION Spec
CONSTANTS
  t1 = t1
  t2 = t2
  moss = moss
  sfx = sfx
  None = None
  Threads <- TwoThreads
  Slots <- OneSlot
  Ratings <- TwoRatings
  Scores <- OneScore
  MsPerSecond = 2
  MaxTime = 0
  MaxSuffix = 1
INVARIANT ScorePreserved
