SPECIFICATION LibrarySpec
CONSTANTS
  t1 = t1
  t2 = t2
  moss = moss
  sfx = sfx
  v1 = v1
  v2 = v2
  None = None
  Threads <- TwoThreads
  Slots <- TwoSlots
  Ratings <- OneRating
  Scores <- OneScore
  MsPerSecond = 2
  MaxTime = 1
  MaxSuffix = 2
  Callers <- TwoThreads
  Voices <- TwoVoices
  Shapes <- TwoShapes
  MaxSeq = 2
SYMMETRY Sym
INVARIANTS LibraryInv NewestKept VoicesKept OwnEmbedding
PROPERTY OwnClipsKept
