SPECIFICATION FairServing
CONSTANTS
  stream = stream
  r2 = r2
  r3 = r3
  Requests <- ThreeRequests
  Streamed = stream
  PoolSize = 2
  MaxChunks = 3
INVARIANTS ServingTypeOK Delivered NotForgotten OrphanOnlyIfCut
PROPERTIES InFlightFinish StopEnds SignalWhileRunning StreamEnds
