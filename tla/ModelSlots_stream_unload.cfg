SPECIFICATION Spec
CONSTANTS
  a = a
  b = b
  t1 = t1
  t2 = t2
  w1 = w1
  m1 = m1
  m2 = m2
  m3 = m3
  Null = Null
  Slots <- OneSlot
  Qwen3Slots <- MCQwen3
  Threads <- TwoThreads
  Workers <- OneWorker
  Models <- ThreeModels
  Ops <- StreamUnloadOps
INVARIANT WorkerSessionLive
