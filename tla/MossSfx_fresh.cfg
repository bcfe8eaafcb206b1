SPECIFICATION SfxSpec
CONSTANTS
  NCtx = 8
  NUBatch = 2
  Latent = 6
  VaeChunk = 4
  Asked <- TwoLengths
  CondLen = 2
  NegativeLens = {0, 1}
  SfxSteps = 2
  SfxBackend = TRUE
INVARIANT SfxFresh
