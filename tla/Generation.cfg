SPECIFICATION GenSpec
CONSTANTS
  Families <- AllFamilies
  NCtx = 20
  NUBatch = 8
  Codes = {1}
  DefaultCodes = 2
  Audio = {0, 7}
  P1 = 17
  P2 = 18
  PUncond = 17
  TeLen = 18
  MaxReasoning = 1
  NullTokens = 0
  Steps = 2
  Gpu = TRUE
  Tile = 6
  Lap = 2
  Up = 3
  Clips = {1, 6, 7, 10, 11, 15}
  FastPath = TRUE
  TextLens = {1, 2}
  Requests <- MCRequests
  TtsFrames = {"zero", "a", "b"}
  MaxNewTokens = {1, 2, 4}
  FineBooks = 2
  MinTail = 1
  RepeatLimit = 2
  StuckAfter = 2
  MaxChunk = 2
  CompactText = FALSE
  Latent = 6
  VaeChunk = 4
  Asked = {0, 5, 9}
  CondLen = 18
  NegativeLens = {0, 1}
  SfxSteps = 2
  SfxBackend = TRUE
  NVq = 3
  NoDelay = 2147483647
  MaxSteps = 8
  Modes <- AllModes
  RefLengths <- MCRefLengths
  Leads <- MCLeads
  Tails <- MCTails
  Sizes = {1, 2}
  Prompts = {0, 1, 2}
  Layers = 2
  Window = 1
  Registered <- MCRegistered
  CommandLines <- MCLines
  Listings <- MCListings
INVARIANTS GenTypeOK AcePositions AceConditioning TtsPositions TtsWhole VaeTiled SfxTiled GraphFilled GraphFits DelayUndone StreamDone OnePerFamily RolesRight
