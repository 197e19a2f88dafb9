SPECIFICATION ServingSpec
CONSTANTS
  KvLayers = 2
  Depth = 3
  Thresh = 80
  PageSize = 2
  MaxPages = 2
  MaxVirtPages = 3
  EntryBlocks = 2
  LBAEnd = 8
  PrefixMax = 2
  PrefixKeys = {t1, t2, t3}
  KvUses <- MCKvUses
  MaxPos = 13
  MaxPaged = 1
  MaxErrors = 1
  MaxShares = 2
  MaxHits = 3
  NodeBudget = 400
  KvFrameBytes = 8
  KvFrameCap = 16
  Score <- MCScore
  Draft <- MCDraft
  TileSizeKV = 3
  WireMax = 65535
  Printable = {"a", "b", "c", "."}
  FsmVocab <- MCVocab
  LLMSetups <- MCSetups
  Prompts <- MCPrompts
  BatchCalls <- MCBatchCalls
  Patterns <- MCPatterns
  Logit <- MCLogit
  Weight <- MCWeight
  Draw <- MCDraw
  MaxCalls = 2
INVARIANTS
  ServingTypeOK
  KvFaithful
  PagesOwnedOnce
  AnswersAlone
  PositionsUniform
  DispatchReachesWeights
  SamplesFromFilter
  NeverStranded
CHECK_DEADLOCK FALSE
