CONSTANTS
  MaxSeqLen = 5
  MaxSplits = 4
  Warps = 2
  MaxScore = 2
  KvHeads = 2
  HeadsPerKv = 2
  MaxTokens = 3
  Foreign = Foreign
SPECIFICATION PassSpec
INVARIANTS EveryPositionOnce AttentionExact PrefillExact
CHECK_DEADLOCK FALSE
