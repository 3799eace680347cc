CONSTANTS
  Vocab = 5
  Blocks = 2
  BlockThreads = 3
  Threads = 2
  LogCap = 2
  Bins = 3
  BinWidth = 2
  Depths = {0, 1, 2, 4}
  Weight <- MCWeight
  TopKs = {0, 2}
  TopPs <- Fractions
  Uniforms <- Draws
  GreedyDepths = {0, 1}
SPECIFICATION Spec
INVARIANTS GreedyPicksFirstMaximum CompactionExact ExactWhenBinsFit
PROPERTIES Finishes
CHECK_DEADLOCK FALSE
