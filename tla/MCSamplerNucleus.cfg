CONSTANTS
  Vocab = 3
  Threads = 2
  LogCap = 1
  Bins = 3
  BinWidth = 2
  Depths = {0, 2}
  Weight <- MCWeight
  TopKs = {0}
  TopPs <- Fractions
  Uniforms <- Draws
  Blocks = 1
  BlockThreads = 2
  GreedyDepths = {0}
SPECIFICATION Spec
INVARIANTS ExactWhenNucleusFits
CHECK_DEADLOCK FALSE
