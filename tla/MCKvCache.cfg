CONSTANTS
  NumLayers = 2
  MaxSeq = 3
  PageSizeOption = 2
  Paged = TRUE
  CopyMayFail = TRUE
  Values = {v1, v2}
  Zero = Zero
  Garbage = Garbage
SPECIFICATION Spec
INVARIANTS NoSharing DeviceCurrent PoolSuffices
PROPERTIES ReturnLeaksNothing ReservedPagesFixed ImplementsStore
