CONSTANTS
  NumLayers = 2
  MaxSeq = 3
  PageSizeOption = 2
  Paged = TRUE
  PrefillChunk = 2
  Tokens = {a, b}
  CallsMayFail = TRUE
  Capture = TRUE
  Zero = Zero
  Garbage = Garbage
  NoLogits = NoLogits
SYMMETRY TokenSymmetry
SPECIFICATION Spec
INVARIANTS PositionReserved CacheHoldsTranscript FusedNormMatches TapsAreResidual
PROPERTIES ImplementsTranscript
