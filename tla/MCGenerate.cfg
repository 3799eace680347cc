CONSTANTS
  Tokens = {a, b, end}
  Eos = {end}
  MaxSeq = 4
  Chunk = 2
  MaxNew = 5
  MaxWarmup = 2
  NumLayers = 2
  NotGiven = NotGiven
  Open = Open
  NoLogits = NoLogits
SPECIFICATION Spec
INVARIANTS CallsFit ContinuesPrompt StepsFollowTokens ReportExact StagesTimed EventsHoldTheirSpan
PROPERTIES Terminates
