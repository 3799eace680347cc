CONSTANTS
  Letters <- MCLetters
  Numbers <- MCNumbers
  Documents <- MCDocuments
  SplitPattern = "llama3"
  NoPattern = "none"
  BosNames <- MCBosNames
  Template <- MCTemplate
  Inputs <- MCInputs
  MaxLong = 5
SPECIFICATION Spec
INVARIANTS RoundTrip AddedLeftmostLongest WholeCharacters SplitMatchesRegex
