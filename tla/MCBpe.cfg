CONSTANTS
  a = a
  b = b
  MaxText = 4
  Texts <- AllTexts
  RuleLists <- MCRuleLists
  Vocabs <- AllVocabs
SPECIFICATION FairSpec
INVARIANTS ChainTilesText LivePairsQueued MatchesRounds
PROPERTIES ImplementsBestPair EncodingEnds
CHECK_DEADLOCK FALSE
