SPECIFICATION WFairSpec
CONSTANTS
  NumberOf <- NumbersMC
  Tokens <- TokensMC
  Rank <- RankMC
  Databases <- DatabasesMC
INVARIANTS
  ReaderTypeOK
  FoundInTheFile
  DatabaseIsReadBack
PROPERTY
  ReadingComesCloser
  ReadingEnds
