SPECIFICATION FairSpec
CONSTANTS
  Names <- NamesMC
  Words <- WordsMC
  Readable = {"3", "-3"}
  Positive = {"3"}
  OptionWords = {"-f", "-3"}
  JavaFiles = {"f.java"}
  Tables <- ProgramTables
  Declared <- AvrAsmOptions
  Lines <- LinesMC
  Made <- MadeMC
CHECK_DEADLOCK FALSE
INVARIANTS
  TypeOK
  AcceptedExactly
  SettingsFromTheLine
  SuccessIsTrue
  RulesReachTheirTarget
  ArgumentsAsGiven
  UndefinedOnlyWithoutValue
PROPERTY
  LinesAreAnswered
