SPECIFICATION Spec
CONSTANTS
  Names <- NamesMC
  Words <- WordsMC
  Readable = {"3", "-3"}
  Positive = {"3"}
  OptionWords = {"-f", "-3"}
  JavaFiles = {"f.java"}
  Tables <- ProgramTables
  Declared <- AvrAsmOptions
  Lines <- DocumentedLines
  Made <- MadeMC
CHECK_DEADLOCK FALSE
INVARIANTS
  DocumentedRules
