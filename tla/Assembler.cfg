SPECIFICATION Spec
CONSTANTS
  Names <- NamesMC
  Lines <- LinesMC
  MaxLines = 6
INVARIANTS
  TypeOK
  AccessInRange
  FunctionsNest
  FunctionsAreMatchedMarks
  FilesShowTheirFunction
