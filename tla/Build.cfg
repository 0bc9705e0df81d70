SPECIFICATION Spec
CONSTANTS
  Targets = {"x.extract", "y.extract"}
  Source <- TwoSources
  Dir <- OneDir
  CleanDirs = {".extractor"}
  Versions = {"one", "two", "bad"}
  Empty = "empty"
  Beginnings <- BeginningsMC
  Unparsable = {"bad"}
  Snippets <- SnippetsMC
  Failures <- AnyFailure
  Torn = Torn
  None = None
INVARIANTS
  TypeOK
  SuccessMeansComplete
  TmpIsTransient
PROPERTY
  FailsForAReason
