SPECIFICATION FairSpec
CONSTANTS
  Targets = {"x.extract", "y.extract"}
  Source <- TwoSources
  Dir <- OneDir
  CleanDirs = {".extractor"}
  Versions = {"one", "two", "bad"}
  Empty = "empty"
  Beginnings <- BeginningsMC
  Unparsable = {"bad"}
  Snippets <- SnippetsMC
  Failures <- SomeFailures
  Torn = Torn
  None = None
PROPERTY
  MakeCatchesUp
