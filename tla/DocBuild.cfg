SPECIFICATION Spec
CONSTANTS
  Targets = {"x.extract", "y.extract"}
  Source <- TwoSources
  Dir <- OneDir
  CleanDirs = {".extractor"}
  Versions = {"one", "two"}
  Empty = "empty"
  Beginnings <- BeginningsMC
  Unparsable = {}
  Snippets <- SnippetsMC
  Failures <- NoFailure
  Torn = Torn
  None = None
INVARIANTS
  SnippetsFollowTheSource
