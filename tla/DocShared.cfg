SPECIFICATION Spec
CONSTANTS
  Targets = {"x.extract", "x.extract2"}
  Source <- OneSource
  Dir <- TwoDirs
  CleanDirs = {".extractor"}
  Versions = {"one", "two"}
  Empty = "empty"
  Beginnings <- BeginningsMC
  Unparsable = {}
  Snippets <- SnippetsMC
  Failures <- NoFailure
  Torn = Torn
  None = None
INVARIANTS
  SnippetsFollowTheSource
