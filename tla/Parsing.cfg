SPECIFICATION Spec
CONSTANTS
  HintText = HintText
  Names <- NamesMC
  NoName = NoName
  Texts = {HintText}
  NoText = NoText
  ReplaceScope <- ScopeMC
  Samples <- ParsedFiles
INVARIANTS
  TypeOK
  SpansInContents
  NestedSpans
  SnippetsAreMatchedMarkers
  SectionsFollowNesting
  ParsedCompletely
  ExcludesWereAskedFor
  ContentsAreTheKeptLines
  CallOutsOnTheirLine
