SPECIFICATION GSpec
CONSTANTS
  HintText = HintText
  Names <- NamesMC
  NoName = NoName
  Texts = {HintText}
  NoText = NoText
  ReplaceScope <- ScopeMC
  Samples <- RenderedFiles
  Rank <- RankMC
  GeneratorOptions <- RenderingMC
INVARIANTS
  AccessInRange
  FilesShowTheMarkedLines
  MarkerPerStretch
  CallOutsMatchTheirList
  HighlightsWithoutGaps
PROPERTY
  GenerationIsKept
