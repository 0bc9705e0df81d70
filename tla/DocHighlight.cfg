SPECIFICATION GSpec
CONSTANTS
  HintText = HintText
  Names <- NamesMC
  NoName = NoName
  Texts = {HintText}
  NoText = NoText
  ReplaceScope <- ScopeMC
  Samples <- GapFiles
  Rank <- RankMC
  GeneratorOptions <- DefaultRendering
INVARIANTS
  HighlightedLinesAreShown
