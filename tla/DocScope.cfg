SPECIFICATION Spec
CONSTANTS
  HintText = HintText
  Names <- NamesMC
  NoName = NoName
  Texts = {HintText}
  NoText = NoText
  ReplaceScope <- ScopeMC
  Samples <- ScopeFiles
INVARIANT
  ScopedExcludesApply
