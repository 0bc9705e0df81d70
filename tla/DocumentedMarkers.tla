------------------------- MODULE DocumentedMarkers --------------------------
(***************************************************************************)
(* What doc/extractor.adoc says of the markers where parse() does          *)
(* something else: a statement that a short file violates.                 *)
(***************************************************************************)
EXTENDS CppExtractorReference

(* doc/extractor.adoc:311: a nested snippet is excluded by subtracting its *)
(* name.  "::" is replaced in the name of a snippet but not in an exclude, *)
(* so an exclude with a scope names no snippet.                            *)
ScopedExcludesApply ==
    pc = "ok" =>
        \A i \in LinesRead :
            Starts(i) /\ input[i].name # NoName =>
                \A x \in input[i].minus :
                    ReplaceScope[x] \in DOMAIN mSnippets =>
                        \E y \in mSnippets[NameAt(i)].mExcludes :
                            y \in DOMAIN mSnippets /\ SpansOf(ReplaceScope[x]) \subseteq SpansOf(y)
=============================================================================
