---------------------------- MODULE MCGenerator -----------------------------
(* Instances of the generator for TLC: every file of a few lines is parsed *)
(* and all its snippets are rendered.                                      *)
EXTENDS RenderedSnippets, SampleLines

RankMC == [n \in NamesMC |->
    CASE n = "+*" -> 0 [] n = "a" -> 1 [] n = "all" -> 2 [] n = "b" -> 3
      [] n = "unnamed" -> 4 [] n = "x::y" -> 5 [] n = "x_y" -> 6]

DefaultRendering == {[mSkipCallouts |-> FALSE, mPrintExcludeMarker |-> TRUE,
                      mPrintMultiSnippetDelimiter |-> FALSE]}

RenderingMC == {[mSkipCallouts |-> skip, mPrintExcludeMarker |-> ~skip,
                 mPrintMultiSnippetDelimiter |-> ~skip] : skip \in BOOLEAN}

RenderedFiles ==
    {Sample({Code, [CallOut EXCEPT !.highlight = TRUE], Start("a"), Without("b", {"a"}), End},
            DefinitionOptions, 6),
     Sample({Code, WithText("a", HintText), [Without("a", {"b"}) EXCEPT !.colon = "none"],
             Without("b", {"a", "b"}), End}, DefaultOptions, 6)}
GapFiles == {Sample({Starred, Code, Start("a"), Without("b", {"a"}), End}, DefaultOptions, 7)}
=============================================================================
