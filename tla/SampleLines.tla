---------------------------- MODULE SampleLines ----------------------------
(* The lines and the option settings that the instances for TLC are built  *)
(* from.                                                                   *)
EXTENDS CppExtractor, FiniteSets

CONSTANT HintText   \* an exclude text

NamesMC == {"a", "b", "all", "unnamed", "x::y", "x_y", "+*"}
ScopeMC == [n \in NamesMC |-> IF n = "x::y" THEN "x_y" ELSE n]

Code ==
    [ empty |-> FALSE, closes |-> FALSE, highlight |-> FALSE, omit |-> FALSE,
      opens |-> FALSE, callOut |-> "none", marker |-> "none", name |-> NoName,
      section |-> "none", minus |-> {}, colon |-> "none", text |-> NoText ]
Blank       == [Code EXCEPT !.empty = TRUE]
Starred     == [Code EXCEPT !.highlight = TRUE]
OmittedLine == [Code EXCEPT !.omit = TRUE]
CommentOn   == [Code EXCEPT !.opens = TRUE]
CommentOff  == [Code EXCEPT !.closes = TRUE]
CallOut     == [Code EXCEPT !.callOut = "number"]
BigCallOut  == [Code EXCEPT !.callOut = "overflow"]
End         == [Code EXCEPT !.marker = "end"]
Start(n)    == [Code EXCEPT !.marker = "start", !.name = n]
Without(n, m)  == [Start(n) EXCEPT !.minus = m]
Section(n, s)  == [Start(n) EXCEPT !.section = s]
WithText(n, t) == [Start(n) EXCEPT !.colon = "text", !.text = t]
DanglingColon(n) == [Start(n) EXCEPT !.colon = "last"]

Defaults ==
    [ mSkipBlockComments |-> TRUE, mSkipEmptyLines |-> TRUE,
      mSkipSnippetDefinitions |-> TRUE, mIncludeOmittedLines |-> FALSE,
      mHighlightLines |-> TRUE ]
Sample(lines, options, length) == [lines |-> lines, options |-> options, length |-> length]

DefaultOptions    == {Defaults}
DefinitionOptions == {Defaults, [Defaults EXCEPT !.mSkipSnippetDefinitions = FALSE]}
(* The default settings, one of them changed, or all but the highlighting. *)
LineOptions ==
    {o \in Options : o.mHighlightLines
                       /\ Cardinality({f \in DOMAIN o : o[f] # Defaults[f]}) \in {0, 1, 4}}
=============================================================================
