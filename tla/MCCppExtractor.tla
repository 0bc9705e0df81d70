--------------------------- MODULE MCCppExtractor ---------------------------
(* Instances of CppExtractor for TLC: small alphabets of lines and the     *)
(* option settings under which they matter.                                *)
EXTENDS DocumentedMarkers, SampleLines

MarkerLines == {Code, Start("a"), Start("all"), Start(NoName), End, BigCallOut,
                Section("x::y", "Included"),
                [Without("b", {"a", "x::y"}) EXCEPT !.section = "Excluded"],
                [Without("a", {"b"}) EXCEPT !.colon = "text", !.text = HintText]}
LineLines   == {Code, Blank, OmittedLine, CommentOn, CommentOff, CallOut, Start("a"),
                DanglingColon("b"), End, [Start("b") EXCEPT !.omit = TRUE],
                [End EXCEPT !.highlight = TRUE]}

ParsedFiles == {Sample(MarkerLines, DefinitionOptions, 5), Sample(LineLines, LineOptions, 4)}

(* For the statement of the documentation that the code does not keep.     *)
ScopeFiles == {Sample({Code, Without("a", {"x::y"}), Start("x::y"), End}, DefaultOptions, 5)}
=============================================================================
