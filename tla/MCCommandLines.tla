--------------------------- MODULE MCCommandLines ---------------------------
(* All lines of up to three of the arguments below, each option of         *)
(* extractor with a word or a number behind it, the lines of the           *)
(* makefiles, and the lines of the documentation.                          *)
EXTENDS CommandLines

With(a, text)      == [a EXCEPT !.assigned = TRUE, !.text = text]

OptionNames == UNION {ExtractorTable[p].names : p \in DOMAIN ExtractorTable}

WordsMC == {"f", "f.java", "-f", "3", "-3", "cpp", "java", "A2", ".ex"}
NamesMC ==
    {"", "c", "p", "A", "2", "v", "verbose", "linenumbers", "eb", "io"} \cup
    {n[2] : n \in OptionNames}

Arguments ==
    {Word("f"), Word("f.java"), Word(""), Word("3"),
     Dashed("-", <<"x">>), Dashed("-", <<"o">>), Dashed("-", <<"x", "o">>), Dashed("-", <<"h">>),
     Dashed("-", <<"">>), Dashed("-", <<"a">>), Dashed("--", <<"output">>), Dashed("--", <<"verbose">>),
     Dashed("--", <<"indent">>),
     With(Dashed("-", <<"o">>), ""), With(Dashed("--", <<"indent">>), "-3"),
     With(Dashed("-", <<"x">>), "-f"), With(Dashed("--", <<"output">>), "f"),
     With(Dashed("-", <<"">>), "3")}
EachOption ==
    {<<Dashed(n[1], <<n[2]>>), Word("f")>> : n \in OptionNames} \cup
    {<<Word("f"), Dashed(n[1], <<n[2]>>), Word("3")>> : n \in OptionNames}

MadeMC  == {"f", ".ex"}
LinesMC == UNION {[1 .. n -> Arguments] : n \in 0 .. 3} \cup EachOption \cup {r.line : r \in Rules}

(* -lcpp -aA2 -of -d.ex f, and -x --eb --io f.                             *)
DocumentedLines ==
    {<<Dashed("-", <<"l", "c", "p", "p">>), Dashed("-", <<"a", "A", "2">>), Word("f")>>,
     <<Dash("x"), DashDash("eb"), DashDash("io"), Word("f")>>}
=============================================================================
