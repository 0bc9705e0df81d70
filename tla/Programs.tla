------------------------------ MODULE Programs ------------------------------
(***************************************************************************)
(* The main functions of extractor and axtractor: what they make of the    *)
(* parsed line, which checks they do before they generate, and what they   *)
(* return.  Files, their MIME types and the outcome of generate() come     *)
(* from outside.                                                           *)
(***************************************************************************)
EXTENDS CliParser

CONSTANTS
    OptionWords,  \* the words that begin with a dash
    Positive,     \* the readable words with a number above zero
    JavaFiles     \* the words that end in .java

(* Both programs of lyra take the name of their source.                    *)
ASSUME SourceAssumption ==
    \A t \in DOMAIN Tables \ {"avrasmopt"} : \E p \in DOMAIN Tables[t] : Tables[t][p].binds = "source"

VARIABLES
    settings,   \* of the generator
    generated,  \* "no", then "written", "printed" or "failed"
    exit        \* "none", or how the program ended

NotMade == [made |-> "no"]

programVars == <<settings, generated, exit>>

-----------------------------------------------------------------------------
(* The options each program declares.                                      *)
Short(letter) == {<<"-", letter>>}
Long(name)    == {<<"--", name>>}
Opt(names, binds) == [names |-> names, binds |-> binds]
Source == Opt({}, "source")
Help   == Opt(Short("?") \cup Short("h") \cup Long("help"), "help")

ExtractorTable ==
    << Opt(Short("x") \cup Long("filter-only"), "flag"),
       Opt(Long("enable-empty-lines"), "flag"),
       Opt(Long("enable-snippet-defs"), "flag"),
       Opt(Long("enable-block-comments"), "flag"),
       Opt(Long("skip-callouts"), "flag"),
       Opt(Long("print-multi-snippet-delim"), "flag"),
       Opt(Long("skip-exclude-marker"), "flag"),
       Opt(Long("skip-highlighting"), "flag"),
       Opt(Long("include-omitted"), "flag"),
       Opt(Short("l") \cup Long("language"), "text"),
       Opt(Short("a") \cup Long("astyle"), "list"),
       Opt(Short("o") \cup Long("output"), "text"),
       Opt(Short("d") \cup Long("subdir"), "text"),
       Opt(Short("n") \cup Long("line-number"), "flag"),
       Opt(Long("indent"), "number"),
       Source, Help >>

AxtractorTable ==
    << Opt(Short("x") \cup Long("filter-only"), "flag"),
       Opt(Short("n") \cup Long("line-number"), "flag"),
       Opt(Short("o") \cup Long("output"), "text"),
       Source, Help >>

ProgramTables ==
    [extractor |-> ExtractorTable, axtractor |-> AxtractorTable, avrasmopt |-> <<>>]

-----------------------------------------------------------------------------
(* The variables that the parsers are bound to.                            *)
ParserOf(name) == CHOOSE p \in DOMAIN Parsers : name \in Parsers[p].names
IsSet(name)    == taken[ParserOf(name)] # <<>>
Value(p, default) == IF taken[p] = <<>> THEN default ELSE taken[p][Len(taken[p])]
ValueOf(name, default) == Value(ParserOf(name), default)
SourceFile == Value(CHOOSE p \in DOMAIN Parsers : Parsers[p].binds = "source", "")

(* What is set only if the value is not empty.                             *)
Given_Always(text, default) == text

Given(text, default) == IF text = "" THEN default ELSE text

(* checkMimeTypeForLanguage(): text/x-java is in the list of sources, but  *)
(* its subtype is not "java", so only the name of the file tells Java.     *)
Mimes == {"text/x-c", "text/x-java", "text/plain", "none"}
LanguageFor(mime) ==
    IF mime \in {"text/plain", "none"} /\ SourceFile \in JavaFiles THEN "java"
    ELSE ValueOf(<<"--", "language">>, "cpp")

(* The settings extractor makes.                                           *)
ExtractorSettings(language) ==
    [skipEmptyLines         |-> ~IsSet(<<"--", "enable-empty-lines">>),
     skipSnippetDefinitions |-> ~IsSet(<<"--", "enable-snippet-defs">>),
     skipBlockComments      |-> ~IsSet(<<"--", "enable-block-comments">>),
     skipCallouts           |-> IsSet(<<"--", "skip-callouts">>),
     printMultiSnippetDelimiter |-> IsSet(<<"--", "print-multi-snippet-delim">>),
     printExcludeMarker     |-> ~IsSet(<<"--", "skip-exclude-marker">>),
     highlightLines         |-> ~IsSet(<<"--", "skip-highlighting">>),
     includeOmitted         |-> IsSet(<<"--", "include-omitted">>),
     lineNumbers            |-> IsSet(<<"--", "line-number">>),
     language               |-> Given(language, "cpp"),
     astyle                 |-> taken[ParserOf(<<"--", "astyle">>)],
     outputFilePath         |-> Given(ValueOf(<<"--", "output">>, ""), "by source"),
     subDirectoryName       |-> Given(ValueOf(<<"--", "subdir">>, ""), ".extractor"),
     indent |-> LET n == ValueOf(<<"--", "indent">>, "0") IN IF n \in Positive THEN n ELSE "0"]

(* axtractor: line numbers are on already, and -x is not looked at.        *)
AxtractorSettings ==
    [lineNumbers |-> TRUE, outputFilePath |-> Given(ValueOf(<<"--", "output">>, ""), "by source")]

-----------------------------------------------------------------------------
Running(answers) == exit = "none" /\ settings = NotMade /\ answer \in answers
Exit(status)     == exit' = status /\ UNCHANGED <<cliVars, settings, generated>>

PrintError == Running(Answers \ {"parsing", "accepted", "help"}) /\ Exit("failure")
PrintHelp  == Running({"help"}) /\ Exit("success")
NoSource   == Running({"accepted"}) /\ SourceFile = "" /\ Exit("failure")

(* A source that looks like an option, or a file that is not there.  A     *)
(* directory is reported, and used.                                        *)
NoSuchFile ==
    /\ program = "extractor" /\ Running({"accepted"}) /\ SourceFile # ""
    /\ Exit("failure")

Configure(made) == settings' = made /\ UNCHANGED <<cliVars, generated, exit>>

(* An absent MIME type is dereferenced for the trace: in a build with the  *)
(* library's assertions the program is aborted.                            *)
ConfigureExtractor(mime) ==
    /\ program = "extractor" /\ Running({"accepted"}) /\ SourceFile \notin OptionWords \cup {""}
    /\ \/ Configure(ExtractorSettings(LanguageFor(mime)))
       \/ mime = "none" /\ Exit("aborted")

ConfigureAxtractor ==
    /\ program = "axtractor" /\ Running({"accepted"}) /\ SourceFile # ""
    /\ Configure(AxtractorSettings)

Generating == exit = "none" /\ settings # NotMade /\ generated = "no"

(* extractor parses only if it is asked to; both can fail.                 *)
FilterOnly_Never == FALSE

FilterOnly == program = "extractor" /\ IsSet(<<"--", "filter-only">>)
ParseOnly ==
    /\ Generating /\ FilterOnly /\ generated' \in {"printed", "failed"}
    /\ UNCHANGED <<cliVars, settings, exit>>
Generate ==
    /\ Generating /\ ~FilterOnly /\ generated' \in {"written", "failed"}
    /\ UNCHANGED <<cliVars, settings, exit>>

(* axtractor does not look at the result.                                  *)
Return_Always ==
    /\ exit = "none" /\ generated # "no"
    /\ Exit("success")

Return ==
    /\ exit = "none" /\ generated # "no"
    /\ Exit(IF generated = "failed" /\ program = "extractor" THEN "failure" ELSE "success")

ProgramInit == settings = NotMade /\ generated = "no" /\ exit = "none"

Main ==
    \/ PrintError \/ PrintHelp \/ NoSource \/ NoSuchFile
    \/ \E mime \in Mimes : ConfigureExtractor(mime)
    \/ ConfigureAxtractor
    \/ ParseOnly \/ Generate
    \/ Return
=============================================================================
