-------------------- MODULE AsciidocSnippetFileGenerator --------------------
(***************************************************************************)
(* AsciidocSnippetFileGenerator::generate() of                             *)
(* extract/asciidocsnippetfilegenerator.cc after the source has been       *)
(* formatted: it parses the file, writes the database of the snippets and  *)
(* renders each snippet line by line into a file of its own.  Caption,     *)
(* block header and indentation are left out; what a rendered line shows   *)
(* is the kept line it comes from and the callout number put into it.      *)
(***************************************************************************)
EXTENDS CppExtractor

CONSTANTS
    Rank,            \* the order of std::map and std::set on names
    GeneratorOptions \* settings of the generator

RenderOptions ==
    [ mSkipCallouts : BOOLEAN, mPrintExcludeMarker : BOOLEAN,
      mPrintMultiSnippetDelimiter : BOOLEAN ]

ASSUME RankAssumption ==
    /\ Rank \in [Names -> Nat]
    /\ \A m, n \in Names : Rank[m] = Rank[n] => m = n
ASSUME GeneratorAssumption == GeneratorOptions \subseteq RenderOptions

VARIABLES
    gopt,          \* the generator's option members
    gpc,           \* where generate() is, or how it ended
    database,      \* names listed in the database file, {} before it is written
    files,         \* snippet name -> rendered snippet file
    current,       \* name of the snippet being rendered
    spanIndex,     \* the span being rendered, 0 before the first
    spanLine,      \* lineNumber of the innermost loop
    showMarker,    \* printExcludeMarkerForLine
    coNumber,
    codeLineNumber,
    codeLines,     \* the lines of the block so far
    highlighted,   \* highlightedSnippetLines
    coLines        \* calloutLineNumbers

loop  == <<spanIndex, spanLine, showMarker, coNumber, codeLineNumber,
           codeLines, highlighted, coLines>>
gvars == <<gopt, gpc, database, files, current, loop>>
allVars == <<vars, gvars>>

GInit ==
    /\ Init
    /\ gopt \in GeneratorOptions
    /\ gpc = "parsing"
    /\ database = {} /\ files = <<>>
    /\ current = "all" /\ spanIndex = 0 /\ spanLine = 0 /\ showMarker = TRUE
    /\ coNumber = 1 /\ codeLineNumber = 1
    /\ codeLines = <<>> /\ highlighted = <<>> /\ coLines = <<>>

-----------------------------------------------------------------------------
(* The last line of a span belongs to it.                                  *)
ContainsLine_Closed(n, k) == \E s \in SpansOf(n) : s[1] <= k /\ k <= s[2]
ContainsLine(n, k) == \E s \in SpansOf(n) : s[1] <= k /\ k < s[2]

(* The snippets to exclude from n that exist and contain the line k.       *)
Excluding(n, k) == {x \in mSnippets[n].mExcludes \cap DOMAIN mSnippets : ContainsLine(x, k)}
IsLineExcluded(n, k) == Excluding(n, k) # {}

(* Only the first of them is asked for its text, also if it has none.      *)
ExcludeText(n, k) ==
    LET first == CHOOSE x \in Excluding(n, k) :
                   \A y \in Excluding(n, k) : Rank[x] <= Rank[y]
    IN  mSnippets[first].mTextIfExcluded

IsHighlighted(k) == \E i \in DOMAIN mHighlightedLines : mHighlightedLines[i] = k

(* What a block consists of: a source line with the number of its callout, *)
(* the text for an excluded stretch, NoText for the usual marker, and the  *)
(* delimiter between two spans, which takes three lines.                   *)
SourceLine(k, co) == [kind |-> "source", at |-> k, co |-> co]
Marker(text)      == [kind |-> "marker", text |-> text]
Delimiter         == [kind |-> "delimiter"]

CurrentSpans == mSnippets[current].mLineSpans
SpanEnd_Late == CurrentSpans[spanIndex][2] + 1
SpanEnd_Early == CurrentSpans[spanIndex][2] - 1
SpanEnd      == CurrentSpans[spanIndex][2]

-----------------------------------------------------------------------------
Parse ==
    /\ gpc = "parsing" /\ pc \in {"opening", "reading"}
    /\ Next
    /\ UNCHANGED gvars

(* An uncaught exception or a crash in parse() ends the program.           *)
ParseFails ==
    /\ gpc = "parsing" /\ pc \in {"failed", "aborted"}
    /\ gpc' = "failed"
    /\ UNCHANGED <<vars, gopt, database, files, current, loop>>

(* The database file cannot be opened: an error is traced, no more.        *)
WriteDatabase ==
    /\ gpc = "parsing" /\ pc = "ok"
    /\ gpc' = "directory"
    /\ database' \in {{}, DOMAIN mSnippets}
    /\ UNCHANGED <<vars, gopt, files, current, loop>>

MakeDirectory ==
    /\ gpc = "directory"
    /\ gpc' \in {"select", "failed"}
    /\ UNCHANGED <<vars, gopt, database, files, current, loop>>

(* The next snippet in the order of the map, if its file can be opened.    *)
OpenSnippetFile ==
    /\ gpc = "select"
    /\ \E n \in DOMAIN mSnippets \ DOMAIN files :
         /\ \A m \in DOMAIN mSnippets \ DOMAIN files : Rank[n] <= Rank[m]
         /\ current' = n
    /\ gpc' \in {"span", "failed"}
    /\ spanIndex' = 0 /\ spanLine' = 0 /\ showMarker' = TRUE
    /\ coNumber' = 1 /\ codeLineNumber' = 1
    /\ codeLines' = <<>> /\ highlighted' = <<>> /\ coLines' = <<>>
    /\ UNCHANGED <<vars, gopt, database, files>>

(* Numbers the lines of each span from 1 again.                            *)
EnterSpan_Restart ==
    /\ gpc = "span" /\ spanIndex < Len(CurrentSpans)
    /\ gpc' = "lines"
    /\ spanIndex' = spanIndex + 1
    /\ spanLine' = CurrentSpans[spanIndex + 1][1]
    /\ showMarker' = TRUE
    /\ codeLineNumber' = 1
    /\ codeLines' = IF spanIndex > 0 /\ gopt.mPrintMultiSnippetDelimiter
                    THEN Append(codeLines, Delimiter) ELSE codeLines
    /\ UNCHANGED <<vars, gopt, database, files, current, coNumber, highlighted, coLines>>

EnterSpan ==
    /\ gpc = "span" /\ spanIndex < Len(CurrentSpans)
    /\ gpc' = "lines"
    /\ spanIndex' = spanIndex + 1
    /\ spanLine' = CurrentSpans[spanIndex + 1][1]
    /\ showMarker' = TRUE
    /\ codeLines' = IF spanIndex > 0 /\ gopt.mPrintMultiSnippetDelimiter
                    THEN Append(codeLines, Delimiter) ELSE codeLines
    /\ UNCHANGED <<vars, gopt, database, files, current, coNumber,
                   codeLineNumber, highlighted, coLines>>

(* The callout number is not counted on.                                   *)
PrintLine_SameNumber ==
    /\ gpc = "lines" /\ spanLine < SpanEnd
    /\ ~IsLineExcluded(current, spanLine)
    /\ codeLines' = Append(codeLines, SourceLine(mFileContents[spanLine + 1],
                              IF spanLine \in DOMAIN mCallOuts THEN 1 ELSE 0))
    /\ coLines' = IF spanLine \in DOMAIN mCallOuts THEN Append(coLines, spanLine) ELSE coLines
    /\ highlighted' = IF IsHighlighted(spanLine) THEN Append(highlighted, codeLineNumber)
                      ELSE highlighted
    /\ showMarker' = TRUE
    /\ codeLineNumber' = codeLineNumber + 1 /\ spanLine' = spanLine + 1
    /\ UNCHANGED <<vars, gopt, gpc, database, files, current, spanIndex, coNumber>>

(* The flag for the marker is not set again.                               *)
PrintLine_OneMarker ==
    /\ gpc = "lines" /\ spanLine < SpanEnd
    /\ ~IsLineExcluded(current, spanLine)
    /\ highlighted' = IF IsHighlighted(spanLine) THEN Append(highlighted, codeLineNumber)
                      ELSE highlighted
    /\ codeLines' = Append(codeLines, SourceLine(mFileContents[spanLine + 1],
                              IF spanLine \in DOMAIN mCallOuts THEN coNumber ELSE 0))
    /\ codeLineNumber' = codeLineNumber + 1 /\ spanLine' = spanLine + 1
    /\ UNCHANGED <<vars, gopt, gpc, database, files, current, spanIndex, showMarker,
                   coNumber, coLines>>

(* A callout line gets the next number, unless callouts are cut off; it is *)
(* noted for the list in both cases.                                       *)
PrintLine ==
    /\ gpc = "lines" /\ spanLine < SpanEnd
    /\ ~IsLineExcluded(current, spanLine)
    /\ showMarker' = TRUE
    /\ highlighted' = IF IsHighlighted(spanLine) THEN Append(highlighted, codeLineNumber)
                      ELSE highlighted
    /\ IF spanLine \in DOMAIN mCallOuts
       THEN /\ codeLines' = Append(codeLines,
                 SourceLine(mFileContents[spanLine + 1],
                            IF gopt.mSkipCallouts THEN 0 ELSE coNumber))
            /\ coLines' = Append(coLines, spanLine)
            /\ coNumber' = coNumber + 1
       ELSE /\ codeLines' = Append(codeLines, SourceLine(mFileContents[spanLine + 1], 0))
            /\ UNCHANGED <<coLines, coNumber>>
    /\ codeLineNumber' = codeLineNumber + 1
    /\ spanLine' = spanLine + 1
    /\ UNCHANGED <<vars, gopt, gpc, database, files, current, spanIndex>>

(* Of a stretch of excluded lines the first one shows the marker.          *)
ExcludeLine ==
    /\ gpc = "lines" /\ spanLine < SpanEnd
    /\ IsLineExcluded(current, spanLine)
    /\ codeLines' = IF showMarker /\ gopt.mPrintExcludeMarker
                    THEN Append(codeLines, Marker(ExcludeText(current, spanLine)))
                    ELSE codeLines
    /\ showMarker' = FALSE
    /\ codeLineNumber' = codeLineNumber + 1
    /\ spanLine' = spanLine + 1
    /\ UNCHANGED <<vars, gopt, gpc, database, files, current, spanIndex,
                   coNumber, highlighted, coLines>>

LeaveSpan ==
    /\ gpc = "lines" /\ spanLine >= SpanEnd
    /\ gpc' = "span"
    /\ UNCHANGED <<vars, gopt, database, files, current, loop>>

(* The header with the highlighted lines, the block, and below it the list *)
(* of the callouts, numbered from 1 again.                                 *)
CloseSnippetFile ==
    /\ gpc = "span" /\ spanIndex = Len(CurrentSpans)
    /\ gpc' = "select"
    /\ files' = Bind(files, current,
         [highlight |-> highlighted, block |-> codeLines,
          list |-> IF gopt.mSkipCallouts THEN <<>>
                   ELSE [i \in 1 .. Len(coLines) |-> <<i, mCallOuts[coLines[i]]>>]])
    /\ UNCHANGED <<vars, gopt, database, current, loop>>

Done ==
    /\ gpc = "select" /\ DOMAIN mSnippets = DOMAIN files
    /\ gpc' = "done"
    /\ UNCHANGED <<vars, gopt, database, files, current, loop>>

Exit == gpc \in {"done", "failed"} /\ UNCHANGED allVars

GNext ==
    \/ Parse \/ ParseFails \/ WriteDatabase \/ MakeDirectory
    \/ OpenSnippetFile \/ EnterSpan \/ PrintLine \/ ExcludeLine \/ LeaveSpan
    \/ CloseSnippetFile \/ Done \/ Exit

GSpec == GInit /\ [][GNext]_allVars

-----------------------------------------------------------------------------
(* What the generation comes to: from the end of parse() on, each snippet  *)
(* has to show the kept lines within its spans that are not excluded; a    *)
(* closed file shows the lines of its block.                               *)
Phase ==
    IF gpc = "parsing" /\ pc # "ok" THEN "parsing"
    ELSE IF gpc \in {"done", "failed"} THEN gpc ELSE "writing"
WantedLines(n) ==
    {mFileContents[k] : k \in {i \in DOMAIN mFileContents :
                                 ContainsLine(n, i - 1) /\ ~IsLineExcluded(n, i - 1)}}
LinesIn(block) == {block[i].at : i \in {j \in DOMAIN block : block[j].kind = "source"}}

Wanted   == IF pc = "ok" THEN [n \in DOMAIN mSnippets |-> WantedLines(n)] ELSE <<>>
Rendered == [n \in DOMAIN files |-> LinesIn(files[n].block)]

Generation == INSTANCE SnippetGeneration WITH
    phase <- Phase, wanted <- Wanted, listed <- database, shown <- Rendered

(* The generator implements what it promises: success only if each of the  *)
(* snippets has a file, with all and only the lines it has to show, and a  *)
(* database that lists all of them or none.                                *)
GenerationIsKept == Generation!Spec

-----------------------------------------------------------------------------
(* The generator reads the kept line and the callout only where there are  *)
(* some: fileContents()[lineNumber] and callouts.at(coLine) are in range.  *)
AccessInRange ==
    /\ gpc = "lines" /\ spanLine < SpanEnd => spanLine + 1 \in DOMAIN mFileContents
    /\ \A i \in DOMAIN coLines : coLines[i] \in DOMAIN mCallOuts
=============================================================================
