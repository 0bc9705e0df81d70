---------------------------- MODULE CppExtractor ----------------------------
(***************************************************************************)
(* CppExtractor::parse() of extract/cppextractor.cc: one pass over a       *)
(* source file that recognises the markers in its comments and builds the  *)
(* kept lines, the snippets (named lists of line spans), the callouts and  *)
(* the highlighted lines.                                                  *)
(*                                                                         *)
(* A line of the file is abstracted to the marks the regular expressions   *)
(* of parse() find in it (LineShape); a kept line is known by its position *)
(* in the file.  The C++ and the Lua expressions differ in the characters  *)
(* of the marks only, so one model stands for both.                        *)
(*                                                                         *)
(* A definition whose name has a suffix _... is a broken variant of the    *)
(* definition that follows it; PROJECT.json names the property that        *)
(* notices it.                                                             *)
(***************************************************************************)
EXTENDS Naturals, Sequences

CONSTANTS
    Names,         \* the words used as snippet or exclude names
    NoName,        \* a snippet start without a name
    Texts,         \* the texts a snippet start can give after " : "
    NoText,        \* the empty text
    ReplaceScope,  \* a name with every "::" replaced by "_"
    Samples        \* kinds of files: their lines, bound on their length,
                   \* and the settings parse() is called with

(* What the expressions of parse() can find in one line.  Every field but  *)
(* the first two and closes is about the text left of the //* and //-      *)
(* marks, which parse() cuts off before it looks for the rest.             *)
LineShape ==
    [ empty     : BOOLEAN,                        \* no character at all
      closes    : BOOLEAN,                        \* end of a block comment
      highlight : BOOLEAN,                        \* contains //*
      omit      : BOOLEAN,                        \* ends in //-
      opens     : BOOLEAN,                        \* begin of a block comment
      callOut   : {"none", "number", "overflow"}, \* // <n> text
      marker    : {"none", "start", "end"},       \* //[ and //]
      name      : Names \cup {NoName},            \* first word after //[
      section   : {"none", "Included", "Excluded"}, \* later words +* and -*
      minus     : SUBSET Names,                   \* x of the words -x before :
      colon     : {"none", "text", "last"},       \* the word :, last if no word follows
      text      : Texts \cup {NoText} ]           \* what follows it

Options ==
    [ mSkipBlockComments : BOOLEAN, mSkipEmptyLines : BOOLEAN,
      mSkipSnippetDefinitions : BOOLEAN, mIncludeOmittedLines : BOOLEAN,
      mHighlightLines : BOOLEAN ]

ASSUME NamesAssumption   == {"all", "unnamed"} \subseteq Names /\ NoName \notin Names
ASSUME TextAssumption    == NoText \notin Texts
ASSUME ScopeAssumption   == ReplaceScope \in [Names -> Names]
Lines      == UNION {s.lines : s \in Samples}
OptionSets == UNION {s.options : s \in Samples}

ASSUME LinesAssumption   == Lines \subseteq LineShape
(* The begin and the end of a block comment are looked for at the start of *)
(* the line only, so no line is both, and an empty line is neither.        *)
ASSUME CommentAssumption ==
    \A line \in Lines : line.closes => ~line.opens /\ ~line.empty
ASSUME OptionsAssumption == OptionSets \subseteq Options
ASSUME LengthAssumption  == \A s \in Samples : s.length \in Nat

VARIABLES
    opt,                \* the option members, fixed before parse() is called
    pc,                 \* "opening", "reading", or how parse() ended
    input,              \* the lines read so far, fileLineNumber = Len(input)
    status,             \* "Normal" or "BlockComment"
    lineNumber,         \* number of kept lines
    snippets,           \* stack of the open snippets, top at the end
    sectionHighlight,   \* stack of the section marks, top at the end
    excludes,           \* name -> words -x of its starts
    excludeTexts,       \* name -> last exclude text given
    mFileContents,      \* kept lines, by their position in the file
    mCallOuts,          \* kept line number -> position of the callout's line
    mSnippets,          \* name -> Snippet
    mHighlightedLines,
    mHasOmittedLines

marks == <<snippets, sectionHighlight, excludes, excludeTexts>>
kept  == <<lineNumber, mFileContents>>
vars  == <<opt, pc, input, status, kept, marks, mCallOuts, mSnippets,
           mHighlightedLines, mHasOmittedLines>>

Spans   == Nat \X Nat
Snippet == [mLineSpans : Seq(Spans), mExcludes : SUBSET Names,
            mTextIfExcluded : Texts \cup {NoText}]

Init ==
    /\ opt \in OptionSets
    /\ pc = "opening"
    /\ input = <<>>
    /\ status = "Normal"
    /\ lineNumber = 0
    /\ snippets = <<>>
    /\ sectionHighlight = <<>>
    /\ excludes = [n \in Names |-> {}]
    /\ excludeTexts = [n \in Names |-> NoText]
    /\ mFileContents = <<>>
    /\ mCallOuts = <<>>
    /\ mSnippets = <<>>
    /\ mHighlightedLines = <<>>
    /\ mHasOmittedLines = FALSE

-----------------------------------------------------------------------------
(* Stacks, with the top at the end.                                        *)
Top(s) == s[Len(s)]
Pop(s) == IF s = <<>> THEN s ELSE SubSeq(s, 1, Len(s) - 1)

(* The function f with k mapped to v, as after f[k] = v on a std::map.     *)
Bind(f, k, v) == [x \in DOMAIN f \cup {k} |-> IF x = k THEN v ELSE f[x]]

(* The next line of the file is this one.                                  *)
Read(line) ==
    /\ pc = "reading"
    /\ \E s \in Samples :
         /\ Len(input) < s.length /\ opt \in s.options
         /\ line \in s.lines /\ \A i \in DOMAIN input : input[i] \in s.lines
    /\ input' = Append(input, line)
    /\ UNCHANGED opt

(* A //* in the line marks the number the next kept line will get.         *)
LineHighlight(line) ==
    IF opt.mHighlightLines /\ line.highlight
    THEN Append(mHighlightedLines, lineNumber)
    ELSE mHighlightedLines

(* The common end of the loop body for a line that stays in the output.    *)
Keep(line, sections) ==
    /\ mHighlightedLines' =
         IF opt.mHighlightLines /\ sections # <<>> /\ Top(sections) = "Included"
         THEN Append(LineHighlight(line), lineNumber)
         ELSE LineHighlight(line)
    /\ lineNumber' = lineNumber + 1
    /\ mFileContents' = Append(mFileContents, Len(input) + 1)

(* Numbers the lines of the file instead of the kept ones.                 *)
Drop_Counted(line) ==
    /\ mHighlightedLines' = LineHighlight(line)
    /\ lineNumber' = lineNumber + 1
    /\ UNCHANGED mFileContents

(* continue: the line is left out, but its //* has been looked at.         *)
Drop(line) ==
    /\ mHighlightedLines' = LineHighlight(line)
    /\ UNCHANGED kept

(* A line with a snippet start or end is dropped if definitions are.       *)
KeepDefinition(line, sections) ==
    IF opt.mSkipSnippetDefinitions THEN Drop(line) ELSE Keep(line, sections)

SkippedEmpty(line) == opt.mSkipEmptyLines /\ line.empty
Omitted(line)      == line.omit /\ ~opt.mIncludeOmittedLines
OpensComment(line) == opt.mSkipBlockComments /\ line.opens

(* The line reaches the tests for a callout and for the snippet markers.   *)
Examined(line) ==
    /\ Read(line)
    /\ status = "Normal" /\ UNCHANGED status
    /\ ~SkippedEmpty(line) /\ ~Omitted(line) /\ ~OpensComment(line)
    /\ UNCHANGED mHasOmittedLines

-----------------------------------------------------------------------------
Open ==
    /\ pc = "opening"
    /\ pc' \in {"reading", "failed"}
    /\ UNCHANGED <<opt, input, status, kept, marks, mCallOuts, mSnippets,
                   mHighlightedLines, mHasOmittedLines>>

SkipEmptyLine(line) ==
    /\ Read(line)
    /\ SkippedEmpty(line)
    /\ UNCHANGED <<pc, status, kept, marks, mCallOuts, mSnippets,
                   mHighlightedLines, mHasOmittedLines>>

OmitLine(line) ==
    /\ Read(line)
    /\ status = "Normal" /\ ~SkippedEmpty(line) /\ Omitted(line)
    /\ Drop(line)
    /\ mHasOmittedLines' = TRUE
    /\ UNCHANGED <<pc, status, marks, mCallOuts, mSnippets>>

StartBlockComment(line) ==
    /\ Read(line)
    /\ status = "Normal" /\ ~SkippedEmpty(line) /\ ~Omitted(line)
    /\ OpensComment(line)
    /\ status' = "BlockComment"
    /\ Drop(line)
    /\ UNCHANGED <<pc, marks, mCallOuts, mSnippets, mHasOmittedLines>>

(* The line that closes the comment stays in the output.                   *)
SkipBlockComment_KeepLast(line) ==
    /\ Read(line)
    /\ status = "BlockComment" /\ ~SkippedEmpty(line)
    /\ status' = IF opt.mSkipBlockComments /\ line.closes THEN "Normal" ELSE status
    /\ IF line.closes THEN Keep(line, sectionHighlight) ELSE Drop(line)
    /\ UNCHANGED <<pc, marks, mCallOuts, mSnippets, mHasOmittedLines>>

(* Inside a block comment the line is always dropped, the closing one too. *)
SkipBlockComment(line) ==
    /\ Read(line)
    /\ status = "BlockComment" /\ ~SkippedEmpty(line)
    /\ status' = IF opt.mSkipBlockComments /\ line.closes THEN "Normal" ELSE status
    /\ UNCHANGED <<pc, kept, marks, mCallOuts, mSnippets,
                   mHighlightedLines, mHasOmittedLines>>

KeepCode(line) ==
    /\ Examined(line)
    /\ line.callOut = "none" /\ line.marker = "none"
    /\ Keep(line, sectionHighlight)
    /\ UNCHANGED <<pc, marks, mCallOuts, mSnippets>>

(* Files the callout under the line number of the file.                    *)
ReadCallOut_FileLine(line) ==
    /\ Examined(line)
    /\ line.callOut = "number"
    /\ mCallOuts' = Bind(mCallOuts, Len(input), Len(input) + 1)
    /\ Keep(line, sectionHighlight)
    /\ UNCHANGED <<pc, marks, mSnippets>>

(* A callout hides a marker in the same line.                              *)
ReadCallOut(line) ==
    /\ Examined(line)
    /\ line.callOut = "number"
    /\ mCallOuts' = Bind(mCallOuts, lineNumber, Len(input) + 1)
    /\ Keep(line, sectionHighlight)
    /\ UNCHANGED <<pc, marks, mSnippets>>

(* std::stoi throws and nobody catches: the program is terminated.         *)
CallOutOverflow(line) ==
    /\ Examined(line)
    /\ line.callOut = "overflow"
    /\ pc' = "aborted"
    /\ Drop(line)
    /\ UNCHANGED <<marks, mCallOuts, mSnippets>>

(* A snippet without a mark pushes nothing, or the lack of a mark.         *)
PushSection_NoCopy(line) ==
    IF line.section # "none" THEN Append(sectionHighlight, line.section)
    ELSE sectionHighlight
PushSection_Always(line) == Append(sectionHighlight, line.section)

(* The section stack after a start: its own mark, or a copy of the         *)
(* enclosing one; no entry as long as no mark has been seen.               *)
PushSection(line) ==
    IF line.section # "none" THEN Append(sectionHighlight, line.section)
    ELSE IF sectionHighlight # <<>>
         THEN Append(sectionHighlight, Top(sectionHighlight))
         ELSE sectionHighlight

(* A start with a name.  With ":" as the last word the code dereferences   *)
(* the end iterator of the words: any text, or a crash.                    *)
StartSnippet(line) ==
    /\ Examined(line)
    /\ line.callOut = "none" /\ line.marker = "start" /\ line.name # NoName
    /\ LET name == ReplaceScope[line.name] IN
         /\ sectionHighlight' = PushSection(line)
         /\ snippets' = Append(snippets, <<lineNumber, name>>)
         /\ excludes' = [excludes EXCEPT ![name] = @ \cup line.minus]
         /\ \/ line.colon = "none" /\ UNCHANGED <<pc, excludeTexts>>
            \/ /\ line.colon = "text"
               /\ excludeTexts' = [excludeTexts EXCEPT ![name] = line.text]
               /\ UNCHANGED pc
            \/ /\ line.colon = "last"
               /\ \E text \in Texts \cup {NoText} :
                    excludeTexts' = [excludeTexts EXCEPT ![name] = text]
               /\ pc' \in {pc, "aborted"}
    /\ KeepDefinition(line, PushSection(line))
    /\ UNCHANGED <<mCallOuts, mSnippets>>

(* A start without a name opens a snippet all the same, and stays in the   *)
(* output whatever the options are.                                        *)
StartUnnamed(line) ==
    /\ Examined(line)
    /\ line.callOut = "none" /\ line.marker = "start" /\ line.name = NoName
    /\ sectionHighlight' = PushSection(line)
    /\ snippets' = Append(snippets, <<lineNumber, "unnamed">>)
    /\ Keep(line, PushSection(line))
    /\ UNCHANGED <<pc, excludes, excludeTexts, mCallOuts, mSnippets>>

(* A continuation replaces the span, leaves its own excludes out, or the   *)
(* snippet gets the excludes of all snippets.                              *)
Closed_LastSpan(start, name) ==
    [mLineSpans |-> <<<<start, lineNumber>>>>,
     mExcludes  |-> excludes[name],
     mTextIfExcluded |-> excludeTexts[name]]
Closed_FirstExcludes(start, name) ==
    IF name \in DOMAIN mSnippets
    THEN [mSnippets[name] EXCEPT !.mLineSpans = Append(@, <<start, lineNumber>>)]
    ELSE Closed_LastSpan(start, name)
Closed_AllExcludes(start, name) ==
    [Closed_FirstExcludes(start, name) EXCEPT
        !.mExcludes = UNION {excludes[n] : n \in Names}]

(* The snippet that the end of an open one leaves behind: a further span   *)
(* of a known snippet, whose text stays as it is, or a new snippet.        *)
Closed(start, name) ==
    IF name \in DOMAIN mSnippets
    THEN [mSnippets[name] EXCEPT
            !.mLineSpans = Append(@, <<start, lineNumber>>),
            !.mExcludes  = @ \cup excludes[name]]
    ELSE [mLineSpans |-> <<<<start, lineNumber>>>>,
          mExcludes  |-> excludes[name],
          mTextIfExcluded |-> excludeTexts[name]]

(* Closes the snippet opened first.                                        *)
EndSnippet_Oldest(line) ==
    /\ Examined(line)
    /\ line.callOut = "none" /\ line.marker = "end" /\ snippets # <<>>
    /\ mSnippets' = Bind(mSnippets, snippets[1][2], Closed(snippets[1][1], snippets[1][2]))
    /\ snippets' = Tail(snippets)
    /\ sectionHighlight' = Pop(sectionHighlight)
    /\ KeepDefinition(line, Pop(sectionHighlight))
    /\ UNCHANGED <<pc, excludes, excludeTexts, mCallOuts>>

EndSnippet(line) ==
    /\ Examined(line)
    /\ line.callOut = "none" /\ line.marker = "end" /\ snippets # <<>>
    /\ LET start == Top(snippets)[1]
           name  == Top(snippets)[2]
       IN  mSnippets' = Bind(mSnippets, name, Closed(start, name))
    /\ snippets' = Pop(snippets)
    /\ sectionHighlight' = Pop(sectionHighlight)
    /\ KeepDefinition(line, Pop(sectionHighlight))
    /\ UNCHANGED <<pc, excludes, excludeTexts, mCallOuts>>

(* An end without a start is reported by a trace only.                     *)
UnmatchedEnd(line) ==
    /\ Examined(line)
    /\ line.callOut = "none" /\ line.marker = "end" /\ snippets = <<>>
    /\ sectionHighlight' = Pop(sectionHighlight)
    /\ KeepDefinition(line, Pop(sectionHighlight))
    /\ UNCHANGED <<pc, snippets, excludes, excludeTexts, mCallOuts, mSnippets>>

(* The end of the file, in whatever status it is reached.                  *)
WrongNesting ==
    /\ pc = "reading" /\ snippets # <<>>
    /\ pc' = "failed"
    /\ UNCHANGED <<opt, input, status, kept, marks, mCallOuts, mSnippets,
                   mHighlightedLines, mHasOmittedLines>>

(* emplace("all") leaves a snippet of that name as it is.                  *)
EmplaceAll ==
    IF "all" \in DOMAIN mSnippets THEN mSnippets
    ELSE Bind(mSnippets, "all",
              [mLineSpans |-> <<<<0, Len(mFileContents)>>>>,
               mExcludes |-> {}, mTextIfExcluded |-> NoText])

Finish ==
    /\ pc = "reading" /\ snippets = <<>>
    /\ pc' = "ok"
    /\ mSnippets' = EmplaceAll
    /\ UNCHANGED <<opt, input, status, kept, marks, mCallOuts,
                   mHighlightedLines, mHasOmittedLines>>

Returned ==
    /\ pc \in {"ok", "failed", "aborted"}
    /\ UNCHANGED vars

ReadLine(line) ==
    \/ SkipEmptyLine(line)
    \/ OmitLine(line)
    \/ StartBlockComment(line)
    \/ SkipBlockComment(line)
    \/ KeepCode(line)
    \/ ReadCallOut(line)
    \/ CallOutOverflow(line)
    \/ StartSnippet(line)
    \/ StartUnnamed(line)
    \/ EndSnippet(line)
    \/ UnmatchedEnd(line)

Next ==
    \/ Open
    \/ \E line \in Lines : ReadLine(line)
    \/ WrongNesting
    \/ Finish
    \/ Returned

Spec == Init /\ [][Next]_vars

-----------------------------------------------------------------------------
(* All recorded spans; a span <<b, e>> stands for the kept lines b..e-1.   *)
SpansOf(n) == {mSnippets[n].mLineSpans[i] : i \in DOMAIN mSnippets[n].mLineSpans}
AllSpans   == UNION {SpansOf(n) : n \in DOMAIN mSnippets}

(* Every variable holds a value of the type the code gives it.             *)
TypeOK ==
    /\ opt \in Options
    /\ pc \in {"opening", "reading", "ok", "failed", "aborted"}
    /\ input \in Seq(Lines)
    /\ status \in {"Normal", "BlockComment"}
    /\ lineNumber \in Nat
    /\ snippets \in Seq(Nat \X Names)
    /\ sectionHighlight \in Seq({"Included", "Excluded"})
    /\ excludes \in [Names -> SUBSET Names]
    /\ excludeTexts \in [Names -> Texts \cup {NoText}]
    /\ mFileContents \in Seq(Nat)
    /\ DOMAIN mCallOuts \subseteq Nat
    /\ mCallOuts \in [DOMAIN mCallOuts -> Nat]
    /\ DOMAIN mSnippets \subseteq Names
    /\ mSnippets \in [DOMAIN mSnippets -> Snippet]
    /\ mHighlightedLines \in Seq(Nat)
    /\ mHasOmittedLines \in BOOLEAN

(* The generator indexes fileContents() with every line of every span      *)
(* without a bounds check (asciidocsnippetfilegenerator.cc:150-153): a     *)
(* span never reaches beyond the kept lines, whatever was dropped.         *)
SpansInContents ==
    \A s \in AllSpans : s[1] <= s[2] /\ s[2] <= Len(mFileContents)

(* A callout is filed under the line that carries it, although it is filed *)
(* before that line is stored; the generator cuts fileContents()[k] at the *)
(* callout's column (asciidocsnippetfilegenerator.cc:157-165).             *)
CallOutsOnTheirLine ==
    \A k \in DOMAIN mCallOuts :
        /\ k < Len(mFileContents)
        /\ mFileContents[k + 1] = mCallOuts[k]
        /\ input[mCallOuts[k]].callOut = "number"

(* Two spans are disjoint or one lies within the other, across snippets    *)
(* and within one whose name is used again: excluding a snippet removes    *)
(* whole inner spans and never half of one.                                *)
NestedSpans ==
    \A s, t \in AllSpans :
        \/ s[2] <= t[1] \/ t[2] <= s[1]
        \/ s[1] <= t[1] /\ t[2] <= s[2]
        \/ t[1] <= s[1] /\ s[2] <= t[2]
=============================================================================
