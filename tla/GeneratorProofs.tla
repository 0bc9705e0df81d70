-------------------------- MODULE GeneratorProofs ---------------------------
(***************************************************************************)
(* For every file, every name and every setting: the generator's unchecked *)
(* accesses are in range, a consequence of what is proved about the parser,*)
(* the generator implements SnippetGeneration, and the files it has closed *)
(* show what the marks in the source file ask for: lines, markers,         *)
(* callouts and highlights are those that the marks give, in their order.  *)
(***************************************************************************)
EXTENDS RenderedSnippets, ReferenceProofs

(* Where the loops over the spans and their lines can be.                  *)
LoopInv ==
    /\ gpc \in {"parsing", "directory", "select", "span", "lines", "done", "failed"}
    /\ spanIndex \in Nat /\ spanLine \in Nat
    /\ coLines \in Seq(Nat)
    /\ \A i \in 1 .. Len(coLines) : coLines[i] \in DOMAIN mCallOuts
    /\ gpc = "parsing" => coLines = <<>>
    /\ gpc \notin {"parsing", "failed"} => pc = "ok"
    /\ gpc \in {"span", "lines"} =>
         /\ current \in DOMAIN mSnippets
         /\ spanIndex <= Len(CurrentSpans)
    /\ gpc = "lines" => spanIndex >= 1

GInv == IInv /\ LoopInv

LEMMA SpanTypes ==
  ASSUME TypeOK, NEW n \in DOMAIN mSnippets
  PROVE  /\ mSnippets[n].mLineSpans \in Seq(Nat \X Nat)
         /\ Len(mSnippets[n].mLineSpans) \in Nat
  BY LenProperties DEF TypeOK, Snippet, Spans

LEMMA GInvInit == GInit => GInv
<1> SUFFICES ASSUME GInit PROVE GInv
  OBVIOUS
<1>1. IInv
  BY IInvInit DEF GInit
<1>2. coLines \in Seq(Nat) /\ Len(coLines) = 0
  BY EmptySeq DEF GInit
<1>3. LoopInv
  BY <1>2 DEF GInit, LoopInv
<1> QED BY <1>1, <1>3 DEF GInv

(* Nothing but parsing changes the parser's state.                         *)
LEMMA GeneratorLeavesParser ==
  ASSUME GNext, ~Parse
  PROVE  UNCHANGED vars
  BY DEF GNext, ParseFails, WriteDatabase, MakeDirectory, OpenSnippetFile, EnterSpan,
         PrintLine, ExcludeLine, LeaveSpan, CloseSnippetFile, Done, Exit, allVars

LEMMA LoopStep ==
  ASSUME IInv, LoopInv, GNext, ~Parse
  PROVE  LoopInv'
<1>1. UNCHANGED vars
  BY GeneratorLeavesParser
<1>2. /\ UNCHANGED <<pc, mSnippets, mCallOuts>>
      /\ TypeOK /\ Len(coLines) \in Nat
  BY <1>1, LenProperties DEF vars, IInv, LoopInv
<1>3. CASE \/ ParseFails \/ WriteDatabase \/ MakeDirectory \/ LeaveSpan
           \/ CloseSnippetFile \/ Done \/ Exit
  <2>1. UNCHANGED <<spanIndex, spanLine, coLines, current>>
    BY <1>3 DEF ParseFails, WriteDatabase, MakeDirectory, LeaveSpan,
                CloseSnippetFile, Done, Exit, allVars, gvars, loop
  <2>2. /\ gpc' \in {"directory", "select", "span", "done", "failed"}
        /\ gpc' = "span" => gpc \in {"span", "lines"}
        /\ gpc' \notin {"parsing", "failed"} => pc = "ok"
    BY <1>3 DEF ParseFails, WriteDatabase, MakeDirectory, LeaveSpan,
                CloseSnippetFile, Done, Exit, allVars, gvars, LoopInv
  <2> QED BY <1>2, <2>1, <2>2 DEF LoopInv, CurrentSpans
<1>4. CASE OpenSnippetFile
  <2>1. /\ gpc = "select" /\ gpc' \in {"span", "failed"}
        /\ current' \in DOMAIN mSnippets
        /\ spanIndex' = 0 /\ spanLine' = 0 /\ coLines' = <<>>
    BY <1>4 DEF OpenSnippetFile
  <2>2. coLines' \in Seq(Nat) /\ Len(coLines') = 0
    BY <2>1, EmptySeq
  <2>3. Len(mSnippets[current'].mLineSpans) \in Nat
    BY <1>2, <2>1, SpanTypes
  <2> QED BY <1>2, <2>1, <2>2, <2>3 DEF LoopInv, CurrentSpans
<1>5. CASE EnterSpan
  <2>1. /\ gpc = "span" /\ gpc' = "lines" /\ spanIndex < Len(CurrentSpans)
        /\ spanIndex' = spanIndex + 1 /\ spanLine' = CurrentSpans[spanIndex + 1][1]
        /\ UNCHANGED <<current, coLines>>
    BY <1>5 DEF EnterSpan
  <2>2. /\ current \in DOMAIN mSnippets /\ spanIndex \in Nat
        /\ CurrentSpans \in Seq(Nat \X Nat) /\ Len(CurrentSpans) \in Nat
    BY <1>2, <2>1, SpanTypes DEF LoopInv, CurrentSpans
  <2>3. spanIndex + 1 \in 1 .. Len(CurrentSpans)
    BY <2>1, <2>2
  <2>4. CurrentSpans[spanIndex + 1] \in Nat \X Nat
    BY <2>2, <2>3, ElementOfSeq
  <2>5. CurrentSpans' = CurrentSpans
    BY <1>2, <2>1 DEF CurrentSpans
  <2> QED BY <1>2, <2>1, <2>2, <2>3, <2>4, <2>5 DEF LoopInv
<1>6. CASE PrintLine \/ ExcludeLine
  <2>1. /\ gpc = "lines" /\ spanLine' = spanLine + 1
        /\ UNCHANGED <<gpc, current, spanIndex>>
        /\ \/ UNCHANGED coLines
           \/ spanLine \in DOMAIN mCallOuts /\ coLines' = Append(coLines, spanLine)
    BY <1>6 DEF PrintLine, ExcludeLine
  <2>2. CurrentSpans' = CurrentSpans
    BY <1>2, <2>1 DEF CurrentSpans
  <2>3. coLines' \in Seq(Nat) /\ \A i \in 1 .. Len(coLines') : coLines'[i] \in DOMAIN mCallOuts
    <3>1. CASE UNCHANGED coLines
      BY <3>1 DEF LoopInv
    <3>2. CASE spanLine \in DOMAIN mCallOuts /\ coLines' = Append(coLines, spanLine)
      <4>1. coLines \in Seq(Nat) /\ spanLine \in Nat
        BY DEF LoopInv
      <4>2. /\ coLines' \in Seq(Nat) /\ Len(coLines') = Len(coLines) + 1
            /\ \A i \in 1 .. Len(coLines) : coLines'[i] = coLines[i]
            /\ coLines'[Len(coLines) + 1] = spanLine
        BY <3>2, <4>1, AppendFacts
      <4>3. ASSUME NEW i \in 1 .. Len(coLines') PROVE coLines'[i] \in DOMAIN mCallOuts
        <5>1. i \in 1 .. Len(coLines) \/ i = Len(coLines) + 1
          BY <1>2, <4>2
        <5> QED BY <3>2, <4>2, <5>1 DEF LoopInv
      <4> QED BY <4>2, <4>3
    <3> QED BY <2>1, <3>1, <3>2
  <2> QED BY <1>2, <2>1, <2>2, <2>3 DEF LoopInv
<1> QED BY <1>3, <1>4, <1>5, <1>6 DEF GNext

LEMMA GInvStep == GInv /\ [GNext]_allVars => GInv'
<1> SUFFICES ASSUME GInv, [GNext]_allVars PROVE GInv'
  OBVIOUS
<1>1. IInv /\ LoopInv
  BY DEF GInv
<1>2. CASE Parse
  <2>1. IInv'
    BY <1>1, <1>2, IInvStep DEF Parse
  <2>2. /\ gpc = "parsing" /\ coLines = <<>>
        /\ UNCHANGED <<gpc, spanIndex, spanLine, coLines>>
    BY <1>1, <1>2 DEF Parse, gvars, loop, LoopInv
  <2>3. LoopInv'
    BY <1>1, <2>2, EmptySeq DEF LoopInv
  <2> QED BY <2>1, <2>3 DEF GInv
<1>3. CASE GNext /\ ~Parse
  <2>1. IInv'
    BY <1>1, <1>3, GeneratorLeavesParser, IInvStep
  <2> QED BY <1>1, <1>3, <2>1, LoopStep DEF GInv
<1>4. CASE UNCHANGED allVars
  <2>1. UNCHANGED vars /\ UNCHANGED gvars
    BY <1>4 DEF allVars
  <2>2. IInv'
    BY <1>1, <2>1, IInvStep
  <2>3. LoopInv'
    BY <1>1, <2>1 DEF vars, gvars, loop, LoopInv, CurrentSpans
  <2> QED BY <2>2, <2>3 DEF GInv
<1> QED BY <1>2, <1>3, <1>4

LEMMA InRange == GInv => AccessInRange
<1> SUFFICES ASSUME GInv PROVE AccessInRange
  OBVIOUS
<1>1. TypeOK /\ LinesInv /\ SpansInv /\ LoopInv
  BY DEF GInv, IInv
<1>2. ASSUME gpc = "lines", spanLine < SpanEnd
      PROVE  spanLine + 1 \in DOMAIN mFileContents
  <2>1. /\ current \in DOMAIN mSnippets /\ spanLine \in Nat
        /\ CurrentSpans \in Seq(Nat \X Nat) /\ Len(CurrentSpans) \in Nat
        /\ spanIndex \in 1 .. Len(CurrentSpans)
    BY <1>1, <1>2, SpanTypes DEF LoopInv, CurrentSpans
  <2>2. spanIndex \in DOMAIN CurrentSpans
    BY <2>1
  <2>3. CurrentSpans[spanIndex] \in AllSpans
    BY <2>1, <2>2 DEF AllSpans, SpansOf, CurrentSpans
  <2>4. SpanEnd \in Nat /\ SpanEnd <= lineNumber
    BY <1>1, <2>3, SpanType DEF SpanEnd, SpansInv, SpansClosed
  <2>5. /\ lineNumber = Len(mFileContents) /\ Len(mFileContents) \in Nat
        /\ DOMAIN mFileContents = 1 .. Len(mFileContents)
    BY <1>1, LenProperties DEF LinesInv, TypeOK
  <2> QED BY <1>2, <2>1, <2>4, <2>5
<1>3. DOMAIN coLines = 1 .. Len(coLines)
  BY <1>1, LenProperties DEF LoopInv
<1> QED BY <1>1, <1>2, <1>3 DEF AccessInRange, LoopInv

(* fileContents()[lineNumber] and callouts.at(coLine) are never out of     *)
(* range, whatever the source file contains and whatever is excluded.      *)
THEOREM AccessAlwaysInRange == GSpec => []AccessInRange
  BY InRange, GInvInit, GInvStep, PTL DEF GSpec

-----------------------------------------------------------------------------
(* The loops have gone past line k of the snippet being rendered.          *)
Passed(k) ==
    \E i \in 1 .. spanIndex :
        /\ CurrentSpans[i][1] <= k /\ k < CurrentSpans[i][2]
        /\ gpc = "lines" /\ i = spanIndex => k < spanLine

PassedLines ==
    {mFileContents[k] : k \in {i \in DOMAIN mFileContents :
                                 Passed(i - 1) /\ ~IsLineExcluded(current, i - 1)}}

(* A block may contain anything.                                           *)
IsBlock(b) == \E S : b \in Seq(S)

BlockInv ==
    /\ gpc \in {"parsing", "directory"} => DOMAIN files = {}
    /\ pc = "ok" => "all" \in DOMAIN mSnippets
    /\ \A n \in DOMAIN files : LinesIn(files[n].block) = WantedLines(n)
    /\ gpc \in {"span", "lines"} =>
         /\ current \notin DOMAIN files
         /\ IsBlock(codeLines)
         /\ LinesIn(codeLines) = PassedLines
    /\ gpc = "lines" => CurrentSpans[spanIndex][1] <= spanLine

-----------------------------------------------------------------------------
LEMMA EmptyFunction == \A f : f = [x \in DOMAIN f |-> f[x]] /\ DOMAIN f = {} => f = <<>>
  OBVIOUS

LEMMA LinesInEmpty == IsBlock(<<>>) /\ LinesIn(<<>>) = {}
<1>1. <<>> \in Seq({}) /\ DOMAIN <<>> = {}
  OBVIOUS
<1> QED BY <1>1 DEF IsBlock, LinesIn

(* Only a source line adds to what a block shows.                          *)
LEMMA LinesInAppend ==
  ASSUME NEW b, IsBlock(b), NEW c
  PROVE  /\ IsBlock(Append(b, c))
         /\ c.kind = "source" => LinesIn(Append(b, c)) = LinesIn(b) \cup {c.at}
         /\ c.kind # "source" => LinesIn(Append(b, c)) = LinesIn(b)
<1>1. PICK S : b \in Seq(S)
  BY DEF IsBlock
<1>2. b \in Seq(S \cup {c})
  BY <1>1
<1>3. /\ Append(b, c) \in Seq(S \cup {c})
      /\ Len(b) \in Nat /\ Len(Append(b, c)) = Len(b) + 1
      /\ DOMAIN b = 1 .. Len(b) /\ DOMAIN Append(b, c) = 1 .. Len(b) + 1
      /\ \A i \in 1 .. Len(b) : Append(b, c)[i] = b[i]
      /\ Append(b, c)[Len(b) + 1] = c
  BY <1>2, AppendFacts, LenProperties
<1>4. \A i \in 1 .. Len(b) + 1 : i \in 1 .. Len(b) \/ i = Len(b) + 1
  BY <1>3
<1>5. Len(b) + 1 \in 1 .. Len(b) + 1 /\ \A i \in 1 .. Len(b) : i \in 1 .. Len(b) + 1
  BY <1>3
<1>6. CASE c.kind = "source"
  BY <1>3, <1>4, <1>5, <1>6 DEF IsBlock, LinesIn
<1>7. CASE c.kind # "source"
  BY <1>3, <1>4, <1>5, <1>7 DEF IsBlock, LinesIn
<1> QED BY <1>6, <1>7

LEMMA KindsDiffer ==
  \A k, co, t : /\ SourceLine(k, co).kind = "source" /\ SourceLine(k, co).at = k
                /\ Marker(t).kind # "source" /\ Delimiter.kind # "source"
  BY DEF SourceLine, Marker, Delimiter

(* When the last span has been left, all lines of the snippet have passed. *)
LEMMA AllPassed ==
  ASSUME GInv, gpc = "span", spanIndex = Len(CurrentSpans)
  PROVE  PassedLines = WantedLines(current)
<1>1. CurrentSpans \in Seq(Nat \X Nat) /\ DOMAIN CurrentSpans = 1 .. spanIndex
  BY SpanTypes, LenProperties DEF GInv, IInv, LoopInv, CurrentSpans
<1>2. \A k : Passed(k) <=> ContainsLine(current, k)
  BY <1>1 DEF Passed, ContainsLine, SpansOf, CurrentSpans
<1> QED BY <1>2 DEF PassedLines, WantedLines

(* parse() succeeds at the end of the file only, and lists the file.       *)
LEMMA ParsedHasAll ==
  ASSUME Next, pc # "ok", pc' = "ok"
  PROVE  "all" \in DOMAIN mSnippets'
<1>1. ASSUME NEW line \in Lines, ReadLine(line) PROVE FALSE
  BY <1>1 DEF ReadLine, Read, Examined, SkipEmptyLine, OmitLine, StartBlockComment,
              SkipBlockComment, KeepCode, ReadCallOut, CallOutOverflow, StartSnippet,
              StartUnnamed, EndSnippet, UnmatchedEnd
<1>2. Finish
  BY <1>1 DEF Next, Open, WrongNesting, Returned, vars
<1> QED BY <1>2 DEF Finish, EmplaceAll, Bind

LEMMA BlockInit == GInit => BlockInv
<1> SUFFICES ASSUME GInit PROVE BlockInv
  OBVIOUS
<1>1. gpc = "parsing" /\ pc = "opening" /\ files = <<>>
  BY DEF GInit, Init
<1>2. DOMAIN files = {}
  BY <1>1
<1> QED BY <1>1, <1>2 DEF BlockInv

(* What a line of a span adds to the lines that have been passed.          *)
LEMMA LinePasses ==
  ASSUME GInv, gpc = "lines", spanLine < SpanEnd, UNCHANGED vars,
         UNCHANGED <<gpc, current, spanIndex>>, spanLine' = spanLine + 1,
         CurrentSpans[spanIndex][1] <= spanLine
  PROVE  /\ IsLineExcluded(current, spanLine) => PassedLines' = PassedLines
         /\ ~IsLineExcluded(current, spanLine) =>
              PassedLines' = PassedLines \cup {mFileContents[spanLine + 1]}
<1>1. /\ spanIndex \in 1 .. Len(CurrentSpans) /\ spanLine \in Nat
      /\ current \in DOMAIN mSnippets
      /\ CurrentSpans \in Seq(Nat \X Nat) /\ Len(CurrentSpans) \in Nat
  BY SpanTypes DEF GInv, IInv, LoopInv, CurrentSpans
<1>2. UNCHANGED <<mSnippets, mFileContents>>
  BY DEF vars, kept
<1>3. CurrentSpans' = CurrentSpans
  BY <1>2 DEF CurrentSpans
<1>4. \A k : IsLineExcluded(current, k)' <=> IsLineExcluded(current, k)
  BY <1>2 DEF IsLineExcluded, Excluding, ContainsLine, SpansOf
<1>5. /\ spanIndex \in 1 .. spanIndex
      /\ CurrentSpans[spanIndex][1] \in Nat /\ CurrentSpans[spanIndex][2] \in Nat
      /\ \A k \in Nat : k < spanLine + 1 <=> k < spanLine \/ k = spanLine
  BY <1>1, ElementOfSeq
<1>6. \A k \in Nat : Passed(k)' <=> Passed(k) \/ k = spanLine
  BY <1>1, <1>3, <1>5 DEF Passed, SpanEnd
<1>7. spanLine + 1 \in DOMAIN mFileContents /\ DOMAIN mFileContents \subseteq Nat \ {0}
  BY InRange, LenProperties DEF AccessInRange, GInv, IInv, TypeOK
<1>8. \A i \in DOMAIN mFileContents : i - 1 \in Nat /\ (i - 1 = spanLine <=> i = spanLine + 1)
  <2>1. \A k \in Nat, i \in Nat \ {0} : i - 1 \in Nat /\ (i - 1 = k <=> i = k + 1)
    OBVIOUS
  <2>2. spanLine \in Nat
    BY <1>1
  <2> QED BY ONLY <1>7, <2>1, <2>2
<1>9. CASE IsLineExcluded(current, spanLine)
  BY <1>2, <1>4, <1>6, <1>8, <1>9 DEF PassedLines
<1>10. CASE ~IsLineExcluded(current, spanLine)
  BY <1>1, <1>2, <1>4, <1>6, <1>7, <1>8, <1>10 DEF PassedLines
<1> QED BY <1>9, <1>10

(* Only the file of the snippet being rendered changes, and when it is     *)
(* closed.                                                                 *)
LEMMA WantedStays ==
  ASSUME UNCHANGED vars
  PROVE  /\ Wanted' = Wanted /\ \A n : WantedLines(n)' = WantedLines(n)
         /\ UNCHANGED <<pc, mSnippets>>
<1>1. UNCHANGED <<pc, mSnippets, mFileContents>>
  BY DEF vars, kept
<1> QED BY <1>1 DEF Wanted, WantedLines, ContainsLine, SpansOf, IsLineExcluded, Excluding

LEMMA PassedStays ==
  ASSUME UNCHANGED vars, UNCHANGED <<gpc, current, spanIndex, spanLine>>
  PROVE  PassedLines' = PassedLines
<1>1. UNCHANGED <<mSnippets, mFileContents>>
  BY DEF vars, kept
<1>2. /\ \A k : Passed(k)' <=> Passed(k)
      /\ \A k : IsLineExcluded(current, k)' <=> IsLineExcluded(current, k)
  BY <1>1 DEF Passed, CurrentSpans, IsLineExcluded, Excluding, ContainsLine, SpansOf
<1> QED BY <1>1, <1>2 DEF PassedLines

(* A span that has been entered or left shows nothing more than before.    *)
LEMMA SpanBoundary ==
  ASSUME GInv, EnterSpan \/ LeaveSpan
  PROVE  PassedLines' = PassedLines
<1>1. /\ UNCHANGED <<mSnippets, mFileContents, current>>
      /\ current \in DOMAIN mSnippets /\ spanIndex \in Nat /\ spanLine \in Nat
      /\ CurrentSpans \in Seq(Nat \X Nat) /\ Len(CurrentSpans) \in Nat
      /\ spanIndex <= Len(CurrentSpans)
  BY SpanTypes DEF EnterSpan, LeaveSpan, vars, kept, loop, GInv, IInv, LoopInv, CurrentSpans
<1>2. /\ CurrentSpans' = CurrentSpans
      /\ \A k : IsLineExcluded(current, k)' <=> IsLineExcluded(current, k)
  BY <1>1 DEF CurrentSpans, IsLineExcluded, Excluding, ContainsLine, SpansOf
<1>3. \A k \in Nat : Passed(k)' <=> Passed(k)
  <2> TAKE k \in Nat
  <2>1. CASE EnterSpan
    <3>1. /\ gpc = "span" /\ gpc' = "lines" /\ spanIndex' = spanIndex + 1
          /\ spanIndex + 1 \in 1 .. Len(CurrentSpans)
          /\ spanLine' = CurrentSpans[spanIndex + 1][1]
      <4>1. /\ gpc = "span" /\ gpc' = "lines" /\ spanIndex' = spanIndex + 1
            /\ spanIndex < Len(CurrentSpans)
            /\ spanLine' = CurrentSpans[spanIndex + 1][1]
        BY ONLY <2>1 DEF EnterSpan
      <4> QED BY ONLY <1>1, <4>1
    <3>2. spanLine' \in Nat
      <4>1. CurrentSpans[spanIndex + 1] \in Nat \X Nat
        BY <1>1, <3>1, ElementOfSeq
      <4> QED BY <3>1, <4>1
    <3>3. \A i \in 1 .. spanIndex + 1 : i \in 1 .. spanIndex \/ i = spanIndex + 1
      BY <1>1
    <3>4. \A i \in 1 .. spanIndex : i \in 1 .. spanIndex + 1 /\ i # spanIndex + 1
      BY <1>1
    <3> QED BY <1>2, <3>1, <3>2, <3>3, <3>4 DEF Passed
  <2>2. CASE LeaveSpan
    <3>1. /\ gpc = "lines" /\ gpc' = "span" /\ UNCHANGED <<spanIndex, spanLine>>
          /\ spanLine >= CurrentSpans[spanIndex][2] /\ spanIndex >= 1
      BY <2>2 DEF LeaveSpan, loop, SpanEnd, GInv, LoopInv
    <3>2. spanIndex \in 1 .. Len(CurrentSpans) /\ CurrentSpans[spanIndex][2] \in Nat
      BY <1>1, <3>1, ElementOfSeq
    <3>3. k < CurrentSpans[spanIndex][2] => k < spanLine
      BY <1>1, <3>1, <3>2
    <3> QED BY <1>2, <3>1, <3>3 DEF Passed
  <2> QED BY <2>1, <2>2
<1>4. \A i \in DOMAIN mFileContents : i - 1 \in Nat
  BY LenProperties DEF GInv, IInv, TypeOK
<1> QED BY <1>1, <1>2, <1>3, <1>4 DEF PassedLines

LEMMA BlockStep == GInv /\ BlockInv /\ [GNext]_allVars => BlockInv'
<1> SUFFICES ASSUME GInv, BlockInv, [GNext]_allVars PROVE BlockInv'
  OBVIOUS
<1>1. CASE Parse
  <2>1. /\ gpc = "parsing" /\ gpc' = "parsing" /\ UNCHANGED files /\ DOMAIN files = {}
        /\ pc # "ok" /\ Next
    BY <1>1 DEF Parse, gvars, BlockInv
  <2> QED BY <2>1, ParsedHasAll DEF BlockInv
<1>2. CASE \/ ParseFails \/ WriteDatabase \/ MakeDirectory \/ Done
  <2>1. /\ UNCHANGED vars /\ UNCHANGED <<files, current>>
        /\ gpc' \notin {"span", "lines"}
        /\ gpc' \in {"parsing", "directory"} => gpc = "parsing"
    BY <1>2 DEF ParseFails, WriteDatabase, MakeDirectory, Done
  <2> QED BY <2>1, WantedStays DEF BlockInv
<1>3. CASE OpenSnippetFile
  <2>1. /\ UNCHANGED vars /\ UNCHANGED files /\ gpc' \in {"span", "failed"}
        /\ current' \notin DOMAIN files /\ codeLines' = <<>> /\ spanIndex' = 0
    BY <1>3 DEF OpenSnippetFile
  <2>2. LinesIn(codeLines') = {} /\ IsBlock(codeLines')
    BY <2>1, LinesInEmpty
  <2>3. PassedLines' = {}
    BY <2>1 DEF PassedLines, Passed
  <2>4. LinesIn(codeLines)' = LinesIn(codeLines') /\ IsBlock(codeLines)' = IsBlock(codeLines')
    BY DEF LinesIn, IsBlock
  <2> QED BY <2>1, <2>2, <2>3, <2>4, WantedStays DEF BlockInv
<1>4. CASE EnterSpan
  <2>1. /\ UNCHANGED vars /\ UNCHANGED <<files, current>> /\ gpc = "span" /\ gpc' = "lines"
        /\ codeLines' = Append(codeLines, Delimiter) \/ codeLines' = codeLines
        /\ spanLine' = CurrentSpans[spanIndex + 1][1] /\ spanIndex' = spanIndex + 1
    BY <1>4 DEF EnterSpan
  <2>2. /\ LinesIn(codeLines') = LinesIn(codeLines) /\ IsBlock(codeLines')
        /\ spanIndex \in Nat /\ current \in DOMAIN mSnippets /\ IInv
    <3>1. IsBlock(codeLines) /\ Delimiter.kind # "source"
      BY <2>1, KindsDiffer DEF BlockInv
    <3>2. /\ IsBlock(Append(codeLines, Delimiter))
          /\ LinesIn(Append(codeLines, Delimiter)) = LinesIn(codeLines)
      BY <3>1, LinesInAppend
    <3> QED BY <2>1, <3>1, <3>2 DEF GInv, LoopInv
  <2>3. LinesIn(codeLines)' = LinesIn(codeLines') /\ IsBlock(codeLines)' = IsBlock(codeLines')
    BY DEF LinesIn, IsBlock
  <2>4. CurrentSpans' = CurrentSpans
    BY <2>1, WantedStays DEF CurrentSpans
  <2>5. (CurrentSpans[spanIndex][1] <= spanLine)'
    <3>1. spanIndex + 1 \in 1 .. Len(CurrentSpans) /\ CurrentSpans \in Seq(Nat \X Nat)
      BY <2>2, <1>4, SpanTypes DEF EnterSpan, IInv, CurrentSpans
    <3>2. CurrentSpans[spanIndex + 1][1] \in Nat
      BY <3>1, ElementOfSeq
    <3> QED BY <2>1, <2>4, <3>2
  <2> QED BY <1>4, <2>1, <2>2, <2>3, <2>5, SpanBoundary, WantedStays DEF BlockInv
<1>5. CASE PrintLine \/ ExcludeLine
  <2>1. /\ UNCHANGED vars /\ UNCHANGED <<files, current, gpc, spanIndex>>
        /\ gpc = "lines" /\ spanLine < SpanEnd /\ spanLine' = spanLine + 1
    BY <1>5 DEF PrintLine, ExcludeLine
  <2>2. /\ IsBlock(codeLines) /\ LinesIn(codeLines) = PassedLines
        /\ CurrentSpans[spanIndex][1] <= spanLine
    BY <2>1 DEF BlockInv
  <2>3. /\ IsBlock(codeLines')
        /\ LinesIn(codeLines') = IF IsLineExcluded(current, spanLine) THEN LinesIn(codeLines)
                                 ELSE LinesIn(codeLines) \cup {mFileContents[spanLine + 1]}
    <3>1. CASE PrintLine
      <4>1. PICK co : codeLines' = Append(codeLines, SourceLine(mFileContents[spanLine + 1], co))
        BY <3>1 DEF PrintLine
      <4>2. ~IsLineExcluded(current, spanLine)
        BY <3>1 DEF PrintLine
      <4> DEFINE c == SourceLine(mFileContents[spanLine + 1], co)
      <4>3. c.kind = "source" /\ c.at = mFileContents[spanLine + 1]
        BY KindsDiffer
      <4> HIDE DEF c
      <4> QED BY <2>2, <4>1, <4>2, <4>3, LinesInAppend DEF c
    <3>2. CASE ExcludeLine
      <4>1. /\ IsLineExcluded(current, spanLine)
            /\ \/ codeLines' = codeLines
               \/ codeLines' = Append(codeLines, Marker(ExcludeText(current, spanLine)))
        BY <3>2 DEF ExcludeLine
      <4> DEFINE c == Marker(ExcludeText(current, spanLine))
      <4>2. c.kind # "source"
        BY KindsDiffer
      <4>3. codeLines' = codeLines \/ codeLines' = Append(codeLines, c)
        BY <4>1
      <4> HIDE DEF c
      <4>4. IsBlock(Append(codeLines, c)) /\ LinesIn(Append(codeLines, c)) = LinesIn(codeLines)
        BY <2>2, <4>2, LinesInAppend
      <4> QED BY <2>2, <4>1, <4>3, <4>4
    <3> QED BY <1>5, <3>1, <3>2
  <2>4. LinesIn(codeLines)' = LinesIn(codeLines') /\ IsBlock(codeLines)' = IsBlock(codeLines')
    BY DEF LinesIn, IsBlock
  <2>5. CurrentSpans' = CurrentSpans
    BY <2>1, WantedStays DEF CurrentSpans
  <2>6. (CurrentSpans[spanIndex][1] <= spanLine)'
    <3>1. /\ spanIndex \in 1 .. Len(CurrentSpans) /\ CurrentSpans \in Seq(Nat \X Nat)
          /\ spanLine \in Nat
      BY <2>1, SpanTypes DEF GInv, IInv, LoopInv, CurrentSpans
    <3>2. CurrentSpans[spanIndex][1] \in Nat
      BY <3>1, ElementOfSeq
    <3> QED BY <2>1, <2>2, <2>5, <3>1, <3>2
  <2> QED BY <2>1, <2>2, <2>3, <2>4, <2>6, LinePasses, WantedStays DEF BlockInv
<1>6. CASE LeaveSpan
  <2>1. /\ UNCHANGED vars /\ UNCHANGED <<files, current, codeLines>>
        /\ gpc = "lines" /\ gpc' = "span"
    BY <1>6 DEF LeaveSpan, loop
  <2>2. LinesIn(codeLines)' = LinesIn(codeLines) /\ IsBlock(codeLines)' = IsBlock(codeLines)
    BY <2>1 DEF LinesIn, IsBlock
  <2> QED BY <1>6, <2>1, <2>2, SpanBoundary, WantedStays DEF BlockInv
<1>7. CASE CloseSnippetFile
  <2>1. /\ UNCHANGED vars /\ gpc = "span" /\ gpc' = "select"
        /\ spanIndex = Len(CurrentSpans)
        /\ DOMAIN files' = DOMAIN files \cup {current}
        /\ files'[current].block = codeLines
        /\ \A n \in DOMAIN files : n # current => files'[n] = files[n]
    BY <1>7 DEF CloseSnippetFile, Bind
  <2>2. LinesIn(codeLines) = WantedLines(current)
    BY <2>1, AllPassed DEF BlockInv
  <2>3. \A n \in DOMAIN files' : LinesIn(files'[n].block) = WantedLines(n)
    BY <2>1, <2>2 DEF BlockInv
  <2>4. \A n : LinesIn(files[n].block)' = LinesIn(files'[n].block)
    BY DEF LinesIn
  <2> QED BY <2>1, <2>3, <2>4, WantedStays DEF BlockInv
<1>8. CASE Exit \/ UNCHANGED allVars
  <2>1. UNCHANGED vars /\ UNCHANGED <<files, gpc, current, spanIndex, spanLine, codeLines>>
    BY <1>8 DEF Exit, allVars, gvars, loop
  <2>2. /\ LinesIn(codeLines)' = LinesIn(codeLines) /\ IsBlock(codeLines)' = IsBlock(codeLines)
        /\ CurrentSpans' = CurrentSpans
        /\ \A n : LinesIn(files[n].block)' = LinesIn(files[n].block)
    BY <2>1, WantedStays DEF LinesIn, IsBlock, CurrentSpans
  <2> QED BY <2>1, <2>2, PassedStays, WantedStays DEF BlockInv
<1> QED BY <1>1, <1>2, <1>3, <1>4, <1>5, <1>6, <1>7, <1>8 DEF GNext

-----------------------------------------------------------------------------
LEMMA PhaseOf ==
  ASSUME GInv
  PROVE  /\ gpc \notin {"parsing", "failed", "done"} => Phase = "writing" /\ pc = "ok"
         /\ gpc = "done" => Phase = "done"
         /\ gpc = "failed" => Phase = "failed"
         /\ gpc = "parsing" /\ pc = "ok" => Phase = "writing"
         /\ gpc = "parsing" /\ pc # "ok" => Phase = "parsing"
  BY DEF GInv, LoopInv, Phase

LEMMA RenderedStays == UNCHANGED files => Rendered' = Rendered
  BY DEF Rendered, LinesIn

LEMMA GenerationStarts == GInit => Generation!Init
<1> SUFFICES ASSUME GInit PROVE Generation!Init
  OBVIOUS
<1>1. gpc = "parsing" /\ pc = "opening" /\ files = <<>> /\ database = {}
  BY DEF GInit, Init
<1>2. Rendered = <<>>
  BY <1>1, EmptyFunction DEF Rendered
<1> QED BY <1>1, <1>2 DEF Generation!Init, Phase, Wanted

(* parse() settles what the snippets have to show, at its end.             *)
LEMMA ParsingUnderstands ==
  ASSUME GInv, GInv', BlockInv, BlockInv', Parse
  PROVE  [Generation!Next]_Generation!promised
<1>1. /\ gpc = "parsing" /\ UNCHANGED <<gpc, files, database>> /\ pc # "ok"
  BY DEF Parse, gvars
<1>2. Phase = "parsing" /\ UNCHANGED Rendered /\ Wanted = <<>>
  BY <1>1, RenderedStays DEF Phase, Wanted
<1>3. CASE pc' # "ok"
  BY <1>1, <1>2, <1>3 DEF Phase, Wanted, Generation!promised
<1>4. CASE pc' = "ok"
  <2>1. /\ DOMAIN mSnippets' \subseteq Names /\ "all" \in DOMAIN mSnippets'
        /\ mFileContents' \in Seq(Nat)
    BY <1>4 DEF GInv, IInv, TypeOK, BlockInv
  <2>2. ASSUME NEW n PROVE WantedLines(n)' \subseteq Nat
    BY <2>1, ElementOfSeq, LenProperties DEF WantedLines
  <2>3. Wanted' = [n \in DOMAIN mSnippets' |-> WantedLines(n)']
    BY <1>4 DEF Wanted
  <2>4. Wanted' \in [DOMAIN mSnippets' -> SUBSET Nat] /\ DOMAIN Wanted' = DOMAIN mSnippets'
    BY <2>2, <2>3
  <2>5. Phase' = "writing"
    BY <1>1, <1>4 DEF Phase
  <2>6. Generation!Understand
    BY <1>1, <1>2, <2>1, <2>4, <2>5 DEF Generation!Understand
  <2> QED BY <2>6 DEF Generation!Next
<1> QED BY <1>3, <1>4

(* A closed file shows what its snippet has to show.                       *)
LEMMA ClosingShows ==
  ASSUME GInv, GInv', BlockInv, BlockInv', CloseSnippetFile
  PROVE  Generation!Show(current) /\ current \in DOMAIN Wanted
<1>1. /\ UNCHANGED vars /\ UNCHANGED database /\ gpc = "span" /\ gpc' = "select"
      /\ DOMAIN files' = DOMAIN files \cup {current}
      /\ \A n \in DOMAIN files : n # current => files'[n] = files[n]
  BY DEF CloseSnippetFile, Bind
<1>2. /\ Phase = "writing" /\ Phase' = "writing" /\ pc = "ok"
      /\ current \in DOMAIN mSnippets /\ current \notin DOMAIN files
  BY <1>1, PhaseOf DEF Phase, GInv, LoopInv, BlockInv
<1>3. Wanted' = Wanted /\ Wanted[current] = WantedLines(current) /\ current \in DOMAIN Wanted
  BY <1>1, <1>2, WantedStays DEF Wanted
<1>4. \A n : LinesIn(files[n].block)' = LinesIn(files'[n].block)
  BY DEF LinesIn
<1>5. LinesIn(files'[current].block) = WantedLines(current)
  BY <1>1, <1>4, WantedStays DEF BlockInv
<1>6. Rendered' = [n \in DOMAIN files \cup {current} |-> LinesIn(files'[n].block)]
  BY <1>1, <1>4 DEF Rendered
<1>7. DOMAIN Rendered = DOMAIN files
      /\ \A n \in DOMAIN files : Rendered[n] = LinesIn(files[n].block)
  BY DEF Rendered
<1>8. Rendered' = [m \in DOMAIN Rendered \cup {current} |->
                     IF m = current THEN Wanted[current] ELSE Rendered[m]]
  BY <1>1, <1>2, <1>3, <1>5, <1>6, <1>7
<1> QED BY <1>1, <1>2, <1>3, <1>7, <1>8 DEF Generation!Show

LEMMA GenerationSteps ==
  ASSUME GInv, GInv', BlockInv, BlockInv', [GNext]_allVars
  PROVE  [Generation!Next]_Generation!promised
<1>1. CASE Parse
  BY <1>1, ParsingUnderstands
<1>2. CASE CloseSnippetFile
  BY <1>2, ClosingShows DEF Generation!Next
<1>3. CASE \/ ParseFails \/ MakeDirectory \/ OpenSnippetFile \/ EnterSpan \/ PrintLine
           \/ ExcludeLine \/ LeaveSpan
  <2>1. /\ UNCHANGED vars /\ UNCHANGED <<files, database>>
        /\ gpc' \in {"directory", "select", "span", "lines", "failed"}
        /\ gpc' # "failed" => gpc \in {"directory", "select", "span", "lines"}
        /\ gpc \in {"parsing", "directory", "select", "span", "lines"}
    BY <1>3 DEF ParseFails, MakeDirectory, OpenSnippetFile, EnterSpan, PrintLine,
                ExcludeLine, LeaveSpan
  <2>2. UNCHANGED <<Wanted, Rendered, database>>
    BY <2>1, WantedStays, RenderedStays
  <2>3. CASE gpc' = "failed"
    <3>1. Phase \in {"parsing", "writing"} /\ Phase' = "failed"
      BY <2>1, <2>3 DEF Phase
    <3> QED BY <2>2, <3>1 DEF Generation!GiveUp, Generation!Next
  <2>4. CASE gpc' # "failed"
    <3>1. Phase = "writing" /\ Phase' = "writing"
      BY <2>1, <2>4 DEF Phase
    <3> QED BY <2>2, <3>1 DEF Generation!promised
  <2> QED BY <2>3, <2>4
<1>4. CASE WriteDatabase
  <2>1. /\ UNCHANGED vars /\ UNCHANGED files /\ gpc = "parsing" /\ pc = "ok"
        /\ gpc' = "directory" /\ database' \in {{}, DOMAIN mSnippets}
    BY <1>4 DEF WriteDatabase
  <2>2. UNCHANGED <<Wanted, Rendered>> /\ Phase = "writing" /\ Phase' = "writing"
    BY <2>1, WantedStays, RenderedStays DEF Phase
  <2>3. DOMAIN Wanted = DOMAIN mSnippets /\ DOMAIN Rendered = {}
    BY <2>1 DEF Wanted, Rendered, BlockInv
  <2> QED BY <2>1, <2>2, <2>3 DEF Generation!List, Generation!Next
<1>5. CASE Done
  <2>1. /\ UNCHANGED vars /\ UNCHANGED <<files, database>>
        /\ gpc = "select" /\ gpc' = "done" /\ DOMAIN mSnippets = DOMAIN files
    BY <1>5 DEF Done
  <2>2. UNCHANGED <<Wanted, Rendered>> /\ Phase = "writing" /\ Phase' = "done" /\ pc = "ok"
    BY <2>1, PhaseOf, WantedStays, RenderedStays DEF Phase
  <2>3. DOMAIN Wanted = DOMAIN mSnippets /\ DOMAIN Rendered = DOMAIN files
    BY <2>2 DEF Wanted, Rendered
  <2> QED BY <2>1, <2>2, <2>3 DEF Generation!Succeed, Generation!Next
<1>6. CASE Exit \/ UNCHANGED allVars
  <2>1. UNCHANGED vars /\ UNCHANGED <<gpc, files, database>>
    BY <1>6 DEF Exit, allVars, gvars
  <2>2. UNCHANGED <<Phase, Wanted, Rendered, database>>
    BY <2>1, WantedStays, RenderedStays DEF Phase
  <2> QED BY <2>2 DEF Generation!promised
<1> QED BY <1>1, <1>2, <1>3, <1>4, <1>5, <1>6 DEF GNext

(* The generator implements SnippetGeneration: whatever the source file    *)
(* contains, it ends with success only if every snippet has a file with    *)
(* all the lines and only the lines it has to show.                        *)
THEOREM GenerationAlwaysKept == GSpec => GenerationIsKept
<1>1. GInit => GInv /\ BlockInv
  BY GInvInit, BlockInit
<1>2. GInv /\ BlockInv /\ [GNext]_allVars => GInv' /\ BlockInv'
  BY GInvStep, BlockStep
<1>3. GInv /\ GInv' /\ BlockInv /\ BlockInv' /\ [GNext]_allVars
        => [Generation!Next]_Generation!promised
  BY GenerationSteps
<1> QED BY <1>1, <1>2, <1>3, GenerationStarts, PTL DEF GSpec, GenerationIsKept, Generation!Spec

-----------------------------------------------------------------------------
(* Which snippets parse() returns: those with a name in the file, and the  *)
(* implicit one.                                                           *)
WholeInv ==
    /\ \A m \in DOMAIN mSnippets : m \in UsedNames \/ (m = "all" /\ pc = "ok")
    /\ pc = "ok" /\ "all" \notin UsedNames =>
         /\ "all" \in DOMAIN mSnippets
         /\ mSnippets["all"].mLineSpans = <<<<0, Len(mFileContents)>>>>
         /\ mSnippets["all"].mExcludes = {}

LEMMA WholeInit == Init => WholeInv
<1>1. Init => DOMAIN mSnippets = {} /\ pc = "opening"
  BY DEF Init
<1> QED BY <1>1 DEF WholeInv

LEMMA WholeReading ==
  ASSUME ReferenceInv, WholeInv, NEW line \in Lines, ReadLine(line)
  PROVE  WholeInv'
<1>1. PICK n : n = Len(input)
  OBVIOUS
<1>2. /\ TypeOK /\ CommentInv /\ StackInv /\ TypeOK'
  <2>1. Next
    BY DEF Next
  <2> QED BY <2>1, TypeStep DEF ReferenceInv
<1>3. Read(line) /\ Effect(line, n)
  BY <1>1, <1>2, LineEffect
<1>4. pc = "reading" /\ pc' \in {"reading", "aborted"}
  BY <1>3 DEF Read, ReadLine, SkipEmptyLine, OmitLine, StartBlockComment, SkipBlockComment,
              KeepCode, ReadCallOut, CallOutOverflow, StartSnippet, StartUnnamed,
              EndSnippet, UnmatchedEnd
<1>5. NoPair(n) \/ \E b \in 1 .. n : NewPair(n, b)
  BY <1>1, <1>2, <1>3, PairsStep
<1>6. n \in Nat /\ Len(input') = n + 1
  BY <1>1, <1>2, <1>3, InputGrows
<1>7. \A i \in 1 .. n : (Starts(i)' <=> Starts(i)) /\ NameAt(i)' = NameAt(i)
  BY <1>1, <1>2, <1>3, LinesStay
<1>8. \A i \in 1 .. n : i \in 1 .. n + 1
  BY <1>6
<1>9. UsedNames \subseteq UsedNames'
  BY <1>1, <1>6, <1>7, <1>8 DEF UsedNames, StartLines, LinesRead
<1>10. \A m \in DOMAIN mSnippets : m \in UsedNames'
  BY <1>4, <1>9 DEF WholeInv
<1>11. CASE NoPair(n)
  BY <1>4, <1>10, <1>11 DEF NoPair, WholeInv
<1>12. ASSUME NEW b \in 1 .. n, NewPair(n, b) PROVE WholeInv'
  <2>1. Matches(b, n + 1)' /\ DOMAIN mSnippets' = DOMAIN mSnippets \cup {NameAt(b)}
    <3>1. n + 1 \in 1 .. n + 1 /\ b \in 1 .. n + 1
      BY <1>6
    <3> QED BY <1>12, <3>1 DEF NewPair, Bind
  <2>2. (b \in StartLines)'
    BY <2>1 DEF Matches, Matched
  <2>3. NameAt(b) \in UsedNames'
    BY <1>7, <2>2 DEF UsedNames
  <2> QED BY <1>4, <1>10, <2>1, <2>3 DEF WholeInv
<1> QED BY <1>5, <1>11, <1>12

LEMMA WholeStep == ReferenceInv /\ WholeInv /\ [Next]_vars => WholeInv'
<1> SUFFICES ASSUME ReferenceInv, WholeInv, [Next]_vars PROVE WholeInv'
  OBVIOUS
<1>1. CASE \E line \in Lines : ReadLine(line)
  BY <1>1, WholeReading
<1>2. CASE Finish
  <2>1. /\ pc = "reading" /\ pc' = "ok" /\ mSnippets' = EmplaceAll
        /\ UNCHANGED <<opt, input, mFileContents>>
    BY <1>2 DEF Finish, kept
  <2>2. UsedNames' = UsedNames
    BY <2>1, SameLines DEF UsedNames
  <2>3. CASE "all" \in DOMAIN mSnippets
    <3>1. mSnippets' = mSnippets /\ "all" \in UsedNames
      BY <2>1, <2>3 DEF EmplaceAll, WholeInv
    <3> QED BY <2>1, <2>2, <3>1 DEF WholeInv
  <2>4. CASE "all" \notin DOMAIN mSnippets
    <3>1. /\ DOMAIN mSnippets' = DOMAIN mSnippets \cup {"all"}
          /\ mSnippets'["all"].mLineSpans = <<<<0, Len(mFileContents)>>>>
          /\ mSnippets'["all"].mExcludes = {}
      BY <2>1, <2>4 DEF EmplaceAll, Bind
    <3> QED BY <2>1, <2>2, <3>1 DEF WholeInv
  <2> QED BY <2>3, <2>4
<1>3. CASE Open \/ WrongNesting \/ UNCHANGED vars
  <2>1. UNCHANGED <<opt, input, mSnippets, mFileContents>> /\ (pc' = "ok" <=> pc = "ok")
    BY <1>3 DEF Open, WrongNesting, vars, kept, marks
  <2>2. UsedNames' = UsedNames
    BY <2>1, SameLines DEF UsedNames
  <2> QED BY <2>1, <2>2 DEF WholeInv
<1> QED BY <1>1, <1>2, <1>3 DEF Next, Returned

-----------------------------------------------------------------------------
(* The places of the kept lines in the contents keep their order.          *)
LEMMA PositionsGrow ==
  ASSUME NEW i \in Nat \ {0}, NEW j \in Nat \ {0}
  PROVE  /\ Position(i) \in Nat /\ Position(j) \in Nat
         /\ i <= j => Position(i) <= Position(j)
         /\ i < j /\ IsKept(i) => Position(i) < Position(j)
<1>1. \A k \in Nat \ {0} :
        /\ Position(k) \in Nat
        /\ Position(k + 1) = IF IsKept(k) THEN Position(k) + 1 ELSE Position(k)
  BY PositionStep DEF PositionSteps
<1>2. ASSUME NEW k \in Nat \ {0}, k <= j PROVE Position(k) <= Position(j)
  <2> DEFINE keptTo(m) == {x \in 1 .. m - 1 : IsKept(x)}
  <2>1. keptTo(k) \subseteq keptTo(j)
    BY <1>2
  <2>2. IsFiniteSet(keptTo(j))
    <3>1. keptTo(j) \subseteq 1 .. j - 1 /\ j - 1 \in Int
      OBVIOUS
    <3> QED BY <3>1, CountedInInterval
  <2>3. Position(k) = Cardinality(keptTo(k)) /\ Position(j) = Cardinality(keptTo(j))
    BY DEF Position
  <2> HIDE DEF keptTo
  <2>4. Cardinality(keptTo(k)) <= Cardinality(keptTo(j))
    BY <2>1, <2>2, FS_Subset
  <2> QED BY <2>3, <2>4
<1>3. ASSUME i < j, IsKept(i) PROVE Position(i) < Position(j)
  <2>1. i + 1 \in Nat \ {0} /\ i + 1 <= j
    BY <1>3
  <2>2. Position(i + 1) <= Position(j) /\ Position(i + 1) = Position(i) + 1
    BY <1>1, <1>2, <1>3, <2>1
  <2>3. Position(i) \in Nat /\ Position(j) \in Nat
    BY <1>1
  <2> QED BY <2>2, <2>3
<1> QED BY <1>1, <1>2, <1>3

(* Each place in the contents is that of a kept line.                      *)
LEMMA PlacesAreLines ==
  ASSUME TypeOK, KeptInv
  PROVE  /\ Len(mFileContents) \in Nat
         /\ \A k \in Nat : k < Len(mFileContents) =>
              /\ mFileContents[k + 1] \in LinesRead /\ IsKept(mFileContents[k + 1])
              /\ Position(mFileContents[k + 1]) = k
         /\ \A l \in LinesRead : IsKept(l) =>
              /\ Position(l) \in Nat /\ Position(l) < Len(mFileContents)
              /\ mFileContents[Position(l) + 1] = l
<1>1. PICK n \in Nat : n = Len(input) /\ LinesRead = 1 .. n
  BY LenProperties DEF TypeOK, LinesRead
<1>2. Len(mFileContents) \in Nat /\ Len(mFileContents) = Position(n + 1)
  BY <1>1, LenProperties DEF TypeOK, KeptInv
<1>3. \A l \in LinesRead : l \in Nat \ {0}
  BY <1>1
<1>4. ASSUME NEW l \in LinesRead, IsKept(l)
      PROVE  /\ Position(l) \in Nat /\ Position(l) < Len(mFileContents)
             /\ mFileContents[Position(l) + 1] = l
  BY <1>3, <1>4, PositionsGrow DEF KeptInv
<1>5. ASSUME NEW k \in Nat, k < Len(mFileContents)
      PROVE  /\ mFileContents[k + 1] \in LinesRead /\ IsKept(mFileContents[k + 1])
             /\ Position(mFileContents[k + 1]) = k
  <2> DEFINE K == {i \in 1 .. n : IsKept(i)}
  <2>1. K \in SUBSET (1 .. n) /\ Cardinality(K) = Position(n + 1)
    <3>1. 1 .. (n + 1) - 1 = 1 .. n
      OBVIOUS
    <3> QED BY <3>1 DEF Position
  <2>2. k + 1 \in 1 .. Cardinality(K)
    BY <1>2, <1>5, <2>1
  <2>3. PICK l \in K : Place(l, K) = k + 1
    BY <2>1, <2>2, PlacesTaken
  <2>4. l \in LinesRead /\ IsKept(l) /\ l \in 1 .. n
    BY <1>1, <2>3
  <2>5. {i \in K : i <= l} = {i \in 1 .. (l + 1) - 1 : IsKept(i)}
    <3>1. \A i : i \in 1 .. n /\ i <= l <=> i \in 1 .. (l + 1) - 1
      BY <2>4
    <3> QED BY <3>1
  <2>6. Position(l + 1) = k + 1
    BY <2>3, <2>5 DEF Place, Position
  <2>7. Position(l + 1) = Position(l) + 1 /\ Position(l) \in Nat
    BY <1>3, <2>4, PositionStep DEF PositionSteps
  <2>8. Position(l) = k
    BY <2>6, <2>7
  <2> QED BY <1>4, <2>4, <2>8
<1> QED BY <1>2, <1>4, <1>5

-----------------------------------------------------------------------------
(* The parts of a snippet are its spans, in the same order.                *)
Parsed == ReferenceInv /\ WholeInv

OnSpan(m, j, s) ==
    \A l \in LinesRead : IsKept(l) =>
        (s[1] <= Position(l) /\ Position(l) < s[2] <=> BeginOf(m, j) <= l /\ l < j)

LEMMA NamedParts ==
  ASSUME Parsed, pc = "ok", NEW m \in UsedNames, NEW n \in Nat, n = Len(input)
  PROVE  /\ m \in DOMAIN mSnippets
         /\ Parts(m) \in SUBSET (1 .. n + 1)
         /\ Len(mSnippets[m].mLineSpans) = Cardinality(Parts(m))
         /\ \A j \in Parts(m) : OnSpan(m, j, mSnippets[m].mLineSpans[Place(j, Parts(m))])
<1>1. TypeOK /\ RecordedInv /\ ExcludesInv /\ StackInv /\ EndingInv /\ LinesRead = 1 .. n
  BY DEF Parsed, ReferenceInv, LinesRead
<1>2. \A i, j : Matches(i, j) =>
        /\ i \in 1 .. n /\ j \in 1 .. n /\ i < j /\ StartOf(j) = i
        /\ j \in MatchedEnds(StartLines, EndLines)
  BY <1>1, MatchesInFile
<1>3. m \in DOMAIN mSnippets
  <2>1. PICK i \in StartLines : NameAt(i) = m
    BY DEF UsedNames
  <2>2. PICK j \in EndLines : Matches(i, j)
    BY <1>1, <2>1, AllMatched DEF EndingInv
  <2> QED BY <1>1, <1>2, <2>1, <2>2 DEF ExcludesInv
<1>4. PICK S : AllEnds(m, S) /\ Recorded(m, S)
  <2>1. m \in Names
    BY <1>1, NameType DEF UsedNames, StartLines
  <2> QED BY <1>1, <2>1 DEF RecordedInv
<1>5. Parts(m) = S /\ \A j \in S : NameAt(StartOf(j)) = m /\ Matches(StartOf(j), j)
  <2>1. ASSUME NEW j \in S
        PROVE  /\ j \in MatchedEnds(StartLines, EndLines)
               /\ NameAt(StartOf(j)) = m /\ Matches(StartOf(j), j)
    <3>1. PICK i : Matches(i, j) /\ NameAt(i) = m
      BY <1>4 DEF AllEnds
    <3> QED BY <1>2, <3>1
  <2>2. ASSUME NEW j \in EndsOf(m) PROVE j \in S
    <3>1. j \in MatchedEnds(StartLines, EndLines) /\ NameAt(StartOf(j)) = m
      BY DEF EndsOf
    <3>2. PICK i : Matches(i, j)
      BY <3>1 DEF MatchedEnds, Matches
    <3> QED BY <1>1, <1>2, <1>4, <3>1, <3>2 DEF AllEnds
  <2>3. \A j : j \in EndsOf(m) <=> j \in S
    BY <2>1, <2>2 DEF EndsOf
  <2>4. EndsOf(m) = S
    BY <2>3
  <2> QED BY <2>1, <2>4 DEF Parts
<1>6. ASSUME NEW j \in S PROVE OnSpan(m, j, mSnippets[m].mLineSpans[Place(j, S)])
  <2>1. PICK i \in 1 .. n : i = StartOf(j) /\ Matches(i, j) /\ j \in 1 .. n /\ NameAt(i) = m
    BY <1>2, <1>5
  <2>2. mSnippets[m].mLineSpans[Place(j, S)] = <<Position(i), Position(j)>>
    BY <1>1, <1>3, <1>4, <2>1 DEF Recorded
  <2>3. ASSUME NEW l \in LinesRead, IsKept(l)
        PROVE  Position(i) <= Position(l) /\ Position(l) < Position(j) <=> i <= l /\ l < j
    <3>1. i \in Nat \ {0} /\ j \in Nat \ {0} /\ l \in Nat \ {0}
      BY <1>1, <2>1
    <3>2. /\ i <= l => Position(i) <= Position(l)
          /\ l < i => Position(l) < Position(i)
          /\ Position(i) \in Nat /\ Position(l) \in Nat
      BY <2>3, <3>1, PositionsGrow
    <3>3. /\ l < j => Position(l) < Position(j)
          /\ j <= l => Position(j) <= Position(l)
          /\ Position(j) \in Nat
      BY <2>3, <3>1, PositionsGrow
    <3> QED BY <3>1, <3>2, <3>3
  <2>4. BeginOf(m, j) = i
    BY <2>1 DEF BeginOf
  <2> QED BY <2>2, <2>3, <2>4 DEF OnSpan
<1>7. S \in SUBSET (1 .. n + 1)
  <2>1. S \subseteq 1 .. n
    BY <1>1, <1>4 DEF AllEnds
  <2> QED BY <2>1
<1> QED BY <1>3, <1>4, <1>5, <1>6, <1>7 DEF Recorded

LEMMA WholePart ==
  ASSUME Parsed, pc = "ok", "all" \notin UsedNames, NEW n \in Nat, n = Len(input)
  PROVE  /\ Parts("all") \in SUBSET (1 .. n + 1)
         /\ Len(mSnippets["all"].mLineSpans) = Cardinality(Parts("all"))
         /\ \A j \in Parts("all") :
              OnSpan("all", j, mSnippets["all"].mLineSpans[Place(j, Parts("all"))])
<1>1. /\ TypeOK /\ KeptInv /\ LinesRead = 1 .. n
      /\ mSnippets["all"].mLineSpans = <<<<0, Len(mFileContents)>>>>
  BY DEF Parsed, ReferenceInv, WholeInv, LinesRead
<1>2. Parts("all") = {n + 1} /\ \A j : BeginOf("all", j) = 1
  BY DEF Parts, BeginOf
<1>3. Cardinality(Parts("all")) = 1
  BY <1>2, FS_Singleton
<1>4. Place(n + 1, Parts("all")) = 1
  <2>1. {k \in Parts("all") : k <= n + 1} = Parts("all")
    BY <1>2
  <2> QED BY <1>3, <2>1 DEF Place
<1>5. OnSpan("all", n + 1, <<0, Len(mFileContents)>>)
  <2>1. \A l \in LinesRead : IsKept(l) =>
          /\ Position(l) \in Nat /\ Position(l) < Len(mFileContents)
          /\ 0 <= Position(l) /\ 1 <= l /\ l < n + 1
    BY <1>1, PlacesAreLines
  <2> QED BY <1>2, <2>1 DEF OnSpan
<1>6. Len(<<<<0, Len(mFileContents)>>>>) = 1
      /\ <<<<0, Len(mFileContents)>>>>[1] = <<0, Len(mFileContents)>>
  OBVIOUS
<1>7. n + 1 \in 1 .. n + 1
  OBVIOUS
<1> QED BY <1>1, <1>2, <1>3, <1>4, <1>5, <1>6, <1>7

LEMMA PartsAreSpans ==
  ASSUME Parsed, pc = "ok", NEW m \in DOMAIN mSnippets, NEW n \in Nat, n = Len(input)
  PROVE  /\ Parts(m) \in SUBSET (1 .. n + 1)
         /\ Len(mSnippets[m].mLineSpans) = Cardinality(Parts(m))
         /\ \A j \in Parts(m) : OnSpan(m, j, mSnippets[m].mLineSpans[Place(j, Parts(m))])
<1>1. CASE m \in UsedNames
  BY <1>1, NamedParts
<1>2. CASE m \notin UsedNames
  <2>1. m = "all"
    BY <1>2 DEF Parsed, WholeInv
  <2> QED BY <1>2, <2>1, WholePart
<1> QED BY <1>1, <1>2

-----------------------------------------------------------------------------
(* A snippet contains the lines of its passages.                           *)
LEMMA ContainsLines ==
  ASSUME Parsed, pc = "ok", NEW m \in DOMAIN mSnippets, NEW l \in LinesRead, IsKept(l)
  PROVE  ContainsLine(m, Position(l)) <=> l \in LinesOf(m)
<1>1. PICK n \in Nat : n = Len(input)
  BY LenProperties DEF Parsed, ReferenceInv, TypeOK
<1>2. PICK P \in SUBSET (1 .. n + 1) : P = Parts(m)
  BY <1>1, PartsAreSpans
<1>3. PICK spans : spans = mSnippets[m].mLineSpans
  OBVIOUS
<1>4. /\ spans \in Seq(Nat \X Nat) /\ Len(spans) = Cardinality(P)
      /\ DOMAIN spans = 1 .. Len(spans)
      /\ \A j \in P : OnSpan(m, j, spans[Place(j, P)])
  BY <1>1, <1>2, <1>3, PartsAreSpans, SpanTypes, LenProperties DEF Parsed, ReferenceInv
<1>5. /\ \A j \in P : Place(j, P) \in 1 .. Len(spans)
      /\ \A x \in 1 .. Len(spans) : \E j \in P : Place(j, P) = x
  <2>1. \A j \in P : Place(j, P) \in 1 .. Cardinality(P)
    <3>1. n + 1 \in Nat
      OBVIOUS
    <3> QED BY <3>1, PlaceInRange
  <2>2. \A x \in 1 .. Cardinality(P) : \E j \in P : Place(j, P) = x
    <3>1. n + 1 \in Nat
      OBVIOUS
    <3> QED BY <3>1, PlacesTaken
  <2> QED BY <1>4, <2>1, <2>2
<1>6. ContainsLine(m, Position(l)) <=>
        \E x \in 1 .. Len(spans) : spans[x][1] <= Position(l) /\ Position(l) < spans[x][2]
  BY <1>3, <1>4 DEF ContainsLine, SpansOf
<1>7. ContainsLine(m, Position(l)) <=> \E j \in P : BeginOf(m, j) <= l /\ l < j
  BY <1>4, <1>5, <1>6 DEF OnSpan
<1>8. l \in LinesOf(m) <=> \E j \in P : BeginOf(m, j) <= l /\ l < j
  <2>1. l \in LinesOf(m) <=> \E p \in Passages(m) : p[2] = l
    BY DEF LinesOf
  <2>2. \A j \in P : <<j, l>> \in Parts(m) \X LinesRead /\ <<j, l>>[1] = j /\ <<j, l>>[2] = l
    BY <1>2
  <2>3. (\E j \in P : BeginOf(m, j) <= l /\ l < j) => \E p \in Passages(m) : p[2] = l
    BY <2>2 DEF Passages
  <2>4. ASSUME NEW p \in Passages(m), p[2] = l
        PROVE  \E j \in P : BeginOf(m, j) <= l /\ l < j
    BY <1>2, <2>4 DEF Passages
  <2> QED BY <2>1, <2>3, <2>4
<1> QED BY <1>7, <1>8

(* What the generator excludes is what the starts ask for.                 *)
LEMMA ExcludedLines ==
  ASSUME Parsed, pc = "ok", NEW m \in DOMAIN mSnippets, NEW l \in LinesRead, IsKept(l)
  PROVE  /\ Excluding(m, Position(l)) = Subtracted(m, l)
         /\ IsLineExcluded(m, Position(l)) <=> ExcludedFrom(m, l)
<1>1. /\ TypeOK /\ StackInv /\ AskedInv /\ ExcludesInv /\ EndingInv /\ WholeInv
  BY DEF Parsed, ReferenceInv
<1>2. PICK n \in Nat : n = Len(input)
  BY <1>1, LenProperties DEF TypeOK
<1>3. DOMAIN mSnippets = UsedNames \cup {"all"}
  <2>1. UsedNames \subseteq DOMAIN mSnippets
    BY <1>2, NamedParts
  <2>2. "all" \in DOMAIN mSnippets
    BY <1>1, <2>1 DEF WholeInv
  <2> QED BY <1>1, <2>1, <2>2 DEF WholeInv
<1>4. ASSUME NEW x
      PROVE  x \in mSnippets[m].mExcludes <=>
               \E i \in StartLines : /\ NameAt(i) = m /\ input[i].name # NoName
                                     /\ x \in input[i].minus
  <2>1. CASE m \in UsedNames
    <3>1. m \in Names
      BY <1>1, NameType, <2>1 DEF UsedNames, StartLines
    <3>2. x \in mSnippets[m].mExcludes => \E i \in LinesRead : Asked(m, x, i)
      BY <1>1, <3>1 DEF ExcludesInv, AskedInv
    <3>3. ASSUME NEW i \in LinesRead, Asked(m, x, i) PROVE x \in mSnippets[m].mExcludes
      <4>1. i \in StartLines /\ NameAt(i) = m
        BY <3>3 DEF Asked, StartLines
      <4>2. PICK j \in EndLines : Matches(i, j)
        BY <1>1, <4>1, AllMatched DEF EndingInv
      <4>3. j \in LinesRead
        BY DEF EndLines
      <4> QED BY <1>1, <3>3, <4>1, <4>2, <4>3 DEF ExcludesInv
    <3> QED BY <3>2, <3>3 DEF Asked, StartLines
  <2>2. CASE m \notin UsedNames
    <3>1. mSnippets[m].mExcludes = {}
      BY <1>1, <2>2 DEF WholeInv
    <3>2. \A i \in StartLines : NameAt(i) # m
      BY <2>2 DEF UsedNames
    <3> QED BY <3>1, <3>2
  <2> QED BY <2>1, <2>2
<1>5. \A x \in DOMAIN mSnippets : ContainsLine(x, Position(l)) <=> l \in LinesOf(x)
  BY ContainsLines
<1>6. Excluding(m, Position(l)) =
        {x \in mSnippets[m].mExcludes \cap (UsedNames \cup {"all"}) : l \in LinesOf(x)}
  BY <1>3, <1>5 DEF Excluding
<1>7. \A x : x \in mSnippets[m].mExcludes <=> x \in Minus(m)
  BY <1>4 DEF Minus
<1>8. Excluding(m, Position(l)) = Subtracted(m, l)
  BY <1>6, <1>7 DEF Subtracted
<1> QED BY <1>8 DEF ExcludedFrom, IsLineExcluded

-----------------------------------------------------------------------------
(* The passages that the loops have gone past.                             *)
PartIn(p) == Place(p[1], Parts(current))
Reached ==
    {p \in Passages(current) :
       \/ PartIn(p) < spanIndex
       \/ PartIn(p) = spanIndex /\ (gpc = "lines" => Position(p[2]) < spanLine)}

LEMMA SourceStays ==
  ASSUME UNCHANGED vars
  PROVE  /\ \A k : IsHighlighted(k)' <=> IsHighlighted(k)
         /\ \A k : Position(k)' = Position(k)
         /\ \A m : /\ Parts(m)' = Parts(m)
                   /\ Passages(m)' = Passages(m)
                   /\ Stretches(m)' = Stretches(m)
                   /\ Shown(m)' = Shown(m)
                   /\ \A k : /\ ExcludedFrom(m, k)' <=> ExcludedFrom(m, k)
                             /\ TextFor(m, k)' = TextFor(m, k)
<1>1. UNCHANGED <<opt, input, mHighlightedLines, mSnippets>>
  BY DEF vars, kept
<1>2. /\ LinesRead' = LinesRead /\ StartLines' = StartLines /\ EndLines' = EndLines
      /\ \A i : /\ IsKept(i)' <=> IsKept(i)
                /\ Position(i)' = Position(i)
                /\ NameAt(i)' = NameAt(i)
  BY <1>1, SameLines
<1>3. UsedNames' = UsedNames
  BY <1>2 DEF UsedNames
<1>4. \A j : StartOf(j)' = StartOf(j)
  BY <1>2 DEF StartOf
<1>5. \A j : NameAt(StartOf(j))' = NameAt(StartOf(j))
  BY <1>1, <1>4 DEF NameAt
<1>6. \A m : EndsOf(m)' = EndsOf(m)
  BY <1>2, <1>5 DEF EndsOf
<1>7. \A m : Parts(m)' = Parts(m) /\ \A j : BeginOf(m, j)' = BeginOf(m, j)
  BY <1>1, <1>3, <1>4, <1>6 DEF Parts, BeginOf
<1>8. ASSUME NEW m PROVE Passages(m)' = Passages(m)
  <2>1. \A p : BeginOf(m, p[1])' = BeginOf(m, p[1]) /\ (IsKept(p[2])' <=> IsKept(p[2]))
    BY <1>2, <1>7
  <2> QED BY <1>2, <1>7, <2>1 DEF Passages
<1>9. \A m : LinesOf(m)' = LinesOf(m)
  BY <1>8 DEF LinesOf
<1>10. ASSUME NEW m, NEW k
       PROVE  (ExcludedFrom(m, k)' <=> ExcludedFrom(m, k)) /\ TextFor(m, k)' = TextFor(m, k)
  <2>1. Minus(m)' = Minus(m)
    BY <1>1, <1>2 DEF Minus
  <2>2. Subtracted(m, k)' = Subtracted(m, k)
    BY <1>3, <1>9, <2>1 DEF Subtracted
  <2> QED BY <1>1, <2>2 DEF ExcludedFrom, TextFor
<1>11. \A k : IsHighlighted(k)' <=> IsHighlighted(k)
  BY <1>1 DEF IsHighlighted
<1>12. ASSUME NEW m PROVE Shown(m)' = Shown(m) /\ Stretches(m)' = Stretches(m)
  <2>1. \A p : ExcludedFrom(m, p[2])' <=> ExcludedFrom(m, p[2])
    BY <1>10
  <2>2. \A p, q : Precedes(p, q)' <=> Precedes(p, q)
    BY <1>2 DEF Precedes
  <2> QED BY <1>8, <2>1, <2>2 DEF Shown, Stretches
<1> QED BY <1>2, <1>7, <1>8, <1>10, <1>11, <1>12

LEMMA PassageTypes ==
  ASSUME Parsed, pc = "ok", NEW m \in DOMAIN mSnippets, NEW n \in Nat, n = Len(input)
  PROVE  /\ IsFiniteSet(Passages(m))
         /\ \A p \in Passages(m) :
              /\ p = <<p[1], p[2]>> /\ p[1] \in Parts(m) /\ p[2] \in LinesRead
              /\ p[1] \in Nat /\ p[2] \in Nat \ {0} /\ IsKept(p[2])
              /\ Place(p[1], Parts(m)) \in 1 .. Len(mSnippets[m].mLineSpans)
<1>1. Parts(m) \in SUBSET (1 .. n + 1) /\ Len(mSnippets[m].mLineSpans) = Cardinality(Parts(m))
  BY PartsAreSpans
<1>2. LinesRead = 1 .. n
  BY DEF LinesRead
<1>3. /\ IsFiniteSet(Parts(m))
      /\ \A j \in Parts(m) : Place(j, Parts(m)) \in 1 .. Cardinality(Parts(m))
  <2>1. n + 1 \in Nat
    OBVIOUS
  <2> QED BY <1>1, <2>1, PlaceInRange
<1>4. IsFiniteSet(LinesRead)
  BY <1>2, FS_Interval
<1>5. Passages(m) \subseteq Parts(m) \X LinesRead
  BY DEF Passages
<1>6. IsFiniteSet(Passages(m))
  BY <1>3, <1>4, <1>5, FS_Product, FS_Subset
<1> QED BY <1>1, <1>2, <1>3, <1>6 DEF Passages

(* The next line of a span is the next passage.                            *)
NextPassage(p) ==
    /\ p \in Passages(current)
    /\ p \notin Reached /\ Reached' = Reached \cup {p}
    /\ p[2] = mFileContents[spanLine + 1] /\ Position(p[2]) = spanLine
    /\ PartIn(p) = spanIndex /\ p[2] \in Nat
    /\ \A q \in Reached : UpTo(q, p) /\ ~UpTo(p, q)
    /\ ExcludedFrom(current, p[2]) <=> IsLineExcluded(current, spanLine)
    /\ TextFor(current, p[2]) = ExcludeText(current, spanLine)
    /\ \A q \in Passages(current) :
         Precedes(q, p) <=>
           q \in Reached /\ PartIn(q) = spanIndex /\ Position(q[2]) + 1 = spanLine

LEMMA NextReached ==
  ASSUME GInv, Parsed, gpc = "lines", spanLine < SpanEnd,
         CurrentSpans[spanIndex][1] <= spanLine, UNCHANGED vars,
         UNCHANGED <<gpc, current, spanIndex>>, spanLine' = spanLine + 1
  PROVE  \E p \in Passages(current) : NextPassage(p)
<1>1. PICK n \in Nat : n = Len(input)
  BY LenProperties DEF Parsed, ReferenceInv, TypeOK
<1>2. /\ pc = "ok" /\ current \in DOMAIN mSnippets /\ TypeOK /\ KeptInv
      /\ spanIndex \in 1 .. Len(CurrentSpans) /\ spanLine \in Nat
  BY SpanTypes DEF GInv, IInv, LoopInv, CurrentSpans, Parsed, ReferenceInv
<1>3. PICK P : P = Parts(current)
  OBVIOUS
<1>4. /\ P \in SUBSET (1 .. n + 1) /\ Len(CurrentSpans) = Cardinality(P)
      /\ \A j \in P : OnSpan(current, j, CurrentSpans[Place(j, P)])
  BY <1>1, <1>2, <1>3, PartsAreSpans DEF CurrentSpans
<1>5. PICK j \in P : Place(j, P) = spanIndex
  <2>1. n + 1 \in Nat
    BY <1>1
  <2> QED BY <1>2, <1>4, <2>1, PlacesTaken
<1>6. \A i \in P : Place(i, P) \in Nat /\ (i < j => Place(i, P) < spanIndex)
                    /\ (j < i => spanIndex < Place(i, P)) /\ i \in Nat
  <2>1. n + 1 \in Nat
    BY <1>1
  <2>2. \A i \in P : i \in Nat /\ Place(i, P) \in Nat
    <3>1. Cardinality(P) \in Nat /\ \A i \in P : Place(i, P) \in 1 .. Cardinality(P)
      BY <1>4, <2>1, PlaceInRange
    <3>2. \A i \in P : i \in 1 .. n + 1
      BY <1>4
    <3> QED BY <2>1, <3>1, <3>2
  <2>3. ASSUME NEW i \in P PROVE /\ i < j => Place(i, P) < Place(j, P)
                                 /\ j < i => Place(j, P) < Place(i, P)
    BY <1>4, <2>1, PlaceGrows
  <2> QED BY <1>5, <2>2, <2>3
<1>7. spanLine < Len(mFileContents)
  <2>1. spanLine + 1 \in DOMAIN mFileContents
    BY InRange DEF AccessInRange
  <2>2. DOMAIN mFileContents = 1 .. Len(mFileContents) /\ Len(mFileContents) \in Nat
    BY <1>2, LenProperties DEF TypeOK
  <2> QED BY <1>2, <2>1, <2>2
<1>8. PICK l \in LinesRead : /\ l = mFileContents[spanLine + 1] /\ IsKept(l)
                             /\ Position(l) = spanLine
  BY <1>2, <1>7, PlacesAreLines
<1>9. BeginOf(current, j) <= l /\ l < j
  BY <1>4, <1>5, <1>8 DEF OnSpan, SpanEnd
<1>10. PICK p : p = <<j, l>>
  OBVIOUS
<1>11. p \in Passages(current) /\ p[1] = j /\ p[2] = l /\ PartIn(p) = spanIndex
  BY <1>3, <1>5, <1>8, <1>9, <1>10 DEF Passages, PartIn
<1>12. \A q \in Passages(current) :
         /\ q = <<q[1], q[2]>> /\ q[1] \in P /\ q[2] \in LinesRead /\ q[2] \in Nat \ {0}
         /\ q[1] \in Nat /\ IsKept(q[2])
  BY <1>1, <1>2, <1>3, PassageTypes
<1>13. ASSUME NEW q \in Passages(current)
       PROVE  /\ Position(q[2]) \in Nat
              /\ Position(q[2]) < spanLine <=> q[2] < l
              /\ Position(q[2]) = spanLine <=> q[2] = l
  <2>1. l \in Nat \ {0} /\ q[2] \in Nat \ {0} /\ IsKept(q[2])
    BY <1>11, <1>12
  <2>2. /\ Position(q[2]) \in Nat
        /\ q[2] < l => Position(q[2]) < Position(l)
        /\ l < q[2] => Position(l) < Position(q[2])
    BY <1>8, <2>1, PositionsGrow
  <2> QED BY <1>2, <1>8, <2>1, <2>2
<1>14. ASSUME NEW q \in Passages(current)
       PROVE  q \in Reached <=> q[1] < j \/ (q[1] = j /\ q[2] < l)
  <2>1. PartIn(q) = Place(q[1], P) /\ q[1] \in P /\ q[1] \in Nat /\ j \in Nat
    BY <1>3, <1>11, <1>12 DEF PartIn
  <2>2. /\ PartIn(q) < spanIndex <=> q[1] < j
        /\ PartIn(q) = spanIndex <=> q[1] = j
    BY <1>2, <1>5, <1>6, <2>1
  <2> QED BY <1>13, <2>2 DEF Reached
<1>15. /\ Passages(current)' = Passages(current) /\ Parts(current)' = P
       /\ \A k : Position(k)' = Position(k)
  BY <1>3, SourceStays
<1>16. ASSUME NEW q \in Passages(current)
       PROVE  (q \in Reached)' <=> q \in Reached \/ q = p
  <2>1. PartIn(q)' = Place(q[1], P) /\ Position(q[2])' = Position(q[2])
    BY <1>15 DEF PartIn
  <2>2. PartIn(q) = Place(q[1], P)
    BY <1>3 DEF PartIn
  <2>3. Position(q[2]) < spanLine + 1 <=> Position(q[2]) < spanLine \/ Position(q[2]) = spanLine
    BY <1>2, <1>13
  <2>4. PartIn(q) = spanIndex <=> q[1] = j
    BY <1>5, <1>6, <1>11, <1>12, <2>2
  <2>5. q = p <=> q[1] = j /\ q[2] = l
    BY <1>10, <1>11, <1>12
  <2>6. (q \in Reached)' <=> \/ PartIn(q) < spanIndex
                             \/ PartIn(q) = spanIndex /\ Position(q[2]) < spanLine + 1
    BY <1>15, <2>1, <2>2 DEF Reached
  <2>7. q \in Reached <=> \/ PartIn(q) < spanIndex
                          \/ PartIn(q) = spanIndex /\ Position(q[2]) < spanLine
    BY DEF Reached
  <2> QED BY <1>13, <2>3, <2>4, <2>5, <2>6, <2>7
<1>17. Reached' = Reached \cup {p}
  <2>1. Reached \subseteq Passages(current) /\ Reached' \subseteq Passages(current)
    BY <1>15 DEF Reached
  <2> QED BY <1>11, <1>16, <2>1
<1>18. p \notin Reached /\ p[2] \in Nat
  <2>1. l \in Nat /\ j \in Nat
    BY <1>11, <1>12
  <2> QED BY <1>11, <1>14, <2>1
<1>19. \A q \in Reached : UpTo(q, p) /\ ~UpTo(p, q)
  <2> TAKE q \in Reached
  <2>1. q \in Passages(current)
    BY DEF Reached
  <2>2. q[1] \in Nat /\ q[2] \in Nat /\ j \in Nat /\ l \in Nat
    BY <1>11, <1>12, <2>1
  <2>3. q[1] < j \/ (q[1] = j /\ q[2] < l)
    BY <1>14, <2>1
  <2> QED BY <1>11, <2>2, <2>3 DEF UpTo
<1>20. /\ ExcludedFrom(current, p[2]) <=> IsLineExcluded(current, spanLine)
       /\ TextFor(current, p[2]) = ExcludeText(current, spanLine)
  <2>1. Excluding(current, spanLine) = Subtracted(current, p[2])
    BY <1>2, <1>8, <1>11, ExcludedLines
  <2> QED BY <1>2, <1>8, <1>11, <2>1, ExcludedLines DEF TextFor, ExcludeText
<1>21. ASSUME NEW q \in Passages(current)
       PROVE  Precedes(q, p) <=>
                q \in Reached /\ PartIn(q) = spanIndex /\ Position(q[2]) + 1 = spanLine
  <2>1. PartIn(q) = spanIndex <=> q[1] = j
    BY <1>3, <1>5, <1>6, <1>11, <1>12 DEF PartIn
  <2>2. Position(q[2]) + 1 = spanLine => Position(q[2]) < spanLine
    BY <1>2, <1>13
  <2>3. PartIn(q) = spanIndex /\ Position(q[2]) < spanLine => q \in Reached
    BY DEF Reached
  <2> QED BY <1>8, <1>11, <2>1, <2>2, <2>3 DEF Precedes
<1> QED BY <1>8, <1>11, <1>17, <1>18, <1>19, <1>20, <1>21 DEF NextPassage

(* Entering a span or leaving it reaches no passage.                       *)
LEMMA ReachedAtBounds ==
  ASSUME GInv, Parsed, EnterSpan \/ LeaveSpan
  PROVE  Reached' = Reached
<1>1. PICK n \in Nat : n = Len(input)
  BY LenProperties DEF Parsed, ReferenceInv, TypeOK
<1>2. UNCHANGED vars /\ current' = current /\ gpc \in {"span", "lines"}
  BY DEF EnterSpan, LeaveSpan
<1>3. /\ pc = "ok" /\ current \in DOMAIN mSnippets /\ TypeOK /\ KeptInv
      /\ spanIndex \in Nat /\ spanIndex <= Len(CurrentSpans) /\ spanLine \in Nat
      /\ CurrentSpans \in Seq(Nat \X Nat) /\ Len(CurrentSpans) \in Nat
  BY <1>2, SpanTypes DEF GInv, IInv, LoopInv, CurrentSpans, Parsed, ReferenceInv
<1>4. /\ Passages(current)' = Passages(current) /\ Parts(current)' = Parts(current)
      /\ \A k : Position(k)' = Position(k)
  BY <1>2, SourceStays
<1>5. \A q : PartIn(q)' = PartIn(q)
  BY <1>4 DEF PartIn
<1>6. ASSUME NEW q \in Passages(current)
      PROVE  /\ PartIn(q) \in 1 .. Len(CurrentSpans) /\ Position(q[2]) \in Nat
             /\ CurrentSpans[PartIn(q)][1] <= Position(q[2])
             /\ Position(q[2]) < CurrentSpans[PartIn(q)][2]
  <2>1. /\ q[1] \in Parts(current) /\ q[2] \in LinesRead /\ IsKept(q[2])
        /\ Place(q[1], Parts(current)) \in 1 .. Len(CurrentSpans)
    BY <1>1, <1>3, PassageTypes DEF CurrentSpans
  <2>2. BeginOf(current, q[1]) <= q[2] /\ q[2] < q[1]
    BY DEF Passages
  <2>3. OnSpan(current, q[1], CurrentSpans[PartIn(q)])
    BY <1>1, <1>3, <2>1, PartsAreSpans DEF CurrentSpans, PartIn
  <2>4. Position(q[2]) \in Nat
    BY <1>3, <2>1, PlacesAreLines
  <2> QED BY <2>1, <2>2, <2>3, <2>4 DEF OnSpan, PartIn
<1>7. ASSUME NEW q \in Passages(current) PROVE (q \in Reached)' <=> q \in Reached
  <2>1. CASE EnterSpan
    <3>1. /\ gpc = "span" /\ gpc' = "lines" /\ spanIndex' = spanIndex + 1
          /\ spanLine' = CurrentSpans[spanIndex + 1][1]
          /\ spanIndex + 1 \in 1 .. Len(CurrentSpans)
      BY <1>3, <2>1 DEF EnterSpan
    <3>2. q \in Reached <=> PartIn(q) < spanIndex + 1
      BY <1>3, <1>6, <3>1 DEF Reached
    <3>3. CurrentSpans[spanIndex + 1][1] \in Nat
      BY <1>3, <3>1, ElementOfSeq
    <3>4. PartIn(q) = spanIndex + 1 => ~(Position(q[2]) < CurrentSpans[spanIndex + 1][1])
      BY <1>6, <3>3
    <3>5. (q \in Reached)' <=> \/ PartIn(q) < spanIndex + 1
                               \/ /\ PartIn(q) = spanIndex + 1
                                  /\ Position(q[2]) < CurrentSpans[spanIndex + 1][1]
      BY <1>4, <1>5, <3>1 DEF Reached
    <3> QED BY <3>2, <3>4, <3>5
  <2>2. CASE LeaveSpan
    <3>1. /\ gpc = "lines" /\ gpc' = "span" /\ UNCHANGED <<spanIndex, spanLine>>
          /\ spanLine >= CurrentSpans[spanIndex][2] /\ spanIndex >= 1
      BY <2>2 DEF LeaveSpan, loop, SpanEnd, GInv, LoopInv
    <3>2. spanIndex \in 1 .. Len(CurrentSpans) /\ CurrentSpans[spanIndex][2] \in Nat
      BY <1>3, <3>1, ElementOfSeq
    <3>3. PartIn(q) = spanIndex => Position(q[2]) < spanLine
      BY <1>3, <1>6, <3>1, <3>2
    <3>4. (q \in Reached)' <=> PartIn(q) < spanIndex \/ PartIn(q) = spanIndex
      BY <1>4, <1>5, <3>1 DEF Reached
    <3>5. q \in Reached <=> PartIn(q) < spanIndex \/ PartIn(q) = spanIndex
      BY <3>1, <3>3 DEF Reached
    <3> QED BY <3>4, <3>5
  <2> QED BY <2>1, <2>2
<1>8. Reached \subseteq Passages(current) /\ Reached' \subseteq Passages(current)
  BY <1>4 DEF Reached
<1> QED BY <1>7, <1>8

(* At first nothing is reached, behind the last span everything is.        *)
LEMMA ReachedEnds ==
  ASSUME Parsed, pc = "ok", current \in DOMAIN mSnippets, gpc # "lines"
  PROVE  /\ spanIndex = 0 => Reached = {}
         /\ spanIndex = Len(CurrentSpans) => Reached = Passages(current)
<1>1. PICK n \in Nat : n = Len(input)
  BY LenProperties DEF Parsed, ReferenceInv, TypeOK
<1>2. \A q \in Passages(current) : PartIn(q) \in 1 .. Len(CurrentSpans)
  BY <1>1, PassageTypes DEF CurrentSpans, PartIn
<1>3. Len(CurrentSpans) \in Nat
  BY SpanTypes DEF CurrentSpans, Parsed, ReferenceInv
<1>4. \A x \in 1 .. Len(CurrentSpans) : ~(x < 0) /\ x # 0 /\ (x < Len(CurrentSpans) \/ x = Len(CurrentSpans))
  BY <1>3
<1> QED BY <1>2, <1>4 DEF Reached

-----------------------------------------------------------------------------
(* What one more element changes in a block.                               *)
LEMMA BlockGrows ==
  ASSUME NEW b, IsBlock(b), NEW c
  PROVE  /\ IsBlock(Append(b, c)) /\ Len(b) \in Nat /\ Len(Append(b, c)) = Len(b) + 1
         /\ DOMAIN b = 1 .. Len(b) /\ DOMAIN Append(b, c) = DOMAIN b \cup {Len(b) + 1}
         /\ Len(b) + 1 \notin DOMAIN b
         /\ \A x \in DOMAIN b : Append(b, c)[x] = b[x]
         /\ Append(b, c)[Len(b) + 1] = c
<1>1. PICK S : b \in Seq(S)
  BY DEF IsBlock
<1>2. b \in Seq(S \cup {c})
  BY <1>1
<1>3. /\ Append(b, c) \in Seq(S \cup {c})
      /\ Len(b) \in Nat /\ Len(Append(b, c)) = Len(b) + 1
      /\ DOMAIN b = 1 .. Len(b) /\ DOMAIN Append(b, c) = 1 .. Len(b) + 1
      /\ \A i \in 1 .. Len(b) : Append(b, c)[i] = b[i]
      /\ Append(b, c)[Len(b) + 1] = c
  BY <1>2, AppendFacts, LenProperties
<1>4. 1 .. Len(b) + 1 = 1 .. Len(b) \cup {Len(b) + 1} /\ Len(b) + 1 \notin 1 .. Len(b)
  BY <1>3
<1> QED BY <1>3, <1>4 DEF IsBlock

LEMMA KindsGrow ==
  ASSUME NEW b, IsBlock(b), NEW c
  PROVE  /\ \A k : OfKind(b, k) \in SUBSET (1 .. Len(b))
         /\ \A k : OfKind(Append(b, c), k) =
              IF c.kind = k THEN OfKind(b, k) \cup {Len(b) + 1} ELSE OfKind(b, k)
         /\ CallOutsIn(b) \in SUBSET (1 .. Len(b))
         /\ CallOutsIn(Append(b, c)) =
              IF c.kind = "source" /\ c.co > 0 THEN CallOutsIn(b) \cup {Len(b) + 1}
              ELSE CallOutsIn(b)
<1>1. PICK d, n, m : d = Append(b, c) /\ n = Len(b) + 1 /\ m = Len(b)
  OBVIOUS
<1>2. /\ DOMAIN b = 1 .. m /\ DOMAIN d = DOMAIN b \cup {n} /\ n \notin DOMAIN b
      /\ \A x \in DOMAIN b : d[x] = b[x]
      /\ d[n] = c
  BY <1>1, BlockGrows
<1>3. \A k : OfKind(b, k) \in SUBSET (1 .. m)
  BY <1>2 DEF OfKind
<1>4. ASSUME NEW k
      PROVE  OfKind(d, k) = IF c.kind = k THEN OfKind(b, k) \cup {n} ELSE OfKind(b, k)
  <2>1. \A x : x \in OfKind(d, k) <=> x \in OfKind(b, k) \/ (x = n /\ c.kind = k)
    BY <1>2 DEF OfKind
  <2> QED BY <2>1
<1>5. CallOutsIn(b) \in SUBSET (1 .. m)
  BY <1>3 DEF CallOutsIn
<1>6. CallOutsIn(d) = IF c.kind = "source" /\ c.co > 0 THEN CallOutsIn(b) \cup {n}
                      ELSE CallOutsIn(b)
  <2>1. \A x : x \in CallOutsIn(d) <=>
                 x \in CallOutsIn(b) \/ (x = n /\ c.kind = "source" /\ c.co > 0)
    BY <1>2, <1>4 DEF CallOutsIn, OfKind
  <2> QED BY <2>1
<1> QED BY <1>1, <1>3, <1>4, <1>5, <1>6

LEMMA HighlightedGrow ==
  ASSUME NEW b, IsBlock(b), NEW c
  PROVE  /\ HighlightedIn(b) \in SUBSET (1 .. Len(b))
         /\ HighlightedIn(Append(b, c)) =
              IF IsHighlighted(Position(c.at)) THEN HighlightedIn(b) \cup {Len(b) + 1}
              ELSE HighlightedIn(b)
<1>1. PICK d, n, m : d = Append(b, c) /\ n = Len(b) + 1 /\ m = Len(b)
  OBVIOUS
<1>2. /\ DOMAIN b = 1 .. m /\ DOMAIN d = DOMAIN b \cup {n} /\ n \notin DOMAIN b
      /\ \A x \in DOMAIN b : d[x] = b[x]
      /\ d[n] = c
  BY <1>1, BlockGrows
<1>3. \A x : x \in HighlightedIn(d) <=>
               x \in HighlightedIn(b) \/ (x = n /\ IsHighlighted(Position(c.at)))
  BY <1>2 DEF HighlightedIn
<1>4. HighlightedIn(b) \in SUBSET (1 .. m)
  BY <1>2 DEF HighlightedIn
<1> QED BY <1>1, <1>3, <1>4

-----------------------------------------------------------------------------
(* A passage behind all others has the last rank.                          *)
LEMMA RankGrows ==
  ASSUME NEW R, IsFiniteSet(R), NEW p, p \notin R, p[2] \in Nat,
         \A q \in R : UpTo(q, p) /\ ~UpTo(p, q)
  PROVE  /\ Cardinality(R) \in Nat /\ Cardinality(R \cup {p}) = Cardinality(R) + 1
         /\ RankIn(p, R \cup {p}) = Cardinality(R) + 1
         /\ \A q \in R : RankIn(q, R \cup {p}) = RankIn(q, R)
<1>1. Cardinality(R) \in Nat /\ Cardinality(R \cup {p}) = Cardinality(R) + 1
  BY FS_AddElement, FS_CardinalityType
<1>2. UpTo(p, p)
  BY DEF UpTo
<1>3. {q \in R \cup {p} : UpTo(q, p)} = R \cup {p}
  BY <1>2
<1>4. ASSUME NEW r \in R PROVE {q \in R \cup {p} : UpTo(q, r)} = {q \in R : UpTo(q, r)}
  OBVIOUS
<1> QED BY <1>1, <1>3, <1>4 DEF RankIn

(* The source lines of a block are the passages in R, in their order.      *)
ListsLines(b, R) ==
    /\ Cardinality(OfKind(b, "source")) = Cardinality(R)
    /\ \A p \in R : \E x \in OfKind(b, "source") :
         b[x].at = p[2] /\ Place(x, OfKind(b, "source")) = RankIn(p, R)

LEMMA ListsMore ==
  ASSUME NEW b, IsBlock(b), NEW R, IsFiniteSet(R), ListsLines(b, R), NEW p, p \notin R,
         p[2] \in Nat, \A q \in R : UpTo(q, p) /\ ~UpTo(p, q),
         NEW c, c.kind = "source", c.at = p[2]
  PROVE  ListsLines(Append(b, c), R \cup {p})
<1>1. PICK d, m : d = Append(b, c) /\ m = Len(b)
  OBVIOUS
<1>2. PICK A : A = OfKind(b, "source")
  OBVIOUS
<1>3. /\ m \in Nat /\ A \in SUBSET (1 .. m) /\ DOMAIN b = 1 .. m
      /\ \A x \in 1 .. m : d[x] = b[x]
      /\ d[m + 1] = c
      /\ OfKind(d, "source") = A \cup {m + 1}
  BY <1>1, <1>2, BlockGrows, KindsGrow
<1>4. /\ Cardinality(A) \in Nat
      /\ \A j \in A : Place(j, A \cup {m + 1}) = Place(j, A)
      /\ Place(m + 1, A \cup {m + 1}) = Cardinality(A) + 1
      /\ Cardinality(A \cup {m + 1}) = Cardinality(A) + 1
  <2>1. m \in Nat /\ A \in SUBSET (1 .. m)
    BY <1>3
  <2> QED BY ONLY <2>1, PlaceInRange
<1>5. /\ Cardinality(R) \in Nat /\ Cardinality(R \cup {p}) = Cardinality(R) + 1
      /\ RankIn(p, R \cup {p}) = Cardinality(R) + 1
      /\ \A q \in R : RankIn(q, R \cup {p}) = RankIn(q, R)
  BY RankGrows
<1>6. /\ Cardinality(A) = Cardinality(R)
      /\ \A q \in R : \E x \in A : b[x].at = q[2] /\ Place(x, A) = RankIn(q, R)
  BY <1>2 DEF ListsLines
<1>7. ASSUME NEW q \in R
      PROVE  \E x \in A \cup {m + 1} : d[x].at = q[2] /\ Place(x, A \cup {m + 1}) = RankIn(q, R \cup {p})
  <2>1. PICK x \in A : b[x].at = q[2] /\ Place(x, A) = RankIn(q, R)
    BY <1>6
  <2> QED BY <1>3, <1>4, <1>5, <2>1
<1>8. /\ m + 1 \in A \cup {m + 1} /\ d[m + 1].at = p[2]
      /\ Place(m + 1, A \cup {m + 1}) = RankIn(p, R \cup {p})
  BY <1>3, <1>4, <1>5, <1>6
<1>9. \A q \in R \cup {p} : \E x \in A \cup {m + 1} :
        d[x].at = q[2] /\ Place(x, A \cup {m + 1}) = RankIn(q, R \cup {p})
  BY <1>7, <1>8
<1>10. ListsLines(d, R \cup {p})
  BY <1>3, <1>4, <1>5, <1>6, <1>9 DEF ListsLines
<1> QED BY <1>1, <1>10

LEMMA ListsSame ==
  ASSUME NEW b, IsBlock(b), NEW R, ListsLines(b, R), NEW c, c.kind # "source"
  PROVE  ListsLines(Append(b, c), R)
<1>1. OfKind(Append(b, c), "source") = OfKind(b, "source")
      /\ \A x \in OfKind(b, "source") : Append(b, c)[x] = b[x]
  <2>1. OfKind(Append(b, c), "source") = OfKind(b, "source")
    BY KindsGrow
  <2>2. OfKind(b, "source") \subseteq DOMAIN b
    BY DEF OfKind
  <2> QED BY <2>1, <2>2, BlockGrows
<1> QED BY <1>1 DEF ListsLines

(* The markers of a block are those of the stretches S of n, in their      *)
(* order and among the lines in R, each with its text.                     *)
MarkersFor(n, b, S, R) ==
    /\ Cardinality(OfKind(b, "marker")) = Cardinality(S)
    /\ \A p \in S : \E x \in OfKind(b, "marker") :
         /\ Place(x, OfKind(b, "marker")) = RankIn(p, S)
         /\ Place(x, OfKind(b, "source")) = RankIn(p, R)
         /\ b[x].text = TextFor(n, p[2])

LEMMA PlaceBelow ==
  ASSUME NEW m \in Nat, NEW A, NEW x \in 1 .. m
  PROVE  Place(x, A \cup {m + 1}) = Place(x, A)
<1>1. {k \in A \cup {m + 1} : k <= x} = {k \in A : k <= x}
  <2>1. ~(m + 1 <= x)
    OBVIOUS
  <2> QED BY <2>1
<1> QED BY <1>1 DEF Place

LEMMA RankStays ==
  ASSUME NEW R, NEW p, NEW q, ~UpTo(p, q)
  PROVE  RankIn(q, R \cup {p}) = RankIn(q, R)
<1>1. {r \in R \cup {p} : UpTo(r, q)} = {r \in R : UpTo(r, q)}
  OBVIOUS
<1> QED BY <1>1 DEF RankIn

(* A source line for p goes below all markers there are.                   *)
LEMMA MarkersBelow ==
  ASSUME NEW n, NEW b, IsBlock(b), NEW S, NEW R, MarkersFor(n, b, S, R),
         NEW p, \A q \in S : ~UpTo(p, q), NEW c, c.kind = "source"
  PROVE  MarkersFor(n, Append(b, c), S, R \cup {p})
<1>1. PICK d, m, A, B : /\ d = Append(b, c) /\ m = Len(b)
                        /\ A = OfKind(b, "marker") /\ B = OfKind(b, "source")
  OBVIOUS
<1>2. /\ m \in Nat /\ A \in SUBSET (1 .. m) /\ DOMAIN b = 1 .. m
      /\ \A x \in 1 .. m : d[x] = b[x]
      /\ OfKind(d, "marker") = A /\ OfKind(d, "source") = B \cup {m + 1}
  BY <1>1, BlockGrows, KindsGrow
<1>3. /\ Cardinality(A) = Cardinality(S)
      /\ \A q \in S : \E x \in A : /\ Place(x, A) = RankIn(q, S)
                                   /\ Place(x, B) = RankIn(q, R)
                                   /\ b[x].text = TextFor(n, q[2])
  BY <1>1 DEF MarkersFor
<1>4. ASSUME NEW q \in S
      PROVE  \E x \in A : /\ Place(x, A) = RankIn(q, S)
                          /\ Place(x, B \cup {m + 1}) = RankIn(q, R \cup {p})
                          /\ d[x].text = TextFor(n, q[2])
  <2>1. PICK x \in A : /\ Place(x, A) = RankIn(q, S) /\ Place(x, B) = RankIn(q, R)
                       /\ b[x].text = TextFor(n, q[2])
    BY <1>3
  <2>2. x \in 1 .. m
    BY <1>2
  <2>3. Place(x, B \cup {m + 1}) = Place(x, B)
    BY ONLY <1>2, <2>2, PlaceBelow
  <2>4. RankIn(q, R \cup {p}) = RankIn(q, R)
    BY RankStays
  <2> QED BY <1>2, <2>1, <2>2, <2>3, <2>4
<1>5. MarkersFor(n, d, S, R \cup {p})
  BY <1>2, <1>3, <1>4 DEF MarkersFor
<1> QED BY <1>1, <1>5

(* A marker for p goes below all lines and markers there are.              *)
LEMMA MarkersMore ==
  ASSUME NEW n, NEW b, IsBlock(b), NEW S, IsFiniteSet(S), NEW R, MarkersFor(n, b, S, R),
         Cardinality(OfKind(b, "source")) = Cardinality(R),
         NEW p, p \notin S, p[2] \in Nat, \A q \in S : UpTo(q, p) /\ ~UpTo(p, q),
         \A q \in R : UpTo(q, p),
         NEW c, c.kind = "marker", c.text = TextFor(n, p[2])
  PROVE  MarkersFor(n, Append(b, c), S \cup {p}, R)
<1>1. PICK d, m, A, B : /\ d = Append(b, c) /\ m = Len(b)
                        /\ A = OfKind(b, "marker") /\ B = OfKind(b, "source")
  OBVIOUS
<1>2. /\ m \in Nat /\ A \in SUBSET (1 .. m) /\ B \in SUBSET (1 .. m) /\ DOMAIN b = 1 .. m
      /\ \A x \in 1 .. m : d[x] = b[x]
      /\ d[m + 1] = c
      /\ OfKind(d, "marker") = A \cup {m + 1} /\ OfKind(d, "source") = B
  BY <1>1, BlockGrows, KindsGrow
<1>3. /\ Cardinality(A) \in Nat
      /\ \A j \in A : Place(j, A \cup {m + 1}) = Place(j, A)
      /\ Place(m + 1, A \cup {m + 1}) = Cardinality(A) + 1
      /\ Cardinality(A \cup {m + 1}) = Cardinality(A) + 1
  <2>1. m \in Nat /\ A \in SUBSET (1 .. m)
    BY <1>2
  <2> QED BY ONLY <2>1, PlaceInRange
<1>4. /\ Cardinality(S) \in Nat /\ Cardinality(S \cup {p}) = Cardinality(S) + 1
      /\ RankIn(p, S \cup {p}) = Cardinality(S) + 1
      /\ \A q \in S : RankIn(q, S \cup {p}) = RankIn(q, S)
  BY RankGrows
<1>5. /\ Cardinality(A) = Cardinality(S) /\ Cardinality(B) = Cardinality(R)
      /\ \A q \in S : \E x \in A : /\ Place(x, A) = RankIn(q, S)
                                   /\ Place(x, B) = RankIn(q, R)
                                   /\ b[x].text = TextFor(n, q[2])
  BY <1>1 DEF MarkersFor
<1>6. ASSUME NEW q \in S
      PROVE  \E x \in A \cup {m + 1} : /\ Place(x, A \cup {m + 1}) = RankIn(q, S \cup {p})
                                       /\ Place(x, B) = RankIn(q, R)
                                       /\ d[x].text = TextFor(n, q[2])
  <2>1. PICK x \in A : /\ Place(x, A) = RankIn(q, S) /\ Place(x, B) = RankIn(q, R)
                       /\ b[x].text = TextFor(n, q[2])
    BY <1>5
  <2>2. x \in 1 .. m
    BY <1>2
  <2> QED BY <1>2, <1>3, <1>4, <2>1, <2>2
<1>7. /\ m + 1 \in A \cup {m + 1} /\ d[m + 1].text = TextFor(n, p[2])
      /\ Place(m + 1, A \cup {m + 1}) = RankIn(p, S \cup {p})
      /\ Place(m + 1, B) = RankIn(p, R)
  <2>1. {k \in B : k <= m + 1} = B
    BY <1>2
  <2>2. {q \in R : UpTo(q, p)} = R
    OBVIOUS
  <2>3. Place(m + 1, B) = Cardinality(B) /\ RankIn(p, R) = Cardinality(R)
    BY <2>1, <2>2 DEF Place, RankIn
  <2> QED BY <1>2, <1>3, <1>4, <1>5, <2>3
<1>8. \A q \in S \cup {p} : \E x \in A \cup {m + 1} :
        /\ Place(x, A \cup {m + 1}) = RankIn(q, S \cup {p})
        /\ Place(x, B) = RankIn(q, R)
        /\ d[x].text = TextFor(n, q[2])
  BY <1>6, <1>7
<1>9. MarkersFor(n, d, S \cup {p}, R)
  <2>1. OfKind(d, "marker") = A \cup {m + 1} /\ OfKind(d, "source") = B
    BY <1>2
  <2>2. Cardinality(A \cup {m + 1}) = Cardinality(S \cup {p})
    BY <1>3, <1>4, <1>5
  <2> QED BY ONLY <1>8, <2>1, <2>2 DEF MarkersFor
<1> QED BY <1>1, <1>9

LEMMA MarkersSame ==
  ASSUME NEW n, NEW b, IsBlock(b), NEW S, NEW R, MarkersFor(n, b, S, R),
         NEW c, c.kind = "delimiter"
  PROVE  MarkersFor(n, Append(b, c), S, R)
<1>1. /\ OfKind(Append(b, c), "source") = OfKind(b, "source")
      /\ OfKind(Append(b, c), "marker") = OfKind(b, "marker")
      /\ \A x \in OfKind(b, "marker") : Append(b, c)[x] = b[x]
  <2>1. /\ OfKind(Append(b, c), "source") = OfKind(b, "source")
        /\ OfKind(Append(b, c), "marker") = OfKind(b, "marker")
    BY KindsGrow
  <2>2. OfKind(b, "marker") \subseteq DOMAIN b
    BY DEF OfKind
  <2> QED BY <2>1, <2>2, BlockGrows
<1> QED BY <1>1 DEF MarkersFor

(* The callouts of a block are numbered in order, and each number leads to *)
(* the line of the block that has it, by way of the line numbers cs.       *)
Numbered(b, cs, callouts) ==
    /\ Len(cs) = Cardinality(CallOutsIn(b))
    /\ \A x \in CallOutsIn(b) :
         /\ b[x].co = Place(x, CallOutsIn(b))
         /\ callouts[cs[b[x].co]] = b[x].at

LEMMA NumberedMore ==
  ASSUME NEW b, IsBlock(b), NEW cs \in Seq(Nat), NEW callouts, Numbered(b, cs, callouts),
         NEW c, c.kind = "source", c.co = Len(cs) + 1, NEW k \in Nat, callouts[k] = c.at
  PROVE  Numbered(Append(b, c), Append(cs, k), callouts)
<1>1. PICK d, m, A, ds : /\ d = Append(b, c) /\ m = Len(b) /\ A = CallOutsIn(b)
                         /\ ds = Append(cs, k)
  OBVIOUS
<1>2. /\ Len(cs) \in Nat /\ Len(ds) = Len(cs) + 1 /\ ds[Len(cs) + 1] = k
      /\ \A i \in 1 .. Len(cs) : ds[i] = cs[i]
  BY <1>1, AppendFacts, LenProperties
<1>3. c.co > 0
  BY <1>2
<1>4. /\ m \in Nat /\ A \in SUBSET (1 .. m) /\ DOMAIN b = 1 .. m
      /\ \A x \in 1 .. m : d[x] = b[x]
      /\ d[m + 1] = c
      /\ CallOutsIn(d) = A \cup {m + 1}
  <2>1. A \in SUBSET (1 .. m) /\ CallOutsIn(d) = A \cup {m + 1}
    BY <1>1, <1>3, KindsGrow
  <2> QED BY <1>1, <2>1, BlockGrows
<1>5. /\ Cardinality(A) \in Nat
      /\ \A j \in A : Place(j, A) \in 1 .. Cardinality(A) /\ Place(j, A \cup {m + 1}) = Place(j, A)
      /\ Place(m + 1, A \cup {m + 1}) = Cardinality(A) + 1
      /\ Cardinality(A \cup {m + 1}) = Cardinality(A) + 1
  <2>1. m \in Nat /\ A \in SUBSET (1 .. m)
    BY <1>4
  <2> QED BY ONLY <2>1, PlaceInRange
<1>6. /\ Len(cs) = Cardinality(A)
      /\ \A x \in A : b[x].co = Place(x, A) /\ callouts[cs[b[x].co]] = b[x].at
  BY <1>1 DEF Numbered
<1>7. ASSUME NEW x \in A
      PROVE  d[x].co = Place(x, A \cup {m + 1}) /\ callouts[ds[d[x].co]] = d[x].at
  <2>1. d[x] = b[x] /\ b[x].co \in 1 .. Len(cs)
    BY <1>4, <1>5, <1>6
  <2> QED BY <1>2, <1>5, <1>6, <2>1
<1>8. d[m + 1].co = Place(m + 1, A \cup {m + 1}) /\ callouts[ds[d[m + 1].co]] = d[m + 1].at
  BY <1>2, <1>4, <1>5, <1>6
<1>9. Numbered(d, ds, callouts)
  BY <1>2, <1>4, <1>5, <1>6, <1>7, <1>8 DEF Numbered
<1> QED BY <1>1, <1>9

LEMMA NumberedSame ==
  ASSUME NEW b, IsBlock(b), NEW cs, NEW callouts, Numbered(b, cs, callouts),
         NEW c, ~(c.kind = "source" /\ c.co > 0)
  PROVE  Numbered(Append(b, c), cs, callouts)
<1>1. CallOutsIn(Append(b, c)) = CallOutsIn(b)
  BY KindsGrow
<1>2. \A x \in CallOutsIn(b) : Append(b, c)[x] = b[x]
  <2>1. CallOutsIn(b) \subseteq DOMAIN b
    BY DEF CallOutsIn, OfKind
  <2> QED BY <2>1, BlockGrows
<1> QED BY <1>1, <1>2 DEF Numbered

(* The numbers hs are those of the elements in the set H, in their order.  *)
Points(hs, H) == Len(hs) = Cardinality(H) /\ \A x \in H : hs[Place(x, H)] = x

LEMMA PointsMore ==
  ASSUME NEW m \in Nat, NEW H \in SUBSET (1 .. m), NEW hs \in Seq(Nat), Points(hs, H)
  PROVE  Points(Append(hs, m + 1), H \cup {m + 1})
<1>1. /\ Cardinality(H) \in Nat
      /\ \A j \in H : Place(j, H) \in 1 .. Cardinality(H) /\ Place(j, H \cup {m + 1}) = Place(j, H)
      /\ Place(m + 1, H \cup {m + 1}) = Cardinality(H) + 1
      /\ Cardinality(H \cup {m + 1}) = Cardinality(H) + 1
  BY PlaceInRange
<1>2. /\ Len(hs) \in Nat /\ Len(Append(hs, m + 1)) = Len(hs) + 1
      /\ Append(hs, m + 1)[Len(hs) + 1] = m + 1
      /\ \A i \in 1 .. Len(hs) : Append(hs, m + 1)[i] = hs[i]
  BY AppendFacts, LenProperties
<1> QED BY <1>1, <1>2 DEF Points

-----------------------------------------------------------------------------
(* The block under way is laid out as the marks in the file say, as far as *)
(* the loops have come.                                                    *)
ReachedShown == {p \in Reached : ~ExcludedFrom(current, p[2])}

ShowsInv == ListsLines(codeLines, ReachedShown)

(* The stretches that have got their marker.                               *)
ReachedMarked ==
    IF gopt.mPrintExcludeMarker THEN Reached \cap Stretches(current) ELSE {}

MarksInv ==
    /\ MarkersFor(current, codeLines, ReachedMarked, ReachedShown)
    /\ gpc = "lines" =>
         (showMarker <=> \A q \in Reached :
                           PartIn(q) = spanIndex /\ Position(q[2]) + 1 = spanLine
                             => ~ExcludedFrom(current, q[2]))

CallOutsInv ==
    /\ coNumber = Len(coLines) + 1
    /\ ~gopt.mSkipCallouts => Numbered(codeLines, coLines, mCallOuts)

Gapless ==
    /\ OfKind(codeLines, "source") = DOMAIN codeLines
    /\ \A p \in Reached : ~ExcludedFrom(current, p[2])

HighlightsInv ==
    /\ codeLineNumber \in Nat /\ highlighted \in Seq(Nat)
    /\ Gapless => /\ codeLineNumber = Len(codeLines) + 1
                  /\ Points(highlighted, HighlightedIn(codeLines))

BlockLaidOut ==
    /\ IsBlock(codeLines)
    /\ ShowsInv /\ MarksInv /\ CallOutsInv /\ HighlightsInv

LEMMA ReachedFinite ==
  ASSUME Parsed, pc = "ok", current \in DOMAIN mSnippets
  PROVE  IsFiniteSet(Reached) /\ IsFiniteSet(ReachedShown)
<1>1. PICK n \in Nat : n = Len(input)
  BY LenProperties DEF Parsed, ReferenceInv, TypeOK
<1>2. IsFiniteSet(Passages(current))
  BY <1>1, PassageTypes
<1>3. Reached \subseteq Passages(current) /\ ReachedShown \subseteq Passages(current)
  BY DEF Reached, ReachedShown
<1> QED BY <1>2, <1>3, FS_Subset

(* Everything that the layout depends on but the block itself.             *)
LEMMA LayoutStays ==
  ASSUME UNCHANGED vars, UNCHANGED current
  PROVE  /\ \A k : ExcludedFrom(current, k)' <=> ExcludedFrom(current, k)
         /\ \A k : TextFor(current, k)' = TextFor(current, k)
         /\ Stretches(current)' = Stretches(current)
         /\ \A q : PartIn(q)' = PartIn(q) /\ Position(q[2])' = Position(q[2])
         /\ HighlightedIn(codeLines)' = HighlightedIn(codeLines')
         /\ UNCHANGED <<mCallOuts, mFileContents>>
<1>1. /\ \A k : ExcludedFrom(current, k)' <=> ExcludedFrom(current, k)
      /\ \A k : TextFor(current, k)' = TextFor(current, k)
      /\ Stretches(current)' = Stretches(current)
      /\ Parts(current)' = Parts(current)
      /\ \A k : Position(k)' = Position(k)
      /\ \A k : IsHighlighted(k)' <=> IsHighlighted(k)
  BY SourceStays
<1>2. \A q : PartIn(q)' = PartIn(q)
  BY <1>1 DEF PartIn
<1>3. HighlightedIn(codeLines)' = HighlightedIn(codeLines')
  <2>1. \A x : IsHighlighted(Position(codeLines'[x].at)) <=> IsHighlighted(Position(codeLines[x].at))'
    <3>1. \A x : Position(codeLines[x].at)' = Position(codeLines'[x].at)
      BY <1>1 DEF Position
    <3>2. \A x : IsHighlighted(Position(codeLines[x].at))' <=>
                   IsHighlighted(Position(codeLines'[x].at))
      BY <1>1, <3>1 DEF IsHighlighted
    <3> QED BY <3>2
  <2> QED BY <2>1 DEF HighlightedIn
<1> QED BY <1>1, <1>2, <1>3 DEF vars, kept

LEMMA MarkersStay ==
  ASSUME UNCHANGED vars, UNCHANGED current, NEW S, NEW R,
         S = ReachedMarked', R = ReachedShown', MarkersFor(current, codeLines', S, R)
  PROVE  MarkersFor(current, codeLines, ReachedMarked, ReachedShown)'
<1>1. \A k : TextFor(current, k)' = TextFor(current, k)
  BY LayoutStays
<1>2. \A k : OfKind(codeLines, k)' = OfKind(codeLines', k)
  BY DEF OfKind
<1>3. \A p : /\ RankIn(p, ReachedMarked)' = RankIn(p, S)
             /\ RankIn(p, ReachedShown)' = RankIn(p, R)
  BY DEF RankIn
<1>4. \A x : /\ Place(x, OfKind(codeLines, "marker"))' = Place(x, OfKind(codeLines', "marker"))
             /\ Place(x, OfKind(codeLines, "source"))' = Place(x, OfKind(codeLines', "source"))
  BY <1>2 DEF Place
<1> QED BY <1>1, <1>2, <1>3, <1>4 DEF MarkersFor

(* A line that is shown.                                                   *)
LEMMA LinePrinted ==
  ASSUME GInv, Parsed, PrintLine, CurrentSpans[spanIndex][1] <= spanLine, BlockLaidOut
  PROVE  BlockLaidOut'
<1>1. /\ UNCHANGED vars /\ UNCHANGED <<gopt, gpc, current, spanIndex>>
      /\ gpc = "lines" /\ spanLine < SpanEnd /\ spanLine' = spanLine + 1
      /\ ~IsLineExcluded(current, spanLine) /\ showMarker' = TRUE
      /\ codeLineNumber' = codeLineNumber + 1
      /\ highlighted' = IF IsHighlighted(spanLine) THEN Append(highlighted, codeLineNumber)
                        ELSE highlighted
  BY DEF PrintLine
<1>2. PICK p \in Passages(current) : NextPassage(p)
  BY <1>1, NextReached
<1>3. /\ p \notin Reached /\ Reached' = Reached \cup {p}
      /\ p[2] = mFileContents[spanLine + 1] /\ Position(p[2]) = spanLine
      /\ PartIn(p) = spanIndex /\ p[2] \in Nat /\ ~ExcludedFrom(current, p[2])
      /\ \A q \in Reached : UpTo(q, p) /\ ~UpTo(p, q)
  BY <1>1, <1>2 DEF NextPassage
<1>4. PICK c : /\ codeLines' = Append(codeLines, c)
               /\ c.kind = "source" /\ c.at = p[2]
               /\ spanLine \notin DOMAIN mCallOuts => c.co = 0
               /\ ~gopt.mSkipCallouts /\ spanLine \in DOMAIN mCallOuts => c.co = coNumber
  BY <1>3 DEF PrintLine, SourceLine
<1>5. /\ IsBlock(codeLines) /\ ShowsInv /\ MarksInv /\ CallOutsInv /\ HighlightsInv
      /\ pc = "ok" /\ current \in DOMAIN mSnippets /\ TypeOK /\ LinesInv
      /\ coLines \in Seq(Nat) /\ spanLine \in Nat /\ spanIndex \in Nat
  BY <1>1 DEF BlockLaidOut, GInv, IInv, LoopInv
<1>6. IsFiniteSet(Reached) /\ IsFiniteSet(ReachedShown)
  BY <1>5, ReachedFinite
<1>7. /\ \A k : ExcludedFrom(current, k)' <=> ExcludedFrom(current, k)
      /\ Stretches(current)' = Stretches(current)
      /\ \A q : PartIn(q)' = PartIn(q) /\ Position(q[2])' = Position(q[2])
      /\ HighlightedIn(codeLines)' = HighlightedIn(codeLines')
      /\ mCallOuts' = mCallOuts
  BY <1>1, LayoutStays
<1>8. IsBlock(codeLines)'
  <2>1. IsBlock(codeLines')
    BY <1>4, <1>5, BlockGrows
  <2> QED BY <2>1 DEF IsBlock
<1>9. ShowsInv'
  <2>1. ReachedShown' = ReachedShown \cup {p} /\ p \notin ReachedShown
        /\ \A q \in ReachedShown : q \in Reached
    <3>1. \A q : ExcludedFrom(current, q[2])' <=> ExcludedFrom(current, q[2])
      BY <1>7
    <3> QED BY <1>3, <3>1 DEF ReachedShown
  <2>2. PICK R : R = ReachedShown
    OBVIOUS
  <2>3. ListsLines(Append(codeLines, c), R \cup {p})
    <3>1. \A q \in R : UpTo(q, p) /\ ~UpTo(p, q)
      BY <1>3, <2>1, <2>2
    <3>2. IsBlock(codeLines) /\ IsFiniteSet(R) /\ ListsLines(codeLines, R) /\ p \notin R
      BY <1>5, <1>6, <2>1, <2>2 DEF ShowsInv
    <3> QED BY ONLY <1>3, <1>4, <3>1, <3>2, ListsMore
  <2>4. ListsLines(codeLines', ReachedShown')
    BY <1>4, <2>1, <2>2, <2>3
  <2> QED BY <2>4 DEF ShowsInv, ListsLines
<1>10. MarksInv'
  <2>1. /\ ReachedMarked' = ReachedMarked
        /\ ReachedShown' = ReachedShown \cup {p}
    <3>1. \A q : ExcludedFrom(current, q[2])' <=> ExcludedFrom(current, q[2])
      BY <1>7
    <3>2. Reached' \cap Stretches(current)' = Reached \cap Stretches(current)
      BY <1>3, <1>7 DEF Stretches
    <3> QED BY <1>1, <1>3, <3>1, <3>2 DEF ReachedShown, ReachedMarked
  <2>2. MarkersFor(current, codeLines, ReachedMarked, ReachedShown)'
    <3>1. PICK S, R, n, b : /\ S = ReachedMarked /\ R = ReachedShown
                            /\ n = current /\ b = codeLines
      OBVIOUS
    <3>2. \A q \in S : ~UpTo(p, q)
      BY <1>3, <3>1 DEF ReachedMarked
    <3>3. MarkersFor(n, b, S, R) /\ IsBlock(b)
      BY <1>5, <3>1 DEF MarksInv
    <3>4. MarkersFor(n, Append(b, c), S, R \cup {p})
      BY ONLY <1>4, <3>2, <3>3, MarkersBelow
    <3>5. MarkersFor(current, codeLines', S, R \cup {p})
      BY <1>4, <3>1, <3>4
    <3> QED BY <1>1, <2>1, <3>1, <3>5, MarkersStay
  <2>3. \A q \in Reached' :
          PartIn(q)' = spanIndex /\ Position(q[2])' + 1 = spanLine + 1
            => ~ExcludedFrom(current, q[2])'
    <3> SUFFICES ASSUME NEW q \in Reached', PartIn(q) = spanIndex,
                        Position(q[2]) + 1 = spanLine + 1
                 PROVE  ~ExcludedFrom(current, q[2])
      BY <1>7
    <3>1. CASE q = p
      BY <1>3, <3>1
    <3>2. CASE q # p
      <4>1. q \in Reached
        BY <1>3, <3>2
      <4>2. Position(q[2]) \in Nat
        <5>1. q \in Passages(current)
          BY <4>1 DEF Reached
        <5>2. PICK n \in Nat : n = Len(input)
          BY <1>5, LenProperties DEF TypeOK
        <5>3. q[2] \in Nat \ {0}
          BY <1>5, <5>1, <5>2, PassageTypes
        <5> QED BY <5>3, PositionsGrow
      <4>3. Position(q[2]) < spanLine
        BY <1>1, <1>5, <4>1 DEF Reached
      <4> QED BY <1>5, <4>2, <4>3
    <3> QED BY <3>1, <3>2
  <2> QED BY <1>1, <1>5, <2>2, <2>3 DEF MarksInv
<1>11. CallOutsInv'
  <2>1. Len(coLines) \in Nat
    BY <1>5, LenProperties
  <2>2. CASE spanLine \in DOMAIN mCallOuts
    <3>1. coLines' = Append(coLines, spanLine) /\ coNumber' = coNumber + 1
      BY <2>2 DEF PrintLine
    <3>2. Len(coLines') = Len(coLines) + 1
      BY <1>5, <3>1, AppendFacts
    <3>3. ASSUME ~gopt.mSkipCallouts PROVE Numbered(codeLines', coLines', mCallOuts)
      <4>1. c.co = Len(coLines) + 1 /\ Numbered(codeLines, coLines, mCallOuts)
        BY <1>4, <1>5, <2>2, <3>3 DEF CallOutsInv
      <4>2. mCallOuts[spanLine] = c.at
        BY <1>3, <1>4, <1>5, <2>2 DEF LinesInv, CallOutsOnTheirLine
      <4>3. IsBlock(codeLines) /\ coLines \in Seq(Nat) /\ spanLine \in Nat /\ c.kind = "source"
        BY <1>4, <1>5
      <4>4. Numbered(Append(codeLines, c), Append(coLines, spanLine), mCallOuts)
        BY ONLY <4>1, <4>2, <4>3, NumberedMore
      <4> QED BY <1>4, <3>1, <4>4
    <3>4. coNumber' = Len(coLines') + 1
      BY <1>5, <2>1, <3>1, <3>2 DEF CallOutsInv
    <3>5. Numbered(codeLines, coLines, mCallOuts)' <=> Numbered(codeLines', coLines', mCallOuts)
      BY <1>7 DEF Numbered
    <3> QED BY <1>1, <3>3, <3>4, <3>5 DEF CallOutsInv
  <2>3. CASE spanLine \notin DOMAIN mCallOuts
    <3>1. UNCHANGED <<coLines, coNumber>>
      BY <2>3 DEF PrintLine
    <3>2. ~(c.kind = "source" /\ c.co > 0)
      BY <1>4, <2>3
    <3>3. ASSUME ~gopt.mSkipCallouts PROVE Numbered(codeLines', coLines, mCallOuts)
      BY <1>4, <1>5, <3>2, <3>3, NumberedSame DEF CallOutsInv
    <3>4. Numbered(codeLines, coLines, mCallOuts)' <=> Numbered(codeLines', coLines, mCallOuts)
      BY <1>7, <3>1 DEF Numbered
    <3> QED BY <1>1, <1>5, <3>1, <3>3, <3>4 DEF CallOutsInv
  <2> QED BY <2>2, <2>3
<1>12. HighlightsInv'
  <2>1. PICK m \in Nat : m = Len(codeLines)
    BY <1>5, BlockGrows
  <2>2. codeLineNumber' \in Nat /\ highlighted' \in Seq(Nat)
    <3>1. codeLineNumber \in Nat /\ highlighted \in Seq(Nat)
      BY <1>5 DEF HighlightsInv
    <3> QED BY <1>1, <3>1
  <2>3. ASSUME Gapless'
        PROVE  codeLineNumber' = Len(codeLines') + 1 /\ Points(highlighted', HighlightedIn(codeLines'))
    <3>1. Gapless
      <4>1. OfKind(codeLines', "source") = DOMAIN codeLines' /\ \A q \in Reached : ~ExcludedFrom(current, q[2])
        <5>1. \A q : ExcludedFrom(current, q[2])' <=> ExcludedFrom(current, q[2])
          BY <1>7
        <5> QED BY <1>3, <2>3, <5>1 DEF Gapless, OfKind
      <4>2. /\ DOMAIN codeLines' = DOMAIN codeLines \cup {m + 1} /\ m + 1 \notin DOMAIN codeLines
            /\ OfKind(codeLines', "source") = OfKind(codeLines, "source") \cup {m + 1}
            /\ OfKind(codeLines, "source") \subseteq DOMAIN codeLines
        BY <1>4, <1>5, <2>1, BlockGrows, KindsGrow DEF OfKind
      <4>3. OfKind(codeLines, "source") = DOMAIN codeLines
        BY <4>1, <4>2
      <4> QED BY <4>1, <4>3 DEF Gapless
    <3>2. codeLineNumber = m + 1 /\ Points(highlighted, HighlightedIn(codeLines))
      BY <1>5, <2>1, <3>1 DEF HighlightsInv
    <3>3. Len(codeLines') = m + 1
      BY <1>4, <1>5, <2>1, BlockGrows
    <3>4. PICK H : H = HighlightedIn(codeLines)
      OBVIOUS
    <3>5. /\ H \in SUBSET (1 .. m)
          /\ HighlightedIn(codeLines') = IF IsHighlighted(spanLine) THEN H \cup {m + 1} ELSE H
      BY <1>3, <1>4, <1>5, <2>1, <3>4, HighlightedGrow
    <3>6. Points(Append(highlighted, m + 1), H \cup {m + 1})
      <4>1. highlighted \in Seq(Nat) /\ Points(highlighted, H) /\ m \in Nat /\ H \in SUBSET (1 .. m)
        BY <1>5, <2>1, <3>2, <3>4, <3>5 DEF HighlightsInv
      <4> QED BY ONLY <4>1, PointsMore
    <3>7. Points(highlighted', HighlightedIn(codeLines'))
      BY <1>1, <3>2, <3>4, <3>5, <3>6
    <3> QED BY <1>1, <2>1, <3>2, <3>3, <3>7
  <2>4. Points(highlighted, HighlightedIn(codeLines))' <=> Points(highlighted', HighlightedIn(codeLines'))
    BY <1>7 DEF Points
  <2> QED BY <2>2, <2>3, <2>4 DEF HighlightsInv
<1> QED BY <1>8, <1>9, <1>10, <1>11, <1>12 DEF BlockLaidOut

(* A line that is left out, with or without a marker.                      *)
LEMMA LineLeftOut ==
  ASSUME GInv, Parsed, ExcludeLine, CurrentSpans[spanIndex][1] <= spanLine, BlockLaidOut
  PROVE  BlockLaidOut'
<1>1. /\ UNCHANGED vars /\ UNCHANGED <<gopt, gpc, current, spanIndex, coNumber, coLines, highlighted>>
      /\ gpc = "lines" /\ spanLine < SpanEnd /\ spanLine' = spanLine + 1
      /\ IsLineExcluded(current, spanLine) /\ showMarker' = FALSE
      /\ codeLineNumber' = codeLineNumber + 1
  BY DEF ExcludeLine
<1>2. PICK p \in Passages(current) : NextPassage(p)
  BY <1>1, NextReached
<1>3. /\ p \notin Reached /\ Reached' = Reached \cup {p}
      /\ Position(p[2]) = spanLine /\ PartIn(p) = spanIndex /\ ExcludedFrom(current, p[2])
      /\ p[2] \in Nat /\ TextFor(current, p[2]) = ExcludeText(current, spanLine)
      /\ \A q \in Reached : UpTo(q, p) /\ ~UpTo(p, q)
      /\ \A q \in Passages(current) :
           Precedes(q, p) <=>
             q \in Reached /\ PartIn(q) = spanIndex /\ Position(q[2]) + 1 = spanLine
  BY <1>1, <1>2 DEF NextPassage
<1>4. PICK c : /\ c.kind = "marker" /\ c.text = TextFor(current, p[2])
               /\ codeLines' = IF showMarker /\ gopt.mPrintExcludeMarker
                               THEN Append(codeLines, c) ELSE codeLines
  BY <1>3 DEF ExcludeLine, Marker
<1>5. /\ IsBlock(codeLines) /\ ShowsInv /\ MarksInv /\ CallOutsInv /\ HighlightsInv
      /\ pc = "ok" /\ current \in DOMAIN mSnippets
  BY <1>1 DEF BlockLaidOut, GInv, IInv, LoopInv
<1>6. IsFiniteSet(Reached)
  BY <1>5, ReachedFinite
<1>7. /\ \A k : ExcludedFrom(current, k)' <=> ExcludedFrom(current, k)
      /\ Stretches(current)' = Stretches(current)
      /\ \A q : PartIn(q)' = PartIn(q) /\ Position(q[2])' = Position(q[2])
      /\ mCallOuts' = mCallOuts
  BY <1>1, LayoutStays
<1>8. IsBlock(codeLines)'
  <2>1. IsBlock(codeLines')
    BY <1>4, <1>5, BlockGrows
  <2> QED BY <2>1 DEF IsBlock
<1>9. ShowsInv'
  <2>1. ReachedShown' = ReachedShown
    <3>1. \A q : ExcludedFrom(current, q[2])' <=> ExcludedFrom(current, q[2])
      BY <1>7
    <3> QED BY <1>3, <3>1 DEF ReachedShown
  <2>2. ListsLines(Append(codeLines, c), ReachedShown) /\ ListsLines(codeLines, ReachedShown)
    BY <1>4, <1>5, ListsSame DEF ShowsInv
  <2>3. ListsLines(codeLines', ReachedShown')
    BY <1>4, <2>1, <2>2
  <2> QED BY <2>3 DEF ShowsInv, ListsLines
<1>10. MarksInv'
  <2>1. PICK S, R, n, b : /\ S = ReachedMarked /\ R = ReachedShown
                          /\ n = current /\ b = codeLines
    OBVIOUS
  <2>2. MarkersFor(n, b, S, R) /\ IsBlock(b)
    BY <1>5, <2>1 DEF MarksInv
  <2>3. IsFiniteSet(S) /\ p \notin S /\ \A q \in S : UpTo(q, p) /\ ~UpTo(p, q)
    <3>1. S \subseteq Reached
      BY <2>1 DEF ReachedMarked
    <3> QED BY <1>3, <1>6, <3>1, FS_Subset
  <2>4. Cardinality(OfKind(b, "source")) = Cardinality(R) /\ \A q \in R : UpTo(q, p)
    BY <1>3, <1>5, <2>1 DEF ShowsInv, ListsLines, ReachedShown
  <2>5. MarkersFor(n, Append(b, c), S \cup {p}, R)
    <3>1. c.text = TextFor(n, p[2]) /\ c.kind = "marker" /\ p[2] \in Nat
      BY <1>3, <1>4, <2>1
    <3> QED BY ONLY <2>2, <2>3, <2>4, <3>1, MarkersMore
  <2>6. ReachedShown' = R
    <3>1. \A q : ExcludedFrom(current, q[2])' <=> ExcludedFrom(current, q[2])
      BY <1>7
    <3> QED BY <1>3, <2>1, <3>1 DEF ReachedShown
  <2>7. ReachedMarked' = IF gopt.mPrintExcludeMarker /\ p \in Stretches(current)
                         THEN S \cup {p} ELSE S
    BY <1>1, <1>3, <1>7, <2>1 DEF ReachedMarked
  <2>8. p \in Stretches(current) <=> showMarker
    <3>1. showMarker <=> \A q \in Reached :
                           PartIn(q) = spanIndex /\ Position(q[2]) + 1 = spanLine
                             => ~ExcludedFrom(current, q[2])
      BY <1>1, <1>5 DEF MarksInv
    <3>2. p \in Stretches(current) <=>
            \A q \in Passages(current) : Precedes(q, p) => ~ExcludedFrom(current, q[2])
      BY <1>3 DEF Stretches
    <3>3. Reached \subseteq Passages(current)
      BY DEF Reached
    <3> QED BY <1>3, <3>1, <3>2, <3>3
  <2>9. MarkersFor(current, codeLines, ReachedMarked, ReachedShown)'
    <3>1. MarkersFor(current, codeLines', ReachedMarked', R)
      BY <1>4, <2>1, <2>2, <2>5, <2>7, <2>8
    <3> QED BY <1>1, <2>6, <3>1, MarkersStay
  <2>10. ~ \A q \in Reached' :
             PartIn(q)' = spanIndex /\ Position(q[2])' + 1 = spanLine + 1
               => ~ExcludedFrom(current, q[2])'
    <3>1. p \in Reached' /\ PartIn(p)' = spanIndex /\ Position(p[2])' = spanLine
          /\ ExcludedFrom(current, p[2])'
      BY <1>3, <1>7
    <3> QED BY <3>1
  <2> QED BY <1>1, <2>9, <2>10 DEF MarksInv
<1>11. CallOutsInv'
  <2>1. ~(c.kind = "source" /\ c.co > 0)
    BY <1>4
  <2>2. ASSUME ~gopt.mSkipCallouts PROVE Numbered(codeLines', coLines, mCallOuts)
    BY <1>4, <1>5, <2>1, <2>2, NumberedSame DEF CallOutsInv
  <2>3. Numbered(codeLines, coLines, mCallOuts)' <=> Numbered(codeLines', coLines, mCallOuts)
    BY <1>1, <1>7 DEF Numbered
  <2> QED BY <1>1, <1>5, <2>2, <2>3 DEF CallOutsInv
<1>12. HighlightsInv'
  <2>1. p \in Reached' /\ ExcludedFrom(current, p[2])'
    BY <1>3, <1>7
  <2>2. ~Gapless'
    BY <2>1 DEF Gapless
  <2> QED BY <1>1, <1>5, <2>2 DEF HighlightsInv
<1> QED BY <1>8, <1>9, <1>10, <1>11, <1>12 DEF BlockLaidOut

(* What opening a file starts from.                                        *)
LEMMA EmptyBlock ==
  /\ IsBlock(<<>>) /\ Len(<<>>) = 0 /\ DOMAIN <<>> = {} /\ <<>> \in Seq(Nat)
  /\ \A k : OfKind(<<>>, k) = {}
  /\ CallOutsIn(<<>>) = {}
  /\ ListsLines(<<>>, {}) /\ \A n : MarkersFor(n, <<>>, {}, {})
  /\ \A callouts : Numbered(<<>>, <<>>, callouts)
  /\ Points(<<>>, {}) /\ Cardinality({}) = 0
<1>1. /\ IsBlock(<<>>) /\ Len(<<>>) = 0 /\ <<>> \in Seq(Nat) /\ Cardinality({}) = 0
      /\ DOMAIN <<>> = {}
  BY LinesInEmpty, EmptySeq, FS_EmptySet
<1>2. (\A k : OfKind(<<>>, k) = {}) /\ CallOutsIn(<<>>) = {}
  BY <1>1 DEF OfKind, CallOutsIn
<1> QED BY <1>1, <1>2 DEF ListsLines, MarkersFor, Numbered, Points

LEMMA NothingReached ==
  Parsed /\ pc = "ok" /\ current \in DOMAIN mSnippets /\ gpc # "lines" /\ spanIndex = 0
    => Reached = {}
  BY ReachedEnds

LEMMA FileOpened ==
  ASSUME GInv, Parsed, Parsed', OpenSnippetFile
  PROVE  BlockLaidOut'
<1>1. /\ UNCHANGED vars /\ gpc = "select" /\ gpc' \in {"span", "failed"}
      /\ current' \in DOMAIN mSnippets /\ spanIndex' = 0
      /\ coNumber' = 1 /\ codeLineNumber' = 1
      /\ codeLines' = <<>> /\ highlighted' = <<>> /\ coLines' = <<>>
  BY DEF OpenSnippetFile
<1>2. pc' = "ok" /\ mSnippets' = mSnippets
  BY <1>1 DEF vars, kept, GInv, LoopInv
<1>3. Reached' = {}
  <2>1. (Parsed /\ pc = "ok" /\ current \in DOMAIN mSnippets /\ gpc # "lines" /\ spanIndex = 0
           => Reached = {})'
    BY NothingReached, PTL
  <2> QED BY <1>1, <1>2, <2>1
<1>4. ReachedShown' = {}
  BY <1>3 DEF ReachedShown
<1>5. IsBlock(codeLines)'
  BY <1>1, EmptyBlock DEF IsBlock
<1>6. ShowsInv'
  <2>1. ListsLines(codeLines, ReachedShown)' <=> ListsLines(codeLines', ReachedShown')
    BY DEF ListsLines, OfKind
  <2> QED BY <1>1, <1>4, <2>1, EmptyBlock DEF ShowsInv
<1>7. MarksInv'
  <2>1. ReachedMarked' = {}
    BY <1>3 DEF ReachedMarked
  <2>2. MarkersFor(current, codeLines, ReachedMarked, ReachedShown)'
    <3>1. OfKind(codeLines, "marker")' = {}
      BY <1>1, EmptyBlock DEF OfKind
    <3>2. Cardinality(OfKind(codeLines, "marker"))' = Cardinality(ReachedMarked')
      BY <2>1, <3>1
    <3> QED BY <2>1, <3>2 DEF MarkersFor
  <2> QED BY <1>1, <2>2 DEF MarksInv
<1>8. CallOutsInv'
  <2>1. Numbered(codeLines, coLines, mCallOuts)' <=> Numbered(codeLines', coLines', mCallOuts')
    BY DEF Numbered, CallOutsIn, OfKind
  <2> QED BY <1>1, <2>1, EmptyBlock DEF CallOutsInv
<1>9. HighlightsInv'
  <2>1. HighlightedIn(codeLines)' = {}
    BY <1>1, EmptyBlock DEF HighlightedIn
  <2>2. Points(highlighted, HighlightedIn(codeLines))' <=> Points(highlighted', HighlightedIn(codeLines)')
    BY DEF Points
  <2>3. Points(highlighted', HighlightedIn(codeLines)')
    BY <1>1, <2>1, EmptyBlock
  <2>4. codeLineNumber' \in Nat /\ highlighted' \in Seq(Nat) /\ codeLineNumber' = Len(codeLines') + 1
    BY <1>1, EmptyBlock
  <2> QED BY <2>2, <2>3, <2>4 DEF HighlightsInv
<1> QED BY <1>5, <1>6, <1>7, <1>8, <1>9 DEF BlockLaidOut

LEMMA SpanEntered ==
  ASSUME GInv, Parsed, EnterSpan, BlockLaidOut
  PROVE  BlockLaidOut'
<1>1. /\ UNCHANGED vars
      /\ UNCHANGED <<gopt, current, coNumber, codeLineNumber, highlighted, coLines>>
      /\ gpc = "span" /\ gpc' = "lines" /\ spanIndex' = spanIndex + 1 /\ showMarker' = TRUE
  BY DEF EnterSpan
<1>2. PICK c : /\ c.kind = "delimiter"
               /\ codeLines' \in {codeLines, Append(codeLines, c)}
  BY DEF EnterSpan, Delimiter
<1>3. /\ IsBlock(codeLines) /\ ShowsInv /\ MarksInv /\ CallOutsInv /\ HighlightsInv
      /\ pc = "ok" /\ current \in DOMAIN mSnippets /\ spanIndex \in Nat
  BY <1>1 DEF BlockLaidOut, GInv, LoopInv
<1>4. Reached' = Reached
  BY ReachedAtBounds
<1>5. /\ \A k : ExcludedFrom(current, k)' <=> ExcludedFrom(current, k)
      /\ Stretches(current)' = Stretches(current)
      /\ \A q : PartIn(q)' = PartIn(q) /\ Position(q[2])' = Position(q[2])
      /\ HighlightedIn(codeLines)' = HighlightedIn(codeLines')
      /\ mCallOuts' = mCallOuts
  BY <1>1, LayoutStays
<1>6. ReachedShown' = ReachedShown
  <2>1. \A q : ExcludedFrom(current, q[2])' <=> ExcludedFrom(current, q[2])
    BY <1>5
  <2> QED BY <1>4, <2>1 DEF ReachedShown
<1>7. IsBlock(codeLines)'
  <2>1. IsBlock(Append(codeLines, c))
    BY <1>3, BlockGrows
  <2>2. IsBlock(codeLines')
    BY <1>2, <1>3, <2>1
  <2> QED BY <2>2 DEF IsBlock
<1>8. ShowsInv'
  <2>1. ListsLines(codeLines', ReachedShown')
    BY <1>2, <1>3, <1>6, ListsSame DEF ShowsInv
  <2>2. ListsLines(codeLines, ReachedShown)' <=> ListsLines(codeLines', ReachedShown')
    BY DEF ListsLines, OfKind
  <2> QED BY <2>1, <2>2 DEF ShowsInv
<1>9. MarksInv'
  <2>1. ReachedMarked' = ReachedMarked
    BY <1>1, <1>4, <1>5 DEF ReachedMarked
  <2>2. MarkersFor(current, codeLines, ReachedMarked, ReachedShown)'
    <3>1. PICK S, R, n, b : /\ S = ReachedMarked /\ R = ReachedShown
                            /\ n = current /\ b = codeLines
      OBVIOUS
    <3>2. MarkersFor(n, b, S, R) /\ IsBlock(b)
      BY <1>3, <3>1 DEF MarksInv
    <3>3. MarkersFor(n, Append(b, c), S, R)
      BY ONLY <1>2, <3>2, MarkersSame
    <3>4. MarkersFor(current, codeLines', S, R)
      BY <1>2, <3>1, <3>2, <3>3
    <3> QED BY <1>1, <1>6, <2>1, <3>1, <3>4, MarkersStay
  <2>3. \A q \in Reached : PartIn(q)' # spanIndex + 1
    <3>1. \A q \in Reached : PartIn(q) < spanIndex \/ PartIn(q) = spanIndex
      BY DEF Reached
    <3>2. PICK n \in Nat : n = Len(input)
      BY LenProperties DEF Parsed, ReferenceInv, TypeOK
    <3>3. \A q \in Reached : PartIn(q) \in Nat
      <4>1. \A q \in Passages(current) : PartIn(q) \in 1 .. Len(CurrentSpans)
        BY <1>3, <3>2, PassageTypes DEF CurrentSpans, PartIn
      <4> QED BY <4>1 DEF Reached
    <3>4. \A q \in Reached : PartIn(q) # spanIndex + 1
      BY <1>3, <3>1, <3>3
    <3> QED BY <1>5, <3>4
  <2> QED BY <1>1, <1>3, <1>4, <1>5, <2>2, <2>3 DEF MarksInv
<1>10. CallOutsInv'
  <2>1. Numbered(codeLines, coLines, mCallOuts)' <=> Numbered(codeLines', coLines', mCallOuts')
    BY DEF Numbered, CallOutsIn, OfKind
  <2>2. ASSUME ~gopt.mSkipCallouts PROVE Numbered(codeLines', coLines, mCallOuts)
    <3>1. Numbered(codeLines, coLines, mCallOuts) /\ ~(c.kind = "source" /\ c.co > 0)
      BY <1>2, <1>3, <2>2 DEF CallOutsInv
    <3> QED BY <1>2, <1>3, <3>1, NumberedSame
  <2> QED BY <1>1, <1>3, <1>5, <2>1, <2>2 DEF CallOutsInv
<1>11. HighlightsInv'
  <2>1. Points(highlighted, HighlightedIn(codeLines))' <=> Points(highlighted', HighlightedIn(codeLines'))
    BY <1>5 DEF Points
  <2>2. CASE codeLines' = codeLines
    <3>1. Gapless' => Gapless
      <4>1. \A q : ExcludedFrom(current, q[2])' <=> ExcludedFrom(current, q[2])
        BY <1>5
      <4> QED BY <1>4, <2>2, <4>1 DEF Gapless, OfKind
    <3> QED BY <1>1, <1>3, <2>1, <2>2, <3>1 DEF HighlightsInv
  <2>3. CASE codeLines' = Append(codeLines, c)
    <3>1. PICK m, d : m = Len(codeLines) /\ d = Append(codeLines, c)
      OBVIOUS
    <3>2. m + 1 \in DOMAIN d /\ d[m + 1] = c
      BY <1>3, <3>1, BlockGrows
    <3>3. OfKind(d, "source") # DOMAIN d
      BY <1>2, <3>2 DEF OfKind
    <3>4. OfKind(codeLines, "source")' = OfKind(d, "source")
      BY <2>3, <3>1 DEF OfKind
    <3>5. ~Gapless'
      BY <2>3, <3>1, <3>3, <3>4 DEF Gapless
    <3> QED BY <1>1, <1>3, <3>5 DEF HighlightsInv
  <2> QED BY <1>2, <2>2, <2>3
<1> QED BY <1>7, <1>8, <1>9, <1>10, <1>11 DEF BlockLaidOut

(* A step that leaves the block and what has been reached alone.           *)
LEMMA BlockUntouched ==
  ASSUME UNCHANGED vars, Reached' = Reached, BlockLaidOut,
         UNCHANGED <<gopt, current, coNumber, codeLineNumber, codeLines, highlighted, coLines>>,
         gpc' = "lines" => UNCHANGED <<gpc, spanIndex, spanLine, showMarker>>
  PROVE  BlockLaidOut'
<1>1. IsBlock(codeLines) /\ ShowsInv /\ MarksInv /\ CallOutsInv /\ HighlightsInv
  BY DEF BlockLaidOut
<1>2. /\ \A k : ExcludedFrom(current, k)' <=> ExcludedFrom(current, k)
      /\ Stretches(current)' = Stretches(current)
      /\ \A q : PartIn(q)' = PartIn(q) /\ Position(q[2])' = Position(q[2])
      /\ HighlightedIn(codeLines)' = HighlightedIn(codeLines')
      /\ mCallOuts' = mCallOuts
  BY LayoutStays
<1>3. ReachedShown' = ReachedShown /\ (Gapless' => Gapless)
  <2>1. \A q : ExcludedFrom(current, q[2])' <=> ExcludedFrom(current, q[2])
    BY <1>2
  <2> QED BY <2>1 DEF ReachedShown, Gapless, OfKind
<1>4. IsBlock(codeLines)' /\ ShowsInv'
  BY <1>1, <1>3 DEF ShowsInv, ListsLines, OfKind, IsBlock
<1>5. MarksInv'
  <2>1. ReachedMarked' = ReachedMarked
    BY <1>2 DEF ReachedMarked
  <2>2. \A q : ExcludedFrom(current, q[2])' <=> ExcludedFrom(current, q[2])
    BY <1>2
  <2>3. MarkersFor(current, codeLines, ReachedMarked, ReachedShown)'
    <3>1. MarkersFor(current, codeLines', ReachedMarked, ReachedShown)
      BY <1>1 DEF MarksInv
    <3> QED BY <1>3, <2>1, <3>1, MarkersStay
  <2> QED BY <1>1, <1>2, <2>2, <2>3 DEF MarksInv
<1>6. CallOutsInv'
  BY <1>1, <1>2 DEF CallOutsInv, Numbered, CallOutsIn, OfKind
<1>7. HighlightsInv'
  <2>1. Points(highlighted, HighlightedIn(codeLines))' <=> Points(highlighted, HighlightedIn(codeLines))
    BY <1>2 DEF Points
  <2> QED BY <1>1, <1>3, <2>1 DEF HighlightsInv
<1> QED BY <1>4, <1>5, <1>6, <1>7 DEF BlockLaidOut

-----------------------------------------------------------------------------
(* A closed file is the block that was laid out for it.                    *)
CloseInv ==
    gpc = "select" /\ current \in DOMAIN files =>
      /\ current \in DOMAIN mSnippets /\ spanIndex = Len(CurrentSpans)
      /\ files[current].block = codeLines
      /\ files[current].highlight = highlighted
      /\ ~gopt.mSkipCallouts =>
           /\ Len(files[current].list) = Len(coLines)
           /\ \A i \in 1 .. Len(coLines) :
                files[current].list[i] = <<i, mCallOuts[coLines[i]]>>

Active == gpc \in {"span", "lines"} \/ (gpc = "select" /\ current \in DOMAIN files)

LayoutInv == CloseInv /\ (Active => BlockLaidOut)

LEMMA ParsedInit == GInit => Parsed
  BY ReferenceInit, WholeInit DEF GInit, Parsed

LEMMA ParsedStep == Parsed /\ [GNext]_allVars => Parsed'
<1> SUFFICES ASSUME Parsed, [GNext]_allVars PROVE Parsed'
  OBVIOUS
<1>1. [Next]_vars
  <2>1. CASE Parse
    BY <2>1 DEF Parse
  <2>2. CASE GNext /\ ~Parse
    BY <2>2, GeneratorLeavesParser
  <2>3. CASE UNCHANGED allVars
    BY <2>3 DEF allVars
  <2> QED BY <2>1, <2>2, <2>3
<1> QED BY <1>1, ReferenceStep, WholeStep DEF Parsed

LEMMA LayoutInit == GInit => LayoutInv
  BY DEF GInit, LayoutInv, CloseInv, Active

LEMMA FileClosed ==
  ASSUME GInv, Parsed, CloseSnippetFile, BlockLaidOut
  PROVE  CloseInv' /\ BlockLaidOut'
<1>1. /\ UNCHANGED vars /\ gpc = "span" /\ gpc' = "select" /\ spanIndex = Len(CurrentSpans)
      /\ UNCHANGED <<gopt, current, loop>>
  BY DEF CloseSnippetFile
<1>2. /\ UNCHANGED <<gopt, current, coNumber, codeLineNumber, codeLines, highlighted, coLines,
                     spanIndex, spanLine, mSnippets, mCallOuts>>
  BY <1>1 DEF loop, vars, kept
<1>3. Reached' = Reached
  <2>1. \A q : PartIn(q)' = PartIn(q) /\ Position(q[2])' = Position(q[2])
    BY <1>1, LayoutStays
  <2>2. Passages(current)' = Passages(current)
    BY <1>1, SourceStays
  <2> QED BY <1>1, <1>2, <2>1, <2>2 DEF Reached
<1>4. BlockLaidOut'
  BY <1>1, <1>2, <1>3, BlockUntouched
<1>5. CurrentSpans' = CurrentSpans
  BY <1>2 DEF CurrentSpans
<1>6. current \in DOMAIN mSnippets /\ Len(coLines) \in Nat
  BY <1>1, LenProperties DEF GInv, LoopInv
<1>7. /\ files'[current].block = codeLines /\ files'[current].highlight = highlighted
      /\ ~gopt.mSkipCallouts =>
           files'[current].list = [i \in 1 .. Len(coLines) |-> <<i, mCallOuts[coLines[i]]>>]
  BY DEF CloseSnippetFile, Bind
<1>8. ~gopt.mSkipCallouts => /\ Len(files'[current].list) = Len(coLines)
                             /\ \A i \in 1 .. Len(coLines) :
                                  files'[current].list[i] = <<i, mCallOuts[coLines[i]]>>
  <2>1. PICK list : list = [i \in 1 .. Len(coLines) |-> <<i, mCallOuts[coLines[i]]>>]
    OBVIOUS
  <2>2. Len(list) = Len(coLines)
    BY <1>6, <2>1
  <2> QED BY <1>7, <2>1, <2>2
<1>9. CloseInv'
  BY <1>1, <1>2, <1>5, <1>6, <1>7, <1>8 DEF CloseInv
<1> QED BY <1>4, <1>9

LEMMA LayoutStep ==
  GInv /\ BlockInv /\ Parsed /\ Parsed' /\ LayoutInv /\ [GNext]_allVars => LayoutInv'
<1> SUFFICES ASSUME GInv, BlockInv, Parsed, Parsed', LayoutInv, [GNext]_allVars
             PROVE  LayoutInv'
  OBVIOUS
<1>1. CASE Parse \/ ParseFails \/ WriteDatabase \/ Done
  <2>1. gpc' \in {"parsing", "failed", "directory", "done"}
    BY <1>1 DEF Parse, gvars, ParseFails, WriteDatabase, Done
  <2> QED BY <2>1 DEF LayoutInv, CloseInv, Active
<1>2. CASE MakeDirectory
  <2>1. gpc' \in {"select", "failed"} /\ current' \notin DOMAIN files'
    BY <1>2 DEF MakeDirectory, BlockInv
  <2> QED BY <2>1 DEF LayoutInv, CloseInv, Active
<1>3. CASE OpenSnippetFile
  <2>1. gpc' # "select"
    BY <1>3 DEF OpenSnippetFile
  <2> QED BY <1>3, <2>1, FileOpened DEF LayoutInv, CloseInv
<1>4. CASE EnterSpan
  <2>1. gpc = "span" /\ gpc' # "select"
    BY <1>4 DEF EnterSpan
  <2> QED BY <1>4, <2>1, SpanEntered DEF LayoutInv, CloseInv, Active
<1>5. CASE PrintLine \/ ExcludeLine
  <2>1. gpc = "lines" /\ gpc' # "select"
    BY <1>5 DEF PrintLine, ExcludeLine
  <2>2. CurrentSpans[spanIndex][1] <= spanLine
    BY <2>1 DEF BlockInv
  <2> QED BY <1>5, <2>1, <2>2, LinePrinted, LineLeftOut DEF LayoutInv, CloseInv, Active
<1>6. CASE LeaveSpan
  <2>1. /\ gpc = "lines" /\ gpc' = "span" /\ UNCHANGED vars
        /\ UNCHANGED <<gopt, current, coNumber, codeLineNumber, codeLines, highlighted, coLines>>
    BY <1>6 DEF LeaveSpan, loop
  <2>2. BlockLaidOut'
    BY <1>6, <2>1, ReachedAtBounds, BlockUntouched DEF LayoutInv, Active
  <2> QED BY <2>1, <2>2 DEF LayoutInv, CloseInv
<1>7. CASE CloseSnippetFile
  <2>1. gpc = "span"
    BY <1>7 DEF CloseSnippetFile
  <2> QED BY <1>7, <2>1, FileClosed DEF LayoutInv, Active
<1>8. CASE Exit \/ UNCHANGED allVars
  <2>1. UNCHANGED vars /\ UNCHANGED <<gpc, gopt, files, current, loop>>
    BY <1>8 DEF Exit, allVars, gvars
  <2>2. UNCHANGED <<spanIndex, spanLine, showMarker, coNumber, codeLineNumber, codeLines,
                    highlighted, coLines, mSnippets, mCallOuts>>
    BY <2>1 DEF loop, vars, kept
  <2>3. CloseInv'
    BY <2>1, <2>2 DEF LayoutInv, CloseInv, CurrentSpans
  <2>4. Reached' = Reached
    <3>1. \A q : PartIn(q)' = PartIn(q) /\ Position(q[2])' = Position(q[2])
      BY <2>1, LayoutStays
    <3>2. Passages(current)' = Passages(current)
      BY <2>1, SourceStays
    <3> QED BY <2>1, <2>2, <3>1, <3>2 DEF Reached
  <2>5. Active' => Active
    BY <2>1 DEF Active
  <2>6. BlockLaidOut => BlockLaidOut'
    BY <2>1, <2>2, <2>4, BlockUntouched
  <2> QED BY <2>3, <2>5, <2>6 DEF LayoutInv
<1> QED BY <1>1, <1>2, <1>3, <1>4, <1>5, <1>6, <1>7, <1>8 DEF GNext

RenderInv == GInv /\ BlockInv /\ Parsed /\ LayoutInv

LEMMA RenderAlways == GSpec => []RenderInv
<1>1. GInit => RenderInv
  BY GInvInit, BlockInit, ParsedInit, LayoutInit DEF RenderInv
<1>2. RenderInv /\ [GNext]_allVars => RenderInv'
  BY GInvStep, BlockStep, ParsedStep, LayoutStep DEF RenderInv
<1> QED BY <1>1, <1>2, PTL DEF GSpec

(* A file that has just been closed.                                       *)
LEMMA ClosedFile ==
  ASSUME RenderInv, NEW n \in JustClosed
  PROVE  /\ n = current /\ n \in DOMAIN mSnippets /\ pc = "ok"
         /\ BlockLaidOut /\ files[n].block = codeLines /\ files[n].highlight = highlighted
         /\ ~gopt.mSkipCallouts =>
              /\ Len(files[n].list) = Len(coLines)
              /\ \A i \in 1 .. Len(coLines) : files[n].list[i] = <<i, mCallOuts[coLines[i]]>>
         /\ Reached = Passages(n) /\ ReachedShown = Shown(n)
<1>1. n = current /\ gpc = "select" /\ current \in DOMAIN files
  BY DEF JustClosed
<1>2. GInv /\ Parsed /\ CloseInv /\ BlockLaidOut /\ pc = "ok"
  BY <1>1 DEF RenderInv, LayoutInv, Active, GInv, LoopInv
<1>3. current \in DOMAIN mSnippets /\ spanIndex = Len(CurrentSpans)
  BY <1>1, <1>2 DEF CloseInv
<1>4. Reached = Passages(n)
  BY <1>1, <1>2, <1>3, ReachedEnds
<1>5. ReachedShown = Shown(n)
  BY <1>1, <1>4 DEF ReachedShown, Shown
<1> QED BY <1>1, <1>2, <1>3, <1>4, <1>5 DEF CloseInv

(* Whatever the marks in the source file and whatever is subtracted: a     *)
(* snippet file shows, in order and as often as a part of the snippet      *)
(* contains it, each kept line that is not excluded, and no other.         *)
THEOREM FilesAlwaysShowTheMarkedLines == GSpec => []FilesShowTheMarkedLines
<1>1. RenderInv => FilesShowTheMarkedLines
  <2> SUFFICES ASSUME RenderInv, NEW n \in JustClosed
               PROVE  ListsLines(files[n].block, Shown(n))
    BY DEF FilesShowTheMarkedLines, ListsLines
  <2>1. BlockLaidOut /\ files[n].block = codeLines /\ ReachedShown = Shown(n)
    BY ClosedFile
  <2> QED BY <2>1 DEF BlockLaidOut, ShowsInv
<1> QED BY <1>1, RenderAlways, PTL

(* printExcludeMarkerForLine: one marker for each stretch of excluded      *)
(* lines, at its place and with the text for its first line, however       *)
(* stretches, spans and nested snippets follow each other.                 *)
THEOREM MarkerAlwaysPerStretch == GSpec => []MarkerPerStretch
<1>1. RenderInv => MarkerPerStretch
  <2> SUFFICES ASSUME RenderInv, NEW n \in JustClosed
               PROVE  MarkersFor(n, files[n].block,
                                 IF gopt.mPrintExcludeMarker THEN Stretches(n) ELSE {}, Shown(n))
    BY DEF MarkerPerStretch, MarkersFor
  <2>1. /\ BlockLaidOut /\ files[n].block = codeLines /\ Reached = Passages(n) /\ n = current
        /\ ReachedShown = Shown(n)
    BY ClosedFile
  <2>2. ReachedMarked = IF gopt.mPrintExcludeMarker THEN Stretches(n) ELSE {}
    BY <2>1 DEF Stretches, ReachedMarked
  <2> QED BY <2>1, <2>2 DEF BlockLaidOut, MarksInv
<1> QED BY <1>1, RenderAlways, PTL

(* coNumber and calloutLineNumbers: the numbers in a block and those of    *)
(* the list below it, which are counted separately, always agree.          *)
THEOREM CallOutsAlwaysMatchTheirList == GSpec => []CallOutsMatchTheirList
<1>1. RenderInv => CallOutsMatchTheirList
  <2> SUFFICES ASSUME RenderInv, NEW n \in JustClosed, ~gopt.mSkipCallouts
               PROVE  /\ Len(files[n].list) = Cardinality(CallOutsIn(files[n].block))
                      /\ \A x \in CallOutsIn(files[n].block) :
                           /\ files[n].block[x].co = Place(x, CallOutsIn(files[n].block))
                           /\ files[n].list[files[n].block[x].co] =
                                <<files[n].block[x].co, files[n].block[x].at>>
    BY DEF CallOutsMatchTheirList
  <2>1. PICK A, m : A = CallOutsIn(codeLines) /\ m = Len(codeLines)
    OBVIOUS
  <2>2. /\ BlockLaidOut /\ files[n].block = codeLines
        /\ Len(files[n].list) = Len(coLines)
        /\ \A i \in 1 .. Len(coLines) : files[n].list[i] = <<i, mCallOuts[coLines[i]]>>
    BY ClosedFile
  <2>3. IsBlock(codeLines) /\ Numbered(codeLines, coLines, mCallOuts)
    BY <2>2 DEF BlockLaidOut, CallOutsInv
  <2>4. m \in Nat /\ A \in SUBSET (1 .. m)
    BY <2>1, <2>3, BlockGrows, KindsGrow
  <2>5. \A x \in A : Place(x, A) \in 1 .. Cardinality(A)
    BY ONLY <2>4, PlaceInRange
  <2>6. /\ Len(coLines) = Cardinality(A)
        /\ \A x \in A : /\ codeLines[x].co = Place(x, A)
                        /\ mCallOuts[coLines[codeLines[x].co]] = codeLines[x].at
    BY <2>1, <2>3 DEF Numbered
  <2>7. ASSUME NEW x \in A
        PROVE  files[n].list[codeLines[x].co] = <<codeLines[x].co, codeLines[x].at>>
    <3>1. codeLines[x].co \in 1 .. Len(coLines)
      BY <2>5, <2>6
    <3> QED BY <2>2, <2>6, <3>1
  <2> QED BY <2>1, <2>2, <2>6, <2>7
<1> QED BY <1>1, RenderAlways, PTL

(* codeLineNumber: the numbers in the header are those of the highlighted  *)
(* lines as long as no other line has been counted or left out.            *)
THEOREM HighlightsAlwaysWithoutGaps == GSpec => []HighlightsWithoutGaps
<1>1. RenderInv => HighlightsWithoutGaps
  <2> SUFFICES ASSUME RenderInv, NEW n \in JustClosed,
                      OfKind(files[n].block, "source") = DOMAIN files[n].block,
                      Shown(n) = Passages(n)
               PROVE  Points(files[n].highlight, HighlightedIn(files[n].block))
    BY DEF HighlightsWithoutGaps, Points
  <2>1. /\ BlockLaidOut /\ files[n].block = codeLines /\ files[n].highlight = highlighted
        /\ Reached = Passages(n) /\ n = current
    BY ClosedFile
  <2>2. Gapless
    BY <2>1 DEF Gapless, Shown
  <2> QED BY <2>1, <2>2 DEF BlockLaidOut, HighlightsInv
<1> QED BY <1>1, RenderAlways, PTL
=============================================================================
