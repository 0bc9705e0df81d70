------------------------ MODULE CppExtractorProofs --------------------------
(***************************************************************************)
(* Proofs about CppExtractor for every alphabet of lines and every length  *)
(* of the file: type correctness, that the recorded spans and callouts lie *)
(* in the kept lines, and that spans nest.                                 *)
(***************************************************************************)
EXTENDS CppExtractor, CountingProofs

LEMMA PopFacts ==
  ASSUME NEW S, NEW s \in Seq(S)
  PROVE  /\ Pop(s) \in Seq(S)
         /\ s # <<>> => Len(Pop(s)) = Len(s) - 1
         /\ Len(Pop(s)) <= Len(s)
         /\ \A i \in 1 .. Len(Pop(s)) : Pop(s)[i] = s[i]
<1>1. CASE s = <<>>
  BY <1>1 DEF Pop
<1>2. CASE s # <<>>
  <2>1. PICK n \in Nat : Len(s) = n + 1
    <3>1. Len(s) \in Nat \ {0}
      BY <1>2, EmptySeq
    <3> QED BY <3>1
  <2>2. \A i \in 1 .. n : s[i] \in S
    BY <2>1, ElementOfSeq
  <2>3. /\ SubSeq(s, 1, n) \in Seq(S)
        /\ Len(SubSeq(s, 1, n)) = IF 1 <= n THEN n - 1 + 1 ELSE 0
        /\ \A i \in 1 .. n - 1 + 1 : SubSeq(s, 1, n)[i] = s[1 + i - 1]
    BY <2>2, SubSeqProperties
  <2>4. Len(SubSeq(s, 1, n)) = n
    BY <2>3
  <2>5. \A i \in 1 .. n : SubSeq(s, 1, n)[i] = s[i]
    <3> TAKE i \in 1 .. n
    <3>1. i \in 1 .. n - 1 + 1 /\ 1 + i - 1 = i
      OBVIOUS
    <3> QED BY <2>3, <3>1
  <2>6. Pop(s) = SubSeq(s, 1, n)
    <3>1. Len(s) - 1 = n
      BY <2>1
    <3> QED BY <1>2, <3>1 DEF Pop
  <2> QED BY <2>1, <2>3, <2>4, <2>5, <2>6
<1> QED BY <1>1, <1>2

LEMMA TopFacts ==
  ASSUME NEW S, NEW s \in Seq(S), s # <<>>
  PROVE  Len(s) \in 1 .. Len(s) /\ Top(s) = s[Len(s)] /\ Top(s) \in S
<1>1. Len(s) \in 1 .. Len(s)
  BY EmptySeq
<1> QED BY <1>1, ElementOfSeq DEF Top

LEMMA ScopeType == \A n \in Names : ReplaceScope[n] \in Names
  BY ScopeAssumption

-----------------------------------------------------------------------------
(* The two ways a line ends, whatever it contained.                        *)
LEMMA KeepType ==
  ASSUME TypeOK, NEW line, NEW sections, Keep(line, sections) \/ Drop(line)
  PROVE  /\ lineNumber' \in Nat
         /\ mFileContents' \in Seq(Nat)
         /\ mHighlightedLines' \in Seq(Nat)
<1>1. LineHighlight(line) \in Seq(Nat)
  BY AppendFacts DEF LineHighlight, TypeOK
<1>2. CASE Keep(line, sections)
  <2>1. Append(LineHighlight(line), lineNumber) \in Seq(Nat)
    BY <1>1, AppendFacts DEF TypeOK
  <2>2. Len(input) + 1 \in Nat
    BY LenProperties DEF TypeOK
  <2> QED BY <1>1, <1>2, <2>1, <2>2, AppendFacts DEF Keep, TypeOK
<1>3. CASE Drop(line)
  BY <1>1, <1>3 DEF Drop, kept, TypeOK
<1> QED BY <1>2, <1>3

LEMMA ReadType ==
  ASSUME TypeOK, NEW line \in Lines, Read(line)
  PROVE  opt' \in Options /\ input' \in Seq(Lines)
  BY AppendFacts DEF Read, TypeOK

LEMMA PushSectionType ==
  ASSUME TypeOK, NEW line \in Lines
  PROVE  PushSection(line) \in Seq({"Included", "Excluded"})
<1> DEFINE S == {"Included", "Excluded"}
<1>1. line.section \in S \cup {"none"}
  BY LinesAssumption DEF LineShape
<1>2. sectionHighlight \in Seq(S)
  BY DEF TypeOK
<1>3. line.section # "none" => Append(sectionHighlight, line.section) \in Seq(S)
  BY <1>1, <1>2, AppendFacts
<1>4. sectionHighlight # <<>> =>
        Append(sectionHighlight, Top(sectionHighlight)) \in Seq(S)
  BY <1>2, TopFacts, AppendFacts
<1> QED BY <1>2, <1>3, <1>4 DEF PushSection

LEMMA ClosedType ==
  ASSUME TypeOK, NEW start \in Nat, NEW name \in Names
  PROVE  Closed(start, name) \in Snippet
<1> DEFINE span == <<start, lineNumber>>
<1>1. span \in Spans
  BY DEF TypeOK, Spans
<1>2. CASE name \in DOMAIN mSnippets
  <2>1. mSnippets[name] \in Snippet
    BY <1>2 DEF TypeOK
  <2>2. Append(mSnippets[name].mLineSpans, span) \in Seq(Spans)
    BY <1>1, <2>1, AppendFacts DEF Snippet
  <2>3. mSnippets[name].mExcludes \cup excludes[name] \in SUBSET Names
    BY <2>1 DEF Snippet, TypeOK
  <2> QED BY <1>2, <2>1, <2>2, <2>3 DEF Closed, Snippet
<1>3. CASE name \notin DOMAIN mSnippets
  <2>1. <<span>> \in Seq(Spans)
    BY <1>1
  <2>2. excludes[name] \in SUBSET Names /\ excludeTexts[name] \in Texts \cup {NoText}
    BY DEF TypeOK
  <2> QED BY <1>3, <2>1, <2>2 DEF Closed, Snippet
<1> QED BY <1>2, <1>3

LEMMA BindSnippetType ==
  ASSUME TypeOK, NEW name \in Names, NEW s \in Snippet,
         mSnippets' = Bind(mSnippets, name, s)
  PROVE  /\ DOMAIN mSnippets' \subseteq Names
         /\ mSnippets' \in [DOMAIN mSnippets' -> Snippet]
<1>1. mSnippets \in [DOMAIN mSnippets -> Snippet] /\ DOMAIN mSnippets \subseteq Names
  BY DEF TypeOK
<1>2. /\ DOMAIN Bind(mSnippets, name, s) = DOMAIN mSnippets \cup {name}
      /\ Bind(mSnippets, name, s) \in [DOMAIN Bind(mSnippets, name, s) -> Snippet]
  BY <1>1 DEF Bind
<1> QED BY <1>1, <1>2

LEMMA TypeStep == TypeOK /\ [Next]_vars => TypeOK'
<1> SUFFICES ASSUME TypeOK, [Next]_vars PROVE TypeOK'
  OBVIOUS
<1> USE DEF vars, kept, marks
<1>1. CASE Open
  BY <1>1 DEF Open, TypeOK
<1>2. ASSUME NEW line \in Lines, ReadLine(line) PROVE TypeOK'
  <2>1. CASE SkipEmptyLine(line)
    BY <2>1, ReadType DEF SkipEmptyLine, TypeOK
  <2>2. CASE OmitLine(line)
    BY <2>2, ReadType, KeepType DEF OmitLine, TypeOK
  <2>3. CASE StartBlockComment(line)
    BY <2>3, ReadType, KeepType DEF StartBlockComment, TypeOK
  <2>4. CASE SkipBlockComment(line)
    BY <2>4, ReadType DEF SkipBlockComment, TypeOK
  <2>5. CASE KeepCode(line)
    BY <2>5, ReadType, KeepType DEF KeepCode, Examined, TypeOK
  <2>6. CASE ReadCallOut(line)
    <3>1. Len(input) + 1 \in Nat /\ lineNumber \in Nat
      BY LenProperties DEF TypeOK
    <3> DEFINE new == Bind(mCallOuts, lineNumber, Len(input) + 1)
    <3>2. DOMAIN new = DOMAIN mCallOuts \cup {lineNumber} /\ new \in [DOMAIN new -> Nat]
      BY <3>1 DEF Bind, TypeOK
    <3>3. /\ DOMAIN mCallOuts' \subseteq Nat
          /\ mCallOuts' \in [DOMAIN mCallOuts' -> Nat]
      BY <2>6, <3>1, <3>2 DEF ReadCallOut, TypeOK
    <3> QED BY <2>6, <3>3, ReadType, KeepType DEF ReadCallOut, Examined, TypeOK
  <2>7. CASE CallOutOverflow(line)
    BY <2>7, ReadType, KeepType DEF CallOutOverflow, Examined, TypeOK
  <2>8. CASE StartSnippet(line)
    <3>1. line \in LineShape /\ line.name \in Names
      BY <2>8, LinesAssumption DEF StartSnippet, LineShape
    <3> DEFINE name == ReplaceScope[line.name]
    <3>2. name \in Names
      BY <3>1, ScopeType
    <3>3. snippets' \in Seq(Nat \X Names)
      BY <2>8, <3>2, AppendFacts DEF StartSnippet, TypeOK
    <3>4. excludes' \in [Names -> SUBSET Names]
      BY <2>8, <3>1, <3>2 DEF StartSnippet, TypeOK, LineShape
    <3>5. /\ excludeTexts' \in [Names -> Texts \cup {NoText}]
          /\ pc' \in {pc, "aborted"}
      BY <2>8, <3>1, <3>2 DEF StartSnippet, TypeOK, LineShape
    <3>6. Keep(line, PushSection(line)) \/ Drop(line)
      BY <2>8 DEF StartSnippet, KeepDefinition
    <3>7. sectionHighlight' \in Seq({"Included", "Excluded"})
      BY <2>8, PushSectionType DEF StartSnippet
    <3>8. Read(line) /\ UNCHANGED <<status, mHasOmittedLines, mCallOuts, mSnippets>>
      BY <2>8 DEF StartSnippet, Examined
    <3>9. opt' \in Options /\ input' \in Seq(Lines)
      BY <3>8, ReadType
    <3>10. /\ lineNumber' \in Nat
           /\ mFileContents' \in Seq(Nat)
           /\ mHighlightedLines' \in Seq(Nat)
      BY <3>6, KeepType
    <3> QED BY <3>3, <3>4, <3>5, <3>7, <3>8, <3>9, <3>10 DEF TypeOK
  <2>9. CASE StartUnnamed(line)
    <3>1. snippets' \in Seq(Nat \X Names)
      BY <2>9, NamesAssumption, AppendFacts DEF StartUnnamed, TypeOK
    <3>2. sectionHighlight' \in Seq({"Included", "Excluded"})
      BY <2>9, PushSectionType DEF StartUnnamed
    <3> QED BY <2>9, <3>1, <3>2, ReadType, KeepType DEF StartUnnamed, Examined, TypeOK
  <2>10. CASE EndSnippet(line)
    <3>1. Top(snippets) \in Nat \X Names
      BY <2>10, TopFacts DEF EndSnippet, TypeOK
    <3>2. Closed(Top(snippets)[1], Top(snippets)[2]) \in Snippet
      BY <3>1, ClosedType
    <3>3. /\ DOMAIN mSnippets' \subseteq Names
          /\ mSnippets' \in [DOMAIN mSnippets' -> Snippet]
      BY <2>10, <3>1, <3>2, BindSnippetType DEF EndSnippet
    <3>4. /\ snippets' \in Seq(Nat \X Names)
          /\ sectionHighlight' \in Seq({"Included", "Excluded"})
      BY <2>10, PopFacts DEF EndSnippet, TypeOK
    <3>5. Keep(line, Pop(sectionHighlight)) \/ Drop(line)
      BY <2>10 DEF EndSnippet, KeepDefinition
    <3> QED BY <2>10, <3>3, <3>4, <3>5, ReadType, KeepType DEF EndSnippet, Examined, TypeOK
  <2>11. CASE UnmatchedEnd(line)
    <3>1. sectionHighlight' \in Seq({"Included", "Excluded"})
      BY <2>11, PopFacts DEF UnmatchedEnd, TypeOK
    <3>2. Keep(line, Pop(sectionHighlight)) \/ Drop(line)
      BY <2>11 DEF UnmatchedEnd, KeepDefinition
    <3> QED BY <2>11, <3>1, <3>2, ReadType, KeepType DEF UnmatchedEnd, Examined, TypeOK
  <2> QED
    BY <1>2, <2>1, <2>2, <2>3, <2>4, <2>5, <2>6, <2>7, <2>8, <2>9, <2>10, <2>11
    DEF ReadLine
<1>3. CASE WrongNesting
  BY <1>3 DEF WrongNesting, TypeOK
<1>4. CASE Finish
  <2> DEFINE all == [mLineSpans |-> <<<<0, Len(mFileContents)>>>>,
                     mExcludes |-> {}, mTextIfExcluded |-> NoText]
  <2>1. all \in Snippet
    <3>1. <<0, Len(mFileContents)>> \in Spans
      BY LenProperties DEF TypeOK, Spans
    <3> QED BY <3>1 DEF Snippet
  <2>2. /\ DOMAIN mSnippets' \subseteq Names
        /\ mSnippets' \in [DOMAIN mSnippets' -> Snippet]
    BY <1>4, <2>1, NamesAssumption, BindSnippetType DEF Finish, EmplaceAll, TypeOK
  <2> QED BY <1>4, <2>2 DEF Finish, TypeOK
<1>5. CASE UNCHANGED vars
  BY <1>5 DEF TypeOK
<1> QED BY <1>1, <1>2, <1>3, <1>4, <1>5 DEF Next, Returned

LEMMA TypeInit == Init => TypeOK
<1>1. DOMAIN <<>> = {} /\ <<>> \in [{} -> Nat] /\ <<>> \in [{} -> Snippet]
  OBVIOUS
<1> SUFFICES ASSUME Init PROVE TypeOK
  OBVIOUS
<1>2. /\ DOMAIN mCallOuts \subseteq Nat
      /\ mCallOuts \in [DOMAIN mCallOuts -> Nat]
  BY <1>1 DEF Init
<1>3. /\ DOMAIN mSnippets \subseteq Names
      /\ mSnippets \in [DOMAIN mSnippets -> Snippet]
  BY <1>1 DEF Init
<1>4. opt \in Options
  BY OptionsAssumption DEF Init
<1>5. /\ input \in Seq(Lines)
      /\ snippets \in Seq(Nat \X Names)
      /\ sectionHighlight \in Seq({"Included", "Excluded"})
      /\ mFileContents \in Seq(Nat)
      /\ mHighlightedLines \in Seq(Nat)
  BY EmptySeq DEF Init
<1>6. /\ excludes \in [Names -> SUBSET Names]
      /\ excludeTexts \in [Names -> Texts \cup {NoText}]
  BY DEF Init
<1>7. /\ pc \in {"opening", "reading", "ok", "failed", "aborted"}
      /\ status \in {"Normal", "BlockComment"}
      /\ lineNumber \in Nat
      /\ mHasOmittedLines \in BOOLEAN
  BY DEF Init
<1> QED BY <1>2, <1>3, <1>4, <1>5, <1>6, <1>7 DEF TypeOK

(* Every variable always has the type that TypeOK gives it.                *)
THEOREM TypeCorrect == Spec => []TypeOK
  BY TypeInit, TypeStep, PTL DEF Spec

-----------------------------------------------------------------------------
(* The inductive invariant.  The kept lines are counted by lineNumber, and *)
(* a callout is filed under the line stored with it ...                    *)
LinesInv ==
    /\ lineNumber = Len(mFileContents)
    /\ CallOutsOnTheirLine
    /\ \A k \in DOMAIN mCallOuts : mCallOuts[k] \in 1 .. Len(input)

(* ... the open starts are in order, and each of them lies at the border   *)
(* of a recorded span or outside of it, never inside.  With that the span  *)
(* recorded for the top of the stack cannot cut an older one.              *)
OpensInOrder ==
    \A i \in 1 .. Len(snippets) :
        /\ snippets[i][1] <= lineNumber
        /\ \A j \in 1 .. i : snippets[j][1] <= snippets[i][1]

OpensOutsideSpans ==
    \A s \in AllSpans : \A i \in 1 .. Len(snippets) :
        s[2] <= snippets[i][1] \/ snippets[i][1] <= s[1]

SpansClosed == \A s \in AllSpans : s[1] <= s[2] /\ s[2] <= lineNumber

SpansInv == OpensInOrder /\ OpensOutsideSpans /\ SpansClosed /\ NestedSpans

IInv == TypeOK /\ LinesInv /\ SpansInv

(* Keeping or dropping a line leaves what is stored where it is.           *)
LEMMA ContentsGrow ==
  ASSUME TypeOK, LinesInv, NEW line, NEW sections, Keep(line, sections) \/ Drop(line)
  PROVE  /\ lineNumber' = Len(mFileContents')
         /\ lineNumber <= lineNumber'
         /\ Len(mFileContents) <= Len(mFileContents')
         /\ \A k \in 1 .. Len(mFileContents) : mFileContents'[k] = mFileContents[k]
<1>1. mFileContents \in Seq(Nat) /\ Len(input) + 1 \in Nat /\ Len(mFileContents) \in Nat
  BY LenProperties DEF TypeOK
<1>2. CASE Keep(line, sections)
  <2>1. mFileContents' = Append(mFileContents, Len(input) + 1) /\ lineNumber' = lineNumber + 1
    BY <1>2 DEF Keep
  <2>2. /\ Len(mFileContents') = Len(mFileContents) + 1
        /\ \A k \in 1 .. Len(mFileContents) : mFileContents'[k] = mFileContents[k]
    BY <1>1, <2>1, AppendFacts
  <2> QED BY <1>1, <2>1, <2>2 DEF LinesInv
<1>3. CASE Drop(line)
  BY <1>1, <1>3 DEF Drop, kept, LinesInv
<1> QED BY <1>2, <1>3

(* The callouts filed so far stay on their lines.                          *)
LEMMA CallOutsStay ==
  ASSUME TypeOK, LinesInv, NEW line \in Lines, Read(line), UNCHANGED mCallOuts,
         lineNumber' = Len(mFileContents'),
         Len(mFileContents) <= Len(mFileContents'), Len(mFileContents') \in Nat,
         \A k \in 1 .. Len(mFileContents) : mFileContents'[k] = mFileContents[k]
  PROVE  LinesInv'
<1>1. /\ Len(input') = Len(input) + 1
      /\ \A i \in 1 .. Len(input) : input'[i] = input[i]
      /\ Len(input) \in Nat
  BY AppendFacts, LenProperties DEF Read, TypeOK
<1>2. ASSUME NEW k \in DOMAIN mCallOuts
      PROVE  /\ k < Len(mFileContents')
             /\ mFileContents'[k + 1] = mCallOuts[k]
             /\ input'[mCallOuts[k]].callOut = "number"
             /\ mCallOuts[k] \in 1 .. Len(input')
  <2>1. k \in Nat /\ Len(mFileContents) \in Nat
    BY LenProperties DEF TypeOK
  <2>2. k < Len(mFileContents) /\ mFileContents[k + 1] = mCallOuts[k]
    BY DEF LinesInv, CallOutsOnTheirLine
  <2>3. k + 1 \in 1 .. Len(mFileContents)
    BY <2>1, <2>2
  <2>4. mCallOuts[k] \in 1 .. Len(input) /\ input[mCallOuts[k]].callOut = "number"
    BY DEF LinesInv, CallOutsOnTheirLine
  <2> QED BY <1>1, <2>1, <2>2, <2>3, <2>4
<1> QED BY <1>2 DEF LinesInv, CallOutsOnTheirLine

LEMMA CallOutFiled ==
  ASSUME TypeOK, LinesInv, NEW line \in Lines, ReadCallOut(line)
  PROVE  LinesInv'
<1> DEFINE n == Len(input) + 1
<1>1. /\ input' = Append(input, line) /\ line.callOut = "number"
      /\ mFileContents' = Append(mFileContents, n) /\ lineNumber' = lineNumber + 1
      /\ mCallOuts' = Bind(mCallOuts, lineNumber, n)
  BY DEF ReadCallOut, Examined, Read, Keep
<1>2. /\ Len(input) \in Nat /\ Len(mFileContents) \in Nat /\ n \in Nat
      /\ lineNumber = Len(mFileContents)
  BY LenProperties DEF TypeOK, LinesInv
<1>3. /\ Len(input') = n /\ input'[n] = line
      /\ \A i \in 1 .. Len(input) : input'[i] = input[i]
  BY <1>1, AppendFacts DEF TypeOK
<1>4. /\ Len(mFileContents') = Len(mFileContents) + 1
      /\ mFileContents'[lineNumber + 1] = n
      /\ \A i \in 1 .. Len(mFileContents) : mFileContents'[i] = mFileContents[i]
  BY <1>1, <1>2, AppendFacts DEF TypeOK
<1>5. ASSUME NEW k \in DOMAIN mCallOuts'
      PROVE  /\ k < Len(mFileContents')
             /\ mFileContents'[k + 1] = mCallOuts'[k]
             /\ input'[mCallOuts'[k]].callOut = "number"
             /\ mCallOuts'[k] \in 1 .. Len(input')
  <2>1. CASE k = lineNumber
    <3>1. mCallOuts'[k] = n
      BY <1>1, <2>1 DEF Bind
    <3> QED BY <1>1, <1>2, <1>3, <1>4, <2>1, <3>1
  <2>2. CASE k # lineNumber
    <3>1. k \in DOMAIN mCallOuts /\ mCallOuts'[k] = mCallOuts[k]
      BY <1>1, <2>2 DEF Bind
    <3>2. /\ k \in Nat /\ k < Len(mFileContents)
          /\ mFileContents[k + 1] = mCallOuts[k]
          /\ mCallOuts[k] \in 1 .. Len(input)
          /\ input[mCallOuts[k]].callOut = "number"
      BY <3>1 DEF LinesInv, CallOutsOnTheirLine, TypeOK
    <3>3. k + 1 \in 1 .. Len(mFileContents)
      BY <1>2, <3>2
    <3> QED BY <1>2, <1>3, <1>4, <3>1, <3>2, <3>3
  <2> QED BY <2>1, <2>2
<1> QED BY <1>1, <1>2, <1>4, <1>5 DEF LinesInv, CallOutsOnTheirLine

-----------------------------------------------------------------------------
LEMMA SpanType == TypeOK => \A s \in AllSpans : s[1] \in Nat /\ s[2] \in Nat
<1> SUFFICES ASSUME TypeOK, NEW n \in DOMAIN mSnippets, NEW s \in SpansOf(n)
             PROVE  s[1] \in Nat /\ s[2] \in Nat
  BY DEF AllSpans
<1>1. mSnippets[n].mLineSpans \in Seq(Spans)
  BY DEF TypeOK, Snippet
<1>2. s \in Spans
  BY <1>1, ElementOfSeq, LenProperties DEF SpansOf
<1> QED BY <1>2 DEF Spans

(* Binding a snippet whose spans are those of the snippet it replaces, if  *)
(* any, and one more adds at most that one to the recorded spans.          *)
LEMMA OneSpanRecorded ==
  ASSUME TypeOK, NEW name \in Names, NEW x, NEW span,
         mSnippets' = Bind(mSnippets, name, x),
         \/ x.mLineSpans = <<span>>
         \/ /\ name \in DOMAIN mSnippets
            /\ x.mLineSpans = Append(mSnippets[name].mLineSpans, span)
  PROVE  AllSpans' \subseteq AllSpans \cup {span}
<1> SUFFICES ASSUME NEW n \in DOMAIN mSnippets', NEW s \in SpansOf(n)'
             PROVE  s \in AllSpans \cup {span}
  BY DEF AllSpans
<1>1. CASE n # name
  <2>1. n \in DOMAIN mSnippets /\ mSnippets'[n] = mSnippets[n]
    BY <1>1 DEF Bind
  <2> QED BY <2>1 DEF SpansOf, AllSpans
<1>2. CASE n = name /\ x.mLineSpans = <<span>>
  <2>1. mSnippets'[n] = x
    BY <1>2 DEF Bind
  <2>2. PICK i \in DOMAIN <<span>> : s = <<span>>[i]
    BY <1>2, <2>1 DEF SpansOf
  <2> QED BY <2>2
<1>3. CASE /\ n = name /\ name \in DOMAIN mSnippets
           /\ x.mLineSpans = Append(mSnippets[name].mLineSpans, span)
  <2> DEFINE old == mSnippets[name].mLineSpans
  <2>1. mSnippets'[n] = x
    BY <1>3 DEF Bind
  <2>2. old \in Seq(Spans) /\ Len(old) \in Nat /\ DOMAIN old = 1 .. Len(old)
    BY <1>3, LenProperties DEF TypeOK, Snippet
  <2>3. PICK i \in DOMAIN Append(old, span) : s = Append(old, span)[i]
    BY <1>3, <2>1 DEF SpansOf
  <2>4. DOMAIN Append(old, span) = 1 .. Len(old) + 1
    BY <2>2
  <2>5. CASE i = Len(old) + 1
    <3>1. s = span
      BY <2>2, <2>3, <2>5
    <3> QED BY <3>1
  <2>6. CASE i # Len(old) + 1
    <3>1. i \in 1 .. Len(old)
      BY <2>2, <2>4, <2>6
    <3>2. s = old[i]
      BY <2>2, <2>3, <3>1
    <3> QED BY <1>3, <2>2, <3>1, <3>2 DEF AllSpans, SpansOf
  <2> QED BY <2>5, <2>6
<1> QED BY <1>1, <1>2, <1>3

(* One more span that starts outside of all recorded ones and ends at the  *)
(* last kept line is either behind each of them or around it.              *)
LEMMA SpanFits ==
  ASSUME TypeOK, SpansInv, NEW b \in Nat, b <= lineNumber,
         \A s \in AllSpans : s[2] <= b \/ b <= s[1],
         AllSpans' \subseteq AllSpans \cup {<<b, lineNumber>>},
         lineNumber' \in Nat, lineNumber <= lineNumber'
  PROVE  SpansClosed' /\ NestedSpans'
<1>1. lineNumber \in Nat
  BY DEF TypeOK
<1>2. \A s \in AllSpans : /\ s[1] \in Nat /\ s[2] \in Nat
                          /\ s[1] <= s[2] /\ s[2] <= lineNumber
  BY SpanType DEF SpansInv, SpansClosed
<1>3. SpansClosed'
  <2> SUFFICES ASSUME NEW s \in AllSpans' PROVE s[1] <= s[2] /\ s[2] <= lineNumber'
    BY DEF SpansClosed
  <2>1. CASE s \in AllSpans
    BY <1>1, <1>2, <2>1
  <2>2. CASE s = <<b, lineNumber>>
    BY <1>1, <2>2
  <2> QED BY <2>1, <2>2
<1>4. NestedSpans'
  <2> SUFFICES ASSUME NEW s \in AllSpans', NEW t \in AllSpans'
               PROVE  \/ s[2] <= t[1] \/ t[2] <= s[1]
                      \/ s[1] <= t[1] /\ t[2] <= s[2]
                      \/ t[1] <= s[1] /\ s[2] <= t[2]
    BY DEF NestedSpans
  <2>1. CASE s \in AllSpans /\ t \in AllSpans
    BY <2>1 DEF SpansInv, NestedSpans
  <2>2. CASE s = <<b, lineNumber>> /\ t \in AllSpans
    BY <1>1, <1>2, <2>2
  <2>3. CASE t = <<b, lineNumber>> /\ s \in AllSpans
    BY <1>1, <1>2, <2>3
  <2>4. CASE s = <<b, lineNumber>> /\ t = <<b, lineNumber>>
    BY <1>1, <2>4
  <2> QED BY <2>1, <2>2, <2>3, <2>4
<1> QED BY <1>3, <1>4

LEMMA SpansKept ==
  ASSUME TypeOK, SpansInv, UNCHANGED <<snippets, mSnippets>>,
         lineNumber' \in Nat, lineNumber <= lineNumber'
  PROVE  SpansInv'
<1>1. AllSpans' = AllSpans
  BY DEF AllSpans, SpansOf
<1>2. lineNumber \in Nat /\ \A s \in AllSpans : s[1] \in Nat /\ s[2] \in Nat
  BY SpanType DEF TypeOK
<1>3. SpansClosed' /\ NestedSpans' /\ OpensOutsideSpans'
  BY <1>1, <1>2 DEF SpansInv, SpansClosed, NestedSpans, OpensOutsideSpans
<1>4. OpensInOrder'
  <2>1. \A i \in 1 .. Len(snippets) : snippets[i][1] \in Nat
    BY ElementOfSeq DEF TypeOK
  <2> QED BY <1>2, <2>1 DEF SpansInv, OpensInOrder
<1> QED BY <1>3, <1>4 DEF SpansInv

(* A start opens at the end of what is kept, behind every recorded span.   *)
LEMMA SpansPushed ==
  ASSUME TypeOK, SpansInv, NEW name \in Names,
         snippets' = Append(snippets, <<lineNumber, name>>), UNCHANGED mSnippets,
         lineNumber' \in Nat, lineNumber <= lineNumber'
  PROVE  SpansInv'
<1> DEFINE n == Len(snippets)
<1>1. /\ lineNumber \in Nat /\ n \in Nat
      /\ \A i \in 1 .. n : snippets[i] \in Nat \X Names
  BY ElementOfSeq, LenProperties DEF TypeOK
<1>2. /\ Len(snippets') = n + 1
      /\ snippets'[n + 1] = <<lineNumber, name>>
      /\ \A i \in 1 .. n : snippets'[i] = snippets[i]
  <2>1. <<lineNumber, name>> \in Nat \X Names
    BY <1>1
  <2> QED BY <2>1, AppendFacts DEF TypeOK
<1>3. AllSpans' = AllSpans
  BY DEF AllSpans, SpansOf
<1>4. \A s \in AllSpans : /\ s[1] \in Nat /\ s[2] \in Nat
                          /\ s[1] <= s[2] /\ s[2] <= lineNumber
  BY SpanType DEF SpansInv, SpansClosed
<1>5. SpansClosed' /\ NestedSpans'
  BY <1>1, <1>3, <1>4 DEF SpansInv, SpansClosed, NestedSpans
<1>6. \A i \in 1 .. n + 1 : i = n + 1 \/ i \in 1 .. n
  BY <1>1
<1>7. OpensInOrder'
  <2> SUFFICES ASSUME NEW i \in 1 .. n + 1
               PROVE  /\ snippets'[i][1] <= lineNumber'
                      /\ \A j \in 1 .. i : snippets'[j][1] <= snippets'[i][1]
    BY <1>2 DEF OpensInOrder
  <2>1. CASE i \in 1 .. n
    <3>1. \A j \in 1 .. i : j \in 1 .. n
      BY <1>1, <2>1
    <3>2. /\ snippets[i][1] <= lineNumber
          /\ \A j \in 1 .. i : snippets[j][1] <= snippets[i][1]
      BY <2>1 DEF SpansInv, OpensInOrder
    <3> QED BY <1>1, <1>2, <2>1, <3>1, <3>2
  <2>2. CASE i = n + 1
    <3>1. \A j \in 1 .. n : snippets[j][1] <= lineNumber
      BY DEF SpansInv, OpensInOrder
    <3>2. snippets'[i][1] = lineNumber
      BY <1>2, <2>2
    <3>3. \A j \in 1 .. i : snippets'[j][1] <= lineNumber
      BY <1>1, <1>2, <1>6, <2>2, <3>1
    <3> QED BY <3>2, <3>3
  <2> QED BY <1>6, <2>1, <2>2
<1>8. OpensOutsideSpans'
  <2> SUFFICES ASSUME NEW s \in AllSpans, NEW i \in 1 .. n + 1
               PROVE  s[2] <= snippets'[i][1] \/ snippets'[i][1] <= s[1]
    BY <1>2, <1>3 DEF OpensOutsideSpans
  <2>1. CASE i \in 1 .. n
    BY <1>2, <2>1 DEF SpansInv, OpensOutsideSpans
  <2>2. CASE i = n + 1
    BY <1>2, <1>4, <2>2
  <2> QED BY <1>6, <2>1, <2>2
<1> QED BY <1>5, <1>7, <1>8 DEF SpansInv

(* An end records the span from the top of the stack to here: the starts   *)
(* left on the stack are not behind the one it takes away.                 *)
LEMMA SpansPopped ==
  ASSUME TypeOK, SpansInv, snippets # <<>>, snippets' = Pop(snippets),
         mSnippets' = Bind(mSnippets, Top(snippets)[2],
                           Closed(Top(snippets)[1], Top(snippets)[2])),
         lineNumber' \in Nat, lineNumber <= lineNumber'
  PROVE  SpansInv'
<1> DEFINE n == Len(snippets)
           b == Top(snippets)[1]
           name == Top(snippets)[2]
<1>1. n \in 1 .. n /\ Top(snippets) = snippets[n] /\ Top(snippets) \in Nat \X Names
  BY TopFacts DEF TypeOK
<1>2. b \in Nat /\ name \in Names /\ lineNumber \in Nat /\ n \in Nat
  BY <1>1, LenProperties DEF TypeOK
<1>3. /\ Len(snippets') = n - 1
      /\ \A i \in 1 .. n - 1 : snippets'[i] = snippets[i]
      /\ \A i \in 1 .. n - 1 : i \in 1 .. n
  <2>1. snippets \in Seq(Nat \X Names)
    BY DEF TypeOK
  <2>2. /\ Len(Pop(snippets)) = Len(snippets) - 1
        /\ \A i \in 1 .. Len(Pop(snippets)) : Pop(snippets)[i] = snippets[i]
    BY <2>1, PopFacts
  <2> QED BY <1>2, <2>2
<1>4. AllSpans' \subseteq AllSpans \cup {<<b, lineNumber>>}
  <2> DEFINE x == Closed(b, name)
  <2>1. CASE name \in DOMAIN mSnippets
    <3>1. mSnippets[name] \in Snippet
      BY <2>1 DEF TypeOK
    <3>2. x.mLineSpans = Append(mSnippets[name].mLineSpans, <<b, lineNumber>>)
      BY <2>1, <3>1 DEF Closed, Snippet
    <3>3. mSnippets' = Bind(mSnippets, name, x)
      OBVIOUS
    <3> HIDE DEF x, b, name
    <3> QED BY <1>2, <2>1, <3>2, <3>3, OneSpanRecorded
  <2>2. CASE name \notin DOMAIN mSnippets
    <3>1. x.mLineSpans = <<<<b, lineNumber>>>>
      BY <2>2 DEF Closed
    <3>2. mSnippets' = Bind(mSnippets, name, x)
      OBVIOUS
    <3> HIDE DEF x, b, name
    <3> QED BY <1>2, <3>1, <3>2, OneSpanRecorded
  <2> QED BY <2>1, <2>2
<1>5. b <= lineNumber /\ \A s \in AllSpans : s[2] <= b \/ b <= s[1]
  BY <1>1 DEF SpansInv, OpensInOrder, OpensOutsideSpans
<1>6. SpansClosed' /\ NestedSpans'
  BY <1>2, <1>4, <1>5, SpanFits
<1>7. \A i \in 1 .. n - 1 : /\ snippets[i][1] \in Nat
                            /\ snippets[i][1] <= lineNumber'
                            /\ snippets[i][1] <= b
                            /\ \A j \in 1 .. i : snippets[j][1] <= snippets[i][1]
  <2>1. \A i \in 1 .. n : snippets[i] \in Nat \X Names
    BY ElementOfSeq DEF TypeOK
  <2>2. \A i \in 1 .. n : /\ snippets[i][1] <= lineNumber
                          /\ \A j \in 1 .. i : snippets[j][1] <= snippets[i][1]
    BY DEF SpansInv, OpensInOrder
  <2> TAKE i \in 1 .. n - 1
  <2>3. i \in 1 .. n
    BY <1>2
  <2>4. snippets[i][1] \in Nat /\ snippets[i][1] <= lineNumber
    BY <2>1, <2>2, <2>3
  <2>5. snippets[i][1] <= lineNumber'
    BY <1>2, <2>4
  <2>6. snippets[i][1] <= b
    BY <1>1, <1>2, <2>2
  <2> QED BY <2>2, <2>3, <2>4, <2>5, <2>6
<1>8. OpensInOrder'
  <2> SUFFICES ASSUME NEW i \in 1 .. n - 1
               PROVE  /\ snippets'[i][1] <= lineNumber'
                      /\ \A j \in 1 .. i : snippets'[j][1] <= snippets'[i][1]
    BY <1>3 DEF OpensInOrder
  <2>1. \A j \in 1 .. i : j \in 1 .. n - 1
    BY <1>2
  <2>2. snippets'[i][1] <= lineNumber'
    BY <1>3, <1>7
  <2>3. \A j \in 1 .. i : snippets'[j][1] <= snippets'[i][1]
    BY <1>3, <1>7, <2>1
  <2> QED BY <2>2, <2>3
<1>9. OpensOutsideSpans'
  <2> SUFFICES ASSUME NEW s \in AllSpans', NEW i \in 1 .. n - 1
               PROVE  s[2] <= snippets'[i][1] \/ snippets'[i][1] <= s[1]
    BY <1>3 DEF OpensOutsideSpans
  <2>1. CASE s \in AllSpans
    BY <1>3, <2>1 DEF SpansInv, OpensOutsideSpans
  <2>2. CASE s = <<b, lineNumber>>
    BY <1>3, <1>7, <2>2
  <2> QED BY <1>4, <2>1, <2>2
<1> QED BY <1>6, <1>8, <1>9 DEF SpansInv

(* The implicit snippet all starts before everything.                      *)
LEMMA AllFits ==
  ASSUME TypeOK, LinesInv, SpansInv, Finish
  PROVE  SpansInv'
<1>1. lineNumber' = lineNumber /\ snippets' = snippets /\ snippets = <<>>
  BY DEF Finish, kept, marks
<1>2. lineNumber \in Nat /\ lineNumber = Len(mFileContents) /\ Len(snippets) = 0
  BY <1>1, EmptySeq DEF TypeOK, LinesInv
<1>3. CASE "all" \in DOMAIN mSnippets
  <2>1. mSnippets' = mSnippets
    BY <1>3 DEF Finish, EmplaceAll
  <2> QED BY <1>1, <1>2, <2>1, SpansKept
<1>4. CASE "all" \notin DOMAIN mSnippets
  <2>1. AllSpans' \subseteq AllSpans \cup {<<0, lineNumber>>}
    BY <1>2, <1>4, NamesAssumption, OneSpanRecorded DEF Finish, EmplaceAll
  <2>2. \A s \in AllSpans : s[2] <= 0 \/ 0 <= s[1]
    BY SpanType
  <2>3. SpansClosed' /\ NestedSpans'
    BY <1>1, <1>2, <2>1, <2>2, SpanFits
  <2>4. OpensInOrder' /\ OpensOutsideSpans'
    BY <1>1, <1>2 DEF OpensInOrder, OpensOutsideSpans
  <2> QED BY <2>3, <2>4 DEF SpansInv
<1> QED BY <1>3, <1>4

-----------------------------------------------------------------------------
LEMMA IInvInit == Init => IInv
<1> SUFFICES ASSUME Init PROVE IInv
  OBVIOUS
<1>1. TypeOK
  BY TypeInit
<1>2. /\ DOMAIN mCallOuts = {} /\ Len(snippets) = 0
      /\ lineNumber = 0 /\ Len(mFileContents) = 0
  BY EmptySeq DEF Init
<1>3. AllSpans = {}
  BY DEF Init, AllSpans, SpansOf
<1> QED BY <1>1, <1>2, <1>3
        DEF IInv, LinesInv, CallOutsOnTheirLine, SpansInv, OpensInOrder,
            OpensOutsideSpans, SpansClosed, NestedSpans

(* A line that files no callout: its end decides about the stored lines.   *)
LEMMA LinesStep ==
  ASSUME TypeOK, TypeOK', LinesInv, NEW line \in Lines, Read(line), UNCHANGED mCallOuts,
         \/ \E sections : Keep(line, sections)
         \/ Drop(line)
         \/ UNCHANGED kept
  PROVE  LinesInv' /\ lineNumber <= lineNumber'
<1>1. /\ lineNumber' = Len(mFileContents')
      /\ lineNumber <= lineNumber'
      /\ Len(mFileContents) <= Len(mFileContents')
      /\ \A k \in 1 .. Len(mFileContents) : mFileContents'[k] = mFileContents[k]
  <2>1. CASE \E sections : Keep(line, sections)
    BY <2>1, ContentsGrow
  <2>2. CASE Drop(line)
    <3> DEFINE none == <<>>
    <3>1. Keep(line, none) \/ Drop(line)
      BY <2>2
    <3> QED BY <3>1, ContentsGrow
  <2>3. CASE UNCHANGED kept
    BY <2>3, LenProperties DEF kept, LinesInv, TypeOK
  <2> QED BY <2>1, <2>2, <2>3
<1>2. Len(mFileContents') \in Nat
  BY LenProperties DEF TypeOK
<1> QED BY <1>1, <1>2, CallOutsStay

LEMMA IInvStep == IInv /\ [Next]_vars => IInv'
<1> SUFFICES ASSUME IInv, [Next]_vars PROVE IInv'
  OBVIOUS
<1>1. TypeOK /\ LinesInv /\ SpansInv /\ TypeOK'
  BY TypeStep DEF IInv
<1>2. lineNumber \in Nat /\ lineNumber' \in Nat /\ lineNumber <= lineNumber
  BY <1>1 DEF TypeOK
<1>3. CASE UNCHANGED <<input, kept, marks, mCallOuts, mSnippets>>
  <2>1. SpansInv'
    BY <1>1, <1>2, <1>3, SpansKept DEF kept, marks
  <2>2. LinesInv'
    BY <1>1, <1>3 DEF kept, LinesInv, CallOutsOnTheirLine
  <2> QED BY <1>1, <2>1, <2>2 DEF IInv
<1>4. ASSUME NEW line \in Lines, ReadLine(line) PROVE IInv'
  <2>1. CASE \/ SkipEmptyLine(line) \/ OmitLine(line) \/ StartBlockComment(line)
             \/ SkipBlockComment(line) \/ KeepCode(line) \/ CallOutOverflow(line)
    <3>1. /\ Read(line)
          /\ UNCHANGED <<mCallOuts, snippets, mSnippets>>
          /\ \/ \E sections : Keep(line, sections)
             \/ Drop(line)
             \/ UNCHANGED kept
      BY <2>1 DEF SkipEmptyLine, OmitLine, StartBlockComment, SkipBlockComment,
                  KeepCode, CallOutOverflow, Examined, marks
    <3>2. LinesInv' /\ lineNumber <= lineNumber'
      BY <1>1, <3>1, LinesStep
    <3>3. SpansInv'
      BY <1>1, <1>2, <3>1, <3>2, SpansKept
    <3> QED BY <1>1, <3>2, <3>3 DEF IInv
  <2>2. CASE ReadCallOut(line)
    <3>1. LinesInv'
      BY <1>1, <2>2, CallOutFiled
    <3>2. UNCHANGED <<snippets, mSnippets>> /\ lineNumber' = lineNumber + 1
      BY <2>2 DEF ReadCallOut, Keep, marks
    <3>3. lineNumber <= lineNumber'
      BY <1>2, <3>2
    <3>4. SpansInv'
      BY <1>1, <1>2, <3>2, <3>3, SpansKept
    <3> QED BY <1>1, <3>1, <3>4 DEF IInv
  <2>3. CASE StartSnippet(line) \/ StartUnnamed(line)
    <3>1. /\ Read(line) /\ UNCHANGED <<mCallOuts, mSnippets>>
          /\ \/ \E sections : Keep(line, sections)
             \/ Drop(line)
             \/ UNCHANGED kept
      BY <2>3 DEF StartSnippet, StartUnnamed, Examined, KeepDefinition
    <3>2. LinesInv' /\ lineNumber <= lineNumber'
      BY <1>1, <3>1, LinesStep
    <3>3. PICK name \in Names : snippets' = Append(snippets, <<lineNumber, name>>)
      <4>1. CASE StartSnippet(line)
        <5>1. line.name \in Names
          BY <4>1, LinesAssumption DEF StartSnippet, LineShape
        <5> QED BY <4>1, <5>1, ScopeType DEF StartSnippet
      <4>2. CASE StartUnnamed(line)
        BY <4>2, NamesAssumption DEF StartUnnamed
      <4> QED BY <2>3, <4>1, <4>2
    <3>4. SpansInv'
      BY <1>1, <1>2, <3>1, <3>2, <3>3, SpansPushed
    <3> QED BY <1>1, <3>2, <3>4 DEF IInv
  <2>4. CASE EndSnippet(line) \/ UnmatchedEnd(line)
    <3>1. /\ Read(line) /\ UNCHANGED mCallOuts
          /\ \/ \E sections : Keep(line, sections)
             \/ Drop(line)
             \/ UNCHANGED kept
      BY <2>4 DEF EndSnippet, UnmatchedEnd, Examined, KeepDefinition
    <3>2. LinesInv' /\ lineNumber <= lineNumber'
      BY <1>1, <3>1, LinesStep
    <3>3. CASE EndSnippet(line)
      <4>1. /\ snippets # <<>> /\ snippets' = Pop(snippets)
            /\ mSnippets' = Bind(mSnippets, Top(snippets)[2],
                                 Closed(Top(snippets)[1], Top(snippets)[2]))
        BY <3>3 DEF EndSnippet
      <4>2. SpansInv'
        BY <1>1, <1>2, <3>2, <4>1, SpansPopped
      <4> QED BY <1>1, <3>2, <4>2 DEF IInv
    <3>4. CASE UnmatchedEnd(line)
      <4>1. UNCHANGED <<snippets, mSnippets>>
        BY <3>4 DEF UnmatchedEnd
      <4>2. SpansInv'
        BY <1>1, <1>2, <3>2, <4>1, SpansKept
      <4> QED BY <1>1, <3>2, <4>2 DEF IInv
    <3> QED BY <2>4, <3>3, <3>4
  <2> QED BY <1>4, <2>1, <2>2, <2>3, <2>4 DEF ReadLine
<1>5. CASE Finish
  <2>1. SpansInv'
    BY <1>1, <1>5, AllFits
  <2>2. LinesInv'
    BY <1>1, <1>5 DEF Finish, kept, LinesInv, CallOutsOnTheirLine
  <2> QED BY <1>1, <2>1, <2>2 DEF IInv
<1>6. CASE Open \/ WrongNesting \/ UNCHANGED vars
  <2>1. UNCHANGED <<input, kept, marks, mCallOuts, mSnippets>>
    BY <1>6 DEF Open, WrongNesting, vars
  <2> QED BY <1>3, <2>1
<1> QED BY <1>4, <1>5, <1>6 DEF Next, Returned

LEMMA IInvAlways == Spec => []IInv
  BY IInvInit, IInvStep, PTL DEF Spec

(* No span of a snippet reaches beyond the kept lines, so the generator's  *)
(* unchecked index into fileContents() is always valid.                    *)
THEOREM SpansAlwaysInContents == Spec => []SpansInContents
<1>1. IInv => SpansInContents
  BY DEF IInv, LinesInv, SpansInv, SpansClosed, SpansInContents
<1> QED BY <1>1, IInvAlways, PTL

(* Every callout is filed under the kept line that carries it.             *)
THEOREM CallOutsAlwaysOnTheirLine == Spec => []CallOutsOnTheirLine
<1>1. IInv => CallOutsOnTheirLine
  BY DEF IInv, LinesInv
<1> QED BY <1>1, IInvAlways, PTL

(* Spans are always nested or disjoint, over all snippets.                 *)
THEOREM SpansAlwaysNest == Spec => []NestedSpans
<1>1. IInv => NestedSpans
  BY DEF IInv, SpansInv
<1> QED BY <1>1, IInvAlways, PTL
=============================================================================
