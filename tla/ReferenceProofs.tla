-------------------------- MODULE ReferenceProofs ---------------------------
(***************************************************************************)
(* What the pass of CppExtractor builds up is what the marks in the whole  *)
(* file mean (CppExtractorReference), for every alphabet of lines and      *)
(* every length of the file.                                               *)
(***************************************************************************)
EXTENDS CppExtractorReference, CppExtractorProofs

-----------------------------------------------------------------------------
(* What a line means does not change when a further line is read.          *)
LEMMA InputGrows ==
  ASSUME TypeOK, NEW line \in Lines, Read(line), NEW n, n = Len(input)
  PROVE  /\ n \in Nat /\ Len(input') = n + 1
         /\ \A i \in 1 .. n : input'[i] = input[i]
         /\ input'[n + 1] = line
         /\ opt' = opt
  BY AppendFacts, LenProperties DEF Read, TypeOK

LEMMA CommentsStay ==
  ASSUME TypeOK, NEW line \in Lines, Read(line), NEW n, n = Len(input)
  PROVE  /\ \A i \in 1 .. n : Regarded(i)' <=> Regarded(i)
         /\ \A j \in 1 .. n + 1 : InComment(j)' <=> InComment(j)
<1>1. /\ n \in Nat /\ opt' = opt
      /\ \A i \in 1 .. n : input'[i] = input[i]
  BY InputGrows
<1>2. \A i \in 1 .. n : /\ Regarded(i)' <=> Regarded(i)
                        /\ OpensComment(input[i])' <=> OpensComment(input[i])
  BY <1>1 DEF Regarded, SkippedEmpty, Omitted, OpensComment
<1>3. ASSUME NEW j \in 1 .. n + 1 PROVE InComment(j)' <=> InComment(j)
  <2>1. \A i \in 1 .. j - 1 : i \in 1 .. n /\ \A k \in i + 1 .. j - 1 : k \in 1 .. n
    BY <1>1
  <2> QED BY <1>1, <1>2, <2>1 DEF InComment
<1> QED BY <1>2, <1>3

LEMMA LinesStay ==
  ASSUME TypeOK, NEW line \in Lines, Read(line), NEW n, n = Len(input)
  PROVE  /\ \A i \in 1 .. n : /\ Starts(i)' <=> Starts(i)
                              /\ Ends(i)' <=> Ends(i)
                              /\ IsKept(i)' <=> IsKept(i)
                              /\ NameAt(i)' = NameAt(i)
                              /\ Overflows(i)' <=> Overflows(i)
         /\ \A i \in 1 .. n + 1 : Position(i)' = Position(i)
<1>1. /\ n \in Nat /\ opt' = opt
      /\ \A i \in 1 .. n : input'[i] = input[i]
  BY InputGrows
<1>2. ASSUME NEW i \in 1 .. n
      PROVE  /\ Starts(i)' <=> Starts(i)
             /\ Ends(i)' <=> Ends(i)
             /\ IsKept(i)' <=> IsKept(i)
             /\ NameAt(i)' = NameAt(i)
             /\ Overflows(i)' <=> Overflows(i)
  <2>1. i \in 1 .. n + 1
    BY <1>1
  <2>2. Visible(i)' <=> Visible(i)
    BY <1>1, <2>1, CommentsStay DEF Visible, OpensComment
  <2>3. (Starts(i)' <=> Starts(i)) /\ (Ends(i)' <=> Ends(i))
    BY <1>1, <2>2 DEF Starts, Ends
  <2> QED BY <1>1, <2>2, <2>3 DEF IsKept, Definition, NameAt, Overflows
<1>3. ASSUME NEW i \in 1 .. n + 1 PROVE Position(i)' = Position(i)
  <2>1. \A k \in 1 .. i - 1 : k \in 1 .. n
    BY <1>1
  <2>2. {k \in 1 .. i - 1 : IsKept(k)}' = {k \in 1 .. i - 1 : IsKept(k)}
    BY <1>2, <2>1
  <2> QED BY <2>2 DEF Position
<1> QED BY <1>2, <1>3

(* The marks up to line n + 1 are those up to line n and, if it is one,    *)
(* that line; no line is both a start and an end.                          *)
LEMMA FileMarks ==
  ASSUME TypeOK, NEW n, n = Len(input)
  PROVE  n \in Nat /\ Marks(n, StartLines, EndLines)
<1>1. n \in Nat
  BY LenProperties DEF TypeOK
<1>2. StartLines \cap EndLines = {}
  BY DEF StartLines, EndLines, Starts, Ends
<1> QED BY <1>1, <1>2 DEF Marks, StartLines, EndLines, LinesRead

LEMMA MarksGrow ==
  ASSUME TypeOK, NEW line \in Lines, Read(line), NEW n, n = Len(input),
         NEW S, S = StartLines, NEW E, E = EndLines,
         NEW T, T = StartLines', NEW F, F = EndLines'
  PROVE  /\ n \in Nat /\ Marks(n, S, E) /\ OneMore(n, S, E, T, F)
         /\ T = IF Starts(n + 1)' THEN S \cup {n + 1} ELSE S
         /\ F = IF Ends(n + 1)' THEN E \cup {n + 1} ELSE E
<1>1. n \in Nat /\ Marks(n, S, E)
  BY FileMarks
<1>2. /\ LinesRead = 1 .. n /\ LinesRead' = 1 .. n + 1
      /\ \A i : i \in 1 .. n + 1 <=> i \in 1 .. n \/ i = n + 1
      /\ n + 1 \notin 1 .. n
  <2>1. LinesRead = 1 .. n /\ LinesRead' = 1 .. n + 1
    BY InputGrows DEF LinesRead
  <2>2. \A i : i \in 1 .. n + 1 <=> i \in 1 .. n \/ i = n + 1
    BY <1>1
  <2>3. n + 1 \notin 1 .. n
    BY <1>1
  <2> QED BY <2>1, <2>2, <2>3
<1>3. \A i \in 1 .. n : (Starts(i)' <=> Starts(i)) /\ (Ends(i)' <=> Ends(i))
  BY LinesStay
<1>4. /\ \A i : i \in T <=> i \in 1 .. n + 1 /\ Starts(i)'
      /\ \A i : i \in F <=> i \in 1 .. n + 1 /\ Ends(i)'
      /\ \A i : i \in S <=> i \in 1 .. n /\ Starts(i)
      /\ \A i : i \in E <=> i \in 1 .. n /\ Ends(i)
  BY <1>2 DEF StartLines, EndLines
<1>5. T = IF Starts(n + 1)' THEN S \cup {n + 1} ELSE S
  <2>1. \A i : i \in T <=> i \in S \/ (i = n + 1 /\ Starts(n + 1)')
    BY <1>2, <1>3, <1>4
  <2> QED BY <2>1
<1>6. F = IF Ends(n + 1)' THEN E \cup {n + 1} ELSE E
  <2>1. \A i : i \in F <=> i \in E \/ (i = n + 1 /\ Ends(n + 1)')
    BY <1>2, <1>3, <1>4
  <2> QED BY <2>1
<1>7. T \cap F = {}
  <2>1. \A i : ~(Starts(i)' /\ Ends(i)')
    BY DEF Starts, Ends
  <2> QED BY <1>4, <2>1
<1> QED BY <1>1, <1>5, <1>6, <1>7 DEF OneMore

(* Which lines belong together does not change by reading on.              *)
LEMMA PairsStay ==
  ASSUME TypeOK, NEW line \in Lines, Read(line), NEW n, n = Len(input)
  PROVE  \A i, j : i # n + 1 /\ j # n + 1 => (Matches(i, j)' <=> Matches(i, j))
<1>1. PICK S, E, T, F : S = StartLines /\ E = EndLines /\ T = StartLines' /\ F = EndLines'
  OBVIOUS
<1>2. OneMore(n, S, E, T, F)
  BY <1>1, MarksGrow
<1> QED BY <1>1, <1>2, MatchedStay DEF Matches

LEMMA MatchesInFile ==
  ASSUME TypeOK, NEW n, n = Len(input), NEW i, NEW j, Matches(i, j)
  PROVE  /\ i \in 1 .. n /\ j \in 1 .. n /\ i < j
         /\ i \in StartLines /\ j \in EndLines /\ Starts(i) /\ Ends(j)
         /\ j \in MatchedEnds(StartLines, EndLines) /\ StartOf(j) = i
         /\ \A k : Matches(k, j) => k = i
<1>1. Marks(n, StartLines, EndLines) /\ Matched(StartLines, EndLines, i, j)
  BY FileMarks DEF Matches
<1>2. /\ \A k : Matched(StartLines, EndLines, k, j) => k = i
      /\ MatchOf(StartLines, EndLines, j) = i /\ j \in MatchedEnds(StartLines, EndLines)
  BY <1>1, MatchedInPairs, MatchOfIs
<1>3. i < j /\ i \in StartLines /\ j \in EndLines
  BY <1>1 DEF Matched
<1>4. i \in 1 .. n /\ j \in 1 .. n /\ Starts(i) /\ Ends(j)
  BY <1>3 DEF StartLines, EndLines, LinesRead
<1> QED BY <1>2, <1>3, <1>4 DEF Matches, StartOf

(* A kept line takes one place in the contents.                            *)
PositionSteps ==
    /\ Position(1) = 0
    /\ \A k \in Nat \ {0} :
         /\ Position(k) \in Nat
         /\ Position(k + 1) = IF IsKept(k) THEN Position(k) + 1 ELSE Position(k)

LEMMA PositionStep == PositionSteps /\ PositionSteps'
<1> DEFINE keptTo(m) == {i \in 1 .. m - 1 : IsKept(i)}
<1>1. \A m : Position(m) = Cardinality(keptTo(m))
  BY DEF Position
<1>2. ASSUME NEW k \in Nat \ {0}
      PROVE  /\ Position(k) \in Nat
             /\ Position(k + 1) = IF IsKept(k) THEN Position(k) + 1 ELSE Position(k)
  <2>1. IsFiniteSet(keptTo(k))
    <3>1. keptTo(k) \subseteq 1 .. k - 1 /\ k - 1 \in Int
      OBVIOUS
    <3> QED BY <3>1, CountedInInterval
  <2>2. /\ keptTo(k) \subseteq keptTo(k + 1) /\ keptTo(k + 1) \subseteq keptTo(k) \cup {k}
        /\ k \notin keptTo(k)
        /\ k \in keptTo(k + 1) <=> IsKept(k)
    <3>1. \A i : i \in 1 .. (k + 1) - 1 <=> i \in 1 .. k - 1 \/ i = k
      OBVIOUS
    <3>2. k \notin 1 .. k - 1
      OBVIOUS
    <3> QED BY <3>1, <3>2
  <2> HIDE DEF keptTo
  <2> QED BY <1>1, <2>1, <2>2, CountStep
<1>3. Position(1) = 0
  <2>1. keptTo(1) = {}
    OBVIOUS
  <2> QED BY <1>1, <2>1, FS_EmptySet
<1>4. PositionSteps
  BY <1>2, <1>3 DEF PositionSteps
<1> QED BY <1>4, PTL

-----------------------------------------------------------------------------
(* The status says whether the next line lies in a block comment.          *)
CommentInv ==
    /\ status = "BlockComment" => opt.mSkipBlockComments
    /\ \A n \in Nat : n = Len(input) => (status = "BlockComment" <=> InComment(n + 1))

LEMMA CommentNext ==
  ASSUME TypeOK, NEW line \in Lines, Read(line), NEW n, n = Len(input)
  PROVE  /\ InComment(n + 2)' <=> \/ Regarded(n + 1)' /\ OpensComment(line)
                                  \/ InComment(n + 1) /\ ~line.closes
         /\ Regarded(n + 1)' <=> ~SkippedEmpty(line) /\ ~Omitted(line)
<1>1. /\ n \in Nat /\ opt' = opt
      /\ \A i \in 1 .. n : input'[i] = input[i]
      /\ input'[n + 1] = line
  BY InputGrows
<1>2. Regarded(n + 1)' <=> ~SkippedEmpty(line) /\ ~Omitted(line)
  BY <1>1 DEF Regarded, SkippedEmpty, Omitted
<1>3. \A i \in 1 .. n : /\ Regarded(i)' <=> Regarded(i)
                        /\ OpensComment(input[i])' <=> OpensComment(input[i])
  BY <1>1, CommentsStay DEF OpensComment
<1>4. OpensComment(input[n + 1])' <=> OpensComment(line)
  BY <1>1 DEF OpensComment
<1>5. /\ \A i : i \in 1 .. n + 2 - 1 <=> i \in 1 .. n \/ i = n + 1
      /\ \A i : i \in 1 .. n + 1 - 1 <=> i \in 1 .. n
      /\ \A i \in 1 .. n : \A k : k \in i + 1 .. n + 2 - 1 <=> k \in i + 1 .. n \/ k = n + 1
      /\ \A i \in 1 .. n : \A k : k \in i + 1 .. n + 1 - 1 <=> k \in i + 1 .. n
      /\ \A i \in 1 .. n : \A k \in i + 1 .. n : k \in 1 .. n
      /\ \A k : k \notin n + 1 + 1 .. n + 2 - 1
  BY <1>1
<1>6. InComment(n + 2)' <=>
        \E i \in 1 .. n + 2 - 1 :
          /\ Regarded(i)' /\ OpensComment(input[i])'
          /\ \A k \in i + 1 .. n + 2 - 1 : ~input'[k].closes
  BY DEF InComment
<1>7. InComment(n + 1) <=>
        \E i \in 1 .. n : /\ Regarded(i) /\ OpensComment(input[i])
                          /\ \A k \in i + 1 .. n : ~input[k].closes
  BY <1>5 DEF InComment
<1>8. \A i \in 1 .. n : (\A k \in i + 1 .. n + 2 - 1 : ~input'[k].closes) <=>
                        (\A k \in i + 1 .. n : ~input[k].closes) /\ ~line.closes
  BY <1>1, <1>5
<1>9. \A k \in n + 1 + 1 .. n + 2 - 1 : ~input'[k].closes
  BY <1>5
<1> HIDE DEF InComment, Regarded, OpensComment
<1>10. InComment(n + 2)' <=> \/ Regarded(n + 1)' /\ OpensComment(line)
                             \/ InComment(n + 1) /\ ~line.closes
  BY <1>3, <1>4, <1>5, <1>6, <1>7, <1>8, <1>9
<1> QED BY <1>2, <1>10

(* What becomes of a line: it is looked at for marks, or it is not.        *)
LEMMA LineSeen ==
  ASSUME TypeOK, CommentInv, NEW line \in Lines, Read(line), NEW n, n = Len(input),
         \/ SkipEmptyLine(line) \/ OmitLine(line) \/ StartBlockComment(line)
         \/ SkipBlockComment(line) \/ Examined(line)
  PROVE  /\ CommentInv'
         /\ Visible(n + 1)' <=> Examined(line)
<1>1. /\ n \in Nat /\ Len(input') = n + 1 /\ input'[n + 1] = line /\ opt' = opt
  BY InputGrows
<1>2. /\ InComment(n + 2)' <=> \/ Regarded(n + 1)' /\ OpensComment(line)
                               \/ InComment(n + 1) /\ ~line.closes
      /\ Regarded(n + 1)' <=> ~SkippedEmpty(line) /\ ~Omitted(line)
      /\ InComment(n + 1)' <=> InComment(n + 1)
  <2>1. n + 1 \in 1 .. n + 1
    BY <1>1
  <2> QED BY <2>1, CommentNext, CommentsStay
<1>3. /\ status = "BlockComment" <=> InComment(n + 1)
      /\ status \in {"Normal", "BlockComment"}
      /\ status = "BlockComment" => opt.mSkipBlockComments
  BY <1>1 DEF CommentInv, TypeOK
<1>4. line.closes => ~line.opens /\ ~line.empty
  BY CommentAssumption
<1>5. Visible(n + 1)' <=> Regarded(n + 1)' /\ ~InComment(n + 1) /\ ~OpensComment(line)
  BY <1>1, <1>2 DEF Visible, OpensComment
<1>6. /\ SkippedEmpty(line) => line.empty
      /\ OpensComment(line) => line.opens /\ opt.mSkipBlockComments
  BY DEF SkippedEmpty, OpensComment
<1>7. CASE SkipEmptyLine(line)
  <2>1. SkippedEmpty(line) /\ status' = status
    BY <1>7 DEF SkipEmptyLine
  <2>2. ~Examined(line)
    BY <2>1 DEF Examined
  <2>3. InComment(n + 2)' <=> InComment(n + 1)
    BY <1>2, <1>4, <1>6, <2>1
  <2> QED BY <1>1, <1>2, <1>3, <1>5, <2>1, <2>2, <2>3 DEF CommentInv
<1>8. CASE OmitLine(line)
  <2>1. Omitted(line) /\ status' = status /\ status = "Normal"
    BY <1>8 DEF OmitLine
  <2>2. ~Examined(line)
    BY <2>1 DEF Examined
  <2>3. ~InComment(n + 2)'
    BY <1>2, <1>3, <2>1
  <2> QED BY <1>1, <1>2, <1>3, <1>5, <2>1, <2>2, <2>3 DEF CommentInv
<1>9. CASE StartBlockComment(line)
  <2>1. /\ ~SkippedEmpty(line) /\ ~Omitted(line) /\ OpensComment(line)
        /\ status' = "BlockComment"
    BY <1>9 DEF StartBlockComment
  <2>2. ~Examined(line)
    BY <2>1 DEF Examined
  <2>3. InComment(n + 2)'
    BY <1>2, <2>1
  <2> QED BY <1>1, <1>2, <1>3, <1>5, <1>6, <2>1, <2>2, <2>3 DEF CommentInv
<1>10. CASE SkipBlockComment(line)
  <2>1. /\ status = "BlockComment"
        /\ status' = IF opt.mSkipBlockComments /\ line.closes THEN "Normal" ELSE status
    BY <1>10 DEF SkipBlockComment
  <2>2. ~Examined(line)
    BY <2>1 DEF Examined
  <2>3. InComment(n + 2)' <=> status' = "BlockComment"
    BY <1>2, <1>3, <1>4, <1>6, <2>1
  <2> QED BY <1>1, <1>2, <1>3, <1>5, <2>1, <2>2, <2>3 DEF CommentInv
<1>11. CASE Examined(line)
  <2>1. /\ status = "Normal" /\ status' = status
        /\ ~SkippedEmpty(line) /\ ~Omitted(line) /\ ~OpensComment(line)
    BY <1>11 DEF Examined
  <2>2. ~InComment(n + 2)'
    BY <1>2, <1>3, <2>1
  <2> QED BY <1>1, <1>2, <1>3, <1>5, <1>11, <2>1, <2>2 DEF CommentInv
<1> QED BY <1>7, <1>8, <1>9, <1>10, <1>11

-----------------------------------------------------------------------------
(* The effects a line can have, told by what it means: line n + 1 is the   *)
(* one being read.  It ends up in the contents or not ...                  *)
Stored(line, n) ==
    \/ IsKept(n + 1)' /\ Keep(line, sectionHighlight')
    \/ /\ ~IsKept(n + 1)' /\ UNCHANGED kept
       /\ mHighlightedLines' \in {mHighlightedLines, LineHighlight(line)}

(* ... and it has no mark, opens a snippet, closes the one opened last, or *)
(* is an end too many.                                                     *)
Unmarked(n) ==
    /\ ~Starts(n + 1)' /\ ~Ends(n + 1)'
    /\ UNCHANGED <<snippets, sectionHighlight, excludes, mSnippets>>

Opened(line, n) ==
    /\ Starts(n + 1)' /\ ~Ends(n + 1)'
    /\ snippets' = Append(snippets, <<lineNumber, NameAt(n + 1)'>>)
    /\ sectionHighlight' = PushSection(line)
    /\ excludes' = IF line.name = NoName THEN excludes
                   ELSE [excludes EXCEPT ![NameAt(n + 1)'] = @ \cup line.minus]
    /\ UNCHANGED mSnippets

ClosedLast(n) ==
    /\ ~Starts(n + 1)' /\ Ends(n + 1)' /\ snippets # <<>>
    /\ snippets' = Pop(snippets)
    /\ sectionHighlight' = Pop(sectionHighlight)
    /\ mSnippets' = Bind(mSnippets, Top(snippets)[2],
                         Closed(Top(snippets)[1], Top(snippets)[2]))
    /\ UNCHANGED excludes

Stray(n) ==
    /\ ~Starts(n + 1)' /\ Ends(n + 1)' /\ snippets = <<>>
    /\ sectionHighlight' = Pop(sectionHighlight)
    /\ UNCHANGED <<snippets, excludes, mSnippets>>

Effect(line, n) == Unmarked(n) \/ Opened(line, n) \/ ClosedLast(n) \/ Stray(n)

LEMMA LineEffect ==
  ASSUME TypeOK, CommentInv, NEW line \in Lines, ReadLine(line), NEW n, n = Len(input)
  PROVE  /\ Read(line) /\ CommentInv'
         /\ Stored(line, n) /\ Effect(line, n)
<1> USE DEF marks
<1>1. Read(line)
  BY DEF ReadLine, SkipEmptyLine, OmitLine, StartBlockComment, SkipBlockComment,
         KeepCode, ReadCallOut, CallOutOverflow, StartSnippet, StartUnnamed,
         EndSnippet, UnmatchedEnd, Examined
<1>2. \/ SkipEmptyLine(line) \/ OmitLine(line) \/ StartBlockComment(line)
      \/ SkipBlockComment(line) \/ Examined(line)
  BY DEF ReadLine, KeepCode, ReadCallOut, CallOutOverflow, StartSnippet, StartUnnamed,
         EndSnippet, UnmatchedEnd
<1>3. CommentInv' /\ (Visible(n + 1)' <=> Examined(line))
  BY <1>1, <1>2, LineSeen
<1>4. n \in Nat /\ input'[n + 1] = line /\ opt' = opt
  BY <1>1, InputGrows
<1>5. /\ Starts(n + 1)' <=> Examined(line) /\ line.callOut = "none" /\ line.marker = "start"
      /\ Ends(n + 1)' <=> Examined(line) /\ line.callOut = "none" /\ line.marker = "end"
  BY <1>3, <1>4 DEF Starts, Ends
<1>6. IsKept(n + 1)' <=>
        /\ Examined(line) /\ line.callOut # "overflow"
        /\ ~(/\ opt.mSkipSnippetDefinitions
             /\ Ends(n + 1)' \/ (Starts(n + 1)' /\ line.name # NoName))
  BY <1>3, <1>4 DEF IsKept, Definition
<1>7. NameAt(n + 1)' = IF line.name = NoName THEN "unnamed" ELSE ReplaceScope[line.name]
  BY <1>4 DEF NameAt
<1>8. CASE \/ SkipEmptyLine(line) \/ OmitLine(line) \/ StartBlockComment(line)
           \/ SkipBlockComment(line)
  <2>1. ~Examined(line)
    BY <1>8 DEF SkipEmptyLine, OmitLine, StartBlockComment, SkipBlockComment, Examined
  <2>2. UNCHANGED <<snippets, sectionHighlight, excludes, mSnippets, kept>>
    BY <1>8 DEF SkipEmptyLine, OmitLine, StartBlockComment, SkipBlockComment, Drop
  <2>3. mHighlightedLines' \in {mHighlightedLines, LineHighlight(line)}
    BY <1>8 DEF SkipEmptyLine, OmitLine, StartBlockComment, SkipBlockComment, Drop
  <2> QED BY <1>1, <1>3, <1>5, <1>6, <2>1, <2>2, <2>3 DEF Stored, Effect, Unmarked
<1>9. CASE KeepCode(line) \/ ReadCallOut(line) \/ CallOutOverflow(line)
  <2>1. /\ Examined(line) /\ ~(line.callOut = "none" /\ line.marker # "none")
        /\ line.callOut # "overflow" => Keep(line, sectionHighlight)
        /\ line.callOut = "overflow" => Drop(line)
        /\ UNCHANGED <<snippets, sectionHighlight, excludes, mSnippets>>
    BY <1>9 DEF KeepCode, ReadCallOut, CallOutOverflow
  <2>2. ~Starts(n + 1)' /\ ~Ends(n + 1)' /\ (IsKept(n + 1)' <=> line.callOut # "overflow")
    BY <1>5, <1>6, <2>1
  <2>3. Stored(line, n)
    BY <2>1, <2>2 DEF Stored, Drop
  <2> QED BY <1>1, <1>3, <2>1, <2>2, <2>3 DEF Effect, Unmarked
<1>10. ASSUME NEW sections, KeepDefinition(line, sections), sections = sectionHighlight',
              Examined(line), line.callOut = "none",
              Ends(n + 1)' \/ (Starts(n + 1)' /\ line.name # NoName)
       PROVE  Stored(line, n)
  BY <1>6, <1>10 DEF KeepDefinition, Stored, Drop
<1>11. CASE StartSnippet(line)
  <2>1. /\ Examined(line) /\ line.callOut = "none" /\ line.marker = "start"
        /\ line.name # NoName
        /\ sectionHighlight' = PushSection(line)
        /\ snippets' = Append(snippets, <<lineNumber, ReplaceScope[line.name]>>)
        /\ excludes' = [excludes EXCEPT ![ReplaceScope[line.name]] = @ \cup line.minus]
        /\ KeepDefinition(line, PushSection(line))
        /\ UNCHANGED mSnippets
    BY <1>11 DEF StartSnippet
  <2>2. Starts(n + 1)' /\ ~Ends(n + 1)'
    BY <1>5, <2>1
  <2>3. Stored(line, n)
    BY <1>10, <2>1, <2>2
  <2>4. Opened(line, n)
    BY <1>7, <2>1, <2>2 DEF Opened
  <2> QED BY <1>1, <1>3, <2>3, <2>4 DEF Effect
<1>12. CASE StartUnnamed(line)
  <2>1. /\ Examined(line) /\ line.callOut = "none" /\ line.marker = "start"
        /\ line.name = NoName
        /\ sectionHighlight' = PushSection(line)
        /\ snippets' = Append(snippets, <<lineNumber, "unnamed">>)
        /\ Keep(line, PushSection(line))
        /\ UNCHANGED <<mSnippets, excludes>>
    BY <1>12 DEF StartUnnamed
  <2>2. Starts(n + 1)' /\ ~Ends(n + 1)' /\ IsKept(n + 1)'
    BY <1>5, <1>6, <2>1
  <2>3. Stored(line, n)
    BY <2>1, <2>2 DEF Stored
  <2>4. Opened(line, n)
    BY <1>7, <2>1, <2>2 DEF Opened
  <2> QED BY <1>1, <1>3, <2>3, <2>4 DEF Effect
<1>13. CASE EndSnippet(line)
  <2>1. /\ Examined(line) /\ line.callOut = "none" /\ line.marker = "end" /\ snippets # <<>>
        /\ mSnippets' = Bind(mSnippets, Top(snippets)[2],
                             Closed(Top(snippets)[1], Top(snippets)[2]))
        /\ snippets' = Pop(snippets)
        /\ sectionHighlight' = Pop(sectionHighlight)
        /\ KeepDefinition(line, Pop(sectionHighlight))
        /\ UNCHANGED excludes
    BY <1>13 DEF EndSnippet
  <2>2. ~Starts(n + 1)' /\ Ends(n + 1)'
    BY <1>5, <2>1
  <2>3. Stored(line, n)
    BY <1>10, <2>1, <2>2
  <2>4. ClosedLast(n)
    BY <2>1, <2>2 DEF ClosedLast
  <2> QED BY <1>1, <1>3, <2>3, <2>4 DEF Effect
<1>14. CASE UnmatchedEnd(line)
  <2>1. /\ Examined(line) /\ line.callOut = "none" /\ line.marker = "end" /\ snippets = <<>>
        /\ sectionHighlight' = Pop(sectionHighlight)
        /\ KeepDefinition(line, Pop(sectionHighlight))
        /\ UNCHANGED <<snippets, excludes, mSnippets>>
    BY <1>14 DEF UnmatchedEnd
  <2>2. ~Starts(n + 1)' /\ Ends(n + 1)'
    BY <1>5, <2>1
  <2>3. Stored(line, n)
    BY <1>10, <2>1, <2>2
  <2>4. Stray(n)
    BY <2>1, <2>2 DEF Stray
  <2> QED BY <1>1, <1>3, <2>3, <2>4 DEF Effect
<1> QED BY <1>8, <1>9, <1>11, <1>12, <1>13, <1>14 DEF ReadLine

-----------------------------------------------------------------------------
(* The next kept line is stored at its position.                           *)
KeptInv ==
    /\ \A n \in Nat : n = Len(input) => lineNumber = Position(n + 1)
    /\ lineNumber = Len(mFileContents)
    /\ \A i \in LinesRead :
         IsKept(i) => Position(i) < lineNumber /\ mFileContents[Position(i) + 1] = i

LEMMA KeptStep ==
  ASSUME TypeOK, KeptInv, NEW line \in Lines, Read(line), NEW n, n = Len(input),
         Stored(line, n)
  PROVE  KeptInv'
<1>1. n \in Nat /\ Len(input') = n + 1
  BY InputGrows
<1>2. /\ lineNumber = Position(n + 1) /\ lineNumber \in Nat
      /\ lineNumber = Len(mFileContents) /\ mFileContents \in Seq(Nat)
  BY <1>1 DEF KeptInv, TypeOK
<1>3. /\ \A i \in 1 .. n : (IsKept(i)' <=> IsKept(i)) /\ Position(i)' = Position(i)
      /\ Position(n + 1)' = Position(n + 1)
  <2>1. \A i \in 1 .. n : i \in 1 .. n + 1
    BY <1>1
  <2>2. n + 1 \in 1 .. n + 1
    BY <1>1
  <2> QED BY <2>1, <2>2, LinesStay
<1>4. Position(n + 2)' = IF IsKept(n + 1)' THEN lineNumber + 1 ELSE lineNumber
  <2>1. n + 1 \in Nat \ {0} /\ (n + 1) + 1 = n + 2
    BY <1>1
  <2> QED BY <1>2, <1>3, <2>1, PositionStep DEF PositionSteps
<1>5. /\ lineNumber' = Len(mFileContents')
      /\ lineNumber' = Position(n + 2)'
      /\ IsKept(n + 1)' => mFileContents'[lineNumber + 1] = n + 1
      /\ \A k \in 1 .. Len(mFileContents) : mFileContents'[k] = mFileContents[k]
  <2>1. CASE IsKept(n + 1)' /\ Keep(line, sectionHighlight')
    <3>1. mFileContents' = Append(mFileContents, n + 1) /\ lineNumber' = lineNumber + 1
      BY <2>1 DEF Keep
    <3> QED BY <1>1, <1>2, <1>4, <2>1, <3>1, AppendFacts
  <2>2. CASE ~IsKept(n + 1)' /\ UNCHANGED kept
    BY <1>2, <1>4, <2>2 DEF kept
  <2> QED BY <2>1, <2>2 DEF Stored
<1>6. ASSUME NEW i \in 1 .. n + 1, IsKept(i)'
      PROVE  Position(i)' < lineNumber' /\ mFileContents'[Position(i)' + 1] = i
  <2>1. CASE i = n + 1
    BY <1>2, <1>3, <1>4, <1>5, <1>6, <2>1
  <2>2. CASE i # n + 1
    <3>1. i \in 1 .. n /\ i \in Nat \ {0}
      BY <1>1, <2>2
    <3>2. /\ Position(i)' = Position(i) /\ Position(i) < lineNumber
          /\ mFileContents[Position(i) + 1] = i
      BY <1>3, <1>6, <3>1 DEF KeptInv, LinesRead
    <3>3. Position(i) \in Nat
      BY <3>1, PositionStep DEF PositionSteps
    <3>4. Position(i) + 1 \in 1 .. Len(mFileContents) /\ Position(i) < lineNumber + 1
      BY <1>2, <3>2, <3>3
    <3> QED BY <1>4, <1>5, <3>2, <3>4
  <2> QED BY <2>1, <2>2
<1> QED BY <1>1, <1>5, <1>6 DEF KeptInv, LinesRead

-----------------------------------------------------------------------------
(* The stack holds the starts that no end has matched yet: their positions *)
(* and names, for the lines p.                                             *)
Stacked(p, n) ==
    /\ StackOf(StartLines, EndLines, p, n) /\ Len(p) = Len(snippets)
    /\ \A x \in 1 .. Len(p) : snippets[x] = <<Position(p[x]), NameAt(p[x])>>

LEMMA StackedFacts ==
  ASSUME TypeOK, NEW n, n = Len(input), NEW p, Stacked(p, n)
  PROVE  /\ p \in Seq(Nat) /\ Len(p) \in Nat
         /\ \A x \in 1 .. Len(p) : p[x] \in 1 .. n /\ p[x] \in StartLines /\ Starts(p[x])
         /\ \A x \in 1 .. Len(p) : \A y \in x + 1 .. Len(p) : p[x] < p[y]
<1>1. StackOf(StartLines, EndLines, p, n)
  BY DEF Stacked
<1>2. p \in Seq(Nat) /\ \A x \in 1 .. Len(p) : p[x] \in StartLines
  BY <1>1 DEF StackOf
<1>3. \A x \in 1 .. Len(p) : \A y \in x + 1 .. Len(p) : p[x] < p[y]
  BY <1>1 DEF StackOf
<1> QED BY <1>2, <1>3, LenProperties DEF StartLines, LinesRead

LEMMA EntriesStay ==
  ASSUME TypeOK, NEW line \in Lines, Read(line), NEW n, n = Len(input),
         NEW p, Stacked(p, n)
  PROVE  \A x \in 1 .. Len(p) : snippets[x] = <<Position(p[x])', NameAt(p[x])'>>
<1>1. n \in Nat
  BY InputGrows
<1>2. \A x \in 1 .. Len(p) : p[x] \in 1 .. n /\ p[x] \in 1 .. n + 1
  BY <1>1, StackedFacts
<1>3. \A x \in 1 .. Len(p) : Position(p[x])' = Position(p[x]) /\ NameAt(p[x])' = NameAt(p[x])
  BY <1>2, LinesStay
<1> QED BY <1>3 DEF Stacked

LEMMA StackedUnmarked ==
  ASSUME TypeOK, NEW line \in Lines, Read(line), NEW n, n = Len(input),
         NEW p, Stacked(p, n), ~Starts(n + 1)', UNCHANGED snippets,
         \/ ~Ends(n + 1)'
         \/ Ends(n + 1)' /\ snippets = <<>>
  PROVE  Stacked(p, n + 1)'
<1>1. PICK S, E, T, F : S = StartLines /\ E = EndLines /\ T = StartLines' /\ F = EndLines'
  OBVIOUS
<1>2. /\ Marks(n, S, E) /\ T = S
      /\ F = IF Ends(n + 1)' THEN E \cup {n + 1} ELSE E
  BY <1>1, MarksGrow
<1>3. StackOf(S, E, p, n) /\ Len(p) = Len(snippets)
  BY <1>1 DEF Stacked
<1>4. StackOf(T, F, p, n + 1)
  <2>1. CASE ~Ends(n + 1)'
    BY <1>2, <1>3, <2>1, StackSkips
  <2>2. CASE Ends(n + 1)' /\ snippets = <<>>
    <3>1. Len(p) = 0
      BY <1>3, <2>2
    <3> QED BY <1>2, <1>3, <2>2, <3>1, StackStray
  <2> QED BY <2>1, <2>2
<1>5. \A x \in 1 .. Len(p) : snippets[x] = <<Position(p[x])', NameAt(p[x])'>>
  BY EntriesStay
<1> QED BY <1>1, <1>3, <1>4, <1>5 DEF Stacked

LEMMA StackedPushed ==
  ASSUME TypeOK, KeptInv, NEW line \in Lines, Read(line), NEW n, n = Len(input),
         NEW p, Stacked(p, n), Opened(line, n)
  PROVE  Stacked(Append(p, n + 1), n + 1)'
<1> DEFINE q == Append(p, n + 1)
<1>1. n \in Nat /\ p \in Seq(Nat) /\ Len(p) \in Nat /\ Len(p) = Len(snippets)
  BY FileMarks, StackedFacts DEF Stacked
<1>2. PICK S, E, T, F : S = StartLines /\ E = EndLines /\ T = StartLines' /\ F = EndLines'
  OBVIOUS
<1>3. Marks(n, S, E) /\ StackOf(S, E, p, n) /\ T = S \cup {n + 1} /\ F = E
  BY <1>2, MarksGrow DEF Opened, Stacked
<1>4. StackOf(T, F, q, n + 1)
  BY <1>3, StackPushes
<1>5. /\ Len(q) = Len(p) + 1 /\ q[Len(p) + 1] = n + 1
      /\ \A x \in 1 .. Len(p) : q[x] = p[x]
  BY <1>1, AppendFacts
<1>6. /\ Len(snippets') = Len(p) + 1
      /\ snippets'[Len(p) + 1] = <<lineNumber, NameAt(n + 1)'>>
      /\ \A x \in 1 .. Len(p) : snippets'[x] = snippets[x]
  <2>1. snippets \in Seq(Nat \X Names) /\ Len(snippets) = Len(p)
    BY <1>1 DEF TypeOK
  <2>2. snippets' = Append(snippets, <<lineNumber, NameAt(n + 1)'>>)
    BY DEF Opened
  <2> QED BY <2>1, <2>2
<1>7. Position(n + 1)' = lineNumber
  <2>1. n + 1 \in 1 .. n + 1
    BY <1>1
  <2> QED BY <1>1, <2>1, LinesStay DEF KeptInv
<1> HIDE DEF q
<1>8. ASSUME NEW x \in 1 .. Len(q)
      PROVE  snippets'[x] = <<Position(q[x])', NameAt(q[x])'>>
  <2>1. CASE x = Len(p) + 1
    BY <1>5, <1>6, <1>7, <2>1
  <2>2. CASE x # Len(p) + 1
    <3>1. x \in 1 .. Len(p)
      BY <1>1, <1>5, <2>2
    <3> QED BY <1>5, <1>6, <3>1, EntriesStay
  <2> QED BY <2>1, <2>2
<1>9. Stacked(q, n + 1)'
  BY <1>2, <1>4, <1>5, <1>6, <1>8 DEF Stacked
<1> QED BY <1>9 DEF q

(* An end belongs to the start on top of the stack ...                     *)
LEMMA TopMatches ==
  ASSUME TypeOK, NEW line \in Lines, Read(line), NEW n, n = Len(input),
         NEW p, Stacked(p, n), ClosedLast(n)
  PROVE  /\ p # <<>> /\ Len(p) \in 1 .. Len(p) /\ p[Len(p)] \in 1 .. n
         /\ Matches(p[Len(p)], n + 1)'
         /\ Top(snippets) = <<Position(p[Len(p)]), NameAt(p[Len(p)])>>
         /\ Stacked(Pop(p), n + 1)'
<1> DEFINE q == Pop(p)
           d == Len(p)
<1>1. snippets # <<>> /\ Ends(n + 1)' /\ ~Starts(n + 1)' /\ snippets' = Pop(snippets)
  BY DEF ClosedLast
<1>2. /\ p \in Seq(Nat) /\ d \in Nat /\ d = Len(snippets)
      /\ \A x \in 1 .. d : p[x] \in 1 .. n
  BY StackedFacts DEF Stacked
<1>3. snippets \in Seq(Nat \X Names) /\ p # <<>>
  BY <1>1, <1>2, EmptySeq DEF TypeOK
<1>4. d \in 1 .. d /\ Top(snippets) = snippets[d]
  BY <1>1, <1>2, <1>3, TopFacts
<1>5. PICK S, E, T, F : S = StartLines /\ E = EndLines /\ T = StartLines' /\ F = EndLines'
  OBVIOUS
<1>6. Marks(n, S, E) /\ StackOf(S, E, p, n) /\ T = S /\ F = E \cup {n + 1}
  BY <1>1, <1>5, MarksGrow DEF Stacked
<1>7. Matched(T, F, p[d], n + 1) /\ StackOf(T, F, q, n + 1)
  <2>1. q = SubSeq(p, 1, Len(p) - 1)
    BY <1>3 DEF Pop
  <2>2. /\ Matched(S, E \cup {n + 1}, p[Len(p)], n + 1)
        /\ StackOf(S, E \cup {n + 1}, SubSeq(p, 1, Len(p) - 1), n + 1)
    BY <1>3, <1>6, StackPops
  <2> QED BY <1>6, <2>1, <2>2
<1>8. Matches(p[d], n + 1)'
  BY <1>5, <1>7 DEF Matches
<1>9. /\ Len(q) = d - 1 /\ \A x \in 1 .. d - 1 : q[x] = p[x]
      /\ Len(snippets') = d - 1 /\ \A x \in 1 .. d - 1 : snippets'[x] = snippets[x]
  <2>1. /\ Len(Pop(p)) = Len(p) - 1
        /\ \A x \in 1 .. Len(Pop(p)) : Pop(p)[x] = p[x]
    BY <1>2, <1>3, PopFacts
  <2>2. /\ Len(Pop(snippets)) = Len(snippets) - 1
        /\ \A x \in 1 .. Len(Pop(snippets)) : Pop(snippets)[x] = snippets[x]
    BY <1>1, <1>3, PopFacts
  <2> QED BY <1>1, <1>2, <2>1, <2>2
<1>10. \A x \in 1 .. d - 1 : x \in 1 .. d
  BY <1>2
<1>11. \A x \in 1 .. d : snippets[x] = <<Position(p[x])', NameAt(p[x])'>>
  BY EntriesStay
<1> HIDE DEF q, d
<1>12. Stacked(q, n + 1)'
  BY <1>5, <1>7, <1>9, <1>10, <1>11 DEF Stacked
<1> QED BY <1>2, <1>3, <1>4, <1>8, <1>12 DEF q, d, Stacked

(* ... and to none if the stack is empty.                                  *)
LEMMA StrayMatchesNothing ==
  ASSUME TypeOK, NEW line \in Lines, Read(line), NEW n, n = Len(input),
         NEW p, Stacked(p, n), snippets = <<>>, Ends(n + 1)', ~Starts(n + 1)'
  PROVE  \A i : ~Matches(i, n + 1)'
<1>1. PICK S, E, T, F : S = StartLines /\ E = EndLines /\ T = StartLines' /\ F = EndLines'
  OBVIOUS
<1>2. Marks(n, S, E) /\ StackOf(S, E, p, n) /\ T = S /\ F = E \cup {n + 1}
  BY <1>1, MarksGrow DEF Stacked
<1>3. Len(p) = 0
  BY DEF Stacked
<1>4. \A i : ~Matched(T, F, i, n + 1)
  BY <1>2, <1>3, StackStray
<1> QED BY <1>1, <1>4 DEF Matches

-----------------------------------------------------------------------------
(* The section stack is aligned with the top of the snippet stack: the     *)
(* starts below it have no mark, and each entry is the last mark of the    *)
(* starts up to its own.                                                   *)
LastMark(p, z, mark) ==
    \E x \in 1 .. z :
        /\ mark # "none" /\ input[p[x]].section = mark
        /\ \A w \in x + 1 .. z : input[p[w]].section = "none"

Sectioned(p, secs) ==
    /\ Len(secs) <= Len(p)
    /\ \A x \in 1 .. Len(p) - Len(secs) : input[p[x]].section = "none"
    /\ \A y \in 1 .. Len(secs) :
         LastMark(p, Len(p) - Len(secs) + y, secs[y])

LEMMA SectionedUnmarked ==
  ASSUME TypeOK, NEW line \in Lines, Read(line), NEW n, n = Len(input),
         NEW p, Stacked(p, n), NEW secs, Sectioned(p, secs),
         secs = sectionHighlight
  PROVE  Sectioned(p, secs)'
<1>1. \A x \in 1 .. Len(p) : input'[p[x]] = input[p[x]]
  BY InputGrows, StackedFacts
<1>2. Len(p) \in Nat /\ Len(secs) \in Nat
  BY StackedFacts, LenProperties DEF TypeOK
<1>3. \A x \in 1 .. Len(p) - Len(secs) : x \in 1 .. Len(p)
  BY <1>2
<1>4. \A mark : \A y \in 1 .. Len(secs) :
        LastMark(p, Len(p) - Len(secs) + y, mark) =>
          LastMark(p, Len(p) - Len(secs) + y, mark)'
  <2> TAKE mark
  <2> TAKE y \in 1 .. Len(secs)
  <2>1. PICK z \in Int : z = Len(p) - Len(secs) + y
    BY <1>2
  <2>2. \A x \in 1 .. z : x \in 1 .. Len(p) /\ \A w \in x + 1 .. z : w \in 1 .. Len(p)
    BY <1>2, <2>1
  <2>3. \A x \in 1 .. z : /\ input'[p[x]].section = input[p[x]].section
                          /\ \A w \in x + 1 .. z : input'[p[w]].section = input[p[w]].section
    BY <1>1, <2>2
  <2>4. LastMark(p, z, mark) => LastMark(p, z, mark)'
    BY <2>3 DEF LastMark
  <2> QED BY <2>1, <2>4
<1> QED BY <1>1, <1>3, <1>4 DEF Sectioned

LEMMA SectionedPushed ==
  ASSUME TypeOK, NEW line \in Lines, Read(line), NEW n, n = Len(input),
         NEW p, Stacked(p, n), NEW secs, Sectioned(p, secs),
         secs = sectionHighlight, NEW next, next = PushSection(line)
  PROVE  Sectioned(Append(p, n + 1), next)'
<1> DEFINE q == Append(p, n + 1)
           d == Len(p)
           s == Len(secs)
<1>1. /\ n \in Nat /\ input'[n + 1] = line
      /\ \A x \in 1 .. d : input'[p[x]] = input[p[x]]
  BY InputGrows, StackedFacts
<1>2. d \in Nat /\ s \in Nat /\ s <= d
  BY StackedFacts, LenProperties DEF Sectioned, TypeOK
<1>3. /\ Len(q) = d + 1 /\ q[d + 1] = n + 1
      /\ \A x \in 1 .. d : q[x] = p[x]
  BY <1>1, StackedFacts, AppendFacts
<1>4. /\ input'[q[d + 1]].section = line.section
      /\ \A x \in 1 .. d : input'[q[x]].section = input[p[x]].section
  BY <1>1, <1>3
<1>5. /\ \A x \in 1 .. d - s : input[p[x]].section = "none"
      /\ \A y \in 1 .. s : LastMark(p, d - s + y, secs[y])
  BY DEF Sectioned
<1>6. secs \in Seq({"Included", "Excluded"})
  BY DEF TypeOK
<1>7. line.section \in {"none", "Included", "Excluded"}
  BY LinesAssumption DEF LineShape
<1> HIDE DEF q, d, s
<1>8. ASSUME NEW z \in 1 .. d, NEW mark, LastMark(p, z, mark)
      PROVE  /\ LastMark(q, z, mark)'
             /\ z = d /\ line.section = "none" => LastMark(q, d + 1, mark)'
  <2>1. PICK x \in 1 .. z : /\ mark # "none" /\ input[p[x]].section = mark
                            /\ \A w \in x + 1 .. z : input[p[w]].section = "none"
    BY <1>8 DEF LastMark
  <2>2. x \in 1 .. d /\ \A w \in x + 1 .. z : w \in 1 .. d
    BY <1>2
  <2>3. /\ input'[q[x]].section = mark
        /\ \A w \in x + 1 .. z : input'[q[w]].section = "none"
    BY <1>4, <2>1, <2>2
  <2>4. LastMark(q, z, mark)'
    BY <2>1, <2>3 DEF LastMark
  <2>5. ASSUME z = d, line.section = "none" PROVE LastMark(q, d + 1, mark)'
    <3>1. x \in 1 .. d + 1 /\ \A w \in x + 1 .. d + 1 : w \in x + 1 .. z \/ w = d + 1
      BY <1>2, <2>5
    <3> QED BY <1>4, <2>1, <2>3, <2>5, <3>1 DEF LastMark
  <2> QED BY <2>4, <2>5
<1>9. CASE line.section # "none"
  <2>1. /\ Len(next) = s + 1 /\ next[s + 1] = line.section
        /\ \A y \in 1 .. s : next[y] = secs[y]
    <3>1. next = Append(secs, line.section)
      BY <1>9 DEF PushSection
    <3>2. line.section \in {"Included", "Excluded"}
      BY <1>7, <1>9
    <3> QED BY <1>6, <3>1, <3>2, AppendFacts DEF s
  <2>2. LastMark(q, d + 1, line.section)'
    <3>1. d + 1 \in 1 .. d + 1 /\ \A w \in d + 1 + 1 .. d + 1 : FALSE
      BY <1>2
    <3> QED BY <1>4, <1>9, <3>1 DEF LastMark
  <2>3. ASSUME NEW y \in 1 .. s + 1
        PROVE  LastMark(q, (d + 1) - (s + 1) + y, next[y])'
    <3>1. CASE y = s + 1
      <4>1. (d + 1) - (s + 1) + y = d + 1
        BY <1>2, <3>1
      <4> QED BY <2>1, <2>2, <3>1, <4>1
    <3>2. CASE y # s + 1
      <4>1. y \in 1 .. s /\ d - s + y \in 1 .. d /\ (d + 1) - (s + 1) + y = d - s + y
        BY <1>2, <3>2
      <4>2. next[y] = secs[y]
        BY <2>1, <4>1
      <4> QED BY <1>5, <1>8, <4>1, <4>2
    <3> QED BY <3>1, <3>2
  <2>4. \A x \in 1 .. (d + 1) - (s + 1) : x \in 1 .. d - s /\ x \in 1 .. d
    BY <1>2
  <2>5. s + 1 <= d + 1
    BY <1>2
  <2>6. Sectioned(q, next)'
    BY <1>3, <1>4, <1>5, <2>1, <2>3, <2>4, <2>5 DEF Sectioned
  <2> QED BY <2>6 DEF q
<1>10. CASE line.section = "none" /\ secs # <<>>
  <2> DEFINE top == secs[s]
  <2>1. s \in 1 .. s /\ top \in {"Included", "Excluded"} /\ Top(secs) = top
    BY <1>6, <1>10, TopFacts DEF s
  <2>2. /\ Len(next) = s + 1 /\ next[s + 1] = top
        /\ \A y \in 1 .. s : next[y] = secs[y]
    <3>1. next = Append(secs, top)
      BY <1>10, <2>1 DEF PushSection
    <3> QED BY <1>6, <2>1, <3>1, AppendFacts DEF s
  <2>3. LastMark(q, d + 1, top)'
    <3>1. d - s + s = d /\ d \in 1 .. d
      BY <1>2, <2>1
    <3>2. LastMark(p, d, top)
      BY <1>5, <2>1, <3>1
    <3> QED BY <1>8, <1>10, <3>1, <3>2
  <2> HIDE DEF top
  <2>4. ASSUME NEW y \in 1 .. s + 1
        PROVE  LastMark(q, (d + 1) - (s + 1) + y, next[y])'
    <3>1. CASE y = s + 1
      <4>1. (d + 1) - (s + 1) + y = d + 1
        BY <1>2, <3>1
      <4> QED BY <2>2, <2>3, <3>1, <4>1
    <3>2. CASE y # s + 1
      <4>1. y \in 1 .. s /\ d - s + y \in 1 .. d /\ (d + 1) - (s + 1) + y = d - s + y
        BY <1>2, <3>2
      <4>2. next[y] = secs[y]
        BY <2>2, <4>1
      <4> QED BY <1>5, <1>8, <4>1, <4>2
    <3> QED BY <3>1, <3>2
  <2>5. \A x \in 1 .. (d + 1) - (s + 1) : x \in 1 .. d - s /\ x \in 1 .. d
    BY <1>2
  <2>6. s + 1 <= d + 1
    BY <1>2
  <2>7. Sectioned(q, next)'
    BY <1>3, <1>4, <1>5, <2>2, <2>4, <2>5, <2>6 DEF Sectioned
  <2> QED BY <2>7 DEF q
<1>11. CASE line.section = "none" /\ secs = <<>>
  <2>1. next = <<>> /\ s = 0
    BY <1>11 DEF PushSection, s
  <2>2. \A x \in 1 .. (d + 1) - 0 : x = d + 1 \/ (x \in 1 .. d /\ x \in 1 .. d - s)
    <3>1. s = 0 /\ d \in Nat
      BY <1>2, <2>1
    <3> QED BY ONLY <3>1
  <2>3. Sectioned(q, next)'
    BY <1>2, <1>3, <1>4, <1>5, <1>11, <2>1, <2>2 DEF Sectioned
  <2> QED BY <2>3 DEF q
<1> QED BY <1>9, <1>10, <1>11

LEMMA SectionedPopped ==
  ASSUME TypeOK, NEW line \in Lines, Read(line), NEW n, n = Len(input),
         NEW p, Stacked(p, n), NEW secs, Sectioned(p, secs), p # <<>>,
         secs = sectionHighlight, NEW next, next = Pop(secs)
  PROVE  Sectioned(Pop(p), next)'
<1> DEFINE q == Pop(p)
           d == Len(p)
           s == Len(secs)
           t == Len(next)
<1>1. \A x \in 1 .. d : input'[p[x]] = input[p[x]]
  BY InputGrows, StackedFacts
<1>2. d \in Nat \ {0} /\ s \in Nat /\ s <= d
  BY StackedFacts, LenProperties, EmptySeq DEF Sectioned, TypeOK
<1>3. Len(q) = d - 1 /\ \A x \in 1 .. d - 1 : q[x] = p[x]
  <2>1. p \in Seq(Nat)
    BY StackedFacts
  <2>2. /\ Len(Pop(p)) = Len(p) - 1
        /\ \A x \in 1 .. Len(Pop(p)) : Pop(p)[x] = p[x]
    BY <2>1, PopFacts
  <2> QED BY <2>2
<1>4. \A x \in 1 .. d - 1 : input'[q[x]].section = input[p[x]].section
  <2>1. \A x \in 1 .. d - 1 : x \in 1 .. d
    BY <1>2
  <2> QED BY <1>1, <1>3, <2>1
<1>5. /\ \A x \in 1 .. d - s : input[p[x]].section = "none"
      /\ \A y \in 1 .. s : LastMark(p, d - s + y, secs[y])
  BY DEF Sectioned
<1>6. /\ t \in Nat /\ t = IF s = 0 THEN 0 ELSE s - 1
      /\ \A y \in 1 .. t : next[y] = secs[y]
  <2>1. secs \in Seq({"Included", "Excluded"})
    BY DEF TypeOK
  <2>2. /\ secs # <<>> => Len(Pop(secs)) = s - 1
        /\ \A y \in 1 .. Len(Pop(secs)) :
             Pop(secs)[y] = secs[y]
    BY <2>1, PopFacts
  <2>3. secs = <<>> <=> s = 0
    BY <2>1, EmptySeq
  <2>4. secs = <<>> => Pop(secs) = secs
    BY DEF Pop
  <2> QED BY <1>2, <2>2, <2>3, <2>4
<1> HIDE DEF q, d, s, t
<1>7. \A x \in 1 .. (d - 1) - t : x \in 1 .. d - s /\ x \in 1 .. d - 1
  BY <1>2, <1>6
<1>8. ASSUME NEW y \in 1 .. t
      PROVE  LastMark(q, (d - 1) - t + y, next[y])'
  <2>1. y \in 1 .. s /\ (d - 1) - t + y = d - s + y /\ d - s + y \in 1 .. d - 1
    BY <1>2, <1>6
  <2> DEFINE z == d - s + y
             mark == secs[y]
  <2>2. PICK x \in 1 .. z : /\ mark # "none" /\ input[p[x]].section = mark
                            /\ \A w \in x + 1 .. z : input[p[w]].section = "none"
    BY <1>5, <2>1 DEF LastMark
  <2> HIDE DEF z
  <2>3. z \in 1 .. d - 1
    BY <2>1 DEF z
  <2>4. x \in 1 .. d - 1 /\ \A w \in x + 1 .. z : w \in 1 .. d - 1
    BY <1>2, <2>3
  <2>5. /\ input'[q[x]].section = mark
        /\ \A w \in x + 1 .. z : input'[q[w]].section = "none"
    BY <1>4, <2>2, <2>4
  <2>6. LastMark(q, z, mark)'
    BY <2>2, <2>5 DEF LastMark
  <2> QED BY <1>6, <2>1, <2>6 DEF z
<1>9. t <= d - 1
  BY <1>2, <1>6
<1>10. Sectioned(q, next)'
  BY <1>3, <1>4, <1>5, <1>7, <1>8, <1>9 DEF Sectioned, t
<1> QED BY <1>10 DEF q

(* The starts on the stack are those without a match, so the top of the    *)
(* section stack is the mark in force.                                     *)
InForce ==
    TypeOK => \A n, p : \A secs \in Seq({"Included", "Excluded"}) :
        n = Len(input) /\ Stacked(p, n) /\ Sectioned(p, secs) =>
            (InSection(n) <=> secs # <<>> /\ Top(secs) = "Included")

LEMMA TopInForce == InForce /\ InForce'
<1>1. ASSUME TypeOK, NEW n, n = Len(input), NEW p, Stacked(p, n),
             NEW secs \in Seq({"Included", "Excluded"}), Sectioned(p, secs)
      PROVE  InSection(n) <=> secs # <<>> /\ Top(secs) = "Included"
  <2> DEFINE marked == {i \in OpenAt(StartLines, EndLines, n) : input[i].section # "none"}
  <2>1. InSection(n) <=> marked # {} /\ input[Max(marked)].section = "Included"
    BY DEF InSection
  <2>2. /\ Len(p) \in Nat /\ Len(secs) \in Nat
        /\ \A x \in 1 .. Len(p) : p[x] \in 1 .. n
        /\ \A x \in 1 .. Len(p) : \A y \in x + 1 .. Len(p) : p[x] < p[y]
    BY <1>1, StackedFacts, LenProperties
  <2>3. \A i : i \in marked <=> \E x \in 1 .. Len(p) : p[x] = i /\ input[p[x]].section # "none"
    <3>1. n \in Nat /\ n <= n /\ Marks(n, StartLines, EndLines) /\ StackOf(StartLines, EndLines, p, n)
      BY <1>1, FileMarks DEF Stacked
    <3>2. \A i : i \in OpenAt(StartLines, EndLines, n) <=> \E x \in 1 .. Len(p) : p[x] = i
      BY <3>1, OpenIsStack
    <3> QED BY <3>2
  <2> HIDE DEF marked
  <2>4. CASE secs = <<>>
    <3>1. \A x \in 1 .. Len(p) : input[p[x]].section = "none"
      <4>1. Len(p) - Len(secs) = Len(p)
        BY <2>2, <2>4
      <4> QED BY <1>1, <4>1 DEF Sectioned
    <3> QED BY <2>1, <2>3, <2>4, <3>1
  <2>5. CASE secs # <<>>
    <3> DEFINE s == Len(secs)
               mark == secs[s]
    <3>1. s \in 1 .. s /\ Top(secs) = mark
      BY <2>5, TopFacts
    <3>2. LastMark(p, Len(p), mark)
      <4>1. LastMark(p, Len(p) - s + s, mark)
        BY <1>1, <3>1 DEF Sectioned
      <4>2. Len(p) - s + s = Len(p)
        BY <2>2
      <4> QED BY <4>1, <4>2
    <3> HIDE DEF s, mark
    <3>3. PICK x \in 1 .. Len(p) :
            /\ mark # "none" /\ input[p[x]].section = mark
            /\ \A w \in x + 1 .. Len(p) : input[p[w]].section = "none"
      BY <3>2 DEF LastMark
    <3>4. p[x] \in marked /\ p[x] \in Nat
      BY <2>2, <2>3, <3>3
    <3>5. ASSUME NEW i \in marked PROVE i \in Nat /\ i <= p[x]
      <4>1. PICK w \in 1 .. Len(p) : p[w] = i /\ input[p[w]].section # "none"
        BY <2>3
      <4>2. w \notin x + 1 .. Len(p)
        BY <3>3, <4>1
      <4>3. w = x \/ x \in w + 1 .. Len(p)
        BY <2>2, <4>2
      <4> QED BY <2>2, <4>1, <4>3
    <3>6. Max(marked) = p[x]
      <4>1. \A y \in marked : p[x] >= y
        BY <3>4, <3>5
      <4>2. Max(marked) \in marked /\ \A y \in marked : Max(marked) >= y
        BY <3>4, <4>1 DEF Max
      <4> QED BY <3>4, <3>5, <4>2
    <3> QED BY <2>1, <2>5, <3>1, <3>3, <3>4, <3>6
  <2> QED BY <2>4, <2>5
<1>2. InForce
  <2> SUFFICES ASSUME TypeOK, NEW n, NEW p, NEW secs \in Seq({"Included", "Excluded"}),
                      n = Len(input), Stacked(p, n), Sectioned(p, secs)
               PROVE  InSection(n) <=> secs # <<>> /\ Top(secs) = "Included"
    BY DEF InForce
  <2> QED BY <1>1
<1> QED BY <1>2, PTL

StackInv ==
    \A n \in Nat : n = Len(input) =>
        \E p \in Seq(Nat), secs \in Seq({"Included", "Excluded"}) :
            Stacked(p, n) /\ secs = sectionHighlight /\ Sectioned(p, secs)

LEMMA StackStep ==
  ASSUME TypeOK, TypeOK', KeptInv, StackInv, NEW line \in Lines, Read(line),
         NEW n, n = Len(input), Effect(line, n)
  PROVE  \E p \in Seq(Nat), secs \in Seq({"Included", "Excluded"}) :
            /\ Stacked(p, n + 1)' /\ secs = sectionHighlight' /\ Sectioned(p, secs)'
            /\ StackInv'
<1>1. n \in Nat /\ Len(input') = n + 1
  BY InputGrows
<1>2. PICK p \in Seq(Nat), secs \in Seq({"Included", "Excluded"}) :
        Stacked(p, n) /\ secs = sectionHighlight /\ Sectioned(p, secs)
  BY <1>1 DEF StackInv
<1>3. sectionHighlight' \in Seq({"Included", "Excluded"})
  BY DEF TypeOK
<1>4. ASSUME NEW q \in Seq(Nat), NEW next, next = sectionHighlight',
             Stacked(q, n + 1)', Sectioned(q, next)'
      PROVE  \E r \in Seq(Nat), top \in Seq({"Included", "Excluded"}) :
                /\ Stacked(r, n + 1)' /\ top = sectionHighlight' /\ Sectioned(r, top)'
                /\ StackInv'
  BY <1>1, <1>3, <1>4 DEF StackInv
<1>5. CASE Unmarked(n)
  <2>1. /\ ~Starts(n + 1)' /\ ~Ends(n + 1)' /\ UNCHANGED <<snippets, sectionHighlight>>
    BY <1>5 DEF Unmarked
  <2>2. Stacked(p, n + 1)'
    BY <1>2, <2>1, StackedUnmarked
  <2>3. Sectioned(p, secs)'
    BY <1>2, SectionedUnmarked
  <2> QED BY <1>2, <1>4, <2>1, <2>2, <2>3
<1>6. PICK next \in Seq({"Included", "Excluded"}) : next = sectionHighlight'
  BY <1>3
<1>7. CASE Opened(line, n)
  <2> DEFINE q == Append(p, n + 1)
  <2>1. q \in Seq(Nat) /\ next = PushSection(line)
    BY <1>1, <1>2, <1>6, <1>7, AppendFacts DEF Opened
  <2>2. Stacked(q, n + 1)'
    BY <1>2, <1>7, StackedPushed
  <2>3. Sectioned(q, next)'
    BY <1>2, <2>1, SectionedPushed
  <2> QED BY <1>4, <1>6, <2>1, <2>2, <2>3
<1>8. CASE ClosedLast(n)
  <2> DEFINE q == Pop(p)
  <2>1. q \in Seq(Nat) /\ next = Pop(secs)
    BY <1>2, <1>6, <1>8, PopFacts DEF ClosedLast
  <2>2. Stacked(q, n + 1)'
    BY <1>2, <1>8, TopMatches
  <2>3. p # <<>>
    BY <1>2, <1>8, TopMatches
  <2>4. Sectioned(q, next)'
    BY <1>2, <2>1, <2>3, SectionedPopped
  <2> QED BY <1>4, <1>6, <2>1, <2>2, <2>4
<1>9. CASE Stray(n)
  <2>1. /\ ~Starts(n + 1)' /\ Ends(n + 1)' /\ snippets = <<>>
        /\ UNCHANGED snippets /\ sectionHighlight' = Pop(sectionHighlight)
    BY <1>9 DEF Stray
  <2>2. Stacked(p, n + 1)'
    BY <1>2, <2>1, StackedUnmarked
  <2>3. secs = <<>>
    <3>1. Len(p) = 0 /\ Len(secs) <= Len(p) /\ Len(secs) \in Nat
      BY <1>2, <2>1, LenProperties DEF Stacked, Sectioned
    <3> QED BY <3>1, EmptySeq
  <2>4. sectionHighlight' = sectionHighlight
    BY <1>2, <2>1, <2>3 DEF Pop
  <2>5. Sectioned(p, secs)'
    BY <1>2, <2>4, SectionedUnmarked
  <2> QED BY <1>2, <1>4, <2>2, <2>4, <2>5
<1> QED BY <1>5, <1>7, <1>8, <1>9 DEF Effect

-----------------------------------------------------------------------------
(* The kept lines under a mark +* are highlighted; and no other position   *)
(* is, unless for a //*.                                                   *)
Highlighted == Range(mHighlightedLines)

HighlightInv ==
    opt.mHighlightLines =>
        /\ \A i \in LinesRead : IsKept(i) /\ InSection(i) => Position(i) \in Highlighted
        /\ \A h \in Highlighted : \E i \in LinesRead :
             /\ h = Position(i)
             /\ input[i].highlight \/ (IsKept(i) /\ InSection(i))

LEMMA InSectionStays ==
  ASSUME TypeOK, NEW line \in Lines, Read(line), NEW n, n = Len(input), NEW k \in 1 .. n
  PROVE  InSection(k)' <=> InSection(k)
<1>1. n \in Nat /\ \A i \in 1 .. n : input'[i] = input[i]
  BY InputGrows
<1>2. PICK S, E, T, F : S = StartLines /\ E = EndLines /\ T = StartLines' /\ F = EndLines'
  OBVIOUS
<1> DEFINE marked == {i \in OpenAt(S, E, k) : input[i].section # "none"}
           later == {i \in OpenAt(T, F, k) : input'[i].section # "none"}
<1>3. \A i \in 1 .. k : input'[i] = input[i]
  BY <1>1
<1>4. later = marked /\ marked \subseteq 1 .. k
  <2>1. OneMore(n, S, E, T, F)
    BY <1>2, MarksGrow
  <2>2. OpenAt(T, F, k) = OpenAt(S, E, k)
    BY <2>1, OpenStays
  <2>3. \A i \in OpenAt(S, E, k) : i \in S /\ i <= k
    BY DEF OpenAt
  <2>4. \A i \in S : i \in 1 .. n
    BY <1>2 DEF StartLines, LinesRead
  <2>5. \A i \in OpenAt(S, E, k) : i \in 1 .. k
    BY <1>1, <2>3, <2>4
  <2> QED BY <1>3, <2>2, <2>5
<1>5. /\ InSection(k) <=> marked # {} /\ input[Max(marked)].section = "Included"
      /\ InSection(k)' <=> later # {} /\ input'[Max(later)].section = "Included"
  BY <1>2 DEF InSection
<1> HIDE DEF marked, later
<1>7. CASE Max(marked) \in 1 .. k
  BY <1>3, <1>4, <1>5, <1>7
<1>8. CASE marked = {}
  BY <1>4, <1>5, <1>8
<1>9. ASSUME marked # {} PROVE Max(marked) \in 1 .. k
  <2>1. marked \in SUBSET (0 .. k) /\ k \in Nat
    BY <1>1, <1>4
  <2>2. PICK m \in marked : \A i \in marked : i <= m
    BY <1>9, <2>1, GreatestNumber
  <2>3. \A i \in marked : m >= i
    BY <2>1, <2>2
  <2> QED BY <1>4, <2>2, <2>3 DEF Max
<1> QED BY <1>7, <1>8, <1>9

LEMMA RangeAppend ==
  ASSUME NEW S, NEW s \in Seq(S), NEW e \in S
  PROVE  Range(Append(s, e)) = Range(s) \cup {e}
<1>1. /\ Len(s) \in Nat /\ DOMAIN s = 1 .. Len(s) /\ DOMAIN Append(s, e) = 1 .. Len(s) + 1
      /\ Append(s, e)[Len(s) + 1] = e
      /\ \A i \in 1 .. Len(s) : Append(s, e)[i] = s[i]
  BY AppendFacts, LenProperties
<1>2. /\ \A i \in 1 .. Len(s) + 1 : i \in 1 .. Len(s) \/ i = Len(s) + 1
      /\ \A i \in 1 .. Len(s) : i \in 1 .. Len(s) + 1
      /\ Len(s) + 1 \in 1 .. Len(s) + 1
  BY <1>1
<1> QED BY <1>1, <1>2 DEF Range

LEMMA HighlightStep ==
  ASSUME TypeOK, TypeOK', KeptInv, StackInv, HighlightInv, NEW line \in Lines,
         Read(line), NEW n, n = Len(input), Stored(line, n), Effect(line, n)
  PROVE  HighlightInv'
<1> SUFFICES ASSUME opt.mHighlightLines
             PROVE /\ \A i \in LinesRead' : (IsKept(i) /\ InSection(i))' => Position(i)' \in Highlighted'
                   /\ \A h \in Highlighted' : \E i \in LinesRead' :
                        /\ h = Position(i)'
                        /\ input'[i].highlight \/ (IsKept(i)' /\ InSection(i)')
  BY InputGrows DEF HighlightInv
<1>1. /\ n \in Nat /\ Len(input') = n + 1 /\ input'[n + 1] = line
      /\ \A i \in 1 .. n : input'[i] = input[i]
  BY InputGrows
<1>2. PICK p \in Seq(Nat), secs \in Seq({"Included", "Excluded"}) :
        Stacked(p, n + 1)' /\ secs = sectionHighlight' /\ Sectioned(p, secs)'
  BY StackStep
<1>3. InSection(n + 1)' <=> sectionHighlight' # <<>> /\ Top(sectionHighlight') = "Included"
  <2>1. InSection(n + 1)' <=> secs # <<>> /\ Top(secs) = "Included"
    BY <1>1, <1>2, TopInForce DEF InForce
  <2> QED BY <1>2, <2>1
<1>4. \A i \in 1 .. n : /\ IsKept(i)' <=> IsKept(i)
                        /\ InSection(i)' <=> InSection(i)
                        /\ Position(i)' = Position(i)
  <2>1. \A i \in 1 .. n : i \in 1 .. n + 1
    BY <1>1
  <2> QED BY <2>1, LinesStay, InSectionStays
<1>5. Position(n + 1)' = lineNumber /\ lineNumber \in Nat
  <2>1. n + 1 \in 1 .. n + 1
    BY <1>1
  <2> QED BY <1>1, <2>1, LinesStay DEF KeptInv, TypeOK
<1>6. /\ \A i \in 1 .. n : IsKept(i) /\ InSection(i) => Position(i) \in Highlighted
      /\ \A h \in Highlighted : \E i \in 1 .. n :
           h = Position(i) /\ (input[i].highlight \/ (IsKept(i) /\ InSection(i)))
  BY DEF HighlightInv, LinesRead
<1> DEFINE starred == Range(LineHighlight(line))
<1>7. /\ Highlighted \subseteq starred
      /\ starred \subseteq Highlighted \cup {lineNumber}
      /\ lineNumber \in starred \ Highlighted => line.highlight
      /\ LineHighlight(line) \in Seq(Nat)
  <2>1. mHighlightedLines \in Seq(Nat)
    BY DEF TypeOK
  <2>2. CASE line.highlight
    <3>1. LineHighlight(line) = Append(mHighlightedLines, lineNumber)
      BY <2>2 DEF LineHighlight
    <3> DEFINE longer == Append(mHighlightedLines, lineNumber)
    <3>2. Range(longer) = Highlighted \cup {lineNumber}
      BY <1>5, <2>1, RangeAppend DEF Highlighted
    <3>3. longer \in Seq(Nat)
      BY <1>5, <2>1, AppendFacts
    <3> HIDE DEF longer
    <3>4. LineHighlight(line) = longer
      BY <3>1 DEF longer
    <3> QED BY <2>2, <3>2, <3>3, <3>4
  <2>3. CASE ~line.highlight
    BY <2>1, <2>3 DEF LineHighlight, Highlighted
  <2> QED BY <2>2, <2>3
<1>8. /\ Highlighted \subseteq Highlighted'
      /\ Highlighted' \subseteq Highlighted \cup {lineNumber}
      /\ lineNumber \in Highlighted' \ Highlighted =>
           line.highlight \/ (IsKept(n + 1)' /\ InSection(n + 1)')
      /\ IsKept(n + 1)' /\ InSection(n + 1)' => lineNumber \in Highlighted'
  <2>1. CASE /\ IsKept(n + 1)' /\ InSection(n + 1)'
             /\ mHighlightedLines' = Append(LineHighlight(line), lineNumber)
    <3>1. Highlighted' = starred \cup {lineNumber}
      <4> DEFINE longer == Append(LineHighlight(line), lineNumber)
      <4>1. Range(longer) = starred \cup {lineNumber}
        BY <1>5, <1>7, RangeAppend
      <4> HIDE DEF longer
      <4>2. mHighlightedLines' = longer
        BY <2>1 DEF longer
      <4> QED BY <4>1, <4>2 DEF Highlighted
    <3> HIDE DEF starred
    <3> QED BY <1>7, <2>1, <3>1
  <2>2. CASE /\ ~(IsKept(n + 1)' /\ InSection(n + 1)')
             /\ mHighlightedLines' = LineHighlight(line)
    <3>1. Highlighted' = starred
      BY <2>2 DEF Highlighted
    <3> HIDE DEF starred
    <3> QED BY <1>7, <2>2, <3>1
  <2>3. CASE ~IsKept(n + 1)' /\ mHighlightedLines' = mHighlightedLines
    BY <2>3 DEF Highlighted
  <2>4. \/ /\ IsKept(n + 1)' /\ InSection(n + 1)'
           /\ mHighlightedLines' = Append(LineHighlight(line), lineNumber)
        \/ /\ ~(IsKept(n + 1)' /\ InSection(n + 1)')
           /\ mHighlightedLines' = LineHighlight(line)
        \/ ~IsKept(n + 1)' /\ mHighlightedLines' = mHighlightedLines
    BY <1>3 DEF Stored, Keep
  <2> QED BY <2>1, <2>2, <2>3, <2>4
<1> HIDE DEF starred
<1>9. /\ LinesRead' = 1 .. n + 1
      /\ \A i \in 1 .. n + 1 : i \in 1 .. n \/ i = n + 1
      /\ n + 1 \in 1 .. n + 1 /\ \A i \in 1 .. n : i \in 1 .. n + 1
  BY <1>1 DEF LinesRead
<1>10. ASSUME NEW i \in LinesRead', IsKept(i)', InSection(i)'
       PROVE  Position(i)' \in Highlighted'
  <2>1. CASE i \in 1 .. n
    BY <1>4, <1>6, <1>8, <1>10, <2>1
  <2>2. CASE i = n + 1
    BY <1>5, <1>8, <1>10, <2>2
  <2> QED BY <1>9, <2>1, <2>2
<1>11. ASSUME NEW h \in Highlighted'
       PROVE  \E i \in LinesRead' : /\ h = Position(i)'
                                    /\ input'[i].highlight \/ (IsKept(i)' /\ InSection(i)')
  <2>1. CASE h \in Highlighted
    <3>1. PICK i \in 1 .. n : /\ h = Position(i)
                              /\ input[i].highlight \/ (IsKept(i) /\ InSection(i))
      BY <1>6, <2>1
    <3> QED BY <1>1, <1>4, <1>9, <3>1
  <2>2. CASE h \notin Highlighted
    <3>1. h = lineNumber /\ (line.highlight \/ (IsKept(n + 1)' /\ InSection(n + 1)'))
      BY <1>8, <1>11, <2>2
    <3> QED BY <1>1, <1>5, <1>9, <3>1
  <2> QED BY <2>1, <2>2
<1> QED BY <1>10, <1>11

-----------------------------------------------------------------------------
(* Reading a line leaves the pairs of marks as they are, or adds the one   *)
(* of the start on top of the stack and this line.                         *)
NoPair(n) ==
    /\ UNCHANGED mSnippets
    /\ \A i, j \in 1 .. n + 1 :
         Matches(i, j)' <=> i \in 1 .. n /\ j \in 1 .. n /\ Matches(i, j)

NewPair(n, b) ==
    /\ UNCHANGED excludes
    /\ mSnippets' = Bind(mSnippets, NameAt(b), Closed(Position(b), NameAt(b)))
    /\ \A i, j \in 1 .. n + 1 :
         Matches(i, j)' <=> \/ i \in 1 .. n /\ j \in 1 .. n /\ Matches(i, j)
                            \/ i = b /\ j = n + 1

UniquePairs ==
    TypeOK => \A i, j : Matches(i, j) => \A k : Matches(k, j) => k = i

LEMMA PairsAreUnique == UniquePairs /\ UniquePairs'
<1>1. UniquePairs
  BY MatchesInFile DEF UniquePairs
<1> QED BY <1>1, PTL

LEMMA PairsStep ==
  ASSUME TypeOK, TypeOK', StackInv, NEW line \in Lines, Read(line), NEW n, n = Len(input),
         Effect(line, n)
  PROVE  NoPair(n) \/ \E b \in 1 .. n : NewPair(n, b)
<1>1. n \in Nat
  BY InputGrows
<1>2. PICK p \in Seq(Nat) : Stacked(p, n)
  BY <1>1 DEF StackInv
<1>3. ASSUME NEW i \in 1 .. n + 1, NEW j \in 1 .. n + 1
      PROVE  /\ i \in 1 .. n /\ j \in 1 .. n => (Matches(i, j)' <=> Matches(i, j))
             /\ Matches(i, j)' => i \in 1 .. n /\ (j \in 1 .. n \/ (j = n + 1 /\ Ends(n + 1)'))
  <2>1. Matches(i, j)' => i < j /\ Ends(j)'
    BY DEF Matches, Matched, EndLines
  <2>2. i < j => i \in 1 .. n /\ (j \in 1 .. n \/ j = n + 1)
    BY <1>1
  <2>3. \A k \in 1 .. n : k # n + 1
    BY <1>1
  <2>4. i \in 1 .. n /\ j \in 1 .. n => (Matches(i, j)' <=> Matches(i, j))
    BY <2>3, PairsStay
  <2>5. j = n + 1 \/ j \in 1 .. n
    BY <1>1
  <2> QED BY <2>1, <2>2, <2>4, <2>5
<1>4. CASE ~Ends(n + 1)' /\ UNCHANGED mSnippets
  BY <1>3, <1>4 DEF NoPair
<1>5. CASE Stray(n)
  <2>1. \A i \in 1 .. n : ~Matches(i, n + 1)'
    BY <1>2, <1>5, StrayMatchesNothing DEF Stray
  <2> QED BY <1>3, <1>5, <2>1 DEF NoPair, Stray
<1>6. CASE ClosedLast(n)
  <2> DEFINE b == p[Len(p)]
  <2>1. /\ b \in 1 .. n /\ Matches(b, n + 1)'
        /\ Top(snippets) = <<Position(b), NameAt(b)>>
    BY <1>2, <1>6, TopMatches
  <2> HIDE DEF b
  <2>2. \A i \in 1 .. n : Matches(i, n + 1)' => i = b
    BY <2>1, PairsAreUnique DEF UniquePairs
  <2>3. mSnippets' = Bind(mSnippets, NameAt(b), Closed(Position(b), NameAt(b)))
    BY <1>6, <2>1 DEF ClosedLast
  <2>4. \A i, j \in 1 .. n + 1 :
          Matches(i, j)' <=> \/ i \in 1 .. n /\ j \in 1 .. n /\ Matches(i, j)
                             \/ i = b /\ j = n + 1
    BY <1>3, <2>1, <2>2
  <2>5. NewPair(n, b)
    BY <1>6, <2>3, <2>4 DEF NewPair, ClosedLast
  <2> QED BY <2>1, <2>5
<1> QED BY <1>4, <1>5, <1>6 DEF Effect, Unmarked, Opened

(* What the starts of a name ask to exclude is collected under the name    *)
(* and reaches the snippet with each end.                                  *)
Asked(m, x, i) ==
    Starts(i) /\ NameAt(i) = m /\ input[i].name # NoName /\ x \in input[i].minus

AskedInv == \A m \in Names : \A x : x \in excludes[m] <=> \E i \in LinesRead : Asked(m, x, i)

ExcludesInv ==
    /\ \A m \in DOMAIN mSnippets : mSnippets[m].mExcludes \subseteq excludes[m]
    /\ \A i, j \in LinesRead : Matches(i, j) =>
         /\ NameAt(i) \in DOMAIN mSnippets
         /\ \A x : Asked(NameAt(i), x, i) => x \in mSnippets[NameAt(i)].mExcludes

LEMMA NameType == TypeOK => \A i \in LinesRead : NameAt(i) \in Names
<1> SUFFICES ASSUME TypeOK, NEW i \in LinesRead PROVE NameAt(i) \in Names
  OBVIOUS
<1>1. input[i] \in LineShape
  BY LinesAssumption, ElementOfSeq DEF TypeOK, LinesRead
<1>2. input[i].name \in Names \cup {NoName}
  BY <1>1 DEF LineShape
<1> QED BY <1>2, ScopeType, NamesAssumption DEF NameAt

LEMMA AskedStays ==
  ASSUME TypeOK, NEW line \in Lines, Read(line), NEW n, n = Len(input), NEW i \in 1 .. n,
         NEW m, NEW x
  PROVE  Asked(m, x, i)' <=> Asked(m, x, i)
<1>1. input'[i] = input[i]
  BY InputGrows
<1> QED BY <1>1, LinesStay DEF Asked

LEMMA AskedStep ==
  ASSUME TypeOK, TypeOK', AskedInv, NEW line \in Lines, Read(line), NEW n, n = Len(input),
         Effect(line, n)
  PROVE  AskedInv' /\ \A m \in Names : excludes[m] \subseteq excludes'[m]
<1>1. n \in Nat /\ Len(input') = n + 1 /\ input'[n + 1] = line
  BY InputGrows
<1>2. ASSUME NEW m \in Names, NEW x
      PROVE  (\E i \in LinesRead' : Asked(m, x, i)') <=>
               (\E i \in LinesRead : Asked(m, x, i)) \/ Asked(m, x, n + 1)'
  <2>1. \A i \in 1 .. n : Asked(m, x, i)' <=> Asked(m, x, i)
    BY AskedStays
  <2>2. /\ \A i \in 1 .. n + 1 : i \in 1 .. n \/ i = n + 1
        /\ n + 1 \in 1 .. n + 1 /\ \A i \in 1 .. n : i \in 1 .. n + 1
    BY <1>1
  <2> QED BY <1>1, <2>1, <2>2 DEF LinesRead
<1>3. ASSUME NEW m \in Names, NEW x
      PROVE  x \in excludes'[m] <=> x \in excludes[m] \/ Asked(m, x, n + 1)'
  <2>1. CASE ~Starts(n + 1)' /\ UNCHANGED excludes
    BY <2>1 DEF Asked
  <2>2. CASE Opened(line, n)
    <3>1. NameAt(n + 1)' \in Names
      <4>1. n + 1 \in LinesRead'
        BY <1>1 DEF LinesRead
      <4>2. (TypeOK => \A i \in LinesRead : NameAt(i) \in Names)'
        BY NameType, PTL
      <4> QED BY <4>1, <4>2
    <3>2. Asked(m, x, n + 1)' <=> NameAt(n + 1)' = m /\ line.name # NoName /\ x \in line.minus
      BY <1>1, <2>2 DEF Asked, Opened
    <3>3. CASE line.name = NoName
      BY <2>2, <3>2, <3>3 DEF Opened
    <3>4. CASE line.name # NoName
      <4>1. excludes' = [excludes EXCEPT ![NameAt(n + 1)'] = @ \cup line.minus]
        BY <2>2, <3>4 DEF Opened
      <4>2. excludes'[m] = IF m = NameAt(n + 1)' THEN excludes[m] \cup line.minus
                           ELSE excludes[m]
        BY <3>1, <4>1 DEF TypeOK
      <4> QED BY <3>2, <3>4, <4>2
    <3> QED BY <3>3, <3>4
  <2> QED BY <2>1, <2>2 DEF Effect, Unmarked, ClosedLast, Stray
<1> QED BY <1>2, <1>3 DEF AskedInv

(* What an end makes of the snippet it closes, spans apart.                *)
LEMMA ClosedFacts ==
  ASSUME TypeOK, NEW name \in Names, NEW start \in Nat
  PROVE  /\ excludes[name] \subseteq Closed(start, name).mExcludes
         /\ Closed(start, name).mExcludes \subseteq
              excludes[name] \cup (IF name \in DOMAIN mSnippets
                                   THEN mSnippets[name].mExcludes ELSE {})
         /\ name \in DOMAIN mSnippets =>
              mSnippets[name].mExcludes \subseteq Closed(start, name).mExcludes
<1>1. CASE name \in DOMAIN mSnippets
  <2>1. mSnippets[name] \in Snippet
    BY <1>1 DEF TypeOK
  <2>2. Closed(start, name).mExcludes = mSnippets[name].mExcludes \cup excludes[name]
    BY <1>1, <2>1 DEF Closed, Snippet
  <2> QED BY <1>1, <2>2
<1>2. CASE name \notin DOMAIN mSnippets
  BY <1>2 DEF Closed
<1> QED BY <1>1, <1>2

LEMMA ExcludesStep ==
  ASSUME TypeOK, TypeOK', AskedInv, ExcludesInv, NEW line \in Lines, Read(line),
         NEW n, n = Len(input), Effect(line, n),
         NoPair(n) \/ \E b \in 1 .. n : NewPair(n, b)
  PROVE  ExcludesInv'
<1>1. n \in Nat /\ LinesRead = 1 .. n /\ LinesRead' = 1 .. n + 1
  BY InputGrows DEF LinesRead
<1>2. \A m \in Names : excludes[m] \subseteq excludes'[m]
  BY AskedStep
<1>3. \A i \in 1 .. n : /\ i \in 1 .. n + 1 /\ NameAt(i)' = NameAt(i) /\ NameAt(i) \in Names
                        /\ \A m, x : Asked(m, x, i)' <=> Asked(m, x, i)
  BY <1>1, LinesStay, NameType, AskedStays
<1>4. /\ DOMAIN mSnippets \subseteq Names
      /\ \A m \in DOMAIN mSnippets : mSnippets[m].mExcludes \subseteq excludes[m]
      /\ \A i, j \in 1 .. n : Matches(i, j) =>
           /\ NameAt(i) \in DOMAIN mSnippets
           /\ \A x : Asked(NameAt(i), x, i) => x \in mSnippets[NameAt(i)].mExcludes
  BY <1>1 DEF ExcludesInv, TypeOK
<1>5. ASSUME NEW i \in 1 .. n,
             NameAt(i) \in DOMAIN mSnippets',
             \A x : Asked(NameAt(i), x, i) => x \in mSnippets'[NameAt(i)].mExcludes
      PROVE  /\ NameAt(i)' \in DOMAIN mSnippets'
             /\ \A x : Asked(NameAt(i), x, i)' => x \in mSnippets'[NameAt(i)'].mExcludes
  BY <1>3, <1>5
<1>6. SUFFICES /\ \A m \in DOMAIN mSnippets' : mSnippets'[m].mExcludes \subseteq excludes'[m]
               /\ \A i, j \in 1 .. n + 1 : Matches(i, j)' =>
                    /\ i \in 1 .. n /\ NameAt(i) \in DOMAIN mSnippets'
                    /\ \A x : Asked(NameAt(i), x, i) => x \in mSnippets'[NameAt(i)].mExcludes
  <2>1. ASSUME NEW i \in 1 .. n + 1, NEW j \in 1 .. n + 1, Matches(i, j)'
        PROVE  /\ NameAt(i)' \in DOMAIN mSnippets'
               /\ \A x : Asked(NameAt(i), x, i)' => x \in mSnippets'[NameAt(i)'].mExcludes
    BY <1>5, <1>6, <2>1
  <2> QED BY <1>1, <1>6, <2>1 DEF ExcludesInv
<1>7. CASE NoPair(n)
  BY <1>2, <1>4, <1>7 DEF NoPair
<1>8. ASSUME NEW b \in 1 .. n, NewPair(n, b)
      PROVE /\ \A m \in DOMAIN mSnippets' : mSnippets'[m].mExcludes \subseteq excludes'[m]
            /\ \A i, j \in 1 .. n + 1 : Matches(i, j)' =>
                 /\ i \in 1 .. n /\ NameAt(i) \in DOMAIN mSnippets'
                 /\ \A x : Asked(NameAt(i), x, i) => x \in mSnippets'[NameAt(i)].mExcludes
  <2> DEFINE name == NameAt(b)
             new == Closed(Position(b), NameAt(b))
  <2>1. /\ mSnippets' = Bind(mSnippets, name, new) /\ excludes' = excludes
        /\ name \in Names
    BY <1>3, <1>8 DEF NewPair
  <2>2. Position(b) \in Nat
    <3>1. b \in Nat \ {0}
      OBVIOUS
    <3> QED BY <3>1, PositionStep DEF PositionSteps
  <2>3. /\ excludes[name] \subseteq new.mExcludes
        /\ new.mExcludes \subseteq excludes[name]
        /\ name \in DOMAIN mSnippets => mSnippets[name].mExcludes \subseteq new.mExcludes
    BY <1>4, <2>1, <2>2, ClosedFacts
  <2> HIDE DEF new
  <2>4. /\ DOMAIN mSnippets' = DOMAIN mSnippets \cup {name}
        /\ mSnippets'[name] = new
        /\ \A m \in DOMAIN mSnippets : m # name => mSnippets'[m] = mSnippets[m]
    BY <2>1 DEF Bind
  <2>5. \A x : Asked(name, x, b) => x \in excludes[name]
    BY <1>1, <2>1 DEF AskedInv
  <2> HIDE DEF name
  <2>6. \A m \in DOMAIN mSnippets : mSnippets[m].mExcludes \subseteq mSnippets'[m].mExcludes
    BY <2>3, <2>4
  <2>7. \A m \in DOMAIN mSnippets' : mSnippets'[m].mExcludes \subseteq excludes'[m]
    BY <1>4, <2>1, <2>3, <2>4
  <2>8. ASSUME NEW i \in 1 .. n + 1, NEW j \in 1 .. n + 1, Matches(i, j)'
        PROVE  /\ i \in 1 .. n /\ NameAt(i) \in DOMAIN mSnippets'
               /\ \A x : Asked(NameAt(i), x, i) => x \in mSnippets'[NameAt(i)].mExcludes
    <3>1. CASE i \in 1 .. n /\ j \in 1 .. n /\ Matches(i, j)
      BY <1>4, <2>4, <2>6, <3>1
    <3>2. CASE i = b
      BY <2>3, <2>4, <2>5, <3>2 DEF name
    <3> QED BY <1>8, <2>8, <3>1, <3>2 DEF NewPair
  <2> QED BY <2>7, <2>8
<1> QED BY <1>7, <1>8

-----------------------------------------------------------------------------
(* The spans of a snippet are those of its pairs, in the order of the ends *)
(* S of its name.                                                          *)
AllEnds(m, S) ==
    \A j : j \in S <=> j \in LinesRead /\ \E i \in LinesRead : Matches(i, j) /\ NameAt(i) = m

Recorded(m, S) ==
    IF m \in DOMAIN mSnippets
    THEN /\ Len(mSnippets[m].mLineSpans) = Cardinality(S)
         /\ \A i, j \in LinesRead : Matches(i, j) /\ NameAt(i) = m =>
              mSnippets[m].mLineSpans[Place(j, S)] = <<Position(i), Position(j)>>
    ELSE S = {}

RecordedInv ==
    \A m \in Names :
        m # "all" \/ pc # "ok" \/ m \in UsedNames =>
            \E S : AllEnds(m, S) /\ Recorded(m, S)

LEMMA ClosedSpans ==
  ASSUME TypeOK, NEW name \in Names, NEW start \in Nat
  PROVE  Closed(start, name).mLineSpans =
           IF name \in DOMAIN mSnippets
           THEN Append(mSnippets[name].mLineSpans, <<start, lineNumber>>)
           ELSE <<<<start, lineNumber>>>>
<1>1. CASE name \in DOMAIN mSnippets
  <2>1. mSnippets[name] \in Snippet
    BY <1>1 DEF TypeOK
  <2> QED BY <1>1, <2>1 DEF Closed, Snippet
<1>2. CASE name \notin DOMAIN mSnippets
  BY <1>2 DEF Closed
<1> QED BY <1>1, <1>2

LEMMA RecordedStep ==
  ASSUME TypeOK, KeptInv, NEW line \in Lines, Read(line), NEW n, n = Len(input),
         NEW m \in Names, NEW S, AllEnds(m, S), Recorded(m, S),
         NoPair(n) \/ \E b \in 1 .. n : NewPair(n, b)
  PROVE  \E T : AllEnds(m, T)' /\ Recorded(m, T)'
<1>1. n \in Nat /\ LinesRead = 1 .. n /\ LinesRead' = 1 .. n + 1
  BY InputGrows DEF LinesRead
<1>2. \A i \in 1 .. n : /\ i \in 1 .. n + 1 /\ NameAt(i)' = NameAt(i)
                        /\ Position(i)' = Position(i) /\ Position(i) \in Nat
                        /\ NameAt(i) \in Names
  <2>1. \A i \in 1 .. n : i \in 1 .. n + 1 /\ i \in Nat \ {0}
    BY <1>1
  <2> QED BY <1>1, <2>1, LinesStay, NameType, PositionStep DEF PositionSteps
<1>3. Position(n + 1)' = lineNumber /\ lineNumber \in Nat /\ n + 1 \in 1 .. n + 1
  <2>1. n + 1 \in 1 .. n + 1
    BY <1>1
  <2> QED BY <1>1, <2>1, LinesStay DEF KeptInv, TypeOK
<1>4. \A j : j \in S <=> j \in 1 .. n /\ \E i \in 1 .. n : Matches(i, j) /\ NameAt(i) = m
  BY <1>1 DEF AllEnds
<1>5. S \in SUBSET (1 .. n)
  BY <1>4
(* No pair of the name m has been added.                                   *)
<1>6. ASSUME \A i, j \in 1 .. n + 1 :
               Matches(i, j)' /\ NameAt(i)' = m <=>
                 i \in 1 .. n /\ j \in 1 .. n /\ Matches(i, j) /\ NameAt(i) = m,
             m \in DOMAIN mSnippets' <=> m \in DOMAIN mSnippets,
             m \in DOMAIN mSnippets => mSnippets'[m] = mSnippets[m]
      PROVE  AllEnds(m, S)' /\ Recorded(m, S)'
  <2>1. ASSUME NEW j
        PROVE  j \in S <=> /\ j \in 1 .. n + 1
                           /\ \E i \in 1 .. n + 1 : Matches(i, j)' /\ NameAt(i)' = m
    BY <1>2, <1>4, <1>6
  <2>2. AllEnds(m, S)'
    BY <1>1, <2>1 DEF AllEnds
  <2>3. CASE m \notin DOMAIN mSnippets
    <3>1. m \notin DOMAIN mSnippets' /\ S = {}
      BY <1>6, <2>3 DEF Recorded
    <3> QED BY <2>2, <3>1 DEF Recorded
  <2>4. CASE m \in DOMAIN mSnippets
    <3>1. /\ Len(mSnippets[m].mLineSpans) = Cardinality(S)
          /\ \A i, j \in 1 .. n : Matches(i, j) /\ NameAt(i) = m =>
               mSnippets[m].mLineSpans[Place(j, S)] = <<Position(i), Position(j)>>
      BY <1>1, <2>4 DEF Recorded
    <3>2. m \in DOMAIN mSnippets' /\ mSnippets'[m] = mSnippets[m]
      BY <1>6, <2>4
    <3>3. ASSUME NEW i \in 1 .. n + 1, NEW j \in 1 .. n + 1, Matches(i, j)', NameAt(i)' = m
          PROVE  mSnippets'[m].mLineSpans[Place(j, S)] = <<Position(i)', Position(j)'>>
      <4>1. i \in 1 .. n /\ j \in 1 .. n /\ Matches(i, j) /\ NameAt(i) = m
        BY <1>6, <3>3
      <4>2. Position(i)' = Position(i) /\ Position(j)' = Position(j)
        BY <1>2, <4>1
      <4> QED BY <3>1, <3>2, <4>1, <4>2
    <3> QED BY <1>1, <2>2, <3>1, <3>2, <3>3 DEF Recorded
  <2> QED BY <2>3, <2>4
<1>7. CASE NoPair(n)
  BY <1>2, <1>6, <1>7 DEF NoPair
<1>8. ASSUME NEW b \in 1 .. n, NewPair(n, b), NameAt(b) # m
      PROVE  AllEnds(m, S)' /\ Recorded(m, S)'
  <2>1. \A i, j \in 1 .. n + 1 :
          Matches(i, j)' /\ NameAt(i)' = m <=>
            i \in 1 .. n /\ j \in 1 .. n /\ Matches(i, j) /\ NameAt(i) = m
    BY <1>2, <1>8 DEF NewPair
  <2>2. /\ m \in DOMAIN mSnippets' <=> m \in DOMAIN mSnippets
        /\ m \in DOMAIN mSnippets => mSnippets'[m] = mSnippets[m]
    BY <1>8 DEF NewPair, Bind
  <2> QED BY <1>6, <2>1, <2>2
<1>9. ASSUME NEW b \in 1 .. n, NewPair(n, b), NameAt(b) = m
      PROVE  AllEnds(m, S \cup {n + 1})' /\ Recorded(m, S \cup {n + 1})'
  <2> DEFINE T == S \cup {n + 1}
             spans == Closed(Position(b), m).mLineSpans
  <2>1. \A i, j \in 1 .. n + 1 :
          Matches(i, j)' <=> \/ i \in 1 .. n /\ j \in 1 .. n /\ Matches(i, j)
                             \/ i = b /\ j = n + 1
    BY <1>9 DEF NewPair
  <2>2. ASSUME NEW j
        PROVE  j \in T <=> /\ j \in 1 .. n + 1
                           /\ \E i \in 1 .. n + 1 : Matches(i, j)' /\ NameAt(i)' = m
    <3>1. n + 1 \in T /\ Matches(b, n + 1)' /\ NameAt(b)' = m /\ b \in 1 .. n + 1
      BY <1>2, <1>3, <1>9, <2>1
    <3>2. CASE j = n + 1
      BY <1>3, <3>1, <3>2
    <3>3. CASE j # n + 1
      BY <1>2, <1>4, <2>1, <3>3
    <3> QED BY <3>2, <3>3
  <2>3. AllEnds(m, T)'
    <3> HIDE DEF T
    <3> QED BY <1>1, <2>2 DEF AllEnds
  <2>4. /\ m \in DOMAIN mSnippets' /\ mSnippets'[m].mLineSpans = spans
    BY <1>9 DEF NewPair, Bind
  <2>5. spans = IF m \in DOMAIN mSnippets
                THEN Append(mSnippets[m].mLineSpans, <<Position(b), lineNumber>>)
                ELSE <<<<Position(b), lineNumber>>>>
    BY <1>2, ClosedSpans
  <2>6. /\ Cardinality(S) \in Nat
        /\ \A j \in S : Place(j, S) \in 1 .. Cardinality(S) /\ Place(j, T) = Place(j, S)
        /\ Place(n + 1, T) = Cardinality(S) + 1 /\ Cardinality(T) = Cardinality(S) + 1
    BY <1>1, <1>5, PlaceInRange
  <2> HIDE DEF T, spans
  <2>7. /\ Len(spans) = Cardinality(S) + 1
        /\ spans[Cardinality(S) + 1] = <<Position(b), lineNumber>>
        /\ \A i, j \in 1 .. n : Matches(i, j) /\ NameAt(i) = m =>
             spans[Place(j, S)] = <<Position(i), Position(j)>>
    <3>1. CASE m \notin DOMAIN mSnippets
      <4>1. S = {}
        BY <3>1 DEF Recorded
      <4>2. Cardinality(S) = 0
        BY <4>1, FS_EmptySet
      <4>3. spans = <<<<Position(b), lineNumber>>>>
        BY <2>5, <3>1
      <4> QED BY <1>4, <4>1, <4>2, <4>3
    <3>2. CASE m \in DOMAIN mSnippets
      <4> DEFINE old == mSnippets[m].mLineSpans
                 span == <<Position(b), lineNumber>>
      <4>1. /\ Len(old) = Cardinality(S)
            /\ \A i, j \in 1 .. n : Matches(i, j) /\ NameAt(i) = m =>
                 old[Place(j, S)] = <<Position(i), Position(j)>>
        BY <1>1, <3>2 DEF Recorded
      <4>2. old \in Seq(Spans)
        BY <3>2 DEF TypeOK, Snippet
      <4>3. span \in Spans /\ spans = Append(old, span)
        BY <1>2, <1>3, <2>5, <3>2 DEF Spans
      <4> HIDE DEF old, span
      <4>4. /\ Len(spans) = Len(old) + 1 /\ spans[Len(old) + 1] = span
            /\ \A k \in 1 .. Len(old) : spans[k] = old[k]
        BY <4>2, <4>3, AppendFacts
      <4>5. \A i, j \in 1 .. n : Matches(i, j) /\ NameAt(i) = m =>
              spans[Place(j, S)] = <<Position(i), Position(j)>>
        BY <1>4, <2>6, <4>1, <4>4
      <4> QED BY <4>1, <4>4, <4>5 DEF span
    <3> QED BY <3>1, <3>2
  <2>8. ASSUME NEW i \in 1 .. n + 1, NEW j \in 1 .. n + 1, Matches(i, j)', NameAt(i)' = m
        PROVE  spans[Place(j, T)] = <<Position(i)', Position(j)'>>
    <3>1. CASE i \in 1 .. n /\ j \in 1 .. n /\ Matches(i, j)
      <4>1. NameAt(i) = m /\ Position(i)' = Position(i) /\ Position(j)' = Position(j)
        BY <1>2, <2>8, <3>1
      <4>2. j \in S
        BY <1>4, <3>1, <4>1
      <4> QED BY <2>6, <2>7, <3>1, <4>1, <4>2
    <3>2. CASE i = b /\ j = n + 1
      <4>1. Position(i)' = Position(b) /\ Position(j)' = lineNumber
        BY <1>2, <1>3, <1>9, <3>2
      <4> QED BY <2>6, <2>7, <3>2, <4>1
    <3> QED BY <2>1, <2>8, <3>1, <3>2
  <2>9. Recorded(m, T)'
    BY <1>1, <2>4, <2>6, <2>7, <2>8 DEF Recorded
  <2> QED BY <2>3, <2>9 DEF T
<1> QED BY <1>7, <1>8, <1>9

-----------------------------------------------------------------------------
(* Where the pass is terminated.                                           *)
AbortInv ==
    /\ \A i \in LinesRead : Overflows(i) => pc = "aborted" /\ i = Len(input)
    /\ pc = "aborted" =>
         input # <<>> /\ (Overflows(Len(input)) \/ EndsInColon(Len(input)))

LEMMA Aborted ==
  ASSUME TypeOK, CommentInv, NEW line \in Lines, ReadLine(line), NEW n, n = Len(input)
  PROVE  /\ Overflows(n + 1)' => pc' = "aborted"
         /\ pc' = "aborted" => (Overflows(n + 1)' \/ EndsInColon(n + 1)')
<1>1. Read(line)
  BY LineEffect
<1>2. pc = "reading"
  BY <1>1 DEF Read
<1>3. input'[n + 1] = line
  BY <1>1, InputGrows
<1>4. \/ SkipEmptyLine(line) \/ OmitLine(line) \/ StartBlockComment(line)
      \/ SkipBlockComment(line) \/ Examined(line)
  BY DEF ReadLine, KeepCode, ReadCallOut, CallOutOverflow, StartSnippet, StartUnnamed,
         EndSnippet, UnmatchedEnd
<1>5. Visible(n + 1)' <=> Examined(line)
  BY <1>1, <1>4, LineSeen
<1>6. Overflows(n + 1)' <=> Examined(line) /\ line.callOut = "overflow"
  BY <1>3, <1>5 DEF Overflows
<1>7. EndsInColon(n + 1)' <=>
        /\ Examined(line) /\ line.callOut = "none" /\ line.marker = "start"
        /\ line.name # NoName /\ line.colon = "last"
  BY <1>3, <1>5 DEF EndsInColon, Starts
<1>8. ASSUME Examined(line), line.callOut = "overflow" PROVE pc' = "aborted"
  BY <1>8 DEF ReadLine, Examined, SkipEmptyLine, OmitLine, StartBlockComment,
              SkipBlockComment, KeepCode, ReadCallOut, CallOutOverflow, StartSnippet,
              StartUnnamed, EndSnippet, UnmatchedEnd
<1>9. ASSUME pc' = "aborted"
      PROVE  \/ Examined(line) /\ line.callOut = "overflow"
             \/ /\ Examined(line) /\ line.callOut = "none" /\ line.marker = "start"
                /\ line.name # NoName /\ line.colon = "last"
  BY <1>2, <1>9 DEF ReadLine, SkipEmptyLine, OmitLine, StartBlockComment,
              SkipBlockComment, KeepCode, ReadCallOut, CallOutOverflow, StartSnippet,
              StartUnnamed, EndSnippet, UnmatchedEnd
<1> QED BY <1>6, <1>7, <1>8, <1>9

LEMMA AbortStep ==
  ASSUME TypeOK, CommentInv, AbortInv, NEW line \in Lines, ReadLine(line)
  PROVE  AbortInv'
<1>1. PICK n : n = Len(input)
  OBVIOUS
<1>2. Read(line)
  BY <1>1, LineEffect
<1>3. /\ n \in Nat /\ Len(input') = n + 1 /\ pc = "reading"
  BY <1>1, <1>2, InputGrows DEF Read
<1>4. \A i \in 1 .. n : Overflows(i)' <=> Overflows(i)
  BY <1>1, <1>2, LinesStay
<1>5. \A i \in 1 .. n : ~Overflows(i)
  BY <1>1, <1>3 DEF AbortInv, LinesRead
<1>6. /\ Overflows(n + 1)' => pc' = "aborted"
      /\ pc' = "aborted" => (Overflows(n + 1)' \/ EndsInColon(n + 1)')
  BY <1>1, Aborted
<1>7. ASSUME NEW i \in LinesRead', Overflows(i)' PROVE pc' = "aborted" /\ i = Len(input')
  <2>1. i \in 1 .. n + 1
    BY <1>3 DEF LinesRead
  <2>2. i \notin 1 .. n
    BY <1>4, <1>5, <1>7
  <2>3. i = n + 1
    BY <1>3, <2>1, <2>2
  <2> QED BY <1>3, <1>6, <1>7, <2>3
<1>8. pc' = "aborted" =>
        input' # <<>> /\ (Overflows(Len(input)) \/ EndsInColon(Len(input)))'
  <2>1. input' # <<>>
    BY <1>3, EmptySeq
  <2> QED BY <1>3, <1>6, <2>1
<1> QED BY <1>7, <1>8 DEF AbortInv

LEMMA AbortSame ==
  ASSUME AbortInv, UNCHANGED <<opt, input>>,
         pc = "aborted" <=> pc' = "aborted"
  PROVE  AbortInv'
<1>1. \A i : Visible(i)' <=> Visible(i)
  <2>1. \A i : InComment(i)' <=> InComment(i)
    BY DEF InComment, Regarded, SkippedEmpty, Omitted, OpensComment
  <2> QED BY <2>1 DEF Visible, Regarded, SkippedEmpty, Omitted, OpensComment
<1>2. \A i : (Overflows(i)' <=> Overflows(i)) /\ (EndsInColon(i)' <=> EndsInColon(i))
  BY <1>1 DEF Overflows, EndsInColon, Starts
<1> QED BY <1>2 DEF AbortInv, LinesRead

-----------------------------------------------------------------------------
(* How the pass has ended.                                                 *)
EndingInv ==
    /\ pc = "opening" => input = <<>>
    /\ pc = "ok" => snippets = <<>>
    /\ pc = "failed" => input = <<>> \/ snippets # <<>>

(* The inductive invariant.                                                *)
ReferenceInv ==
    /\ TypeOK /\ CommentInv /\ KeptInv /\ StackInv /\ HighlightInv
    /\ AskedInv /\ ExcludesInv /\ RecordedInv /\ EndingInv /\ AbortInv

LEMMA ReferenceInit == Init => ReferenceInv
<1> SUFFICES ASSUME Init PROVE ReferenceInv
  OBVIOUS
<1>1. TypeOK
  BY TypeInit
<1>2. /\ input = <<>> /\ Len(input) = 0 /\ LinesRead = {} /\ status = "Normal"
      /\ pc = "opening" /\ lineNumber = 0 /\ mFileContents = <<>> /\ Len(mFileContents) = 0
      /\ snippets = <<>> /\ sectionHighlight = <<>> /\ Len(snippets) = 0
      /\ mHighlightedLines = <<>> /\ mSnippets = <<>> /\ DOMAIN mSnippets = {}
      /\ excludes = [m \in Names |-> {}]
  BY DEF Init, LinesRead
<1>3. CommentInv
  <2>1. ~InComment(0 + 1)
    BY DEF InComment
  <2> QED BY <1>2, <2>1 DEF CommentInv
<1>4. KeptInv
  <2>1. Position(0 + 1) = 0
    BY PositionStep DEF PositionSteps
  <2> QED BY <1>2, <2>1 DEF KeptInv
<1>5. StackInv
  <2> DEFINE none == <<>>
  <2>1. /\ none \in Seq(Nat) /\ none \in Seq({"Included", "Excluded"}) /\ Len(none) = 0
    BY EmptySeq
  <2> HIDE DEF none
  <2>2. StartLines = {} /\ EndLines = {} /\ StackOf({}, {}, none, 0)
    BY <1>2, EmptyStack DEF StartLines, EndLines, none
  <2>3. Stacked(none, 0) /\ Sectioned(none, none)
    BY <1>2, <2>1, <2>2 DEF Stacked, Sectioned
  <2>4. none = sectionHighlight
    BY <1>2 DEF none
  <2> QED BY <1>2, <2>1, <2>3, <2>4 DEF StackInv
<1>6. HighlightInv
  <2>1. Highlighted = {}
    BY <1>2 DEF Highlighted, Range
  <2> QED BY <1>2, <2>1 DEF HighlightInv
<1>7. AskedInv /\ ExcludesInv /\ EndingInv
  BY <1>2 DEF AskedInv, ExcludesInv, EndingInv
<1>8. RecordedInv
  <2>1. \A m \in Names : AllEnds(m, {}) /\ Recorded(m, {})
    BY <1>2 DEF AllEnds, Recorded
  <2> QED BY <2>1 DEF RecordedInv
<1>9. AbortInv
  BY <1>2 DEF AbortInv
<1> QED BY <1>1, <1>3, <1>4, <1>5, <1>6, <1>7, <1>8, <1>9 DEF ReferenceInv

LEMMA ReadingLine ==
  ASSUME ReferenceInv, NEW line \in Lines, ReadLine(line)
  PROVE  ReferenceInv'
<1> DEFINE n == Len(input)
<1>1. /\ TypeOK /\ CommentInv /\ KeptInv /\ StackInv /\ HighlightInv
      /\ AskedInv /\ ExcludesInv /\ RecordedInv /\ AbortInv
  BY DEF ReferenceInv
<1>2. Read(line) /\ CommentInv' /\ Stored(line, n) /\ Effect(line, n)
  BY <1>1, LineEffect
<1>3. TypeOK'
  <2>1. Next
    BY DEF Next
  <2> QED BY <1>1, <2>1, TypeStep
<1>4. pc = "reading" /\ pc' \in {"reading", "aborted"}
  BY <1>2 DEF Read, ReadLine, SkipEmptyLine, OmitLine, StartBlockComment, SkipBlockComment,
              KeepCode, ReadCallOut, CallOutOverflow, StartSnippet, StartUnnamed,
              EndSnippet, UnmatchedEnd
<1> HIDE DEF n
<1>5. PICK k : k = Len(input)
  OBVIOUS
<1>6. Stored(line, k) /\ Effect(line, k)
  BY <1>2, <1>5 DEF n
<1>7. KeptInv'
  BY <1>1, <1>2, <1>5, <1>6, KeptStep
<1>8. StackInv' /\ HighlightInv'
  BY <1>1, <1>2, <1>3, <1>5, <1>6, StackStep, HighlightStep
<1>9. NoPair(k) \/ \E b \in 1 .. k : NewPair(k, b)
  BY <1>1, <1>2, <1>3, <1>5, <1>6, PairsStep
<1>10. AskedInv'
  BY <1>1, <1>2, <1>3, <1>5, <1>6, AskedStep
<1>11. ExcludesInv'
  BY <1>1, <1>2, <1>3, <1>5, <1>6, <1>9, ExcludesStep
<1>12. RecordedInv'
  <2>1. ASSUME NEW m \in Names PROVE \E T : AllEnds(m, T)' /\ Recorded(m, T)'
    <3>1. PICK S : AllEnds(m, S) /\ Recorded(m, S)
      BY <1>1, <1>4 DEF RecordedInv
    <3> QED BY <1>1, <1>2, <1>5, <1>9, <3>1, RecordedStep
  <2> QED BY <2>1 DEF RecordedInv
<1>13. EndingInv'
  BY <1>4 DEF EndingInv
<1>14. AbortInv'
  BY <1>1, AbortStep
<1> QED BY <1>2, <1>3, <1>7, <1>8, <1>10, <1>11, <1>12, <1>13, <1>14 DEF ReferenceInv

(* Without a further line the meaning of the lines stays.                  *)
LEMMA SameLines ==
  ASSUME UNCHANGED <<opt, input>>
  PROVE  /\ LinesRead' = LinesRead /\ StartLines' = StartLines /\ EndLines' = EndLines
         /\ \A i : /\ InComment(i)' <=> InComment(i)
                   /\ Starts(i)' <=> Starts(i)
                   /\ IsKept(i)' <=> IsKept(i)
                   /\ Position(i)' = Position(i)
                   /\ NameAt(i)' = NameAt(i)
                   /\ InSection(i)' <=> InSection(i)
                   /\ \A j : Matches(i, j)' <=> Matches(i, j)
                   /\ \A m, x : Asked(m, x, i)' <=> Asked(m, x, i)
<1>1. \A i : /\ Regarded(i)' <=> Regarded(i)
             /\ OpensComment(input[i])' <=> OpensComment(input[i])
             /\ NameAt(i)' = NameAt(i)
  BY DEF Regarded, SkippedEmpty, Omitted, OpensComment, NameAt
<1>2. \A i : InComment(i)' <=> InComment(i)
  BY <1>1 DEF InComment
<1>3. \A i : Visible(i)' <=> Visible(i)
  BY <1>1, <1>2 DEF Visible
<1>4. \A i : (Starts(i)' <=> Starts(i)) /\ (Ends(i)' <=> Ends(i))
  BY <1>3 DEF Starts, Ends
<1>5. \A i : IsKept(i)' <=> IsKept(i)
  BY <1>3, <1>4 DEF IsKept, Definition
<1>6. \A i : Position(i)' = Position(i)
  BY <1>5 DEF Position
<1>7. StartLines' = StartLines /\ EndLines' = EndLines
  BY <1>4 DEF StartLines, EndLines, LinesRead
<1>8. \A i, j : Matches(i, j)' <=> Matches(i, j)
  BY <1>7 DEF Matches
<1>9. \A k : InSection(k)' <=> InSection(k)
  BY <1>7 DEF InSection
<1>10. \A i, m, x : Asked(m, x, i)' <=> Asked(m, x, i)
  BY <1>1, <1>4 DEF Asked
<1> QED BY <1>1, <1>2, <1>4, <1>5, <1>6, <1>7, <1>8, <1>9, <1>10 DEF LinesRead

LEMMA WithoutLine ==
  ASSUME ReferenceInv, TypeOK',
         UNCHANGED <<opt, input, status, kept, marks, mHighlightedLines>>
  PROVE  /\ CommentInv' /\ KeptInv' /\ StackInv' /\ HighlightInv' /\ AskedInv'
         /\ \A m, S : AllEnds(m, S)' <=> AllEnds(m, S)
<1> USE DEF ReferenceInv, marks, kept
<1>1. CommentInv'
  BY SameLines DEF CommentInv
<1>2. KeptInv'
  BY SameLines DEF KeptInv
<1>3. ASSUME NEW n \in Nat, NEW p \in Seq(Nat), NEW secs
      PROVE  /\ Stacked(p, n) => Stacked(p, n)'
             /\ Sectioned(p, secs) => Sectioned(p, secs)'
  <2>1. Stacked(p, n) => Stacked(p, n)'
    BY SameLines DEF Stacked
  <2>2. \A z, mark : LastMark(p, z, mark)' <=> LastMark(p, z, mark)
    BY DEF LastMark
  <2> QED BY <2>1, <2>2 DEF Sectioned
<1>4. StackInv'
  BY <1>3 DEF StackInv
<1>5. HighlightInv'
  BY SameLines DEF HighlightInv, Highlighted
<1>6. AskedInv'
  BY SameLines DEF AskedInv
<1>7. \A m, S : AllEnds(m, S)' <=> AllEnds(m, S)
  BY SameLines DEF AllEnds
<1> QED BY <1>1, <1>2, <1>4, <1>5, <1>6, <1>7

(* The end of the file finds every start matched if the stack is empty.    *)
LEMMA AllMatched ==
  ASSUME TypeOK, StackInv
  PROVE  /\ snippets = <<>> => \A i \in StartLines : \E j \in EndLines : Matches(i, j)
         /\ snippets # <<>> => \E i \in StartLines : \A j \in EndLines : ~Matches(i, j)
<1>1. PICK n \in Nat : n = Len(input)
  BY LenProperties DEF TypeOK
<1>2. PICK p \in Seq(Nat) : Stacked(p, n)
  BY <1>1 DEF StackInv
<1>3. /\ Marks(n, StartLines, EndLines) /\ StackOf(StartLines, EndLines, p, n)
      /\ Len(p) = Len(snippets) /\ Len(p) \in Nat
  BY <1>1, <1>2, FileMarks, StackedFacts DEF Stacked
<1>4. CASE snippets = <<>>
  <2>1. \A x : x \notin 1 .. Len(p)
    BY <1>3, <1>4
  <2> QED BY <1>3, <1>4, <2>1 DEF StackOf, Matches
<1>5. CASE snippets # <<>>
  <2>1. Len(p) # 0
    BY <1>3, <1>5, EmptySeq DEF TypeOK
  <2>2. 1 \in 1 .. Len(p)
    BY <1>3, <2>1
  <2>3. p[1] \in StartLines
    BY <1>1, <1>2, <2>2, StackedFacts
  <2>4. \A j : ~Matched(StartLines, EndLines, p[1], j)
    BY <1>3, <2>2, <2>3, StackIsOpen
  <2> QED BY <1>5, <2>3, <2>4 DEF Matches
<1> QED BY <1>4, <1>5

LEMMA Finishing ==
  ASSUME ReferenceInv, Finish
  PROVE  ReferenceInv'
<1>1. /\ pc = "reading" /\ snippets = <<>> /\ pc' = "ok" /\ mSnippets' = EmplaceAll
      /\ UNCHANGED <<opt, input, status, kept, marks, mHighlightedLines>>
  BY DEF Finish
<1>2. UNCHANGED <<snippets, excludes>>
  BY <1>1 DEF marks
<1>3. TypeOK'
  <2>1. Next
    BY DEF Next
  <2> QED BY <2>1, TypeStep DEF ReferenceInv
<1>4. /\ CommentInv' /\ KeptInv' /\ StackInv' /\ HighlightInv' /\ AskedInv'
      /\ \A m, S : AllEnds(m, S)' <=> AllEnds(m, S)
  BY <1>1, <1>3, WithoutLine
<1>5. /\ DOMAIN mSnippets \subseteq DOMAIN mSnippets'
      /\ DOMAIN mSnippets' \subseteq DOMAIN mSnippets \cup {"all"}
      /\ \A m \in DOMAIN mSnippets : mSnippets'[m] = mSnippets[m]
      /\ "all" \notin DOMAIN mSnippets => mSnippets'["all"].mExcludes = {}
  BY <1>1 DEF EmplaceAll, Bind
<1>6. ExcludesInv /\ RecordedInv /\ TypeOK /\ StackInv
  BY DEF ReferenceInv
<1>7. ExcludesInv'
  <2>1. \A m \in DOMAIN mSnippets' : mSnippets'[m].mExcludes \subseteq excludes[m]
    BY <1>5, <1>6 DEF ExcludesInv
  <2>2. \A i, j \in LinesRead : Matches(i, j) =>
          /\ NameAt(i) \in DOMAIN mSnippets'
          /\ \A x : Asked(NameAt(i), x, i) => x \in mSnippets'[NameAt(i)].mExcludes
    BY <1>5, <1>6 DEF ExcludesInv
  <2>3. /\ LinesRead' = LinesRead
        /\ \A i, j : Matches(i, j)' <=> Matches(i, j)
        /\ \A i : NameAt(i)' = NameAt(i)
        /\ \A m, x, i : Asked(m, x, i)' <=> Asked(m, x, i)
    BY <1>1, SameLines
  <2>4. ASSUME NEW i \in LinesRead', NEW j \in LinesRead', Matches(i, j)'
        PROVE  /\ NameAt(i)' \in DOMAIN mSnippets'
               /\ \A x : Asked(NameAt(i), x, i)' => x \in mSnippets'[NameAt(i)'].mExcludes
    <3>1. PICK m : m = NameAt(i)
      OBVIOUS
    <3>2. NameAt(i)' = m /\ m \in DOMAIN mSnippets'
          /\ \A x : Asked(m, x, i) => x \in mSnippets'[m].mExcludes
      BY <2>2, <2>3, <2>4, <3>1
    <3>3. \A x : Asked(NameAt(i), x, i)' <=> Asked(m, x, i)
      <4>1. \A x : Asked(NameAt(i), x, i)' <=> Asked(m, x, i)'
        BY <3>2 DEF Asked
      <4> QED BY <2>3, <4>1
    <3> QED BY <3>2, <3>3
  <2> QED BY <1>2, <2>1, <2>4 DEF ExcludesInv
<1>8. RecordedInv'
  <2>1. ASSUME NEW m \in Names, m # "all" \/ (m \in UsedNames)'
        PROVE  \E S : AllEnds(m, S)' /\ Recorded(m, S)'
    <3>1. m \in DOMAIN mSnippets' <=> m \in DOMAIN mSnippets
      <4>1. CASE m # "all"
        BY <1>5, <4>1
      <4>2. CASE (m \in UsedNames)'
        <5>1. PICK i \in StartLines : NameAt(i) = m
          BY <1>1, <4>2, SameLines DEF UsedNames
        <5>2. PICK j \in EndLines : Matches(i, j)
          BY <1>1, <1>6, <5>1, AllMatched
        <5> USE DEF StartLines, EndLines
        <5>3. m \in DOMAIN mSnippets
          BY <1>6, <5>1, <5>2 DEF ExcludesInv
        <5> QED BY <1>5, <5>3
      <4> QED BY <2>1, <4>1, <4>2
    <3>2. PICK S : AllEnds(m, S) /\ Recorded(m, S)
      BY <1>1, <1>6 DEF RecordedInv
    <3>3. Recorded(m, S)'
      <4>1. CASE m \notin DOMAIN mSnippets
        BY <3>1, <3>2, <4>1 DEF Recorded
      <4>2. CASE m \in DOMAIN mSnippets
        <5>1. mSnippets'[m] = mSnippets[m] /\ m \in DOMAIN mSnippets'
          BY <1>5, <4>2
        <5> QED BY <1>1, <3>2, <4>2, <5>1, SameLines DEF Recorded
      <4> QED BY <4>1, <4>2
    <3> QED BY <1>4, <3>2, <3>3
  <2> QED BY <1>1, <2>1 DEF RecordedInv
<1>9. EndingInv'
  BY <1>1, <1>2 DEF EndingInv
<1>10. AbortInv'
  BY <1>1, AbortSame DEF ReferenceInv
<1> QED BY <1>3, <1>4, <1>7, <1>8, <1>9, <1>10 DEF ReferenceInv

LEMMA ReferenceStep == ReferenceInv /\ [Next]_vars => ReferenceInv'
<1> SUFFICES ASSUME ReferenceInv, [Next]_vars PROVE ReferenceInv'
  OBVIOUS
<1>1. TypeOK'
  BY TypeStep DEF ReferenceInv
<1>2. ASSUME UNCHANGED <<opt, input, status, kept, marks, mSnippets, mHighlightedLines>>,
             pc = "ok" => pc' = "ok", pc = "aborted" <=> pc' = "aborted", EndingInv'
      PROVE  ReferenceInv'
  <2>1. UNCHANGED <<opt, input, status, kept, marks, mHighlightedLines>>
    BY <1>2
  <2>2. /\ CommentInv' /\ KeptInv' /\ StackInv' /\ HighlightInv' /\ AskedInv'
        /\ \A m, S : AllEnds(m, S)' <=> AllEnds(m, S)
    BY <1>1, <2>1, WithoutLine
  <2>3. ExcludesInv'
    BY <1>2, SameLines DEF ReferenceInv, ExcludesInv, marks, Asked
  <2>4. RecordedInv'
    <3>1. \A m, S : Recorded(m, S)' <=> Recorded(m, S)
      BY <1>2, SameLines DEF Recorded
    <3>2. UsedNames' = UsedNames
      BY <1>2, SameLines DEF UsedNames
    <3>3. ASSUME NEW m \in Names, m # "all" \/ pc' # "ok" \/ m \in UsedNames'
          PROVE  \E S : AllEnds(m, S)' /\ Recorded(m, S)'
      <4>1. PICK S : AllEnds(m, S) /\ Recorded(m, S)
        <5>1. m # "all" \/ pc # "ok" \/ m \in UsedNames
          BY <1>2, <3>2, <3>3
        <5>2. RecordedInv
          BY DEF ReferenceInv
        <5> QED BY <5>1, <5>2 DEF RecordedInv
      <4> QED BY <2>2, <3>1, <4>1
    <3> QED BY <3>3 DEF RecordedInv
  <2>5. AbortInv'
    BY <1>2, AbortSame DEF ReferenceInv
  <2> QED BY <1>1, <1>2, <2>2, <2>3, <2>4, <2>5 DEF ReferenceInv
<1>3. CASE Open
  <2>1. EndingInv'
    BY <1>3 DEF Open, EndingInv, ReferenceInv
  <2> QED BY <1>2, <1>3, <2>1 DEF Open
<1>4. CASE \E line \in Lines : ReadLine(line)
  BY <1>4, ReadingLine
<1>5. CASE WrongNesting
  <2>1. EndingInv'
    BY <1>5 DEF WrongNesting, EndingInv, marks
  <2> QED BY <1>2, <1>5, <2>1 DEF WrongNesting
<1>6. CASE Finish
  BY <1>6, Finishing
<1>7. CASE UNCHANGED vars
  <2>1. UNCHANGED <<pc, opt, input, status, kept, marks, mSnippets, mHighlightedLines>>
    BY <1>7 DEF vars
  <2>2. EndingInv'
    BY <2>1 DEF EndingInv, ReferenceInv, marks
  <2> QED BY <1>2, <2>1, <2>2
<1> QED BY <1>3, <1>4, <1>5, <1>6, <1>7 DEF Next, Returned

LEMMA ReferenceAlways == Spec => []ReferenceInv
  BY ReferenceInit, ReferenceStep, PTL DEF Spec

-----------------------------------------------------------------------------
(* Kept lines have different positions.                                    *)
LEMMA PositionsDiffer ==
  ASSUME KeptInv, NEW i \in LinesRead, NEW k \in LinesRead, IsKept(i), IsKept(k),
         Position(i) = Position(k)
  PROVE  i = k
  BY DEF KeptInv

(* The kept lines of the result are those the marks in the whole file say, *)
(* in the order of the file: the numbers counted line by line stay in step *)
(* with the lines that are dropped, commented out or omitted.              *)
THEOREM ContentsAlwaysTheKeptLines == Spec => []ContentsAreTheKeptLines
<1>1. ASSUME TypeOK, KeptInv PROVE ContentsAreTheKeptLines
  <2>1. PICK n \in Nat : n = Len(input)
    BY <1>1, LenProperties DEF TypeOK
  <2>2. {k \in 1 .. (n + 1) - 1 : IsKept(k)} = {i \in LinesRead : IsKept(i)}
    <3>1. (n + 1) - 1 = n
      BY <2>1
    <3> QED BY <2>1, <3>1 DEF LinesRead
  <2>3. Len(mFileContents) = Position(n + 1)
    BY <1>1, <2>1 DEF KeptInv
  <2> QED BY <1>1, <2>2, <2>3 DEF ContentsAreTheKeptLines, KeptInv, Position
<1>2. ReferenceInv => ContentsAreTheKeptLines
  BY <1>1 DEF ReferenceInv
<1> QED BY <1>2, ReferenceAlways, PTL

(* No snippet ever excludes what none of its own starts has asked for.     *)
THEOREM ExcludesAlwaysAskedFor == Spec => []ExcludesWereAskedFor
<1>1. ReferenceInv => ExcludesWereAskedFor
  <2> SUFFICES ASSUME ReferenceInv, NEW m \in DOMAIN mSnippets,
                      NEW x \in mSnippets[m].mExcludes
               PROVE  \E i \in StartLines : NameAt(i) = m /\ x \in input[i].minus
    BY DEF ExcludesWereAskedFor
  <2>1. m \in Names /\ x \in excludes[m]
    BY DEF ReferenceInv, TypeOK, ExcludesInv
  <2>2. PICK i \in LinesRead : Asked(m, x, i)
    BY <2>1 DEF ReferenceInv, AskedInv
  <2> QED BY <2>2 DEF Asked, StartLines
<1> QED BY <1>1, ReferenceAlways, PTL

(* parse() succeeds on exactly the files whose starts are all matched, and *)
(* then every exclude asked for holds; it is terminated only at a callout  *)
(* with a number too large, or where the words of a start end in a colon.  *)
THEOREM AlwaysParsedCompletely == Spec => []ParsedCompletely
<1>1. ReferenceInv => ParsedCompletely
  <2> SUFFICES ASSUME ReferenceInv PROVE ParsedCompletely
    OBVIOUS
  <2>1. TypeOK /\ StackInv /\ ExcludesInv /\ EndingInv
    BY DEF ReferenceInv
  <2>2. ASSUME pc = "ok", NEW i \in StartLines
        PROVE  /\ \E j \in EndLines : Matches(i, j)
               /\ input[i].name # NoName =>
                    input[i].minus \subseteq mSnippets[NameAt(i)].mExcludes
    <3>1. PICK j \in EndLines : Matches(i, j)
      BY <2>1, <2>2, AllMatched DEF EndingInv
    <3>2. \A x : Asked(NameAt(i), x, i) => x \in mSnippets[NameAt(i)].mExcludes
      BY <2>1, <3>1 DEF ExcludesInv, StartLines, EndLines
    <3>3. input[i].name # NoName => \A x \in input[i].minus : Asked(NameAt(i), x, i)
      BY <2>2 DEF Asked, StartLines
    <3> QED BY <3>1, <3>2, <3>3
  <2>3. ASSUME pc = "failed", input # <<>>
        PROVE  \E i \in StartLines : \A j \in EndLines : ~Matches(i, j)
    BY <2>1, <2>3, AllMatched DEF EndingInv
  <2>4. AbortInv
    BY DEF ReferenceInv
  <2> QED BY <2>2, <2>3, <2>4 DEF ParsedCompletely, AbortInv
<1> QED BY <1>1, ReferenceAlways, PTL

(* Every snippet has exactly the spans of its matched pairs of marks, in   *)
(* the order of the ends.                                                  *)
THEOREM SnippetsAlwaysMatchedMarkers == Spec => []SnippetsAreMatchedMarkers
<1>1. ReferenceInv => SnippetsAreMatchedMarkers
  <2> SUFFICES ASSUME ReferenceInv, NEW m \in UsedNames
               PROVE  IF m \in DOMAIN mSnippets
                      THEN /\ Len(mSnippets[m].mLineSpans) = Cardinality(EndsOf(m))
                           /\ \A j \in EndsOf(m) :
                                mSnippets[m].mLineSpans[Place(j, EndsOf(m))] =
                                  <<Position(StartOf(j)), Position(j)>>
                      ELSE EndsOf(m) = {}
    BY DEF SnippetsAreMatchedMarkers
  <2>1. TypeOK /\ RecordedInv
    BY DEF ReferenceInv
  <2>2. PICK n \in Nat : n = Len(input)
    BY <2>1, LenProperties DEF TypeOK
  <2>3. LinesRead = 1 .. n
    BY <2>2 DEF LinesRead
  <2>4. m \in Names
    BY <2>1, NameType DEF UsedNames, StartLines
  <2>5. PICK S : AllEnds(m, S) /\ Recorded(m, S)
    BY <2>1, <2>4 DEF RecordedInv
  <2>6. \A i, j : Matches(i, j) =>
          i \in 1 .. n /\ j \in 1 .. n /\ StartOf(j) = i /\ j \in MatchedEnds(StartLines, EndLines)
    BY <2>1, <2>2, MatchesInFile
  <2>7. EndsOf(m) = S
    <3>1. ASSUME NEW j \in S PROVE j \in EndsOf(m)
      <4>1. PICK i : Matches(i, j) /\ NameAt(i) = m
        BY <2>5, <3>1 DEF AllEnds
      <4> QED BY <2>6, <4>1 DEF EndsOf
    <3>2. ASSUME NEW j \in EndsOf(m) PROVE j \in S
      <4>1. j \in MatchedEnds(StartLines, EndLines) /\ NameAt(StartOf(j)) = m
        BY DEF EndsOf
      <4>2. PICK i : Matches(i, j)
        BY <4>1 DEF MatchedEnds, Matches
      <4> QED BY <2>3, <2>5, <2>6, <4>1, <4>2 DEF AllEnds
    <3> QED BY <3>1, <3>2
  <2>8. CASE m \notin DOMAIN mSnippets
    BY <2>5, <2>7, <2>8 DEF Recorded
  <2>9. CASE m \in DOMAIN mSnippets
    <3>1. ASSUME NEW j \in S
          PROVE  mSnippets[m].mLineSpans[Place(j, S)] = <<Position(StartOf(j)), Position(j)>>
      <4>1. PICK i \in 1 .. n : Matches(i, j) /\ NameAt(i) = m /\ j \in 1 .. n
        BY <2>3, <2>5, <3>1 DEF AllEnds
      <4>2. StartOf(j) = i
        BY <2>6, <4>1
      <4> QED BY <2>3, <2>5, <2>9, <4>1, <4>2 DEF Recorded
    <3> QED BY <2>5, <2>7, <2>9, <3>1 DEF Recorded
  <2> QED BY <2>8, <2>9
<1> QED BY <1>1, ReferenceAlways, PTL

(* The kept lines inside a section marked +* are highlighted, and no other *)
(* kept line is unless it shares its number with a line that has a //*.    *)
THEOREM SectionsAlwaysFollowNesting == Spec => []SectionsFollowNesting
<1>1. ReferenceInv => SectionsFollowNesting
  <2> SUFFICES ASSUME ReferenceInv, opt.mHighlightLines, NEW i \in LinesRead, IsKept(i)
               PROVE  IF InSection(i) THEN Position(i) \in Highlighted
                      ELSE Position(i) \in Highlighted =>
                             \E k \in LinesRead : input[k].highlight /\ Position(i) = Position(k)
    <3>1. {mHighlightedLines[x] : x \in DOMAIN mHighlightedLines} = Highlighted
      BY DEF Highlighted, Range
    <3> QED BY <3>1 DEF SectionsFollowNesting
  <2>1. HighlightInv /\ KeptInv
    BY DEF ReferenceInv
  <2>2. CASE InSection(i)
    BY <2>1, <2>2 DEF HighlightInv
  <2>3. ASSUME ~InSection(i), Position(i) \in Highlighted
        PROVE  \E k \in LinesRead : input[k].highlight /\ Position(i) = Position(k)
    <3>1. PICK k \in LinesRead : /\ Position(i) = Position(k)
                                 /\ input[k].highlight \/ (IsKept(k) /\ InSection(k))
      BY <2>1, <2>3 DEF HighlightInv
    <3>2. ~(IsKept(k) /\ InSection(k))
      BY <2>1, <2>3, <3>1, PositionsDiffer
    <3> QED BY <3>1, <3>2
  <2> QED BY <2>2, <2>3
<1> QED BY <1>1, ReferenceAlways, PTL
=============================================================================
