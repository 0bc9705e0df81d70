----------------------- MODULE CppExtractorReference ------------------------
(***************************************************************************)
(* What the marks in a file mean, stated over the whole file that has been *)
(* read instead of line by line: which lines are comments, which start     *)
(* belongs to which end, which section mark governs a line.  What the pass *)
(* of CppExtractor has built up is compared with these definitions; the    *)
(* file may end after every line, so all its beginnings are compared too.  *)
(***************************************************************************)
EXTENDS CppExtractor, Brackets, FiniteSetsExt

LinesRead == 1 .. Len(input)

(* The lines that are looked at at all in status Normal, if in it.         *)
Regarded(i) == ~SkippedEmpty(input[i]) /\ ~Omitted(input[i])

(* Line j lies in a block comment that an earlier line has opened and no   *)
(* line between them has closed.                                           *)
InComment(j) ==
    \E i \in 1 .. j - 1 :
        /\ Regarded(i) /\ OpensComment(input[i])
        /\ \A k \in i + 1 .. j - 1 : ~input[k].closes

Visible(i) == Regarded(i) /\ ~InComment(i) /\ ~OpensComment(input[i])
Starts(i)  == Visible(i) /\ input[i].callOut = "none" /\ input[i].marker = "start"
Ends(i)    == Visible(i) /\ input[i].callOut = "none" /\ input[i].marker = "end"

(* Where parse() is terminated, and where it may be.                       *)
Overflows(i)   == Visible(i) /\ input[i].callOut = "overflow"
EndsInColon(i) == Starts(i) /\ input[i].name # NoName /\ input[i].colon = "last"

Definition(i) == Ends(i) \/ (Starts(i) /\ input[i].name # NoName)
IsKept(i) ==
    /\ Visible(i) /\ input[i].callOut # "overflow"
    /\ ~(opt.mSkipSnippetDefinitions /\ Definition(i))
Position(i) == Cardinality({k \in 1 .. i - 1 : IsKept(k)})

NameAt(i) == IF input[i].name = NoName THEN "unnamed" ELSE ReplaceScope[input[i].name]

(* The lines with a start and with an end, which belong together like      *)
(* brackets, and the ends of a name.                                       *)
StartLines == {i \in LinesRead : Starts(i)}
EndLines   == {j \in LinesRead : Ends(j)}

Matches(i, j) == Matched(StartLines, EndLines, i, j)
StartOf(j)    == MatchOf(StartLines, EndLines, j)
EndsOf(n)     == {j \in MatchedEnds(StartLines, EndLines) : NameAt(StartOf(j)) = n}
UsedNames     == {NameAt(i) : i \in StartLines}

(* The section mark in force at line k is that of the innermost snippet    *)
(* around it that has one.                                                 *)
InSection(k) ==
    LET marked == {i \in OpenAt(StartLines, EndLines, k) : input[i].section # "none"}
    IN  marked # {} /\ input[Max(marked)].section = "Included"

-----------------------------------------------------------------------------
(* The kept lines are exactly those that are no comment, not omitted, not  *)
(* skipped as empty and no skipped definition, in the order of the file.   *)
ContentsAreTheKeptLines ==
    /\ Len(mFileContents) = Cardinality({i \in LinesRead : IsKept(i)})
    /\ \A i \in LinesRead : IsKept(i) => mFileContents[Position(i) + 1] = i

(* Every snippet consists of exactly the spans between its starts and the  *)
(* ends that match them like brackets, in the order of the ends; no end is *)
(* charged to another snippet, whatever comments and stray ends intervene. *)
SnippetsAreMatchedMarkers ==
    pc # "reading" => \A n \in UsedNames :
        IF n \in DOMAIN mSnippets
        THEN /\ Len(mSnippets[n].mLineSpans) = Cardinality(EndsOf(n))
             /\ \A j \in EndsOf(n) :
                  mSnippets[n].mLineSpans[Place(j, EndsOf(n))] =
                      <<Position(StartOf(j)), Position(j)>>
        ELSE EndsOf(n) = {}

(* parse() succeeds exactly on the files whose starts are all matched, and *)
(* then an exclude asked for by any start of a snippet, also one of a      *)
(* later continuation, holds for the whole snippet.  It is terminated at   *)
(* the first callout with a number too large, which it never gets past,    *)
(* and nowhere else unless the words of a start end in a colon.            *)
ParsedCompletely ==
    /\ pc = "ok" =>
         \A i \in StartLines :
            /\ \E j \in EndLines : Matches(i, j)
            /\ input[i].name # NoName =>
                 input[i].minus \subseteq mSnippets[NameAt(i)].mExcludes
    /\ (pc = "failed" /\ input # <<>>) =>
         \E i \in StartLines : \A j \in EndLines : ~Matches(i, j)
    /\ \A i \in LinesRead : Overflows(i) => pc = "aborted" /\ i = Len(input)
    /\ pc = "aborted" =>
         input # <<>> /\ (Overflows(Len(input)) \/ EndsInColon(Len(input)))

(* An exclude has been asked for: no snippet loses lines to the excludes   *)
(* of another one.                                                         *)
ExcludesWereAskedFor ==
    \A n \in DOMAIN mSnippets : \A x \in mSnippets[n].mExcludes :
        \E i \in StartLines : NameAt(i) = n /\ x \in input[i].minus

(* A kept line is highlighted if the innermost marked snippet around it is *)
(* marked +*; and no other line is, unless for a //*.  The stack of marks  *)
(* is shorter than the stack of snippets, yet both are popped at each end. *)
SectionsFollowNesting ==
    LET on == {mHighlightedLines[x] : x \in DOMAIN mHighlightedLines}
        starred == {Position(i) : i \in {k \in LinesRead : input[k].highlight}}
    IN  pc # "reading" /\ opt.mHighlightLines =>
          \A i \in LinesRead : IsKept(i) =>
            IF InSection(i) THEN Position(i) \in on
            ELSE Position(i) \in on => Position(i) \in starred
=============================================================================
