-------------------------- MODULE RenderedSnippets --------------------------
(***************************************************************************)
(* What the rendered snippet files show, stated from the marks in the      *)
(* source file: parser and generator together.                             *)
(***************************************************************************)
EXTENDS AsciidocSnippetFileGenerator, CppExtractorReference

(* The parts of a snippet: the lines from a start to its end, named by the *)
(* end.  The implicit snippet all is the whole file, up to its end.        *)
Parts(n)      == IF n \in UsedNames THEN EndsOf(n) ELSE {Len(input) + 1}
BeginOf(n, j) == IF n \in UsedNames THEN StartOf(j) ELSE 1

(* The kept lines, each as often as a part of the snippet contains it, and *)
(* their order: part after part, and in the file's order within a part.    *)
Passages(n) ==
    {p \in Parts(n) \X LinesRead :
       IsKept(p[2]) /\ BeginOf(n, p[1]) <= p[2] /\ p[2] < p[1]}
UpTo(p, q) == p[1] < q[1] \/ (p[1] = q[1] /\ p[2] <= q[2])
RankIn(p, passages) == Cardinality({q \in passages : UpTo(q, p)})

LinesOf(n) == {p[2] : p \in Passages(n)}

(* What the starts of n subtract.  A line is left out of n if one of these *)
(* snippets contains it, and the first of them has the text for it.        *)
Minus(n) == UNION {input[i].minus : i \in {j \in StartLines : NameAt(j) = n /\ input[j].name # NoName}}
Subtracted(n, k) == {x \in Minus(n) : x \in UsedNames \cup {"all"} /\ k \in LinesOf(x)}
ExcludedFrom(n, k) == Subtracted(n, k) # {}
TextFor(n, k) ==
    mSnippets[CHOOSE x \in Subtracted(n, k) :
                \A y \in Subtracted(n, k) : Rank[x] <= Rank[y]].mTextIfExcluded

Shown(n) == {p \in Passages(n) : ~ExcludedFrom(n, p[2])}

(* The excluded lines directly behind no other one of the same part.       *)
Precedes(q, p) == q[1] = p[1] /\ Position(q[2]) + 1 = Position(p[2])
Stretches(n) ==
    {p \in Passages(n) :
       /\ ExcludedFrom(n, p[2])
       /\ \A q \in Passages(n) : Precedes(q, p) => ~ExcludedFrom(n, q[2])}

(* A file is looked at when it has been closed: it is not opened again.    *)
JustClosed == IF gpc = "select" THEN {current} \cap DOMAIN files ELSE {}

OfKind(block, kind)   == {x \in DOMAIN block : block[x].kind = kind}
CallOutsIn(block)     == {x \in OfKind(block, "source") : block[x].co > 0}
HighlightedIn(block)  == {x \in DOMAIN block : IsHighlighted(Position(block[x].at))}

-----------------------------------------------------------------------------
(* A snippet file shows, part after part, every kept line between the      *)
(* marks of its snippet that no subtracted snippet contains, and no other. *)
FilesShowTheMarkedLines ==
    \A n \in JustClosed :
        LET block == files[n].block
            lines == OfKind(block, "source")
            shown == Shown(n)
        IN  /\ Cardinality(lines) = Cardinality(shown)
            /\ \A p \in shown :
                 \E x \in lines : block[x].at = p[2] /\ Place(x, lines) = RankIn(p, shown)

(* The callouts in a block are numbered 1, 2, ... from top to bottom, and  *)
(* the list below explains each number with the text of its line.          *)
CallOutsMatchTheirList ==
    \A n \in JustClosed :
        LET block == files[n].block
            list  == files[n].list
            cos   == CallOutsIn(block)
        IN  ~gopt.mSkipCallouts =>
              /\ Len(list) = Cardinality(cos)
              /\ \A x \in cos : /\ block[x].co = Place(x, cos)
                                /\ list[block[x].co] = <<block[x].co, block[x].at>>

(* Each stretch of excluded lines leaves exactly one marker behind, none   *)
(* if the markers are switched off: at its place among the lines that are  *)
(* shown, with the text for the line it begins with.                       *)
MarkerPerStretch ==
    \A n \in JustClosed :
        LET block   == files[n].block
            markers == OfKind(block, "marker")
            marked  == IF gopt.mPrintExcludeMarker THEN Stretches(n) ELSE {}
        IN  /\ Cardinality(markers) = Cardinality(marked)
            /\ \A p \in marked :
                 \E x \in markers :
                    /\ Place(x, markers) = RankIn(p, marked)
                    /\ Place(x, OfKind(block, "source")) = RankIn(p, Shown(n))
                    /\ block[x].text = TextFor(n, p[2])

(* As long as nothing is excluded and no delimiter is shown, the numbers   *)
(* in the header are those of the highlighted lines of the block.          *)
HighlightsWithoutGaps ==
    \A n \in JustClosed :
        LET block == files[n].block
            high  == HighlightedIn(block)
        IN  (OfKind(block, "source") = DOMAIN block /\ Shown(n) = Passages(n)) =>
              /\ Len(files[n].highlight) = Cardinality(high)
              /\ \A x \in high : files[n].highlight[Place(x, high)] = x

-----------------------------------------------------------------------------
(* doc/extractor.adoc:481: single lines can be highlighted.  The number in *)
(* the header counts the excluded lines of which the block shows a marker  *)
(* only, and not the lines of a delimiter.                                 *)
HighlightedLinesAreShown ==
    \A n \in JustClosed :
        \A x \in DOMAIN files[n].highlight :
            LET h == files[n].highlight[x]
            IN  h \in DOMAIN files[n].block /\ files[n].block[h].kind = "source"
=============================================================================
