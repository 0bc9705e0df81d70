-------------------------- MODULE RenderedFunctions --------------------------
(***************************************************************************)
(* What the assembler extractor recognises and writes, stated from the     *)
(* marks in the whole file.                                                *)
(***************************************************************************)
EXTENDS AsciidocAsmGenerator, Brackets, FiniteSetsExt

LinesRead == 1 .. Len(input)
Marked(kind) == {k \in LinesRead : input[k].kind = kind}

(* A name is given to the innermost function around it; the last counts.   *)
NamesOf(i) == {k \in Marked("name") : Innermost(Marked("start"), Marked("end"), i, k)}
NameOf(i)  == input[IF NamesOf(i) = {} THEN i ELSE Max(NamesOf(i))].name

(* The lines in which a function ends, and the function itself.            *)
FunctionEnds == MatchedEnds(Marked("start"), Marked("end"))
StartOf(j)   == MatchOf(Marked("start"), Marked("end"), j)
FunctionAt(i, j) ==
    [mBegin |-> i, mEnd |-> j, mName |-> input[i].name,
     mAssignedName |-> NameOf(i), mOmittedLines |-> NamesOf(i)]

-----------------------------------------------------------------------------
(* The functions are those between matching marks, in the order of their   *)
(* ends, each with the last of the names given in it but outside of the    *)
(* functions in it.  A name or an end outside of all functions, and a      *)
(* function without end, leave no trace.                                   *)
FunctionsAreMatchedMarks ==
    pc # "failed" =>
        /\ Cardinality(FunctionEnds) =
             IF pc \in {"opening", "reading"} THEN Len(mFunctions) ELSE Len(mFunctions) - 1
        /\ \A j \in FunctionEnds :
             mFunctions[Place(j, FunctionEnds)] = FunctionAt(StartOf(j), j)

(* At the end each file shows the lines between the marks of the last      *)
(* function of its name, without the lines that only name it; the file     *)
(* "all" shows the source from its second line on, also if a function has  *)
(* this name.                                                              *)
FilesShowTheirFunction ==
    LET named(n) == {j \in FunctionEnds : NameOf(StartOf(j)) = n}
    IN  pc = "done" =>
          /\ DOMAIN files = {NameOf(StartOf(j)) : j \in FunctionEnds} \cup {"all"}
          /\ files["all"] = 2 .. Len(input)
          /\ \A n \in DOMAIN files \ {"all"} : \A j \in named(n) :
               (\A k \in named(n) : k <= j) =>
                   files[n] = (StartOf(j) + 1 .. j - 1) \ NamesOf(StartOf(j))
=============================================================================
