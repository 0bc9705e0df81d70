------------------------ MODULE AsciidocAsmGenerator -------------------------
(***************************************************************************)
(* AsciidocAsmGenerator::generate() of extract/asciidocasmgenerator.cc:    *)
(* writes the list of the functions and then one file for each, named      *)
(* after the function.  Caption and block attributes are left out; a       *)
(* printed line is its number in the source file; lines are printed in     *)
(* increasing order, so a file is the set of its lines.                    *)
(***************************************************************************)
EXTENDS AsmExtractor

VARIABLES
    outputFile,   \* the functions listed in it, <<>> if it was not written
    written,      \* number of function files written
    files         \* assigned name -> lines shown

gvars   == <<outputFile, written, files>>
allVars == <<vars, gvars>>

GInit == Init /\ outputFile = <<>> /\ written = 0 /\ files = <<>>

(* Line numbers start at 1, lines() at 0: lines()[l] is the line l + 1.    *)
IndexRange_Late(f) == f.mBegin .. f.mEnd - 1
IndexRange(f) == f.mBegin .. f.mEnd - 2

(* Compares the omitted lines with the index.                              *)
Body_Index(f) == {l + 1 : l \in IndexRange(f) \ f.mOmittedLines}
Body(f) == {l + 1 : l \in IndexRange(f)} \ f.mOmittedLines

-----------------------------------------------------------------------------
Parse == ParseNext /\ UNCHANGED gvars

MakeDirectory ==
    /\ pc = "directory"
    /\ pc' \in {"listing", "failed"}
    /\ UNCHANGED <<input, mOpenFunctions, mFunctions, gvars>>

(* Lists the functions that are still open.                                *)
WriteList_Open ==
    /\ pc = "listing"
    /\ pc' = "writing"
    /\ outputFile' \in {<<>>, mOpenFunctions}
    /\ UNCHANGED <<input, mOpenFunctions, mFunctions, written, files>>

(* If the list cannot be opened an error is traced, no more.               *)
WriteList ==
    /\ pc = "listing"
    /\ pc' = "writing"
    /\ outputFile' \in {<<>>, mFunctions}
    /\ UNCHANGED <<input, mOpenFunctions, mFunctions, written, files>>

(* Functions with the same name have the same file.                        *)
WriteFunction ==
    /\ pc = "writing" /\ written < Len(mFunctions)
    /\ LET f == mFunctions[written + 1]
       IN  files' = [n \in DOMAIN files \cup {f.mAssignedName} |->
                       IF n = f.mAssignedName THEN Body(f) ELSE files[n]]
    /\ written' = written + 1
    /\ UNCHANGED <<vars, outputFile>>

OpenFails ==
    /\ pc = "writing" /\ written < Len(mFunctions)
    /\ pc' = "failed"
    /\ UNCHANGED <<input, mOpenFunctions, mFunctions, gvars>>

Done ==
    /\ pc = "writing" /\ written = Len(mFunctions)
    /\ pc' = "done"
    /\ UNCHANGED <<input, mOpenFunctions, mFunctions, gvars>>

(* main() does not look at the result: the program has succeeded.          *)
Exit == pc \in {"done", "failed"} /\ UNCHANGED allVars

Next ==
    \/ Parse \/ MakeDirectory \/ WriteList \/ WriteFunction \/ OpenFails
    \/ Done \/ Exit

Spec == GInit /\ [][Next]_allVars
-----------------------------------------------------------------------------
(* Every variable holds a value of the type the code gives it.             *)
TypeOK ==
    /\ pc \in {"opening", "reading", "directory", "listing", "writing", "done", "failed"}
    /\ input \in Seq(Lines)
    /\ mOpenFunctions \in Seq(AsmFunction)
    /\ mFunctions \in Seq(AsmFunction)
    /\ outputFile \in {<<>>, mFunctions}
    /\ written \in 0 .. Len(mFunctions)
    /\ DOMAIN files \subseteq Names
    /\ files \in [DOMAIN files -> SUBSET Nat]

(* generate() indexes lines() without a check (asciidocasmgenerator.cc:84- *)
(* 88): the lines of a function, also those of "all", are lines of the     *)
(* file.                                                                   *)
AccessInRange ==
    \A x \in DOMAIN mFunctions :
        \A l \in IndexRange(mFunctions[x]) : l < Len(input)

(* Two functions are disjoint or one lies within the other, however starts *)
(* and ends are mixed: no file shows a half of another function.           *)
FunctionsNest ==
    \A x, y \in DOMAIN mFunctions :
        LET f == mFunctions[x]
            g == mFunctions[y]
        IN  \/ f.mEnd < g.mBegin \/ g.mEnd < f.mBegin
            \/ f.mBegin <= g.mBegin /\ g.mEnd <= f.mEnd
            \/ g.mBegin <= f.mBegin /\ f.mEnd <= g.mEnd
=============================================================================
