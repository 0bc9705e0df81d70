---------------------------- MODULE AsmExtractor -----------------------------
(***************************************************************************)
(* AsmExtractor::parse() of extract/asmextractor.cc: finds the functions   *)
(* in the output of a compiler.  The three regular expressions are         *)
(* anchored at different directives, so a line has at most one of the      *)
(* marks; the code never looks at the symbol of an end mark.               *)
(***************************************************************************)
EXTENDS Naturals, Sequences

CONSTANTS
    Names,     \* symbols and assigned names
    Lines,     \* the lines the file is made of
    MaxLines   \* bound on the length of the file

LineShape ==
    [kind : {"start", "name"}, name : Names] \cup [kind : {"code", "end"}]

ASSUME NamesAssumption == "all" \in Names
ASSUME LinesAssumption == Lines \subseteq LineShape
ASSUME MaxAssumption   == MaxLines \in Nat

VARIABLES
    pc,              \* "opening", "reading", then the steps of generate()
    input,           \* mLinesOfFile
    mOpenFunctions,  \* stack, top at the end
    mFunctions

vars == <<pc, input, mOpenFunctions, mFunctions>>

AsmFunction ==
    [mBegin : Nat, mEnd : Nat, mName : Names, mAssignedName : Names,
     mOmittedLines : SUBSET Nat]

NewFunction(begin, name) ==
    [mBegin |-> begin, mEnd |-> 0, mName |-> name, mAssignedName |-> name,
     mOmittedLines |-> {}]

Init ==
    /\ pc = "opening"
    /\ input = <<>> /\ mOpenFunctions = <<>> /\ mFunctions = <<>>

-----------------------------------------------------------------------------
fileLineNumber == Len(input) + 1
Depth == Len(mOpenFunctions)
Inner == mOpenFunctions[Depth]

Read(line, kind) ==
    /\ pc = "reading" /\ Len(input) < MaxLines
    /\ line.kind = kind
    /\ input' = Append(input, line)
    /\ UNCHANGED pc

Open ==
    /\ pc = "opening"
    /\ pc' \in {"reading", "failed"}
    /\ UNCHANGED <<input, mOpenFunctions, mFunctions>>

StartFunction(line) ==
    /\ Read(line, "start")
    /\ mOpenFunctions' = Append(mOpenFunctions, NewFunction(fileLineNumber, line.name))
    /\ UNCHANGED mFunctions

(* Ends the function opened first.                                         *)
EndFunction_Oldest(line) ==
    /\ Read(line, "end")
    /\ IF Depth = 0 THEN UNCHANGED <<mOpenFunctions, mFunctions>>
       ELSE /\ mFunctions' = Append(mFunctions,
                               [mOpenFunctions[1] EXCEPT !.mEnd = fileLineNumber])
            /\ mOpenFunctions' = Tail(mOpenFunctions)

(* Of a function that is open, whatever symbol the mark names; other ends, *)
(* like those of data, are passed over.                                    *)
EndFunction(line) ==
    /\ Read(line, "end")
    /\ IF Depth = 0 THEN UNCHANGED <<mOpenFunctions, mFunctions>>
       ELSE /\ mFunctions' = Append(mFunctions, [Inner EXCEPT !.mEnd = fileLineNumber])
            /\ mOpenFunctions' = SubSeq(mOpenFunctions, 1, Depth - 1)

(* Names the function opened first.                                        *)
NameFunction_Outermost(line) ==
    /\ Read(line, "name")
    /\ mOpenFunctions' =
         IF Depth = 0 THEN mOpenFunctions
         ELSE [mOpenFunctions EXCEPT
                 ![1].mAssignedName = line.name,
                 ![1].mOmittedLines = @ \cup {fileLineNumber}]
    /\ UNCHANGED mFunctions

(* The last name given to a function is the one that counts.               *)
NameFunction(line) ==
    /\ Read(line, "name")
    /\ mOpenFunctions' =
         IF Depth = 0 THEN mOpenFunctions
         ELSE [mOpenFunctions EXCEPT
                 ![Depth].mAssignedName = line.name,
                 ![Depth].mOmittedLines = @ \cup {fileLineNumber}]
    /\ UNCHANGED mFunctions

ReadCode(line) ==
    /\ Read(line, "code")
    /\ UNCHANGED <<mOpenFunctions, mFunctions>>

(* Functions that are still open are dropped.                              *)
EndOfFile ==
    /\ pc = "reading"
    /\ pc' = "directory"
    /\ mFunctions' = Append(mFunctions, [NewFunction(1, "all") EXCEPT !.mEnd = fileLineNumber])
    /\ UNCHANGED <<input, mOpenFunctions>>

ParseNext ==
    \/ Open
    \/ \E line \in Lines :
         StartFunction(line) \/ EndFunction(line) \/ NameFunction(line) \/ ReadCode(line)
    \/ EndOfFile
=============================================================================
