------------------------------ MODULE AsmProofs ------------------------------
(***************************************************************************)
(* Proofs about the assembler extractor: types, the range of the lines it  *)
(* prints, that the functions it finds nest and are those between matching *)
(* marks, and that each file shows the lines of its function.              *)
(***************************************************************************)
EXTENDS RenderedFunctions, CountingProofs

(* The functions found so far lie in the lines read; after the end of the  *)
(* file "all" reaches one line further.                                    *)
Reach == IF pc \in {"opening", "reading"} THEN Len(input) ELSE Len(input) + 1
FunctionsInFile ==
    /\ \A x \in DOMAIN mFunctions : mFunctions[x].mBegin >= 1 /\ mFunctions[x].mEnd <= Reach
    /\ \A o \in DOMAIN mOpenFunctions :
         mOpenFunctions[o].mBegin \in 1 .. Len(input)

(* The open functions start one after the other.                           *)
OpenInOrder ==
    \A o, q \in DOMAIN mOpenFunctions :
        o < q => mOpenFunctions[o].mBegin < mOpenFunctions[q].mBegin

(* No open function starts inside a function that has ended.               *)
OpenOutside ==
    pc \in {"opening", "reading"} =>
        \A x \in DOMAIN mFunctions, o \in DOMAIN mOpenFunctions :
            \/ mFunctions[x].mEnd < mOpenFunctions[o].mBegin
            \/ mOpenFunctions[o].mBegin < mFunctions[x].mBegin

(* The list is written after the last function has been found.             *)
ListedLate ==
    pc \in {"opening", "reading", "directory"} => outputFile = <<>> /\ written = 0

IInv == TypeOK /\ FunctionsInFile /\ OpenInOrder /\ OpenOutside /\ FunctionsNest /\ ListedLate

-----------------------------------------------------------------------------
LEMMA InitIInv == GInit => IInv
  BY NamesAssumption
  DEF GInit, Init, IInv, TypeOK, FunctionsInFile, OpenInOrder, OpenOutside,
      FunctionsNest, ListedLate, Reach

LEMMA FunctionType ==
  ASSUME NEW s \in Seq(AsmFunction), NEW x \in DOMAIN s
  PROVE  s[x] \in AsmFunction /\ s[x].mBegin \in Nat /\ s[x].mEnd \in Nat
<1>1. s[x] \in AsmFunction
  OBVIOUS
<1> QED BY <1>1 DEF AsmFunction

(* While the file is read all functions found lie in the lines read.       *)
LEMMA FoundSoFar ==
  ASSUME IInv, pc = "reading", NEW x \in DOMAIN mFunctions
  PROVE  /\ mFunctions[x].mBegin \in Nat /\ mFunctions[x].mBegin >= 1
         /\ mFunctions[x].mEnd \in Nat /\ mFunctions[x].mEnd <= Len(input)
<1>1. mFunctions[x].mBegin \in Nat /\ mFunctions[x].mEnd \in Nat
  BY FunctionType DEF IInv, TypeOK
<1> QED BY <1>1 DEF IInv, FunctionsInFile, Reach

LEMMA BodyType == ASSUME NEW f \in AsmFunction PROVE Body(f) \in SUBSET Nat
  BY DEF Body, IndexRange, AsmFunction

LEMMA StartStep ==
  ASSUME IInv, NEW line \in Lines, StartFunction(line), UNCHANGED gvars
  PROVE  IInv'
<1> DEFINE new == NewFunction(fileLineNumber, line.name)
<1>1. line.name \in Names /\ Len(input) \in Nat
  BY LinesAssumption DEF IInv, TypeOK, StartFunction, Read, LineShape
<1>2. new \in AsmFunction /\ new.mBegin = Len(input) + 1
  BY <1>1 DEF NewFunction, AsmFunction, fileLineNumber
<1>3. /\ pc = "reading" /\ pc' = pc /\ mFunctions' = mFunctions
      /\ input' = Append(input, line) /\ mOpenFunctions' = Append(mOpenFunctions, new)
      /\ outputFile' = outputFile /\ written' = written /\ files' = files
  BY DEF StartFunction, Read, gvars
<1> HIDE DEF new
<1>4. Len(input') = Len(input) + 1
  BY <1>3 DEF IInv, TypeOK
<1>5. ASSUME NEW o \in DOMAIN mOpenFunctions'
      PROVE  \/ o \in DOMAIN mOpenFunctions /\ mOpenFunctions'[o] = mOpenFunctions[o]
             \/ o = Len(mOpenFunctions) + 1 /\ mOpenFunctions'[o] = new
  BY <1>2, <1>3 DEF IInv, TypeOK
<1>6. TypeOK'
  BY <1>2, <1>3 DEF IInv, TypeOK
<1>7. FunctionsInFile'
  <2>1. \A x \in DOMAIN mFunctions :
          mFunctions[x].mBegin >= 1 /\ mFunctions[x].mEnd <= Len(input')
    BY <1>1, <1>3, <1>4, FoundSoFar
  <2>2. \A o \in DOMAIN mOpenFunctions' : mOpenFunctions'[o].mBegin \in 1 .. Len(input')
    BY <1>1, <1>2, <1>4, <1>5 DEF IInv, FunctionsInFile
  <2> QED BY <1>3, <2>1, <2>2 DEF FunctionsInFile, Reach
<1>8. OpenInOrder'
  <2> SUFFICES ASSUME NEW o \in DOMAIN mOpenFunctions', NEW q \in DOMAIN mOpenFunctions',
                      o < q
               PROVE  mOpenFunctions'[o].mBegin < mOpenFunctions'[q].mBegin
    BY DEF OpenInOrder
  <2>1. o \in DOMAIN mOpenFunctions /\ mOpenFunctions'[o] = mOpenFunctions[o]
    BY <1>3, <1>5 DEF IInv, TypeOK
  <2>2. mOpenFunctions[o].mBegin \in 1 .. Len(input)
    BY <2>1 DEF IInv, FunctionsInFile
  <2> QED BY <1>1, <1>2, <1>5, <2>1, <2>2 DEF IInv, OpenInOrder
<1>9. OpenOutside'
  <2> SUFFICES ASSUME NEW x \in DOMAIN mFunctions, NEW o \in DOMAIN mOpenFunctions'
               PROVE  \/ mFunctions[x].mEnd < mOpenFunctions'[o].mBegin
                      \/ mOpenFunctions'[o].mBegin < mFunctions[x].mBegin
    BY <1>3 DEF OpenOutside
  <2>1. mFunctions[x].mEnd \in Nat /\ mFunctions[x].mEnd <= Len(input)
    BY <1>3, FoundSoFar
  <2> QED BY <1>1, <1>2, <1>3, <1>5, <2>1 DEF IInv, OpenOutside
<1>10. FunctionsNest' /\ ListedLate'
  BY <1>3 DEF IInv, FunctionsNest, ListedLate
<1> QED BY <1>6, <1>7, <1>8, <1>9, <1>10 DEF IInv

(* The new function reaches from the start on top of the stack to the      *)
(* present line, so it contains or avoids each older one.                  *)
LEMMA EndStep ==
  ASSUME IInv, NEW line \in Lines, EndFunction(line), UNCHANGED gvars
  PROVE  IInv'
<1>1. /\ pc = "reading" /\ pc' = pc /\ input' = Append(input, line)
      /\ outputFile' = <<>> /\ written' = 0 /\ files' = files
      /\ outputFile = <<>> /\ written = 0
  BY DEF EndFunction, Read, gvars, IInv, ListedLate
<1>2. Len(input) \in Nat /\ Len(input') = Len(input) + 1
  BY <1>1 DEF IInv, TypeOK
<1>3. CASE Depth = 0
  <2>1. mOpenFunctions' = mOpenFunctions /\ mFunctions' = mFunctions
    BY <1>3 DEF EndFunction
  <2>2. TypeOK'
    BY <1>1, <2>1 DEF IInv, TypeOK
  <2>3. FunctionsInFile'
    <3>1. \A x \in DOMAIN mFunctions :
            mFunctions[x].mBegin >= 1 /\ mFunctions[x].mEnd <= Len(input')
      BY <1>1, <1>2, FoundSoFar
    <3>2. \A o \in DOMAIN mOpenFunctions' : mOpenFunctions'[o].mBegin \in 1 .. Len(input')
      BY <1>1, <1>2, <2>1 DEF IInv, FunctionsInFile
    <3> QED BY <1>1, <1>2, <2>1, <3>1, <3>2 DEF FunctionsInFile, Reach
  <2>4. OpenInOrder' /\ OpenOutside' /\ FunctionsNest' /\ ListedLate'
    BY <1>1, <2>1 DEF IInv, OpenInOrder, OpenOutside, FunctionsNest, ListedLate
  <2> QED BY <2>2, <2>3, <2>4 DEF IInv
<1>4. CASE Depth # 0
  <2> DEFINE new == [Inner EXCEPT !.mEnd = fileLineNumber]
  <2>1. /\ mFunctions' = Append(mFunctions, new)
        /\ mOpenFunctions' = SubSeq(mOpenFunctions, 1, Depth - 1)
    BY <1>4 DEF EndFunction
  <2>2. Depth \in Nat /\ Depth >= 1 /\ Depth \in DOMAIN mOpenFunctions
    BY <1>4 DEF Depth, IInv, TypeOK
  <2>3. Inner \in AsmFunction /\ Inner.mBegin \in 1 .. Len(input)
    BY <2>2 DEF Inner, IInv, TypeOK, FunctionsInFile
  <2>4. new \in AsmFunction /\ new.mBegin = Inner.mBegin /\ new.mEnd = Len(input) + 1
    BY <1>2, <2>3 DEF AsmFunction, fileLineNumber
  <2> HIDE DEF new
  <2>5. ASSUME NEW o \in DOMAIN mOpenFunctions'
        PROVE  /\ o \in DOMAIN mOpenFunctions /\ o < Depth
               /\ mOpenFunctions'[o] = mOpenFunctions[o]
    BY <2>1, <2>2 DEF Depth, IInv, TypeOK
  <2>6. ASSUME NEW x \in DOMAIN mFunctions'
        PROVE  \/ x \in DOMAIN mFunctions /\ mFunctions'[x] = mFunctions[x]
               \/ x = Len(mFunctions) + 1 /\ mFunctions'[x] = new
    BY <2>1, <2>4 DEF IInv, TypeOK
  <2>7. TypeOK'
    <3>1. mFunctions' \in Seq(AsmFunction) /\ mOpenFunctions' \in Seq(AsmFunction)
      BY <2>1, <2>2, <2>4 DEF Depth, IInv, TypeOK
    <3> QED BY <1>1, <3>1 DEF IInv, TypeOK
  <2>8. FunctionsInFile'
    <3>1. \A x \in DOMAIN mFunctions' :
            mFunctions'[x].mBegin >= 1 /\ mFunctions'[x].mEnd <= Len(input')
      BY <1>1, <1>2, <2>3, <2>4, <2>6, FoundSoFar
    <3>2. \A o \in DOMAIN mOpenFunctions' : mOpenFunctions'[o].mBegin \in 1 .. Len(input')
      BY <1>2, <2>5 DEF IInv, FunctionsInFile
    <3> QED BY <1>1, <3>1, <3>2 DEF FunctionsInFile, Reach
  <2>9. OpenInOrder'
    BY <2>5 DEF IInv, OpenInOrder
  <2>10. OpenOutside'
    <3> SUFFICES ASSUME NEW x \in DOMAIN mFunctions', NEW o \in DOMAIN mOpenFunctions'
                 PROVE  \/ mFunctions'[x].mEnd < mOpenFunctions'[o].mBegin
                        \/ mOpenFunctions'[o].mBegin < mFunctions'[x].mBegin
      BY DEF OpenOutside
    <3>1. mOpenFunctions[o].mBegin < Inner.mBegin
      BY <2>2, <2>5 DEF Inner, IInv, OpenInOrder
    <3> QED BY <1>1, <2>4, <2>5, <2>6, <3>1 DEF IInv, OpenOutside
  <2>11. FunctionsNest'
    <3>1. ASSUME NEW x \in DOMAIN mFunctions
          PROVE  \/ mFunctions[x].mEnd < new.mBegin
                 \/ new.mBegin <= mFunctions[x].mBegin /\ mFunctions[x].mEnd <= new.mEnd
      <4>1. /\ mFunctions[x].mBegin \in Nat /\ mFunctions[x].mEnd \in Nat
            /\ mFunctions[x].mEnd <= Len(input)
        BY <1>1, FoundSoFar
      <4>2. mFunctions[x].mEnd < Inner.mBegin \/ Inner.mBegin < mFunctions[x].mBegin
        BY <1>1, <2>2 DEF Inner, IInv, OpenOutside
      <4> QED BY <1>2, <2>3, <2>4, <4>1, <4>2
    <3>2. new.mBegin <= new.mBegin /\ new.mEnd <= new.mEnd
      BY <2>4 DEF AsmFunction
    <3> QED BY <2>6, <3>1, <3>2 DEF IInv, FunctionsNest
  <2>12. ListedLate'
    BY <1>1 DEF ListedLate
  <2> QED BY <2>7, <2>8, <2>9, <2>10, <2>11, <2>12 DEF IInv
<1> QED BY <1>3, <1>4

LEMMA NameStep ==
  ASSUME IInv, NEW line \in Lines, NameFunction(line), UNCHANGED gvars
  PROVE  IInv'
<1>1. /\ pc = "reading" /\ pc' = pc /\ input' = Append(input, line)
      /\ mFunctions' = mFunctions
      /\ outputFile' = outputFile /\ written' = written /\ files' = files
      /\ line.name \in Names
  BY LinesAssumption DEF NameFunction, Read, gvars, LineShape
<1>2. Len(input) \in Nat /\ Len(input') = Len(input) + 1
  BY <1>1 DEF IInv, TypeOK
<1>3. /\ mOpenFunctions' \in Seq(AsmFunction)
      /\ DOMAIN mOpenFunctions' = DOMAIN mOpenFunctions
      /\ \A o \in DOMAIN mOpenFunctions :
           mOpenFunctions'[o].mBegin = mOpenFunctions[o].mBegin
  <2>1. CASE Depth = 0
    BY <2>1 DEF NameFunction, IInv, TypeOK
  <2>2. CASE Depth # 0
    <3>1. Depth \in DOMAIN mOpenFunctions /\ mOpenFunctions \in Seq(AsmFunction)
      BY <2>2 DEF Depth, IInv, TypeOK
    <3> DEFINE named == [mOpenFunctions[Depth] EXCEPT
                           !.mAssignedName = line.name,
                           !.mOmittedLines = @ \cup {fileLineNumber}]
    <3>2. named \in AsmFunction /\ named.mBegin = mOpenFunctions[Depth].mBegin
      <4>1. mOpenFunctions[Depth] \in AsmFunction
        BY <3>1
      <4>2. /\ mOpenFunctions[Depth].mOmittedLines \in SUBSET Nat
            /\ fileLineNumber \in Nat
        BY <1>2, <4>1 DEF AsmFunction, fileLineNumber
      <4> DEFINE omitted == mOpenFunctions[Depth].mOmittedLines \cup {fileLineNumber}
      <4>3. omitted \in SUBSET Nat
        BY <4>2
      <4> HIDE DEF omitted
      <4>4. named = [mOpenFunctions[Depth] EXCEPT !.mAssignedName = line.name,
                                                   !.mOmittedLines = omitted]
        BY DEF omitted
      <4> HIDE DEF named
      <4> QED BY <1>1, <4>1, <4>3, <4>4 DEF AsmFunction
    <3>3. mOpenFunctions' = [mOpenFunctions EXCEPT ![Depth] = named]
      BY <2>2, <3>1 DEF NameFunction
    <3> HIDE DEF named
    <3> QED BY <3>1, <3>2, <3>3
  <2> QED BY <2>1, <2>2
<1>4. TypeOK'
  BY <1>1, <1>3 DEF IInv, TypeOK
<1>5. FunctionsInFile'
  <2>1. \A x \in DOMAIN mFunctions :
          mFunctions[x].mBegin >= 1 /\ mFunctions[x].mEnd <= Len(input')
    BY <1>1, <1>2, FoundSoFar
  <2>2. \A o \in DOMAIN mOpenFunctions' : mOpenFunctions'[o].mBegin \in 1 .. Len(input')
    BY <1>1, <1>2, <1>3 DEF IInv, FunctionsInFile
  <2> QED BY <1>1, <1>2, <1>3, <2>1, <2>2 DEF FunctionsInFile, Reach
<1>6. OpenInOrder' /\ OpenOutside' /\ FunctionsNest' /\ ListedLate'
  BY <1>1, <1>3 DEF IInv, OpenInOrder, OpenOutside, FunctionsNest, ListedLate
<1> QED BY <1>4, <1>5, <1>6 DEF IInv

LEMMA CodeStep ==
  ASSUME IInv, NEW line \in Lines, ReadCode(line), UNCHANGED gvars
  PROVE  IInv'
<1>1. /\ pc = "reading" /\ pc' = pc /\ input' = Append(input, line)
      /\ mFunctions' = mFunctions /\ mOpenFunctions' = mOpenFunctions
      /\ outputFile' = outputFile /\ written' = written /\ files' = files
  BY DEF ReadCode, Read, gvars
<1>2. Len(input) \in Nat /\ Len(input') = Len(input) + 1
  BY <1>1 DEF IInv, TypeOK
<1>3. TypeOK'
  BY <1>1 DEF IInv, TypeOK
<1>4. FunctionsInFile'
  <2>1. \A x \in DOMAIN mFunctions :
          mFunctions[x].mBegin >= 1 /\ mFunctions[x].mEnd <= Len(input')
    BY <1>1, <1>2, FoundSoFar
  <2>2. \A o \in DOMAIN mOpenFunctions' : mOpenFunctions'[o].mBegin \in 1 .. Len(input')
    BY <1>1, <1>2 DEF IInv, FunctionsInFile
  <2> QED BY <1>1, <1>2, <2>1, <2>2 DEF FunctionsInFile, Reach
<1>5. OpenInOrder' /\ OpenOutside' /\ FunctionsNest' /\ ListedLate'
  BY <1>1 DEF IInv, OpenInOrder, OpenOutside, FunctionsNest, ListedLate
<1> QED BY <1>3, <1>4, <1>5 DEF IInv

(* "all" contains every other function.                                    *)
LEMMA EndOfFileStep ==
  ASSUME IInv, EndOfFile, UNCHANGED gvars
  PROVE  IInv'
<1> DEFINE all == [NewFunction(1, "all") EXCEPT !.mEnd = fileLineNumber]
<1>1. /\ pc = "reading" /\ pc' = "directory" /\ input' = input
      /\ mFunctions' = Append(mFunctions, all) /\ mOpenFunctions' = mOpenFunctions
      /\ outputFile' = <<>> /\ written' = 0 /\ files' = files
  BY DEF EndOfFile, gvars, IInv, ListedLate
<1>2. Len(input) \in Nat
  BY DEF IInv, TypeOK
<1>3. all \in AsmFunction /\ all.mBegin = 1 /\ all.mEnd = Len(input) + 1
  BY <1>2, NamesAssumption DEF AsmFunction, NewFunction, fileLineNumber
<1> HIDE DEF all
<1>4. ASSUME NEW x \in DOMAIN mFunctions'
      PROVE  \/ x \in DOMAIN mFunctions /\ mFunctions'[x] = mFunctions[x]
             \/ x = Len(mFunctions) + 1 /\ mFunctions'[x] = all
  BY <1>1, <1>3 DEF IInv, TypeOK
<1>5. TypeOK'
  BY <1>1, <1>3 DEF IInv, TypeOK
<1>6. ASSUME NEW x \in DOMAIN mFunctions
      PROVE  /\ mFunctions[x].mBegin \in Nat /\ mFunctions[x].mBegin >= 1
             /\ mFunctions[x].mEnd \in Nat /\ mFunctions[x].mEnd <= Len(input)
  BY <1>1, FoundSoFar
<1>7. FunctionsInFile'
  <2>1. \A x \in DOMAIN mFunctions' :
          mFunctions'[x].mBegin >= 1 /\ mFunctions'[x].mEnd <= Len(input) + 1
    BY <1>2, <1>3, <1>4, <1>6
  <2> QED BY <1>1, <2>1 DEF IInv, FunctionsInFile, Reach
<1>8. FunctionsNest'
  BY <1>2, <1>3, <1>4, <1>6 DEF IInv, FunctionsNest
<1>9. OpenInOrder' /\ OpenOutside' /\ ListedLate'
  BY <1>1 DEF IInv, OpenInOrder, OpenOutside, ListedLate
<1> QED BY <1>5, <1>7, <1>8, <1>9 DEF IInv

(* From the end of the file on the functions stay as they are.             *)
LEMMA StepIInv == IInv /\ [Next]_allVars => IInv'
<1> SUFFICES ASSUME IInv, [Next]_allVars PROVE IInv'
  OBVIOUS
<1> USE DEF IInv, FunctionsInFile, OpenInOrder, OpenOutside, FunctionsNest, ListedLate,
            Reach
<1>1. CASE Parse
  <2>1. CASE Open
    <3>1. TypeOK'
      BY <1>1, <2>1 DEF Parse, Open, TypeOK, gvars
    <3>2. \A x \in DOMAIN mFunctions : mFunctions[x].mEnd <= Len(input) + 1
      BY <2>1, FunctionType DEF Open, TypeOK
    <3> QED BY <1>1, <2>1, <3>1, <3>2 DEF Parse, Open, gvars
  <2> HIDE DEF IInv
  <2>2. ASSUME NEW line \in Lines,
               StartFunction(line) \/ EndFunction(line) \/ NameFunction(line) \/ ReadCode(line)
        PROVE  IInv'
    BY <1>1, <2>2, StartStep, EndStep, NameStep, CodeStep DEF Parse
  <2>3. CASE EndOfFile
    BY <1>1, <2>3, EndOfFileStep DEF Parse
  <2> QED BY <1>1, <2>1, <2>2, <2>3 DEF Parse, ParseNext
<1>2. CASE MakeDirectory
  BY <1>2 DEF MakeDirectory, gvars, TypeOK
<1>3. CASE WriteList
  BY <1>3 DEF WriteList, TypeOK
<1>4. CASE WriteFunction
  <2> DEFINE f == mFunctions[written + 1]
  <2>1. written + 1 \in DOMAIN mFunctions /\ f \in AsmFunction
    BY <1>4 DEF WriteFunction, TypeOK
  <2>2. f.mAssignedName \in Names /\ Body(f) \in SUBSET Nat
    BY <2>1, BodyType DEF AsmFunction
  <2>3. DOMAIN files' \subseteq Names /\ files' \in [DOMAIN files' -> SUBSET Nat]
    BY <1>4, <2>2 DEF WriteFunction, TypeOK
  <2>4. TypeOK'
    BY <1>4, <2>3 DEF WriteFunction, TypeOK, vars
  <2> QED BY <1>4, <2>4 DEF WriteFunction, vars
<1>5. CASE OpenFails
  BY <1>5 DEF OpenFails, gvars, TypeOK
<1>6. CASE Done
  BY <1>6 DEF Done, gvars, TypeOK
<1>7. CASE Exit \/ UNCHANGED allVars
  BY <1>7 DEF Exit, allVars, vars, gvars, TypeOK
<1> QED BY <1>1, <1>2, <1>3, <1>4, <1>5, <1>6, <1>7 DEF Next

LEMMA Invariance == Spec => []IInv
  BY InitIInv, StepIInv, PTL DEF Spec

(* Every variable always holds a value of its type.                        *)
THEOREM AsmTypeCorrect == Spec => []TypeOK
<1>1. IInv => TypeOK
  BY DEF IInv
<1> QED BY Invariance, <1>1, PTL

(* Every index with which generate() reads lines() is in range.            *)
THEOREM AsmAccessInRange == Spec => []AccessInRange
<1>1. IInv => AccessInRange
  <2> SUFFICES ASSUME IInv, NEW x \in DOMAIN mFunctions,
                      NEW l \in IndexRange(mFunctions[x])
               PROVE  l < Len(input)
    BY DEF AccessInRange
  <2>1. /\ mFunctions[x].mBegin \in Nat /\ mFunctions[x].mEnd \in Nat
        /\ mFunctions[x].mEnd <= Len(input) + 1 /\ Len(input) \in Nat
    BY FunctionType DEF IInv, TypeOK, FunctionsInFile, Reach
  <2> QED BY <2>1 DEF IndexRange
<1> QED BY Invariance, <1>1, PTL

(* Two functions are always disjoint or one lies within the other,         *)
(* whatever the marks in the file are.                                     *)
THEOREM FunctionsAlwaysNest == Spec => []FunctionsNest
<1>1. IInv => FunctionsNest
  BY DEF IInv
<1> QED BY Invariance, <1>1, PTL

-----------------------------------------------------------------------------
(* One more line has been read.                                            *)
LEMMA LineRead ==
  ASSUME TypeOK, NEW line \in Lines, NEW kind, Read(line, kind), NEW n, n = Len(input)
  PROVE  /\ n \in Nat /\ Len(input') = n + 1 /\ line.kind = kind
         /\ \A i \in 1 .. n : input'[i] = input[i]
         /\ input'[n + 1] = line
         /\ \A k : Marked(k) \in SUBSET (1 .. n)
         /\ \A k : Marked(k)' = IF kind = k THEN Marked(k) \cup {n + 1} ELSE Marked(k)
<1>1. /\ n \in Nat /\ Len(input') = n + 1 /\ line.kind = kind
      /\ \A i \in 1 .. n : input'[i] = input[i]
      /\ input'[n + 1] = line
  BY AppendFacts, LenProperties DEF Read, TypeOK
<1>2. \A i : i \in 1 .. n + 1 <=> i \in 1 .. n \/ i = n + 1
  BY <1>1
<1>3. n + 1 \notin 1 .. n
  BY <1>1
<1> QED BY <1>1, <1>2, <1>3 DEF Marked, LinesRead

(* No line is both a start and an end.                                     *)
LEMMA FileMarks ==
  ASSUME TypeOK
  PROVE  /\ Marks(Len(input), Marked("start"), Marked("end"))
         /\ Len(input) \in Nat /\ Marked("name") \in SUBSET (1 .. Len(input))
         /\ FunctionEnds \in SUBSET (1 .. Len(input))
<1>1. Len(input) \in Nat
  BY LenProperties DEF TypeOK
<1>2. /\ \A k : Marked(k) \in SUBSET (1 .. Len(input))
      /\ Marked("start") \cap Marked("end") = {}
  BY DEF Marked, LinesRead
<1> QED BY <1>1, <1>2 DEF Marks, FunctionEnds, MatchedEnds

LEMMA MarksGrow ==
  ASSUME TypeOK, NEW line \in Lines, NEW kind, Read(line, kind), NEW n, n = Len(input),
         NEW S, S = Marked("start"), NEW E, E = Marked("end"),
         NEW T, T = Marked("start")', NEW F, F = Marked("end")'
  PROVE  /\ OneMore(n, S, E, T, F)
         /\ T = IF kind = "start" THEN S \cup {n + 1} ELSE S
         /\ F = IF kind = "end" THEN E \cup {n + 1} ELSE E
<1>1. Marks(n, S, E)
  BY FileMarks
<1>2. /\ T = IF kind = "start" THEN S \cup {n + 1} ELSE S
      /\ F = IF kind = "end" THEN E \cup {n + 1} ELSE E
  BY LineRead
<1>3. /\ OneMore(n, S, E, S, E)
      /\ OneMore(n, S, E, S \cup {n + 1}, E)
      /\ OneMore(n, S, E, S, E \cup {n + 1})
  BY <1>1, NextMarks
<1> QED BY <1>2, <1>3

(* A name line names the innermost function, other lines none.             *)
LEMMA NamesStep ==
  ASSUME TypeOK, NEW line \in Lines, NEW kind, Read(line, kind), NEW n, n = Len(input),
         NEW p, StackOf(Marked("start"), Marked("end"), p, n), NEW i
  PROVE  NamesOf(i)' = IF kind = "name" /\ Len(p) # 0 /\ i = p[Len(p)]
                       THEN NamesOf(i) \cup {n + 1} ELSE NamesOf(i)
<1>1. PICK S, E, T, F, N, M : /\ S = Marked("start") /\ E = Marked("end") /\ N = Marked("name")
                              /\ T = Marked("start")' /\ F = Marked("end")' /\ M = Marked("name")'
  OBVIOUS
<1>2. /\ OneMore(n, S, E, T, F)
      /\ T = IF kind = "start" THEN S \cup {n + 1} ELSE S
      /\ F = IF kind = "end" THEN E \cup {n + 1} ELSE E
  BY <1>1, MarksGrow
<1>3. N \in SUBSET (1 .. n) /\ M = IF kind = "name" THEN N \cup {n + 1} ELSE N
  BY <1>1, LineRead
<1>4. /\ NamesOf(i) = {k \in N : Innermost(S, E, i, k)}
      /\ NamesOf(i)' = {k \in M : Innermost(T, F, i, k)}
  BY <1>1 DEF NamesOf
<1>5. \A k \in N : Innermost(T, F, i, k) <=> Innermost(S, E, i, k)
  BY <1>2, <1>3, OpenStays
<1>6. CASE kind # "name"
  BY <1>3, <1>4, <1>5, <1>6
<1>7. CASE kind = "name"
  <2>1. T = S /\ F = E /\ M = N \cup {n + 1} /\ Marks(n, S, E)
    BY <1>2, <1>3, <1>7, MoreMarks
  <2>2. Innermost(T, F, i, n + 1) <=> Len(p) # 0 /\ i = p[Len(p)]
    BY <1>1, <2>1, InnermostIsTop
  <2>3. {k \in M : Innermost(T, F, i, k)} =
          {k \in N : Innermost(S, E, i, k)} \cup {k \in {n + 1} : Innermost(T, F, i, k)}
    BY <1>5, <2>1
  <2> QED BY <1>4, <1>7, <2>2, <2>3
<1> QED BY <1>6, <1>7

(* The name a function has so far is that of the last line that names it.  *)
LEMMA NameOfStep ==
  ASSUME TypeOK, NEW line \in Lines, NEW kind, Read(line, kind), NEW n, n = Len(input),
         NEW p, StackOf(Marked("start"), Marked("end"), p, n), NEW i \in 1 .. n
  PROVE  /\ i \in 1 .. n + 1 /\ input'[i] = input[i]
         /\ NameOf(i)' = IF kind = "name" /\ Len(p) # 0 /\ i = p[Len(p)]
                         THEN line.name ELSE NameOf(i)
<1>1. /\ n \in Nat /\ input'[n + 1] = line /\ i \in 1 .. n + 1
      /\ \A k \in 1 .. n : input'[k] = input[k]
  <2>1. /\ n \in Nat /\ input'[n + 1] = line
        /\ \A k \in 1 .. n : input'[k] = input[k]
    BY ONLY TypeOK, Read(line, kind), n = Len(input), LineRead
  <2> QED BY ONLY <2>1, i \in 1 .. n
<1>2. PICK A, B : A = NamesOf(i) /\ B = NamesOf(i)'
  OBVIOUS
<1>3. B = IF kind = "name" /\ Len(p) # 0 /\ i = p[Len(p)] THEN A \cup {n + 1} ELSE A
  BY <1>2, NamesStep
<1>4. A \in SUBSET (1 .. n)
  BY <1>2, FileMarks DEF NamesOf
<1>5. /\ NameOf(i) = input[IF A = {} THEN i ELSE Max(A)].name
      /\ NameOf(i)' = input'[IF B = {} THEN i ELSE Max(B)].name
  BY <1>2 DEF NameOf
<1>6. CASE B = A
  <2>1. A # {} => Max(A) \in 1 .. n
    <3> SUFFICES ASSUME A # {} PROVE Max(A) \in 1 .. n
      OBVIOUS
    <3>1. A \in SUBSET (0 .. n)
      BY <1>4
    <3>2. PICK m \in A : \A k \in A : k <= m
      BY <1>1, <3>1, GreatestNumber
    <3>3. \A k \in A : m >= k
      BY <1>1, <1>4, <3>2
    <3>4. Max(A) \in A
      BY <3>2, <3>3 DEF Max
    <3> QED BY <1>4, <3>4
  <2>2. NameOf(i)' = NameOf(i)
    BY <1>1, <1>5, <1>6, <2>1
  <2>3. n + 1 \notin A
    BY <1>1, <1>4
  <2> QED BY <1>1, <1>3, <1>6, <2>2, <2>3
<1>7. CASE kind = "name" /\ Len(p) # 0 /\ i = p[Len(p)]
  <2>1. B = A \cup {n + 1}
    BY <1>3, <1>7
  <2>2. /\ n + 1 \in B /\ \A k \in B : n + 1 >= k
        /\ \A m \in B : m >= n + 1 => m = n + 1
    <3>1. \A k \in A : k \in Nat /\ k <= n
      BY <1>1, <1>4
    <3> QED BY <1>1, <2>1, <3>1
  <2>3. Max(B) = n + 1
    BY <2>2 DEF Max
  <2> QED BY <1>1, <1>5, <1>7, <2>2, <2>3
<1> QED BY <1>1, <1>3, <1>6, <1>7

(* What is known of a function changes with its names only.                *)
Renamed(f, name, k) ==
    [mBegin |-> f.mBegin, mEnd |-> f.mEnd, mName |-> f.mName,
     mAssignedName |-> name, mOmittedLines |-> f.mOmittedLines \cup {k}]

LEMMA RenamedFields ==
  ASSUME NEW f \in AsmFunction, NEW name, NEW k
  PROVE  [f EXCEPT !.mAssignedName = name, !.mOmittedLines = @ \cup {k}] = Renamed(f, name, k)
<1>1. PICK g, M : g = [f EXCEPT !.mAssignedName = name] /\ M = f.mOmittedLines \cup {k}
  OBVIOUS
<1>2. PICK i, j, x, A : i = f.mBegin /\ j = f.mEnd /\ x = f.mName /\ A = f.mOmittedLines
  OBVIOUS
<1>3. g = [mBegin |-> i, mEnd |-> j, mName |-> x, mAssignedName |-> name, mOmittedLines |-> A]
  BY <1>1, <1>2 DEF AsmFunction
<1>4. [f EXCEPT !.mAssignedName = name, !.mOmittedLines = @ \cup {k}]
        = [g EXCEPT !.mOmittedLines = M]
  BY <1>1, <1>3, <1>2
<1>5. [g EXCEPT !.mOmittedLines = M]
        = [mBegin |-> i, mEnd |-> j, mName |-> x, mAssignedName |-> name, mOmittedLines |-> M]
  BY <1>3
<1> QED BY <1>1, <1>2, <1>4, <1>5 DEF Renamed

LEMMA FunctionStep ==
  ASSUME TypeOK, NEW line \in Lines, NEW kind, Read(line, kind), NEW n, n = Len(input),
         NEW p, StackOf(Marked("start"), Marked("end"), p, n), NEW i \in 1 .. n, NEW j
  PROVE  FunctionAt(i, j)' =
           IF kind = "name" /\ Len(p) # 0 /\ i = p[Len(p)]
           THEN Renamed(FunctionAt(i, j), line.name, n + 1)
           ELSE FunctionAt(i, j)
<1>1. PICK A, B : A = NamesOf(i) /\ B = NamesOf(i)'
  OBVIOUS
<1>2. PICK a, b : a = NameOf(i) /\ b = NameOf(i)'
  OBVIOUS
<1>3. B = IF kind = "name" /\ Len(p) # 0 /\ i = p[Len(p)] THEN A \cup {n + 1} ELSE A
  BY <1>1, NamesStep
<1>4. /\ input'[i] = input[i]
      /\ b = IF kind = "name" /\ Len(p) # 0 /\ i = p[Len(p)] THEN line.name ELSE a
  BY <1>2, NameOfStep
<1>5. /\ FunctionAt(i, j) = [mBegin |-> i, mEnd |-> j, mName |-> input[i].name,
                             mAssignedName |-> a, mOmittedLines |-> A]
      /\ FunctionAt(i, j)' = [mBegin |-> i, mEnd |-> j, mName |-> input'[i].name,
                              mAssignedName |-> b, mOmittedLines |-> B]
  BY <1>1, <1>2 DEF FunctionAt
<1>6. CASE kind = "name" /\ Len(p) # 0 /\ i = p[Len(p)]
  <2>1. B = A \cup {n + 1} /\ b = line.name /\ input'[i].name = input[i].name
    BY <1>3, <1>4, <1>6
  <2>2. FunctionAt(i, j)' = Renamed(FunctionAt(i, j), line.name, n + 1)
    BY <1>5, <2>1 DEF Renamed
  <2> QED BY <1>6, <2>2
<1>7. CASE ~(kind = "name" /\ Len(p) # 0 /\ i = p[Len(p)])
  <2>1. B = A /\ b = a /\ input'[i].name = input[i].name
    BY <1>3, <1>4, <1>7
  <2> QED BY <1>5, <1>7, <2>1
<1> QED BY <1>6, <1>7

-----------------------------------------------------------------------------
(* The open functions are the starts without an end so far.                *)
OpenAre(p) ==
    /\ StackOf(Marked("start"), Marked("end"), p, Len(input))
    /\ Len(p) = Len(mOpenFunctions)
    /\ \A x \in 1 .. Len(p) : mOpenFunctions[x] = FunctionAt(p[x], 0)

LEMMA OpenRange ==
  ASSUME TypeOK, NEW p, OpenAre(p)
  PROVE  /\ p \in Seq(Nat) /\ Len(p) \in Nat
         /\ \A x \in 1 .. Len(p) : p[x] \in 1 .. Len(input)
         /\ \A x, y \in 1 .. Len(p) : p[x] = p[y] => x = y
<1>1. StackOf(Marked("start"), Marked("end"), p, Len(input))
  BY DEF OpenAre
<1>2. p \in Seq(Nat) /\ Len(p) \in Nat
  BY <1>1, LenProperties DEF StackOf
<1>3. \A x \in 1 .. Len(p) : p[x] \in 1 .. Len(input)
  BY <1>1 DEF StackOf, Marked, LinesRead
<1>4. \A x, y \in 1 .. Len(p) : x < y => p[x] < p[y]
  <2> TAKE x, y \in 1 .. Len(p)
  <2> HAVE x < y
  <2>1. y \in x + 1 .. Len(p)
    BY <1>2
  <2> QED BY <1>1, <2>1 DEF StackOf
<1>5. \A x, y \in 1 .. Len(p) : p[x] = p[y] => x = y
  <2> TAKE x, y \in 1 .. Len(p)
  <2>1. ~(x < y /\ p[x] = p[y]) /\ ~(y < x /\ p[x] = p[y])
    BY <1>2, <1>3, <1>4, FileMarks
  <2> QED BY <1>2, <2>1
<1> QED BY <1>2, <1>3, <1>5

LEMMA OpenCode ==
  ASSUME TypeOK, NEW line \in Lines, ReadCode(line), NEW p, OpenAre(p)
  PROVE  OpenAre(p)'
<1>1. PICK n, S, E, T, F : /\ n = Len(input) /\ S = Marked("start") /\ E = Marked("end")
                           /\ T = Marked("start")' /\ F = Marked("end")'
  OBVIOUS
<1>2. Read(line, "code") /\ mOpenFunctions' = mOpenFunctions
  BY DEF ReadCode
<1>3. Marks(n, S, E) /\ T = S /\ F = E /\ Len(input') = n + 1
  <2>1. OneMore(n, S, E, T, F) /\ T = S /\ F = E
    BY <1>1, <1>2, MarksGrow
  <2> QED BY <1>1, <1>2, <2>1, MoreMarks, LineRead
<1>4. StackOf(S, E, p, n)
  BY <1>1 DEF OpenAre
<1>5. StackOf(T, F, p, n + 1)
  BY <1>3, <1>4, StackSkips
<1>6. \A x \in 1 .. Len(p) : FunctionAt(p[x], 0)' = FunctionAt(p[x], 0)
  <2> TAKE x \in 1 .. Len(p)
  <2>1. p[x] \in 1 .. n /\ StackOf(Marked("start"), Marked("end"), p, n)
    BY <1>1, OpenRange DEF OpenAre
  <2>2. ASSUME NEW i \in 1 .. n PROVE FunctionAt(i, 0)' = FunctionAt(i, 0)
    BY <1>1, <1>2, <2>1, FunctionStep
  <2> QED BY <2>1, <2>2
<1> QED BY <1>1, <1>2, <1>3, <1>5, <1>6 DEF OpenAre

LEMMA OpenName ==
  ASSUME TypeOK, NEW line \in Lines, NameFunction(line), NEW p, OpenAre(p)
  PROVE  OpenAre(p)'
<1>1. PICK n, S, E, T, F : /\ n = Len(input) /\ S = Marked("start") /\ E = Marked("end")
                           /\ T = Marked("start")' /\ F = Marked("end")'
  OBVIOUS
<1>2. Read(line, "name")
  BY DEF NameFunction
<1>3. n \in Nat /\ Marks(n, S, E) /\ T = S /\ F = E /\ Len(input') = n + 1
  <2>1. OneMore(n, S, E, T, F) /\ T = S /\ F = E
    BY <1>1, <1>2, MarksGrow
  <2> QED BY <1>1, <1>2, <2>1, MoreMarks, LineRead
<1>4. StackOf(S, E, p, n)
  BY <1>1 DEF OpenAre
<1>5. StackOf(T, F, p, n + 1)
  BY <1>3, <1>4, StackSkips
<1>6. \A x \in 1 .. Len(p) :
        FunctionAt(p[x], 0)' =
          IF x = Len(p)
          THEN Renamed(FunctionAt(p[x], 0), line.name, n + 1)
          ELSE FunctionAt(p[x], 0)
  <2> TAKE x \in 1 .. Len(p)
  <2>1. /\ p[x] \in 1 .. n /\ Len(p) # 0 /\ Len(p) \in 1 .. Len(p)
        /\ p[x] = p[Len(p)] <=> x = Len(p)
    <3>1. Len(p) \in Nat /\ p[x] \in 1 .. n
      BY <1>1, OpenRange
    <3>2. Len(p) # 0 /\ Len(p) \in 1 .. Len(p)
      BY <3>1
    <3> QED BY <3>1, <3>2, OpenRange
  <2>2. StackOf(Marked("start"), Marked("end"), p, n)
    BY <1>1 DEF OpenAre
  <2> QED BY <1>1, <1>2, <2>1, <2>2, FunctionStep
<1>7. fileLineNumber = n + 1
  BY <1>1 DEF fileLineNumber
<1>8. Len(p) = Len(mOpenFunctions) /\ mOpenFunctions \in Seq(AsmFunction)
      /\ \A x \in 1 .. Len(p) : mOpenFunctions[x] = FunctionAt(p[x], 0)
  BY DEF OpenAre, TypeOK
<1>9. CASE Len(p) = 0
  <2>1. mOpenFunctions' = mOpenFunctions /\ \A x : x \notin 1 .. Len(p)
    BY <1>8, <1>9 DEF NameFunction, Depth
  <2> QED BY <1>1, <1>3, <1>5, <1>8, <2>1 DEF OpenAre
<1>10. CASE Len(p) # 0
  <2>1. mOpenFunctions' = [mOpenFunctions EXCEPT
                 ![Len(p)].mAssignedName = line.name,
                 ![Len(p)].mOmittedLines = @ \cup {n + 1}]
    BY <1>7, <1>8, <1>10 DEF NameFunction, Depth
  <2>2. /\ Len(mOpenFunctions') = Len(p)
        /\ \A x \in 1 .. Len(p) :
             mOpenFunctions'[x] =
               IF x = Len(p)
               THEN Renamed(mOpenFunctions[x], line.name, n + 1)
               ELSE mOpenFunctions[x]
    <3>1. PICK f : f = Renamed(mOpenFunctions[Len(p)], line.name, n + 1)
      OBVIOUS
    <3>2. mOpenFunctions' = [mOpenFunctions EXCEPT ![Len(p)] = f]
      <4>1. mOpenFunctions[Len(p)] \in AsmFunction
        BY <1>8, <1>10, LenProperties
      <4>2. [mOpenFunctions[Len(p)] EXCEPT !.mAssignedName = line.name,
                                           !.mOmittedLines = @ \cup {n + 1}] = f
        BY <3>1, <4>1, RenamedFields
      <4> QED BY <1>8, <2>1, <4>2
    <3>3. /\ Len(mOpenFunctions') = Len(p)
          /\ \A x \in 1 .. Len(p) :
               mOpenFunctions'[x] = IF x = Len(p) THEN f ELSE mOpenFunctions[x]
      BY <1>8, <3>2
    <3> QED BY <3>1, <3>3
  <2>3. \A x \in 1 .. Len(p) : mOpenFunctions'[x] = FunctionAt(p[x], 0)'
    BY <1>6, <1>8, <2>2
  <2> QED BY <1>1, <1>3, <1>5, <2>2, <2>3 DEF OpenAre
<1> QED BY <1>9, <1>10

LEMMA OpenStart ==
  ASSUME TypeOK, NEW line \in Lines, StartFunction(line), NEW p, OpenAre(p), NEW n, n = Len(input)
  PROVE  OpenAre(Append(p, n + 1))'
<1>1. PICK S, E, T, F : /\ S = Marked("start") /\ E = Marked("end")
                        /\ T = Marked("start")' /\ F = Marked("end")'
  OBVIOUS
<1>2. Read(line, "start")
      /\ mOpenFunctions' = Append(mOpenFunctions, NewFunction(n + 1, line.name))
  BY DEF StartFunction, fileLineNumber
<1>3. /\ n \in Nat /\ Marks(n, S, E) /\ T = S \cup {n + 1} /\ F = E /\ Len(input') = n + 1
      /\ n + 1 \notin S /\ input'[n + 1] = line
  <2>1. OneMore(n, S, E, T, F) /\ T = S \cup {n + 1} /\ F = E
    BY <1>1, <1>2, MarksGrow
  <2> QED BY <1>1, <1>2, <2>1, MoreMarks, LineRead
<1>4. StackOf(S, E, p, n)
  BY <1>1 DEF OpenAre
<1> DEFINE q == Append(p, n + 1)
<1>5. StackOf(T, F, q, n + 1)
  BY <1>3, <1>4, StackPushes
<1>6. /\ p \in Seq(Nat) /\ Len(p) \in Nat
      /\ \A x \in 1 .. Len(p) : FunctionAt(p[x], 0)' = FunctionAt(p[x], 0)
  <2>1. p \in Seq(Nat) /\ Len(p) \in Nat /\ \A x \in 1 .. Len(p) : p[x] \in 1 .. n
    BY OpenRange
  <2>2. "start" # "name" /\ StackOf(Marked("start"), Marked("end"), p, n)
    BY <1>1 DEF OpenAre
  <2>3. ASSUME NEW x \in 1 .. Len(p) PROVE FunctionAt(p[x], 0)' = FunctionAt(p[x], 0)
    BY <1>1, <1>2, <2>1, <2>2, FunctionStep
  <2> QED BY <2>1, <2>3
<1>7. FunctionAt(n + 1, 0)' = NewFunction(n + 1, line.name)
  <2>1. NamesOf(n + 1)' = NamesOf(n + 1)
    BY <1>1, <1>2, <1>4, NamesStep
  <2>2. NamesOf(n + 1) = {}
    BY <1>1, <1>3 DEF NamesOf, Innermost, OpenAt
  <2>3. NameOf(n + 1)' = line.name
    BY <1>3, <2>1, <2>2 DEF NameOf
  <2> QED BY <1>3, <2>1, <2>2, <2>3 DEF FunctionAt, NewFunction
<1>8. /\ Len(p) = Len(mOpenFunctions)
      /\ \A x \in 1 .. Len(p) : mOpenFunctions[x] = FunctionAt(p[x], 0)
  BY DEF OpenAre
<1>9. /\ q \in Seq(Nat) /\ Len(q) = Len(p) + 1 /\ q[Len(p) + 1] = n + 1
      /\ \A x \in 1 .. Len(p) : q[x] = p[x]
  <2>1. n + 1 \in Nat
    BY <1>3
  <2> QED BY <1>6, <2>1, AppendFacts
<1>10. /\ Len(mOpenFunctions') = Len(p) + 1
       /\ mOpenFunctions'[Len(p) + 1] = NewFunction(n + 1, line.name)
       /\ \A x \in 1 .. Len(p) : mOpenFunctions'[x] = mOpenFunctions[x]
  <2>1. mOpenFunctions \in Seq(AsmFunction) /\ NewFunction(n + 1, line.name) \in AsmFunction
    <3>1. line.name \in Names /\ n + 1 \in Nat
      BY <1>2, <1>3, LinesAssumption DEF Read, LineShape
    <3> QED BY <3>1 DEF TypeOK, NewFunction, AsmFunction
  <2> QED BY <1>2, <1>8, <2>1, AppendFacts
<1> HIDE DEF q
<1>11. ASSUME NEW x \in 1 .. Len(q) PROVE mOpenFunctions'[x] = FunctionAt(q[x], 0)'
  <2>1. x \in 1 .. Len(p) \/ x = Len(p) + 1
    BY <1>6, <1>9
  <2> QED BY <1>6, <1>7, <1>8, <1>9, <1>10, <2>1
<1>12. OpenAre(q)'
  BY <1>1, <1>3, <1>5, <1>9, <1>10, <1>11 DEF OpenAre
<1> QED BY <1>12 DEF q

LEMMA OpenEnd ==
  ASSUME TypeOK, NEW line \in Lines, EndFunction(line), NEW p, OpenAre(p)
  PROVE  IF Len(p) = 0 THEN OpenAre(p)' ELSE OpenAre(SubSeq(p, 1, Len(p) - 1))'
<1>1. PICK n, S, E, T, F : /\ n = Len(input) /\ S = Marked("start") /\ E = Marked("end")
                           /\ T = Marked("start")' /\ F = Marked("end")'
  OBVIOUS
<1>2. Read(line, "end")
  BY DEF EndFunction
<1>3. n \in Nat /\ Marks(n, S, E) /\ T = S /\ F = E \cup {n + 1} /\ Len(input') = n + 1
  <2>1. OneMore(n, S, E, T, F) /\ T = S /\ F = E \cup {n + 1}
    BY <1>1, <1>2, MarksGrow
  <2> QED BY <1>1, <1>2, <2>1, MoreMarks, LineRead
<1>4. StackOf(S, E, p, n) /\ p \in Seq(Nat) /\ Len(p) \in Nat
  BY <1>1, OpenRange DEF OpenAre
<1>5. \A x \in 1 .. Len(p) : FunctionAt(p[x], 0)' = FunctionAt(p[x], 0)
  <2>1. \A x \in 1 .. Len(p) : p[x] \in 1 .. n
    BY <1>1, OpenRange
  <2>2. "end" # "name" /\ StackOf(Marked("start"), Marked("end"), p, n)
    BY <1>1 DEF OpenAre
  <2> QED BY <1>1, <1>2, <2>1, <2>2, FunctionStep
<1>6. /\ mOpenFunctions \in Seq(AsmFunction) /\ Len(p) = Len(mOpenFunctions)
      /\ \A x \in 1 .. Len(p) : mOpenFunctions[x] = FunctionAt(p[x], 0)
  BY DEF OpenAre, TypeOK
<1>7. CASE Len(p) = 0
  <2>1. StackOf(T, F, p, n + 1)
    BY <1>3, <1>4, <1>7, StackStray
  <2>2. mOpenFunctions' = mOpenFunctions
    BY <1>6, <1>7 DEF EndFunction, Depth
  <2>3. OpenAre(p)'
    BY <1>1, <1>3, <1>5, <1>6, <2>1, <2>2 DEF OpenAre
  <2> QED BY <1>7, <2>3
<1>8. CASE Len(p) # 0
  <2>1. PICK q, d : q = SubSeq(p, 1, Len(p) - 1) /\ d = Len(p) - 1
    OBVIOUS
  <2>2. p # <<>> /\ mOpenFunctions # <<>>
    BY <1>6, <1>8
  <2>3. StackOf(T, F, q, n + 1)
    BY <1>3, <1>4, <2>1, <2>2, StackPops
  <2>4. d \in Nat /\ Len(q) = d /\ \A x \in 1 .. d : q[x] = p[x]
    <3>1. Len(SubSeq(p, 1, Len(p) - 1)) = Len(p) - 1
          /\ \A i \in 1 .. Len(p) - 1 : SubSeq(p, 1, Len(p) - 1)[i] = p[i]
      BY <1>4, <2>2, ShorterFacts
    <3> QED BY <1>4, <1>8, <2>1, <3>1
  <2>5. Len(mOpenFunctions') = d /\ \A x \in 1 .. d : mOpenFunctions'[x] = mOpenFunctions[x]
    <3>1. mOpenFunctions' = SubSeq(mOpenFunctions, 1, Len(mOpenFunctions) - 1)
      BY <1>6, <1>8 DEF EndFunction, Depth
    <3>2. /\ Len(SubSeq(mOpenFunctions, 1, Len(mOpenFunctions) - 1)) = Len(mOpenFunctions) - 1
          /\ \A i \in 1 .. Len(mOpenFunctions) - 1 :
               SubSeq(mOpenFunctions, 1, Len(mOpenFunctions) - 1)[i] = mOpenFunctions[i]
      BY <1>6, <2>2, ShorterFacts
    <3> QED BY <1>6, <2>1, <3>1, <3>2
  <2>6. \A x \in 1 .. d : x \in 1 .. Len(p)
    BY <1>4, <2>1
  <2>7. ASSUME NEW x \in 1 .. d PROVE mOpenFunctions'[x] = FunctionAt(q[x], 0)'
    BY <1>5, <1>6, <2>4, <2>5, <2>6
  <2>8. OpenAre(q)'
    BY <1>1, <1>3, <2>3, <2>4, <2>5, <2>7 DEF OpenAre
  <2> QED BY <1>8, <2>1, <2>8
<1> QED BY <1>7, <1>8

-----------------------------------------------------------------------------
(* The functions found so far are those of the ends matched so far.        *)
Recorded(K) ==
    /\ K = FunctionEnds
    /\ \A j \in K : \A i : i = StartOf(j) => mFunctions[Place(j, K)] = FunctionAt(i, j)

(* What is known of a function that has ended does not change.             *)
LEMMA FoundStays ==
  ASSUME TypeOK, NEW line \in Lines, NEW kind, Read(line, kind), NEW n, n = Len(input),
         NEW p, StackOf(Marked("start"), Marked("end"), p, n), NEW j \in FunctionEnds
  PROVE  /\ j \in FunctionEnds' /\ StartOf(j)' = StartOf(j) /\ j \in 1 .. n
         /\ \A i : i = StartOf(j) => FunctionAt(i, j)' = FunctionAt(i, j)
<1>1. PICK S, E, T, F : /\ S = Marked("start") /\ E = Marked("end")
                        /\ T = Marked("start")' /\ F = Marked("end")'
  OBVIOUS
<1>2. OneMore(n, S, E, T, F)
  BY <1>1, MarksGrow
<1>3. n \in Nat /\ Marks(n, S, E)
  BY <1>2, MoreMarks
<1>4. PICK i : i = MatchOf(S, E, j)
  OBVIOUS
<1>5. j \in MatchedEnds(S, E)
  BY <1>1 DEF FunctionEnds
<1>6. Matched(S, E, i, j) /\ i \in 1 .. n /\ j \in 1 .. n /\ i \in S
  <2>1. Matched(S, E, i, j) /\ i \in 1 .. n /\ j \in 1 .. n
    BY <1>3, <1>4, <1>5, MatchOfIs
  <2> QED BY <2>1 DEF Matched
<1>7. j # n + 1
  BY <1>3, <1>6
<1>8. j \in MatchedEnds(T, F) /\ MatchOf(T, F, j) = i
  BY <1>2, <1>4, <1>5, <1>7, MatchesStay
<1>9. j \in FunctionEnds' /\ StartOf(j)' = i /\ StartOf(j) = i
  BY <1>1, <1>4, <1>8 DEF FunctionEnds, StartOf
<1>10. ~(Len(p) # 0 /\ i = p[Len(p)])
  <2>1. ~\E x \in 1 .. Len(p) : p[x] = i
    BY <1>1, <1>3, <1>6, StackIsOpen
  <2>2. Len(p) \in Nat
    BY LenProperties DEF StackOf
  <2>3. Len(p) # 0 => Len(p) \in 1 .. Len(p)
    BY <2>2
  <2> QED BY <2>1, <2>3
<1>11. FunctionAt(i, j)' = FunctionAt(i, j)
  BY <1>6, <1>10, FunctionStep
<1> QED BY <1>6, <1>9, <1>11

(* Only an end with an open function adds a function, the innermost one.   *)
LEMMA EndsStep ==
  ASSUME TypeOK, NEW line \in Lines, NEW kind, Read(line, kind), NEW n, n = Len(input),
         NEW p, StackOf(Marked("start"), Marked("end"), p, n)
  PROVE  IF kind = "end" /\ Len(p) # 0
         THEN FunctionEnds' = FunctionEnds \cup {n + 1} /\ StartOf(n + 1)' = p[Len(p)]
         ELSE FunctionEnds' = FunctionEnds
<1>1. PICK S, E, T, F : /\ S = Marked("start") /\ E = Marked("end")
                        /\ T = Marked("start")' /\ F = Marked("end")'
  OBVIOUS
<1>2. /\ OneMore(n, S, E, T, F) /\ (kind = "end" => T = S /\ F = E \cup {n + 1})
      /\ (kind # "end" => F = E)
  <2>1. "end" # "start"
    OBVIOUS
  <2> QED BY <1>1, <2>1, MarksGrow
<1>3. n \in Nat /\ Marks(n, S, E) /\ Marks(n + 1, T, F) /\ n + 1 \notin E
  <2>1. n \in Nat /\ Marks(n, S, E) /\ Marks(n + 1, T, F)
    BY <1>2, MoreMarks
  <2> QED BY <2>1, NextMarks
<1>4. FunctionEnds = MatchedEnds(S, E) /\ FunctionEnds' = MatchedEnds(T, F)
  BY <1>1 DEF FunctionEnds
<1>5. \A j : j # n + 1 => (j \in MatchedEnds(T, F) <=> j \in MatchedEnds(S, E))
  BY <1>2, MatchesStay
<1>6. n + 1 \notin MatchedEnds(S, E)
  BY <1>3 DEF MatchedEnds
<1>7. StackOf(S, E, p, n)
  BY <1>1
<1>8. CASE kind = "end" /\ Len(p) # 0
  <2>1. p # <<>>
    <3>1. Len(<<>>) = 0
      OBVIOUS
    <3> QED BY <1>8, <3>1
  <2>2. Matched(T, F, p[Len(p)], n + 1)
    <3>1. Matched(S, E \cup {n + 1}, p[Len(p)], n + 1)
      BY <1>3, <1>7, <2>1, StackPops
    <3> QED BY <1>2, <1>8, <3>1
  <2>3. n + 1 \in MatchedEnds(T, F) /\ MatchOf(T, F, n + 1) = p[Len(p)]
    BY <1>3, <2>2, MatchOfIs
  <2>4. StartOf(n + 1)' = p[Len(p)]
    BY <1>1, <2>3 DEF StartOf
  <2>5. MatchedEnds(T, F) = MatchedEnds(S, E) \cup {n + 1}
    BY <1>5, <2>3
  <2> QED BY <1>4, <1>8, <2>4, <2>5
<1>9. CASE kind # "end"
  <2>1. n + 1 \notin MatchedEnds(T, F)
    BY <1>2, <1>3, <1>9 DEF MatchedEnds
  <2>2. MatchedEnds(T, F) = MatchedEnds(S, E)
    <3>1. \A j : j \in MatchedEnds(T, F) <=> j \in MatchedEnds(S, E)
      BY <1>5, <1>6, <2>1
    <3> QED BY <3>1
  <2> QED BY <1>4, <1>9, <2>2
<1>10. CASE kind = "end" /\ Len(p) = 0
  <2>1. \A i : ~Matched(T, F, i, n + 1)
    <3>1. \A i : ~Matched(S, E \cup {n + 1}, i, n + 1)
      BY <1>3, <1>7, <1>10, StackStray
    <3> QED BY <1>2, <1>10, <3>1
  <2>2. n + 1 \notin MatchedEnds(T, F)
    BY <2>1 DEF MatchedEnds
  <2>3. MatchedEnds(T, F) = MatchedEnds(S, E)
    <3>1. \A j : j \in MatchedEnds(T, F) <=> j \in MatchedEnds(S, E)
      BY <1>5, <1>6, <2>2
    <3> QED BY <3>1
  <2> QED BY <1>4, <1>10, <2>3
<1> QED BY <1>8, <1>9, <1>10

LEMMA RecordedStep ==
  ASSUME TypeOK, NEW line \in Lines, NEW kind, Read(line, kind), NEW n, n = Len(input),
         NEW p, StackOf(Marked("start"), Marked("end"), p, n), NEW K, Recorded(K),
         Len(mFunctions) = Cardinality(K),
         kind # "end" \/ Len(p) = 0, mFunctions' = mFunctions
  PROVE  Recorded(K)' /\ Len(mFunctions') = Cardinality(K)
<1>1. K = FunctionEnds
  BY DEF Recorded
<1>2. FunctionEnds' = K
  BY <1>1, EndsStep
<1>3. ASSUME NEW j \in K, NEW i, i = StartOf(j)'
      PROVE  mFunctions'[Place(j, K)] = FunctionAt(i, j)'
  <2>1. i = StartOf(j) /\ FunctionAt(i, j)' = FunctionAt(i, j)
    BY <1>1, <1>3, FoundStays
  <2> QED BY <2>1 DEF Recorded
<1> QED BY <1>2, <1>3 DEF Recorded

LEMMA RecordedEnd ==
  ASSUME TypeOK, NEW line \in Lines, EndFunction(line), NEW n, n = Len(input),
         NEW p, OpenAre(p), Len(p) # 0, NEW K, Recorded(K), Len(mFunctions) = Cardinality(K)
  PROVE  \E L : Recorded(L)' /\ Len(mFunctions') = Cardinality(L)
<1>1. /\ Read(line, "end") /\ StackOf(Marked("start"), Marked("end"), p, n)
      /\ K = FunctionEnds
  BY DEF EndFunction, OpenAre, Recorded
<1>2. n \in Nat /\ K \in SUBSET (1 .. n)
  BY <1>1, FileMarks
<1>3. PICK L : L = K \cup {n + 1}
  OBVIOUS
<1>4. FunctionEnds' = L /\ StartOf(n + 1)' = p[Len(p)]
  BY <1>1, <1>3, EndsStep
<1>5. PICK top : top = p[Len(p)]
  OBVIOUS
<1>6. /\ Len(p) = Len(mOpenFunctions) /\ mOpenFunctions \in Seq(AsmFunction)
      /\ Len(p) \in 1 .. Len(p) /\ top \in 1 .. n
      /\ mOpenFunctions[Len(p)] = FunctionAt(top, 0)
  <2>1. Len(p) = Len(mOpenFunctions) /\ mOpenFunctions \in Seq(AsmFunction) /\ Len(p) \in Nat
    BY OpenRange DEF OpenAre, TypeOK
  <2>2. Len(p) \in 1 .. Len(p)
    BY <2>1
  <2>3. top \in 1 .. n
    BY <1>5, <2>2, OpenRange
  <2> QED BY <1>5, <2>1, <2>2, <2>3 DEF OpenAre
<1>7. PICK f : f = [FunctionAt(top, 0) EXCEPT !.mEnd = n + 1]
  OBVIOUS
<1>8. mFunctions' = Append(mFunctions, f)
  BY <1>6, <1>7 DEF EndFunction, Depth, Inner, fileLineNumber
<1>9. FunctionAt(top, n + 1)' = f
  <2>1. FunctionAt(top, n + 1)' = FunctionAt(top, n + 1)
    <3>1. "end" # "name"
      OBVIOUS
    <3> QED BY <1>1, <1>6, <3>1, FunctionStep
  <2>2. FunctionAt(top, n + 1) = f
    BY <1>7 DEF FunctionAt
  <2> QED BY <2>1, <2>2
<1>10. f \in AsmFunction
  <2>1. FunctionAt(top, 0) \in AsmFunction
    BY <1>6
  <2>2. n + 1 \in Nat
    BY <1>2
  <2> QED BY <1>7, <2>1, <2>2 DEF AsmFunction
<1>11. /\ Len(mFunctions') = Len(mFunctions) + 1
       /\ \A x \in 1 .. Len(mFunctions) : mFunctions'[x] = mFunctions[x]
       /\ mFunctions'[Len(mFunctions) + 1] = f
  BY <1>8, <1>10, AppendFacts DEF TypeOK
<1>12. /\ Cardinality(L) = Cardinality(K) + 1 /\ Place(n + 1, L) = Cardinality(K) + 1
       /\ \A j \in K : Place(j, L) = Place(j, K) /\ Place(j, K) \in 1 .. Cardinality(K)
  <2>1. /\ \A j \in K : /\ Place(j, K) \in 1 .. Cardinality(K)
                         /\ Place(j, K \cup {n + 1}) = Place(j, K)
        /\ Place(n + 1, K \cup {n + 1}) = Cardinality(K) + 1
        /\ Cardinality(K \cup {n + 1}) = Cardinality(K) + 1
    BY ONLY <1>2, PlaceInRange
  <2> QED BY ONLY <1>3, <2>1
<1>13. ASSUME NEW j \in L, NEW i, i = StartOf(j)'
       PROVE  mFunctions'[Place(j, L)] = FunctionAt(i, j)'
  <2>1. CASE j = n + 1
    BY <1>4, <1>5, <1>9, <1>11, <1>12, <1>13, <2>1
  <2>2. CASE j \in K
    <3>1. i = StartOf(j) /\ FunctionAt(i, j)' = FunctionAt(i, j)
      BY <1>1, <1>13, <2>2, FoundStays
    <3>2. mFunctions[Place(j, K)] = FunctionAt(i, j)
      BY <2>2, <3>1 DEF Recorded
    <3> QED BY <1>11, <1>12, <2>2, <3>1, <3>2
  <2> QED BY <1>3, <2>1, <2>2
<1>14. Recorded(L)' /\ Len(mFunctions') = Cardinality(L)
  BY <1>4, <1>11, <1>12, <1>13 DEF Recorded
<1> QED BY <1>14

-----------------------------------------------------------------------------
WholeFile == [NewFunction(1, "all") EXCEPT !.mEnd = fileLineNumber]

(* The functions of the file, and then "all".                              *)
FoundInv ==
    pc # "failed" =>
      \E K : /\ Recorded(K)
             /\ IF pc \in {"opening", "reading"} THEN Len(mFunctions) = Cardinality(K)
                ELSE /\ Len(mFunctions) = Cardinality(K) + 1
                     /\ mFunctions[Len(mFunctions)] = WholeFile
OpenInv == pc \in {"opening", "reading"} => \E p : OpenAre(p)

(* A file shows the last function of its name that has been written.       *)
WrittenInv ==
    /\ DOMAIN files = {mFunctions[x].mAssignedName : x \in 1 .. written}
    /\ \A x \in 1 .. written :
         (\A y \in x + 1 .. written : mFunctions[y].mAssignedName # mFunctions[x].mAssignedName)
            => files[mFunctions[x].mAssignedName] = Body(mFunctions[x])
    /\ pc \in {"opening", "reading", "directory", "listing"} => written = 0
    /\ pc = "done" => written = Len(mFunctions)

MatchInv == OpenInv /\ FoundInv /\ WrittenInv

LEMMA SameInput ==
  ASSUME input' = input
  PROVE  /\ FunctionEnds' = FunctionEnds /\ WholeFile' = WholeFile
         /\ \A j : StartOf(j)' = StartOf(j)
         /\ \A i, j : FunctionAt(i, j)' = FunctionAt(i, j)
<1>1. \A k : Marked(k)' = Marked(k)
  BY DEF Marked, LinesRead
<1>2. \A i : NamesOf(i)' = NamesOf(i)
  BY <1>1 DEF NamesOf
<1>3. \A i : NameOf(i)' = NameOf(i)
  BY <1>2 DEF NameOf
<1> QED BY <1>1, <1>2, <1>3
        DEF FunctionEnds, StartOf, FunctionAt, WholeFile, NewFunction, fileLineNumber

LEMMA NothingRead ==
  ASSUME input = <<>>
  PROVE  FunctionEnds = {} /\ StackOf(Marked("start"), Marked("end"), <<>>, Len(input))
<1>1. \A k : Marked(k) = {}
  BY DEF Marked, LinesRead
<1>2. Len(input) = 0
  OBVIOUS
<1> QED BY <1>1, <1>2, EmptyStack DEF FunctionEnds, MatchedEnds

LEMMA InitMatch == GInit => MatchInv
<1> SUFFICES ASSUME GInit PROVE MatchInv
  OBVIOUS
<1>1. /\ pc = "opening" /\ input = <<>> /\ mOpenFunctions = <<>> /\ mFunctions = <<>>
      /\ written = 0 /\ files = <<>>
  BY DEF GInit, Init
<1>2. OpenInv
  <2>1. \A x : x \notin 1 .. Len(<<>>)
    OBVIOUS
  <2>2. OpenAre(<<>>)
    BY <1>1, <2>1, NothingRead DEF OpenAre
  <2> QED BY <2>2 DEF OpenInv
<1>3. FoundInv
  <2>1. Recorded({})
    BY <1>1, NothingRead DEF Recorded
  <2>2. Len(mFunctions) = Cardinality({})
    BY <1>1, FS_EmptySet
  <2> QED BY <1>1, <2>1, <2>2 DEF FoundInv
<1>4. WrittenInv
  <2>1. DOMAIN files = {} /\ \A x : x \notin 1 .. written
    BY <1>1
  <2> QED BY <1>1, <2>1 DEF WrittenInv
<1> QED BY <1>2, <1>3, <1>4 DEF MatchInv

(* The steps of parse().                                                   *)
LEMMA ReadingStep ==
  ASSUME IInv, MatchInv, NEW line \in Lines, UNCHANGED gvars,
         StartFunction(line) \/ EndFunction(line) \/ NameFunction(line) \/ ReadCode(line)
  PROVE  MatchInv'
<1>1. PICK kind, n : Read(line, kind) /\ n = Len(input)
  BY DEF StartFunction, EndFunction, NameFunction, ReadCode
<1>2. pc = "reading" /\ pc' = "reading" /\ TypeOK
      /\ written' = written /\ files' = files /\ written = 0
  BY <1>1 DEF Read, gvars, IInv, ListedLate
<1>3. PICK p : OpenAre(p)
  BY <1>2 DEF MatchInv, OpenInv
<1>4. PICK K : Recorded(K) /\ Len(mFunctions) = Cardinality(K)
  BY <1>2 DEF MatchInv, FoundInv
<1>5. OpenInv'
  <2>1. \E q : OpenAre(q)'
    BY <1>1, <1>2, <1>3, OpenStart, OpenEnd, OpenName, OpenCode
  <2> QED BY <2>1 DEF OpenInv
<1>6. \E L : Recorded(L)' /\ Len(mFunctions') = Cardinality(L)
  <2>1. StackOf(Marked("start"), Marked("end"), p, n)
    BY <1>1, <1>3 DEF OpenAre
  <2>2. Len(p) = Len(mOpenFunctions)
    BY <1>3 DEF OpenAre
  <2>3. CASE EndFunction(line) /\ Len(p) # 0
    BY <1>1, <1>2, <1>3, <1>4, <2>3, RecordedEnd
  <2>4. CASE ~(EndFunction(line) /\ Len(p) # 0)
    <3>1. \E k : Read(line, k) /\ (k # "end" \/ Len(p) = 0) /\ mFunctions' = mFunctions
      <4>1. "start" # "end" /\ "name" # "end" /\ "code" # "end"
        OBVIOUS
      <4> QED BY <2>2, <2>4, <4>1
              DEF StartFunction, EndFunction, NameFunction, ReadCode, Depth
    <3> QED BY <1>1, <1>2, <1>4, <2>1, <3>1, RecordedStep
  <2> QED BY <2>3, <2>4
<1>7. WrittenInv'
  <2>1. \A x : x \notin 1 .. written
    BY <1>2
  <2>2. DOMAIN files = {}
    BY <2>1 DEF MatchInv, WrittenInv
  <2> QED BY <1>2, <2>1, <2>2 DEF WrittenInv
<1> QED BY <1>2, <1>5, <1>6, <1>7 DEF MatchInv, FoundInv

LEMMA FileEndStep ==
  ASSUME IInv, MatchInv, EndOfFile, UNCHANGED gvars
  PROVE  MatchInv'
<1>1. /\ pc = "reading" /\ pc' = "directory" /\ input' = input /\ TypeOK
      /\ mFunctions' = Append(mFunctions, WholeFile)
      /\ written' = written /\ files' = files /\ written = 0
  BY DEF EndOfFile, gvars, IInv, ListedLate, WholeFile
<1>2. WholeFile \in AsmFunction
  <2>1. Len(input) \in Nat
    BY <1>1 DEF TypeOK
  <2> QED BY <2>1, NamesAssumption DEF WholeFile, AsmFunction, NewFunction, fileLineNumber
<1>3. /\ Len(mFunctions') = Len(mFunctions) + 1
      /\ \A x \in 1 .. Len(mFunctions) : mFunctions'[x] = mFunctions[x]
      /\ mFunctions'[Len(mFunctions')] = WholeFile
  BY <1>1, <1>2, AppendFacts DEF TypeOK
<1>4. PICK K : Recorded(K) /\ Len(mFunctions) = Cardinality(K)
  BY <1>1 DEF MatchInv, FoundInv
<1>5. Recorded(K)'
  <2>1. K = FunctionEnds /\ Len(input) \in Nat /\ K \in SUBSET (1 .. Len(input))
    BY <1>1, <1>4, FileMarks DEF Recorded
  <2>2. \A j \in K : Place(j, K) \in 1 .. Len(mFunctions)
    <3>1. PICK n : n = Len(input)
      OBVIOUS
    <3>2. \A j \in K : Place(j, K) \in 1 .. Cardinality(K)
      BY <2>1, <3>1, PlaceInRange
    <3> QED BY <1>4, <3>2
  <2>3. ASSUME NEW j \in K, NEW i, i = StartOf(j)'
        PROVE  mFunctions'[Place(j, K)] = FunctionAt(i, j)'
    <3>1. i = StartOf(j) /\ FunctionAt(i, j)' = FunctionAt(i, j)
      BY <1>1, <2>3, SameInput
    <3> QED BY <1>3, <1>4, <2>2, <3>1 DEF Recorded
  <2>4. FunctionEnds' = K
    BY <1>1, <2>1, SameInput
  <2> QED BY <2>3, <2>4 DEF Recorded
<1>6. WholeFile' = WholeFile
  BY <1>1, SameInput
<1>7. FoundInv'
  BY <1>1, <1>3, <1>4, <1>5, <1>6 DEF FoundInv
<1>8. WrittenInv'
  <2>1. \A x : x \notin 1 .. written
    BY <1>1
  <2>2. DOMAIN files = {}
    BY <2>1 DEF MatchInv, WrittenInv
  <2> QED BY <1>1, <2>1, <2>2 DEF WrittenInv
<1> QED BY <1>1, <1>7, <1>8 DEF MatchInv, OpenInv

(* The steps that leave the file and its functions alone.                  *)
LEMMA LaterStep ==
  ASSUME MatchInv, UNCHANGED <<input, mOpenFunctions, mFunctions>>,
         pc' \in {"opening", "reading"} => pc \in {"opening", "reading"},
         pc' \notin {"opening", "reading", "failed"} => pc \notin {"opening", "reading", "failed"}
  PROVE  (OpenInv /\ FoundInv)'
<1>1. \A p : OpenAre(p)' <=> OpenAre(p)
  <2>1. \A k : Marked(k)' = Marked(k)
    BY DEF Marked, LinesRead
  <2> QED BY <2>1, SameInput DEF OpenAre
<1>2. \A K : Recorded(K)' <=> Recorded(K)
  BY SameInput DEF Recorded
<1>3. OpenInv'
  BY <1>1 DEF MatchInv, OpenInv
<1>4. FoundInv'
  <2>1. CASE pc' \in {"opening", "reading"}
    BY <1>2, <2>1 DEF MatchInv, FoundInv
  <2>2. CASE pc' \notin {"opening", "reading", "failed"}
    BY <1>2, <2>2, SameInput DEF MatchInv, FoundInv
  <2>3. CASE pc' = "failed"
    BY <2>3 DEF FoundInv
  <2> QED BY <2>1, <2>2, <2>3
<1> QED BY <1>3, <1>4

LEMMA FileStep ==
  ASSUME IInv, MatchInv, WriteFunction
  PROVE  WrittenInv'
<1>1. PICK w, f : w = written + 1 /\ f = mFunctions[w]
  OBVIOUS
<1>2. /\ pc = "writing" /\ pc' = pc /\ mFunctions' = mFunctions /\ written' = w
      /\ files' = [n \in DOMAIN files \cup {f.mAssignedName} |->
                     IF n = f.mAssignedName THEN Body(f) ELSE files[n]]
  BY <1>1 DEF WriteFunction, vars
<1>3. written \in Nat /\ \A x : x \in 1 .. w <=> x \in 1 .. written \/ x = w
  BY <1>1 DEF IInv, TypeOK
<1>4. /\ DOMAIN files = {mFunctions[x].mAssignedName : x \in 1 .. written}
      /\ \A x \in 1 .. written :
           (\A y \in x + 1 .. written :
               mFunctions[y].mAssignedName # mFunctions[x].mAssignedName)
             => files[mFunctions[x].mAssignedName] = Body(mFunctions[x])
  BY DEF MatchInv, WrittenInv
<1>5. DOMAIN files' = {mFunctions[x].mAssignedName : x \in 1 .. w}
  BY <1>1, <1>2, <1>3, <1>4
<1>6. ASSUME NEW x \in 1 .. w,
             \A y \in x + 1 .. w : mFunctions[y].mAssignedName # mFunctions[x].mAssignedName
      PROVE  files'[mFunctions[x].mAssignedName] = Body(mFunctions[x])
  <2>1. CASE x = w
    BY <1>1, <1>2, <2>1
  <2>2. CASE x \in 1 .. written
    <3>1. w \in x + 1 .. w /\ \A y \in x + 1 .. written : y \in x + 1 .. w
      BY <1>1, <1>3, <2>2
    <3>2. mFunctions[x].mAssignedName # f.mAssignedName
      BY <1>1, <1>6, <3>1
    <3>3. files[mFunctions[x].mAssignedName] = Body(mFunctions[x])
      BY <1>4, <1>6, <2>2, <3>1
    <3>4. mFunctions[x].mAssignedName \in DOMAIN files
      BY <1>4, <2>2
    <3> QED BY <1>2, <3>2, <3>3, <3>4
  <2> QED BY <1>3, <2>1, <2>2
<1>7. \A x : Body(mFunctions[x])' = Body(mFunctions[x])
  BY <1>2 DEF Body, IndexRange
<1> QED BY <1>2, <1>5, <1>6, <1>7 DEF WrittenInv

LEMMA MatchStep == IInv /\ MatchInv /\ [Next]_allVars => MatchInv'
<1> SUFFICES ASSUME IInv, MatchInv, [Next]_allVars PROVE MatchInv'
  OBVIOUS
<1>1. CASE Parse
  <2>1. CASE Open
    <3>1. (OpenInv /\ FoundInv)'
      BY <2>1, LaterStep DEF Open
    <3>2. WrittenInv'
      BY <1>1, <2>1 DEF Parse, Open, gvars, MatchInv, WrittenInv, Body, IndexRange
    <3> QED BY <3>1, <3>2 DEF MatchInv
  <2>2. ASSUME NEW line \in Lines,
               StartFunction(line) \/ EndFunction(line) \/ NameFunction(line) \/ ReadCode(line)
        PROVE  MatchInv'
    BY <1>1, <2>2, ReadingStep DEF Parse
  <2>3. CASE EndOfFile
    BY <1>1, <2>3, FileEndStep DEF Parse
  <2> QED BY <1>1, <2>1, <2>2, <2>3 DEF Parse, ParseNext
<1>2. CASE WriteFunction
  <2>1. (OpenInv /\ FoundInv)'
    BY <1>2, LaterStep DEF WriteFunction, vars
  <2> QED BY <1>2, <2>1, FileStep DEF MatchInv
<1>3. CASE MakeDirectory \/ WriteList \/ OpenFails \/ Done
  <2>1. /\ UNCHANGED <<input, mOpenFunctions, mFunctions, written, files>>
        /\ pc \in {"directory", "listing", "writing"}
        /\ pc' \in {"listing", "writing", "done", "failed"}
        /\ pc' = "listing" => pc = "directory"
        /\ pc' = "done" => written = Len(mFunctions)
    BY <1>3 DEF MakeDirectory, WriteList, OpenFails, Done, gvars
  <2>2. (OpenInv /\ FoundInv)'
    BY <2>1, LaterStep
  <2>3. WrittenInv'
    BY <2>1 DEF MatchInv, WrittenInv, Body, IndexRange
  <2> QED BY <2>2, <2>3 DEF MatchInv
<1>4. CASE Exit \/ UNCHANGED allVars
  <2>1. UNCHANGED allVars
    BY <1>4 DEF Exit
  <2>2. (OpenInv /\ FoundInv)'
    BY <2>1, LaterStep DEF allVars, vars
  <2>3. WrittenInv'
    BY <2>1 DEF MatchInv, WrittenInv, Body, IndexRange, allVars, vars, gvars
  <2> QED BY <2>2, <2>3 DEF MatchInv
<1> QED BY <1>1, <1>2, <1>3, <1>4 DEF Next

LEMMA MatchInvariance == Spec => [](IInv /\ MatchInv)
<1>1. GInit => IInv /\ MatchInv
  BY InitIInv, InitMatch
<1>2. (IInv /\ MatchInv) /\ [Next]_allVars => (IInv /\ MatchInv)'
  BY StepIInv, MatchStep
<1> QED BY <1>1, <1>2, PTL DEF Spec

-----------------------------------------------------------------------------
(* In every state the functions found are those between the marks that     *)
(* match in the lines read, in the order of their ends, each with the last *)
(* name given to it and without the lines that name it.                    *)
THEOREM FunctionsAlwaysMatchedMarks == Spec => []FunctionsAreMatchedMarks
<1>1. IInv /\ MatchInv => FunctionsAreMatchedMarks
  <2> SUFFICES ASSUME IInv, MatchInv, pc # "failed"
               PROVE  /\ Cardinality(FunctionEnds) =
                           IF pc \in {"opening", "reading"} THEN Len(mFunctions)
                           ELSE Len(mFunctions) - 1
                      /\ \A j \in FunctionEnds :
                           mFunctions[Place(j, FunctionEnds)] = FunctionAt(StartOf(j), j)
    BY DEF FunctionsAreMatchedMarks
  <2>1. PICK K : /\ Recorded(K)
                 /\ IF pc \in {"opening", "reading"} THEN Len(mFunctions) = Cardinality(K)
                    ELSE Len(mFunctions) = Cardinality(K) + 1
    BY DEF MatchInv, FoundInv
  <2>2. K = FunctionEnds /\ Cardinality(K) \in Nat
    <3>1. K = FunctionEnds
      BY <2>1 DEF Recorded
    <3>2. Len(input) \in Int /\ K \subseteq 1 .. Len(input)
      BY <3>1, FileMarks DEF IInv
    <3> QED BY <3>1, <3>2, CountedInInterval
  <2>3. \A j \in K : mFunctions[Place(j, K)] = FunctionAt(StartOf(j), j)
    BY <2>1 DEF Recorded
  <2> QED BY <2>1, <2>2, <2>3
<1> QED BY MatchInvariance, <1>1, PTL

(* What a file shows of a function, and of the whole file.                 *)
LEMMA BodyOf ==
  ASSUME TypeOK
  PROVE  /\ Body(WholeFile) = 2 .. Len(input)
         /\ \A i, j \in 1 .. Len(input) :
              Body(FunctionAt(i, j)) = (i + 1 .. j - 1) \ NamesOf(i)
<1>1. PICK n : n = Len(input)
  OBVIOUS
<1>2. n \in Nat
  BY <1>1, FileMarks
<1>3. /\ WholeFile.mBegin = 1 /\ WholeFile.mEnd = n + 1 /\ WholeFile.mOmittedLines = {}
  BY <1>1 DEF WholeFile, NewFunction, fileLineNumber
<1>4. Body(WholeFile) = 2 .. n
  <2>1. Body(WholeFile) = {l + 1 : l \in 1 .. n + 1 - 2}
    BY <1>2, <1>3 DEF Body, IndexRange
  <2>2. {l + 1 : l \in 1 .. n + 1 - 2} = 2 .. n
    <3>1. ASSUME NEW k \in 2 .. n PROVE \E l \in 1 .. n + 1 - 2 : k = l + 1
      <4>1. k - 1 \in 1 .. n + 1 - 2 /\ k = k - 1 + 1
        BY <1>2
      <4> QED BY <4>1
    <3>2. \A l \in 1 .. n + 1 - 2 : l + 1 \in 2 .. n
      BY <1>2
    <3> QED BY <3>1, <3>2
  <2> QED BY <2>1, <2>2
<1>5. ASSUME NEW i \in 1 .. n, NEW j \in 1 .. n
      PROVE  Body(FunctionAt(i, j)) = (i + 1 .. j - 1) \ NamesOf(i)
  <2>1. Body(FunctionAt(i, j)) = {l + 1 : l \in i .. j - 2} \ NamesOf(i)
    BY DEF Body, IndexRange, FunctionAt
  <2>2. {l + 1 : l \in i .. j - 2} = i + 1 .. j - 1
    <3>1. ASSUME NEW k \in i + 1 .. j - 1 PROVE \E l \in i .. j - 2 : k = l + 1
      <4>1. k - 1 \in i .. j - 2 /\ k = k - 1 + 1
        BY <1>2
      <4> QED BY <4>1
    <3>2. \A l \in i .. j - 2 : l + 1 \in i + 1 .. j - 1
      BY <1>2
    <3> QED BY <3>1, <3>2
  <2> QED BY <2>1, <2>2
<1> QED BY <1>1, <1>4, <1>5

(* At the end the files are those of the names given, each shows the last  *)
(* function of its name, and "all" the whole source.                       *)
THEOREM FilesAlwaysShowTheirFunction == Spec => []FilesShowTheirFunction
<1>1. IInv /\ MatchInv => FilesShowTheirFunction
  <2> SUFFICES ASSUME IInv, MatchInv, pc = "done" PROVE FilesShowTheirFunction
    BY DEF FilesShowTheirFunction
  <2>1. PICK K : /\ Recorded(K) /\ Len(mFunctions) = Cardinality(K) + 1
                 /\ mFunctions[Len(mFunctions)] = WholeFile
    BY DEF MatchInv, FoundInv
  <2>2. PICK n, c : n = Len(input) /\ c = Cardinality(K)
    OBVIOUS
  <2>3. TypeOK /\ K = FunctionEnds /\ n \in Nat /\ K \in SUBSET (1 .. n) /\ c \in Nat
    <3>1. TypeOK /\ K = FunctionEnds
      BY <2>1 DEF Recorded, IInv
    <3>2. n \in Nat /\ n \in Int /\ K \in SUBSET (1 .. n)
      BY <2>2, <3>1, FileMarks
    <3> QED BY <2>2, <3>1, <3>2, CountedInInterval
  <2>4. \A j \in K : /\ Place(j, K) \in 1 .. c /\ j \in 1 .. n /\ StartOf(j) \in 1 .. n
                     /\ mFunctions[Place(j, K)] = FunctionAt(StartOf(j), j)
                     /\ mFunctions[Place(j, K)].mAssignedName = NameOf(StartOf(j))
    <3> TAKE j \in K
    <3>1. Place(j, K) \in 1 .. c
      BY <2>2, <2>3, PlaceInRange
    <3>2. j \in 1 .. n /\ StartOf(j) \in 1 .. n
      <4>1. PICK S, E : S = Marked("start") /\ E = Marked("end")
        OBVIOUS
      <4>2. Marks(n, S, E) /\ j \in MatchedEnds(S, E)
        BY <2>2, <2>3, <4>1, FileMarks DEF FunctionEnds
      <4> QED BY <4>1, <4>2, MatchOfIs DEF StartOf
    <3>3. mFunctions[Place(j, K)] = FunctionAt(StartOf(j), j)
      BY <2>1 DEF Recorded
    <3> QED BY <3>1, <3>2, <3>3 DEF FunctionAt
  <2>5. \A x \in 1 .. c : \E j \in K : Place(j, K) = x
    BY <2>2, <2>3, PlacesTaken
  <2>6. /\ mFunctions[c + 1] = WholeFile /\ written = c + 1
        /\ mFunctions[c + 1].mAssignedName = "all"
        /\ \A x : x \in 1 .. c + 1 <=> x \in 1 .. c \/ x = c + 1
    BY <2>1, <2>2, <2>3 DEF MatchInv, WrittenInv, WholeFile, NewFunction
  <2>7. /\ DOMAIN files = {mFunctions[x].mAssignedName : x \in 1 .. c + 1}
        /\ \A x \in 1 .. c + 1 :
             (\A y \in x + 1 .. c + 1 :
                 mFunctions[y].mAssignedName # mFunctions[x].mAssignedName)
               => files[mFunctions[x].mAssignedName] = Body(mFunctions[x])
    BY <2>6 DEF MatchInv, WrittenInv
  <2>8. DOMAIN files = {NameOf(StartOf(j)) : j \in FunctionEnds} \cup {"all"}
    <3>1. ASSUME NEW x \in 1 .. c + 1
          PROVE  mFunctions[x].mAssignedName \in {NameOf(StartOf(j)) : j \in K} \cup {"all"}
      BY <2>4, <2>5, <2>6
    <3>2. ASSUME NEW j \in K
          PROVE  \E x \in 1 .. c + 1 : mFunctions[x].mAssignedName = NameOf(StartOf(j))
      BY <2>4, <2>6
    <3>3. c + 1 \in 1 .. c + 1
      BY <2>3
    <3> QED BY <2>3, <2>6, <2>7, <3>1, <3>2, <3>3
  <2>9. files["all"] = 2 .. Len(input)
    <3>1. c + 1 \in 1 .. c + 1 /\ \A y : y \notin c + 1 + 1 .. c + 1
      BY <2>3
    <3>2. files["all"] = Body(WholeFile)
      BY <2>6, <2>7, <3>1
    <3> QED BY <2>3, <3>2, BodyOf
  <2>10. ASSUME NEW name, name # "all", NEW j \in K, NameOf(StartOf(j)) = name,
                \A k \in K : NameOf(StartOf(k)) = name => k <= j
         PROVE  files[name] = (StartOf(j) + 1 .. j - 1) \ NamesOf(StartOf(j))
    <3>1. PICK x : x = Place(j, K)
      OBVIOUS
    <3>2. ASSUME NEW y \in x + 1 .. c + 1 PROVE mFunctions[y].mAssignedName # name
      <4>1. x \in 1 .. c
        BY <2>4, <3>1
      <4>2. CASE y = c + 1
        BY <2>6, <2>10, <4>2
      <4>3. CASE y # c + 1
        <5>1. y \in 1 .. c /\ x < y
          BY <2>3, <4>1, <4>3
        <5>2. PICK k \in K : Place(k, K) = y
          BY <2>5, <5>1
        <5>3. ASSUME k < j PROVE FALSE
          <6>1. Place(k, K) < Place(j, K)
            BY <2>3, <5>3, PlaceGrows
          <6> QED BY <3>1, <4>1, <5>1, <5>2, <6>1
        <5>4. k # j
          BY <3>1, <4>1, <5>1, <5>2
        <5>5. k \in 1 .. n /\ j \in 1 .. n
          BY <2>4
        <5>6. ~(k <= j)
          BY <2>3, <5>3, <5>4, <5>5
        <5> QED BY <2>4, <2>10, <5>2, <5>6
      <4> QED BY <4>2, <4>3
    <3>3. files[name] = Body(mFunctions[x])
      BY <2>4, <2>6, <2>7, <2>10, <3>1, <3>2
    <3> QED BY <2>2, <2>3, <2>4, <3>1, <3>3, BodyOf
  <2> QED BY <2>3, <2>8, <2>9, <2>10 DEF FilesShowTheirFunction
<1> QED BY MatchInvariance, <1>1, PTL
=============================================================================
