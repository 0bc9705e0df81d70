---------------------------- MODULE BuildProofs -----------------------------
(***************************************************************************)
(* Proofs about the build for any number of targets, sources, directories  *)
(* and snippets: type correctness, that no formatted copy is left behind   *)
(* by a success, and, if no two targets share a source, that a successful  *)
(* extractor makes its target complete and none fails without a reason.    *)
(***************************************************************************)
EXTENDS BuildProperties, TLAPS

(* A number of facts about the constants.                                  *)
LEMMA ConstantFacts ==
  /\ \A t \in Targets : Source[t] \in Sources /\ Dir[t] \in Dirs
  /\ Source \in [Targets -> Sources] /\ Dir \in [Targets -> Dirs]
  /\ \A v \in Texts : Snippets[v] \subseteq Names
  /\ \A v \in Versions : v \in Texts /\ v # None
  /\ Empty \in Texts /\ None \notin Texts
  /\ \A v \in Versions : Beginnings[v] \subseteq Texts
<1>1. \A v \in Versions : Beginnings[v] \subseteq Texts
  BY TextsAssumption DEF Texts, Range
<1> QED BY <1>1, TargetsAssumption, SnippetsAssumption, NoneAssumption DEF Texts

LEMMA PathFacts ==
  ASSUME NEW t \in Targets, NEW v \in Texts, NEW n \in Snippets[v]
  PROVE  Path(t, n) \in Paths
  BY ConstantFacts DEF Path, Paths

(* To lose something changes nothing but what t has lost.                  *)
LEMMA LoseFacts ==
  ASSUME TypeOK, NEW t \in Targets, NEW what \in Names \cup {"copy", "database"}, Lose(t, what)
  PROVE  /\ lost' \in [Targets -> SUBSET (Names \cup {"copy", "database"})]
         /\ what \in lost'[t] /\ lost[t] \subseteq lost'[t]
         /\ \A u \in Targets \ {t} : lost'[u] = lost[u]
  BY DEF TypeOK, Lose

(* An extractor works only for a call of make that has launched it and     *)
(* that has not ended.                                                     *)
WorkersAreLaunched ==
  /\ \A t \in Targets : pc[t] \in Working => t \in launched
  /\ launched # {} => make \in {"running", "failing"}

-----------------------------------------------------------------------------
LEMMA TypeStep == TypeOK /\ WorkersAreLaunched /\ [Next]_vars => TypeOK'
<1> SUFFICES ASSUME TypeOK, WorkersAreLaunched, [Next]_vars PROVE TypeOK'
  OBVIOUS
<1> USE DEF TypeOK, makeVars, tmpVars, outVars, Ended
<1>1. ASSUME NEW s \in Sources, Edit(s) PROVE TypeOK'
  BY <1>1 DEF Edit
<1>2. CASE Clean
  BY <1>2 DEF Clean
<1>3. CASE StartMake
  BY <1>3 DEF StartMake
<1>4. CASE NoticeError
  BY <1>4 DEF NoticeError
<1>5. CASE EndMake
  BY <1>5 DEF EndMake
<1>6. ASSUME NEW t \in Targets, Skip(t) PROVE TypeOK'
  BY <1>6 DEF Skip
<1>7. ASSUME NEW t \in Targets, Launch(t) PROVE TypeOK'
  <2>1. pc[t] \notin Working
    BY <1>7 DEF Launch, WorkersAreLaunched
  <2> QED BY <1>7, <2>1 DEF Launch, Working
<1>8. ASSUME NEW t \in Targets, Extract(t) PROVE TypeOK'
  <2>1. CASE CreateTmp(t)
    <3>1. pc[t] = "create" /\ pc' = [pc EXCEPT ![t] = "write"] /\ writing' \subseteq writing \cup {t}
      BY <2>1 DEF CreateTmp, Goto
    <3>4. lost' \in [Targets -> SUBSET (Names \cup {"copy", "database"})]
      BY <2>1, LoseFacts DEF CreateTmp
    <3>2. \A u \in writing' : pc'[u] = "write"
      BY <3>1
    <3>3. tmp' \in [Sources -> Texts \cup {None}]
      BY <2>1, ConstantFacts DEF CreateTmp
    <3>5. written' = written /\ text' = text
      BY <2>1 DEF CreateTmp
    <3>6. \A u \in Targets :
            written'[u] \subseteq (IF pc'[u] = "snippets" THEN Snippets[text'[u]] ELSE {})
      BY <3>1, <3>5
    <3> QED BY <3>6, <2>1, <3>1, <3>2, <3>3, <3>4 DEF CreateTmp, Working
  <2>2. CASE WriteTmp(t)
    <3>1. pc[t] = "write" /\ pc' = [pc EXCEPT ![t] = "parse"] /\ writing' = writing \ {t}
      BY <2>2 DEF WriteTmp, Goto
    <3>2. \A u \in writing' : pc'[u] = "write"
      BY <3>1
    <3>3. source[Source[t]] \in Texts
      BY ConstantFacts
    <3>4. tmp' \in [Sources -> Texts \cup {None}]
      BY <2>2, <3>3, ConstantFacts DEF WriteTmp
    <3>7. lost' \in [Targets -> SUBSET (Names \cup {"copy", "database"})]
      BY <2>2, LoseFacts DEF WriteTmp
    <3>5. written' = written /\ text' = text
      BY <2>2 DEF WriteTmp
    <3>6. \A u \in Targets :
            written'[u] \subseteq (IF pc'[u] = "snippets" THEN Snippets[text'[u]] ELSE {})
      BY <3>1, <3>5
    <3> QED BY <3>6, <2>2, <3>1, <3>2, <3>4, <3>7 DEF WriteTmp, Working
  <2>3. CASE ParseTmp(t)
    BY <2>3, ConstantFacts DEF ParseTmp, Goto, Working
  <2>4. CASE ParseFails(t)
    BY <2>4, ConstantFacts DEF ParseFails, Exit, Goto, Working
  <2>5. CASE RemoveTmp(t)
    BY <2>5, ConstantFacts DEF RemoveTmp, Goto, Working
  <2>6. CASE WriteDatabase(t)
    <3>1. lost' \in [Targets -> SUBSET (Names \cup {"copy", "database"})]
      BY <2>6, LoseFacts DEF WriteDatabase
    <3> QED BY <2>6, <3>1, ConstantFacts DEF WriteDatabase, Goto, Working
  <2>7. CASE CheckDirectory(t)
    BY <2>7, ConstantFacts DEF CheckDirectory, Goto, Working
  <2>8. CASE CreateDirectory(t)
    BY <2>8, ConstantFacts DEF CreateDirectory, Goto, Working
  <2>9. CASE CreateDirectoryFails(t)
    BY <2>9, ConstantFacts DEF CreateDirectoryFails, Exit, Goto, Working
  <2>10. CASE WriteSnippet(t)
    <3>1. PICK n \in Snippets[text[t]] \ written[t] :
            /\ written' = [written EXCEPT ![t] = @ \cup {n}]
            /\ \/ files' = [files EXCEPT ![Path(t, n)] = text[t]] /\ UNCHANGED lost
               \/ files' = [files EXCEPT ![Path(t, n)] = Torn] /\ Lose(t, n)
      BY <2>10 DEF WriteSnippet
    <3>2. n \in Names
      BY <3>1, ConstantFacts
    <3>3. lost' \in [Targets -> SUBSET (Names \cup {"copy", "database"})]
      BY <3>1, <3>2, LoseFacts
    <3>4. files' \in [Paths -> Texts \cup {Torn, None}]
      BY <3>1
    <3> QED BY <2>10, <3>1, <3>2, <3>3, <3>4 DEF WriteSnippet
  <2>11. CASE OpenSnippetFails(t)
    BY <2>11, ConstantFacts DEF OpenSnippetFails, Exit, Goto, Working
  <2>12. CASE Return(t)
    BY <2>12, ConstantFacts DEF Return, Exit, Goto, Working
  <2> QED
    BY <1>8, <2>1, <2>2, <2>3, <2>4, <2>5, <2>6, <2>7, <2>8, <2>9, <2>10, <2>11, <2>12
    DEF Extract
<1>9. ASSUME NEW t \in Targets, Crash(t) PROVE TypeOK'
  BY <1>9, ConstantFacts DEF Crash, Exit, Goto, Working
<1>10. CASE UNCHANGED vars
  BY <1>10 DEF vars
<1> QED
  BY <1>1, <1>2, <1>3, <1>4, <1>5, <1>6, <1>7, <1>8, <1>9, <1>10 DEF Next

LEMMA LaunchedStep ==
  TypeOK /\ WorkersAreLaunched /\ [Next]_vars => WorkersAreLaunched'
<1> SUFFICES ASSUME TypeOK, WorkersAreLaunched, [Next]_vars PROVE WorkersAreLaunched'
  OBVIOUS
<1> USE DEF TypeOK, WorkersAreLaunched, Working, Ended, makeVars
<1>1. ASSUME NEW s \in Sources, Edit(s) PROVE WorkersAreLaunched'
  BY <1>1 DEF Edit
<1>2. CASE Clean
  BY <1>2 DEF Clean
<1>3. CASE StartMake
  BY <1>3 DEF StartMake
<1>4. CASE NoticeError
  BY <1>4 DEF NoticeError
<1>5. CASE EndMake
  BY <1>5 DEF EndMake
<1>6. ASSUME NEW t \in Targets, Skip(t) PROVE WorkersAreLaunched'
  BY <1>6 DEF Skip
<1>7. ASSUME NEW t \in Targets, Launch(t) PROVE WorkersAreLaunched'
  BY <1>7 DEF Launch
<1>8. ASSUME NEW t \in Targets, Extract(t) \/ Crash(t) PROVE WorkersAreLaunched'
  <2>1. UNCHANGED makeVars
    BY <1>8 DEF Extract, Crash, CreateTmp, WriteTmp, ParseTmp, ParseFails,
         RemoveTmp, WriteDatabase, CheckDirectory, CreateDirectory, CreateDirectoryFails,
         WriteSnippet, OpenSnippetFails, Return
  <2>2. pc[t] \in Working /\ \A u \in Targets \ {t} : pc'[u] = pc[u]
    BY <1>8 DEF Extract, Crash, CreateTmp, WriteTmp, ParseTmp, ParseFails,
         RemoveTmp, WriteDatabase, CheckDirectory, CreateDirectory, CreateDirectoryFails,
         WriteSnippet, OpenSnippetFails, Return, Exit, Goto
  <2> QED BY <2>1, <2>2
<1>9. CASE UNCHANGED vars
  BY <1>9 DEF vars
<1> QED
  BY <1>1, <1>2, <1>3, <1>4, <1>5, <1>6, <1>7, <1>8, <1>9 DEF Next

LEMMA InitTypes == Init => TypeOK /\ WorkersAreLaunched
  BY ConstantFacts DEF Init, TypeOK, WorkersAreLaunched, Working

(* The variables have their types in every reachable state, and only one   *)
(* extractor works for a target at a time.                                 *)
THEOREM BuildTypeCorrect == Spec => [](TypeOK /\ WorkersAreLaunched)
  BY InitTypes, TypeStep, LaunchedStep, PTL DEF Spec

-----------------------------------------------------------------------------
(* The places from which an extractor may leave its formatted copy behind. *)
Responsible == {"create", "write", "parse", "remove", "failed", "crashed"}

LEMMA TmpStep == TypeOK /\ TmpIsTransient /\ [Next]_vars => TmpIsTransient'
<1> SUFFICES ASSUME TypeOK, TmpIsTransient, [Next]_vars,
                    NEW s \in Sources, tmp'[s] # None
             PROVE  \E u \in Targets : Source[u] = s /\ pc'[u] \in Responsible
  BY DEF TmpIsTransient, Responsible
<1> USE DEF TypeOK, Responsible, tmpVars
<1>1. CASE UNCHANGED <<pc, tmp>>
  BY <1>1 DEF TmpIsTransient
<1>3. ASSUME NEW t \in Targets, Launch(t)
      PROVE  \E u \in Targets : Source[u] = s /\ pc'[u] \in Responsible
  <2>1. PICK u \in Targets : Source[u] = s /\ pc[u] \in Responsible
    BY <1>3 DEF TmpIsTransient, Launch
  <2> QED BY <1>3, <2>1 DEF Launch
<1>4. ASSUME NEW t \in Targets, Extract(t) \/ Crash(t)
      PROVE  \E u \in Targets : Source[u] = s /\ pc'[u] \in Responsible
  <2>1. CASE CreateTmp(t)
    <3>1. CASE s = Source[t]
      BY <2>1, <3>1 DEF CreateTmp, Goto
    <3>2. CASE s # Source[t]
      <4>1. PICK u \in Targets : Source[u] = s /\ pc[u] \in Responsible
        BY <2>1, <3>2 DEF TmpIsTransient, CreateTmp
      <4> QED BY <2>1, <4>1 DEF CreateTmp, Goto
    <3> QED BY <3>1, <3>2
  <2>2. CASE WriteTmp(t)
    <3>1. CASE s = Source[t]
      BY <2>2, <3>1 DEF WriteTmp, Goto
    <3>2. CASE s # Source[t]
      <4>1. PICK u \in Targets : Source[u] = s /\ pc[u] \in Responsible
        BY <2>2, <3>2 DEF TmpIsTransient, WriteTmp
      <4> QED BY <2>2, <4>1 DEF WriteTmp, Goto
    <3> QED BY <3>1, <3>2
  <2>3. CASE RemoveTmp(t)
    <3>1. s # Source[t]
      BY <2>3 DEF RemoveTmp
    <3>2. PICK u \in Targets : Source[u] = s /\ pc[u] \in Responsible
      BY <2>3, <3>1 DEF TmpIsTransient, RemoveTmp
    <3> QED BY <2>3, <3>1, <3>2 DEF RemoveTmp, Goto
  <2>4. CASE ParseTmp(t) \/ ParseFails(t) \/ Crash(t) \/ WriteDatabase(t)
             \/ CheckDirectory(t) \/ CreateDirectory(t) \/ CreateDirectoryFails(t)
             \/ WriteSnippet(t) \/ OpenSnippetFails(t) \/ Return(t)
    <3>1. PICK u \in Targets : Source[u] = s /\ pc[u] \in Responsible
      BY <2>4 DEF TmpIsTransient, ParseTmp, ParseFails, Crash, WriteDatabase, CheckDirectory,
           CreateDirectory, CreateDirectoryFails, WriteSnippet, OpenSnippetFails, Return
    <3>2. pc'[u] \in Responsible
      BY <2>4, <3>1 DEF ParseTmp, ParseFails, Crash, WriteDatabase, CheckDirectory,
           CreateDirectory, CreateDirectoryFails, WriteSnippet, OpenSnippetFails, Return,
           Exit, Goto
    <3> QED BY <3>1, <3>2
  <2> QED BY <1>4, <2>1, <2>2, <2>3, <2>4 DEF Extract
<1>5. CASE \E x \in Sources : Edit(x)
  BY <1>1, <1>5 DEF Edit
<1>6. CASE \E t \in Targets : Skip(t)
  BY <1>1, <1>6 DEF Skip
<1>7. CASE Clean \/ StartMake \/ NoticeError \/ EndMake
  BY <1>1, <1>7 DEF Clean, StartMake, NoticeError, EndMake
<1>8. CASE UNCHANGED vars
  BY <1>1, <1>8 DEF vars
<1> QED BY <1>3, <1>4, <1>5, <1>6, <1>7, <1>8 DEF Next

(* No extractor that succeeds leaves its formatted copy behind, also if    *)
(* others work on the same source.                                         *)
THEOREM TmpAlwaysTransient == Spec => []TmpIsTransient
<1>1. Init => TmpIsTransient
  BY DEF Init, TmpIsTransient
<1> QED BY <1>1, TmpStep, BuildTypeCorrect, PTL DEF Spec

-----------------------------------------------------------------------------
(* What the extractor of t has achieved when it has got to pc[t], if it    *)
(* could write its copy.  What it has parsed is the present text, as       *)
(* nobody edits while it works and nobody else touches the copy of its     *)
(* source.                                                                 *)
CopyIsOurs(t) ==
  /\ pc[t] = "write" => t \in writing
  /\ pc[t] = "parse" => tmp[Source[t]] = source[Source[t]]
HasParsed(t) ==
  pc[t] \in {"remove", "database", "directory", "mkdir", "snippets"} =>
      text[t] = source[Source[t]]
IsOutdated(t) ==
  pc[t] \in {"create", "write", "parse", "remove", "database"} => t \notin newer
DatabaseIsFresh(t) ==
  /\ t \in newer \cup launched
  /\ pc[t] \in {"directory", "mkdir", "snippets", "ok"}
  /\ "database" \notin lost[t]
  => t \in newer /\ database[t] = source[Source[t]]
FilesAreFresh(t) ==
  /\ pc[t] = "snippets" =>
       \A n \in written[t] \ lost[t] : files[Path(t, n)] = source[Source[t]]
  /\ t \in newer \cup launched /\ pc[t] = "ok" =>
       \A n \in Snippets[source[Source[t]]] \ lost[t] : files[Path(t, n)] = source[Source[t]]
Progress(t) ==
  /\ IsOutdated(t)
  /\ "copy" \notin lost[t] =>
       CopyIsOurs(t) /\ HasParsed(t) /\ DatabaseIsFresh(t) /\ FilesAreFresh(t)

EachProgresses == \A t \in Targets : Progress(t)

DistinctSources == \A t, u \in Targets : Source[t] = Source[u] => t = u

LEMMA ProgressStep ==
  ASSUME DistinctSources, TypeOK, WorkersAreLaunched,
         \A t \in Targets : Progress(t), [Next]_vars, NEW t \in Targets
  PROVE  Progress(t)'
<1> USE DEF Progress, CopyIsOurs, HasParsed, IsOutdated, DatabaseIsFresh, FilesAreFresh,
            makeVars, tmpVars, outVars, Path, TypeOK
<1>1. ASSUME NEW s \in Sources, Edit(s) PROVE Progress(t)'
  <2>1. pc[t] \notin Working /\ launched = {}
    BY <1>1 DEF Edit, WorkersAreLaunched
  <2>2. Source[t] # s => source'[Source[t]] = source[Source[t]]
    BY <1>1, ConstantFacts DEF Edit
  <2>3. t \in newer' => t \in newer /\ Source[t] # s
    BY <1>1 DEF Edit
  <2> QED BY <1>1, <2>1, <2>2, <2>3 DEF Edit, Working
<1>2. CASE Clean
  <2>1. pc[t] \notin Working /\ launched = {}
    BY <1>2 DEF Clean, WorkersAreLaunched
  <2> QED BY <1>2, <2>1 DEF Clean, Working
<1>3. CASE StartMake \/ NoticeError \/ EndMake
  BY <1>3 DEF StartMake, NoticeError, EndMake
<1>4. ASSUME NEW u \in Targets, Skip(u) PROVE Progress(t)'
  BY <1>4 DEF Skip
<1>5. ASSUME NEW u \in Targets, Launch(u) PROVE Progress(t)'
  BY <1>5 DEF Launch
<1>6. ASSUME NEW u \in Targets, Extract(u) \/ Crash(u), u # t PROVE Progress(t)'
  <2>1. Source[u] # Source[t]
    BY <1>6 DEF DistinctSources
  <2>2. pc'[t] = pc[t] /\ text'[t] = text[t] /\ written'[t] = written[t]
    <3>1. pc'[t] = pc[t]
      BY <1>6 DEF Extract, Crash, CreateTmp, WriteTmp, ParseTmp, ParseFails,
           RemoveTmp, WriteDatabase, CheckDirectory, CreateDirectory, CreateDirectoryFails,
           WriteSnippet, OpenSnippetFails, Return, Exit, Goto
    <3>2. text'[t] = text[t]
      BY <1>6 DEF Extract, Crash, CreateTmp, WriteTmp, ParseTmp, ParseFails,
           RemoveTmp, WriteDatabase, CheckDirectory, CreateDirectory, CreateDirectoryFails,
           WriteSnippet, OpenSnippetFails, Return, Exit, Goto
    <3>3. written'[t] = written[t]
      BY <1>6 DEF Extract, Crash, CreateTmp, WriteTmp, ParseTmp, ParseFails,
           RemoveTmp, WriteDatabase, CheckDirectory, CreateDirectory, CreateDirectoryFails,
           WriteSnippet, OpenSnippetFails, Return, Exit, Goto
    <3> QED BY ONLY <3>1, <3>2, <3>3
  <2>7. lost'[t] = lost[t] /\ launched' = launched
    BY <1>6 DEF Extract, Crash, CreateTmp, WriteTmp, ParseTmp, ParseFails,
         RemoveTmp, WriteDatabase, CheckDirectory, CreateDirectory, CreateDirectoryFails,
         WriteSnippet, OpenSnippetFails, Return, Lose
  <2>3. source' = source /\ database'[t] = database[t] /\ (t \in newer' <=> t \in newer)
    BY <1>6 DEF Extract, Crash, CreateTmp, WriteTmp, ParseTmp, ParseFails,
         RemoveTmp, WriteDatabase, CheckDirectory, CreateDirectory, CreateDirectoryFails,
         WriteSnippet, OpenSnippetFails, Return, Exit, Goto
  <2>4. tmp'[Source[t]] = tmp[Source[t]] /\ (t \in writing' <=> t \in writing)
    BY <1>6, <2>1, ConstantFacts DEF Extract, Crash, CreateTmp, WriteTmp, ParseTmp, ParseFails,
         RemoveTmp, WriteDatabase, CheckDirectory, CreateDirectory, CreateDirectoryFails,
         WriteSnippet, OpenSnippetFails, Return, Exit, Goto
  <2>5. \A n \in Names : files'[Path(t, n)] = files[Path(t, n)]
    <3>1. CASE WriteSnippet(u)
      <4> TAKE n \in Names
      <4>1. PICK m : \/ files' = [files EXCEPT ![Path(u, m)] = text[u]]
                     \/ files' = [files EXCEPT ![Path(u, m)] = Torn]
        BY <3>1 DEF WriteSnippet
      <4>2. Path(t, n) \in Paths /\ Path(t, n) # Path(u, m)
        BY <2>1, ConstantFacts DEF Paths
      <4> QED BY <4>1, <4>2
    <3>2. CASE UNCHANGED files
      BY <3>2
    <3> QED
      BY <1>6, <3>1, <3>2 DEF Extract, Crash, CreateTmp, WriteTmp, ParseTmp, ParseFails,
         RemoveTmp, WriteDatabase, CheckDirectory, CreateDirectory, CreateDirectoryFails,
         OpenSnippetFails, Return
  <2>6. \A n : n \in written[t] \/ n \in Snippets[source[Source[t]]] => n \in Names
    BY ConstantFacts
  <2> QED BY <2>2, <2>3, <2>4, <2>5, <2>6, <2>7
<1>7. ASSUME Extract(t) PROVE Progress(t)'
  <2>1. CASE CreateTmp(t)
    <3>1. pc[t] = "create" /\ pc'[t] = "write" /\ newer' = newer
      BY <2>1 DEF CreateTmp, Goto
    <3>2. t \in writing' \/ "copy" \in lost'[t]
      BY <2>1, LoseFacts DEF CreateTmp
    <3> QED BY <3>1, <3>2
  <2>2. CASE WriteTmp(t)
    <3>1. pc[t] = "write" /\ pc'[t] = "parse" /\ source' = source /\ newer' = newer
      BY <2>2 DEF WriteTmp, Goto
    <3>2. CASE lost' = lost /\ "copy" \notin lost[t]
      <4>1. tmp'[Source[t]] = source[Source[t]]
        BY <2>2, <3>1, <3>2, ConstantFacts DEF WriteTmp, Lose
      <4> QED BY <3>1, <4>1
    <3>3. CASE "copy" \in lost'[t]
      BY <3>1, <3>3
    <3> QED BY <2>2, <3>2, <3>3, LoseFacts DEF WriteTmp
  <2>3. CASE ParseTmp(t)
    BY <2>3, ConstantFacts DEF ParseTmp, Goto
  <2>4. CASE ParseFails(t)
    BY <2>4 DEF ParseFails, Exit, Goto
  <2>5. CASE RemoveTmp(t)
    BY <2>5 DEF RemoveTmp, Goto
  <2>6. CASE WriteDatabase(t)
    <3>1. pc[t] = "database" /\ pc'[t] = "directory" /\ source' = source /\ text' = text
      BY <2>6 DEF WriteDatabase, Goto
    <3>2. lost[t] \subseteq lost'[t]
      BY <2>6, LoseFacts DEF WriteDatabase
    <3>3. "database" \notin lost'[t] => t \in newer' /\ database'[t] = text[t]
      BY <2>6, LoseFacts DEF WriteDatabase
    <3> QED BY <3>1, <3>2, <3>3
  <2>7. CASE CheckDirectory(t)
    BY <2>7 DEF CheckDirectory, Goto
  <2>8. CASE CreateDirectory(t)
    BY <2>8 DEF CreateDirectory, Goto
  <2>9. CASE CreateDirectoryFails(t)
    BY <2>9 DEF CreateDirectoryFails, Exit, Goto
  <2>10. CASE WriteSnippet(t)
    <3>1. PICK n \in Snippets[text[t]] \ written[t] :
            /\ written' = [written EXCEPT ![t] = @ \cup {n}]
            /\ \/ files' = [files EXCEPT ![Path(t, n)] = text[t]] /\ UNCHANGED lost
               \/ files' = [files EXCEPT ![Path(t, n)] = Torn] /\ Lose(t, n)
      BY <2>10 DEF WriteSnippet
    <3>2. source' = source /\ pc' = pc /\ pc[t] = "snippets" /\ text' = text
      BY <2>10 DEF WriteSnippet
    <3>3. Path(t, n) \in Paths /\ n \in Names
      BY <3>1, PathFacts, ConstantFacts
    <3>4. lost[t] \subseteq lost'[t] /\ (n \in lost'[t] \/ files'[Path(t, n)] = text[t])
      BY <3>1, <3>3, LoseFacts
    <3>5. \A m \in Names \ {n} : files'[Path(t, m)] = files[Path(t, m)]
      BY <3>1, ConstantFacts DEF Paths
    <3>6. written'[t] = written[t] \cup {n} /\ written[t] \subseteq Names
      BY <3>1
    <3>7. "copy" \notin lost'[t] =>
            \A m \in written'[t] \ lost'[t] : files'[Path(t, m)] = source[Source[t]]
      BY <3>2, <3>4, <3>5, <3>6
    <3>8. newer' = newer /\ launched' = launched /\ database' = database
      BY <2>10 DEF WriteSnippet
    <3> QED BY <3>2, <3>4, <3>7, <3>8
  <2>11. CASE OpenSnippetFails(t)
    BY <2>11 DEF OpenSnippetFails, Exit, Goto
  <2>12. CASE Return(t)
    BY <2>12 DEF Return, Exit, Goto
  <2> QED
    BY <1>7, <2>1, <2>2, <2>3, <2>4, <2>5, <2>6, <2>7, <2>8, <2>9, <2>10, <2>11, <2>12
    DEF Extract
<1>8. ASSUME Crash(t) PROVE Progress(t)'
  BY <1>8 DEF Crash, Exit, Goto
<1>9. CASE UNCHANGED vars
  BY <1>9 DEF vars
<1> QED BY <1>1, <1>2, <1>3, <1>4, <1>5, <1>6, <1>7, <1>8, <1>9 DEF Next

(* If every source has one target, the extractor of which has returned     *)
(* success, the target and the snippets are complete but for what could    *)
(* not be written without notice: whatever crashes, fails or runs at the   *)
(* same time in the shared directory, and whatever is edited in between.   *)
THEOREM SuccessAlwaysMeansComplete ==
  ASSUME DistinctSources PROVE Spec => []SuccessMeansComplete
<1>1. Init => EachProgresses
  BY DEF Init, EachProgresses, Progress, CopyIsOurs, HasParsed, IsOutdated,
         DatabaseIsFresh, FilesAreFresh
<1>2. TypeOK /\ WorkersAreLaunched /\ EachProgresses /\ [Next]_vars => EachProgresses'
  BY ProgressStep DEF EachProgresses
<1>3. TypeOK /\ EachProgresses => SuccessMeansComplete
  BY DEF TypeOK, EachProgresses, SuccessMeansComplete, Complete, Progress,
         DatabaseIsFresh, FilesAreFresh
<1> QED BY <1>1, <1>2, <1>3, BuildTypeCorrect, PTL DEF Spec

-----------------------------------------------------------------------------
(* An extractor about to create a directory that is there by now has been  *)
(* beaten: it was not there when it checked.                               *)
RacesAreLost ==
  \A t \in Targets : pc[t] = "mkdir" /\ Dir[t] \in dirs => Beaten(t)

(* Whoever has beaten t stays launched while t works, and ends if it does. *)
LEMMA BeatenStays ==
  ASSUME TypeOK, WorkersAreLaunched, [Next]_vars, NEW t \in Targets,
         pc[t] \in Working, pc'[t] \in Working, Beaten(t)
  PROVE  Beaten(t)'
<1>1. PICK u \in launched \ {t} : Dir[u] = Dir[t] /\ pc[u] \in {"snippets"} \cup Ended
  BY DEF Beaten
<1>2. t \in launched /\ make \in {"running", "failing"} /\ u \in Targets /\ pc[t] \notin Ended
  BY <1>1 DEF WorkersAreLaunched, TypeOK, Working, Ended
<1> SUFFICES u \in launched' /\ pc'[u] \in {"snippets"} \cup Ended
  BY <1>1 DEF Beaten
<1> USE DEF makeVars, TypeOK
<1>3. CASE \E s \in Sources : Edit(s)
  BY <1>2, <1>3 DEF Edit
<1>4. CASE Clean \/ StartMake
  BY <1>2, <1>4 DEF Clean, StartMake
<1>5. CASE NoticeError
  BY <1>1, <1>5 DEF NoticeError
<1>6. CASE EndMake
  BY <1>2, <1>6 DEF EndMake
<1>7. ASSUME NEW v \in Targets, Skip(v) PROVE u \in launched' /\ pc'[u] \in {"snippets"} \cup Ended
  BY <1>1, <1>7 DEF Skip
<1>8. ASSUME NEW v \in Targets, Launch(v) PROVE u \in launched' /\ pc'[u] \in {"snippets"} \cup Ended
  BY <1>1, <1>8 DEF Launch
<1>9. ASSUME NEW v \in Targets, Extract(v) \/ Crash(v)
      PROVE  u \in launched' /\ pc'[u] \in {"snippets"} \cup Ended
  <2>1. launched' = launched
    BY <1>9 DEF Extract, Crash, CreateTmp, WriteTmp, ParseTmp, ParseFails, RemoveTmp, WriteDatabase,
         CheckDirectory, CreateDirectory, CreateDirectoryFails, WriteSnippet, OpenSnippetFails, Return
  <2>2. CASE u # v
    <3>1. pc'[u] = pc[u]
      BY <1>2, <1>9, <2>2 DEF Extract, Crash, CreateTmp, WriteTmp, ParseTmp, ParseFails, RemoveTmp,
           WriteDatabase, CheckDirectory, CreateDirectory, CreateDirectoryFails, WriteSnippet,
           OpenSnippetFails, Return, Exit, Goto
    <3> QED BY <1>1, <2>1, <3>1
  <2>3. CASE u = v
    BY <1>1, <1>2, <1>9, <2>1, <2>3 DEF Extract, Crash, CreateTmp, WriteTmp, ParseTmp, ParseFails,
       RemoveTmp, WriteDatabase, CheckDirectory, CreateDirectory, CreateDirectoryFails, WriteSnippet,
       OpenSnippetFails, Return, Exit, Goto, Working, Ended
  <2> QED BY <2>2, <2>3
<1>10. CASE UNCHANGED vars
  BY <1>1, <1>10 DEF vars
<1> QED BY <1>3, <1>4, <1>5, <1>6, <1>7, <1>8, <1>9, <1>10 DEF Next

LEMMA RacesStep ==
  ASSUME TypeOK, WorkersAreLaunched, RacesAreLost, [Next]_vars
  PROVE  RacesAreLost'
<1> SUFFICES ASSUME NEW t \in Targets, pc'[t] = "mkdir", Dir[t] \in dirs' PROVE Beaten(t)'
  BY DEF RacesAreLost
<1> USE DEF TypeOK
<1>1. CASE pc[t] = "mkdir" /\ Dir[t] \in dirs
  <2>1. Beaten(t)
    BY <1>1 DEF RacesAreLost
  <2> QED BY <1>1, <2>1, BeatenStays DEF Working
<1>2. CASE pc[t] = "mkdir" /\ Dir[t] \notin dirs
  <2>1. PICK u \in Targets : CreateDirectory(u) /\ Dir[u] = Dir[t]
    <3>1. dirs' # dirs
      BY <1>2
    <3>2. ~(dirs' = dirs \ CleanDirs)
      BY <1>2
    <3>3. PICK u \in Targets : Extract(u)
      BY <3>1, <3>2 DEF Next, Edit, Clean, StartMake, NoticeError, EndMake, Skip, Launch, Crash, vars, outVars
    <3>4. CreateDirectory(u)
      BY <3>1, <3>3 DEF Extract, CreateTmp, WriteTmp, ParseTmp, ParseFails, RemoveTmp, WriteDatabase,
         CheckDirectory, CreateDirectoryFails, WriteSnippet, OpenSnippetFails, Return, outVars
    <3>5. dirs' = dirs \cup {Dir[u]}
      BY <3>4 DEF CreateDirectory
    <3> QED BY <1>2, <3>4, <3>5
  <2>2. pc[u] = "mkdir" /\ pc'[u] = "snippets" /\ launched' = launched
    BY <2>1 DEF CreateDirectory, Goto, makeVars
  <2>3. u \in launched /\ u # t
    BY <2>2 DEF WorkersAreLaunched, Working
  <2> QED BY <2>1, <2>2, <2>3 DEF Beaten
<1>3. CASE pc[t] # "mkdir"
  <2>1. PICK u \in Targets : Skip(u) \/ Launch(u) \/ Extract(u) \/ Crash(u)
    BY <1>3 DEF Next, Edit, Clean, StartMake, NoticeError, EndMake, vars
  <2>2. Extract(u)
    BY <1>3, <2>1 DEF Skip, Launch, Crash, Exit, Goto
  <2>3. CheckDirectory(t)
    BY <1>3, <2>2 DEF Extract, CreateTmp, WriteTmp, ParseTmp, ParseFails, RemoveTmp, WriteDatabase,
       CheckDirectory, CreateDirectory, CreateDirectoryFails, WriteSnippet, OpenSnippetFails, Return,
       Exit, Goto
  <2>4. Dir[t] \notin dirs /\ dirs' = dirs
    BY <2>3 DEF CheckDirectory, Goto, outVars
  <2> QED BY <2>4
<1> QED BY <1>1, <1>2, <1>3

LEMMA FailureStep ==
  ASSUME TypeOK, EachProgresses, RacesAreLost, [Next]_vars,
         NEW t \in Targets, pc[t] \in Working, pc'[t] \in Ended \ {"ok"}
  PROVE  Disturbed(t) \/ "copy" \in lost[t] \/ source[Source[t]] \in Unparsable \/ Beaten(t)
<1> USE DEF TypeOK, Working, Ended
<1>1. PICK u \in Targets : Skip(u) \/ Launch(u) \/ Extract(u) \/ Crash(u)
  BY DEF Next, Edit, Clean, StartMake, NoticeError, EndMake, vars
<1>2. Extract(u) \/ Crash(u)
  BY <1>1 DEF Skip, Launch
<1>3. u = t
  BY <1>2 DEF Extract, Crash, CreateTmp, WriteTmp, ParseTmp, ParseFails, RemoveTmp, WriteDatabase,
     CheckDirectory, CreateDirectory, CreateDirectoryFails, WriteSnippet, OpenSnippetFails, Return,
     Exit, Goto
<1>4. Crash(t) \/ ParseFails(t) \/ CreateDirectoryFails(t) \/ OpenSnippetFails(t)
  BY <1>2, <1>3 DEF Extract, CreateTmp, WriteTmp, ParseTmp, RemoveTmp, WriteDatabase,
     CheckDirectory, CreateDirectory, WriteSnippet, Return, Exit, Goto
<1>5. CASE ParseFails(t)
  <2>1. CASE tmp[Source[t]] \notin Unparsable \cup {None}
    BY <1>5, <2>1 DEF Disturbed
  <2>2. CASE tmp[Source[t]] \in Unparsable \cup {None} /\ "copy" \notin lost[t]
    <3>1. tmp[Source[t]] = source[Source[t]]
      BY <1>5, <2>2 DEF ParseFails, Exit, Goto, EachProgresses, Progress, CopyIsOurs
    <3>2. source[Source[t]] # None
      BY ConstantFacts
    <3> QED BY <2>2, <3>1, <3>2
  <2> QED BY <2>1, <2>2
<1>6. CASE CreateDirectoryFails(t)
  <2>1. pc[t] = "mkdir"
    BY <1>6 DEF CreateDirectoryFails, Exit, Goto
  <2> QED BY <1>6, <2>1 DEF RacesAreLost, Disturbed
<1> QED BY <1>4, <1>5, <1>6 DEF Disturbed

(* If every source has one target, an extractor fails only if it is        *)
(* disturbed, its source cannot be parsed, or another one of the same call *)
(* of make was faster with the directory: nothing an earlier failure has   *)
(* left behind can stop it, and neither can the copies of the others.      *)
THEOREM AlwaysFailsForAReason ==
  ASSUME DistinctSources PROVE Spec => FailsForAReason
<1> DEFINE Inv == TypeOK /\ WorkersAreLaunched /\ EachProgresses /\ RacesAreLost
<1>1. Init => Inv
  BY InitTypes DEF Init, EachProgresses, Progress, CopyIsOurs, HasParsed, IsOutdated,
     DatabaseIsFresh, FilesAreFresh, RacesAreLost
<1>2. Inv /\ [Next]_vars => Inv'
  BY TypeStep, LaunchedStep, ProgressStep, RacesStep DEF EachProgresses
<1>3. Inv /\ [Next]_vars =>
        [\A t \in Targets : pc[t] \in Working /\ pc'[t] \in Ended \ {"ok"} =>
           \/ Disturbed(t) \/ "copy" \in lost[t]
           \/ source[Source[t]] \in Unparsable \/ Beaten(t)]_vars
  BY FailureStep
<1> QED BY <1>1, <1>2, <1>3, PTL DEF Spec, FailsForAReason
=============================================================================
