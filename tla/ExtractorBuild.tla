--------------------------- MODULE ExtractorBuild ---------------------------
(***************************************************************************)
(* make calls an extractor for every target that is not newer than its     *)
(* source (doc/src/Makefile.include, example02/Makefile).  The extractors  *)
(* run in parallel and work on shared files: the formatted copy of a       *)
(* source, one per source whatever the target, and the directory of the    *)
(* snippets, one per rule.  The steps of an extractor are those of         *)
(* AsciidocSnippetFileGenerator::generate() that touch a file.  The user   *)
(* edits sources between two calls of make.  generate() asks of no stream  *)
(* but those of the database and of the snippets whether it could be       *)
(* opened, and of none whether it took what was written.                   *)
(***************************************************************************)
EXTENDS Naturals, FiniteSets, Functions

CONSTANTS
    Targets,    \* database files to be made
    Source,     \* target -> source file
    Dir,        \* target -> directory given with -d
    CleanDirs,  \* directories that make clean removes
    Versions,   \* texts a source can have
    Empty,      \* the text of an empty file
    Beginnings, \* text -> texts it can be cut to
    Unparsable, \* texts that parse() refuses
    Snippets,   \* text -> names of its snippets, all among them
    Failures,   \* target -> what may go wrong with it: crash, write, or to open
                \* a copy, a database or a snippet file, or to make a directory
    Torn,       \* a file of which not everything was written
    None

Sources == Range(Source)
Dirs    == Range(Dir)
Texts   == Versions \cup {Empty} \cup UNION Range(Beginnings)
Names   == UNION Range(Snippets)
Paths   == Dirs \X Sources \X Names

ASSUME TargetsAssumption  == Source \in [Targets -> Sources] /\ Dir \in [Targets -> Dirs]
ASSUME NoneAssumption     == None \notin Texts \cup {Torn} /\ Torn \notin Texts
ASSUME TextsAssumption    ==
    /\ Unparsable \subseteq Texts \ {Empty} /\ Empty \notin Versions
    /\ DOMAIN Beginnings = Versions
ASSUME SnippetsAssumption ==
    Snippets \in [Texts -> SUBSET Names] /\ Names \cap {"copy", "database"} = {}
ASSUME FailuresAssumption ==
    Failures \in [Targets -> SUBSET {"crash", "write", "copy", "database", "directory", "file"}]

VARIABLES
    source,    \* source -> its text
    newer,     \* targets that exist and are newer than their source
    make,      \* idle, running, failing; done and error when it returned
    launched,  \* targets make has called an extractor for
    skipped,   \* targets make has found up to date
    pc,        \* target -> where its extractor is, or how the last one ended
    tmp,       \* source -> text at the path of its formatted copy, or None
    writing,   \* targets whose extractor has the file at that path open
    text,      \* target -> text its extractor has parsed
    database,  \* target -> text whose snippets are listed in it, None or Torn
    dirs,      \* directories that exist
    files,     \* path of a snippet file -> text it shows, None or Torn
    written,   \* target -> snippets its extractor has written
    lost       \* target -> what its last extractor did not get into a file and
               \* did not report: the copy, the database, snippets (a history
               \* variable, the program has nothing like it)

makeVars == <<make, launched, skipped>>
tmpVars  == <<tmp, writing>>
outVars  == <<newer, database, dirs, files>>
vars     == <<source, makeVars, pc, tmpVars, text, outVars, written, lost>>

Working == {"create", "write", "parse", "remove", "database", "directory", "mkdir", "snippets"}
Ended   == {"ok", "failed", "crashed"}
Path(t, n) == <<Dir[t], Source[t], n>>

Init ==
    /\ source \in [Sources -> Versions]
    /\ newer = {} /\ make = "idle" /\ launched = {} /\ skipped = {}
    /\ pc = [t \in Targets |-> "idle"]
    /\ tmp = [s \in Sources |-> None]
    /\ writing = {}
    /\ text = [t \in Targets |-> Empty]
    /\ database = [t \in Targets |-> None]
    /\ dirs = {} /\ files = [p \in Paths |-> None]
    /\ written = [t \in Targets |-> {}]
    /\ lost = [t \in Targets |-> {}]

-----------------------------------------------------------------------------
(* The user and make.                                                      *)
Edit(s) ==
    /\ make \notin {"running", "failing"}
    /\ \E v \in Versions \ {source[s]} : source' = [source EXCEPT ![s] = v]
    /\ newer' = {t \in newer : Source[t] # s}
    /\ make' = "idle"
    /\ UNCHANGED <<launched, skipped, pc, tmpVars, text, database, dirs, files, written, lost>>

(* make clean removes the targets and the directories of the main rules.   *)
Clean ==
    /\ make \notin {"running", "failing"}
    /\ make' = "idle" /\ newer' = {}
    /\ database' = [t \in Targets |-> None]
    /\ dirs' = dirs \ CleanDirs
    /\ files' = [p \in Paths |-> IF p[1] \in CleanDirs THEN None ELSE files[p]]
    /\ UNCHANGED <<source, launched, skipped, pc, tmpVars, text, written, lost>>

StartMake ==
    /\ make \notin {"running", "failing"}
    /\ make' = "running"
    /\ UNCHANGED <<source, launched, skipped, pc, tmpVars, text, outVars, written, lost>>

Skip(t) ==
    /\ make = "running" /\ t \notin launched \cup skipped /\ t \in newer
    /\ skipped' = skipped \cup {t}
    /\ UNCHANGED <<source, make, launched, pc, tmpVars, text, outVars, written, lost>>

Launch(t) ==
    /\ make = "running" /\ t \notin launched \cup skipped /\ t \notin newer
    /\ launched' = launched \cup {t}
    /\ pc' = [pc EXCEPT ![t] = "create"]
    /\ lost' = [lost EXCEPT ![t] = {}]
    /\ UNCHANGED <<source, make, skipped, tmpVars, text, outVars, written>>

(* After an error make starts no other extractor and waits for the rest.   *)
NoticeError ==
    /\ make = "running" /\ \E t \in launched : pc[t] \in Ended \ {"ok"}
    /\ make' = "failing"
    /\ UNCHANGED <<source, launched, skipped, pc, tmpVars, text, outVars, written, lost>>

EndMake ==
    /\ \A t \in launched : pc[t] \in Ended
    /\ \/ make = "failing" /\ make' = "error"
       \/ /\ make = "running" /\ launched \cup skipped = Targets
          /\ \A t \in launched : pc[t] = "ok"
          /\ make' = "done"
    /\ launched' = {} /\ skipped' = {}
    /\ UNCHANGED <<source, pc, tmpVars, text, outVars, written, lost>>

-----------------------------------------------------------------------------
(* One extractor.  Its memory is gone when it ends.                        *)
Goto(t, from, to) == pc[t] = from /\ pc' = [pc EXCEPT ![t] = to]
Exit(t, from, to) ==
    /\ Goto(t, from, to)
    /\ text' = [text EXCEPT ![t] = Empty]
    /\ written' = [written EXCEPT ![t] = {}]

Lose(t, what) == lost' = [lost EXCEPT ![t] = @ \cup {what}]

(* Opening the copy truncates the file at that path or creates a new one.  *)
(* If it cannot be opened, what is at the path stays, and nobody asks.     *)
CreateTmp(t) ==
    /\ Goto(t, "create", "write")
    /\ \/ /\ tmp' = [tmp EXCEPT ![Source[t]] = Empty]
          /\ writing' = writing \cup {t}
          /\ UNCHANGED lost
       \/ "copy" \in Failures[t] /\ Lose(t, "copy") /\ UNCHANGED tmpVars
    /\ UNCHANGED <<source, makeVars, text, outVars, written>>

(* The copy is not closed before it is read: nothing is in it yet.         *)
WriteTmp_NotClosed(t) ==
    /\ Goto(t, "write", "parse")
    /\ UNCHANGED <<source, makeVars, tmpVars, text, outVars, written, lost>>

(* The text goes to the opened file, wherever its path has gone; nobody    *)
(* asks whether all of it was read and written.                            *)
WriteTmp(t) ==
    /\ Goto(t, "write", "parse")
    /\ \/ /\ tmp' = IF t \in writing THEN [tmp EXCEPT ![Source[t]] = source[Source[t]]] ELSE tmp
          /\ UNCHANGED lost
       \/ /\ "write" \in Failures[t] /\ t \in writing
          /\ \E v \in Beginnings[source[Source[t]]] : tmp' = [tmp EXCEPT ![Source[t]] = v]
          /\ Lose(t, "copy")
    /\ writing' = writing \ {t}
    /\ UNCHANGED <<source, makeVars, text, outVars, written>>

ParseTmp(t) ==
    /\ tmp[Source[t]] \notin Unparsable \cup {None}
    /\ Goto(t, "parse", "remove")
    /\ text' = [text EXCEPT ![t] = tmp[Source[t]]]
    /\ UNCHANGED <<source, makeVars, tmpVars, outVars, written, lost>>

(* The copy is gone or cannot be opened, or stays behind.                  *)
ParseFails(t) ==
    /\ tmp[Source[t]] \in Unparsable \cup {None} \/ "copy" \in Failures[t]
    /\ Exit(t, "parse", "failed")
    /\ UNCHANGED <<source, makeVars, tmpVars, outVars, lost>>

(* The call is missing.                                                    *)
RemoveTmp_Forgotten(t) ==
    /\ Goto(t, "remove", "database")
    /\ UNCHANGED <<source, makeVars, tmpVars, text, outVars, written, lost>>

RemoveTmp(t) ==
    /\ Goto(t, "remove", "database")
    /\ tmp' = [tmp EXCEPT ![Source[t]] = None]
    /\ writing' = {u \in writing : Source[u] # Source[t]}
    /\ UNCHANGED <<source, makeVars, text, outVars, written, lost>>

(* A database that lists the same snippets is left as it is.               *)
WriteDatabase_IfChanged(t) ==
    /\ Goto(t, "database", "directory")
    /\ newer' = IF database[t] = text[t] THEN newer ELSE newer \cup {t}
    /\ database' = [database EXCEPT ![t] = text[t]]
    /\ UNCHANGED <<source, makeVars, tmpVars, text, dirs, files, written, lost>>

(* Opening the database makes the target newer than its source.  If it     *)
(* cannot be opened, the error is traced and the extractor goes on, as it  *)
(* does if a snippet cannot be written to it.                              *)
WriteDatabase(t) ==
    /\ Goto(t, "database", "directory")
    /\ \/ /\ database' = [database EXCEPT ![t] = text[t]]
          /\ newer' = newer \cup {t} /\ UNCHANGED lost
       \/ /\ "write" \in Failures[t] /\ Lose(t, "database")
          /\ database' = [database EXCEPT ![t] = Torn]
          /\ newer' = newer \cup {t}
       \/ "database" \in Failures[t] /\ Lose(t, "database") /\ UNCHANGED <<database, newer>>
    /\ UNCHANGED <<source, makeVars, tmpVars, text, dirs, files, written>>

(* The call of exists() is missing.                                        *)
CheckDirectory_Never(t) ==
    /\ Goto(t, "directory", "mkdir")
    /\ UNCHANGED <<source, makeVars, tmpVars, text, outVars, written, lost>>

CheckDirectory(t) ==
    /\ Goto(t, "directory", IF Dir[t] \in dirs THEN "snippets" ELSE "mkdir")
    /\ UNCHANGED <<source, makeVars, tmpVars, text, outVars, written, lost>>

(* create_directory() returns false if it fails, and also if the directory *)
(* exists by now.                                                          *)
CreateDirectory(t) ==
    /\ Dir[t] \notin dirs
    /\ Goto(t, "mkdir", "snippets")
    /\ dirs' = dirs \cup {Dir[t]}
    /\ UNCHANGED <<source, makeVars, tmpVars, text, newer, database, files, written, lost>>

CreateDirectoryFails(t) ==
    /\ Dir[t] \in dirs \/ "directory" \in Failures[t]
    /\ Exit(t, "mkdir", "failed")
    /\ UNCHANGED <<source, makeVars, tmpVars, outVars, lost>>

(* The file is opened; nobody asks whether all of it was written.          *)
WriteSnippet(t) ==
    /\ pc[t] = "snippets"
    /\ \E n \in Snippets[text[t]] \ written[t] :
         /\ written' = [written EXCEPT ![t] = @ \cup {n}]
         /\ \/ files' = [files EXCEPT ![Path(t, n)] = text[t]] /\ UNCHANGED lost
            \/ /\ "write" \in Failures[t] /\ Lose(t, n)
               /\ files' = [files EXCEPT ![Path(t, n)] = Torn]
    /\ UNCHANGED <<source, makeVars, pc, tmpVars, text, newer, database, dirs>>

OpenSnippetFails(t) ==
    /\ "file" \in Failures[t]
    /\ Snippets[text[t]] # written[t]
    /\ Exit(t, "snippets", "failed")
    /\ UNCHANGED <<source, makeVars, tmpVars, outVars, lost>>

(* After the last but one.                                                 *)
Return_Early(t) ==
    /\ Cardinality(Snippets[text[t]] \ written[t]) <= 1
    /\ Exit(t, "snippets", "ok")
    /\ UNCHANGED <<source, makeVars, tmpVars, outVars, lost>>

Return(t) ==
    /\ Snippets[text[t]] = written[t]
    /\ Exit(t, "snippets", "ok")
    /\ UNCHANGED <<source, makeVars, tmpVars, outVars, lost>>

(* An uncaught exception or a signal, between two steps; in the middle of  *)
(* writing it leaves what a failed writing and a crash after it leave.     *)
Crash(t) ==
    /\ "crash" \in Failures[t]
    /\ \E at \in Working : Exit(t, at, "crashed")
    /\ writing' = writing \ {t}
    /\ UNCHANGED <<source, makeVars, tmp, outVars, lost>>

Extract(t) ==
    \/ CreateTmp(t) \/ WriteTmp(t) \/ ParseTmp(t) \/ ParseFails(t) \/ RemoveTmp(t)
    \/ WriteDatabase(t) \/ CheckDirectory(t) \/ CreateDirectory(t)
    \/ CreateDirectoryFails(t) \/ WriteSnippet(t) \/ OpenSnippetFails(t) \/ Return(t)

Next ==
    \/ \E s \in Sources : Edit(s)
    \/ Clean \/ StartMake \/ NoticeError \/ EndMake
    \/ \E t \in Targets : Skip(t) \/ Launch(t) \/ Extract(t) \/ Crash(t)

Spec == Init /\ [][Next]_vars

(* The system runs every extractor on, make does its work, and it is       *)
(* called again and again.                                                 *)
FairSpec ==
    /\ Spec
    /\ WF_vars(StartMake) /\ WF_vars(NoticeError) /\ WF_vars(EndMake)
    /\ \A t \in Targets : WF_vars(Skip(t)) /\ WF_vars(Launch(t)) /\ WF_vars(Extract(t))
=============================================================================
