--------------------------- MODULE BuildProperties --------------------------
(* What a build promises, and what the documentation says of it.           *)
EXTENDS ExtractorBuild

(* The variables have their types; an extractor holds the formatted copy   *)
(* open only while it writes it, and writes only snippets of the text it   *)
(* has parsed.                                                             *)
TypeOK ==
    /\ source \in [Sources -> Versions]
    /\ newer \subseteq Targets
    /\ make \in {"idle", "running", "failing", "done", "error"}
    /\ launched \subseteq Targets /\ skipped \subseteq Targets
    /\ pc \in [Targets -> Working \cup Ended \cup {"idle"}]
    /\ tmp \in [Sources -> Texts \cup {None}]
    /\ writing \subseteq Targets
    /\ text \in [Targets -> Texts]
    /\ database \in [Targets -> Texts \cup {Torn, None}]
    /\ dirs \subseteq Dirs
    /\ files \in [Paths -> Texts \cup {Torn, None}]
    /\ written \in [Targets -> SUBSET Names]
    /\ lost \in [Targets -> SUBSET (Names \cup {"copy", "database"})]
    /\ \A t \in writing : pc[t] = "write"
    /\ \A t \in Targets :
         written[t] \subseteq (IF pc[t] = "snippets" THEN Snippets[text[t]] ELSE {})

(* The database of a target and all the snippet files of its source are    *)
(* made from the present text of the source.                               *)
Complete(t) ==
    /\ database[t] = source[Source[t]]
    /\ \A n \in Snippets[source[Source[t]]] : files[Path(t, n)] = source[Source[t]]

(* What generate() promises when it returns success: the target is there   *)
(* and newer than its source, and it and every snippet file are made from  *)
(* the present text, but for what it could not write and did not report.   *)
(* That stays so while make takes the target for up to date, whatever the  *)
(* other extractors do.  generate() writes the target before the snippets: *)
(* a step that fails after that and is reported costs the target nothing.  *)
SuccessMeansComplete ==
    \A t \in newer \cup launched : pc[t] = "ok" /\ "copy" \notin lost[t] =>
        /\ "database" \notin lost[t] => t \in newer /\ database[t] = source[Source[t]]
        /\ \A n \in Snippets[source[Source[t]]] \ lost[t] :
             files[Path(t, n)] = source[Source[t]]

(* The formatted copy of a source is there only while an extractor works   *)
(* on the source, or because one has failed: generate() cleans up.         *)
TmpIsTransient ==
    \A s \in Sources : tmp[s] # None =>
        \E t \in Targets : Source[t] = s /\ pc[t] \in {"create", "write", "parse", "remove", "failed", "crashed"}

(* What the system does to an extractor: it is killed, or a file operation *)
(* fails for another reason than what is there already, noticed or not.    *)
Disturbed(t) ==
    \/ Crash(t) \/ OpenSnippetFails(t)
    \/ ParseFails(t) /\ tmp[Source[t]] \notin Unparsable \cup {None}
    \/ CreateDirectoryFails(t) /\ Dir[t] \notin dirs
    \/ ~(lost'[t] \subseteq lost[t])

(* An extractor ends with an error only if the system disturbs it now or   *)
(* has kept it from writing its copy, if its source cannot be parsed, or   *)
(* if another one that was started by the same call of make has created    *)
(* the directory between the check and the creation                        *)
(* (asciidocsnippetfilegenerator.cc:88-96): what earlier calls have left   *)
(* behind, and the copies of the others, stop nobody.                      *)
Beaten(t) ==
    \E u \in launched \ {t} : Dir[u] = Dir[t] /\ pc[u] \in {"snippets"} \cup Ended
FailsForAReason ==
    [][\A t \in Targets : pc[t] \in Working /\ pc'[t] \in Ended \ {"ok"} =>
         \/ Disturbed(t) \/ "copy" \in lost[t]
         \/ source[Source[t]] \in Unparsable \/ Beaten(t)]_vars

(* If from some time on the sources can be parsed and no extractor is      *)
(* disturbed, the targets become up to date again and again: whatever a    *)
(* crash has left behind, no failed call and no race of two extractors     *)
(* stops make for ever.                                                    *)
MakeCatchesUp ==
    (/\ <>[](\A s \in Sources : source[s] \notin Unparsable)
     /\ <>[][\A t \in Targets : ~Disturbed(t)]_vars)
    => []<>(newer = Targets)

-----------------------------------------------------------------------------
(* Documentation: "if the source changes the snippets must change too".    *)
(* When make reports success, all targets are complete.                    *)
SnippetsFollowTheSource == make = "done" => \A t \in Targets : Complete(t)
=============================================================================
