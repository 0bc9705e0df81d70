------------------------- MODULE SnippetGeneration -------------------------
(***************************************************************************)
(* What a run of the snippet generator promises its caller, without lines, *)
(* spans and loops: once the source is understood it is settled which      *)
(* source lines each snippet has to show.  After that the snippets are     *)
(* listed in the database, all or none, and each is put into a file as a   *)
(* whole.  The run may give up at any time, but it reports success only    *)
(* when every snippet has been shown.                                      *)
(***************************************************************************)
EXTENDS Naturals

CONSTANT Names   \* the names a snippet can have

VARIABLES
    phase,   \* "parsing", "writing", and how it ended: "done" or "failed"
    wanted,  \* snippet name -> the source lines it has to show
    listed,  \* the names in the database
    shown    \* snippet name -> the source lines its file shows

promised == <<phase, wanted, listed, shown>>

Init ==
    /\ phase = "parsing"
    /\ wanted = <<>> /\ listed = {} /\ shown = <<>>

(* The source as a whole is always a snippet.                              *)
Understand ==
    /\ phase = "parsing" /\ phase' = "writing"
    /\ "all" \in DOMAIN wanted' /\ DOMAIN wanted' \subseteq Names
    /\ wanted' \in [DOMAIN wanted' -> SUBSET Nat]
    /\ UNCHANGED <<listed, shown>>

List ==
    /\ phase = "writing" /\ DOMAIN shown = {}
    /\ listed' \in {{}, DOMAIN wanted}
    /\ UNCHANGED <<phase, wanted, shown>>

Show(n) ==
    /\ phase = "writing" /\ n \notin DOMAIN shown
    /\ shown' = [m \in DOMAIN shown \cup {n} |-> IF m = n THEN wanted[n] ELSE shown[m]]
    /\ UNCHANGED <<phase, wanted, listed>>

GiveUp ==
    /\ phase \in {"parsing", "writing"} /\ phase' = "failed"
    /\ UNCHANGED <<wanted, listed, shown>>

Succeed ==
    /\ phase = "writing" /\ phase' = "done"
    /\ DOMAIN shown = DOMAIN wanted
    /\ UNCHANGED <<wanted, listed, shown>>

Next == Understand \/ List \/ (\E n \in DOMAIN wanted : Show(n)) \/ GiveUp \/ Succeed

Spec == Init /\ [][Next]_promised
=============================================================================
