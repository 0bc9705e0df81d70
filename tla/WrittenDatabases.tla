------------------------- MODULE WrittenDatabases --------------------------
(***************************************************************************)
(* The database as generate() writes it, snippet by snippet, and what is   *)
(* left of it when snippets() reads it again.  The writer flushes after    *)
(* each snippet and when its buffer is full, so a run that is killed or a  *)
(* disk that is full leaves the tokens up to any place.                    *)
(***************************************************************************)
EXTENDS SnippetDatabase, Brackets, SequencesExt

CONSTANTS
    Rank,      \* the order of the words in std::map and std::set
    Databases  \* the snippets of a file, as sequences

VARIABLES
    db,   \* the snippets to be written
    cut   \* how many tokens reach the file

ASSUME RankAssumption ==
    /\ Rank \in [Tokens -> Nat \ {0}]
    /\ \A s, t \in Tokens : Rank[s] = Rank[t] => s = t
(* A snippet that is written has a name, a span and finitely many excludes, *)
(* and each number can be written.                                         *)
WrittenSnippet ==
    {r \in FoundSnippet :
       /\ r.name \in Tokens /\ r.spans # <<>> /\ IsFiniteSet(r.excludes)
       /\ \A j \in DOMAIN r.spans : \A k \in {1, 2} :
            \E t \in DOMAIN NumberOf : NumberOf[t] = r.spans[j][k]}
ASSUME DatabasesAssumption ==
    \A d \in Databases :
        /\ d \in Seq(FoundSnippet) /\ \A i \in DOMAIN d : d[i] \in WrittenSnippet
        /\ \A i, j \in DOMAIN d : i < j => Rank[d[i].name] < Rank[d[j].name]

Numeral(n) == CHOOSE t \in DOMAIN NumberOf : NumberOf[t] = n

(* operator<< of a container: the first item has no separator before it.   *)
Listed(items) ==
    <<"[">> \o FlattenSeq([i \in DOMAIN items |-> IF i = 1 THEN items[i] ELSE <<",">> \o items[i]])
            \o <<"]">>

SpanTokens(s) == <<"(", Numeral(s[1]), ",", Numeral(s[2]), ")">>
InOrder(words) ==
    LET ranks == {Rank[w] : w \in words}
    IN  [k \in 1 .. Cardinality(ranks) |-> CHOOSE w \in words : Place(Rank[w], ranks) = k]

RecordTokens(r) ==
    <<"Snippet", "[", r.name>>
      \o Listed([i \in DOMAIN r.spans |-> SpanTokens(r.spans[i])]) \o <<"exclude">>
      \o Listed([i \in DOMAIN InOrder(r.excludes) |-> <<InOrder(r.excludes)[i]>>]) \o <<"]">>

FileOf(d) == FlattenSeq([i \in DOMAIN d |-> RecordTokens(d[i])])

WInit ==
    /\ db \in Databases
    /\ LET all == FileOf(db)
       IN  cut \in 0 .. Len(all) /\ file = SubSeq(all, 1, cut)
    /\ Start

WNext == ReaderNext /\ UNCHANGED <<db, cut>>

allVars == <<readerVars, db, cut>>
WSpec     == WInit /\ [][WNext]_allVars
(* snippets() is a function of one thread that is not interrupted.         *)
WFairSpec == WSpec /\ WF_allVars(WNext)

-----------------------------------------------------------------------------
RecordBefore(i) == Len(FileOf(SubSeq(db, 1, i - 1)))

(* A word that is a bracket ends the set: no member may come after it, and *)
(* the last bracket of the record is not needed any more.                  *)
Readable(r) == "]" \in r.excludes => \A x \in r.excludes : Rank[x] <= Rank["]"]
Needed(r)   == IF "]" \in r.excludes THEN Len(RecordTokens(r)) - 1 ELSE Len(RecordTokens(r))
ReadBack(r) == [r EXCEPT !.excludes = @ \ {"]", ","}]

(* The readable records that have reached the file.                        *)
Arrived == {i \in DOMAIN db : Readable(db[i]) /\ RecordBefore(i) + Needed(db[i]) <= cut}

(* A database is read back as it was written, snippet by snippet and in    *)
(* order, wherever it has been cut off and whatever the snippets and the   *)
(* words they exclude are called; what is lost is said by Readable and     *)
(* ReadBack (cppextractor.cc:416-471, algorithm.cc:26-42).                 *)
DatabaseIsReadBack ==
    LET arrived == Arrived
    IN  /\ Len(found) <= Cardinality(arrived)
        /\ \A i \in arrived :
             Place(i, arrived) <= Len(found) => found[Place(i, arrived)] = ReadBack(db[i])
        /\ rpc = "done" => Len(found) = Cardinality(arrived) \/ at = 1

(* The file ends within a list of spans or of words to exclude.            *)
CutInList ==
    \E i \in DOMAIN db :
        LET r     == RecordTokens(db[i])
            start == RecordBefore(i)
            close == start + 4 + Len(Listed([x \in DOMAIN db[i].spans |-> SpanTokens(db[i].spans[x])])) - 1
        IN  \/ cut \in start + 4 .. close - 1
            \/ cut \in close + 2 .. start + Len(r) - 2

(* How far the reading is from its end: the tokens that are left, and      *)
(* behind the last one the operators that have still to fail.  A list does *)
(* not fail there.                                                         *)
InList == rpc \in {"pair", "first", ",", "second", ")", "more", "members"}
LastSteps ==
    [p \in Positions |->
       CASE p = "done" -> 0
         [] p = "loop" -> 1
         [] p \in {"spans", "]"} -> 2
         [] p \in {"name", "set"} -> 3
         [] p \in {"[", "exclude"} -> 4
         [] OTHER -> 5]
Left ==
    IF stream = "eof" THEN LastSteps[rpc]
    ELSE 5 * (Len(file) + 2 - at)
           + (CASE rpc = "opening" -> 2 [] rpc = "loop" -> 1 [] OTHER -> 0)

(* Each step of the reading of a file that does not end within a list      *)
(* takes a token or, at the end of the file, leaves one of the operators:  *)
(* none of them waits there for a token (cppextractor.cc:416-471).         *)
ReadingComesCloser == [][~CutInList => Left' < Left]_allVars

(* Reading ends on each file that does not end within a list; in a list it *)
(* goes on for ever (algorithm.h:83, algorithm.cc:35).                     *)
ReadingEnds == ~CutInList => <>(rpc = "done")
=============================================================================
