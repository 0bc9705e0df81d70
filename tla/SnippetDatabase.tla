-------------------------- MODULE SnippetDatabase --------------------------
(***************************************************************************)
(* Snippet::snippets() of extract/cppextractor.cc with the stream          *)
(* operators of libwm/algorithm.{h,cc}: the tokens of a database file are  *)
(* turned into snippets again.  A token that is not the expected one makes *)
(* an operator return, and the next call goes on behind it; at the end of  *)
(* the file a read leaves its target as it is.                             *)
(***************************************************************************)
EXTENDS Naturals, Sequences

CONSTANTS
    Tokens,    \* what can stand between two blanks
    NumberOf   \* the value of the tokens that are numbers

Punctuation == {"Snippet", "[", "]", "(", ")", ",", "exclude"}

ASSUME TokensAssumption == Punctuation \subseteq Tokens
ASSUME NumberAssumption ==
    /\ DOMAIN NumberOf \subseteq Tokens \ Punctuation
    /\ NumberOf \in [DOMAIN NumberOf -> Nat]

VARIABLES
    file,     \* the tokens of the database file
    at,       \* the next one
    stream,   \* "good", "eof", or "bad" after a number that is none
    rpc,      \* what is read next
    token,    \* the token of operator>>(Snippet)
    name, spans, excludes,  \* the snippet read so far
    pair,     \* the span being read
    found     \* the snippets read

snippet    == <<token, name, spans, excludes, pair>>
readerVars == <<file, at, stream, rpc, snippet, found>>

Spans == Nat \X Nat
FoundSnippet ==
    [name : Tokens \cup {""}, spans : Seq(Spans), excludes : SUBSET Tokens]
Positions ==
    {"opening", "loop", "Snippet", "[", "name", "spans", "pair", "first", ",",
     "second", ")", "more", "exclude", "set", "members", "]", "done"}

(* The state in which snippets() is called.                                *)
Start ==
    /\ at = 1 /\ stream = "good" /\ rpc = "opening"
    /\ token = "" /\ name = "" /\ spans = <<>> /\ excludes = {} /\ pair = <<0, 0>>
    /\ found = <<>>

-----------------------------------------------------------------------------
(* in >> token                                                             *)
HasToken     == stream = "good" /\ at <= Len(file)
NextIs(word) == HasToken /\ file[at] = word
(* Goes on behind the end of the file.                                     *)
Advance_Beyond ==
    /\ at' = at + 1
    /\ stream' = IF stream = "good" /\ ~HasToken THEN "eof" ELSE stream
    /\ UNCHANGED file

Advance ==
    /\ at' = IF HasToken THEN at + 1 ELSE at
    /\ stream' = IF stream = "good" /\ ~HasToken THEN "eof" ELSE stream
    /\ UNCHANGED file

(* in >> number: what is no number stays in the stream and breaks it.      *)
IsNumber   == HasToken /\ file[at] \in DOMAIN NumberOf
NumberRead == IF IsNumber THEN NumberOf[file[at]] ELSE 0
AdvanceNumber ==
    IF HasToken /\ ~IsNumber THEN stream' = "bad" /\ UNCHANGED <<file, at>> ELSE Advance

(* The file is looked at only if its first line speaks of a snippet.       *)
OpenDatabase ==
    /\ rpc = "opening"
    /\ \/ rpc' = "loop" /\ (file # <<>> => file[1] = "Snippet")
       \/ rpc' = "done"
    /\ UNCHANGED <<file, at, stream, snippet, found>>

(* Waits for a stream that is broken, not for its end.                     *)
Loop_UntilBad ==
    /\ rpc = "loop"
    /\ rpc' = IF stream = "bad" THEN "done" ELSE "Snippet"
    /\ token' = "" /\ spans' = <<>> /\ excludes' = {}
    /\ UNCHANGED <<file, at, stream, name, pair, found>>

Loop ==
    /\ rpc = "loop"
    /\ rpc' = IF stream = "eof" THEN "done" ELSE "Snippet"
    /\ token' = "" /\ spans' = <<>> /\ excludes' = {}
    /\ UNCHANGED <<file, at, stream, name, pair, found>>

(* One word of operator>>(Snippet), whose token keeps its value at the end *)
(* of the file.                                                            *)
Expect(word, next) ==
    /\ rpc = word
    /\ Advance
    /\ token' = IF HasToken THEN file[at] ELSE token
    /\ rpc' = IF token' = word THEN next ELSE "loop"
    /\ UNCHANGED <<name, spans, excludes, pair, found>>

(* Takes the token over before the next one is read.                       *)
ReadName_Early ==
    /\ rpc = "name"
    /\ Advance
    /\ token' = (IF HasToken THEN file[at] ELSE token)
    /\ name' = token
    /\ rpc' = "spans"
    /\ UNCHANGED <<spans, excludes, pair, found>>

(* token is at least the bracket before the name, so it is never empty.    *)
ReadName ==
    /\ rpc = "name"
    /\ Advance
    /\ token' = (IF HasToken THEN file[at] ELSE token)
    /\ name' = token'
    /\ rpc' = "spans"
    /\ UNCHANGED <<spans, excludes, pair, found>>

(* Reads items without a look at the bracket before them.                  *)
EnterList_Always(list, next) ==
    /\ rpc = list /\ rpc' = next
    /\ Advance
    /\ UNCHANGED <<snippet, found>>

(* operator>>(vector) and operator>>(set) have tokens of their own.        *)
EnterList(list, next) ==
    /\ rpc = list
    /\ Advance
    /\ rpc' = IF NextIs("[") THEN next ELSE IF list = "spans" THEN "loop" ELSE "]"
    /\ UNCHANGED <<snippet, found>>

(* operator>>(pair); what it cannot read is pushed as <<0, 0>>.  What is   *)
(* pushed when the stream is at its end is left out: the loop goes on.     *)
PairFails ==
    /\ spans' = IF HasToken THEN Append(spans, <<0, 0>>) ELSE spans
    /\ rpc' = "more"

PairToken(position, word, next) ==
    /\ rpc = position
    /\ Advance
    /\ IF NextIs(word) THEN rpc' = next /\ UNCHANGED spans ELSE PairFails
    /\ UNCHANGED <<token, name, excludes, pair, found>>

ReadNumber(position, value, next) ==
    /\ rpc = position /\ rpc' = next
    /\ AdvanceNumber
    /\ pair' = value
    /\ UNCHANGED <<token, name, spans, excludes, found>>

ClosePair ==
    /\ rpc = ")"
    /\ Advance
    /\ IF NextIs(")") THEN rpc' = "more" /\ spans' = Append(spans, pair) ELSE PairFails
    /\ UNCHANGED <<token, name, excludes, pair, found>>

(* Any token but a bracket leads to the next span.                         *)
NextSpan ==
    /\ rpc = "more"
    /\ Advance
    /\ rpc' = IF NextIs("]") THEN "exclude" ELSE "pair"
    /\ UNCHANGED <<snippet, found>>

(* Takes the separators for members.                                       *)
ReadMember_Separators ==
    /\ rpc = "members"
    /\ Advance
    /\ IF NextIs("]") THEN rpc' = "]" /\ UNCHANGED excludes
       ELSE /\ excludes' = IF HasToken THEN excludes \cup {file[at]} ELSE excludes
            /\ UNCHANGED rpc
    /\ UNCHANGED <<token, name, spans, pair, found>>

(* The set of words ends at the first bracket, even if that is a member;   *)
(* without one it is waited for for ever.                                  *)
ReadMember ==
    /\ rpc = "members"
    /\ Advance
    /\ IF NextIs("]") THEN rpc' = "]" /\ UNCHANGED excludes
       ELSE /\ excludes' = IF HasToken THEN excludes \cup ({file[at]} \ {","}) ELSE excludes
            /\ UNCHANGED rpc
    /\ UNCHANGED <<token, name, spans, pair, found>>

(* The snippet is taken over only if it is read to its end.                *)
CloseSnippet ==
    /\ rpc = "]" /\ rpc' = "loop"
    /\ Advance
    /\ token' = IF HasToken THEN file[at] ELSE token
    /\ found' = IF token' = "]"
                THEN Append(found, [name |-> name, spans |-> spans, excludes |-> excludes])
                ELSE found
    /\ UNCHANGED <<name, spans, excludes, pair>>

Returned == rpc = "done" /\ UNCHANGED readerVars

ReaderNext ==
    \/ OpenDatabase \/ Loop
    \/ Expect("Snippet", "[") \/ Expect("[", "name") \/ ReadName
    \/ EnterList("spans", "pair")
    \/ PairToken("pair", "(", "first") \/ ReadNumber("first", <<NumberRead, 0>>, ",")
    \/ PairToken(",", ",", "second")
    \/ ReadNumber("second", <<pair[1], NumberRead>>, ")")
    \/ ClosePair \/ NextSpan
    \/ Expect("exclude", "set") \/ EnterList("set", "members") \/ ReadMember
    \/ CloseSnippet \/ Returned

(* Any file at all.                                                        *)
ReaderSpec == file \in Seq(Tokens) /\ Start /\ [][ReaderNext]_readerVars

-----------------------------------------------------------------------------
ReaderTypeOK ==
    /\ file \in Seq(Tokens) /\ at \in 1 .. Len(file) + 1
    /\ stream \in {"good", "eof", "bad"}
    /\ rpc \in Positions
    /\ token \in Tokens \cup {""} /\ name \in Tokens \cup {""}
    /\ spans \in Seq(Spans) /\ excludes \subseteq Tokens /\ pair \in Spans
    /\ found \in Seq(FoundSnippet)

(* The record that begins at k speaks of a snippet n with a list of spans. *)
RecordAt(k, n) ==
    /\ k + 3 < at
    /\ file[k] = "Snippet" /\ file[k + 1] = "[" /\ file[k + 2] = n /\ file[k + 3] = "["

(* Every snippet that is read has a span and stands in the file, whatever  *)
(* has been lost before and at whatever token reading went on: operator>>  *)
(* (cppextractor.cc:425-471) accepts nothing that is left from an earlier  *)
(* read when the file ends.                                                *)
FoundInTheFile ==
    \A i \in DOMAIN found :
        /\ found[i].spans # <<>>
        /\ \E k \in DOMAIN file : RecordAt(k, found[i].name)
=============================================================================
