---------------------------- MODULE MCDatabase -----------------------------
(* Databases of up to two snippets for TLC, with names and words that look *)
(* like the punctuation of the file.                                       *)
EXTENDS WrittenDatabases

NumbersMC == [t \in {"0", "1"} |-> IF t = "0" THEN 0 ELSE 1]
TokensMC  == Punctuation \cup {"0", "1", "a"}

(* In the order of the characters.                                         *)
RankMC ==
    LET order == <<"(", ")", ",", "0", "1", "Snippet", "[", "]", "a", "exclude">>
    IN  [t \in TokensMC |-> CHOOSE i \in DOMAIN order : order[i] = t]

RecordsMC ==
    [name : {"Snippet", "]", "a"}, spans : {<<<<0, 1>>>>, <<<<0, 0>>, <<1, 1>>>>},
     excludes : {{}, {","}, {"a"}, {"]"}, {"Snippet", "]"}, {"]", "a"}}]
DatabasesMC ==
    {<<r>> : r \in RecordsMC} \cup
    {d \in RecordsMC \X RecordsMC : Rank[d[1].name] < Rank[d[2].name]}
=============================================================================
