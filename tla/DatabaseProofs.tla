-------------------------- MODULE DatabaseProofs ---------------------------
(***************************************************************************)
(* The database reader on any file of tokens: its types, and that it finds *)
(* nothing that does not stand in the file.  Then the files that are       *)
(* written: what they hold, token by token, how the reader goes through a  *)
(* record, and that it finds the readable snippets that have arrived.      *)
(***************************************************************************)
EXTENDS WrittenDatabases, CountingProofs

Inside == {"pair", "first", ",", "second", ")", "more", "exclude", "set", "members", "]"}

(* What has been read when the reader is at one of its positions.          *)
Behind ==
    /\ rpc = "Snippet" => token = ""
    /\ rpc = "[" => token = "Snippet" /\ at >= 2 /\ file[at - 1] = "Snippet"
    /\ rpc = "name" => /\ token = "[" /\ at >= 3
                       /\ file[at - 2] = "Snippet" /\ file[at - 1] = "["
    /\ rpc = "spans" /\ stream = "good" =>
         at >= 4 /\ file[at - 3] = "Snippet" /\ file[at - 2] = "[" /\ file[at - 1] = name
    /\ rpc \in Inside => \E k \in DOMAIN file : RecordAt(k, name)
    /\ rpc = "more" /\ stream = "good" => spans # <<>>
    /\ rpc \in {"exclude", "set", "members", "]"} => spans # <<>>

RInv == ReaderTypeOK /\ Behind /\ FoundInTheFile

-----------------------------------------------------------------------------
LEMMA FileType ==
  ASSUME ReaderTypeOK
  PROVE  /\ file \in Seq(Tokens) /\ Len(file) \in Nat /\ DOMAIN file = 1 .. Len(file)
         /\ at \in Nat /\ 1 <= at /\ at <= Len(file) + 1
         /\ stream \in {"good", "eof", "bad"}
<1>1. /\ file \in Seq(Tokens) /\ at \in 1 .. Len(file) + 1
      /\ stream \in {"good", "eof", "bad"}
  BY DEF ReaderTypeOK
<1>2. Len(file) \in Nat /\ DOMAIN file = 1 .. Len(file)
  BY <1>1, LenProperties
<1> QED BY <1>1, <1>2

LEMMA AdvanceType ==
  ASSUME ReaderTypeOK, Advance
  PROVE  /\ file' = file /\ at' \in 1 .. Len(file) + 1 /\ at <= at' /\ at' \in Nat
         /\ stream' \in {"good", "eof", "bad"}
         /\ HasToken => at' = at + 1 /\ file[at] \in Tokens /\ at \in DOMAIN file
         /\ ~HasToken => at' = at /\ stream' # "good"
<1>1. CASE HasToken
  <2>1. at' = at + 1 /\ file' = file /\ stream' = stream /\ at <= Len(file)
    BY <1>1 DEF Advance, HasToken
  <2>2. at \in 1 .. Len(file)
    BY <2>1, FileType
  <2> QED BY <1>1, <2>1, <2>2, FileType, ElementOfSeq
<1>2. CASE ~HasToken
  <2>1. at' = at /\ file' = file
        /\ stream' = IF stream = "good" THEN "eof" ELSE stream
    BY <1>2 DEF Advance
  <2> QED BY <1>2, <2>1, FileType
<1> QED BY <1>1, <1>2

LEMMA NumberType ==
  ASSUME ReaderTypeOK, AdvanceNumber
  PROVE  /\ file' = file /\ at' \in 1 .. Len(file) + 1 /\ at <= at' /\ at' \in Nat
         /\ stream' \in {"good", "eof", "bad"}
         /\ NumberRead \in Nat
<1>1. NumberRead \in Nat
  BY NumberAssumption DEF NumberRead, IsNumber
<1>2. CASE Advance
  BY <1>1, <1>2, AdvanceType
<1>3. CASE ~Advance
  <2>1. stream' = "bad" /\ file' = file /\ at' = at
    BY <1>3 DEF AdvanceNumber
  <2> QED BY <1>1, <2>1, FileType
<1> QED BY <1>2, <1>3

(* What stands in the file before the reader goes on standing there.       *)
LEMMA RecordsStay ==
  ASSUME ReaderTypeOK, file' = file, at' \in Nat, at <= at'
  PROVE  \A n : \A k \in DOMAIN file : RecordAt(k, n) => RecordAt(k, n)'
<1>1. at \in Nat /\ DOMAIN file \subseteq Nat
  BY FileType
<1> QED BY <1>1 DEF RecordAt

LEMMA FoundStays ==
  ASSUME ReaderTypeOK, FoundInTheFile, file' = file, at' \in Nat, at <= at', UNCHANGED found
  PROVE  FoundInTheFile'
  BY RecordsStay DEF FoundInTheFile

LEMMA InsideStays ==
  ASSUME ReaderTypeOK, Behind, file' = file, at' \in Nat, at <= at', name' = name, rpc \in Inside
  PROVE  \E k \in DOMAIN file' : RecordAt(k, name)'
  BY RecordsStay DEF Behind

LEMMA PushedSpans ==
  ASSUME ReaderTypeOK, NEW p \in Spans
  PROVE  Append(spans, p) \in Seq(Spans) /\ Append(spans, p) # <<>>
<1>1. spans \in Seq(Spans)
  BY DEF ReaderTypeOK
<1>2. Append(spans, p) \in Seq(Spans) /\ Len(Append(spans, p)) = Len(spans) + 1 /\ Len(spans) \in Nat
  BY <1>1
<1>3. Len(Append(spans, p)) # 0
  BY <1>2
<1> QED BY <1>2, <1>3

LEMMA SpanType == \A m, n \in Nat : <<m, n>> \in Spans
  BY DEF Spans

LEMMA RInvInit == file \in Seq(Tokens) /\ Start => RInv
<1> SUFFICES ASSUME file \in Seq(Tokens), Start PROVE RInv
  OBVIOUS
<1>1. /\ Len(file) \in Nat /\ found = <<>> /\ spans = <<>> /\ rpc = "opening" /\ at = 1
      /\ stream = "good" /\ token = "" /\ name = "" /\ excludes = {} /\ pair = <<0, 0>>
  BY LenProperties DEF Start
<1>2. <<>> \in Seq(FoundSnippet) /\ <<>> \in Seq(Spans) /\ DOMAIN <<>> = {}
  BY EmptySeq
<1>3. 1 \in 1 .. Len(file) + 1
  <2>1. Len(file) \in Nat
    BY <1>1
  <2> QED BY <2>1
<1>4. ReaderTypeOK
  BY <1>1, <1>2, <1>3, SpanType DEF ReaderTypeOK, Positions
<1> QED BY <1>1, <1>2, <1>4 DEF RInv, Behind, Inside, FoundInTheFile

(* The words of operator>>(Snippet), the names and the lists.              *)
LEMMA ExpectStep ==
  ASSUME RInv, NEW word, NEW next, Expect(word, next),
         \/ word = "Snippet" /\ next = "["
         \/ word = "[" /\ next = "name"
         \/ word = "exclude" /\ next = "set"
  PROVE  RInv'
<1>1. /\ ReaderTypeOK /\ Behind /\ FoundInTheFile
      /\ rpc = word /\ Advance
      /\ token' = IF HasToken THEN file[at] ELSE token
      /\ rpc' = IF token' = word THEN next ELSE "loop"
      /\ UNCHANGED <<name, spans, excludes, pair, found>>
  BY DEF Expect, RInv
<1>2. token' \in Tokens \cup {""} /\ rpc' \in {next, "loop"}
  BY <1>1, AdvanceType DEF ReaderTypeOK
<1>3. ReaderTypeOK'
  BY <1>1, <1>2, AdvanceType DEF ReaderTypeOK, Positions
<1>4. FoundInTheFile'
  BY <1>1, AdvanceType, FoundStays
<1>5. Behind'
  <2>1. CASE rpc' = "loop"
    BY <2>1 DEF Behind, Inside
  <2>2. CASE rpc' = "[" /\ word = "Snippet"
    <3>1. HasToken /\ token' = "Snippet" /\ file[at] = "Snippet"
      BY <1>1, <2>2 DEF Behind
    <3>2. at' = at + 1 /\ file' = file /\ at' - 1 = at /\ at' >= 2
      BY <1>1, <3>1, AdvanceType, FileType
    <3> QED BY <2>2, <3>1, <3>2 DEF Behind, Inside
  <2>3. CASE rpc' = "name" /\ word = "["
    <3>1. HasToken /\ token' = "[" /\ file[at] = "[" /\ at >= 2 /\ file[at - 1] = "Snippet"
      BY <1>1, <2>3 DEF Behind
    <3>2. at' = at + 1 /\ file' = file /\ at' - 1 = at /\ at' - 2 = at - 1 /\ at' >= 3
      BY <1>1, <3>1, AdvanceType, FileType
    <3> QED BY <2>3, <3>1, <3>2 DEF Behind, Inside
  <2>4. CASE rpc' = "set" /\ word = "exclude"
    <3>1. \E k \in DOMAIN file' : RecordAt(k, name)'
      BY <1>1, <2>4, AdvanceType, InsideStays DEF Inside
    <3>2. spans' # <<>>
      BY <1>1, <2>4 DEF Behind
    <3> QED BY <2>4, <3>1, <3>2 DEF Behind, Inside
  <2> QED BY <1>2, <2>1, <2>2, <2>3, <2>4
<1> QED BY <1>3, <1>4, <1>5 DEF RInv

LEMMA NameStep == RInv /\ ReadName => RInv'
<1> SUFFICES ASSUME RInv, ReadName PROVE RInv'
  OBVIOUS
<1>1. /\ ReaderTypeOK /\ Behind /\ FoundInTheFile
      /\ rpc = "name" /\ rpc' = "spans" /\ Advance
      /\ token' = IF HasToken THEN file[at] ELSE token
      /\ name' = token' /\ UNCHANGED <<spans, excludes, pair, found>>
  BY DEF ReadName, RInv
<1>2. token' \in Tokens \cup {""}
  BY <1>1, AdvanceType DEF ReaderTypeOK
<1>3. ReaderTypeOK'
  BY <1>1, <1>2, AdvanceType DEF ReaderTypeOK, Positions
<1>4. FoundInTheFile'
  BY <1>1, AdvanceType, FoundStays
<1>5. ASSUME stream' = "good"
      PROVE  (at >= 4 /\ file[at - 3] = "Snippet" /\ file[at - 2] = "[" /\ file[at - 1] = name)'
  <2>1. HasToken /\ name' = file[at] /\ at' = at + 1 /\ file' = file
    BY <1>1, <1>5, AdvanceType
  <2>2. at >= 3 /\ file[at - 2] = "Snippet" /\ file[at - 1] = "["
    BY <1>1 DEF Behind
  <2>3. at' >= 4 /\ at' - 1 = at /\ at' - 2 = at - 1 /\ at' - 3 = at - 2
    BY <1>1, <2>1, <2>2, FileType
  <2> QED BY <2>1, <2>2, <2>3
<1>6. Behind'
  BY <1>1, <1>5 DEF Behind, Inside
<1> QED BY <1>3, <1>4, <1>6 DEF RInv

LEMMA ListStep ==
  ASSUME RInv, EnterList("spans", "pair") \/ EnterList("set", "members")
  PROVE  RInv'
<1>1. /\ ReaderTypeOK /\ Behind /\ FoundInTheFile /\ Advance
      /\ rpc \in {"spans", "set"}
      /\ rpc = "spans" => rpc' \in {"pair", "loop"} /\ (rpc' = "pair" => NextIs("["))
      /\ rpc = "set" => rpc' \in {"members", "]"}
      /\ UNCHANGED <<token, name, spans, excludes, pair, found>>
  BY DEF EnterList, RInv, snippet
<1>2. ReaderTypeOK'
  BY <1>1, AdvanceType DEF ReaderTypeOK, Positions
<1>3. FoundInTheFile'
  BY <1>1, AdvanceType, FoundStays
<1>4. CASE rpc = "spans" /\ rpc' = "pair"
  <2>1. /\ HasToken /\ file[at] = "[" /\ stream = "good"
        /\ at >= 4 /\ file[at - 3] = "Snippet" /\ file[at - 2] = "[" /\ file[at - 1] = name
    BY <1>1, <1>4 DEF NextIs, HasToken, Behind
  <2>2. /\ at - 3 \in DOMAIN file /\ at' = at + 1 /\ file' = file
        /\ at - 3 + 1 = at - 2 /\ at - 3 + 2 = at - 1 /\ at - 3 + 3 = at /\ at - 3 + 3 < at'
    BY <1>1, <2>1, AdvanceType, FileType
  <2>3. name' = name /\ \A k : (at - 3 = k => RecordAt(k, name)')
    BY <1>1, <2>1, <2>2 DEF RecordAt
  <2>4. \E k \in DOMAIN file' : RecordAt(k, name)'
    BY <2>2, <2>3
  <2> QED BY <1>2, <1>3, <1>4, <2>4 DEF RInv, Behind, Inside
<1>5. CASE rpc' = "loop"
  BY <1>2, <1>3, <1>5 DEF RInv, Behind, Inside
<1>6. CASE rpc = "set"
  <2>1. \E k \in DOMAIN file' : RecordAt(k, name)'
    BY <1>1, <1>6, AdvanceType, InsideStays DEF Inside
  <2>2. spans' # <<>>
    BY <1>1, <1>6 DEF Behind
  <2> QED BY <1>1, <1>2, <1>3, <1>6, <2>1, <2>2 DEF RInv, Behind, Inside
<1> QED BY <1>1, <1>4, <1>5, <1>6

(* The tokens of the spans.                                                *)
LEMMA SpanStep ==
  ASSUME RInv, \/ PairToken("pair", "(", "first") \/ PairToken(",", ",", "second")
               \/ ClosePair \/ NextSpan
  PROVE  RInv'
<1>1. /\ ReaderTypeOK /\ Behind /\ FoundInTheFile /\ Advance
      /\ rpc \in {"pair", ",", ")", "more"}
      /\ UNCHANGED <<token, name, excludes, pair, found>>
      /\ rpc' \in {"first", "second", "more", "pair", "exclude"}
      /\ spans' = spans \/ \E p \in Spans : spans' = Append(spans, p)
      /\ rpc' = "exclude" => rpc = "more" /\ HasToken /\ spans' = spans
      /\ rpc' = "more" /\ HasToken => \E p \in Spans : spans' = Append(spans, p)
  BY SpanType DEF PairToken, ClosePair, NextSpan, PairFails, RInv, snippet, NextIs, ReaderTypeOK
<1>2. spans' \in Seq(Spans)
  BY <1>1, PushedSpans DEF ReaderTypeOK
<1>3. ReaderTypeOK'
  BY <1>1, <1>2, AdvanceType DEF ReaderTypeOK, Positions
<1>4. FoundInTheFile'
  BY <1>1, AdvanceType, FoundStays
<1>5. \E k \in DOMAIN file' : RecordAt(k, name)'
  BY <1>1, AdvanceType, InsideStays DEF Inside
<1>6. rpc' = "more" /\ stream' = "good" => spans' # <<>>
  BY <1>1, AdvanceType, PushedSpans
<1>7. rpc' = "exclude" => spans' # <<>>
  BY <1>1 DEF Behind, HasToken
<1>8. Behind'
  BY <1>1, <1>5, <1>6, <1>7 DEF Behind, Inside
<1> QED BY <1>3, <1>4, <1>8 DEF RInv

LEMMA NumberStep ==
  ASSUME RInv, \/ ReadNumber("first", <<NumberRead, 0>>, ",")
               \/ ReadNumber("second", <<pair[1], NumberRead>>, ")")
  PROVE  RInv'
<1>1. /\ ReaderTypeOK /\ Behind /\ FoundInTheFile /\ AdvanceNumber
      /\ rpc \in {"first", "second"} /\ rpc' \in {",", ")"}
      /\ pair' = <<NumberRead, 0>> \/ pair' = <<pair[1], NumberRead>>
      /\ UNCHANGED <<token, name, spans, excludes, found>>
  BY DEF ReadNumber, RInv
<1>2. pair' \in Spans
  <2>1. NumberRead \in Nat
    BY <1>1, NumberType
  <2>2. pair[1] \in Nat
    BY <1>1 DEF ReaderTypeOK, Spans
  <2> QED BY <1>1, <2>1, <2>2, SpanType
<1>3. ReaderTypeOK'
  BY <1>1, <1>2, NumberType DEF ReaderTypeOK, Positions
<1>4. FoundInTheFile'
  BY <1>1, NumberType, FoundStays
<1>5. \E k \in DOMAIN file' : RecordAt(k, name)'
  BY <1>1, NumberType, InsideStays DEF Inside
<1>6. Behind'
  BY <1>1, <1>5 DEF Behind, Inside
<1> QED BY <1>3, <1>4, <1>6 DEF RInv

LEMMA MemberStep == RInv /\ ReadMember => RInv'
<1> SUFFICES ASSUME RInv, ReadMember PROVE RInv'
  OBVIOUS
<1>1. /\ ReaderTypeOK /\ Behind /\ FoundInTheFile /\ Advance
      /\ rpc = "members" /\ rpc' \in {"members", "]"}
      /\ excludes' = excludes \/ (HasToken /\ excludes' = excludes \cup ({file[at]} \ {","}))
      /\ UNCHANGED <<token, name, spans, pair, found>>
  BY DEF ReadMember, RInv
<1>2. excludes' \subseteq Tokens
  <2>1. excludes \subseteq Tokens /\ (HasToken => file[at] \in Tokens)
    BY <1>1, AdvanceType DEF ReaderTypeOK
  <2> QED BY <1>1, <2>1
<1>3. ReaderTypeOK'
  BY <1>1, <1>2, AdvanceType DEF ReaderTypeOK, Positions
<1>4. FoundInTheFile'
  BY <1>1, AdvanceType, FoundStays
<1>5. (\E k \in DOMAIN file' : RecordAt(k, name)') /\ spans' # <<>>
  BY <1>1, AdvanceType, InsideStays DEF Inside, Behind
<1>6. Behind'
  BY <1>1, <1>5 DEF Behind, Inside
<1> QED BY <1>3, <1>4, <1>6 DEF RInv

(* A snippet is found with the name that stands in the file.               *)
LEMMA CloseStep == RInv /\ CloseSnippet => RInv'
<1> SUFFICES ASSUME RInv, CloseSnippet PROVE RInv'
  OBVIOUS
<1> DEFINE new == [name |-> name, spans |-> spans, excludes |-> excludes]
<1>1. /\ ReaderTypeOK /\ Behind /\ FoundInTheFile /\ Advance
      /\ rpc = "]" /\ rpc' = "loop"
      /\ token' = IF HasToken THEN file[at] ELSE token
      /\ found' = found \/ found' = Append(found, new)
      /\ UNCHANGED <<name, spans, excludes, pair>>
  BY DEF CloseSnippet, RInv
<1>2. new \in FoundSnippet /\ new.name = name /\ new.spans = spans /\ found \in Seq(FoundSnippet)
  BY <1>1 DEF ReaderTypeOK, FoundSnippet
<1>3. (\E k \in DOMAIN file' : RecordAt(k, name)') /\ spans # <<>>
  BY <1>1, AdvanceType, InsideStays DEF Inside, Behind
<1>4. token' \in Tokens \cup {""}
  BY <1>1, AdvanceType DEF ReaderTypeOK
<1>5. Behind'
  BY <1>1 DEF Behind, Inside
<1> HIDE DEF new
<1>6. CASE found' = found
  <2>1. ReaderTypeOK'
    BY <1>1, <1>4, <1>6, AdvanceType DEF ReaderTypeOK, Positions
  <2>2. FoundInTheFile'
    BY <1>1, <1>6, AdvanceType, FoundStays
  <2> QED BY <1>5, <2>1, <2>2 DEF RInv
<1>7. CASE found' = Append(found, new)
  <2>1. /\ found' \in Seq(FoundSnippet) /\ Len(found') = Len(found) + 1 /\ Len(found) \in Nat
        /\ DOMAIN found = 1 .. Len(found) /\ DOMAIN found' = 1 .. Len(found) + 1
        /\ \A i \in 1 .. Len(found) : found'[i] = found[i]
        /\ found'[Len(found) + 1] = new
    BY <1>2, <1>7
  <2>2. ReaderTypeOK'
    BY <1>1, <1>4, <2>1, AdvanceType DEF ReaderTypeOK, Positions
  <2>3. ASSUME NEW i \in DOMAIN found'
        PROVE  found'[i].spans # <<>> /\ \E k \in DOMAIN file' : RecordAt(k, found[i].name)'
    <3>1. CASE i \in 1 .. Len(found)
      <4>1. i \in DOMAIN found /\ found'[i] = found[i]
        BY <2>1, <3>1
      <4>2. found[i].spans # <<>> /\ \E k \in DOMAIN file : RecordAt(k, found[i].name)
        BY <1>1, <4>1 DEF FoundInTheFile
      <4>3. \E k \in DOMAIN file : RecordAt(k, found[i].name)'
        BY <1>1, <4>1, <4>2, AdvanceType, RecordsStay DEF RecordAt
      <4> QED BY <1>1, <4>1, <4>2, <4>3, AdvanceType
    <3>2. CASE i = Len(found) + 1
      <4>1. found'[i].name = name' /\ found'[i].spans # <<>>
        BY <1>1, <1>2, <1>3, <2>1, <3>2
      <4> QED BY <1>3, <4>1 DEF RecordAt
    <3> QED BY <2>1, <3>1, <3>2
  <2> QED BY <1>5, <2>2, <2>3 DEF RInv, FoundInTheFile
<1> QED BY <1>1, <1>6, <1>7

LEMMA RInvStep == RInv /\ [ReaderNext]_readerVars => RInv'
<1> SUFFICES ASSUME RInv, [ReaderNext]_readerVars PROVE RInv'
  OBVIOUS
<1>1. CASE OpenDatabase \/ Loop
  <2>1. /\ ReaderTypeOK /\ Behind /\ FoundInTheFile
        /\ UNCHANGED <<file, at, stream, name, pair, found>>
        /\ rpc' \in {"loop", "done", "Snippet"} /\ (rpc' = "Snippet" => token' = "")
        /\ token' \in {"", token} /\ spans' \in {<<>>, spans} /\ excludes' \in {{}, excludes}
    BY <1>1 DEF OpenDatabase, Loop, RInv, snippet
  <2>2. <<>> \in Seq(Spans)
    BY EmptySeq
  <2>3. ReaderTypeOK'
    BY <2>1, <2>2 DEF ReaderTypeOK, Positions
  <2>4. FoundInTheFile'
    <3>1. ReaderTypeOK /\ at' = at /\ file' = file /\ found' = found
      BY <2>1
    <3>2. at \in Nat /\ at <= at
      BY <3>1, FileType
    <3> QED BY <2>1, <3>1, <3>2, FoundStays
  <2>5. Behind'
    BY <2>1 DEF Behind, Inside
  <2> QED BY <2>3, <2>4, <2>5 DEF RInv
<1>2. CASE Returned \/ UNCHANGED readerVars
  <2>1. UNCHANGED <<file, at, stream, rpc, token, name, spans, excludes, pair, found>>
    BY <1>2 DEF Returned, readerVars, snippet
  <2> QED BY <2>1 DEF RInv, ReaderTypeOK, Behind, FoundInTheFile, RecordAt
<1> QED BY <1>1, <1>2, ExpectStep, NameStep, ListStep, SpanStep, NumberStep, MemberStep, CloseStep
        DEF ReaderNext

LEMMA RInvAlways == ReaderSpec => []RInv
  BY RInvInit, RInvStep, PTL DEF ReaderSpec

(* The reader's variables have their types, for every file.                *)
THEOREM ReaderTypeCorrect == ReaderSpec => []ReaderTypeOK
<1>1. RInv => ReaderTypeOK
  BY DEF RInv
<1> QED BY <1>1, RInvAlways, PTL

(* No file, however damaged, makes the reader report a snippet without a   *)
(* span or with a name that does not stand in the file.                    *)
THEOREM FoundAlwaysInTheFile == ReaderSpec => []FoundInTheFile
<1>1. RInv => FoundInTheFile
  BY DEF RInv
<1> QED BY <1>1, RInvAlways, PTL
-----------------------------------------------------------------------------
LEMMA Single ==
  ASSUME NEW T, NEW x \in T
  PROVE  <<x>> \in Seq(T) /\ Len(<<x>>) = 1 /\ (<<x>>)[1] = x
  OBVIOUS

LEMMA Prefixed ==
  ASSUME NEW T, NEW x \in T, NEW b \in Seq(T), NEW s, s = <<x>> \o b
  PROVE  /\ s \in Seq(T) /\ Len(s) = 1 + Len(b) /\ s[1] = x
         /\ \A k \in 1 .. Len(b) : s[1 + k] = b[k]
<1>1. PICK a : a = <<x>>
  OBVIOUS
<1>2. a \in Seq(T) /\ Len(a) = 1 /\ a[1] = x
  BY <1>1, Single
<1>3. /\ a \o b \in Seq(T) /\ Len(a \o b) = Len(a) + Len(b)
      /\ \A k \in 1 .. Len(a) : (a \o b)[k] = a[k]
      /\ \A k \in 1 .. Len(b) : (a \o b)[Len(a) + k] = b[k]
  <2>1. a \in Seq(T) /\ b \in Seq(T)
    BY <1>2
  <2> QED BY ONLY <2>1, Joined
<1> QED BY <1>1, <1>2, <1>3

LEMMA Suffixed ==
  ASSUME NEW T, NEW x \in T, NEW b \in Seq(T), NEW s, s = b \o <<x>>
  PROVE  /\ s \in Seq(T) /\ Len(s) = Len(b) + 1 /\ s[Len(b) + 1] = x
         /\ \A k \in 1 .. Len(b) : s[k] = b[k]
<1>1. PICK a : a = <<x>>
  OBVIOUS
<1>2. a \in Seq(T) /\ Len(a) = 1 /\ a[1] = x
  BY <1>1, Single
<1>3. /\ b \o a \in Seq(T) /\ Len(b \o a) = Len(b) + Len(a)
      /\ \A k \in 1 .. Len(b) : (b \o a)[k] = b[k]
      /\ \A k \in 1 .. Len(a) : (b \o a)[Len(b) + k] = a[k]
  <2>1. a \in Seq(T) /\ b \in Seq(T)
    BY <1>2
  <2> QED BY ONLY <2>1, Joined
<1> QED BY <1>1, <1>2, <1>3

LEMMA SequenceOf ==
  ASSUME NEW T, NEW n \in Nat, NEW s, s = [i \in 1 .. n |-> s[i]], \A i \in 1 .. n : s[i] \in T
  PROVE  s \in Seq(T) /\ Len(s) = n
  OBVIOUS

HasBrackets(T) == {"[", "]", ","} \subseteq T

ListedAs(s, items, M) ==
    LET n == Len(items)
    IN  /\ s[1] = "["
        /\ Len(s) = IF n = 0 THEN 2 ELSE M * n + 1
        /\ n = 0 => s[2] = "]"
        /\ \A j \in 1 .. n : /\ \A k \in 1 .. M - 1 : s[M * (j - 1) + 1 + k] = items[j][k]
                             /\ s[M * j + 1] = IF j < n THEN "," ELSE "]"

(* operator<< of a container whose items have M - 1 tokens each.           *)
LEMMA ListedFacts ==
  ASSUME NEW T, HasBrackets(T), NEW items \in Seq(Seq(T)), NEW M \in Nat, M = 2 \/ M = 6,
         \A j \in 1 .. Len(items) : Len(items[j]) = M - 1
  PROVE  Listed(items) \in Seq(T) /\ ListedAs(Listed(items), items, M)
<1> DEFINE n == Len(items)
           parts == [i \in DOMAIN items |-> IF i = 1 THEN items[i] ELSE <<",">> \o items[i]]
<1>1. n \in Nat /\ DOMAIN items = 1 .. n /\ \A j \in 1 .. n : items[j] \in Seq(T)
  BY LenProperties, ElementOfSeq
<1>2. ASSUME NEW i \in 1 .. n
      PROVE  /\ parts[i] \in Seq(T) /\ Len(parts[i]) = IF i = 1 THEN M - 1 ELSE M
             /\ i = 1 => parts[i] = items[i]
             /\ i # 1 => parts[i][1] = "," /\ \A k \in 1 .. M - 1 : parts[i][1 + k] = items[i][k]
  <2>1. parts[i] = IF i = 1 THEN items[i] ELSE <<",">> \o items[i]
    BY <1>1
  <2>2. items[i] \in Seq(T) /\ Len(items[i]) = M - 1
    BY <1>1, <1>2
  <2>3. PICK c, s : c = "," /\ s = <<c>> \o items[i]
    OBVIOUS
  <2>4. c \in T
    BY <2>3 DEF HasBrackets
  <2>5. /\ s \in Seq(T) /\ Len(s) = 1 + Len(items[i]) /\ s[1] = c
        /\ \A k \in 1 .. Len(items[i]) : s[1 + k] = items[i][k]
    <3>1. s = <<c>> \o items[i]
      BY <2>3
    <3> QED BY ONLY <2>2, <2>4, <3>1, Prefixed
  <2> HIDE DEF parts
  <2>6. 1 + Len(items[i]) = M
    BY <2>2
  <2> QED BY <2>1, <2>2, <2>3, <2>5, <2>6
<1>3. parts \in Seq(Seq(T)) /\ Len(parts) = n
  <2>1. DOMAIN parts = 1 .. n /\ parts = [i \in 1 .. n |-> parts[i]]
    BY <1>1
  <2> HIDE DEF parts
  <2>2. \A i \in 1 .. n : parts[i] \in Seq(T)
    BY <1>2
  <2> QED BY <1>1, <2>1, <2>2
<1> HIDE DEF parts
<1>4. PICK off : /\ PartsEnd(off, parts) /\ Len(FlattenSeq(parts)) = off[n]
                 /\ \A i \in 1 .. n : \A k \in 1 .. Len(parts[i]) :
                      FlattenSeq(parts)[off[i - 1] + k] = parts[i][k]
  <2>1. \E off : /\ PartsEnd(off, parts) /\ Len(FlattenSeq(parts)) = off[Len(parts)]
                /\ \A i \in 1 .. Len(parts) : \A k \in 1 .. Len(parts[i]) :
                     FlattenSeq(parts)[off[i - 1] + k] = parts[i][k]
    BY ONLY <1>3, Flattened
  <2>2. PICK off : /\ PartsEnd(off, parts) /\ Len(FlattenSeq(parts)) = off[Len(parts)]
                   /\ \A i \in 1 .. Len(parts) : \A k \in 1 .. Len(parts[i]) :
                        FlattenSeq(parts)[off[i - 1] + k] = parts[i][k]
    BY <2>1
  <2> HIDE DEF n
  <2>3. /\ PartsEnd(off, parts) /\ Len(FlattenSeq(parts)) = off[n]
        /\ \A i \in 1 .. n : \A k \in 1 .. Len(parts[i]) :
             FlattenSeq(parts)[off[i - 1] + k] = parts[i][k]
    BY <1>3, <2>2
  <2> QED BY ONLY <2>3
<1> DEFINE S == FlattenSeq(parts)
<1>5. S \in Seq(T)
  BY <1>3, Flattened
<1> DEFINE A == {i \in Nat : i \in 1 .. n => off[i] = M * i - 1}
<1>6. \A i \in 1 .. n : off[i] = M * i - 1
  <2>1. 0 \in A
    OBVIOUS
  <2>2. ASSUME NEW i \in Nat, i \in A PROVE i + 1 \in A
    <3> SUFFICES ASSUME i + 1 \in 1 .. n PROVE off[i + 1] = M * (i + 1) - 1
      OBVIOUS
    <3>1. off[i + 1] = off[i] + Len(parts[i + 1])
      <4>1. (i + 1) - 1 = i
        OBVIOUS
      <4> QED BY <1>3, <1>4, <4>1 DEF PartsEnd
    <3>2. CASE i = 0
      <4>1. off[0] = 0
        BY <1>4 DEF PartsEnd
      <4>2. 1 \in 1 .. n
        BY <3>2
      <4>3. Len(parts[1]) = M - 1
        BY <1>2, <4>2
      <4> QED BY <3>1, <3>2, <4>1, <4>3
    <3>3. CASE i # 0
      <4>0. i \in 1 .. n /\ i + 1 # 1
        BY <1>1, <3>3
      <4>1. i \in 1 .. n /\ Len(parts[i + 1]) = M
        BY <1>2, <4>0
      <4>2. off[i] = M * i - 1
        BY <2>2, <4>1
      <4> QED BY <3>1, <4>1, <4>2
    <3> QED BY <3>2, <3>3
  <2>3. \A i \in Nat : i \in A
    <3> HIDE DEF A
    <3> QED BY <2>1, <2>2, AllNumbers
  <2> QED BY <1>1, <2>3
<1>7. Len(S) = (IF n = 0 THEN 0 ELSE M * n - 1) /\ Len(S) \in Nat
  <2>1. n = 0 => off[n] = 0
    BY <1>4 DEF PartsEnd
  <2>2. n # 0 => off[n] = M * n - 1
    BY <1>1, <1>6
  <2> QED BY <1>4, <1>5, <2>1, <2>2, LenProperties
<1>8. ASSUME NEW j \in 1 .. n, NEW k \in 1 .. M - 1
      PROVE  M * (j - 1) + k \in 1 .. Len(S) /\ S[M * (j - 1) + k] = items[j][k]
  <2>1. M * (j - 1) + k \in 1 .. Len(S)
    <3> HIDE DEF S
    <3>1. CASE M = 2
      BY <1>1, <1>7, <3>1
    <3>2. CASE M = 6
      BY <1>1, <1>7, <3>2
    <3> QED BY <3>1, <3>2
  <2>2. CASE j = 1
    <3>1. off[0] = 0 /\ k \in 1 .. Len(parts[1]) /\ parts[1] = items[1]
      BY <1>2, <1>4, <2>2 DEF PartsEnd
    <3>2. S[off[j - 1] + k] = parts[j][k] /\ j - 1 = 0
      BY <1>4, <2>2, <3>1
    <3>3. off[j - 1] + k = M * (j - 1) + k
      BY <2>2, <3>1
    <3> QED BY <2>1, <2>2, <3>1, <3>2, <3>3
  <2>3. CASE j # 1
    <3>0. j - 1 \in 1 .. n
      BY <1>1, <2>3
    <3>1. j - 1 \in 1 .. n /\ Len(parts[j]) = M /\ parts[j][1 + k] = items[j][k]
      BY <1>2, <2>3, <3>0
    <3>2. 1 + k \in 1 .. M
      OBVIOUS
    <3>3. S[off[j - 1] + (1 + k)] = parts[j][1 + k] /\ off[j - 1] = M * (j - 1) - 1
      BY <1>4, <1>6, <3>1, <3>2
    <3>4. off[j - 1] + (1 + k) = M * (j - 1) + k
      BY <3>3
    <3> QED BY <2>1, <3>1, <3>3, <3>4
  <2> QED BY <2>2, <2>3
<1>9. ASSUME NEW j \in 1 .. n, j < n
      PROVE  M * j \in 1 .. Len(S) /\ S[M * j] = ","
  <2>1. M * j \in 1 .. Len(S)
    <3> HIDE DEF S
    <3>1. CASE M = 2
      BY <1>1, <1>7, <1>9, <3>1
    <3>2. CASE M = 6
      BY <1>1, <1>7, <1>9, <3>2
    <3> QED BY <3>1, <3>2
  <2>2. j + 1 \in 1 .. n /\ j + 1 # 1 /\ (j + 1) - 1 = j
    BY <1>1, <1>9
  <2>3. /\ Len(parts[j + 1]) = M
        /\ parts[j + 1][1] = ","
    BY <1>2, <2>2
  <2>a. 1 \in 1 .. Len(parts[j + 1])
    <3>1. Len(parts[j + 1]) = M
      BY <2>3
    <3> QED BY <3>1
  <2>b. S[off[(j + 1) - 1] + 1] = parts[j + 1][1]
    BY <1>4, <2>2, <2>a
  <2>4. S[off[j] + 1] = "," /\ off[j] = M * j - 1
    BY <1>6, <2>2, <2>3, <2>b
  <2>c. off[j] = M * j - 1 /\ n \in Nat
    BY <1>1, <2>4
  <2>5. off[j] + 1 = M * j
    BY <2>c
  <2> QED BY <2>1, <2>4, <2>5
<1> HIDE DEF S
<1>10. PICK open, close : open = "[" /\ close = "]"
  OBVIOUS
<1>11. open \in T /\ close \in T
  BY <1>10 DEF HasBrackets
<1>12. PICK front : front = <<open>> \o S
  OBVIOUS
<1>13. /\ front \in Seq(T) /\ Len(front) = 1 + Len(S) /\ front[1] = open
       /\ \A k \in 1 .. Len(S) : front[1 + k] = S[k]
  BY ONLY <1>5, <1>11, <1>12, Prefixed
<1>14. PICK s : s = Listed(items)
  OBVIOUS
<1>15. s = front \o <<close>>
  BY <1>10, <1>12, <1>14 DEF Listed, S, parts
<1>a. /\ s \in Seq(T) /\ Len(s) = Len(front) + 1 /\ s[Len(front) + 1] = close
      /\ \A k \in 1 .. Len(front) : s[k] = front[k]
  BY ONLY <1>11, <1>13, <1>15, Suffixed
<1>16. /\ s \in Seq(T) /\ Len(s) = Len(S) + 2 /\ s[Len(S) + 2] = close /\ s[1] = open
       /\ \A k \in 1 .. Len(S) : s[1 + k] = S[k]
  <2>1. PICK l : l = Len(S)
    OBVIOUS
  <2>2. l \in Nat /\ Len(front) = 1 + l
    BY <1>7, <1>13, <2>1
  <2>3. /\ (1 + l) + 1 = l + 2 /\ 1 \in 1 .. 1 + l /\ \A k \in 1 .. l : 1 + k \in 1 .. 1 + l
    BY ONLY <2>2
  <2> QED BY <1>13, <1>a, <2>1, <2>2, <2>3
<1>17. ASSUME NEW j \in 1 .. n
       PROVE  /\ \A k \in 1 .. M - 1 : s[M * (j - 1) + 1 + k] = items[j][k]
              /\ s[M * j + 1] = IF j < n THEN "," ELSE "]"
  <2>1. ASSUME NEW k \in 1 .. M - 1 PROVE s[M * (j - 1) + 1 + k] = items[j][k]
    <3>1. M * (j - 1) + k \in 1 .. Len(S) /\ S[M * (j - 1) + k] = items[j][k]
      BY <1>8, <2>1
    <3>2. PICK x : x = M * (j - 1) + k
      OBVIOUS
    <3>3. s[1 + x] = items[j][k]
      BY <1>16, <3>1, <3>2
    <3>4. M * (j - 1) + 1 + k = 1 + x
      BY <1>1, <3>2
    <3> QED BY <3>3, <3>4
  <2>2. CASE j < n
    <3>1. M * j \in 1 .. Len(S) /\ S[M * j] = ","
      BY <1>9, <2>2
    <3>2. PICK x : x = M * j
      OBVIOUS
    <3>3. s[1 + x] = ","
      BY <1>16, <3>1, <3>2
    <3>4. M * j + 1 = 1 + x
      BY <1>1, <3>2
    <3> QED BY <2>1, <2>2, <3>3, <3>4
  <2>3. CASE j = n
    <3>1. Len(S) + 2 = M * j + 1
      BY <1>1, <1>7, <2>3
    <3>2. s[M * j + 1] = "]" /\ ~(j < n)
      BY <1>1, <1>10, <1>16, <2>3, <3>1
    <3> QED BY <2>1, <3>2
  <2>4. j < n \/ j = n
    <3>1. n \in Nat
      BY <1>1
    <3> HIDE DEF n
    <3> QED BY <3>1
  <2> QED BY <2>2, <2>3, <2>4
<1>18. n = 0 => s[2] = "]"
  BY <1>7, <1>10, <1>16
<1>19. Len(s) = IF n = 0 THEN 2 ELSE M * n + 1
  BY <1>1, <1>7, <1>16
<1>20. ListedAs(s, items, M)
  BY <1>10, <1>16, <1>17, <1>18, <1>19 DEF ListedAs
<1> QED BY <1>14, <1>16, <1>20

LEMMA BoundedNumbers ==
  ASSUME NEW S \in SUBSET Nat, IsFiniteSet(S)
  PROVE  \E b \in Nat : \A x \in S : x <= b
<1> DEFINE A == {n \in Nat : \A X \in SUBSET Nat : IsFiniteSet(X) /\ Cardinality(X) = n =>
                   \E b \in Nat : \A x \in X : x <= b}
<1>1. 0 \in A
  <2> SUFFICES ASSUME NEW X \in SUBSET Nat, IsFiniteSet(X), Cardinality(X) = 0
               PROVE  \E b \in Nat : \A x \in X : x <= b
    OBVIOUS
  <2>1. X = {}
    BY FS_EmptySet
  <2> QED BY <2>1
<1>2. ASSUME NEW n \in Nat, n \in A PROVE n + 1 \in A
  <2> SUFFICES ASSUME NEW X \in SUBSET Nat, IsFiniteSet(X), Cardinality(X) = n + 1
               PROVE  \E b \in Nat : \A x \in X : x <= b
    OBVIOUS
  <2>1. X # {}
    <3>1. n + 1 # 0
      OBVIOUS
    <3> QED BY <3>1, FS_EmptySet
  <2>2. PICK y \in X : TRUE
    BY <2>1
  <2>3. IsFiniteSet(X \ {y}) /\ Cardinality(X \ {y}) = Cardinality(X) - 1
    BY <2>2, FS_RemoveElement
  <2>4. Cardinality(X \ {y}) = n /\ X \ {y} \in SUBSET Nat
    BY <2>3
  <2>5. PICK b \in Nat : \A x \in X \ {y} : x <= b
    BY <1>2, <2>3, <2>4
  <2> DEFINE c == IF y <= b THEN b ELSE y
  <2>6. c \in Nat /\ b <= c /\ y <= c
    BY <2>2
  <2>7. ASSUME NEW x \in X PROVE x <= c
    <3>1. CASE x = y
      BY <2>6, <3>1
    <3>2. CASE x # y
      <4>1. x <= b /\ x \in Nat
        BY <2>5, <3>2
      <4> QED BY <2>5, <2>6, <4>1
    <3> QED BY <3>1, <3>2
  <2> QED BY <2>6, <2>7
<1>3. \A n \in Nat : n \in A
  <2> HIDE DEF A
  <2> QED BY <1>1, <1>2, AllNumbers
<1>4. Cardinality(S) \in Nat
  BY FS_CardinalityType
<1> QED BY <1>3, <1>4

(* The words of a set are written by rank, each once.                      *)
LEMMA InOrderFacts ==
  ASSUME NEW words \in SUBSET Tokens, IsFiniteSet(words)
  PROVE  LET x == InOrder(words)
         IN  \E m \in Nat :
               /\ x = [k \in 1 .. m |-> x[k]]
               /\ \A k \in 1 .. m : x[k] \in words
               /\ \A w \in words : \E k \in 1 .. m : x[k] = w
               /\ \A j, k \in 1 .. m : j < k => Rank[x[j]] < Rank[x[k]]
<1> DEFINE ranks == {Rank[w] : w \in words}
           m     == Cardinality(ranks)
<1>1. /\ ranks \in SUBSET (Nat \ {0}) /\ \A w \in words : Rank[w] \in ranks
      /\ \A v, w \in words : Rank[v] = Rank[w] => v = w
  BY RankAssumption
<1>2. IsFiniteSet(ranks)
  <2> DEFINE f == [w \in words |-> Rank[w]]
  <2>1. f \in Surjection(words, ranks)
    BY DEF Surjection
  <2> QED BY <2>1, FS_Surjection
<1>3. PICK b \in Nat : \A x \in ranks : x <= b
  BY <1>1, <1>2, BoundedNumbers
<1>4. ranks \in SUBSET (1 .. b)
  <2> HIDE DEF ranks
  <2>1. ASSUME NEW x \in ranks PROVE x \in 1 .. b
    <3>1. x \in Nat \ {0} /\ x <= b
      BY <1>1, <1>3
    <3> QED BY <3>1
  <2> QED BY <2>1
<1>r. \A x \in ranks : \E w \in words : Rank[w] = x
  OBVIOUS
<1> DEFINE The(k) == CHOOSE w \in words : Place(Rank[w], ranks) = k
<1>5. PICK x : x = InOrder(words)
  OBVIOUS
<1>6. x = [k \in 1 .. m |-> The(k)]
  BY <1>5 DEF InOrder
<1> HIDE DEF ranks
<1>7. m \in Nat
  BY <1>2, FS_CardinalityType
<1>8. ASSUME NEW k \in 1 .. m PROVE The(k) \in words /\ Place(Rank[The(k)], ranks) = k
  <2>1. PICK r \in ranks : Place(r, ranks) = k
    BY <1>4, <1>8, PlacesTaken
  <2>2. PICK w \in words : Rank[w] = r
    BY <1>r
  <2> QED BY <2>1, <2>2
<1>9. \A k \in 1 .. m : x[k] \in words /\ Place(Rank[x[k]], ranks) = k
  BY <1>6, <1>8
<1>10. ASSUME NEW v \in words, NEW w \in words, Rank[v] < Rank[w]
       PROVE  Place(Rank[v], ranks) < Place(Rank[w], ranks)
  BY <1>1, <1>4, <1>10, PlaceGrows
<1>11. ASSUME NEW w \in words PROVE \E k \in 1 .. m : x[k] = w
  <2>1. PICK k \in 1 .. m : k = Place(Rank[w], ranks)
    BY <1>1, <1>4, PlaceInRange
  <2>2. x[k] \in words /\ Place(Rank[x[k]], ranks) = Place(Rank[w], ranks)
    BY <1>9, <2>1
  <2>3. ~(Rank[x[k]] < Rank[w]) /\ ~(Rank[w] < Rank[x[k]])
    <3>1. k \in Nat
      BY <1>7
    <3>2. ~(k < k)
      BY <3>1
    <3> QED BY <1>10, <2>1, <2>2, <3>2
  <2>4. Rank[x[k]] \in Nat /\ Rank[w] \in Nat
    BY <1>1, <2>2
  <2>5. Rank[x[k]] = Rank[w]
    BY <2>3, <2>4
  <2> QED BY <1>1, <2>2, <2>5
<1>12. ASSUME NEW j \in 1 .. m, NEW k \in 1 .. m, j < k PROVE Rank[x[j]] < Rank[x[k]]
  <2>1. /\ x[j] \in words /\ x[k] \in words
        /\ Place(Rank[x[j]], ranks) = j /\ Place(Rank[x[k]], ranks) = k
    BY <1>9
  <2>2. Rank[x[j]] \in Nat /\ Rank[x[k]] \in Nat
    BY <1>1, <2>1
  <2>3. CASE Rank[x[k]] < Rank[x[j]]
    <3>1. k < j
      BY <1>10, <2>1, <2>3
    <3>2. j \in Nat /\ k \in Nat
      BY <1>7
    <3> QED BY <1>12, <3>1, <3>2
  <2>4. CASE Rank[x[k]] = Rank[x[j]]
    <3>1. j = k
      BY <2>1, <2>4
    <3>2. j \in Nat /\ k \in Nat
      BY <1>7
    <3> QED BY <1>12, <3>1, <3>2
  <2> QED BY <2>2, <2>3, <2>4
<1> HIDE DEF m
<1>13. x = [k \in 1 .. m |-> x[k]]
  BY <1>6
<1> QED BY <1>5, <1>7, <1>9, <1>11, <1>12, <1>13

-----------------------------------------------------------------------------
(* Where the tokens of a record stand: its words, its spans, and behind w  *)
(* the words to exclude.                                                   *)
HeadLaid(s, r) ==
    /\ s[1] = "Snippet" /\ s[2] = "[" /\ s[3] = r.name /\ s[4] = "["
    /\ s[6 * Len(r.spans) + 5] = "exclude" /\ s[6 * Len(r.spans) + 6] = "["
SpanLaid(s, r, j) ==
    /\ s[6 * j - 1] = "(" /\ s[6 * j] = Numeral(r.spans[j][1]) /\ s[6 * j + 1] = ","
    /\ s[6 * j + 2] = Numeral(r.spans[j][2]) /\ s[6 * j + 3] = ")"
    /\ s[6 * j + 4] = IF j < Len(r.spans) THEN "," ELSE "]"
SetLaid(s, x, m, w) ==
    /\ Len(s) = IF m = 0 THEN w + 2 ELSE w + 2 * m + 1
    /\ m = 0 => s[w + 1] = "]"
    /\ \A j \in 1 .. m : s[w + 2 * j - 1] = x[j] /\ s[w + 2 * j] = IF j < m THEN "," ELSE "]"
    /\ s[Len(s)] = "]"
Ordered(x, m, words) ==
    /\ \A k \in 1 .. m : x[k] \in words
    /\ \A w \in words : \E k \in 1 .. m : x[k] = w
    /\ \A j, k \in 1 .. m : j < k => Rank[x[j]] < Rank[x[k]]

(* The items of the list of spans.                                         *)
SpanItems(r) == [x \in DOMAIN r.spans |-> SpanTokens(r.spans[x])]
LEMMA SpanItemsFacts ==
  ASSUME NEW r \in WrittenSnippet
  PROVE  LET n == Len(r.spans)
             A == SpanItems(r)
         IN  /\ n \in Nat \ {0} /\ DOMAIN r.spans = 1 .. n
             /\ A \in Seq(Seq(Tokens)) /\ Len(A) = n
             /\ \A j \in 1 .. n : /\ A[j] \in Seq(Tokens) /\ Len(A[j]) = 5
                                  /\ A[j][1] = "(" /\ A[j][2] = Numeral(r.spans[j][1])
                                  /\ A[j][3] = "," /\ A[j][4] = Numeral(r.spans[j][2])
                                  /\ A[j][5] = ")"
<1> DEFINE n == Len(r.spans)
           A == [i \in DOMAIN r.spans |-> SpanTokens(r.spans[i])]
<1>1. /\ r.spans \in Seq(Spans) /\ r.spans # <<>>
      /\ \A j \in DOMAIN r.spans : \A k \in {1, 2} :
           \E t \in DOMAIN NumberOf : NumberOf[t] = r.spans[j][k]
  BY DEF WrittenSnippet, FoundSnippet
<1>2. n \in Nat \ {0} /\ DOMAIN r.spans = 1 .. n
  BY <1>1, LenProperties, EmptySeq
<1>3. {"(", ")", ","} \subseteq Tokens
  BY TokensAssumption DEF Punctuation
<1>4. ASSUME NEW j \in 1 .. n
      PROVE  /\ A[j] \in Seq(Tokens) /\ Len(A[j]) = 5
             /\ A[j][1] = "(" /\ A[j][2] = Numeral(r.spans[j][1]) /\ A[j][3] = ","
             /\ A[j][4] = Numeral(r.spans[j][2]) /\ A[j][5] = ")"
  <2>1. A[j] = SpanTokens(r.spans[j])
    BY <1>2
  <2>2. \A k \in {1, 2} : Numeral(r.spans[j][k]) \in DOMAIN NumberOf
    BY <1>1, <1>2 DEF Numeral
  <2>3. Numeral(r.spans[j][1]) \in Tokens /\ Numeral(r.spans[j][2]) \in Tokens
    BY <2>2, NumberAssumption
  <2>4. PICK a, b : a = Numeral(r.spans[j][1]) /\ b = Numeral(r.spans[j][2])
    OBVIOUS
  <2> HIDE DEF A
  <2>5. A[j] = <<"(", a, ",", b, ")">> /\ {"(", ",", ")", a, b} \subseteq Tokens
    BY <1>3, <2>1, <2>3, <2>4 DEF SpanTokens
  <2>6. PICK c, d, e : c = "(" /\ d = "," /\ e = ")"
    OBVIOUS
  <2>7. A[j] = <<c, a, d, b, e>> /\ c \in Tokens /\ a \in Tokens /\ d \in Tokens /\ b \in Tokens
        /\ e \in Tokens
    BY <2>5, <2>6
  <2>8. /\ A[j] \in Seq(Tokens) /\ Len(A[j]) = 5
        /\ A[j][1] = c /\ A[j][2] = a /\ A[j][3] = d /\ A[j][4] = b /\ A[j][5] = e
    BY ONLY <2>7
  <2> QED BY <2>4, <2>6, <2>8
<1>5. A \in Seq(Seq(Tokens)) /\ Len(A) = n
  <2>1. A = [i \in 1 .. n |-> A[i]] /\ DOMAIN A = 1 .. n
    BY <1>2
  <2> HIDE DEF A
  <2>2. \A i \in 1 .. n : A[i] \in Seq(Tokens)
    BY <1>4
  <2> QED BY ONLY <1>2, <2>1, <2>2, SequenceOf
<1>6. SpanItems(r) = A
  BY DEF SpanItems
<1> HIDE DEF A
<1> QED BY <1>2, <1>4, <1>5, <1>6

LEMMA RecordFacts ==
  ASSUME NEW r \in WrittenSnippet
  PROVE  LET s == RecordTokens(r)
             n == Len(r.spans)
         IN  /\ s \in Seq(Tokens) /\ n \in Nat \ {0}
             /\ HeadLaid(s, r) /\ \A j \in 1 .. n : SpanLaid(s, r, j)
             /\ \E m \in Nat : \E x : SetLaid(s, x, m, 6 * n + 6) /\ Ordered(x, m, r.excludes)
<1> DEFINE n == Len(r.spans)
           A == [i \in DOMAIN r.spans |-> SpanTokens(r.spans[i])]
           B == [i \in DOMAIN InOrder(r.excludes) |-> <<InOrder(r.excludes)[i]>>]
<1>1. /\ r.name \in Tokens /\ r.spans \in Seq(Spans) /\ r.spans # <<>>
      /\ r.excludes \in SUBSET Tokens /\ IsFiniteSet(r.excludes)
      /\ \A j \in DOMAIN r.spans : \A k \in {1, 2} :
           \E t \in DOMAIN NumberOf : NumberOf[t] = r.spans[j][k]
  BY DEF WrittenSnippet, FoundSnippet
<1>2. n \in Nat \ {0} /\ DOMAIN r.spans = 1 .. n
  BY <1>1, LenProperties, EmptySeq
<1>3. HasBrackets(Tokens) /\ {"Snippet", "[", "(", ")", ",", "exclude", "]"} \subseteq Tokens
  BY TokensAssumption DEF HasBrackets, Punctuation
<1>4. ASSUME NEW j \in 1 .. n
      PROVE  /\ A[j] \in Seq(Tokens) /\ Len(A[j]) = 5
             /\ A[j][1] = "(" /\ A[j][2] = Numeral(r.spans[j][1]) /\ A[j][3] = ","
             /\ A[j][4] = Numeral(r.spans[j][2]) /\ A[j][5] = ")"
  BY SpanItemsFacts DEF SpanItems
<1>5. A \in Seq(Seq(Tokens)) /\ Len(A) = n
  BY SpanItemsFacts DEF SpanItems
<1>o. PICK x : x = InOrder(r.excludes)
  OBVIOUS
<1>6. PICK m \in Nat : x = [k \in 1 .. m |-> x[k]] /\ Ordered(x, m, r.excludes)
  <2>1. \E m \in Nat :
           /\ InOrder(r.excludes) = [k \in 1 .. m |-> InOrder(r.excludes)[k]]
           /\ \A k \in 1 .. m : InOrder(r.excludes)[k] \in r.excludes
           /\ \A w \in r.excludes : \E k \in 1 .. m : InOrder(r.excludes)[k] = w
           /\ \A j, k \in 1 .. m : j < k => Rank[InOrder(r.excludes)[j]] < Rank[InOrder(r.excludes)[k]]
    BY <1>1, InOrderFacts
  <2> QED BY <1>o, <2>1 DEF Ordered
<1>7. DOMAIN x = 1 .. m
  BY <1>6
<1>8. ASSUME NEW j \in 1 .. m
      PROVE  B[j] \in Seq(Tokens) /\ Len(B[j]) = 1 /\ B[j][1] = x[j]
  <2>1. B[j] = <<x[j]>>
    BY <1>o, <1>7
  <2>2. x[j] \in Tokens
    BY <1>1, <1>6 DEF Ordered
  <2> HIDE DEF B
  <2> QED BY <2>1, <2>2, Single
<1>9. B \in Seq(Seq(Tokens)) /\ Len(B) = m
  <2>1. B = [i \in 1 .. m |-> B[i]] /\ DOMAIN B = 1 .. m
    BY <1>o, <1>7
  <2> HIDE DEF B
  <2>2. \A i \in 1 .. m : B[i] \in Seq(Tokens)
    BY <1>8
  <2>3. m \in Nat
    OBVIOUS
  <2> QED BY ONLY <2>1, <2>2, <2>3, SequenceOf
<1> HIDE DEF A, B, n
<1>10. PICK LA : /\ LA = Listed(A) /\ LA \in Seq(Tokens) /\ LA[1] = "[" /\ Len(LA) = 6 * n + 1
                 /\ \A j \in 1 .. n : /\ \A k \in 1 .. 5 : LA[6 * (j - 1) + 1 + k] = A[j][k]
                                      /\ LA[6 * j + 1] = IF j < n THEN "," ELSE "]"
  <2>0. \A j \in 1 .. n : Len(A[j]) = 5
    BY <1>4
  <2>1. \A j \in 1 .. Len(A) : Len(A[j]) = 6 - 1
    BY <1>5, <2>0
  <2>2. 6 \in Nat /\ 6 - 1 = 5
    OBVIOUS
  <2>3. PICK l : l = Listed(A)
    OBVIOUS
  <2>4. /\ l \in Seq(Tokens) /\ l[1] = "["
        /\ Len(l) = IF n = 0 THEN 2 ELSE 6 * n + 1
        /\ \A j \in 1 .. n : /\ \A k \in 1 .. 6 - 1 : l[6 * (j - 1) + 1 + k] = A[j][k]
                             /\ l[6 * j + 1] = IF j < n THEN "," ELSE "]"
    <3>1. HasBrackets(Tokens) /\ A \in Seq(Seq(Tokens)) /\ Len(A) = n
      BY <1>3, <1>5
    <3>2. PICK M : M = 6
      OBVIOUS
    <3>3. M \in Nat /\ (M = 2 \/ M = 6) /\ \A j \in 1 .. Len(A) : Len(A[j]) = M - 1
      BY <2>1, <3>2
    <3>4. Listed(A) \in Seq(Tokens) /\ ListedAs(Listed(A), A, M)
      BY ONLY <3>1, <3>3, ListedFacts
    <3> QED BY <2>3, <3>1, <3>2, <3>4 DEF ListedAs
  <2> QED BY <1>2, <2>2, <2>3, <2>4
<1>11. PICK LB : /\ LB = Listed(B) /\ LB \in Seq(Tokens) /\ LB[1] = "["
                 /\ Len(LB) = IF m = 0 THEN 2 ELSE 2 * m + 1
                 /\ m = 0 => LB[2] = "]"
                 /\ \A j \in 1 .. m : /\ LB[2 * j] = x[j]
                                      /\ LB[2 * j + 1] = IF j < m THEN "," ELSE "]"
  <2>1. \A j \in 1 .. Len(B) : Len(B[j]) = 2 - 1
    BY <1>8, <1>9
  <2>2. 2 \in Nat /\ 2 - 1 = 1
    OBVIOUS
  <2>3. PICK l : l = Listed(B)
    OBVIOUS
  <2>4. /\ l \in Seq(Tokens) /\ l[1] = "["
        /\ Len(l) = IF m = 0 THEN 2 ELSE 2 * m + 1
        /\ m = 0 => l[2] = "]"
        /\ \A j \in 1 .. m : /\ \A k \in 1 .. 2 - 1 : l[2 * (j - 1) + 1 + k] = B[j][k]
                             /\ l[2 * j + 1] = IF j < m THEN "," ELSE "]"
    <3>1. HasBrackets(Tokens) /\ B \in Seq(Seq(Tokens)) /\ Len(B) = m
      BY <1>3, <1>9
    <3>2. PICK M : M = 2
      OBVIOUS
    <3>3. M \in Nat /\ (M = 2 \/ M = 6) /\ \A j \in 1 .. Len(B) : Len(B[j]) = M - 1
      BY <2>1, <3>2
    <3>4. Listed(B) \in Seq(Tokens) /\ ListedAs(Listed(B), B, M)
      BY ONLY <3>1, <3>3, ListedFacts
    <3> QED BY <2>3, <3>1, <3>2, <3>4 DEF ListedAs
  <2>5. ASSUME NEW j \in 1 .. m PROVE l[2 * j] = x[j]
    <3>0. 1 \in 1 .. 2 - 1
      OBVIOUS
    <3>1. l[2 * (j - 1) + 1 + 1] = B[j][1]
      BY <2>4, <3>0
    <3>2. 2 * (j - 1) + 1 + 1 = 2 * j
      BY <1>6
    <3> QED BY <1>8, <3>1, <3>2
  <2> QED BY <2>3, <2>4, <2>5
<1>12. PICK head, ex, close : head = <<"Snippet", "[", r.name>> /\ ex = "exclude" /\ close = "]"
  OBVIOUS
<1>13. head \in Seq(Tokens) /\ Len(head) = 3 /\ head[1] = "Snippet" /\ head[2] = "[" /\ head[3] = r.name
  <2>1. PICK c, d, e : c = "Snippet" /\ d = "[" /\ e = r.name
    OBVIOUS
  <2>2. head = <<c, d, e>> /\ c \in Tokens /\ d \in Tokens /\ e \in Tokens
    BY <1>1, <1>3, <1>12, <2>1
  <2>3. head \in Seq(Tokens) /\ Len(head) = 3 /\ head[1] = c /\ head[2] = d /\ head[3] = e
    BY ONLY <2>2
  <2> QED BY <2>1, <2>3
<1>14. ex \in Tokens /\ close \in Tokens
  BY <1>3, <1>12
<1>15. PICK s1, s2, s3, s : /\ s1 = head \o LA /\ s2 = s1 \o <<ex>> /\ s3 = s2 \o LB /\ s = s3 \o <<close>>
                            /\ s = RecordTokens(r)
  BY <1>10, <1>11, <1>12 DEF RecordTokens, A, B
<1>16. /\ s1 \in Seq(Tokens) /\ Len(s1) = Len(head) + Len(LA)
       /\ \A k \in 1 .. Len(head) : s1[k] = head[k]
       /\ \A k \in 1 .. Len(LA) : s1[Len(head) + k] = LA[k]
  <2>1. LA \in Seq(Tokens) /\ head \in Seq(Tokens) /\ s1 = head \o LA
    BY <1>10, <1>13, <1>15
  <2> QED BY ONLY <2>1, Joined
<1>17. /\ s2 \in Seq(Tokens) /\ Len(s2) = Len(s1) + 1 /\ s2[Len(s1) + 1] = ex
       /\ \A k \in 1 .. Len(s1) : s2[k] = s1[k]
  BY <1>14, <1>15, <1>16, Suffixed
<1>18. /\ s3 \in Seq(Tokens) /\ Len(s3) = Len(s2) + Len(LB)
       /\ \A k \in 1 .. Len(s2) : s3[k] = s2[k]
       /\ \A k \in 1 .. Len(LB) : s3[Len(s2) + k] = LB[k]
  <2>1. LB \in Seq(Tokens) /\ s2 \in Seq(Tokens) /\ s3 = s2 \o LB
    BY <1>11, <1>15, <1>17
  <2> QED BY ONLY <2>1, Joined
<1>19. /\ s \in Seq(Tokens) /\ Len(s) = Len(s3) + 1 /\ s[Len(s3) + 1] = close
       /\ \A k \in 1 .. Len(s3) : s[k] = s3[k]
  BY <1>14, <1>15, <1>18, Suffixed
<1>20. PICK b : b = Len(LB)
  OBVIOUS
<1>21. b \in Nat /\ b = IF m = 0 THEN 2 ELSE 2 * m + 1
  <2>1. b = IF m = 0 THEN 2 ELSE 2 * m + 1
    BY <1>11, <1>20
  <2> QED BY <2>1
<1>22. Len(s1) = 6 * n + 4 /\ Len(s2) = 6 * n + 5 /\ Len(s3) = 6 * n + 5 + b /\ Len(s) = 6 * n + 6 + b
  <2>1. PICK l1, l2, l3, l4 : l1 = Len(s1) /\ l2 = Len(s2) /\ l3 = Len(s3) /\ l4 = Len(s)
    OBVIOUS
  <2>2. l1 = 3 + (6 * n + 1) /\ l2 = l1 + 1 /\ l3 = l2 + b /\ l4 = l3 + 1 /\ n \in Nat /\ b \in Nat
    BY <1>2, <1>10, <1>13, <1>16, <1>17, <1>18, <1>19, <1>20, <1>21, <2>1
  <2>3. l1 = 6 * n + 4 /\ l2 = 6 * n + 5 /\ l3 = 6 * n + 5 + b /\ l4 = 6 * n + 6 + b
    BY ONLY <2>2
  <2> QED BY <2>1, <2>3
<1>23. \A k \in 1 .. 3 : s[k] = head[k]
  <2>1. \A k \in 1 .. 3 : /\ k \in 1 .. Len(s1) /\ k \in 1 .. Len(s2) /\ k \in 1 .. Len(s3)
    BY <1>2, <1>21, <1>22
  <2> QED BY <1>13, <1>16, <1>17, <1>18, <1>19, <2>1
<1>24. \A k \in 1 .. 6 * n + 1 : s[3 + k] = LA[k]
  <2>1. \A k \in 1 .. 6 * n + 1 : /\ 3 + k \in 1 .. Len(s1) /\ 3 + k \in 1 .. Len(s2)
                                  /\ 3 + k \in 1 .. Len(s3)
    BY <1>2, <1>21, <1>22
  <2> SUFFICES ASSUME NEW k \in 1 .. 6 * n + 1 PROVE s[3 + k] = LA[k]
    OBVIOUS
  <2>2. s1[3 + k] = LA[k]
    BY <1>10, <1>13, <1>16
  <2>3. s[3 + k] = s3[3 + k] /\ s3[3 + k] = s2[3 + k] /\ s2[3 + k] = s1[3 + k]
    BY <1>17, <1>18, <1>19, <2>1
  <2> QED BY <2>2, <2>3
<1>25. s[6 * n + 5] = ex
  <2>1. 6 * n + 5 \in 1 .. Len(s2) /\ 6 * n + 5 \in 1 .. Len(s3) /\ Len(s1) + 1 = 6 * n + 5
    BY <1>2, <1>21, <1>22
  <2> QED BY <1>17, <1>18, <1>19, <2>1
<1>26. \A k \in 1 .. b : s[6 * n + 5 + k] = LB[k]
  <2>1. \A k \in 1 .. b : 6 * n + 5 + k \in 1 .. Len(s3)
    BY <1>2, <1>21, <1>22
  <2> QED BY <1>18, <1>19, <1>20, <1>22, <2>1
<1>27. HeadLaid(s, r)
  <2>1. s[1] = "Snippet" /\ s[2] = "[" /\ s[3] = r.name
    BY <1>13, <1>23
  <2>2. s[4] = "["
    <3>1. 1 \in 1 .. 6 * n + 1 /\ 3 + 1 = 4
      BY <1>2
    <3>2. s[3 + 1] = LA[1]
      BY <1>24, <3>1
    <3> QED BY <1>10, <3>1, <3>2
  <2>3. s[6 * n + 6] = "["
    <3>1. 1 \in 1 .. b /\ 6 * n + 5 + 1 = 6 * n + 6
      BY <1>2, <1>6, <1>21
    <3>2. s[6 * n + 5 + 1] = LB[1]
      BY <1>26, <3>1
    <3> QED BY <1>11, <3>1, <3>2
  <2> QED BY <1>12, <1>25, <2>1, <2>2, <2>3 DEF HeadLaid, n
<1>28. ASSUME NEW j \in 1 .. n PROVE SpanLaid(s, r, j)
  <2>1. ASSUME NEW k \in 1 .. 5 PROVE s[6 * j - 2 + k] = A[j][k]
    <3>1. 6 * (j - 1) + 1 + k \in 1 .. 6 * n + 1 /\ 3 + (6 * (j - 1) + 1 + k) = 6 * j - 2 + k
      BY <1>2
    <3>2. s[3 + (6 * (j - 1) + 1 + k)] = LA[6 * (j - 1) + 1 + k]
      BY <1>24, <3>1
    <3>3. LA[6 * (j - 1) + 1 + k] = A[j][k]
      BY <1>10
    <3> QED BY <3>1, <3>2, <3>3
  <2>2. s[6 * j + 4] = IF j < n THEN "," ELSE "]"
    <3>1. 6 * j + 1 \in 1 .. 6 * n + 1 /\ 3 + (6 * j + 1) = 6 * j + 4
      BY <1>2
    <3>2. s[3 + (6 * j + 1)] = LA[6 * j + 1]
      BY <1>24, <3>1
    <3>3. LA[6 * j + 1] = IF j < n THEN "," ELSE "]"
      BY <1>10
    <3> QED BY <3>1, <3>2, <3>3
  <2>3. /\ 6 * j - 2 + 1 = 6 * j - 1 /\ 6 * j - 2 + 2 = 6 * j /\ 6 * j - 2 + 3 = 6 * j + 1
        /\ 6 * j - 2 + 4 = 6 * j + 2 /\ 6 * j - 2 + 5 = 6 * j + 3
    BY <1>2
  <2>4. 1 \in 1 .. 5 /\ 2 \in 1 .. 5 /\ 3 \in 1 .. 5 /\ 4 \in 1 .. 5 /\ 5 \in 1 .. 5
    OBVIOUS
  <2>5. /\ s[6 * j - 2 + 1] = A[j][1] /\ s[6 * j - 2 + 2] = A[j][2] /\ s[6 * j - 2 + 3] = A[j][3]
        /\ s[6 * j - 2 + 4] = A[j][4] /\ s[6 * j - 2 + 5] = A[j][5]
    BY <2>1, <2>4
  <2>6. /\ s[6 * j - 1] = A[j][1] /\ s[6 * j] = A[j][2] /\ s[6 * j + 1] = A[j][3]
        /\ s[6 * j + 2] = A[j][4] /\ s[6 * j + 3] = A[j][5]
    BY ONLY <2>3, <2>5
  <2> QED BY <1>4, <2>2, <2>6 DEF SpanLaid, n
<1>29. SetLaid(s, x, m, 6 * n + 6)
  <2>1. PICK w : w = 6 * n + 6
    OBVIOUS
  <2>2. w \in Nat /\ 6 * n + 5 = w - 1
    BY <1>2, <2>1
  <2>3. Len(s) = IF m = 0 THEN w + 2 ELSE w + 2 * m + 1
    <3>1. Len(s) = w + b
      BY <1>22, <2>1
    <3> QED BY <1>21, <2>2, <3>1
  <2>4. m = 0 => s[w + 1] = "]"
    <3>1. m = 0 => 2 \in 1 .. b /\ (w - 1) + 2 = w + 1
      BY <1>21, <2>2
    <3>2. m = 0 => s[(w - 1) + 2] = LB[2]
      BY <1>26, <2>2, <3>1
    <3> QED BY <1>11, <3>1, <3>2
  <2>5. ASSUME NEW j \in 1 .. m
        PROVE  s[w + 2 * j - 1] = x[j] /\ s[w + 2 * j] = IF j < m THEN "," ELSE "]"
    <3>1. /\ 2 * j \in 1 .. b /\ (w - 1) + 2 * j = w + 2 * j - 1
          /\ 2 * j + 1 \in 1 .. b /\ (w - 1) + (2 * j + 1) = w + 2 * j
      <4>1. m \in Nat /\ b = IF m = 0 THEN 2 ELSE 2 * m + 1
        BY <1>21
      <4> QED BY <2>2, <4>1
    <3>2. s[(w - 1) + 2 * j] = LB[2 * j] /\ s[(w - 1) + (2 * j + 1)] = LB[2 * j + 1]
      BY <1>26, <2>2, <3>1
    <3> QED BY <1>11, <3>1, <3>2
  <2>6. s[Len(s)] = "]"
    BY <1>12, <1>19
  <2>7. SetLaid(s, x, m, w)
    BY <2>3, <2>4, <2>5, <2>6 DEF SetLaid
  <2> QED BY <2>1, <2>7
<1>30. \E mm \in Nat : \E xx : SetLaid(s, xx, mm, 6 * n + 6) /\ Ordered(xx, mm, r.excludes)
  BY <1>6, <1>29
<1> QED BY <1>2, <1>15, <1>19, <1>27, <1>28, <1>30 DEF n

LEMMA Halves == \A n \in Nat : \E h \in Nat : n = 2 * h \/ n = 2 * h + 1
<1> DEFINE A == {n \in Nat : \E h \in Nat : n = 2 * h \/ n = 2 * h + 1}
<1>1. 0 \in A
  <2>1. 0 \in Nat /\ 0 = 2 * 0
    OBVIOUS
  <2> QED BY <2>1
<1>2. ASSUME NEW n \in Nat, n \in A PROVE n + 1 \in A
  <2>1. PICK h \in Nat : n = 2 * h \/ n = 2 * h + 1
    BY <1>2
  <2>2. CASE n = 2 * h
    <3>1. n + 1 = 2 * h + 1
      BY <2>2
    <3> QED BY <3>1
  <2>3. CASE n = 2 * h + 1
    <3>1. PICK g \in Nat : g = h + 1
      OBVIOUS
    <3>2. n + 1 = 2 * g
      BY <2>3, <3>1
    <3>3. n + 1 \in Nat
      OBVIOUS
    <3> QED BY <3>2, <3>3
  <2> QED BY <2>1, <2>2, <2>3
<1>3. \A n \in Nat : n \in A
  <2> HIDE DEF A
  <2> QED BY <1>1, <1>2, AllNumbers
<1> QED BY <1>3

(* What stands behind the bracket at w: words and separators in turn.      *)
LEMMA WordOrSeparator ==
  ASSUME NEW m \in Nat, NEW w \in Nat, NEW k \in w + 1 .. w + 2 * m
  PROVE  \E j \in 1 .. m : k = w + 2 * j - 1 \/ k = w + 2 * j
<1>1. k - w - 1 \in Nat
  OBVIOUS
<1>2. PICK h \in Nat : k - w - 1 = 2 * h \/ k - w - 1 = 2 * h + 1
  BY <1>1, Halves
<1>3. h + 1 \in 1 .. m /\ (k = w + 2 * (h + 1) - 1 \/ k = w + 2 * (h + 1))
  BY <1>2
<1> QED BY <1>3

(* The bracket at which the reader leaves the set of words.                *)
SetStart(r) == 6 * Len(r.spans) + 6
Closing(s, w, b) ==
    /\ b \in w + 1 .. Len(s) - 1 /\ s[b] = "]"
    /\ \A k \in w + 1 .. b - 1 : s[k] # "]"
Separated(s, b) ==
    \A q \in b + 2 .. Len(s) : s[q] = "Snippet" => q < Len(s) /\ s[q + 1] # "["
ReadUntil(s, w, b) == {s[k] : k \in w + 1 .. b - 1} \ {","}

(* The same for the words that begin to be read at w + 1.                  *)
Closed(s, words, w, b) ==
    /\ Closing(s, w, b) /\ Separated(s, b)
    /\ IF "]" \in words => \A v \in words : Rank[v] <= Rank["]"]
       THEN /\ b + 1 = (IF "]" \in words THEN Len(s) - 1 ELSE Len(s))
            /\ s[b + 1] = "]"
            /\ ReadUntil(s, w, b) = words \ {"]", ","}
       ELSE s[b + 1] # "]"

LEMMA ClosedEmpty ==
  ASSUME NEW s, NEW x, NEW w \in Nat, NEW words, SetLaid(s, x, 0, w), Ordered(x, 0, words)
  PROVE  Closed(s, words, w, w + 1)
<1>1. words = {}
  BY DEF Ordered
<1>2. Len(s) = w + 2 /\ s[w + 1] = "]" /\ s[w + 2] = "]"
  BY DEF SetLaid
<1>3. w + 1 .. w + 1 - 1 = {} /\ w + 1 + 2 .. Len(s) = {} /\ w + 1 \in w + 1 .. Len(s) - 1
      /\ w + 1 + 1 = w + 2
  <2>1. Len(s) = w + 2
    BY <1>2
  <2> QED BY <2>1
<1>4. Closing(s, w, w + 1) /\ Separated(s, w + 1)
  <2>1. w + 1 \in w + 1 .. Len(s) - 1 /\ s[w + 1] = "]" /\ w + 1 .. w + 1 - 1 = {}
    BY <1>2, <1>3
  <2>2. Closing(s, w, w + 1)
    BY <2>1 DEF Closing
  <2> QED BY <1>3, <2>2 DEF Separated
<1>5. ReadUntil(s, w, w + 1) = {}
  <2>1. w + 1 .. w + 1 - 1 = {}
    BY <1>3
  <2>2. ASSUME NEW v \in ReadUntil(s, w, w + 1) PROVE FALSE
    <3>1. PICK c : c = w + 1
      OBVIOUS
    <3>2. PICK k \in c .. c - 1 : v = s[k]
      BY <2>2, <3>1 DEF ReadUntil
    <3> QED BY <2>1, <3>1, <3>2
  <2> QED BY <2>2
<1> QED BY <1>1, <1>2, <1>3, <1>4, <1>5 DEF Closed

SetBehind(s, x, m, w) ==
    /\ Len(s) = w + 2 * m + 1 /\ s[Len(s)] = "]" /\ s[w + 2 * m] = "]"
    /\ \A j \in 1 .. m : s[w + 2 * j - 1] = x[j]
    /\ \A j \in 1 .. m : j < m => s[w + 2 * j] = ","

LEMMA TokensBehind ==
  ASSUME NEW s, NEW x, NEW m \in Nat, m # 0, NEW w \in Nat, SetLaid(s, x, m, w)
  PROVE  SetBehind(s, x, m, w) /\ Separated(s, w)
<1>1. Len(s) = w + 2 * m + 1 /\ s[Len(s)] = "]"
  BY DEF SetLaid
<1>2. \A j \in 1 .. m : s[w + 2 * j - 1] = x[j] /\ s[w + 2 * j] = IF j < m THEN "," ELSE "]"
  BY DEF SetLaid
<1>3. m \in 1 .. m /\ ~(m < m)
  OBVIOUS
<1>4. s[w + 2 * m] = "]"
  BY <1>2, <1>3
<1>5. ASSUME NEW q \in w + 2 .. Len(s), s[q] = "Snippet" PROVE q < Len(s) /\ s[q + 1] # "["
  <2>1. q # Len(s)
    BY <1>1, <1>5
  <2>2. q \in w + 1 .. w + 2 * m
    <3>1. PICK l : l = Len(s)
      OBVIOUS
    <3>2. l = w + 2 * m + 1 /\ q \in w + 2 .. l /\ q # l
      BY <1>1, <2>1, <3>1
    <3> QED BY ONLY <3>2, m \in Nat, w \in Nat
  <2>3. PICK j \in 1 .. m : q = w + 2 * j - 1 \/ q = w + 2 * j
    BY <2>2, WordOrSeparator
  <2>4. q = w + 2 * j - 1
    <3>1. s[w + 2 * j] # "Snippet"
      BY <1>2
    <3> QED BY <1>5, <2>3, <3>1
  <2>5. q + 1 = w + 2 * j
    BY <2>4
  <2>6. s[q + 1] # "["
    BY <1>2, <2>5
  <2> QED BY <1>1, <2>2, <2>6
<1>6. SetBehind(s, x, m, w)
  BY <1>1, <1>2, <1>4 DEF SetBehind
<1> QED BY <1>5, <1>6 DEF Separated

(* What is read until the word j: i words.                                 *)
WordsTo(j, m, w, b, i) ==
    /\ b \in w + 1 .. w + 2 * m
    /\ \/ b = w + 2 * j - 1 /\ i = j - 1
       \/ j = m /\ b = w + 2 * j /\ i = j

ReadsWords(s, x, w, b, i) ==
    \A v : v \in ReadUntil(s, w, b) <=> v # "," /\ \E k \in 1 .. i : v = x[k]

LEMMA ReadWords ==
  ASSUME NEW s, NEW x, NEW m \in Nat, m # 0, NEW w \in Nat, SetLaid(s, x, m, w),
         NEW j \in 1 .. m, NEW b, NEW i, WordsTo(j, m, w, b, i)
  PROVE  ReadsWords(s, x, w, b, i)
<1>1. /\ \A k \in 1 .. m : s[w + 2 * k - 1] = x[k]
      /\ \A k \in 1 .. m : k < m => s[w + 2 * k] = ","
  BY DEF SetLaid
<1>0. /\ b \in w + 1 .. w + 2 * m
      /\ \/ b = w + 2 * j - 1 /\ i = j - 1
         \/ j = m /\ b = w + 2 * j /\ i = j
  BY DEF WordsTo
<1>2. i \in 0 .. m
  BY <1>0
<1>3. ASSUME NEW k \in 1 .. i PROVE w + 2 * k - 1 \in w + 1 .. b - 1 /\ s[w + 2 * k - 1] = x[k]
  <2>1. k \in 1 .. m
    BY <1>2
  <2>2. w + 2 * k - 1 \in w + 1 .. b - 1
    BY <1>0
  <2> QED BY <1>1, <2>1, <2>2
<1>4. ASSUME NEW k \in w + 1 .. b - 1 PROVE s[k] = "," \/ \E l \in 1 .. i : s[k] = x[l]
  <2>1. k \in w + 1 .. w + 2 * m
    BY <1>0
  <2>2. PICK l \in 1 .. m : k = w + 2 * l - 1 \/ k = w + 2 * l
    BY <2>1, WordOrSeparator
  <2>3. CASE k = w + 2 * l
    <3>1. l < m
      BY <1>0, <2>3
    <3> QED BY <1>1, <2>3, <3>1
  <2>4. CASE k = w + 2 * l - 1
    <3>1. l \in 1 .. i
      BY <1>0, <2>4
    <3> QED BY <1>1, <2>4, <3>1
  <2> QED BY <2>2, <2>3, <2>4
<1>5. ASSUME NEW v, v \in ReadUntil(s, w, b) PROVE v # "," /\ \E k \in 1 .. i : v = x[k]
  <2>1. PICK k \in w + 1 .. b - 1 : v = s[k]
    BY <1>5 DEF ReadUntil
  <2>2. v # ","
    BY <1>5 DEF ReadUntil
  <2> QED BY <1>4, <2>1, <2>2
<1>6. ASSUME NEW v, v # ",", NEW k \in 1 .. i, v = x[k] PROVE v \in ReadUntil(s, w, b)
  <2>1. w + 2 * k - 1 \in w + 1 .. b - 1 /\ s[w + 2 * k - 1] = v
    BY <1>3, <1>6
  <2> QED BY <1>6, <2>1 DEF ReadUntil
<1> QED BY <1>5, <1>6 DEF ReadsWords

LEMMA ClosedWords ==
  ASSUME NEW s, NEW x, NEW m \in Nat, m # 0, NEW w \in Nat, SetLaid(s, x, m, w),
         NEW words \in SUBSET Tokens, Ordered(x, m, words)
  PROVE  \E b : Closed(s, words, w, b)
<1>1. /\ Len(s) = w + 2 * m + 1 /\ s[w + 2 * m] = "]" /\ s[Len(s)] = "]"
      /\ \A j \in 1 .. m : s[w + 2 * j - 1] = x[j]
      /\ \A j \in 1 .. m : j < m => s[w + 2 * j] = ","
      /\ Separated(s, w)
  <2>1. SetBehind(s, x, m, w) /\ Separated(s, w)
    BY TokensBehind
  <2> QED BY <2>1 DEF SetBehind
<1>l. PICK l : l = Len(s) /\ l = w + 2 * m + 1
  BY <1>1
<1>2. /\ \A k \in 1 .. m : x[k] \in words /\ x[k] \in Tokens
      /\ \A v \in words : \E k \in 1 .. m : x[k] = v
      /\ \A j, k \in 1 .. m : j < k => Rank[x[j]] < Rank[x[k]]
  BY DEF Ordered
<1>3. \A v \in Tokens : Rank[v] \in Nat
  BY RankAssumption
<1>4. ASSUME NEW b \in w + 1 .. w + 2 * m PROVE Separated(s, b)
  <2>1. \A q \in b + 2 .. Len(s) : q \in w + 2 .. Len(s)
    <3>1. l \in Nat /\ w \in Nat /\ b \in w + 1 .. w + 2 * m
      BY <1>l
    <3>2. \A q \in b + 2 .. l : q \in w + 2 .. l
      BY ONLY <3>1
    <3> QED BY ONLY <1>l, <3>2
  <2> QED BY <1>1, <2>1 DEF Separated
<1>5. ASSUME NEW b \in w + 1 .. w + 2 * m, s[b] = "]",
             \A k \in 1 .. m : w + 2 * k - 1 < b => x[k] # "]"
      PROVE  Closing(s, w, b)
  <2>1. b \in w + 1 .. Len(s) - 1
    <3>1. b \in w + 1 .. l - 1
      BY ONLY b \in w + 1 .. w + 2 * m, <1>l, w \in Nat, m \in Nat
    <3> QED BY ONLY <1>l, <3>1
  <2>2. ASSUME NEW k \in w + 1 .. b - 1 PROVE s[k] # "]"
    <3>1. k \in w + 1 .. w + 2 * m
      OBVIOUS
    <3>2. PICK j \in 1 .. m : k = w + 2 * j - 1 \/ k = w + 2 * j
      BY <3>1, WordOrSeparator
    <3>3. CASE k = w + 2 * j - 1
      <4>1. w + 2 * j - 1 < b
        BY <3>3
      <4>2. x[j] # "]" /\ s[w + 2 * j - 1] = x[j]
        BY <1>1, <1>5, <4>1
      <4> QED BY <3>3, <4>2
    <3>4. CASE k = w + 2 * j
      <4>1. j < m
        BY <3>4
      <4>2. s[w + 2 * j] = ","
        BY <1>1, <4>1
      <4> QED BY <3>4, <4>2
    <3> QED BY <3>2, <3>3, <3>4
  <2> QED BY <1>5, <2>1, <2>2 DEF Closing
<1>6. CASE "]" \notin words
  <2>1. PICK b : b = w + 2 * m
    OBVIOUS
  <2>2. b \in w + 1 .. w + 2 * m /\ b + 1 = Len(s) /\ m \in 1 .. m
    BY <1>l, <2>1
  <2>3. Closing(s, w, b)
    BY <1>1, <1>2, <1>5, <1>6, <2>1, <2>2
  <2>4. \A v : v \in ReadUntil(s, w, b) <=> v # "," /\ \E k \in 1 .. m : v = x[k]
    <3>1. m \in 1 .. m /\ WordsTo(m, m, w, b, m)
      BY <2>1, <2>2 DEF WordsTo
    <3>2. ReadsWords(s, x, w, b, m)
      BY <3>1, ReadWords
    <3> QED BY <3>2 DEF ReadsWords
  <2>5. ASSUME NEW v PROVE v \in ReadUntil(s, w, b) <=> v \in words \ {"]", ","}
    <3>1. (\E k \in 1 .. m : v = x[k]) <=> v \in words
      BY <1>2
    <3> QED BY <1>6, <2>4, <3>1
  <2>6. ReadUntil(s, w, b) = words \ {"]", ","}
    BY <2>5 DEF ReadUntil
  <2>7. b + 1 = Len(s) /\ s[b + 1] = "]"
    BY <1>1, <2>2
  <2> QED BY <1>4, <1>6, <2>2, <2>3, <2>6, <2>7 DEF Closed
<1>7. CASE "]" \in words
  <2>1. PICK j \in 1 .. m : x[j] = "]"
    BY <1>2, <1>7
  <2>2. PICK b : b = w + 2 * j - 1
    OBVIOUS
  <2>3. b \in w + 1 .. w + 2 * m /\ s[b] = "]"
    <3>1. b \in w + 1 .. w + 2 * m
      BY <2>2
    <3> QED BY <1>1, <2>1, <2>2, <3>1
  <2>4. ASSUME NEW k \in 1 .. m, x[k] = "]" PROVE k = j
    <3>1. Rank[x[k]] \in Nat /\ Rank[x[j]] = Rank[x[k]]
      BY <1>2, <1>3, <2>1, <2>4
    <3>2. ~(Rank[x[k]] < Rank[x[j]]) /\ ~(Rank[x[j]] < Rank[x[k]])
      BY <3>1
    <3>3. ~(k < j) /\ ~(j < k)
      BY <1>2, <3>2
    <3> QED BY <3>3
  <2>5. Closing(s, w, b)
    <3>1. ASSUME NEW k \in 1 .. m, w + 2 * k - 1 < b PROVE x[k] # "]"
      <4>1. k # j
        BY <2>2, <3>1
      <4> QED BY <2>4, <4>1
    <3> QED BY <1>5, <2>3, <3>1
  <2>6. CASE j = m
    <3>1. ASSUME NEW v \in words PROVE Rank[v] <= Rank["]"]
      <4>1. PICK k \in 1 .. m : x[k] = v
        BY <1>2
      <4>2. Rank[x[k]] \in Nat /\ Rank[x[j]] \in Nat
        BY <1>2, <1>3
      <4>3. k = j \/ k < j
        BY <2>6
      <4>4. k = j \/ Rank[x[k]] < Rank[x[j]]
        BY <1>2, <4>3
      <4> QED BY <2>1, <4>1, <4>2, <4>4
    <3>2. b + 1 = w + 2 * m /\ b + 1 = Len(s) - 1
      BY <1>l, <2>2, <2>6
    <3>3. s[b + 1] = "]"
      BY <1>1, <3>2
    <3>4. PICK i : i = j - 1
      OBVIOUS
    <3>5. \A v : v \in ReadUntil(s, w, b) <=> v # "," /\ \E k \in 1 .. i : v = x[k]
      <4>1. WordsTo(j, m, w, b, i)
        BY <2>2, <2>3, <3>4 DEF WordsTo
      <4>2. ReadsWords(s, x, w, b, i)
        BY <4>1, ReadWords
      <4> QED BY <4>2 DEF ReadsWords
    <3>6. ASSUME NEW v PROVE v \in ReadUntil(s, w, b) <=> v \in words \ {"]", ","}
      <4>1. ASSUME \E k \in 1 .. i : v = x[k] PROVE v \in words /\ v # "]"
        <5>1. PICK k \in 1 .. i : v = x[k]
          BY <4>1
        <5>2. k \in 1 .. m /\ k # j
          BY <3>4, <5>1
        <5> QED BY <1>2, <2>4, <5>1, <5>2
      <4>2. ASSUME v \in words, v # "]" PROVE \E k \in 1 .. i : v = x[k]
        <5>1. PICK k \in 1 .. m : x[k] = v
          BY <1>2, <4>2
        <5>2. k # j
          BY <2>1, <4>2, <5>1
        <5>3. k \in 1 .. i
          BY <2>6, <3>4, <5>1, <5>2
        <5> QED BY <5>1, <5>3
      <4> QED BY <3>5, <4>1, <4>2
    <3>7. ReadUntil(s, w, b) = words \ {"]", ","}
      BY <3>6 DEF ReadUntil
    <3> QED BY <1>4, <1>7, <2>3, <2>5, <3>1, <3>2, <3>3, <3>7 DEF Closed
  <2>7. CASE j # m
    <3>1. j < m /\ m \in 1 .. m
      BY <2>7
    <3>2. Rank[x[j]] < Rank[x[m]] /\ x[m] \in words /\ Rank[x[m]] \in Nat /\ Rank[x[j]] \in Nat
      BY <1>2, <1>3, <3>1
    <3>3. ~(Rank[x[m]] <= Rank["]"])
      BY <2>1, <3>2
    <3>4. b + 1 = w + 2 * j
      BY <2>2
    <3>5. s[b + 1] # "]"
      BY <1>1, <3>1, <3>4
    <3> QED BY <1>4, <1>7, <2>3, <2>5, <3>2, <3>3, <3>5 DEF Closed
  <2> QED BY <2>6, <2>7
<1> QED BY <1>6, <1>7
-----------------------------------------------------------------------------
(* The bracket at which the reader leaves the words of a record, and what  *)
(* the record's tokens are around it.                                      *)
Bracket(r) == CHOOSE b : Closed(RecordTokens(r), r.excludes, SetStart(r), b)

BracketLaid(s, r, w, b) ==
    /\ b \in w + 1 .. Len(s) - 1 /\ s[b] = "]"
    /\ \A k \in w + 1 .. b - 1 : s[k] # "]"
    /\ Separated(s, b)
    /\ Readable(r) => /\ b + 1 = Needed(r) /\ s[b + 1] = "]"
                      /\ ReadUntil(s, w, b) = r.excludes \ {"]", ","}
    /\ ~Readable(r) => s[b + 1] # "]"

LEMMA BracketFacts ==
  ASSUME NEW r \in WrittenSnippet
  PROVE  LET s == RecordTokens(r)
             n == Len(r.spans)
         IN  /\ s \in Seq(Tokens) /\ Len(s) \in Nat /\ n \in Nat \ {0}
             /\ HeadLaid(s, r) /\ \A j \in 1 .. n : SpanLaid(s, r, j)
             /\ BracketLaid(s, r, 6 * n + 6, Bracket(r))
             /\ Needed(r) \in 1 .. Len(s)
<1> DEFINE n == Len(r.spans)
<1>1. PICK s : s = RecordTokens(r)
  OBVIOUS
<1>2. /\ s \in Seq(Tokens) /\ n \in Nat \ {0}
      /\ HeadLaid(s, r) /\ \A j \in 1 .. n : SpanLaid(s, r, j)
      /\ \E m \in Nat : \E x : SetLaid(s, x, m, 6 * n + 6) /\ Ordered(x, m, r.excludes)
  BY <1>1, RecordFacts
<1>3. PICK m \in Nat, w \in Nat : w = 6 * n + 6 /\ \E x : SetLaid(s, x, m, w) /\ Ordered(x, m, r.excludes)
  BY <1>2
<1>4. PICK x : SetLaid(s, x, m, w) /\ Ordered(x, m, r.excludes)
  BY <1>3
<1>5. \E b : Closed(s, r.excludes, w, b)
  <2>1. CASE m = 0
    BY <1>4, <2>1, ClosedEmpty
  <2>2. CASE m # 0
    <3>1. r.excludes \in SUBSET Tokens
      BY DEF WrittenSnippet, FoundSnippet
    <3> QED BY <1>4, <2>2, <3>1, ClosedWords
  <2> QED BY <2>1, <2>2
<1>6. SetStart(r) = w
  BY <1>3 DEF SetStart
<1>7. PICK b : b = Bracket(r) /\ Closed(s, r.excludes, w, b)
  BY <1>1, <1>5, <1>6 DEF Bracket
<1>8. Len(s) \in Nat
  BY <1>2, LenProperties
<1>9. BracketLaid(s, r, w, b)
  <2>1. Needed(r) = IF "]" \in r.excludes THEN Len(s) - 1 ELSE Len(s)
    BY <1>1 DEF Needed
  <2>2. Closing(s, w, b) /\ Separated(s, b)
    BY <1>7 DEF Closed
  <2>3. Readable(r) => /\ b + 1 = Needed(r) /\ s[b + 1] = "]"
                       /\ ReadUntil(s, w, b) = r.excludes \ {"]", ","}
    BY <1>7, <2>1 DEF Closed, Readable
  <2>4. ~Readable(r) => s[b + 1] # "]"
    BY <1>7 DEF Closed, Readable
  <2> QED BY <2>2, <2>3, <2>4 DEF BracketLaid, Closing
<1>10. Needed(r) \in 1 .. Len(s)
  <2>1. b \in w + 1 .. Len(s) - 1
    BY <1>9 DEF BracketLaid
  <2>2. Needed(r) = Len(s) - 1 \/ Needed(r) = Len(s)
    BY <1>1 DEF Needed
  <2> QED BY <1>8, <2>1, <2>2
<1> QED BY <1>1, <1>2, <1>3, <1>7, <1>8, <1>9, <1>10

-----------------------------------------------------------------------------
(* The reader at the token q of the record s of the snippet r, which has n *)
(* spans, whose words to exclude stand behind w and end at b.  Behind b    *)
(* there are tokens that it reads for nothing.                             *)
RecordLaid(s, r, n, w, b) ==
    /\ s \in Seq(Tokens) /\ Len(s) \in Nat /\ n = Len(r.spans) /\ n \in Nat \ {0} /\ w = 6 * n + 6
    /\ HeadLaid(s, r) /\ \A j \in 1 .. n : SpanLaid(s, r, j)
    /\ BracketLaid(s, r, w, b)

Named(r) == name = r.name /\ excludes = {}
SpansRead(r, j) == Len(spans) = j /\ \A k \in 1 .. j : spans[k] = r.spans[k]

InHead(s, r, b, q) ==
    /\ rpc = "opening" => q = 1
    /\ rpc = "loop" => q = 1 \/ q >= b + 2
    /\ rpc = "Snippet" => (q = 1 \/ q >= b + 2) /\ spans = <<>> /\ excludes = {}
    /\ rpc = "[" => (q = 2 \/ (q >= b + 3 /\ s[q] # "[")) /\ spans = <<>> /\ excludes = {}
    /\ rpc = "name" => q = 3 /\ spans = <<>> /\ excludes = {}
    /\ rpc = "spans" => q = 4 /\ spans = <<>> /\ Named(r)
InSpan(r, j, q) ==
    /\ rpc = "pair" => q = 6 * j - 1 /\ SpansRead(r, j - 1)
    /\ rpc = "first" => q = 6 * j /\ SpansRead(r, j - 1)
    /\ rpc = "," => q = 6 * j + 1 /\ SpansRead(r, j - 1) /\ pair[1] = r.spans[j][1]
    /\ rpc = "second" => q = 6 * j + 2 /\ SpansRead(r, j - 1) /\ pair[1] = r.spans[j][1]
    /\ rpc = ")" => q = 6 * j + 3 /\ SpansRead(r, j - 1) /\ pair = r.spans[j]
    /\ rpc = "more" => q = 6 * j + 4 /\ SpansRead(r, j)
SpanPositions == {"pair", "first", ",", "second", ")", "more"}
InSpans(r, n, q) == rpc \in SpanPositions => Named(r) /\ \E j \in 1 .. n : InSpan(r, j, q)
InSet(s, r, n, w, b, q) ==
    /\ rpc = "exclude" => q = w - 1 /\ Named(r) /\ SpansRead(r, n)
    /\ rpc = "set" => q = w /\ Named(r) /\ SpansRead(r, n)
    /\ rpc = "members" => /\ q \in w + 1 .. b /\ name = r.name /\ SpansRead(r, n)
                          /\ excludes = ReadUntil(s, w, q)
    /\ rpc = "]" => /\ q = b + 1 /\ name = r.name /\ SpansRead(r, n)
                    /\ excludes = ReadUntil(s, w, b)
InRecord(s, r, n, w, b, q) ==
    InHead(s, r, b, q) /\ InSpans(r, n, q) /\ InSet(s, r, n, w, b, q)

(* It reads the token q, and takes the snippet over behind the bracket.    *)
TokenRead(s, r, n, w, b, q) ==
    /\ at' = at + 1 /\ stream' = stream
    /\ found' = IF Readable(r) /\ q = b + 1 THEN Append(found, ReadBack(r)) ELSE found
    /\ IF q < Len(s) THEN InRecord(s, r, n, w, b, q + 1)' ELSE rpc' = "loop"

AtToken(s, q) == ReaderTypeOK /\ HasToken /\ q \in 1 .. Len(s) /\ file[at] = s[q]

LEMMA OneOn == ASSUME HasToken, Advance PROVE at' = at + 1 /\ stream' = stream
  BY DEF HasToken, Advance

LEMMA RoomBehind ==
  ASSUME NEW s, NEW r, NEW n, NEW w, NEW b, RecordLaid(s, r, n, w, b)
  PROVE  n \in Nat \ {0} /\ w = 6 * n + 6 /\ w \in Nat /\ b \in w + 1 .. Len(s) - 1 /\ b \in Nat /\ Len(s) \in Nat
<1>1. n \in Nat \ {0} /\ w = 6 * n + 6 /\ b \in w + 1 .. Len(s) - 1 /\ Len(s) \in Nat
  BY DEF RecordLaid, BracketLaid
<1>2. w \in Nat
  BY <1>1
<1>3. b \in Nat
  BY <1>1, <1>2
<1> QED BY <1>1, <1>2, <1>3

LEMMA ReadsSnippet ==
  ASSUME NEW s, NEW r, NEW n, NEW w, NEW b, RecordLaid(s, r, n, w, b), NEW q, AtToken(s, q),
         InRecord(s, r, n, w, b, q), Expect("Snippet", "[")
  PROVE  TokenRead(s, r, n, w, b, q)
<1>1. /\ rpc = "Snippet" /\ at' = at + 1 /\ stream' = stream /\ found' = found /\ token' = s[q]
      /\ rpc' = (IF s[q] = "Snippet" THEN "[" ELSE "loop") /\ spans' = spans /\ excludes' = excludes
      /\ q \in 1 .. Len(s)
  BY OneOn DEF Expect, AtToken
<1>2. (q = 1 \/ q >= b + 2) /\ spans = <<>> /\ excludes = {}
  BY <1>1 DEF InRecord, InHead
<1>3. /\ n \in Nat \ {0} /\ w = 6 * n + 6 /\ w \in Nat /\ b \in w + 1 .. Len(s) - 1 /\ b \in Nat
      /\ Len(s) \in Nat
  BY RoomBehind
<1>4. s[1] = "Snippet" /\ Separated(s, b)
  BY DEF RecordLaid, HeadLaid, BracketLaid
<1>5. q # b + 1
  BY <1>2, <1>3
<1>6. CASE q = 1
  <2>1. q < Len(s) /\ rpc' = "[" /\ q + 1 = 2
    BY <1>1, <1>3, <1>4, <1>6
  <2>2. InRecord(s, r, n, w, b, q + 1)'
    BY <1>1, <1>2, <2>1 DEF InRecord, InHead, InSpans, SpanPositions, InSet
  <2> QED BY <1>1, <1>5, <2>1, <2>2 DEF TokenRead
<1>7. CASE q # 1
  <2>1. q >= b + 2 /\ q + 1 >= b + 3 /\ q + 1 >= b + 2 /\ q \in b + 2 .. Len(s)
    BY <1>1, <1>2, <1>3, <1>7
  <2>2. CASE s[q] = "Snippet"
    <3>1. q < Len(s) /\ s[q + 1] # "["
      BY <1>4, <2>1, <2>2 DEF Separated
    <3>2. InRecord(s, r, n, w, b, q + 1)'
      BY <1>1, <1>2, <2>1, <2>2, <3>1 DEF InRecord, InHead, InSpans, SpanPositions, InSet
    <3> QED BY <1>1, <1>5, <3>1, <3>2 DEF TokenRead
  <2>3. CASE s[q] # "Snippet"
    <3>1. rpc' = "loop"
      BY <1>1, <2>3
    <3>2. InRecord(s, r, n, w, b, q + 1)'
      BY <2>1, <3>1 DEF InRecord, InHead, InSpans, SpanPositions, InSet
    <3> QED BY <1>1, <1>5, <3>1, <3>2 DEF TokenRead
  <2> QED BY <2>2, <2>3
<1> QED BY <1>6, <1>7

LEMMA ReadsBracket ==
  ASSUME NEW s, NEW r, NEW n, NEW w, NEW b, RecordLaid(s, r, n, w, b), NEW q, AtToken(s, q),
         InRecord(s, r, n, w, b, q), Expect("[", "name")
  PROVE  TokenRead(s, r, n, w, b, q)
<1>1. /\ rpc = "[" /\ at' = at + 1 /\ stream' = stream /\ found' = found /\ token' = s[q]
      /\ rpc' = (IF s[q] = "[" THEN "name" ELSE "loop") /\ spans' = spans /\ excludes' = excludes
      /\ q \in 1 .. Len(s)
  BY OneOn DEF Expect, AtToken
<1>2. (q = 2 \/ (q >= b + 3 /\ s[q] # "[")) /\ spans = <<>> /\ excludes = {}
  BY <1>1 DEF InRecord, InHead
<1>3. /\ n \in Nat \ {0} /\ w = 6 * n + 6 /\ w \in Nat /\ b \in w + 1 .. Len(s) - 1 /\ b \in Nat
      /\ Len(s) \in Nat
  BY RoomBehind
<1>4. s[2] = "["
  BY DEF RecordLaid, HeadLaid
<1>5. q # b + 1
  BY <1>2, <1>3
<1>6. CASE q = 2
  <2>1. q < Len(s) /\ rpc' = "name" /\ q + 1 = 3
    BY <1>1, <1>3, <1>4, <1>6
  <2>2. InRecord(s, r, n, w, b, q + 1)'
    BY <1>1, <1>2, <2>1 DEF InRecord, InHead, InSpans, SpanPositions, InSet
  <2> QED BY <1>1, <1>5, <2>1, <2>2 DEF TokenRead
<1>7. CASE q # 2
  <2>1. q + 1 >= b + 2 /\ rpc' = "loop"
    BY <1>1, <1>2, <1>3, <1>7
  <2>2. InRecord(s, r, n, w, b, q + 1)'
    BY <2>1 DEF InRecord, InHead, InSpans, SpanPositions, InSet
  <2> QED BY <1>1, <1>5, <2>1, <2>2 DEF TokenRead
<1> QED BY <1>6, <1>7

LEMMA ReadsName ==
  ASSUME NEW s, NEW r, NEW n, NEW w, NEW b, RecordLaid(s, r, n, w, b), NEW q, AtToken(s, q),
         InRecord(s, r, n, w, b, q), ReadName
  PROVE  TokenRead(s, r, n, w, b, q)
<1>1. /\ rpc = "name" /\ at' = at + 1 /\ stream' = stream /\ found' = found /\ name' = s[q]
      /\ rpc' = "spans" /\ spans' = spans /\ excludes' = excludes
  BY OneOn DEF ReadName, AtToken
<1>2. q = 3 /\ spans = <<>> /\ excludes = {}
  BY <1>1 DEF InRecord, InHead
<1>3. q < Len(s) /\ q + 1 = 4 /\ q # b + 1
  BY <1>2, RoomBehind
<1>4. s[3] = r.name
  BY DEF RecordLaid, HeadLaid
<1>5. InRecord(s, r, n, w, b, q + 1)'
  BY <1>1, <1>2, <1>3, <1>4 DEF InRecord, InHead, InSpans, SpanPositions, InSet, Named
<1> QED BY <1>1, <1>3, <1>5 DEF TokenRead

LEMMA EntersSpans ==
  ASSUME NEW s, NEW r, NEW n, NEW w, NEW b, RecordLaid(s, r, n, w, b), NEW q, AtToken(s, q),
         InRecord(s, r, n, w, b, q), EnterList("spans", "pair")
  PROVE  TokenRead(s, r, n, w, b, q)
<1>1. /\ rpc = "spans" /\ at' = at + 1 /\ stream' = stream /\ found' = found
      /\ rpc' = (IF s[q] = "[" THEN "pair" ELSE "loop")
      /\ name' = name /\ spans' = spans /\ excludes' = excludes
  BY OneOn DEF EnterList, AtToken, NextIs, snippet
<1>2. q = 4 /\ spans = <<>> /\ Named(r)
  BY <1>1 DEF InRecord, InHead
<1>3. q < Len(s) /\ q + 1 = 6 * 1 - 1 /\ q # b + 1 /\ 1 \in 1 .. n
  BY <1>2, RoomBehind
<1>4. rpc' = "pair"
  BY <1>1, <1>2 DEF RecordLaid, HeadLaid
<1>5. SpansRead(r, 1 - 1)'
  <2>1. Len(spans') = 0 /\ 1 .. 0 = {} /\ 1 - 1 = 0
    BY <1>1, <1>2
  <2> QED BY <2>1 DEF SpansRead
<1>6. InSpan(r, 1, q + 1)'
  BY <1>3, <1>4, <1>5 DEF InSpan
<1>7. InSpans(r, n, q + 1)'
  BY <1>1, <1>2, <1>3, <1>6 DEF InSpans, Named
<1>8. InRecord(s, r, n, w, b, q + 1)'
  BY <1>4, <1>7 DEF InRecord, InHead, InSet
<1> QED BY <1>1, <1>3, <1>8 DEF TokenRead

(* A token of the span j leads to the next one.                            *)
LEMMA SpanGoesOn ==
  ASSUME NEW s, NEW r, NEW n, NEW w, NEW b, RecordLaid(s, r, n, w, b), NEW q,
         at' = at + 1, stream' = stream, found' = found, rpc' \in SpanPositions,
         Named(r)', NEW j \in 1 .. n, q \in 6 * j - 1 .. 6 * j + 4, InSpan(r, j, q + 1)'
  PROVE  TokenRead(s, r, n, w, b, q)
<1>1. n \in Nat \ {0} /\ w = 6 * n + 6 /\ w \in Nat /\ b \in w + 1 .. Len(s) - 1 /\ Len(s) \in Nat
  BY RoomBehind
<1>2. q <= w /\ q \in Int
  BY <1>1
<1>3. q < Len(s) /\ q # b + 1
  BY <1>1, <1>2
<1>4. InSpans(r, n, q + 1)'
  BY DEF InSpans
<1>5. InRecord(s, r, n, w, b, q + 1)'
  BY <1>4 DEF InRecord, InHead, InSet, SpanPositions
<1> QED BY <1>3, <1>5 DEF TokenRead

LEMMA SpanHere ==
  ASSUME NEW s, NEW r, NEW n, NEW w, NEW b, RecordLaid(s, r, n, w, b), NEW q,
         InRecord(s, r, n, w, b, q), rpc \in SpanPositions
  PROVE  Named(r) /\ \E j \in 1 .. n : j \in Nat /\ InSpan(r, j, q) /\ SpanLaid(s, r, j)
<1>1. Named(r) /\ \E j \in 1 .. n : InSpan(r, j, q)
  BY DEF InRecord, InSpans
<1>2. \A j \in 1 .. n : j \in Nat /\ SpanLaid(s, r, j)
  BY RoomBehind DEF RecordLaid
<1> QED BY <1>1, <1>2

LEMMA SpansKept ==
  ASSUME NEW r, NEW j, SpansRead(r, j), spans' = spans
  PROVE  SpansRead(r, j)'
  BY DEF SpansRead

LEMMA ReadsOpening ==
  ASSUME NEW s, NEW r, NEW n, NEW w, NEW b, RecordLaid(s, r, n, w, b), NEW q, AtToken(s, q),
         InRecord(s, r, n, w, b, q), PairToken("pair", "(", "first")
  PROVE  TokenRead(s, r, n, w, b, q)
<1>1. /\ rpc = "pair" /\ at' = at + 1 /\ stream' = stream /\ found' = found
      /\ name' = name /\ excludes' = excludes
      /\ s[q] = "(" => rpc' = "first" /\ spans' = spans
  BY OneOn DEF PairToken, AtToken, NextIs
<1>2. Named(r) /\ \E j \in 1 .. n : j \in Nat /\ InSpan(r, j, q) /\ SpanLaid(s, r, j)
  BY <1>1, SpanHere DEF SpanPositions
<1>3. PICK j \in 1 .. n : j \in Nat /\ InSpan(r, j, q) /\ SpanLaid(s, r, j)
  BY <1>2
<1>4. q = 6 * j - 1 /\ SpansRead(r, j - 1) /\ s[6 * j - 1] = "("
  BY <1>1, <1>3 DEF InSpan, SpanLaid
<1>q. j \in Nat /\ q = 6 * j - 1
  BY <1>3, <1>4
<1>5. rpc' = "first" /\ spans' = spans /\ Named(r)'
  BY <1>1, <1>2, <1>4 DEF Named
<1>6. SpansRead(r, j - 1)'
  BY <1>4, <1>5, SpansKept
<1>7. q + 1 = 6 * j /\ q \in 6 * j - 1 .. 6 * j + 4
  BY ONLY <1>q
<1>8. InSpan(r, j, q + 1)' /\ rpc' \in SpanPositions
  BY <1>5, <1>6, <1>7 DEF InSpan, SpanPositions
<1> QED BY <1>1, <1>3, <1>5, <1>7, <1>8, SpanGoesOn

LEMMA ReadsComma ==
  ASSUME NEW s, NEW r, NEW n, NEW w, NEW b, RecordLaid(s, r, n, w, b), NEW q, AtToken(s, q),
         InRecord(s, r, n, w, b, q), PairToken(",", ",", "second")
  PROVE  TokenRead(s, r, n, w, b, q)
<1>1. /\ rpc = "," /\ at' = at + 1 /\ stream' = stream /\ found' = found
      /\ name' = name /\ excludes' = excludes /\ pair' = pair
      /\ s[q] = "," => rpc' = "second" /\ spans' = spans
  BY OneOn DEF PairToken, AtToken, NextIs
<1>2. Named(r) /\ \E j \in 1 .. n : j \in Nat /\ InSpan(r, j, q) /\ SpanLaid(s, r, j)
  BY <1>1, SpanHere DEF SpanPositions
<1>3. PICK j \in 1 .. n : j \in Nat /\ InSpan(r, j, q) /\ SpanLaid(s, r, j)
  BY <1>2
<1>4. q = 6 * j + 1 /\ SpansRead(r, j - 1) /\ pair[1] = r.spans[j][1] /\ s[6 * j + 1] = ","
  BY <1>1, <1>3 DEF InSpan, SpanLaid
<1>q. j \in Nat /\ q = 6 * j + 1
  BY <1>3, <1>4
<1>5. rpc' = "second" /\ spans' = spans /\ Named(r)' /\ pair'[1] = r.spans[j][1]
  BY <1>1, <1>2, <1>4 DEF Named
<1>6. SpansRead(r, j - 1)'
  BY <1>4, <1>5, SpansKept
<1>7. q + 1 = 6 * j + 2 /\ q \in 6 * j - 1 .. 6 * j + 4
  BY ONLY <1>q
<1>8. InSpan(r, j, q + 1)' /\ rpc' \in SpanPositions
  BY <1>5, <1>6, <1>7 DEF InSpan, SpanPositions
<1> QED BY <1>1, <1>3, <1>5, <1>7, <1>8, SpanGoesOn

(* The spans of a snippet that is written, and the numbers in the file.    *)
LEMMA WrittenSpans ==
  ASSUME NEW r \in WrittenSnippet, NEW j \in 1 .. Len(r.spans)
  PROVE  /\ r.spans[j] \in Spans
         /\ \A k \in {1, 2} : /\ Numeral(r.spans[j][k]) \in DOMAIN NumberOf
                              /\ NumberOf[Numeral(r.spans[j][k])] = r.spans[j][k]
<1>1. /\ r.spans \in Seq(Spans)
      /\ \A i \in DOMAIN r.spans : \A k \in {1, 2} :
           \E t \in DOMAIN NumberOf : NumberOf[t] = r.spans[i][k]
  BY DEF WrittenSnippet, FoundSnippet
<1>2. j \in DOMAIN r.spans /\ r.spans[j] \in Spans
  BY <1>1, LenProperties, ElementOfSeq
<1> QED BY <1>1, <1>2 DEF Numeral

LEMMA ReadsFirst ==
  ASSUME NEW r \in WrittenSnippet, NEW s, NEW n, NEW w, NEW b, RecordLaid(s, r, n, w, b),
         NEW q, AtToken(s, q),
         InRecord(s, r, n, w, b, q), ReadNumber("first", <<NumberRead, 0>>, ",")
  PROVE  TokenRead(s, r, n, w, b, q)
<1>1. /\ rpc = "first" /\ rpc' = "," /\ found' = found /\ AdvanceNumber
      /\ name' = name /\ excludes' = excludes /\ spans' = spans /\ pair' = <<NumberRead, 0>>
      /\ HasToken /\ file[at] = s[q]
  BY DEF ReadNumber, AtToken
<1>2. Named(r) /\ \E j \in 1 .. n : j \in Nat /\ InSpan(r, j, q) /\ SpanLaid(s, r, j)
  BY <1>1, SpanHere DEF SpanPositions
<1>3. PICK j \in 1 .. n : j \in Nat /\ InSpan(r, j, q) /\ SpanLaid(s, r, j)
  BY <1>2
<1>4. q = 6 * j /\ SpansRead(r, j - 1) /\ s[6 * j] = Numeral(r.spans[j][1])
  BY <1>1, <1>3 DEF InSpan, SpanLaid
<1>q. j \in Nat /\ q = 6 * j
  BY <1>3, <1>4
<1>5. file[at] \in DOMAIN NumberOf /\ NumberOf[file[at]] = r.spans[j][1]
  <2>1. j \in 1 .. Len(r.spans)
    BY DEF RecordLaid
  <2> QED BY <1>1, <1>4, <2>1, WrittenSpans
<1>6. IsNumber /\ NumberRead = r.spans[j][1] /\ Advance
  BY <1>1, <1>5 DEF AdvanceNumber, IsNumber, NumberRead
<1>7. at' = at + 1 /\ stream' = stream /\ pair'[1] = r.spans[j][1] /\ Named(r)'
  BY <1>1, <1>2, <1>6, OneOn DEF Named
<1>8. SpansRead(r, j - 1)'
  BY <1>1, <1>4, SpansKept
<1>9. q + 1 = 6 * j + 1 /\ q \in 6 * j - 1 .. 6 * j + 4
  BY ONLY <1>q
<1>10. InSpan(r, j, q + 1)' /\ rpc' \in SpanPositions
  BY <1>1, <1>7, <1>8, <1>9 DEF InSpan, SpanPositions
<1> QED BY <1>1, <1>3, <1>7, <1>9, <1>10, SpanGoesOn

LEMMA ReadsSecond ==
  ASSUME NEW r \in WrittenSnippet, NEW s, NEW n, NEW w, NEW b, RecordLaid(s, r, n, w, b),
         NEW q, AtToken(s, q),
         InRecord(s, r, n, w, b, q), ReadNumber("second", <<pair[1], NumberRead>>, ")")
  PROVE  TokenRead(s, r, n, w, b, q)
<1>1. /\ rpc = "second" /\ rpc' = ")" /\ found' = found /\ AdvanceNumber
      /\ name' = name /\ excludes' = excludes /\ spans' = spans /\ pair' = <<pair[1], NumberRead>>
      /\ HasToken /\ file[at] = s[q]
  BY DEF ReadNumber, AtToken
<1>2. Named(r) /\ \E j \in 1 .. n : j \in Nat /\ InSpan(r, j, q) /\ SpanLaid(s, r, j)
  BY <1>1, SpanHere DEF SpanPositions
<1>3. PICK j \in 1 .. n : j \in Nat /\ InSpan(r, j, q) /\ SpanLaid(s, r, j)
  BY <1>2
<1>4. /\ q = 6 * j + 2 /\ SpansRead(r, j - 1) /\ pair[1] = r.spans[j][1]
      /\ s[6 * j + 2] = Numeral(r.spans[j][2])
  BY <1>1, <1>3 DEF InSpan, SpanLaid
<1>q. j \in Nat /\ q = 6 * j + 2
  BY <1>3, <1>4
<1>5. /\ file[at] \in DOMAIN NumberOf /\ NumberOf[file[at]] = r.spans[j][2]
      /\ r.spans[j] \in Spans
  <2>1. j \in 1 .. Len(r.spans)
    BY DEF RecordLaid
  <2> QED BY <1>1, <1>4, <2>1, WrittenSpans
<1>6. IsNumber /\ NumberRead = r.spans[j][2] /\ Advance
  BY <1>1, <1>5 DEF AdvanceNumber, IsNumber, NumberRead
<1>7. at' = at + 1 /\ stream' = stream /\ Named(r)'
  BY <1>1, <1>2, <1>6, OneOn DEF Named
<1>p. pair' = r.spans[j]
  <2>1. pair' = <<r.spans[j][1], r.spans[j][2]>>
    BY <1>1, <1>4, <1>6
  <2> QED BY <1>5, <2>1 DEF Spans
<1>8. SpansRead(r, j - 1)'
  BY <1>1, <1>4, SpansKept
<1>9. q + 1 = 6 * j + 3 /\ q \in 6 * j - 1 .. 6 * j + 4
  BY ONLY <1>q
<1>10. InSpan(r, j, q + 1)' /\ rpc' \in SpanPositions
  BY <1>1, <1>p, <1>8, <1>9 DEF InSpan, SpanPositions
<1> QED BY <1>1, <1>3, <1>7, <1>9, <1>10, SpanGoesOn

LEMMA ReadsClosing ==
  ASSUME NEW s, NEW r, NEW n, NEW w, NEW b, RecordLaid(s, r, n, w, b), NEW q, AtToken(s, q),
         InRecord(s, r, n, w, b, q), ClosePair
  PROVE  TokenRead(s, r, n, w, b, q)
<1>1. /\ rpc = ")" /\ at' = at + 1 /\ stream' = stream /\ found' = found
      /\ name' = name /\ excludes' = excludes
      /\ s[q] = ")" => rpc' = "more" /\ spans' = Append(spans, pair)
  BY OneOn DEF ClosePair, AtToken, NextIs
<1>2. Named(r) /\ \E j \in 1 .. n : j \in Nat /\ InSpan(r, j, q) /\ SpanLaid(s, r, j)
  BY <1>1, SpanHere DEF SpanPositions
<1>3. PICK j \in 1 .. n : j \in Nat /\ InSpan(r, j, q) /\ SpanLaid(s, r, j)
  BY <1>2
<1>4. q = 6 * j + 3 /\ SpansRead(r, j - 1) /\ pair = r.spans[j] /\ s[6 * j + 3] = ")"
  BY <1>1, <1>3 DEF InSpan, SpanLaid
<1>q. j \in Nat /\ q = 6 * j + 3
  BY <1>3, <1>4
<1>5. rpc' = "more" /\ spans' = Append(spans, pair) /\ Named(r)'
  BY <1>1, <1>2, <1>4 DEF Named
<1>6. SpansRead(r, j)'
  <2>1. spans \in Seq(Spans) /\ pair \in Spans
    BY DEF AtToken, ReaderTypeOK
  <2>2. Len(spans) = j - 1 /\ \A k \in 1 .. j - 1 : spans[k] = r.spans[k]
    BY <1>4 DEF SpansRead
  <2>3. /\ Len(spans') = Len(spans) + 1 /\ spans'[Len(spans) + 1] = pair
        /\ \A k \in 1 .. Len(spans) : spans'[k] = spans[k]
    BY <1>5, <2>1, AppendFacts
  <2>4. Len(spans') = j /\ spans'[j] = r.spans[j]
    BY <1>3, <1>4, <2>2, <2>3
  <2>5. ASSUME NEW k \in 1 .. j PROVE spans'[k] = r.spans[k]
    <3>1. k = j \/ k \in 1 .. j - 1
      BY <1>3
    <3> QED BY <2>2, <2>3, <2>4, <3>1
  <2> QED BY <2>4, <2>5 DEF SpansRead
<1>7. q + 1 = 6 * j + 4 /\ q \in 6 * j - 1 .. 6 * j + 4
  BY ONLY <1>q
<1>8. InSpan(r, j, q + 1)' /\ rpc' \in SpanPositions
  BY <1>5, <1>6, <1>7 DEF InSpan, SpanPositions
<1> QED BY <1>1, <1>3, <1>5, <1>7, <1>8, SpanGoesOn

LEMMA ReadsSeparator ==
  ASSUME NEW s, NEW r, NEW n, NEW w, NEW b, RecordLaid(s, r, n, w, b), NEW q, AtToken(s, q),
         InRecord(s, r, n, w, b, q), NextSpan
  PROVE  TokenRead(s, r, n, w, b, q)
<1>1. /\ rpc = "more" /\ at' = at + 1 /\ stream' = stream /\ found' = found
      /\ name' = name /\ excludes' = excludes /\ spans' = spans
      /\ rpc' = (IF s[q] = "]" THEN "exclude" ELSE "pair")
  BY OneOn DEF NextSpan, AtToken, NextIs, snippet
<1>2. Named(r) /\ \E j \in 1 .. n : j \in Nat /\ InSpan(r, j, q) /\ SpanLaid(s, r, j)
  BY <1>1, SpanHere DEF SpanPositions
<1>3. PICK j \in 1 .. n : j \in Nat /\ InSpan(r, j, q) /\ SpanLaid(s, r, j)
  BY <1>2
<1>4. /\ q = 6 * j + 4 /\ SpansRead(r, j)
      /\ s[6 * j + 4] = IF j < n THEN "," ELSE "]"
  BY <1>1, <1>3 DEF InSpan, SpanLaid, RecordLaid
<1>q. j \in Nat /\ q = 6 * j + 4
  BY <1>3, <1>4
<1>5. Named(r)' /\ SpansRead(r, j)'
  BY <1>1, <1>2, <1>4, SpansKept DEF Named
<1>6. /\ n \in Nat \ {0} /\ w = 6 * n + 6 /\ w \in Nat /\ b \in w + 1 .. Len(s) - 1 /\ Len(s) \in Nat
  BY RoomBehind
<1>7. CASE j < n
  <2>1. rpc' = "pair"
    BY <1>1, <1>4, <1>7
  <2>2. PICK i : i = j + 1
    OBVIOUS
  <2>3. i \in 1 .. n /\ i - 1 = j /\ q + 1 = 6 * i - 1
    BY <1>q, <1>6, <1>7, <2>2
  <2>4. InSpan(r, i, q + 1)'
    BY <1>5, <2>1, <2>3 DEF InSpan
  <2>5. InSpans(r, n, q + 1)'
    BY <1>5, <2>3, <2>4 DEF InSpans
  <2>6. InRecord(s, r, n, w, b, q + 1)'
    BY <2>1, <2>5 DEF InRecord, InHead, InSet
  <2>7. q < Len(s) /\ q # b + 1
    BY <1>q, <1>6
  <2> QED BY <1>1, <2>6, <2>7 DEF TokenRead
<1>8. CASE ~(j < n)
  <2>1. rpc' = "exclude" /\ j = n
    BY <1>1, <1>3, <1>4, <1>6, <1>8
  <2>2. q + 1 = w - 1 /\ q < Len(s) /\ q # b + 1
    BY <1>q, <1>6, <2>1
  <2>3. InRecord(s, r, n, w, b, q + 1)'
    BY <1>5, <2>1, <2>2 DEF InRecord, InHead, InSpans, SpanPositions, InSet
  <2> QED BY <1>1, <2>2, <2>3 DEF TokenRead
<1> QED BY <1>7, <1>8

LEMMA ReadsExclude ==
  ASSUME NEW s, NEW r, NEW n, NEW w, NEW b, RecordLaid(s, r, n, w, b), NEW q, AtToken(s, q),
         InRecord(s, r, n, w, b, q), Expect("exclude", "set")
  PROVE  TokenRead(s, r, n, w, b, q)
<1>1. /\ rpc = "exclude" /\ at' = at + 1 /\ stream' = stream /\ found' = found
      /\ rpc' = (IF s[q] = "exclude" THEN "set" ELSE "loop")
      /\ name' = name /\ spans' = spans /\ excludes' = excludes
  BY OneOn DEF Expect, AtToken
<1>2. q = w - 1 /\ Named(r) /\ SpansRead(r, n)
  BY <1>1 DEF InRecord, InSet
<1>3. /\ n \in Nat \ {0} /\ w = 6 * n + 6 /\ w \in Nat /\ b \in w + 1 .. Len(s) - 1 /\ Len(s) \in Nat
  BY RoomBehind
<1>4. q + 1 = w /\ q < Len(s) /\ q # b + 1
  BY <1>2, <1>3
<1>5. s[q] = "exclude"
  <2>1. s[6 * n + 5] = "exclude"
    BY DEF RecordLaid, HeadLaid
  <2>2. q = 6 * n + 5
    BY <1>2, <1>3
  <2> QED BY <2>1, <2>2
<1>6. Named(r)' /\ SpansRead(r, n)'
  BY <1>1, <1>2, SpansKept DEF Named
<1>7. rpc' = "set"
  BY <1>1, <1>5
<1>8. InRecord(s, r, n, w, b, q + 1)'
  BY <1>4, <1>6, <1>7 DEF InRecord, InHead, InSpans, SpanPositions, InSet
<1> QED BY <1>1, <1>4, <1>8 DEF TokenRead

LEMMA EntersSet ==
  ASSUME NEW s, NEW r, NEW n, NEW w, NEW b, RecordLaid(s, r, n, w, b), NEW q, AtToken(s, q),
         InRecord(s, r, n, w, b, q), EnterList("set", "members")
  PROVE  TokenRead(s, r, n, w, b, q)
<1>1. /\ rpc = "set" /\ at' = at + 1 /\ stream' = stream /\ found' = found
      /\ rpc' = (IF s[q] = "[" THEN "members" ELSE "]")
      /\ name' = name /\ spans' = spans /\ excludes' = excludes
  BY OneOn DEF EnterList, AtToken, NextIs, snippet
<1>2. q = w /\ Named(r) /\ SpansRead(r, n)
  BY <1>1 DEF InRecord, InSet
<1>3. /\ n \in Nat \ {0} /\ w = 6 * n + 6 /\ w \in Nat /\ b \in w + 1 .. Len(s) - 1 /\ Len(s) \in Nat
  BY RoomBehind
<1>4. q + 1 = w + 1 /\ q < Len(s) /\ q # b + 1 /\ q + 1 \in w + 1 .. b /\ w + 1 .. q + 1 - 1 = {}
  BY <1>2, <1>3
<1>5. s[q] = "["
  <2>1. s[6 * n + 6] = "["
    BY DEF RecordLaid, HeadLaid
  <2> QED BY <1>2, <1>3, <2>1
<1>6. name' = r.name /\ SpansRead(r, n)' /\ excludes' = {} /\ rpc' = "members"
  BY <1>1, <1>2, <1>5, SpansKept DEF Named
<1>7. ReadUntil(s, w, q + 1) = {}
  <2> SUFFICES ASSUME NEW v \in ReadUntil(s, w, q + 1) PROVE FALSE
    OBVIOUS
  <2>1. PICK e : e = q + 1
    OBVIOUS
  <2>2. PICK k \in w + 1 .. e - 1 : v = s[k]
    BY <2>1 DEF ReadUntil
  <2> QED BY <1>4, <2>1, <2>2
<1>8. InRecord(s, r, n, w, b, q + 1)'
  <2>1. InSet(s, r, n, w, b, q + 1)'
    BY <1>4, <1>6, <1>7 DEF InSet
  <2> QED BY <1>6, <2>1 DEF InRecord, InHead, InSpans, SpanPositions
<1> QED BY <1>1, <1>4, <1>8 DEF TokenRead

LEMMA ReadOne ==
  ASSUME NEW s, NEW w \in Nat, NEW q \in Nat, w + 1 <= q
  PROVE  ReadUntil(s, w, q + 1) = ReadUntil(s, w, q) \cup ({s[q]} \ {","})
<1>1. \A k : k \in w + 1 .. q + 1 - 1 <=> k \in w + 1 .. q - 1 \/ k = q
  OBVIOUS
<1>2. PICK e, A, B : e = q + 1 /\ A = w + 1 .. e - 1 /\ B = w + 1 .. q - 1
  OBVIOUS
<1>3. \A k : k \in A <=> k \in B \/ k = q
  BY <1>1, <1>2
<1>4. ReadUntil(s, w, e) = {s[k] : k \in A} \ {","} /\ ReadUntil(s, w, q) = {s[k] : k \in B} \ {","}
  BY <1>2 DEF ReadUntil
<1>5. {s[k] : k \in A} = {s[k] : k \in B} \cup {s[q]}
  BY ONLY <1>3
<1>6. PICK X, Y, c : X = {s[k] : k \in A} /\ Y = {s[k] : k \in B} /\ c = {","}
  OBVIOUS
<1> QED BY <1>2, <1>4, <1>5, <1>6

LEMMA ReadsMember ==
  ASSUME NEW s, NEW r, NEW n, NEW w, NEW b, RecordLaid(s, r, n, w, b), NEW q, AtToken(s, q),
         InRecord(s, r, n, w, b, q), ReadMember
  PROVE  TokenRead(s, r, n, w, b, q)
<1>1. /\ rpc = "members" /\ at' = at + 1 /\ stream' = stream /\ found' = found
      /\ s[q] = "]" => rpc' = "]" /\ excludes' = excludes
      /\ s[q] # "]" => rpc' = "members" /\ excludes' = excludes \cup ({s[q]} \ {","})
      /\ name' = name /\ spans' = spans
  BY OneOn DEF ReadMember, AtToken, NextIs
<1>2. q \in w + 1 .. b /\ name = r.name /\ SpansRead(r, n) /\ excludes = ReadUntil(s, w, q)
  BY <1>1 DEF InRecord, InSet
<1>3. /\ n \in Nat \ {0} /\ w = 6 * n + 6 /\ w \in Nat /\ b \in w + 1 .. Len(s) - 1 /\ Len(s) \in Nat
      /\ b \in Nat
  BY RoomBehind
<1>4. q \in Nat /\ w + 1 <= q /\ q < Len(s) /\ q # b + 1
  BY <1>2, <1>3
<1>5. s[b] = "]" /\ \A k \in w + 1 .. b - 1 : s[k] # "]"
  BY DEF RecordLaid, BracketLaid
<1>6. name' = r.name /\ SpansRead(r, n)'
  BY <1>1, <1>2, SpansKept
<1>7. CASE q = b
  <2>1. rpc' = "]" /\ excludes' = ReadUntil(s, w, b) /\ q + 1 = b + 1
    BY <1>1, <1>2, <1>5, <1>7
  <2>2. InRecord(s, r, n, w, b, q + 1)'
    BY <1>6, <2>1 DEF InRecord, InHead, InSpans, SpanPositions, InSet
  <2> QED BY <1>1, <1>4, <2>2 DEF TokenRead
<1>8. CASE q # b
  <2>1. q \in w + 1 .. b - 1 /\ q + 1 \in w + 1 .. b
    BY <1>2, <1>3, <1>8
  <2>2. rpc' = "members" /\ excludes' = excludes \cup ({s[q]} \ {","})
    BY <1>1, <1>5, <2>1
  <2>3. excludes' = ReadUntil(s, w, q + 1)
    <3>1. ReadUntil(s, w, q + 1) = ReadUntil(s, w, q) \cup ({s[q]} \ {","})
      BY <1>3, <1>4, ReadOne
    <3> QED BY <1>2, <2>2, <3>1
  <2>4. InSet(s, r, n, w, b, q + 1)'
    BY <1>6, <2>1, <2>2, <2>3 DEF InSet
  <2>5. InRecord(s, r, n, w, b, q + 1)'
    BY <2>2, <2>4 DEF InRecord, InHead, InSpans, SpanPositions
  <2> QED BY <1>1, <1>4, <2>5 DEF TokenRead
<1> QED BY <1>7, <1>8

LEMMA ReadsEnd ==
  ASSUME NEW r \in WrittenSnippet, NEW s, NEW n, NEW w, NEW b, RecordLaid(s, r, n, w, b),
         NEW q, AtToken(s, q), InRecord(s, r, n, w, b, q), CloseSnippet
  PROVE  TokenRead(s, r, n, w, b, q)
<1>1. /\ rpc = "]" /\ at' = at + 1 /\ stream' = stream /\ rpc' = "loop" /\ token' = s[q]
      /\ found' = IF s[q] = "]"
                  THEN Append(found, [name |-> name, spans |-> spans, excludes |-> excludes])
                  ELSE found
  BY OneOn DEF CloseSnippet, AtToken
<1>2. q = b + 1 /\ name = r.name /\ SpansRead(r, n) /\ excludes = ReadUntil(s, w, b)
  BY <1>1 DEF InRecord, InSet
<1>3. /\ Readable(r) => s[b + 1] = "]" /\ ReadUntil(s, w, b) = r.excludes \ {"]", ","}
      /\ ~Readable(r) => s[b + 1] # "]"
  BY DEF RecordLaid, BracketLaid
<1>4. r \in FoundSnippet /\ r.spans \in Seq(Spans) /\ Len(r.spans) = n /\ spans \in Seq(Spans)
  BY DEF WrittenSnippet, FoundSnippet, RecordLaid, AtToken, ReaderTypeOK
<1>5. spans = r.spans
  <2>1. Len(spans) = Len(r.spans) /\ \A k \in 1 .. Len(spans) : spans[k] = r.spans[k]
    BY <1>2, <1>4 DEF SpansRead
  <2> QED BY ONLY <1>4, <2>1, SeqEqual
<1>6. [name |-> r.name, spans |-> r.spans, excludes |-> r.excludes \ {"]", ","}] = ReadBack(r)
  <2>1. PICK A, B, C, e : /\ A = Tokens \cup {""} /\ B = Seq(Spans) /\ C = SUBSET Tokens
                          /\ e = r.excludes \ {"]", ","}
    OBVIOUS
  <2>2. r \in [name : A, spans : B, excludes : C]
    BY <1>4, <2>1 DEF FoundSnippet
  <2>3. [name |-> r.name, spans |-> r.spans, excludes |-> e] = [r EXCEPT !.excludes = e]
    BY ONLY <2>2
  <2> QED BY <2>1, <2>3 DEF ReadBack
<1>r. IF q < Len(s) THEN InRecord(s, r, n, w, b, q + 1)' ELSE rpc' = "loop"
  <2>1. q + 1 >= b + 2
    BY <1>2, RoomBehind
  <2> QED BY <1>1, <2>1 DEF InRecord, InHead, InSpans, SpanPositions, InSet
<1>7. CASE Readable(r)
  <2>1. s[q] = "]" /\ excludes = r.excludes \ {"]", ","}
    BY <1>2, <1>3, <1>7
  <2>2. found' = Append(found, ReadBack(r))
    BY <1>1, <1>2, <1>5, <1>6, <2>1
  <2> QED BY <1>1, <1>2, <1>r, <1>7, <2>2 DEF TokenRead
<1>8. CASE ~Readable(r)
  <2>1. s[q] # "]" /\ found' = found
    BY <1>1, <1>2, <1>3, <1>8
  <2> QED BY <1>1, <1>r, <1>8, <2>1 DEF TokenRead
<1> QED BY <1>7, <1>8

(* Each step at a token of a record.                                       *)
LEMMA RecordStep ==
  ASSUME NEW r \in WrittenSnippet, NEW s, NEW n, NEW w, NEW b, RecordLaid(s, r, n, w, b),
         NEW q, AtToken(s, q), InRecord(s, r, n, w, b, q), ReaderNext
  PROVE  \/ TokenRead(s, r, n, w, b, q)
         \/ at' = at /\ found' = found /\ stream' = stream /\ InRecord(s, r, n, w, b, q)'
<1>1. CASE OpenDatabase
  <2>1. /\ rpc = "opening" /\ rpc' \in {"loop", "done"}
        /\ at' = at /\ found' = found /\ stream' = stream
    BY <1>1 DEF OpenDatabase
  <2>2. q = 1
    BY <2>1 DEF InRecord, InHead
  <2> QED BY <2>1, <2>2 DEF InRecord, InHead, InSpans, SpanPositions, InSet
<1>2. CASE Loop
  <2>1. /\ rpc = "loop" /\ rpc' \in {"Snippet", "done"} /\ spans' = <<>> /\ excludes' = {}
        /\ at' = at /\ found' = found /\ stream' = stream
    BY <1>2 DEF Loop
  <2>2. q = 1 \/ q >= b + 2
    BY <2>1 DEF InRecord, InHead
  <2> QED BY <2>1, <2>2 DEF InRecord, InHead, InSpans, SpanPositions, InSet
<1>3. CASE Returned
  <2>1. /\ rpc = "done" /\ rpc' = "done" /\ at' = at /\ found' = found /\ stream' = stream
    BY <1>3 DEF Returned, readerVars
  <2> QED BY <2>1 DEF InRecord, InHead, InSpans, SpanPositions, InSet
<1>4. CASE Expect("Snippet", "[") BY <1>4, ReadsSnippet
<1>5. CASE Expect("[", "name") BY <1>5, ReadsBracket
<1>6. CASE ReadName BY <1>6, ReadsName
<1>7. CASE EnterList("spans", "pair") BY <1>7, EntersSpans
<1>8. CASE PairToken("pair", "(", "first") BY <1>8, ReadsOpening
<1>9. CASE ReadNumber("first", <<NumberRead, 0>>, ",") BY <1>9, ReadsFirst
<1>10. CASE PairToken(",", ",", "second") BY <1>10, ReadsComma
<1>11. CASE ReadNumber("second", <<pair[1], NumberRead>>, ")") BY <1>11, ReadsSecond
<1>12. CASE ClosePair BY <1>12, ReadsClosing
<1>13. CASE NextSpan BY <1>13, ReadsSeparator
<1>14. CASE Expect("exclude", "set") BY <1>14, ReadsExclude
<1>15. CASE EnterList("set", "members") BY <1>15, EntersSet
<1>16. CASE ReadMember BY <1>16, ReadsMember
<1>17. CASE CloseSnippet BY <1>17, ReadsEnd
<1> QED BY <1>1, <1>2, <1>3, <1>4, <1>5, <1>6, <1>7, <1>8, <1>9, <1>10, <1>11, <1>12, <1>13,
           <1>14, <1>15, <1>16, <1>17 DEF ReaderNext

-----------------------------------------------------------------------------
(* Where the records of the database stand in the file.                    *)
Length(i) == Len(RecordTokens(db[i]))
LaidOut ==
    /\ Len(db) \in Nat /\ DOMAIN db = 1 .. Len(db) /\ \A i \in 1 .. Len(db) : db[i] \in WrittenSnippet
    /\ RecordBefore(1) = 0 /\ \A i \in 1 .. Len(db) + 1 : RecordBefore(i) \in Nat
    /\ \A i \in 1 .. Len(db) : RecordBefore(i + 1) = RecordBefore(i) + Length(i)
    /\ Len(file) = cut /\ cut \in 0 .. RecordBefore(Len(db) + 1)
    /\ \A i \in 1 .. Len(db) : \A q \in 1 .. Length(i) :
         RecordBefore(i) + q <= cut => file[RecordBefore(i) + q] = RecordTokens(db[i])[q]

LEMMA PartsAgree ==
  ASSUME NEW T, NEW ss \in Seq(Seq(T)), NEW tt \in Seq(Seq(T)), NEW off, NEW opp,
         PartsEnd(off, ss), PartsEnd(opp, tt),
         Len(tt) <= Len(ss), \A i \in 1 .. Len(tt) : tt[i] = ss[i]
  PROVE  opp[Len(tt)] = off[Len(tt)]
<1>1. PICK n, m : n = Len(tt) /\ m = Len(ss)
  OBVIOUS
<1>2. n \in Nat /\ m \in Nat /\ n <= m
  BY <1>1, LenProperties
<1>3. /\ off[0] = 0 /\ \A i \in 1 .. m : off[i] = off[i - 1] + Len(ss[i])
      /\ opp[0] = 0 /\ \A i \in 1 .. n : opp[i] = opp[i - 1] + Len(tt[i])
  BY <1>1 DEF PartsEnd
<1> DEFINE A == {i \in Nat : i <= n => opp[i] = off[i]}
<1>4. 0 \in A
  BY <1>3
<1>5. ASSUME NEW i \in Nat, i \in A PROVE i + 1 \in A
  <2> SUFFICES ASSUME i + 1 <= n PROVE opp[i + 1] = off[i + 1]
    OBVIOUS
  <2>1. i + 1 \in 1 .. n /\ i + 1 \in 1 .. m /\ i <= n /\ (i + 1) - 1 = i
    BY <1>2
  <2>2. opp[i] = off[i] /\ tt[i + 1] = ss[i + 1]
    BY <1>1, <1>5, <2>1
  <2>3. opp[i + 1] = opp[i] + Len(tt[i + 1]) /\ off[i + 1] = off[i] + Len(ss[i + 1])
    BY <1>3, <2>1
  <2> QED BY <2>2, <2>3
<1>6. \A i \in Nat : i \in A
  <2> HIDE DEF A
  <2> QED BY <1>4, <1>5, AllNumbers
<1> QED BY <1>1, <1>2, <1>6

LEMMA RecordsOf ==
  ASSUME NEW n \in Nat, NEW d, DOMAIN d = 1 .. n, \A i \in 1 .. n : d[i] \in WrittenSnippet
  PROVE  LET ss == [i \in DOMAIN d |-> RecordTokens(d[i])]
         IN  /\ ss \in Seq(Seq(Tokens)) /\ Len(ss) = n /\ FileOf(d) = FlattenSeq(ss)
             /\ \A i \in 1 .. n : ss[i] = RecordTokens(d[i])
<1>1. PICK ss : ss = [i \in DOMAIN d |-> RecordTokens(d[i])]
  OBVIOUS
<1>2. ss = [i \in 1 .. n |-> ss[i]] /\ \A i \in 1 .. n : ss[i] = RecordTokens(d[i])
  BY <1>1
<1>3. \A i \in 1 .. n : ss[i] \in Seq(Tokens)
  <2> SUFFICES ASSUME NEW i \in 1 .. n PROVE ss[i] \in Seq(Tokens)
    OBVIOUS
  <2>1. d[i] \in WrittenSnippet
    OBVIOUS
  <2> QED BY <1>2, <2>1, RecordFacts
<1>4. ss \in Seq(Seq(Tokens)) /\ Len(ss) = n
  <2>1. n \in Nat
    OBVIOUS
  <2> QED BY ONLY <1>2, <1>3, <2>1, SequenceOf
<1>5. FileOf(d) = FlattenSeq(ss)
  BY <1>1 DEF FileOf
<1> QED BY <1>1, <1>2, <1>4, <1>5

(* The records before the record i end where it begins.                    *)
Offsets(off, d, n) ==
    /\ off \in [0 .. n -> Nat] /\ off[0] = 0
    /\ \A i \in 1 .. n : off[i] = off[i - 1] + Len(RecordTokens(d[i]))
    /\ FileOf(d) \in Seq(Tokens) /\ Len(FileOf(d)) = off[n]
    /\ \A i \in 1 .. n : \A q \in 1 .. Len(RecordTokens(d[i])) :
         FileOf(d)[off[i - 1] + q] = RecordTokens(d[i])[q]
    /\ \A i \in 1 .. n + 1 : Len(FileOf(SubSeq(d, 1, i - 1))) = off[i - 1]

LEMMA FileLaid ==
  ASSUME NEW n \in Nat, NEW d, d \in Seq(WrittenSnippet), Len(d) = n
  PROVE  \E off : Offsets(off, d, n)
<1>1. DOMAIN d = 1 .. n /\ \A i \in 1 .. n : d[i] \in WrittenSnippet
  BY LenProperties, ElementOfSeq
<1>2. PICK ss : /\ ss \in Seq(Seq(Tokens)) /\ Len(ss) = n /\ FileOf(d) = FlattenSeq(ss)
                /\ \A i \in 1 .. n : ss[i] = RecordTokens(d[i])
  BY <1>1, RecordsOf
<1>3. PICK off : /\ PartsEnd(off, ss) /\ Len(FlattenSeq(ss)) = off[Len(ss)]
                 /\ \A i \in 1 .. Len(ss) : \A k \in 1 .. Len(ss[i]) :
                      FlattenSeq(ss)[off[i - 1] + k] = ss[i][k]
  BY ONLY <1>2, Flattened
<1>4. FlattenSeq(ss) \in Seq(Tokens)
  BY ONLY <1>2, Flattened
<1>5. ASSUME NEW i \in 1 .. n + 1 PROVE Len(FileOf(SubSeq(d, 1, i - 1))) = off[i - 1]
  <2>0. i - 1 \in Nat
    OBVIOUS
  <2>1. PICK m, e : m \in Nat /\ m = i - 1 /\ e = SubSeq(d, 1, m)
    BY <2>0
  <2>2. m <= n
    BY <2>1
  <2>3. DOMAIN e = 1 .. m /\ \A k \in 1 .. m : e[k] = d[k] /\ k \in 1 .. n
    BY <1>1, <2>1, <2>2
  <2>4. \A k \in 1 .. m : e[k] \in WrittenSnippet
    BY <1>1, <2>3
  <2>5. PICK tt : /\ tt \in Seq(Seq(Tokens)) /\ Len(tt) = m /\ FileOf(e) = FlattenSeq(tt)
                  /\ \A k \in 1 .. m : tt[k] = RecordTokens(e[k])
    <3>1. m \in Nat /\ DOMAIN e = 1 .. m
      BY <2>1, <2>3
    <3>2. LET rr == [k \in DOMAIN e |-> RecordTokens(e[k])]
          IN  /\ rr \in Seq(Seq(Tokens)) /\ Len(rr) = m /\ FileOf(e) = FlattenSeq(rr)
              /\ \A k \in 1 .. m : rr[k] = RecordTokens(e[k])
      BY ONLY <2>4, <3>1, RecordsOf
    <3> QED BY <3>2
  <2>6. PICK opp : PartsEnd(opp, tt) /\ Len(FlattenSeq(tt)) = opp[Len(tt)]
    BY ONLY <2>5, Flattened
  <2>7. Len(tt) <= Len(ss) /\ \A k \in 1 .. Len(tt) : tt[k] = ss[k]
    BY <1>2, <2>2, <2>3, <2>5
  <2>8. opp[Len(tt)] = off[Len(tt)]
    BY ONLY <1>2, <1>3, <2>5, <2>6, <2>7, PartsAgree
  <2> QED BY <2>1, <2>5, <2>6, <2>8
<1>6. /\ off \in [0 .. n -> Nat] /\ off[0] = 0
      /\ \A i \in 1 .. n : off[i] = off[i - 1] + Len(RecordTokens(d[i]))
  BY <1>2, <1>3 DEF PartsEnd
<1>7. \A i \in 1 .. n : \A q \in 1 .. Len(RecordTokens(d[i])) :
        FileOf(d)[off[i - 1] + q] = RecordTokens(d[i])[q]
  BY <1>2, <1>3
<1>8. Offsets(off, d, n)
  BY <1>2, <1>3, <1>4, <1>5, <1>6, <1>7 DEF Offsets
<1> QED BY <1>8

LEMMA LaidOutInit == WInit => LaidOut
<1> SUFFICES ASSUME WInit PROVE LaidOut
  OBVIOUS
<1>1. PICK n : n = Len(db)
  OBVIOUS
<1>2. db \in Seq(WrittenSnippet)
  <2>1. db \in Seq(FoundSnippet) /\ \A i \in DOMAIN db : db[i] \in WrittenSnippet
    BY DatabasesAssumption DEF WInit
  <2> QED BY <2>1
<1>3. n \in Nat /\ DOMAIN db = 1 .. n /\ \A i \in 1 .. n : db[i] \in WrittenSnippet
  BY <1>1, <1>2, LenProperties, ElementOfSeq
<1>4. PICK off : /\ off \in [0 .. n -> Nat] /\ off[0] = 0
                 /\ \A i \in 1 .. n : off[i] = off[i - 1] + Len(RecordTokens(db[i]))
                 /\ FileOf(db) \in Seq(Tokens) /\ Len(FileOf(db)) = off[n]
                 /\ \A i \in 1 .. n : \A q \in 1 .. Len(RecordTokens(db[i])) :
                      FileOf(db)[off[i - 1] + q] = RecordTokens(db[i])[q]
                 /\ \A i \in 1 .. n + 1 : Len(FileOf(SubSeq(db, 1, i - 1))) = off[i - 1]
  <2>1. \E off : Offsets(off, db, n)
    BY ONLY <1>1, <1>2, <1>3, FileLaid
  <2> QED BY <2>1 DEF Offsets
<1>5. \A i \in 1 .. n + 1 : RecordBefore(i) = off[i - 1] /\ RecordBefore(i) \in Nat
  <2>1. \A i \in 1 .. n + 1 : i - 1 \in 0 .. n
    BY <1>3
  <2> QED BY <1>4, <2>1 DEF RecordBefore
<1>6. RecordBefore(1) = 0
  <2>1. 1 \in 1 .. n + 1 /\ 1 - 1 = 0
    BY <1>3
  <2> QED BY <1>4, <1>5, <2>1
<1>7. ASSUME NEW i \in 1 .. n PROVE RecordBefore(i + 1) = RecordBefore(i) + Length(i)
  <2>1. i \in 1 .. n + 1 /\ i + 1 \in 1 .. n + 1 /\ (i + 1) - 1 = i
    BY <1>3
  <2>2. RecordBefore(i) = off[i - 1] /\ RecordBefore(i + 1) = off[i]
    BY <1>5, <2>1
  <2> QED BY <1>4, <2>2 DEF Length
<1>8. Len(file) = cut /\ cut \in 0 .. RecordBefore(n + 1) /\ \A k \in 1 .. cut : file[k] = FileOf(db)[k]
  <2>1. n + 1 \in 1 .. n + 1 /\ (n + 1) - 1 = n
    BY <1>3
  <2>2. RecordBefore(n + 1) = Len(FileOf(db))
    BY <1>4, <1>5, <2>1
  <2>3. PICK all : all = FileOf(db)
    OBVIOUS
  <2>4. cut \in 0 .. Len(all) /\ file = SubSeq(all, 1, cut) /\ all \in Seq(Tokens)
    BY <1>4, <2>3 DEF WInit
  <2>5. Len(file) = cut /\ \A k \in 1 .. cut : file[k] = all[k]
    BY ONLY <2>4
  <2> QED BY <2>2, <2>3, <2>4, <2>5
<1>9. ASSUME NEW i \in 1 .. n, NEW q \in 1 .. Length(i), RecordBefore(i) + q <= cut
      PROVE  file[RecordBefore(i) + q] = RecordTokens(db[i])[q]
  <2>1. i \in 1 .. n + 1 /\ q \in 1 .. Len(RecordTokens(db[i]))
    BY <1>3 DEF Length
  <2>2. PICK x : x = RecordBefore(i)
    OBVIOUS
  <2>3. x = off[i - 1] /\ x \in Nat
    BY <1>5, <2>1, <2>2
  <2>4. x + q \in 1 .. cut
    BY <1>9, <2>1, <2>2, <2>3, <1>8
  <2>5. FileOf(db)[x + q] = RecordTokens(db[i])[q]
    BY <1>4, <2>1, <2>3
  <2> QED BY <1>8, <2>2, <2>4, <2>5
<1> QED BY <1>1, <1>3, <1>5, <1>6, <1>7, <1>8, <1>9 DEF LaidOut

LEMMA LaidOutStays == LaidOut /\ UNCHANGED <<file, db, cut>> => LaidOut'
  BY DEF LaidOut, Length, RecordBefore

(* A record ends before a later one begins.                                *)
LEMMA RecordsInOrder ==
  ASSUME LaidOut
  PROVE  \A j \in 1 .. Len(db) + 1 : \A i \in 1 .. Len(db) :
           i < j => RecordBefore(i) + Length(i) <= RecordBefore(j)
<1>1. PICK n : n = Len(db)
  OBVIOUS
<1>2. /\ n \in Nat /\ \A i \in 1 .. n + 1 : RecordBefore(i) \in Nat
      /\ \A i \in 1 .. n : RecordBefore(i + 1) = RecordBefore(i) + Length(i)
  BY <1>1 DEF LaidOut
<1>3. \A i \in 1 .. n : Length(i) \in Nat
  <2> SUFFICES ASSUME NEW i \in 1 .. n PROVE Length(i) \in Nat
    OBVIOUS
  <2>1. db[i] \in WrittenSnippet
    BY <1>1 DEF LaidOut
  <2> QED BY <2>1, BracketFacts DEF Length
<1> DEFINE A == {j \in Nat : j \in 1 .. n + 1 => \A i \in 1 .. n : i < j =>
                   RecordBefore(i) + Length(i) <= RecordBefore(j)}
<1>4. 0 \in A
  OBVIOUS
<1>5. ASSUME NEW j \in Nat, j \in A PROVE j + 1 \in A
  <2> SUFFICES ASSUME j + 1 \in 1 .. n + 1, NEW i \in 1 .. n, i < j + 1
               PROVE  RecordBefore(i) + Length(i) <= RecordBefore(j + 1)
    OBVIOUS
  <2>1. CASE i = j
    <3>1. RecordBefore(j + 1) = RecordBefore(i) + Length(i) /\ RecordBefore(i) \in Nat /\ Length(i) \in Nat
      <4>1. i \in 1 .. n + 1
        BY <1>2
      <4> QED BY <1>2, <1>3, <2>1, <4>1
    <3> QED BY <3>1
  <2>2. CASE i # j
    <3>1. i < j /\ j \in 1 .. n /\ j \in 1 .. n + 1 /\ i \in 1 .. n + 1
      BY <1>2, <2>2
    <3>2. RecordBefore(i) + Length(i) <= RecordBefore(j)
      BY <1>5, <3>1
    <3>3. /\ RecordBefore(j + 1) = RecordBefore(j) + Length(j) /\ Length(j) \in Nat /\ Length(i) \in Nat
          /\ RecordBefore(j) \in Nat /\ RecordBefore(i) \in Nat
      BY <1>2, <1>3, <3>1
    <3> QED BY <3>2, <3>3
  <2> QED BY <2>1, <2>2
<1>6. \A j \in Nat : j \in A
  <2> HIDE DEF A
  <2> QED BY <1>4, <1>5, AllNumbers
<1>7. \A j \in 1 .. n + 1 : j \in Nat
  BY <1>2
<1> QED BY <1>1, <1>6, <1>7

-----------------------------------------------------------------------------
(* The records that can be read from the first p tokens, and what has been *)
(* found when they are read.                                               *)
Upto(p) == {i \in DOMAIN db : Readable(db[i]) /\ RecordBefore(i) + Needed(db[i]) <= p}
FoundAs(p) ==
    LET known == Upto(p)
    IN  /\ Len(found) = Cardinality(known)
        /\ \A i \in known : found[Place(i, known)] = ReadBack(db[i])

LEMMA LengthFacts ==
  ASSUME LaidOut, NEW i \in 1 .. Len(db)
  PROVE  /\ db[i] \in WrittenSnippet /\ Length(i) \in Nat /\ Needed(db[i]) \in 1 .. Length(i)
         /\ RecordBefore(i) \in Nat
<1>1. db[i] \in WrittenSnippet /\ Len(db) \in Nat /\ \A k \in 1 .. Len(db) + 1 : RecordBefore(k) \in Nat
  BY DEF LaidOut
<1>2. Length(i) \in Nat /\ Needed(db[i]) \in 1 .. Length(i)
  BY <1>1, BracketFacts DEF Length
<1>3. i \in 1 .. Len(db) + 1
  BY <1>1
<1> QED BY <1>1, <1>2, <1>3

(* One more token of the record i.                                         *)
LEMMA UptoStep ==
  ASSUME LaidOut, NEW i \in 1 .. Len(db), NEW q \in 1 .. Length(i),
         NEW p, p = RecordBefore(i) + q
  PROVE  /\ Upto(p - 1) \in SUBSET (1 .. i)
         /\ ~(Readable(db[i]) /\ q = Needed(db[i])) => Upto(p) = Upto(p - 1)
         /\ Readable(db[i]) /\ q = Needed(db[i]) =>
              Upto(p - 1) \in SUBSET (1 .. i - 1) /\ Upto(p) = Upto(p - 1) \cup {i}
<1>1. /\ Len(db) \in Nat /\ DOMAIN db = 1 .. Len(db)
      /\ \A k \in 1 .. Len(db) + 1 : RecordBefore(k) \in Nat
  BY DEF LaidOut
<1>2. /\ Length(i) \in Nat /\ Needed(db[i]) \in 1 .. Length(i)
      /\ RecordBefore(i) \in Nat /\ p \in Nat /\ q \in Nat
  <2>1. Length(i) \in Nat /\ Needed(db[i]) \in 1 .. Length(i) /\ RecordBefore(i) \in Nat
    BY LengthFacts
  <2> QED BY <2>1
<1>3. ASSUME NEW k \in 1 .. Len(db), k < i
      PROVE  RecordBefore(k) + Needed(db[k]) <= p - 1
  <2>1. RecordBefore(k) + Length(k) <= RecordBefore(i)
    <3>1. i \in 1 .. Len(db) + 1
      BY <1>1
    <3> QED BY <1>3, <3>1, RecordsInOrder
  <2>2. Length(k) \in Nat /\ Needed(db[k]) \in 1 .. Length(k) /\ RecordBefore(k) \in Nat
    BY LengthFacts
  <2>3. PICK x, y, need, len : /\ x = RecordBefore(k) /\ y = RecordBefore(i)
                               /\ need = Needed(db[k]) /\ len = Length(k)
    OBVIOUS
  <2>4. x \in Nat /\ y \in Nat /\ len \in Nat /\ need \in 1 .. len /\ x + len <= y
        /\ p = y + q /\ q \in 1 .. Length(i) /\ Length(i) \in Nat
    BY <1>2, <2>1, <2>2, <2>3
  <2>5. x + need <= p - 1
    BY ONLY <2>4
  <2> QED BY <2>3, <2>5
<1>4. ASSUME NEW k \in 1 .. Len(db), i < k
      PROVE  ~(RecordBefore(k) + Needed(db[k]) <= p)
  <2>1. RecordBefore(i) + Length(i) <= RecordBefore(k)
    <3>1. k \in 1 .. Len(db) + 1
      BY <1>1
    <3> QED BY <1>4, <3>1, RecordsInOrder
  <2>2. Length(k) \in Nat /\ Needed(db[k]) \in 1 .. Length(k) /\ RecordBefore(k) \in Nat
    BY LengthFacts
  <2>3. PICK x, y, need : x = RecordBefore(k) /\ y = RecordBefore(i) /\ need = Needed(db[k])
    OBVIOUS
  <2>4. PICK l, m : l = Length(i) /\ m = Length(k)
    OBVIOUS
  <2>5. x \in Nat /\ y \in Nat /\ l \in Nat /\ m \in Nat /\ need \in 1 .. m /\ y + l <= x
        /\ p = y + q /\ q \in 1 .. l
    BY <1>2, <2>1, <2>2, <2>3, <2>4
  <2>6. ~(x + need <= p)
    BY ONLY <2>5
  <2> QED BY <2>3, <2>6
<1>5. ASSUME NEW k \in 1 .. Len(db), i < k
      PROVE  ~(RecordBefore(k) + Needed(db[k]) <= p - 1)
  <2>1. Needed(db[k]) \in 1 .. Length(k) /\ RecordBefore(k) \in Nat /\ Length(k) \in Nat
    BY LengthFacts
  <2>2. ~(RecordBefore(k) + Needed(db[k]) <= p)
    BY <1>4, <1>5
  <2> QED BY <1>2, <2>1, <2>2
<1>6. \A k : /\ k \in Upto(p) <=>
                  k \in 1 .. Len(db) /\ Readable(db[k]) /\ RecordBefore(k) + Needed(db[k]) <= p
             /\ k \in Upto(p - 1) <=>
                  k \in 1 .. Len(db) /\ Readable(db[k]) /\ RecordBefore(k) + Needed(db[k]) <= p - 1
  BY <1>1 DEF Upto
<1>7. /\ RecordBefore(i) + Needed(db[i]) <= p <=> Needed(db[i]) <= q
      /\ RecordBefore(i) + Needed(db[i]) <= p - 1 <=> Needed(db[i]) <= q /\ q # Needed(db[i])
  BY <1>2
<1>8. Upto(p - 1) \in SUBSET (1 .. i)
  <2> SUFFICES ASSUME NEW k \in Upto(p - 1) PROVE k \in 1 .. i
    OBVIOUS
  <2>1. k \in 1 .. Len(db) /\ ~(i < k)
    BY <1>5, <1>6
  <2> QED BY <1>1, <2>1
<1>9. ASSUME NEW k, k # i PROVE k \in Upto(p) <=> k \in Upto(p - 1)
  <2>1. CASE k \notin 1 .. Len(db)
    BY <1>6, <2>1
  <2>2. CASE k \in 1 .. Len(db) /\ k < i
    <3>1. RecordBefore(k) + Needed(db[k]) <= p - 1
      BY <1>3, <2>2
    <3>2. Needed(db[k]) \in 1 .. Length(k) /\ RecordBefore(k) \in Nat /\ Length(k) \in Nat
      BY <2>2, LengthFacts
    <3>3. RecordBefore(k) + Needed(db[k]) <= p
      BY <1>2, <3>1, <3>2
    <3> QED BY <1>6, <3>1, <3>3
  <2>3. CASE k \in 1 .. Len(db) /\ i < k
    BY <1>4, <1>5, <1>6, <2>3
  <2>4. k \in 1 .. Len(db) => k < i \/ i < k
    BY <1>1, <1>9
  <2> QED BY <2>1, <2>2, <2>3, <2>4
<1>10. CASE Readable(db[i]) /\ q = Needed(db[i])
  <2>1. i \in Upto(p) /\ i \notin Upto(p - 1)
    <3>1. Needed(db[i]) <= q /\ ~(q # Needed(db[i]))
      BY <1>2, <1>10
    <3> QED BY <1>6, <1>7, <1>10, <3>1
  <2>2. Upto(p) = Upto(p - 1) \cup {i}
    BY <1>9, <2>1
  <2>3. Upto(p - 1) \in SUBSET (1 .. i - 1)
    <3> SUFFICES ASSUME NEW k \in Upto(p - 1) PROVE k \in 1 .. i - 1
      OBVIOUS
    <3>1. k \in 1 .. i /\ k # i
      BY <1>8, <2>1
    <3> QED BY <1>1, <3>1
  <2> QED BY <1>8, <1>10, <2>2, <2>3
<1>11. CASE ~(Readable(db[i]) /\ q = Needed(db[i]))
  <2>1. i \in Upto(p) <=> i \in Upto(p - 1)
    BY <1>6, <1>7, <1>11
  <2>2. \A k : k \in Upto(p) <=> k \in Upto(p - 1)
    BY <1>9, <2>1
  <2> QED BY <1>8, <1>11, <2>2
<1> QED BY <1>10, <1>11

(* What is found grows with it.                                            *)
LEMMA FoundGrows ==
  ASSUME LaidOut, found \in Seq(FoundSnippet), NEW i \in 1 .. Len(db), NEW q \in 1 .. Length(i),
         NEW p, p = RecordBefore(i) + q, FoundAs(p - 1), UNCHANGED <<file, db, cut>>,
         found' = IF Readable(db[i]) /\ q = Needed(db[i])
                  THEN Append(found, ReadBack(db[i])) ELSE found
  PROVE  FoundAs(p)'
<1>1. PICK S, T : S = Upto(p - 1) /\ T = Upto(p)
  OBVIOUS
<1>2. T = Upto(p)'
  BY <1>1 DEF Upto, RecordBefore
<1>3. /\ S \in SUBSET (1 .. i) /\ i \in Nat
      /\ ~(Readable(db[i]) /\ q = Needed(db[i])) => T = S
      /\ Readable(db[i]) /\ q = Needed(db[i]) => S \in SUBSET (1 .. i - 1) /\ T = S \cup {i}
  <2>1. i \in Nat
    BY DEF LaidOut
  <2> QED BY <1>1, <2>1, UptoStep
<1>4. Len(found) = Cardinality(S) /\ \A j \in S : found[Place(j, S)] = ReadBack(db[j])
  BY <1>1 DEF FoundAs
<1>5. db' = db
  OBVIOUS
<1>6. CASE ~(Readable(db[i]) /\ q = Needed(db[i]))
  <2>1. T = S /\ found' = found
    BY <1>3, <1>6
  <2> QED BY <1>2, <1>4, <1>5, <2>1 DEF FoundAs
<1>7. CASE Readable(db[i]) /\ q = Needed(db[i])
  <2>1. S \in SUBSET (1 .. i - 1) /\ T = S \cup {i} /\ found' = Append(found, ReadBack(db[i]))
    BY <1>3, <1>7
  <2>2. PICK n \in Nat : n = i - 1
    BY <1>3
  <2>3. n + 1 = i /\ S \in SUBSET (1 .. n)
    BY <1>3, <2>1, <2>2
  <2>4. /\ Cardinality(S) \in Nat
        /\ \A j \in S : Place(j, S) \in 1 .. Cardinality(S) /\ Place(j, S \cup {n + 1}) = Place(j, S)
        /\ Place(n + 1, S \cup {n + 1}) = Cardinality(S) + 1
        /\ Cardinality(S \cup {n + 1}) = Cardinality(S) + 1
    BY ONLY n \in Nat, <2>3, PlaceInRange
  <2>5. ReadBack(db[i]) \in FoundSnippet
    <3>1. db[i] \in FoundSnippet
      BY LengthFacts DEF WrittenSnippet
    <3> QED BY <3>1 DEF FoundSnippet, ReadBack
  <2>6. /\ Len(found') = Len(found) + 1 /\ found'[Len(found) + 1] = ReadBack(db[i])
        /\ \A k \in 1 .. Len(found) : found'[k] = found[k]
    BY <2>1, <2>5, AppendFacts
  <2>7. Len(found') = Cardinality(T)
    BY <1>4, <2>1, <2>3, <2>4, <2>6
  <2>8. ASSUME NEW j \in T PROVE found'[Place(j, T)] = ReadBack(db[j])
    <3>1. CASE j = i
      BY <1>4, <2>1, <2>3, <2>4, <2>6, <3>1
    <3>2. CASE j # i
      <4>1. j \in S
        BY <2>1, <3>2
      <4> QED BY <1>4, <2>1, <2>3, <2>4, <2>6, <4>1
    <3> QED BY <3>1, <3>2
  <2> QED BY <1>2, <1>5, <2>7, <2>8 DEF FoundAs
<1> QED BY <1>6, <1>7

-----------------------------------------------------------------------------
(* The invariant: while there are tokens, the reader stands in a record as *)
(* InRecord says, and found is what can be read up to there.  Behind the   *)
(* last token nothing is taken over any more, because the token is still   *)
(* "exclude" when the closing bracket is missing.                          *)
Doing(r, q) == InRecord(RecordTokens(r), r, Len(r.spans), SetStart(r), Bracket(r), q)
Follows ==
    at <= Len(file) =>
        \E i \in 1 .. Len(db) : \E q \in 1 .. Length(i) :
            at = RecordBefore(i) + q /\ Doing(db[i], q)
NothingLeft ==
    /\ stream \in {"good", "eof"} /\ (stream = "eof" => at = Len(file) + 1)
    /\ rpc \in {"set", "members", "]"} => token = "exclude"
    /\ rpc = "done" => at = 1 \/ at = Len(file) + 1
    /\ rpc = "opening" => at = 1
DInv == RInv /\ LaidOut /\ NothingLeft /\ FoundAs(at - 1) /\ Follows

LEMMA DoingFacts ==
  ASSUME NEW r \in WrittenSnippet
  PROVE  /\ RecordLaid(RecordTokens(r), r, Len(r.spans), SetStart(r), Bracket(r))
         /\ Readable(r) => Bracket(r) + 1 = Needed(r)
<1>1. /\ RecordTokens(r) \in Seq(Tokens) /\ Len(RecordTokens(r)) \in Nat /\ Len(r.spans) \in Nat \ {0}
      /\ HeadLaid(RecordTokens(r), r)
      /\ \A j \in 1 .. Len(r.spans) : SpanLaid(RecordTokens(r), r, j)
      /\ BracketLaid(RecordTokens(r), r, SetStart(r), Bracket(r))
  BY BracketFacts DEF SetStart
<1>2. RecordLaid(RecordTokens(r), r, Len(r.spans), SetStart(r), Bracket(r))
  BY <1>1 DEF RecordLaid, SetStart
<1>3. Readable(r) => Bracket(r) + 1 = Needed(r)
  BY <1>1 DEF BracketLaid
<1> QED BY <1>2, <1>3

(* A record begins where the one before it ends.                           *)
LEMMA NextRecord ==
  ASSUME LaidOut, NEW i \in 1 .. Len(db), RecordBefore(i + 1) + 1 <= Len(file)
  PROVE  i + 1 \in 1 .. Len(db) /\ 1 \in 1 .. Length(i + 1)
<1>1. /\ Len(db) \in Nat /\ Len(file) = cut /\ cut \in 0 .. RecordBefore(Len(db) + 1)
      /\ \A k \in 1 .. Len(db) + 1 : RecordBefore(k) \in Nat
  BY DEF LaidOut
<1>2. i # Len(db)
  <2> SUFFICES ASSUME i = Len(db) PROVE FALSE
    OBVIOUS
  <2>1. PICK x, l : x = RecordBefore(Len(db) + 1) /\ l = Len(file)
    OBVIOUS
  <2>2. x + 1 <= l /\ l \in 0 .. x /\ x \in Nat
    <3>1. Len(db) + 1 \in 1 .. Len(db) + 1
      BY <1>1
    <3> QED BY <1>1, <2>1, <3>1
  <2> QED BY ONLY <2>2
<1>3. i + 1 \in 1 .. Len(db)
  BY <1>1, <1>2
<1>4. Length(i + 1) \in Nat /\ Needed(db[i + 1]) \in 1 .. Length(i + 1)
  BY <1>3, LengthFacts
<1> QED BY <1>3, <1>4

LEMMA BeginsRecord ==
  ASSUME NEW r \in WrittenSnippet, rpc \in {"opening", "loop"}
  PROVE  Doing(r, 1)
  BY DEF Doing, InRecord, InHead, InSpans, SpanPositions, InSet

LEMMA DInvInit == WInit => DInv
<1> SUFFICES ASSUME WInit PROVE DInv
  OBVIOUS
<1>1. LaidOut
  BY LaidOutInit
<1>2. at = 1 /\ stream = "good" /\ rpc = "opening" /\ found = <<>>
  BY DEF WInit, Start
<1>3. /\ Len(db) \in Nat /\ DOMAIN db = 1 .. Len(db) /\ RecordBefore(1) = 0
      /\ Len(file) = cut /\ cut \in 0 .. RecordBefore(Len(db) + 1)
  BY <1>1 DEF LaidOut
<1>4. RInv
  <2>1. FileOf(db) \in Seq(Tokens)
    <3>1. \A i \in 1 .. Len(db) : db[i] \in WrittenSnippet
      BY <1>1 DEF LaidOut
    <3>2. PICK ss : ss \in Seq(Seq(Tokens)) /\ FileOf(db) = FlattenSeq(ss)
      BY <1>3, <3>1, RecordsOf
    <3> QED BY ONLY <3>2, Flattened
  <2>2. file \in Seq(Tokens)
    <3>1. PICK all : all = FileOf(db)
      OBVIOUS
    <3>2. all \in Seq(Tokens) /\ cut \in 0 .. Len(all) /\ file = SubSeq(all, 1, cut)
      BY <2>1, <3>1 DEF WInit
    <3> QED BY ONLY <3>2
  <2> QED BY <2>2, RInvInit DEF WInit
<1>5. NothingLeft
  BY <1>2 DEF NothingLeft
<1>6. FoundAs(at - 1)
  <2>1. Upto(0) = {}
    <3> SUFFICES ASSUME NEW i \in Upto(0) PROVE FALSE
      OBVIOUS
    <3>1. i \in 1 .. Len(db) /\ RecordBefore(i) + Needed(db[i]) <= 0
      BY <1>3 DEF Upto
    <3>2. Needed(db[i]) \in 1 .. Length(i) /\ RecordBefore(i) \in Nat /\ Length(i) \in Nat
      BY <1>1, <3>1, LengthFacts
    <3> QED BY <3>1, <3>2
  <2>2. Cardinality({}) = 0
    BY FS_EmptySet
  <2>3. at - 1 = 0
    BY <1>2
  <2> QED BY <1>2, <2>1, <2>2, <2>3 DEF FoundAs
<1>7. Follows
  <2> SUFFICES ASSUME at <= Len(file)
               PROVE  \E i \in 1 .. Len(db) : \E q \in 1 .. Length(i) :
                        at = RecordBefore(i) + q /\ Doing(db[i], q)
    BY DEF Follows
  <2>1. Len(db) # 0
    <3> SUFFICES ASSUME Len(db) = 0 PROVE FALSE
      OBVIOUS
    <3>1. RecordBefore(Len(db) + 1) = 0
      BY <1>3
    <3> QED BY <1>2, <1>3, <3>1
  <2>2. 1 \in 1 .. Len(db)
    BY <1>3, <2>1
  <2>3. db[1] \in WrittenSnippet /\ Length(1) \in Nat /\ Needed(db[1]) \in 1 .. Length(1)
    BY <1>1, <2>2, LengthFacts
  <2>4. 1 \in 1 .. Length(1) /\ at = RecordBefore(1) + 1
    BY <1>2, <1>3, <2>3
  <2>5. Doing(db[1], 1)
    BY <1>2, <2>3, BeginsRecord
  <2> QED BY <2>2, <2>4, <2>5
<1> QED BY <1>1, <1>4, <1>5, <1>6, <1>7 DEF DInv

(* Behind the last token.                                                  *)
LEMMA StepAtEnd ==
  ASSUME RInv, NothingLeft, ReaderNext, ~(at <= Len(file))
  PROVE  at' = at /\ stream' \in {"good", "eof"} /\ found' = found /\ at = Len(file) + 1
<1>1. ~HasToken /\ at = Len(file) + 1 /\ stream \in {"good", "eof"}
  <2>1. at \in Nat /\ Len(file) \in Nat /\ at <= Len(file) + 1
    BY FileType DEF RInv
  <2> QED BY <2>1 DEF HasToken, NothingLeft
<1>2. Advance => at' = at /\ stream' \in {"good", "eof"}
  BY <1>1 DEF Advance
<1>3. AdvanceNumber => Advance
  BY <1>1 DEF AdvanceNumber
<1>4. CASE OpenDatabase \/ Loop \/ Returned
  BY <1>1, <1>4 DEF OpenDatabase, Loop, Returned, readerVars
<1>5. ASSUME NEW word, NEW next, Expect(word, next) PROVE at' = at /\ stream' \in {"good", "eof"} /\ found' = found
  BY <1>2, <1>5 DEF Expect
<1>6. CASE ReadName
  BY <1>1, <1>2, <1>6 DEF ReadName
<1>7. ASSUME NEW list, NEW next, EnterList(list, next) PROVE at' = at /\ stream' \in {"good", "eof"} /\ found' = found
  BY <1>2, <1>7 DEF EnterList
<1>8. ASSUME NEW position, NEW word, NEW next, PairToken(position, word, next)
      PROVE  at' = at /\ stream' \in {"good", "eof"} /\ found' = found
  BY <1>2, <1>8 DEF PairToken
<1>9. ASSUME NEW position, NEW value, NEW next, ReadNumber(position, value, next)
      PROVE  at' = at /\ stream' \in {"good", "eof"} /\ found' = found
  BY <1>2, <1>3, <1>9 DEF ReadNumber
<1>10. CASE ClosePair \/ NextSpan \/ ReadMember
  BY <1>1, <1>2, <1>10 DEF ClosePair, NextSpan, ReadMember
<1>11. CASE CloseSnippet
  <2>1. rpc = "]" /\ Advance /\ token' = token
    BY <1>1, <1>11 DEF CloseSnippet
  <2>2. token = "exclude"
    BY <2>1 DEF NothingLeft
  <2>3. found' = found
    BY <1>11, <2>1, <2>2 DEF CloseSnippet
  <2> QED BY <1>1, <1>2, <2>1, <2>3
<1> QED BY <1>1, <1>4, <1>5, <1>6, <1>7, <1>8, <1>9, <1>10, <1>11 DEF ReaderNext

(* What a step may not do without a token, and the ways to the end.        *)
LEMMA PositionStep ==
  ASSUME NothingLeft, ReaderNext
  PROVE  /\ rpc' \in {"set", "members", "]"} => token' = "exclude"
         /\ rpc' = "done" => at' = at /\ (at = 1 \/ at = Len(file) + 1)
         /\ rpc' # "opening"
<1> USE DEF NothingLeft
<1>1. CASE OpenDatabase BY <1>1 DEF OpenDatabase
<1>2. CASE Loop BY <1>2 DEF Loop
<1>3. CASE Returned BY <1>3 DEF Returned, readerVars, snippet
<1>4. CASE Expect("Snippet", "[") BY <1>4 DEF Expect
<1>5. CASE Expect("[", "name") BY <1>5 DEF Expect
<1>6. CASE ReadName BY <1>6 DEF ReadName
<1>7. CASE EnterList("spans", "pair") BY <1>7 DEF EnterList
<1>8. CASE PairToken("pair", "(", "first") BY <1>8 DEF PairToken, PairFails
<1>9. CASE ReadNumber("first", <<NumberRead, 0>>, ",") BY <1>9 DEF ReadNumber
<1>10. CASE PairToken(",", ",", "second") BY <1>10 DEF PairToken, PairFails
<1>11. CASE ReadNumber("second", <<pair[1], NumberRead>>, ")") BY <1>11 DEF ReadNumber
<1>12. CASE ClosePair BY <1>12 DEF ClosePair, PairFails
<1>13. CASE NextSpan BY <1>13 DEF NextSpan
<1>14. CASE Expect("exclude", "set") BY <1>14 DEF Expect
<1>15. CASE EnterList("set", "members") BY <1>15 DEF EnterList, snippet
<1>16. CASE ReadMember BY <1>16 DEF ReadMember
<1>17. CASE CloseSnippet BY <1>17 DEF CloseSnippet
<1> QED BY <1>1, <1>2, <1>3, <1>4, <1>5, <1>6, <1>7, <1>8, <1>9, <1>10, <1>11, <1>12, <1>13,
           <1>14, <1>15, <1>16, <1>17 DEF ReaderNext

LEMMA FoundAsStays ==
  ASSUME NEW p, FoundAs(p), UNCHANGED <<file, db, cut>>, found' = found
  PROVE  FoundAs(p)'
<1>1. Upto(p)' = Upto(p)
  BY DEF Upto, RecordBefore
<1> QED BY <1>1 DEF FoundAs

LEMMA FileStays == ReaderNext => file' = file
  BY DEF ReaderNext, OpenDatabase, Loop, Returned, readerVars, Expect, Advance, ReadName, EnterList,
         PairToken, ReadNumber, AdvanceNumber, ClosePair, NextSpan, ReadMember, CloseSnippet

(* The token that is read next, and what a step does with it.              *)
StepIn(r, q) ==
    \/ TokenRead(RecordTokens(r), r, Len(r.spans), SetStart(r), Bracket(r), q)
    \/ at' = at /\ found' = found /\ stream' = stream /\ Doing(r, q)'

LEMMA StepInRecord ==
  ASSUME DInv, ReaderNext, at <= Len(file)
  PROVE  \E i \in 1 .. Len(db) : \E q \in 1 .. Length(i) : at = RecordBefore(i) + q /\ StepIn(db[i], q)
<1>1. /\ at \in Nat /\ Len(file) \in Nat /\ ReaderTypeOK /\ LaidOut
  BY FileType DEF DInv, RInv
<1>2. PICK i \in 1 .. Len(db) : \E q \in 1 .. Length(i) : at = RecordBefore(i) + q /\ Doing(db[i], q)
  BY DEF DInv, Follows
<1>3. PICK q \in 1 .. Length(i) : at = RecordBefore(i) + q /\ Doing(db[i], q)
  BY <1>2
<1>4. PICK r, s, n, w, b : /\ r = db[i] /\ s = RecordTokens(r) /\ n = Len(r.spans)
                           /\ w = SetStart(r) /\ b = Bracket(r)
  OBVIOUS
<1>5. r \in WrittenSnippet /\ Length(i) = Len(s) /\ q \in 1 .. Len(s)
  BY <1>1, <1>3, <1>4, LengthFacts DEF Length
<1>6. RecordLaid(s, r, n, w, b)
  BY <1>4, <1>5, DoingFacts
<1>7. InRecord(s, r, n, w, b, q)
  BY <1>3, <1>4 DEF Doing
<1>8. AtToken(s, q)
  <2>1. file[RecordBefore(i) + q] = RecordTokens(db[i])[q]
    <3>1. RecordBefore(i) + q <= cut
      BY <1>1, <1>3 DEF LaidOut
    <3> QED BY <1>1, <1>3, <3>1 DEF LaidOut
  <2>2. HasToken
    <3>1. at # Len(file) + 1
      BY <1>1
    <3> QED BY <3>1 DEF HasToken, DInv, NothingLeft
  <2> QED BY <1>1, <1>3, <1>4, <1>5, <2>1, <2>2 DEF AtToken
<1>9. \/ TokenRead(s, r, n, w, b, q)
      \/ at' = at /\ found' = found /\ stream' = stream /\ InRecord(s, r, n, w, b, q)'
  BY ONLY <1>5, <1>6, <1>7, <1>8, ReaderNext, RecordStep
<1>10. StepIn(r, q)
  BY <1>4, <1>9 DEF StepIn, Doing
<1> QED BY <1>3, <1>4, <1>10

(* A token of the record i is read.                                        *)
LEMMA StepAtToken ==
  ASSUME DInv, ReaderNext, UNCHANGED <<db, cut>>, at <= Len(file)
  PROVE  /\ stream' = stream /\ at' \in {at, at + 1}
         /\ FoundAs(at - 1)' /\ Follows'
<1>1. /\ at \in Nat /\ Len(file) \in Nat /\ found \in Seq(FoundSnippet) /\ ReaderTypeOK
      /\ file' = file /\ db' = db /\ cut' = cut /\ LaidOut
  BY FileType, FileStays DEF DInv, RInv, ReaderTypeOK
<1>0. PICK i \in 1 .. Len(db) : \E q \in 1 .. Length(i) : at = RecordBefore(i) + q /\ StepIn(db[i], q)
  BY StepInRecord
<1>2. PICK q \in 1 .. Length(i) : at = RecordBefore(i) + q /\ StepIn(db[i], q)
  BY <1>0
<1>3. PICK r, s, n, w, b : /\ r = db[i] /\ s = RecordTokens(r) /\ n = Len(r.spans)
                           /\ w = SetStart(r) /\ b = Bracket(r)
  OBVIOUS
<1>4. /\ r \in WrittenSnippet /\ Length(i) = Len(s) /\ Len(s) \in Nat /\ Needed(r) \in 1 .. Len(s)
      /\ RecordBefore(i) \in Nat /\ q \in Nat /\ q \in 1 .. Len(s)
  <2>1. Length(i) = Len(s)
    BY <1>3 DEF Length
  <2>2. /\ r \in WrittenSnippet /\ Length(i) \in Nat /\ Needed(r) \in 1 .. Length(i)
        /\ RecordBefore(i) \in Nat
    BY <1>1, <1>2, <1>3, LengthFacts
  <2> QED BY <1>2, <2>1, <2>2
<1>5. Readable(r) => b + 1 = Needed(r)
  BY <1>3, <1>4, DoingFacts
<1>8. \/ TokenRead(s, r, n, w, b, q)
      \/ at' = at /\ found' = found /\ stream' = stream /\ InRecord(s, r, n, w, b, q)'
  BY <1>2, <1>3 DEF StepIn, Doing
<1>9. Len(db)' = Len(db) /\ RecordBefore(i)' = RecordBefore(i) /\ Length(i)' = Length(i)
      /\ db'[i] = r
  BY <1>1, <1>3 DEF RecordBefore, Length
<1>10. CASE at' = at /\ found' = found /\ stream' = stream /\ InRecord(s, r, n, w, b, q)'
  <2>1. FoundAs(at - 1) /\ at' - 1 = at - 1
    BY <1>10 DEF DInv
  <2>2. FoundAs(at - 1)'
    <3>1. PICK p : p = at - 1 /\ p = at' - 1
      BY <2>1
    <3>2. FoundAs(p)'
      BY <1>1, <1>10, <2>1, <3>1, FoundAsStays
    <3> QED BY <3>1, <3>2 DEF FoundAs, Upto
  <2>3. Doing(db[i], q)'
    BY <1>3, <1>9, <1>10 DEF Doing
  <2>4. Follows'
    BY <1>2, <1>9, <1>10, <2>3 DEF Follows
  <2> QED BY <1>10, <2>2, <2>4
<1>11. CASE TokenRead(s, r, n, w, b, q)
  <2>1. /\ at' = at + 1 /\ stream' = stream
        /\ found' = IF Readable(r) /\ q = b + 1 THEN Append(found, ReadBack(r)) ELSE found
        /\ IF q < Len(s) THEN InRecord(s, r, n, w, b, q + 1)' ELSE rpc' = "loop"
    BY <1>11 DEF TokenRead
  <2>2. PICK p : p = at /\ p = at' - 1
    BY <1>1, <2>1
  <2>3. FoundAs(at - 1)'
    <3>1. found' = IF Readable(db[i]) /\ q = Needed(db[i]) THEN Append(found, ReadBack(db[i])) ELSE found
      BY <1>3, <1>5, <2>1
    <3>2. FoundAs(at - 1)
      BY DEF DInv
    <3>3. FoundAs(p)'
      BY <1>1, <1>2, <2>2, <3>1, <3>2, FoundGrows
    <3> QED BY <2>2, <3>3 DEF FoundAs, Upto
  <2>4. CASE q < Len(s)
    <3>1. q + 1 \in 1 .. Length(i)' /\ at' = RecordBefore(i)' + (q + 1)
      <4>1. q + 1 \in 1 .. Len(s)
        BY ONLY <1>4, <2>4
      <4>2. PICK x : x = RecordBefore(i) /\ x \in Nat /\ x = RecordBefore(i)'
        BY <1>4, <1>9
      <4>3. at' = x + (q + 1)
        BY <1>2, <1>4, <2>1, <4>2
      <4> QED BY <1>4, <1>9, <4>1, <4>2, <4>3
    <3>2. PICK x : x = q + 1
      OBVIOUS
    <3>3. Doing(db[i], x)'
      BY <1>3, <1>9, <2>1, <2>4, <3>2 DEF Doing
    <3>4. Follows'
      BY <1>2, <1>9, <3>1, <3>2, <3>3 DEF Follows
    <3> QED BY <2>1, <2>3, <3>4
  <2>5. CASE ~(q < Len(s))
    <3>1. rpc' = "loop" /\ q = Len(s)
      BY <1>4, <2>1, <2>5
    <3>2. RecordBefore(i + 1) = at
      BY <1>1, <1>2, <1>4, <3>1 DEF LaidOut
    <3>3. PICK e : e = i + 1
      OBVIOUS
    <3>4. ASSUME at' <= Len(file) PROVE Follows'
      <4>1. e \in 1 .. Len(db) /\ 1 \in 1 .. Length(e)
        BY <1>1, <2>1, <3>2, <3>3, <3>4, NextRecord
      <4>2. db[e] \in WrittenSnippet
        BY <1>1, <4>1, LengthFacts
      <4>3. Len(db)' = Len(db) /\ RecordBefore(e)' = RecordBefore(e) /\ Length(e)' = Length(e)
            /\ db'[e] = db[e]
        BY <1>1 DEF RecordBefore, Length
      <4>4. PICK d : d = db[e]
        OBVIOUS
      <4>5. Doing(d, 1)'
        BY <3>1 DEF Doing, InRecord, InHead, InSpans, SpanPositions, InSet
      <4>6. at' = RecordBefore(e)' + 1 /\ Doing(db[e], 1)'
        BY <2>1, <3>2, <3>3, <4>3, <4>4, <4>5 DEF Doing
      <4> QED BY <4>1, <4>3, <4>6 DEF Follows
    <3>5. ~(at' <= Len(file)) => Follows'
      BY <1>1 DEF Follows
    <3> QED BY <2>1, <2>3, <3>4, <3>5
  <2> QED BY <2>4, <2>5
<1> QED BY <1>8, <1>10, <1>11

LEMMA InRecordStays ==
  ASSUME NEW s, NEW r, NEW n, NEW w, NEW b, NEW q, InRecord(s, r, n, w, b, q),
         rpc' = rpc, name' = name, spans' = spans, excludes' = excludes, pair' = pair
  PROVE  InRecord(s, r, n, w, b, q)'
<1>1. Named(r)' <=> Named(r)
  BY DEF Named
<1>2. ASSUME NEW j PROVE SpansRead(r, j)' <=> SpansRead(r, j)
  BY DEF SpansRead
<1>3. InHead(s, r, b, q)'
  BY <1>1 DEF InRecord, InHead
<1>4. InSpans(r, n, q)'
  BY <1>1, <1>2 DEF InRecord, InSpans, SpanPositions, InSpan
<1>5. InSet(s, r, n, w, b, q)'
  BY <1>1, <1>2 DEF InRecord, InSet
<1> QED BY <1>3, <1>4, <1>5 DEF InRecord

LEMMA DInvStep == DInv /\ [WNext]_allVars => DInv'
<1> SUFFICES ASSUME DInv, [WNext]_allVars PROVE DInv'
  OBVIOUS
<1>1. CASE UNCHANGED allVars
  <2>1. /\ file' = file /\ at' = at /\ stream' = stream /\ rpc' = rpc /\ token' = token
        /\ name' = name /\ spans' = spans /\ excludes' = excludes /\ pair' = pair
        /\ found' = found /\ db' = db /\ cut' = cut
    BY <1>1 DEF allVars, readerVars, snippet
  <2>2. RInv'
    BY <2>1, RInvStep DEF DInv, readerVars, snippet
  <2>3. LaidOut'
    BY <2>1, LaidOutStays DEF DInv
  <2>4. NothingLeft'
    BY <2>1 DEF DInv, NothingLeft
  <2>5. FoundAs(at - 1)'
    BY <2>1 DEF DInv, FoundAs, Upto, RecordBefore
  <2>6. Follows'
    <3>1. ASSUME NEW i \in 1 .. Len(db)
          PROVE  RecordBefore(i)' = RecordBefore(i) /\ Length(i)' = Length(i) /\ db'[i] = db[i]
      BY <2>1 DEF RecordBefore, Length
    <3>2. ASSUME NEW r, NEW q, Doing(r, q) PROVE Doing(r, q)'
      <4>1. PICK t, n, w, b : t = RecordTokens(r) /\ n = Len(r.spans) /\ w = SetStart(r) /\ b = Bracket(r)
        OBVIOUS
      <4>2. InRecord(t, r, n, w, b, q)'
        BY <2>1, <3>2, <4>1, InRecordStays DEF Doing
      <4> QED BY <4>1, <4>2 DEF Doing
    <3>3. SUFFICES ASSUME at <= Len(file) PROVE Follows'
      BY <2>1 DEF Follows
    <3>4. PICK i \in 1 .. Len(db) : \E q \in 1 .. Length(i) : at = RecordBefore(i) + q /\ Doing(db[i], q)
      BY <3>3 DEF DInv, Follows
    <3>5. PICK q \in 1 .. Length(i) : at = RecordBefore(i) + q /\ Doing(db[i], q)
      BY <3>4
    <3>6. PICK r : r = db[i] /\ Doing(r, q)
      BY <3>5
    <3>7. Doing(r, q)'
      BY <3>2, <3>6
    <3>8. Doing(db[i], q)'
      BY <2>1, <3>6, <3>7 DEF Doing
    <3> QED BY <2>1, <3>1, <3>5, <3>8 DEF Follows
  <2> QED BY <2>2, <2>3, <2>4, <2>5, <2>6 DEF DInv
<1>2. CASE WNext
  <2>1. ReaderNext /\ db' = db /\ cut' = cut /\ file' = file
    BY <1>2, FileStays DEF WNext
  <2>2. RInv'
    BY <2>1, RInvStep DEF DInv
  <2>3. LaidOut'
    BY <2>1, LaidOutStays DEF DInv
  <2>4. /\ rpc' \in {"set", "members", "]"} => token' = "exclude"
        /\ rpc' = "done" => at' = at /\ (at = 1 \/ at = Len(file) + 1)
        /\ rpc' # "opening"
    BY <2>1, PositionStep DEF DInv
  <2>5. CASE at <= Len(file)
    <3>1. /\ stream' = stream /\ at' \in {at, at + 1}
          /\ FoundAs(at - 1)' /\ Follows'
      BY <2>1, <2>5, StepAtToken
    <3>2. stream = "good"
      <4>1. at # Len(file) + 1
        BY <2>5, FileType DEF DInv, RInv
      <4> QED BY <4>1 DEF DInv, NothingLeft
    <3>3. NothingLeft'
      BY <2>1, <2>4, <3>1, <3>2 DEF NothingLeft
    <3>4. FoundAs(at - 1)'
      BY <3>1
    <3> QED BY <2>2, <2>3, <3>1, <3>3, <3>4 DEF DInv
  <2>6. CASE ~(at <= Len(file))
    <3>1. at' = at /\ stream' \in {"good", "eof"} /\ found' = found /\ at = Len(file) + 1
      BY <2>1, <2>6, StepAtEnd DEF DInv
    <3>2. NothingLeft'
      BY <2>1, <2>4, <3>1 DEF NothingLeft
    <3>3. FoundAs(at - 1)'
      <4>1. PICK p : p = at - 1 /\ p = at' - 1
        BY <3>1
      <4>2. FoundAs(p)'
        BY <2>1, <3>1, <4>1, FoundAsStays DEF DInv
      <4> QED BY <4>1, <4>2 DEF FoundAs, Upto
    <3>4. Follows'
      BY <2>1, <2>6, <3>1 DEF Follows
    <3> QED BY <2>2, <2>3, <3>2, <3>3, <3>4 DEF DInv
  <2> QED BY <2>5, <2>6
<1> QED BY <1>1, <1>2

(* What can be read so far is the first part of what can be read.          *)
LEMMA DInvImplies == DInv => DatabaseIsReadBack
<1> SUFFICES ASSUME DInv PROVE DatabaseIsReadBack
  OBVIOUS
<1>1. PICK p, S, T : p = at - 1 /\ S = Upto(p) /\ T = Upto(cut)
  OBVIOUS
<1>2. T = Arrived
  BY <1>1 DEF Upto, Arrived
<1>3. /\ p \in Nat /\ p <= cut /\ cut \in Nat /\ Len(file) = cut /\ LaidOut
      /\ Len(db) \in Nat /\ DOMAIN db = 1 .. Len(db)
      /\ \A i \in 1 .. Len(db) + 1 : RecordBefore(i) \in Nat
  <2>1. at \in Nat /\ 1 <= at /\ at <= Len(file) + 1 /\ Len(file) \in Nat
    BY FileType DEF DInv, RInv
  <2>2. Len(file) = cut
    BY DEF DInv, LaidOut
  <2> QED BY <1>1, <2>1, <2>2 DEF DInv, LaidOut
<1>4. Len(found) = Cardinality(S) /\ \A i \in S : found[Place(i, S)] = ReadBack(db[i])
  BY <1>1 DEF DInv, FoundAs
<1>5. /\ \A i : i \in S <=> i \in 1 .. Len(db) /\ Readable(db[i]) /\ RecordBefore(i) + Needed(db[i]) <= p
      /\ \A i : i \in T <=> i \in 1 .. Len(db) /\ Readable(db[i]) /\ RecordBefore(i) + Needed(db[i]) <= cut
  BY <1>1, <1>3 DEF Upto
<1>6. ASSUME NEW i \in 1 .. Len(db) PROVE RecordBefore(i) + Needed(db[i]) \in Nat
  <2>1. Needed(db[i]) \in 1 .. Length(i) /\ RecordBefore(i) \in Nat /\ Length(i) \in Nat
    BY <1>3, LengthFacts
  <2> QED BY <2>1
<1>7. S \subseteq T
  <2> SUFFICES ASSUME NEW i \in S PROVE i \in T
    OBVIOUS
  <2>1. RecordBefore(i) + Needed(db[i]) \in Nat /\ RecordBefore(i) + Needed(db[i]) <= p
    BY <1>5, <1>6
  <2>2. RecordBefore(i) + Needed(db[i]) <= cut
    BY <1>3, <2>1
  <2> QED BY <1>5, <2>2
<1>8. ASSUME NEW i \in S, NEW j \in T, j < i PROVE j \in S
  <2>1. i \in 1 .. Len(db) /\ j \in 1 .. Len(db) /\ RecordBefore(i) + Needed(db[i]) <= p
        /\ i \in 1 .. Len(db) + 1
    BY <1>3, <1>5
  <2>2. RecordBefore(j) + Length(j) <= RecordBefore(i)
    BY <1>3, <1>8, <2>1, RecordsInOrder
  <2>3. /\ Needed(db[i]) \in 1 .. Length(i) /\ RecordBefore(i) \in Nat /\ Length(i) \in Nat
        /\ Needed(db[j]) \in 1 .. Length(j) /\ RecordBefore(j) \in Nat /\ Length(j) \in Nat
    BY <1>3, <2>1, LengthFacts
  <2>4. RecordBefore(j) + Needed(db[j]) <= p
    BY <1>3, <2>1, <2>2, <2>3
  <2> QED BY <1>5, <2>4
<1>9. S \in SUBSET (1 .. Len(db)) /\ T \in SUBSET (1 .. Len(db))
  BY <1>5
<1>10. IsFiniteSet(T) /\ IsFiniteSet(S) /\ Cardinality(S) \in Nat /\ Cardinality(T) \in Nat
  BY <1>3, <1>9, PlaceInRange
<1>11. Cardinality(S) <= Cardinality(T)
  BY <1>7, <1>10, FS_Subset
<1>12. ASSUME NEW i \in S PROVE Place(i, T) = Place(i, S)
  <2>1. \A j : j \in T /\ j <= i <=> j \in S /\ j <= i
    <3> SUFFICES ASSUME NEW j \in T, j <= i PROVE j \in S
      BY <1>7
    <3>1. j = i \/ j < i
      BY <1>3, <1>9
    <3> QED BY <1>8, <3>1
  <2>2. {j \in T : j <= i} = {j \in S : j <= i}
    BY <2>1
  <2> QED BY <2>2 DEF Place
<1>13. ASSUME NEW i \in T, i \notin S PROVE ~(Place(i, T) <= Len(found))
  <2>1. S \cup {i} \subseteq {j \in T : j <= i}
    <3> SUFFICES ASSUME NEW j \in S PROVE j \in T /\ j <= i
      BY <1>3, <1>9
    <3>1. ~(i < j)
      BY <1>8, <1>13
    <3> QED BY <1>3, <1>7, <1>9, <3>1
  <2>2. Cardinality(S \cup {i}) = Cardinality(S) + 1
    BY <1>10, <1>13, FS_AddElement
  <2>3. IsFiniteSet({j \in T : j <= i})
    BY <1>10, FS_Subset
  <2>4. Cardinality(S \cup {i}) <= Place(i, T) /\ Place(i, T) \in Nat
    BY <2>1, <2>3, FS_Subset, FS_CardinalityType DEF Place
  <2> QED BY <1>4, <1>10, <2>2, <2>4
<1>14. ASSUME NEW i \in T, Place(i, T) <= Len(found) PROVE found[Place(i, T)] = ReadBack(db[i])
  <2>1. i \in S
    BY <1>13, <1>14
  <2> QED BY <1>4, <1>12, <2>1
<1>15. ASSUME rpc = "done" PROVE Len(found) = Cardinality(T) \/ at = 1
  <2>1. at = 1 \/ at = Len(file) + 1
    BY <1>15 DEF DInv, NothingLeft
  <2>2. at = Len(file) + 1 => p = cut
    BY <1>1, <1>3
  <2> QED BY <1>1, <1>4, <2>1, <2>2
<1> QED BY <1>2, <1>4, <1>11, <1>14, <1>15 DEF DatabaseIsReadBack

(* What snippets() returns is what has been written, as far as it reached  *)
(* the file: the readable snippets in their order, none twice, whatever    *)
(* the snippets and the words they exclude are called (cppextractor.cc:    *)
(* 416-471, algorithm.cc:26-42).                                           *)
THEOREM DatabaseAlwaysReadBack == WSpec => []DatabaseIsReadBack
<1>1. WSpec => []DInv
  BY DInvInit, DInvStep, PTL DEF WSpec
<1> QED BY <1>1, DInvImplies, PTL

-----------------------------------------------------------------------------
(* Where the list of spans of a record ends.                               *)
LEMMA SpanListLength ==
  ASSUME NEW r \in WrittenSnippet
  PROVE  Len(Listed(SpanItems(r))) = 6 * Len(r.spans) + 1 /\ Len(r.spans) \in Nat \ {0}
<1>1. PICK n, A : n = Len(r.spans) /\ A = SpanItems(r)
  OBVIOUS
<1>2. n \in Nat \ {0} /\ A \in Seq(Seq(Tokens)) /\ Len(A) = n /\ \A j \in 1 .. n : Len(A[j]) = 5
  BY <1>1, SpanItemsFacts
<1>3. PICK M : M = 6
  OBVIOUS
<1>4. HasBrackets(Tokens) /\ M \in Nat /\ (M = 2 \/ M = 6)
  BY <1>3, TokensAssumption DEF HasBrackets, Punctuation
<1>5. \A j \in 1 .. Len(A) : Len(A[j]) = M - 1
  BY <1>2, <1>3
<1>6. ListedAs(Listed(A), A, M)
  BY ONLY <1>2, <1>4, <1>5, ListedFacts
<1>7. Len(Listed(A)) = M * n + 1
  BY <1>2, <1>6 DEF ListedAs
<1> QED BY <1>1, <1>2, <1>3, <1>7

(* Reading comes to be within a list at the token q + 1 of a record: the   *)
(* file ends in that list if it ends there.                                *)
LEMMA EndsInList ==
  ASSUME LaidOut, NEW i \in 1 .. Len(db), NEW q \in 1 .. Length(i),
         cut = RecordBefore(i) + q, NEW r, r = db[i], NEW p, p = q + 1, InList', Doing(r, p)'
  PROVE  CutInList
<1>1. PICK s, n, w, b : /\ s = RecordTokens(r) /\ n = Len(r.spans)
                        /\ w = SetStart(r) /\ b = Bracket(r)
  OBVIOUS
<1>2. /\ r \in WrittenSnippet /\ Length(i) \in Nat /\ RecordBefore(i) \in Nat /\ i \in DOMAIN db
      /\ Length(i) = Len(s)
  <2>1. DOMAIN db = 1 .. Len(db)
    BY DEF LaidOut
  <2> QED BY <1>1, <2>1, LengthFacts DEF Length
<1>3. RecordLaid(s, r, n, w, b)
  BY <1>1, <1>2, DoingFacts
<1>4. n \in Nat \ {0} /\ w = 6 * n + 6 /\ b \in w + 1 .. Len(s) - 1 /\ Len(s) \in Nat
  BY <1>3, RoomBehind
<1>5. PICK z, l : z = RecordBefore(i) /\ l = Len(s)
  OBVIOUS
<1>6. InRecord(s, r, n, w, b, p)'
  BY <1>1 DEF Doing
<1>7. Len(Listed(SpanItems(r))) = 6 * n + 1
  BY <1>1, <1>2, SpanListLength
<1>8. PICK e : e = z + 4 + (6 * n + 1) - 1
  OBVIOUS
<1>9. cut \in z + 4 .. e - 1 \/ cut \in e + 2 .. z + l - 2
  <2>1. cut = z + q /\ p = q + 1 /\ z \in Nat /\ l \in Nat /\ q \in Nat /\ n \in Nat
    BY <1>2, <1>4, <1>5
  <2>2. CASE rpc' = "members"
    <3>1. p \in w + 1 .. b
      BY <1>6, <2>2 DEF InRecord, InSet
    <3>2. b \in w + 1 .. l - 1
      BY <1>4, <1>5
    <3>3. p >= 6 * n + 7 /\ p <= l - 1
      BY ONLY <1>4, <2>1, <3>1, <3>2
    <3> QED BY ONLY <1>8, <2>1, <3>3
  <2>3. CASE rpc' \in SpanPositions
    <3>1. PICK j \in 1 .. n : InSpan(r, j, p)'
      BY <1>6, <2>3 DEF InRecord, InSpans
    <3>2. p >= 6 * j - 1 /\ p <= 6 * j + 4
      <4>1. q \in Nat /\ j \in Nat
        BY <2>1, <3>1
      <4>2. p \in {6 * j - 1, 6 * j, 6 * j + 1, 6 * j + 2, 6 * j + 3, 6 * j + 4}
        BY <2>3, <3>1 DEF InSpan, SpanPositions
      <4> QED BY ONLY <4>1, <4>2
    <3>3. j \in Nat /\ 1 <= j /\ j <= n
      BY ONLY <2>1, <3>1
    <3> QED BY ONLY <1>8, <2>1, <3>2, <3>3
  <2> QED BY <2>2, <2>3 DEF InList, SpanPositions
<1>10. e = z + 4 + Len(Listed(SpanItems(r))) - 1
  BY <1>7, <1>8
<1> QED BY <1>1, <1>2, <1>5, <1>9, <1>10 DEF CutInList, SpanItems

(* A token is taken, but for the operators that look at the stream only.   *)
LEMMA TakesToken ==
  ASSUME ReaderNext, HasToken, stream' = "good"
  PROVE  \/ UNCHANGED readerVars
         \/ at' = at /\ rpc = "opening" /\ rpc' \in {"loop", "done"}
         \/ at' = at /\ rpc = "loop" /\ rpc' = "Snippet"
         \/ at' = at + 1 /\ rpc' # "opening"
<1>1. Advance => at' = at + 1
  BY DEF Advance
<1>2. AdvanceNumber => Advance
  BY DEF AdvanceNumber
<1>3. CASE OpenDatabase BY <1>3 DEF OpenDatabase
<1>4. CASE Loop BY <1>4 DEF Loop, HasToken
<1>5. CASE Returned BY <1>5 DEF Returned
<1>6. CASE Expect("Snippet", "[") \/ Expect("[", "name") \/ Expect("exclude", "set")
  BY <1>1, <1>6 DEF Expect
<1>7. CASE ReadName BY <1>1, <1>7 DEF ReadName
<1>8. CASE EnterList("spans", "pair") \/ EnterList("set", "members")
  BY <1>1, <1>8 DEF EnterList
<1>9. CASE PairToken("pair", "(", "first") \/ PairToken(",", ",", "second")
  BY <1>1, <1>9 DEF PairToken, PairFails
<1>10. CASE \/ ReadNumber("first", <<NumberRead, 0>>, ",")
            \/ ReadNumber("second", <<pair[1], NumberRead>>, ")")
  BY <1>1, <1>2, <1>10 DEF ReadNumber
<1>11. CASE ClosePair BY <1>1, <1>11 DEF ClosePair, PairFails
<1>12. CASE NextSpan BY <1>1, <1>12 DEF NextSpan
<1>13. CASE ReadMember BY <1>1, <1>13 DEF ReadMember
<1>14. CASE CloseSnippet BY <1>1, <1>14 DEF CloseSnippet
<1> QED BY <1>3, <1>4, <1>5, <1>6, <1>7, <1>8, <1>9, <1>10, <1>11, <1>12, <1>13, <1>14 DEF ReaderNext

(* Without a token no list is entered.                                     *)
LEMMA EndsWithoutToken ==
  ASSUME ReaderNext, ~HasToken, stream \in {"good", "eof"}, rpc \in Positions, ~InList
  PROVE  /\ rpc' \in Positions /\ ~InList'
         /\ \/ UNCHANGED readerVars
            \/ rpc = "opening" /\ rpc' \in {"loop", "done"} /\ stream' = stream
            \/ rpc = "loop" /\ stream = "good" /\ rpc' = "Snippet" /\ stream' = stream
            \/ rpc = "loop" /\ stream = "eof" /\ rpc' = "done" /\ stream' = stream
            \/ stream' = "eof" /\ LastSteps[rpc'] < LastSteps[rpc]
<1>1. Advance => stream' = "eof"
  BY DEF Advance
<1>2. /\ LastSteps["done"] = 0 /\ LastSteps["loop"] = 1 /\ LastSteps["spans"] = 2 /\ LastSteps["]"] = 2
      /\ LastSteps["name"] = 3 /\ LastSteps["set"] = 3
      /\ LastSteps["["] = 4 /\ LastSteps["exclude"] = 4 /\ LastSteps["Snippet"] = 5
  BY DEF LastSteps, Positions
<1>3. CASE OpenDatabase BY <1>3 DEF OpenDatabase, InList, Positions
<1>4. CASE Loop BY <1>4 DEF Loop, InList, Positions
<1>5. CASE Returned BY <1>5 DEF Returned, readerVars, InList, Positions
<1>6. CASE Expect("Snippet", "[")
  BY <1>1, <1>2, <1>6 DEF Expect, InList, Positions
<1>7. CASE Expect("[", "name")
  BY <1>1, <1>2, <1>7 DEF Expect, InList, Positions
<1>8. CASE ReadName
  BY <1>1, <1>2, <1>8 DEF ReadName, InList, Positions
<1>9. CASE EnterList("spans", "pair")
  BY <1>1, <1>2, <1>9 DEF EnterList, NextIs, InList, Positions
<1>10. CASE Expect("exclude", "set")
  BY <1>1, <1>2, <1>10 DEF Expect, InList, Positions
<1>11. CASE EnterList("set", "members")
  BY <1>1, <1>2, <1>11 DEF EnterList, NextIs, InList, Positions
<1>12. CASE CloseSnippet
  BY <1>1, <1>2, <1>12 DEF CloseSnippet, InList, Positions
<1>13. CASE \/ PairToken("pair", "(", "first") \/ ReadNumber("first", <<NumberRead, 0>>, ",")
            \/ PairToken(",", ",", "second") \/ ReadNumber("second", <<pair[1], NumberRead>>, ")")
            \/ ClosePair \/ NextSpan \/ ReadMember
  BY <1>13 DEF PairToken, ReadNumber, ClosePair, NextSpan, ReadMember, InList
<1> QED BY <1>3, <1>4, <1>5, <1>6, <1>7, <1>8, <1>9, <1>10, <1>11, <1>12, <1>13 DEF ReaderNext

(* At the end of the file no list is read but one the file ends in.        *)
EInv == DInv /\ (at = Len(file) + 1 /\ InList => CutInList)

LEMMA CutStays == UNCHANGED <<db, cut>> => CutInList' = CutInList
  BY DEF CutInList, RecordBefore

LEMMA EInvInit == WInit => EInv
<1> SUFFICES ASSUME WInit PROVE EInv
  OBVIOUS
<1>1. rpc = "opening"
  BY DEF WInit, Start
<1> QED BY <1>1, DInvInit DEF EInv, InList

LEMMA EInvStep == EInv /\ [WNext]_allVars => EInv'
<1> SUFFICES ASSUME EInv, [WNext]_allVars PROVE EInv'
  OBVIOUS
<1>1. DInv'
  BY DInvStep DEF EInv
<1>2. CASE UNCHANGED allVars
  BY <1>1, <1>2, CutStays DEF EInv, allVars, readerVars, InList
<1>3. CASE WNext
  <2>1. ReaderNext /\ db' = db /\ cut' = cut /\ file' = file /\ CutInList' = CutInList
    BY <1>3, FileStays, CutStays DEF WNext
  <2>2. SUFFICES ASSUME at' = Len(file) + 1, InList', ~CutInList PROVE FALSE
    BY <1>1, <2>1 DEF EInv
  <2>3. /\ at \in Nat /\ at <= Len(file) + 1 /\ Len(file) \in Nat /\ Len(file) = cut /\ rpc \in Positions
        /\ LaidOut /\ stream \in {"good", "eof"}
    BY FileType DEF EInv, DInv, RInv, LaidOut, ReaderTypeOK, NothingLeft
  <2>4. CASE at <= Len(file)
    <3>1. PICK i \in 1 .. Len(db) : \E q \in 1 .. Length(i) : at = RecordBefore(i) + q /\ StepIn(db[i], q)
      BY <2>1, <2>4, StepInRecord DEF EInv
    <3>2. PICK q \in 1 .. Length(i) : at = RecordBefore(i) + q /\ StepIn(db[i], q)
      BY <3>1
    <3>3. at' # at
      BY <2>2, <2>3, <2>4
    <3>4. PICK r, s, n, w, b, p : /\ r = db[i] /\ s = RecordTokens(r) /\ n = Len(r.spans)
                                  /\ w = SetStart(r) /\ b = Bracket(r) /\ p = q + 1
      OBVIOUS
    <3>5. IF q < Len(s) THEN InRecord(s, r, n, w, b, p)' ELSE rpc' = "loop"
      <4>1. TokenRead(s, r, n, w, b, q)
        BY <3>2, <3>3, <3>4 DEF StepIn
      <4> QED BY <3>4, <4>1 DEF TokenRead
    <3>6. InRecord(s, r, n, w, b, p)'
      BY <2>2, <3>5 DEF InList
    <3>7. Doing(r, p)'
      BY <2>1, <3>4, <3>6 DEF Doing
    <3>8. cut = RecordBefore(i) + q
      <4>1. at' = at + 1
        BY <3>2, <3>3 DEF StepIn, TokenRead
      <4>2. at = cut
        BY ONLY <2>2, <2>3, <4>1
      <4> QED BY <3>2, <4>2
    <3>9. /\ i \in 1 .. Len(db) /\ q \in 1 .. Length(i)
          /\ LaidOut /\ r = db[i] /\ InList' /\ p = q + 1
      BY <2>2, <2>3, <3>1, <3>2, <3>4
    <3>10. CutInList
      BY ONLY <3>7, <3>8, <3>9, EndsInList
    <3> QED BY <2>2, <3>10
  <2>5. CASE ~(at <= Len(file))
    <3>1. at = Len(file) + 1 /\ ~HasToken /\ ~InList
      BY <2>2, <2>3, <2>5 DEF EInv, HasToken
    <3> QED BY <2>1, <2>2, <2>3, <3>1, EndsWithoutToken
  <2> QED BY <2>4, <2>5
<1> QED BY <1>2, <1>3

LEMMA ComesCloser == EInv /\ [WNext]_allVars => (UNCHANGED allVars \/ (~CutInList => Left' < Left))
<1> SUFFICES ASSUME EInv, WNext, ~UNCHANGED allVars, ~CutInList PROVE Left' < Left
  OBVIOUS
<1>1. /\ ReaderNext /\ db' = db /\ cut' = cut /\ file' = file /\ ~UNCHANGED readerVars
      /\ EInv'
  BY FileStays, EInvStep DEF WNext, allVars
<1>2. /\ at \in Nat /\ at <= Len(file) + 1 /\ Len(file) \in Nat /\ rpc \in Positions
      /\ stream \in {"good", "eof"} /\ stream' \in {"good", "eof"}
      /\ (stream = "eof" => at = Len(file) + 1)
  BY <1>1, FileType DEF EInv, DInv, RInv, ReaderTypeOK, NothingLeft
<1> DEFINE extra == CASE rpc = "opening" -> 2 [] rpc = "loop" -> 1 [] OTHER -> 0
<1>3. /\ extra = IF rpc = "opening" THEN 2 ELSE IF rpc = "loop" THEN 1 ELSE 0
      /\ extra' = IF rpc' = "opening" THEN 2 ELSE IF rpc' = "loop" THEN 1 ELSE 0
  OBVIOUS
<1>4. /\ stream = "good" => Left = 5 * (Len(file) + 2 - at) + extra
      /\ stream = "eof" => Left = LastSteps[rpc]
      /\ stream' = "good" => Left' = 5 * (Len(file) + 2 - at') + extra'
      /\ stream' = "eof" => Left' = LastSteps[rpc']
  BY <1>1 DEF Left
<1> HIDE DEF extra
<1>5. PICK l, a, c, x, y : l = Len(file) /\ a = at /\ c = at' /\ x = extra /\ y = extra'
  OBVIOUS
<1>6. l \in Nat /\ a \in Nat /\ a <= l + 1 /\ x \in 0 .. 2 /\ y \in 0 .. 2
  BY <1>2, <1>3, <1>5
<1>7. CASE at <= Len(file)
  <2>1. stream = "good" /\ stream' = "good" /\ HasToken
    <3>1. at # Len(file) + 1
      BY <1>2, <1>7
    <3> QED BY <1>1, <1>2, <1>7, <3>1, StepAtToken DEF EInv, HasToken
  <2>2. \/ c = a /\ y < x
        \/ c = a + 1 /\ y <= 1
    BY <1>1, <1>3, <1>5, <2>1, TakesToken
  <2>3. 5 * (l + 2 - c) + y < 5 * (l + 2 - a) + x
    BY ONLY <1>6, <2>2
  <2> QED BY <1>4, <1>5, <2>1, <2>3
<1>8. CASE ~(at <= Len(file))
  <2>1. at' = at /\ at = Len(file) + 1 /\ ~HasToken
    BY <1>1, <1>2, <1>8, StepAtEnd DEF EInv, DInv, HasToken
  <2>2. ~InList
    BY <2>1 DEF EInv
  <2>3. /\ rpc' \in Positions /\ ~InList'
        /\ \/ rpc = "opening" /\ rpc' \in {"loop", "done"} /\ stream' = stream
           \/ rpc = "loop" /\ stream = "good" /\ rpc' = "Snippet" /\ stream' = stream
           \/ rpc = "loop" /\ stream = "eof" /\ rpc' = "done" /\ stream' = stream
           \/ stream' = "eof" /\ LastSteps[rpc'] < LastSteps[rpc]
    BY <1>1, <1>2, <2>1, <2>2, EndsWithoutToken
  <2>4. \A p \in Positions : LastSteps[p] \in 0 .. 5
    BY DEF LastSteps
  <2>5. LastSteps["opening"] = 5 /\ LastSteps["loop"] = 1 /\ LastSteps["done"] = 0
    BY DEF LastSteps, Positions
  <2>6. CASE stream = "eof" /\ stream' = "eof"
    BY <1>4, <2>3, <2>5, <2>6
  <2>7. CASE stream = "good" /\ stream' = "good"
    <3>1. y < x
      BY <1>3, <1>5, <2>3, <2>7
    <3>2. 5 * (l + 2 - c) + y < 5 * (l + 2 - a) + x
      <4>1. c = a
        BY <1>5, <2>1
      <4> QED BY ONLY <1>6, <3>1, <4>1
    <3> QED BY <1>4, <1>5, <2>7, <3>2
  <2>8. CASE stream = "good" /\ stream' = "eof"
    <3>1. PICK u, v : u = LastSteps[rpc'] /\ v = LastSteps[rpc]
      OBVIOUS
    <3>2. u < v /\ u \in 0 .. 5 /\ v \in 0 .. 5
      BY <1>2, <2>3, <2>4, <2>8, <3>1
    <3>3. u < 5 * (l + 2 - a) + x
      <4>1. l + 2 - a = 1
        BY <1>5, <1>6, <2>1
      <4> QED BY <1>6, <3>2, <4>1
    <3> QED BY <1>4, <1>5, <2>8, <3>1, <3>3
  <2>9. ~(stream = "eof" /\ stream' = "good")
    BY <2>3
  <2> QED BY <1>2, <2>6, <2>7, <2>8, <2>9
<1> QED BY <1>7, <1>8

(* Each step of the reading of a file that does not end within a list      *)
(* comes closer to the end: no operator waits for a token behind the last  *)
(* one, and none is entered there that would (cppextractor.cc:416-471).    *)
THEOREM ReadingAlwaysComesCloser == WSpec => ReadingComesCloser
<1>1. EInv /\ [WNext]_allVars => [~CutInList => Left' < Left]_allVars
  BY ComesCloser
<1> QED BY <1>1, EInvInit, EInvStep, PTL DEF WSpec, ReadingComesCloser
=============================================================================
