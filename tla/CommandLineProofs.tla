-------------------------- MODULE CommandLineProofs -------------------------
(***************************************************************************)
(* Proofs about the command lines, for any table of parsers and any line:  *)
(* the types, that the accepted lines are exactly the sound ones, that the *)
(* settings are those of the line and success is reported only after it,   *)
(* and what the parser of avrasmopt makes of its arguments.                *)
(***************************************************************************)
EXTENDS CommandLines, CountingProofs

(* The minimum of a set of natural numbers, taken from the well-founded    *)
(* order of the numbers.                                                   *)
LEMMA NoneBelow ==
    ASSUME NEW S \in SUBSET Nat, NEW x \in S, NEW R,
           \A a, b \in Nat : <<a, b>> \in R <=> a < b,
           \A y \in S : <<y, x>> \notin R
    PROVE  \A y \in S : x <= y
<1>1. \A y \in S : ~(y < x) OBVIOUS
<1> QED BY <1>1

LEMMA MinIsMin ==
    ASSUME NEW S \in SUBSET Nat, S # {}
    PROVE  Min(S) \in S /\ \A y \in S : Min(S) <= y
<1> DEFINE R == OpToRel(<, Nat)
<1>1. PICK x \in S : \A y \in S : <<y, x>> \notin R BY NatLessThanWellFounded, WFMin
<1>2. \A a, b \in Nat : <<a, b>> \in R <=> a < b BY DEF OpToRel
<1>3. \A y \in S : x <= y
  <2> HIDE DEF R
  <2> QED BY <1>1, <1>2, NoneBelow
<1> HIDE DEF R
<1> QED BY <1>3 DEF Min

-----------------------------------------------------------------------------
(* The iterator stands in an argument, at a token of it, or at the end;    *)
(* what is left of the argument is the end of its tokens; and every token  *)
(* before it is known: none has been passed over.                          *)
KnownOption(token) ==
    token.type = "option" =>
        \E p \in DOMAIN Parsers : <<token.dash, token.text>> \in Parsers[p].names
Stands(t) ==
    /\ t \in [it : 1 .. Len(line) + 1, buffer : Seq(Token)]
    /\ (t.buffer = <<>>) <=> t.it = Len(line) + 1
    /\ t.it <= Len(line) =>
         LET s == TokensOf(line[t.it])
         IN  /\ Len(t.buffer) <= Len(s)
             /\ \A k \in 1 .. Len(t.buffer) : t.buffer[k] = s[Len(s) - Len(t.buffer) + k]
Passed(t) ==
    \A i \in DOMAIN line : \A k \in DOMAIN TokensOf(line[i]) :
        \/ i < t.it
        \/ i = t.it /\ k <= Len(TokensOf(line[i])) - Len(t.buffer)
        => KnownOption(TokensOf(line[i])[k])

Rest ==
    /\ program \in DOMAIN Tables
    /\ line \in Seq(Argument)
    /\ taken \in [DOMAIN Parsers -> Seq(Words \cup {""})]
    /\ answer \in Answers
    /\ generated \in {"no", "written", "printed", "failed"}
    /\ exit \in {"none", "success", "failure", "aborted"}
    /\ \A p \in DOMAIN Parsers : Parsers[p].binds = "list" \/ Len(taken[p]) <= 1
    /\ answer = "accepted" => tokens.buffer = <<>>

IInv == Rest /\ Stands(tokens) /\ Passed(tokens)

LEMMA ShortSequences ==
    ASSUME NEW S, NEW x \in S, NEW y \in S
    PROVE  <<>> \in Seq(S) /\ <<x>> \in Seq(S) /\ <<x, y>> \in Seq(S)
OBVIOUS

LEMMA Appended ==
    ASSUME NEW S, NEW s \in Seq(S), NEW x \in S
    PROVE  Append(s, x) \in Seq(S) /\ Len(Append(s, x)) = Len(s) + 1
OBVIOUS

LEMMA FirstOne == ASSUME NEW S, NEW x \in S PROVE Len(Append(<<>>, x)) <= 1
<1>1. <<>> \in Seq(S) /\ Len(<<>>) = 0 OBVIOUS
<1> QED BY <1>1, Appended

LEMMA Elements ==
    ASSUME NEW S, NEW s \in Seq(S)
    PROVE  /\ \A i \in 1 .. Len(s) : s[i] \in S
           /\ DOMAIN s = 1 .. Len(s) /\ Len(s) \in Nat
           /\ s = <<>> <=> Len(s) = 0
OBVIOUS

LEMMA Mapped ==
    ASSUME NEW S, NEW s \in Seq(S), NEW T, NEW f, DOMAIN f = DOMAIN s,
           f = [i \in DOMAIN f |-> f[i]], \A i \in DOMAIN f : f[i] \in T
    PROVE  f \in Seq(T)
<1>1. DOMAIN f = 1 .. Len(s) /\ Len(s) \in Nat BY Elements
<1> QED BY <1>1

LEMMA TokensTyped == ASSUME NEW a \in Argument PROVE TokensOf(a) \in Seq(Token)
<1>1. CASE a.dash = ""
  <2>1. a.text \in Words \cup {""} BY <1>1 DEF Argument
  <2>2. ArgumentToken(a.text) \in Token BY <2>1 DEF ArgumentToken, Token
  <2>3. <<>> \in Seq(Token) /\ <<ArgumentToken(a.text)>> \in Seq(Token) BY <2>2, ShortSequences
  <2>4. TokensOf(a) \in {<<>>, <<ArgumentToken(a.text)>>} BY <1>1 DEF TokensOf
  <2> QED BY <2>3, <2>4
<1>2. CASE a.dash # ""
  <2>1. a.dash \in {"-", "--"} /\ a.names \in Seq(Names) /\ a.names # <<>>
        /\ a.text \in Words \cup {""}
    BY <1>2 DEF Argument
  <2> DEFINE names == a.names
  <2>2. /\ DOMAIN names = 1 .. Len(names) /\ \A i \in 1 .. Len(names) : names[i] \in Names
        /\ Len(names) \in Nat
    BY <2>1, Elements
  <2>3. \A n \in Names \cup {NoName} : OptionToken(a.dash, n) \in Token
    BY <2>1 DEF OptionToken, Token
  <2>4. CASE a.assigned
    <3> DEFINE n == IF Len(names) = 1 THEN names[1] ELSE NoName
    <3>1. ArgumentToken(a.text) \in Token BY <2>1 DEF ArgumentToken, Token
    <3>2. n \in Names \cup {NoName} BY <2>2
    <3>3. TokensOf(a) = <<OptionToken(a.dash, n), ArgumentToken(a.text)>>
      BY <1>2, <2>4 DEF TokensOf
    <3> QED BY <2>3, <3>1, <3>2, <3>3, ShortSequences
  <2>5. CASE ~a.assigned
    <3> DEFINE f == [i \in DOMAIN names |-> OptionToken(a.dash, names[i])]
    <3>1. TokensOf(a) = f BY <1>2, <2>5 DEF TokensOf
    <3>2. \A i \in DOMAIN f : f[i] \in Token BY <2>2, <2>3
    <3>3. DOMAIN f = DOMAIN names /\ f = [i \in DOMAIN f |-> f[i]] OBVIOUS
    <3> HIDE DEF f
    <3>4. f \in Seq(Token) BY <2>1, <3>2, <3>3, Mapped
    <3> QED BY <3>1, <3>4
  <2> QED BY <2>4, <2>5
<1> QED BY <1>1, <1>2

LEMMA LoadedStands ==
    ASSUME line \in Seq(Argument), NEW i \in 1 .. Len(line) + 1,
           \A j \in 1 .. i - 1 : \A k \in DOMAIN TokensOf(line[j]) : KnownOption(TokensOf(line[j])[k])
    PROVE  Stands(Loaded(i)) /\ Passed(Loaded(i))
<1> DEFINE full == {j \in i .. Len(line) : TokensOf(line[j]) # <<>>}
           t == Loaded(i)
<1>0. \A j \in DOMAIN line : line[j] \in Argument /\ TokensOf(line[j]) \in Seq(Token)
  BY TokensTyped
<1>1. CASE full = {}
  <2>1. t = [it |-> Len(line) + 1, buffer |-> <<>>] BY <1>1 DEF Loaded
  <2>2. Stands(t) BY <2>1 DEF Stands
  <2>3. \A j \in i .. Len(line) : DOMAIN TokensOf(line[j]) = {} BY <1>1
  <2>4. Passed(t)
    <3> SUFFICES ASSUME NEW j \in DOMAIN line, NEW k \in DOMAIN TokensOf(line[j])
                 PROVE  KnownOption(TokensOf(line[j])[k])
      BY DEF Passed
    <3>1. j \in 1 .. i - 1 BY <2>3
    <3> QED BY <3>1
  <2> QED BY <2>2, <2>4
<1>2. CASE full # {}
  <2>1. full \in SUBSET Nat OBVIOUS
  <2>2. Min(full) \in full /\ \A j \in full : Min(full) <= j BY <2>1, <1>2, MinIsMin
  <2>3. t = [it |-> Min(full), buffer |-> TokensOf(line[Min(full)])] BY <1>2 DEF Loaded
  <2> DEFINE m == Min(full)
  <2> HIDE DEF t
  <2>4. m \in 1 .. Len(line) /\ TokensOf(line[m]) # <<>> /\ TokensOf(line[m]) \in Seq(Token)
    BY <2>2, <1>0
  <2>5. \A j \in i .. m - 1 : TokensOf(line[j]) = <<>> BY <2>2, <2>4
  <2> HIDE DEF m, full
  <2>6. t.it = m /\ t.buffer = TokensOf(line[m]) BY <2>3 DEF m
  <2>7. Stands(t)
    <3>1. t \in [it : 1 .. Len(line) + 1, buffer : Seq(Token)] BY <2>3, <2>4 DEF m
    <3>2. t.buffer # <<>> /\ t.it # Len(line) + 1 BY <2>4, <2>6
    <3>3. \A k \in 1 .. Len(t.buffer) : t.buffer[k] = TokensOf(line[t.it])[Len(TokensOf(line[t.it])) - Len(t.buffer) + k]
      BY <2>4, <2>6
    <3> QED BY <3>1, <3>2, <3>3, <2>4, <2>6 DEF Stands
  <2>8. Passed(t)
    <3> SUFFICES ASSUME NEW j \in DOMAIN line, NEW k \in DOMAIN TokensOf(line[j]),
                        j < t.it \/ (j = t.it /\ k <= Len(TokensOf(line[j])) - Len(t.buffer))
                 PROVE  KnownOption(TokensOf(line[j])[k])
      BY DEF Passed
    <3>1. TokensOf(line[j]) \in Seq(Token) BY <1>0
    <3>2. j # m BY <2>6, <3>1, <2>4
    <3>3. j \in 1 .. m - 1 BY <3>2, <2>6, <2>4
    <3>4. j \notin i .. m - 1 BY <2>5
    <3>5. j \in 1 .. i - 1 BY <3>3, <3>4, <2>4
    <3> QED BY <3>5
  <2> QED BY <2>7, <2>8 DEF t
<1> QED BY <1>1, <1>2

LEMMA AdvancedStands ==
    ASSUME line \in Seq(Argument), NEW t, Stands(t), Passed(t), t.buffer # <<>>,
           KnownOption(t.buffer[1])
    PROVE  Stands(Advanced(t)) /\ Passed(Advanced(t))
<1> DEFINE c == t.it
           b == t.buffer
           s == TokensOf(line[c])
           n == Len(b)
           w == Len(s)
<1>0. Len(line) \in Nat BY Elements
<1>1. t \in [it : 1 .. Len(line) + 1, buffer : Seq(Token)] BY DEF Stands
<1>2. c \in 1 .. Len(line) /\ b \in Seq(Token) BY <1>0, <1>1 DEF Stands
<1>3. n \in Nat \ {0} BY <1>2, Elements
<1>4. line[c] \in Argument /\ s \in Seq(Token) BY <1>2, TokensTyped
<1>5. w \in Nat /\ DOMAIN s = 1 .. w BY <1>4, Elements
<1>6. n <= w /\ \A k \in 1 .. n : b[k] = s[w - n + k] BY <1>0, <1>2 DEF Stands
<1>7. \A j \in DOMAIN line : \A k \in DOMAIN TokensOf(line[j]) :
        j < c \/ (j = c /\ k <= w - n) => KnownOption(TokensOf(line[j])[k])
  BY DEF Passed
<1>8. KnownOption(b[1]) OBVIOUS
<1>9. DOMAIN line = 1 .. Len(line) BY Elements
<1>10. Advanced(t) = IF n >= 2 THEN [t EXCEPT !.buffer = Tail(b)] ELSE Loaded(c + 1)
  BY <1>0, <1>2 DEF Advanced
<1> HIDE DEF c, b, s, n, w
<1>11. \A k \in 1 .. w - n + 1 : KnownOption(s[k])
  <2> SUFFICES ASSUME NEW k \in 1 .. w - n + 1 PROVE KnownOption(s[k])
    OBVIOUS
  <2>1. CASE k = w - n + 1
    <3>1. b[1] = s[w - n + 1] BY <1>3, <1>6
    <3> QED BY <3>1, <2>1, <1>8
  <2>2. CASE k <= w - n
    <3>1. k \in DOMAIN s BY <2>2, <1>3, <1>5
    <3> QED BY <2>2, <3>1, <1>2, <1>7, <1>9 DEF s
  <2> QED BY <2>1, <2>2, <1>3, <1>5
<1>12. CASE n >= 2
  <2> DEFINE u == [t EXCEPT !.buffer = Tail(b)]
  <2>1. Advanced(t) = u BY <1>12, <1>10
  <2>2. Tail(b) \in Seq(Token) /\ Len(Tail(b)) = n - 1 /\ \A k \in 1 .. n - 1 : Tail(b)[k] = b[k + 1]
    BY <1>2, <1>3 DEF n
  <2>3. u.it = c /\ u.buffer = Tail(b) /\ u \in [it : 1 .. Len(line) + 1, buffer : Seq(Token)]
    BY <1>1, <2>2 DEF c
  <2> HIDE DEF u
  <2>4. \A k \in 1 .. n - 1 : Tail(b)[k] = s[w - (n - 1) + k]
    <3> SUFFICES ASSUME NEW k \in 1 .. n - 1 PROVE Tail(b)[k] = s[w - (n - 1) + k]
      OBVIOUS
    <3>1. k + 1 \in 1 .. n /\ w - n + (k + 1) = w - (n - 1) + k BY <1>3, <1>5
    <3> QED BY <2>2, <3>1, <1>6
  <2>5. Stands(u)
    <3>1. Tail(b) # <<>>
      <4>1. Len(Tail(b)) # 0 BY <1>3, <1>12, <2>2
      <4>2. Tail(b) = <<>> <=> Len(Tail(b)) = 0 BY <2>2, Elements
      <4> QED BY <4>1, <4>2
    <3>2. u.it # Len(line) + 1 BY <1>0, <1>2, <2>3
    <3>3. Len(Tail(b)) <= w BY <1>3, <1>5, <1>6, <2>2
    <3>4. \A k \in 1 .. Len(Tail(b)) : Tail(b)[k] = s[w - Len(Tail(b)) + k] BY <2>2, <2>4
    <3>5. TokensOf(line[u.it]) = s BY <2>3 DEF s
    <3> QED BY <2>3, <3>1, <3>2, <3>3, <3>4, <3>5 DEF Stands, w
  <2>6. Passed(u)
    <3> SUFFICES ASSUME NEW j \in DOMAIN line, NEW k \in DOMAIN TokensOf(line[j]),
                        j < u.it \/ (j = u.it /\ k <= Len(TokensOf(line[j])) - Len(u.buffer))
                 PROVE  KnownOption(TokensOf(line[j])[k])
      BY DEF Passed
    <3>1. CASE j < c BY <3>1, <1>7
    <3>2. CASE j = c /\ k <= w - (n - 1)
      <4>1. k \in 1 .. w - n + 1 BY <3>2, <1>3, <1>5 DEF s
      <4> QED BY <4>1, <1>11, <3>2 DEF s
    <3>3. j = c => TokensOf(line[j]) = s BY DEF s
    <3> QED BY <3>1, <3>2, <3>3, <2>2, <2>3 DEF w
  <2> QED BY <2>1, <2>5, <2>6
<1>13. CASE ~(n >= 2)
  <2>1. Advanced(t) = Loaded(c + 1) BY <1>13, <1>10
  <2>2. n = 1 BY <1>3, <1>13
  <2>3. c + 1 \in 1 .. Len(line) + 1 /\ c + 1 - 1 = c BY <1>0, <1>2
  <2>4. \A j \in 1 .. c : \A k \in DOMAIN TokensOf(line[j]) : KnownOption(TokensOf(line[j])[k])
    <3> SUFFICES ASSUME NEW j \in 1 .. c, NEW k \in DOMAIN TokensOf(line[j])
                 PROVE  KnownOption(TokensOf(line[j])[k])
      OBVIOUS
    <3>1. j \in DOMAIN line BY <1>0, <1>2, <1>9
    <3>2. CASE j < c BY <3>1, <3>2, <1>7
    <3>3. CASE j = c
      <4>1. k \in 1 .. w - n + 1 BY <3>3, <1>5, <2>2 DEF s
      <4> QED BY <4>1, <1>11, <3>3 DEF s
    <3> QED BY <3>2, <3>3, <1>2
  <2> DEFINE i == c + 1
  <2>5. \A j \in 1 .. i - 1 : \A k \in DOMAIN TokensOf(line[j]) : KnownOption(TokensOf(line[j])[k])
    <3>1. i - 1 = c BY <1>2
    <3> HIDE DEF i
    <3> QED BY <2>4, <3>1
  <2>6. i \in 1 .. Len(line) + 1 BY <2>3
  <2> HIDE DEF i
  <2>7. Stands(Loaded(i)) /\ Passed(Loaded(i)) BY <2>5, <2>6, LoadedStands
  <2> QED BY <2>1, <2>7 DEF i
<1> QED BY <1>12, <1>13

(* An iterator that stands, stands after a step that leaves the line and   *)
(* the program alone.                                                      *)
LEMMA StandsOn ==
    ASSUME UNCHANGED <<program, line>>, NEW t, Stands(t) /\ Passed(t), tokens' = t
    PROVE  Stands(tokens)' /\ Passed(tokens)'
BY DEF Stands, Passed, KnownOption, Parsers

-----------------------------------------------------------------------------
(* The token asked about and the parser that takes it.                     *)
LEMMA AskedKnown ==
    ASSUME IInv, NEW p, NEW B, Asked(p, B), p \in DOMAIN Parsers
    PROVE  /\ tokens.buffer # <<>> /\ tokens.buffer[1] \in Token
           /\ Free(p) /\ Wants(p, tokens.buffer[1])
           /\ KnownOption(tokens.buffer[1])
<1>1. tokens.buffer # <<>> /\ tokens.buffer \in Seq(Token) BY DEF Asked, HasToken, IInv, Stands
<1>2. tokens.buffer[1] \in Token BY <1>1, Elements
<1> DEFINE takers == Takers(tokens.buffer[1])
<1>3. takers # {} /\ p = Min(takers) BY DEF Asked, Next1
<1>4. Parsers \in Seq(Parser) BY TablesAssumption DEF IInv, Rest, Parsers
<1>5. takers \in SUBSET Nat BY <1>4, Elements DEF Takers
<1>6. p \in takers BY <1>3, <1>5, MinIsMin
<1>7. Free(p) /\ Wants(p, tokens.buffer[1]) BY <1>6 DEF Takers
<1>8. KnownOption(tokens.buffer[1]) BY <1>7 DEF Wants, KnownOption
<1> QED BY <1>1, <1>2, <1>7, <1>8

LEMMA TextTyped ==
    ASSUME NEW token \in Token, token.type = "argument"
    PROVE  token.text \in Words \cup {""}
BY DEF Token

(* A value taken leaves the rest of the invariant alone.                   *)
LEMMA TakeKeeps ==
    ASSUME IInv, answer = "parsing", NEW p \in DOMAIN Parsers, Free(p),
           NEW value \in Words \cup {""}, NEW t, Stands(t), Passed(t),
           t.buffer # <<>>, KnownOption(t.buffer[1]), Take(p, value, t),
           UNCHANGED programVars
    PROVE  IInv'
<1>1. UNCHANGED <<program, line, answer, settings, generated, exit>> BY DEF Take, programVars
<1>2. line \in Seq(Argument) BY DEF IInv, Rest
<1>3. Stands(Advanced(t)) /\ Passed(Advanced(t)) BY <1>2, AdvancedStands
<1>4. Stands(tokens)' /\ Passed(tokens)'
  <2>1. tokens' = Advanced(t) BY DEF Take
  <2> QED BY <1>1, <1>3, <2>1, StandsOn
<1>5. Parsers' = Parsers BY <1>1 DEF Parsers
<1>6. taken' = [taken EXCEPT ![p] = Append(taken[p], value)] BY DEF Take
<1>7. taken \in [DOMAIN Parsers -> Seq(Words \cup {""})] BY DEF IInv, Rest
<1>8. taken' \in [DOMAIN Parsers -> Seq(Words \cup {""})]
  <2> DEFINE W == Words \cup {""}
  <2>1. value \in W /\ taken \in [DOMAIN Parsers -> Seq(W)] BY <1>7
  <2> HIDE DEF W
  <2>2. Append(taken[p], value) \in Seq(W)
    <3>1. taken[p] \in Seq(W) BY <2>1
    <3> QED BY <2>1, <3>1, Appended
  <2>3. taken' \in [DOMAIN Parsers -> Seq(W)] BY <2>1, <2>2, <1>6
  <2> QED BY <2>3 DEF W
<1>9. ASSUME NEW q \in DOMAIN Parsers PROVE Parsers[q].binds = "list" \/ Len(taken'[q]) <= 1
  <2>1. CASE q = p
    <3>1. taken'[q] = Append(taken[p], value) BY <1>6, <1>7, <2>1
    <3>2. CASE taken[p] = <<>>
      <4>1. taken'[q] = Append(<<>>, value) BY <3>1, <3>2
      <4> QED BY <4>1, FirstOne
    <3> QED BY <3>2, <2>1 DEF Free
  <2>2. CASE q # p
    <3>1. taken'[q] = taken[q] BY <1>6, <1>7, <2>2
    <3> QED BY <3>1 DEF IInv, Rest
  <2> QED BY <2>1, <2>2
<1>10. Rest' BY <1>1, <1>5, <1>8, <1>9 DEF IInv, Rest
<1> QED BY <1>4, <1>10 DEF IInv

(* An answer changes nothing else.                                         *)
LEMMA AnswerKeeps ==
    ASSUME IInv, NEW a \in Answers, Answer(a), UNCHANGED programVars,
           a = "accepted" => tokens.buffer = <<>>
    PROVE  IInv'
<1>1. UNCHANGED <<program, line, tokens, taken, settings, generated, exit>> /\ answer' = a
  BY DEF Answer, programVars
<1>2. Parsers' = Parsers BY <1>1 DEF Parsers
<1>3. Stands(tokens)' /\ Passed(tokens)' BY <1>1, StandsOn DEF IInv
<1>4. Rest' BY <1>1, <1>2 DEF IInv, Rest
<1> QED BY <1>3, <1>4 DEF IInv

LEMMA CliKeeps ==
    ASSUME IInv, CliNext, UNCHANGED programVars
    PROVE  IInv'
<1>1. Stands(tokens) /\ Passed(tokens) /\ line \in Seq(Argument) BY DEF IInv, Rest
<1>2. ASSUME NEW p \in DOMAIN Parsers, SetFlag(p) PROVE IInv'
  <2>1. Asked(p, {"flag"}) /\ Take(p, "", tokens) /\ answer = "parsing" BY <1>2 DEF SetFlag, Asked
  <2> QED BY <1>1, <2>1, AskedKnown, TakeKeeps
<1>3. ASSUME NEW p \in DOMAIN Parsers, SetSource(p) PROVE IInv'
  <2>1. Asked(p, {"source"}) /\ Take(p, tokens.buffer[1].text, tokens) /\ answer = "parsing"
        /\ Parsers[p].binds = "source"
    BY <1>3 DEF SetSource, Asked, Next1
  <2>2. /\ tokens.buffer # <<>> /\ tokens.buffer[1] \in Token /\ Free(p)
        /\ KnownOption(tokens.buffer[1]) /\ Wants(p, tokens.buffer[1])
    BY <2>1, AskedKnown
  <2>3. tokens.buffer[1].text \in Words \cup {""} BY <2>1, <2>2, TextTyped DEF Wants
  <2> QED BY <1>1, <2>1, <2>2, <2>3, TakeKeeps
<1>4. ASSUME NEW p \in DOMAIN Parsers, SetValue(p) PROVE IInv'
  <2> DEFINE t == Advanced(tokens)
             token == t.buffer[1]
  <2>1. Asked(p, {"text", "list", "number"}) /\ answer = "parsing" BY <1>4 DEF SetValue, Asked
  <2>2. tokens.buffer # <<>> /\ Free(p) /\ KnownOption(tokens.buffer[1]) BY <2>1, AskedKnown
  <2>3. Stands(t) /\ Passed(t) BY <1>1, <2>2, AdvancedStands
  <2>4. CASE Answer("no value") BY <2>4, AnswerKeeps DEF Answers
  <2>5. CASE Answer("unreadable") BY <2>5, AnswerKeeps DEF Answers
  <2>6. CASE t.buffer # <<>> /\ token.type = "argument" /\ Take(p, token.text, t)
    <3> HIDE DEF t
    <3>1. t.buffer \in Seq(Token) BY <2>3 DEF Stands
    <3>2. token \in Token BY <2>6, <3>1, Elements
    <3>3. token.text \in Words \cup {""} BY <2>6, <3>2, TextTyped
    <3>4. KnownOption(t.buffer[1]) BY <2>6 DEF KnownOption
    <3> QED BY <2>1, <2>2, <2>3, <2>6, <3>3, <3>4, TakeKeeps
  <2> QED BY <1>4, <2>4, <2>5, <2>6 DEF SetValue, HasToken, Next1
<1>5. ASSUME NEW p \in DOMAIN Parsers, AskHelp(p) PROVE IInv'
  BY <1>5, AnswerKeeps DEF AskHelp, Answers
<1>6. CASE Unrecognized BY <1>6, AnswerKeeps DEF Unrecognized, Answers
<1>7. CASE Accept BY <1>7, AnswerKeeps DEF Accept, Answers, HasToken
<1> QED BY <1>2, <1>3, <1>4, <1>5, <1>6, <1>7 DEF CliNext

LEMMA MainKeeps == ASSUME IInv, Main PROVE IInv'
<1>1. UNCHANGED cliVars
  BY DEF Main, PrintError, PrintHelp, NoSource, NoSuchFile, ConfigureExtractor,
         ConfigureAxtractor, ParseOnly, Generate, Return, Exit, Configure
<1>2. UNCHANGED <<program, line, tokens, taken, answer>> BY <1>1 DEF cliVars
<1>3. /\ generated' \in {"no", "written", "printed", "failed"}
      /\ exit' \in {"none", "success", "failure", "aborted"}
  BY DEF Main, PrintError, PrintHelp, NoSource, NoSuchFile, ConfigureExtractor,
         ConfigureAxtractor, ParseOnly, Generate, Return, Exit, Configure, IInv, Rest
<1>4. Parsers' = Parsers BY <1>2 DEF Parsers
<1>5. Stands(tokens)' /\ Passed(tokens)' BY <1>2, StandsOn DEF IInv
<1>6. Rest' BY <1>2, <1>3, <1>4 DEF IInv, Rest
<1> QED BY <1>5, <1>6 DEF IInv

LEMMA Initially == Init => IInv
<1> SUFFICES ASSUME Init PROVE IInv
  OBVIOUS
<1>1. program \in DOMAIN Tables /\ line \in Seq(Argument) BY LinesAssumption DEF Init
<1>2. Stands(tokens) /\ Passed(tokens)
  <2>1. 1 \in 1 .. Len(line) + 1 /\ (1 .. 1 - 1) = {} BY <1>1, Elements
  <2>2. Stands(Loaded(1)) /\ Passed(Loaded(1)) BY <1>1, <2>1, LoadedStands
  <2> QED BY <2>2 DEF Init, CliInit
<1>3. taken = [p \in DOMAIN Parsers |-> <<>>] /\ answer = "parsing" BY DEF Init, CliInit
<1>4. generated = "no" /\ exit = "none" BY DEF Init, ProgramInit
<1>5. \A p \in DOMAIN Parsers : Len(taken[p]) <= 1 BY <1>3
<1>6. taken \in [DOMAIN Parsers -> Seq(Words \cup {""})] BY <1>3
<1>7. Rest BY <1>1, <1>3, <1>4, <1>5, <1>6 DEF Rest, Answers
<1> QED BY <1>2, <1>7 DEF IInv

LEMMA Inductive == IInv /\ [Next]_vars => IInv'
<1> SUFFICES ASSUME IInv, [Next]_vars PROVE IInv'
  OBVIOUS
<1>1. CASE CliNext /\ UNCHANGED programVars BY <1>1, CliKeeps
<1>2. CASE Main BY <1>2, MainKeeps
<1>3. CASE UNCHANGED <<cliVars, programVars>>
  <2>1. UNCHANGED <<program, line, tokens, taken, answer, settings, generated, exit>>
    BY <1>3 DEF cliVars, programVars
  <2>2. Parsers' = Parsers BY <2>1 DEF Parsers
  <2>3. Stands(tokens)' /\ Passed(tokens)' BY <2>1, StandsOn DEF IInv
  <2>4. Rest' BY <2>1, <2>2 DEF IInv, Rest
  <2> QED BY <2>3, <2>4 DEF IInv
<1> QED BY <1>1, <1>2, <1>3 DEF Next, vars

LEMMA Invariant == Spec => []IInv
BY Initially, Inductive, PTL DEF Spec

-----------------------------------------------------------------------------
(* The variables of the command lines have their types, whatever the       *)
(* tables and the lines: the iterator never stands behind the end of the   *)
(* line, and no parser but a list takes a second value.                    *)
THEOREM CommandLineTypeCorrect == Spec => []TypeOK
<1>1. IInv => TypeOK
  <2> SUFFICES ASSUME IInv PROVE TypeOK
    OBVIOUS
  <2>1. Len(line) \in Nat BY Elements DEF IInv, Rest
  <2>2. /\ tokens \in [it : 1 .. Len(line) + 1, buffer : Seq(Token)]
        /\ (tokens.buffer = <<>>) <=> tokens.it = Len(line) + 1
    BY DEF IInv, Stands
  <2>3. tokens \in [it : Nat \ {0}, buffer : Seq(Token)] /\ tokens.it \in 1 .. Len(line) + 1
    BY <2>1, <2>2
  <2> QED BY <2>2, <2>3 DEF TypeOK, CliTypeOK, IInv, Rest
<1> QED BY <1>1, Invariant, PTL

-----------------------------------------------------------------------------
LEMMA PartsGrow ==
  ASSUME NEW ss, Len(ss) \in Nat, NEW off, PartsEnd(off, ss),
         \A i \in 1 .. Len(ss) : Len(ss[i]) \in Nat
  PROVE  \A i \in 0 .. Len(ss) : \A j \in i .. Len(ss) :
           /\ off[i] \in Nat /\ off[i] <= off[j]
           /\ (\A k \in i + 1 .. j : Len(ss[k]) = 0) => off[i] = off[j]
<1> SUFFICES ASSUME NEW i \in 0 .. Len(ss)
             PROVE  \A j \in i .. Len(ss) :
                      /\ off[i] \in Nat /\ off[i] <= off[j]
                      /\ (\A k \in i + 1 .. j : Len(ss[k]) = 0) => off[i] = off[j]
  OBVIOUS
<1> DEFINE n == Len(ss)
           Good(j) == /\ off[i] <= off[j]
                      /\ (\A k \in i + 1 .. j : Len(ss[k]) = 0) => off[i] = off[j]
           A == {d \in Nat : i + d <= n => Good(i + d)}
<1>1. \A j \in 0 .. n : off[j] \in Nat
  BY DEF PartsEnd
<1>2. 0 \in A
  <2>1. i + 0 = i /\ off[i] \in Nat
    BY <1>1
  <2> QED BY <2>1
<1>3. ASSUME NEW d \in Nat, d \in A PROVE d + 1 \in A
  <2> SUFFICES ASSUME i + (d + 1) <= n PROVE Good(i + (d + 1))
    OBVIOUS
  <2>1. PICK j : j = i + d
    OBVIOUS
  <2>2. j \in 0 .. n /\ j + 1 \in 1 .. n /\ i + (d + 1) = j + 1 /\ (j + 1) - 1 = j /\ i + d <= n
    BY <2>1
  <2>3. Good(j)
    BY <1>3, <2>1, <2>2
  <2>4. off[j + 1] = off[j] + Len(ss[j + 1]) /\ off[j] \in Nat /\ Len(ss[j + 1]) \in Nat /\ off[i] \in Nat
    BY <1>1, <2>2 DEF PartsEnd
  <2>5. off[i] <= off[j + 1]
    <3>1. PICK x, y, z, l : x = off[i] /\ y = off[j] /\ z = off[j + 1] /\ l = Len(ss[j + 1])
      OBVIOUS
    <3>2. x \in Nat /\ y \in Nat /\ l \in Nat /\ z = y + l /\ x <= y
      BY <2>3, <2>4, <3>1
    <3>3. x <= z
      BY ONLY <3>2
    <3> QED BY <3>1, <3>3
  <2>6. ASSUME \A k \in i + 1 .. j + 1 : Len(ss[k]) = 0 PROVE off[i] = off[j + 1]
    <3>1. j + 1 \in i + 1 .. j + 1 /\ \A k \in i + 1 .. j : k \in i + 1 .. j + 1
      BY <2>1
    <3>2. Len(ss[j + 1]) = 0 /\ off[i] = off[j]
      BY <2>3, <2>6, <3>1
    <3> QED BY <2>4, <3>2
  <2> QED BY <2>2, <2>5, <2>6
<1>4. \A d \in Nat : d \in A
  <2> HIDE DEF A
  <2> QED BY <1>2, <1>3, AllNumbers
<1>5. ASSUME NEW j \in i .. n PROVE Good(j)
  <2>1. j - i \in Nat /\ i + (j - i) = j /\ j <= n
    OBVIOUS
  <2> QED BY <1>4, <2>1
<1> QED BY <1>1, <1>5

-----------------------------------------------------------------------------
(* The iterator as a position in the tokens of the line.                   *)
Parts == [i \in DOMAIN line |-> TokensOf(line[i])]
Laid(off) ==
    /\ PartsEnd(off, Parts) /\ Len(LineTokens) = off[Len(line)]
    /\ \A i \in 1 .. Len(line) : \A k \in 1 .. Len(TokensOf(line[i])) :
         LineTokens[off[i - 1] + k] = TokensOf(line[i])[k]
Points(off, t, p) ==
    IF t.it = Len(line) + 1 THEN p = off[Len(line)] + 1
    ELSE p + Len(t.buffer) = off[t.it] + 1
At(t, p) == p \in Nat /\ \E off : Laid(off) /\ Points(off, t, p)

LEMMA LineParts ==
  ASSUME line \in Seq(Argument)
  PROVE  /\ Len(line) \in Nat /\ DOMAIN line = 1 .. Len(line)
         /\ Parts \in Seq(Seq(Token)) /\ Len(Parts) = Len(line)
         /\ \A i \in 1 .. Len(line) : /\ Parts[i] = TokensOf(line[i])
                                      /\ TokensOf(line[i]) \in Seq(Token)
                                      /\ Len(TokensOf(line[i])) \in Nat
<1>1. Len(line) \in Nat /\ DOMAIN line = 1 .. Len(line)
  BY Elements
<1>2. \A i \in 1 .. Len(line) : line[i] \in Argument
  BY Elements
<1>3. \A i \in 1 .. Len(line) : TokensOf(line[i]) \in Seq(Token)
  BY <1>2, TokensTyped
<1>4. Parts \in Seq(Seq(Token)) /\ Len(Parts) = Len(line)
  <2>1. Parts = [i \in 1 .. Len(line) |-> TokensOf(line[i])]
    BY <1>1 DEF Parts
  <2>2. Parts = [i \in 1 .. Len(line) |-> Parts[i]] /\ DOMAIN Parts = 1 .. Len(line)
        /\ \A i \in 1 .. Len(line) : Parts[i] \in Seq(Token)
    BY <1>3, <2>1
  <2>3. PICK n, S : n = Len(line) /\ S = Seq(Token)
    OBVIOUS
  <2>4. n \in Nat /\ Parts = [i \in 1 .. n |-> Parts[i]] /\ \A i \in 1 .. n : Parts[i] \in S
    BY <1>1, <2>2, <2>3
  <2>5. Parts \in Seq(S) /\ Len(Parts) = n
    BY ONLY <2>4
  <2> QED BY <2>3, <2>5
<1>5. \A i \in 1 .. Len(line) : Parts[i] = TokensOf(line[i])
  BY <1>1 DEF Parts
<1>6. \A i \in 1 .. Len(line) : Len(TokensOf(line[i])) \in Nat
  BY <1>3, Elements
<1> QED BY <1>1, <1>3, <1>4, <1>5, <1>6

LEMMA LineLaidOut ==
  ASSUME line \in Seq(Argument)
  PROVE  LineTokens \in Seq(Token) /\ \E off : Laid(off)
<1>1. Parts \in Seq(Seq(Token)) /\ LineTokens = FlattenSeq(Parts)
  BY LineParts DEF LineTokens, Parts
<1>2. LineTokens \in Seq(Token)
  BY <1>1, Flattened
<1>3. PICK off : /\ PartsEnd(off, Parts) /\ Len(LineTokens) = off[Len(Parts)]
                 /\ \A i \in 1 .. Len(Parts) : \A k \in 1 .. Len(Parts[i]) :
                      LineTokens[off[i - 1] + k] = Parts[i][k]
  BY <1>1, Flattened
<1>4. Laid(off)
  <2>1. Len(Parts) = Len(line) /\ \A i \in 1 .. Len(line) : Parts[i] = TokensOf(line[i])
    BY LineParts
  <2>2. \A i \in 1 .. Len(line) : \A k \in 1 .. Len(TokensOf(line[i])) :
          LineTokens[off[i - 1] + k] = TokensOf(line[i])[k]
    BY <1>3, <2>1
  <2> QED BY <1>3, <2>1, <2>2 DEF Laid
<1> QED BY <1>2, <1>4

LEMMA LaidGrows ==
  ASSUME line \in Seq(Argument), NEW off, Laid(off)
  PROVE  /\ off[0] = 0
         /\ \A i \in 1 .. Len(line) : off[i] = off[i - 1] + Len(TokensOf(line[i]))
         /\ \A i \in 0 .. Len(line) : \A j \in i .. Len(line) :
              /\ off[i] \in Nat /\ off[i] <= off[j]
              /\ (\A k \in i + 1 .. j : TokensOf(line[k]) = <<>>) => off[i] = off[j]
<1>1. PartsEnd(off, Parts) /\ Len(Parts) = Len(line) /\ Len(Parts) \in Nat
      /\ \A i \in 1 .. Len(Parts) : Len(Parts[i]) \in Nat /\ Parts[i] = TokensOf(line[i])
  BY LineParts DEF Laid
<1>2. \A i \in 0 .. Len(Parts) : \A j \in i .. Len(Parts) :
           /\ off[i] \in Nat /\ off[i] <= off[j]
           /\ (\A k \in i + 1 .. j : Len(Parts[k]) = 0) => off[i] = off[j]
  BY <1>1, PartsGrow
<1>3. ASSUME NEW i \in 0 .. Len(line), NEW j \in i .. Len(line),
             \A k \in i + 1 .. j : TokensOf(line[k]) = <<>>
      PROVE  off[i] = off[j]
  <2>1. \A k \in i + 1 .. j : k \in 1 .. Len(Parts)
    BY <1>1
  <2>2. \A k \in i + 1 .. j : Parts[k] = <<>>
    BY <1>1, <1>3, <2>1
  <2>3. \A k \in i + 1 .. j : Len(Parts[k]) = 0
    BY <2>2
  <2> QED BY <1>1, <1>2, <2>3
<1>4. \A i \in 1 .. Len(line) : off[i] = off[i - 1] + Len(TokensOf(line[i]))
  BY <1>1 DEF PartsEnd
<1>5. off[0] = 0
  BY <1>1 DEF PartsEnd
<1> QED BY <1>1, <1>2, <1>3, <1>4, <1>5

LEMMA LoadedAt ==
  ASSUME line \in Seq(Argument), NEW i \in 1 .. Len(line) + 1, NEW off, Laid(off)
  PROVE  off[i - 1] \in Nat /\ Points(off, Loaded(i), off[i - 1] + 1)
<1> DEFINE full == {j \in i .. Len(line) : TokensOf(line[j]) # <<>>}
           t == Loaded(i)
           n == Len(line)
<1>1. n \in Nat
  BY LineParts
<1>2. i - 1 \in 0 .. n
  BY <1>1
<1>3. off[i - 1] \in Nat
  BY <1>1, <1>2, LaidGrows
<1>4. CASE full = {}
  <2>1. t = [it |-> n + 1, buffer |-> <<>>]
    BY <1>4 DEF Loaded
  <2>2. n \in i - 1 .. n /\ \A k \in (i - 1) + 1 .. n : k \in i .. n
    BY <1>1
  <2>3. \A k \in (i - 1) + 1 .. n : TokensOf(line[k]) = <<>>
    BY <1>4, <2>2
  <2>4. off[i - 1] = off[n]
    BY <1>2, <2>2, <2>3, LaidGrows
  <2> QED BY <1>3, <2>1, <2>4 DEF Points
<1>5. CASE full # {}
  <2>1. full \in SUBSET Nat
    OBVIOUS
  <2>2. Min(full) \in full /\ \A j \in full : Min(full) <= j
    BY <2>1, <1>5, MinIsMin
  <2>3. t = [it |-> Min(full), buffer |-> TokensOf(line[Min(full)])]
    BY <1>5 DEF Loaded
  <2>4. PICK m : m = Min(full)
    OBVIOUS
  <2>5. m \in i .. n /\ \A j \in i .. n : TokensOf(line[j]) # <<>> => m <= j
    BY <2>2, <2>4
  <2>6. m - 1 \in i - 1 .. n /\ m \in 1 .. n /\ m # n + 1
        /\ \A k \in (i - 1) + 1 .. m - 1 : k \in i .. n /\ ~(m <= k)
    BY <1>1, <2>5
  <2>7. \A k \in (i - 1) + 1 .. m - 1 : TokensOf(line[k]) = <<>>
    BY <2>5, <2>6
  <2>8. off[i - 1] = off[m - 1]
    BY <1>2, <2>6, <2>7, LaidGrows
  <2>9. off[m] = off[m - 1] + Len(TokensOf(line[m]))
    BY <2>6, LaidGrows
  <2>10. t.it = m /\ t.buffer = TokensOf(line[m]) /\ Len(TokensOf(line[m])) \in Nat
    BY <2>3, <2>4, <2>6, LineParts
  <2>11. (off[i - 1] + 1) + Len(t.buffer) = off[t.it] + 1
    <3>1. PICK x, l : x = off[i - 1] /\ l = Len(TokensOf(line[m]))
      OBVIOUS
    <3>2. x \in Nat /\ l \in Nat /\ off[m] = x + l
      BY <1>3, <2>8, <2>9, <2>10, <3>1
    <3> QED BY <2>10, <3>1, <3>2
  <2> QED BY <1>3, <2>6, <2>10, <2>11 DEF Points
<1> QED BY <1>3, <1>4, <1>5

(* Where the iterator stands.                                              *)
LEMMA AtFacts ==
  ASSUME line \in Seq(Argument), NEW t, Stands(t), NEW p, At(t, p)
  PROVE  /\ p \in 1 .. Len(LineTokens) + 1 /\ Len(LineTokens) \in Nat
         /\ t.buffer = <<>> <=> p = Len(LineTokens) + 1
         /\ p <= Len(LineTokens) => t.buffer[1] = LineTokens[p]
<1> DEFINE n == Len(line)
<1>1. PICK off : Laid(off) /\ Points(off, t, p)
  BY DEF At
<1>2. p \in Nat /\ n \in Nat
  BY LineParts DEF At
<1>3. n \in 0 .. n
  BY <1>2
<1>4. PICK m : m = Len(LineTokens)
  OBVIOUS
<1>5. m = off[n] /\ m \in Nat
  BY <1>1, <1>3, <1>4, LaidGrows DEF Laid
<1>6. (t.buffer = <<>>) <=> t.it = n + 1
  BY DEF Stands
<1>7. t.it \in 1 .. n + 1
  BY DEF Stands
<1>8. CASE t.it = n + 1
  <2>1. p = m + 1
    BY <1>1, <1>5, <1>8 DEF Points
  <2>2. p \in 1 .. m + 1 /\ ~(p <= m)
    BY ONLY <1>5, <2>1
  <2> QED BY <1>4, <1>5, <1>6, <1>8, <2>1, <2>2
<1>9. CASE t.it # n + 1
  <2>1. PICK i, l, w : i = t.it /\ l = Len(t.buffer) /\ w = Len(TokensOf(line[i]))
    OBVIOUS
  <2>2. i \in 1 .. n /\ i <= n
    BY <1>2, <1>7, <1>9, <2>1
  <2>3. l \in Nat /\ l # 0
    <3>1. t.buffer \in Seq(Token) /\ t.buffer # <<>>
      BY <1>6, <1>9 DEF Stands
    <3> QED BY <2>1, <3>1, Elements
  <2>4. w \in Nat
    BY <2>1, <2>2, LineParts
  <2>5. l <= w /\ t.buffer[1] = TokensOf(line[i])[w - l + 1]
    <3>1. /\ Len(t.buffer) <= Len(TokensOf(line[i]))
          /\ \A k \in 1 .. Len(t.buffer) :
               t.buffer[k] = TokensOf(line[i])[Len(TokensOf(line[i])) - Len(t.buffer) + k]
      BY <2>1, <2>2 DEF Stands
    <3>2. 1 \in 1 .. l
      BY <2>3
    <3> QED BY <2>1, <3>1, <3>2
  <2>6. i - 1 \in 0 .. n /\ i \in 0 .. n /\ n \in i .. n
    BY <1>2, <2>2
  <2>7. PICK x, y : x = off[i - 1] /\ y = off[i]
    OBVIOUS
  <2>8. x \in Nat /\ y = x + w /\ y <= m
    <3>1. off[i - 1] \in Nat
      BY <1>1, <2>6, LaidGrows
    <3>2. off[i] = off[i - 1] + Len(TokensOf(line[i]))
      BY <1>1, <2>2, LaidGrows
    <3>3. off[i] <= off[n]
      BY <1>1, <2>6, LaidGrows
    <3> QED BY <1>5, <2>1, <2>7, <3>1, <3>2, <3>3
  <2>9. p + l = y + 1
    BY <1>1, <1>9, <2>1, <2>7 DEF Points
  <2>10. p \in 1 .. m /\ p = x + (w - l + 1) /\ w - l + 1 \in 1 .. w /\ p # m + 1 /\ p \in 1 .. m + 1
    BY ONLY <1>2, <1>5, <2>3, <2>4, <2>5, <2>8, <2>9
  <2>11. LineTokens[p] = TokensOf(line[i])[w - l + 1]
    <3>1. LineTokens[off[i - 1] + (w - l + 1)] = TokensOf(line[i])[w - l + 1]
      BY <1>1, <2>1, <2>2, <2>10 DEF Laid
    <3> QED BY <2>7, <2>10, <3>1
  <2> QED BY <1>4, <1>5, <1>6, <1>9, <2>5, <2>10, <2>11
<1> QED BY <1>8, <1>9

LEMMA AdvancedAt ==
  ASSUME line \in Seq(Argument), NEW t, Stands(t), NEW p, At(t, p), t.buffer # <<>>
  PROVE  At(Advanced(t), p + 1)
<1> DEFINE n == Len(line)
<1>1. PICK off : Laid(off) /\ Points(off, t, p)
  BY DEF At
<1>2. p \in Nat /\ n \in Nat /\ p + 1 \in Nat
  BY LineParts DEF At
<1>3. t.it \in 1 .. n + 1 /\ t.it # n + 1 /\ t.buffer \in Seq(Token)
  BY DEF Stands
<1>4. PICK i, l : i = t.it /\ l = Len(t.buffer)
  OBVIOUS
<1>5. i \in 1 .. n /\ i <= n /\ l \in Nat /\ l # 0
  BY <1>2, <1>3, <1>4, Elements
<1>6. p + l = off[i] + 1
  BY <1>1, <1>3, <1>4 DEF Points
<1>7. CASE l >= 2
  <2>1. Advanced(t) = [t EXCEPT !.buffer = Tail(t.buffer)]
    BY <1>4, <1>7 DEF Advanced
  <2>2. t \in [it : 1 .. n + 1, buffer : Seq(Token)]
    BY DEF Stands
  <2>3. Advanced(t).it = t.it /\ Advanced(t).buffer = Tail(t.buffer)
    BY <2>1, <2>2
  <2>4. Len(Tail(t.buffer)) = l - 1
    BY <1>3, <1>4, <1>5
  <2>5. (p + 1) + Len(Advanced(t).buffer) = off[i] + 1
    <3>1. (p + 1) + (l - 1) = p + l
      BY ONLY <1>2, <1>5
    <3> QED BY <1>6, <2>3, <2>4, <3>1
  <2>6. Points(off, Advanced(t), p + 1)
    BY <1>3, <1>4, <2>3, <2>5 DEF Points
  <2> QED BY <1>1, <1>2, <2>6 DEF At
<1>8. CASE ~(l >= 2)
  <2>1. Advanced(t) = Loaded(i + 1)
    BY <1>4, <1>5, <1>8 DEF Advanced
  <2>2. i + 1 \in 1 .. n + 1 /\ (i + 1) - 1 = i
    BY <1>2, <1>5
  <2>3. off[i] \in Nat /\ Points(off, Loaded(i + 1), off[i] + 1)
    <3>1. off[(i + 1) - 1] \in Nat /\ Points(off, Loaded(i + 1), off[(i + 1) - 1] + 1)
      BY <1>1, <2>2, LoadedAt
    <3> QED BY <2>2, <3>1
  <2>4. off[i] + 1 = p + 1
    <3>1. l = 1
      BY <1>5, <1>8
    <3> QED BY <1>2, <1>6, <2>3, <3>1
  <2> QED BY <1>1, <1>2, <2>1, <2>3, <2>4 DEF At
<1> QED BY <1>7, <1>8

-----------------------------------------------------------------------------
(* No option is named by two parsers, and there is one source.             *)
LEMMA TableFacts ==
  ASSUME program \in DOMAIN Tables
  PROVE  \A p, q \in DOMAIN Parsers :
           /\ Parsers[p].binds \in Binding
           /\ p # q => /\ Parsers[p].names \cap Parsers[q].names = {}
                       /\ Parsers[p].binds # "source" \/ Parsers[q].binds # "source"
           /\ Parsers[p].binds = "source" => Parsers[p].names = {}
<1>1. Tables[program] \in Seq(Parser)
  BY TablesAssumption
<1>2. \A p \in DOMAIN Tables[program] : Tables[program][p] \in Parser
  BY <1>1, Elements
<1>3. \A p \in DOMAIN Tables[program] : Tables[program][p].binds \in Binding
  BY <1>2 DEF Parser
<1> QED BY <1>3, TablesAssumption DEF Parsers

LEMMA NamedOnce ==
  ASSUME program \in DOMAIN Tables, NEW token, NEW p \in DOMAIN Parsers, NamedBy(p, token)
  PROVE  /\ \A q \in DOMAIN Parsers : NamedBy(q, token) <=> q = p
         /\ \A B : Binds(token, B) <=> Parsers[p].binds \in B
         /\ Parsers[p].binds # "source" /\ token.type = "option"
<1>1. \A q \in DOMAIN Parsers : NamedBy(q, token) <=> q = p
  BY TableFacts DEF NamedBy
<1>2. \A B : Binds(token, B) <=> Parsers[p].binds \in B
  BY <1>1 DEF Binds
<1>3. Parsers[p].binds # "source" /\ token.type = "option"
  BY TableFacts DEF NamedBy
<1> QED BY <1>1, <1>2, <1>3

(* The tokens that are behind the values of a parser.                      *)
Use(q, k) ==
    \/ Parsers[q].binds = "source" /\ IsSource(LineTokens, k)
    \/ Parsers[q].binds \in HasValue /\ IsValue(LineTokens, k) /\ NamedBy(q, LineTokens[k - 1])
    \/ Parsers[q].binds \in {"flag", "help"} /\ NamedBy(q, LineTokens[k])
Uses(q, n) == {k \in 1 .. n : Use(q, k)}
TakenIs(tk, n) ==
    \A q \in DOMAIN Parsers :
        /\ Len(tk[q]) = Cardinality(Uses(q, n))
        /\ Parsers[q].binds # "flag" =>
             \A k \in Uses(q, n) : tk[q][Place(k, Uses(q, n))] = LineTokens[k].text

LEMMA TakenNone ==
  ASSUME NEW n \in Nat, TakenIs(taken, n), \A q \in DOMAIN Parsers : ~Use(q, n + 1)
  PROVE  TakenIs(taken, n + 1)
<1>1. \A i : i \in 1 .. n + 1 <=> i \in 1 .. n \/ i = n + 1
  OBVIOUS
<1>2. \A q \in DOMAIN Parsers : Uses(q, n + 1) = Uses(q, n)
  BY <1>1 DEF Uses
<1> QED BY <1>2 DEF TakenIs

LEMMA TakenOne ==
  ASSUME NEW n \in Nat, TakenIs(taken, n), NEW p \in DOMAIN Parsers,
         \A q \in DOMAIN Parsers : Use(q, n + 1) <=> q = p,
         NEW W, NEW v \in W, taken \in [DOMAIN Parsers -> Seq(W)],
         Parsers[p].binds # "flag" => v = LineTokens[n + 1].text
  PROVE  TakenIs([taken EXCEPT ![p] = Append(@, v)], n + 1)
<1> DEFINE tk == [taken EXCEPT ![p] = Append(@, v)]
<1>1. \A i : i \in 1 .. n + 1 <=> i \in 1 .. n \/ i = n + 1
  OBVIOUS
<1>2. tk[p] = Append(taken[p], v) /\ \A q \in DOMAIN Parsers \ {p} : tk[q] = taken[q]
  OBVIOUS
<1>3. ASSUME NEW q \in DOMAIN Parsers \ {p}
      PROVE  /\ Len(tk[q]) = Cardinality(Uses(q, n + 1))
             /\ Parsers[q].binds # "flag" =>
                  \A k \in Uses(q, n + 1) : tk[q][Place(k, Uses(q, n + 1))] = LineTokens[k].text
  <2>1. Uses(q, n + 1) = Uses(q, n)
    BY <1>1 DEF Uses
  <2> QED BY <1>2, <2>1 DEF TakenIs
<1>4. /\ Len(tk[p]) = Cardinality(Uses(p, n + 1))
      /\ Parsers[p].binds # "flag" =>
           \A k \in Uses(p, n + 1) : tk[p][Place(k, Uses(p, n + 1))] = LineTokens[k].text
  <2>1. PICK A, a : A = Uses(p, n) /\ a = taken[p]
    OBVIOUS
  <2>2. n \in Nat /\ A \in SUBSET (1 .. n)
    BY <2>1 DEF Uses
  <2>3. /\ Cardinality(A) \in Nat
        /\ \A j \in A : Place(j, A) \in 1 .. Cardinality(A) /\ Place(j, A \cup {n + 1}) = Place(j, A)
        /\ Place(n + 1, A \cup {n + 1}) = Cardinality(A) + 1
        /\ Cardinality(A \cup {n + 1}) = Cardinality(A) + 1
    BY ONLY <2>2, PlaceInRange
  <2>4. Uses(p, n + 1) = A \cup {n + 1}
    BY <1>1, <2>1 DEF Uses
  <2>5. a \in Seq(W) /\ v \in W /\ tk[p] = Append(a, v)
    BY <1>2, <2>1
  <2>6. PICK b : b = tk[p]
    OBVIOUS
  <2>7. a \in Seq(W) /\ v \in W /\ b = Append(a, v)
    BY <2>5, <2>6
  <2>8. Len(b) = Len(a) + 1 /\ (\A i \in 1 .. Len(a) : b[i] = a[i]) /\ b[Len(a) + 1] = v
    BY ONLY <2>7, AppendFacts
  <2>9. /\ Len(a) = Cardinality(A)
        /\ Parsers[p].binds # "flag" => \A k \in A : a[Place(k, A)] = LineTokens[k].text
    BY <2>1 DEF TakenIs
  <2>10. Len(b) = Cardinality(A \cup {n + 1})
    BY <2>3, <2>8, <2>9
  <2>11. ASSUME Parsers[p].binds # "flag", NEW k \in A \cup {n + 1}
         PROVE  b[Place(k, A \cup {n + 1})] = LineTokens[k].text
    <3>1. CASE k = n + 1
      BY <2>3, <2>8, <2>9, <2>11, <3>1
    <3>2. CASE k \in A
      <4>1. Place(k, A) \in 1 .. Len(a) /\ Place(k, A \cup {n + 1}) = Place(k, A)
        BY <2>3, <2>9, <3>2
      <4> QED BY <2>8, <2>9, <2>11, <3>2, <4>1
    <3> QED BY <3>1, <3>2
  <2> QED BY <2>4, <2>6, <2>10, <2>11
<1> QED BY <1>3, <1>4 DEF TakenIs

(* What is not used up.                                                    *)
LEMMA NothingTaken ==
  ASSUME program \in DOMAIN Tables, NEW n \in Nat, TakenIs(taken, n), Sound(LineTokens, n),
         NEW q \in DOMAIN Parsers, NEW W, taken[q] \in Seq(W)
  PROVE  /\ taken[q] = <<>> <=> \A k \in 1 .. n : ~Use(q, k)
         /\ Parsers[q].binds \in {"flag", "help"} \cup HasValue =>
              (taken[q] = <<>> <=> \A k \in 1 .. n : ~NamedBy(q, LineTokens[k]))
         /\ Parsers[q].binds = "source" =>
              (taken[q] = <<>> <=> \A k \in 1 .. n : ~IsSource(LineTokens, k))
<1>1. Uses(q, n) \subseteq 1 .. n /\ n \in Int
  BY DEF Uses
<1>2. IsFiniteSet(Uses(q, n))
  BY <1>1, CountedInInterval
<1>3. Cardinality(Uses(q, n)) = 0 <=> Uses(q, n) = {}
  BY <1>2, FS_EmptySet
<1>4. taken[q] = <<>> <=> Len(taken[q]) = 0
  BY Elements
<1>5. taken[q] = <<>> <=> \A k \in 1 .. n : ~Use(q, k)
  BY <1>3, <1>4 DEF TakenIs, Uses
<1>6. CASE Parsers[q].binds \in {"flag", "help"}
  BY <1>5, <1>6 DEF Use, HasValue
<1>7. CASE Parsers[q].binds = "source"
  BY <1>5, <1>7 DEF Use, HasValue
<1>8. CASE Parsers[q].binds \in HasValue
  <2>1. ASSUME NEW k \in 1 .. n, Use(q, k) PROVE \E j \in 1 .. n : NamedBy(q, LineTokens[j])
    <3>1. k > 1 /\ NamedBy(q, LineTokens[k - 1])
      BY <1>8, <2>1 DEF Use, HasValue, IsValue
    <3>2. k - 1 \in 1 .. n
      BY ONLY n \in Nat, k \in 1 .. n, <3>1
    <3> QED BY <3>1, <3>2
  <2>2. ASSUME NEW j \in 1 .. n, NamedBy(q, LineTokens[j]) PROVE \E k \in 1 .. n : Use(q, k)
    <3>1. Binds(LineTokens[j], HasValue)
      BY <1>8, <2>2 DEF Binds
    <3>2. j < n /\ LineTokens[j + 1].type = "argument"
      BY <3>1 DEF Sound
    <3>3. j + 1 \in 1 .. n /\ j + 1 > 1 /\ (j + 1) - 1 = j
      BY <3>2
    <3>4. IsValue(LineTokens, j + 1)
      BY <3>1, <3>2, <3>3 DEF IsValue
    <3> QED BY <1>8, <2>2, <3>3, <3>4 DEF Use
  <2> QED BY <1>5, <1>8, <2>1, <2>2 DEF HasValue
<1> QED BY <1>5, <1>6, <1>7, <1>8 DEF HasValue

-----------------------------------------------------------------------------
(* Sound beginnings of a line grow by a flag, by a source, and by an       *)
(* option with its value.                                                  *)
LEMMA NoValueNext ==
  ASSUME NEW s, NEW n \in Nat, Sound(s, n)
  PROVE  ~IsValue(s, n + 1)
<1> SUFFICES ASSUME IsValue(s, n + 1) PROVE FALSE
  OBVIOUS
<1>1. n + 1 > 1 /\ Binds(s[(n + 1) - 1], HasValue)
  BY DEF IsValue
<1>2. (n + 1) - 1 = n /\ n \in 1 .. n /\ ~(n < n)
  BY <1>1
<1> QED BY <1>1, <1>2 DEF Sound

LEMMA SoundOne ==
  ASSUME NEW s, NEW n \in Nat, Sound(s, n),
         s[n + 1].type = "option" => Binds(s[n + 1], {"flag"}),
         ~Binds(s[n + 1], HasValue),
         IsSource(s, n + 1) => \A j \in 1 .. n : ~IsSource(s, j),
         \A p \in DOMAIN Parsers : NamedBy(p, s[n + 1]) =>
           Parsers[p].binds = "list" \/ \A j \in 1 .. n : ~NamedBy(p, s[j])
  PROVE  Sound(s, n + 1)
<1>1. \A k : k \in 1 .. n + 1 <=> k \in 1 .. n \/ k = n + 1
  OBVIOUS
<1>2. \A t : Binds(t, {"flag"}) => Binds(t, {"flag"} \cup HasValue)
  BY DEF Binds
<1>3. \A k \in 1 .. n : k < n => k < n + 1
  OBVIOUS
<1>4. \A k \in 1 .. n + 1 : s[k].type = "option" => Binds(s[k], {"flag"} \cup HasValue)
  BY <1>1, <1>2 DEF Sound
<1>5. \A k \in 1 .. n + 1 : Binds(s[k], HasValue) =>
         /\ k < n + 1 /\ s[k + 1].type = "argument"
         /\ Binds(s[k], {"number"}) => s[k + 1].text \in Readable
  BY <1>1, <1>3 DEF Sound
<1>6. \A j, k \in 1 .. n : j # k =>
         /\ ~(IsSource(s, j) /\ IsSource(s, k))
         /\ \A p \in DOMAIN Parsers :
              NamedBy(p, s[j]) /\ NamedBy(p, s[k]) => Parsers[p].binds = "list"
  BY DEF Sound
<1>7. \A j, k \in 1 .. n + 1 : j # k =>
         /\ ~(IsSource(s, j) /\ IsSource(s, k))
         /\ \A p \in DOMAIN Parsers :
              NamedBy(p, s[j]) /\ NamedBy(p, s[k]) => Parsers[p].binds = "list"
  BY <1>1, <1>6
<1> QED BY <1>4, <1>5, <1>7 DEF Sound

LEMMA SoundTwo ==
  ASSUME NEW s, NEW n \in Nat, Sound(s, n),
         s[n + 1].type = "option", Binds(s[n + 1], HasValue), s[n + 2].type = "argument",
         Binds(s[n + 1], {"number"}) => s[n + 2].text \in Readable,
         \A p \in DOMAIN Parsers : NamedBy(p, s[n + 1]) =>
           Parsers[p].binds = "list" \/ \A j \in 1 .. n : ~NamedBy(p, s[j])
  PROVE  Sound(s, n + 2)
<1>1. \A k : k \in 1 .. n + 2 <=> k \in 1 .. n \/ k = n + 1 \/ k = n + 2
  OBVIOUS
<1>2. \A t : Binds(t, HasValue) => Binds(t, {"flag"} \cup HasValue)
  BY DEF Binds
<1>3. (\A k \in 1 .. n : k < n => k < n + 2) /\ n + 1 < n + 2 /\ (n + 1) + 1 = n + 2
      /\ n + 2 > 1 /\ (n + 2) - 1 = n + 1
  OBVIOUS
<1>4. \A p : ~NamedBy(p, s[n + 2])
  BY DEF NamedBy
<1>5. \A B : ~Binds(s[n + 2], B)
  BY <1>4 DEF Binds
<1>6. \A k \in 1 .. n + 2 : s[k].type = "option" => Binds(s[k], {"flag"} \cup HasValue)
  BY <1>1, <1>2 DEF Sound
<1>7. \A k \in 1 .. n + 2 : Binds(s[k], HasValue) =>
         /\ k < n + 2 /\ s[k + 1].type = "argument"
         /\ Binds(s[k], {"number"}) => s[k + 1].text \in Readable
  BY <1>1, <1>3, <1>5 DEF Sound
<1>8. ~IsSource(s, n + 1) /\ ~IsSource(s, n + 2)
  BY <1>3 DEF IsSource, IsValue
<1>9. \A j, k \in 1 .. n : j # k =>
         /\ ~(IsSource(s, j) /\ IsSource(s, k))
         /\ \A p \in DOMAIN Parsers :
              NamedBy(p, s[j]) /\ NamedBy(p, s[k]) => Parsers[p].binds = "list"
  BY DEF Sound
<1>10. \A j, k \in 1 .. n + 2 : j # k =>
         /\ ~(IsSource(s, j) /\ IsSource(s, k))
         /\ \A p \in DOMAIN Parsers :
              NamedBy(p, s[j]) /\ NamedBy(p, s[k]) => Parsers[p].binds = "list"
  BY <1>1, <1>4, <1>8, <1>9
<1> QED BY <1>6, <1>7, <1>10 DEF Sound

(* A parser that is not free and not a list has its name before.           *)
Outcome(p) ==
    /\ answer = "accepted" => p = Len(LineTokens) + 1
    /\ answer = "help" => p <= Len(LineTokens) /\ Binds(LineTokens[p], {"help"})
    /\ answer \in {"unrecognized", "no value", "unreadable"} =>
         /\ p <= Len(LineTokens) /\ ~Binds(LineTokens[p], {"help"})
         /\ \A m \in p .. Len(LineTokens) : ~Sound(LineTokens, m)
(* The tokens before the iterator are sound and taken, and parsing ends    *)
(* only at the end, at a request for help, or where no sound line goes on. *)
LineInv ==
    \E n \in Nat : /\ At(tokens, n + 1) /\ Sound(LineTokens, n) /\ TakenIs(taken, n)
                   /\ Outcome(n + 1)

LEMMA LineStays ==
  ASSUME line' = line, program' = program
  PROVE  /\ LineTokens' = LineTokens /\ Parsers' = Parsers
         /\ \A t, p : At(t, p)' <=> At(t, p)
         /\ \A n : Sound(LineTokens, n)' <=> Sound(LineTokens, n)
         /\ \A tk, n : TakenIs(tk, n)' <=> TakenIs(tk, n)
         /\ \A k, B : Binds(LineTokens[k], B)' <=> Binds(LineTokens[k], B)
<1>1. LineTokens' = LineTokens /\ Parts' = Parts
  BY DEF LineTokens, Parts
<1>2. Parsers' = Parsers
  BY DEF Parsers
<1>3. \A off : Laid(off)' <=> Laid(off)
  BY <1>1 DEF Laid
<1>4. \A t, p, off : Points(off, t, p)' <=> Points(off, t, p)
  BY DEF Points
<1>5. \A t, p : At(t, p)' <=> At(t, p)
  BY <1>3, <1>4 DEF At
<1>6. \A p, tok : NamedBy(p, tok)' <=> NamedBy(p, tok)
  BY <1>2 DEF NamedBy
<1>7. \A tok, B : Binds(tok, B)' <=> Binds(tok, B)
  BY <1>2, <1>6 DEF Binds
<1>8. \A s, k : (IsValue(s, k)' <=> IsValue(s, k)) /\ (IsSource(s, k)' <=> IsSource(s, k))
  BY <1>7 DEF IsValue, IsSource
<1>9. ASSUME NEW s, NEW n PROVE Sound(s, n)' <=> Sound(s, n)
  <2>1. /\ \A k \in 1 .. n : \A B : Binds(s[k], B)' <=> Binds(s[k], B)
        /\ \A j : IsSource(s, j)' <=> IsSource(s, j)
        /\ \A p, k : NamedBy(p, s[k])' <=> NamedBy(p, s[k])
    BY <1>6, <1>7, <1>8
  <2> DEFINE Known     == \A k \in 1 .. n : s[k].type = "option" => Binds(s[k], {"flag"} \cup HasValue)
             Valued    == \A k \in 1 .. n : Binds(s[k], HasValue) =>
                            /\ k < n /\ s[k + 1].type = "argument"
                            /\ Binds(s[k], {"number"}) => s[k + 1].text \in Readable
             Different == \A j, k \in 1 .. n : j # k =>
                            /\ ~(IsSource(s, j) /\ IsSource(s, k))
                            /\ \A p \in DOMAIN Parsers :
                                 NamedBy(p, s[j]) /\ NamedBy(p, s[k]) => Parsers[p].binds = "list"
  <2>2. Sound(s, n) <=> Known /\ Valued /\ Different
    BY DEF Sound
  <2>3. Sound(s, n)' <=> Known' /\ Valued' /\ Different'
    BY DEF Sound
  <2>4. Known' <=> Known
    BY <2>1
  <2>5. Valued' <=> Valued
    BY <2>1
  <2>6. Different' <=> Different
    <3>1. /\ \A j : IsSource(s, j)' <=> IsSource(s, j)
          /\ \A p, k : NamedBy(p, s[k])' <=> NamedBy(p, s[k])
          /\ Parsers' = Parsers
      BY <1>2, <2>1
    <3>2. ASSUME NEW j \in 1 .. n, NEW k \in 1 .. n
          PROVE  /\ (~(IsSource(s, j) /\ IsSource(s, k)))' <=> ~(IsSource(s, j) /\ IsSource(s, k))
                 /\ \A p : (NamedBy(p, s[j]) /\ NamedBy(p, s[k]))' <=>
                             NamedBy(p, s[j]) /\ NamedBy(p, s[k])
      BY ONLY <3>1
    <3> QED BY ONLY <3>1, <3>2
  <2> HIDE DEF Known, Valued, Different
  <2> QED BY <2>2, <2>3, <2>4, <2>5, <2>6
<1>10. \A n : Sound(LineTokens, n)' <=> Sound(LineTokens, n)
  <2>1. PICK s : s = LineTokens
    OBVIOUS
  <2>2. \A n : Sound(LineTokens, n)' <=> Sound(s, n)'
    BY <1>1, <2>1
  <2> QED BY <1>9, <2>1, <2>2
<1>11. \A q, k : Use(q, k)' <=> Use(q, k)
  BY <1>1, <1>2, <1>6, <1>8 DEF Use, IsValue, IsSource
<1>12. \A q, n : Uses(q, n)' = Uses(q, n)
  BY <1>11 DEF Uses
<1>13. \A tk, n : TakenIs(tk, n)' <=> TakenIs(tk, n)
  BY <1>1, <1>2, <1>12 DEF TakenIs
<1>14. \A k, B : Binds(LineTokens[k], B)' <=> Binds(LineTokens[k], B)
  BY <1>1, <1>2 DEF Binds, NamedBy
<1> QED BY <1>1, <1>2, <1>5, <1>10, <1>13, <1>14

LEMMA LineGoesOn ==
  ASSUME line' = line, program' = program, answer' = "parsing", NEW n \in Nat,
         NEW u, u = tokens', At(u, n + 1), Sound(LineTokens, n),
         NEW tk, tk = taken', TakenIs(tk, n)
  PROVE  LineInv'
<1>1. At(u, n + 1)' /\ Sound(LineTokens, n)' /\ TakenIs(tk, n)'
  BY LineStays
<1>2. At(tokens, n + 1)' <=> At(u, n + 1)'
  BY DEF At, Points
<1>3. TakenIs(taken, n)' <=> TakenIs(tk, n)'
  BY DEF TakenIs
<1>4. Outcome(n + 1)'
  BY DEF Outcome
<1> QED BY <1>1, <1>2, <1>3, <1>4 DEF LineInv

LEMMA LineEnds ==
  ASSUME line' = line, program' = program, tokens' = tokens, taken' = taken, NEW n \in Nat,
         At(tokens, n + 1), Sound(LineTokens, n), TakenIs(taken, n),
         answer' = "accepted" => n + 1 = Len(LineTokens) + 1,
         answer' = "help" => n + 1 <= Len(LineTokens) /\ Binds(LineTokens[n + 1], {"help"}),
         answer' \in {"unrecognized", "no value", "unreadable"} =>
           /\ n + 1 <= Len(LineTokens) /\ ~Binds(LineTokens[n + 1], {"help"})
           /\ \A m \in n + 1 .. Len(LineTokens) : ~Sound(LineTokens, m)
  PROVE  LineInv'
<1>1. PICK u, tk : u = tokens /\ tk = taken
  OBVIOUS
<1>2. At(u, n + 1)' /\ Sound(LineTokens, n)' /\ TakenIs(tk, n)'
  BY <1>1, LineStays
<1>3. At(tokens, n + 1)' <=> At(u, n + 1)'
  BY <1>1 DEF At, Points
<1>4. TakenIs(taken, n)' <=> TakenIs(tk, n)'
  BY <1>1 DEF TakenIs
<1>5. LineTokens' = LineTokens /\ (\A k, B : Binds(LineTokens[k], B)' <=> Binds(LineTokens[k], B))
      /\ \A m : Sound(LineTokens, m)' <=> Sound(LineTokens, m)
  BY LineStays
<1>6. Outcome(n + 1)'
  BY <1>5 DEF Outcome
<1> QED BY <1>2, <1>3, <1>4, <1>6 DEF LineInv

LEMMA InvFacts ==
  ASSUME IInv
  PROVE  /\ program \in DOMAIN Tables /\ line \in Seq(Argument) /\ Stands(tokens) /\ Passed(tokens)
         /\ taken \in [DOMAIN Parsers -> Seq(Words \cup {""})]
         /\ DOMAIN Parsers \in SUBSET Nat
         /\ LineTokens \in Seq(Token) /\ Len(LineTokens) \in Nat
         /\ \A k \in 1 .. Len(LineTokens) : /\ LineTokens[k].type \in {"option", "argument"}
                                            /\ LineTokens[k].text \in Words \cup Names \cup {"", NoName}
                                            /\ LineTokens[k].type = "argument" =>
                                                 LineTokens[k].text \in Words \cup {""}
<1>1. program \in DOMAIN Tables /\ line \in Seq(Argument) /\ Stands(tokens) /\ Passed(tokens)
      /\ taken \in [DOMAIN Parsers -> Seq(Words \cup {""})]
  BY DEF IInv, Rest
<1>2. LineTokens \in Seq(Token)
  BY <1>1, LineLaidOut
<1>3. Len(LineTokens) \in Nat /\ \A k \in 1 .. Len(LineTokens) : LineTokens[k] \in Token
  BY <1>2, Elements
<1>4. \A t \in Token : /\ t.type \in {"option", "argument"}
                       /\ t.text \in Words \cup Names \cup {"", NoName}
                       /\ t.type = "argument" => t.text \in Words \cup {""}
  BY DEF Token
<1>5. DOMAIN Parsers \in SUBSET Nat
  <2>1. Parsers \in Seq(Parser)
    BY <1>1, TablesAssumption DEF Parsers
  <2> QED BY <2>1, Elements
<1> QED BY <1>1, <1>2, <1>3, <1>4, <1>5

(* The parser that is asked at a token.                                    *)
LEMMA AskedAt ==
  ASSUME IInv, NEW n \in Nat, At(tokens, n + 1), Sound(LineTokens, n), TakenIs(taken, n),
         NEW q, NEW bindings, Asked(q, bindings)
  PROVE  /\ q \in DOMAIN Parsers /\ Parsers[q].binds \in bindings /\ answer = "parsing"
         /\ n + 1 \in 1 .. Len(LineTokens) /\ LineTokens[n + 1] = tokens.buffer[1]
         /\ tokens.buffer # <<>> /\ KnownOption(tokens.buffer[1])
         /\ Parsers[q].binds = "source" =>
              /\ LineTokens[n + 1].type = "argument" /\ IsSource(LineTokens, n + 1)
              /\ \A j \in 1 .. n : ~IsSource(LineTokens, j)
         /\ Parsers[q].binds # "source" =>
              /\ LineTokens[n + 1].type = "option" /\ NamedBy(q, LineTokens[n + 1])
              /\ Parsers[q].binds = "list" \/ \A j \in 1 .. n : ~NamedBy(q, LineTokens[j])
<1>1. program \in DOMAIN Tables /\ line \in Seq(Argument) /\ Stands(tokens)
      /\ taken \in [DOMAIN Parsers -> Seq(Words \cup {""})] /\ DOMAIN Parsers \in SUBSET Nat
  BY InvFacts
<1>2. /\ answer = "parsing" /\ tokens.buffer # <<>> /\ Parsers[q].binds \in bindings
      /\ Takers(tokens.buffer[1]) # {} /\ q = Min(Takers(tokens.buffer[1]))
  BY DEF Asked, HasToken, Next1
<1>3. q \in Takers(tokens.buffer[1])
  <2>1. Takers(tokens.buffer[1]) \in SUBSET Nat
    BY <1>1 DEF Takers
  <2> QED BY <1>2, <2>1, MinIsMin
<1>4. q \in DOMAIN Parsers /\ Free(q) /\ Wants(q, tokens.buffer[1])
  BY <1>3 DEF Takers
<1>5. /\ n + 1 \in 1 .. Len(LineTokens) + 1 /\ Len(LineTokens) \in Nat
      /\ n + 1 # Len(LineTokens) + 1
      /\ n + 1 <= Len(LineTokens) => tokens.buffer[1] = LineTokens[n + 1]
  BY <1>1, <1>2, AtFacts
<1>6. n + 1 \in 1 .. Len(LineTokens) /\ n + 1 <= Len(LineTokens)
  BY ONLY <1>5, n \in Nat
<1>7. tokens.buffer[1] = LineTokens[n + 1]
  BY <1>5, <1>6
<1>8. Parsers[q].binds \in Binding
  BY <1>1, <1>4, TableFacts
<1>9. PICK W : W = Words \cup {""}
  OBVIOUS
<1>10. taken[q] \in Seq(W)
  BY <1>1, <1>4, <1>9
<1>11. /\ Parsers[q].binds \in {"flag", "help"} \cup HasValue =>
              (taken[q] = <<>> <=> \A k \in 1 .. n : ~NamedBy(q, LineTokens[k]))
       /\ Parsers[q].binds = "source" =>
              (taken[q] = <<>> <=> \A k \in 1 .. n : ~IsSource(LineTokens, k))
  BY <1>1, <1>4, <1>10, NothingTaken
<1>12. CASE Parsers[q].binds = "source"
  <2>1. LineTokens[n + 1].type = "argument"
    BY <1>4, <1>7, <1>12 DEF Wants
  <2>2. ~IsValue(LineTokens, n + 1)
    BY NoValueNext
  <2>3. taken[q] = <<>>
    BY <1>4, <1>12 DEF Free
  <2>4. KnownOption(tokens.buffer[1])
    BY <1>7, <2>1 DEF KnownOption
  <2> QED BY <1>2, <1>4, <1>6, <1>7, <1>11, <1>12, <2>1, <2>2, <2>3, <2>4 DEF IsSource
<1>13. CASE Parsers[q].binds # "source"
  <2>1. LineTokens[n + 1].type = "option" /\ NamedBy(q, LineTokens[n + 1])
    BY <1>4, <1>7, <1>13 DEF Wants, NamedBy
  <2>2. KnownOption(tokens.buffer[1])
    BY <1>4, <1>7, <2>1 DEF KnownOption, NamedBy
  <2>3. Parsers[q].binds = "list" \/ taken[q] = <<>>
    BY <1>4 DEF Free
  <2>4. Parsers[q].binds \in {"flag", "help"} \cup HasValue
    BY <1>8, <1>13 DEF Binding, HasValue
  <2> QED BY <1>2, <1>4, <1>6, <1>7, <1>11, <1>13, <2>1, <2>2, <2>3, <2>4
<1> QED BY <1>12, <1>13

LEMMA FlagLine ==
  ASSUME IInv, LineInv, NEW q, SetFlag(q) PROVE LineInv'
<1>1. PICK n \in Nat : At(tokens, n + 1) /\ Sound(LineTokens, n) /\ TakenIs(taken, n)
  BY DEF LineInv
<1>2. Asked(q, {"flag"}) /\ Take(q, "", tokens)
  BY DEF SetFlag
<1>3. /\ q \in DOMAIN Parsers /\ Parsers[q].binds = "flag" /\ answer = "parsing"
      /\ tokens.buffer # <<>>
      /\ LineTokens[n + 1].type = "option" /\ NamedBy(q, LineTokens[n + 1])
      /\ \A j \in 1 .. n : ~NamedBy(q, LineTokens[j])
  <2>1. q \in DOMAIN Parsers /\ Parsers[q].binds \in {"flag"}
    BY <1>1, <1>2, AskedAt
  <2>2. Parsers[q].binds # "source" /\ Parsers[q].binds # "list"
    BY <2>1
  <2> QED BY <1>1, <1>2, <2>1, <2>2, AskedAt
<1>4. /\ taken' = [taken EXCEPT ![q] = Append(@, "")] /\ tokens' = Advanced(tokens)
      /\ program' = program /\ line' = line /\ answer' = answer
  BY <1>2 DEF Take
<1>5. program \in DOMAIN Tables /\ line \in Seq(Argument) /\ Stands(tokens)
      /\ taken \in [DOMAIN Parsers -> Seq(Words \cup {""})]
  BY InvFacts
<1>6. /\ \A r \in DOMAIN Parsers : NamedBy(r, LineTokens[n + 1]) <=> r = q
      /\ \A B : Binds(LineTokens[n + 1], B) <=> Parsers[q].binds \in B
  BY <1>3, <1>5, NamedOnce
<1>7. ~IsSource(LineTokens, n + 1) /\ ~IsValue(LineTokens, n + 1)
  BY <1>3 DEF IsSource, IsValue
<1>8. \A r \in DOMAIN Parsers : Use(r, n + 1) <=> r = q
  BY <1>3, <1>6, <1>7 DEF Use, HasValue
<1>9. TakenIs(taken', n + 1)
  <2>1. PICK W, v : W = Words \cup {""} /\ v = ""
    OBVIOUS
  <2>2. taken \in [DOMAIN Parsers -> Seq(W)] /\ v \in W
    BY <1>5, <2>1
  <2>3. TakenIs([taken EXCEPT ![q] = Append(@, v)], n + 1)
    BY <1>1, <1>3, <1>8, <2>2, TakenOne
  <2> QED BY <1>4, <2>1, <2>3
<1>10. Sound(LineTokens, n + 1)
  <2>1. Binds(LineTokens[n + 1], {"flag"}) /\ ~Binds(LineTokens[n + 1], HasValue)
    BY <1>3, <1>6 DEF HasValue
  <2> QED BY <1>1, <1>3, <1>6, <1>7, <2>1, SoundOne
<1>11. At(Advanced(tokens), (n + 1) + 1)
  BY <1>1, <1>3, <1>5, AdvancedAt
<1>12. PICK u, tk : u = tokens' /\ tk = taken'
  OBVIOUS
<1>13. n + 1 \in Nat /\ At(u, (n + 1) + 1) /\ TakenIs(tk, n + 1)
  <2>1. u = Advanced(tokens)
    BY <1>4, <1>12
  <2> QED BY <1>9, <1>11, <1>12, <2>1
<1> QED BY <1>3, <1>4, <1>10, <1>12, <1>13, LineGoesOn

LEMMA SourceLine ==
  ASSUME IInv, LineInv, NEW q, SetSource(q) PROVE LineInv'
<1>1. PICK n \in Nat : At(tokens, n + 1) /\ Sound(LineTokens, n) /\ TakenIs(taken, n)
  BY DEF LineInv
<1>2. Asked(q, {"source"}) /\ Take(q, tokens.buffer[1].text, tokens)
  BY DEF SetSource, Next1
<1>3. /\ q \in DOMAIN Parsers /\ Parsers[q].binds = "source" /\ answer = "parsing"
      /\ tokens.buffer # <<>> /\ n + 1 \in 1 .. Len(LineTokens)
      /\ LineTokens[n + 1] = tokens.buffer[1]
      /\ LineTokens[n + 1].type = "argument" /\ IsSource(LineTokens, n + 1)
      /\ \A j \in 1 .. n : ~IsSource(LineTokens, j)
  BY <1>1, <1>2, AskedAt
<1>4. /\ taken' = [taken EXCEPT ![q] = Append(@, LineTokens[n + 1].text)] /\ tokens' = Advanced(tokens)
      /\ program' = program /\ line' = line /\ answer' = answer
  BY <1>2, <1>3 DEF Take
<1>5. program \in DOMAIN Tables /\ line \in Seq(Argument) /\ Stands(tokens)
      /\ taken \in [DOMAIN Parsers -> Seq(Words \cup {""})]
      /\ LineTokens[n + 1].text \in Words \cup {""}
  BY <1>3, InvFacts
<1>6. /\ \A r \in DOMAIN Parsers : ~NamedBy(r, LineTokens[n + 1])
      /\ \A B : ~Binds(LineTokens[n + 1], B)
  BY <1>3 DEF NamedBy, Binds
<1>7. ~IsValue(LineTokens, n + 1)
  BY <1>1, NoValueNext
<1>8. \A r \in DOMAIN Parsers : Use(r, n + 1) <=> r = q
  <2>1. \A r \in DOMAIN Parsers : Parsers[r].binds = "source" <=> r = q
    BY <1>3, <1>5, TableFacts
  <2> QED BY <1>3, <1>6, <1>7, <2>1 DEF Use
<1>9. TakenIs(taken', n + 1)
  <2>1. PICK W, v : W = Words \cup {""} /\ v = LineTokens[n + 1].text
    OBVIOUS
  <2>2. taken \in [DOMAIN Parsers -> Seq(W)] /\ v \in W
    BY <1>5, <2>1
  <2>3. TakenIs([taken EXCEPT ![q] = Append(@, v)], n + 1)
    BY <1>1, <1>3, <1>8, <2>1, <2>2, TakenOne
  <2> QED BY <1>4, <2>1, <2>3
<1>10. Sound(LineTokens, n + 1)
  BY <1>1, <1>3, <1>6, SoundOne
<1>11. At(Advanced(tokens), (n + 1) + 1)
  BY <1>1, <1>3, <1>5, AdvancedAt
<1>12. PICK u, tk : u = tokens' /\ tk = taken'
  OBVIOUS
<1>13. n + 1 \in Nat /\ At(u, (n + 1) + 1) /\ TakenIs(tk, n + 1)
  BY <1>4, <1>9, <1>11, <1>12
<1> QED BY <1>3, <1>4, <1>10, <1>12, <1>13, LineGoesOn

LEMMA ValueLine ==
  ASSUME IInv, LineInv, NEW q, SetValue(q) PROVE LineInv'
<1>1. PICK n \in Nat : At(tokens, n + 1) /\ Sound(LineTokens, n) /\ TakenIs(taken, n)
  BY DEF LineInv
<1>2. Asked(q, HasValue)
  BY DEF SetValue, HasValue
<1>3. PICK v : v = Advanced(tokens)
  OBVIOUS
<1>4. IF ~(v.buffer # <<>> /\ v.buffer[1].type = "argument") THEN Answer("no value")
      ELSE IF Parsers[q].binds = "number" /\ v.buffer[1].text \notin Readable
      THEN Answer("unreadable")
      ELSE Take(q, v.buffer[1].text, v)
  BY <1>3 DEF SetValue, HasToken, Next1
<1>5. /\ q \in DOMAIN Parsers /\ Parsers[q].binds \in HasValue /\ answer = "parsing"
      /\ tokens.buffer # <<>> /\ n + 1 \in 1 .. Len(LineTokens) /\ KnownOption(tokens.buffer[1])
      /\ LineTokens[n + 1].type = "option" /\ NamedBy(q, LineTokens[n + 1])
      /\ Parsers[q].binds = "list" \/ \A j \in 1 .. n : ~NamedBy(q, LineTokens[j])
  <2>1. Parsers[q].binds \in HasValue => Parsers[q].binds # "source"
    BY DEF HasValue
  <2> QED BY <1>1, <1>2, <2>1, AskedAt
<1>6. /\ program \in DOMAIN Tables /\ line \in Seq(Argument) /\ Stands(tokens) /\ Passed(tokens)
      /\ taken \in [DOMAIN Parsers -> Seq(Words \cup {""})] /\ Len(LineTokens) \in Nat
  BY InvFacts
<1>7. /\ \A r \in DOMAIN Parsers : NamedBy(r, LineTokens[n + 1]) <=> r = q
      /\ \A B : Binds(LineTokens[n + 1], B) <=> Parsers[q].binds \in B
  BY <1>5, <1>6, NamedOnce
<1>8. Stands(v) /\ At(v, n + 2)
  <2>1. Stands(v)
    BY <1>3, <1>5, <1>6, AdvancedStands
  <2>2. At(v, (n + 1) + 1)
    BY <1>1, <1>3, <1>5, <1>6, AdvancedAt
  <2>3. (n + 1) + 1 = n + 2
    OBVIOUS
  <2> QED BY <2>1, <2>2, <2>3
<1>9. PICK N : N = Len(LineTokens)
  OBVIOUS
<1>10. /\ n + 2 \in 1 .. N + 1 /\ N \in Nat
       /\ v.buffer = <<>> <=> n + 2 = N + 1
       /\ n + 2 <= N => v.buffer[1] = LineTokens[n + 2]
  BY <1>6, <1>8, <1>9, AtFacts
<1>11. v.buffer # <<>> => n + 2 \in 1 .. N /\ v.buffer[1] = LineTokens[n + 2]
  <2>1. n + 2 # N + 1 => n + 2 \in 1 .. N /\ n + 2 <= N
    BY ONLY <1>10, n \in Nat
  <2> QED BY <1>10, <2>1
<1>12. /\ Binds(LineTokens[n + 1], HasValue) /\ ~Binds(LineTokens[n + 1], {"help"})
       /\ Binds(LineTokens[n + 1], {"number"}) <=> Parsers[q].binds = "number"
  BY <1>5, <1>7 DEF HasValue
<1>13. n + 1 \in Nat /\ (n + 1) + 1 = n + 2 /\ n + 1 <= N
  BY ONLY <1>5, <1>9, <1>10, n \in Nat
<1>14. CASE ~(v.buffer # <<>> /\ v.buffer[1].type = "argument")
  <2>1. /\ answer' = "no value" /\ program' = program /\ line' = line /\ tokens' = tokens
        /\ taken' = taken
    BY <1>4, <1>14 DEF Answer
  <2>2. ASSUME NEW m \in n + 1 .. N, Sound(LineTokens, m) PROVE FALSE
    <3>1. n + 1 \in 1 .. m /\ m <= N
      BY ONLY <1>10, n \in Nat, m \in n + 1 .. N
    <3>2. n + 1 < m /\ LineTokens[n + 2].type = "argument"
      BY <1>12, <1>13, <2>2, <3>1 DEF Sound
    <3>3. n + 2 # N + 1
      BY ONLY <1>10, <3>1, <3>2, n \in Nat
    <3> QED BY <1>10, <1>11, <1>14, <3>2, <3>3
  <2> QED BY <1>1, <1>9, <1>12, <1>13, <2>1, <2>2, LineEnds
<1>15. CASE /\ v.buffer # <<>> /\ v.buffer[1].type = "argument"
            /\ Parsers[q].binds = "number" /\ v.buffer[1].text \notin Readable
  <2>1. /\ answer' = "unreadable" /\ program' = program /\ line' = line /\ tokens' = tokens
        /\ taken' = taken
    BY <1>4, <1>15 DEF Answer
  <2>2. ASSUME NEW m \in n + 1 .. N, Sound(LineTokens, m) PROVE FALSE
    <3>1. n + 1 \in 1 .. m
      BY ONLY <1>10, n \in Nat, m \in n + 1 .. N
    <3>2. LineTokens[n + 2].text \in Readable
      BY <1>12, <1>13, <1>15, <2>2, <3>1 DEF Sound
    <3> QED BY <1>11, <1>15, <3>2
  <2> QED BY <1>1, <1>9, <1>12, <1>13, <2>1, <2>2, LineEnds
<1>16. CASE /\ v.buffer # <<>> /\ v.buffer[1].type = "argument"
            /\ ~(Parsers[q].binds = "number" /\ v.buffer[1].text \notin Readable)
  <2>1. n + 2 \in 1 .. N /\ v.buffer[1] = LineTokens[n + 2] /\ LineTokens[n + 2].type = "argument"
    BY <1>11, <1>16
  <2>2. /\ taken' = [taken EXCEPT ![q] = Append(@, LineTokens[n + 2].text)] /\ tokens' = Advanced(v)
        /\ program' = program /\ line' = line /\ answer' = answer
    BY <1>4, <1>16, <2>1 DEF Take
  <2>3. LineTokens[n + 2].text \in Words \cup {""}
    BY <1>9, <2>1, InvFacts
  <2>4. \A r \in DOMAIN Parsers : ~Use(r, n + 1)
    <3>1. ~IsSource(LineTokens, n + 1) /\ ~IsValue(LineTokens, n + 1)
      BY <1>5 DEF IsSource, IsValue
    <3>2. Parsers[q].binds \notin {"flag", "help"}
      BY <1>5 DEF HasValue
    <3> QED BY <1>7, <3>1, <3>2 DEF Use
  <2>5. TakenIs(taken, n + 1)
    BY <1>1, <2>4, TakenNone
  <2>6. IsValue(LineTokens, n + 2) /\ ~IsSource(LineTokens, n + 2)
    <3>1. n + 2 > 1 /\ (n + 2) - 1 = n + 1
      OBVIOUS
    <3>2. IsValue(LineTokens, n + 2)
      BY <1>12, <2>1, <3>1 DEF IsValue
    <3> QED BY <3>2 DEF IsSource
  <2>7. \A r \in DOMAIN Parsers : Use(r, n + 2) <=> r = q
    <3>1. (n + 2) - 1 = n + 1
      OBVIOUS
    <3>2. \A r : ~NamedBy(r, LineTokens[n + 2])
      BY <2>1 DEF NamedBy
    <3>3. \A r \in DOMAIN Parsers : Use(r, n + 2) <=>
            Parsers[r].binds \in HasValue /\ NamedBy(r, LineTokens[n + 1])
      BY <2>6, <3>1, <3>2 DEF Use
    <3> QED BY <1>5, <1>7, <3>3
  <2>8. TakenIs(taken', n + 2)
    <3>1. PICK W, w : W = Words \cup {""} /\ w = LineTokens[n + 2].text
      OBVIOUS
    <3>2. taken \in [DOMAIN Parsers -> Seq(W)] /\ w \in W
      BY <1>6, <2>3, <3>1
    <3>3. PICK m \in Nat : m = n + 1 /\ m + 1 = n + 2
      OBVIOUS
    <3>4. TakenIs(taken, m) /\ (\A r \in DOMAIN Parsers : Use(r, m + 1) <=> r = q)
          /\ w = LineTokens[m + 1].text
      BY <2>5, <2>7, <3>1, <3>3
    <3>5. TakenIs([taken EXCEPT ![q] = Append(@, w)], m + 1)
      BY <1>5, <3>2, <3>4, TakenOne
    <3> QED BY <2>2, <3>1, <3>3, <3>5
  <2>9. Sound(LineTokens, n + 2)
    BY <1>1, <1>5, <1>7, <1>12, <1>16, <2>1, SoundTwo
  <2>10. At(Advanced(v), (n + 2) + 1)
    BY <1>6, <1>8, <1>16, AdvancedAt
  <2>11. PICK u, tk : u = tokens' /\ tk = taken'
    OBVIOUS
  <2>12. n + 2 \in Nat /\ At(u, (n + 2) + 1) /\ TakenIs(tk, n + 2)
    BY <2>2, <2>8, <2>10, <2>11
  <2> QED BY <1>5, <2>2, <2>9, <2>11, <2>12, LineGoesOn
<1> QED BY <1>14, <1>15, <1>16

LEMMA HelpLine ==
  ASSUME IInv, LineInv, NEW q, AskHelp(q) PROVE LineInv'
<1>1. PICK n \in Nat : At(tokens, n + 1) /\ Sound(LineTokens, n) /\ TakenIs(taken, n)
  BY DEF LineInv
<1>2. Asked(q, {"help"}) /\ Answer("help")
  BY DEF AskHelp
<1>3. /\ q \in DOMAIN Parsers /\ Parsers[q].binds = "help" /\ n + 1 \in 1 .. Len(LineTokens)
      /\ NamedBy(q, LineTokens[n + 1])
  <2>1. q \in DOMAIN Parsers /\ Parsers[q].binds \in {"help"}
    BY <1>1, <1>2, AskedAt
  <2>2. Parsers[q].binds # "source"
    BY <2>1
  <2> QED BY <1>1, <1>2, <2>1, <2>2, AskedAt
<1>4. Binds(LineTokens[n + 1], {"help"})
  BY <1>3 DEF Binds
<1>5. n + 1 <= Len(LineTokens)
  <2>1. PICK N : N = Len(LineTokens)
    OBVIOUS
  <2>2. N \in Nat
    BY <2>1, InvFacts
  <2>3. n + 1 \in 1 .. N
    BY <1>3, <2>1
  <2>4. n + 1 <= N
    BY ONLY <2>2, <2>3
  <2> QED BY <2>1, <2>4
<1>6. answer' = "help" /\ program' = program /\ line' = line /\ tokens' = tokens /\ taken' = taken
  BY <1>2 DEF Answer
<1> QED BY <1>1, <1>4, <1>5, <1>6, LineEnds

LEMMA AcceptLine ==
  ASSUME IInv, LineInv, Accept PROVE LineInv'
<1>1. PICK n \in Nat : At(tokens, n + 1) /\ Sound(LineTokens, n) /\ TakenIs(taken, n)
  BY DEF LineInv
<1>2. /\ answer' = "accepted" /\ program' = program /\ line' = line /\ tokens' = tokens
      /\ taken' = taken /\ tokens.buffer = <<>>
  BY DEF Accept, Answer, HasToken
<1>3. n + 1 = Len(LineTokens) + 1
  <2>1. line \in Seq(Argument) /\ Stands(tokens)
    BY InvFacts
  <2> QED BY <1>1, <1>2, <2>1, AtFacts
<1> QED BY <1>1, <1>2, <1>3, LineEnds

LEMMA UnrecognizedLine ==
  ASSUME IInv, LineInv, program # "avrasmopt", Unrecognized PROVE LineInv'
<1>1. PICK n \in Nat : At(tokens, n + 1) /\ Sound(LineTokens, n) /\ TakenIs(taken, n)
  BY DEF LineInv
<1>2. /\ answer' = "unrecognized" /\ program' = program /\ line' = line /\ tokens' = tokens
      /\ taken' = taken /\ tokens.buffer # <<>> /\ Takers(tokens.buffer[1]) = {}
  BY DEF Unrecognized, Answer, HasToken, Next1
<1>3. /\ program \in DOMAIN Tables /\ line \in Seq(Argument) /\ Stands(tokens)
      /\ taken \in [DOMAIN Parsers -> Seq(Words \cup {""})]
  BY InvFacts
<1>4. PICK N : N = Len(LineTokens)
  OBVIOUS
<1>5. n + 1 \in 1 .. N + 1 /\ N \in Nat /\ n + 1 # N + 1
  BY <1>1, <1>2, <1>3, <1>4, AtFacts
<1>6. n + 1 <= N /\ n + 1 \in 1 .. N
  BY ONLY <1>5, n \in Nat
<1>7. PICK token : token = LineTokens[n + 1]
  OBVIOUS
<1>8. Takers(token) = {} /\ token.type \in {"option", "argument"}
  <2>1. token = tokens.buffer[1]
    BY <1>1, <1>3, <1>4, <1>6, <1>7, AtFacts
  <2>2. token.type \in {"option", "argument"}
    BY <1>4, <1>6, <1>7, InvFacts
  <2> QED BY <1>2, <2>1, <2>2
<1>9. \A r \in DOMAIN Parsers : Wants(r, token) => Parsers[r].binds # "list" /\ taken[r] # <<>>
  BY <1>8 DEF Takers, Free
<1>10. \A r \in DOMAIN Parsers : NamedBy(r, token) => Wants(r, token)
  BY <1>3, TableFacts DEF NamedBy, Wants
<1>11. PICK W : W = Words \cup {""}
  OBVIOUS
<1>12. \A r \in DOMAIN Parsers : taken[r] \in Seq(W)
  BY <1>3, <1>11
<1>13. \A r \in DOMAIN Parsers :
         /\ Parsers[r].binds \in {"flag", "help"} \cup HasValue =>
              (taken[r] = <<>> <=> \A k \in 1 .. n : ~NamedBy(r, LineTokens[k]))
         /\ Parsers[r].binds = "source" =>
              (taken[r] = <<>> <=> \A k \in 1 .. n : ~IsSource(LineTokens, k))
  BY <1>1, <1>3, <1>12, NothingTaken
<1>14. ASSUME Binds(token, {"help"}) PROVE FALSE
  <2>1. PICK r \in DOMAIN Parsers : NamedBy(r, token) /\ Parsers[r].binds = "help"
    BY <1>14 DEF Binds
  <2>2. taken[r] # <<>>
    BY <1>9, <1>10, <2>1
  <2>3. PICK k \in 1 .. n : NamedBy(r, LineTokens[k])
    BY <1>13, <2>1, <2>2
  <2>4. LineTokens[k].type = "option" /\ ~Binds(LineTokens[k], {"flag"} \cup HasValue)
    <3>1. LineTokens[k].type = "option" /\ \A B : Binds(LineTokens[k], B) <=> Parsers[r].binds \in B
      BY <1>3, <2>3, NamedOnce
    <3>2. Parsers[r].binds \notin {"flag"} \cup HasValue
      BY <2>1 DEF HasValue
    <3> QED BY <3>1, <3>2
  <2> QED BY <1>1, <2>4 DEF Sound
<1>15. ASSUME NEW m \in n + 1 .. N, Sound(LineTokens, m) PROVE FALSE
  <2>1. n + 1 \in 1 .. m /\ \A k \in 1 .. n : k \in 1 .. m /\ k # n + 1
    BY ONLY <1>5, n \in Nat, m \in n + 1 .. N
  <2>2. CASE token.type = "option"
    <3>1. Binds(token, {"flag"} \cup HasValue)
      BY <1>7, <1>15, <2>1, <2>2 DEF Sound
    <3>2. PICK r \in DOMAIN Parsers : NamedBy(r, token) /\ Parsers[r].binds \in {"flag"} \cup HasValue
      BY <3>1 DEF Binds
    <3>3. Parsers[r].binds # "list" /\ taken[r] # <<>>
      BY <1>9, <1>10, <3>2
    <3>4. PICK k \in 1 .. n : NamedBy(r, LineTokens[k])
      BY <1>13, <3>2, <3>3
    <3> QED BY <1>7, <1>15, <2>1, <3>2, <3>3, <3>4 DEF Sound
  <2>3. CASE token.type = "argument"
    <3>1. PICK r \in DOMAIN Parsers : Parsers[r].binds = "source"
      BY <1>3, SourceAssumption DEF Parsers
    <3>2. taken[r] # <<>>
      BY <1>9, <2>3, <3>1 DEF Wants
    <3>3. PICK k \in 1 .. n : IsSource(LineTokens, k)
      BY <1>13, <3>1, <3>2
    <3>4. IsSource(LineTokens, n + 1)
      BY <1>1, <1>7, <2>3, NoValueNext DEF IsSource
    <3> QED BY <1>15, <2>1, <3>3, <3>4 DEF Sound
  <2> QED BY <1>8, <2>2, <2>3
<1> QED BY <1>1, <1>2, <1>4, <1>6, <1>7, <1>14, <1>15, LineEnds

LEMMA CliLine ==
  ASSUME IInv, LineInv, program # "avrasmopt", CliNext PROVE LineInv'
  BY FlagLine, SourceLine, ValueLine, HelpLine, UnrecognizedLine, AcceptLine DEF CliNext

LEMMA LineWaits ==
  ASSUME LineInv, UNCHANGED cliVars PROVE LineInv'
<1>1. line' = line /\ program' = program /\ tokens' = tokens /\ taken' = taken /\ answer' = answer
  BY DEF cliVars
<1>2. PICK n \in Nat : At(tokens, n + 1) /\ Sound(LineTokens, n) /\ TakenIs(taken, n) /\ Outcome(n + 1)
  BY DEF LineInv
<1> QED BY <1>1, <1>2, LineEnds DEF Outcome

LEMMA LineInitially == Init => LineInv
<1> SUFFICES ASSUME Init PROVE LineInv
  OBVIOUS
<1>1. line \in Seq(Argument) /\ tokens = Loaded(1) /\ answer = "parsing"
      /\ taken = [p \in DOMAIN Parsers |-> <<>>]
  BY LinesAssumption DEF Init, CliInit
<1>2. 1 .. 0 = {} /\ 0 + 1 = 1 /\ 1 - 1 = 0 /\ Cardinality({}) = 0
  BY FS_EmptySet
<1>3. At(tokens, 0 + 1)
  <2>1. PICK off : Laid(off)
    BY <1>1, LineLaidOut
  <2>2. 1 \in 1 .. Len(line) + 1
    BY <1>1, LineParts
  <2>3. Points(off, tokens, off[1 - 1] + 1)
    BY <1>1, <2>1, <2>2, LoadedAt
  <2>4. off[1 - 1] + 1 = 0 + 1
    BY <1>1, <2>1, LaidGrows
  <2> QED BY <2>1, <2>3, <2>4 DEF At
<1>4. Sound(LineTokens, 0)
  BY <1>2 DEF Sound
<1>5. TakenIs(taken, 0)
  <2>1. \A q : Uses(q, 0) = {}
    BY <1>2 DEF Uses
  <2> QED BY <1>1, <1>2, <2>1 DEF TakenIs
<1>6. Outcome(0 + 1)
  BY <1>1 DEF Outcome
<1> QED BY <1>3, <1>4, <1>5, <1>6 DEF LineInv

LEMMA LineInductive == IInv /\ LineInv /\ [Next]_vars => LineInv'
<1> SUFFICES ASSUME IInv, LineInv, [Next]_vars PROVE LineInv'
  OBVIOUS
<1>1. CASE CliNext /\ program # "avrasmopt"
  BY <1>1, CliLine
<1>2. CASE UNCHANGED cliVars
  BY <1>2, LineWaits
<1>3. Main => UNCHANGED cliVars
  BY DEF Main, PrintError, PrintHelp, NoSource, NoSuchFile, ConfigureExtractor, ConfigureAxtractor,
         ParseOnly, Generate, Return, Exit, Configure
<1>4. (CliNext /\ program # "avrasmopt") \/ UNCHANGED cliVars
  BY <1>3 DEF Next, WithLyra, vars
<1> QED BY <1>1, <1>2, <1>4

LEMMA LineInvariant == Spec => [](IInv /\ LineInv)
<1>1. IInv /\ LineInv /\ [Next]_vars => (IInv /\ LineInv)'
  BY Inductive, LineInductive
<1> QED BY <1>1, Initially, LineInitially, PTL DEF Spec

(* The rounds of cli_parser::parse() accept the sound lines and no other,  *)
(* and help ends them exactly behind a sound beginning, for every table    *)
(* in which a name has one parser.                                         *)
THEOREM AcceptedAlwaysExactly == Spec => []AcceptedExactly
<1>1. IInv /\ LineInv => AcceptedExactly
  <2> SUFFICES ASSUME IInv, LineInv, answer # "parsing"
               PROVE  /\ (answer = "accepted") <=> Sound(LineTokens, Len(LineTokens))
                      /\ (answer = "help") <=>
                           \E k \in DOMAIN LineTokens :
                             Binds(LineTokens[k], {"help"}) /\ Sound(LineTokens, k - 1)
    BY DEF AcceptedExactly
  <2>1. PICK n \in Nat : At(tokens, n + 1) /\ Sound(LineTokens, n) /\ Outcome(n + 1)
    BY DEF LineInv
  <2>2. PICK s, N : s = LineTokens /\ N = Len(LineTokens)
    OBVIOUS
  <2>3. program \in DOMAIN Tables /\ N \in Nat /\ DOMAIN s = 1 .. N
    <3>1. program \in DOMAIN Tables /\ LineTokens \in Seq(Token)
      BY InvFacts
    <3> QED BY <2>2, <3>1, Elements
  <2>4. answer \in {"accepted", "help", "unrecognized", "no value", "unreadable"}
    BY DEF IInv, Rest, Answers
  <2>5. \A t : Binds(t, {"help"}) => t.type = "option" /\ ~Binds(t, {"flag"} \cup HasValue)
    <3> SUFFICES ASSUME NEW t, Binds(t, {"help"})
                 PROVE  t.type = "option" /\ ~Binds(t, {"flag"} \cup HasValue)
      OBVIOUS
    <3>1. PICK r \in DOMAIN Parsers : NamedBy(r, t) /\ Parsers[r].binds = "help"
      BY DEF Binds
    <3>2. Parsers[r].binds \notin {"flag"} \cup HasValue
      BY <3>1 DEF HasValue
    <3> QED BY <2>3, <3>1, <3>2, NamedOnce
  <2>6. ASSUME NEW m \in Nat, Sound(s, m), NEW k \in 1 .. m PROVE ~Binds(s[k], {"help"})
    BY <2>5, <2>6 DEF Sound
  <2>7. CASE answer = "accepted"
    <3>1. n = N
      <4>1. n + 1 = N + 1
        BY <2>1, <2>2, <2>7 DEF Outcome
      <4> QED BY ONLY <2>3, <4>1, n \in Nat
    <3> QED BY <2>1, <2>2, <2>3, <2>6, <2>7, <3>1
  <2>8. CASE answer = "help"
    <3>1. n + 1 <= N /\ Binds(s[n + 1], {"help"})
      BY <2>1, <2>2, <2>8 DEF Outcome
    <3>2. n + 1 \in 1 .. N /\ (n + 1) - 1 = n
      BY ONLY <2>3, <3>1, n \in Nat
    <3> QED BY <2>1, <2>2, <2>3, <2>6, <2>8, <3>1, <3>2
  <2>9. CASE answer \in {"unrecognized", "no value", "unreadable"}
    <3>1. /\ n + 1 <= N /\ ~Binds(s[n + 1], {"help"})
          /\ \A m \in n + 1 .. N : ~Sound(s, m)
      BY <2>1, <2>2, <2>9 DEF Outcome
    <3>2. N \in n + 1 .. N
      BY <2>3, <3>1
    <3>3. ASSUME NEW k \in 1 .. N, Binds(s[k], {"help"}), Sound(s, k - 1) PROVE FALSE
      <4>1. k \in 1 .. n \/ k = n + 1 \/ k - 1 \in n + 1 .. N
        BY ONLY <2>3, n \in Nat, k \in 1 .. N
      <4> QED BY <2>1, <2>2, <2>6, <3>1, <3>3, <4>1
    <3> QED BY <2>2, <2>3, <2>9, <3>1, <3>2, <3>3
  <2> QED BY <2>4, <2>7, <2>8, <2>9
<1> QED BY <1>1, LineInvariant, PTL

-----------------------------------------------------------------------------
(* What main() has made of an accepted line.                               *)
MainInv ==
    /\ settings # NotMade =>
         /\ answer = "accepted"
         /\ \/ /\ program = "extractor" /\ SourceFile \notin OptionWords \cup {""}
               /\ \E mime \in Mimes : settings = ExtractorSettings(LanguageFor(mime))
            \/ program = "axtractor" /\ SourceFile # "" /\ settings = AxtractorSettings
    /\ generated # "no" => settings # NotMade
    /\ generated = "written" => ~FilterOnly
    /\ exit = "success" =>
         \/ answer = "help" /\ generated = "no"
         \/ generated # "no" /\ (generated = "failed" => program # "extractor")

LEMMA MainInitially == Init => MainInv
  BY DEF Init, ProgramInit, MainInv

(* What main() reads from the parsers.                                     *)
LEMMA MainReads ==
  ASSUME UNCHANGED cliVars
  PROVE  /\ program' = program /\ answer' = answer /\ SourceFile' = SourceFile
         /\ \A mime : ExtractorSettings(LanguageFor(mime))' = ExtractorSettings(LanguageFor(mime))
         /\ AxtractorSettings' = AxtractorSettings /\ (FilterOnly' <=> FilterOnly)
<1>1. program' = program /\ answer' = answer /\ taken' = taken /\ Parsers' = Parsers
  BY DEF cliVars, Parsers
<1>2. \A name : ParserOf(name)' = ParserOf(name)
  BY <1>1 DEF ParserOf
<1>3. \A name : IsSet(name)' = IsSet(name)
  BY <1>1, <1>2 DEF IsSet
<1>4. \A p, d : Value(p, d)' = Value(p, d)
  BY <1>1 DEF Value
<1>5. \A name, d : ValueOf(name, d)' = ValueOf(name, d)
  BY <1>1, <1>2 DEF ValueOf, Value
<1>6. SourceFile' = SourceFile
  BY <1>1 DEF SourceFile, Value
<1>7. \A mime : LanguageFor(mime)' = LanguageFor(mime)
  BY <1>5, <1>6 DEF LanguageFor
<1>8. AxtractorSettings' = AxtractorSettings
  BY <1>5 DEF AxtractorSettings
<1>9. ASSUME NEW mime
      PROVE  ExtractorSettings(LanguageFor(mime))' = ExtractorSettings(LanguageFor(mime))
  BY <1>1, <1>2, <1>3, <1>5, <1>7 DEF ExtractorSettings
<1>10. FilterOnly' <=> FilterOnly
  BY <1>1, <1>3 DEF FilterOnly
<1> QED BY <1>1, <1>6, <1>8, <1>9, <1>10

LEMMA MainInductive == IInv /\ MainInv /\ [Next]_vars => MainInv'
<1> SUFFICES ASSUME IInv, MainInv, [Next]_vars PROVE MainInv'
  OBVIOUS
<1>1. CASE CliNext /\ UNCHANGED programVars
  <2>1. answer = "parsing"
    BY <1>1 DEF CliNext, SetFlag, SetSource, SetValue, AskHelp, Unrecognized, Accept, Asked
  <2>2. settings = NotMade /\ generated = "no" /\ exit # "success"
    BY <2>1 DEF MainInv
  <2>3. settings' = settings /\ generated' = generated /\ exit' = exit
    BY <1>1 DEF programVars
  <2> QED BY <2>2, <2>3 DEF MainInv, NotMade
<1>2. CASE UNCHANGED <<cliVars, programVars>>
  <2>1. settings' = settings /\ generated' = generated /\ exit' = exit
    BY <1>2 DEF programVars
  <2> QED BY <1>2, <2>1, MainReads DEF MainInv, NotMade
<1>3. CASE Main
  <2>1. UNCHANGED cliVars
    BY <1>3 DEF Main, PrintError, PrintHelp, NoSource, NoSuchFile, ConfigureExtractor,
       ConfigureAxtractor, ParseOnly, Generate, Return, Exit, Configure
  <2>2. CASE PrintError \/ PrintHelp \/ NoSource \/ NoSuchFile
    <3>1. /\ settings = NotMade /\ settings' = settings /\ generated' = generated
          /\ exit' = "failure" \/ (exit' = "success" /\ answer = "help")
      BY <2>2 DEF PrintError, PrintHelp, NoSource, NoSuchFile, Exit, Running
    <3>2. generated = "no"
      BY <3>1 DEF MainInv
    <3> QED BY <2>1, <3>1, <3>2, MainReads DEF MainInv, NotMade
  <2>3. ASSUME NEW mime \in Mimes, ConfigureExtractor(mime) PROVE MainInv'
    <3>1. /\ program = "extractor" /\ answer = "accepted" /\ settings = NotMade
          /\ SourceFile \notin OptionWords \cup {""} /\ exit = "none"
          /\ generated' = generated
          /\ \/ settings' = ExtractorSettings(LanguageFor(mime)) /\ exit' = exit
             \/ settings' = settings /\ exit' = "aborted"
      BY <2>3 DEF ConfigureExtractor, Running, Configure, Exit
    <3>2. generated = "no"
      BY <3>1 DEF MainInv
    <3>3. program' = program /\ answer' = answer /\ SourceFile' = SourceFile
          /\ ExtractorSettings(LanguageFor(mime))' = ExtractorSettings(LanguageFor(mime))
      BY <2>1, MainReads
    <3>4. exit' # "success" /\ generated' = "no" /\ NotMade' = NotMade
      BY <3>1, <3>2 DEF NotMade
    <3>5. CASE settings' = settings
      BY <3>1, <3>4, <3>5 DEF MainInv, NotMade
    <3>6. CASE settings' = ExtractorSettings(LanguageFor(mime))
      <4>1. (\E m \in Mimes : settings = ExtractorSettings(LanguageFor(m)))'
        BY <3>3, <3>6
      <4> QED BY <3>1, <3>3, <3>4, <4>1 DEF MainInv
    <3> QED BY <3>1, <3>5, <3>6
  <2>4. CASE ConfigureAxtractor
    <3>1. /\ program = "axtractor" /\ answer = "accepted" /\ settings = NotMade
          /\ SourceFile # "" /\ exit = "none" /\ exit' = exit
          /\ generated' = generated /\ settings' = AxtractorSettings
      BY <2>4 DEF ConfigureAxtractor, Running, Configure
    <3>2. generated = "no"
      BY <3>1 DEF MainInv
    <3>3. program' = program /\ answer' = answer /\ SourceFile' = SourceFile
          /\ AxtractorSettings' = AxtractorSettings
      BY <2>1, MainReads
    <3> QED BY <3>1, <3>2, <3>3 DEF MainInv
  <2>5. CASE ParseOnly \/ Generate
    <3>1. /\ settings # NotMade /\ settings' = settings /\ exit = "none" /\ exit' = exit
          /\ generated' = "written" => ~FilterOnly
      BY <2>5 DEF ParseOnly, Generate, Generating
    <3> QED BY <2>1, <3>1, MainReads DEF MainInv, NotMade
  <2>6. CASE Return
    <3>1. /\ generated # "no" /\ settings' = settings /\ generated' = generated
          /\ exit' = "success" => (generated = "failed" => program # "extractor")
      BY <2>6 DEF Return, Exit
    <3> QED BY <2>1, <3>1, MainReads DEF MainInv, NotMade
  <2> QED BY <1>3, <2>2, <2>3, <2>4, <2>5, <2>6 DEF Main
<1> QED BY <1>1, <1>2, <1>3 DEF Next, WithLyra, vars

LEMMA MainInvariant == Spec => [](IInv /\ LineInv /\ MainInv)
<1>1. IInv /\ MainInv /\ [Next]_vars => (IInv /\ MainInv)'
  BY Inductive, MainInductive
<1>2. Spec => [](IInv /\ MainInv)
  BY <1>1, Initially, MainInitially, PTL DEF Spec
<1> QED BY <1>2, LineInvariant, PTL

-----------------------------------------------------------------------------
(* What an accepted line has given to a parser.                            *)
LEMMA OneUse ==
  ASSUME NEW A \in SUBSET Nat, IsFiniteSet(A), Cardinality(A) <= 1
  PROVE  A = {} \/ \E k \in A : A = {k} /\ Place(k, A) = 1 /\ Cardinality(A) = 1
<1>1. Cardinality(A) \in Nat
  BY FS_CardinalityType
<1>2. CASE Cardinality(A) = 0
  BY <1>2, FS_EmptySet
<1>3. CASE Cardinality(A) = 1
  <2>1. PICK k : A = {k}
    BY <1>3, FS_Singleton
  <2>2. k \in Nat /\ {j \in A : j <= k} = {k}
    BY <2>1
  <2> QED BY <1>3, <2>1, <2>2 DEF Place
<1> QED BY <1>1, <1>2, <1>3

LEMMA OneElement ==
  ASSUME NEW W, NEW a \in Seq(W)
  PROVE  /\ Len(a) = 0 => a = <<>>
         /\ Len(a) = 1 => a = <<a[1]>> /\ a # <<>>
  OBVIOUS

LEMMA WholeLine ==
  ASSUME IInv, LineInv, answer = "accepted"
  PROVE  /\ program \in DOMAIN Tables /\ Len(LineTokens) \in Nat /\ DOMAIN LineTokens = 1 .. Len(LineTokens)
         /\ Sound(LineTokens, Len(LineTokens)) /\ TakenIs(taken, Len(LineTokens))
         /\ \E W : \A q \in DOMAIN Parsers : taken[q] \in Seq(W)
<1>1. PICK n \in Nat : /\ At(tokens, n + 1) /\ Sound(LineTokens, n) /\ TakenIs(taken, n)
                       /\ Outcome(n + 1)
  BY DEF LineInv
<1>2. n + 1 = Len(LineTokens) + 1
  BY <1>1 DEF Outcome
<1>3. LineTokens \in Seq(Token) /\ taken \in [DOMAIN Parsers -> Seq(Words \cup {""})]
      /\ program \in DOMAIN Tables
  BY InvFacts
<1>4. PICK N : N = Len(LineTokens)
  OBVIOUS
<1>5. N \in Nat /\ DOMAIN LineTokens = 1 .. N
  BY <1>3, <1>4, Elements
<1>6. n + 1 = N + 1
  BY <1>2, <1>4
<1>7. n = N
  BY ONLY <1>5, <1>6, n \in Nat
<1>8. PICK W : W = Words \cup {""}
  OBVIOUS
<1>9. \A q \in DOMAIN Parsers : taken[q] \in Seq(W)
  BY <1>3, <1>8
<1> QED BY <1>1, <1>3, <1>4, <1>5, <1>7, <1>9

LEMMA TakenOnce ==
  ASSUME IInv, LineInv, answer = "accepted", NEW q \in DOMAIN Parsers,
         Parsers[q].binds # "list", Parsers[q].binds # "flag"
  PROVE  \/ taken[q] = <<>> /\ Uses(q, Len(LineTokens)) = {}
         \/ \E k \in 1 .. Len(LineTokens) : /\ Uses(q, Len(LineTokens)) = {k}
                                            /\ taken[q] = <<LineTokens[k].text>> /\ taken[q] # <<>>
<1>1. PICK N, A, a : N = Len(LineTokens) /\ A = Uses(q, N) /\ a = taken[q]
  OBVIOUS
<1>2. PICK W : N \in Nat /\ TakenIs(taken, N) /\ a \in Seq(W)
  BY <1>1, WholeLine
<1>3. Len(a) <= 1
  BY <1>1 DEF IInv, Rest
<1>4. Len(a) = Cardinality(A) /\ \A k \in A : a[Place(k, A)] = LineTokens[k].text
  BY <1>1, <1>2 DEF TakenIs
<1>5. A \subseteq 1 .. N
  BY <1>1 DEF Uses
<1>6. N \in Int /\ A \in SUBSET Nat
  BY ONLY <1>2, <1>5
<1>7. IsFiniteSet(A)
  BY <1>5, <1>6, CountedInInterval
<1>8. A = {} \/ \E k \in A : A = {k} /\ Place(k, A) = 1 /\ Cardinality(A) = 1
  BY <1>3, <1>4, <1>6, <1>7, OneUse
<1>9. CASE A = {}
  <2>1. Len(a) = 0
    BY <1>4, <1>9, FS_EmptySet
  <2>2. a = <<>>
    BY <1>2, <2>1, OneElement
  <2> QED BY <1>1, <1>9, <2>2
<1>10. CASE \E k \in A : A = {k} /\ Place(k, A) = 1 /\ Cardinality(A) = 1
  <2>1. PICK k \in A : A = {k} /\ Place(k, A) = 1 /\ Cardinality(A) = 1
    BY <1>10
  <2>2. a = <<a[1]>> /\ a # <<>>
    BY <1>2, <1>4, <2>1, OneElement
  <2>3. a[1] = LineTokens[k].text /\ k \in 1 .. N
    BY <1>4, <1>5, <2>1
  <2> QED BY <1>1, <2>1, <2>2, <2>3
<1> QED BY <1>8, <1>9, <1>10

(* The source of the line.                                                 *)
LEMMA SourceIs ==
  ASSUME IInv, LineInv, answer = "accepted", program # "avrasmopt", SourceFile # ""
  PROVE  Sources = {SourceFile}
<1> DEFINE p == CHOOSE r \in DOMAIN Parsers : Parsers[r].binds = "source"
           N == Len(LineTokens)
<1>1. SourceFile = IF taken[p] = <<>> THEN "" ELSE taken[p][Len(taken[p])]
  BY DEF SourceFile, Value
<1>2. p \in DOMAIN Parsers /\ Parsers[p].binds = "source"
  <2>1. program \in DOMAIN Tables
    BY WholeLine
  <2> QED BY <2>1, SourceAssumption DEF Parsers
<1> HIDE DEF p
<1>3. PICK k \in 1 .. N : Uses(p, N) = {k} /\ taken[p] = <<LineTokens[k].text>> /\ taken[p] # <<>>
  BY <1>1, <1>2, TakenOnce
<1>4. SourceFile = LineTokens[k].text
  <2>1. PICK x : x = LineTokens[k].text
    OBVIOUS
  <2>2. taken[p] = <<x>> /\ Len(<<x>>) = 1 /\ (<<x>>)[1] = x
    BY <1>3, <2>1
  <2> QED BY <1>1, <1>3, <2>1, <2>2
<1>5. \A j \in 1 .. N : IsSource(LineTokens, j) <=> j = k
  <2>1. \A j \in 1 .. N : j \in Uses(p, N) <=> IsSource(LineTokens, j)
    BY <1>2 DEF Uses, Use, HasValue
  <2> QED BY <1>3, <2>1
<1>6. DOMAIN LineTokens = 1 .. N
  BY WholeLine
<1>7. Sources = {LineTokens[k].text}
  BY <1>5, <1>6 DEF Sources
<1> QED BY <1>4, <1>7

(* A program reports success only for its help, or when it has generated   *)
(* from the one source of an accepted line; axtractor at least has tried   *)
(* to.                                                                     *)
THEOREM SuccessAlwaysTrue == Spec => []SuccessIsTrue
<1>1. IInv /\ LineInv /\ MainInv => SuccessIsTrue
  <2> SUFFICES ASSUME IInv, LineInv, MainInv, exit = "success", ~(answer = "help" /\ generated = "no")
               PROVE  /\ Sources \cap OptionWords = {} \/ program = "axtractor"
                      /\ Sources \notin {{}, {""}}
                      /\ \/ generated \in {"written", "printed"}
                         \/ program = "axtractor" /\ generated = "failed"
    BY DEF SuccessIsTrue
  <2>1. generated # "no" /\ (generated = "failed" => program # "extractor")
    BY DEF MainInv
  <2>2. /\ answer = "accepted" /\ SourceFile # ""
        /\ \/ program = "extractor" /\ SourceFile \notin OptionWords
           \/ program = "axtractor"
    BY <2>1 DEF MainInv
  <2>3. Sources = {SourceFile}
    BY <2>2, SourceIs
  <2>4. generated \in {"no", "written", "printed", "failed"}
    BY DEF IInv, Rest
  <2>5. {SourceFile} # {} /\ {SourceFile} # {""}
    BY <2>2
  <2> QED BY <2>1, <2>2, <2>3, <2>4, <2>5
<1> QED BY <1>1, MainInvariant, PTL

-----------------------------------------------------------------------------
(* The names of a parser on an accepted line.                              *)
LEMMA NamesOnLine ==
  ASSUME IInv, LineInv, answer = "accepted", NEW q \in DOMAIN Parsers
  PROVE  /\ Parsers[q].binds \in {"flag", "help"} \cup HasValue =>
              (On(Parsers[q].names) <=> taken[q] # <<>>)
         /\ Parsers[q].binds \in HasValue =>
              ValuesAt(LineTokens, Parsers[q].names) = Uses(q, Len(LineTokens))
<1> DEFINE N == Len(LineTokens)
<1>1. /\ program \in DOMAIN Tables /\ N \in Nat /\ DOMAIN LineTokens = 1 .. N
      /\ Sound(LineTokens, N) /\ TakenIs(taken, N)
  BY WholeLine
<1>2. PICK W : taken[q] \in Seq(W)
  BY WholeLine
<1>3. Parsers[q].binds \in {"flag", "help"} \cup HasValue =>
        (taken[q] = <<>> <=> \A k \in 1 .. N : ~NamedBy(q, LineTokens[k]))
  BY <1>1, <1>2, NothingTaken
<1>4. \A k \in 1 .. N : NamedBy(q, LineTokens[k]) <=> HasName(LineTokens[k], Parsers[q].names)
  <2> SUFFICES ASSUME NEW k \in 1 .. N, HasName(LineTokens[k], Parsers[q].names)
               PROVE  LineTokens[k].type = "option"
    BY DEF NamedBy, HasName
  <2>1. LineTokens \in Seq(Token)
    BY InvFacts
  <2>2. LineTokens[k] \in Token
    BY <2>1, Elements
  <2>3. Parsers[q] \in Parser
    <3>1. Parsers \in Seq(Parser)
      BY <1>1, TablesAssumption DEF Parsers
    <3> QED BY <3>1, Elements
  <2>4. Parsers[q].names \in SUBSET ({"-", "--"} \X Names)
    BY <2>3 DEF Parser
  <2>5. LineTokens[k].dash \in {"-", "--"}
    BY <2>4 DEF HasName
  <2>6. LineTokens[k].dash # ""
    BY <2>5
  <2> QED BY <2>2, <2>6 DEF Token
<1>5. On(Parsers[q].names) <=> \E k \in 1 .. N : NamedBy(q, LineTokens[k])
  BY <1>1, <1>4 DEF On
<1>6. ASSUME Parsers[q].binds \in HasValue
      PROVE  ValuesAt(LineTokens, Parsers[q].names) = Uses(q, N)
  <2>1. \A k \in 1 .. N : Use(q, k) <=> IsValue(LineTokens, k) /\ NamedBy(q, LineTokens[k - 1])
    BY <1>6 DEF Use, HasValue
  <2>2. \A k \in 1 .. N : k > 1 => k - 1 \in 1 .. N
    BY <1>1
  <2>3. \A k \in 1 .. N :
          IsValue(LineTokens, k) /\ NamedBy(q, LineTokens[k - 1]) <=>
          IsValue(LineTokens, k) /\ HasName(LineTokens[k - 1], Parsers[q].names)
    BY <1>4, <2>2 DEF IsValue
  <2> QED BY <1>1, <2>1, <2>3 DEF ValuesAt, Uses
<1> QED BY <1>3, <1>5, <1>6

(* The variable of an option that is given once at most.                   *)
LEMMA ValueOnLine ==
  ASSUME IInv, LineInv, answer = "accepted", NEW q \in DOMAIN Parsers,
         Parsers[q].binds \in {"text", "number"}
  PROVE  \/ ValuesOn(Parsers[q].names) = {} /\ \A d : Value(q, d) = d
         \/ \E v : ValuesOn(Parsers[q].names) = {v} /\ \A d : Value(q, d) = v
<1>1. ValuesOn(Parsers[q].names) = {LineTokens[k].text : k \in Uses(q, Len(LineTokens))}
  BY NamesOnLine DEF ValuesOn, HasValue
<1>2. Parsers[q].binds # "list" /\ Parsers[q].binds # "flag"
  OBVIOUS
<1>3. CASE taken[q] = <<>> /\ Uses(q, Len(LineTokens)) = {}
  BY <1>1, <1>3 DEF Value
<1>4. ASSUME NEW k \in 1 .. Len(LineTokens), Uses(q, Len(LineTokens)) = {k},
             taken[q] = <<LineTokens[k].text>>, taken[q] # <<>>
      PROVE  \E v : ValuesOn(Parsers[q].names) = {v} /\ \A d : Value(q, d) = v
  <2>1. PICK v : v = LineTokens[k].text
    OBVIOUS
  <2>2. taken[q] = <<v>> /\ Len(<<v>>) = 1 /\ (<<v>>)[1] = v
    BY <1>4, <2>1
  <2>3. \A d : Value(q, d) = v
    BY <1>4, <2>2 DEF Value
  <2>4. ValuesOn(Parsers[q].names) = {v}
    BY <1>1, <1>4, <2>1
  <2> QED BY <2>3, <2>4
<1> QED BY <1>2, <1>3, <1>4, TakenOnce

(* An empty value counts as none.                                          *)
LEMMA GivenIsAskedFor ==
  ASSUME IInv, LineInv, answer = "accepted", NEW q \in DOMAIN Parsers,
         Parsers[q].binds \in {"text", "number"}, NEW default
  PROVE  /\ AskedFor(Parsers[q].names, Given(Value(q, ""), default), default)
         /\ AskedFor(Parsers[q].names, Given(Value(q, default), default), default)
<1>1. CASE ValuesOn(Parsers[q].names) = {} /\ \A d : Value(q, d) = d
  BY <1>1 DEF AskedFor, Given
<1>2. ASSUME NEW v, ValuesOn(Parsers[q].names) = {v}, \A d : Value(q, d) = v
      PROVE  /\ AskedFor(Parsers[q].names, Given(Value(q, ""), default), default)
             /\ AskedFor(Parsers[q].names, Given(Value(q, default), default), default)
  BY <1>2 DEF AskedFor, Given
<1> QED BY <1>1, <1>2, ValueOnLine

LEMMA ParserIs ==
  ASSUME program \in DOMAIN Tables, NEW q \in DOMAIN Parsers, NEW name \in Parsers[q].names
  PROVE  ParserOf(name) = q
<1>1. \A p \in DOMAIN Parsers : name \in Parsers[p].names <=> p = q
  BY TableFacts
<1> QED BY <1>1 DEF ParserOf

-----------------------------------------------------------------------------
(* The tables of the two programs.                                         *)
LEMMA ExtractorParsers ==
  ASSUME Tables = ProgramTables, program = "extractor", program \in DOMAIN Tables
  PROVE  /\ Parsers = ExtractorTable
         /\ {1, 2, 3, 4, 5, 6, 7, 8, 9, 10, 11, 12, 13, 14, 15} \subseteq DOMAIN Parsers
         /\ Parsers[1] = Opt(Short("x") \cup Long("filter-only"), "flag")
         /\ Parsers[2] = Opt(Long("enable-empty-lines"), "flag")
         /\ Parsers[3] = Opt(Long("enable-snippet-defs"), "flag")
         /\ Parsers[4] = Opt(Long("enable-block-comments"), "flag")
         /\ Parsers[5] = Opt(Long("skip-callouts"), "flag")
         /\ Parsers[6] = Opt(Long("print-multi-snippet-delim"), "flag")
         /\ Parsers[7] = Opt(Long("skip-exclude-marker"), "flag")
         /\ Parsers[8] = Opt(Long("skip-highlighting"), "flag")
         /\ Parsers[9] = Opt(Long("include-omitted"), "flag")
         /\ Parsers[10] = Opt(Short("l") \cup Long("language"), "text")
         /\ Parsers[11] = Opt(Short("a") \cup Long("astyle"), "list")
         /\ Parsers[12] = Opt(Short("o") \cup Long("output"), "text")
         /\ Parsers[13] = Opt(Short("d") \cup Long("subdir"), "text")
         /\ Parsers[14] = Opt(Short("n") \cup Long("line-number"), "flag")
         /\ Parsers[15] = Opt(Long("indent"), "number")
<1>1. Parsers = ExtractorTable
  BY DEF Parsers, ProgramTables
<1> QED BY <1>1 DEF ExtractorTable

LEMMA AxtractorParsers ==
  ASSUME Tables = ProgramTables, program = "axtractor", program \in DOMAIN Tables
  PROVE  3 \in DOMAIN Parsers /\ Parsers[3] = Opt(Short("o") \cup Long("output"), "text")
<1>1. Parsers = AxtractorTable
  BY DEF Parsers, ProgramTables
<1> QED BY <1>1 DEF AxtractorTable

LEMMA OptFacts ==
  \A names, binds : Opt(names, binds).names = names /\ Opt(names, binds).binds = binds
  BY DEF Opt

(* The settings as the generators get them, whatever stands between the    *)
(* options of the line.                                                    *)
THEOREM SettingsAlwaysFromTheLine ==
  ASSUME Tables = ProgramTables
  PROVE  Spec => []SettingsFromTheLine
<1>1. IInv /\ LineInv /\ MainInv => SettingsFromTheLine
  <2> SUFFICES ASSUME IInv, LineInv, MainInv, settings # NotMade PROVE SettingsFromTheLine
    BY DEF SettingsFromTheLine
  <2>1. /\ answer = "accepted"
        /\ \/ /\ program = "extractor" /\ SourceFile # ""
              /\ \E mime \in Mimes : settings = ExtractorSettings(LanguageFor(mime))
           \/ program = "axtractor" /\ SourceFile # "" /\ settings = AxtractorSettings
    BY DEF MainInv
  <2>2. program \in DOMAIN Tables /\ Sources = {SourceFile}
    BY <2>1, WholeLine, SourceIs
  <2>3. ASSUME NEW q \in DOMAIN Parsers, NEW name \in Parsers[q].names
        PROVE  ParserOf(name) = q
    BY <2>2, <2>3, ParserIs
  <2>4. \A d : ValueOf(<<"--", "output">>, d) = Value(ParserOf(<<"--", "output">>), d)
    BY DEF ValueOf
  <2>5. CASE program = "axtractor" /\ settings = AxtractorSettings
    <3>1. 3 \in DOMAIN Parsers /\ Parsers[3].names = Short("o") \cup Long("output")
          /\ Parsers[3].binds = "text"
      BY <2>2, <2>5, AxtractorParsers, OptFacts
    <3>2. ParserOf(<<"--", "output">>) = 3
      BY <2>3, <3>1 DEF Long
    <3>3. settings.outputFilePath = Given(Value(3, ""), "by source")
      BY <2>4, <2>5, <3>2 DEF AxtractorSettings
    <3>4. AskedFor(Short("o") \cup Long("output"), settings.outputFilePath, "by source")
      BY <2>1, <3>1, <3>3, GivenIsAskedFor
    <3> QED BY <2>2, <2>5, <3>4 DEF SettingsFromTheLine
  <2>6. ASSUME program = "extractor", NEW mime \in Mimes, settings = ExtractorSettings(LanguageFor(mime))
        PROVE  SettingsFromTheLine
    <3>1. /\ {2, 3, 4, 5, 6, 7, 8, 9, 10, 11, 12, 13, 14, 15} \subseteq DOMAIN Parsers
          /\ Parsers[2].names = Long("enable-empty-lines") /\ Parsers[2].binds = "flag"
          /\ Parsers[3].names = Long("enable-snippet-defs") /\ Parsers[3].binds = "flag"
          /\ Parsers[4].names = Long("enable-block-comments") /\ Parsers[4].binds = "flag"
          /\ Parsers[5].names = Long("skip-callouts") /\ Parsers[5].binds = "flag"
          /\ Parsers[6].names = Long("print-multi-snippet-delim") /\ Parsers[6].binds = "flag"
          /\ Parsers[7].names = Long("skip-exclude-marker") /\ Parsers[7].binds = "flag"
          /\ Parsers[8].names = Long("skip-highlighting") /\ Parsers[8].binds = "flag"
          /\ Parsers[14].names = Short("n") \cup Long("line-number") /\ Parsers[14].binds = "flag"
          /\ Parsers[9].names = Long("include-omitted") /\ Parsers[9].binds = "flag"
      BY <2>2, <2>6, ExtractorParsers, OptFacts
    <3>2. /\ Parsers[10].names = Short("l") \cup Long("language") /\ Parsers[10].binds = "text"
          /\ Parsers[11].names = Short("a") \cup Long("astyle") /\ Parsers[11].binds = "list"
          /\ Parsers[12].names = Short("o") \cup Long("output") /\ Parsers[12].binds = "text"
          /\ Parsers[13].names = Short("d") \cup Long("subdir") /\ Parsers[13].binds = "text"
          /\ Parsers[15].names = Long("indent") /\ Parsers[15].binds = "number"
      BY <2>2, <2>6, ExtractorParsers, OptFacts
    <3>3. /\ 2 \in DOMAIN Parsers /\ 3 \in DOMAIN Parsers /\ 4 \in DOMAIN Parsers
          /\ 5 \in DOMAIN Parsers /\ 6 \in DOMAIN Parsers /\ 7 \in DOMAIN Parsers
          /\ 8 \in DOMAIN Parsers /\ 14 \in DOMAIN Parsers
          /\ 9 \in DOMAIN Parsers /\ 10 \in DOMAIN Parsers /\ 11 \in DOMAIN Parsers
          /\ 12 \in DOMAIN Parsers /\ 13 \in DOMAIN Parsers /\ 15 \in DOMAIN Parsers
      BY <3>1
    <3>4. /\ <<"--", "enable-empty-lines">> \in Parsers[2].names
          /\ <<"--", "enable-snippet-defs">> \in Parsers[3].names
          /\ <<"--", "enable-block-comments">> \in Parsers[4].names
          /\ <<"--", "skip-callouts">> \in Parsers[5].names
          /\ <<"--", "print-multi-snippet-delim">> \in Parsers[6].names
          /\ <<"--", "skip-exclude-marker">> \in Parsers[7].names
          /\ <<"--", "skip-highlighting">> \in Parsers[8].names
          /\ <<"--", "line-number">> \in Parsers[14].names
          /\ <<"--", "include-omitted">> \in Parsers[9].names
          /\ <<"--", "language">> \in Parsers[10].names
          /\ <<"--", "astyle">> \in Parsers[11].names
          /\ <<"--", "output">> \in Parsers[12].names
          /\ <<"--", "subdir">> \in Parsers[13].names
          /\ <<"--", "indent">> \in Parsers[15].names
      BY <3>1, <3>2 DEF Long
    <3>5. /\ ParserOf(<<"--", "enable-empty-lines">>) = 2
          /\ ParserOf(<<"--", "enable-snippet-defs">>) = 3
          /\ ParserOf(<<"--", "enable-block-comments">>) = 4
          /\ ParserOf(<<"--", "skip-callouts">>) = 5
          /\ ParserOf(<<"--", "print-multi-snippet-delim">>) = 6
          /\ ParserOf(<<"--", "skip-exclude-marker">>) = 7
          /\ ParserOf(<<"--", "skip-highlighting">>) = 8
          /\ ParserOf(<<"--", "line-number">>) = 14
          /\ ParserOf(<<"--", "include-omitted">>) = 9
          /\ ParserOf(<<"--", "language">>) = 10
          /\ ParserOf(<<"--", "astyle">>) = 11
          /\ ParserOf(<<"--", "output">>) = 12
          /\ ParserOf(<<"--", "subdir">>) = 13
          /\ ParserOf(<<"--", "indent">>) = 15
      BY <2>3, <3>3, <3>4
    <3>6. /\ settings.skipEmptyLines = ~(taken[2] # <<>>)
          /\ settings.skipBlockComments = ~(taken[4] # <<>>)
          /\ settings.skipCallouts = (taken[5] # <<>>)
          /\ settings.includeOmitted = (taken[9] # <<>>)
          /\ settings.skipSnippetDefinitions = ~(taken[3] # <<>>)
          /\ settings.printMultiSnippetDelimiter = (taken[6] # <<>>)
          /\ settings.printExcludeMarker = ~(taken[7] # <<>>)
          /\ settings.highlightLines = ~(taken[8] # <<>>)
          /\ settings.lineNumbers = (taken[14] # <<>>)
      BY <2>6, <3>5 DEF ExtractorSettings, IsSet
    <3>7. /\ settings.language = Given(LanguageFor(mime), "cpp")
          /\ settings.astyle = taken[11]
          /\ settings.outputFilePath = Given(Value(12, ""), "by source")
          /\ settings.subDirectoryName = Given(Value(13, ""), ".extractor")
          /\ settings.indent = IF Value(15, "0") \in Positive THEN Value(15, "0") ELSE "0"
      BY <2>6, <3>5 DEF ExtractorSettings, ValueOf
    <3>8. AskedFor(Short("o") \cup Long("output"), settings.outputFilePath, "by source")
      BY <2>1, <3>2, <3>3, <3>7, GivenIsAskedFor
    <3>9. AskedFor(Short("d") \cup Long("subdir"), settings.subDirectoryName, ".extractor")
      BY <2>1, <3>2, <3>3, <3>7, GivenIsAskedFor
    <3>10. \/ AskedFor(Short("l") \cup Long("language"), settings.language, "cpp")
           \/ settings.language = "java" /\ Sources \subseteq JavaFiles
      <4>1. \/ LanguageFor(mime) = "java" /\ SourceFile \in JavaFiles
            \/ LanguageFor(mime) = Value(10, "cpp")
        BY <3>5 DEF LanguageFor, ValueOf
      <4>2. CASE LanguageFor(mime) = "java" /\ SourceFile \in JavaFiles
        <5>1. settings.language = "java"
          BY <3>7, <4>2 DEF Given
        <5> QED BY <2>2, <4>2, <5>1
      <4>3. CASE LanguageFor(mime) = Value(10, "cpp")
        BY <2>1, <3>2, <3>3, <3>7, <4>3, GivenIsAskedFor
      <4> QED BY <4>1, <4>2, <4>3
    <3>11. AllOf(Short("a") \cup Long("astyle"), settings.astyle)
      <4>1. ValuesAt(LineTokens, Short("a") \cup Long("astyle")) = Uses(11, Len(LineTokens))
        BY <2>1, <3>2, <3>3, NamesOnLine DEF HasValue
      <4>2. TakenIs(taken, Len(LineTokens)) /\ Parsers[11].binds # "flag"
        BY <2>1, <3>2, WholeLine
      <4>3. PICK A : A = Uses(11, Len(LineTokens))
        OBVIOUS
      <4>4. /\ Len(taken[11]) = Cardinality(A)
            /\ \A k \in A : taken[11][Place(k, A)] = LineTokens[k].text
        BY <3>3, <4>2, <4>3 DEF TakenIs
      <4> QED BY <3>7, <4>1, <4>3, <4>4 DEF AllOf
    <3>12. IF ValuesOn(Long("indent")) \cap Positive = {} THEN settings.indent = "0"
           ELSE ValuesOn(Long("indent")) = {settings.indent}
      <4>1. \/ ValuesOn(Long("indent")) = {} /\ Value(15, "0") = "0"
            \/ \E v : ValuesOn(Long("indent")) = {v} /\ Value(15, "0") = v
        BY <2>1, <3>2, <3>3, ValueOnLine
      <4> QED BY <3>7, <4>1
    <3>13. /\ settings.skipEmptyLines <=> ~On(Long("enable-empty-lines"))
           /\ settings.skipBlockComments <=> ~On(Long("enable-block-comments"))
           /\ settings.skipCallouts <=> On(Long("skip-callouts"))
           /\ settings.includeOmitted <=> On(Long("include-omitted"))
           /\ settings.skipSnippetDefinitions <=> ~On(Long("enable-snippet-defs"))
           /\ settings.printMultiSnippetDelimiter <=> On(Long("print-multi-snippet-delim"))
           /\ settings.printExcludeMarker <=> ~On(Long("skip-exclude-marker"))
           /\ settings.highlightLines <=> ~On(Long("skip-highlighting"))
           /\ settings.lineNumbers <=> On(Short("n") \cup Long("line-number"))
      BY <2>1, <3>1, <3>3, <3>6, NamesOnLine
    <3>14. Sources # {}
      BY <2>2
    <3> QED BY <3>8, <3>9, <3>10, <3>11, <3>12, <3>13, <3>14 DEF SettingsFromTheLine
  <2> QED BY <2>1, <2>5, <2>6
<1> QED BY <1>1, MainInvariant, PTL

-----------------------------------------------------------------------------
(* A line of arguments that are one token each.                            *)
LEMMA OneTokenEach ==
  ASSUME line \in Seq(Argument), \A i \in 1 .. Len(line) : Len(TokensOf(line[i])) = 1
  PROVE  /\ Len(LineTokens) = Len(line) /\ Len(line) \in Nat /\ DOMAIN LineTokens = 1 .. Len(line)
         /\ \A i \in 1 .. Len(line) : LineTokens[i] = TokensOf(line[i])[1]
<1> DEFINE n == Len(line)
<1>1. n \in Nat
  BY LineParts
<1>2. LineTokens \in Seq(Token)
  BY LineLaidOut
<1>3. PICK off : Laid(off)
  BY LineLaidOut
<1>4. off[0] = 0 /\ \A i \in 1 .. n : off[i] = off[i - 1] + 1
  <2>1. off[0] = 0 /\ \A i \in 1 .. n : off[i] = off[i - 1] + Len(TokensOf(line[i]))
    BY <1>3, LaidGrows
  <2> QED BY <2>1
<1> DEFINE A == {i \in Nat : i <= n => off[i] = i}
<1>5. 0 \in A
  BY <1>4
<1>6. ASSUME NEW i \in Nat, i \in A PROVE i + 1 \in A
  <2> SUFFICES ASSUME i + 1 <= n PROVE off[i + 1] = i + 1
    OBVIOUS
  <2>1. i + 1 \in 1 .. n /\ (i + 1) - 1 = i /\ i <= n
    BY <1>1
  <2>2. off[i + 1] = off[i] + 1 /\ off[i] = i
    BY <1>4, <1>6, <2>1
  <2> QED BY <2>2
<1>7. \A i \in Nat : i \in A
  <2> HIDE DEF A
  <2> QED BY <1>5, <1>6, AllNumbers
<1>8. Len(LineTokens) = n
  BY <1>1, <1>3, <1>7 DEF Laid
<1>9. ASSUME NEW i \in 1 .. n PROVE LineTokens[i] = TokensOf(line[i])[1]
  <2>1. i - 1 \in Nat /\ i - 1 <= n /\ 1 \in 1 .. Len(TokensOf(line[i]))
    <3>1. Len(TokensOf(line[i])) = 1
      OBVIOUS
    <3>2. 1 \in 1 .. Len(TokensOf(line[i]))
      BY <3>1
    <3> QED BY <1>1, <3>2
  <2>2. off[i - 1] = i - 1
    BY <1>7, <2>1
  <2>3. LineTokens[off[i - 1] + 1] = TokensOf(line[i])[1]
    BY <1>3, <2>1 DEF Laid
  <2>4. off[i - 1] + 1 = i
    BY <2>2
  <2> QED BY <2>3, <2>4
<1>10. DOMAIN LineTokens = 1 .. n
  BY <1>2, <1>8, Elements
<1> QED BY <1>1, <1>8, <1>9, <1>10

LEMMA FirstIsOne == \A i \in 1 .. 1 : i = 1 OBVIOUS

LEMMA WordToken ==
  ASSUME NEW text, text # ""
  PROVE  Len(TokensOf(Word(text))) = 1 /\ TokensOf(Word(text))[1] = ArgumentToken(text)
<1>1. Word(text).dash = "" /\ Word(text).text = text
  BY DEF Word
<1>2. TokensOf(Word(text)) = <<ArgumentToken(text)>>
  BY <1>1 DEF TokensOf
<1>3. PICK x : x = ArgumentToken(text)
  OBVIOUS
<1>4. Len(<<x>>) = 1 /\ (<<x>>)[1] = x
  OBVIOUS
<1> QED BY <1>2, <1>3, <1>4

LEMMA DashToken ==
  ASSUME NEW dash, dash # "", NEW name
  PROVE  /\ Len(TokensOf(Dashed(dash, <<name>>))) = 1
         /\ TokensOf(Dashed(dash, <<name>>))[1] = OptionToken(dash, name)
<1>1. /\ Dashed(dash, <<name>>).dash = dash /\ Dashed(dash, <<name>>).assigned = FALSE
      /\ Dashed(dash, <<name>>).names = <<name>>
  BY DEF Dashed
<1>2. TokensOf(Dashed(dash, <<name>>)) = [i \in DOMAIN <<name>> |-> OptionToken(dash, (<<name>>)[i])]
  BY <1>1 DEF TokensOf
<1>3. PICK t, s : t = <<name>> /\ s = TokensOf(Dashed(dash, <<name>>))
  OBVIOUS
<1>4. DOMAIN t = 1 .. 1 /\ t[1] = name
  <2>1. t = <<name>>
    BY <1>3
  <2> QED BY ONLY <2>1
<1>5. s = [i \in DOMAIN t |-> OptionToken(dash, t[i])]
  BY <1>2, <1>3
<1>6. PICK o : o = OptionToken(dash, name)
  OBVIOUS
<1>7. \A i \in 1 .. 1 : OptionToken(dash, t[i]) = o
  <2>1. \A i \in 1 .. 1 : i = 1
    BY ONLY FirstIsOne
  <2> QED BY <1>4, <1>6, <2>1
<1>8. s = [i \in 1 .. 1 |-> o]
  BY <1>4, <1>5, <1>7
<1>9. Len(s) = 1 /\ s[1] = o
  BY ONLY <1>8
<1> QED BY <1>3, <1>6, <1>9

(* Which parser takes the option at each place of a line that names no     *)
(* parser twice, 0 for a word: values follow their options, and the source *)
(* is the last word.                                                       *)
Places(P, n, V) ==
    /\ \A j, k \in 1 .. n : j # k /\ P[j] = P[k] => P[j] = 0
    /\ \A k \in 1 .. n : P[k] \in V => P[k] # 0 /\ k < n /\ P[k + 1] = 0
    /\ \A k \in 1 .. n : P[k] = 0 /\ k < n => k > 1 /\ P[k - 1] \in V
    /\ n > 1 => P[n - 1] \notin V
TakenAt(p, token, V) ==
    IF p = 0 THEN token.type = "argument"
    ELSE /\ p \in DOMAIN Parsers /\ NamedBy(p, token)
         /\ Parsers[p].binds \in IF p \in V THEN {"text", "list"} ELSE {"flag"}
TakenBy(s, P, n, V) ==
    /\ n \in Nat /\ DOMAIN s = 1 .. n /\ Places(P, n, V)
    /\ \A k \in 1 .. n : TakenAt(P[k], s[k], V)

LEMMA TakenIsSound ==
  ASSUME program \in DOMAIN Tables, NEW s, NEW n, NEW P, NEW V, TakenBy(s, P, n, V)
  PROVE  /\ Sound(s, n)
         /\ \A q \in DOMAIN Parsers : q \in V =>
              \A k \in 1 .. n : IsValue(s, k) /\ NamedBy(q, s[k - 1]) <=> k > 1 /\ P[k - 1] = q
         /\ \A q \in DOMAIN Parsers : \A k \in 1 .. n : NamedBy(q, s[k]) <=> P[k] = q
<1>1. n \in Nat /\ \A k \in 1 .. n : k \in Nat
  BY DEF TakenBy
<1>2. ASSUME NEW k \in 1 .. n, P[k] # 0
      PROVE  /\ P[k] \in DOMAIN Parsers /\ s[k].type = "option"
             /\ \A q \in DOMAIN Parsers : NamedBy(q, s[k]) <=> q = P[k]
             /\ \A B : Binds(s[k], B) <=> Parsers[P[k]].binds \in B
             /\ Parsers[P[k]].binds \in {"text", "list", "flag"}
  <2>1. P[k] \in DOMAIN Parsers /\ NamedBy(P[k], s[k])
    BY <1>2 DEF TakenBy, TakenAt
  <2>2. Parsers[P[k]].binds \in {"text", "list", "flag"}
    BY <1>2 DEF TakenBy, TakenAt
  <2> QED BY <2>1, <2>2, NamedOnce
<1>3. ASSUME NEW k \in 1 .. n, P[k] = 0
      PROVE  /\ s[k].type = "argument" /\ \A q \in DOMAIN Parsers : ~NamedBy(q, s[k])
             /\ \A B : ~Binds(s[k], B)
  <2>1. s[k].type = "argument"
    BY <1>3 DEF TakenBy, TakenAt
  <2> QED BY <2>1 DEF NamedBy, Binds
<1>4. \A q \in DOMAIN Parsers : \A k \in 1 .. n : NamedBy(q, s[k]) <=> P[k] = q
  <2>1. 0 \notin DOMAIN Parsers
    <3>1. Parsers \in Seq(Parser)
      BY TablesAssumption DEF Parsers
    <3> QED BY <3>1, Elements
  <2> QED BY <1>2, <1>3, <2>1
<1>5. ASSUME NEW k \in 1 .. n, P[k] # 0 PROVE Binds(s[k], HasValue) <=> P[k] \in V
  <2>1. P[k] \in V => Parsers[P[k]].binds \in {"text", "list"}
    BY <1>5 DEF TakenBy, TakenAt
  <2>2. P[k] \notin V => Parsers[P[k]].binds = "flag"
    BY <1>5 DEF TakenBy, TakenAt
  <2> QED BY <1>2, <1>5, <2>1, <2>2 DEF HasValue
<1>6. ASSUME NEW k \in 1 .. n
      PROVE  IsValue(s, k) <=> k < n /\ P[k] = 0
  <2>1. CASE P[k] # 0
    BY <1>2, <2>1 DEF IsValue
  <2>2. CASE P[k] = 0 /\ k < n
    <3>1. k > 1 /\ P[k - 1] \in V /\ P[k - 1] # 0 /\ k - 1 \in 1 .. n
      BY <1>1, <2>2 DEF TakenBy, Places
    <3> QED BY <1>3, <1>5, <2>2, <3>1 DEF IsValue
  <2>3. CASE P[k] = 0 /\ ~(k < n)
    <3>1. k = n
      BY <1>1, <2>3
    <3>2. k > 1 => k - 1 \in 1 .. n /\ P[k - 1] \notin V
      BY <1>1, <3>1 DEF TakenBy, Places
    <3>3. k > 1 => ~Binds(s[k - 1], HasValue)
      BY <1>3, <1>5, <3>2
    <3> QED BY <2>3, <3>3 DEF IsValue
  <2> QED BY <2>1, <2>2, <2>3
<1>7. \A k \in 1 .. n : IsSource(s, k) => k = n
  BY <1>1, <1>2, <1>6 DEF IsSource
<1>8. Sound(s, n)
  <2>1. \A k \in 1 .. n : s[k].type = "option" => Binds(s[k], {"flag"} \cup HasValue)
    BY <1>2, <1>3 DEF HasValue
  <2>2. ASSUME NEW k \in 1 .. n, Binds(s[k], HasValue)
        PROVE  /\ k < n /\ s[k + 1].type = "argument"
               /\ Binds(s[k], {"number"}) => s[k + 1].text \in Readable
    <3>1. P[k] # 0 /\ P[k] \in V
      BY <1>3, <1>5, <2>2
    <3>2. k < n /\ P[k + 1] = 0 /\ k + 1 \in 1 .. n
      BY <1>1, <3>1 DEF TakenBy, Places
    <3>3. ~Binds(s[k], {"number"})
      BY <1>2, <3>1
    <3> QED BY <1>3, <3>2, <3>3
  <2>3. ASSUME NEW j \in 1 .. n, NEW k \in 1 .. n, j # k
        PROVE  /\ ~(IsSource(s, j) /\ IsSource(s, k))
               /\ \A p \in DOMAIN Parsers :
                    NamedBy(p, s[j]) /\ NamedBy(p, s[k]) => Parsers[p].binds = "list"
    <3>1. ~(IsSource(s, j) /\ IsSource(s, k))
      BY <1>7, <2>3
    <3>2. ASSUME NEW p \in DOMAIN Parsers, NamedBy(p, s[j]), NamedBy(p, s[k]) PROVE FALSE
      <4>1. P[j] = p /\ P[k] = p
        BY <1>4, <3>2
      <4>2. P[j] = 0
        BY <2>3, <4>1 DEF TakenBy, Places
      <4> QED BY <1>3, <3>2, <4>2
    <3> QED BY <3>1, <3>2
  <2> QED BY <2>1, <2>2, <2>3 DEF Sound
<1>9. ASSUME NEW q \in DOMAIN Parsers, q \in V, NEW k \in 1 .. n
      PROVE  IsValue(s, k) /\ NamedBy(q, s[k - 1]) <=> k > 1 /\ P[k - 1] = q
  <2>1. CASE k > 1
    <3>1. k - 1 \in 1 .. n
      BY <1>1, <2>1
    <3>2. NamedBy(q, s[k - 1]) <=> P[k - 1] = q
      BY <1>4, <3>1
    <3>3. ASSUME P[k - 1] = q PROVE IsValue(s, k)
      <4>1. P[k - 1] # 0
        BY <1>3, <3>1, <3>2, <3>3
      <4>2. k - 1 < n /\ P[(k - 1) + 1] = 0 /\ (k - 1) + 1 = k
        BY <1>1, <1>9, <3>1, <3>3, <4>1 DEF TakenBy, Places
      <4>3. Binds(s[k - 1], HasValue)
        BY <1>5, <1>9, <3>1, <3>3, <4>1
      <4> QED BY <1>3, <2>1, <4>2, <4>3 DEF IsValue
    <3> QED BY <2>1, <3>2, <3>3
  <2>2. CASE ~(k > 1)
    BY <2>2 DEF IsValue
  <2> QED BY <2>1, <2>2
<1> QED BY <1>4, <1>8, <1>9

(* The parsers of extractor that take the options of the rules.            *)
Texts == {10, 11, 12, 13}
ExtractPlaces == <<10, 0, 11, 0, 12, 0, 13, 0, 0>>
NoCalloutsPlaces == <<10, 0, 11, 0, 5, 13, 0, 12, 0, 0>>
HtmlPlaces == <<1, 4, 9, 0>>

LEMMA PlacesFit ==
  /\ Places(ExtractPlaces, 9, Texts) /\ Places(NoCalloutsPlaces, 10, Texts)
  /\ Places(HtmlPlaces, 4, Texts)
<1>1. Places(ExtractPlaces, 9, Texts)
  BY DEF Places, ExtractPlaces, Texts
<1>2. Places(NoCalloutsPlaces, 10, Texts)
  BY DEF Places, NoCalloutsPlaces, Texts
<1>3. Places(HtmlPlaces, 4, Texts)
  BY DEF Places, HtmlPlaces, Texts
<1> QED BY <1>1, <1>2, <1>3

LEMMA WordTaken == ASSUME NEW text PROVE TakenAt(0, ArgumentToken(text), Texts)
  BY DEF TakenAt, ArgumentToken

LEMMA OptionsTaken ==
  ASSUME Tables = ProgramTables, program = "extractor", program \in DOMAIN Tables
  PROVE  /\ TakenAt(10, OptionToken("-", "l"), Texts) /\ TakenAt(11, OptionToken("-", "a"), Texts)
         /\ TakenAt(12, OptionToken("-", "o"), Texts) /\ TakenAt(13, OptionToken("-", "d"), Texts)
         /\ TakenAt(5, OptionToken("--", "skip-callouts"), Texts)
         /\ TakenAt(1, OptionToken("-", "x"), Texts)
         /\ TakenAt(4, OptionToken("--", "enable-block-comments"), Texts)
         /\ TakenAt(9, OptionToken("--", "include-omitted"), Texts)
<1>1. ASSUME NEW p, p # 0, p \in DOMAIN Parsers, NEW dash, NEW name, <<dash, name>> \in Parsers[p].names,
             Parsers[p].binds \in IF p \in Texts THEN {"text", "list"} ELSE {"flag"}
      PROVE  TakenAt(p, OptionToken(dash, name), Texts)
  <2>1. /\ OptionToken(dash, name).type = "option" /\ OptionToken(dash, name).dash = dash
        /\ OptionToken(dash, name).text = name
    BY DEF OptionToken
  <2> QED BY <1>1, <2>1 DEF TakenAt, NamedBy
<1>2. /\ 1 \in DOMAIN Parsers /\ 4 \in DOMAIN Parsers /\ 5 \in DOMAIN Parsers /\ 9 \in DOMAIN Parsers
      /\ 10 \in DOMAIN Parsers /\ 11 \in DOMAIN Parsers /\ 12 \in DOMAIN Parsers /\ 13 \in DOMAIN Parsers
  BY ExtractorParsers
<1>3. /\ Parsers[1].names = Short("x") \cup Long("filter-only") /\ Parsers[1].binds = "flag"
      /\ Parsers[4].names = Long("enable-block-comments") /\ Parsers[4].binds = "flag"
      /\ Parsers[5].names = Long("skip-callouts") /\ Parsers[5].binds = "flag"
      /\ Parsers[9].names = Long("include-omitted") /\ Parsers[9].binds = "flag"
      /\ Parsers[10].names = Short("l") \cup Long("language") /\ Parsers[10].binds = "text"
      /\ Parsers[11].names = Short("a") \cup Long("astyle") /\ Parsers[11].binds = "list"
      /\ Parsers[12].names = Short("o") \cup Long("output") /\ Parsers[12].binds = "text"
      /\ Parsers[13].names = Short("d") \cup Long("subdir") /\ Parsers[13].binds = "text"
  BY ExtractorParsers, OptFacts
<1>4. /\ <<"-", "x">> \in Parsers[1].names /\ <<"--", "enable-block-comments">> \in Parsers[4].names
      /\ <<"--", "skip-callouts">> \in Parsers[5].names /\ <<"--", "include-omitted">> \in Parsers[9].names
      /\ <<"-", "l">> \in Parsers[10].names /\ <<"-", "a">> \in Parsers[11].names
      /\ <<"-", "o">> \in Parsers[12].names /\ <<"-", "d">> \in Parsers[13].names
  BY <1>3 DEF Short, Long
<1>5. /\ 1 \notin Texts /\ 4 \notin Texts /\ 5 \notin Texts /\ 9 \notin Texts
      /\ 10 \in Texts /\ 11 \in Texts /\ 12 \in Texts /\ 13 \in Texts
  BY DEF Texts
<1>6. 1 # 0 /\ 4 # 0 /\ 5 # 0 /\ 9 # 0 /\ 10 # 0 /\ 11 # 0 /\ 12 # 0 /\ 13 # 0
  OBVIOUS
<1> QED BY <1>1, <1>2, <1>3, <1>4, <1>5, <1>6

(* The tokens of a rule are taken as its places say.                       *)
RuleTaken(P, n) ==
    /\ TakenBy(LineTokens, P, n, Texts)
    /\ Len(LineTokens) = n

(* Places written out.                                                     *)
LEMMA UpFour == \A i \in 1 .. 4 : i \in {1, 2, 3, 4} OBVIOUS
LEMMA UpNine == \A i \in 1 .. 9 : i \in {1, 2, 3, 4, 5, 6, 7, 8, 9} OBVIOUS
LEMMA UpTen == \A i \in 1 .. 10 : i \in {1, 2, 3, 4, 5, 6, 7, 8, 9, 10} OBVIOUS
LEMMA ArgumentText == \A x : ArgumentToken(x).text = x
  BY DEF ArgumentToken

LEMMA ExtractTaken ==
  ASSUME Tables = ProgramTables, program = "extractor", program \in DOMAIN Tables, line \in Seq(Argument),
         NEW l, NEW t, NEW d, NEW f, "" \notin {l, t, d, f}, line = ExtractRule(l, t, d, f).line
  PROVE  RuleTaken(ExtractPlaces, 9) /\ LineTokens[6].text = t /\ LineTokens[8].text = d
<1>1. line = <<Dash("l"), Word(l), Dash("a"), Word("A2"), Dash("o"), Word(t), Dash("d"), Word(d), Word(f)>>
  BY DEF ExtractRule, Rule
<1>2. /\ Len(line) = 9
      /\ line[1] = Dashed("-", <<"l">>)
      /\ line[2] = Word(l)
      /\ line[3] = Dashed("-", <<"a">>)
      /\ line[4] = Word("A2")
      /\ line[5] = Dashed("-", <<"o">>)
      /\ line[6] = Word(t)
      /\ line[7] = Dashed("-", <<"d">>)
      /\ line[8] = Word(d)
      /\ line[9] = Word(f)
  <2>1. PICK a, b, c, e, g, h, i, j, k :
          /\ a = Dashed("-", <<"l">>)
          /\ b = Word(l)
          /\ c = Dashed("-", <<"a">>)
          /\ e = Word("A2")
          /\ g = Dashed("-", <<"o">>)
          /\ h = Word(t)
          /\ i = Dashed("-", <<"d">>)
          /\ j = Word(d)
          /\ k = Word(f)
    OBVIOUS
  <2>2. line = <<a, b, c, e, g, h, i, j, k>>
    BY <1>1, <2>1 DEF Dash, DashDash
  <2>3. /\ Len(line) = 9 /\ line[1] = a /\ line[2] = b /\ line[3] = c /\ line[4] = e /\ line[5] = g
        /\ line[6] = h /\ line[7] = i /\ line[8] = j /\ line[9] = k
    BY ONLY <2>2
  <2> QED BY <2>1, <2>3
<1>3. l # "" /\ t # "" /\ d # "" /\ f # "" /\ "A2" # "" /\ "-" # "" /\ "--" # ""
  OBVIOUS
<1>t1. Len(TokensOf(line[1])) = 1 /\ TokensOf(line[1])[1] = OptionToken("-", "l")
  BY <1>2, <1>3, DashToken
<1>t2. Len(TokensOf(line[2])) = 1 /\ TokensOf(line[2])[1] = ArgumentToken(l)
  BY <1>2, <1>3, WordToken
<1>t3. Len(TokensOf(line[3])) = 1 /\ TokensOf(line[3])[1] = OptionToken("-", "a")
  BY <1>2, <1>3, DashToken
<1>t4. Len(TokensOf(line[4])) = 1 /\ TokensOf(line[4])[1] = ArgumentToken("A2")
  BY <1>2, <1>3, WordToken
<1>t5. Len(TokensOf(line[5])) = 1 /\ TokensOf(line[5])[1] = OptionToken("-", "o")
  BY <1>2, <1>3, DashToken
<1>t6. Len(TokensOf(line[6])) = 1 /\ TokensOf(line[6])[1] = ArgumentToken(t)
  BY <1>2, <1>3, WordToken
<1>t7. Len(TokensOf(line[7])) = 1 /\ TokensOf(line[7])[1] = OptionToken("-", "d")
  BY <1>2, <1>3, DashToken
<1>t8. Len(TokensOf(line[8])) = 1 /\ TokensOf(line[8])[1] = ArgumentToken(d)
  BY <1>2, <1>3, WordToken
<1>t9. Len(TokensOf(line[9])) = 1 /\ TokensOf(line[9])[1] = ArgumentToken(f)
  BY <1>2, <1>3, WordToken
<1>5. \A i \in {1, 2, 3, 4, 5, 6, 7, 8, 9} : Len(TokensOf(line[i])) = 1
  <2>1. /\ Len(TokensOf(line[1])) = 1 /\ Len(TokensOf(line[2])) = 1 /\ Len(TokensOf(line[3])) = 1
        /\ Len(TokensOf(line[4])) = 1 /\ Len(TokensOf(line[5])) = 1 /\ Len(TokensOf(line[6])) = 1
        /\ Len(TokensOf(line[7])) = 1 /\ Len(TokensOf(line[8])) = 1 /\ Len(TokensOf(line[9])) = 1
    BY <1>t1, <1>t2, <1>t3, <1>t4, <1>t5, <1>t6, <1>t7, <1>t8, <1>t9
  <2> QED BY ONLY <2>1
<1>6. \A i \in 1 .. Len(line) : Len(TokensOf(line[i])) = 1
  <2>1. Len(line) = 9
    BY <1>2
  <2> QED BY ONLY <1>5, <2>1, UpNine
<1>7. /\ Len(LineTokens) = 9 /\ DOMAIN LineTokens = 1 .. 9
      /\ \A i \in 1 .. 9 : LineTokens[i] = TokensOf(line[i])[1]
  <2>1. Len(line) = 9
    BY <1>2
  <2>2. /\ Len(LineTokens) = Len(line) /\ DOMAIN LineTokens = 1 .. Len(line)
        /\ \A i \in 1 .. Len(line) : LineTokens[i] = TokensOf(line[i])[1]
    BY <1>6, OneTokenEach
  <2> QED BY ONLY <2>1, <2>2
<1>8. /\ LineTokens[1] = TokensOf(line[1])[1] /\ LineTokens[2] = TokensOf(line[2])[1]
      /\ LineTokens[3] = TokensOf(line[3])[1] /\ LineTokens[4] = TokensOf(line[4])[1]
      /\ LineTokens[5] = TokensOf(line[5])[1] /\ LineTokens[6] = TokensOf(line[6])[1]
      /\ LineTokens[7] = TokensOf(line[7])[1] /\ LineTokens[8] = TokensOf(line[8])[1]
      /\ LineTokens[9] = TokensOf(line[9])[1]
  <2>1. \A i \in 1 .. 9 : LineTokens[i] = TokensOf(line[i])[1]
    BY <1>7
  <2> QED BY ONLY <2>1
<1>p1. TakenAt(ExtractPlaces[1], LineTokens[1], Texts)
  <2>1. LineTokens[1] = OptionToken("-", "l")
    BY <1>8, <1>t1
  <2>2. ExtractPlaces[1] = 10
    BY DEF ExtractPlaces
  <2> QED BY <2>1, <2>2, OptionsTaken
<1>p2. TakenAt(ExtractPlaces[2], LineTokens[2], Texts)
  <2>1. LineTokens[2] = ArgumentToken(l)
    BY <1>8, <1>t2
  <2>2. ExtractPlaces[2] = 0
    BY DEF ExtractPlaces
  <2> QED BY <2>1, <2>2, WordTaken
<1>p3. TakenAt(ExtractPlaces[3], LineTokens[3], Texts)
  <2>1. LineTokens[3] = OptionToken("-", "a")
    BY <1>8, <1>t3
  <2>2. ExtractPlaces[3] = 11
    BY DEF ExtractPlaces
  <2> QED BY <2>1, <2>2, OptionsTaken
<1>p4. TakenAt(ExtractPlaces[4], LineTokens[4], Texts)
  <2>1. LineTokens[4] = ArgumentToken("A2")
    BY <1>8, <1>t4
  <2>2. ExtractPlaces[4] = 0
    BY DEF ExtractPlaces
  <2> QED BY <2>1, <2>2, WordTaken
<1>p5. TakenAt(ExtractPlaces[5], LineTokens[5], Texts)
  <2>1. LineTokens[5] = OptionToken("-", "o")
    BY <1>8, <1>t5
  <2>2. ExtractPlaces[5] = 12
    BY DEF ExtractPlaces
  <2> QED BY <2>1, <2>2, OptionsTaken
<1>p6. TakenAt(ExtractPlaces[6], LineTokens[6], Texts)
  <2>1. LineTokens[6] = ArgumentToken(t)
    BY <1>8, <1>t6
  <2>2. ExtractPlaces[6] = 0
    BY DEF ExtractPlaces
  <2> QED BY <2>1, <2>2, WordTaken
<1>p7. TakenAt(ExtractPlaces[7], LineTokens[7], Texts)
  <2>1. LineTokens[7] = OptionToken("-", "d")
    BY <1>8, <1>t7
  <2>2. ExtractPlaces[7] = 13
    BY DEF ExtractPlaces
  <2> QED BY <2>1, <2>2, OptionsTaken
<1>p8. TakenAt(ExtractPlaces[8], LineTokens[8], Texts)
  <2>1. LineTokens[8] = ArgumentToken(d)
    BY <1>8, <1>t8
  <2>2. ExtractPlaces[8] = 0
    BY DEF ExtractPlaces
  <2> QED BY <2>1, <2>2, WordTaken
<1>p9. TakenAt(ExtractPlaces[9], LineTokens[9], Texts)
  <2>1. LineTokens[9] = ArgumentToken(f)
    BY <1>8, <1>t9
  <2>2. ExtractPlaces[9] = 0
    BY DEF ExtractPlaces
  <2> QED BY <2>1, <2>2, WordTaken
<1>9. \A k \in {1, 2, 3, 4, 5, 6, 7, 8, 9} : TakenAt(ExtractPlaces[k], LineTokens[k], Texts)
  BY ONLY <1>p1, <1>p2, <1>p3, <1>p4, <1>p5, <1>p6, <1>p7, <1>p8, <1>p9
<1>10. \A k \in 1 .. 9 : TakenAt(ExtractPlaces[k], LineTokens[k], Texts)
  BY ONLY <1>9, UpNine
<1>11. RuleTaken(ExtractPlaces, 9)
  BY <1>7, <1>10, PlacesFit DEF RuleTaken, TakenBy
<1>12. LineTokens[6].text = t
  <2>1. LineTokens[6] = ArgumentToken(t)
    BY <1>8, <1>t6
  <2> QED BY ONLY <2>1, ArgumentText
<1>13. LineTokens[8].text = d
  <2>1. LineTokens[8] = ArgumentToken(d)
    BY <1>8, <1>t8
  <2> QED BY ONLY <2>1, ArgumentText
<1> QED BY <1>11, <1>12, <1>13

LEMMA NoCalloutsTaken ==
  ASSUME Tables = ProgramTables, program = "extractor", program \in DOMAIN Tables, line \in Seq(Argument),
         NEW l, NEW t, NEW d, NEW f, "" \notin {l, t, d, f}, line = NoCalloutsRule(l, t, d, f).line
  PROVE  RuleTaken(NoCalloutsPlaces, 10) /\ LineTokens[9].text = t /\ LineTokens[7].text = d
<1>1. line = <<Dash("l"), Word(l), Dash("a"), Word("A2"), DashDash("skip-callouts"),
               Dash("d"), Word(d), Dash("o"), Word(t), Word(f)>>
  BY DEF NoCalloutsRule, Rule
<1>2. /\ Len(line) = 10
      /\ line[1] = Dashed("-", <<"l">>)
      /\ line[2] = Word(l)
      /\ line[3] = Dashed("-", <<"a">>)
      /\ line[4] = Word("A2")
      /\ line[5] = Dashed("--", <<"skip-callouts">>)
      /\ line[6] = Dashed("-", <<"d">>)
      /\ line[7] = Word(d)
      /\ line[8] = Dashed("-", <<"o">>)
      /\ line[9] = Word(t)
      /\ line[10] = Word(f)
  <2>1. PICK a, b, c, e, g, h, i, j, k, m :
          /\ a = Dashed("-", <<"l">>)
          /\ b = Word(l)
          /\ c = Dashed("-", <<"a">>)
          /\ e = Word("A2")
          /\ g = Dashed("--", <<"skip-callouts">>)
          /\ h = Dashed("-", <<"d">>)
          /\ i = Word(d)
          /\ j = Dashed("-", <<"o">>)
          /\ k = Word(t)
          /\ m = Word(f)
    OBVIOUS
  <2>2. line = <<a, b, c, e, g, h, i, j, k, m>>
    BY <1>1, <2>1 DEF Dash, DashDash
  <2>3. /\ Len(line) = 10 /\ line[1] = a /\ line[2] = b /\ line[3] = c /\ line[4] = e /\ line[5] = g
        /\ line[6] = h /\ line[7] = i /\ line[8] = j /\ line[9] = k /\ line[10] = m
    BY ONLY <2>2
  <2> QED BY <2>1, <2>3
<1>3. l # "" /\ t # "" /\ d # "" /\ f # "" /\ "A2" # "" /\ "-" # "" /\ "--" # ""
  OBVIOUS
<1>t1. Len(TokensOf(line[1])) = 1 /\ TokensOf(line[1])[1] = OptionToken("-", "l")
  BY <1>2, <1>3, DashToken
<1>t2. Len(TokensOf(line[2])) = 1 /\ TokensOf(line[2])[1] = ArgumentToken(l)
  BY <1>2, <1>3, WordToken
<1>t3. Len(TokensOf(line[3])) = 1 /\ TokensOf(line[3])[1] = OptionToken("-", "a")
  BY <1>2, <1>3, DashToken
<1>t4. Len(TokensOf(line[4])) = 1 /\ TokensOf(line[4])[1] = ArgumentToken("A2")
  BY <1>2, <1>3, WordToken
<1>t5. Len(TokensOf(line[5])) = 1 /\ TokensOf(line[5])[1] = OptionToken("--", "skip-callouts")
  BY <1>2, <1>3, DashToken
<1>t6. Len(TokensOf(line[6])) = 1 /\ TokensOf(line[6])[1] = OptionToken("-", "d")
  BY <1>2, <1>3, DashToken
<1>t7. Len(TokensOf(line[7])) = 1 /\ TokensOf(line[7])[1] = ArgumentToken(d)
  BY <1>2, <1>3, WordToken
<1>t8. Len(TokensOf(line[8])) = 1 /\ TokensOf(line[8])[1] = OptionToken("-", "o")
  BY <1>2, <1>3, DashToken
<1>t9. Len(TokensOf(line[9])) = 1 /\ TokensOf(line[9])[1] = ArgumentToken(t)
  BY <1>2, <1>3, WordToken
<1>t10. Len(TokensOf(line[10])) = 1 /\ TokensOf(line[10])[1] = ArgumentToken(f)
  BY <1>2, <1>3, WordToken
<1>5. \A i \in {1, 2, 3, 4, 5, 6, 7, 8, 9, 10} : Len(TokensOf(line[i])) = 1
  <2>1. /\ Len(TokensOf(line[1])) = 1 /\ Len(TokensOf(line[2])) = 1 /\ Len(TokensOf(line[3])) = 1
        /\ Len(TokensOf(line[4])) = 1 /\ Len(TokensOf(line[5])) = 1 /\ Len(TokensOf(line[6])) = 1
        /\ Len(TokensOf(line[7])) = 1 /\ Len(TokensOf(line[8])) = 1 /\ Len(TokensOf(line[9])) = 1
        /\ Len(TokensOf(line[10])) = 1
    BY <1>t1, <1>t2, <1>t3, <1>t4, <1>t5, <1>t6, <1>t7, <1>t8, <1>t9, <1>t10
  <2> QED BY ONLY <2>1
<1>6. \A i \in 1 .. Len(line) : Len(TokensOf(line[i])) = 1
  <2>1. Len(line) = 10
    BY <1>2
  <2> QED BY ONLY <1>5, <2>1, UpTen
<1>7. /\ Len(LineTokens) = 10 /\ DOMAIN LineTokens = 1 .. 10
      /\ \A i \in 1 .. 10 : LineTokens[i] = TokensOf(line[i])[1]
  <2>1. Len(line) = 10
    BY <1>2
  <2>2. /\ Len(LineTokens) = Len(line) /\ DOMAIN LineTokens = 1 .. Len(line)
        /\ \A i \in 1 .. Len(line) : LineTokens[i] = TokensOf(line[i])[1]
    BY <1>6, OneTokenEach
  <2> QED BY ONLY <2>1, <2>2
<1>8. /\ LineTokens[1] = TokensOf(line[1])[1] /\ LineTokens[2] = TokensOf(line[2])[1]
      /\ LineTokens[3] = TokensOf(line[3])[1] /\ LineTokens[4] = TokensOf(line[4])[1]
      /\ LineTokens[5] = TokensOf(line[5])[1] /\ LineTokens[6] = TokensOf(line[6])[1]
      /\ LineTokens[7] = TokensOf(line[7])[1] /\ LineTokens[8] = TokensOf(line[8])[1]
      /\ LineTokens[9] = TokensOf(line[9])[1] /\ LineTokens[10] = TokensOf(line[10])[1]
  <2>1. \A i \in 1 .. 10 : LineTokens[i] = TokensOf(line[i])[1]
    BY <1>7
  <2> QED BY ONLY <2>1
<1>p1. TakenAt(NoCalloutsPlaces[1], LineTokens[1], Texts)
  <2>1. LineTokens[1] = OptionToken("-", "l")
    BY <1>8, <1>t1
  <2>2. NoCalloutsPlaces[1] = 10
    BY DEF NoCalloutsPlaces
  <2> QED BY <2>1, <2>2, OptionsTaken
<1>p2. TakenAt(NoCalloutsPlaces[2], LineTokens[2], Texts)
  <2>1. LineTokens[2] = ArgumentToken(l)
    BY <1>8, <1>t2
  <2>2. NoCalloutsPlaces[2] = 0
    BY DEF NoCalloutsPlaces
  <2> QED BY <2>1, <2>2, WordTaken
<1>p3. TakenAt(NoCalloutsPlaces[3], LineTokens[3], Texts)
  <2>1. LineTokens[3] = OptionToken("-", "a")
    BY <1>8, <1>t3
  <2>2. NoCalloutsPlaces[3] = 11
    BY DEF NoCalloutsPlaces
  <2> QED BY <2>1, <2>2, OptionsTaken
<1>p4. TakenAt(NoCalloutsPlaces[4], LineTokens[4], Texts)
  <2>1. LineTokens[4] = ArgumentToken("A2")
    BY <1>8, <1>t4
  <2>2. NoCalloutsPlaces[4] = 0
    BY DEF NoCalloutsPlaces
  <2> QED BY <2>1, <2>2, WordTaken
<1>p5. TakenAt(NoCalloutsPlaces[5], LineTokens[5], Texts)
  <2>1. LineTokens[5] = OptionToken("--", "skip-callouts")
    BY <1>8, <1>t5
  <2>2. NoCalloutsPlaces[5] = 5
    BY DEF NoCalloutsPlaces
  <2> QED BY <2>1, <2>2, OptionsTaken
<1>p6. TakenAt(NoCalloutsPlaces[6], LineTokens[6], Texts)
  <2>1. LineTokens[6] = OptionToken("-", "d")
    BY <1>8, <1>t6
  <2>2. NoCalloutsPlaces[6] = 13
    BY DEF NoCalloutsPlaces
  <2> QED BY <2>1, <2>2, OptionsTaken
<1>p7. TakenAt(NoCalloutsPlaces[7], LineTokens[7], Texts)
  <2>1. LineTokens[7] = ArgumentToken(d)
    BY <1>8, <1>t7
  <2>2. NoCalloutsPlaces[7] = 0
    BY DEF NoCalloutsPlaces
  <2> QED BY <2>1, <2>2, WordTaken
<1>p8. TakenAt(NoCalloutsPlaces[8], LineTokens[8], Texts)
  <2>1. LineTokens[8] = OptionToken("-", "o")
    BY <1>8, <1>t8
  <2>2. NoCalloutsPlaces[8] = 12
    BY DEF NoCalloutsPlaces
  <2> QED BY <2>1, <2>2, OptionsTaken
<1>p9. TakenAt(NoCalloutsPlaces[9], LineTokens[9], Texts)
  <2>1. LineTokens[9] = ArgumentToken(t)
    BY <1>8, <1>t9
  <2>2. NoCalloutsPlaces[9] = 0
    BY DEF NoCalloutsPlaces
  <2> QED BY <2>1, <2>2, WordTaken
<1>p10. TakenAt(NoCalloutsPlaces[10], LineTokens[10], Texts)
  <2>1. LineTokens[10] = ArgumentToken(f)
    BY <1>8, <1>t10
  <2>2. NoCalloutsPlaces[10] = 0
    BY DEF NoCalloutsPlaces
  <2> QED BY <2>1, <2>2, WordTaken
<1>9. \A k \in {1, 2, 3, 4, 5, 6, 7, 8, 9, 10} : TakenAt(NoCalloutsPlaces[k], LineTokens[k], Texts)
  BY ONLY <1>p1, <1>p2, <1>p3, <1>p4, <1>p5, <1>p6, <1>p7, <1>p8, <1>p9, <1>p10
<1>10. \A k \in 1 .. 10 : TakenAt(NoCalloutsPlaces[k], LineTokens[k], Texts)
  BY ONLY <1>9, UpTen
<1>11. RuleTaken(NoCalloutsPlaces, 10)
  BY <1>7, <1>10, PlacesFit DEF RuleTaken, TakenBy
<1>12. LineTokens[9].text = t
  <2>1. LineTokens[9] = ArgumentToken(t)
    BY <1>8, <1>t9
  <2> QED BY ONLY <2>1, ArgumentText
<1>13. LineTokens[7].text = d
  <2>1. LineTokens[7] = ArgumentToken(d)
    BY <1>8, <1>t7
  <2> QED BY ONLY <2>1, ArgumentText
<1> QED BY <1>11, <1>12, <1>13

(* The rule that only filters has no value on its line.                    *)
LEMMA HtmlTaken ==
  ASSUME Tables = ProgramTables, program = "extractor", program \in DOMAIN Tables, line \in Seq(Argument),
         NEW f, "" \notin {f}, line = HtmlRule(f).line
  PROVE  RuleTaken(HtmlPlaces, 4)
<1>1. line = <<Dash("x"), DashDash("enable-block-comments"), DashDash("include-omitted"), Word(f)>>
  BY DEF HtmlRule, Rule
<1>2. /\ Len(line) = 4
      /\ line[1] = Dashed("-", <<"x">>)
      /\ line[2] = Dashed("--", <<"enable-block-comments">>)
      /\ line[3] = Dashed("--", <<"include-omitted">>)
      /\ line[4] = Word(f)
  <2>1. PICK a, b, c, e :
          /\ a = Dashed("-", <<"x">>)
          /\ b = Dashed("--", <<"enable-block-comments">>)
          /\ c = Dashed("--", <<"include-omitted">>)
          /\ e = Word(f)
    OBVIOUS
  <2>2. line = <<a, b, c, e>>
    BY <1>1, <2>1 DEF Dash, DashDash
  <2>3. Len(line) = 4 /\ line[1] = a /\ line[2] = b /\ line[3] = c /\ line[4] = e
    BY ONLY <2>2
  <2> QED BY <2>1, <2>3
<1>3. f # "" /\ "-" # "" /\ "--" # ""
  OBVIOUS
<1>t1. Len(TokensOf(line[1])) = 1 /\ TokensOf(line[1])[1] = OptionToken("-", "x")
  BY <1>2, <1>3, DashToken
<1>t2. Len(TokensOf(line[2])) = 1 /\ TokensOf(line[2])[1] = OptionToken("--", "enable-block-comments")
  BY <1>2, <1>3, DashToken
<1>t3. Len(TokensOf(line[3])) = 1 /\ TokensOf(line[3])[1] = OptionToken("--", "include-omitted")
  BY <1>2, <1>3, DashToken
<1>t4. Len(TokensOf(line[4])) = 1 /\ TokensOf(line[4])[1] = ArgumentToken(f)
  BY <1>2, <1>3, WordToken
<1>5. \A i \in {1, 2, 3, 4} : Len(TokensOf(line[i])) = 1
  <2>1. /\ Len(TokensOf(line[1])) = 1 /\ Len(TokensOf(line[2])) = 1 /\ Len(TokensOf(line[3])) = 1
        /\ Len(TokensOf(line[4])) = 1
    BY <1>t1, <1>t2, <1>t3, <1>t4
  <2> QED BY ONLY <2>1
<1>6. \A i \in 1 .. Len(line) : Len(TokensOf(line[i])) = 1
  <2>1. Len(line) = 4
    BY <1>2
  <2> QED BY ONLY <1>5, <2>1, UpFour
<1>7. /\ Len(LineTokens) = 4 /\ DOMAIN LineTokens = 1 .. 4
      /\ \A i \in 1 .. 4 : LineTokens[i] = TokensOf(line[i])[1]
  <2>1. Len(line) = 4
    BY <1>2
  <2>2. /\ Len(LineTokens) = Len(line) /\ DOMAIN LineTokens = 1 .. Len(line)
        /\ \A i \in 1 .. Len(line) : LineTokens[i] = TokensOf(line[i])[1]
    BY <1>6, OneTokenEach
  <2> QED BY ONLY <2>1, <2>2
<1>8. /\ LineTokens[1] = TokensOf(line[1])[1] /\ LineTokens[2] = TokensOf(line[2])[1]
      /\ LineTokens[3] = TokensOf(line[3])[1] /\ LineTokens[4] = TokensOf(line[4])[1]
  <2>1. \A i \in 1 .. 4 : LineTokens[i] = TokensOf(line[i])[1]
    BY <1>7
  <2> QED BY ONLY <2>1
<1>p1. TakenAt(HtmlPlaces[1], LineTokens[1], Texts)
  <2>1. LineTokens[1] = OptionToken("-", "x")
    BY <1>8, <1>t1
  <2>2. HtmlPlaces[1] = 1
    BY DEF HtmlPlaces
  <2> QED BY <2>1, <2>2, OptionsTaken
<1>p2. TakenAt(HtmlPlaces[2], LineTokens[2], Texts)
  <2>1. LineTokens[2] = OptionToken("--", "enable-block-comments")
    BY <1>8, <1>t2
  <2>2. HtmlPlaces[2] = 4
    BY DEF HtmlPlaces
  <2> QED BY <2>1, <2>2, OptionsTaken
<1>p3. TakenAt(HtmlPlaces[3], LineTokens[3], Texts)
  <2>1. LineTokens[3] = OptionToken("--", "include-omitted")
    BY <1>8, <1>t3
  <2>2. HtmlPlaces[3] = 9
    BY DEF HtmlPlaces
  <2> QED BY <2>1, <2>2, OptionsTaken
<1>p4. TakenAt(HtmlPlaces[4], LineTokens[4], Texts)
  <2>1. LineTokens[4] = ArgumentToken(f)
    BY <1>8, <1>t4
  <2>2. HtmlPlaces[4] = 0
    BY DEF HtmlPlaces
  <2> QED BY <2>1, <2>2, WordTaken
<1>9. \A k \in {1, 2, 3, 4} : TakenAt(HtmlPlaces[k], LineTokens[k], Texts)
  BY ONLY <1>p1, <1>p2, <1>p3, <1>p4
<1>10. \A k \in 1 .. 4 : TakenAt(HtmlPlaces[k], LineTokens[k], Texts)
  BY ONLY <1>9, UpFour
<1>11. RuleTaken(HtmlPlaces, 4)
  BY <1>7, <1>10, PlacesFit DEF RuleTaken, TakenBy
<1> QED BY <1>11

(* What extractor reads on the line of a rule.                             *)
LEMMA RuleRead ==
  ASSUME IInv, program = "extractor", program \in DOMAIN Tables, NEW P, NEW n, RuleTaken(P, n)
  PROVE  /\ Sound(LineTokens, Len(LineTokens))
         /\ \A q \in DOMAIN Parsers : q \in Texts =>
              ValuesAt(LineTokens, Parsers[q].names) = {k \in 1 .. n : k > 1 /\ P[k - 1] = q}
         /\ \A q \in DOMAIN Parsers : (\E k \in 1 .. n : P[k] = q) => On(Parsers[q].names)
<1>1. TakenBy(LineTokens, P, n, Texts) /\ Len(LineTokens) = n /\ DOMAIN LineTokens = 1 .. n
  BY DEF RuleTaken, TakenBy
<1>2. /\ Sound(LineTokens, n)
      /\ \A q \in DOMAIN Parsers : q \in Texts =>
           \A k \in 1 .. n : IsValue(LineTokens, k) /\ NamedBy(q, LineTokens[k - 1]) <=> k > 1 /\ P[k - 1] = q
      /\ \A q \in DOMAIN Parsers : \A k \in 1 .. n : NamedBy(q, LineTokens[k]) <=> P[k] = q
  BY <1>1, TakenIsSound
<1>3. ASSUME NEW q \in DOMAIN Parsers, q \in Texts
      PROVE  ValuesAt(LineTokens, Parsers[q].names) = {k \in 1 .. n : k > 1 /\ P[k - 1] = q}
  <2>1. \A k \in 1 .. n : IsValue(LineTokens, k) =>
          (NamedBy(q, LineTokens[k - 1]) <=> HasName(LineTokens[k - 1], Parsers[q].names))
    BY DEF IsValue, Binds, NamedBy, HasName
  <2>2. \A k \in 1 .. n : IsValue(LineTokens, k) /\ HasName(LineTokens[k - 1], Parsers[q].names)
                            <=> k > 1 /\ P[k - 1] = q
    BY <1>2, <1>3, <2>1
  <2> QED BY <1>1, <2>2 DEF ValuesAt
<1>4. ASSUME NEW q \in DOMAIN Parsers, NEW k \in 1 .. n, P[k] = q PROVE On(Parsers[q].names)
  <2>1. NamedBy(q, LineTokens[k])
    BY <1>2, <1>4
  <2> QED BY <1>1, <2>1 DEF NamedBy, On, HasName
<1> QED BY <1>1, <1>2, <1>3, <1>4

(* The place of the value of an option, if the option has one.             *)
LEMMA ExtractValues ==
  /\ {k \in 1 .. 9 : k > 1 /\ ExtractPlaces[k - 1] = 12} = {6}
  /\ {k \in 1 .. 9 : k > 1 /\ ExtractPlaces[k - 1] = 13} = {8}
  BY DEF ExtractPlaces
LEMMA NoCalloutsValues ==
  /\ {k \in 1 .. 10 : k > 1 /\ NoCalloutsPlaces[k - 1] = 12} = {9}
  /\ {k \in 1 .. 10 : k > 1 /\ NoCalloutsPlaces[k - 1] = 13} = {7}
  BY DEF NoCalloutsPlaces
LEMMA HtmlValues ==
  /\ {k \in 1 .. 4 : k > 1 /\ HtmlPlaces[k - 1] = 12} = {}
  /\ {k \in 1 .. 4 : k > 1 /\ HtmlPlaces[k - 1] = 13} = {}
  /\ \E k \in 1 .. 4 : HtmlPlaces[k] = 1
  BY DEF HtmlPlaces

OutputNames == Short("o") \cup Long("output")
SubdirNames == Short("d") \cup Long("subdir")
FilterNames == Short("x") \cup Long("filter-only")

(* What arrives of a rule: its target and its directory, or no value and   *)
(* the wish to filter only.                                                *)
LEMMA RuleArrives ==
  ASSUME Tables = ProgramTables, IInv, program = "extractor", NEW r \in Rules, line = r.line
  PROVE  /\ Sound(LineTokens, Len(LineTokens))
         /\ \/ /\ ValuesOn(OutputNames) = {r.target} /\ ValuesOn(SubdirNames) = {r.dir}
               /\ r.target \in Made /\ r.dir \in Made
            \/ /\ ValuesOn(OutputNames) = {} /\ ValuesOn(SubdirNames) = {}
               /\ r.target = "by source" /\ r.dir = ".extractor" /\ On(FilterNames)
<1>1. program \in DOMAIN Tables /\ line \in Seq(Argument)
  BY InvFacts
<1>2. /\ 1 \in DOMAIN Parsers /\ 12 \in DOMAIN Parsers /\ 13 \in DOMAIN Parsers
      /\ Parsers[1].names = FilterNames /\ Parsers[12].names = OutputNames /\ Parsers[13].names = SubdirNames
      /\ 12 \in Texts /\ 13 \in Texts
  BY <1>1, ExtractorParsers, OptFacts DEF FilterNames, OutputNames, SubdirNames, Texts
<1>3. \A x \in Made : x # ""
  BY MadeAssumption
<1>4. \A x \in Languages : x # ""
  BY DEF Languages
<1>5. ASSUME NEW l \in Languages, NEW t \in Made, NEW d \in Made, NEW f \in Made, r = ExtractRule(l, t, d, f)
      PROVE  /\ Sound(LineTokens, Len(LineTokens))
             /\ ValuesOn(OutputNames) = {t} /\ ValuesOn(SubdirNames) = {d} /\ r.target = t /\ r.dir = d
  <2>1. r.target = t /\ r.dir = d
    BY <1>5 DEF ExtractRule, Rule
  <2>2. RuleTaken(ExtractPlaces, 9) /\ LineTokens[6].text = t /\ LineTokens[8].text = d
    <3>1. "" \notin {l, t, d, f}
      BY <1>3, <1>4
    <3>2. line = ExtractRule(l, t, d, f).line
      BY <1>5
    <3> QED BY ONLY Tables = ProgramTables, program = "extractor", <1>1, <3>1, <3>2, ExtractTaken
  <2>3. /\ Sound(LineTokens, Len(LineTokens))
        /\ ValuesAt(LineTokens, OutputNames) = {6} /\ ValuesAt(LineTokens, SubdirNames) = {8}
    <3>1. /\ Sound(LineTokens, Len(LineTokens))
          /\ \A q \in DOMAIN Parsers : q \in Texts =>
               ValuesAt(LineTokens, Parsers[q].names) = {k \in 1 .. 9 : k > 1 /\ ExtractPlaces[k - 1] = q}
          /\ \A q \in DOMAIN Parsers : (\E k \in 1 .. 9 : ExtractPlaces[k] = q) => On(Parsers[q].names)
      BY <1>1, <2>2, RuleRead
    <3>2. /\ ValuesAt(LineTokens, OutputNames) = {k \in 1 .. 9 : k > 1 /\ ExtractPlaces[k - 1] = 12}
          /\ ValuesAt(LineTokens, SubdirNames) = {k \in 1 .. 9 : k > 1 /\ ExtractPlaces[k - 1] = 13}
      BY <1>2, <3>1
    <3> QED BY ONLY <3>1, <3>2, ExtractValues
  <2> QED BY <2>1, <2>2, <2>3 DEF ValuesOn
<1>6. ASSUME NEW l \in Languages, NEW t \in Made, NEW d \in Made, NEW f \in Made, r = NoCalloutsRule(l, t, d, f)
      PROVE  /\ Sound(LineTokens, Len(LineTokens))
             /\ ValuesOn(OutputNames) = {t} /\ ValuesOn(SubdirNames) = {d} /\ r.target = t /\ r.dir = d
  <2>1. r.target = t /\ r.dir = d
    BY <1>6 DEF NoCalloutsRule, Rule
  <2>2. RuleTaken(NoCalloutsPlaces, 10) /\ LineTokens[9].text = t /\ LineTokens[7].text = d
    <3>1. "" \notin {l, t, d, f}
      BY <1>3, <1>4
    <3>2. line = NoCalloutsRule(l, t, d, f).line
      BY <1>6
    <3> QED BY ONLY Tables = ProgramTables, program = "extractor", <1>1, <3>1, <3>2, NoCalloutsTaken
  <2>3. /\ Sound(LineTokens, Len(LineTokens))
        /\ ValuesAt(LineTokens, OutputNames) = {9} /\ ValuesAt(LineTokens, SubdirNames) = {7}
    <3>1. /\ Sound(LineTokens, Len(LineTokens))
          /\ \A q \in DOMAIN Parsers : q \in Texts =>
               ValuesAt(LineTokens, Parsers[q].names) = {k \in 1 .. 10 : k > 1 /\ NoCalloutsPlaces[k - 1] = q}
          /\ \A q \in DOMAIN Parsers : (\E k \in 1 .. 10 : NoCalloutsPlaces[k] = q) => On(Parsers[q].names)
      BY <1>1, <2>2, RuleRead
    <3>2. /\ ValuesAt(LineTokens, OutputNames) = {k \in 1 .. 10 : k > 1 /\ NoCalloutsPlaces[k - 1] = 12}
          /\ ValuesAt(LineTokens, SubdirNames) = {k \in 1 .. 10 : k > 1 /\ NoCalloutsPlaces[k - 1] = 13}
      BY <1>2, <3>1
    <3> QED BY ONLY <3>1, <3>2, NoCalloutsValues
  <2> QED BY <2>1, <2>2, <2>3 DEF ValuesOn
<1>7. ASSUME NEW f \in Made, r = HtmlRule(f)
      PROVE  /\ Sound(LineTokens, Len(LineTokens))
             /\ ValuesOn(OutputNames) = {} /\ ValuesOn(SubdirNames) = {}
             /\ r.target = "by source" /\ r.dir = ".extractor" /\ On(FilterNames)
  <2>1. r.target = "by source" /\ r.dir = ".extractor"
    BY <1>7 DEF HtmlRule, Rule
  <2>2. RuleTaken(HtmlPlaces, 4)
    BY <1>1, <1>3, <1>7, HtmlTaken
  <2>3. /\ Sound(LineTokens, Len(LineTokens)) /\ On(FilterNames)
        /\ ValuesAt(LineTokens, OutputNames) = {} /\ ValuesAt(LineTokens, SubdirNames) = {}
    <3>1. /\ Sound(LineTokens, Len(LineTokens))
          /\ \A q \in DOMAIN Parsers : q \in Texts =>
               ValuesAt(LineTokens, Parsers[q].names) = {k \in 1 .. 4 : k > 1 /\ HtmlPlaces[k - 1] = q}
          /\ \A q \in DOMAIN Parsers : (\E k \in 1 .. 4 : HtmlPlaces[k] = q) => On(Parsers[q].names)
      BY <1>1, <2>2, RuleRead
    <3>2. /\ ValuesAt(LineTokens, OutputNames) = {k \in 1 .. 4 : k > 1 /\ HtmlPlaces[k - 1] = 12}
          /\ ValuesAt(LineTokens, SubdirNames) = {k \in 1 .. 4 : k > 1 /\ HtmlPlaces[k - 1] = 13}
      BY <1>2, <3>1
    <3>3. On(FilterNames)
      BY <1>2, <3>1, HtmlValues
    <3> QED BY ONLY <3>1, <3>2, <3>3, HtmlValues
  <2> QED BY <2>1, <2>3 DEF ValuesOn
<1>8. \/ \E l \in Languages : \E t, d, f \in Made : r = ExtractRule(l, t, d, f)
      \/ \E l \in Languages : \E t, d, f \in Made : r = NoCalloutsRule(l, t, d, f)
      \/ \E f \in Made : r = HtmlRule(f)
  BY DEF Rules
<1> QED BY <1>5, <1>6, <1>7, <1>8

(* The documented rules, for every name of file that make may put in.      *)
THEOREM RulesAlwaysReachTheirTarget ==
  ASSUME Tables = ProgramTables
  PROVE  Spec => []RulesReachTheirTarget
<1>1. IInv /\ LineInv /\ MainInv /\ AcceptedExactly /\ SettingsFromTheLine => RulesReachTheirTarget
  <2> SUFFICES ASSUME IInv, LineInv, MainInv, AcceptedExactly, SettingsFromTheLine,
                      program = "extractor", NEW r \in Rules, line = r.line
               PROVE  /\ answer \in {"parsing", "accepted"}
                      /\ settings # NotMade =>
                           settings.outputFilePath = r.target /\ settings.subDirectoryName = r.dir
                      /\ generated = "written" => r.target # "by source"
    BY DEF RulesReachTheirTarget
  <2>1. Sound(LineTokens, Len(LineTokens))
    BY RuleArrives
  <2>2. \/ /\ ValuesOn(OutputNames) = {r.target} /\ ValuesOn(SubdirNames) = {r.dir}
           /\ r.target \in Made /\ r.dir \in Made
        \/ /\ ValuesOn(OutputNames) = {} /\ ValuesOn(SubdirNames) = {}
           /\ r.target = "by source" /\ r.dir = ".extractor" /\ On(FilterNames)
    BY RuleArrives
  <2>3. answer \in {"parsing", "accepted"}
    BY <2>1 DEF AcceptedExactly
  <2>4. \A x \in Made : x # "" /\ x # "by source"
    BY MadeAssumption
  <2>5. ASSUME settings # NotMade
        PROVE  settings.outputFilePath = r.target /\ settings.subDirectoryName = r.dir
    <3>1. /\ AskedFor(OutputNames, settings.outputFilePath, "by source")
          /\ AskedFor(SubdirNames, settings.subDirectoryName, ".extractor")
      BY <2>5 DEF SettingsFromTheLine, OutputNames, SubdirNames
    <3>2. CASE /\ ValuesOn(OutputNames) = {r.target} /\ ValuesOn(SubdirNames) = {r.dir}
               /\ r.target \in Made /\ r.dir \in Made
      <4>1. r.target # "" /\ r.dir # ""
        BY <2>4, <3>2
      <4> QED BY <3>1, <3>2, <4>1 DEF AskedFor
    <3>3. CASE /\ ValuesOn(OutputNames) = {} /\ ValuesOn(SubdirNames) = {}
               /\ r.target = "by source" /\ r.dir = ".extractor"
      BY <3>1, <3>3 DEF AskedFor
    <3> QED BY <2>2, <3>2, <3>3
  <2>6. ASSUME generated = "written", r.target = "by source" PROVE FALSE
    <3>1. On(FilterNames)
      BY <2>2, <2>4, <2>6
    <3>2. settings # NotMade /\ answer = "accepted" /\ ~FilterOnly
      BY <2>6 DEF MainInv
    <3>3. program \in DOMAIN Tables
      BY InvFacts
    <3>4. 1 \in DOMAIN Parsers /\ Parsers[1].names = FilterNames /\ Parsers[1].binds = "flag"
      BY <3>3, ExtractorParsers, OptFacts DEF FilterNames
    <3>5. taken[1] # <<>>
      BY <3>1, <3>2, <3>4, NamesOnLine
    <3>6. <<"--", "filter-only">> \in Parsers[1].names
      BY <3>4 DEF FilterNames, Long
    <3>7. ParserOf(<<"--", "filter-only">>) = 1
      BY <3>3, <3>4, <3>6, ParserIs
    <3> QED BY <3>2, <3>5, <3>7 DEF FilterOnly, IsSet
  <2> QED BY <2>3, <2>5, <2>6
<1> QED BY <1>1, MainInvariant, AcceptedAlwaysExactly, SettingsAlwaysFromTheLine, PTL

-----------------------------------------------------------------------------
(* A long option that wants a value consumes what stands behind it.        *)
LEMMA OddOrEven ==
  \A d \in Nat : /\ d % 2 \in {0, 1} /\ (d % 2 = 1 <=> (d + 1) % 2 # 1)
                 /\ (0 + 1) % 2 = 1
  OBVIOUS

LEMMA FirstNotConsumed == ~Consumed(1)
<1>1. 1 .. 1 - 1 = {}
  OBVIOUS
<1> QED BY <1>1 DEF Consumed

LEMMA NextConsumed ==
  ASSUME NEW i \in Nat \ {0}
  PROVE  Consumed(i + 1) <=> LongWithValue(arguments[i]) /\ ~Consumed(i)
<1> DEFINE W(k) == LongWithValue(arguments[k])
<1>1. /\ 1 .. i + 1 - 1 = 1 .. i
      /\ \A j \in 1 .. i : j .. i + 1 - 1 = j .. i /\ i + 1 - j = (i - j) + 1 /\ i - j \in Nat
  OBVIOUS
<1>2. Consumed(i + 1) <=>
        \E j \in 1 .. i : /\ \A k \in j .. i : W(k)
                          /\ j > 1 => ~W(j - 1)
                          /\ ((i - j) + 1) % 2 = 1
  BY <1>1 DEF Consumed
<1>3. Consumed(i) <=>
        \E j \in 1 .. i - 1 : /\ \A k \in j .. i - 1 : W(k)
                              /\ j > 1 => ~W(j - 1)
                              /\ (i - j) % 2 = 1
  BY DEF Consumed
<1> HIDE DEF W
<1>4. ASSUME Consumed(i + 1) PROVE W(i) /\ ~Consumed(i)
  <2>1. PICK j \in 1 .. i : /\ \A k \in j .. i : W(k)
                            /\ j > 1 => ~W(j - 1)
                            /\ ((i - j) + 1) % 2 = 1
    BY <1>2, <1>4
  <2>2. W(i)
    BY <2>1
  <2>3. ASSUME Consumed(i) PROVE FALSE
    <3>1. PICK m \in 1 .. i - 1 : /\ \A k \in m .. i - 1 : W(k)
                                  /\ m > 1 => ~W(m - 1)
                                  /\ (i - m) % 2 = 1
      BY <1>3, <2>3
    <3>2. ~(m < j)
      <4>1. m < j => j > 1 /\ j - 1 \in m .. i - 1
        OBVIOUS
      <4> QED BY <2>1, <3>1, <4>1
    <3>3. ~(j < m)
      <4>1. j < m => m > 1 /\ m - 1 \in j .. i
        OBVIOUS
      <4> QED BY <2>1, <3>1, <4>1
    <3>4. m = j /\ i - j \in Nat
      BY <3>2, <3>3
    <3> QED BY <2>1, <3>1, <3>4, OddOrEven
  <2> QED BY <2>2, <2>3
<1>5. ASSUME W(i), ~Consumed(i) PROVE Consumed(i + 1)
  <2> DEFINE A == {j \in 1 .. i : \A k \in j .. i : W(k)}
  <2>1. A \in SUBSET Nat /\ i \in A
    <3>1. \A k \in i .. i : k = i
      OBVIOUS
    <3> QED BY <1>5, <3>1
  <2>2. PICK j \in A : \A m \in A : j <= m
    <3> HIDE DEF A
    <3> QED BY <2>1, LeastNumber
  <2>3. j \in 1 .. i /\ \A k \in j .. i : W(k)
    OBVIOUS
  <2>4. ASSUME j > 1, W(j - 1) PROVE FALSE
    <3>1. j - 1 \in 1 .. i /\ \A k \in j - 1 .. i : k = j - 1 \/ k \in j .. i
      BY <2>3, <2>4
    <3>2. j - 1 \in A
      BY <2>3, <2>4, <3>1
    <3> QED BY <2>2, <2>3, <3>2
  <2>5. ((i - j) + 1) % 2 = 1
    <3>1. CASE j = i
      BY <3>1, OddOrEven
    <3>2. CASE j # i
      <4>1. j \in 1 .. i - 1 /\ i - j \in Nat /\ \A k \in j .. i - 1 : k \in j .. i
        BY <2>3, <3>2
      <4>2. (i - j) % 2 # 1
        BY <1>3, <1>5, <2>3, <2>4, <4>1
      <4> QED BY <4>1, <4>2, OddOrEven
    <3> QED BY <3>1, <3>2
  <2> QED BY <1>2, <2>3, <2>4, <2>5
<1> QED BY <1>4, <1>5 DEF W

-----------------------------------------------------------------------------
(* The effects of one more argument.                                       *)
WordsTo(n)    == {i \in 1 .. n : WordAt(i)}
GivenTo(o, n) == {i \in 1 .. n : ValueAt(o, i)}
InvalidTo(n)  == {i \in 1 .. n : InvalidAt(i)}
ValueFrom(i)  == IF IsLong(arguments[i]) THEN arguments[i + 1] ELSE Attached(arguments[i])

PositionalsOf(n) ==
    /\ Len(positionals) = Cardinality(WordsTo(n))
    /\ \A i \in WordsTo(n) : positionals[Place(i, WordsTo(n))] = arguments[i].text
FlagsOf(n)   == set = {o \in DOMAIN Declared : \E i \in 1 .. n : SetsAt(o, i)}
ValuesOf(n) ==
    \A o \in DOMAIN Declared :
        /\ GivenTo(o, n) = {} => values[o] = <<>>
        /\ \A i \in GivenTo(o, n) :
             (\A j \in GivenTo(o, n) : j <= i) => values[o] = <<ValueFrom(i)>>
InvalidsOf(n) == Len(invalid) = Cardinality(InvalidTo(n))

LEMMA EffectParts ==
  \A n : EffectsOf(n) <=> PositionalsOf(n) /\ FlagsOf(n) /\ ValuesOf(n) /\ InvalidsOf(n)
  BY DEF EffectsOf, PositionalsOf, FlagsOf, ValuesOf, InvalidsOf, WordsTo, GivenTo, InvalidTo,
         ValueFrom

LEMMA OneMoreArgument ==
  ASSUME NEW n \in Nat
  PROVE  /\ WordsTo(n) \in SUBSET (1 .. n) /\ InvalidTo(n) \in SUBSET (1 .. n)
         /\ \A o : GivenTo(o, n) \in SUBSET (1 .. n)
         /\ WordsTo(n + 1) = IF WordAt(n + 1) THEN WordsTo(n) \cup {n + 1} ELSE WordsTo(n)
         /\ InvalidTo(n + 1) = IF InvalidAt(n + 1) THEN InvalidTo(n) \cup {n + 1} ELSE InvalidTo(n)
         /\ \A o : GivenTo(o, n + 1) = IF ValueAt(o, n + 1) THEN GivenTo(o, n) \cup {n + 1}
                                       ELSE GivenTo(o, n)
         /\ \A o : (\E i \in 1 .. n + 1 : SetsAt(o, i)) <=>
                     (\E i \in 1 .. n : SetsAt(o, i)) \/ SetsAt(o, n + 1)
<1>1. \A i : i \in 1 .. n + 1 <=> i \in 1 .. n \/ i = n + 1
  OBVIOUS
<1> QED BY <1>1 DEF WordsTo, InvalidTo, GivenTo

(* What is consumed has no effect of its own.                              *)
LEMMA ConsumedHasNone ==
  \A n \in Nat : EffectsOf(n) /\ Consumed(n + 1) => EffectsOf(n + 1)
<1> SUFFICES ASSUME NEW n \in Nat, EffectsOf(n), Consumed(n + 1) PROVE EffectsOf(n + 1)
  OBVIOUS
<1>1. /\ ~WordAt(n + 1) /\ ~InvalidAt(n + 1)
      /\ \A o : ~SetsAt(o, n + 1) /\ ~ValueAt(o, n + 1)
  BY DEF WordAt, InvalidAt, SetsAt, ValueAt
<1>2. /\ WordsTo(n + 1) = WordsTo(n) /\ InvalidTo(n + 1) = InvalidTo(n)
      /\ \A o : GivenTo(o, n + 1) = GivenTo(o, n)
      /\ \A o : (\E i \in 1 .. n + 1 : SetsAt(o, i)) <=> (\E i \in 1 .. n : SetsAt(o, i))
  BY <1>1, OneMoreArgument
<1>3. PositionalsOf(n) /\ FlagsOf(n) /\ ValuesOf(n) /\ InvalidsOf(n)
  BY EffectParts
<1>4. PositionalsOf(n + 1) /\ InvalidsOf(n + 1) /\ ValuesOf(n + 1)
  BY <1>2, <1>3 DEF PositionalsOf, InvalidsOf, ValuesOf
<1>5. FlagsOf(n + 1)
  BY <1>2, <1>3 DEF FlagsOf
<1> QED BY <1>4, <1>5, EffectParts

LEMMA ArgumentsStay ==
  ASSUME arguments' = arguments
  PROVE  /\ \A i : /\ Consumed(i)' <=> Consumed(i)
                   /\ WordAt(i)' <=> WordAt(i)
                   /\ InvalidAt(i)' <=> InvalidAt(i)
                   /\ ValueFrom(i)' = ValueFrom(i)
         /\ \A o, i : /\ SetsAt(o, i)' <=> SetsAt(o, i)
                      /\ ValueAt(o, i)' <=> ValueAt(o, i)
         /\ \A n : WordsTo(n)' = WordsTo(n) /\ InvalidTo(n)' = InvalidTo(n)
         /\ \A o, n : GivenTo(o, n)' = GivenTo(o, n)
<1>1. \A i : Consumed(i)' <=> Consumed(i)
  BY DEF Consumed
<1>2. \A i : /\ WordAt(i)' <=> WordAt(i)
             /\ ValueFrom(i)' = ValueFrom(i)
  BY <1>1 DEF WordAt, ValueFrom
<1>3. \A o, i : /\ SetsAt(o, i)' <=> SetsAt(o, i)
                /\ ValueAt(o, i)' <=> ValueAt(o, i)
  BY <1>1 DEF SetsAt, ValueAt
<1>4. \A i : InvalidAt(i)' <=> InvalidAt(i)
  BY <1>1, <1>3 DEF InvalidAt
<1>5. \A n : WordsTo(n)' = WordsTo(n) /\ InvalidTo(n)' = InvalidTo(n)
  BY <1>2, <1>4 DEF WordsTo, InvalidTo
<1>6. \A o, n : GivenTo(o, n)' = GivenTo(o, n)
  BY <1>3 DEF GivenTo
<1> QED BY <1>1, <1>2, <1>3, <1>4, <1>5, <1>6

LEMMA EffectsGrow ==
  ASSUME NEW n \in Nat, EffectsOf(n), arguments' = arguments,
         WordAt(n + 1) =>
           /\ Len(positionals') = Len(positionals) + 1
           /\ \A i \in 1 .. Len(positionals) : positionals'[i] = positionals[i]
           /\ positionals'[Len(positionals) + 1] = arguments[n + 1].text,
         ~WordAt(n + 1) => positionals' = positionals,
         set' = set \cup {o \in DOMAIN Declared : SetsAt(o, n + 1)},
         \A o \in DOMAIN Declared :
           values'[o] = IF ValueAt(o, n + 1) THEN <<ValueFrom(n + 1)>> ELSE values[o],
         Len(invalid') = IF InvalidAt(n + 1) THEN Len(invalid) + 1 ELSE Len(invalid)
  PROVE  EffectsOf(n + 1)'
<1>1. PositionalsOf(n) /\ FlagsOf(n) /\ ValuesOf(n) /\ InvalidsOf(n)
  BY EffectParts
<1>2. PositionalsOf(n + 1)'
  <2>1. PICK A : A = WordsTo(n)
    OBVIOUS
  <2>2. n \in Nat /\ A \in SUBSET (1 .. n)
    BY <2>1, OneMoreArgument
  <2>3. /\ Cardinality(A) \in Nat
        /\ \A j \in A : Place(j, A) \in 1 .. Cardinality(A) /\ Place(j, A \cup {n + 1}) = Place(j, A)
        /\ Place(n + 1, A \cup {n + 1}) = Cardinality(A) + 1
        /\ Cardinality(A \cup {n + 1}) = Cardinality(A) + 1
    BY ONLY <2>2, PlaceInRange
  <2>4. /\ Len(positionals) = Cardinality(A)
        /\ \A i \in A : positionals[Place(i, A)] = arguments[i].text
    BY <1>1, <2>1 DEF PositionalsOf
  <2>5. PICK B : B = WordsTo(n + 1)
    OBVIOUS
  <2>6. Len(positionals') = Cardinality(B) /\ \A i \in B : positionals'[Place(i, B)] = arguments[i].text
    <3>1. CASE WordAt(n + 1)
      <4>1. B = A \cup {n + 1}
        BY <2>1, <2>5, <3>1, OneMoreArgument
      <4>2. /\ Len(positionals') = Len(positionals) + 1
            /\ \A i \in 1 .. Len(positionals) : positionals'[i] = positionals[i]
            /\ positionals'[Len(positionals) + 1] = arguments[n + 1].text
        BY <3>1
      <4>3. \A i \in A : positionals'[Place(i, B)] = arguments[i].text
        BY <2>3, <2>4, <4>1, <4>2
      <4>4. positionals'[Place(n + 1, B)] = arguments[n + 1].text
        BY <2>3, <2>4, <4>1, <4>2
      <4> QED BY <2>3, <2>4, <4>1, <4>2, <4>3, <4>4
    <3>2. CASE ~WordAt(n + 1)
      <4>1. B = A /\ positionals' = positionals
        BY <2>1, <2>5, <3>2, OneMoreArgument
      <4> QED BY <2>4, <4>1
    <3> QED BY <3>1, <3>2
  <2> QED BY <2>5, <2>6, ArgumentsStay DEF PositionalsOf
<1>3. FlagsOf(n + 1)'
  <2>1. set' = {o \in DOMAIN Declared : \E i \in 1 .. n + 1 : SetsAt(o, i)}
    BY <1>1, OneMoreArgument DEF FlagsOf
  <2>2. \A o : (\E i \in 1 .. n + 1 : SetsAt(o, i)') <=> (\E i \in 1 .. n + 1 : SetsAt(o, i))
    BY ArgumentsStay
  <2> QED BY <2>1, <2>2 DEF FlagsOf
<1>4. ValuesOf(n + 1)'
  <2> SUFFICES ASSUME NEW o \in DOMAIN Declared
               PROVE  /\ GivenTo(o, n + 1) = {} => values'[o] = <<>>
                      /\ \A i \in GivenTo(o, n + 1) :
                           (\A j \in GivenTo(o, n + 1) : j <= i) => values'[o] = <<ValueFrom(i)>>
    BY ArgumentsStay DEF ValuesOf
  <2>1. PICK A, B : A = GivenTo(o, n) /\ B = GivenTo(o, n + 1)
    OBVIOUS
  <2>2. A \in SUBSET (1 .. n) /\ B = IF ValueAt(o, n + 1) THEN A \cup {n + 1} ELSE A
    BY <2>1, OneMoreArgument
  <2>3. CASE ValueAt(o, n + 1)
    <3>1. ASSUME NEW i \in B, \A j \in B : j <= i PROVE i = n + 1
      <4>1. n + 1 <= i /\ (i = n + 1 \/ i \in 1 .. n)
        BY <2>2, <2>3, <3>1
      <4>2. \A x \in 1 .. n : ~(n + 1 <= x)
        OBVIOUS
      <4> QED BY ONLY <4>1, <4>2
    <3>2. values'[o] = <<ValueFrom(n + 1)>> /\ B # {}
      BY <2>2, <2>3
    <3> QED BY <2>1, <3>1, <3>2
  <2>4. CASE ~ValueAt(o, n + 1)
    <3>1. values'[o] = values[o] /\ B = A
      BY <2>2, <2>4
    <3> QED BY <1>1, <2>1, <3>1 DEF ValuesOf
  <2> QED BY <2>3, <2>4
<1>5. InvalidsOf(n + 1)'
  <2>1. PICK A : A = InvalidTo(n)
    OBVIOUS
  <2>2. n \in Nat /\ A \in SUBSET (1 .. n)
    BY <2>1, OneMoreArgument
  <2>3. Cardinality(A \cup {n + 1}) = Cardinality(A) + 1
    BY ONLY <2>2, PlaceInRange
  <2>4. Len(invalid) = Cardinality(A)
    BY <1>1, <2>1 DEF InvalidsOf
  <2>5. Len(invalid') = Cardinality(InvalidTo(n + 1))
    BY <2>1, <2>3, <2>4, OneMoreArgument
  <2> QED BY <2>5, ArgumentsStay DEF InvalidsOf
<1>6. PositionalsOf(n + 1)' /\ FlagsOf(n + 1)' /\ ValuesOf(n + 1)' /\ InvalidsOf(n + 1)'
        => EffectsOf(n + 1)'
  BY EffectParts DEF PositionalsOf, FlagsOf, ValuesOf, InvalidsOf, EffectsOf, WordsTo, GivenTo,
     InvalidTo, ValueFrom
<1> QED BY <1>2, <1>3, <1>4, <1>5, <1>6

-----------------------------------------------------------------------------
(* avrasmopt between two arguments: those before argIt have had their      *)
(* effects, and argIt is not the value of the one before it.               *)
OldTyped ==
    /\ arguments \in Seq(Argument)
    /\ argIt \in 1 .. Len(arguments) + 1
    /\ parsed \in {"no", "yes", "undefined"}
    /\ values = [o \in DOMAIN Declared |-> values[o]]
    /\ positionals \in Seq(Words \cup {""})
    /\ invalid \in Seq(Names \cup {"name=value", "="})
Progress ==
    \A n \in Nat : n + 1 = argIt => ~Consumed(n + 1) /\ (parsed # "undefined" => EffectsOf(n))
Ends ==
    /\ parsed = "yes" => argIt = Len(arguments) + 1
    /\ parsed = "undefined" => argIt = Len(arguments) /\ LongWithValue(arguments[argIt])

OldInv == OldTyped /\ Progress /\ Ends

(* An argument that is not the name of an option with a value has had its  *)
(* effect.                                                                 *)
Effect(n) ==
    /\ arguments' = arguments
    /\ WordAt(n + 1) =>
         /\ Len(positionals') = Len(positionals) + 1
         /\ \A i \in 1 .. Len(positionals) : positionals'[i] = positionals[i]
         /\ positionals'[Len(positionals) + 1] = arguments[n + 1].text
    /\ ~WordAt(n + 1) => positionals' = positionals
    /\ set' = set \cup {o \in DOMAIN Declared : SetsAt(o, n + 1)}
    /\ \A o \in DOMAIN Declared :
         values'[o] = IF ValueAt(o, n + 1) THEN <<ValueFrom(n + 1)>> ELSE values[o]
    /\ Len(invalid') = IF InvalidAt(n + 1) THEN Len(invalid) + 1 ELSE Len(invalid)

Typed ==
    /\ values = [o \in DOMAIN Declared |-> values[o]]
    /\ positionals \in Seq(Words \cup {""})
    /\ invalid \in Seq(Names \cup {"name=value", "="})

LEMMA GoesOn ==
  ASSUME OldInv, parsed = "no", NEW n \in Nat, n + 1 = argIt, argIt \in DOMAIN arguments,
         ~LongWithValue(arguments[n + 1]), Effect(n), argIt' = argIt + 1, parsed' = parsed, Typed'
  PROVE  OldInv'
<1>1. EffectsOf(n)
  BY DEF OldInv, Progress
<1>2. EffectsOf(n + 1)'
  BY <1>1, EffectsGrow DEF Effect
<1>3. arguments' = arguments /\ Len(arguments) \in Nat /\ DOMAIN arguments = 1 .. Len(arguments)
  <2>1. arguments \in Seq(Argument)
    BY DEF OldInv, OldTyped
  <2> QED BY <2>1, Elements DEF Effect
<1>4. ~Consumed(n + 2)
  <2>1. n + 1 \in Nat \ {0} /\ (n + 1) + 1 = n + 2
    OBVIOUS
  <2> QED BY <2>1, NextConsumed
<1>5. ~Consumed(n + 2)'
  BY <1>3, <1>4, ArgumentsStay
<1>6. Progress'
  <2> SUFFICES ASSUME NEW m \in Nat, m + 1 = argIt'
               PROVE  ~Consumed(m + 1)' /\ EffectsOf(m)'
    BY DEF Progress
  <2>1. m = n + 1 /\ m + 1 = n + 2
    OBVIOUS
  <2> QED BY <1>2, <1>5, <2>1
<1>7. Ends'
  BY DEF Ends
<1>8. OldTyped'
  <2>1. argIt' \in 1 .. Len(arguments') + 1
    BY <1>3
  <2>2. arguments' \in Seq(Argument) /\ parsed' \in {"no", "yes", "undefined"}
    BY <1>3 DEF OldInv, OldTyped
  <2> QED BY <2>1, <2>2 DEF OldTyped, Typed
<1> QED BY <1>6, <1>7, <1>8 DEF OldInv

LEMMA OnlyOne ==
  \A name : \A o \in Options(name) : \A q \in DOMAIN Declared :
    name \in Declared[q].names <=> q = o
  BY DeclaredAssumption DEF Options

LEMMA NamesTyped ==
  ASSUME NEW a \in Argument
  PROVE  /\ a.text \in Words \cup {""}
         /\ IsLong(a) => LongName(a) \in Names \cup {"name=value", "="}
         /\ IsShort(a) => OptLetter(a) \in Names \cup {"name=value", "="}
<1>1. a.text \in Words \cup {""}
  BY DEF Argument
<1>2. ASSUME IsLong(a) \/ IsShort(a) PROVE a.names[1] \in Names
  <2>1. a.names \in Seq(Names) /\ a.names # <<>>
    BY <1>2 DEF IsLong, IsShort, Argument
  <2> HIDE <1>2
  <2>2. 1 \in 1 .. Len(a.names)
    BY <2>1
  <2> QED BY <2>1, <2>2, Elements
<1>3. IsLong(a) => LongName(a) \in Names \cup {"name=value", "="}
  BY <1>2 DEF LongName
<1>4. IsShort(a) => OptLetter(a) \in Names \cup {"name=value", "="}
  BY <1>2 DEF OptLetter
<1> QED BY ONLY <1>1, <1>3, <1>4

LEMMA AtArgument ==
  ASSUME OldInv, NEW a, Reads(a)
  PROVE  \E n \in Nat : /\ n + 1 = argIt /\ a = arguments[n + 1] /\ a \in Argument
                        /\ argIt \in DOMAIN arguments /\ parsed = "no"
                        /\ ~Consumed(n + 1) /\ EffectsOf(n)
<1>1. arguments \in Seq(Argument) /\ argIt \in 1 .. Len(arguments) + 1
  BY DEF OldInv, OldTyped
<1>2. Len(arguments) \in Nat /\ DOMAIN arguments = 1 .. Len(arguments)
  BY <1>1, Elements
<1>3. parsed = "no" /\ argIt <= Len(arguments) /\ a = arguments[argIt]
  BY DEF Reads
<1>4. PICK n \in Nat : n + 1 = argIt
  <2>1. argIt - 1 \in Nat /\ (argIt - 1) + 1 = argIt
    BY <1>1, <1>2
  <2> QED BY <2>1
<1>5. argIt \in DOMAIN arguments
  BY ONLY <1>1, <1>2, <1>3
<1>6. a \in Argument
  BY <1>1, <1>2, <1>3, <1>5, Elements
<1>7. ~Consumed(n + 1) /\ EffectsOf(n)
  BY <1>3, <1>4 DEF OldInv, Progress
<1> QED BY <1>3, <1>4, <1>5, <1>6, <1>7

(* The kinds of arguments exclude each other.                              *)
LEMMA Kinds ==
  \A a : /\ IsWord(a) => ~IsLong(a) /\ ~IsShort(a)
         /\ IsLong(a) => ~IsShort(a)
  BY DEF IsWord, IsLong, IsShort

(* What an argument that is not consumed does.                             *)
LEMMA WhatItDoes ==
  ASSUME NEW i, ~Consumed(i), NEW a, a = arguments[i]
  PROVE  /\ WordAt(i) <=> IsWord(a)
         /\ ~IsLong(a) /\ ~IsShort(a) =>
              /\ ~InvalidAt(i) /\ ~LongWithValue(a)
              /\ \A o : ~SetsAt(o, i) /\ ~ValueAt(o, i)
         /\ IsLong(a) =>
              /\ \A o \in DOMAIN Declared :
                   /\ SetsAt(o, i) <=> o \in Options(LongName(a)) /\ ~Declared[o].hasValue
                   /\ ValueAt(o, i) <=> o \in Options(LongName(a)) /\ Declared[o].hasValue
              /\ InvalidAt(i) <=> Options(LongName(a)) = {}
              /\ LongWithValue(a) <=> \E o \in Options(LongName(a)) : Declared[o].hasValue
              /\ ValueFrom(i) = arguments[i + 1]
         /\ IsShort(a) =>
              /\ \A o \in DOMAIN Declared :
                   /\ SetsAt(o, i) <=> /\ o \in Options(OptLetter(a))
                                       /\ ~Declared[o].hasValue /\ ~HasAttached(a)
                   /\ ValueAt(o, i) <=> /\ o \in Options(OptLetter(a))
                                        /\ Declared[o].hasValue /\ HasAttached(a)
              /\ InvalidAt(i) <=> \A o \in Options(OptLetter(a)) : Declared[o].hasValue # HasAttached(a)
              /\ ~LongWithValue(a)
              /\ ValueFrom(i) = Attached(a)
<1>1. WordAt(i) <=> IsWord(a)
  BY DEF WordAt
<1>2. ASSUME ~IsLong(a), ~IsShort(a)
      PROVE  /\ ~InvalidAt(i) /\ ~LongWithValue(a)
             /\ \A o : ~SetsAt(o, i) /\ ~ValueAt(o, i)
  BY <1>2 DEF InvalidAt, LongWithValue, SetsAt, ValueAt, Letter
<1>h. HasAttached(a) \in BOOLEAN /\ \A o \in DOMAIN Declared : Declared[o].hasValue \in BOOLEAN
  <2>1. Declared \in Seq([names : SUBSET STRING, hasValue : BOOLEAN])
    BY DeclaredAssumption
  <2>2. \A o \in DOMAIN Declared : Declared[o] \in [names : SUBSET STRING, hasValue : BOOLEAN]
    <3>1. PICK S : S = [names : SUBSET STRING, hasValue : BOOLEAN]
      OBVIOUS
    <3>2. Declared \in Seq(S)
      BY <2>1, <3>1
    <3>3. DOMAIN Declared = 1 .. Len(Declared) /\ \A o \in 1 .. Len(Declared) : Declared[o] \in S
      BY ONLY <3>2, Elements
    <3> QED BY ONLY <3>1, <3>3
  <2>3. HasAttached(a) \in BOOLEAN
    BY Zenon DEF HasAttached
  <2> QED BY <2>2, <2>3
<1>3. ASSUME IsLong(a)
      PROVE  /\ \A o \in DOMAIN Declared :
                  /\ SetsAt(o, i) <=> o \in Options(LongName(a)) /\ ~Declared[o].hasValue
                  /\ ValueAt(o, i) <=> o \in Options(LongName(a)) /\ Declared[o].hasValue
             /\ InvalidAt(i) <=> Options(LongName(a)) = {}
             /\ LongWithValue(a) <=> \E o \in Options(LongName(a)) : Declared[o].hasValue
             /\ ValueFrom(i) = arguments[i + 1]
  <2>1. \A o \in DOMAIN Declared :
                  /\ SetsAt(o, i) <=> o \in Options(LongName(a)) /\ ~Declared[o].hasValue
                  /\ ValueAt(o, i) <=> o \in Options(LongName(a)) /\ Declared[o].hasValue
    BY <1>3, Kinds DEF SetsAt, ValueAt, Letter, Named, Options
  <2>2. Options(LongName(a)) \in SUBSET DOMAIN Declared
    BY DEF Options
  <2>3. InvalidAt(i) <=> Options(LongName(a)) = {}
    BY <1>3, <2>1, <2>2 DEF InvalidAt
  <2>4. LongWithValue(a) <=> \E o \in Options(LongName(a)) : Declared[o].hasValue
    BY <1>3 DEF LongWithValue, Options
  <2>5. ValueFrom(i) = arguments[i + 1]
    BY <1>3 DEF ValueFrom
  <2> QED BY <2>1, <2>3, <2>4, <2>5
<1>4. ASSUME IsShort(a)
      PROVE  /\ \A o \in DOMAIN Declared :
                   /\ SetsAt(o, i) <=> /\ o \in Options(OptLetter(a))
                                       /\ ~Declared[o].hasValue /\ ~HasAttached(a)
                   /\ ValueAt(o, i) <=> /\ o \in Options(OptLetter(a))
                                        /\ Declared[o].hasValue /\ HasAttached(a)
             /\ InvalidAt(i) <=> \A o \in Options(OptLetter(a)) : Declared[o].hasValue # HasAttached(a)
             /\ ~LongWithValue(a)
             /\ ValueFrom(i) = Attached(a)
  <2>1. ~IsLong(a)
    BY <1>4, Kinds
  <2>2. \A o \in DOMAIN Declared :
                   /\ SetsAt(o, i) <=> /\ o \in Options(OptLetter(a))
                                       /\ ~Declared[o].hasValue /\ ~HasAttached(a)
                   /\ ValueAt(o, i) <=> /\ o \in Options(OptLetter(a))
                                        /\ Declared[o].hasValue /\ HasAttached(a)
    BY <1>4, <2>1 DEF SetsAt, ValueAt, Letter, Options
  <2>3. Options(OptLetter(a)) \in SUBSET DOMAIN Declared
    BY DEF Options
  <2>4. InvalidAt(i) <=> \A o \in Options(OptLetter(a)) : Declared[o].hasValue # HasAttached(a)
    <3>1. InvalidAt(i) <=> \A o \in DOMAIN Declared : ~SetsAt(o, i) /\ ~ValueAt(o, i)
      BY <1>4 DEF InvalidAt
    <3> HIDE <1>4
    <3>2. InvalidAt(i) <=> \A o \in Options(OptLetter(a)) :
                             ~(~Declared[o].hasValue /\ ~HasAttached(a)) /\ ~(Declared[o].hasValue /\ HasAttached(a))
      BY <3>1, <2>2, <2>3
    <3>3. \A o \in Options(OptLetter(a)) :
            Declared[o].hasValue # HasAttached(a) <=>
              ~(~Declared[o].hasValue /\ ~HasAttached(a)) /\ ~(Declared[o].hasValue /\ HasAttached(a))
      BY <1>h, <2>3
    <3> QED BY <3>2, <3>3
  <2>5. ~LongWithValue(a) /\ ValueFrom(i) = Attached(a)
    BY <2>1 DEF LongWithValue, ValueFrom
  <2> QED BY <2>2, <2>4, <2>5
<1> QED BY <1>1, <1>2, <1>3, <1>4

LEMMA PositionalKeeps == ASSUME OldInv, NEW a, Positional(a) PROVE OldInv'
<1>1. Reads(a) /\ IsWord(a) /\ argIt' = argIt + 1 /\ positionals' = Append(positionals, a.text)
      /\ arguments' = arguments /\ values' = values /\ set' = set /\ invalid' = invalid
      /\ parsed' = parsed
  BY DEF Positional
<1>2. PICK n \in Nat : /\ n + 1 = argIt /\ a = arguments[n + 1] /\ a \in Argument
                       /\ argIt \in DOMAIN arguments /\ parsed = "no"
                       /\ ~Consumed(n + 1) /\ EffectsOf(n)
  BY <1>1, AtArgument
<1>3. ~IsLong(a) /\ ~IsShort(a)
  BY <1>1, Kinds
<1>4. /\ WordAt(n + 1) /\ ~InvalidAt(n + 1) /\ ~LongWithValue(a)
      /\ \A o : ~SetsAt(o, n + 1) /\ ~ValueAt(o, n + 1)
  BY <1>1, <1>2, <1>3, WhatItDoes
<1>5. positionals \in Seq(Words \cup {""}) /\ a.text \in Words \cup {""}
  BY <1>2, NamesTyped DEF OldInv, OldTyped
<1>6. /\ positionals' \in Seq(Words \cup {""})
      /\ Len(positionals') = Len(positionals) + 1
      /\ \A i \in 1 .. Len(positionals) : positionals'[i] = positionals[i]
      /\ positionals'[Len(positionals) + 1] = a.text
  <2>1. PICK w, W : w = a.text /\ W = Words \cup {""}
    OBVIOUS
  <2>2. positionals' = Append(positionals, w) /\ w \in W /\ positionals \in Seq(W)
    BY <1>1, <1>5, <2>1
  <2>3. /\ positionals' \in Seq(W)
        /\ Len(positionals') = Len(positionals) + 1
        /\ \A i \in 1 .. Len(positionals) : positionals'[i] = positionals[i]
        /\ positionals'[Len(positionals) + 1] = w
    BY ONLY <2>2, AppendFacts
  <2> QED BY <2>1, <2>3
<1>7. Effect(n)
  BY <1>1, <1>2, <1>4, <1>6 DEF Effect
<1>8. Typed'
  <2>1. values' = [o \in DOMAIN Declared |-> values'[o]] /\ invalid' \in Seq(Names \cup {"name=value", "="})
    BY <1>1 DEF OldInv, OldTyped
  <2> QED BY <1>6, <2>1 DEF Typed
<1> QED BY <1>1, <1>2, <1>4, <1>7, <1>8, GoesOn

LEMMA IgnoreKeeps == ASSUME OldInv, NEW a, Ignore(a) PROVE OldInv'
<1>1. Reads(a) /\ ~IsWord(a) /\ ~IsLong(a) /\ ~IsShort(a) /\ argIt' = argIt + 1
      /\ positionals' = positionals
      /\ arguments' = arguments /\ values' = values /\ set' = set /\ invalid' = invalid
      /\ parsed' = parsed
  BY DEF Ignore
<1>2. PICK n \in Nat : /\ n + 1 = argIt /\ a = arguments[n + 1] /\ a \in Argument
                       /\ argIt \in DOMAIN arguments /\ parsed = "no"
                       /\ ~Consumed(n + 1) /\ EffectsOf(n)
  BY <1>1, AtArgument
<1>3. /\ ~WordAt(n + 1) /\ ~InvalidAt(n + 1) /\ ~LongWithValue(a)
      /\ \A o : ~SetsAt(o, n + 1) /\ ~ValueAt(o, n + 1)
  BY <1>1, <1>2, WhatItDoes
<1>4. Effect(n)
  BY <1>1, <1>2, <1>3 DEF Effect
<1>5. Typed'
  BY <1>1 DEF Typed, OldInv, OldTyped
<1> QED BY <1>1, <1>2, <1>3, <1>4, <1>5, GoesOn

(* The unknown names and the wrong letters.                                *)
LEMMA InvalidKeeps ==
  ASSUME OldInv, NEW a, Reads(a), NEW name \in Names \cup {"name=value", "="}, Invalidate(name),
         argIt' = argIt + 1, ~LongWithValue(a),
         NEW n \in Nat, n + 1 = argIt, a = arguments[n + 1], argIt \in DOMAIN arguments,
         ~WordAt(n + 1), InvalidAt(n + 1)
  PROVE  OldInv'
<1>1. invalid' = Append(invalid, name) /\ positionals' = positionals
      /\ arguments' = arguments /\ values' = values /\ set' = set /\ parsed' = parsed
  BY DEF Invalidate
<1>2. \A o \in DOMAIN Declared : ~SetsAt(o, n + 1) /\ ~ValueAt(o, n + 1)
  BY DEF InvalidAt
<1>3. invalid \in Seq(Names \cup {"name=value", "="})
  BY DEF OldInv, OldTyped
<1>4. invalid' \in Seq(Names \cup {"name=value", "="}) /\ Len(invalid') = Len(invalid) + 1
  <2>1. invalid' = Append(invalid, name) /\ name \in Names \cup {"name=value", "="}
    BY <1>1
  <2> QED BY ONLY <2>1, <1>3, AppendFacts
<1>5. Effect(n)
  BY <1>1, <1>2, <1>4 DEF Effect
<1>6. Typed'
  BY <1>1, <1>4 DEF Typed, OldInv, OldTyped
<1>7. parsed = "no"
  BY DEF Reads
<1> QED BY <1>1, <1>5, <1>6, <1>7, GoesOn

LEMMA UnknownLongKeeps == ASSUME OldInv, NEW a, UnknownLong(a) PROVE OldInv'
<1>1. Reads(a) /\ IsLong(a) /\ Options(LongName(a)) = {} /\ argIt' = argIt + 1
      /\ Invalidate(LongName(a))
  BY DEF UnknownLong
<1>2. PICK n \in Nat : /\ n + 1 = argIt /\ a = arguments[n + 1] /\ a \in Argument
                       /\ argIt \in DOMAIN arguments /\ parsed = "no"
                       /\ ~Consumed(n + 1) /\ EffectsOf(n)
  BY <1>1, AtArgument
<1>3. ~WordAt(n + 1) /\ InvalidAt(n + 1) /\ ~LongWithValue(a)
  BY <1>1, <1>2, Kinds, WhatItDoes
<1>4. LongName(a) \in Names \cup {"name=value", "="}
  BY <1>1, <1>2, NamesTyped
<1> QED BY <1>1, <1>2, <1>3, <1>4, InvalidKeeps

LEMMA UnknownShortKeeps == ASSUME OldInv, NEW a, UnknownShort(a) PROVE OldInv'
<1>1. Reads(a) /\ IsShort(a) /\ Options(OptLetter(a)) = {} /\ argIt' = argIt + 1
      /\ Invalidate(OptLetter(a))
  BY DEF UnknownShort
<1>2. PICK n \in Nat : /\ n + 1 = argIt /\ a = arguments[n + 1] /\ a \in Argument
                       /\ argIt \in DOMAIN arguments /\ parsed = "no"
                       /\ ~Consumed(n + 1) /\ EffectsOf(n)
  BY <1>1, AtArgument
<1>3. ~WordAt(n + 1) /\ InvalidAt(n + 1) /\ ~LongWithValue(a)
  BY <1>1, <1>2, Kinds, WhatItDoes
<1>4. OptLetter(a) \in Names \cup {"name=value", "="}
  BY <1>1, <1>2, NamesTyped
<1> QED BY <1>1, <1>2, <1>3, <1>4, InvalidKeeps

(* Exactly one option is set or given a value.                             *)
LEMMA LongFlagKeeps == ASSUME OldInv, NEW a, LongFlag(a) PROVE OldInv'
<1>1. Reads(a) /\ IsLong(a) /\ argIt' = argIt + 1 /\ positionals' = positionals
      /\ arguments' = arguments /\ values' = values /\ invalid' = invalid /\ parsed' = parsed
  BY DEF LongFlag
<1>2. PICK o \in Options(LongName(a)) : ~Declared[o].hasValue /\ set' = set \cup {o}
  BY DEF LongFlag
<1>3. PICK n \in Nat : /\ n + 1 = argIt /\ a = arguments[n + 1] /\ a \in Argument
                       /\ argIt \in DOMAIN arguments /\ parsed = "no"
                       /\ ~Consumed(n + 1) /\ EffectsOf(n)
  BY <1>1, AtArgument
<1>4. \A q : q \in Options(LongName(a)) <=> q = o
  BY <1>2, OnlyOne DEF Options
<1>5. /\ \A q \in DOMAIN Declared : (SetsAt(q, n + 1) <=> q = o) /\ ~ValueAt(q, n + 1)
      /\ ~InvalidAt(n + 1) /\ ~WordAt(n + 1) /\ ~LongWithValue(a)
  BY <1>1, <1>2, <1>3, <1>4, Kinds, WhatItDoes
<1>6. {q \in DOMAIN Declared : SetsAt(q, n + 1)} = {o}
  BY <1>2, <1>5 DEF Options
<1>7. Effect(n)
  BY <1>1, <1>2, <1>5, <1>6 DEF Effect
<1>8. Typed'
  BY <1>1 DEF Typed, OldInv, OldTyped
<1> QED BY <1>1, <1>3, <1>5, <1>7, <1>8, GoesOn

LEMMA ShortOptionKeeps == ASSUME OldInv, NEW a, ShortOption(a) PROVE OldInv'
<1>1. Reads(a) /\ IsShort(a) /\ argIt' = argIt + 1
  BY DEF ShortOption
<1>2. PICK o \in Options(OptLetter(a)) :
        IF Declared[o].hasValue # HasAttached(a) THEN Invalidate(OptLetter(a))
        ELSE /\ values' = IF HasAttached(a) THEN [values EXCEPT ![o] = <<Attached(a)>>] ELSE values
             /\ set' = IF HasAttached(a) THEN set ELSE set \cup {o}
             /\ UNCHANGED <<arguments, positionals, invalid, parsed>>
  BY DEF ShortOption
<1>3. PICK n \in Nat : /\ n + 1 = argIt /\ a = arguments[n + 1] /\ a \in Argument
                       /\ argIt \in DOMAIN arguments /\ parsed = "no"
                       /\ ~Consumed(n + 1) /\ EffectsOf(n)
  BY <1>1, AtArgument
<1>4. \A q : q \in Options(OptLetter(a)) <=> q = o
  BY <1>2, OnlyOne DEF Options
<1>5. /\ \A q \in DOMAIN Declared :
           /\ SetsAt(q, n + 1) <=> q = o /\ ~Declared[o].hasValue /\ ~HasAttached(a)
           /\ ValueAt(q, n + 1) <=> q = o /\ Declared[o].hasValue /\ HasAttached(a)
      /\ InvalidAt(n + 1) <=> Declared[o].hasValue # HasAttached(a)
      /\ ~WordAt(n + 1) /\ ~LongWithValue(a) /\ ValueFrom(n + 1) = Attached(a)
  BY <1>1, <1>3, <1>4, Kinds, WhatItDoes
<1>6. CASE Declared[o].hasValue # HasAttached(a)
  <2>1. Invalidate(OptLetter(a))
    BY <1>2, <1>6
  <2>2. OptLetter(a) \in Names \cup {"name=value", "="}
    BY <1>1, <1>3, NamesTyped
  <2> QED BY <1>1, <1>3, <1>5, <1>6, <2>1, <2>2, InvalidKeeps
<1>7. CASE Declared[o].hasValue = HasAttached(a)
  <2>1. /\ values' = IF HasAttached(a) THEN [values EXCEPT ![o] = <<Attached(a)>>] ELSE values
        /\ set' = IF HasAttached(a) THEN set ELSE set \cup {o}
        /\ arguments' = arguments /\ positionals' = positionals /\ invalid' = invalid
        /\ parsed' = parsed
    BY <1>2, <1>7
  <2>2. values = [q \in DOMAIN Declared |-> values[q]] /\ o \in DOMAIN Declared
    BY <1>2 DEF OldInv, OldTyped, Options
  <2>3. /\ values' = [q \in DOMAIN Declared |-> values'[q]]
        /\ \A q \in DOMAIN Declared :
             values'[q] = IF ValueAt(q, n + 1) THEN <<ValueFrom(n + 1)>> ELSE values[q]
    <3>1. CASE HasAttached(a)
      <4>1. values' = [values EXCEPT ![o] = <<Attached(a)>>]
        BY <2>1, <3>1
      <4>2. \A q \in DOMAIN Declared : ValueAt(q, n + 1) <=> q = o
        BY <1>5, <1>7, <3>1
      <4>3. \A q \in DOMAIN Declared : values'[q] = IF q = o THEN <<Attached(a)>> ELSE values[q]
        BY ONLY <2>2, <4>1
      <4>4. values' = [q \in DOMAIN Declared |-> values'[q]]
        BY ONLY <2>2, <4>1
      <4> QED BY <1>5, <4>2, <4>3, <4>4
    <3>2. CASE ~HasAttached(a)
      BY <1>5, <2>1, <2>2, <3>2
    <3> QED BY <3>1, <3>2
  <2>4. set' = set \cup {q \in DOMAIN Declared : SetsAt(q, n + 1)}
    BY <1>5, <1>7, <2>1, <2>2
  <2>5. ~InvalidAt(n + 1)
    BY <1>5, <1>7
  <2>6. Effect(n)
    BY <1>5, <2>1, <2>3, <2>4, <2>5 DEF Effect
  <2>7. Typed'
    BY <2>1, <2>3 DEF Typed, OldInv, OldTyped
  <2> QED BY <1>1, <1>3, <1>5, <2>1, <2>6, <2>7, GoesOn
<1> QED BY <1>6, <1>7

LEMMA ConsumedStillHasNone ==
  (\A n \in Nat : EffectsOf(n) /\ Consumed(n + 1) => EffectsOf(n + 1))'
  BY ConsumedHasNone, PTL

(* A long option with a value: the option has its effect, and the argument *)
(* behind it none.                                                         *)
LEMMA LongValueKeeps == ASSUME OldInv, NEW a, LongValue(a) PROVE OldInv'
<1>1. Reads(a) /\ IsLong(a) /\ set' = set /\ positionals' = positionals
      /\ arguments' = arguments /\ invalid' = invalid
  BY DEF LongValue
<1>2. PICK o \in Options(LongName(a)) : Declared[o].hasValue /\ TakeNext(o)
  BY DEF LongValue
<1>3. PICK n \in Nat : /\ n + 1 = argIt /\ a = arguments[n + 1] /\ a \in Argument
                       /\ argIt \in DOMAIN arguments /\ parsed = "no"
                       /\ ~Consumed(n + 1) /\ EffectsOf(n)
  BY <1>1, AtArgument
<1>4. \A q : q \in Options(LongName(a)) <=> q = o
  BY <1>2, OnlyOne DEF Options
<1>5. /\ \A q \in DOMAIN Declared : (ValueAt(q, n + 1) <=> q = o) /\ ~SetsAt(q, n + 1)
      /\ ~InvalidAt(n + 1) /\ ~WordAt(n + 1) /\ LongWithValue(a)
      /\ ValueFrom(n + 1) = arguments[(n + 1) + 1]
  BY <1>1, <1>2, <1>3, <1>4, Kinds, WhatItDoes
<1>6. argIt \in 1 .. Len(arguments) /\ Len(arguments) \in Nat
  <2>1. arguments \in Seq(Argument)
    BY DEF OldInv, OldTyped
  <2> QED BY <1>3, <2>1, Elements
<1>7. CASE argIt = Len(arguments)
  <2>1. parsed' = "undefined" /\ argIt' = argIt /\ values' = values
    BY <1>2, <1>7 DEF TakeNext
  <2>2. OldTyped'
    BY <1>1, <2>1 DEF OldInv, OldTyped
  <2>3. ~Consumed(n + 1)'
    BY <1>1, <1>3, ArgumentsStay
  <2>4. Progress'
    BY <1>3, <2>1, <2>3 DEF Progress
  <2>5. Ends'
    BY <1>1, <1>3, <1>5, <1>7, <2>1 DEF Ends
  <2> QED BY <2>2, <2>4, <2>5 DEF OldInv
<1>8. CASE argIt # Len(arguments)
  <2>1. /\ parsed' = parsed /\ argIt' = argIt + 2
        /\ values' = [values EXCEPT ![o] = <<arguments[argIt + 1]>>]
    BY <1>2, <1>8 DEF TakeNext
  <2>2. values = [q \in DOMAIN Declared |-> values[q]] /\ o \in DOMAIN Declared
    BY <1>2 DEF OldInv, OldTyped, Options
  <2>3. /\ values' = [q \in DOMAIN Declared |-> values'[q]]
        /\ \A q \in DOMAIN Declared :
             values'[q] = IF q = o THEN <<arguments[argIt + 1]>> ELSE values[q]
    BY ONLY <2>1, <2>2
  <2>4. \A q \in DOMAIN Declared :
          values'[q] = IF ValueAt(q, n + 1) THEN <<ValueFrom(n + 1)>> ELSE values[q]
    BY <1>3, <1>5, <2>3
  <2>5. set' = set \cup {q \in DOMAIN Declared : SetsAt(q, n + 1)}
    BY <1>1, <1>5
  <2>6. Effect(n)
    BY <1>1, <1>5, <2>4, <2>5 DEF Effect
  <2>7. EffectsOf(n + 1)'
    BY <1>3, <2>6, EffectsGrow DEF Effect
  <2>8. n + 1 \in Nat \ {0} /\ (n + 1) + 1 \in Nat \ {0} /\ (n + 1) + 1 = n + 2 /\ (n + 2) + 1 = n + 3
    OBVIOUS
  <2>9. Consumed(n + 2) /\ ~Consumed(n + 3)
    BY <1>3, <1>5, <2>8, NextConsumed
  <2>10. Consumed(n + 2)' /\ ~Consumed(n + 3)'
    BY <1>1, <2>9, ArgumentsStay
  <2>11. \A m \in Nat : EffectsOf(m)' /\ Consumed(m + 1)' => EffectsOf(m + 1)'
    BY ConsumedStillHasNone
  <2>12. EffectsOf(n + 2)'
    BY <2>7, <2>8, <2>10, <2>11
  <2>13. Progress'
    <3> SUFFICES ASSUME NEW m \in Nat, m + 1 = argIt'
                 PROVE  ~Consumed(m + 1)' /\ EffectsOf(m)'
      BY DEF Progress
    <3>1. m = n + 2 /\ m + 1 = n + 3
      BY <1>3, <2>1
    <3> QED BY <2>10, <2>12, <3>1
  <2>14. OldTyped'
    <3>1. argIt' \in 1 .. Len(arguments') + 1
      BY <1>1, <1>6, <1>8, <2>1
    <3> QED BY <1>1, <1>3, <2>1, <2>3, <3>1 DEF OldInv, OldTyped
  <2>15. Ends'
    BY <1>3, <2>1 DEF Ends
  <2> QED BY <2>13, <2>14, <2>15 DEF OldInv
<1> QED BY <1>7, <1>8

LEMMA ParsedKeeps == ASSUME OldInv, Parsed PROVE OldInv'
<1>1. /\ parsed = "no" /\ argIt > Len(arguments) /\ parsed' = "yes"
      /\ arguments' = arguments /\ argIt' = argIt /\ values' = values /\ set' = set
      /\ positionals' = positionals /\ invalid' = invalid
  BY DEF Parsed
<1>2. Len(arguments) \in Nat /\ argIt \in 1 .. Len(arguments) + 1
  BY Elements DEF OldInv, OldTyped
<1>3. Ends'
  BY <1>1, <1>2 DEF Ends
<1>4. OldTyped'
  BY <1>1 DEF OldInv, OldTyped
<1>5. (\A n : EffectsOf(n)' <=> EffectsOf(n)) /\ \A n : Consumed(n)' <=> Consumed(n)
  <2>1. \A n : EffectsOf(n)' <=> EffectsOf(n)
    BY <1>1, ArgumentsStay DEF EffectsOf, ValueFrom
  <2> QED BY <1>1, <2>1, ArgumentsStay
<1>6. Progress'
  BY <1>1, <1>5 DEF OldInv, Progress
<1> QED BY <1>3, <1>4, <1>6 DEF OldInv

LEMMA OldStays == ASSUME OldInv, UNCHANGED oldVars PROVE OldInv'
<1>1. /\ arguments' = arguments /\ argIt' = argIt /\ values' = values /\ set' = set
      /\ positionals' = positionals /\ invalid' = invalid /\ parsed' = parsed
  BY DEF oldVars
<1>2. (\A n : EffectsOf(n)' <=> EffectsOf(n)) /\ \A n : Consumed(n)' <=> Consumed(n)
  <2>1. \A n : EffectsOf(n)' <=> EffectsOf(n)
    BY <1>1, ArgumentsStay DEF EffectsOf, ValueFrom
  <2> QED BY <1>1, <2>1, ArgumentsStay
<1>3. OldTyped' /\ Ends'
  BY <1>1 DEF OldInv, OldTyped, Ends
<1>4. Progress'
  BY <1>1, <1>2 DEF OldInv, Progress
<1> QED BY <1>3, <1>4 DEF OldInv

LEMMA OldInitially == Init => OldInv
<1> SUFFICES ASSUME Init PROVE OldInv
  OBVIOUS
<1>1. arguments \in Seq(Argument)
  BY LinesAssumption DEF Init
<1>2. /\ argIt = 1 /\ values = [o \in DOMAIN Declared |-> <<>>] /\ set = {}
      /\ positionals = <<>> /\ invalid = <<>> /\ parsed = "no"
  BY DEF Init, OldInit
<1>3. Len(arguments) \in Nat
  BY <1>1, Elements
<1>4. OldTyped
  BY <1>1, <1>2, <1>3 DEF OldTyped
<1>5. 1 .. 0 = {} /\ Cardinality({}) = 0
  BY FS_EmptySet
<1>6. EffectsOf(0)
  <2>1. PositionalsOf(0)
    BY <1>2, <1>5 DEF PositionalsOf, WordsTo
  <2>2. FlagsOf(0)
    BY <1>2, <1>5 DEF FlagsOf
  <2>3. ValuesOf(0)
    BY <1>2, <1>5 DEF ValuesOf, GivenTo
  <2>4. InvalidsOf(0)
    BY <1>2, <1>5 DEF InvalidsOf, InvalidTo
  <2> QED BY <2>1, <2>2, <2>3, <2>4, EffectParts
<1>7. Progress
  <2> SUFFICES ASSUME NEW n \in Nat, n + 1 = argIt PROVE ~Consumed(n + 1) /\ EffectsOf(n)
    BY DEF Progress
  <2>1. n = 0 /\ n + 1 = 1
    BY <1>2
  <2> QED BY <1>6, <2>1, FirstNotConsumed
<1> QED BY <1>2, <1>4, <1>7 DEF OldInv, Ends

LEMMA OldInductive == OldInv /\ [Next]_vars => OldInv'
<1> SUFFICES ASSUME OldInv, [Next]_vars PROVE OldInv'
  OBVIOUS
<1>1. CASE UNCHANGED oldVars
  BY <1>1, OldStays
<1>2. CASE OldNext
  <2>1. CASE Parsed
    BY <2>1, ParsedKeeps
  <2>2. ASSUME NEW a, \/ Positional(a) \/ Ignore(a) \/ LongValue(a) \/ LongFlag(a)
                      \/ UnknownLong(a) \/ ShortOption(a) \/ UnknownShort(a)
        PROVE  OldInv'
    BY <2>2, PositionalKeeps, IgnoreKeeps, LongValueKeeps, LongFlagKeeps, UnknownLongKeeps,
       ShortOptionKeeps, UnknownShortKeeps
  <2> QED BY <1>2, <2>1, <2>2 DEF OldNext
<1> QED BY <1>1, <1>2 DEF Next, WithLyra, vars, oldVars

LEMMA OldInvariant == Spec => []OldInv
  BY OldInitially, OldInductive, PTL DEF Spec

(* Every argument of avrasmopt has had its effect exactly once when the    *)
(* loop of parse() ends, for any options and any line.                     *)
THEOREM ArgumentsAlwaysAsGiven == Spec => []ArgumentsAsGiven
<1>1. OldInv => ArgumentsAsGiven
  <2> SUFFICES ASSUME OldInv, parsed = "yes" PROVE EffectsOf(Len(arguments))
    BY DEF ArgumentsAsGiven
  <2>1. argIt = Len(arguments) + 1 /\ Len(arguments) \in Nat
    BY Elements DEF OldInv, OldTyped, Ends
  <2> QED BY <2>1 DEF OldInv, Progress
<1> QED BY <1>1, OldInvariant, PTL

(* The vector is read behind its end exactly for the lines whose last      *)
(* argument is a long option that wants a value and is not one itself.     *)
THEOREM UndefinedAlwaysWithoutValue == Spec => []UndefinedOnlyWithoutValue
<1>1. OldInv => UndefinedOnlyWithoutValue
  <2> SUFFICES ASSUME OldInv, parsed # "no" PROVE
        (parsed = "undefined") <=>
            /\ arguments # <<>>
            /\ LongWithValue(arguments[Len(arguments)]) /\ ~Consumed(Len(arguments))
    BY DEF UndefinedOnlyWithoutValue, Last
  <2> DEFINE n == Len(arguments)
  <2>1. n \in Nat /\ (arguments = <<>> <=> n = 0) /\ argIt \in 1 .. n + 1
        /\ parsed \in {"no", "yes", "undefined"}
    BY Elements DEF OldInv, OldTyped
  <2>2. CASE parsed = "undefined"
    <3>1. argIt = n /\ LongWithValue(arguments[n])
      BY <2>2 DEF OldInv, Ends
    <3>2. n - 1 \in Nat /\ (n - 1) + 1 = n
      BY <2>1, <3>1
    <3>3. ~Consumed(n)
      BY <3>1, <3>2 DEF OldInv, Progress
    <3> QED BY <2>1, <2>2, <3>1, <3>3
  <2>3. CASE parsed = "yes"
    <3>1. argIt = n + 1
      BY <2>3 DEF OldInv, Ends
    <3>2. ~Consumed(n + 1)
      BY <2>1, <3>1 DEF OldInv, Progress
    <3> QED BY <2>1, <2>3, <3>2, NextConsumed
  <2> QED BY <2>1, <2>2, <2>3
<1> QED BY <1>1, OldInvariant, PTL
=============================================================================
