------------------------------ MODULE CliParser -----------------------------
(***************************************************************************)
(* The command line parser of extractor and axtractor: lyra's cli_parser   *)
(* with its token iterator (extract/include/lyra).  An argument is what    *)
(* the shell hands over; the iterator turns it into tokens, and in every   *)
(* round the first parser that is not used up and wants the next token     *)
(* takes it, with the following token as its value if it needs one.        *)
(***************************************************************************)
EXTENDS Naturals, Sequences, FiniteSetsExt

CONSTANTS
    Names,     \* names of options and single letters, without their dashes
    Words,     \* other arguments and values
    Readable,  \* the words that start with a number an int can hold
    Tables     \* the parsers of each program, in the order they are asked

(* An argument is a word, or one or two dashes with a long name or with    *)
(* single letters, and perhaps a value behind "=" or a blank.              *)
Argument ==
    [dash : {""}, names : {<<>>}, assigned : {FALSE}, text : Words \cup {""}] \cup
    [dash : {"-", "--"}, names : Seq(Names) \ {<<>>}, assigned : BOOLEAN, text : Words \cup {""}]
(* A letter or a long name with its dash, or a word.                       *)
NoName == "several letters"
Token ==
    [type : {"option"}, dash : {"-", "--"}, text : Names \cup {NoName}] \cup
    [type : {"argument"}, dash : {""}, text : Words \cup {""}]
Binding == {"flag", "text", "list", "number", "source", "help"}
Parser  == [names : SUBSET ({"-", "--"} \X Names), binds : Binding]

ASSUME TablesAssumption ==
    /\ Readable \subseteq Words
    /\ Tables \in [DOMAIN Tables -> Seq(Parser)]
    \* no name has two parsers, and one at most is the source, which has none
    /\ \A t \in DOMAIN Tables : \A p, q \in DOMAIN Tables[t] : p # q =>
         /\ Tables[t][p].names \cap Tables[t][q].names = {}
         /\ Tables[t][p].binds # "source" \/ Tables[t][q].binds # "source"
    /\ \A t \in DOMAIN Tables : \A p \in DOMAIN Tables[t] :
         Tables[t][p].binds = "source" => Tables[t][p].names = {}

VARIABLES
    program,  \* whose table is used
    line,     \* the arguments
    tokens,   \* the iterator: the argument it is at, and its tokens left
    taken,    \* the values each parser has taken
    answer    \* "parsing", then what parse() returns

cliVars == <<program, line, tokens, taken, answer>>

Parsers == Tables[program]
Answers == {"parsing", "accepted", "help", "unrecognized", "no value", "unreadable"}

-----------------------------------------------------------------------------
OptionToken(dash, name) == [type |-> "option", dash |-> dash, text |-> name]
ArgumentToken(text)     == [type |-> "argument", dash |-> "", text |-> text]

(* The tokens of one argument.  "-ab=v" is one unknown option; "-abc" is   *)
(* three.  An empty argument is none.                                      *)
TokensOf(a) ==
    IF a.dash = "" THEN IF a.text = "" THEN <<>> ELSE <<ArgumentToken(a.text)>>
    ELSE IF a.assigned
    THEN <<OptionToken(a.dash, IF Len(a.names) = 1 THEN a.names[1] ELSE NoName),
           ArgumentToken(a.text)>>
    ELSE [i \in DOMAIN a.names |-> OptionToken(a.dash, a.names[i])]

(* loadBuffer(): the iterator at the first argument from i on that has     *)
(* tokens, or at the end.                                                  *)
Loaded(i) ==
    LET full == {j \in i .. Len(line) : TokensOf(line[j]) # <<>>}
        it   == IF full = {} THEN Len(line) + 1 ELSE Min(full)
    IN  [it |-> it, buffer |-> IF full = {} THEN <<>> ELSE TokensOf(line[it])]

(* operator++                                                              *)
Advanced(t) ==
    IF Len(t.buffer) >= 2 THEN [t EXCEPT !.buffer = Tail(@)]
    ELSE Loaded(IF t.it <= Len(line) THEN t.it + 1 ELSE t.it)

HasToken(t) == t.buffer # <<>>
Next1(t)    == t.buffer[1]

-----------------------------------------------------------------------------
(* A list takes any number of values, every other parser one.              *)
Free_Always(p) == TRUE

Free(p) == Parsers[p].binds = "list" \/ taken[p] = <<>>

(* isMatch() for options, arg::parse() for the source file.                *)
Wants(p, token) ==
    IF Parsers[p].binds = "source" THEN token.type = "argument"
    ELSE token.type = "option" /\ <<token.dash, token.text>> \in Parsers[p].names

Takers(token) == {p \in DOMAIN Parsers : Free(p) /\ Wants(p, token)}

(* Parser p takes the value and the iterator goes on behind it.            *)
Take(p, value, t) ==
    /\ taken' = [taken EXCEPT ![p] = Append(@, value)]
    /\ tokens' = Advanced(t)
    /\ UNCHANGED <<program, line, answer>>

Answer(a) == answer' = a /\ UNCHANGED <<program, line, tokens, taken>>

(* The parser asked next: no round is made without a token.                *)
Asked(p, bindings) ==
    /\ answer = "parsing" /\ HasToken(tokens)
    /\ LET takers == Takers(Next1(tokens)) IN takers # {} /\ p = Min(takers)
    /\ Parsers[p].binds \in bindings

SetFlag(p)   == Asked(p, {"flag"}) /\ Take(p, "", tokens)
SetSource(p) == Asked(p, {"source"}) /\ Take(p, Next1(tokens).text, tokens)

(* The value is the next token; an option is none.                         *)
SetValue_Any(p) ==
    /\ Asked(p, {"text", "list", "number"})
    /\ LET value == Advanced(tokens)
       IN  IF ~HasToken(value) THEN Answer("no value")
           ELSE Take(p, Next1(value).text, value)

SetValue(p) ==
    /\ Asked(p, {"text", "list", "number"})
    /\ LET value == Advanced(tokens)
       IN  IF ~(HasToken(value) /\ Next1(value).type = "argument") THEN Answer("no value")
           ELSE IF Parsers[p].binds = "number" /\ Next1(value).text \notin Readable
           THEN Answer("unreadable")
           ELSE Take(p, Next1(value).text, value)

(* help() ends the parsing at once, whatever comes behind it.              *)
AskHelp(p) == Asked(p, {"help"}) /\ Answer("help")

Unrecognized ==
    /\ answer = "parsing" /\ HasToken(tokens) /\ Takers(Next1(tokens)) = {}
    /\ Answer("unrecognized")

(* No parser has a minimum, so nothing is missing at the end.              *)
Accept == answer = "parsing" /\ ~HasToken(tokens) /\ Answer("accepted")

CliInit ==
    /\ tokens = Loaded(1)
    /\ taken = [p \in DOMAIN Parsers |-> <<>>]
    /\ answer = "parsing"

CliNext ==
    \/ \E p \in DOMAIN Parsers : SetFlag(p) \/ SetSource(p) \/ SetValue(p) \/ AskHelp(p)
    \/ Unrecognized
    \/ Accept

-----------------------------------------------------------------------------
(* The iterator stands in an argument with tokens or at the end, and every *)
(* parser but a list has taken one value at most.                          *)
CliTypeOK ==
    /\ program \in DOMAIN Tables
    /\ line \in Seq(Argument)
    /\ tokens \in [it : Nat \ {0}, buffer : Seq(Token)]
    /\ taken \in [DOMAIN Parsers -> Seq(Words \cup {""})]
    /\ answer \in Answers
    /\ tokens.it \in 1 .. Len(line) + 1
    /\ (tokens.buffer = <<>>) <=> tokens.it = Len(line) + 1
    /\ \A p \in DOMAIN Parsers : Parsers[p].binds = "list" \/ Len(taken[p]) <= 1
=============================================================================
