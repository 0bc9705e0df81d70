---------------------------- MODULE CommandLines ----------------------------
(***************************************************************************)
(* The three programs on any line of arguments, and what they make of it.  *)
(* The meaning of a line is stated over all its tokens at once, the        *)
(* parsers see one after the other.                                        *)
(***************************************************************************)
EXTENDS Programs, CommandLineParser, Brackets, SequencesExt

CONSTANTS
    Lines,  \* the lines of arguments
    Made    \* the files and directories that make puts into its rules

ASSUME LinesAssumption == \A l \in Lines : l \in Seq(Argument)
(* Make knows no file without a name; the second one is no name.           *)
ASSUME MadeAssumption == {"", "by source"} \cap Made = {}

(* avrasmopt.cc                                                            *)
AvrAsmOptions ==
    << [names |-> {"h", "help"}, hasValue |-> FALSE],
       [names |-> {"v", "verbose"}, hasValue |-> FALSE],
       [names |-> {"o", "output"}, hasValue |-> TRUE],
       [names |-> {"n", "linenumbers"}, hasValue |-> FALSE] >>

(* The calls of extractor in the rules for make that come with the manual, *)
(* with the target and the directory each is meant to fill.  $@ and the    *)
(* directory are the values of options, $< is the last word.               *)
Word(text)          == [dash |-> "", names |-> <<>>, assigned |-> FALSE, text |-> text]
Dashed(dash, names) == [dash |-> dash, names |-> names, assigned |-> FALSE, text |-> ""]
Dash(letter)        == Dashed("-", <<letter>>)
DashDash(name)      == Dashed("--", <<name>>)

Rule(call, target, dir) == [line |-> call, target |-> target, dir |-> dir]
ExtractRule(language, target, dir, source) ==
    Rule(<<Dash("l"), Word(language), Dash("a"), Word("A2"), Dash("o"), Word(target),
           Dash("d"), Word(dir), Word(source)>>, target, dir)
NoCalloutsRule(language, target, dir, source) ==
    Rule(<<Dash("l"), Word(language), Dash("a"), Word("A2"), DashDash("skip-callouts"),
           Dash("d"), Word(dir), Dash("o"), Word(target), Word(source)>>, target, dir)
HtmlRule(source) ==
    Rule(<<Dash("x"), DashDash("enable-block-comments"), DashDash("include-omitted"), Word(source)>>,
         "by source", ".extractor")

Languages == {"cpp", "java"}
Rules ==
    {ExtractRule(l, t, d, f) : l \in Languages, t, d, f \in Made} \cup
    {NoCalloutsRule(l, t, d, f) : l \in Languages, t, d, f \in Made} \cup
    {HtmlRule(f) : f \in Made}

vars == <<cliVars, programVars, oldVars>>

Init ==
    /\ program \in DOMAIN Tables /\ line \in Lines /\ arguments = line
    /\ CliInit /\ ProgramInit /\ OldInit

WithLyra == program # "avrasmopt" /\ UNCHANGED oldVars
Next ==
    \/ WithLyra /\ CliNext /\ UNCHANGED programVars
    \/ WithLyra /\ Main
    \/ program = "avrasmopt" /\ OldNext /\ UNCHANGED <<cliVars, programVars>>

Spec == Init /\ [][Next]_vars
(* A program that can go on does.                                          *)
FairSpec == Spec /\ WF_vars(Next)

-----------------------------------------------------------------------------
(* The tokens of the line.                                                 *)
LineTokens == FlattenSeq([i \in DOMAIN line |-> TokensOf(line[i])])

NamedBy(p, token) ==
    token.type = "option" /\ <<token.dash, token.text>> \in Parsers[p].names
Binds(token, bindings) ==
    \E p \in DOMAIN Parsers : NamedBy(p, token) /\ Parsers[p].binds \in bindings
HasValue == {"text", "list", "number"}

(* A word behind an option with a value is its value; another word is the  *)
(* source.                                                                 *)
IsValue(s, k)  == k > 1 /\ s[k].type = "argument" /\ Binds(s[k - 1], HasValue)
IsSource(s, k) == s[k].type = "argument" /\ ~IsValue(s, k)

(* The first n tokens mean something: known options, each but the lists    *)
(* once, with their values, and one source.                                *)
Sound(s, n) ==
    /\ \A k \in 1 .. n : s[k].type = "option" => Binds(s[k], {"flag"} \cup HasValue)
    /\ \A k \in 1 .. n : Binds(s[k], HasValue) =>
         /\ k < n /\ s[k + 1].type = "argument"
         /\ Binds(s[k], {"number"}) => s[k + 1].text \in Readable
    /\ \A j, k \in 1 .. n : j # k =>
         /\ ~(IsSource(s, j) /\ IsSource(s, k))
         /\ \A p \in DOMAIN Parsers :
              NamedBy(p, s[j]) /\ NamedBy(p, s[k]) => Parsers[p].binds = "list"

(* The parser accepts exactly the sound lines, and gives help exactly if a *)
(* sound part of the line ends where help is asked for, whatever follows.  *)
AcceptedExactly ==
    program # "avrasmopt" /\ answer # "parsing" =>
        /\ (answer = "accepted") <=> Sound(LineTokens, Len(LineTokens))
        /\ (answer = "help") <=>
             \E k \in DOMAIN LineTokens :
                Binds(LineTokens[k], {"help"}) /\ Sound(LineTokens, k - 1)

-----------------------------------------------------------------------------
HasName(token, names) == <<token.dash, token.text>> \in names
On(names) == \E k \in DOMAIN LineTokens : HasName(LineTokens[k], names)

(* Where the values of an option stand, and what they are.                 *)
ValuesAt(s, names) == {k \in DOMAIN s : IsValue(s, k) /\ HasName(s[k - 1], names)}
ValuesOn(names) == {LineTokens[k].text : k \in ValuesAt(LineTokens, names)}
Sources == {LineTokens[k].text : k \in {j \in DOMAIN LineTokens : IsSource(LineTokens, j)}}

(* The value of an option that is on the line and not empty, and all the   *)
(* values of a list, in their order.                                       *)
AskedFor(names, value, default) ==
    IF ValuesOn(names) \subseteq {""} THEN value = default ELSE ValuesOn(names) = {value}
AllOf(names, list) ==
    LET at == ValuesAt(LineTokens, names)
    IN  Len(list) = Cardinality(at) /\ \A k \in at : list[Place(k, at)] = LineTokens[k].text

(* The generator works with what is on the line, wherever it stands there, *)
(* and with the defaults for the rest; only Java can be found out from the *)
(* file.                                                                   *)
SettingsFromTheLine ==
    settings # NotMade =>
        /\ AskedFor(Short("o") \cup Long("output"), settings.outputFilePath, "by source")
        /\ Sources # {}
        /\ program = "extractor" =>
             /\ AskedFor(Short("d") \cup Long("subdir"), settings.subDirectoryName, ".extractor")
             /\ \/ AskedFor(Short("l") \cup Long("language"), settings.language, "cpp")
                \/ settings.language = "java" /\ Sources \subseteq JavaFiles
             /\ AllOf(Short("a") \cup Long("astyle"), settings.astyle)
             /\ IF ValuesOn(Long("indent")) \cap Positive = {} THEN settings.indent = "0"
                ELSE ValuesOn(Long("indent")) = {settings.indent}
             /\ settings.skipEmptyLines <=> ~On(Long("enable-empty-lines"))
             /\ settings.skipSnippetDefinitions <=> ~On(Long("enable-snippet-defs"))
             /\ settings.skipBlockComments <=> ~On(Long("enable-block-comments"))
             /\ settings.skipCallouts <=> On(Long("skip-callouts"))
             /\ settings.printMultiSnippetDelimiter <=> On(Long("print-multi-snippet-delim"))
             /\ settings.printExcludeMarker <=> ~On(Long("skip-exclude-marker"))
             /\ settings.highlightLines <=> ~On(Long("skip-highlighting"))
             /\ settings.includeOmitted <=> On(Long("include-omitted"))
             /\ settings.lineNumbers <=> On(Short("n") \cup Long("line-number"))

(* extractor returns success only if it has printed its help, or generated *)
(* for a source of the line that does not look like an option; axtractor   *)
(* at least has tried to.                                                  *)
SuccessIsTrue ==
    exit = "success" =>
        \/ answer = "help" /\ generated = "no"
        \/ /\ Sources \cap OptionWords = {} \/ program = "axtractor"
           /\ Sources \notin {{}, {""}}
           /\ generated \in {"written", "printed"} \/ (program = "axtractor" /\ generated = "failed")

(* The rules of the makefiles are accepted, and extractor writes the       *)
(* target and the directory that make and the document look for, whatever  *)
(* they are called; for the rules without a target it writes no file.      *)
RulesReachTheirTarget ==
    program = "extractor" => \A r \in Rules : line = r.line =>
        /\ answer \in {"parsing", "accepted"}
        /\ settings # NotMade =>
             settings.outputFilePath = r.target /\ settings.subDirectoryName = r.dir
        /\ generated = "written" => r.target # "by source"

(* Every line is answered: the loops of both parsers end.                  *)
LinesAreAnswered == <>(exit # "none" \/ parsed # "no")

-----------------------------------------------------------------------------
(* The values of avrasmopt's long option: what stands behind it, be it     *)
(* another option.  In a row of such options every other one is a value.   *)
LongWithValue(a) ==
    IsLong(a) /\ \E o \in DOMAIN Declared : LongName(a) \in Declared[o].names /\ Declared[o].hasValue
Consumed(i) ==
    \E j \in 1 .. i - 1 :
        /\ \A k \in j .. i - 1 : LongWithValue(arguments[k])
        /\ j > 1 => ~LongWithValue(arguments[j - 1])
        /\ (i - j) % 2 = 1

(* What it takes at a position.                                            *)
Named(a, o) == LongName(a) \in Declared[o].names
Letter(a, o) == IsShort(a) /\ OptLetter(a) \in Declared[o].names
WordAt(i) == IsWord(arguments[i]) /\ ~Consumed(i)
SetsAt(o, i) ==
    LET a == arguments[i]
    IN  /\ ~Consumed(i) /\ ~Declared[o].hasValue
        /\ (IsLong(a) /\ Named(a, o)) \/ (Letter(a, o) /\ ~HasAttached(a))
ValueAt(o, i) ==
    LET a == arguments[i]
    IN  /\ ~Consumed(i) /\ Declared[o].hasValue
        /\ (IsLong(a) /\ Named(a, o)) \/ (Letter(a, o) /\ HasAttached(a))
InvalidAt(i) ==
    /\ ~Consumed(i) /\ (IsLong(arguments[i]) \/ IsShort(arguments[i]))
    /\ \A o \in DOMAIN Declared : ~SetsAt(o, i) /\ ~ValueAt(o, i)

(* The effects of the first n arguments: each of them has one.             *)
EffectsOf(n) ==
    LET words == {i \in 1 .. n : WordAt(i)}
    IN  /\ Len(positionals) = Cardinality(words)
        /\ \A i \in words : positionals[Place(i, words)] = arguments[i].text
        /\ set = {o \in DOMAIN Declared : \E i \in 1 .. n : SetsAt(o, i)}
        /\ \A o \in DOMAIN Declared :
             LET given == {i \in 1 .. n : ValueAt(o, i)}
             IN  /\ given = {} => values[o] = <<>>
                 /\ \A i \in given : (\A j \in given : j <= i) =>
                      values[o] = <<IF IsLong(arguments[i]) THEN arguments[i + 1]
                                    ELSE Attached(arguments[i])>>
        /\ Len(invalid) = Cardinality({i \in 1 .. n : InvalidAt(i)})

(* When avrasmopt has read its line, every argument has had its effect,    *)
(* once: a word is positional, an option set, a value taken, or it is      *)
(* reported as invalid.                                                    *)
ArgumentsAsGiven == parsed = "yes" => EffectsOf(Len(arguments))

(* avrasmopt reads behind its arguments only if the last one is an option  *)
(* that wants a value, not for any other line.                             *)
UndefinedOnlyWithoutValue ==
    parsed # "no" =>
        ((parsed = "undefined") <=>
            /\ arguments # <<>>
            /\ LongWithValue(Last(arguments)) /\ ~Consumed(Len(arguments)))

(* The types of lyra's variables and of what main() makes of them.         *)
TypeOK ==
    /\ CliTypeOK
    /\ generated \in {"no", "written", "printed", "failed"}
    /\ exit \in {"none", "success", "failure", "aborted"}

(* The documentation's rules for make are lines extractor accepts.         *)
DocumentedRules == program = "extractor" => answer \in {"parsing", "accepted"}
=============================================================================
