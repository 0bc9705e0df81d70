-------------------------- MODULE CommandLineParser -------------------------
(***************************************************************************)
(* The command line parser of avrasmopt (extract/commandlineparser.cc with *)
(* commandlineoption.cc) and its main function.  It goes over the          *)
(* arguments once and knows only two forms: a long name, whose value is    *)
(* the next argument, and one letter with its value attached.              *)
(***************************************************************************)
EXTENDS Naturals, Sequences, FiniteSetsExt

CONSTANTS
    Declared   \* the options: their names and whether they have a value

ASSUME DeclaredAssumption ==
    /\ Declared \in Seq([names : SUBSET STRING, hasValue : BOOLEAN])
    /\ \A o, q \in DOMAIN Declared : o # q => Declared[o].names \cap Declared[q].names = {}

VARIABLES
    arguments,    \* as CliParser's line
    argIt,        \* the next argument
    values,       \* of the options with a value; <<>> if there is none
    set,          \* the options without a value that are set
    positionals,
    invalid,      \* the names of the invalid options
    parsed        \* "no", "yes", or "undefined" behind the last argument

oldVars == <<arguments, argIt, values, set, positionals, invalid, parsed>>

-----------------------------------------------------------------------------
IsWord(a) == a.dash = "" /\ a.text # ""
IsLong(a) == a.dash = "--"
(* "-" alone is nothing, as an empty argument is.  In "-=v" the letter is  *)
(* the "=".                                                                *)
NoLetter(a) == a.names = <<"">>
IsShort(a) == a.dash = "-" /\ (NoLetter(a) => a.assigned)
OptLetter(a) == IF NoLetter(a) THEN "=" ELSE a.names[1]

(* What follows the letter: more letters, or "=" and more, or any text     *)
(* behind a "=".                                                           *)
Attached(a) ==
    [letters |-> Tail(a.names), assigned |-> a.assigned /\ ~NoLetter(a), text |-> a.text]
HasAttached(a) == IF NoLetter(a) THEN a.text # "" ELSE Len(a.names) > 1 \/ a.assigned
(* "--o=v" is one unknown name.                                            *)
LongName(a) == IF a.assigned THEN "name=value" ELSE a.names[1]

(* std::find by name or letter: the first option that has it.              *)
Options(name) == {o \in DOMAIN Declared : name \in Declared[o].names}

Reads(a) == parsed = "no" /\ argIt <= Len(arguments) /\ a = arguments[argIt]

Positional(a) ==
    /\ Reads(a) /\ IsWord(a)
    /\ argIt' = argIt + 1 /\ positionals' = Append(positionals, a.text)
    /\ UNCHANGED <<arguments, values, set, invalid, parsed>>

Ignore_Waits(a) ==
    /\ Reads(a) /\ ~IsWord(a) /\ ~IsLong(a) /\ ~IsShort(a)
    /\ UNCHANGED oldVars

Ignore(a) ==
    /\ Reads(a) /\ ~IsWord(a) /\ ~IsLong(a) /\ ~IsShort(a)
    /\ argIt' = argIt + 1
    /\ UNCHANGED <<arguments, values, set, positionals, invalid, parsed>>

Invalidate(name) ==
    /\ invalid' = Append(invalid, name)
    /\ UNCHANGED <<arguments, values, set, positionals, parsed>>

(* The next argument is the value, whatever it is.  Behind the last one    *)
(* there is none: the program reads past the end of the vector.            *)
TakeNext_NotConsumed(o) ==
    IF argIt = Len(arguments) THEN parsed' = "undefined" /\ UNCHANGED <<argIt, values>>
    ELSE /\ argIt' = argIt + 1 /\ values' = [values EXCEPT ![o] = <<arguments[argIt + 1]>>]
         /\ UNCHANGED parsed
TakeNext_Early(o) ==
    IF argIt + 1 >= Len(arguments) THEN parsed' = "undefined" /\ UNCHANGED <<argIt, values>>
    ELSE /\ argIt' = argIt + 2 /\ values' = [values EXCEPT ![o] = <<arguments[argIt + 1]>>]
         /\ UNCHANGED parsed

TakeNext(o) ==
    IF argIt = Len(arguments) THEN parsed' = "undefined" /\ UNCHANGED <<argIt, values>>
    ELSE /\ argIt' = argIt + 2 /\ values' = [values EXCEPT ![o] = <<arguments[argIt + 1]>>]
         /\ UNCHANGED parsed

LongValue(a) ==
    /\ Reads(a) /\ IsLong(a)
    /\ \E o \in Options(LongName(a)) :
         o = Min(Options(LongName(a))) /\ Declared[o].hasValue /\ TakeNext(o)
    /\ UNCHANGED <<arguments, set, positionals, invalid>>

LongFlag(a) ==
    /\ Reads(a) /\ IsLong(a)
    /\ argIt' = argIt + 1
    /\ \E o \in Options(LongName(a)) :
         /\ o = Min(Options(LongName(a))) /\ ~Declared[o].hasValue
         /\ set' = set \cup {o}
    /\ UNCHANGED <<arguments, values, positionals, invalid, parsed>>

UnknownLong(a) ==
    /\ Reads(a) /\ IsLong(a) /\ Options(LongName(a)) = {}
    /\ argIt' = argIt + 1 /\ Invalidate(LongName(a))

(* A letter takes a value if and only if one is attached; the letter of a  *)
(* wrong one is invalid.                                                   *)
ShortOption(a) ==
    /\ Reads(a) /\ IsShort(a)
    /\ argIt' = argIt + 1
    /\ \E o \in Options(OptLetter(a)) :
         /\ o = Min(Options(OptLetter(a)))
         /\ IF Declared[o].hasValue # HasAttached(a) THEN Invalidate(OptLetter(a))
            ELSE /\ values' = IF HasAttached(a) THEN [values EXCEPT ![o] = <<Attached(a)>>] ELSE values
                 /\ set' = IF HasAttached(a) THEN set ELSE set \cup {o}
                 /\ UNCHANGED <<arguments, positionals, invalid, parsed>>

UnknownShort(a) ==
    /\ Reads(a) /\ IsShort(a) /\ Options(OptLetter(a)) = {}
    /\ argIt' = argIt + 1 /\ Invalidate(OptLetter(a))

(* parse() returns true whatever it has met, and so does the program.      *)
Parsed ==
    /\ parsed = "no" /\ argIt > Len(arguments)
    /\ parsed' = "yes" /\ UNCHANGED <<arguments, argIt, values, set, positionals, invalid>>

OldInit ==
    /\ argIt = 1
    /\ values = [o \in DOMAIN Declared |-> <<>>] /\ set = {}
    /\ positionals = <<>> /\ invalid = <<>>
    /\ parsed = "no"

OldNext ==
    \/ \E i \in DOMAIN arguments :
         LET a == arguments[i]
         IN  i = argIt /\ \/ Positional(a) \/ Ignore(a) \/ LongValue(a) \/ LongFlag(a)
                          \/ UnknownLong(a) \/ ShortOption(a) \/ UnknownShort(a)
    \/ Parsed
=============================================================================
