# Verification of extractor

`extractor` reads a source file whose comments carry marks (`//[ name`, `//]`,
`// <1> text`, `//*`, `//-`), formats it, and writes one AsciiDoc file per marked
snippet together with a *snippet database* that lists them. It is called by `make`
for every source that has changed. This directory holds TLA+ models of the
program, TLC configurations that check them on small instances, and TLAPS proofs
for every size.

`PROJECT.json` lists components, runs, the lines of code each definition stands
for, the disagreements between code and manual, the hazards, and the theorems.

## The system

| component | state | operations | where |
|---|---|---|---|
| parser | kept lines, snippets, callouts, highlighted lines; while parsing two stacks, the maps of excludes and texts, the comment status | `parse()`, queries `isLineExcluded`, `excludeText`, `containsLine` | `extract/cppextractor.{h,cc}` |
| snippet file generator | its option members; in the rendering loop the span, the line, the block so far, callout and line counters | `generate()`, `parseOnly()`, setters | `extract/asciidocsnippetfilegenerator.{h,cc}` |
| build | time stamps, formatted copies, databases, directories and snippet files, one extractor process per outdated target | the rules `%.cc.extract` etc., `clean` | `doc/src/Makefile.include`, `doc/src/example*/Makefile` |
| snippet database reader | none, a token stream | `operator<<`, `operator>>`, `isSnippet`, `snippets` | `extract/cppextractor.cc`, `libwm/algorithm.{h,cc}` |
| assembler extractor | stack of open functions, list of functions, all lines | `AsmExtractor::parse()`, `AsciidocAsmGenerator::generate()` | `extract/asm*`, `asciidocasm*`, `axtractor.cc` |
| extractor command line | local variables of `main()` | declared options, checks of the source, choice of the language, settings, exit status | `extract/extractor.cc`, `extract/axtractor.cc` |
| lyra (vendored) | the token iterator, the values of each parser | `cli_parser::parse()` as the programs use it | `extract/include/lyra` |
| CommandLineParser | options, positionals, invalid options | `parse()` | `extract/commandline*`, used by `avrasmopt.cc` |
| AStyle, FileMagic | options | wrappers of libraries | `extract/astyle.*`, `libwm/filemagic.*` |
| Tracer and helpers | trace level, nesting | logging | `libwm` |
| UnixSignalHandler, boost.process, folly | | unused by the programs, or vendored | `libwm` |

How they interact: `main()` sets the options of a generator and calls
`generate()`. The generator writes the formatted source to `<source>.tmp`, lets its
parser parse that copy, removes it, writes the database, makes the output
directory, and renders each snippet from the parser's results through its query
functions. The generator indexes the kept lines with the numbers in the spans and
does not check them. Several extractors run at the same time under `make -j`; they
share the formatted copy of a source (one per source, not per target) and the
directory of the snippets. `make` knows of a run only its exit status and the time
stamp of the database.

What is hard here:

* **one pass with several counters and stacks** – spans, callouts and highlights are
  numbers of *kept* lines, and what is kept depends on options and on every mark;
  the stack of section marks is shorter than the stack of snippets, yet both are
  popped at each end; a snippet can be continued several times and excludes are
  collected over its parts;
* **a rendering loop with flags carried from line to line** – markers for excluded
  stretches, callout numbers that are computed twice, highlight numbers;
* **the order of file operations** – the target of `make` is written *before* the
  work is finished; check and creation of the directory are two steps; the copy is
  shared; any step can fail or the process can crash; of most streams nobody asks whether
  they could be opened, and of none whether it took what was written;
* **readers without a net** – the database reader ignores the state of its stream but at
  one place, and goes on in the middle of a record after an error; both command line
  parsers take arguments apart while they go over them.

What makes each component correct:

* parser: exactly the right lines are kept; every snippet consists of the spans
  between its starts and their matching ends; spans nest and lie in the contents;
  callouts are filed under the line that carries them; the innermost section mark
  governs; `parse()` succeeds exactly on well-nested files and is terminated only by
  what it does not catch;
* generator: a snippet file shows exactly the lines between the marks that no
  subtracted snippet contains; one marker per excluded stretch, at its place; callouts in block
  and list agree; highlight numbers point to the highlighted lines; no access is
  out of range;
* build: a target whose extractor succeeded is up to date and has all its snippets from the
  present text, but for what could not be written and was not reported; no copies are left
  behind; `make` catches up after any failure;
* database reader: what was written is read back as far as it has reached the file,
  nothing else is found, and reading ends;
* assembler extractor: functions are those between matching marks and nest; each file
  shows the lines of its function; no access is out of range;
* command line: exactly the lines that mean something are accepted, every setting is the one
  on the line or its default, and success is reported only after it.

## The modules

| module | what it is |
|---|---|
| `CppExtractor` | the parser: one action per kind of line, type invariant, safety invariants |
| `Brackets` | which starts and ends in a file belong together, without a stack; what both parsers are compared with |
| `CppExtractorReference` | what the marks of a file mean, stated over the whole file; the properties that compare the parser with it |
| `DocumentedMarkers` | statements of the manual that the parser does not keep |
| `AsciidocSnippetFileGenerator` | the generator, on top of the parser (`EXTENDS CppExtractor`), and its refinement mapping to `SnippetGeneration` |
| `SnippetGeneration` | the abstract generation: what one run promises its caller |
| `RenderedSnippets` | what the rendered files show, stated from the marks in the source (`EXTENDS` the generator and the reference) |
| `SnippetDatabase` | the reader of a database, on any tokens |
| `WrittenDatabases` | the databases the generator writes, cut off anywhere, and what is read of them (`EXTENDS SnippetDatabase`) |
| `CliParser` | lyra: the token iterator and the loop of `cli_parser::parse()` |
| `Programs` | `main()` of `extractor` and `axtractor` (`EXTENDS CliParser`) |
| `CommandLineParser` | the parser of `avrasmopt` |
| `CommandLines` | the three programs on any line of arguments (`EXTENDS Programs, CommandLineParser`), and what a line means |
| `AsmExtractor` | the parser of the assembler extractor |
| `AsciidocAsmGenerator` | its generator (`EXTENDS AsmExtractor`), type and safety invariants |
| `RenderedFunctions` | what the functions of an assembler file are and what their files show, stated over the whole file |
| `ExtractorBuild` | `make`, the author and any number of concurrent extractors over shared files |
| `BuildProperties` | what a build promises |
| `CountingProofs` | facts about numbers, finite sets, brackets and flattened sequences that the proofs cite |
| `CppExtractorProofs`, `ReferenceProofs`, `GeneratorProofs`, `AsmProofs`, `BuildProofs`, `DatabaseProofs`, `CommandLineProofs` | the theorems |
| `SampleLines`, `MCCppExtractor`, `MCGenerator`, `MCAsm`, `MCBuild`, `MCDatabase`, `MCCommandLines` | instances for TLC |

A definition with a suffix, like `Closed_LastSpan`, is a broken variant of the
definition after it, of the kind a slip in the code would produce. It takes part in
no run; `PROJECT.json` ("mutants") names the property that notices it.

### Parser: `CppExtractor`

A line is a record of the marks that the regular expressions of `parse()` find in it
(`LineShape`): characters, columns and the texts of callouts are left out, and a kept
line is its position in the file. So the Lua variants of the expressions need no
model of their own. The variables are the members and locals of the code with their
names: `mFileContents`, `mCallOuts`, `mSnippets`, `mHighlightedLines`, `snippets` and
`sectionHighlight` (stacks, top at the end), `excludes`, `excludeTexts`, `status`,
`lineNumber`; `fileLineNumber` is `Len(input)`. `pc` is `opening`, `reading`, or the
outcome: `ok`, `failed`, or `aborted` for an exception that nobody catches or a crash.

Each iteration of the loop is one action, chosen by the first branch of the code that
applies: `SkipEmptyLine`, `OmitLine`, `StartBlockComment`, `SkipBlockComment`,
`ReadCallOut`, `CallOutOverflow` (`std::stoi` throws), `StartSnippet`, `StartUnnamed`,
`EndSnippet`, `UnmatchedEnd`, `KeepCode`. The file may end after every line (`Finish`,
`WrongNesting`). A colon as the last word of a start makes the code use the word after
the last one; the model takes the program to abort there or to read any text.

### Generator: `AsciidocSnippetFileGenerator`

Parsing is interleaved step by step (`Parse`). Then the database is written, the
directory made, and each snippet rendered in the order of the map, one action per
line: `OpenSnippetFile`, `EnterSpan`, `PrintLine`, `ExcludeLine`, `LeaveSpan`,
`CloseSnippetFile`. The locals of the loop have their names (`showMarker` is
`printExcludeMarkerForLine`). A rendered line is the kept line it comes from with the
callout number put into it, a marker with its text, or a delimiter. Caption, block
attributes, indentation and the second AStyle pass are layout and left out. Opening
the database, the directory or a file may fail; an opened stream is taken to hold what is put
into it here, the build model has that fail too.

`MarkerPerStretch` compares the markers of a block with the stretches of excluded lines: as
many, in the same order, each one behind as many shown lines as stand before the stretch, with
the text of the first subtracted snippet that contains the stretch's first line (`TextFor`).
Two adjacent subtracted snippets are one stretch, so the text of the second one is not printed.

`SnippetGeneration` is the same without lines, spans and loops: once the source is
understood it is settled which source lines each snippet has to show (`wanted`); the
database lists all snippets or none; each file is shown as a whole; a run may give up
at any time, but succeeds only when every snippet has been shown. The mapping: `Wanted` are the lines of the spans without the excluded ones,
`Rendered` what the finished files show. `GenerationIsKept` says that every step of parser
and generator is a step of it or changes nothing of it.

### Database: `SnippetDatabase`, `WrittenDatabases`

The database is a sequence of tokens, since writer and reader put and skip blanks
between all of them. `rpc` is the place in `snippets()`, `operator>>(Snippet)` or one of
the container operators at which the next token is read. `stream` is the state of the
stream: after the end of the file a read leaves its target as it is, so `token` may still
hold an earlier word; after a word that should have been a number the stream stays
`bad`. An operator that meets the wrong token returns, and the loop of `snippets()` goes
on behind it, inside the record. The file is looked at only if its first line matches the
expression of `isSnippet()`, which for a written line the model leaves open.
`WrittenDatabases` writes snippets in the order of the map, as `operator<<` does, and lets
any number of tokens reach the file: the stream is flushed per snippet and when its
buffer is full.

### Command line: `CliParser`, `Programs`, `CommandLineParser`, `CommandLines`

An argument is a word, or one or two dashes with letters or a long name, and perhaps a
value behind `=`; lyra's iterator makes tokens of it. `tokens` is that iterator, the
argument it is at and its tokens left; `taken` the values each bound variable has got. One
action is one round of `cli_parser::parse()`: the first parser that is not used up and
wants the token takes it (`SetFlag`, `SetSource`, `SetValue`, `AskHelp`), or parsing
ends (`Unrecognized`, `Accept`). Declared options are tables (`ExtractorTable`,
`AxtractorTable`). `Programs` goes on with the checks and settings of `main()`; whether the
file exists, its MIME type, and the outcome of `generate()` come from outside. Three
details of the code that are in the model: `text/x-java` never makes the language Java
(`extractor.cc:202-211`), only the name of the file does; the optional MIME type is
dereferenced before it is checked (`:199`); a directory as source is reported and
then used. `CommandLineParser` is the older parser of `avrasmopt`: one letter with its
value attached, or a long name with the value behind it, read without a check for the end. In
`-=v` it takes the `=` for the letter.

`axtractor` ignores the result of `generate()` (`axtractor.cc:75`), so its success means only
that it has tried; `SuccessIsTrue` says so.

`Rules` are the calls of `extractor` in `Makefile.include`, one operator for each of the three
forms, over whatever names `make` puts in for `$@`, `$<` and the directories (`Made`). Of these
names it is only assumed that none is empty (`MadeAssumption`; the other word excluded there
is the model's sign for a name taken from the source). The rules of the examples
(`example02/Makefile:32`, `:35`, `example01/Makefile:29`) are not among them.

### Assembler extractor: `AsmExtractor`, `AsciidocAsmGenerator`

The expressions of `AsmExtractor::parse()` are anchored at three different directives, so
a line is one of start (`.type f, @function`), end (`.size`), name (`;= n`) or code. An
end ends the function on top of the stack whatever symbol it gives, which is why the
model's ends have none. `mFunctions` and `mOpenFunctions` are those of the code; at the
end of the file `all` is added and what is still open is dropped. The generator writes
the list and then a file per function (`WriteFunction`); a file is the set of the lines it
shows. Of `all` this is every line but the first: the range of the output loop
(`asciidocasmgenerator.cc:84`) begins behind the line of a start mark, and `all` has none; the
property says it as the code has it. A failure to open the list is traced only, of a directory or function file it ends
`generate()`, and `main()` returns success in each case.

### Build: `ExtractorBuild`

The steps of `generate()` that touch files, one process per target: `CreateTmp`,
`WriteTmp`, `ParseTmp`/`ParseFails`, `RemoveTmp`, `WriteDatabase`, `CheckDirectory`,
`CreateDirectory`/`CreateDirectoryFails`, `WriteSnippet`, `OpenSnippetFails`, `Return`,
and `Crash` at every step. A process ends as `ok`, `failed` (an error status of `main()`) or `crashed`; `make`
takes the last two alike, the properties do not. `tmp` is the text at the path of the copy; a process that
has it open (`writing`) writes into a file without a path once another process has
removed it. The text is a version of the source: the parser appears only as "refuses
the text" or "finds these snippets", since the models above say what it does.

`make` considers each target once, in any order, starts an extractor for those that
are not newer than their source, starts no more after an error, and waits for those
that run. The rules have no `.DELETE_ON_ERROR`, so a target that was written by a
failing extractor stays. The author edits sources and calls `make clean` between two
calls of `make`, never during one: an edit while an extractor runs defeats the time
stamps of `make` itself.

What may go wrong with a target is given by `Failures`. Opening the copy (`"copy"`) is not
checked: what is at its path stays there and is parsed, the stale copy of a failed run for
instance; with nothing there, or if the copy cannot be opened for reading either, `parse()`
fails. Writing (`"write"`) is not checked either: a copy is then cut to one of its `Beginnings`, a
database or snippet file is `Torn`, and the extractor goes on and returns success. A database that
cannot be opened is only traced. `lost` is a history variable and remembers which of these
silent failures an extractor has had. The program has nothing like it, so `SuccessMeansComplete`
says exactly what a status of success is worth: everything is complete but what is in `lost`, and
nothing is promised if the copy is. That a directory or a snippet file cannot be made is
reported.

Abstractions of the build: a snippet file is written in one step, wholly or torn, and the
snippets in any order; nobody reads the files while they are written. A crash in the middle
of a file leaves what a failed writing and a crash after it leave. An opened copy can be read to its
end; a source that cannot be read is a copy that is cut. For a language of `none` or `lua` the
code parses the source itself and not the copy; no rule of the repository asks for these.

## What TLC checks

| run | instance | what it shows |
|---|---|---|
| `parsing` | every file of up to 5 lines over 9 kinds of marks, definition lines kept or not; every file of up to 4 lines over 11 kinds, comments, omitted and empty lines, callouts, malformed starts, under six settings | types; exactly the right lines are kept, in order; spans lie in the contents and nest; snippets are those of matching marks; section marks follow the nesting; callouts stay on their line; success exactly on well-nested files, with all excludes and no others; a callout number too large aborts the program at its line, and nothing else does but a colon at the end of a start |
| `rendering` | every file of up to 6 lines over 5 kinds, definition lines kept or not, and over 5 kinds with two snippets that subtract each other, with and without a text; two settings of the generator | the files show the marked lines, one marker per stretch at its place and with its text, matching callouts, right highlight numbers where nothing is left out, all accesses in range; the generator implements `SnippetGeneration` |
| `database` | up to two snippets, with names and words like the punctuation, cut off behind any token | the readable records that have arrived are found, in order, and nothing else; unless the file ends within a list, every step brings the reader closer to its end and reading ends |
| `command_line` | every line of up to three of 18 arguments for each of the three programs, each option of `extractor` with a word or a number, and the calls in `Makefile.include`, with every file and directory of the instance put in | exactly the sound lines are accepted; every setting is that of the line or its default; the rules reach their targets; success is true; every argument of `avrasmopt` has its effect once; undefined reads only where a last option lacks its value; every line is answered |
| `assembler` | every file of up to 6 lines over two starts, two names, ends and code, with equal names and a function called `all` | functions are those between matching marks, with their last name; they nest; each file shows its function without the naming lines; all accesses in range |
| `build` | two sources, two targets, one directory; two good texts and one that cannot be parsed; one target with all failures | type and process invariant; success means complete but for what was silently lost; no copy left behind; an extractor fails only because of its text, of the file system, or of another one that has made the directory |
| `catch_up` | the same; one target may crash or find its copy closed to it; with fairness | once nothing disturbs the extractors any more, `make` brings all targets up to date again and again, whatever crashes have left behind |
| `doc_scope`, `doc_highlight` | files of a few lines | the manual says otherwise, see below |
| `doc_command` | the calls of `extractor` in the manual | they are rejected |
| `doc_build`, `doc_shared` | two targets of two sources, or of one | a successful `make` with missing or empty snippets |

**Bounds.** The only bounds are the kinds and lengths of files (`Samples`), of databases
and of lines of arguments, and the sets of targets, versions and names. Five or six lines
are enough for two nested snippets, a continuation, a name used twice, a stray end and a
subtracted snippet in two parts; with six lines and kept definitions a snippet has two
excluded stretches, the smallest case in which a marker flag can go wrong. The settings
of the parser's second sample are the default ones, one of them changed, and all changed:
each setting guards one branch. Two records and a cut at any place are enough for a
record that is taken for the rest of another. Three arguments are enough for an option, its
value and a source in any order, with one of them missing or twice. Two targets are enough
for each race: every conflict is about one copy or one directory and two processes.
In `build` and `catch_up` only one of the two extractors fails by itself, the other one shows what these
failures do to its neighbour; two failing ones add no kind of conflict, since what a failure leaves
behind is met by the next extractor of the same target as well as by the other.
Every mutant needs the bounds of its run.

**Fairness.** In `catch_up` an extractor that can take a step takes one (`WF` of
`Extract(t)`: the operating system schedules processes), `make` considers its targets and
ends, and `make` is called again and again, as the manual intends
(`doc/extractor.adoc:567`). Nothing is assumed of edits and `clean`. Failing file
operations other than a refused copy are left out of that run: its property asks only for times
at which there are none, and what another failure leaves behind, a crash at the same step
leaves too, or an unparsable text does. In `database` and `command_line` a function that can go on does (`WF` of the
next-state action): `snippets()`, both parsers and `main()` are sequential code that
nothing interrupts.

**Deadlock** is checked in all runs but `command_line` and `doc_command`, where the programs
end. The end of `parse()`, of `generate()` and of `snippets()` are explicit stuttering
actions.

### Where code and manual disagree

* `doc_scope`: `::` is replaced in the name of a start, not in an exclude; a scoped
  snippet cannot be subtracted.
* `doc_highlight`: after an excluded stretch, the numbers in `highlight=` do not fit the
  block.
* `doc_build`: on a clean tree two extractors both see no `.extractor` directory;
  `create_directory()` returns false for the second, which gives up after its target
  was written. The next `make` finds the target up to date and reports success without
  its snippets.
* `doc_shared`: `simple.cc.extract` and `simple.cc.extract2` (`example02/Makefile`) share
  `simple.cc.tmp`; one extractor parses the copy that the other has just truncated, and
  succeeds with an empty `all`.
* `doc_command`: the manual's rule calls `extractor -lcpp -aA2 -o$@ -d$(EXTRACTDIR) $<` and
  its text names `-x --eb --io`. lyra takes `-lcpp` for four options, and the long names
  are not declared. The rules of `Makefile.include` use the forms that are accepted.

Smaller ones that no run shows: `//[+*` without a name (`doc/extractor.adoc:508`) opens a
snippet called `+*`; an exclude text given where a snippet is continued is lost; `axtractor`
looks neither at `-x`, whose help text promises that no files are written, nor at the
result of `generate()`.

## What is proved

All proofs are for every value of the constants that satisfies the named assumptions:
any alphabet and any length of the file, any line of arguments, any tables of options, any
numbers of targets and names. Every invariant and every action property that a passing run
checks is a theorem.

**Parser.** `CppExtractorProofs` has the types, the ranges and the nesting, `ReferenceProofs`
what the parser makes of a whole file.

* `TypeCorrect`, `SpansAlwaysInContents`, `CallOutsAlwaysOnTheirLine`, `SpansAlwaysNest`. The
  inductive invariant `IInv` is the type invariant, `LinesInv` (as many kept lines as
  `lineNumber` says, callouts on their lines) and `SpansInv`. Nesting alone is not
  inductive: a new span runs from the position of the start on top of the stack to the
  present line, so one has to know that the open starts are in order (`OpensInOrder`),
  that none of them lies inside a recorded span (`OpensOutsideSpans`) and that no span
  reaches beyond the present line (`SpansClosed`). Then a new span contains or avoids
  each older one.
* `ContentsAlwaysTheKeptLines`: `KeptInv` says that the number of a kept line is its rank
  among the kept lines of the file read so far.
* `SnippetsAlwaysMatchedMarkers`, `AlwaysParsedCompletely`: the reference says which marks
  match by counting starts and ends between them, the parser keeps a stack. `StackInv` says
  that the stack holds exactly the starts that no end read so far matches, in their order;
  that a new end then matches the top of the stack is a fact about brackets, proved once in
  `CountingProofs` and used for the assembler as well. `RecordedInv` has the spans in the
  order of the ends. `AbortInv` has the outcome `aborted`: no line read so far has a number too
  large unless the program ended there.
* `SectionsAlwaysFollowNesting`: the second stack holds the signs of the open starts from
  the first signed one on (`HighlightInv`), although the two are pushed under different
  conditions.
* `ExcludesAlwaysAskedFor`: an exclude in the shared map or in a snippet has a start with that
  name in the lines read (`ExcludesInv`, `AskedInv`).

**Generator** (`GeneratorProofs`).

* `AccessAlwaysInRange`: while the generator runs the parser's state does not change, so the
  parser's invariant and the positions of the two loops (`LoopInv`) give the ranges.
* `GenerationAlwaysKept`, the refinement: the mapping takes initial states to initial states
  of `SnippetGeneration` and every step to a step or a stutter. `BlockInv` says that a
  finished file shows the lines its snippet wants and that the block under way shows
  `PassedLines`, the lines the two loops have gone past without those excluded. At the
  end of the last span these are all lines wanted.
* `FilesAlwaysShowTheMarkedLines`, `MarkerAlwaysPerStretch`, `CallOutsAlwaysMatchTheirList`,
  `HighlightsAlwaysWithoutGaps`: a snippet passes a line once for each of its spans that
  contains it. `LayoutInv` says of the passages reached so far (`Reached`) at which place of
  the block each one has its line, its marker or nothing (`BlockLaidOut`), and ties the flag
  `showMarker` and the counters of callouts and lines to the last of them. When the
  last span is left, the passages reached are all of the snippet, and the properties, which
  speak of ranks in the finished block, follow. For the markers the ranks of the stretches
  among the passages reached are followed line by line (`MarkersFor`), with the number of shown lines
  before each one and its text.

**Command line** (`CommandLineProofs`).

* `CommandLineTypeCorrect`: the iterator stands at the end or in an argument, at the rest of
  its tokens (`Stands`), and every token before it has been known (`Passed`), so the loop cannot
  skip one.
* `AcceptedAlwaysExactly`: the iterator, an argument with a rest of its tokens, is a position
  in the tokens of the whole line (`At`); the tokens before it are a sound beginning, the
  values taken are exactly theirs (`TakenIs`), and if parsing has ended, no sound line begins
  with one token more (`LineInv`).
* `SuccessAlwaysTrue` and `SettingsAlwaysFromTheLine` follow with the steps of `main()`. The
  second one is about the tables the programs declare (`Tables = ProgramTables`), since only
  there do the options have their meanings; it constrains every setting `main()` makes.
* `RulesAlwaysReachTheirTarget`, for whatever names `make` puts into its rules. `TakenIsSound`
  is about any line: if one knows for each place which parser takes its option (`Places`, `TakenAt`), the
  line is sound and the values of an option stand behind it. Each of the three forms of rules
  has its places (`ExtractPlaces` and so on), so `AcceptedAlwaysExactly` gives the acceptance and
  `SettingsAlwaysFromTheLine` the target and the directory; a rule without a target asks to
  filter only, and then nothing is written (`MainInv`).
* `ArgumentsAlwaysAsGiven`, `UndefinedAlwaysWithoutValue`: every argument of `avrasmopt` before
  the index of the loop has had its effect, and the index has moved past a value exactly
  after an option that consumes it (`OldInv`).

**Assembler extractor** (`AsmProofs`): `AsmTypeCorrect`, `AsmAccessInRange`, `FunctionsAlwaysNest`,
`FunctionsAlwaysMatchedMarks`, `FilesAlwaysShowTheirFunction`. As for spans, nesting needs that
open functions start in order (`OpenInOrder`) and none inside one that has ended
(`OpenOutside`); the ranges need that functions lie in the lines read, and `all` one
further (`FunctionsInFile`); that functions are those between matching marks is the argument
of the parser again, with the names given to the function on top of the stack.

**Database** (`DatabaseProofs`).

* `ReaderTypeCorrect`, `FoundAlwaysInTheFile`, for every sequence of tokens. That what is found
  is in the file needs to know, at each place inside of a record, which tokens stand directly
  before it (`Behind`), and that a word left in `token` from before the end of the file cannot be
  taken for the bracket that closes a record.
* `DatabaseAlwaysReadBack`, for every database, cut off anywhere. The lemmas up to `BracketFacts` say
  which token stands where in a record (`HeadLaid`, `SpanLaid`, `BracketLaid`): `Bracket` is the
  first closing bracket in the list of excludes, the end of the record or an excluded word.
  The invariant `DInv` ties the place in the program and the locals to the place in the
  record (`InRecord`), and says that what has been found are the readable records up to there
  (`FoundAs`). A record that is left too early is gone through by the loop of `snippets()`, which
  finds no second bracket behind a `Snippet` there: an excluded word `Snippet` has a separator
  behind it or the closing bracket (`InHead`). Behind the last token nothing is added, because
  `token` is still `exclude` when the closing bracket is missing (`NothingLeft`).
* `ReadingAlwaysComesCloser`: unless the file ends within a list, every step makes `Left` smaller,
  the number of tokens left and, behind the last one, of the operators that have still to fail.
  It is a natural number, since the reader never stands behind the end, so this is what
  `ReadingEnds` says but for fairness. A step that does not take a token is harmless before the
  end; at the end the only such steps that do not leave an operator are those of the loops over a list,
  and `EInv` adds to `DInv` that no list is read there but one the file ends in.

**Build** (`BuildProofs`): `BuildTypeCorrect`, `TmpAlwaysTransient` (both also for shared sources)
and `SuccessAlwaysMeansComplete`, which assumes that no two targets share a source;
`doc_shared` shows that this is needed. Its invariant says of each extractor what it has
achieved at each step (`Progress`): the copy is its own, what it has parsed is the present
text, its target is out of date until it writes it, and the files written so far are
fresh, each of them unless `lost` has it. It rests on `WorkersAreLaunched`: no extractor runs while the author edits.

`AlwaysFailsForAReason`, under the same assumption, says what can stop an extractor: what an
earlier call has left behind and the copies of the others cannot. It needs in addition
that a race for the directory is lost to somebody (`RacesAreLost`): if an extractor that has
found no directory now finds one, another one of the same call of `make` has created it and
is past that step.

**How induction is done.** The provers cannot instantiate an induction theorem that takes an
operator. What is counted or ranked is therefore stated with sets of numbers: `AllNumbers` in
`CountingProofs` is induction over a set, `LeastNumber` the least counterexample, both from the
well-founded order of the numbers. For the same reason the reference properties speak of
ranks (`Cardinality` of the numbers below) instead of recursive definitions, and flattened
sequences of the offsets of their parts.

**Assumptions.** Besides the shapes of the constants: a line with the end of a block comment at
its beginning is not empty and opens none (`CommentAssumption`: the expressions of both marks
are anchored); no name is declared for two options of a program, at most one argument is its
source, which has no name, and all programs but `avrasmopt` have one (`TablesAssumption`,
`DeclaredAssumption`, `SourceAssumption`: the tables in `extractor.cc`, `axtractor.cc`,
`avrasmopt.cc`); words have an order without ties, and the names of the snippets of a database
are in this order (`RankAssumption`, `DatabasesAssumption`: `std::map`, `std::set`); the files
`make` knows have names (`MadeAssumption`). TLC evaluates each of them for the instances it checks.

**Only model-checked:** liveness (`MakeCatchesUp`, `ReadingEnds`, `LinesAreAnswered`), as fairness
and `ENABLED` are out of the prover's reach, and the disagreements with the manual. For
`ReadingEnds` and `MakeCatchesUp` the safety part is proved: the measure that shrinks, and what
can make an extractor fail.

## Not modelled

* AStyle and libmagic are libraries outside the repository. A formatted text is a text
  like any other, a MIME type a free choice. That AStyle may return a null pointer
  (`asciidocsnippetfilegenerator.cc:57`) depends on it alone.
* Captions, block attributes and indentation: layout.
* The rules of `Makefile.include` for programs, their outputs and HTML start no snippet
  generation, or pipe it into a highlighter whose status hides that of `extractor`.
* Of lyra, what the programs do not use (choices, groups, lambdas with results) and the texts
  of the usage; of `FileMagic`, its parameters.
* `Tracer`, `ExecutionTimer`: logging. `UnixSignalHandler` needs Qt and no program uses it.
  `boost.process` and `folly` are vendored and unused. `libwm`'s helpers are
  stateless or unused; `simpletest`, `libwmtests` and `scopeguard.cc` are test code.

Vendored and unused code is most of the repository's source, so the modelled share of all
its lines is small; of the extractor's own programs, everything that decides on their
output or their exit status is modelled.
