# A verification development for ccomptime

`ccomptime clang prog.c -o prog` compiles a C program in which blocks written
`_Comptime(..)` and `_ComptimeType(..)` are executed while it is compiled. This
directory holds TLA+ models of the program, the TLC configurations that check
them on small instances, and theorems about them with TLAPS proofs. Everything
is translated from the C sources; line numbers per definition are in
`PROJECT.json` under `map`.

## 1. Inventory

What happens to one command, and the component that does it:

    command line --cli.c--> inputs, outputs, flags
    for every input:
      source --macro_expansion.c--> expanded text --tree-sitter--> tree
        --tree_passes.c--> statements, placeholders, ranges to remove
        --main.c--> comptime-safe source, runner definitions, runner main, header prelude
        --compiler--> runner   --runner.templ.c--> header += macros, definitions
        --main.c--> wrapper  (#include header, #include source)
    compiler(wrappers, outputs, flags);  delete the intermediate files

| component | state | operations | what makes it correct |
|---|---|---|---|
| tree passes (`tree_passes.c`, builders in `main.c`) | `WalkContext`: spans, placeholder table, statements, dependent names, ranges to remove | correct, rewrite, register, strip walks; `build_runner_snippets`; `build_comptime_safe_source` | statements are the blocks in text order; every type placeholder finds its own statement; the runner's copy of the source names nothing comptime-dependent and loses nothing else |
| runner (`runner.templ.c`) | one Inline buffer per statement, the TopLevel buffer, the header's stdio stream | open, append, return of a statement, end of `main`; exit and crash in user code | a macro in the header is a finished statement's, once, and whole if it was written |
| one file end to end (`run_file`, `main`) | the five files and the runner | writes, two compiles, run | each block is replaced by what it produced |
| the command (`main`) | the disk, `files_to_remove`, the argument vector | loop over the inputs, final compile, clean-up | no other command's results, and old or torn ones only where a write failed; ends; leaves only headers; no failure of its own making |
| macro expansion (`macro_expansion.c`) | macro table, replacements, cursor | one walk, one copying loop | comptime macros, and no others, are expanded where they are used, as the preprocessor would |
| text scanners (in `tree_passes.c`) | a position in the source, nesting depth, the literal at hand | recovery of a span in a parse error, trimming of an argument list | a loop stays in its text; a span ends at its own parenthesis; a statement is a balanced block |
| command line (`cli.c`, command lines of `main.c`) | three lists of indices into argv, flags; argv itself, which `main` overwrites | `CliArgs_parse`, `cmd_append_arg_indeces`, both kinds of compiler command | every word has one role, and reaches the compiler in it |
| build script (`nob.c`, the rebuild of `nob.h`) | `build/`, `nob`, `nob.old`, their times | self-rebuild, clean, archives, link, copy, tests | `./nob` is never lost and follows its source; what it builds is current |
| test harness (`tests/test.c`), process pool (`nob.h`) | the pool, the three passes, the files of each test | start, poll, wait, parse the results, clean up | every child is waited for; passes do not overlap; exit status 0 is deserved |
| slices and strings (`comptime_common.*`, `utils.h`, `ansi.h`) | none | ranges, keyword tests, prefixes | used as operators by the above |
| vendored: `deps/hashmap/hashmap.h`, the rest of `nob.h`, tree-sitter | hash map; files; trees | put/get; read, write; parse | assumed, see below |

Interactions. The passes hand a `WalkContext` to the builders by reference. The
builders hand text files to the compiler; the runner hands macros to the final
compile through the header, which it opens for appending after `run_file`
truncated it. Nothing is shared in memory between processes; commands that run
at once share the file system. There are no threads and no callbacks except
macro expansion's, which is called synchronously. The test harness runs many
child processes at once and meets them only through their exit status and the
files they leave; the build script replaces itself while it runs.

What is hard here, and to test: two independent numberings of the blocks that
must agree (the runner's, and `__COUNTER__` in the final compile); text that is
rewritten and parsed again, after which the passes must find their placeholders
where they put them; ranges that nest, repeat and touch; user code in the
middle of the runner that may exit or crash; results of writes that nobody
looks at; files left by an earlier command; two commands over one source; words of a
command line told apart by spelling alone; a pool of processes rearranged under
the loop over it; times in whole seconds. Each
is a row of `hazards` in `PROJECT.json`, at its line, with the properties that
are about it or a note saying that none is yet.

## 2. Modules

| module | what it is |
|---|---|
| `SyntaxTree` | trees as the sequence of their nodes in the order of the walk, each with the index of its last descendant: ancestors are intervals, no recursion is needed |
| `TreePasses` | the passes and the two builders as one state machine; its properties |
| `Sources` | 28 short items of C with the trees tree-sitter builds of them before and after the rewriting, and files put together from them |
| `MCTreePasses` | instances of `TreePasses`; what the theorems assume of a file's trees, evaluated on every file the runs use |
| `Runner`, `RunnerProofs`, `MCRunner` | the runner, its theorems, its instance |
| `Comptime` | the abstract promise: every block executed once, in order, the program built with each block replaced by its output |
| `Pipeline`, `MCPipeline` | `TreePasses`, then an instance of `Runner` over the snippets, then the final compile; refines `Comptime` |
| `PipelineProofs` | theorems about the passes, and that the pipeline implements `Comptime` |
| `Driver`, `DriverProofs`, `MCDriver` | the command over all its inputs and the disk, several commands at once; its theorems; its instances |
| `CommandLine`, `CommandLineProofs`, `MCCommandLine` | the sorting of argv and the command lines made of it |
| `MacroExpansion`, `MacroExpansionProofs`, `MCMacroExpansion` | the walk with its table of macros and the copying loop, against the preprocessor |
| `Scanners`, `ScannersProofs`, `MCScanners` | the two places where the passes read text themselves, against how C reads it |
| `Processes` | the process pool of `nob.h`: start, poll, wait, remove |
| `TestHarness`, `TestHarnessProofs`, `MCTestHarness` | the test harness over that pool, interrupted once |
| `BuildScript`, `BuildScriptProofs`, `MCBuildScript` | `nob.c`, with edits and interruptions meanwhile |

### TreePasses

`pc` is the pass, `at` the node, span or statement at hand; the other variables
are the fields of `WalkContext` and the locals of the loops, under the source's
names. A step is one visit of a node or one iteration of a loop, with
everything it does. `LocalWalkContext`, which each level of the recursion
copies and updates, is `Nearest`: the nearest enclosing node of a kind, the node
itself included. A failed `assert` ends in "abort", `fatal()` in "fatal", a null
dereference in "crash"; the model assumes a build with assertions, as `nob.c`
makes it. The asserts that cannot fail in the model because they follow from
the lines before them (`offset >= 0`, the counts in the rewriting loop) are not
restated.

tree-sitter is not modelled. A file is given by the tree of its expanded text
and the tree of the rewritten text; any well-formed trees will do for the
proofs, and the ones TLC uses were recorded from the vendored parser. `Sources`
includes items whose trees are surprising: `ERROR` nodes, a placeholder parsed
as an identifier, a struct field of a dependent type. A statement is identified
by the extent of its call (how it is trimmed is in `Scanners`). The hash map of dependent names is a
set: it is only put to and read. `qsort` and the loop after it are a choice of
the next range under `compare_slice_start`.

### Runner

`calls` are the registrations that `build_runner_snippets` wrote. A statement
is user code between its registration and its return: any number of appends
(bounded) to its Inline buffer and to TopLevel, then return, exit or crash. The
header is a stdio stream: `held` is what was printed and not yet written. The
stream is written in chunks of bytes, so what a crash leaves of it (`Beginnings`)
may end inside a line: in its text, after any of its pieces, or before it
(`Fragment`). Exit and the end of `main` write all of it, or a part if the
disk takes no more, or if the exit was `_exit`: nobody looks at the results of
`fprintf`, `fflush` and `fclose`, so the status is the same. `lost` records
that. A disk that was full is taken to stay full: what is there is a beginning
of what was printed, without holes.

### Pipeline and Comptime

`Pipeline` composes the passes with the runner (whose `calls` are the snippets)
and models the preprocessor of the final compile: which blocks it sees, the
number `__COUNTER__` gives each (arguments are expanded before the rescan that
draws the number, so an inner block draws first), and the macro found under it.
`KeepsPromise` is the refinement: `outputs` are the executed blocks and
`replacement` and `definitions` what the built program has. `outputs` and
`mark` are history variables; nothing else reads them. The runner's stream is
here one that the disk takes whole unless the process fails (`UNCHANGED lost` in
`RunRunner`): with a full disk the promise is not kept, see the limits.

### Driver

The disk maps `<<source, kind>>` to contents, and contents say only who wrote
them: what `run_file` writes is made from the source as it is "now", what was
there before from an "earlier" version, and what a runner appends is marked by
the command that compiled it (its flags matter). Beside the sources in
`Unwritable`, writes and deletions may fail unnoticed: a file that cannot be
opened stays as it was, one that can has lost its old text and keeps a part of
the new one ("torn"), a runner leaves a part of its results in the header and
ends well (`RunnerWritesTorn`), a deletion leaves the file (`RemoveFails`). The
compiler, the passes and the runner may fail at will. All this sets `fault`; a
failure with all files as the command itself made them is the user's fault,
any other is the command's. The final compile may succeed whenever wrapper and
header are there, unless the header is a prelude alone (`Compilable`): a header
without a prelude leaves `_Comptime(..)` to `ccomptime.h`, which defines it as nothing.
`Result` says what the program has then. A write that succeeds is atomic: a
reader that meets a file of another command half-way through is not modelled.

### CommandLine

A word is a kind, which is all that `CliArgs_parse` and a compiler look at, and
a text. One action per branch of the parsing loop; then, per input, the compile
and the run of the runner, with argv's entry overwritten by the wrapper, and
the final compile. What a compiler makes of a line (`Told`) is external: left
to right, an option that takes a value takes the next word, and a line that
ends where an operand is due is refused. `Supported` names the lines for which
spelling suffices.

### MacroExpansion

One step per node of the walk and per replacement copied. A text is a sequence
of tokens, a `#define` one of them; the tree of a macro's body, which the code
parses on its own, is the sequence of its leaves, because the parser's view of
the body alone decides what is replaced. Each output token remembers where it
came from (`from`), which only `KeptOnce` reads. The reference, `Preprocessed`,
is computed from `lines` and `uses` that belong to the file and not from trees,
so a tree that shows less than the preprocessor sees makes the two disagree; of the
supported files `TreeShowsMacros` says that it shows the same. The reference is the
preprocessor's first step: it does not scan again what a use became, does not
paste with `##` and does not escape what `#` quotes. The code does none of this
either, so the run does not show where that departs from the preprocessor.

### Scanners

The loops, a character or a two-character mark per step. `Modes` is how C reads
the same text; `Closers` and `IsBlock` are the references made of it. Results
of these loops are inputs of `TreePasses`.

### Processes and TestHarness

`Processes` is the pool as `nob.h` has it, including the line this repository
changed (`nob.h:1172`). A job stands for its pid. `TestHarness` starts the jobs
of a pass in the order of the source, polls while the pool is full, waits at
the end of the pass, reads the results, deletes everything and exits. Files
remember whether the present invocation made them ("new") or an interrupted one
("old"); a compiler that fails leaves what it found, a program that fails may
still have printed what is right. `broken`,
`lost` and `unstarted` are history variables for the properties.

### BuildScript

A file is the version of its source and, where it is looked at, a time in whole
seconds. The user edits any source at any moment and may interrupt; every
command may fail, and leaves what such a failure can leave. `raced`, `changed`,
`missing`, `skipped` and `cleaned` are history variables. Times in the future
of the clock are not considered. Renames, and the query of a file's time, do not
fail here (see section 5).

## 3. Runs

All runs finish in under two minutes. `CHECK_DEADLOCK FALSE` throughout: every
modelled program ends.

| run | instance | what it shows |
|---|---|---|
| `passes_any` | an include and any one or two of the 28 items, with and without a gap between them | `TypeOK`, `PlaceholdersResolve`, `SnippetsInvert`, `NoDependentLeft`, `IndependentCodeSurvives`, `KeptInOrder` hold for every file, legal or not |
| `passes_supported` | all files of up to three of the 13 items that the README and `tests/` show | `StatementsFollowText`, `NoDirectiveLeft`, `ApartFilesFinish`, `RunnerLinks` |
| `runner` | up to three registrations, two appends to an Inline buffer and one to TopLevel, two texts, a write cut anywhere | `DefinedMeansReturned`, `OneMacroPerStatement` |
| `pipeline_supported` | an include and one or two of the items with blocks, and the bare word, which is refused | `KeepsPromise` |
| `driver_apart` | two commands, four inputs, one named twice, one command keeping its files; leftovers for two sources, one of them with unnoticed failures of writes and deletions | `OwnResults`, `LeftAsTold`, `NoSpuriousFailure`, `Terminates` |
| `command_line` | every line of up to three words of eleven kinds behind the compiler, of four where outputs, values and sources meet; any sources unreadable | `OneRoleEach`, `DropIn`, `RunnersFirst` |
| `macro_expansion` | a definition and any two further items of 24 | `OnlyComptimeMacros`, `KeptOnce`, `ExpandsAsPreprocessor` |
| `scanners` | all texts of four characters behind the parenthesis over nine, of six over the characters of literals and of comments; argument lists of five | `ScanTypeOK`, `SpanIsClosed`, `StatementIsBlock` |
| `test_harness` | two tests, with and without assertions, a pool of two and one of four, one interruption | `EveryChildIsAwaited`, `PassesDoNotOverlap`, `VerdictIsSound`, `Ends` |
| `build_script` | two invocations, two edits, two times, one interruption | `NobSurvives`, `SelfFollowsSource`, `BuildIsCurrent`, `CleanThenBuildIsFresh`, `InvocationEnds` |

Two runs show where the sources say more than the code does (`findings` in
`PROJECT.json` quotes the lines; both were reproduced with the real program):

| run | property | the disagreement |
|---|---|---|
| `safe_source_assert` | `SafeSourceAssertHolds` | a dependent definition at byte 0 or right behind another fails an assert |
| `skipped_block` | `MacrosReplaceBlocks` | a block under `#if 0` shifts the numbers of the later ones |

The bounds. Two items suffice for the relations between a definition and its
user and between neighbours, before and after each other; three give a
neighbour on both sides, and a third statement to number. Items have up to two
blocks or placeholders, so files have up to six. Two texts tell one statement's
output from another's; two appends are what is needed for a text to be cut
between its pieces, one for it to be missing or misplaced, and three registrations give one
before and one after the one at hand. Two commands are the smallest number that can disagree;
a source named twice makes paths recur within one. Four words hold an `-o` and
its operand between two others. Three items of macros are a definition, a
redefinition and a use in any order. Six characters are an escaped quote and a
parenthesis on both sides of it. Two tests have four jobs in the first pass, so
that a pool of two fills up and one of four never does. Two edits change a
source before and during a build, two invocations leave files for each other,
and two times tell an edit that is seen from one that is not.

Every property of a passing run has a faulty variant of a definition that
breaks it (`mutants` in `PROJECT.json`); the variants stand in the modules, each
before the definition it varies, and are used nowhere else.

### Known limits of the program

Several properties are restricted on purpose: they are false for inputs the
program does not handle. These are the restrictions, found while modelling and,
for ccomptime itself, tried with the real program.

*Passes and pipeline* (`passes_supported`, `pipeline_supported`; the items are in
`Sources` and in `passes_any`)

- `sizeof(_ComptimeType(..))`: the reparse shows the placeholder as an
  identifier, so it is never evaluated.
- `_ComptimeType` behind a typedef or in a parameter: `correct_tree` does not
  collect it.
- `g(_Comptime)`: the argument of `g` is taken for a block.
- A block in the arguments of a block: the passes number the outer one first,
  `__COUNTER__` the inner one, and each is replaced by the other's result.
- A dependent type in a struct at top level: none of the roots exists, and the
  last one is used untested (`tree_passes.c:442`).
- Two ranges to remove that begin at the same byte: in `g(f)(f)` with `f`
  dependent and no definition around it (the value of an enumerator), the
  inner call is cut and the rest of the outer one stays.
- Stripping is not transitive (`tree_passes.c:334`, `:412`): a user of a user of
  a dependent function loses its callee, and the runner does not link.
- A newline in the text of a block ends its `#define` (`runner.templ.c:126`).
- What the runner prints may not reach the header: `fprintf`, `fflush` and `fclose`
  are unchecked (`runner.templ.c:126`, `:162`), so a full disk, or a statement that
  calls `_exit(0)`, leaves a header whose last line is cut, with exit status 0. The
  final compile then fails if a macro is missing, but a macro whose text is cut is taken
  for the block's result, and one whose number is cut between two digits is
  that of an earlier block. `DefinedMeansReturned` says that it can only be the last line;
  `KeepsPromise` is about runs in which everything is written.

*Command* (`driver_apart`)

- Two commands on one source use each other's files (`cli.c:103`).
- With `-c` the runner is compiled to an object file, which cannot be run
  (`main.c:79`).
- A write that fails goes unnoticed (`main.c:197-206`, `:154`): the old file, if there is one,
  or a part of the new one is used.
- If it is the header's prelude that could not be written, the runner creates the
  header itself, and `ccomptime.h:5-7` defines `_Comptime(..)` as nothing: the
  program is built with its blocks dropped, and the command returns 0.
- The results of deletions are ignored (`main.c:325`): the file stays, the command returns 0.

*Command line* (`command_line`)

- An input that is absent or empty aborts in `ts_node_range` (the model's
  "abort"), and so does one named by an absolute path, which is looked for
  below the current directory; paths are not modelled.
- `-o` as the last word takes the NULL behind it. The final compile then ends
  in an `-o`, unless flags follow, and the compiler refuses it, as it would have
  refused the user's own line.
- `Supported` leaves out two outputs, and options whose value looks like a
  source, `-o` or one of ccomptime's own flags.
- Sources move in front of options, so `-x c` no longer applies to them.

*Macros* (`macro_expansion`, `supported`)

- `F(F(1))` aborts (`macro_expansion.c:368`), a wrong number of arguments aborts
  (`:64`), `F v;` for a macro with parameters and `#define F(x)` without a body
  crash.
- The text of an expansion is not scanned again, `##` is left for the compiler (as
  in `tests/macro_repeated_arg`), and quotes in an argument that `#` quotes are not escaped.
- Variadic macros, a macro that reaches a block only through another macro,
  and a parameter the parser takes for a type stay unexpanded; `#undef` is
  ignored and definitions under `#if 0` are recorded. A plain object macro in
  an expression is not expanded either: only types and calls are.

*Scanners* (`IsBlock`, `SpanIsClosed`)

- `({ if(x){ y(); } })` on one line loses its inner brace; `_Comptime( { } )`
  makes the two loops cross and gives a statement of negative length; a span
  with an unclosed comment is read on from the last character.

*Test harness* (`VerdictIsSound`)

- A failure reaped because the pool is full is logged and lost (`nob.h:1172`).
  The pool holds twice the number of processors, the first pass has up to two
  jobs per test: the 14 tests here that are not skipped and 4 processors fill it. What
  a lost failure leaves (no program, no results file) is usually noticed later.
- Results of starting a job are ignored.

*Build script*

- `nob.h` is included by `nob.c` but not watched, although the comment at
  `nob.c:107` says so.
- Archives are made only when they are missing.
- Results of the copy and of the test commands are ignored: `./nob test` exits
  with 0 when tests fail.
- The loop over the arguments examines the first one each time.
- An edit in the second in which the compiler finished is not seen.

### Fairness

Safety needs none. Liveness is stated of three modules:

- `Driver`: `WF(Step(c))` for each command. Commands are processes that wait for
  nothing but their own subprocesses, and the operating system schedules them.
- `TestHarness`: `WF(HarnessStep)` for the harness and `WF(JobEnds(j))` for every
  child: the programs under test end.
- `BuildScript`: `WF(Script)`; nothing is assumed of the clock or of the user,
  so `InvocationEnds` also says that a nob just rebuilt does not rebuild itself
  for ever.

A subprocess is waited for without a timeout: a compiler, a statement or a test
that loops makes its parent hang, in the program as in the model.

## 4. Proofs

Eight modules; every theorem holds for all values of the constants under the
assumptions named.

`PipelineProofs`, for any set of files and any well-formed trees
(`FilesAssumption`), first about the passes:

- `TypeCorrect`: `TypeOK` is inductive. What needs work is that the nearest
  node of a kind, and a child, is a node of the tree (`NearestIsNode`,
  `ChildIsNode`), and that the names marked are text (`MarkedNamesAreText`).
- `PlaceholdersCorrect`: `PlaceholdersResolve` is inductive with `TypeOK`. The
  register pass writes an entry only while it is -1 and with the length of the
  list it then appends to, so a new number exceeds all earlier ones.
- `SnippetsCorrect`: `SnippetsInductive` adds that the register pass is over,
  that the snippets written so far are exactly the statements before `at`, and
  that a statement comes from the unrewritten text exactly when some entry
  names it, which is what the linear search needs to be an inverse.
- `CopyCorrect`: `CopyInductive` adds that the cursor is the end of the range
  cut last and that every slice copied ends before the cursor. It holds for
  every order of the ranges: order matters for what is kept, not for this. It
  uses that a removed node is not empty (`StripRootIsRemovable`).
- `DependentsCut`, under `RootsBeginApart` (two ranges that begin at the same
  byte are equal): `StripInductive` says that the ranges are the roots of the
  uses passed so far, `CutInductive` that the ranges visited lie clear of
  what was copied and that none visited begins after one still to come. Here
  the order of `compare_slice_start` matters, and that ranges nest or are
  disjoint (`SpansNest`, `RangesNest`): a range that is skipped lies
  within the one the cursor stands behind.
- `IndependentKept`, with no hypothesis: `SurviveInductive` says that an item without
  uses has been copied whole or lies ahead of the cursor.
- `DirectivesCut`, under `RootsBeginApart` and `DirectivesDefine` (every
  placeholder is the type in a definition with a name): `RegisterInductive` says that a
  directive passed has marked the name of the definition around it, and that name is
  itself a use, so the definition is a range.
- `ApartRangesCopied`, under `RootsBeginApart` and `RootsApart` (something stands before
  and between the ranges): the assert of `build_comptime_safe_source` holds. The
  run `safe_source_assert` shows what happens without `RootsApart`.
- `StatementsFollow`, under `TreesShowBlocks` for the files without a bare `_Comptime`
  (the n-th node of the tree that stands for a directive is the n-th directive of the
  text, and a placeholder carries the number of its span; a file with a bare word never
  gets through the passes): `SpansInOrder` says that span i is the i-th that
  `correct_tree` collects, `BlocksInOrder` that the register pass has as many
  statements as directives behind it, each the one written there (`Rank`).
- `PassesFinish`, under `RootsBeginApart` and, for files whose top-level items
  are apart, `RootsApart` and `Passable` (the shapes the asserts, `fatal()`s and unchecked
  pointers ask for): `Passes` says why no pass stops. The cursor of the rewriting never
  passes the next span, a placeholder's entry is -1 until its node is met, and only
  names that directives mark become dependent.

- `RunnerLinksCorrect`, under `RootsBeginApart` and `MarkingReaches`: what the runner
  includes refers to definitions it includes. Marking is not transitive (see the
  limits), so something must be asked of the file: a name that stands in nothing that
  a marked name takes away has a definition in which no marked name stands. The
  rest is about the passes, and puts four invariants together: what is marked when
  the register pass is over is `Marked` (`RegisterInductive`, `DependenciesAreMarked`), so
  the nodes that were taken as uses are `MarkedUses`; a name that was copied lies in none of
  the ranges (`StripInductive`, `CutInductive`; a name is not empty); and a
  definition without uses is copied whole (`SurviveInductive`).

The six hypotheses speak of the trees alone. They are assumptions about
tree-sitter and about the input, not about the passes, and `MCTreePasses` evaluates
each on the files it is assumed of: `RootsBeginApart` on every file, `RootsApart` on
every file whose items are apart, the others on the supported ones.

Then about one file from end to end:

- `PromiseKept`: the pipeline implements `Comptime`. Besides `TreesShowBlocks` it needs that no
  block is skipped or written inside another one (`BlocksInPlace`) and that no text has a
  newline; without either the program does not keep the promise (the run `skipped_block`, and
  the limits above). `Numbered` says that registration i of the runner is block i. `RunnerInductive`
  takes the runner's invariants from `RunnerProofs`, instantiated with the snippets (`RP`), and
  adds `Collected`: one output per statement that returned, its text the statement's Inline
  buffer, and the pieces up to `mark` are the TopLevel buffer up to there (`PieceAdded`,
  `FlattenAppend`). Nothing is `lost` there, so the lines are whole. Then each step is `Execute` (a statement returns), `Refuse`, `Build` or none.
  That `Build` finds all outputs (`BuiltFromOutputs`) is the part that is easy to get wrong: a
  statement may exit with status 0, and `main` goes on. But the block it stood for draws a
  number whose macro is not defined (`CounterIsPlace`, `DefinedMeansReturned`), so the
  final compile fails.

`MCPipeline` evaluates these hypotheses on the files of the run `pipeline_supported`.

`RunnerProofs`, for any list of registrations numbered from 0
(`RunnerAssumption`) and any texts and bounds:

- `RunnerTypeCorrect`: `RunnerTypeOK` is inductive.
- `HeaderCorrect`, `OneMacroCorrect`: `DefinedMeansReturned` and
  `OneMacroPerStatement` are inductive together with the types and with the fact
  that nothing is lost before the process has ended (`HeaderInductive`): as long as
  it runs, every line is whole (`WholeIsReturned`, `NothingCutYet`). What ends the
  process then leaves some of these lines and a cut of the one after them
  (`BeginningsAreCut`, `FlushWrites`), so only the last line can be short (`LossyEnd`).
  The second theorem needs that lines are only ever appended (`ConcatKeeps`), that a
  statement writes into its own buffer only (`OwnBuffer`) and that other lines define
  no block's macro (`OtherLinesAreHarmless`).
- For `PromiseKept`: `Published`, that the TopLevel buffer is printed once, whole, as the last
  line, and only when every statement has returned.

`DriverProofs`, for any number of commands with any lists of inputs, also lists
that name a source twice (`DriverAssumption`):

- `DriverTypeCorrect`: `DriverTypeOK` is inductive.
- `OwnResultsCorrect`, `NoSpuriousFailureCorrect` and `LeftAsToldCorrect`, under
  `Apart`: no two commands name the same source, and none is given `-c` (the
  limits above). None is inductive alone. `IInv` says, per command, which of the
  files beside each of its sources it has written (`Strong`): the ones of the
  source at hand according to `pc`, the header with its results and the wrapper of
  every source dealt with before, in whatever order and however often the sources
  were named. Beside a source whose writes may fail this holds until something has
  failed. After that, what is there is whole, torn or of an earlier time, but
  nothing is another command's (`Weak`): the runner that is started
  (`StartedOwn`) and what the final compile takes from the header (`WeakResult`,
  `BuiltOwn`). `Frame` and `FrameKeeps` show that a
  command's step leaves alone what `LocalInv` says of the others, so the number
  of commands does not matter. `Leaves` does the same for the clean-up:
  everything made so far is noted in `files_to_remove` (`Noted`, `MadeSoFar`),
  the notes are of the command's own files (`OwnNotes`), and what the cursor of
  the clean-up has passed is gone, where deletion works, and stays gone although a
  path may occur twice (`Gone`, `HeadersStay`, `AllStay`).

`CommandLineProofs`, for any set of lines (`VectorsAssumption`):

- `OneRoleCorrect`: the invariant `Sorted` bounds every index by the position of
  the parser and keeps the three lists increasing and disjoint; the operand of
  an `-o` may be `argc` itself, nothing more. `CliTypeOK` is part of it.
- `RunnersFirstCorrect`: `Untouched` says that `main` has overwritten argv only
  where inputs dealt with stood, and that the words taken for flags are of the
  kinds a flag can have. So the flags that stand before `-o` in a runner's command
  line leave the compiler expecting an operand or nothing (`Heard`, unfolded word
  by word), and `Runs` says of each command run what the compiler heard.
- `DropInCorrect`: `Simulated` says that while `main` is at work, the three lists
  and what a compiler has heard of the words passed agree (`Passed`, `Agrees`): the
  inputs are the sources heard, the flags are all else, and the output is named
  either by the flags or by `output_files`. Each branch of the parser keeps that,
  because it puts the word where the compiler would have. The final line
  is the same words in another order: what is heard of two
  lines joined is heard of each (`HeardConcat`), as long as the first leaves no
  operand due, and that is why wrappers and output must come before the flags.
  If an `-o` ends the line, its operand is the NULL that ends argv, and with it
  everything behind is cut (`ExecutedCut`): both lines are then refused.

`MacroExpansionProofs`, for any files (`MacroFilesAssumption`):

- `MacroTypeCorrect`, `OnlyComptimeCorrect`: `Tables` says that the table holds
  nodes before the walk's position; a name enters it with a definition that has
  the keyword, and may then be redefined only further on.
- `KeptOnceCorrect`: `Copying` says that the output so far holds the tokens before
  the cursor that are in no node replaced, each once and in order, and otherwise
  only tokens of macro bodies. The walk may collect a node inside another one; the copying
  loop's assertions, not the order of the list, are what keeps it right. What a
  replacement adds is a fold (`FlattenSeq`), unfolded one piece at a time.
- `ExpansionCorrect`, under `TreeShowsMacros` for the files marked as supported: such a
  file is finished with the text the preprocessor would make of it. The hypothesis
  relates what tree-sitter shows to what the preprocessor sees: the same
  definitions and uses in the order of the text, a parameter and a keyword in a body as
  such, no use of a comptime macro inside another, and as many arguments as parameters.
  It says nothing of the table, the replacements or the output, and `MCMacroExpansion`
  evaluates it on every supported file. `Expanding` is the invariant: the table holds,
  of each name that had a comptime definition, the last definition so far (`Table`),
  which at a use is the one in force (`InForceIsLastBefore`); the replacements are, in
  order, the uses passed, each with the text the preprocessor puts there (`Noted`,
  `NewTextIsSeq`, `SubstitutedIsNewText`); and what the copying loop has put out stands for the
  tokens before the cursor. The reference goes token by token (`Pieces`) and the loop
  use by use, so the proof is about folds over parts of a text (`PartsCopied`: tokens
  outside all uses stand for themselves; `PartsReplaced`: a use stands at its first token).

`ScannersProofs`, for any texts (`TextsAssumption`: sequences without the mark for
their end; an argument list begins and ends with its parentheses):

- `ScanTypeCorrect`: no loop reads outside its text. `InText` adds that the depth
  is less than the position and at least 1 inside a list, and that a literal's
  quote is a quote. The trimming loops have no bound of their own: what stops
  them is the parenthesis at either end of their text (`ListHasParentheses`).
- `StatementCorrect`: `Trims` says what the two loops have skipped. A block of one of
  the usual forms is then what is left between them, with the braces the code puts back.
- `SpanCorrect`: `Reads` relates the loop to how C reads the text, at every
  position: which literal or comment it is in is `Modes[p]`, and the depth is the number of
  parentheses opened less those closed (`Read`). In a text with an unclosed comment that breaks down, and
  nothing is claimed (`Unclosed`).

`TestHarnessProofs`, for any number of tests, any pool of two or more and any
tests with assertions (`HarnessAssumption`):

- `HarnessTypeCorrect`, `EveryChildCorrect`, `PassesCorrect`: `HarnessOK` is
  inductive. Its part `PoolOK` says that the children alive are those of the
  pool behind the wait loop, each once; `RemovedUnordered` that removing one
  element by moving the last loses no other. `OrderOK` says that what is still
  to be started has not been, in this pass and the ones after it.
- `VerdictCorrect`: `VerdictOK` on top of it. `PoolSuffices` rests on a
  counting argument (`APassFitsThePool`): a pass has at most two jobs per test, the pool holds distinct jobs
  of the pass, so a pool of that size is full only when nothing is left to be
  started (cited from `FiniteSetTheorems`). `CountedOK`: a child that ended badly
  is counted, lost, or still there. `FreshOK`: what a job that went well leaves
  is of this invocation, whatever an interrupted one left.

`BuildScriptProofs`, for any bounds and command lines (`BuildAssumption`,
`NoneAssumption`: None is not a file or a version):

- `BuildTypeCorrect`: with `InPlace`, the archives that exist at each step.
- `NobSurvivesCorrect`: `HasNob`: past the check there is a nob, under the
  compiler a nob.old.
- `SelfFollowsSourceCorrect`: `FollowsSource` relates every nob to nob.c through
  times: a nob no older than nob.c is made of its present version, unless nob.c
  was edited under the compiler or in that second (`raced`).
- `BuildIsCurrentCorrect`, `CleanThenBuildIsFreshCorrect`: `Progress` says, step by
  step, what has been made, `AfterClean` that there is no archive between a
  clean and the next build's step for it, so that it has to make both.

The recursive functions and folds these proofs meet (`Modes`, `Heard`, `FlattenSeq`) are
unfolded from their definitions for every argument at once, and what holds of all
positions is then shown of the least position where it would fail
(`SmallestExists` and its like, from `NatLessThanWellFounded`), because the library's
induction theorems take an operator, which no prover here can instantiate.

Model-checked only:

- All liveness (`Terminates`, `Ends`, `InvocationEnds`): fairness and ENABLED are
  out of the prover's reach.
- That the recorded trees satisfy the hypotheses on trees: tree-sitter is external, so
  this is evaluated for the instances' files and cannot be shown of all files.

Every safety invariant and action property of a passing run is stated by a theorem.

There are no recursive operators in the modules with proofs, or below them.

## 5. Not modelled

- tree-sitter and the preprocessor beyond `__COUNTER__`, arguments, skipped
  blocks and comptime macros; a use of `__COUNTER__` by the user shifts the
  numbers as a skipped block does.
- The text of the generated files, logging, the tree dump, memory growth and
  its failure.
- Of the test harness: the format of the results file, the selection of tests
  by name, and its own rebuild (that is `BuildScript`'s). Of the command line:
  the spelling of paths; which file is whose is in `Driver`.
- `nob.h` beyond the process pool, the staleness test and the self-rebuild: the
  dynamic arrays, the string builder, directories, paths and the Windows half
  are data structures and system calls without decisions of their own.
- Of the build script: the exits when the time of a file cannot be read
  (`nob.h:954`), when nob cannot be renamed (`:966`) and when the new nob cannot be
  started (`:983`; that it fails is the outcome of its own steps); that the rename back (`:970`) may fail, which is
  unchecked and would leave only `nob.old`; and the part of an archive that an
  interrupted `ar` leaves.
- The hash map. ccomptime puts and gets and never deletes, so it is a function
  that grows; what an insert does behind a tombstone is never reached.
- Examples and test programs: user programs, whose constructs are the items of
  `Sources` and `MCMacroExpansion`.

## 6. Plan

Done: everything section 2 lists. What would add most, in this order:

1. `MacroExpansion` composed in front of `TreePasses`: spans of the expanded
   text as the trees' positions, so that a block inside a macro is followed from
   the user's text to its statement.
2. The format of the results file and its reader, as a round trip.
3. A reader that meets another command's file half-way through its write in
   `Driver`, for commands that share a source.
