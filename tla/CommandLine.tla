---------------------------- MODULE CommandLine ----------------------------
(***************************************************************************)
(* The command line: CliArgs_parse sorts the words of argv into inputs,    *)
(* outputs, flags and ccomptime's own flags (cli.c), and main makes two    *)
(* kinds of compiler command lines of them (main.c): one for the runner of *)
(* every input, and the final one, in which each input has been replaced   *)
(* by its wrapper.                                                         *)
(*                                                                         *)
(* A word is a record: its kind is what the tests of CliArgs_parse and of  *)
(* a compiler tell apart, its text tells words of one kind apart.  As in   *)
(* C, argv[1] is the compiler and argv[argc] is NULL; argv[0] is not used. *)
(***************************************************************************)
EXTENDS Naturals, Sequences, SequencesExt

CONSTANTS
  Vectors,  \* the argument vectors considered, without argv[0]
  Texts     \* the texts of words

ToolFlags == {"-comptime-debug", "-comptime-no-logs", "-comptime-keep-inter"}
UserKinds ==
  {"compiler",       \* clang, gcc or tcc
   "-o",             \* exactly -o
   "-o<name>",       \* an output glued to its -o: for cli.c a flag like others
   "option",         \* another word that begins with a dash and stands alone
   "option value",   \* one whose value is the next word: -I dir, -MF file
   "source",         \* a name that ends in .c or .C
   "word",           \* any other word: an object, a library, a directory
   "-comptime-?"}    \* an unknown word with ccomptime's prefix
  \cup ToolFlags
Word == [kind : UserKinds, text : Texts]

(* Words that main makes: a wrapper keeps the text of its source.          *)
Null == [kind |-> "NULL", text |-> "NULL"]
Templ == [kind |-> "source", text |-> "runner.templ.c"]
Dash_o == [kind |-> "-o", text |-> "-o"]
Made(kind, text) == [kind |-> kind, text |-> text]

ASSUME VectorsAssumption == Vectors \subseteq Seq(Word)

VARIABLES
  given,         \* the vector as the user wrote it
  argv,          \* the vector, whose inputs main overwrites
  pc,
  i,             \* the word CliArgs_parse is at
  input_files, output_files, flags,  \* lists of indices into argv
  cct_flags,     \* the bits of ccomptime's own flags
  file,          \* index, in input_files, of the input at hand
  readable,      \* the sources that can be read and are not empty
  commands       \* the command lines executed so far

lists == <<input_files, output_files, flags, cct_flags>>
cliVars == <<given, argv, pc, i, lists, file, readable, commands>>

argc == Len(argv) + 1
Ended == {"usage", "unknown flag", "abort", "fatal", "failed", "built"}

CliInit ==
  /\ given \in Vectors
  /\ argv = given
  /\ pc = "cli"
  /\ i = 2
  /\ input_files = <<>> /\ output_files = <<>> /\ flags = <<>>
  /\ cct_flags = {}
  /\ file = 1
  /\ readable \in SUBSET Texts
  /\ commands = <<>>

-----------------------------------------------------------------------------
(* cli.c                                                                   *)

Goto(label) == /\ pc' = label
               /\ UNCHANGED <<given, argv, i, lists, file, readable, commands>>

(* cli and the test of the compiler's name.                                *)
Usage == /\ pc = "cli"
         /\ ~(argc >= 2 /\ argv[1].kind = "compiler")
         /\ Goto("usage")
Cli == /\ pc = "cli"
       /\ argc >= 2 /\ argv[1].kind = "compiler"
       /\ Goto("parse")

At(kinds) == pc = "parse" /\ i < argc /\ argv[i].kind \in kinds
Past(k) == /\ i' = i + k
           /\ UNCHANGED <<given, argv, pc, file, readable, commands>>

(* Faulty variants: the operand is not stepped over; every word that       *)
(* begins with -o is taken for one that stands before its operand.         *)
ScanOutputOnly == /\ At({"-o"})
                  /\ output_files' = output_files \o <<i, i + 1>>
                  /\ UNCHANGED <<input_files, flags, cct_flags>>
                  /\ Past(1)
ScanOutputGlued == /\ At({"-o", "-o<name>"})
                   /\ output_files' = output_files \o <<i, i + 1>>
                   /\ UNCHANGED <<input_files, flags, cct_flags>>
                   /\ Past(2)

(* -o and the word behind it, whatever that is, NULL included.             *)
ScanOutput == /\ At({"-o"})
              /\ output_files' = output_files \o <<i, i + 1>>
              /\ UNCHANGED <<input_files, flags, cct_flags>>
              /\ Past(2)
ScanTool == /\ At(ToolFlags)
            /\ cct_flags' = cct_flags \cup {argv[i].kind}
            /\ UNCHANGED <<input_files, output_files, flags>>
            /\ Past(1)
ScanUnknown == At({"-comptime-?"}) /\ Goto("unknown flag")
ScanInput == /\ At({"source"})
             /\ input_files' = Append(input_files, i)
             /\ UNCHANGED <<output_files, flags, cct_flags>>
             /\ Past(1)
ScanFlag == /\ At({"compiler", "-o<name>", "option", "option value", "word"})
            /\ flags' = Append(flags, i)
            /\ UNCHANGED <<input_files, output_files, cct_flags>>
            /\ Past(1)
Parsed == pc = "parse" /\ i >= argc /\ Goto("next input")

-----------------------------------------------------------------------------
(* main.c                                                                  *)

ArgvAt(k) == IF k < argc THEN argv[k] ELSE Null
(* cmd_append_arg_indeces *)
Indexed(list) == [k \in 1..Len(list) |-> ArgvAt(list[k])]

(* execvp reads up to the first NULL.                                      *)
Executed(cmd) ==
  LET ends == {k \in 1..Len(cmd) : cmd[k] = Null}
  IN IF ends = {} THEN cmd ELSE SubSeq(cmd, 1, (CHOOSE k \in ends : \A l \in ends : k <= l) - 1)

(* build_compile_base_command and the rest of the runner's command line.   *)
BaseCommand ==
  <<argv[1]>> \o Indexed(flags)
    \o IF "-comptime-debug" \in cct_flags
       THEN [k \in 1..3 |-> Made("option", "debug")] ELSE <<Made("option", "-w")>>
RunnerExe(src) == Made("runner", src)
(* Faulty variant: the output stands before the flags.                     *)
RunnerCommandOutputFirst(src) ==
  <<argv[1], Dash_o, RunnerExe(src)>> \o Tail(BaseCommand) \o <<Templ>>
RunnerCommand(src) ==
  BaseCommand \o <<Templ, Dash_o, RunnerExe(src)>> \o [k \in 1..4 |-> Made("option", "-D")]

FinalCommand ==
  <<argv[1]>> \o Indexed(input_files) \o Indexed(output_files) \o Indexed(flags)

Source == argv[input_files[file]].text
AtInput == pc = "next input" /\ file <= Len(input_files)

(* The result of reading is ignored: an absent and an empty file both leave *)
(* raw_source without a buffer, and ts_node_range asserts one.             *)
SourceHasBuffer == Source \in readable

RunFileAborts == AtInput /\ ~SourceHasBuffer /\ Goto("abort")
CompileRunner ==
  /\ AtInput /\ SourceHasBuffer
  /\ commands' = Append(commands, Executed(RunnerCommand(Source)))
  /\ pc' \in {"run runner", "fatal"}
  /\ UNCHANGED <<given, argv, i, lists, file, readable>>
RunRunner ==
  /\ pc = "run runner"
  /\ \/ /\ pc' = "next input"
        /\ argv' = [argv EXCEPT ![input_files[file]] = Made("wrapper", Source)]
        /\ file' = file + 1
     \/ /\ pc' = "failed"
        /\ UNCHANGED <<argv, file>>
  /\ UNCHANGED <<given, i, lists, readable, commands>>
FinalCompile ==
  /\ pc = "next input" /\ file > Len(input_files)
  /\ commands' = Append(commands, Executed(FinalCommand))
  /\ pc' \in {"built", "failed"}
  /\ UNCHANGED <<given, argv, i, lists, file, readable>>

Parse == Cli \/ Usage \/ ScanOutput \/ ScanTool \/ ScanUnknown \/ ScanInput \/ ScanFlag \/ Parsed
Compile == RunFileAborts \/ CompileRunner \/ RunRunner \/ FinalCompile
CliNext == Parse \/ Compile
CliSpec == CliInit /\ [][CliNext]_cliVars

-----------------------------------------------------------------------------
(* What a compiler is told by a command line (external): it reads the words *)
(* from left to right, an option that takes a value takes the next word.   *)

Told0 == [expects |-> "none", sources |-> <<>>, words |-> <<>>,
          options |-> <<>>, outputs |-> <<>>]
Hear(told, w) ==
  CASE told.expects = "output" -> [told EXCEPT !.expects = "none", !.outputs = Append(@, w)]
    [] told.expects = "value" -> [told EXCEPT !.expects = "none", !.options = Append(@, w)]
    [] told.expects = "none" /\ w.kind = "-o" -> [told EXCEPT !.expects = "output"]
    [] told.expects = "none" /\ w.kind = "-o<name>" -> [told EXCEPT !.outputs = Append(@, w)]
    [] told.expects = "none" /\ w.kind = "option value" ->
         [told EXCEPT !.expects = "value", !.options = Append(@, w)]
    [] told.expects = "none" /\ w.kind \in {"source", "wrapper"} ->
         [told EXCEPT !.sources = Append(@, w)]
    [] told.expects = "none" /\ w.kind = "word" -> [told EXCEPT !.words = Append(@, w)]
    [] OTHER -> [told EXCEPT !.options = Append(@, w)]

(* What is heard of a line when the words at some places are left out.     *)
HeardBut(words, omitted) ==
  LET heard[k \in 0..Len(words)] ==
        IF k = 0 THEN Told0
        ELSE IF k \in omitted THEN heard[k - 1]
        ELSE Hear(heard[k - 1], words[k])
  IN heard[Len(words)]
Heard(words) == HeardBut(words, {})

(* A line that ends where an operand is due is refused, whatever it says.  *)
Heeded(told) ==
  IF told.expects = "none" THEN told ELSE [Told0 EXCEPT !.expects = told.expects]
Told(words) == Heeded(Heard(words))

(* Words that cli.c can tell apart although it does not know which options *)
(* take a value: that value is not -o, a source or one of ccomptime's own   *)
(* flags; and at most one output is named.                                 *)
Operand(v, k) == LET before == Heard(SubSeq(v, 2, k - 1)) IN before.expects
Supported(v) ==
  /\ \A k \in 2..Len(v) :
       Operand(v, k) = "value" => v[k].kind \notin {"-o", "source"} \cup ToolFlags
  /\ Len(Heard(Tail(v)).outputs) <= 1

(* The user's own line: without the words meant for ccomptime, with a       *)
(* wrapper for each source.                                                *)
Own(v, k) == v[k].kind \in ToolFlags /\ Operand(v, k) = "none"
Meant(v) ==
  LET told == Heeded(HeardBut(Tail(v), {k \in 1..(Len(v) - 1) : Own(v, k + 1)}))
  IN [told EXCEPT !.sources =
        [k \in 1..Len(told.sources) |-> Made("wrapper", told.sources[k].text)]]

-----------------------------------------------------------------------------
(* Properties.                                                             *)

Increasing(list) == \A k, l \in 1..Len(list) : k < l => list[k] < list[l]
Positions(list) == {list[k] : k \in 1..Len(list)}

(* The variables have their types; no index is beyond argc, where argv ends *)
(* with NULL (an -o that ends the line makes one of argc itself).          *)
CliTypeOK ==
  /\ given \in Seq(Word)
  /\ argv \in Seq(Word \cup {Made("wrapper", t) : t \in Texts})
  /\ Len(argv) = Len(given)
  /\ pc \in {"cli", "parse", "next input", "run runner"} \cup Ended
  /\ i \in 2..(argc + 2)
  /\ input_files \in Seq(2..Len(given))
  /\ flags \in Seq(2..Len(given))
  /\ output_files \in Seq(2..argc)
  /\ cct_flags \in SUBSET ToolFlags
  /\ file \in Nat \ {0}

(* CliArgs_parse puts every word it has passed into exactly one list, once, *)
(* in the order of the command line, or else takes it for a flag of its    *)
(* own; the operand of an -o belongs to that -o whatever it looks like.    *)
OneRoleEach ==
  /\ CliTypeOK
  /\ Increasing(input_files) /\ Increasing(output_files) /\ Increasing(flags)
  /\ Positions(input_files) \cap Positions(output_files) = {}
  /\ Positions(input_files) \cap Positions(flags) = {}
  /\ Positions(output_files) \cap Positions(flags) = {}
  /\ \A k \in 2..(i - 1) :
       \/ k \in Positions(input_files) \cup Positions(output_files) \cup Positions(flags)
       \/ given[k].kind \in cct_flags

(* The final compile tells the compiler what the user told it: the same     *)
(* sources through their wrappers, objects, options with their values and  *)
(* output, each kind in its order, and nothing meant for ccomptime; a line *)
(* whose last operand is missing stays one the compiler refuses.           *)
DropIn ==
  pc \in {"built", "failed"} /\ file > Len(input_files) /\ Supported(given) =>
    Told(Tail(commands[Len(commands)])) = Meant(given)

(* The k-th command compiles the runner of the k-th input.  That input could *)
(* be read, although main ignores the result of reading it; the command     *)
(* reads no source of the user's; and what it names last as its output is   *)
(* the runner, whatever the flags name: no runner overwrites the program.   *)
RunnersFirst ==
  \A k \in 1..Len(commands) :
    k <= Len(input_files) =>
      LET told == Told(Tail(commands[k]))
          source == given[input_files[k]].text
      IN /\ source \in readable
         /\ told.sources = <<Templ>>
         /\ told.outputs[Len(told.outputs)] = RunnerExe(source)
=============================================================================
