------------------------------- MODULE Driver -------------------------------
(***************************************************************************)
(* The ccomptime command (main and run_file in main.c): for every input it *)
(* writes four files, compiles the runner from them, runs it, and writes   *)
(* the wrapper that takes the input's place on the command line; then it   *)
(* calls the compiler on the wrappers and deletes the intermediate files.  *)
(*                                                                         *)
(* The paths of the intermediate files are made from the input's path      *)
(* alone, so commands that run at the same time meet on the disk, and find *)
(* there what an earlier command left.  The compiler, the runner's         *)
(* statements and the file system are external: each of them may fail.     *)
(***************************************************************************)
EXTENDS Naturals, Sequences

CONSTANTS
  Commands,       \* the ccomptime processes; each has flags of its own
  Sources,        \* the source files; each has a comptime block
  Inputs,         \* [Commands -> the sources on the command line, in order]
  KeepInter,      \* the commands given -comptime-keep-inter
  CompileOnly,    \* the commands whose flags stop before linking (-c, -S, -E)
  Stale,          \* the sources edited since an earlier command left its files
  Unwritable      \* the sources beside which a write or a deletion may fail

ASSUME DriverAssumption ==
  /\ Inputs \in [Commands -> Seq(Sources)]
  /\ KeepInter \subseteq Commands /\ CompileOnly \subseteq Commands
  /\ Stale \subseteq Sources /\ Unwritable \subseteq Sources
  /\ Commands \cap {"now", "earlier", "torn", "object"} = {}

VARIABLES
  disk,             \* path -> contents; a path is <<source, kind>>
  pc,               \* command -> what it does next
  at,               \* command -> the input, or the file to remove, at hand
  loaded,           \* command -> the runner that it started
  files_to_remove,  \* command -> paths
  built,            \* command -> whose results each input was built with
  fault             \* command -> something external failed it

driverVars == <<disk, pc, at, loaded, files_to_remove, built, fault>>

(* Context_fill_paths *)
Kinds == {"safe", "defs", "main", "header", "runner", "final"}
Paths == Sources \X Kinds

(* Contents are sequences of marks; an absent file is <<>>.  What run_file *)
(* writes depends on the text of the source: "now", or as it was           *)
(* "earlier".  What a runner does depends on the flags it was compiled     *)
(* with as well: its mark is the command that compiled it.  A header is    *)
(* the mark of its prelude followed by those of the runners that appended. *)
(* What a write that failed has left of its text is "torn".                *)
Absent == <<>>
Marks == Commands \cup {"now", "earlier", "torn", "object"}

Leftover(kind) == IF kind = "header" THEN <<"earlier", "earlier">> ELSE <<"earlier">>

Input(c) == Inputs[c][at[c]]
File(c, kind) == disk[<<Input(c), kind>>]

-----------------------------------------------------------------------------
DriverInit ==
  /\ disk = [path \in Paths |-> IF path[1] \in Stale THEN Leftover(path[2]) ELSE Absent]
  /\ pc = [c \in Commands |-> "passes"]
  /\ at = [c \in Commands |-> 1]
  /\ loaded = [c \in Commands |-> Absent]
  /\ files_to_remove = [c \in Commands |-> <<>>]
  /\ built = [c \in Commands |-> <<>>]
  /\ fault = [c \in Commands |-> FALSE]

Goto(c, label) == pc' = [pc EXCEPT ![c] = label]
Faulty(c) == fault' = [fault EXCEPT ![c] = TRUE]
AtInput(c, label) == pc[c] = label /\ at[c] <= Len(Inputs[c])
WriteTo(c, kind, contents) == disk' = [disk EXCEPT ![<<Input(c), kind>>] = contents]

(* The passes keep everything in memory.                                   *)
Passes(c) ==
  /\ AtInput(c, "passes")
  /\ Goto(c, "safe")
  /\ UNCHANGED <<disk, at, loaded, files_to_remove, built, fault>>

(* A failed assert, a fatal() or a crash ends the command.                 *)
PassesFail(c) ==
  /\ AtInput(c, "passes")
  /\ Goto(c, "failure") /\ Faulty(c)
  /\ UNCHANGED <<disk, at, loaded, files_to_remove, built>>

(* Faulty variant of NextLabel: the header of the last time is kept.       *)
NextLabelNoHeader ==
  [safe |-> "defs", defs |-> "main", main |-> "compile", header |-> "compile",
   final |-> "replace"]

(* The nob_write_entire_file calls, and the order they are made in: the    *)
(* last is write_final_wrapper's.  None of their results is looked at.     *)
NextLabel ==
  [safe |-> "defs", defs |-> "main", main |-> "header", header |-> "compile",
   final |-> "replace"]

Write(c) ==
  \E kind \in DOMAIN NextLabel :
    /\ AtInput(c, kind)
    /\ WriteTo(c, kind, <<"now">>)
    /\ Goto(c, NextLabel[kind])
    /\ UNCHANGED <<at, loaded, files_to_remove, built, fault>>

(* The file stays as it was if it cannot be opened; if it can, it has lost *)
(* its old text before the new one fails to get there.                     *)
WriteFails(c) ==
  \E kind \in DOMAIN NextLabel :
    /\ AtInput(c, kind) /\ Input(c) \in Unwritable
    /\ UNCHANGED disk \/ WriteTo(c, kind, <<"torn">>)
    /\ Goto(c, NextLabel[kind]) /\ Faulty(c)
    /\ UNCHANGED <<at, loaded, files_to_remove, built>>

(* build_compile_base_command passes the command's flags on, -c included.  *)
Parts(c) == [kind \in {"safe", "defs", "main"} |-> File(c, kind)]
PartsPresent(c) == \A kind \in DOMAIN Parts(c) : Parts(c)[kind] # Absent
PartsAreNow(c) == \A kind \in DOMAIN Parts(c) : Parts(c)[kind] = <<"now">>

RunnerCompiledBy(c) ==
  IF c \in CompileOnly THEN <<"object">>
  ELSE IF PartsAreNow(c) THEN <<c>>
  ELSE IF \E kind \in DOMAIN Parts(c) : Parts(c)[kind] = <<"torn">> THEN <<"torn">>
  ELSE <<"earlier">>

(* Faulty variant of CompileRunner: a runner that exists is not rebuilt.   *)
CompileRunnerOnce(c) ==
  /\ AtInput(c, "compile")
  /\ PartsPresent(c)
  /\ IF File(c, "runner") # Absent THEN UNCHANGED disk
     ELSE WriteTo(c, "runner", RunnerCompiledBy(c))
  /\ Goto(c, "start")
  /\ UNCHANGED <<at, loaded, files_to_remove, built, fault>>

CompileRunner(c) ==
  /\ AtInput(c, "compile")
  /\ PartsPresent(c)
  /\ WriteTo(c, "runner", RunnerCompiledBy(c))
  /\ Goto(c, "start")
  /\ UNCHANGED <<at, loaded, files_to_remove, built, fault>>

(* fatal("Failed to compile comptime runner"): what the user wrote is      *)
(* wrong, or the files are not the ones this command wrote.                *)
CompileRunnerFails(c) ==
  /\ AtInput(c, "compile")
  /\ Goto(c, "failure")
  /\ fault' = [fault EXCEPT ![c] = @ \/ PartsAreNow(c)]
  /\ UNCHANGED <<disk, at, loaded, files_to_remove, built>>

Executable(contents) == contents \notin {Absent, <<"object">>}

StartRunner(c) ==
  /\ AtInput(c, "start")
  /\ Executable(File(c, "runner"))
  /\ loaded' = [loaded EXCEPT ![c] = File(c, "runner")]
  /\ Goto(c, "running")
  /\ UNCHANGED <<disk, at, files_to_remove, built, fault>>

(* The runner is no executable, or no process can be made.                 *)
StartRunnerFails(c) ==
  /\ AtInput(c, "start")
  /\ Goto(c, "failure")
  /\ fault' = [fault EXCEPT ![c] = @ \/ Executable(File(c, "runner"))]
  /\ UNCHANGED <<disk, at, loaded, files_to_remove, built>>

(* The runner opened the header to append to it: its results go to the end *)
(* of whatever the header is by then.                                      *)
RunnerEnds(c) ==
  /\ AtInput(c, "running")
  /\ WriteTo(c, "header", File(c, "header") \o loaded[c])
  /\ Goto(c, "final")
  /\ UNCHANGED <<at, loaded, files_to_remove, built, fault>>

(* The runner looks at the result of none of its writes: it ends well with *)
(* its results cut short, or without any of them on the disk.              *)
RunnerWritesTorn(c) ==
  /\ AtInput(c, "running") /\ Input(c) \in Unwritable
  /\ WriteTo(c, "header", Append(File(c, "header"), "torn"))
  /\ Goto(c, "final") /\ Faulty(c)
  /\ UNCHANGED <<at, loaded, files_to_remove, built>>

(* A statement crashed or called exit, or the header could not be opened.  *)
RunnerFails(c) ==
  /\ AtInput(c, "running")
  /\ Goto(c, "failure") /\ Faulty(c)
  /\ UNCHANGED <<disk, at, loaded, files_to_remove, built>>

(* Faulty variant of NextInput: the executable is not noted.               *)
NextInputFourPaths(c) ==
  /\ AtInput(c, "replace")
  /\ files_to_remove' =
       [files_to_remove EXCEPT ![c] =
          @ \o <<<<Input(c), "main">>, <<Input(c), "defs">>, <<Input(c), "safe">>,
                 <<Input(c), "final">>>>]
  /\ at' = [at EXCEPT ![c] = @ + 1]
  /\ Goto(c, "passes")
  /\ UNCHANGED <<disk, loaded, built, fault>>

(* The wrapper takes the input's place; five paths are noted for removal.  *)
NextInput(c) ==
  /\ AtInput(c, "replace")
  /\ files_to_remove' =
       [files_to_remove EXCEPT ![c] =
          @ \o <<<<Input(c), "main">>, <<Input(c), "defs">>, <<Input(c), "safe">>,
                 <<Input(c), "runner">>, <<Input(c), "final">>>>]
  /\ at' = [at EXCEPT ![c] = @ + 1]
  /\ Goto(c, "passes")
  /\ UNCHANGED <<disk, loaded, built, fault>>

-----------------------------------------------------------------------------
(* The compiler reads every wrapper, and through it the header and the     *)
(* source; where two runners have appended, the macros of the later one    *)
(* hold.  A prelude makes calls of the blocks, which no macro answers if   *)
(* no runner appended.  A header without its prelude does nothing, and     *)
(* then ccomptime.h, if the source includes it, defines _Comptime(...) as  *)
(* nothing: the program is built without the results.                      *)
AtFinal(c) == pc[c] = "passes" /\ at[c] > Len(Inputs[c])

Preludes == {"now", "earlier"}

Compilable(s) ==
  /\ disk[<<s, "final">>] # Absent
  /\ disk[<<s, "header">>] \notin {Absent} \cup {<<mark>> : mark \in Preludes}

Result(s) ==
  LET header == disk[<<s, "header">>]
      damaged == \/ disk[<<s, "final">>] = <<"torn">>
                 \/ header[1] \notin Preludes
                 \/ \E k \in DOMAIN header : header[k] = "torn"
  IN IF damaged THEN "torn" ELSE header[Len(header)]

(* Faulty variant of FinalCompile: the removal starts one too low.         *)
FinalCompileFromZero(c) ==
  /\ AtFinal(c)
  /\ \A i \in DOMAIN Inputs[c] : Compilable(Inputs[c][i])
  /\ built' = [built EXCEPT ![c] =
                 [i \in DOMAIN Inputs[c] |-> Result(Inputs[c][i])]]
  /\ at' = [at EXCEPT ![c] = 0]
  /\ Goto(c, "clean")
  /\ UNCHANGED <<disk, loaded, files_to_remove, fault>>

FinalCompile(c) ==
  /\ AtFinal(c)
  /\ \A i \in DOMAIN Inputs[c] : Compilable(Inputs[c][i])
  /\ built' = [built EXCEPT ![c] =
                 [i \in DOMAIN Inputs[c] |-> Result(Inputs[c][i])]]
  /\ at' = [at EXCEPT ![c] = 1]
  /\ Goto(c, "clean")
  /\ UNCHANGED <<disk, loaded, files_to_remove, fault>>

(* main returns 1 and removes nothing.  The blame is the user's code when  *)
(* every file is the one this command and its runners made.                *)
Intact(c, s) ==
  disk[<<s, "final">>] # Absent /\ disk[<<s, "header">>] = <<"now", c>>

FinalCompileFails(c) ==
  /\ AtFinal(c)
  /\ Goto(c, "failure")
  /\ fault' = [fault EXCEPT ![c] =
                 @ \/ \A i \in DOMAIN Inputs[c] : Intact(c, Inputs[c][i])]
  /\ UNCHANGED <<disk, at, loaded, files_to_remove, built>>

(* Faulty variant of RemoveFile: a kept file is never passed by.           *)
RemoveFileStays(c) ==
  /\ pc[c] = "clean" /\ at[c] <= Len(files_to_remove[c])
  /\ c \notin KeepInter
  /\ disk' = [disk EXCEPT ![files_to_remove[c][at[c]]] = Absent]
  /\ at' = [at EXCEPT ![c] = @ + 1]
  /\ UNCHANGED <<pc, loaded, files_to_remove, built, fault>>

RemoveFile(c) ==
  /\ pc[c] = "clean" /\ at[c] <= Len(files_to_remove[c])
  /\ disk' = IF c \in KeepInter THEN disk
             ELSE [disk EXCEPT ![files_to_remove[c][at[c]]] = Absent]
  /\ at' = [at EXCEPT ![c] = @ + 1]
  /\ UNCHANGED <<pc, loaded, files_to_remove, built, fault>>

(* main does not look at the result of delete_file.                        *)
RemoveFails(c) ==
  /\ pc[c] = "clean" /\ at[c] <= Len(files_to_remove[c])
  /\ c \notin KeepInter /\ files_to_remove[c][at[c]][1] \in Unwritable
  /\ at' = [at EXCEPT ![c] = @ + 1]
  /\ Faulty(c)
  /\ UNCHANGED <<disk, pc, loaded, files_to_remove, built>>

Return(c) ==
  /\ pc[c] = "clean" /\ at[c] > Len(files_to_remove[c])
  /\ Goto(c, "success")
  /\ UNCHANGED <<disk, at, loaded, files_to_remove, built, fault>>

Step(c) ==
  \/ Passes(c) \/ PassesFail(c)
  \/ Write(c) \/ WriteFails(c)
  \/ CompileRunner(c) \/ CompileRunnerFails(c)
  \/ StartRunner(c) \/ StartRunnerFails(c)
  \/ RunnerEnds(c) \/ RunnerWritesTorn(c) \/ RunnerFails(c)
  \/ NextInput(c)
  \/ FinalCompile(c) \/ FinalCompileFails(c)
  \/ RemoveFile(c) \/ RemoveFails(c) \/ Return(c)

DriverNext == \E c \in Commands : Step(c)

(* Commands are processes that never wait for each other.  nob_cmd_run     *)
(* waits for a subprocess without a timeout: the compiler is assumed to    *)
(* end, and so are the statements.                                         *)
DriverSpec ==
  DriverInit /\ [][DriverNext]_driverVars /\ \A c \in Commands : WF_driverVars(Step(c))

-----------------------------------------------------------------------------
(* The type of the variables of main, of its processes and of the disk.    *)
DriverTypeOK ==
  /\ disk \in [Paths -> Seq(Marks)]
  /\ pc \in [Commands -> {"passes", "compile", "start", "running", "replace", "clean",
                          "success", "failure"} \cup DOMAIN NextLabel]
  /\ at \in [Commands -> Nat \ {0}]
  /\ loaded \in [Commands -> Seq(Marks)]
  /\ files_to_remove \in [Commands -> Seq(Paths)]
  /\ built \in [Commands -> Seq(Marks)]
  /\ fault \in [Commands -> BOOLEAN]

(* A program that was built was built from the results of the command's    *)
(* own runners, compiled from the sources as they are now, and never from  *)
(* another command's.  Results of an earlier time, cut short or missing    *)
(* are in it only for a source beside which files cannot be written, and   *)
(* only after something failed: no write's result is looked at.            *)
OwnResults ==
  \A c \in Commands :
    pc[c] = "success" =>
      /\ Len(built[c]) = Len(Inputs[c])
      /\ \A i \in DOMAIN built[c] :
           \/ built[c][i] = c
           \/ /\ built[c][i] \in {"earlier", "torn"}
              /\ fault[c] /\ Inputs[c][i] \in Unwritable

(* After a success exactly the generated headers are left of what the      *)
(* command made, also when a source was named twice; or every file, when   *)
(* it was told -comptime-keep-inter.  Where a deletion can fail more may   *)
(* be left.                                                                *)
LeftAsTold ==
  \A c \in Commands :
    pc[c] = "success" =>
      \A i \in DOMAIN Inputs[c], kind \in Kinds :
        LET present == disk[<<Inputs[c][i], kind>>] # Absent
        IN IF kind = "header" \/ c \in KeepInter THEN present
           ELSE Inputs[c][i] \notin Unwritable => ~present

(* A command that fails has a reason outside ccomptime: the user's code,   *)
(* or a file that could not be written.  It never fails over files of its  *)
(* own making, or of an earlier command's.                                 *)
NoSpuriousFailure == \A c \in Commands : pc[c] = "failure" => fault[c]

(* Every command ends, whatever fails.                                     *)
Terminates == \A c \in Commands : <>(pc[c] \in {"success", "failure"})
=============================================================================
