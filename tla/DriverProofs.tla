---------------------------- MODULE DriverProofs ----------------------------
(***************************************************************************)
(* Theorems about Driver, for any number of commands with any inputs: the  *)
(* types, and, when no two commands name the same source, that a command   *)
(* is built from its own results only and fails only for outside reasons.  *)
(***************************************************************************)
EXTENDS Driver, SequenceTheorems, TLAPS

Named(c) == {Inputs[c][i] : i \in DOMAIN Inputs[c]}

(* The commands do not meet on the disk, and the runner is linked.         *)
Apart ==
  /\ \A c, d \in Commands : c # d => Named(c) \cap Named(d) = {}
  /\ CompileOnly = {}

-----------------------------------------------------------------------------
(* The inductive invariant, one command at a time.                         *)

(* Source s is the one that run_file is at work on.                        *)
AtWork(c, s) ==
  /\ at[c] <= Len(Inputs[c]) /\ Input(c) = s
  /\ pc[c] \in {"safe", "defs", "main", "header", "compile", "start", "running",
                "final", "replace"}

Holds(s, kind, contents) == disk[<<s, kind>>] = contents

(* What has been written of s when nothing has failed.                     *)
UnderWay(c, s) ==
  /\ pc[c] \in {"defs", "main", "header", "compile"} => Holds(s, "safe", <<"now">>)
  /\ pc[c] \in {"main", "header", "compile"} => Holds(s, "defs", <<"now">>)
  /\ pc[c] \in {"header", "compile"} => Holds(s, "main", <<"now">>)
  /\ pc[c] \in {"compile", "start", "running"} => Holds(s, "header", <<"now">>)
  /\ pc[c] = "start" => Holds(s, "runner", <<c>>)
  /\ pc[c] \in {"final", "replace"} => Holds(s, "header", <<"now", c>>)
  /\ pc[c] = "replace" => Holds(s, "final", <<"now">>)

Ready(c, s) == Holds(s, "header", <<"now", c>>) /\ Holds(s, "final", <<"now">>)

(* s was dealt with by an earlier round of main's loop.                    *)
Earlier(c, s) == \E j \in DOMAIN Inputs[c] : j < at[c] /\ Inputs[c][j] = s

Over(c) == pc[c] \in {"clean", "success", "failure"}

Strong(c, s) ==
  ~Over(c) => IF AtWork(c, s) THEN UnderWay(c, s) ELSE Earlier(c, s) => Ready(c, s)

(* What holds of s even if a write has failed: there is nothing of another *)
(* command, only of this one or of an earlier time, whole or torn.         *)
Weak(c, s) ==
  /\ disk[<<s, "runner">>] \in {Absent, <<c>>, <<"earlier">>, <<"torn">>}
  /\ \A k \in DOMAIN disk[<<s, "header">>] :
       k >= 2 => disk[<<s, "header">>][k] \in {c, "earlier", "torn"}

OwnFiles(c) ==
  \A k \in DOMAIN files_to_remove[c] : files_to_remove[c][k] \in Named(c) \X Kinds

OwnDisk(c) ==
  /\ \A s \in Named(c) : s \notin Unwritable \/ ~fault[c] => Strong(c, s)
  /\ \A s \in Named(c) : s \in Unwritable => Weak(c, s)

(* What may become of input i: its own results, or what a failure leaves.  *)
Excused(c, s) == fault[c] /\ s \in Unwritable

StartedOwn(c) ==
  loaded[c] = <<c>> \/ (loaded[c] \in {<<"earlier">>, <<"torn">>} /\ Excused(c, Input(c)))

BuiltOwn(c) ==
  /\ Len(built[c]) = Len(Inputs[c])
  /\ \A i \in DOMAIN built[c] :
       built[c][i] = c \/ (built[c][i] \in {"earlier", "torn"} /\ Excused(c, Inputs[c][i]))

Outcome(c) ==
  /\ pc[c] = "running" => StartedOwn(c)
  /\ pc[c] \in {"clean", "success"} => BuiltOwn(c)
  /\ pc[c] = "failure" => fault[c]

LocalInv(c) == OwnFiles(c) /\ OwnDisk(c) /\ Outcome(c)

IInv == DriverTypeOK /\ \A c \in Commands : LocalInv(c)

-----------------------------------------------------------------------------
(* Types.                                                                  *)

(* NextLabel's labels are the five kinds of file that ccomptime writes.    *)
LEMMA Labels ==
  /\ DOMAIN NextLabel = {"safe", "defs", "main", "header", "final"}
  /\ \A kind \in DOMAIN NextLabel :
       NextLabel[kind] \in {"defs", "main", "header", "compile", "replace"}
BY DEF NextLabel

(* A function on 1 .. n is a sequence.                                     *)
LEMMA FunctionIsSeq ==
  ASSUME NEW S, NEW n \in Nat, NEW f \in [1 .. n -> S]
  PROVE  f \in Seq(S)
BY SeqDef

(* The input at hand is a source, and one that the command names.          *)
LEMMA InputNamed ==
  ASSUME DriverTypeOK, NEW c \in Commands, at[c] <= Len(Inputs[c])
  PROVE  /\ at[c] \in DOMAIN Inputs[c]
         /\ Input(c) \in Named(c)
         /\ Input(c) \in Sources
<1>1. Inputs[c] \in Seq(Sources)
  BY DriverAssumption
<1>2. at[c] \in 1 .. Len(Inputs[c])
  BY DEF DriverTypeOK
<1>. QED
  BY <1>1, <1>2 DEF Input, Named

(* What ccomptime and the compiler write are sequences of marks.           *)
LEMMA Contents ==
  ASSUME NEW c \in Commands
  PROVE  /\ Absent \in Seq(Marks) /\ <<"now">> \in Seq(Marks)
         /\ <<"torn">> \in Seq(Marks) /\ "torn" \in Marks
         /\ <<c>> \in Seq(Marks) /\ RunnerCompiledBy(c) \in Seq(Marks)
<1>1. "now" \in Marks /\ c \in Marks /\ "earlier" \in Marks /\ "object" \in Marks
      /\ "torn" \in Marks
  BY DEF Marks
<1>. QED
  BY <1>1 DEF Absent, RunnerCompiledBy

(* A write beside the input at hand keeps the disk's type.                 *)
LEMMA WriteTyped ==
  ASSUME DriverTypeOK, NEW c \in Commands, at[c] <= Len(Inputs[c]),
         NEW kind \in Kinds, NEW contents \in Seq(Marks), WriteTo(c, kind, contents)
  PROVE  disk' \in [Paths -> Seq(Marks)]
<1>1. <<Input(c), kind>> \in Paths
  BY InputNamed DEF Paths
<1>. QED
  BY <1>1 DEF WriteTo, DriverTypeOK

(* The command starts in its types.                                        *)
LEMMA TypeInit == DriverInit => DriverTypeOK
<1>. SUFFICES ASSUME DriverInit PROVE DriverTypeOK
  OBVIOUS
<1>1. \A kind : Leftover(kind) \in Seq(Marks)
  BY DEF Leftover, Marks
<1>2. \A path \in Paths :
        (IF path[1] \in Stale THEN Leftover(path[2]) ELSE Absent) \in Seq(Marks)
  BY <1>1 DEF Absent
<1>. HIDE DEF Leftover
<1>5. disk \in [Paths -> Seq(Marks)]
  BY <1>2 DEF DriverInit
<1>3. /\ at \in [Commands -> Nat \ {0}]
      /\ fault \in [Commands -> BOOLEAN]
      /\ files_to_remove \in [Commands -> Seq(Paths)]
      /\ built \in [Commands -> Seq(Marks)]
      /\ loaded \in [Commands -> Seq(Marks)]
  BY DEF DriverInit, Absent
<1>4. pc \in [Commands -> {"passes", "compile", "start", "running", "replace", "clean",
                           "success", "failure"} \cup DOMAIN NextLabel]
  BY DEF DriverInit
<1>. QED
  BY <1>3, <1>4, <1>5 DEF DriverTypeOK

(* A sequence that is not empty has a last element.                        *)
LEMMA HasLast ==
  ASSUME NEW S, NEW q \in Seq(S), q # <<>>
  PROVE  Len(q) \in DOMAIN q /\ q[Len(q)] \in S /\ Len(q) >= 1 /\ 1 \in DOMAIN q
<1>1. Len(q) \in Nat /\ DOMAIN q = 1 .. Len(q)
  OBVIOUS
<1>2. Len(q) # 0
  BY EmptySeq
<1>. QED
  BY <1>1, <1>2

(* What a source is built with is a mark.                                  *)
LEMMA ResultIsMark ==
  ASSUME NEW s, disk[<<s, "header">>] \in Seq(Marks), disk[<<s, "header">>] # Absent
  PROVE  Result(s) \in Marks
<1>1. "torn" \in Marks
  BY DEF Marks
<1>2. disk[<<s, "header">>][Len(disk[<<s, "header">>])] \in Marks
  BY HasLast DEF Absent
<1>. QED
  BY <1>1, <1>2 DEF Result

(* Every step of every command keeps the types.                            *)
LEMMA TypeStep ==
  ASSUME DriverTypeOK, NEW c \in Commands, Step(c)
  PROVE  DriverTypeOK'
<1>. USE Labels, Contents DEF DriverTypeOK
<1>1. CASE Passes(c) \/ PassesFail(c)
  BY <1>1 DEF Passes, PassesFail, Goto, Faulty
<1>2. CASE Write(c)
  <2>. PICK kind \in DOMAIN NextLabel :
         /\ AtInput(c, kind)
         /\ WriteTo(c, kind, <<"now">>)
         /\ Goto(c, NextLabel[kind])
         /\ UNCHANGED <<at, loaded, files_to_remove, built, fault>>
    BY <1>2 DEF Write
  <2>1. disk' \in [Paths -> Seq(Marks)]
    <3>1. kind \in Kinds /\ <<"now">> \in Seq(Marks) /\ at[c] <= Len(Inputs[c])
      BY DEF AtInput, Kinds
    <3>. QED
      BY <3>1, WriteTyped
  <2>. QED
    BY <2>1 DEF Goto
<1>3. CASE WriteFails(c)
  <2>. PICK kind \in DOMAIN NextLabel :
         /\ AtInput(c, kind) /\ Input(c) \in Unwritable
         /\ UNCHANGED disk \/ WriteTo(c, kind, <<"torn">>)
         /\ Goto(c, NextLabel[kind]) /\ Faulty(c)
         /\ UNCHANGED <<at, loaded, files_to_remove, built>>
    BY <1>3 DEF WriteFails
  <2>1. disk' \in [Paths -> Seq(Marks)]
    <3>1. kind \in Kinds /\ <<"torn">> \in Seq(Marks) /\ at[c] <= Len(Inputs[c])
      BY DEF AtInput, Kinds
    <3>. QED
      BY <3>1, WriteTyped
  <2>. QED
    BY <2>1 DEF Goto, Faulty
<1>4. CASE CompileRunner(c)
  <2>1. disk' \in [Paths -> Seq(Marks)]
    BY <1>4, WriteTyped DEF CompileRunner, AtInput, Kinds
  <2>. QED
    BY <1>4, <2>1 DEF CompileRunner, Goto
<1>5. CASE CompileRunnerFails(c)
  BY <1>5 DEF CompileRunnerFails, Goto, PartsAreNow
<1>6. CASE StartRunner(c)
  <2>1. File(c, "runner") \in Seq(Marks)
    BY <1>6, InputNamed DEF StartRunner, AtInput, File, Paths, Kinds
  <2>. QED
    BY <1>6, <2>1 DEF StartRunner, Goto
<1>7. CASE StartRunnerFails(c)
  BY <1>7 DEF StartRunnerFails, Goto, Executable
<1>8. CASE RunnerEnds(c)
  <2>1. File(c, "header") \in Seq(Marks)
    BY <1>8, InputNamed DEF RunnerEnds, AtInput, File, Paths, Kinds
  <2>2. File(c, "header") \o loaded[c] \in Seq(Marks)
    BY <2>1
  <2>3. disk' \in [Paths -> Seq(Marks)]
    BY <1>8, <2>2, WriteTyped DEF RunnerEnds, AtInput, Kinds
  <2>. QED
    BY <1>8, <2>3 DEF RunnerEnds, Goto
<1>9. CASE RunnerFails(c)
  BY <1>9 DEF RunnerFails, Goto, Faulty
<1>15. CASE RunnerWritesTorn(c)
  <2>1. File(c, "header") \in Seq(Marks)
    BY <1>15, InputNamed DEF RunnerWritesTorn, AtInput, File, Paths, Kinds
  <2>2. Append(File(c, "header"), "torn") \in Seq(Marks)
    BY <2>1
  <2>3. disk' \in [Paths -> Seq(Marks)]
    BY <1>15, <2>2, WriteTyped DEF RunnerWritesTorn, AtInput, Kinds
  <2>. QED
    BY <1>15, <2>3 DEF RunnerWritesTorn, Goto, Faulty
<1>10. CASE NextInput(c)
  <2>1. \A kind \in Kinds : <<Input(c), kind>> \in Paths
    BY <1>10, InputNamed DEF NextInput, AtInput, Paths
  <2>2. files_to_remove' \in [Commands -> Seq(Paths)]
    BY <1>10, <2>1 DEF NextInput, Kinds
  <2>3. at' \in [Commands -> Nat \ {0}]
    BY <1>10 DEF NextInput
  <2>4. pc' \in [Commands -> {"passes", "compile", "start", "running", "replace",
                   "clean", "success", "failure"} \cup DOMAIN NextLabel]
    BY <1>10 DEF NextInput, Goto
  <2>. QED
    BY <1>10, <2>2, <2>3, <2>4 DEF NextInput
<1>11. CASE FinalCompile(c)
  <2>1. \A i \in DOMAIN Inputs[c] : Result(Inputs[c][i]) \in Marks
    <3>. SUFFICES ASSUME NEW i \in DOMAIN Inputs[c]
                  PROVE  Result(Inputs[c][i]) \in Marks
      OBVIOUS
    <3>1. Inputs[c][i] \in Sources
      BY DriverAssumption
    <3>2. disk[<<Inputs[c][i], "header">>] \in Seq(Marks)
      BY <3>1 DEF Paths, Kinds
    <3>3. disk[<<Inputs[c][i], "header">>] # Absent
      BY <1>11 DEF FinalCompile, Compilable
    <3>. QED
      BY <3>2, <3>3, ResultIsMark
  <2>2. [i \in DOMAIN Inputs[c] |-> Result(Inputs[c][i])] \in Seq(Marks)
    <3> DEFINE last == [i \in DOMAIN Inputs[c] |-> Result(Inputs[c][i])]
    <3>1. DOMAIN Inputs[c] = 1 .. Len(Inputs[c]) /\ Len(Inputs[c]) \in Nat
      BY DriverAssumption
    <3>2. last \in [1 .. Len(Inputs[c]) -> Marks]
      BY <2>1, <3>1
    <3>. HIDE DEF last
    <3>3. last \in Seq(Marks)
      BY <3>1, <3>2, FunctionIsSeq
    <3>. QED
      BY <3>3 DEF last
  <2>. QED
    BY <1>11, <2>2 DEF FinalCompile, Goto
<1>12. CASE FinalCompileFails(c)
  BY <1>12 DEF FinalCompileFails, Goto, Intact
<1>13. CASE RemoveFile(c)
  <2>1. disk' \in [Paths -> Seq(Marks)]
    BY <1>13 DEF RemoveFile
  <2>. QED
    BY <1>13, <2>1 DEF RemoveFile
<1>16. CASE RemoveFails(c)
  BY <1>16 DEF RemoveFails, Faulty
<1>14. CASE Return(c)
  BY <1>14 DEF Return, Goto
<1>. QED
  BY <1>1, <1>2, <1>3, <1>4, <1>5, <1>6, <1>7, <1>8, <1>9, <1>10, <1>11, <1>12,
     <1>13, <1>14, <1>15, <1>16 DEF Step

(* The variables of every command, and the disk, keep their types.         *)
THEOREM DriverTypeCorrect == DriverSpec => []DriverTypeOK
<1>1. DriverTypeOK /\ [DriverNext]_driverVars => DriverTypeOK'
  <2>. SUFFICES ASSUME DriverTypeOK, [DriverNext]_driverVars PROVE DriverTypeOK'
    OBVIOUS
  <2>1. CASE DriverNext
    BY <2>1, TypeStep DEF DriverNext
  <2>2. CASE UNCHANGED driverVars
    BY <2>2 DEF driverVars, DriverTypeOK
  <2>. QED
    BY <2>1, <2>2
<1>. QED
  BY <1>1, TypeInit, PTL DEF DriverSpec

-----------------------------------------------------------------------------
(* No command disturbs another.                                            *)

(* What command d sees is as it was.                                       *)
Undisturbed(d) ==
  /\ pc'[d] = pc[d] /\ at'[d] = at[d] /\ loaded'[d] = loaded[d]
  /\ files_to_remove'[d] = files_to_remove[d]
  /\ built'[d] = built[d] /\ fault'[d] = fault[d]
  /\ \A s \in Named(d), kind \in Kinds : disk'[<<s, kind>>] = disk[<<s, kind>>]

(* The sources that a command names are sources.                           *)
LEMMA NamedSources == \A c \in Commands : Named(c) \subseteq Sources
BY DriverAssumption DEF Named

(* A write changes one path, of the input at hand.                         *)
LEMMA Written ==
  ASSUME DriverTypeOK, NEW c \in Commands, at[c] <= Len(Inputs[c]),
         NEW kind \in Kinds, NEW contents, WriteTo(c, kind, contents)
  PROVE  /\ disk'[<<Input(c), kind>>] = contents
         /\ \A s, k : s # Input(c) \/ k # kind => disk'[<<s, k>>] = disk[<<s, k>>]
<1>1. <<Input(c), kind>> \in Paths
  BY InputNamed DEF Paths
<1>. QED
  BY <1>1 DEF WriteTo, DriverTypeOK

(* A write of one command is beside none of the other's sources.           *)
LEMMA WriteApart ==
  ASSUME DriverTypeOK, Apart, NEW c \in Commands, NEW d \in Commands, c # d,
         at[c] <= Len(Inputs[c]),
         NEW kind \in Kinds, NEW contents, WriteTo(c, kind, contents)
  PROVE  \A s \in Named(d), k \in Kinds : disk'[<<s, k>>] = disk[<<s, k>>]
<1>1. Input(c) \notin Named(d)
  BY InputNamed DEF Apart
<1>2. \A s, k : s # Input(c) \/ k # kind => disk'[<<s, k>>] = disk[<<s, k>>]
  BY Written
<1>. QED
  BY <1>1, <1>2

(* A step of one command leaves all that another sees alone.               *)
LEMMA Frame ==
  ASSUME DriverTypeOK, Apart, NEW c \in Commands, NEW d \in Commands, c # d,
         OwnFiles(c), Step(c)
  PROVE  Undisturbed(d)
<1>. USE DEF DriverTypeOK, Undisturbed
<1>1. CASE Passes(c) \/ PassesFail(c) \/ RemoveFails(c)
  BY <1>1 DEF Passes, PassesFail, RemoveFails, Goto, Faulty
<1>2. CASE Write(c)
  <2>. PICK kind \in DOMAIN NextLabel :
         /\ AtInput(c, kind)
         /\ WriteTo(c, kind, <<"now">>)
         /\ Goto(c, NextLabel[kind])
         /\ UNCHANGED <<at, loaded, files_to_remove, built, fault>>
    BY <1>2 DEF Write
  <2>1. kind \in Kinds /\ at[c] <= Len(Inputs[c])
    BY Labels DEF AtInput, Kinds
  <2>. QED
    BY <2>1, WriteApart DEF Goto
<1>11. CASE WriteFails(c)
  <2>. PICK kind \in DOMAIN NextLabel :
         /\ AtInput(c, kind) /\ Input(c) \in Unwritable
         /\ UNCHANGED disk \/ WriteTo(c, kind, <<"torn">>)
         /\ Goto(c, NextLabel[kind]) /\ Faulty(c)
         /\ UNCHANGED <<at, loaded, files_to_remove, built>>
    BY <1>11 DEF WriteFails
  <2>1. kind \in Kinds /\ at[c] <= Len(Inputs[c])
    BY Labels DEF AtInput, Kinds
  <2>. QED
    BY <2>1, WriteApart DEF Goto, Faulty
<1>12. CASE RunnerWritesTorn(c)
  BY <1>12, WriteApart DEF RunnerWritesTorn, AtInput, Goto, Faulty, Kinds
<1>3. CASE CompileRunner(c)
  BY <1>3, WriteApart DEF CompileRunner, AtInput, Goto, Kinds
<1>4. CASE CompileRunnerFails(c) \/ StartRunnerFails(c) \/ RunnerFails(c)
  BY <1>4 DEF CompileRunnerFails, StartRunnerFails, RunnerFails, Goto, Faulty
<1>5. CASE StartRunner(c)
  BY <1>5 DEF StartRunner, Goto
<1>6. CASE RunnerEnds(c)
  BY <1>6, WriteApart DEF RunnerEnds, AtInput, Goto, Kinds
<1>7. CASE NextInput(c)
  BY <1>7 DEF NextInput, Goto
<1>8. CASE FinalCompile(c) \/ FinalCompileFails(c)
  BY <1>8 DEF FinalCompile, FinalCompileFails, Goto
<1>9. CASE RemoveFile(c)
  <2>1. at[c] \in DOMAIN files_to_remove[c]
    BY <1>9 DEF RemoveFile
  <2>2. files_to_remove[c][at[c]] \in Named(c) \X Kinds
    BY <2>1 DEF OwnFiles
  <2>3. \A s \in Named(d), k \in Kinds :
          <<s, k>> \in Paths /\ <<s, k>> # files_to_remove[c][at[c]]
    BY <2>2, NamedSources DEF Apart, Paths
  <2>4. \A s \in Named(d), k \in Kinds : disk'[<<s, k>>] = disk[<<s, k>>]
    BY <1>9, <2>3 DEF RemoveFile
  <2>. QED
    BY <1>9, <2>4 DEF RemoveFile
<1>10. CASE Return(c)
  BY <1>10 DEF Return, Goto
<1>. QED
  BY <1>1, <1>2, <1>3, <1>4, <1>5, <1>6, <1>7, <1>8, <1>9, <1>10, <1>11, <1>12 DEF Step

(* What is true of an undisturbed command stays true of it.                *)
LEMMA FrameKeeps ==
  ASSUME NEW d \in Commands, Undisturbed(d), LocalInv(d)
  PROVE  LocalInv(d)'
<1>1. OwnFiles(d)' /\ Outcome(d)'
  BY DEF LocalInv, OwnFiles, Outcome, StartedOwn, BuiltOwn, Excused, Input, Undisturbed
<1>2. \A s \in Named(d) : AtWork(d, s)' = AtWork(d, s) /\ Earlier(d, s)' = Earlier(d, s)
  BY DEF AtWork, Earlier, Input, Undisturbed
<1>3. \A s \in Named(d) : Ready(d, s)' = Ready(d, s) /\ UnderWay(d, s)' = UnderWay(d, s)
  BY DEF Ready, UnderWay, Holds, Undisturbed, Kinds
<1>4. Over(d)' = Over(d) /\ fault'[d] = fault[d]
  BY DEF Over, Undisturbed
<1>5. \A s \in Named(d) : Strong(d, s)' = Strong(d, s)
  BY <1>2, <1>3, <1>4 DEF Strong
<1>6. \A s \in Named(d) : Weak(d, s)' = Weak(d, s)
  BY DEF Weak, Undisturbed, Kinds
<1>7. OwnDisk(d)'
  BY <1>4, <1>5, <1>6 DEF LocalInv, OwnDisk
<1>. QED
  BY <1>1, <1>7 DEF LocalInv

-----------------------------------------------------------------------------
(* A command's own step keeps its invariant.                               *)

(* Strong looks at the disk only beside its source.                        *)
LEMMA StrongElsewhere ==
  ASSUME DriverTypeOK, NEW c \in Commands, NEW s \in Named(c),
         at[c] <= Len(Inputs[c]), at'[c] = at[c], s # Input(c), ~Over(c),
         \A k \in Kinds : disk'[<<s, k>>] = disk[<<s, k>>],
         Strong(c, s)
  PROVE  Strong(c, s)'
<1>1. ~AtWork(c, s) /\ ~AtWork(c, s)'
  BY DEF AtWork, Input
<1>2. Earlier(c, s)' = Earlier(c, s)
  BY DEF Earlier
<1>3. Ready(c, s)' = Ready(c, s)
  BY DEF Ready, Holds, Kinds
<1>. QED
  BY <1>1, <1>2, <1>3 DEF Strong

(* And so does Weak.                                                       *)
LEMMA WeakElsewhere ==
  ASSUME NEW c \in Commands, NEW s,
         \A k \in Kinds : disk'[<<s, k>>] = disk[<<s, k>>],
         Weak(c, s)
  PROVE  Weak(c, s)'
BY DEF Weak, Kinds

(* For a step of run_file it is enough to look at the input at hand.       *)
LEMMA StepAtInput ==
  ASSUME DriverTypeOK, NEW c \in Commands, OwnDisk(c),
         at[c] <= Len(Inputs[c]), at'[c] = at[c], ~Over(c),
         fault[c] => fault'[c],
         \A s \in Named(c), k \in Kinds :
            s # Input(c) => disk'[<<s, k>>] = disk[<<s, k>>],
         Input(c) \notin Unwritable \/ ~fault'[c] => Strong(c, Input(c))',
         Input(c) \in Unwritable => Weak(c, Input(c))'
  PROVE  OwnDisk(c)'
<1>1. ASSUME NEW s \in Named(c), s \notin Unwritable \/ ~fault'[c]
      PROVE  Strong(c, s)'
  <2>1. CASE s = Input(c)
    <3>. DEFINE u == Input(c)
    <3>1. Strong(c, s)' <=> Strong(c, u)'
      BY <2>1, InputNamed DEF Strong, AtWork, UnderWay, Earlier, Ready, Holds, Input, Over
    <3>. QED
      BY <1>1, <2>1, <3>1
  <2>2. CASE s # Input(c)
    <3>1. Strong(c, s)
      BY <1>1 DEF OwnDisk
    <3>. QED
      BY <2>2, <3>1, StrongElsewhere
  <2>. QED
    BY <2>1, <2>2
<1>2. ASSUME NEW s \in Named(c), s \in Unwritable
      PROVE  Weak(c, s)'
  <2>1. CASE s = Input(c)
    BY <1>2, <2>1 DEF Weak, Input
  <2>2. CASE s # Input(c)
    <3>1. Weak(c, s)
      BY <1>2 DEF OwnDisk
    <3>. QED
      BY <2>2, <3>1, WeakElsewhere
  <2>. QED
    BY <2>1, <2>2
<1>. QED
  BY <1>1, <1>2 DEF OwnDisk

(* A command that is over has nothing left to keep but Weak.               *)
LEMMA StepOver ==
  ASSUME NEW c \in Commands, OwnDisk(c), UNCHANGED disk, Over(c)'
  PROVE  OwnDisk(c)'
<1>1. \A s \in Named(c) : Strong(c, s)'
  BY DEF Strong
<1>2. \A s \in Named(c) : s \in Unwritable => Weak(c, s)'
  BY DEF OwnDisk, Weak
<1>. QED
  BY <1>1, <1>2 DEF OwnDisk

(* The files noted for removal are those of the sources named.             *)
LEMMA OwnFilesStep ==
  ASSUME DriverTypeOK, NEW c \in Commands, OwnFiles(c), Step(c)
  PROVE  OwnFiles(c)'
<1>1. CASE NextInput(c)
  <2>. DEFINE five == <<<<Input(c), "main">>, <<Input(c), "defs">>, <<Input(c), "safe">>,
                        <<Input(c), "runner">>, <<Input(c), "final">>>>
  <2>1. Input(c) \in Named(c)
    BY <1>1, InputNamed DEF NextInput, AtInput
  <2>2. \A k \in 1 .. 5 : five[k] \in Named(c) \X Kinds
    BY <2>1 DEF Kinds
  <2>3. Len(five) = 5 /\ files_to_remove'[c] = files_to_remove[c] \o five
    BY <1>1 DEF NextInput, DriverTypeOK
  <2>4. five \in Seq(Named(c) \X Kinds)
    BY <2>1 DEF Kinds
  <2>5. files_to_remove[c] \in Seq(Named(c) \X Kinds)
    <3>1. files_to_remove[c] \in Seq(Paths)
      BY DEF DriverTypeOK
    <3>. QED
      BY <3>1 DEF OwnFiles
  <2>. HIDE DEF five
  <2>6. files_to_remove'[c] \in Seq(Named(c) \X Kinds)
    BY <2>3, <2>4, <2>5
  <2>. QED
    BY <2>6 DEF OwnFiles
<1>2. CASE ~NextInput(c)
  <2>1. UNCHANGED files_to_remove
    BY <1>2 DEF Step, Passes, PassesFail, Write, WriteFails, CompileRunner,
         CompileRunnerFails, StartRunner, StartRunnerFails, RunnerEnds, RunnerFails,
         RunnerWritesTorn, FinalCompile, FinalCompileFails, RemoveFile, RemoveFails, Return
  <2>. QED
    BY <2>1 DEF OwnFiles
<1>. QED
  BY <1>1, <1>2

(* What Strong and Weak say of the input at hand.                          *)
LEMMA AtHand ==
  ASSUME DriverTypeOK, NEW c \in Commands, OwnDisk(c), at[c] <= Len(Inputs[c])
  PROVE  /\ Input(c) \notin Unwritable \/ ~fault[c] =>
              (AtWork(c, Input(c)) => UnderWay(c, Input(c)))
         /\ Input(c) \in Unwritable => Weak(c, Input(c))
<1>1. Input(c) \notin Unwritable \/ ~fault[c] => Strong(c, Input(c))
  BY InputNamed DEF OwnDisk
<1>2. AtWork(c, Input(c)) => ~Over(c)
  BY DEF AtWork, Over
<1>. QED
  BY <1>1, <1>2, InputNamed DEF OwnDisk, Strong

(* While run_file is at work on the input, Strong is UnderWay.             *)
LEMMA StrongAtWork ==
  ASSUME NEW c \in Commands, at'[c] = at[c], at[c] <= Len(Inputs[c]),
         pc'[c] \in {"safe", "defs", "main", "header", "compile", "start", "running",
                     "final", "replace"},
         UnderWay(c, Input(c))'
  PROVE  Strong(c, Input(c))'
BY DEF Strong, AtWork, Input

(* A file of one mark has nothing of another command's.                    *)
LEMMA WeakAfterOne ==
  ASSUME NEW c, NEW s, NEW kind, kind # "runner", NEW mark, Weak(c, s),
         disk'[<<s, kind>>] \in {disk[<<s, kind>>], <<mark>>},
         \A k : k # kind => disk'[<<s, k>>] = disk[<<s, k>>]
  PROVE  Weak(c, s)'
<1>1. disk'[<<s, "runner">>] = disk[<<s, "runner">>]
  OBVIOUS
<1>2. disk'[<<s, "header">>] \in {disk[<<s, "header">>], <<mark>>}
  OBVIOUS
<1>3. \A k \in DOMAIN <<mark>> : ~(k >= 2)
  OBVIOUS
<1>. QED
  BY <1>1, <1>2, <1>3 DEF Weak

(* After a write the file is what this command wrote.                      *)
LEMMA WriteDisk ==
  ASSUME DriverTypeOK, NEW c \in Commands, OwnDisk(c), Write(c)
  PROVE  OwnDisk(c)'
<1>. PICK kind \in DOMAIN NextLabel :
       /\ AtInput(c, kind)
       /\ WriteTo(c, kind, <<"now">>)
       /\ Goto(c, NextLabel[kind])
       /\ UNCHANGED <<at, loaded, files_to_remove, built, fault>>
  BY DEF Write
<1>1. /\ kind \in {"safe", "defs", "main", "header", "final"} /\ kind \in Kinds
      /\ pc[c] = kind /\ at[c] <= Len(Inputs[c])
  BY Labels DEF AtInput, Kinds
<1>2. pc'[c] = NextLabel[kind]
  BY DEF Goto, DriverTypeOK
<1>3. /\ disk'[<<Input(c), kind>>] = <<"now">>
      /\ \A s, k : s # Input(c) \/ k # kind => disk'[<<s, k>>] = disk[<<s, k>>]
  BY <1>1, Written
<1>4. Input(c)' = Input(c)
  BY DEF Input
<1>5. Input(c) \notin Unwritable \/ ~fault'[c] => Strong(c, Input(c))'
  <2>. SUFFICES ASSUME Input(c) \notin Unwritable \/ ~fault'[c]
                PROVE  Strong(c, Input(c))'
    OBVIOUS
  <2>1. UnderWay(c, Input(c))
    BY <1>1, AtHand DEF AtWork
  <2>2. UnderWay(c, Input(c))'
    BY <1>1, <1>2, <1>3, <1>4, <2>1 DEF UnderWay, Holds, NextLabel
  <2>3. pc'[c] \in {"defs", "main", "header", "compile", "replace"}
    BY <1>1, <1>2, Labels
  <2>. QED
    BY <1>1, <2>2, <2>3, StrongAtWork
<1>6. Input(c) \in Unwritable => Weak(c, Input(c))'
  <2>. SUFFICES ASSUME Input(c) \in Unwritable PROVE Weak(c, Input(c))'
    OBVIOUS
  <2>1. Weak(c, Input(c))
    BY <1>1, AtHand
  <2>. QED
    BY <1>1, <1>3, <1>4, <2>1, WeakAfterOne
<1>7. ~Over(c)
  BY <1>1 DEF Over
<1>8. \A s \in Named(c), k \in Kinds : s # Input(c) => disk'[<<s, k>>] = disk[<<s, k>>]
  BY <1>3
<1>. QED
  BY <1>1, <1>5, <1>6, <1>7, <1>8, StepAtInput

(* A write that fails leaves what was there, or a part of the new text.    *)
LEMMA WriteFailsDisk ==
  ASSUME DriverTypeOK, NEW c \in Commands, OwnDisk(c), WriteFails(c)
  PROVE  OwnDisk(c)'
<1>. PICK kind \in DOMAIN NextLabel :
       /\ AtInput(c, kind) /\ Input(c) \in Unwritable
       /\ UNCHANGED disk \/ WriteTo(c, kind, <<"torn">>)
       /\ Goto(c, NextLabel[kind]) /\ Faulty(c)
       /\ UNCHANGED <<at, loaded, files_to_remove, built>>
  BY DEF WriteFails
<1>1. /\ kind \in {"safe", "defs", "main", "header", "final"} /\ kind \in Kinds
      /\ at[c] <= Len(Inputs[c])
  BY Labels DEF AtInput, Kinds
<1>2. fault'[c] /\ Input(c) \in Unwritable /\ ~Over(c)
  BY <1>1 DEF Faulty, DriverTypeOK, Over, AtInput
<1>3. /\ disk'[<<Input(c), kind>>] \in {disk[<<Input(c), kind>>], <<"torn">>}
      /\ \A s, k : s # Input(c) \/ k # kind => disk'[<<s, k>>] = disk[<<s, k>>]
  BY <1>1, Written
<1>4. Weak(c, Input(c))'
  <2>1. Weak(c, Input(c)) /\ Input(c)' = Input(c) /\ kind # "runner"
    BY <1>1, <1>2, AtHand DEF Input
  <2>. QED
    BY <1>3, <2>1, WeakAfterOne DEF Weak
<1>. QED
  BY <1>1, <1>2, <1>3, <1>4, StepAtInput

(* The compiler makes this command's runner, or one that is excused.       *)
LEMMA CompileRunnerDisk ==
  ASSUME DriverTypeOK, Apart, NEW c \in Commands, OwnDisk(c), CompileRunner(c)
  PROVE  OwnDisk(c)'
<1>1. /\ pc[c] = "compile" /\ at[c] <= Len(Inputs[c]) /\ pc'[c] = "start"
      /\ at' = at /\ fault' = fault /\ ~Over(c) /\ Input(c)' = Input(c)
  BY DEF CompileRunner, AtInput, Goto, DriverTypeOK, Over, Input
<1>2. /\ disk'[<<Input(c), "runner">>] = RunnerCompiledBy(c)
      /\ \A s, k : s # Input(c) \/ k # "runner" => disk'[<<s, k>>] = disk[<<s, k>>]
  BY <1>1, Written DEF CompileRunner, Kinds
<1>3. PartsAreNow(c) => RunnerCompiledBy(c) = <<c>>
  BY DEF RunnerCompiledBy, Apart
<1>4. Input(c) \notin Unwritable \/ ~fault'[c] => Strong(c, Input(c))'
  <2>. SUFFICES ASSUME Input(c) \notin Unwritable \/ ~fault'[c]
                PROVE  Strong(c, Input(c))'
    OBVIOUS
  <2>1. UnderWay(c, Input(c))
    BY <1>1, AtHand DEF AtWork
  <2>2. PartsAreNow(c)
    BY <1>1, <2>1 DEF PartsAreNow, Parts, File, UnderWay, Holds
  <2>3. UnderWay(c, Input(c))'
    BY <1>1, <1>2, <1>3, <2>1, <2>2 DEF UnderWay, Holds
  <2>. QED
    BY <1>1, <2>3, StrongAtWork
<1>5. Input(c) \in Unwritable => Weak(c, Input(c))'
  <2>. SUFFICES ASSUME Input(c) \in Unwritable PROVE Weak(c, Input(c))'
    OBVIOUS
  <2>1. Weak(c, Input(c))
    BY <1>1, AtHand
  <2>2. RunnerCompiledBy(c) \in {<<c>>, <<"earlier">>, <<"torn">>}
    BY DEF RunnerCompiledBy, Apart
  <2>. QED
    BY <1>1, <1>2, <2>1, <2>2 DEF Weak
<1>6. \A s \in Named(c), k \in Kinds : s # Input(c) => disk'[<<s, k>>] = disk[<<s, k>>]
  BY <1>2
<1>. QED
  BY <1>1, <1>4, <1>5, <1>6, StepAtInput

(* A sequence of two is the concatenation of two of one.                   *)
LEMMA TwoMarks == \A a, b : <<a>> \o <<b>> = <<a, b>>
<1>. TAKE a, b
<1>1. <<a>> \in Seq({a, b}) /\ <<b>> \in Seq({a, b}) /\ <<a, b>> \in Seq({a, b})
  OBVIOUS
<1>2. Len(<<a>> \o <<b>>) = 2 /\ Len(<<a, b>>) = 2
  BY <1>1
<1>3. (<<a>> \o <<b>>)[1] = a /\ (<<a>> \o <<b>>)[2] = b
  BY <1>1
<1>4. \A k \in 1 .. 2 : (<<a>> \o <<b>>)[k] = <<a, b>>[k]
  BY <1>3
<1>5. <<a>> \o <<b>> \in Seq({a, b})
  BY <1>1
<1>. QED
  BY <1>1, <1>2, <1>4, <1>5, SeqEqual

(* The runner appends this command's results.                              *)
LEMMA RunnerEndsDisk ==
  ASSUME DriverTypeOK, NEW c \in Commands, OwnDisk(c), Outcome(c), RunnerEnds(c)
  PROVE  OwnDisk(c)'
<1>1. /\ pc[c] = "running" /\ at[c] <= Len(Inputs[c]) /\ pc'[c] = "final"
      /\ at' = at /\ fault' = fault /\ ~Over(c) /\ Input(c)' = Input(c)
  BY DEF RunnerEnds, AtInput, Goto, DriverTypeOK, Over, Input
<1>. DEFINE old == disk[<<Input(c), "header">>]
            new == disk'[<<Input(c), "header">>]
<1>2. PICK mark \in {c, "earlier", "torn"} :
        loaded[c] = <<mark>> /\ (mark = c \/ Excused(c, Input(c)))
  BY <1>1 DEF Outcome, StartedOwn
<1>0. WriteTo(c, "header", old \o <<mark>>)
  BY <1>2 DEF RunnerEnds, File
<1>3. /\ new = old \o <<mark>>
      /\ \A s, k : s # Input(c) \/ k # "header" => disk'[<<s, k>>] = disk[<<s, k>>]
  <2>1. "header" \in Kinds
    BY DEF Kinds
  <2>. QED
    BY <1>0, <1>1, <2>1, Written
<1>4. old \in Seq(Marks)
  BY <1>1, InputNamed DEF DriverTypeOK, Paths, Kinds
<1>5. Input(c) \notin Unwritable \/ ~fault'[c] => Strong(c, Input(c))'
  <2>. SUFFICES ASSUME Input(c) \notin Unwritable \/ ~fault'[c]
                PROVE  Strong(c, Input(c))'
    OBVIOUS
  <2>1. old = <<"now">>
    BY <1>1, AtHand DEF AtWork, UnderWay, Holds
  <2>2. new = <<"now", c>>
    <3>1. <<"now">> \o <<c>> = <<"now", c>>
      BY TwoMarks
    <3>2. mark = c
      BY <1>1, <1>2 DEF Excused
    <3>. HIDE DEF old, new
    <3>. QED
      BY <1>3, <2>1, <3>1, <3>2
  <2>3. UnderWay(c, Input(c))'
    BY <1>1, <2>2 DEF UnderWay, Holds
  <2>. QED
    BY <1>1, <2>3, StrongAtWork
<1>6. Input(c) \in Unwritable => Weak(c, Input(c))'
  <2>. SUFFICES ASSUME Input(c) \in Unwritable PROVE Weak(c, Input(c))'
    OBVIOUS
  <2>1. Weak(c, Input(c))
    BY <1>1, AtHand
  <2>. DEFINE own == {c, "earlier", "torn"}
  <2>2. \A k \in DOMAIN old : k >= 2 => old[k] \in own
    BY <2>1 DEF Weak
  <2>5. mark \in own
    OBVIOUS
  <2>. HIDE DEF old, new, own
  <2>3. \A k \in DOMAIN new : k >= 2 => new[k] \in own
    BY <1>3, <1>4, <2>2, <2>5
  <2>. QED
    BY <1>1, <1>3, <2>1, <2>3 DEF Weak, new, own
<1>7. \A s \in Named(c), k \in Kinds : s # Input(c) => disk'[<<s, k>>] = disk[<<s, k>>]
  BY <1>3
<1>. HIDE DEF old, new
<1>. QED
  BY <1>1, <1>5, <1>6, <1>7, StepAtInput

(* A runner that cannot write appends a part of its results.               *)
LEMMA RunnerWritesTornDisk ==
  ASSUME DriverTypeOK, NEW c \in Commands, OwnDisk(c), RunnerWritesTorn(c)
  PROVE  OwnDisk(c)'
<1>. DEFINE old == disk[<<Input(c), "header">>]
            new == disk'[<<Input(c), "header">>]
            own == {c, "earlier", "torn"}
<1>1. /\ at[c] <= Len(Inputs[c]) /\ Input(c) \in Unwritable /\ fault'[c]
      /\ at' = at /\ ~Over(c) /\ Input(c)' = Input(c)
      /\ WriteTo(c, "header", Append(old, "torn")) /\ "header" \in Kinds
  BY DEF RunnerWritesTorn, AtInput, Faulty, DriverTypeOK, Over, Input, File, Kinds
<1>2. /\ new = Append(old, "torn")
      /\ \A s, k : s # Input(c) \/ k # "header" => disk'[<<s, k>>] = disk[<<s, k>>]
  BY <1>1, Written
<1>3. old \in Seq(Marks) /\ "torn" \in own
  BY <1>1, InputNamed DEF DriverTypeOK, Paths, Kinds
<1>4. Weak(c, Input(c))
  BY <1>1, AtHand
<1>5. \A k \in DOMAIN old : k >= 2 => old[k] \in own
  BY <1>4 DEF Weak
<1>. HIDE DEF old, new, own
<1>6. \A k \in DOMAIN new : k >= 2 => new[k] \in own
  BY <1>2, <1>3, <1>5
<1>7. Weak(c, Input(c))'
  BY <1>1, <1>2, <1>4, <1>6 DEF Weak, new, own
<1>. QED
  BY <1>1, <1>2, <1>7, StepAtInput

(* An input that has been dealt with is ready for the final compilation.   *)
LEMMA NextInputDisk ==
  ASSUME DriverTypeOK, NEW c \in Commands, OwnDisk(c), NextInput(c)
  PROVE  OwnDisk(c)'
<1>1. /\ pc[c] = "replace" /\ at[c] <= Len(Inputs[c]) /\ pc'[c] = "passes"
      /\ disk' = disk /\ fault' = fault /\ at'[c] = at[c] + 1 /\ ~Over(c)
  BY DEF NextInput, AtInput, Goto, DriverTypeOK, Over
<1>2. ASSUME NEW s \in Named(c), s \notin Unwritable \/ ~fault'[c]
      PROVE  Strong(c, s)'
  <2>1. ~AtWork(c, s)'
    BY <1>1 DEF AtWork
  <2>2. Strong(c, s)
    BY <1>1, <1>2 DEF OwnDisk
  <2>3. CASE s = Input(c)
    <3>1. UnderWay(c, s)
      BY <1>1, <2>2, <2>3 DEF Strong, AtWork
    <3>2. Ready(c, s)'
      BY <1>1, <3>1 DEF UnderWay, Ready, Holds
    <3>. QED
      BY <2>1, <3>2 DEF Strong
  <2>4. CASE s # Input(c)
    <3>1. Earlier(c, s) => Ready(c, s)
      BY <1>1, <2>2, <2>4 DEF Strong, AtWork
    <3>2. Earlier(c, s)' => Earlier(c, s)
      <4>. SUFFICES ASSUME NEW j \in DOMAIN Inputs[c], j < at'[c], Inputs[c][j] = s
                    PROVE  Earlier(c, s)
        BY DEF Earlier
      <4>1. j \in Nat /\ at[c] \in Nat
        BY DriverAssumption DEF DriverTypeOK
      <4>2. j # at[c]
        BY <2>4 DEF Input
      <4>. QED
        BY <1>1, <4>1, <4>2 DEF Earlier
    <3>3. Ready(c, s)' = Ready(c, s)
      BY <1>1 DEF Ready, Holds
    <3>. QED
      BY <2>1, <3>1, <3>2, <3>3 DEF Strong
  <2>. QED
    BY <2>3, <2>4
<1>3. \A s \in Named(c) : s \in Unwritable => Weak(c, s)'
  BY <1>1 DEF OwnDisk, Weak
<1>. QED
  BY <1>2, <1>3 DEF OwnDisk

(* Removing a file brings nothing of another command's.                    *)
LEMMA RemoveFileDisk ==
  ASSUME DriverTypeOK, NEW c \in Commands, OwnDisk(c), RemoveFile(c)
  PROVE  OwnDisk(c)'
<1>1. Over(c)'
  BY DEF RemoveFile, Over
<1>2. \A path \in Paths : disk'[path] = disk[path] \/ disk'[path] = Absent
  BY DEF RemoveFile, DriverTypeOK
<1>3. ASSUME NEW s \in Named(c), s \in Unwritable
      PROVE  Weak(c, s)'
  <2>1. Weak(c, s)
    BY <1>3 DEF OwnDisk
  <2>2. \A k \in Kinds : disk'[<<s, k>>] = disk[<<s, k>>] \/ disk'[<<s, k>>] = Absent
    BY <1>2, NamedSources DEF Paths
  <2>4. disk'[<<s, "runner">>] \in {Absent, disk[<<s, "runner">>]}
    BY <2>1, <2>2 DEF Kinds
  <2>5. disk'[<<s, "header">>] \in {disk[<<s, "header">>], <<>>}
    BY <2>2 DEF Kinds, Absent
  <2>6. \A k \in DOMAIN <<>> : FALSE
    OBVIOUS
  <2>. QED
    BY <2>1, <2>4, <2>5, <2>6 DEF Weak
<1>. QED
  BY <1>1, <1>3 DEF OwnDisk, Strong

(* Whatever a command does next, its part of the disk is in order.         *)
LEMMA OwnDiskStep ==
  ASSUME DriverTypeOK, Apart, NEW c \in Commands, LocalInv(c), Step(c)
  PROVE  OwnDisk(c)'
<1>. USE DEF LocalInv
<1>1. CASE Passes(c)
  <2>1. /\ pc[c] = "passes" /\ at[c] <= Len(Inputs[c]) /\ pc'[c] = "safe"
        /\ disk' = disk /\ at' = at /\ fault' = fault /\ ~Over(c)
    BY <1>1 DEF Passes, AtInput, Goto, DriverTypeOK, Over
  <2>2. UnderWay(c, Input(c))'
    BY <2>1 DEF UnderWay
  <2>3. Strong(c, Input(c))'
    BY <2>1, <2>2, StrongAtWork
  <2>4. Input(c) \in Unwritable => Weak(c, Input(c))'
    BY <2>1, AtHand DEF Weak, Input
  <2>. QED
    BY <2>1, <2>3, <2>4, StepAtInput
<1>2. CASE \/ PassesFail(c) \/ CompileRunnerFails(c) \/ StartRunnerFails(c)
           \/ RunnerFails(c) \/ FinalCompileFails(c)
  <2>1. UNCHANGED disk /\ pc'[c] = "failure"
    BY <1>2 DEF PassesFail, CompileRunnerFails, StartRunnerFails, RunnerFails,
         FinalCompileFails, Goto, DriverTypeOK
  <2>. QED
    BY <2>1, StepOver DEF Over
<1>3. CASE Write(c)
  BY <1>3, WriteDisk
<1>4. CASE WriteFails(c)
  BY <1>4, WriteFailsDisk
<1>5. CASE CompileRunner(c)
  BY <1>5, CompileRunnerDisk
<1>6. CASE StartRunner(c)
  <2>1. /\ pc[c] = "start" /\ at[c] <= Len(Inputs[c]) /\ pc'[c] = "running"
        /\ disk' = disk /\ at' = at /\ fault' = fault /\ ~Over(c)
    BY <1>6 DEF StartRunner, AtInput, Goto, DriverTypeOK, Over
  <2>2. Input(c) \notin Unwritable \/ ~fault'[c] => Strong(c, Input(c))'
    <3>. SUFFICES ASSUME Input(c) \notin Unwritable \/ ~fault'[c]
                  PROVE  Strong(c, Input(c))'
      OBVIOUS
    <3>1. UnderWay(c, Input(c))
      BY <2>1, AtHand DEF AtWork
    <3>2. UnderWay(c, Input(c))'
      BY <2>1, <3>1 DEF UnderWay, Holds, Input
    <3>. QED
      BY <2>1, <3>2, StrongAtWork
  <2>3. Input(c) \in Unwritable => Weak(c, Input(c))'
    BY <2>1, AtHand DEF Weak, Input
  <2>. QED
    BY <2>1, <2>2, <2>3, StepAtInput
<1>7. CASE RunnerEnds(c)
  BY <1>7, RunnerEndsDisk
<1>8. CASE NextInput(c)
  BY <1>8, NextInputDisk
<1>9. CASE FinalCompile(c) \/ Return(c)
  <2>1. UNCHANGED disk /\ pc'[c] \in {"clean", "success"}
    BY <1>9 DEF FinalCompile, Return, Goto, DriverTypeOK
  <2>. QED
    BY <2>1, StepOver DEF Over
<1>10. CASE RemoveFile(c)
  BY <1>10, RemoveFileDisk
<1>11. CASE RunnerWritesTorn(c)
  BY <1>11, RunnerWritesTornDisk
<1>12. CASE RemoveFails(c)
  <2>1. UNCHANGED disk /\ Over(c)'
    BY <1>12 DEF RemoveFails, Over
  <2>. QED
    BY <2>1, StepOver
<1>. QED
  BY <1>1, <1>2, <1>3, <1>4, <1>5, <1>6, <1>7, <1>8, <1>9, <1>10, <1>11, <1>12 DEF Step

-----------------------------------------------------------------------------
(* What becomes of a command.                                              *)

(* The runner that starts is this command's, or it is excused.             *)
LEMMA StartsItsOwn ==
  ASSUME DriverTypeOK, NEW c \in Commands, OwnDisk(c), StartRunner(c)
  PROVE  StartedOwn(c)'
<1>1. /\ pc[c] = "start" /\ at[c] <= Len(Inputs[c])
      /\ File(c, "runner") # Absent /\ loaded'[c] = File(c, "runner")
      /\ fault' = fault /\ Input(c)' = Input(c)
  BY DEF StartRunner, AtInput, Executable, DriverTypeOK, Input
<1>2. CASE Input(c) \notin Unwritable \/ ~fault[c]
  <2>1. File(c, "runner") = <<c>>
    BY <1>1, <1>2, AtHand DEF AtWork, UnderWay, Holds, File
  <2>. QED
    BY <1>1, <2>1 DEF StartedOwn
<1>3. CASE Input(c) \in Unwritable /\ fault[c]
  <2>1. File(c, "runner") \in {<<c>>, <<"earlier">>, <<"torn">>}
    BY <1>1, <1>3, AtHand DEF Weak, File
  <2>. QED
    BY <1>1, <1>3, <2>1 DEF StartedOwn, Excused
<1>. QED
  BY <1>2, <1>3

(* When main calls the compiler, every input has been dealt with.          *)
LEMMA AllEarlier ==
  ASSUME DriverTypeOK, NEW c \in Commands, OwnDisk(c), AtFinal(c),
         NEW i \in DOMAIN Inputs[c]
  PROVE  /\ Inputs[c][i] \in Named(c)
         /\ Inputs[c][i] \notin Unwritable \/ ~fault[c] => Ready(c, Inputs[c][i])
         /\ Inputs[c][i] \in Unwritable => Weak(c, Inputs[c][i])
<1>1. Inputs[c][i] \in Named(c)
  BY DEF Named
<1>2. i < at[c]
  BY DriverAssumption DEF AtFinal, DriverTypeOK
<1>3. Earlier(c, Inputs[c][i])
  BY <1>2 DEF Earlier
<1>4. ~AtWork(c, Inputs[c][i]) /\ ~Over(c)
  BY DEF AtFinal, AtWork, Over
<1>. QED
  BY <1>1, <1>3, <1>4 DEF OwnDisk, Strong

(* A header of the prelude and of this command's results gives the latter. *)
LEMMA IntactResult ==
  ASSUME NEW c \in Commands, NEW s, Ready(c, s)
  PROVE  Result(s) = c
<1>1. disk[<<s, "header">>] = <<"now", c>> /\ disk[<<s, "final">>] = <<"now">>
  BY DEF Ready, Holds
<1>2. /\ Len(<<"now", c>>) = 2 /\ <<"now", c>>[2] = c /\ <<"now", c>>[1] = "now"
      /\ DOMAIN <<"now", c>> = {1, 2}
  OBVIOUS
<1>3. <<"now">> # <<"torn">> /\ c # "torn" /\ "now" \in Preludes
  BY DriverAssumption DEF Preludes
<1>4. \A k \in DOMAIN <<"now", c>> : <<"now", c>>[k] # "torn"
  BY <1>2, <1>3
<1>. QED
  BY <1>1, <1>2, <1>3, <1>4 DEF Result

(* A header with nothing of another command's gives nothing of it.         *)
LEMMA WeakResult ==
  ASSUME NEW c \in Commands, NEW s, Weak(c, s), Compilable(s),
         disk[<<s, "header">>] \in Seq(Marks)
  PROVE  Result(s) \in {c, "earlier", "torn"}
<1>. DEFINE header == disk[<<s, "header">>]
            last == header[Len(header)]
<1>0. SUFFICES ASSUME Result(s) # "torn" PROVE last \in {c, "earlier", "torn"}
  BY DEF Result
<1>1. header[1] \in Preludes
  BY <1>0 DEF Result
<1>2. header # <<>> /\ \A mark \in Preludes : header # <<mark>>
  BY DEF Compilable, Absent
<1>3. Len(header) \in DOMAIN header /\ Len(header) >= 1
  BY <1>2, HasLast
<1>4. Len(header) # 1
  <2>1. SUFFICES ASSUME Len(header) = 1 PROVE header = <<header[1]>>
    BY <1>1, <1>2
  <2>. HIDE DEF header
  <2>2. header \in Seq(Marks)
    BY DEF header
  <2>. QED
    BY <2>1, <2>2
<1>5. Len(header) >= 2
  <2>. DEFINE n == Len(header)
  <2>1. n \in Nat /\ n >= 1 /\ n # 1
    BY <1>3, <1>4
  <2>. HIDE DEF n
  <2>2. n >= 2
    BY <2>1
  <2>. QED
    BY <2>2 DEF n
<1>. QED
  BY <1>3, <1>5 DEF Weak

(* What the compiler builds from is what this command's runners appended,  *)
(* but for the sources that are excused.                                   *)
LEMMA BuildsFromItsOwn ==
  ASSUME DriverTypeOK, NEW c \in Commands, OwnDisk(c), FinalCompile(c)
  PROVE  BuiltOwn(c)'
<1>1. AtFinal(c) /\ \A i \in DOMAIN Inputs[c] : Compilable(Inputs[c][i])
  BY DEF FinalCompile
<1>2. built'[c] = [i \in DOMAIN Inputs[c] |-> Result(Inputs[c][i])] /\ fault' = fault
  BY DEF FinalCompile, DriverTypeOK
<1>3. ASSUME NEW i \in DOMAIN Inputs[c]
      PROVE  \/ Result(Inputs[c][i]) = c
             \/ Result(Inputs[c][i]) \in {"earlier", "torn"} /\ Excused(c, Inputs[c][i])
  <2>1. CASE Inputs[c][i] \notin Unwritable \/ ~fault[c]
    BY <1>1, <2>1, AllEarlier, IntactResult
  <2>2. CASE Inputs[c][i] \in Unwritable /\ fault[c]
    <3>1. disk[<<Inputs[c][i], "header">>] \in Seq(Marks) /\ Weak(c, Inputs[c][i])
      BY <1>1, <2>2, AllEarlier, NamedSources DEF DriverTypeOK, Paths, Kinds
    <3>2. Result(Inputs[c][i]) \in {c, "earlier", "torn"}
      BY <1>1, <3>1, WeakResult
    <3>. QED
      BY <2>2, <3>2 DEF Excused
  <2>. QED
    BY <2>1, <2>2
<1>4. DOMAIN Inputs[c] = 1 .. Len(Inputs[c]) /\ Len(Inputs[c]) \in Nat
  BY DriverAssumption
<1>. DEFINE results == [i \in DOMAIN Inputs[c] |-> Result(Inputs[c][i])]
<1>5. DOMAIN results = 1 .. Len(Inputs[c])
      /\ \A i \in DOMAIN results : results[i] = Result(Inputs[c][i])
  BY <1>4
<1>. HIDE DEF results
<1>6. Len(results) = Len(Inputs[c])
  BY <1>4, <1>5
<1>7. built'[c] = results
  BY <1>2 DEF results
<1>8. \A i \in DOMAIN results :
        results[i] = c \/ (results[i] \in {"earlier", "torn"} /\ Excused(c, Inputs[c][i]))
  BY <1>3, <1>4, <1>5
<1>. QED
  BY <1>2, <1>6, <1>7, <1>8 DEF BuiltOwn, Excused

(* A command that fails when nothing has failed it yet is failed now.      *)
LEMMA FailsForCause ==
  ASSUME DriverTypeOK, NEW c \in Commands, OwnDisk(c),
         \/ PassesFail(c) \/ CompileRunnerFails(c) \/ StartRunnerFails(c)
         \/ RunnerFails(c) \/ FinalCompileFails(c)
  PROVE  fault'[c]
<1>1. CASE PassesFail(c) \/ RunnerFails(c)
  BY <1>1 DEF PassesFail, RunnerFails, Faulty, DriverTypeOK
<1>2. CASE CompileRunnerFails(c)
  <2>1. /\ pc[c] = "compile" /\ at[c] <= Len(Inputs[c])
        /\ fault'[c] = (fault[c] \/ PartsAreNow(c))
    BY <1>2 DEF CompileRunnerFails, AtInput, DriverTypeOK
  <2>2. ~fault[c] => PartsAreNow(c)
    BY <2>1, AtHand DEF AtWork, UnderWay, Holds, PartsAreNow, Parts, File
  <2>. QED
    BY <2>1, <2>2
<1>3. CASE StartRunnerFails(c)
  <2>1. /\ pc[c] = "start" /\ at[c] <= Len(Inputs[c])
        /\ fault'[c] = (fault[c] \/ Executable(File(c, "runner")))
    BY <1>3 DEF StartRunnerFails, AtInput, DriverTypeOK
  <2>2. ~fault[c] => File(c, "runner") = <<c>>
    BY <2>1, AtHand DEF AtWork, UnderWay, Holds, File
  <2>3. c # "object"
    BY DriverAssumption
  <2>4. <<c>> # <<>> /\ <<c>> # <<"object">>
    BY <2>3
  <2>. QED
    BY <2>1, <2>2, <2>4 DEF Executable, Absent
<1>4. CASE FinalCompileFails(c)
  <2>1. /\ AtFinal(c)
        /\ fault'[c] = (fault[c] \/ \A i \in DOMAIN Inputs[c] : Intact(c, Inputs[c][i]))
    BY <1>4 DEF FinalCompileFails, DriverTypeOK
  <2>2. <<"now">> # <<>>
    OBVIOUS
  <2>3. ~fault[c] => \A i \in DOMAIN Inputs[c] : Intact(c, Inputs[c][i])
    BY <2>1, <2>2, AllEarlier DEF Ready, Holds, Intact, Absent
  <2>. QED
    BY <2>1, <2>3
<1>. QED
  BY <1>1, <1>2, <1>3, <1>4

(* A step brings a command no result but its own and no groundless failure.*)
LEMMA OutcomeStep ==
  ASSUME DriverTypeOK, NEW c \in Commands, LocalInv(c), Step(c)
  PROVE  Outcome(c)'
<1>. USE DEF LocalInv
<1>1. CASE \/ PassesFail(c) \/ CompileRunnerFails(c) \/ StartRunnerFails(c)
           \/ RunnerFails(c) \/ FinalCompileFails(c)
  <2>1. fault'[c]
    BY <1>1, FailsForCause
  <2>2. pc'[c] = "failure"
    BY <1>1 DEF PassesFail, CompileRunnerFails, StartRunnerFails, RunnerFails,
         FinalCompileFails, Goto, DriverTypeOK
  <2>. QED
    BY <2>1, <2>2 DEF Outcome
<1>2. CASE StartRunner(c)
  <2>1. StartedOwn(c)'
    BY <1>2, StartsItsOwn
  <2>2. pc'[c] = "running"
    BY <1>2 DEF StartRunner, Goto, DriverTypeOK
  <2>. QED
    BY <2>1, <2>2 DEF Outcome
<1>3. CASE FinalCompile(c)
  <2>1. BuiltOwn(c)'
    BY <1>3, BuildsFromItsOwn
  <2>2. pc'[c] = "clean"
    BY <1>3 DEF FinalCompile, Goto, DriverTypeOK
  <2>. QED
    BY <2>1, <2>2 DEF Outcome
<1>4. CASE RemoveFile(c) \/ RemoveFails(c) \/ Return(c)
  <2>1. /\ pc[c] = "clean" /\ pc'[c] \in {"clean", "success"} /\ built' = built
        /\ fault[c] => fault'[c]
    BY <1>4 DEF RemoveFile, RemoveFails, Return, Goto, Faulty, DriverTypeOK
  <2>2. BuiltOwn(c)
    BY <2>1 DEF Outcome
  <2>3. BuiltOwn(c)'
    BY <2>1, <2>2 DEF BuiltOwn, Excused
  <2>. QED
    BY <2>1, <2>3 DEF Outcome
<1>5. CASE \/ Passes(c) \/ Write(c) \/ WriteFails(c) \/ CompileRunner(c)
           \/ RunnerEnds(c) \/ RunnerWritesTorn(c) \/ NextInput(c)
  <2>1. pc'[c] \in {"passes", "safe", "defs", "main", "header", "compile", "start",
                    "final", "replace"}
    BY <1>5, Labels DEF Passes, Write, WriteFails, CompileRunner, RunnerEnds,
         RunnerWritesTorn, NextInput, Goto, DriverTypeOK
  <2>. QED
    BY <2>1 DEF Outcome
<1>. QED
  BY <1>1, <1>2, <1>3, <1>4, <1>5 DEF Step

-----------------------------------------------------------------------------
(* The invariant, and what follows from it.                                *)

(* The commands start with what an earlier one may have left.              *)
LEMMA IInvInit ==
  ASSUME Apart, DriverInit
  PROVE  IInv
<1>. SUFFICES ASSUME NEW c \in Commands PROVE LocalInv(c)
  BY TypeInit DEF IInv
<1>1. /\ pc[c] = "passes" /\ at[c] = 1 /\ files_to_remove[c] = <<>>
      /\ \A path \in Paths :
           disk[path] = IF path[1] \in Stale THEN Leftover(path[2]) ELSE Absent
  BY DEF DriverInit
<1>2. \A s \in Named(c) : Strong(c, s)
  <2>1. \A s : ~Earlier(c, s) /\ ~AtWork(c, s)
    BY <1>1, DriverAssumption DEF Earlier, AtWork
  <2>. QED
    BY <2>1 DEF Strong
<1>3. OwnFiles(c) /\ Outcome(c)
  BY <1>1 DEF OwnFiles, Outcome
<1>4. ASSUME NEW s \in Named(c), s \in Unwritable
      PROVE  Weak(c, s)
  <2>1. \A kind \in Kinds : disk[<<s, kind>>] \in {Leftover(kind), <<>>}
    BY <1>1, NamedSources DEF Paths, Absent
  <2>2. disk[<<s, "runner">>] \in {<<"earlier">>, <<>>}
    BY <2>1 DEF Kinds, Leftover
  <2>3. disk[<<s, "header">>] \in {<<"earlier", "earlier">>, <<>>}
    BY <2>1 DEF Kinds, Leftover
  <2>4. /\ \A k \in DOMAIN <<"earlier", "earlier">> : <<"earlier", "earlier">>[k] = "earlier"
        /\ \A k \in DOMAIN <<>> : FALSE
    OBVIOUS
  <2>. QED
    BY <2>2, <2>3, <2>4 DEF Weak, Absent
<1>. QED
  BY <1>2, <1>3, <1>4 DEF LocalInv, OwnDisk

(* Every step of every command keeps the invariant of every command.       *)
LEMMA IInvStep ==
  ASSUME Apart, IInv, [DriverNext]_driverVars
  PROVE  IInv'
<1>1. CASE DriverNext
  <2>. PICK c \in Commands : Step(c)
    BY <1>1 DEF DriverNext
  <2>1. DriverTypeOK'
    BY TypeStep DEF IInv
  <2>2. LocalInv(c)'
    <3>1. DriverTypeOK /\ LocalInv(c) /\ OwnFiles(c)
      BY DEF IInv, LocalInv
    <3>. QED
      BY <3>1, OwnFilesStep, OwnDiskStep, OutcomeStep DEF LocalInv
  <2>3. \A d \in Commands : c # d => LocalInv(d)'
    BY Frame, FrameKeeps DEF IInv, LocalInv
  <2>. QED
    BY <2>1, <2>2, <2>3 DEF IInv
<1>2. CASE UNCHANGED driverVars
  <2>1. DriverTypeOK'
    BY <1>2 DEF driverVars, DriverTypeOK, IInv
  <2>2. \A d \in Commands : Undisturbed(d)
    BY <1>2 DEF driverVars, Undisturbed
  <2>. QED
    BY <2>1, <2>2, FrameKeeps DEF IInv
<1>. QED
  BY <1>1, <1>2

(* The commands keep IInv.                                                 *)
LEMMA IInvCorrect ==
  ASSUME Apart
  PROVE  DriverSpec => []IInv
<1>1. DriverInit => IInv
  BY IInvInit
<1>2. IInv /\ [DriverNext]_driverVars => IInv'
  BY IInvStep
<1>. QED
  BY <1>1, <1>2, PTL DEF DriverSpec

(* A program that was built has no results of another command's, as long   *)
(* as no other command names the same source.  Its results are the own     *)
(* runners', compiled from the sources as they are now, except that the    *)
(* results of an earlier time, torn ones or none may stand for a source    *)
(* beside which files cannot be written, once something has failed.        *)
THEOREM OwnResultsCorrect ==
  ASSUME Apart
  PROVE  DriverSpec => []OwnResults
<1>1. IInv => OwnResults
  BY DEF IInv, LocalInv, Outcome, BuiltOwn, Excused, OwnResults
<1>. QED
  BY <1>1, IInvCorrect, PTL

(* A command fails only for a reason outside ccomptime: never over its own *)
(* files or those of an earlier command.                                   *)
THEOREM NoSpuriousFailureCorrect ==
  ASSUME Apart
  PROVE  DriverSpec => []NoSpuriousFailure
<1>1. IInv => NoSpuriousFailure
  BY DEF IInv, LocalInv, Outcome, NoSpuriousFailure
<1>. QED
  BY <1>1, IInvCorrect, PTL
-----------------------------------------------------------------------------
(* What a command leaves on the disk.                                      *)

Parted == {"safe", "defs", "main", "runner"}
Removed == Kinds \ {"header"}
Made(c, s) == \A kind \in Parted : disk[<<s, kind>>] # Absent

(* The paths of the inputs before the n-th are noted, those of the notes   *)
(* before the n-th are removed where removal works.                        *)
Noted(c, n) ==
  \A j \in DOMAIN Inputs[c], kind \in Removed :
    j < n => \E k \in DOMAIN files_to_remove[c] :
               files_to_remove[c][k] = <<Inputs[c][j], kind>>
Gone(c, n) ==
  \A k \in DOMAIN files_to_remove[c] :
    k < n /\ files_to_remove[c][k][1] \notin Unwritable => disk[files_to_remove[c][k]] = Absent

(* The notes are of the command's own files, and never of a header.        *)
OwnNotes(c) ==
  \A k \in DOMAIN files_to_remove[c] : files_to_remove[c][k] \in Named(c) \X Removed

(* The runner of the input at hand has been compiled.                      *)
Compiled(c) == pc[c] \in {"start", "running", "final", "replace"}

MadeSoFar(c) ==
  \A j \in DOMAIN Inputs[c] :
    j < at[c] \/ (j = at[c] /\ Compiled(c)) => Made(c, Inputs[c][j])

HeadersStay(c) == \A i \in DOMAIN Inputs[c] : disk[<<Inputs[c][i], "header">>] # Absent
AllStay(c) ==
  \A i \in DOMAIN Inputs[c], kind \in Kinds : disk[<<Inputs[c][i], kind>>] # Absent

Leaves(c) ==
  /\ OwnNotes(c)
  /\ ~Over(c) => Noted(c, at[c]) /\ MadeSoFar(c)
  /\ pc[c] \in {"clean", "success"} =>
       /\ Noted(c, Len(Inputs[c]) + 1)
       /\ HeadersStay(c)
       /\ c \in KeepInter => AllStay(c)
  /\ pc[c] = "clean" /\ c \notin KeepInter => Gone(c, at[c])
  /\ pc[c] = "success" /\ c \notin KeepInter => Gone(c, Len(files_to_remove[c]) + 1)

(* What a command has left stays while others go on.                       *)
LEMMA FrameLeaves ==
  ASSUME NEW d \in Commands, Undisturbed(d), Leaves(d)
  PROVE  Leaves(d)'
<1>1. /\ pc'[d] = pc[d] /\ at'[d] = at[d] /\ files_to_remove'[d] = files_to_remove[d]
      /\ \A s \in Named(d), kind \in Kinds : disk'[<<s, kind>>] = disk[<<s, kind>>]
  BY DEF Undisturbed
<1>2. \A j \in DOMAIN Inputs[d] : Inputs[d][j] \in Named(d)
  BY DEF Named
<1>3. OwnNotes(d)' /\ OwnNotes(d)
  BY <1>1 DEF OwnNotes, Leaves
<1>4. \A k \in DOMAIN files_to_remove[d] :
        disk'[files_to_remove[d][k]] = disk[files_to_remove[d][k]]
  BY <1>1, <1>3 DEF OwnNotes, Removed
<1>5. \A n : Noted(d, n)' = Noted(d, n) /\ Gone(d, n)' = Gone(d, n)
  BY <1>1, <1>4 DEF Noted, Gone
<1>6. MadeSoFar(d)' = MadeSoFar(d)
  <2>1. \A j \in DOMAIN Inputs[d] : Made(d, Inputs[d][j])' = Made(d, Inputs[d][j])
    BY <1>1, <1>2 DEF Made, Parted, Kinds
  <2>2. Compiled(d)' = Compiled(d)
    BY <1>1 DEF Compiled
  <2>. QED
    BY <1>1, <2>1, <2>2 DEF MadeSoFar
<1>7. HeadersStay(d)' = HeadersStay(d) /\ AllStay(d)' = AllStay(d)
  BY <1>1, <1>2 DEF HeadersStay, AllStay, Kinds
<1>8. Over(d)' = Over(d)
  BY <1>1 DEF Over
<1>. QED
  BY <1>1, <1>3, <1>5, <1>6, <1>7, <1>8 DEF Leaves

(* Until it cleans up, a command takes no part of an input away.           *)
LEMMA PartsStay ==
  ASSUME DriverTypeOK, NEW c \in Commands, Step(c), ~Over(c)
  PROVE  \A s, k : k \in Parted /\ disk[<<s, k>>] # Absent => disk'[<<s, k>>] # Absent
<1>. SUFFICES ASSUME NEW s, NEW k \in Parted, disk[<<s, k>>] # Absent
              PROVE  disk'[<<s, k>>] # Absent
  OBVIOUS
<1>0. <<"now">> # Absent /\ <<"torn">> # Absent /\ RunnerCompiledBy(c) # Absent
  BY DEF Absent, RunnerCompiledBy
<1>1. CASE Write(c)
  <2>. PICK kind \in DOMAIN NextLabel : AtInput(c, kind) /\ WriteTo(c, kind, <<"now">>)
    BY <1>1 DEF Write
  <2>1. kind \in Kinds /\ at[c] <= Len(Inputs[c])
    BY Labels DEF AtInput, Kinds
  <2>2. /\ disk'[<<Input(c), kind>>] = <<"now">>
        /\ s # Input(c) \/ k # kind => disk'[<<s, k>>] = disk[<<s, k>>]
    BY <2>1, Written
  <2>. QED
    BY <1>0, <2>2
<1>5. CASE WriteFails(c)
  <2>. PICK kind \in DOMAIN NextLabel :
         AtInput(c, kind) /\ (UNCHANGED disk \/ WriteTo(c, kind, <<"torn">>))
    BY <1>5 DEF WriteFails
  <2>1. kind \in Kinds /\ at[c] <= Len(Inputs[c])
    BY Labels DEF AtInput, Kinds
  <2>2. CASE WriteTo(c, kind, <<"torn">>)
    <3>1. /\ disk'[<<Input(c), kind>>] = <<"torn">>
          /\ s # Input(c) \/ k # kind => disk'[<<s, k>>] = disk[<<s, k>>]
      BY <2>1, <2>2, Written
    <3>. QED
      BY <1>0, <3>1
  <2>. QED
    BY <2>2
<1>2. CASE CompileRunner(c)
  <2>1. at[c] <= Len(Inputs[c]) /\ WriteTo(c, "runner", RunnerCompiledBy(c))
        /\ "runner" \in Kinds
    BY <1>2 DEF CompileRunner, AtInput, Kinds
  <2>2. /\ disk'[<<Input(c), "runner">>] = RunnerCompiledBy(c)
        /\ s # Input(c) \/ k # "runner" => disk'[<<s, k>>] = disk[<<s, k>>]
    BY <2>1, Written
  <2>. QED
    BY <1>0, <2>2
<1>3. CASE RunnerEnds(c) \/ RunnerWritesTorn(c)
  <2>1. at[c] <= Len(Inputs[c]) /\ "header" \in Kinds /\ "header" \notin Parted
    BY <1>3 DEF RunnerEnds, RunnerWritesTorn, AtInput, Kinds, Parted
  <2>2. PICK appended : WriteTo(c, "header", appended)
    BY <1>3 DEF RunnerEnds, RunnerWritesTorn
  <2>3. \A r, kind : r # Input(c) \/ kind # "header" => disk'[<<r, kind>>] = disk[<<r, kind>>]
    BY <2>1, <2>2, Written
  <2>. QED
    BY <2>1, <2>3
<1>4. CASE UNCHANGED disk
  BY <1>4
<1>. QED
  BY <1>1, <1>2, <1>3, <1>4, <1>5 DEF Step, Over, Passes, PassesFail,
     CompileRunnerFails, StartRunner, StartRunnerFails, RunnerFails, NextInput,
     FinalCompile, FinalCompileFails, RemoveFile, RemoveFails, Return

(* A runner is compiled from the three parts.                              *)
LEMMA CompilesParts ==
  ASSUME DriverTypeOK, NEW c \in Commands, CompileRunner(c)
  PROVE  Made(c, Input(c))' /\ pc'[c] = "start" /\ at' = at
         /\ files_to_remove' = files_to_remove
<1>1. at[c] <= Len(Inputs[c]) /\ WriteTo(c, "runner", RunnerCompiledBy(c))
      /\ "runner" \in Kinds /\ pc'[c] = "start" /\ at' = at
      /\ files_to_remove' = files_to_remove
  BY DEF CompileRunner, AtInput, Kinds, Goto, DriverTypeOK
<1>2. \A kind \in {"safe", "defs", "main"} : disk[<<Input(c), kind>>] # Absent
  BY DEF CompileRunner, PartsPresent, Parts, File
<1>3. disk'[<<Input(c), "runner">>] # Absent
      /\ \A kind \in {"safe", "defs", "main"} : disk'[<<Input(c), kind>>] # Absent
  BY <1>1, <1>2, Written DEF RunnerCompiledBy, Absent
<1>. QED
  BY <1>1, <1>3 DEF Made, Parted, Input

(* The paths that NextInput notes.                                         *)
LEMMA NotesInput ==
  ASSUME DriverTypeOK, NEW c \in Commands, OwnNotes(c), NextInput(c),
         Noted(c, at[c])
  PROVE  OwnNotes(c)' /\ Noted(c, at[c])'
<1>. DEFINE old == files_to_remove[c]
            five == <<<<Input(c), "main">>, <<Input(c), "defs">>, <<Input(c), "safe">>,
                      <<Input(c), "runner">>, <<Input(c), "final">>>>
            new == files_to_remove'[c]
<1>1. /\ new = old \o five /\ at'[c] = at[c] + 1 /\ at[c] \in Nat
      /\ at[c] \in DOMAIN Inputs[c]
  BY InputNamed DEF NextInput, AtInput, DriverTypeOK
<1>2. Input(c) \in Named(c)
  BY InputNamed DEF NextInput, AtInput
<1>3. old \in Seq(Paths) /\ five \in Seq(Paths) /\ Len(five) = 5
      /\ \A m \in 1 .. 5 : five[m] \in {Input(c)} \X Removed
  <2>1. \A kind \in Kinds : <<Input(c), kind>> \in Paths
    BY InputNamed DEF NextInput, AtInput, Paths
  <2>. QED
    BY <2>1 DEF DriverTypeOK, Removed, Kinds
<1>4. \A kind \in Removed : \E m \in 1 .. 5 : five[m] = <<Input(c), kind>>
  BY DEF Removed, Kinds
<1>. HIDE DEF old, five, new
<1>5. /\ DOMAIN new = 1 .. (Len(old) + 5) /\ DOMAIN old = 1 .. Len(old)
      /\ Len(old) \in Nat
      /\ \A k \in 1 .. Len(old) : new[k] = old[k]
      /\ \A m \in 1 .. 5 : new[Len(old) + m] = five[m] /\ Len(old) + m \in DOMAIN new
  <2>1. /\ Len(old) \in Nat /\ DOMAIN old = 1 .. Len(old)
        /\ new \in Seq(Paths) /\ Len(new) = Len(old) + 5
        /\ \A k \in 1 .. (Len(old) + 5) :
             new[k] = IF k <= Len(old) THEN old[k] ELSE five[k - Len(old)]
    <3>. DEFINE cat == old \o five
    <3>1. /\ cat \in Seq(Paths) /\ Len(cat) = Len(old) + Len(five)
          /\ \A k \in 1 .. Len(old) + Len(five) :
               cat[k] = IF k <= Len(old) THEN old[k] ELSE five[k - Len(old)]
      BY <1>3, ConcatProperties
    <3>2. new = cat /\ Len(five) = 5
      BY <1>1, <1>3
    <3>3. Len(old) \in Nat /\ DOMAIN old = 1 .. Len(old)
      BY <1>3
    <3>. HIDE DEF cat
    <3>. QED
      BY <3>1, <3>2, <3>3
  <2>2. DOMAIN new = 1 .. (Len(old) + 5)
    BY <2>1
  <2>3. ASSUME NEW m \in 1 .. 5
        PROVE  new[Len(old) + m] = five[m] /\ Len(old) + m \in DOMAIN new
    <3>1. Len(old) + m \in 1 .. (Len(old) + 5) /\ ~(Len(old) + m <= Len(old))
          /\ (Len(old) + m) - Len(old) = m
      BY <2>1
    <3>. QED
      BY <2>1, <2>2, <3>1
  <2>. QED
    BY <2>1, <2>2, <2>3
<1>6. OwnNotes(c)'
  <2>1. ASSUME NEW k \in DOMAIN new PROVE new[k] \in Named(c) \X Removed
    <3>1. CASE k <= Len(old)
      BY <1>5, <2>1, <3>1 DEF OwnNotes, old
    <3>2. CASE k > Len(old)
      <4>1. k - Len(old) \in 1 .. 5 /\ k = Len(old) + (k - Len(old))
        BY <1>5, <2>1, <3>2
      <4>2. new[k] = five[k - Len(old)]
        BY <1>5, <4>1
      <4>3. five[k - Len(old)] \in {Input(c)} \X Removed
        BY <1>3, <4>1
      <4>. QED
        BY <1>2, <4>2, <4>3
    <3>. QED
      BY <1>5, <2>1, <3>1, <3>2
  <2>. QED
    BY <2>1 DEF OwnNotes, new
<1>7. Noted(c, at[c])'
  <2>1. ASSUME NEW j \in DOMAIN Inputs[c], NEW kind \in Removed, j < at'[c]
        PROVE  \E k \in DOMAIN new : new[k] = <<Inputs[c][j], kind>>
    <3>0. j \in Nat
      BY DriverAssumption
    <3>1. CASE j = at[c]
      <4>1. PICK m \in 1 .. 5 : five[m] = <<Input(c), kind>>
        BY <1>4
      <4>. QED
        BY <1>5, <3>1, <4>1 DEF Input
    <3>2. CASE j # at[c]
      <4>1. j < at[c]
        BY <1>1, <2>1, <3>0, <3>2
      <4>2. PICK k \in DOMAIN old : old[k] = <<Inputs[c][j], kind>>
        BY <4>1 DEF Noted, old
      <4>. QED
        BY <1>5, <4>2
    <3>. QED
      BY <3>1, <3>2
  <2>. QED
    BY <2>1 DEF Noted, new
<1>. QED
  BY <1>6, <1>7

(* An input's round of the loop leaves what the invariant says.            *)
LEMMA RoundLeaves ==
  ASSUME DriverTypeOK, NEW c \in Commands, Leaves(c),
         \/ Passes(c) \/ Write(c) \/ WriteFails(c) \/ CompileRunner(c)
         \/ StartRunner(c) \/ RunnerEnds(c) \/ RunnerWritesTorn(c) \/ NextInput(c)
  PROVE  Leaves(c)'
<1>1. ~Over(c) /\ at[c] \in DOMAIN Inputs[c]
  <2>1. at[c] <= Len(Inputs[c]) /\ ~Over(c)
    BY Labels DEF Passes, Write, WriteFails, CompileRunner, StartRunner, RunnerEnds, RunnerWritesTorn,
       NextInput, AtInput, Over
  <2>. QED
    BY <2>1, InputNamed
<1>2. ~Over(c)' /\ pc'[c] \notin {"clean", "success"}
  BY Labels DEF Passes, Write, WriteFails, CompileRunner, StartRunner, RunnerEnds, RunnerWritesTorn,
     NextInput, Goto, DriverTypeOK, Over
<1>3. OwnNotes(c) /\ Noted(c, at[c]) /\ MadeSoFar(c)
  BY <1>1 DEF Leaves
<1>4. \A s : Made(c, s) => Made(c, s)'
  <2>1. Step(c)
    BY DEF Step
  <2>. QED
    BY <1>1, <2>1, PartsStay DEF Made
<1>5. CASE NextInput(c)
  <2>1. OwnNotes(c)' /\ Noted(c, at[c])'
    BY <1>3, <1>5, NotesInput
  <2>2. Compiled(c) /\ ~Compiled(c)' /\ at'[c] = at[c] + 1 /\ at[c] \in Nat
    BY <1>5 DEF NextInput, AtInput, Goto, Compiled, DriverTypeOK
  <2>3. \A j \in DOMAIN Inputs[c] : j \in Nat
    BY DriverAssumption
  <2>4. \A j \in DOMAIN Inputs[c] : j < at'[c] => j < at[c] \/ j = at[c]
    BY <2>2, <2>3
  <2>5. MadeSoFar(c)'
    BY <1>3, <1>4, <2>2, <2>4 DEF MadeSoFar
  <2>. QED
    BY <1>2, <2>1, <2>5 DEF Leaves
<1>6. CASE ~NextInput(c)
  <2>1. at' = at /\ files_to_remove' = files_to_remove
    BY <1>6 DEF Passes, Write, WriteFails, CompileRunner, StartRunner, RunnerEnds, RunnerWritesTorn
  <2>2. OwnNotes(c)' /\ Noted(c, at[c])'
    BY <1>3, <2>1 DEF OwnNotes, Noted
  <2>3. Compiled(c)' => Made(c, Input(c))'
    <3>1. CASE CompileRunner(c)
      BY <3>1, CompilesParts
    <3>2. CASE ~CompileRunner(c)
      <4>1. Compiled(c)' => Compiled(c)
        BY <1>6, <3>2 DEF Passes, Write, WriteFails, StartRunner, RunnerEnds, RunnerWritesTorn, AtInput,
           Goto, Compiled, DriverTypeOK, NextLabel
      <4>2. Compiled(c) => Made(c, Input(c))
        BY <1>1, <1>3 DEF MadeSoFar, Input
      <4>3. Input(c)' = Input(c)
        BY <2>1 DEF Input
      <4>. QED
        BY <1>4, <4>1, <4>2, <4>3 DEF Made
    <3>. QED
      BY <3>1, <3>2
  <2>4. MadeSoFar(c)'
    BY <1>3, <1>4, <2>1, <2>3 DEF MadeSoFar, Input, Made
  <2>. QED
    BY <1>2, <2>2, <2>4 DEF Leaves
<1>. QED
  BY <1>5, <1>6

(* So does the rest of the command.                                        *)
LEMMA EndLeaves ==
  ASSUME DriverTypeOK, NEW c \in Commands, Leaves(c),
         \/ PassesFail(c) \/ CompileRunnerFails(c) \/ StartRunnerFails(c)
         \/ RunnerFails(c) \/ FinalCompileFails(c)
         \/ FinalCompile(c) \/ RemoveFile(c) \/ RemoveFails(c) \/ Return(c)
  PROVE  Leaves(c)'
<1>1. CASE \/ PassesFail(c) \/ CompileRunnerFails(c) \/ StartRunnerFails(c)
           \/ RunnerFails(c) \/ FinalCompileFails(c)
  <2>1. pc'[c] = "failure" /\ files_to_remove' = files_to_remove
    BY <1>1 DEF PassesFail, CompileRunnerFails, StartRunnerFails, RunnerFails,
       FinalCompileFails, Goto, DriverTypeOK
  <2>. QED
    BY <2>1 DEF Leaves, Over, OwnNotes
<1>2. CASE FinalCompile(c)
  <2>1. /\ pc[c] = "passes" /\ at[c] > Len(Inputs[c]) /\ disk' = disk
        /\ pc'[c] = "clean" /\ at'[c] = 1 /\ files_to_remove' = files_to_remove
        /\ \A i \in DOMAIN Inputs[c] : Compilable(Inputs[c][i])
    BY <1>2 DEF FinalCompile, AtFinal, Goto, DriverTypeOK
  <2>2. /\ OwnNotes(c)'
        /\ Noted(c, at[c]) /\ MadeSoFar(c)
    BY <2>1 DEF Leaves, OwnNotes, Over
  <2>3. /\ \A j \in DOMAIN Inputs[c] : j < at[c] /\ j \in Nat
        /\ \A k \in DOMAIN files_to_remove[c] : ~(k < 1)
    BY <2>1, DriverAssumption DEF DriverTypeOK
  <2>4. Noted(c, Len(Inputs[c]) + 1)' /\ Gone(c, 1)'
    BY <2>1, <2>2, <2>3 DEF Noted, Gone
  <2>5. ASSUME NEW i \in DOMAIN Inputs[c]
        PROVE  /\ disk[<<Inputs[c][i], "header">>] # Absent
               /\ \A kind \in Kinds : disk[<<Inputs[c][i], kind>>] # Absent
    <3>1. Made(c, Inputs[c][i])
      BY <2>2, <2>3 DEF MadeSoFar
    <3>2. disk[<<Inputs[c][i], "final">>] # Absent
      BY <2>1 DEF Compilable
    <3>3. disk[<<Inputs[c][i], "header">>] # Absent
      BY <2>1 DEF Compilable
    <3>. QED
      BY <3>1, <3>2, <3>3 DEF Made, Parted, Kinds
  <2>6. HeadersStay(c)' /\ AllStay(c)'
    BY <2>1, <2>5 DEF HeadersStay, AllStay
  <2>. QED
    BY <2>1, <2>2, <2>4, <2>6 DEF Leaves, Over
<1>3. CASE RemoveFile(c)
  <2>1. /\ pc[c] = "clean" /\ at[c] \in DOMAIN files_to_remove[c]
        /\ pc' = pc /\ at'[c] = at[c] + 1 /\ files_to_remove' = files_to_remove
    BY <1>3 DEF RemoveFile, DriverTypeOK
  <2>2. Noted(c, Len(Inputs[c]) + 1) /\ HeadersStay(c) /\ OwnNotes(c)
    BY <2>1 DEF Leaves
  <2>3. OwnNotes(c)' /\ Noted(c, Len(Inputs[c]) + 1)'
    BY <2>1, <2>2 DEF OwnNotes, Noted
  <2>. DEFINE path == files_to_remove[c][at[c]]
  <2>4. path \in Named(c) \X Removed
    BY <2>1, <2>2 DEF OwnNotes
  <2>5. CASE c \in KeepInter
    <3>1. disk' = disk
      BY <1>3, <2>5 DEF RemoveFile
    <3>2. HeadersStay(c)' /\ AllStay(c)'
      BY <2>1, <2>2, <2>5, <3>1 DEF HeadersStay, AllStay, Leaves
    <3>. QED
      BY <2>1, <2>3, <2>5, <3>2 DEF Leaves, Over
  <2>6. CASE c \notin KeepInter
    <3>1. /\ disk' = [disk EXCEPT ![path] = Absent]
          /\ disk \in [Paths -> Seq(Marks)]
      BY <1>3, <2>6 DEF RemoveFile, DriverTypeOK
    <3>2. path \in Paths
      BY <2>4, NamedSources DEF Paths, Removed
    <3>3. \A i \in DOMAIN Inputs[c] : <<Inputs[c][i], "header">> # path
                                      /\ <<Inputs[c][i], "header">> \in Paths
      BY <2>4, NamedSources DEF Removed, Named, Paths, Kinds
    <3>. HIDE DEF path
    <3>4. HeadersStay(c)'
      <4>1. \A i \in DOMAIN Inputs[c] :
              disk'[<<Inputs[c][i], "header">>] = disk[<<Inputs[c][i], "header">>]
        BY <3>1, <3>3
      <4>. QED
        BY <2>2, <4>1 DEF HeadersStay
    <3>5. ASSUME NEW k \in DOMAIN files_to_remove[c], k < at[c] + 1,
                 files_to_remove[c][k][1] \notin Unwritable
          PROVE  disk'[files_to_remove[c][k]] = Absent
      <4>1. CASE k = at[c]
        BY <3>1, <3>2, <4>1 DEF path
      <4>2. CASE k # at[c]
        <5>1. k < at[c] /\ files_to_remove[c][k] \in Paths
          BY <2>1, <3>5, <4>2 DEF DriverTypeOK
        <5>2. disk[files_to_remove[c][k]] = Absent
          BY <2>1, <2>6, <3>5, <5>1 DEF Leaves, Gone
        <5>. QED
          BY <3>1, <3>2, <5>1, <5>2
      <4>. QED
        BY <4>1, <4>2
    <3>6. Gone(c, at[c])'
      BY <2>1, <3>5 DEF Gone
    <3>. QED
      BY <2>1, <2>3, <2>6, <3>4, <3>6 DEF Leaves, Over
  <2>. QED
    BY <2>5, <2>6
<1>5. CASE RemoveFails(c)
  <2>1. /\ pc[c] = "clean" /\ at[c] \in DOMAIN files_to_remove[c] /\ disk' = disk
        /\ files_to_remove[c][at[c]][1] \in Unwritable /\ c \notin KeepInter
        /\ pc' = pc /\ at'[c] = at[c] + 1 /\ files_to_remove' = files_to_remove
    BY <1>5 DEF RemoveFails, DriverTypeOK
  <2>2. Noted(c, Len(Inputs[c]) + 1) /\ HeadersStay(c) /\ OwnNotes(c) /\ Gone(c, at[c])
    BY <2>1 DEF Leaves
  <2>3. OwnNotes(c)' /\ Noted(c, Len(Inputs[c]) + 1)' /\ HeadersStay(c)'
    BY <2>1, <2>2 DEF OwnNotes, Noted, HeadersStay
  <2>4. Gone(c, at[c])'
    <3>1. \A k \in DOMAIN files_to_remove[c] : k < at[c] + 1 => k < at[c] \/ k = at[c]
      BY DEF DriverTypeOK
    <3>. QED
      BY <2>1, <2>2, <3>1 DEF Gone
  <2>. QED
    BY <2>1, <2>3, <2>4 DEF Leaves, Over
<1>4. CASE Return(c)
  <2>1. /\ pc[c] = "clean" /\ at[c] > Len(files_to_remove[c]) /\ disk' = disk
        /\ pc'[c] = "success" /\ files_to_remove' = files_to_remove
    BY <1>4 DEF Return, Goto, DriverTypeOK
  <2>2. \A k \in DOMAIN files_to_remove[c] : k < at[c]
    BY <2>1 DEF DriverTypeOK
  <2>3. c \notin KeepInter => Gone(c, Len(files_to_remove[c]) + 1)'
    BY <2>1, <2>2 DEF Leaves, Gone
  <2>. QED
    BY <2>1, <2>3 DEF Leaves, Over, OwnNotes, Noted, HeadersStay, AllStay
<1>. QED
  BY <1>1, <1>2, <1>3, <1>4, <1>5

(* Every step of every command keeps what each of them leaves.             *)
LEMMA LeavesStep ==
  ASSUME Apart, DriverTypeOK, \A c \in Commands : Leaves(c), [DriverNext]_driverVars
  PROVE  \A c \in Commands : Leaves(c)'
<1>1. CASE DriverNext
  <2>. PICK c \in Commands : Step(c)
    BY <1>1 DEF DriverNext
  <2>1. Leaves(c)'
    BY RoundLeaves, EndLeaves DEF Step
  <2>2. OwnFiles(c)
    BY DEF Leaves, OwnNotes, OwnFiles, Removed
  <2>3. \A d \in Commands : c # d => Leaves(d)'
    BY <2>2, Frame, FrameLeaves
  <2>. QED
    BY <2>1, <2>3
<1>2. CASE UNCHANGED driverVars
  <2>1. \A d \in Commands : Undisturbed(d)
    BY <1>2 DEF driverVars, Undisturbed
  <2>. QED
    BY <2>1, FrameLeaves
<1>. QED
  BY <1>1, <1>2

(* After a success, exactly the headers are left of a command's files, or  *)
(* all of them if it was told to keep them, however often it named a       *)
(* source and whatever writes failed on the way: beside a source where a   *)
(* deletion may fail, at least the header.                                 *)
THEOREM LeftAsToldCorrect ==
  ASSUME Apart
  PROVE  DriverSpec => []LeftAsTold
<1>. DEFINE AllLeave == \A c \in Commands : Leaves(c)
<1>1. DriverInit => AllLeave
  <2>. SUFFICES ASSUME DriverInit, NEW c \in Commands PROVE Leaves(c)
    OBVIOUS
  <2>1. pc[c] = "passes" /\ at[c] = 1 /\ files_to_remove[c] = <<>>
    BY DEF DriverInit
  <2>2. \A j \in DOMAIN Inputs[c] : ~(j < 1)
    BY DriverAssumption
  <2>3. OwnNotes(c) /\ Noted(c, at[c]) /\ MadeSoFar(c)
    BY <2>1, <2>2 DEF OwnNotes, Noted, MadeSoFar, Compiled
  <2>. QED
    BY <2>1, <2>3 DEF Leaves
<1>2. DriverTypeOK /\ AllLeave /\ [DriverNext]_driverVars => AllLeave'
  BY LeavesStep
<1>3. DriverTypeOK /\ AllLeave => LeftAsTold
  <2>. SUFFICES ASSUME DriverTypeOK, AllLeave, NEW c \in Commands, pc[c] = "success",
                       NEW i \in DOMAIN Inputs[c], NEW kind \in Kinds
                PROVE  LET present == disk[<<Inputs[c][i], kind>>] # Absent
                       IN IF kind = "header" \/ c \in KeepInter THEN present
                          ELSE Inputs[c][i] \notin Unwritable => ~present
    BY DEF LeftAsTold
  <2>1. Leaves(c)
    OBVIOUS
  <2>2. Noted(c, Len(Inputs[c]) + 1) /\ HeadersStay(c) /\ (c \in KeepInter => AllStay(c))
        /\ (c \notin KeepInter => Gone(c, Len(files_to_remove[c]) + 1))
    BY <2>1 DEF Leaves
  <2>3. CASE kind = "header" \/ c \in KeepInter
    BY <2>2, <2>3 DEF HeadersStay, AllStay
  <2>4. CASE kind # "header" /\ c \notin KeepInter
    <3>1. i < Len(Inputs[c]) + 1 /\ kind \in Removed
      BY <2>4, DriverAssumption DEF Removed
    <3>2. PICK k \in DOMAIN files_to_remove[c] :
            files_to_remove[c][k] = <<Inputs[c][i], kind>>
      BY <2>2, <3>1 DEF Noted
    <3>3. k < Len(files_to_remove[c]) + 1
      BY DEF DriverTypeOK
    <3>. QED
      BY <2>2, <2>4, <3>2, <3>3 DEF Gone
  <2>. QED
    BY <2>3, <2>4
<1>. QED
  BY <1>1, <1>2, <1>3, DriverTypeCorrect, PTL DEF DriverSpec
=============================================================================
