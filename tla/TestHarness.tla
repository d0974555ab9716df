---------------------------- MODULE TestHarness ----------------------------
(* tests/test.c: every test is compiled with ccomptime while its assertion   *)
(* is compiled with clang, then all the programs run, then all the           *)
(* assertions, which read what the programs printed and write a results      *)
(* file.  The harness counts failures, deletes what was made and exits.      *)
(*                                                                           *)
(* An interrupt (^C, a CI time limit) may end the harness once; its children *)
(* end with it, as they are in its process group.  The next invocation finds *)
(* the files it left: "old" ones, which the properties tell from those the   *)
(* present invocation makes.                                                 *)
EXTENDS Processes

CONSTANTS
  TestCount,    \* the number of directories under tests/
  Settings,     \* what an invocation may find: MAX_PROCS, which is twice the
                \* number of processors, and the tests with an assertion.c
  Kinds         \* the four kinds of job

ASSUME HarnessAssumption ==
  /\ TestCount \in Nat \ {0}
  /\ Settings \subseteq [limit: Nat \ {0, 1}, asserted: SUBSET (1..TestCount)]
  /\ Kinds = {"compile", "compile assertion", "run", "assert"}
  /\ Jobs = Kinds \X (1..TestCount)

VARIABLES
  pc, phase, i,     \* where main() is
  todo,             \* the jobs of the phase that are still to be started
  limit,            \* MAX_PROCS
  asserted,         \* the tests that have an assertion.c
  disk,             \* the files of every test
  failed,           \* whether `assertions` has a failed entry
  interrupted,
  broken, lost, unstarted    \* history: some child ended badly, some did so
                             \* unnoticed, some job was not started

harnessVars == <<procs, child, pc, phase, i, todo, limit, asserted, disk,
                 failed, interrupted, broken, lost, unstarted>>

Tests == 1..TestCount
Files == [out: {"none", "old", "new"}, assertion: {"none", "old", "new"},
          shown: {"wrong", "old right", "right"},
          results: {"no pass", "old pass", "pass"}]
NoFiles == [out |-> "none", assertion |-> "none", shown |-> "wrong",
            results |-> "no pass"]

(* The jobs of each of the three passes, and the order they are started in:  *)
(* test by test, the program before its assertion.                           *)
Phases == <<"compile", "run", "assert">>
PhaseJobs(p) ==
  {<<Phases[p], t>>: t \in Tests}
    \cup IF p = 1 THEN {<<"compile assertion", t>>: t \in asserted} ELSE {}
Before(j, k) ==
  j[2] < k[2] \/ (j[2] = k[2] /\ j[1] = "compile" /\ k[1] = "compile assertion")
IsNext(j) == j \in todo /\ \A k \in todo \ {j}: Before(j, k)

----------------------------------------------------------------------------
HarnessInit ==
  /\ PoolInit
  /\ \E s \in Settings: limit = s.limit /\ asserted = s.asserted
  /\ pc = "schedule"
  /\ phase = 1
  /\ i = 1
  /\ todo = PhaseJobs(1)
  /\ disk = [t \in Tests |-> NoFiles]
  /\ failed = FALSE
  /\ interrupted = FALSE
  /\ broken = FALSE
  /\ lost = FALSE
  /\ unstarted = FALSE

(* What a job may leave of the files of its test when it ends in the given   *)
(* way.  A compiler that fails leaves what it found.  An output file that is *)
(* absent is as good as a wrong one, and so is an absent results file.       *)
Fresh(file) == file = "new"
Built(was, how) == IF how = "ok" THEN "new" ELSE was

Compiled(f, how) == {[f EXCEPT !.out = Built(f.out, how)]}
AssertionCompiled(f, how) == {[f EXCEPT !.assertion = Built(f.assertion, how)]}
Ran(f, how) ==
  IF f.out = "none" THEN IF how = "ok" THEN {} ELSE {f}
  ELSE {[f EXCEPT !.shown = s]:
          s \in {"wrong", IF Fresh(f.out) THEN "right" ELSE "old right"}}
Asserted(f, how) ==
  IF how # "ok" THEN {f}
  ELSE IF f.assertion = "none" THEN {}
  ELSE {[f EXCEPT !.results =
           IF f.shown = "wrong" THEN "no pass"
           ELSE IF Fresh(f.assertion) /\ f.shown = "right" THEN "pass"
           ELSE "old pass"]}
Outcomes(kind, f, how) == CASE kind = "compile" -> Compiled(f, how)
                            [] kind = "compile assertion" -> AssertionCompiled(f, how)
                            [] kind = "run" -> Ran(f, how)
                            [] kind = "assert" -> Asserted(f, how)

(* A child process ends.                                                     *)
JobEnds(j) ==
  \E how \in {"ok", "bad"}:
    /\ ProcessEnds(j, how)
    /\ \E f \in Outcomes(j[1], disk[j[2]], how):
         disk' = [disk EXCEPT ![j[2]] = f]
    /\ broken' = (broken \/ how # "ok")
    /\ UNCHANGED <<pc, phase, i, todo, limit, asserted, failed, interrupted,
                   lost, unstarted>>

(* The parent opens, and so empties, the file the program prints to.         *)
Redirected(j) ==
  IF j[1] = "run" THEN [disk EXCEPT ![j[2]].shown = "wrong"] ELSE disk

----------------------------------------------------------------------------
(* nob_cmd_run with .async: the child is started if the pool has room.       *)
StartJob ==
  /\ pc = "schedule"
  /\ ~Full(limit)
  /\ \E j \in todo:
       /\ IsNext(j)
       /\ StartProcess(j)
       /\ todo' = todo \ {j}
       /\ disk' = Redirected(j)
  /\ UNCHANGED <<pc, phase, i, limit, asserted, failed, interrupted, broken, lost,
                 unstarted>>

(* The output file cannot be opened or there is no other process to be had:  *)
(* nob_cmd_run returns false, which no caller looks at.                      *)
StartFails ==
  /\ pc = "schedule"
  /\ ~Full(limit)
  /\ unstarted' = TRUE
  /\ \E j \in todo:
       /\ IsNext(j)
       /\ todo' = todo \ {j}
       /\ disk' \in {disk, Redirected(j)}
  /\ UNCHANGED <<poolVars, pc, phase, i, limit, asserted, failed,
                 interrupted, broken, lost>>

(* The pool is full: look at every child in turn, from the first.            *)
StartPolling ==
  /\ \/ pc = "schedule" /\ todo # {}
     \/ pc = "poll" /\ i > Len(procs)
  /\ Full(limit)
  /\ pc' = "poll"
  /\ i' = 1
  /\ UNCHANGED <<poolVars, phase, todo, limit, asserted, disk, failed, interrupted, broken,
                 lost, unstarted>>

PollRunning ==
  /\ pc = "poll"
  /\ i <= Len(procs)
  /\ Running(procs[i])
  /\ i' = i + 1
  /\ UNCHANGED <<poolVars, pc, phase, todo, limit, asserted, disk, failed,
                 interrupted, broken, lost, unstarted>>

(* An ended child leaves the pool; its failure is logged and forgotten.      *)
PollReaps ==
  /\ pc = "poll"
  /\ i <= Len(procs)
  /\ PollEnded(i)
  /\ lost' = (lost \/ Failure(procs[i]))
  /\ pc' = "schedule"
  /\ i' = 1
  /\ UNCHANGED <<phase, todo, limit, asserted, disk, failed,
                 interrupted, broken, unstarted>>

----------------------------------------------------------------------------
(* The end of a pass: wait for the children left in the pool, in its order.  *)
StartWaiting ==
  /\ pc = "schedule"
  /\ todo = {}
  /\ pc' = "wait"
  /\ i' = 1
  /\ UNCHANGED <<poolVars, phase, todo, limit, asserted, disk, failed, interrupted, broken,
                 lost, unstarted>>

CountNone(f, j) == f
Count(f, j) == f \/ Failure(j)

Wait ==
  /\ pc = "wait"
  /\ i <= Len(procs)
  /\ WaitEnded(i)
  /\ failed' = Count(failed, procs[i])
  /\ i' = i + 1
  /\ UNCHANGED <<pc, phase, todo, limit, asserted, disk,
                 interrupted, broken, lost, unstarted>>

WaitedOne == i > 1 \/ procs = <<>>
Waited == i > Len(procs)

(* procs.count = 0, and the next pass or the results.                        *)
NextPass ==
  /\ pc = "wait"
  /\ Waited
  /\ procs' = <<>>
  /\ i' = 1
  /\ IF phase < Len(Phases)
     THEN /\ pc' = "schedule"
          /\ phase' = phase + 1
          /\ todo' = PhaseJobs(phase + 1)
     ELSE /\ pc' = "parse"
          /\ UNCHANGED <<phase, todo>>
  /\ UNCHANGED <<child, limit, asserted, disk, failed, interrupted, broken, lost,
                 unstarted>>

(* The results files: a missing one is a failure of its test.                *)
Parse ==
  /\ pc = "parse"
  /\ failed' = (failed \/ \E t \in Tests: disk[t].results = "no pass")
  /\ pc' = "clean"
  /\ UNCHANGED <<poolVars, phase, i, todo, limit, asserted, disk,
                 interrupted, broken, lost, unstarted>>

(* Everything that was made is deleted, then the harness exits with 1 if     *)
(* anything failed.                                                          *)
Clean ==
  /\ pc = "clean"
  /\ disk' = [t \in Tests |-> NoFiles]
  /\ pc' = IF failed THEN "exit 1" ELSE "exit 0"
  /\ UNCHANGED <<poolVars, phase, i, todo, limit, asserted, failed, interrupted, broken,
                 lost, unstarted>>

(* The harness is interrupted, and somebody invokes it again.                *)
AgedFile(f) ==
  [out |-> IF f.out = "new" THEN "old" ELSE f.out,
   assertion |-> IF f.assertion = "new" THEN "old" ELSE f.assertion,
   shown |-> IF f.shown = "right" THEN "old right" ELSE f.shown,
   results |-> IF f.results = "pass" THEN "old pass" ELSE f.results]

Interrupt ==
  /\ ~interrupted
  /\ pc \notin {"exit 0", "exit 1"}
  /\ interrupted' = TRUE
  /\ disk' = [t \in Tests |-> AgedFile(disk[t])]
  /\ procs' = <<>>
  /\ child' = [j \in Jobs |-> "none"]
  /\ pc' = "schedule"
  /\ phase' = 1
  /\ i' = 1
  /\ todo' = PhaseJobs(1)
  /\ failed' = FALSE
  /\ broken' = FALSE
  /\ lost' = FALSE
  /\ unstarted' = FALSE
  /\ UNCHANGED <<limit, asserted>>

HarnessStep ==
  \/ StartJob \/ StartFails \/ StartPolling \/ PollRunning \/ PollReaps
  \/ StartWaiting \/ Wait \/ NextPass \/ Parse \/ Clean
HarnessNext == HarnessStep \/ Interrupt \/ \E j \in Jobs: JobEnds(j)

(* The scheduler runs the harness, and the programs under test end.          *)
HarnessSpec ==
  /\ HarnessInit
  /\ [][HarnessNext]_harnessVars
  /\ WF_harnessVars(HarnessStep)
  /\ \A j \in Jobs: WF_harnessVars(JobEnds(j))

----------------------------------------------------------------------------
(* The pool never holds more than MAX_PROCS children, whatever main does.    *)
HarnessTypeOK ==
  /\ procs \in Seq(Jobs) /\ Len(procs) <= limit
  /\ child \in [Jobs -> {"none", "running", "ok", "bad", "reaped"}]
  /\ pc \in {"schedule", "poll", "wait", "parse", "clean", "exit 0", "exit 1"}
  /\ phase \in 1..Len(Phases)
  /\ i \in 1..(limit + 1)
  /\ todo \subseteq Jobs
  /\ [limit |-> limit, asserted |-> asserted] \in Settings
  /\ disk \in [Tests -> Files]
  /\ {failed, interrupted, broken, lost, unstarted} \subseteq BOOLEAN

(* No child is forgotten and none is waited for twice: the children that     *)
(* nobody has waited for are those of the pool, each of them once.  Removing *)
(* an element moves another one while the loop over the pool is under way.   *)
Unreaped == {j \in Jobs: child[j] \in {"running", "ok", "bad"}}
Awaited == {k \in 1..Len(procs): pc = "wait" => k >= i}
EveryChildIsAwaited ==
  /\ {procs[k]: k \in Awaited} = Unreaped
  /\ \A k, l \in 1..Len(procs): procs[k] = procs[l] => k = l

(* A program is not run before all the programs are made, no assertion runs  *)
(* before all the programs have ended, and no result is read before all the  *)
(* assertions have: the children alive are jobs of the present pass.         *)
PassesDoNotOverlap ==
  \A j \in Unreaped: /\ pc \in {"schedule", "poll", "wait"}
                     /\ j \in PhaseJobs(phase)

(* Exit status 0: every test was compiled, ran and passed its assertion in   *)
(* this invocation, provided every job could be started.  A failure is lost  *)
(* only where the pool was too small for the jobs of a pass, and nothing an  *)
(* interrupted invocation left behind makes a test pass.                     *)
VerdictIsSound ==
  (pc = "clean" /\ ~failed /\ ~unstarted /\ (lost => limit >= 2 * TestCount)) =>
    /\ ~broken
    /\ asserted = Tests
    /\ \A j \in Jobs: child[j] = "reaped"
    /\ \A t \in Tests: disk[t].results = "pass"

(* The harness ends, with nothing left on the disk, if the programs under    *)
(* test do.                                                                  *)
Ends == <>(pc \in {"exit 0", "exit 1"} /\ disk = [t \in Tests |-> NoFiles])
=============================================================================
