---------------------------- MODULE BuildScript ----------------------------
(* nob.c and the part of nob.h it is made of: ./nob rebuilds itself when its *)
(* source is newer, makes the two archives that are missing, links the       *)
(* program, copies the runner's template beside it and may run the tests.    *)
(* A file is the version of the source it was made from, None when it is     *)
(* absent.  Somebody edits the sources meanwhile, and may interrupt it.      *)
EXTENDS Integers, Sequences

CONSTANTS
  CommandLines,        \* what ./nob may be given
  None,
  MaxEdits, MaxTime, MaxInterrupts,    \* bounds of the runs
  MaxInvocations

ASSUME BuildAssumption ==
  /\ CommandLines \subseteq Seq({"test", "debug", "clean", "other"})
  /\ {MaxEdits, MaxTime, MaxInterrupts, MaxInvocations} \subseteq Nat
ASSUME NoneAssumption ==
  /\ None \notin Int
  /\ None \notin [version: Nat, time: Nat]
  /\ None \notin [app: Nat, runtime: Int, grammar: Int, debug: BOOLEAN]

Sources == {"nob.c", "runtime", "grammar", "app", "template"}
Archives == {"runtime", "grammar"}
Made == Archives \cup {"app", "template"}

VARIABLES
  pc, args, status,    \* the running ./nob, and the last one's exit status
  src,                 \* [Sources -> the version and the time of the file]
  nob, old,            \* the files nob and nob.old: version and time
  self,                \* the nob.c the running ./nob, or the one that is being
                       \* compiled, is made from
  build,               \* the files of build/
  now,                 \* the clock, in the seconds of st_mtime
  edits, interrupts, invocations,    \* counters that bound the run
  raced,               \* history: nob.c changed under the compiler, or in the
                       \* second its output was written
  changed, missing,    \* history of this invocation: the sources edited, the
  skipped,             \* archives it had to make, whether the copy failed,
  cleaned              \* whether the one before was a clean that succeeded

buildVars == <<pc, args, status, src, nob, old, self, build, now, edits,
               interrupts, invocations, raced, changed, missing, skipped,
               cleaned>>
world == <<src, now, edits, interrupts, invocations>>
history == <<raced, changed, missing, skipped, cleaned>>

Earlier == -1
Version(f) == src[f].version
First(word) == args # <<>> /\ args[1] = word

(* README: cc nob.c -o nob.  build/ may hold archives of an earlier checkout. *)
BuildInit ==
  /\ pc = "idle" /\ args = <<>> /\ status = "none"
  /\ src = [f \in Sources |-> [version |-> 0, time |-> 0]]
  /\ nob = [version |-> 0, time |-> 0]
  /\ old = None /\ self = None
  /\ \E found \in SUBSET Archives:
       build = [m \in Made |-> IF m \in found THEN Earlier ELSE None]
  /\ now = 0 /\ edits = 0 /\ interrupts = 0 /\ invocations = 0
  /\ raced = FALSE /\ changed = {} /\ missing = {} /\ skipped = FALSE
  /\ cleaned = FALSE

----------------------------------------------------------------------------
(* The world around the script.                                              *)
Tick == /\ now < MaxTime
        /\ now' = now + 1
        /\ UNCHANGED <<pc, args, status, src, nob, old, self, build, edits,
                       interrupts, invocations, history>>

Edit(f) ==
  /\ edits < MaxEdits
  /\ edits' = edits + 1
  /\ src' = [src EXCEPT ![f] = [version |-> edits + 1, time |-> now]]
  /\ changed' = changed \cup {f}
  /\ raced' = (raced \/ (f = "nob.c" /\ (pc = "compiling" \/ (nob # None /\ nob.time = now))))
  /\ UNCHANGED <<pc, args, status, nob, old, self, build, now, interrupts,
                 invocations, missing, skipped, cleaned>>

(* What a step that does not finish leaves in build/: rm may have deleted    *)
(* some files, the linker and the copy the one they were to write.           *)
Kept(kept) == [m \in Made |-> IF m \in kept THEN build[m] ELSE None]
Left == CASE pc = "clean" -> {Kept({}), Kept(Archives), Kept(Made)}
          [] pc = "link"  -> {build, Kept(Made \ {"app"})}
          [] pc = "copy"  -> {build, Kept(Made \ {"template"})}
          [] OTHER        -> {build}

(* The invocation ends, with every command it started.                       *)
Interrupt ==
  /\ pc # "idle"
  /\ interrupts < MaxInterrupts
  /\ interrupts' = interrupts + 1
  /\ pc' = "idle" /\ status' = "interrupted" /\ self' = None
  /\ build' \in Left
  /\ UNCHANGED <<args, src, nob, old, now, edits, invocations, history>>

(* Without a nob there is the compiler, as at the very beginning.            *)
Bootstrap ==
  /\ pc = "idle" /\ nob = None
  /\ nob' = [version |-> Version("nob.c"), time |-> now]
  /\ raced' = FALSE
  /\ UNCHANGED <<pc, args, status, old, self, build, world, changed, missing,
                 skipped, cleaned>>

Invoke ==
  /\ pc = "idle" /\ nob # None
  /\ invocations < MaxInvocations
  /\ invocations' = invocations + 1
  /\ args' \in CommandLines
  /\ pc' = "check" /\ status' = "none" /\ self' = nob.version
  /\ changed' = {} /\ missing' = {} /\ skipped' = FALSE
  /\ cleaned' = (status = "0" /\ First("clean"))
  /\ UNCHANGED <<src, nob, old, build, now, edits, interrupts, raced>>

Exit(s) == pc' = "idle" /\ status' = s /\ self' = None

----------------------------------------------------------------------------
(* nob__go_rebuild_urself.  It watches nob.c only, though it includes nob.h. *)
Watched == {"nob.c"}
NeedsRebuildOrSame == \E f \in Watched: src[f].time >= nob.time
NeedsRebuildOlder == \E f \in Watched: src[f].time < nob.time
NeedsRebuild == \E f \in Watched: src[f].time > nob.time

UpToDate ==
  /\ pc = "check"
  /\ ~NeedsRebuild
  /\ pc' = IF First("clean") THEN "clean" ELSE "mkdir"
  /\ UNCHANGED <<args, status, nob, old, self, build, world, history>>

(* nob becomes nob.old, and the compiler reads the source.                   *)
RenameAndCompile ==
  /\ pc = "check"
  /\ NeedsRebuild
  /\ old' = nob
  /\ nob' = None
  /\ self' = Version("nob.c")
  /\ raced' = FALSE
  /\ pc' = "compiling"
  /\ UNCHANGED <<args, status, build, world, changed, missing, skipped, cleaned>>

(* The new nob is run with the same arguments; the old one hands on whether  *)
(* it failed.                                                                *)
Compiled ==
  /\ pc = "compiling"
  /\ nob' = [version |-> self, time |-> now]
  /\ pc' = "check"
  /\ UNCHANGED <<args, status, old, self, build, world, history>>

RestoreNot(file) == None
Restore(file) == file

CompileFails ==
  /\ pc = "compiling"
  /\ nob' = Restore(old)
  /\ old' = None
  /\ raced' = FALSE
  /\ Exit("1")
  /\ UNCHANGED <<args, build, world, changed, missing, skipped, cleaned>>

----------------------------------------------------------------------------
(* main of nob.c.  Only the first argument is looked at, once for each one.  *)
CleanAll == [m \in Made |-> None]
CleanArchives == [m \in Made |-> IF m \in Archives THEN build[m] ELSE None]
Cleaned == CleanAll

Clean ==
  /\ pc = "clean"
  /\ build' = Cleaned
  /\ Exit("0")
  /\ UNCHANGED <<args, nob, old, world, history>>

MakeDirectory ==
  /\ pc = "mkdir"
  /\ pc' = "runtime"
  /\ missing' = {a \in Archives: build[a] = None}
  /\ UNCHANGED <<args, status, nob, old, self, build, world, raced, changed,
                 skipped, cleaned>>

(* build_tree_sitter_runtime and build_grammar_archive, for an archive that  *)
(* is missing: compile, then ar.                                             *)
ArchivedWhenThere(a) == IF build[a] # None THEN Version(a) ELSE build[a]
Archived(a) == IF build[a] = None THEN Version(a) ELSE build[a]

MakeArchive(a, next) ==
  /\ pc = a
  /\ build' = [build EXCEPT ![a] = Archived(a)]
  /\ pc' = next
  /\ UNCHANGED <<args, status, nob, old, self, world, history>>

(* link_app.                                                                 *)
Linked == [app |-> Version("app"), runtime |-> build["runtime"],
           grammar |-> build["grammar"], debug |-> First("debug")]

LinkApp ==
  /\ pc = "link"
  /\ build' = [build EXCEPT !["app"] = Linked]
  /\ pc' = "copy"
  /\ UNCHANGED <<args, status, nob, old, self, world, history>>

(* A command fails, or a file cannot be looked at: exit status 1.            *)
AfterFailureLinkIgnored ==
  IF pc = "link" THEN pc' = "copy" /\ UNCHANGED <<status, self>> ELSE Exit("1")
AfterFailure == Exit("1")

CommandFails ==
  /\ pc \in {"clean", "mkdir", "runtime", "grammar", "link"}
  /\ build' \in Left
  /\ AfterFailure
  /\ UNCHANGED <<args, nob, old, world, history>>

(* nob_copy_file, whose result is not looked at; the copy is opened with     *)
(* O_TRUNC, so a failure may leave an empty template.                        *)
AfterCopy == IF First("test") THEN pc' = "compile tests" /\ UNCHANGED <<status, self>>
             ELSE Exit("0")

CopyTemplate ==
  /\ pc = "copy"
  /\ build' = [build EXCEPT !["template"] = Version("template")]
  /\ AfterCopy
  /\ UNCHANGED <<args, nob, old, world, history>>

CopyFails ==
  /\ pc = "copy"
  /\ build' \in Left
  /\ skipped' = TRUE
  /\ AfterCopy
  /\ UNCHANGED <<args, nob, old, world, raced, changed, missing,
                 cleaned>>

(* The test runner is compiled and run; neither result is looked at.  When   *)
(* it cannot be compiled, the one of an earlier invocation is run.           *)
CompileTests ==
  /\ pc = "compile tests"
  /\ pc' = "run tests"
  /\ UNCHANGED <<args, status, nob, old, self, build, world, history>>

RunTests ==
  /\ pc = "run tests"
  /\ Exit("0")
  /\ UNCHANGED <<args, nob, old, build, world, history>>

Script ==
  \/ UpToDate \/ RenameAndCompile \/ Compiled \/ CompileFails
  \/ Clean \/ MakeDirectory
  \/ MakeArchive("runtime", "grammar") \/ MakeArchive("grammar", "link")
  \/ LinkApp \/ CommandFails \/ CopyTemplate \/ CopyFails
  \/ CompileTests \/ RunTests
BuildNext ==
  \/ Script \/ Invoke \/ Bootstrap \/ Tick \/ Interrupt
  \/ \E f \in Sources: Edit(f)

(* The script is run; nothing is assumed of the clock or of the user.        *)
BuildSpec == BuildInit /\ [][BuildNext]_buildVars /\ WF_buildVars(Script)

----------------------------------------------------------------------------
NobFiles == [version: 0..MaxEdits, time: 0..MaxTime] \cup {None}
ArchiveVersions == Earlier..MaxEdits

(* The program, when there is one, was linked with archives that were there. *)
Programs == [app: 0..MaxEdits, runtime: ArchiveVersions,
             grammar: ArchiveVersions, debug: BOOLEAN] \cup {None}
BuildOK(b) ==
  /\ b = [m \in Made |-> b[m]]
  /\ \A f \in Archives \cup {"template"}: b[f] \in ArchiveVersions \cup {None}
  /\ b["app"] \in Programs

BuildTypeOK ==
  /\ now \in 0..MaxTime /\ edits \in 0..MaxEdits
  /\ src \in [Sources -> [version: 0..MaxEdits, time: 0..now]]
  /\ pc \in {"idle", "check", "compiling", "clean", "mkdir", "runtime",
             "grammar", "link", "copy", "compile tests", "run tests"}
  /\ args \in CommandLines \cup {<<>>}
  /\ status \in {"none", "0", "1", "interrupted"}
  /\ nob \in NobFiles /\ old \in NobFiles /\ self \in 0..MaxEdits \cup {None}
  /\ BuildOK(build)
  /\ changed \subseteq Sources /\ missing \subseteq Archives
  /\ {raced, skipped, cleaned} \subseteq BOOLEAN

(* There is always a nob or a nob.old, and an invocation that was not        *)
(* interrupted leaves a nob, even when the new one does not compile.         *)
NobSurvives ==
  /\ nob # None \/ old # None
  /\ (pc = "idle" /\ status # "interrupted") => nob # None

(* What runs past the check is nob.c as it was at the check, unless it was   *)
(* edited under the compiler or in the very second the compiler was done.    *)
SelfFollowsSource ==
  (pc \notin {"idle", "check", "compiling"} /\ ~raced /\ "nob.c" \notin changed)
    => self = Version("nob.c")

(* What the tests are run on, and what exit status 0 leaves, if nobody       *)
(* edited a source meanwhile: the program is made of the sources as they     *)
(* are, of the archives beside it and for the asked mode, an archive it had  *)
(* to make is up to date, and so is the template if it could be copied.      *)
Delivered ==
  pc = "run tests" \/ (pc = "idle" /\ status = "0" /\ ~First("clean"))
BuildIsCurrent ==
  (Delivered /\ changed = {}) =>
    /\ build["app"] = [app |-> Version("app"), runtime |-> build["runtime"],
                       grammar |-> build["grammar"], debug |-> First("debug")]
    /\ \A a \in missing: build[a] = Version(a)
    /\ skipped \/ build["template"] = Version("template")

(* Archives are made once and never again, so ./nob clean is the only remedy *)
(* when their sources change: a build right after it uses none of an earlier *)
(* version.                                                                  *)
CleanThenBuildIsFresh ==
  (pc = "idle" /\ status = "0" /\ cleaned /\ ~First("clean") /\ changed = {}) =>
    /\ build["app"].runtime = Version("runtime")
    /\ build["app"].grammar = Version("grammar")

(* Every invocation ends: a nob that was just rebuilt does not do so again.  *)
InvocationEnds == (pc = "check") ~> (pc = "idle")
=============================================================================
