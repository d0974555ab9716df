------------------------- MODULE BuildScriptProofs -------------------------
(* Theorems about the build script, for any number of edits, interruptions   *)
(* and invocations with any arguments, at any times.                         *)
EXTENDS BuildScript, TLAPS

----------------------------------------------------------------------------
(* The types.  The program is linked of archives that are there, and a       *)
(* script that runs is made of some version of its source.                   *)
InPlace ==
  /\ pc # "idle" => self \in 0..MaxEdits
  /\ pc \in {"grammar", "link"} => build["runtime"] # None
  /\ pc = "link" => build["grammar"] # None

BuildTypes == BuildTypeOK /\ InPlace

LEMMA BuildTypesInitially == BuildInit => BuildTypes
<1> SUFFICES ASSUME BuildInit PROVE BuildTypes
  OBVIOUS
<1>1. 0 \in 0..MaxEdits /\ 0 \in 0..MaxTime /\ Earlier \in ArchiveVersions
  BY BuildAssumption DEF Earlier, ArchiveVersions
<1>2. src \in [Sources -> [version: 0..MaxEdits, time: 0..now]]
  BY <1>1 DEF BuildInit
<1>3. nob \in NobFiles /\ old \in NobFiles /\ self \in 0..MaxEdits \cup {None}
  BY <1>1 DEF BuildInit, NobFiles
<1>4. build = [m \in Made |-> build[m]] /\ \A m \in Made: build[m] \in {Earlier, None}
  BY DEF BuildInit
<1>5. build["app"] = None
  BY DEF BuildInit, Made, Archives
<1>6. /\ \A f \in Archives \cup {"template"}: build[f] \in ArchiveVersions \cup {None}
      /\ build["app"] \in Programs
  BY <1>1, <1>4, <1>5 DEF Made, Programs
<1> QED
  <2>1. BuildOK(build)
    BY <1>4, <1>6 DEF BuildOK
  <2>2. args \in CommandLines \cup {<<>>} /\ {raced, skipped, cleaned} \subseteq BOOLEAN
    BY DEF BuildInit
  <2>3. BuildTypeOK
    BY <1>1, <1>2, <1>3, <2>1, <2>2 DEF BuildInit, BuildTypeOK
  <2>4. InPlace
    BY DEF BuildInit, InPlace
  <2> QED  BY <2>3, <2>4 DEF BuildTypes

(* What a file of build/ is replaced by keeps the types of the others.       *)
LEMMA LeftIsTyped ==
  ASSUME BuildTypes, NEW b \in Left
  PROVE  BuildOK(b)
<1>1. BuildOK(build)
  BY DEF BuildTypes, BuildTypeOK
<1>2. ASSUME NEW kept PROVE BuildOK(Kept(kept))
  BY <1>1 DEF BuildOK, Kept, Made, Archives, Programs
<1>3. b = build \/ \E kept: b = Kept(kept)
  <2>1. CASE pc = "clean"
    BY <2>1 DEF Left
  <2>2. CASE pc = "link"
    BY <2>2 DEF Left
  <2>3. CASE pc = "copy"
    BY <2>3 DEF Left
  <2>4. CASE pc \notin {"clean", "link", "copy"}
    BY <2>4 DEF Left
  <2> QED  BY <2>1, <2>2, <2>3, <2>4
<1> QED  BY <1>1, <1>2, <1>3

LEMMA NoneIsNoNumber == None \notin Int
BY NoneAssumption

LEMMA NumbersAreTyped ==
  ASSUME BuildTypes
  PROVE  /\ MaxEdits \in Nat /\ MaxTime \in Nat
         /\ now \in 0..MaxTime /\ edits \in 0..MaxEdits
         /\ src \in [Sources -> [version: 0..MaxEdits, time: 0..now]]
         /\ raced \in BOOLEAN /\ skipped \in BOOLEAN /\ cleaned \in BOOLEAN
<1>1. MaxEdits \in Nat /\ MaxTime \in Nat
  BY BuildAssumption
<1> QED  BY <1>1 DEF BuildTypes, BuildTypeOK

LEMMA VersionsAreTyped ==
  ASSUME BuildTypes, NEW f \in Sources
  PROVE  /\ src[f] \in [version: 0..MaxEdits, time: 0..now]
         /\ Version(f) \in 0..MaxEdits /\ Version(f) \in ArchiveVersions
         /\ Version(f) # None
<1>1. src[f] \in [version: 0..MaxEdits, time: 0..now]
  BY NumbersAreTyped
<1>2. Version(f) \in 0..MaxEdits
  BY <1>1 DEF Version
<1>3. Version(f) \in ArchiveVersions /\ Version(f) \in Int
  BY <1>2, NumbersAreTyped DEF ArchiveVersions, Earlier
<1>4. Version(f) # None
  BY <1>3, NoneIsNoNumber
<1> QED  BY <1>1, <1>2, <1>3, <1>4

LEMMA LinkedIsTyped ==
  ASSUME BuildTypes, pc = "link"
  PROVE  Linked \in Programs /\ Linked # None
<1>1. Version("app") \in 0..MaxEdits
  BY VersionsAreTyped DEF Sources
<1>2. build["runtime"] \in ArchiveVersions /\ build["grammar"] \in ArchiveVersions
  BY DEF BuildTypes, BuildTypeOK, BuildOK, InPlace, Archives
<1>3. Linked \in [app: 0..MaxEdits, runtime: ArchiveVersions,
                  grammar: ArchiveVersions, debug: BOOLEAN]
  BY <1>1, <1>2 DEF Linked, First
<1>4. 0..MaxEdits \subseteq Nat /\ ArchiveVersions \subseteq Int
  BY BuildAssumption DEF ArchiveVersions, Earlier
<1>5. Linked \in [app: Nat, runtime: Int, grammar: Int, debug: BOOLEAN]
  BY <1>3, <1>4
<1> QED  BY <1>3, <1>5, NoneAssumption DEF Programs

(* Another invocation's or the user's step.                                  *)
LEMMA WorldKeepsTypes ==
  ASSUME BuildTypes, Tick \/ Interrupt \/ Bootstrap \/ Invoke \/ \E f \in Sources: Edit(f)
  PROVE  BuildTypes'
<1>1. CASE Tick
  <2>0. now < MaxTime /\ now' = now + 1 /\ src' = src
    BY <1>1 DEF Tick
  <2>1. now' \in 0..MaxTime /\ 0..now \subseteq 0..now'
    BY <2>0, NumbersAreTyped
  <2>2. src' \in [Sources -> [version: 0..MaxEdits, time: 0..now']]
    BY <2>0, <2>1, NumbersAreTyped
  <2>3. UNCHANGED <<pc, args, status, nob, old, self, build, edits, history>>
    BY <1>1 DEF Tick
  <2> QED
    <3>1. BuildTypeOK'
      BY <2>1, <2>2, <2>3 DEF history, BuildTypes, BuildTypeOK, NobFiles, Programs,
         ArchiveVersions, BuildOK
    <3>2. InPlace'
      BY <2>3 DEF BuildTypes, InPlace
    <3> QED  BY <3>1, <3>2 DEF BuildTypes
<1>2. CASE Interrupt
  <2>1. BuildOK(build')
    BY <1>2, LeftIsTyped DEF Interrupt
  <2> QED
    BY <1>2, <2>1 DEF Interrupt, history, BuildTypes, BuildTypeOK, InPlace,
       NobFiles, Programs, ArchiveVersions, BuildOK
<1>3. CASE Bootstrap
  <2>1. nob' \in NobFiles
    BY <1>3, VersionsAreTyped DEF Bootstrap, NobFiles, Sources, BuildTypes, BuildTypeOK
  <2> QED
    BY <1>3, <2>1 DEF Bootstrap, world, BuildTypes, BuildTypeOK, InPlace,
       NobFiles, Programs, ArchiveVersions, BuildOK
<1>4. CASE Invoke
  <2>1. self' \in 0..MaxEdits
    BY <1>4 DEF Invoke, NobFiles, BuildTypes, BuildTypeOK
  <2>2. cleaned' \in BOOLEAN
    BY <1>4 DEF Invoke, First
  <2> QED
    BY <1>4, <2>1, <2>2 DEF Invoke, BuildTypes, BuildTypeOK, InPlace,
       NobFiles, Programs, ArchiveVersions, BuildOK
<1>5. ASSUME NEW f \in Sources, Edit(f) PROVE BuildTypes'
  <2>0. edits < MaxEdits /\ edits' = edits + 1
    BY <1>5 DEF Edit
  <2>1. edits' \in 0..MaxEdits /\ now \in 0..now
    BY <2>0, NumbersAreTyped
  <2>2. src' \in [Sources -> [version: 0..MaxEdits, time: 0..now]]
    <3>1. src' = [src EXCEPT ![f] = [version |-> edits', time |-> now]]
      BY <1>5, <2>0 DEF Edit
    <3>2. [version |-> edits', time |-> now] \in [version: 0..MaxEdits, time: 0..now]
      BY <2>1
    <3> QED  BY <3>1, <3>2, NumbersAreTyped
  <2>3. raced' \in BOOLEAN
    BY <1>5, NumbersAreTyped, Zenon DEF Edit
  <2>4. now' = now /\ changed' \subseteq Sources
    BY <1>5 DEF Edit, BuildTypes, BuildTypeOK
  <2>5. UNCHANGED <<pc, args, status, nob, old, self, build, missing, skipped, cleaned>>
    BY <1>5 DEF Edit
  <2> QED
    <3>0. status' = status /\ {raced', skipped', cleaned'} \subseteq BOOLEAN
      BY <1>5, <2>3, <2>5, NumbersAreTyped DEF Edit
    <3>1. BuildTypeOK'
      BY <2>1, <2>2, <2>4, <2>5, <3>0 DEF BuildTypes, BuildTypeOK, NobFiles, Programs,
         ArchiveVersions, BuildOK
    <3>2. InPlace'
      BY <2>5 DEF BuildTypes, InPlace
    <3> QED  BY <3>1, <3>2 DEF BuildTypes
<1> QED  BY <1>1, <1>2, <1>3, <1>4, <1>5

(* A step of the script.                                                     *)
LEMMA ScriptKeepsTypes ==
  ASSUME BuildTypes, Script
  PROVE  BuildTypes'
<1> USE DEF BuildTypes, BuildTypeOK, InPlace, NobFiles, Programs, ArchiveVersions, BuildOK
<1>1. CASE UpToDate
  BY <1>1 DEF UpToDate, world, history
<1>2. CASE RenameAndCompile
  <2>1. self' \in 0..MaxEdits
    BY <1>2, VersionsAreTyped DEF RenameAndCompile, Sources
  <2> QED  BY <1>2, <2>1 DEF RenameAndCompile, world
<1>3. CASE Compiled
  <2>1. nob' \in NobFiles
    BY <1>3, NumbersAreTyped DEF Compiled
  <2> QED  BY <1>3, <2>1 DEF Compiled, world, history
<1>4. CASE CompileFails
  BY <1>4 DEF CompileFails, Restore, Exit, world
<1>5. CASE Clean
  BY <1>5 DEF Clean, Cleaned, CleanAll, Made, Archives, Exit, world, history
<1>6. CASE MakeDirectory
  BY <1>6 DEF MakeDirectory, world
<1>7. ASSUME NEW a \in Archives, NEW next \in {"grammar", "link"}, MakeArchive(a, next),
             a = "runtime" <=> next = "grammar"
      PROVE  BuildTypes'
  <2>0. Version(a) # None /\ Version(a) \in ArchiveVersions
    BY VersionsAreTyped DEF Sources, Archives
  <2>1. Archived(a) \in ArchiveVersions /\ Archived(a) # None
    BY <1>7, <2>0 DEF Archived
  <2>2. build' = [m \in Made |-> IF m = a THEN Archived(a) ELSE build[m]]
    BY <1>7 DEF MakeArchive
  <2> QED  BY <1>7, <2>1, <2>2 DEF MakeArchive, Made, Archives, world, history
<1>8. CASE LinkApp
  <2>1. build' = [m \in Made |-> IF m = "app" THEN Linked ELSE build[m]]
    BY <1>8 DEF LinkApp
  <2>2. Linked \in Programs
    BY <1>8, LinkedIsTyped DEF LinkApp
  <2> QED  BY <1>8, <2>1, <2>2 DEF LinkApp, Made, Archives, world, history
<1>9. CASE CommandFails
  <2>1. BuildOK(build')
    BY <1>9, LeftIsTyped DEF CommandFails
  <2> QED
    BY <1>9, <2>1 DEF CommandFails, AfterFailure, Exit, world, history, BuildOK
<1>10. CASE CopyTemplate
  <2>1. Version("template") \in ArchiveVersions
    BY VersionsAreTyped DEF Sources
  <2>2. build' = [m \in Made |-> IF m = "template" THEN Version("template") ELSE build[m]]
    BY <1>10 DEF CopyTemplate
  <2> QED
    BY <1>10, <2>1, <2>2 DEF CopyTemplate, AfterCopy, Exit, Made, Archives, world, history
<1>11. CASE CopyFails
  <2>1. BuildOK(build')
    BY <1>11, LeftIsTyped DEF CopyFails
  <2> QED
    BY <1>11, <2>1 DEF CopyFails, AfterCopy, Exit, world, BuildOK
<1>12. CASE CompileTests
  BY <1>12 DEF CompileTests, world, history
<1>13. CASE RunTests
  BY <1>13 DEF RunTests, Exit, world, history
<1> QED
  <2>1. CASE MakeArchive("runtime", "grammar")
    BY <1>7, <2>1 DEF Archives
  <2>2. CASE MakeArchive("grammar", "link")
    BY <1>7, <2>2 DEF Archives
  <2> HIDE DEF BuildTypes
  <2> QED
    BY <1>1, <1>2, <1>3, <1>4, <1>5, <1>6, <1>8, <1>9, <1>10, <1>11, <1>12, <1>13,
       <2>1, <2>2 DEF Script

LEMMA TypesArePreserved == BuildTypes /\ [BuildNext]_buildVars => BuildTypes'
<1> SUFFICES ASSUME BuildTypes, [BuildNext]_buildVars PROVE BuildTypes'
  OBVIOUS
<1>1. CASE UNCHANGED buildVars
  <2>1. BuildTypeOK'
    BY <1>1 DEF buildVars, BuildTypes, BuildTypeOK, NobFiles, Programs, ArchiveVersions,
       BuildOK
  <2>2. InPlace'
    BY <1>1 DEF buildVars, BuildTypes, InPlace
  <2> QED  BY <2>1, <2>2 DEF BuildTypes
<1> QED  BY <1>1, ScriptKeepsTypes, WorldKeepsTypes DEF BuildNext

(* The types are right, and the link finds its archives.                     *)
THEOREM BuildTypeCorrect == BuildSpec => []BuildTypeOK
<1>1. BuildTypes => BuildTypeOK
  BY DEF BuildTypes
<1> QED  BY <1>1, TypesArePreserved, BuildTypesInitially, PTL DEF BuildSpec


----------------------------------------------------------------------------
(* A nob, or the old one it is made from, is always there.                   *)
HasNob ==
  /\ NobSurvives
  /\ pc \notin {"idle", "compiling"} => nob # None
  /\ pc = "compiling" => old # None

LEMMA AFileIsThere ==
  ASSUME BuildTypes, NEW v \in 0..MaxEdits
  PROVE  [version |-> v, time |-> now] # None
<1>1. [version |-> v, time |-> now] \in [version: Nat, time: Nat]
  BY NumbersAreTyped
<1> QED  BY <1>1, NoneAssumption

(* A nob is there unless it is being compiled or that was interrupted.       *)
THEOREM NobSurvivesCorrect == BuildSpec => []NobSurvives
<1>1. BuildInit => HasNob
  <2>1. [version |-> 0, time |-> 0] \in [version: Nat, time: Nat]
    OBVIOUS
  <2> QED  BY <2>1, NoneAssumption DEF BuildInit, HasNob, NobSurvives
<1>2. BuildTypes /\ HasNob /\ [BuildNext]_buildVars => HasNob'
  <2> SUFFICES ASSUME BuildTypes, HasNob, [BuildNext]_buildVars PROVE HasNob'
    OBVIOUS
  <2>1. ASSUME nob # None, nob' = nob, pc' # "compiling" PROVE HasNob'
    BY <2>1 DEF HasNob, NobSurvives
  <2>2. CASE UNCHANGED <<pc, status, nob, old>>
    BY <2>2 DEF HasNob, NobSurvives
  <2>3. CASE Interrupt
    BY <2>3 DEF Interrupt, HasNob, NobSurvives
  <2>4. CASE Bootstrap
    <3>1. nob' # None
      BY <2>4, AFileIsThere, VersionsAreTyped DEF Bootstrap, Sources
    <3> QED  BY <2>4, <3>1 DEF Bootstrap, HasNob, NobSurvives
  <2>5. CASE RenameAndCompile
    BY <2>5 DEF RenameAndCompile, HasNob, NobSurvives
  <2>6. CASE Compiled
    <3>1. nob' # None
      BY <2>6, AFileIsThere DEF Compiled, BuildTypes, InPlace
    <3> QED  BY <2>6, <3>1 DEF Compiled, HasNob, NobSurvives
  <2>7. CASE CompileFails
    BY <2>7 DEF CompileFails, Restore, Exit, HasNob, NobSurvives
  <2>8. CASE UpToDate \/ Clean \/ MakeDirectory \/ MakeArchive("runtime", "grammar")
             \/ MakeArchive("grammar", "link") \/ LinkApp
    BY <2>1, <2>8 DEF HasNob, UpToDate, Clean, MakeDirectory, MakeArchive, LinkApp, Exit
  <2>9. CASE CommandFails \/ CopyTemplate \/ CopyFails \/ CompileTests \/ RunTests
    BY <2>1, <2>9 DEF HasNob, CommandFails, AfterFailure, CopyTemplate, CopyFails,
       AfterCopy, CompileTests, RunTests, Exit
  <2>10. CASE Invoke
    BY <2>1, <2>10 DEF Invoke
  <2>11. CASE Tick \/ \E f \in Sources: Edit(f)
    BY <2>2, <2>11 DEF Tick, Edit
  <2>12. CASE UNCHANGED buildVars
    BY <2>2, <2>12 DEF buildVars
  <2> QED
    BY <2>3, <2>4, <2>5, <2>6, <2>7, <2>8, <2>9, <2>10, <2>11, <2>12 DEF BuildNext, Script
<1>3. BuildTypes /\ [BuildNext]_buildVars => BuildTypes'
  BY TypesArePreserved
<1>4. HasNob => NobSurvives
  BY DEF HasNob
<1> QED  BY <1>1, <1>2, <1>3, <1>4, BuildTypesInitially, PTL DEF BuildSpec

----------------------------------------------------------------------------
(* Which source the running nob is made from.  A nob that is no older than   *)
(* its source was made from it, unless the source changed while it was made  *)
(* or in that second; one that is put back is older.                         *)
SameSource(file) == src["nob.c"].time <= file.time => file.version = Version("nob.c")
FollowsSource ==
  /\ SelfFollowsSource
  /\ nob # None => nob.time <= now /\ (raced \/ SameSource(nob))
  /\ old # None => old.time <= now
  /\ pc = "compiling" => /\ old # None /\ src["nob.c"].time > old.time
                         /\ raced \/ self = Version("nob.c")
  /\ pc = "check" => nob # None /\ self = nob.version

LEMMA TimesAreNumbers ==
  ASSUME BuildTypes
  PROVE  /\ now \in Int /\ src["nob.c"].time \in Int /\ src["nob.c"].time <= now
         /\ nob # None => nob.time \in Int
         /\ old # None => old.time \in Int
<1>1. src["nob.c"] \in [version: 0..MaxEdits, time: 0..now]
  BY VersionsAreTyped DEF Sources
<1>2. nob \in NobFiles /\ old \in NobFiles
  BY DEF BuildTypes, BuildTypeOK
<1> QED  BY <1>1, <1>2, NumbersAreTyped DEF NobFiles

LEMMA FollowsSourceStep ==
  ASSUME BuildTypes, FollowsSource, [BuildNext]_buildVars
  PROVE  FollowsSource'
<1> USE DEF SameSource, Version
<1>1. ASSUME UNCHANGED <<src, nob, old, now, raced>>, pc' = "idle" \/ (pc' = pc /\ self' = self),
             changed' = changed
      PROVE  FollowsSource'
  BY <1>1 DEF FollowsSource, SelfFollowsSource
<1>2. ASSUME UNCHANGED <<src, nob, old, now, raced, self, changed>>,
             pc \notin {"idle", "check", "compiling"},
             pc' \notin {"idle", "check", "compiling"}
      PROVE  FollowsSource'
  BY <1>2 DEF FollowsSource, SelfFollowsSource
<1>3. CASE UpToDate
  <2>1. UNCHANGED <<src, nob, old, now, raced, self, changed>> /\ pc = "check"
        /\ pc' \in {"clean", "mkdir"}
    BY <1>3 DEF UpToDate, world, history
  <2>2. src["nob.c"].time <= nob.time
    BY <1>3, TimesAreNumbers DEF UpToDate, NeedsRebuild, Watched, FollowsSource
  <2> QED  BY <2>1, <2>2 DEF FollowsSource, SelfFollowsSource
<1>4. CASE RenameAndCompile
  <2>1. src["nob.c"].time > nob.time
    BY <1>4 DEF RenameAndCompile, NeedsRebuild, Watched
  <2>2. UNCHANGED <<src, now>> /\ old' = nob /\ nob' = None /\ self' = Version("nob.c")
        /\ pc = "check" /\ pc' = "compiling"
    BY <1>4 DEF RenameAndCompile, world
  <2> QED  BY <2>1, <2>2 DEF FollowsSource, SelfFollowsSource
<1>5. CASE Compiled
  <2>1. UNCHANGED <<src, now, old, self, raced>> /\ nob' = [version |-> self, time |-> now]
        /\ pc = "compiling" /\ pc' = "check"
    BY <1>5 DEF Compiled, world, history
  <2>2. nob' # None
    BY <2>1, AFileIsThere DEF BuildTypes, InPlace
  <2> QED  BY <2>1, <2>2, TimesAreNumbers DEF FollowsSource, SelfFollowsSource
<1>6. CASE CompileFails
  <2>1. UNCHANGED <<src, now>> /\ nob' = old /\ old' = None /\ pc = "compiling" /\ pc' = "idle"
    BY <1>6 DEF CompileFails, Restore, Exit, world
  <2> QED  BY <2>1, TimesAreNumbers DEF FollowsSource, SelfFollowsSource
<1>7. CASE Clean \/ CommandFails \/ RunTests \/ Interrupt
  BY <1>1, <1>7 DEF Clean, CommandFails, AfterFailure, RunTests, Interrupt, Exit, world, history
<1>8. CASE MakeDirectory \/ MakeArchive("runtime", "grammar") \/ MakeArchive("grammar", "link")
           \/ LinkApp \/ CompileTests
  BY <1>2, <1>8 DEF MakeDirectory, MakeArchive, LinkApp, CompileTests, world, history
<1>9. CASE CopyTemplate \/ CopyFails
  <2>1. UNCHANGED <<src, nob, old, now, raced, changed>> /\ pc = "copy"
        /\ (pc' = "idle" \/ (pc' = "compile tests" /\ self' = self))
    BY <1>9 DEF CopyTemplate, CopyFails, AfterCopy, Exit, world, history
  <2> QED  BY <1>1, <1>2, <2>1
<1>10. CASE Invoke
  <2>1. UNCHANGED <<src, nob, old, now, raced>> /\ nob # None /\ self' = nob.version
        /\ pc' = "check"
    BY <1>10 DEF Invoke
  <2> QED  BY <2>1 DEF FollowsSource, SelfFollowsSource
<1>11. CASE Bootstrap
  <2>1. UNCHANGED <<pc, old, src, now>> /\ pc = "idle"
        /\ nob' = [version |-> Version("nob.c"), time |-> now]
    BY <1>11 DEF Bootstrap, world
  <2> QED  BY <2>1, TimesAreNumbers DEF FollowsSource, SelfFollowsSource
<1>12. CASE Tick
  <2>1. UNCHANGED <<pc, src, nob, old, self, raced, changed>> /\ now' = now + 1
    BY <1>12 DEF Tick, history
  <2> QED  BY <2>1, TimesAreNumbers DEF FollowsSource, SelfFollowsSource
<1>13. ASSUME NEW f \in Sources, Edit(f) PROVE FollowsSource'
  <2>1. UNCHANGED <<pc, nob, old, self, now>> /\ changed' = changed \cup {f}
        /\ src' = [src EXCEPT ![f] = [version |-> edits + 1, time |-> now]]
    BY <1>13 DEF Edit
  <2>2. src' = [g \in Sources |-> IF g = f THEN [version |-> edits + 1, time |-> now] ELSE src[g]]
    BY <2>1, NumbersAreTyped
  <2>3. CASE f = "nob.c"
    <3>1. src'["nob.c"].time = now
      BY <2>2, <2>3 DEF Sources
    <3>2. raced' = (raced \/ pc = "compiling" \/ (nob # None /\ nob.time = now))
      BY <1>13, <2>3 DEF Edit
    <3>3. (nob # None /\ ~(nob.time = now)) => ~(now <= nob.time)
      BY TimesAreNumbers DEF FollowsSource
    <3>4. pc = "compiling" => now > old.time
      BY TimesAreNumbers DEF FollowsSource
    <3>5. "nob.c" \in changed'
      BY <2>1, <2>3
    <3> QED  BY <2>1, <3>1, <3>2, <3>3, <3>4, <3>5 DEF FollowsSource, SelfFollowsSource
  <2>4. CASE f # "nob.c"
    <3>1. src'["nob.c"] = src["nob.c"] /\ raced' = raced /\ ("nob.c" \in changed' <=> "nob.c" \in changed)
      BY <1>13, <2>1, <2>2, <2>4, NumbersAreTyped, Zenon DEF Edit, Sources
    <3> QED  BY <2>1, <3>1 DEF FollowsSource, SelfFollowsSource
  <2> QED  BY <2>3, <2>4
<1>14. CASE UNCHANGED buildVars
  BY <1>14 DEF buildVars, FollowsSource, SelfFollowsSource
<1> QED
  BY <1>3, <1>4, <1>5, <1>6, <1>7, <1>8, <1>9, <1>10, <1>11, <1>12, <1>13, <1>14
  DEF BuildNext, Script

(* What runs past the check is nob.c as it is, whatever was edited before,   *)
(* whenever an earlier rebuild was interrupted or failed.                    *)
THEOREM SelfFollowsSourceCorrect == BuildSpec => []SelfFollowsSource
<1>1. BuildInit => FollowsSource
  BY DEF BuildInit, FollowsSource, SelfFollowsSource, SameSource, Version, Sources
<1>2. BuildTypes /\ FollowsSource /\ [BuildNext]_buildVars => FollowsSource'
  BY FollowsSourceStep
<1>3. BuildTypes /\ [BuildNext]_buildVars => BuildTypes'
  BY TypesArePreserved
<1>4. FollowsSource => SelfFollowsSource
  BY DEF FollowsSource
<1> QED  BY <1>1, <1>2, <1>3, <1>4, BuildTypesInitially, PTL DEF BuildSpec

----------------------------------------------------------------------------
(* What the build has done so far, unless a source was edited meanwhile: an  *)
(* archive that was missing is made, then the program, then the template.    *)
Testing == {"compile tests", "run tests"}
LinkedNow == build["app"] = Linked
MissingMade == \A a \in missing: build[a] = Version(a)
TemplateThere == skipped \/ build["template"] = Version("template")

Progress ==
  /\ pc = "clean" => First("clean")
  /\ pc \notin {"idle", "check", "compiling", "clean"} => ~First("clean")
  /\ pc = "runtime" => \A a \in missing: build[a] = None
  /\ pc = "grammar" /\ changed = {} =>
       \A a \in missing: build[a] = IF a = "runtime" THEN Version(a) ELSE None
  /\ pc \in {"link", "copy"} \cup Testing /\ changed = {} => MissingMade
  /\ pc \in {"copy"} \cup Testing /\ changed = {} => LinkedNow
  /\ pc \in Testing /\ changed = {} => TemplateThere
  /\ Delivered /\ changed = {} => LinkedNow /\ MissingMade /\ TemplateThere

LEMMA LeftOfTheCopy ==
  ASSUME pc = "copy", NEW b \in Left, NEW m \in Made \ {"template"}
  PROVE  b[m] = build[m]
BY DEF Left, Kept

LEMMA ProgressStep ==
  ASSUME BuildTypes, Progress, [BuildNext]_buildVars
  PROVE  Progress'
<1> USE DEF Testing, LinkedNow, MissingMade, TemplateThere, Linked, First, Version
<1>1. ASSUME pc' = "idle", status' # "0" PROVE Progress'
  BY <1>1 DEF Progress, Delivered
<1>2. ASSUME UNCHANGED <<pc, args, status, src, build, changed, missing, skipped>>
      PROVE  Progress'
  BY <1>2 DEF Progress, Delivered
<1>3. ASSUME pc' \in {"check", "compiling"} PROVE Progress'
  BY <1>3 DEF Progress, Delivered
<1>4. CASE Interrupt \/ CompileFails \/ CommandFails
  BY <1>1, <1>4 DEF Interrupt, CompileFails, CommandFails, AfterFailure, Exit
<1>5. CASE Tick \/ Bootstrap \/ UNCHANGED buildVars
  BY <1>2, <1>5 DEF Tick, Bootstrap, buildVars, world, history
<1>6. CASE Invoke \/ RenameAndCompile \/ Compiled
  BY <1>3, <1>6 DEF Invoke, RenameAndCompile, Compiled
<1>7. ASSUME NEW f \in Sources, Edit(f) PROVE Progress'
  <2>1. changed' # {} /\ UNCHANGED <<pc, args, build, missing>>
    BY <1>7 DEF Edit
  <2> QED  BY <2>1 DEF Progress, Delivered
<1>8. CASE UpToDate
  BY <1>8 DEF UpToDate, Progress, Delivered
<1>9. CASE Clean
  BY <1>9 DEF Clean, Exit, Progress, Delivered
<1>10. CASE MakeDirectory
  <2>1. pc = "mkdir" /\ pc' = "runtime" /\ UNCHANGED <<args, build>>
        /\ missing' = {a \in Archives: build[a] = None}
    BY <1>10 DEF MakeDirectory
  <2> QED  BY <2>1 DEF Progress, Delivered
<1>11. ASSUME NEW a \in Archives, MakeArchive(a, IF a = "runtime" THEN "grammar" ELSE "link")
       PROVE  Progress'
  <2>1. pc = a /\ pc' = (IF a = "runtime" THEN "grammar" ELSE "link")
        /\ UNCHANGED <<args, src, changed, missing>>
    BY <1>11 DEF MakeArchive, world, history
  <2>2. build' = [m \in Made |-> IF m = a THEN Archived(a) ELSE build[m]]
    BY <1>11 DEF MakeArchive, BuildTypes, BuildTypeOK, BuildOK
  <2>3. missing \subseteq Archives
    BY DEF BuildTypes, BuildTypeOK
  <2> QED  BY <2>1, <2>2, <2>3 DEF Archived, Archives, Made, Progress, Delivered
<1>12. CASE LinkApp
  <2>1. pc = "link" /\ pc' = "copy" /\ UNCHANGED <<args, src, changed, missing>>
    BY <1>12 DEF LinkApp, world, history
  <2>2. build' = [m \in Made |-> IF m = "app" THEN Linked ELSE build[m]]
    BY <1>12 DEF LinkApp, BuildTypes, BuildTypeOK, BuildOK
  <2>3. missing \subseteq Archives
    BY DEF BuildTypes, BuildTypeOK
  <2> QED  BY <2>1, <2>2, <2>3 DEF Archives, Made, Progress, Delivered
<1>13. ASSUME pc = "copy", UNCHANGED <<args, src, changed, missing>>, TemplateThere',
              \A m \in Made \ {"template"}: build'[m] = build[m],
              pc' \in {"idle", "compile tests"}
       PROVE  Progress'
  <2>1. missing \subseteq Archives
    BY DEF BuildTypes, BuildTypeOK
  <2> QED  BY <1>13, <2>1 DEF Archives, Made, Progress, Delivered
<1>14. CASE CopyTemplate
  <2>1. build' = [m \in Made |-> IF m = "template" THEN Version("template") ELSE build[m]]
    BY <1>14 DEF CopyTemplate, BuildTypes, BuildTypeOK, BuildOK
  <2>2. build'["template"] = Version("template")
    BY <2>1 DEF Made
  <2> QED
    BY <1>13, <1>14, <2>1, <2>2 DEF CopyTemplate, AfterCopy, Exit, world, history
<1>15. CASE CopyFails
  <2>1. \A m \in Made \ {"template"}: build'[m] = build[m]
    BY <1>15, LeftOfTheCopy DEF CopyFails
  <2> QED  BY <1>13, <1>15, <2>1 DEF CopyFails, AfterCopy, Exit, world
<1>16. CASE CompileTests
  BY <1>16 DEF CompileTests, world, history, Progress, Delivered
<1>17. CASE RunTests
  BY <1>17 DEF RunTests, Exit, world, history, Progress, Delivered
<1> QED
  <2>1. CASE MakeArchive("runtime", "grammar")
    BY <1>11, <2>1 DEF Archives
  <2>2. CASE MakeArchive("grammar", "link")
    BY <1>11, <2>2 DEF Archives
  <2> QED
    BY <1>4, <1>5, <1>6, <1>7, <1>8, <1>9, <1>10, <1>12, <1>14, <1>15, <1>16, <1>17,
       <2>1, <2>2 DEF BuildNext, Script

LEMMA ProgressInitially == BuildInit => Progress
BY DEF BuildInit, Progress, Delivered, Testing

(* A build that succeeds is made of the sources as they are, and of the      *)
(* archives that were there or were made of them.                            *)
THEOREM BuildIsCurrentCorrect == BuildSpec => []BuildIsCurrent
<1>1. BuildTypes /\ Progress /\ [BuildNext]_buildVars => Progress'
  BY ProgressStep
<1>2. Progress => BuildIsCurrent
  <2> SUFFICES ASSUME Progress PROVE BuildIsCurrent
    OBVIOUS
  <2>1. pc = "run tests" /\ changed = {} => LinkedNow /\ MissingMade /\ TemplateThere
    BY DEF Progress, Testing
  <2>2. Delivered /\ changed = {} => LinkedNow /\ MissingMade /\ TemplateThere
    BY DEF Progress
  <2> QED
    BY <2>1, <2>2 DEF BuildIsCurrent, LinkedNow, MissingMade, TemplateThere, Linked
<1> QED
  BY <1>1, <1>2, ProgressInitially, TypesArePreserved, BuildTypesInitially, PTL DEF BuildSpec

----------------------------------------------------------------------------
(* After a clean the two archives are missing until they are made.           *)
NoArchives == \A a \in Archives: build[a] = None
AfterClean ==
  /\ pc = "idle" /\ status = "0" /\ First("clean") => NoArchives
  /\ cleaned /\ pc \in {"check", "compiling", "mkdir"} => NoArchives
  /\ cleaned /\ (Delivered \/ pc \in {"runtime", "grammar", "link", "copy"} \cup Testing)
       => missing = Archives

LEMMA AfterCleanStep ==
  ASSUME BuildTypes, Progress, AfterClean, [BuildNext]_buildVars
  PROVE  AfterClean'
<1> USE DEF Testing, NoArchives, First
<1>1. ASSUME pc' = "idle", status' # "0" PROVE AfterClean'
  BY <1>1 DEF AfterClean, Delivered
<1>2. ASSUME UNCHANGED <<pc, args, status, build, missing, cleaned>> PROVE AfterClean'
  BY <1>2 DEF AfterClean, Delivered
<1>3. ASSUME UNCHANGED <<args, missing, cleaned>>, ~First("clean"),
             pc \in {"runtime", "grammar", "link", "copy"} \cup Testing,
             pc' \in {"idle", "grammar", "link", "copy"} \cup Testing
      PROVE  AfterClean'
  BY <1>3 DEF AfterClean, Delivered
<1>4. CASE Interrupt \/ CompileFails \/ CommandFails
  BY <1>1, <1>4 DEF Interrupt, CompileFails, CommandFails, AfterFailure, Exit
<1>5. CASE Tick \/ Bootstrap \/ UNCHANGED buildVars \/ \E f \in Sources: Edit(f)
  BY <1>2, <1>5 DEF Tick, Bootstrap, buildVars, Edit, world, history
<1>6. CASE Invoke
  <2>1. pc' = "check" /\ build' = build /\ pc = "idle"
        /\ (cleaned' => (status = "0" /\ First("clean")))
    BY <1>6 DEF Invoke
  <2> QED  BY <2>1 DEF AfterClean, Delivered
<1>7. CASE RenameAndCompile \/ Compiled \/ UpToDate
  <2>1. UNCHANGED <<args, build, cleaned>> /\ pc \in {"check", "compiling"}
        /\ pc' \in {"check", "compiling", "clean", "mkdir"}
    BY <1>7 DEF RenameAndCompile, Compiled, UpToDate, world, history
  <2> QED  BY <2>1 DEF AfterClean, Delivered
<1>8. CASE Clean
  <2>1. pc = "clean" /\ pc' = "idle" /\ build' = [m \in Made |-> None] /\ args' = args
    BY <1>8 DEF Clean, Exit, Cleaned, CleanAll
  <2>2. NoArchives'
    BY <2>1 DEF Made
  <2>3. First("clean")'
    BY <2>1 DEF Progress
  <2> QED  BY <2>1, <2>2, <2>3 DEF AfterClean, Delivered
<1>9. CASE MakeDirectory
  <2>1. pc = "mkdir" /\ pc' = "runtime" /\ UNCHANGED <<args, build, cleaned>>
        /\ missing' = {a \in Archives: build[a] = None}
    BY <1>9 DEF MakeDirectory
  <2> QED  BY <2>1 DEF AfterClean, Delivered
<1>10. ~First("clean") \/ pc \in {"idle", "check", "compiling", "clean"}
  BY DEF Progress
<1>11. CASE MakeArchive("runtime", "grammar") \/ MakeArchive("grammar", "link") \/ LinkApp
            \/ CompileTests \/ RunTests
  BY <1>3, <1>10, <1>11 DEF MakeArchive, LinkApp, CompileTests, RunTests, Exit, history
<1>12. CASE CopyTemplate \/ CopyFails
  BY <1>3, <1>10, <1>12 DEF CopyTemplate, CopyFails, AfterCopy, Exit, history
<1> QED
  BY <1>4, <1>5, <1>6, <1>7, <1>8, <1>9, <1>11, <1>12 DEF BuildNext, Script

(* ./nob clean, then ./nob: no archive of an earlier version is linked.      *)
THEOREM CleanThenBuildIsFreshCorrect == BuildSpec => []CleanThenBuildIsFresh
<1>1. BuildInit => AfterClean
  BY DEF BuildInit, AfterClean, Delivered, Testing
<1>2. BuildTypes /\ Progress /\ AfterClean /\ [BuildNext]_buildVars => AfterClean'
  BY AfterCleanStep
<1>3. BuildTypes /\ Progress /\ [BuildNext]_buildVars => Progress'
  BY ProgressStep
<1>4. Progress /\ AfterClean => CleanThenBuildIsFresh
  <2> SUFFICES ASSUME Progress, AfterClean, pc = "idle", status = "0", cleaned,
                      ~First("clean"), changed = {}
               PROVE  build["app"].runtime = Version("runtime")
                      /\ build["app"].grammar = Version("grammar")
    BY DEF CleanThenBuildIsFresh
  <2>1. Delivered
    BY DEF Delivered
  <2>2. LinkedNow /\ MissingMade
    BY <2>1 DEF Progress
  <2>3. missing = {"runtime", "grammar"}
    BY <2>1 DEF AfterClean, Archives
  <2> QED  BY <2>2, <2>3 DEF LinkedNow, MissingMade, Linked
<1> QED
  BY <1>1, <1>2, <1>3, <1>4, ProgressInitially, TypesArePreserved, BuildTypesInitially, PTL
  DEF BuildSpec
=============================================================================
