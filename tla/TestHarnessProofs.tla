------------------------- MODULE TestHarnessProofs -------------------------
(* Theorems about the test harness, for any number of tests and any size of  *)
(* the pool.                                                                 *)
EXTENDS TestHarness, FiniteSetTheorems, TLAPS

----------------------------------------------------------------------------
(* The jobs of the passes.                                                   *)
Passes == 1..3
Alive == {"running", "ok", "bad"}

LEMMA Constants ==
  /\ TestCount \in Nat /\ TestCount > 0 /\ Len(Phases) = 3
  /\ Kinds = {"compile", "compile assertion", "run", "assert"}
  /\ Jobs = Kinds \X Tests
<1>1. TestCount \in Nat /\ TestCount > 0
  <2>1. TestCount \in Nat \ {0}
    BY HarnessAssumption, Zenon
  <2> QED  BY <2>1
<1>2. Len(Phases) = 3
  BY DEF Phases
<1> QED  BY <1>1, <1>2, HarnessAssumption, Zenon DEF Tests

LEMMA JobsOfPasses ==
  /\ PhaseJobs(1) = {<<"compile", t>>: t \in Tests} \cup {<<"compile assertion", t>>: t \in asserted}
  /\ PhaseJobs(2) = {<<"run", t>>: t \in Tests}
  /\ PhaseJobs(3) = {<<"assert", t>>: t \in Tests}
BY DEF PhaseJobs, Phases

LEMMA PassesAreDisjoint ==
  ASSUME NEW p \in Passes, NEW q \in Passes, p # q
  PROVE  PhaseJobs(p) \cap PhaseJobs(q) = {}
<1>1. \A k, t: <<k, t>>[1] = k
  OBVIOUS
<1>2. \A j \in PhaseJobs(1): j[1] \in {"compile", "compile assertion"}
  BY <1>1, JobsOfPasses
<1>3. \A j \in PhaseJobs(2) \cup PhaseJobs(3): j[1] \in {"run", "assert"}
  BY <1>1, JobsOfPasses
<1>5. \A j \in PhaseJobs(2): j[1] = "run"
  BY <1>1, JobsOfPasses
<1>6. \A j \in PhaseJobs(3): j[1] = "assert"
  BY <1>1, JobsOfPasses
<1>4. p \in {1, 2, 3} /\ q \in {1, 2, 3}
  BY DEF Passes
<1>7. ASSUME NEW j \in PhaseJobs(p), j \in PhaseJobs(q) PROVE FALSE
  <2>1. CASE p = 1
    BY <1>2, <1>3, <1>4, <1>7, <2>1
  <2>2. CASE p = 2
    BY <1>2, <1>4, <1>5, <1>6, <1>7, <2>2
  <2>3. CASE p = 3
    BY <1>2, <1>4, <1>5, <1>6, <1>7, <2>3
  <2> QED  BY <1>4, <2>1, <2>2, <2>3
<1> QED  BY <1>7

LEMMA PassesAreJobs ==
  ASSUME asserted \subseteq Tests, NEW p \in Passes
  PROVE  PhaseJobs(p) \subseteq Jobs
<1>1. p \in {1, 2, 3}
  BY DEF Passes
<1>2. \A k \in Kinds, t \in Tests: <<k, t>> \in Jobs
  BY Constants
<1>3. {"compile", "compile assertion", "run", "assert"} = Kinds
  BY Constants
<1>4. PhaseJobs(1) \subseteq Jobs
  BY <1>2, <1>3, JobsOfPasses
<1>5. PhaseJobs(2) \subseteq Jobs /\ PhaseJobs(3) \subseteq Jobs
  BY <1>2, <1>3, JobsOfPasses
<1> QED  BY <1>1, <1>4, <1>5

(* r is s without its n-th element, in whatever order.                       *)
LeavesOut(S, s, n, r) ==
  /\ r \in Seq(S) /\ Len(r) = Len(s) - 1
  /\ \A k \in 1..Len(r): \E m \in 1..Len(s): m # n /\ r[k] = s[m]
  /\ \A m \in 1..Len(s): m # n => \E k \in 1..Len(r): r[k] = s[m]
  /\ \A k, l \in 1..Len(r): r[k] = r[l] => k = l

(* nob_da_remove_unordered takes away one element and keeps the others.      *)
LEMMA RemovedUnordered ==
  ASSUME NEW S, NEW s, NEW n, NEW r, s \in Seq(S), n \in 1..Len(s),
         r = RemoveUnordered(s, n),
         \A k, l \in 1..Len(s): s[k] = s[l] => k = l
  PROVE  LeavesOut(S, s, n, r)
<1> DEFINE last == Len(s)
           moved == [s EXCEPT ![n] = s[last]]
<1>1. /\ last \in Nat /\ last >= 1 /\ moved \in Seq(S) /\ Len(moved) = last
      /\ \A k \in 1..last: moved[k] = IF k = n THEN s[last] ELSE s[k]
  OBVIOUS
<1>2. r = SubSeq(moved, 1, last - 1)
  BY DEF RemoveUnordered
<1> HIDE DEF moved
<1>3. /\ r \in Seq(S) /\ Len(r) = last - 1
      /\ \A k \in 1..(last - 1): r[k] = moved[k]
  BY <1>1, <1>2
<1>4. \A k \in 1..(last - 1): k \in 1..last /\ k # last /\ r[k] = IF k = n THEN s[last] ELSE s[k]
  BY <1>1, <1>3
<1>5. ASSUME NEW k \in 1..Len(r) PROVE \E m \in 1..last: m # n /\ r[k] = s[m]
  <2>1. k \in 1..(last - 1) /\ last \in 1..last
    BY <1>1, <1>3
  <2>2. CASE k = n
    BY <1>4, <2>1, <2>2
  <2>3. CASE k # n
    BY <1>4, <2>1, <2>3
  <2> QED  BY <2>2, <2>3
<1>6. ASSUME NEW m \in 1..last, m # n PROVE \E k \in 1..Len(r): r[k] = s[m]
  <2>1. CASE m = last
    <3>1. n \in 1..(last - 1)
      BY <1>1, <1>6, <2>1
    <3> QED  BY <1>3, <1>4, <2>1, <3>1
  <2>2. CASE m # last
    <3>1. m \in 1..(last - 1)
      BY <1>1, <2>2
    <3> QED  BY <1>3, <1>4, <1>6, <3>1
  <2> QED  BY <2>1, <2>2
<1>7. ASSUME NEW k \in 1..Len(r), NEW l \in 1..Len(r), r[k] = r[l] PROVE k = l
  <2>1. k \in 1..(last - 1) /\ l \in 1..(last - 1) /\ last \in 1..last
    BY <1>1, <1>3
  <2> QED  BY <1>4, <1>7, <2>1
<1> QED  BY <1>3, <1>5, <1>6, <1>7 DEF LeavesOut

----------------------------------------------------------------------------
(* The invariant: the pool holds every child alive, once; the children alive *)
(* are of the present pass, and later passes have not begun.                 *)
PoolOK ==
  /\ procs \in Seq(Jobs) /\ Len(procs) <= limit
  /\ child \in [Jobs -> {"none", "running", "ok", "bad", "reaped"}]
  /\ \A k \in 1..Len(procs): (pc = "wait" => k >= i) => child[procs[k]] \in Alive
  /\ \A j \in Jobs: child[j] \in Alive =>
       \E k \in 1..Len(procs): procs[k] = j /\ (pc = "wait" => k >= i)
  /\ \A k, l \in 1..Len(procs): procs[k] = procs[l] => k = l
  /\ pc \in {"parse", "clean", "exit 0", "exit 1"} => procs = <<>>

MainOK ==
  /\ pc \in {"schedule", "poll", "wait", "parse", "clean", "exit 0", "exit 1"}
  /\ phase \in Passes
  /\ i \in Nat /\ 1 <= i /\ i <= Len(procs) + 1
  /\ limit \in Nat /\ asserted \subseteq Tests
  /\ [limit |-> limit, asserted |-> asserted] \in Settings
  /\ todo \subseteq PhaseJobs(phase)

OrderOK ==
  /\ \A j \in todo: child[j] = "none"
  /\ \A q \in Passes: q > phase => \A j \in PhaseJobs(q): child[j] = "none"
  /\ \A j \in Jobs: child[j] \in Alive => j \in PhaseJobs(phase)

FilesOK ==
  /\ disk \in [Tests -> Files]
  /\ failed \in BOOLEAN /\ interrupted \in BOOLEAN
  /\ broken \in BOOLEAN /\ lost \in BOOLEAN /\ unstarted \in BOOLEAN

HarnessOK == PoolOK /\ MainOK /\ OrderOK /\ FilesOK

LEMMA HarnessInitially == HarnessInit => HarnessOK
<1> SUFFICES ASSUME HarnessInit PROVE HarnessOK
  OBVIOUS
<1>1. limit \in Nat /\ asserted \subseteq Tests
      /\ [limit |-> limit, asserted |-> asserted] \in Settings
  <2>1. PICK s \in Settings: limit = s.limit /\ asserted = s.asserted
    BY DEF HarnessInit
  <2>2. s \in [limit: Nat \ {0, 1}, asserted: SUBSET (1..TestCount)]
    BY HarnessAssumption, Zenon
  <2>3. s = [limit |-> limit, asserted |-> asserted]
    BY <2>1, <2>2
  <2> QED  BY <2>1, <2>2, <2>3 DEF Tests
<1>2. procs = <<>> /\ procs \in Seq(Jobs) /\ Len(procs) = 0
      /\ child = [j \in Jobs |-> "none"]
  BY DEF HarnessInit, PoolInit
<1>3. PoolOK
  BY <1>1, <1>2 DEF PoolOK, HarnessInit, Alive
<1>4. MainOK
  BY <1>1, <1>2 DEF MainOK, HarnessInit, Passes
<1>5. OrderOK
  BY <1>1, <1>2, PassesAreJobs DEF OrderOK, HarnessInit, Alive, Passes
<1>6. FilesOK
  BY DEF FilesOK, HarnessInit, Files, NoFiles
<1> QED  BY <1>3, <1>4, <1>5, <1>6 DEF HarnessOK

LEMMA TodoAreJobs ==
  ASSUME HarnessOK
  PROVE  /\ todo \subseteq Jobs /\ \A q \in Passes: PhaseJobs(q) \subseteq Jobs
         /\ \A j \in Jobs: j[1] \in Kinds /\ j[2] \in Tests
<1>1. \A q \in Passes: PhaseJobs(q) \subseteq Jobs
  BY PassesAreJobs DEF HarnessOK, MainOK
<1>2. \A j \in Jobs: j[1] \in Kinds /\ j[2] \in Tests
  BY Constants
<1> QED  BY <1>1, <1>2 DEF HarnessOK, MainOK

----------------------------------------------------------------------------
(* The files.                                                                *)
LEMMA OutcomesAreFiles ==
  ASSUME NEW f \in Files, NEW kind \in Kinds, NEW how \in {"ok", "bad"},
         NEW g \in Outcomes(kind, f, how)
  PROVE  g \in Files
<1>1. kind \in {"compile", "compile assertion", "run", "assert"}
  BY Constants
<1>2. CASE kind = "compile"
  BY <1>2 DEF Outcomes, Compiled, Built, Files
<1>3. CASE kind = "compile assertion"
  BY <1>3 DEF Outcomes, AssertionCompiled, Built, Files
<1>4. CASE kind = "run"
  <2>1. g \in Ran(f, how)
    BY <1>4 DEF Outcomes
  <2>2. g = f \/ \E s \in {"wrong", "right", "old right"}: g = [f EXCEPT !.shown = s]
    BY <2>1 DEF Ran, Fresh
  <2> QED  BY <2>2 DEF Files
<1>5. CASE kind = "assert"
  <2>1. g \in Asserted(f, how)
    BY <1>5 DEF Outcomes
  <2>2. g = f \/ \E s \in {"no pass", "pass", "old pass"}: g = [f EXCEPT !.results = s]
    BY <2>1 DEF Asserted
  <2> QED  BY <2>2 DEF Files
<1> QED  BY <1>1, <1>2, <1>3, <1>4, <1>5

LEMMA FilesStayTyped ==
  ASSUME HarnessOK, [HarnessNext]_harnessVars
  PROVE  FilesOK'
<1>1. disk \in [Tests -> Files]
  BY DEF HarnessOK, FilesOK
<1>2. ASSUME NEW j \in Jobs PROVE Redirected(j) \in [Tests -> Files]
  <2>1. \A f \in Files: [f EXCEPT !.shown = "wrong"] \in Files
    BY DEF Files
  <2>2. j[2] \in Tests
    BY TodoAreJobs
  <2>3. [disk EXCEPT ![j[2]].shown = "wrong"] \in [Tests -> Files]
    BY <1>1, <2>1, <2>2
  <2> QED  BY <1>1, <2>3 DEF Redirected
<1>3. NoFiles \in Files
  BY DEF Files, NoFiles
<1>4. \A f \in Files: AgedFile(f) \in Files
  BY DEF Files, AgedFile
<1>5. disk' \in [Tests -> Files]
  <2>1. CASE StartJob \/ StartFails
    BY <1>1, <1>2, <2>1, TodoAreJobs DEF StartJob, StartFails
  <2>2. CASE StartPolling \/ PollRunning \/ PollReaps \/ StartWaiting \/ Wait \/ NextPass \/ Parse
             \/ UNCHANGED harnessVars
    BY <1>1, <2>2 DEF StartPolling, PollRunning, PollReaps, StartWaiting, Wait, NextPass, Parse,
       harnessVars
  <2>3. CASE Clean \/ Interrupt
    BY <1>1, <1>3, <1>4, <2>3 DEF Clean, Interrupt
  <2>4. ASSUME NEW j \in Jobs, JobEnds(j) PROVE disk' \in [Tests -> Files]
    <3>1. PICK how \in {"ok", "bad"}: \E f \in Outcomes(j[1], disk[j[2]], how):
            disk' = [disk EXCEPT ![j[2]] = f]
      BY <2>4 DEF JobEnds
    <3>2. j[1] \in Kinds /\ j[2] \in Tests
      BY TodoAreJobs
    <3>3. \A f \in Outcomes(j[1], disk[j[2]], how): f \in Files
      BY <1>1, <3>2, OutcomesAreFiles
    <3> QED  BY <1>1, <3>1, <3>2, <3>3
  <2> QED  BY <2>1, <2>2, <2>3, <2>4 DEF HarnessNext, HarnessStep
<1>6. /\ failed' \in BOOLEAN /\ interrupted' \in BOOLEAN
      /\ broken' \in BOOLEAN /\ lost' \in BOOLEAN /\ unstarted' \in BOOLEAN
  <2> USE DEF HarnessOK, FilesOK
  <2>1. CASE StartJob \/ StartPolling \/ PollRunning \/ StartWaiting \/ NextPass \/ Clean
             \/ UNCHANGED harnessVars
    BY <2>1 DEF StartJob, StartPolling, PollRunning, StartWaiting, NextPass, Clean, harnessVars
  <2>2. CASE StartFails \/ Interrupt
    BY <2>2 DEF StartFails, Interrupt
  <2>3. CASE PollReaps
    BY <2>3, Zenon DEF PollReaps
  <2>4. CASE Wait
    BY <2>4, Zenon DEF Wait, Count
  <2>5. CASE Parse
    BY <2>5, Zenon DEF Parse
  <2>6. ASSUME NEW j \in Jobs, JobEnds(j)
        PROVE  /\ UNCHANGED <<failed, interrupted, lost, unstarted>> /\ broken' \in BOOLEAN
    BY <2>6, Zenon DEF JobEnds
  <2> QED  BY <2>1, <2>2, <2>3, <2>4, <2>5, <2>6 DEF HarnessNext, HarnessStep
<1> QED  BY <1>5, <1>6 DEF FilesOK

----------------------------------------------------------------------------
(* The pool and main.                                                        *)
LEMMA PoolIsASequence ==
  ASSUME HarnessOK
  PROVE  /\ procs \in Seq(Jobs) /\ Len(procs) \in Nat
         /\ \A k \in 1..Len(procs): procs[k] \in Jobs
<1>1. procs \in Seq(Jobs)
  BY DEF HarnessOK, PoolOK
<1> QED  BY <1>1

LEMMA MainIsTyped ==
  ASSUME HarnessOK
  PROVE  /\ phase \in Passes /\ phase \in Int /\ limit \in Nat /\ asserted \subseteq Tests
         /\ i \in Nat /\ 1 <= i /\ i <= Len(procs) + 1
         /\ [limit |-> limit, asserted |-> asserted] \in Settings
<1>1. /\ phase \in Passes /\ limit \in Nat /\ asserted \subseteq Tests
      /\ i \in Nat /\ 1 <= i /\ i <= Len(procs) + 1
      /\ [limit |-> limit, asserted |-> asserted] \in Settings
  BY Zenon DEF HarnessOK, MainOK
<1>2. phase \in Int
  BY <1>1 DEF Passes
<1> QED  BY <1>1, <1>2

LEMMA SameJobs ==
  ASSUME asserted' = asserted, NEW q
  PROVE  PhaseJobs(q)' = PhaseJobs(q)
BY DEF PhaseJobs

(* A job is started: it was not in the pool.                                 *)
LEMMA StartKeepsOK ==
  ASSUME HarnessOK, StartJob
  PROVE  PoolOK' /\ MainOK' /\ OrderOK'
<1> USE DEF HarnessOK
<1>1. PICK j \in todo: StartProcess(j) /\ todo' = todo \ {j}
  BY DEF StartJob
<1>2. /\ UNCHANGED <<pc, phase, i, limit, asserted>> /\ pc = "schedule"
      /\ j \in Jobs /\ child[j] = "none" /\ j \in PhaseJobs(phase)
  BY TodoAreJobs DEF StartJob, OrderOK, MainOK
<1>3. /\ child' = [k \in Jobs |-> IF k = j THEN "running" ELSE child[k]]
      /\ procs' = Append(procs, j)
  BY <1>1 DEF StartProcess, PoolOK
<1>4. /\ Len(procs) \in Nat /\ Len(procs') = Len(procs) + 1 /\ procs' \in Seq(Jobs)
      /\ procs'[Len(procs) + 1] = j
      /\ \A k \in 1..Len(procs): procs'[k] = procs[k] /\ procs[k] \in Jobs /\ procs[k] # j
  <2>1. procs \in Seq(Jobs)
    BY DEF PoolOK
  <2>2. \A k \in 1..Len(procs): procs[k] # j
    BY <1>2 DEF PoolOK, Alive
  <2> QED  BY <1>2, <1>3, <2>1, <2>2
<1>5. Len(procs') <= limit
  BY <1>4 DEF StartJob, Full, MainOK
<1>6. \A k \in 1..Len(procs'): k \in 1..Len(procs) \/ k = Len(procs) + 1
  BY <1>4
<1>7. PoolOK'
  <2>1. \A k \in 1..Len(procs'): child'[procs'[k]] \in Alive
    BY <1>2, <1>3, <1>4, <1>6 DEF PoolOK, Alive
  <2>2. \A a \in Jobs: child'[a] \in Alive => \E k \in 1..Len(procs'): procs'[k] = a
    <3>1. Len(procs) + 1 \in 1..Len(procs') /\ 1..Len(procs) \subseteq 1..Len(procs')
      BY <1>4
    <3>2. \A a \in Jobs: child[a] \in Alive => \E k \in 1..Len(procs): procs[k] = a
      BY <1>2 DEF PoolOK
    <3> QED  BY <1>3, <1>4, <3>1, <3>2
  <2>3. \A k, l \in 1..Len(procs'): procs'[k] = procs'[l] => k = l
    BY <1>4, <1>6 DEF PoolOK
  <2>4. child' \in [Jobs -> {"none", "running", "ok", "bad", "reaped"}]
    BY <1>3 DEF PoolOK
  <2> QED  BY <1>2, <1>4, <1>5, <2>1, <2>2, <2>3, <2>4 DEF PoolOK
<1>8. MainOK'
  BY <1>1, <1>2, <1>4, SameJobs DEF MainOK
<1>9. OrderOK'
  <2>1. \A a \in todo': a # j /\ child'[a] = "none"
    BY <1>1, <1>3, TodoAreJobs DEF OrderOK
  <2>2. \A q \in Passes: q > phase => \A a \in PhaseJobs(q): child'[a] = "none"
    <3> SUFFICES ASSUME NEW q \in Passes, q > phase, NEW a \in PhaseJobs(q)
                 PROVE  child'[a] = "none"
      OBVIOUS
    <3>1. q # phase
      <4>1. phase \in Int
        BY MainIsTyped
      <4>2. \A n \in Int: ~(n > n)
        OBVIOUS
      <4> QED  BY <4>1, <4>2, Zenon
    <3>2. a # j
      BY <1>2, <3>1, PassesAreDisjoint DEF MainOK
    <3>3. a \in Jobs
      BY TodoAreJobs
    <3> QED  BY <1>3, <3>2, <3>3 DEF OrderOK
  <2>3. \A a \in Jobs: child'[a] \in Alive => a \in PhaseJobs(phase)
    BY <1>2, <1>3 DEF OrderOK
  <2> QED  BY <1>2, <2>1, <2>2, <2>3, SameJobs DEF OrderOK
<1> QED  BY <1>7, <1>8, <1>9

(* main goes on, and the pool stays as it is.                                *)
LEMMA MainKeepsOK ==
  ASSUME HarnessOK,
         StartFails \/ StartPolling \/ PollRunning \/ StartWaiting \/ Parse \/ Clean
           \/ UNCHANGED harnessVars
  PROVE  PoolOK' /\ MainOK' /\ OrderOK'
<1> USE DEF HarnessOK
<1>1. UNCHANGED <<procs, child, phase, limit, asserted>>
  BY DEF StartFails, StartPolling, PollRunning, StartWaiting, Parse, Clean, harnessVars, poolVars
<1>2. todo' \subseteq todo
  BY DEF StartFails, StartPolling, PollRunning, StartWaiting, Parse, Clean, harnessVars
<1>3. Len(procs) \in Nat
  BY PoolIsASequence
<1>4. /\ pc' \in {"schedule", "poll", "wait", "parse", "clean", "exit 0", "exit 1"}
      /\ i' \in Nat /\ 1 <= i' /\ i' <= Len(procs) + 1
  <2>1. i \in Nat /\ 1 <= i /\ i <= Len(procs) + 1
    BY DEF MainOK
  <2>2. i' = i \/ i' = 1 \/ (i' = i + 1 /\ i <= Len(procs))
    BY DEF StartFails, StartPolling, PollRunning, StartWaiting, Parse, Clean, harnessVars
  <2>3. i' \in Nat /\ 1 <= i' /\ i' <= Len(procs) + 1
    BY <1>3, <2>1, <2>2
  <2>4. pc' \in {"schedule", "poll", "wait", "parse", "clean", "exit 0", "exit 1"}
    BY DEF StartFails, StartPolling, PollRunning, StartWaiting, Parse, Clean, harnessVars, MainOK
  <2> QED  BY <2>3, <2>4
<1>5. \/ pc' = "wait" /\ pc = "wait" /\ i' = i
      \/ pc' = "wait" /\ pc # "wait" /\ i' = 1
      \/ pc' # "wait" /\ pc # "wait"
  BY DEF StartFails, StartPolling, PollRunning, StartWaiting, Parse, Clean, harnessVars
<1>6. pc' \in {"parse", "clean", "exit 0", "exit 1"} => pc \in {"parse", "clean", "exit 0", "exit 1"}
  BY DEF StartFails, StartPolling, PollRunning, StartWaiting, Parse, Clean, harnessVars
<1>7. \A k \in 1..Len(procs): (pc' = "wait" => k >= i') <=> (pc = "wait" => k >= i)
  BY <1>3, <1>5
<1>8. PoolOK'
  BY <1>1, <1>6, <1>7 DEF PoolOK
<1>9. MainOK'
  BY <1>1, <1>2, <1>4, SameJobs DEF MainOK
<1>10. OrderOK'
  BY <1>1, <1>2, SameJobs DEF OrderOK
<1> QED  BY <1>8, <1>9, <1>10

(* A child ends, or is waited for: it is another job from here on.           *)
LEMMA OrderIsKept ==
  ASSUME HarnessOK, NEW j \in Jobs, NEW state, child[j] \in Alive, state # "none",
         child' = [child EXCEPT ![j] = state], UNCHANGED <<phase, todo, asserted>>
  PROVE  OrderOK'
<1> USE DEF HarnessOK
<1>1. child' = [k \in Jobs |-> IF k = j THEN state ELSE child[k]]
  BY DEF PoolOK
<1>2. child[j] # "none" /\ j \in PhaseJobs(phase)
  BY DEF Alive, OrderOK
<1>3. \A a \in Jobs: child[a] = "none" => child'[a] = "none"
  BY <1>1, <1>2
<1>4. \A a \in Jobs: child'[a] \in Alive => a \in PhaseJobs(phase)
  BY <1>1, <1>2 DEF OrderOK
<1> QED  BY <1>3, <1>4, SameJobs, TodoAreJobs DEF OrderOK

LEMMA EndKeepsOK ==
  ASSUME HarnessOK, NEW j \in Jobs, JobEnds(j)
  PROVE  PoolOK' /\ MainOK' /\ OrderOK'
<1> USE DEF HarnessOK
<1>1. PICK how \in {"ok", "bad"}: child[j] = "running" /\ child' = [child EXCEPT ![j] = how]
  BY DEF JobEnds, ProcessEnds
<1>2. UNCHANGED <<procs, pc, phase, i, todo, limit, asserted>>
  BY DEF JobEnds, ProcessEnds
<1>3. child' = [k \in Jobs |-> IF k = j THEN how ELSE child[k]]
  BY <1>1 DEF PoolOK
<1>4. \A k \in Jobs: child'[k] \in Alive <=> child[k] \in Alive
  BY <1>1, <1>3 DEF Alive
<1>5. PoolOK'
  <2>1. child' \in [Jobs -> {"none", "running", "ok", "bad", "reaped"}]
    BY <1>3 DEF PoolOK
  <2>2. \A k \in 1..Len(procs): procs[k] \in Jobs
    BY PoolIsASequence
  <2> QED  BY <1>2, <1>4, <2>1, <2>2 DEF PoolOK
<1>6. MainOK'
  BY <1>2, SameJobs DEF MainOK
<1>7. OrderOK'
  BY <1>1, <1>2, OrderIsKept DEF Alive
<1> QED  BY <1>5, <1>6, <1>7

LEMMA PollKeepsOK ==
  ASSUME HarnessOK, PollReaps
  PROVE  PoolOK' /\ MainOK' /\ OrderOK'
<1> USE DEF HarnessOK
<1> DEFINE gone == procs[i]
<1>1. /\ UNCHANGED <<phase, todo, limit, asserted>> /\ pc = "poll" /\ pc' = "schedule" /\ i' = 1
      /\ child' = [child EXCEPT ![gone] = "reaped"]
      /\ procs' = RemoveUnordered(procs, i)
  BY DEF PollReaps, PollEnded, Reaped
<1>2. i \in 1..Len(procs) /\ gone \in Jobs /\ limit \in Nat
  <2>1. i \in Nat /\ 1 <= i /\ i <= Len(procs) /\ limit \in Nat
    BY DEF PollReaps, MainOK
  <2> QED  BY <2>1, PoolIsASequence
<1>3. \A k, l \in 1..Len(procs): procs[k] = procs[l] => k = l
  BY DEF PoolOK
<1>4. /\ procs' \in Seq(Jobs) /\ Len(procs') = Len(procs) - 1
      /\ \A k \in 1..Len(procs'): \E m \in 1..Len(procs): m # i /\ procs'[k] = procs[m]
      /\ \A m \in 1..Len(procs): m # i => \E k \in 1..Len(procs'): procs'[k] = procs[m]
      /\ \A k, l \in 1..Len(procs'): procs'[k] = procs'[l] => k = l
  <2>1. LeavesOut(Jobs, procs, i, procs')
    BY <1>1, <1>2, <1>3, RemovedUnordered, PoolIsASequence, Zenon
  <2> QED  BY <2>1 DEF LeavesOut
<1>5. child' = [k \in Jobs |-> IF k = gone THEN "reaped" ELSE child[k]]
  BY <1>1 DEF PoolOK
<1>6. child[gone] \in Alive
  BY <1>1, <1>2 DEF PoolOK
<1>7. PoolOK'
  <2>1. child' \in [Jobs -> {"none", "running", "ok", "bad", "reaped"}]
    BY <1>5 DEF PoolOK
  <2>2. \A m \in 1..Len(procs): m # i => procs[m] # gone /\ child'[procs[m]] \in Alive
    BY <1>1, <1>2, <1>3, <1>5, PoolIsASequence DEF PoolOK
  <2>3. \A k \in 1..Len(procs'): child'[procs'[k]] \in Alive
    BY <1>4, <2>2
  <2>4. \A a \in Jobs: child'[a] \in Alive => \E k \in 1..Len(procs'): procs'[k] = a
    <3> SUFFICES ASSUME NEW a \in Jobs, child'[a] \in Alive
                 PROVE  \E k \in 1..Len(procs'): procs'[k] = a
      OBVIOUS
    <3>1. a # gone /\ child[a] \in Alive
      BY <1>5 DEF Alive
    <3>2. PICK m \in 1..Len(procs): procs[m] = a
      BY <3>1 DEF PoolOK
    <3> QED  BY <1>4, <3>1, <3>2
  <2>5. Len(procs') <= limit
    <3>1. Len(procs) <= limit
      BY DEF PoolOK
    <3> QED  BY <1>2, <1>4, <3>1, PoolIsASequence
  <2> QED  BY <1>1, <1>4, <2>1, <2>3, <2>4, <2>5 DEF PoolOK
<1>8. MainOK'
  <2>1. 1 <= Len(procs') + 1
    BY <1>2, <1>4, PoolIsASequence
  <2> QED  BY <1>1, <2>1, SameJobs DEF MainOK
<1>9. OrderOK'
  BY <1>1, <1>2, <1>6, OrderIsKept
<1> QED  BY <1>7, <1>8, <1>9

LEMMA WaitKeepsOK ==
  ASSUME HarnessOK, Wait
  PROVE  PoolOK' /\ MainOK' /\ OrderOK'
<1> USE DEF HarnessOK
<1> DEFINE gone == procs[i]
<1>1. /\ UNCHANGED <<procs, pc, phase, todo, limit, asserted>> /\ pc = "wait" /\ i' = i + 1
      /\ child' = [child EXCEPT ![gone] = "reaped"]
  BY DEF Wait, WaitEnded, Reaped
<1>2. i \in 1..Len(procs) /\ gone \in Jobs
  <2>1. i \in Nat /\ 1 <= i /\ i <= Len(procs)
    BY DEF Wait, MainOK
  <2> QED  BY <2>1, PoolIsASequence
<1>3. \A k \in 1..Len(procs): k >= i' <=> (k >= i /\ k # i)
  BY <1>1, <1>2, PoolIsASequence
<1>4. child' = [k \in Jobs |-> IF k = gone THEN "reaped" ELSE child[k]]
  BY <1>1 DEF PoolOK
<1>5. child[gone] \in Alive
  BY <1>1, <1>2 DEF PoolOK
<1>6. PoolOK'
  <2>1. child' \in [Jobs -> {"none", "running", "ok", "bad", "reaped"}]
    BY <1>4 DEF PoolOK
  <2>2. \A k \in 1..Len(procs): k >= i' => procs[k] # gone /\ child'[procs[k]] \in Alive
    BY <1>1, <1>2, <1>3, <1>4, PoolIsASequence DEF PoolOK
  <2>3. \A a \in Jobs: child'[a] \in Alive => \E k \in 1..Len(procs): procs[k] = a /\ k >= i'
    <3> SUFFICES ASSUME NEW a \in Jobs, child'[a] \in Alive
                 PROVE  \E k \in 1..Len(procs): procs[k] = a /\ k >= i'
      OBVIOUS
    <3>1. a # gone /\ child[a] \in Alive
      BY <1>4 DEF Alive
    <3>2. PICK k \in 1..Len(procs): procs[k] = a /\ k >= i
      BY <1>1, <3>1 DEF PoolOK
    <3> QED  BY <1>3, <3>1, <3>2
  <2> QED  BY <1>1, <2>1, <2>2, <2>3 DEF PoolOK
<1>7. MainOK'
  <2>1. i' \in Nat /\ 1 <= i' /\ i' <= Len(procs) + 1
    BY <1>1, <1>2, PoolIsASequence
  <2> QED  BY <1>1, <2>1, SameJobs DEF MainOK
<1>8. OrderOK'
  BY <1>1, <1>2, <1>5, OrderIsKept
<1> QED  BY <1>6, <1>7, <1>8

(* The next pass begins when no child is alive, and an invocation of its own *)
(* with none.                                                                *)
LEMMA NextPassKeepsOK ==
  ASSUME HarnessOK, NextPass
  PROVE  PoolOK' /\ MainOK' /\ OrderOK'
<1> USE DEF HarnessOK
<1>1. /\ UNCHANGED <<child, limit, asserted>> /\ procs' = <<>> /\ i' = 1
      /\ \/ pc' = "schedule" /\ phase < 3 /\ phase' = phase + 1 /\ todo' = PhaseJobs(phase + 1)
         \/ pc' = "parse" /\ UNCHANGED <<phase, todo>>
      /\ pc = "wait" /\ i > Len(procs)
  BY Constants DEF NextPass, Waited
<1>2. \A j \in Jobs: child[j] \notin Alive
  <2>1. i \in Nat
    BY DEF MainOK
  <2>2. \A k \in 1..Len(procs): ~(k >= i)
    BY <1>1, <2>1, PoolIsASequence
  <2> QED  BY <1>1, <2>2 DEF PoolOK
<1>3. procs' \in Seq(Jobs) /\ Len(procs') = 0 /\ limit \in Nat
  BY <1>1, MainIsTyped
<1>4. phase \in Int /\ phase' \in Passes /\ phase' >= phase
  BY <1>1 DEF MainOK, Passes
<1>5. todo' \subseteq PhaseJobs(phase') /\ \A j \in todo': child[j] = "none"
  <2>1. CASE phase' = phase + 1 /\ phase < 3 /\ todo' = PhaseJobs(phase + 1)
    BY <1>4, <2>1 DEF OrderOK
  <2>2. CASE UNCHANGED <<phase, todo>>
    BY <2>2 DEF OrderOK, MainOK
  <2> QED  BY <1>1, <2>1, <2>2
<1>6. PoolOK'
  BY <1>1, <1>2, <1>3 DEF PoolOK
<1>7. MainOK'
  <2>1. i' \in Nat /\ 1 <= i' /\ i' <= Len(procs') + 1
    BY <1>1, <1>3
  <2>2. todo' \subseteq PhaseJobs(phase)'
    BY <1>1, <1>5 DEF PhaseJobs
  <2> QED  BY <1>1, <1>4, <1>5, <2>1, <2>2, MainIsTyped DEF MainOK
<1>8. OrderOK'
  <2>1. \A q \in Passes: q > phase' => q > phase
    BY <1>4 DEF Passes
  <2> QED  BY <1>1, <1>2, <1>5, <2>1, SameJobs DEF OrderOK
<1> QED  BY <1>6, <1>7, <1>8

LEMMA InterruptKeepsOK ==
  ASSUME HarnessOK, Interrupt
  PROVE  PoolOK' /\ MainOK' /\ OrderOK'
<1> USE DEF HarnessOK
<1>1. /\ procs' = <<>> /\ child' = [j \in Jobs |-> "none"] /\ pc' = "schedule" /\ phase' = 1
      /\ i' = 1 /\ todo' = PhaseJobs(1) /\ UNCHANGED <<limit, asserted>>
  BY DEF Interrupt
<1>2. procs' \in Seq(Jobs) /\ Len(procs') = 0 /\ limit \in Nat
  BY <1>1, MainIsTyped
<1>3. PoolOK'
  <2>1. procs' \in Seq(Jobs) /\ Len(procs') <= limit' /\ ~\E k \in 1..Len(procs'): TRUE
    BY <1>1, <1>2
  <2>2. child' \in [Jobs -> {"none", "running", "ok", "bad", "reaped"}]
        /\ \A j \in Jobs: child'[j] \notin Alive
    BY <1>1 DEF Alive
  <2> QED  BY <1>1, <2>1, <2>2 DEF PoolOK
<1>4. MainOK'
  <2>1. phase' \in Passes /\ i' \in Nat /\ 1 <= i' /\ i' <= Len(procs') + 1
    BY <1>1, <1>2 DEF Passes
  <2> QED  BY <1>1, <2>1, MainIsTyped, SameJobs DEF MainOK
<1>5. OrderOK'
  <2>1. \A q \in Passes: PhaseJobs(q) \subseteq Jobs
    BY TodoAreJobs
  <2>2. PhaseJobs(1) \subseteq Jobs
    BY <2>1 DEF Passes
  <2> QED  BY <1>1, <2>1, <2>2, SameJobs DEF OrderOK, Alive
<1> QED  BY <1>3, <1>4, <1>5

LEMMA HarnessStaysOK == HarnessOK /\ [HarnessNext]_harnessVars => HarnessOK'
<1> SUFFICES ASSUME HarnessOK, [HarnessNext]_harnessVars PROVE HarnessOK'
  OBVIOUS
<1>1. FilesOK'
  BY FilesStayTyped
<1>2. PoolOK' /\ MainOK' /\ OrderOK'
  BY StartKeepsOK, MainKeepsOK, EndKeepsOK, PollKeepsOK, WaitKeepsOK, NextPassKeepsOK,
     InterruptKeepsOK DEF HarnessNext, HarnessStep
<1> QED  BY <1>1, <1>2 DEF HarnessOK

----------------------------------------------------------------------------
(* The variables keep their types, and the pool its limit.                   *)
THEOREM HarnessTypeCorrect == HarnessSpec => []HarnessTypeOK
<1>1. HarnessOK => HarnessTypeOK
  <2> SUFFICES ASSUME HarnessOK PROVE HarnessTypeOK
    OBVIOUS
  <2>1. procs \in Seq(Jobs) /\ Len(procs) <= limit /\ Len(procs) \in Nat
    BY PoolIsASequence DEF HarnessOK, PoolOK
  <2>2. i \in 1..(limit + 1)
    <3>1. i \in Nat /\ 1 <= i /\ i <= Len(procs) + 1 /\ limit \in Nat
      BY DEF HarnessOK, MainOK
    <3> QED  BY <2>1, <3>1
  <2>3. phase \in 1..Len(Phases)
    BY Constants DEF HarnessOK, MainOK, Passes
  <2>4. todo \subseteq Jobs
    BY TodoAreJobs
  <2>5. {failed, interrupted, broken, lost, unstarted} \subseteq BOOLEAN
    BY DEF HarnessOK, FilesOK
  <2> QED
    BY <2>1, <2>2, <2>3, <2>4, <2>5 DEF HarnessOK, PoolOK, MainOK, FilesOK, HarnessTypeOK
<1> QED  BY <1>1, HarnessInitially, HarnessStaysOK, PTL DEF HarnessSpec

(* Every child is waited for, once, whatever the order in which they end and *)
(* the pool is rearranged.                                                   *)
THEOREM EveryChildCorrect == HarnessSpec => []EveryChildIsAwaited
<1>1. HarnessOK => EveryChildIsAwaited
  <2> SUFFICES ASSUME HarnessOK PROVE EveryChildIsAwaited
    OBVIOUS
  <2>1. \A k \in Awaited: procs[k] \in Unreaped
    BY PoolIsASequence DEF HarnessOK, PoolOK, Awaited, Unreaped, Alive
  <2>2. \A j \in Unreaped: \E k \in Awaited: procs[k] = j
    BY DEF HarnessOK, PoolOK, Awaited, Unreaped, Alive
  <2>3. \A k, l \in 1..Len(procs): procs[k] = procs[l] => k = l
    BY DEF HarnessOK, PoolOK
  <2> QED  BY <2>1, <2>2, <2>3 DEF EveryChildIsAwaited
<1> QED  BY <1>1, HarnessInitially, HarnessStaysOK, PTL DEF HarnessSpec

(* The children alive are of the present pass.                               *)
THEOREM PassesCorrect == HarnessSpec => []PassesDoNotOverlap
<1>1. HarnessOK => PassesDoNotOverlap
  <2> SUFFICES ASSUME HarnessOK, NEW j \in Unreaped
               PROVE  pc \in {"schedule", "poll", "wait"} /\ j \in PhaseJobs(phase)
    BY DEF PassesDoNotOverlap
  <2>1. j \in Jobs /\ child[j] \in Alive
    BY DEF Unreaped, Alive
  <2>2. procs # <<>>
    <3>1. PICK k \in 1..Len(procs): procs[k] = j
      BY <2>1 DEF HarnessOK, PoolOK
    <3> QED  BY <3>1
  <2>3. j \in PhaseJobs(phase)
    BY <2>1 DEF HarnessOK, OrderOK
  <2> QED  BY <2>2, <2>3 DEF HarnessOK, PoolOK, MainOK
<1> QED  BY <1>1, HarnessInitially, HarnessStaysOK, PTL DEF HarnessSpec

----------------------------------------------------------------------------
(* What the verdict rests on.  A pool that has room for the jobs of a pass   *)
(* is never polled.                                                          *)
PoolSuffices == pc = "poll" \/ lost => ~(limit >= 2 * TestCount)

(* A pass that is over has started all its jobs.                             *)
StartedOK ==
  /\ pc \notin {"schedule", "poll"} => todo = {}
  /\ pc \notin {"schedule", "poll", "wait"} => phase = 3
  /\ ~unstarted => \A q \in Passes: q <= phase =>
                     \A j \in PhaseJobs(q): j \in todo \/ child[j] # "none"

(* A child that ended badly has been counted, lost, or is still to be waited *)
(* for.                                                                      *)
CountedOK ==
  /\ broken => failed \/ lost \/ \E j \in Jobs: child[j] = "bad"
  /\ (\E j \in Jobs: child[j] = "bad") => broken

(* What a job that went well leaves is of this invocation.                   *)
LeavesFresh(j, f) ==
  CASE j[1] = "compile" -> f.out = "new"
    [] j[1] = "compile assertion" -> f.assertion = "new"
    [] j[1] = "run" -> f.shown \in {"wrong", "right"}
    [] j[1] = "assert" -> f.results \in {"no pass", "pass"} /\ f.assertion = "new"
FreshOK ==
  /\ ~broken /\ ~unstarted /\ pc \notin {"exit 0", "exit 1"} =>
       \A j \in Jobs: child[j] \in {"ok", "reaped"} => LeavesFresh(j, disk[j[2]])
  /\ \A t \in Tests \ asserted: disk[t].assertion = "none"

ParsedOK == pc = "clean" /\ ~failed => \A t \in Tests: disk[t].results # "no pass"

VerdictOK == PoolSuffices /\ StartedOK /\ CountedOK /\ FreshOK /\ ParsedOK

(* A full pool and a job that is not in it are no more than the jobs of a    *)
(* pass, of which there are at most two for a test.                          *)
Number(j) == IF j[1] = "compile assertion" THEN TestCount + j[2] ELSE j[2]

IsJobOf(m, q, s) == \/ q = 1 /\ m = <<"compile", s>>
                    \/ q = 1 /\ m = <<"compile assertion", s>>
                    \/ q = 2 /\ m = <<"run", s>>
                    \/ q = 3 /\ m = <<"assert", s>>

LEMMA JobsOfAPass ==
  ASSUME NEW q \in Passes, asserted \subseteq Tests, NEW m \in PhaseJobs(q)
  PROVE  \E s \in Tests: IsJobOf(m, q, s)
<1>1. CASE q = 1
  <2>1. \E s \in Tests: m = <<"compile", s>> \/ m = <<"compile assertion", s>>
    BY <1>1, JobsOfPasses
  <2> QED  BY <1>1, <2>1 DEF IsJobOf
<1>2. CASE q = 2
  <2>1. \E s \in Tests: m = <<"run", s>>
    BY <1>2, JobsOfPasses
  <2> QED  BY <1>2, <2>1 DEF IsJobOf
<1>3. CASE q = 3
  <2>1. \E s \in Tests: m = <<"assert", s>>
    BY <1>3, JobsOfPasses
  <2> QED  BY <1>3, <2>1 DEF IsJobOf
<1> QED  BY <1>1, <1>2, <1>3 DEF Passes

LEMMA NumbersDiffer ==
  ASSUME NEW q \in Passes, asserted \subseteq Tests, NEW j \in PhaseJobs(q),
         NEW k \in PhaseJobs(q), Number(j) = Number(k)
  PROVE  j = k
<1>0. TestCount \in Nat
  BY Constants
<1>1. PICK s \in Tests: IsJobOf(j, q, s)
  BY JobsOfAPass
<1>2. PICK t \in Tests: IsJobOf(k, q, t)
  BY JobsOfAPass
<1>3. s \in Nat /\ 1 <= s /\ s <= TestCount /\ t \in Nat /\ 1 <= t /\ t <= TestCount
  BY <1>0 DEF Tests
<1>4. /\ Number(<<"compile", s>>) = s /\ Number(<<"compile assertion", s>>) = TestCount + s
      /\ Number(<<"compile", t>>) = t /\ Number(<<"compile assertion", t>>) = TestCount + t
      /\ Number(<<"run", s>>) = s /\ Number(<<"run", t>>) = t
      /\ Number(<<"assert", s>>) = s /\ Number(<<"assert", t>>) = t
  BY DEF Number
<1>5. s # TestCount + t /\ TestCount + s # t /\ (TestCount + s = TestCount + t => s = t)
  BY <1>0, <1>3
<1>6. s = t => j = k
  <2> SUFFICES ASSUME s = t PROVE j = k
    OBVIOUS
  <2>0. IsJobOf(k, q, s) /\ IsJobOf(j, q, s)
    BY <1>1, <1>2
  <2>1. CASE q = 1
    <3>1. ~(1 = 2) /\ ~(1 = 3)
      OBVIOUS
    <3>2. (j = <<"compile", s>> \/ j = <<"compile assertion", s>>)
          /\ (k = <<"compile", s>> \/ k = <<"compile assertion", s>>)
      BY <2>0, <2>1, <3>1, Zenon DEF IsJobOf
    <3>3. s # TestCount + s
      BY <1>0, <1>3
    <3>4. Number(<<"compile", s>>) # Number(<<"compile assertion", s>>)
      BY <1>4, <3>3, Zenon
    <3> DEFINE a == <<"compile", s>>
               b == <<"compile assertion", s>>
    <3> HIDE DEF a, b
    <3>5. (j = a \/ j = b) /\ (k = a \/ k = b) /\ Number(a) # Number(b)
      BY <3>2, <3>4, Zenon DEF a, b
    <3> QED  BY <3>5
  <2>2. CASE q = 2
    <3>1. ~(2 = 1) /\ ~(2 = 3)
      OBVIOUS
    <3> QED  BY <2>0, <2>2, <3>1, Zenon DEF IsJobOf
  <2>3. CASE q = 3
    <3>1. ~(3 = 1) /\ ~(3 = 2)
      OBVIOUS
    <3> QED  BY <2>0, <2>3, <3>1, Zenon DEF IsJobOf
  <2> QED  BY <2>1, <2>2, <2>3 DEF Passes
<1>7. s = t
  BY <1>1, <1>2, <1>4, <1>5 DEF IsJobOf
<1> QED  BY <1>6, <1>7

LEMMA FirstNumbers ==
  ASSUME NEW n \in Nat
  PROVE  IsFiniteSet(1..n) /\ Cardinality(1..n) = n
<1>1. 1 \in Int /\ n \in Int /\ n - 1 + 1 = n
  OBVIOUS
<1>2. IsFiniteSet(1..n) /\ Cardinality(1..n) = IF 1 > n THEN 0 ELSE n - 1 + 1
  BY <1>1, FS_Interval, Zenon
<1>3. CASE n = 0
  <2>1. 1 > n
    BY <1>3
  <2> QED  BY <1>2, <1>3, <2>1, Zenon
<1>4. CASE n # 0
  <2>1. ~(1 > n)
    BY <1>4
  <2> QED  BY <1>1, <1>2, <2>1, Zenon
<1> QED  BY <1>3, <1>4

LEMMA APassFitsThePool ==
  ASSUME HarnessOK, pc = "schedule", todo # {}, Full(limit)
  PROVE  ~(limit >= 2 * TestCount)
<1>0. TestCount \in Nat /\ TestCount > 0 /\ limit \in Nat
  BY Constants, MainIsTyped
<1>1. \A j \in PhaseJobs(phase): Number(j) \in 1..(2 * TestCount)
  <2> SUFFICES ASSUME NEW j \in PhaseJobs(phase) PROVE Number(j) \in 1..(2 * TestCount)
    OBVIOUS
  <2>1. phase \in Passes
    BY MainIsTyped
  <2>2. j[2] \in Tests
    BY <2>1, TodoAreJobs
  <2>3. j[2] \in Nat /\ 1 <= j[2] /\ j[2] <= TestCount
    BY <1>0, <2>2 DEF Tests
  <2> DEFINE test == j[2]
  <2> HIDE DEF test
  <2>4. test \in 1..(2 * TestCount) /\ TestCount + test \in 1..(2 * TestCount)
    BY <1>0, <2>3 DEF test
  <2> QED  BY <2>4 DEF Number, test
<1>2. ASSUME NEW j \in PhaseJobs(phase), NEW k \in PhaseJobs(phase), Number(j) = Number(k)
      PROVE  j = k
  BY <1>2, NumbersDiffer, MainIsTyped
<1>3. PICK next \in todo: TRUE
  OBVIOUS
<1>4. next \in PhaseJobs(phase) /\ child[next] = "none"
  BY DEF HarnessOK, MainOK, OrderOK
<1>5. \A k \in 1..Len(procs): procs[k] \in PhaseJobs(phase) /\ procs[k] # next
  <2> SUFFICES ASSUME NEW k \in 1..Len(procs)
               PROVE  procs[k] \in PhaseJobs(phase) /\ procs[k] # next
    OBVIOUS
  <2>1. procs[k] \in Jobs /\ child[procs[k]] \in Alive
    BY PoolIsASequence DEF HarnessOK, PoolOK
  <2> QED  BY <1>4, <2>1 DEF HarnessOK, OrderOK, Alive
<1> DEFINE Taken == 1..Len(procs)
           Others == (1..(2 * TestCount)) \ {Number(next)}
           number == [k \in Taken |-> Number(procs[k])]
<1>6. number \in [Taken -> Others]
  <2>1. \A k \in Taken: Number(procs[k]) \in Others
    BY <1>1, <1>2, <1>4, <1>5
  <2> QED  BY <2>1
<1>7. \A k, l \in Taken: number[k] = number[l] => k = l
  <2>1. \A k, l \in Taken: Number(procs[k]) = Number(procs[l]) => procs[k] = procs[l]
    BY <1>2, <1>5
  <2> QED  BY <2>1 DEF HarnessOK, PoolOK
<1>8. Number(next) \in 1..(2 * TestCount)
  BY <1>1, <1>4
<1>9. IsFiniteSet(Others) /\ Cardinality(Others) = 2 * TestCount - 1
  <2>1. 2 * TestCount \in Nat
    BY <1>0
  <2>2. IsFiniteSet(1..(2 * TestCount)) /\ Cardinality(1..(2 * TestCount)) = 2 * TestCount
    BY <2>1, FirstNumbers
  <2> QED  BY <1>8, <2>2, FS_RemoveElement
<1>10. IsFiniteSet(Taken) /\ Cardinality(Taken) = Len(procs)
  <2>1. Len(procs) \in Nat
    BY PoolIsASequence
  <2> QED  BY <2>1, FirstNumbers
<1>11. ~(Cardinality(Others) < Cardinality(Taken))
  <2> HIDE DEF Taken, Others, number
  <2> QED  BY <1>6, <1>7, <1>9, <1>10, FS_PigeonHole
<1>12. Len(procs) >= limit /\ Len(procs) \in Nat
  BY PoolIsASequence DEF Full
<1> QED  BY <1>0, <1>9, <1>10, <1>11, <1>12

LEMMA PoolSufficesKept ==
  ASSUME HarnessOK, PoolSuffices, [HarnessNext]_harnessVars
  PROVE  PoolSuffices'
<1>1. limit' = limit
  BY DEF HarnessNext, HarnessStep, StartJob, StartFails, StartPolling, PollRunning, PollReaps,
     StartWaiting, Wait, NextPass, Parse, Clean, Interrupt, JobEnds, harnessVars
<1>2. CASE StartPolling
  <2>1. ((pc = "schedule" /\ todo # {}) \/ pc = "poll") /\ Full(limit) /\ lost' = lost
    BY <1>2 DEF StartPolling
  <2>2. ~(limit >= 2 * TestCount)
    BY <2>1, APassFitsThePool DEF PoolSuffices
  <2> QED  BY <1>1, <2>2 DEF PoolSuffices
<1>3. CASE PollReaps
  <2>1. pc = "poll"
    BY <1>3 DEF PollReaps
  <2> QED  BY <1>1, <2>1 DEF PoolSuffices
<1>4. ASSUME pc' = "poll" => pc = "poll", lost' => lost PROVE PoolSuffices'
  BY <1>1, <1>4 DEF PoolSuffices
<1>5. CASE \/ StartJob \/ StartFails \/ PollRunning \/ StartWaiting \/ Wait \/ NextPass \/ Parse
           \/ Clean \/ Interrupt \/ UNCHANGED harnessVars
  <2>1. pc' # "poll" \/ pc' = pc
    BY <1>5 DEF StartJob, StartFails, PollRunning, StartWaiting, Wait, NextPass, Parse, Clean,
       Interrupt, harnessVars
  <2>2. lost' = lost \/ lost' = FALSE
    BY <1>5 DEF StartJob, StartFails, PollRunning, StartWaiting, Wait, NextPass, Parse, Clean,
       Interrupt, harnessVars
  <2> QED  BY <1>4, <2>1, <2>2, Zenon
<1>6. ASSUME NEW j \in Jobs, JobEnds(j) PROVE PoolSuffices'
  <2>1. pc' = pc /\ lost' = lost
    BY <1>6 DEF JobEnds
  <2> QED  BY <1>4, <2>1
<1> QED  BY <1>2, <1>3, <1>5, <1>6 DEF HarnessNext, HarnessStep

(* A pass ends when all its jobs have been started, or could not be.         *)
LEMMA StartedKept ==
  ASSUME HarnessOK, StartedOK, [HarnessNext]_harnessVars
  PROVE  StartedOK'
<1> DEFINE Begun(q) == \A j \in PhaseJobs(q): j \in todo \/ child[j] # "none"
<1>0. phase \in Passes /\ phase \in Int /\ asserted \subseteq Tests
      /\ child \in [Jobs -> {"none", "running", "ok", "bad", "reaped"}]
  BY MainIsTyped DEF HarnessOK, PoolOK
<1>1. \A q \in Passes: PhaseJobs(q) \subseteq Jobs
  BY TodoAreJobs
<1>2. ASSUME UNCHANGED <<todo, phase, asserted, unstarted>>,
             \A j \in Jobs: child[j] # "none" => child'[j] # "none",
             pc' = pc \/ {pc, pc'} \subseteq {"schedule", "poll"}
                \/ (pc' = "wait" /\ todo = {})
                \/ pc \notin {"schedule", "poll", "wait"}
      PROVE  StartedOK'
  <2>1. \A q \in Passes: PhaseJobs(q)' = PhaseJobs(q)
    BY <1>2, SameJobs
  <2>2. /\ pc' \notin {"schedule", "poll"} => todo' = {}
        /\ pc' \notin {"schedule", "poll", "wait"} => phase' = 3
    BY <1>2 DEF StartedOK
  <2>3. ~unstarted' => \A q \in Passes: q <= phase' =>
                         \A j \in PhaseJobs(q)': j \in todo' \/ child'[j] # "none"
    BY <1>1, <1>2, <2>1 DEF StartedOK
  <2> QED  BY <2>2, <2>3 DEF StartedOK
<1>3. CASE StartJob
  <2>1. PICK j \in todo: IsNext(j) /\ StartProcess(j) /\ todo' = todo \ {j}
    BY <1>3 DEF StartJob
  <2>2. /\ UNCHANGED <<pc, phase, asserted, unstarted>> /\ pc = "schedule"
        /\ child' = [child EXCEPT ![j] = "running"] /\ j \in Jobs
    BY <1>3, <2>1, TodoAreJobs DEF StartJob, StartProcess
  <2>3. \A k \in Jobs: k \in todo \/ child[k] # "none" => k \in todo' \/ child'[k] # "none"
    BY <1>0, <2>1, <2>2
  <2>4. \A q \in Passes: PhaseJobs(q)' = PhaseJobs(q)
    BY <2>2, SameJobs
  <2>5. ~unstarted' => \A q \in Passes: q <= phase' =>
                         \A k \in PhaseJobs(q)': k \in todo' \/ child'[k] # "none"
    BY <1>1, <2>2, <2>3, <2>4 DEF StartedOK
  <2> QED  BY <2>2, <2>5 DEF StartedOK
<1>4. CASE StartFails
  BY <1>4 DEF StartFails, StartedOK
<1>5. CASE StartPolling \/ PollRunning \/ StartWaiting \/ Parse \/ Clean \/ UNCHANGED harnessVars
  <2>1. UNCHANGED <<todo, phase, asserted, unstarted, child>>
    BY <1>5 DEF StartPolling, PollRunning, StartWaiting, Parse, Clean, poolVars, harnessVars
  <2>2. pc' = pc \/ {pc, pc'} \subseteq {"schedule", "poll"}
                \/ (pc' = "wait" /\ todo = {})
                \/ pc \notin {"schedule", "poll", "wait"}
    BY <1>5 DEF StartPolling, PollRunning, StartWaiting, Parse, Clean, harnessVars
  <2> QED  BY <1>2, <2>1, <2>2
<1>6. CASE PollReaps \/ Wait
  <2>1. UNCHANGED <<todo, phase, asserted, unstarted>> /\ child' = Reaped(procs[i])
        /\ (pc' = pc \/ {pc, pc'} \subseteq {"schedule", "poll"})
    BY <1>6 DEF PollReaps, Wait, PollEnded, WaitEnded
  <2>2. \A j \in Jobs: child[j] # "none" => child'[j] # "none"
    BY <1>0, <2>1 DEF Reaped
  <2> QED  BY <1>2, <2>1, <2>2
<1>7. CASE NextPass
  <2>1. /\ UNCHANGED <<child, asserted, unstarted>> /\ todo = {}
        /\ \/ pc' = "schedule" /\ phase < 3 /\ phase' = phase + 1 /\ todo' = PhaseJobs(phase + 1)
           \/ pc' = "parse" /\ UNCHANGED <<phase, todo>> /\ ~(phase < 3)
    BY <1>7, Constants DEF NextPass, StartedOK
  <2>2. \A q \in Passes: PhaseJobs(q)' = PhaseJobs(q)
    BY <2>1, SameJobs
  <2>3. CASE pc' = "parse" /\ UNCHANGED <<phase, todo>> /\ ~(phase < 3)
    <3>1. phase' = 3
      BY <1>0, <2>3 DEF Passes
    <3> QED  BY <2>1, <2>2, <2>3, <3>1 DEF StartedOK
  <2>4. CASE pc' = "schedule" /\ phase < 3 /\ phase' = phase + 1 /\ todo' = PhaseJobs(phase + 1)
    <3>1. \A q \in Passes: q <= phase' => q <= phase \/ q = phase + 1
      BY <1>0, <2>4 DEF Passes
    <3>2. ~unstarted' => \A q \in Passes: q <= phase' =>
                           \A k \in PhaseJobs(q)': k \in todo' \/ child'[k] # "none"
      BY <2>1, <2>2, <2>4, <3>1 DEF StartedOK
    <3> QED  BY <2>4, <3>2 DEF StartedOK
  <2> QED  BY <2>1, <2>3, <2>4
<1>8. CASE Interrupt
  <2>1. UNCHANGED asserted /\ pc' = "schedule" /\ phase' = 1 /\ todo' = PhaseJobs(1)
    BY <1>8 DEF Interrupt
  <2>2. \A q \in Passes: q <= 1 => q = 1
    BY DEF Passes
  <2> QED  BY <2>1, <2>2, SameJobs DEF StartedOK
<1>9. ASSUME NEW j \in Jobs, JobEnds(j) PROVE StartedOK'
  <2>1. PICK how \in {"ok", "bad"}: child' = [child EXCEPT ![j] = how]
    BY <1>9 DEF JobEnds, ProcessEnds
  <2>2. UNCHANGED <<todo, phase, asserted, unstarted, pc>>
    BY <1>9 DEF JobEnds
  <2>3. \A k \in Jobs: child[k] # "none" => child'[k] # "none"
    BY <1>0, <2>1
  <2> QED  BY <1>2, <2>2, <2>3
<1> QED  BY <1>3, <1>4, <1>5, <1>6, <1>7, <1>8, <1>9 DEF HarnessNext, HarnessStep

(* No bad end goes unnoticed.                                                *)
LEMMA CountedKept ==
  ASSUME HarnessOK, CountedOK, [HarnessNext]_harnessVars
  PROVE  CountedOK'
<1> DEFINE SomeBad == \E j \in Jobs: child[j] = "bad"
<1>0. child \in [Jobs -> {"none", "running", "ok", "bad", "reaped"}]
  BY DEF HarnessOK, PoolOK
<1>1. ASSUME UNCHANGED <<broken, lost, child>>, failed => failed' PROVE CountedOK'
  BY <1>1, Zenon DEF CountedOK
<1>2. CASE StartJob
  <2>1. PICK j \in todo: child' = [child EXCEPT ![j] = "running"] /\ child[j] = "none"
    BY <1>2 DEF StartJob, StartProcess, HarnessOK, OrderOK
  <2>2. \A k \in Jobs: child'[k] = "bad" <=> child[k] = "bad"
    BY <1>0, <2>1
  <2>3. UNCHANGED <<broken, lost, failed>>
    BY <1>2 DEF StartJob
  <2> QED  BY <2>2, <2>3, Zenon DEF CountedOK
<1>3. CASE StartFails \/ StartPolling \/ PollRunning \/ StartWaiting \/ NextPass \/ Clean
           \/ UNCHANGED harnessVars
  <2>1. UNCHANGED <<broken, lost, child, failed>>
    BY <1>3 DEF StartFails, StartPolling, PollRunning, StartWaiting, NextPass, Clean, poolVars,
       harnessVars
  <2> QED  BY <1>1, <2>1, Zenon
<1>4. CASE Parse
  <2>1. UNCHANGED <<broken, lost, child>>
    BY <1>4 DEF Parse, poolVars
  <2>2. failed => failed'
    BY <1>4, Zenon DEF Parse
  <2> QED  BY <1>1, <2>1, <2>2
<1>5. CASE PollReaps \/ Wait
  <2>1. /\ UNCHANGED broken /\ child' = Reaped(procs[i])
        /\ i \in Nat /\ 1 <= i /\ i <= Len(procs)
    BY <1>5, MainIsTyped DEF PollReaps, Wait, PollEnded, WaitEnded
  <2>2. procs[i] \in Jobs
    BY <2>1, PoolIsASequence
  <2>3. \A k \in Jobs: child'[k] = "bad" <=> child[k] = "bad" /\ k # procs[i]
    BY <1>0, <2>1, <2>2 DEF Reaped
  <2>4. CASE PollReaps
    <3>1. lost' = (lost \/ Failure(procs[i])) /\ failed' = failed
      BY <2>4 DEF PollReaps
    <3>2. child[procs[i]] = "bad" => Failure(procs[i])
      BY DEF Failure
    <3> QED  BY <2>1, <2>2, <2>3, <3>1, <3>2, Zenon DEF CountedOK
  <2>5. CASE Wait
    <3>1. failed' = (failed \/ Failure(procs[i])) /\ lost' = lost
      BY <2>5 DEF Wait, Count
    <3>2. child[procs[i]] = "bad" => Failure(procs[i])
      BY DEF Failure
    <3> QED  BY <2>1, <2>2, <2>3, <3>1, <3>2, Zenon DEF CountedOK
  <2> QED  BY <1>5, <2>4, <2>5
<1>6. CASE Interrupt
  <2>1. child' = [j \in Jobs |-> "none"] /\ broken' = FALSE
    BY <1>6 DEF Interrupt
  <2>2. \A j \in Jobs: child'[j] # "bad"
    BY <2>1
  <2> QED  BY <2>1, <2>2, Zenon DEF CountedOK
<1>7. ASSUME NEW j \in Jobs, JobEnds(j) PROVE CountedOK'
  <2>1. PICK how \in {"ok", "bad"}: /\ child[j] = "running" /\ child' = [child EXCEPT ![j] = how]
                                    /\ broken' = (broken \/ how # "ok")
    BY <1>7 DEF JobEnds, ProcessEnds
  <2>2. UNCHANGED <<lost, failed>>
    BY <1>7 DEF JobEnds
  <2>3. \A k \in Jobs: child'[k] = "bad" <=> (IF k = j THEN how = "bad" ELSE child[k] = "bad")
    BY <1>0, <2>1
  <2>4. how = "bad" <=> how # "ok"
    BY <2>1
  <2>5. child[j] # "bad"
    BY <2>1
  <2> QED  BY <2>1, <2>2, <2>3, <2>4, <2>5, Zenon DEF CountedOK
<1> QED  BY <1>2, <1>3, <1>4, <1>5, <1>6, <1>7 DEF HarnessNext, HarnessStep

(* A job leaves the files of the others alone, and its own in order if it    *)
(* finds what it needs.                                                      *)
OwnFileOnly(kind, f, how, g) ==
  /\ kind # "compile" => g.out = f.out
  /\ kind # "compile assertion" => g.assertion = f.assertion
  /\ kind # "run" => g.shown = f.shown
  /\ kind # "assert" => g.results = f.results
  /\ kind = "compile" /\ how = "ok" => g.out = "new"
  /\ kind = "compile assertion" /\ how = "ok" => g.assertion = "new"
  /\ kind = "run" /\ how = "ok" /\ f.out = "new" => g.shown \in {"wrong", "right"}
  /\ (/\ kind = "assert" /\ how = "ok" /\ f.assertion \in {"none", "new"}
      /\ f.shown \in {"wrong", "right"})
     => g.results \in {"no pass", "pass"} /\ f.assertion = "new"

LEMMA WhatJobsLeave ==
  ASSUME NEW f \in Files, NEW kind \in Kinds, NEW how \in {"ok", "bad"},
         NEW g \in Outcomes(kind, f, how)
  PROVE  OwnFileOnly(kind, f, how, g)
<1> USE DEF OwnFileOnly
<1>0. kind \in {"compile", "compile assertion", "run", "assert"}
  BY Constants
<1>1. CASE kind = "compile"
  BY <1>1 DEF Outcomes, Compiled, Built, Files
<1>2. CASE kind = "compile assertion"
  BY <1>2 DEF Outcomes, AssertionCompiled, Built, Files
<1>3. CASE kind = "run"
  <2>1. g \in Ran(f, how)
    BY <1>3 DEF Outcomes
  <2>2. g.out = f.out /\ g.assertion = f.assertion /\ g.results = f.results
    BY <2>1 DEF Ran, Files
  <2>3. how = "ok" /\ f.out = "new" => g.shown \in {"wrong", "right"}
    BY <2>1 DEF Ran, Files, Fresh
  <2> QED  BY <1>3, <2>2, <2>3
<1>4. CASE kind = "assert"
  <2>1. g \in Asserted(f, how)
    BY <1>4 DEF Outcomes
  <2>2. g.out = f.out /\ g.assertion = f.assertion /\ g.shown = f.shown
    BY <2>1 DEF Asserted, Files
  <2>3. how = "ok" /\ f.assertion \in {"none", "new"} /\ f.shown \in {"wrong", "right"}
          => g.results \in {"no pass", "pass"} /\ f.assertion = "new"
    BY <2>1 DEF Asserted, Files, Fresh
  <2> QED  BY <1>4, <2>2, <2>3
<1> QED  BY <1>0, <1>1, <1>2, <1>3, <1>4

LEMMA OrderOfPasses ==
  /\ \A p, q \in Passes: q < p => q # p /\ q <= p
  /\ 1 \in Passes /\ 2 \in Passes /\ 1 < 2 /\ 1 < 3 /\ 2 < 3
<1>1. Passes \subseteq Int
  BY DEF Passes
<1> QED  BY <1>1 DEF Passes

LEMMA KindsOfAPass ==
  ASSUME NEW m, NEW q, NEW s, IsJobOf(m, q, s)
  PROVE  /\ m[2] = s
         /\ m[1] = "run" => q = 2
         /\ m[1] = "assert" => q = 3
         /\ m[1] = "compile assertion" => q = 1 /\ m = <<"compile assertion", s>>
<1>1. CASE q = 1 /\ m = <<"compile", s>>
  BY <1>1
<1>2. CASE q = 1 /\ m = <<"compile assertion", s>>
  BY <1>2
<1>3. CASE q = 2 /\ m = <<"run", s>>
  BY <1>3
<1>4. CASE q = 3 /\ m = <<"assert", s>>
  BY <1>4
<1> QED  BY <1>1, <1>2, <1>3, <1>4 DEF IsJobOf

LEMMA AssertionJobs ==
  ASSUME NEW j \in PhaseJobs(1), j[1] = "compile assertion"
  PROVE  j[2] \in asserted
<1>1. CASE \E t \in Tests: j = <<"compile", t>>
  BY <1>1
<1>2. CASE \E t \in asserted: j = <<"compile assertion", t>>
  <2>1. PICK t \in asserted: j = <<"compile assertion", t>>
    BY <1>2
  <2>2. j[2] = t
    BY <2>1
  <2> QED  BY <2>2
<1> QED  BY <1>1, <1>2, JobsOfPasses

LEMMA WhoCompilesAssertions ==
  ASSUME HarnessOK, NEW j \in Jobs, child[j] = "running", j[1] = "compile assertion"
  PROVE  j[2] \in asserted
<1>1. phase \in Passes /\ j \in PhaseJobs(phase) /\ asserted \subseteq Tests
  BY MainIsTyped DEF HarnessOK, OrderOK, Alive
<1>2. PICK s \in Tests: IsJobOf(j, phase, s)
  BY <1>1, JobsOfAPass
<1>3. phase = 1
  BY <1>2, KindsOfAPass
<1>4. j \in PhaseJobs(1)
  BY <1>1, <1>3, Zenon
<1> QED  BY <1>4, AssertionJobs

(* What a job finds when all has gone well so far.                           *)
LEMMA WhatJobsFind ==
  ASSUME HarnessOK, StartedOK, FreshOK, CountedOK, ~broken, ~unstarted,
         pc \notin {"exit 0", "exit 1"}, NEW j \in Jobs, child[j] = "running"
  PROVE  /\ j[1] = "run" => disk[j[2]].out = "new"
         /\ j[1] = "assert" => /\ disk[j[2]].assertion \in {"none", "new"}
                               /\ disk[j[2]].shown \in {"wrong", "right"}
<1>1. /\ phase \in Passes /\ j \in PhaseJobs(phase) /\ asserted \subseteq Tests
      /\ child \in [Jobs -> {"none", "running", "ok", "bad", "reaped"}]
      /\ j[2] \in Tests
  BY TodoAreJobs, MainIsTyped DEF HarnessOK, PoolOK, OrderOK, Alive
<1>2. ASSUME NEW q \in Passes, q < phase, NEW k \in PhaseJobs(q)
      PROVE  LeavesFresh(k, disk[k[2]])
  <2>1. k \in Jobs /\ k \notin PhaseJobs(phase)
    <3>1. k \in Jobs
      BY TodoAreJobs
    <3>2. q # phase
      BY <1>1, <1>2, OrderOfPasses
    <3> QED  BY <1>1, <3>1, <3>2, PassesAreDisjoint
  <2>2. k \notin todo /\ child[k] \notin Alive
    BY <2>1 DEF HarnessOK, MainOK, OrderOK
  <2>3. child[k] # "none"
    <3>1. q <= phase
      BY <1>1, <1>2, OrderOfPasses
    <3> QED  BY <2>2, <3>1 DEF StartedOK
  <2>4. child[k] = "reaped"
    BY <1>1, <2>1, <2>2, <2>3 DEF Alive
  <2> QED  BY <2>1, <2>4 DEF FreshOK
<1>3. PICK s \in Tests: IsJobOf(j, phase, s)
  BY <1>1, JobsOfAPass
<1>4. ASSUME j[1] = "run" PROVE disk[j[2]].out = "new"
  <2>1. phase = 2 /\ j[2] = s
    BY <1>3, <1>4, KindsOfAPass
  <2>2. <<"compile", s>> \in PhaseJobs(1) /\ 1 \in Passes /\ 1 < phase
    <3>1. <<"compile", s>> \in PhaseJobs(1)
      BY JobsOfPasses
    <3> QED  BY <2>1, <3>1, OrderOfPasses
  <2>3. LeavesFresh(<<"compile", s>>, disk[<<"compile", s>>[2]])
    BY <1>2, <2>2
  <2> QED  BY <2>1, <2>3 DEF LeavesFresh
<1>5. ASSUME j[1] = "assert"
      PROVE  disk[j[2]].assertion \in {"none", "new"} /\ disk[j[2]].shown \in {"wrong", "right"}
  <2>1. phase = 3 /\ j[2] = s
    BY <1>3, <1>5, KindsOfAPass
  <2>2. <<"run", s>> \in PhaseJobs(2) /\ 1 \in Passes /\ 2 \in Passes /\ 1 < phase /\ 2 < phase
    <3>1. <<"run", s>> \in PhaseJobs(2)
      BY JobsOfPasses
    <3> QED  BY <2>1, <3>1, OrderOfPasses
  <2>3. LeavesFresh(<<"run", s>>, disk[<<"run", s>>[2]])
    BY <1>2, <2>2
  <2>4. disk[s].shown \in {"wrong", "right"}
    BY <2>3 DEF LeavesFresh
  <2>5. CASE s \in asserted
    <3>1. <<"compile assertion", s>> \in PhaseJobs(1)
      BY <2>5, JobsOfPasses
    <3>2. LeavesFresh(<<"compile assertion", s>>, disk[<<"compile assertion", s>>[2]])
      BY <1>2, <2>2, <3>1
    <3> QED  BY <2>1, <2>4, <3>2 DEF LeavesFresh
  <2>6. CASE s \notin asserted
    BY <2>1, <2>4, <2>6 DEF FreshOK
  <2> QED  BY <2>5, <2>6
<1> QED  BY <1>4, <1>5

LEMMA SameTest ==
  ASSUME NEW j \in Jobs, NEW k \in Jobs, j # k, j[2] = k[2]
  PROVE  j[1] # k[1]
<1>1. j \in Kinds \X Tests /\ k \in Kinds \X Tests
  BY Constants, Zenon
<1>2. PICK a \in Kinds, s \in Tests: j = <<a, s>>
  BY <1>1
<1>3. PICK b \in Kinds, t \in Tests: k = <<b, t>>
  BY <1>1
<1>4. j[1] = a /\ j[2] = s /\ k[1] = b /\ k[2] = t
  BY <1>2, <1>3
<1> QED  BY <1>2, <1>3, <1>4

(* What the jobs that went well left stays, and every job leaves its part.   *)
LEMMA FilesOfAJob ==
  ASSUME NEW j \in Jobs, NEW f, NEW g,
         /\ j[1] = "compile" => g.out = f.out \/ g.out = "new"
         /\ j[1] \in {"compile assertion", "assert"} =>
              g.assertion = f.assertion \/ g.assertion = "new"
         /\ j[1] = "run" => g.shown = f.shown
         /\ j[1] = "assert" => g.results = f.results,
         LeavesFresh(j, f)
  PROVE  LeavesFresh(j, g)
<1>0. j[1] \in {"compile", "compile assertion", "run", "assert"}
  BY Constants
<1> QED  BY <1>0 DEF LeavesFresh

(* A child that ends well.                                                   *)
LEMMA EndLeavesFresh ==
  ASSUME HarnessOK, StartedOK, FreshOK, CountedOK, ~broken, ~unstarted,
         pc \notin {"exit 0", "exit 1"},
         NEW j \in Jobs, child[j] = "running",
         NEW f \in Outcomes(j[1], disk[j[2]], "ok"),
         child' = [child EXCEPT ![j] = "ok"], disk' = [disk EXCEPT ![j[2]] = f],
         NEW k \in Jobs, child'[k] \in {"ok", "reaped"}
  PROVE  LeavesFresh(k, disk'[k[2]])
<1>1. /\ disk \in [Tests -> Files] /\ j[1] \in Kinds /\ j[2] \in Tests
      /\ k[1] \in Kinds /\ k[2] \in Tests
      /\ child \in [Jobs -> {"none", "running", "ok", "bad", "reaped"}]
  BY TodoAreJobs DEF HarnessOK, FilesOK, PoolOK
<1>2. disk[j[2]] \in Files
  BY <1>1
<1> DEFINE was == disk[j[2]]
<1>3. /\ j[1] # "compile" => f.out = was.out
      /\ j[1] # "compile assertion" => f.assertion = was.assertion
      /\ j[1] # "run" => f.shown = was.shown
      /\ j[1] # "assert" => f.results = was.results
      /\ j[1] = "compile" => f.out = "new"
      /\ j[1] = "compile assertion" => f.assertion = "new"
      /\ j[1] = "run" /\ was.out = "new" => f.shown \in {"wrong", "right"}
      /\ j[1] = "assert" /\ was.assertion \in {"none", "new"} /\ was.shown \in {"wrong", "right"}
           => f.results \in {"no pass", "pass"} /\ was.assertion = "new"
  <2>1. OwnFileOnly(j[1], was, "ok", f)
    BY <1>1, <1>2, WhatJobsLeave
  <2> HIDE DEF was
  <2> QED  BY <2>1 DEF OwnFileOnly
<1>4. /\ j[1] = "run" => was.out = "new"
      /\ j[1] = "assert" => was.assertion \in {"none", "new"} /\ was.shown \in {"wrong", "right"}
  BY WhatJobsFind
<1>5. disk'[k[2]] = IF k[2] = j[2] THEN f ELSE disk[k[2]]
  BY <1>1
<1> HIDE DEF was
<1>6. CASE k = j
  <2>1. j[1] \in {"compile", "compile assertion", "run", "assert"}
    BY Constants
  <2>2. LeavesFresh(j, f)
    BY <1>3, <1>4, <2>1 DEF LeavesFresh
  <2> QED  BY <1>5, <1>6, <2>2
<1>7. CASE k # j
  <2>1. LeavesFresh(k, disk[k[2]])
    BY <1>1, <1>7 DEF FreshOK
  <2>2. CASE k[2] # j[2]
    BY <1>5, <2>1, <2>2
  <2>3. CASE k[2] = j[2]
    <3>1. k[1] # j[1]
      BY <1>7, <2>3, SameTest
    <3>2. LeavesFresh(k, was)
      BY <2>1, <2>3 DEF was
    <3>3. /\ k[1] = "compile" => f.out = was.out
          /\ k[1] \in {"compile assertion", "assert"} =>
               f.assertion = was.assertion \/ f.assertion = "new"
          /\ k[1] = "run" => f.shown = was.shown
          /\ k[1] = "assert" => f.results = was.results
      BY <1>3, <3>1
    <3>4. LeavesFresh(k, f)
      BY <3>2, <3>3, FilesOfAJob
    <3> QED  BY <1>5, <2>3, <3>4
  <2> QED  BY <2>2, <2>3
<1> QED  BY <1>6, <1>7

(* The parent empties the output file of a program that is about to run.     *)
LEMMA RedirectionIsHarmless ==
  ASSUME HarnessOK, NEW j \in Jobs, NEW k \in Jobs, k # j, LeavesFresh(k, disk[k[2]])
  PROVE  LeavesFresh(k, Redirected(j)[k[2]])
<1>1. disk \in [Tests -> Files] /\ j[2] \in Tests /\ k[2] \in Tests
  BY TodoAreJobs DEF HarnessOK, FilesOK
<1>2. CASE j[1] # "run"
  BY <1>2 DEF Redirected
<1>3. CASE j[1] = "run"
  <2>1. Redirected(j) = [disk EXCEPT ![j[2]].shown = "wrong"]
    BY <1>3 DEF Redirected
  <2>2. CASE k[2] # j[2]
    <3>1. Redirected(j)[k[2]] = disk[k[2]]
      BY <1>1, <2>1, <2>2
    <3> QED  BY <3>1
  <2>3. CASE k[2] = j[2]
    <3>1. k[1] # "run"
      BY <1>3, <2>3, SameTest
    <3>2. Redirected(j)[k[2]] = [disk[k[2]] EXCEPT !.shown = "wrong"]
      BY <1>1, <2>1, <2>3
    <3>3. disk[k[2]] \in Files
      BY <1>1
    <3> DEFINE f == disk[k[2]]
               g == Redirected(j)[k[2]]
    <3>4. g.out = f.out /\ g.assertion = f.assertion /\ g.results = f.results
      BY <3>2, <3>3 DEF Files
    <3> HIDE DEF f, g
    <3>5. LeavesFresh(k, g)
      BY <3>1, <3>4, FilesOfAJob DEF f
    <3> QED  BY <3>5 DEF g
  <2> QED  BY <2>2, <2>3
<1> QED  BY <1>2, <1>3

(* The files that the jobs leave are of this invocation.                     *)
LEMMA FreshKept ==
  ASSUME HarnessOK, StartedOK, CountedOK, FreshOK, [HarnessNext]_harnessVars
  PROVE  FreshOK'
<1> DEFINE Sound == ~broken /\ ~unstarted /\ pc \notin {"exit 0", "exit 1"}
           AllFresh == \A j \in Jobs: child[j] \in {"ok", "reaped"} => LeavesFresh(j, disk[j[2]])
           NoneMade == \A t \in Tests \ asserted: disk[t].assertion = "none"
<1>0. /\ disk \in [Tests -> Files] /\ asserted' = asserted
      /\ child \in [Jobs -> {"none", "running", "ok", "bad", "reaped"}]
      /\ (Sound => AllFresh) /\ NoneMade
  <2>1. asserted' = asserted
    BY DEF HarnessNext, HarnessStep, StartJob, StartFails, StartPolling, PollRunning, PollReaps,
       StartWaiting, Wait, NextPass, Parse, Clean, Interrupt, JobEnds, harnessVars
  <2> QED  BY <2>1, Zenon DEF HarnessOK, FilesOK, PoolOK, FreshOK
<1>1. ASSUME Sound' => AllFresh', NoneMade' PROVE FreshOK'
  BY <1>1, Zenon DEF FreshOK
<1> HIDE DEF Sound
<1>2. ASSUME disk' = disk, Sound' => Sound,
             \A j \in Jobs: child'[j] \in {"ok", "reaped"} => child[j] \in {"ok", "reaped", "bad"},
             \A j \in Jobs: Sound => child[j] # "bad"
      PROVE  FreshOK'
  <2>1. NoneMade'
    BY <1>0, <1>2
  <2>2. Sound' => AllFresh'
    BY <1>0, <1>2, Zenon
  <2> QED  BY <1>1, <2>1, <2>2
<1>3. \A j \in Jobs: Sound => child[j] # "bad"
  BY Zenon DEF CountedOK, Sound
<1>4. ASSUME NEW j \in Jobs PROVE \A t \in Tests: Redirected(j)[t].assertion = disk[t].assertion
  <2>1. j[2] \in Tests
    BY TodoAreJobs
  <2>2. \A f \in Files: [f EXCEPT !.shown = "wrong"].assertion = f.assertion
    BY DEF Files
  <2> QED  BY <1>0, <2>1, <2>2 DEF Redirected
<1>5. CASE StartJob
  <2>1. PICK j \in todo: /\ child' = [child EXCEPT ![j] = "running"] /\ disk' = Redirected(j)
    BY <1>5 DEF StartJob, StartProcess
  <2>2. j \in Jobs
    BY <2>1, TodoAreJobs
  <2>3. NoneMade'
    BY <1>0, <1>4, <2>1, <2>2
  <2>4. Sound' => Sound
    BY <1>5, Zenon DEF StartJob, Sound
  <2>5. ASSUME AllFresh, NEW k \in Jobs, child'[k] \in {"ok", "reaped"}
        PROVE  LeavesFresh(k, disk'[k[2]])
    <3>1. k # j /\ child[k] \in {"ok", "reaped"}
      BY <1>0, <2>1, <2>2, <2>5
    <3>2. LeavesFresh(k, disk[k[2]])
      BY <2>5, <3>1
    <3> QED  BY <2>1, <2>2, <3>1, <3>2, RedirectionIsHarmless
  <2>6. AllFresh => AllFresh'
    BY <2>5
  <2> QED  BY <1>0, <1>1, <2>3, <2>4, <2>6, Zenon
<1>6. CASE StartFails
  <2>1. PICK j \in todo: disk' \in {disk, Redirected(j)}
    BY <1>6 DEF StartFails
  <2>2. NoneMade'
    BY <1>0, <1>4, <2>1, TodoAreJobs
  <2>3. ~Sound'
    BY <1>6, Zenon DEF StartFails, Sound
  <2> QED  BY <1>1, <2>2, <2>3, Zenon
<1>7. CASE StartPolling \/ PollRunning \/ StartWaiting \/ NextPass \/ Parse \/ UNCHANGED harnessVars
  <2>1. disk' = disk /\ child' = child
    BY <1>7 DEF StartPolling, PollRunning, StartWaiting, NextPass, Parse, poolVars, harnessVars
  <2>2. UNCHANGED <<broken, unstarted>> /\ (pc \in {"exit 0", "exit 1"} => pc' = pc)
    BY <1>7 DEF StartPolling, PollRunning, StartWaiting, NextPass, Parse, harnessVars
  <2>3. Sound' => Sound
    BY <2>2, Zenon DEF Sound
  <2> QED  BY <1>2, <1>3, <2>1, <2>3, Zenon
<1>8. CASE PollReaps \/ Wait
  <2>1. /\ disk' = disk /\ child' = Reaped(procs[i]) /\ child[procs[i]] # "running"
        /\ UNCHANGED <<broken, unstarted>> /\ pc \in {"poll", "wait"}
        /\ i \in Nat /\ 1 <= i /\ i <= Len(procs) /\ (pc = "wait" => i >= i)
    BY <1>8, MainIsTyped DEF PollReaps, Wait, PollEnded, WaitEnded, Running
  <2>2. i \in 1..Len(procs)
    BY <2>1, PoolIsASequence
  <2>3. procs[i] \in Jobs /\ child[procs[i]] \in Alive
    BY <2>1, <2>2, PoolIsASequence DEF HarnessOK, PoolOK
  <2>4. \A j \in Jobs: child'[j] \in {"ok", "reaped"} => child[j] \in {"ok", "reaped", "bad"}
    BY <1>0, <2>1, <2>3 DEF Reaped, Alive
  <2>5. Sound' => Sound
    BY <2>1, Zenon DEF Sound
  <2> QED  BY <1>2, <1>3, <2>1, <2>4, <2>5, Zenon
<1>9. CASE Clean
  <2>1. disk' = [t \in Tests |-> NoFiles] /\ pc' \in {"exit 0", "exit 1"}
    BY <1>9 DEF Clean
  <2>2. NoneMade'
    BY <1>0, <2>1 DEF NoFiles
  <2>3. ~Sound'
    BY <2>1, Zenon DEF Sound
  <2> QED  BY <1>1, <2>2, <2>3, Zenon
<1>10. CASE Interrupt
  <2>1. disk' = [t \in Tests |-> AgedFile(disk[t])] /\ child' = [j \in Jobs |-> "none"]
    BY <1>10 DEF Interrupt
  <2>2. NoneMade'
    BY <1>0, <2>1 DEF AgedFile
  <2>3. AllFresh'
    BY <2>1
  <2> QED  BY <1>1, <2>2, <2>3, Zenon
<1>11. ASSUME NEW j \in Jobs, JobEnds(j) PROVE FreshOK'
  <2>1. PICK how \in {"ok", "bad"}:
          /\ child[j] = "running" /\ child' = [child EXCEPT ![j] = how]
          /\ broken' = (broken \/ how # "ok")
          /\ \E f \in Outcomes(j[1], disk[j[2]], how): disk' = [disk EXCEPT ![j[2]] = f]
    BY <1>11 DEF JobEnds, ProcessEnds
  <2>2. PICK f \in Outcomes(j[1], disk[j[2]], how): disk' = [disk EXCEPT ![j[2]] = f]
    BY <2>1, Zenon
  <2>3. UNCHANGED <<unstarted, pc>>
    BY <1>11 DEF JobEnds
  <2>4. j[1] \in Kinds /\ j[2] \in Tests /\ disk[j[2]] \in Files
    BY <1>0, TodoAreJobs
  <2>5. NoneMade'
    <3>1. j[1] # "compile assertion" => f.assertion = disk[j[2]].assertion
      <4>1. OwnFileOnly(j[1], disk[j[2]], how, f)
        BY <2>4, WhatJobsLeave
      <4> QED  BY <4>1, Zenon DEF OwnFileOnly
    <3>2. j[1] = "compile assertion" => j[2] \in asserted
      BY <2>1, WhoCompilesAssertions
    <3> QED  BY <1>0, <2>2, <2>4, <3>1, <3>2
  <2>6. ASSUME Sound' PROVE Sound /\ how = "ok"
    BY <2>1, <2>3, <2>6, Zenon DEF Sound
  <2>7. ASSUME Sound' PROVE AllFresh'
    <3>1. /\ ~broken /\ ~unstarted /\ pc \notin {"exit 0", "exit 1"}
          /\ f \in Outcomes(j[1], disk[j[2]], "ok") /\ child' = [child EXCEPT ![j] = "ok"]
      BY <2>1, <2>2, <2>6, <2>7, Zenon DEF Sound
    <3> QED  BY <2>1, <2>2, <3>1, EndLeavesFresh, Zenon
  <2> QED  BY <1>1, <2>5, <2>7, Zenon
<1> QED
  BY <1>5, <1>6, <1>7, <1>8, <1>9, <1>10, <1>11 DEF HarnessNext, HarnessStep

(* Nobody is alive once the passes are over.                                 *)
LEMMA AllAreOver ==
  ASSUME HarnessOK, pc \in {"parse", "clean"}, NEW j \in Jobs
  PROVE  child[j] \notin Alive
<1>1. procs = <<>>
  BY DEF HarnessOK, PoolOK
<1>2. ~\E k \in 1..Len(procs): TRUE
  BY <1>1
<1> QED  BY <1>2 DEF HarnessOK, PoolOK

(* A test whose results are not there or say otherwise has failed.           *)
LEMMA ParsedKept ==
  ASSUME HarnessOK, ParsedOK, [HarnessNext]_harnessVars
  PROVE  ParsedOK'
<1>1. CASE Parse
  <2>1. disk' = disk /\ failed' = (failed \/ \E t \in Tests: disk[t].results = "no pass")
    BY <1>1 DEF Parse
  <2> QED  BY <2>1, Zenon DEF ParsedOK
<1>2. CASE \/ StartJob \/ StartFails \/ StartPolling \/ PollRunning \/ PollReaps \/ StartWaiting
           \/ Wait \/ NextPass \/ Clean \/ Interrupt
  <2>1. pc' # "clean"
    BY <1>2 DEF StartJob, StartFails, StartPolling, PollRunning, PollReaps, StartWaiting, Wait,
       NextPass, Clean, Interrupt
  <2> QED  BY <2>1, Zenon DEF ParsedOK
<1>3. CASE UNCHANGED harnessVars
  <2>1. UNCHANGED <<pc, failed, disk>>
    BY <1>3 DEF harnessVars
  <2> QED  BY <2>1, Zenon DEF ParsedOK
<1>4. ASSUME NEW j \in Jobs, JobEnds(j) PROVE ParsedOK'
  <2>1. pc' = pc /\ child[j] \in Alive
    BY <1>4 DEF JobEnds, ProcessEnds, Alive
  <2>2. pc # "clean"
    BY <2>1, AllAreOver
  <2> QED  BY <2>1, <2>2, Zenon DEF ParsedOK
<1> QED  BY <1>1, <1>2, <1>3, <1>4 DEF HarnessNext, HarnessStep

LEMMA VerdictInitially == HarnessInit => VerdictOK
<1> SUFFICES ASSUME HarnessInit PROVE VerdictOK
  OBVIOUS
<1>1. /\ pc = "schedule" /\ phase = 1 /\ todo = PhaseJobs(1) /\ child = [j \in Jobs |-> "none"]
      /\ disk = [t \in Tests |-> NoFiles] /\ lost = FALSE /\ broken = FALSE
  BY DEF HarnessInit, PoolInit
<1>2. PoolSuffices
  BY <1>1, Zenon DEF PoolSuffices
<1>3. StartedOK
  <2>1. \A q \in Passes: q <= 1 => q = 1
    BY DEF Passes
  <2> QED  BY <1>1, <2>1 DEF StartedOK
<1>4. CountedOK
  <2>1. \A j \in Jobs: child[j] # "bad"
    BY <1>1
  <2> QED  BY <1>1, <2>1, Zenon DEF CountedOK
<1>5. FreshOK
  <2>1. \A j \in Jobs: child[j] \notin {"ok", "reaped"}
    BY <1>1
  <2>2. \A t \in Tests: disk[t].assertion = "none"
    BY <1>1 DEF NoFiles
  <2> QED  BY <2>1, <2>2, Zenon DEF FreshOK
<1>6. ParsedOK
  BY <1>1, Zenon DEF ParsedOK
<1> QED  BY <1>2, <1>3, <1>4, <1>5, <1>6 DEF VerdictOK

LEMMA VerdictStaysOK == HarnessOK /\ VerdictOK /\ [HarnessNext]_harnessVars => VerdictOK'
BY PoolSufficesKept, StartedKept, CountedKept, FreshKept, ParsedKept, Zenon DEF VerdictOK

LEMMA VerdictHolds ==
  ASSUME HarnessOK, VerdictOK
  PROVE  VerdictIsSound
<1> SUFFICES ASSUME pc = "clean", ~failed, ~unstarted, lost => limit >= 2 * TestCount
             PROVE  /\ ~broken /\ asserted = Tests
                    /\ \A j \in Jobs: child[j] = "reaped"
                    /\ \A t \in Tests: disk[t].results = "pass"
  BY Zenon DEF VerdictIsSound
<1>1. ~lost
  BY Zenon DEF VerdictOK, PoolSuffices
<1>2. \A j \in Jobs: child[j] \notin Alive
  BY AllAreOver
<1>3. ~broken
  <2>1. \A j \in Jobs: child[j] # "bad"
    BY <1>2 DEF Alive
  <2> QED  BY <1>1, <2>1, Zenon DEF VerdictOK, CountedOK
<1>4. child \in [Jobs -> {"none", "running", "ok", "bad", "reaped"}]
      /\ disk \in [Tests -> Files] /\ asserted \subseteq Tests
  BY MainIsTyped, Zenon DEF HarnessOK, PoolOK, FilesOK
<1>5. ASSUME NEW q \in Passes, NEW j \in PhaseJobs(q)
      PROVE  j \in Jobs /\ child[j] = "reaped" /\ LeavesFresh(j, disk[j[2]])
  <2>1. todo = {} /\ phase = 3
    BY DEF VerdictOK, StartedOK
  <2>2. q <= phase
    BY <2>1, <1>5 DEF Passes
  <2>3. child[j] # "none"
    BY <2>1, <2>2 DEF VerdictOK, StartedOK
  <2>4. j \in Jobs
    BY TodoAreJobs
  <2>5. child[j] = "reaped"
    BY <1>2, <1>4, <2>3, <2>4 DEF Alive
  <2>6. LeavesFresh(j, disk[j[2]])
    BY <1>3, <2>4, <2>5 DEF VerdictOK, FreshOK
  <2> QED  BY <2>4, <2>5, <2>6
<1>6. ASSUME NEW t \in Tests
      PROVE  /\ disk[t].results = "pass" /\ t \in asserted
             /\ \A kind \in Kinds: child[<<kind, t>>] = "reaped"
  <2>1. 1 \in Passes /\ 2 \in Passes /\ 3 \in Passes
    BY DEF Passes
  <2>2. /\ <<"compile", t>> \in PhaseJobs(1) /\ <<"run", t>> \in PhaseJobs(2)
        /\ <<"assert", t>> \in PhaseJobs(3)
        /\ t \in asserted => <<"compile assertion", t>> \in PhaseJobs(1)
    BY JobsOfPasses
  <2>3. LeavesFresh(<<"assert", t>>, disk[<<"assert", t>>[2]])
    BY <1>5, <2>1, <2>2
  <2>4. disk[t].results \in {"no pass", "pass"} /\ disk[t].assertion = "new"
    BY <2>3 DEF LeavesFresh
  <2>5. disk[t].results # "no pass"
    BY Zenon DEF VerdictOK, ParsedOK
  <2>6. t \in asserted
    BY <2>4 DEF VerdictOK, FreshOK
  <2>7. \A kind \in {"compile", "compile assertion", "run", "assert"}:
          child[<<kind, t>>] = "reaped"
    BY <1>5, <2>1, <2>2, <2>6
  <2> QED  BY <2>4, <2>5, <2>6, <2>7, Constants
<1>7. asserted = Tests
  BY <1>4, <1>6
<1>8. ASSUME NEW j \in Jobs PROVE child[j] = "reaped"
  <2>1. j \in Kinds \X Tests
    BY Constants, Zenon
  <2>2. PICK kind \in Kinds, t \in Tests: j = <<kind, t>>
    BY <2>1
  <2>3. child[<<kind, t>>] = "reaped"
    BY <1>6
  <2> QED  BY <2>2, <2>3
<1> QED  BY <1>3, <1>6, <1>7, <1>8, Zenon

(* When the harness exits with 0, every test was compiled, ran and passed    *)
(* its assertion in this invocation, if every job could be started and the   *)
(* pool had room for two jobs for every test.                                *)
THEOREM VerdictCorrect == HarnessSpec => []VerdictIsSound
<1>1. HarnessInit => HarnessOK /\ VerdictOK
  BY HarnessInitially, VerdictInitially
<1>2. (HarnessOK /\ VerdictOK) /\ [HarnessNext]_harnessVars => (HarnessOK /\ VerdictOK)'
  BY HarnessStaysOK, VerdictStaysOK
<1>3. HarnessOK /\ VerdictOK => VerdictIsSound
  BY VerdictHolds
<1> QED  BY <1>1, <1>2, <1>3, PTL DEF HarnessSpec
=============================================================================
