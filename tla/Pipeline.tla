------------------------------ MODULE Pipeline ------------------------------
(***************************************************************************)
(* One source file from the macro-expanded text to the final compile: the  *)
(* tree passes, the files run_file writes, the compile of the runner, the  *)
(* runner itself, and the expansion of the comptime blocks by the          *)
(* preprocessor of the final compile (main.c).                             *)
(*                                                                         *)
(* The two halves number the blocks independently.  The runner defines     *)
(* _COMPTIME_Xn for the n-th statement the tree passes collected; the      *)
(* final compile replaces a block by _COMPTIME_Xn where n is the value of  *)
(* __COUNTER__ when the preprocessor rescans the block's expansion.        *)
(***************************************************************************)
EXTENDS TreePasses, FiniteSets, SequencesExt

CONSTANTS
  Texts,         \* what one appendf may write
  MaxInline,     \* bound: appends to one statement's Inline buffer
  MaxTopLevel    \* bound: appends to the TopLevel buffer

ASSUME BoundsAssumption == MaxInline \in Nat /\ MaxTopLevel \in Nat

VARIABLES
  blocks,        \* number of blocks the compiler sees
  stage,         \* of run_file and main: see Stages
  state, next, inline, topLevel, held, header, lost,   \* the runner's
  outputs,       \* history: what each statement that returned had appended
  mark,          \* history: Len(topLevel) when the last one returned
  replacement,   \* block -> its replacement, once built
  definitions    \* the top-level definitions, once built

Stages == {"passes", "compile", "run", "final", "built", "refused"}

(* The registrations are the snippets; WriteFiles makes the runner's first  *)
(* state, so the initial states of Runner's own specification are not used. *)
R == INSTANCE Runner WITH calls <- snippets, CallLists <- {}

runnerState == <<state, next, inline, topLevel, held, header, lost, outputs, mark>>
result == <<replacement, definitions>>
pipelineVars == <<vars, blocks, stage, runnerState, result>>

(* The blocks the preprocessor sees, as indices of Invocations[file].      *)
Seen == {i \in DOMAIN Invocations[file] : Invocations[file][i].enabled}

PipelineInit ==
  /\ Init
  /\ blocks = Cardinality(Seen)
  /\ stage = "passes"
  /\ state = "none" /\ next = 0 /\ inline = <<>> /\ topLevel = <<>>
  /\ held = <<>> /\ header = <<>> /\ lost = FALSE /\ outputs = <<>> /\ mark = 0
  /\ replacement = <<>> /\ definitions = <<>>

-----------------------------------------------------------------------------
TreePass ==
  /\ stage = "passes"
  /\ Next
  /\ UNCHANGED <<blocks, stage, runnerState, result>>

(* An abort, a fatal() or a crash ends the whole process.                  *)
PassesStop ==
  /\ stage = "passes" /\ pc \in Stopped
  /\ stage' = "refused"
  /\ UNCHANGED <<vars, blocks, runnerState, result>>

(* The four nob_write_entire_file calls; the header holds the prelude.     *)
WriteFiles ==
  /\ stage = "passes" /\ pc = "done"
  /\ stage' = "compile"
  /\ state' = "start" /\ next' = 1
  /\ inline' = [i \in DOMAIN snippets |-> <<>>]
  /\ topLevel' = <<>> /\ held' = <<>> /\ outputs' = <<>> /\ mark' = 0
  /\ header' = <<R!Prelude>> /\ lost' = FALSE
  /\ UNCHANGED <<vars, blocks, result>>

(* The runner may not compile: user code, or a definition that was cut.    *)
CompileRunner ==
  /\ stage = "compile"
  /\ stage' \in {"run", "refused"}
  /\ UNCHANGED <<vars, blocks, runnerState, result>>

(* The block whose text a statement is; 0 when it is no block's.           *)
BlockOf(stmt) ==
  LET hits == {i \in DOMAIN Invocations[file] :
                 LET v == Invocations[file][i]
                 IN stmt = [buf |-> v.buf, lo |-> v.lo, hi |-> v.hi]}
  IN IF hits = {} THEN 0 ELSE Largest(hits)

(* UNCHANGED lost: here the disk takes all that the runner prints and no   *)
(* statement calls _exit.  Runner's own specification has the other cases. *)
RunRunner ==
  /\ stage = "run"
  /\ R!RunnerNext /\ UNCHANGED lost
  /\ IF state = "main" /\ next' > next
     THEN /\ outputs' = Append(outputs,
                         [block |-> BlockOf(comptime_stmts[snippets[next].stmt + 1]),
                          text |-> inline[next],
                          topLevel |-> SubSeq(topLevel, mark + 1, Len(topLevel))])
          /\ mark' = Len(topLevel)
     ELSE UNCHANGED <<outputs, mark>>
  /\ UNCHANGED <<vars, blocks, stage, result>>

(* nob_cmd_run tells main how the runner ended.                            *)
RunnerEnded ==
  /\ stage = "run" /\ state \in R!Ended
  /\ stage' = IF state = "succeeded" THEN "final" ELSE "refused"
  /\ UNCHANGED <<vars, blocks, runnerState, result>>

-----------------------------------------------------------------------------
(* The preprocessor of the final compile.                                  *)

(* Block j is written inside the arguments of block i.                     *)
Inside(j, i) ==
  LET a == Invocations[file][i]
      b == Invocations[file][j]
  IN j # i /\ b.buf = a.buf /\ a.lo <= b.lo /\ b.hi <= a.hi

(* __COUNTER__ is drawn after the arguments were expanded.                 *)
DrawnBefore(j, i) == Inside(j, i) \/ (j < i /\ ~Inside(i, j))
Counter(i) == Cardinality({j \in Seen : DrawnBefore(j, i)})

(* A macro's body ends with its line.                                      *)
FirstLine(text) ==
  LET breaks == {k \in DOMAIN text : text[k] = "newline"}
  IN IF breaks = {} THEN text
     ELSE SubSeq(text, 1, (CHOOSE k \in breaks : \A l \in breaks : k <= l) - 1)

DefinesOf(n) ==
  {k \in DOMAIN header : header[k].macro = "_COMPTIME_Xn" /\ header[k].n = n}
Selected == \E k \in DOMAIN header : header[k].macro = "_COMPTIME_X"

(* A block whose macro is not defined is a call of an unknown function.    *)
Resolved(i) == Selected /\ DefinesOf(Counter(i)) # {}
Expansion(i) == FirstLine(header[Largest(DefinesOf(Counter(i)))].text)

PublishedDefinitions ==
  FlattenSeq([k \in DOMAIN header |->
                IF header[k].macro = "definitions" THEN header[k].text ELSE <<>>])

FinalCompile ==
  /\ stage = "final"
  /\ \A i \in Seen : Resolved(i)
  /\ stage' = "built"
  /\ replacement' = [i \in Seen |-> Expansion(i)]
  /\ definitions' = PublishedDefinitions
  /\ UNCHANGED <<vars, blocks, runnerState>>

(* An unresolved block, or any other error in the generated code.          *)
FinalCompileFails ==
  /\ stage = "final"
  /\ stage' = "refused"
  /\ UNCHANGED <<vars, blocks, runnerState, result>>

PipelineNext ==
  \/ TreePass \/ PassesStop \/ WriteFiles \/ CompileRunner
  \/ RunRunner \/ RunnerEnded \/ FinalCompile \/ FinalCompileFails

PipelineSpec == PipelineInit /\ [][PipelineNext]_pipelineVars
-----------------------------------------------------------------------------
(* The abstract promise, and how the pipeline keeps it.                    *)

UpTo(n) == UNION {[1..k -> Texts] : k \in 0..n}

Promise == INSTANCE Comptime WITH
  InlineTexts <- UpTo(MaxInline),
  TopLevelTexts <- UpTo(MaxTopLevel),
  build <- IF stage \in {"built", "refused"} THEN stage ELSE "running"

(* What the promise asks of the blocks of a file: the preprocessor skips    *)
(* none of them, and none is written inside another one.                   *)
BlocksInPlace(f) ==
  /\ \A i \in DOMAIN Invocations[f] : Invocations[f][i].enabled
  /\ \A i, j \in DOMAIN Invocations[f] :
       LET a == Invocations[f][i]
           b == Invocations[f][j]
       IN i # j => ~(b.buf = a.buf /\ a.lo <= b.lo /\ b.hi <= a.hi)

(* The pipeline implements the promise: the runner's statements are the    *)
(* blocks, in order, and __COUNTER__ finds each block's own macro.         *)
KeepsPromise == Promise!ComptimeSpec

(* "the header file with macros replacing each comptime block in the       *)
(* original file": what replaces a block is what that block produced.      *)
MacrosReplaceBlocks ==
  stage = "built" =>
    \A i \in Seen :
      \A k \in DOMAIN outputs : outputs[k].block = i => replacement[i] = outputs[k].text
=============================================================================
