------------------------------ MODULE Comptime ------------------------------
(***************************************************************************)
(* What ccomptime promises of one source file ("How it works" in the       *)
(* README): every comptime block is executed once, in the order of the     *)
(* text, and the program that is built has each block replaced by what     *)
(* that block produced, and the definitions it asked for at top level.  A  *)
(* file may also be refused, at any time; then nothing is built.           *)
(***************************************************************************)
EXTENDS Integers, Sequences, SequencesExt

CONSTANTS
  InlineTexts,   \* what a block may produce in its place
  TopLevelTexts  \* what a block may produce at top level

VARIABLES
  blocks,        \* number of blocks the compiler sees
  outputs,       \* the blocks executed so far: what each one produced
  build,         \* "running", "built" or "refused"
  replacement,   \* what each block was replaced by in the program built
  definitions    \* the top-level definitions in the program built

comptimeVars == <<blocks, outputs, build, replacement, definitions>>

ComptimeInit ==
  /\ blocks \in Nat
  /\ outputs = <<>>
  /\ build = "running"
  /\ replacement = <<>>
  /\ definitions = <<>>

Execute ==
  /\ build = "running" /\ Len(outputs) < blocks
  /\ \E t \in InlineTexts, d \in TopLevelTexts :
       outputs' = Append(outputs, [block |-> Len(outputs) + 1, text |-> t, topLevel |-> d])
  /\ UNCHANGED <<blocks, build, replacement, definitions>>

Refuse ==
  /\ build = "running"
  /\ build' = "refused"
  /\ UNCHANGED <<blocks, outputs, replacement, definitions>>

Build ==
  /\ build = "running" /\ Len(outputs) = blocks
  /\ build' = "built"
  /\ replacement' = [i \in 1..blocks |-> outputs[i].text]
  /\ definitions' = FlattenSeq([i \in 1..blocks |-> outputs[i].topLevel])
  /\ UNCHANGED <<blocks, outputs>>

ComptimeNext == Execute \/ Refuse \/ Build
ComptimeSpec == ComptimeInit /\ [][ComptimeNext]_comptimeVars
=============================================================================
