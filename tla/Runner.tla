------------------------------- MODULE Runner -------------------------------
(***************************************************************************)
(* The comptime runner (runner.templ.c): the program that executes the     *)
(* statements of one source file and appends what they produced to the     *)
(* generated header.                                                       *)
(*                                                                         *)
(* runner_main holds one registration per statement, in order.  A          *)
(* registration calls the statement's function, which is user code: it may *)
(* append to its own Inline buffer and to the shared TopLevel buffer, and  *)
(* it may return, exit or crash.  When it returns, its macro is defined.   *)
(* The header is a stdio stream, so a line is first held in the stream's   *)
(* buffer, which is written in chunks of bytes, not in lines: a crash may  *)
(* lose any tail of it, and so may an exit or the end of main, for neither *)
(* looks at the results of fprintf, fflush and fclose.  A text is the      *)
(* sequence of its pieces, one per appendf; a write that ends between two  *)
(* pieces stands for those that end inside one.                            *)
(***************************************************************************)
EXTENDS Integers, Sequences

CONSTANTS
  CallLists,     \* the sequences of registrations runner_main may hold
  Texts,         \* what one appendf may write
  MaxInline,     \* bound: appends to one statement's Inline buffer
  MaxTopLevel    \* bound: appends to the TopLevel buffer

Call == [stmt : Nat, placeholder : {-1} \cup Nat]

(* build_runner_snippets numbers the registrations 0, 1, 2, ...            *)
ASSUME RunnerAssumption ==
  /\ CallLists \subseteq Seq(Call)
  /\ \A c \in CallLists : \A i \in DOMAIN c : c[i].stmt = i - 1
  /\ MaxInline \in Nat /\ MaxTopLevel \in Nat

VARIABLES
  calls,      \* the registrations of runner_main
  state,      \* where the runner's process stands
  next,       \* the registration being executed
  inline,     \* the Inline buffer of each statement
  topLevel,   \* the TopLevel buffer
  held,       \* lines printed to the stream and not yet written
  header,     \* the lines of the generated header
  lost        \* the process exited or returned, and not all was written

runnerVars == <<calls, state, next, inline, topLevel, held, header, lost>>

(* The lines of the header.                                                *)
Prelude == [macro |-> "prelude", n |-> 0, text |-> <<>>]
Select == [macro |-> "_COMPTIME_X", n |-> 0, text |-> <<>>]
DefineX(n, text) == [macro |-> "_COMPTIME_Xn", n |-> n, text |-> text]
DefineType(n, text) == [macro |-> "_COMPTIMETYPE_n", n |-> n, text |-> text]
Definitions(text) == [macro |-> "definitions", n |-> 0, text |-> text]


(* A line cut before its text.  It defines no macro of a statement, or, cut *)
(* between the digits of its number, that of an earlier one.               *)
Fragment == [macro |-> "fragment", n |-> 0, text |-> <<>>]

Line == [macro : {"prelude", "_COMPTIME_X", "_COMPTIME_Xn", "_COMPTIMETYPE_n",
                  "definitions", "fragment"},
         n : Nat, text : Seq(Texts)]

(* What a write of lines may leave in the file: some lines, and of the one *)
(* after them perhaps a part.                                              *)
Prefixes(text) == {SubSeq(text, 1, j) : j \in 0..Len(text)}
Cuts(line) == {Fragment} \cup {[line EXCEPT !.text = t] : t \in Prefixes(line.text)}
Beginnings(lines) ==
  Prefixes(lines)
    \cup UNION {{Append(SubSeq(lines, 1, k - 1), cut) : cut \in Cuts(lines[k])} :
                  k \in DOMAIN lines}

Ended == {"succeeded", "failed"}

Start(cs) ==
  /\ calls = cs
  /\ state = "start"
  /\ next = 1
  /\ inline = [i \in DOMAIN cs |-> <<>>]
  /\ topLevel = <<>>
  /\ held = <<>>
  /\ header = <<Prelude>>
  /\ lost = FALSE

RunnerInit == \E cs \in CallLists : Start(cs)

(* main opens the header for appending and redefines _COMPTIME_X, so that  *)
(* it no longer yields a placeholder.                                      *)
Open ==
  /\ state = "start"
  /\ state' = "main"
  /\ held' = Append(held, Select)
  /\ UNCHANGED <<calls, next, inline, topLevel, header, lost>>

OpenFails ==
  /\ state = "start"
  /\ state' = "failed"
  /\ UNCHANGED <<calls, next, inline, topLevel, held, header, lost>>

Executing == state = "main" /\ next <= Len(calls)
(* Faulty variant of Buffer: the statements share one static buffer.       *)
SharedBuffer == 1

Buffer == calls[next].stmt + 1

(* _ComptimeCtx.Inline.appendf *)
AppendInline ==
  /\ Executing /\ Len(inline[Buffer]) < MaxInline
  /\ \E t \in Texts : inline' = [inline EXCEPT ![Buffer] = Append(@, t)]
  /\ UNCHANGED <<calls, state, next, topLevel, held, header, lost>>

(* _ComptimeCtx.TopLevel.appendf *)
AppendTopLevel ==
  /\ Executing /\ Len(topLevel) < MaxTopLevel
  /\ \E t \in Texts : topLevel' = Append(topLevel, t)
  /\ UNCHANGED <<calls, state, next, inline, held, header, lost>>

(* Faulty variant of StatementReturns: every statement is taken for a type. *)
StatementReturnsType ==
  /\ Executing
  /\ held' = held \o <<DefineX(calls[next].stmt, inline[Buffer]),
                       DefineType(calls[next].placeholder, inline[Buffer])>>
  /\ next' = next + 1
  /\ UNCHANGED <<calls, state, inline, topLevel, header, lost>>

(* Faulty variant of StatementReturns: a type gets its other macro only.    *)
StatementReturnsEither ==
  /\ Executing
  /\ held' = Append(held,
       IF calls[next].placeholder >= 0 THEN DefineType(calls[next].placeholder, inline[Buffer])
       ELSE DefineX(calls[next].stmt, inline[Buffer]))
  /\ next' = next + 1
  /\ UNCHANGED <<calls, state, inline, topLevel, header, lost>>

(* __Comptime_wrap_exec after fn(ctx) *)
StatementReturns ==
  /\ Executing
  /\ LET c == calls[next]
         text == inline[Buffer]
     IN held' = held \o <<DefineX(c.stmt, text)>>
                     \o (IF c.placeholder >= 0 THEN <<DefineType(c.placeholder, text)>>
                         ELSE <<>>)
  /\ next' = next + 1
  /\ UNCHANGED <<calls, state, inline, topLevel, header, lost>>

(* The last write to the stream: of all that is left, or of a beginning.   *)
Flush(lines) ==
  /\ held' = <<>>
  /\ \/ header' = header \o lines /\ UNCHANGED lost
     \/ \E w \in Beginnings(lines) \ {lines} : header' = header \o w /\ lost' = TRUE

(* The statement calls exit, which flushes the stream, or _exit, which does *)
(* not; with status 0 the caller cannot tell that the remaining statements *)
(* never ran.                                                              *)
StatementExits ==
  /\ Executing
  /\ Flush(held)
  /\ state' \in Ended
  /\ UNCHANGED <<calls, next, inline, topLevel>>

(* The statement aborts or faults: what the stream wrote before, when its  *)
(* buffer was full, is all there is.                                       *)
StatementCrashes ==
  /\ Executing
  /\ \E w \in Beginnings(held) : header' = header \o w
  /\ held' = <<>>
  /\ state' = "failed"
  /\ UNCHANGED <<calls, next, inline, topLevel, lost>>

(* The end of main: the TopLevel buffer, when there is one, comes last.    *)
(* The status is 0, whatever became of the stream.                         *)
Finish ==
  /\ state = "main" /\ next > Len(calls)
  /\ Flush(held \o IF topLevel # <<>> THEN <<Definitions(topLevel)>> ELSE <<>>)
  /\ state' = "succeeded"
  /\ UNCHANGED <<calls, next, inline, topLevel>>

RunnerNext ==
  \/ Open \/ OpenFails
  \/ AppendInline \/ AppendTopLevel
  \/ StatementReturns \/ StatementExits \/ StatementCrashes
  \/ Finish

RunnerSpec == RunnerInit /\ [][RunnerNext]_runnerVars
-----------------------------------------------------------------------------
(* Properties.                                                             *)

RunnerTypeOK ==
  /\ calls \in CallLists
  /\ state \in {"start", "main"} \cup Ended
  /\ next \in 1..(Len(calls) + 1)
  /\ inline \in [DOMAIN calls -> Seq(Texts)]
  /\ topLevel \in Seq(Texts)
  /\ held \in Seq(Line)
  /\ header \in Seq(Line)
  /\ lost \in BOOLEAN

(* What has been printed so far, on disk or still in the stream.           *)
Printed == header \o held

(* However the process ends, a macro in the header stands for a statement  *)
(* that returned, with all that the statement appended.  Only the very     *)
(* last line may be cut short, and only when the process failed, or when   *)
(* the file did not take all that was printed: then, and for all that the  *)
(* exit status tells, a block's result may be a beginning of what its      *)
(* statement appended.                                                     *)
CutShort(i) == i = Len(Printed) /\ (state = "failed" \/ lost)

DefinedMeansReturned ==
  \A i \in DOMAIN Printed :
    /\ Printed[i].macro = "_COMPTIME_Xn" =>
         /\ Printed[i].n + 1 < next
         /\ \/ Printed[i].text = inline[Printed[i].n + 1]
            \/ CutShort(i) /\ Printed[i].text \in Prefixes(inline[Printed[i].n + 1])
    /\ Printed[i].macro = "fragment" => CutShort(i)

(* Unless the process failed or the file did not take all of it, every     *)
(* statement that returned has its macro, once: a second #define would     *)
(* win, a missing one leaves the block to be an unknown function.          *)
OneMacroPerStatement ==
  state # "failed" /\ ~lost =>
    \A i \in 1..(next - 1) :
      \E k \in DOMAIN Printed :
        /\ Printed[k] = DefineX(i - 1, inline[i])
        /\ \A l \in DOMAIN Printed :
             Printed[l].macro = "_COMPTIME_Xn" /\ Printed[l].n = i - 1 => l = k
=============================================================================
