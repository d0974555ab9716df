----------------------------- MODULE MCPipeline -----------------------------
(* Instances of Pipeline over the files of Sources.                        *)
EXTENDS Pipeline, Sources

MCPre == [f \in Files |-> Program(f).pre]
MCPost == [f \in Files |-> Program(f).post]
MCPreLen == [f \in Files |-> Program(f).len]
MCPostLen == [f \in Files |-> Program(f).postLen]
MCInvocations == [f \in Files |-> Program(f).inv]

(* An include and then one or two items with comptime blocks, or with the  *)
(* bare word, which the passes refuse.                                     *)
BlockItems ==
  {"Include", "FnTwo", "FnArg", "VarCall", "TopCall", "TypedefBlock", "FnLiteral",
   "BareWord"}
BlockFiles == [names : {"Include"} \X BlockItems \X BlockItems, gap : {1}]

(* What the theorem about the promise assumes of a file, and of the texts. *)
ASSUME PromisableAssumption ==
  Files = BlockFiles =>
    /\ \A f \in Files : (Callable(f) => TreesShowBlocks(f)) /\ BlocksInPlace(f)
    /\ "newline" \notin Texts

(* A block the preprocessor skips, and then one it does not.               *)
SkippedFiles ==
  [names : {"Include"} \X {"Plain", "Disabled"} \X {"VarCall"}, gap : {1}]
=============================================================================
