---------------------------- MODULE MCTreePasses ----------------------------
(* Instances of TreePasses over files of the items of Sources.             *)
EXTENDS Sources

MCPre == [f \in Files |-> Program(f).pre]
MCPost == [f \in Files |-> Program(f).post]
MCPreLen == [f \in Files |-> Program(f).len]
MCPostLen == [f \in Files |-> Program(f).postLen]
MCInvocations == [f \in Files |-> Program(f).inv]

(* Every item and every two items behind an include, with and without a     *)
(* line break between them.                                                *)
AnyFiles == [names : {"Include"} \X ItemNames \X ItemNames, gap : {0, 1}]

(* The uses that the README and tests/ show, in files of three.            *)
SupportedItems ==
  {"Include", "Plain", "FnCall", "FnTwo", "FnArg", "UsesF", "VarCall",
   "TopCall", "TypedefBlock", "VarOfT", "FnType", "FnLiteral", "VarType"}
SupportedFiles == Triples(SupportedItems)

(* Files with a dependent definition at the beginning or behind another.   *)
AdjacentFiles == Triples({"Include", "Plain", "FnCall", "VarCall"})

(* What the theorems assume of a file: the first of every file, the second  *)
(* of the files whose items are apart, the others of the supported ones.   *)
ASSUME BeginApartAssumption == \A f \in Files : RootsBeginApart(Post[f])
ASSUME ApartAssumption == \A f \in Files : ItemsApart(Post[f]) => RootsApart(Post[f])
ASSUME DefineAssumption ==
  Files = SupportedFiles => \A f \in Files : DirectivesDefine(Post[f])
ASSUME BlocksAssumption == Files = SupportedFiles => \A f \in Files : Callable(f) => TreesShowBlocks(f)
ASSUME PassableAssumption ==
  Files = SupportedFiles => \A f \in Files : ItemsApart(Post[f]) => Passable(f)
ASSUME ReachesAssumption ==
  Files = SupportedFiles => \A f \in Files : MarkingReaches(Post[f])
=============================================================================
