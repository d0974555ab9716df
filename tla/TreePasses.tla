----------------------------- MODULE TreePasses -----------------------------
(***************************************************************************)
(* The tree passes of one source file, from the macro-expanded text to     *)
(* everything the comptime runner is built from:                           *)
(*                                                                         *)
(*   correct   find the _ComptimeType(...) spans       (tree_passes.c)     *)
(*   rewrite   replace each by a placeholder           (tree_passes.c)     *)
(*   register  collect statements, mark dependencies   (tree_passes.c)     *)
(*   strip     collect the ranges to remove            (tree_passes.c)     *)
(*   snippets  one runner call per statement           (main.c)            *)
(*   safe      copy the source without those ranges    (main.c)            *)
(*                                                                         *)
(* Every walk advances one node per step.  A failed assert, a fatal() and  *)
(* the dereference of a null root are the final phases "abort", "fatal"    *)
(* and "crash".                                                            *)
(*                                                                         *)
(* tree-sitter is external: the tree of a file before the rewriting (Pre)  *)
(* and the tree of the rewritten text (Post) are constants.                *)
(***************************************************************************)
EXTENDS SyntaxTree, FiniteSets

CONSTANTS
  Files,        \* the source files considered
  Pre,          \* [Files -> tree of the macro-expanded source]
  Post,         \* [Files -> tree of the source with placeholders]
  PreLen,       \* [Files -> length of the macro-expanded source]
  PostLen,      \* [Files -> length of the source with placeholders]
  Invocations   \* [Files -> the _Comptime(..) and _ComptimeType(..) written in
                \*  the file, in text order: kind, buffer, extent, enabled]

Buffers == {"pp_source", "processed_source"}
SourceSlice == [buf : Buffers, lo : Nat, hi : Nat]
Invocation == [buf : Buffers, lo : Nat, hi : Nat, enabled : BOOLEAN]

ASSUME FilesAssumption ==
  /\ Pre \in [Files -> Seq(Node)]
  /\ Post \in [Files -> Seq(Node)]
  /\ PreLen \in [Files -> Nat]
  /\ PostLen \in [Files -> Nat]
  /\ Invocations \in [Files -> Seq(Invocation)]
  /\ \A f \in Files : /\ WellFormed(Pre[f], PreLen[f]) /\ SpansNest(Pre[f])
                       /\ WellFormed(Post[f], PostLen[f]) /\ SpansNest(Post[f])

VARIABLES
  file,                       \* the file being processed
  pc,                         \* the phase
  at,                         \* index of the node, correction, statement or range at hand
  corrections,                \* OutReplacements of correct_tree
  comptimetype_stmts,         \* the rewritten spans: placeholder k is item k+1
  comptimetype_stmt_indices,  \* placeholder -> statement, -1 while unknown
  comptime_stmts,             \* the statements the runner will execute, in order
  comptime_dependencies,      \* names put in the hash map
  to_be_removed,              \* ranges to leave out of the comptime-safe source
  left,                       \* indices of the ranges the copying loop has yet to visit
  cursor,                     \* first byte not yet copied
  snippets,                   \* the calls of runner_main, in order
  kept                        \* the slices copied to the comptime-safe source

vars == <<file, pc, at, corrections, comptimetype_stmts,
          comptimetype_stmt_indices, comptime_stmts, comptime_dependencies,
          to_be_removed, left, cursor, snippets, kept>>

(* The variables a phase leaves alone together. *)
rewriting == <<corrections, comptimetype_stmts>>
collected == <<comptimetype_stmt_indices, comptime_stmts, comptime_dependencies>>
output == <<to_be_removed, left, snippets, kept>>

Walks == {"correct", "register", "strip"}
Stopped == {"abort", "fatal", "crash"}
Final == Stopped \cup {"done"}
Phases == Walks \cup {"rewrite", "snippets", "safe"} \cup Final

-----------------------------------------------------------------------------
(* Recognising the two keywords.                                           *)

IsComptime(t, n) == HasSym(t, n, "identifier") /\ t[n].name = "_Comptime"

IsComptimeType(t, n) ==
  /\ n # 0
  /\ t[n].sym \in {"identifier", "type_identifier"}
  /\ t[n].name = "_ComptimeType"

IsPlaceholder(t, n) == t[n].sym = "type_identifier" /\ t[n].ph >= 0

(* try_append_error_comptime_type: under an ERROR node the span is found by *)
(* matching parentheses in the text, so it is the invocation as written.    *)
RecoveredSpan(f, t, n) ==
  {[lo |-> v.lo, hi |-> v.hi] :
     v \in {w \in {Invocations[f][i] : i \in DOMAIN Invocations[f]} :
              /\ w.buf = "pp_source" /\ w.lo = t[n].lo
              /\ Parent(t, n) # 0 /\ t[Parent(t, n)].sym = "ERROR"}}

(* The spans correct_tree appends when it visits n: none or one.            *)
SpansAt(f, n) ==
  LET t == Pre[f]
      c == Child0(t, n)
  IN IF \/ /\ t[n].sym \in {"call_expression", "macro_type_specifier"}
           /\ HasSym(t, c, "identifier") /\ IsComptimeType(t, c)
        \/ t[n].sym = "type_descriptor" /\ IsComptimeType(t, c)
     THEN {Extent(t, n)}
     ELSE IF t[n].sym = "identifier" /\ IsComptimeType(t, n)
          THEN RecoveredSpan(f, t, n) ELSE {}

-----------------------------------------------------------------------------
(* What a comptime node depends on, by the roots that hold it.             *)

Function(t, n) == Nearest(t, n, "function_definition")
Declaration(t, n) == Nearest(t, n, "declaration")
Typedef(t, n) == Nearest(t, n, "type_definition")
Call(t, n) == Nearest(t, n, "call_expression")

(* The identifier the asserts on a function definition insist on, else 0.   *)
FunctionName(t, f) ==
  LET d == Child1(t, f)
  IN IF HasSym(t, d, "function_declarator") /\ HasSym(t, Child0(t, d), "identifier")
     THEN Child0(t, d) ELSE 0

VariableName(t, d) ==
  LET i == Child1(t, d)
  IN IF HasSym(t, i, "init_declarator") /\ HasSym(t, Child0(t, i), "identifier")
     THEN Child0(t, i) ELSE 0

(* find_type_definition_identifier: the first child that is an identifier   *)
(* and not a placeholder, 0 when there is none.                             *)
TypedefName(t, d) ==
  LET Named == {c \in (d + 1)..t[d].last :
                  /\ Parent(t, c) = d
                  /\ t[c].sym \in {"identifier", "type_identifier"}
                  /\ t[c].ph < 0}
  IN IF Named = {} THEN 0 ELSE CHOOSE c \in Named : \A e \in Named : c <= e

(* An assert on the shape of the enclosing definition fails.                *)
BadShape(t, n) ==
  IF Function(t, n) # 0 THEN FunctionName(t, Function(t, n)) = 0
  ELSE Declaration(t, n) # 0 /\ VariableName(t, Declaration(t, n)) = 0

(* Faulty variant of MarkedNames: a typedef is forgotten.                  *)
MarkedWithoutTypedefs(t, n) ==
  IF Function(t, n) # 0 THEN {t[FunctionName(t, Function(t, n))].name}
  ELSE IF Declaration(t, n) # 0 THEN {t[VariableName(t, Declaration(t, n))].name}
  ELSE {}

(* The names hashmap_put2 records for a statement found at n.               *)
MarkedNames(t, n) ==
  IF Function(t, n) # 0 THEN {t[FunctionName(t, Function(t, n))].name}
  ELSE IF Declaration(t, n) # 0 THEN {t[VariableName(t, Declaration(t, n))].name}
  ELSE IF Typedef(t, n) # 0 /\ TypedefName(t, Typedef(t, n)) # 0
       THEN {t[TypedefName(t, Typedef(t, n))].name}
  ELSE {}

(* The root the strip pass removes for a use at n; 0 is the null pointer.   *)
StripRoot(t, n) ==
  IF Function(t, n) # 0 THEN Function(t, n)
  ELSE IF Declaration(t, n) # 0 THEN Declaration(t, n)
  ELSE IF Typedef(t, n) # 0 THEN Typedef(t, n)
  ELSE Call(t, n)

-----------------------------------------------------------------------------
Init ==
  /\ file \in Files
  /\ pc = "correct"
  /\ at = 1
  /\ corrections = <<>>
  /\ comptimetype_stmts = <<>>
  /\ comptimetype_stmt_indices = <<>>
  /\ comptime_stmts = <<>>
  /\ comptime_dependencies = {}
  /\ to_be_removed = <<>>
  /\ left = {}
  /\ cursor = 0
  /\ snippets = <<>>
  /\ kept = <<>>

Tree == IF pc = "correct" THEN Pre[file] ELSE Post[file]

(* The loop or walk at hand is over: start the next phase at its first item. *)
Enter(phase) == pc' = phase /\ at' = 1
Advance == pc' = pc /\ at' = at + 1
Stop(how) == pc' = how /\ at' = at

-----------------------------------------------------------------------------
(* correct_tree *)
CorrectNode ==
  /\ pc = "correct" /\ at <= Len(Tree)
  /\ IF SpansAt(file, at) = {} THEN UNCHANGED corrections
     ELSE \E s \in SpansAt(file, at) : corrections' = Append(corrections, s)
  /\ Advance
  /\ UNCHANGED <<file, comptimetype_stmts, collected, output, cursor>>

CorrectDone ==
  /\ pc = "correct" /\ at > Len(Tree)
  /\ Enter("rewrite")
  /\ cursor' = 0
  /\ UNCHANGED <<file, rewriting, collected, output>>

(* Faulty variant of RewriteSpan: a span begins where the one before ended. *)
RewriteSpanAndBefore ==
  /\ pc = "rewrite" /\ at <= Len(corrections)
  /\ LET r == corrections[at]
     IN IF cursor <= r.lo
        THEN /\ comptimetype_stmts' =
                  Append(comptimetype_stmts, [buf |-> "pp_source", lo |-> cursor, hi |-> r.hi])
             /\ comptimetype_stmt_indices' = Append(comptimetype_stmt_indices, -1)
             /\ cursor' = r.hi
             /\ Advance
        ELSE /\ Stop("abort")
             /\ UNCHANGED <<comptimetype_stmts, comptimetype_stmt_indices, cursor>>
  /\ UNCHANGED <<file, corrections, comptime_stmts, comptime_dependencies, output>>

(* The loop of cct_correct_comptimetype_nodes: one placeholder per span, in *)
(* the order the walk met them; a span inside an earlier one is an abort.   *)
RewriteSpan ==
  /\ pc = "rewrite" /\ at <= Len(corrections)
  /\ LET r == corrections[at]
     IN IF cursor <= r.lo
        THEN /\ comptimetype_stmts' =
                  Append(comptimetype_stmts, [buf |-> "pp_source", lo |-> r.lo, hi |-> r.hi])
             /\ comptimetype_stmt_indices' = Append(comptimetype_stmt_indices, -1)
             /\ cursor' = r.hi
             /\ Advance
        ELSE /\ Stop("abort")
             /\ UNCHANGED <<comptimetype_stmts, comptimetype_stmt_indices, cursor>>
  /\ UNCHANGED <<file, corrections, comptime_stmts, comptime_dependencies, output>>

RewriteDone ==
  /\ pc = "rewrite" /\ at > Len(corrections)
  /\ Enter("register")
  /\ UNCHANGED <<file, rewriting, collected, output, cursor>>

-----------------------------------------------------------------------------
(* register_comptime_dependencies, one action per branch of the visit.      *)

AtNode(phase) == pc = phase /\ at <= Len(Tree)

RegisterOther ==
  /\ AtNode("register")
  /\ ~IsComptime(Tree, at)
  /\ ~(Tree[at].sym = "identifier" /\ IsComptimeType(Tree, at))
  /\ ~IsPlaceholder(Tree, at)
  /\ Advance
  /\ UNCHANGED <<file, rewriting, collected, output, cursor>>

(* The asserts of parse_comptime_call_expr2: a call has an argument list of *)
(* more than two bytes.                                                     *)
HasArguments(t, c) ==
  LET a == Child1(t, c)
  IN HasSym(t, a, "argument_list") /\ t[a].hi - t[a].lo > 2

(* Faulty variant of KnownPlaceholder: the last number is not accepted.     *)
KnownBeforeLast(k) ==
  /\ k < Len(comptimetype_stmts) - 1
  /\ comptimetype_stmt_indices[k + 1] = -1

(* The asserts on a placeholder's number, and that it is met once.          *)
KnownPlaceholder(k) ==
  /\ k < Len(comptimetype_stmts)
  /\ k < Len(comptimetype_stmt_indices)
  /\ comptimetype_stmt_indices[k + 1] = -1

(* No enclosing call: both fatal() branches end the process alike.          *)
RegisterFatal ==
  /\ AtNode("register")
  /\ IsComptime(Tree, at) /\ Call(Tree, at) = 0
  /\ Stop("fatal")
  /\ UNCHANGED <<file, rewriting, collected, output, cursor>>

RegisterAbort ==
  /\ AtNode("register")
  /\ \/ /\ IsComptime(Tree, at) /\ Call(Tree, at) # 0
        /\ ~HasArguments(Tree, Call(Tree, at)) \/ BadShape(Tree, at)
     \/ Tree[at].sym = "identifier" /\ IsComptimeType(Tree, at)
     \/ /\ IsPlaceholder(Tree, at)
        /\ ~KnownPlaceholder(Tree[at].ph) \/ BadShape(Tree, at)
  /\ Stop("abort")
  /\ UNCHANGED <<file, rewriting, collected, output, cursor>>

(* _Comptime: the statement is the argument of the nearest call, whatever   *)
(* function that call names; it is identified here by the call's extent.    *)
RegisterCall ==
  /\ AtNode("register")
  /\ IsComptime(Tree, at) /\ Call(Tree, at) # 0
  /\ HasArguments(Tree, Call(Tree, at)) /\ ~BadShape(Tree, at)
  /\ comptime_stmts' =
       Append(comptime_stmts, [buf |-> "processed_source",
                               lo |-> Tree[Call(Tree, at)].lo,
                               hi |-> Tree[Call(Tree, at)].hi])
  /\ comptime_dependencies' = comptime_dependencies \cup MarkedNames(Tree, at)
  /\ Advance
  /\ UNCHANGED <<file, rewriting, comptimetype_stmt_indices, output, cursor>>

(* Faulty variant of RegisterType: the index is taken after the append.    *)
RegisterTypeLate ==
  /\ AtNode("register")
  /\ IsPlaceholder(Tree, at)
  /\ KnownPlaceholder(Tree[at].ph) /\ ~BadShape(Tree, at)
  /\ LET k == Tree[at].ph + 1
     IN /\ comptimetype_stmt_indices' =
             [comptimetype_stmt_indices EXCEPT ![k] = Len(comptime_stmts) + 1]
        /\ comptime_stmts' = Append(comptime_stmts, comptimetype_stmts[k])
  /\ comptime_dependencies' = comptime_dependencies \cup MarkedNames(Tree, at)
  /\ Advance
  /\ UNCHANGED <<file, rewriting, output, cursor>>

(* A placeholder used as a type: its span becomes the next statement.       *)
RegisterType ==
  /\ AtNode("register")
  /\ IsPlaceholder(Tree, at)
  /\ KnownPlaceholder(Tree[at].ph) /\ ~BadShape(Tree, at)
  /\ LET k == Tree[at].ph + 1
     IN /\ comptimetype_stmt_indices' =
             [comptimetype_stmt_indices EXCEPT ![k] = Len(comptime_stmts)]
        /\ comptime_stmts' = Append(comptime_stmts, comptimetype_stmts[k])
  /\ comptime_dependencies' = comptime_dependencies \cup MarkedNames(Tree, at)
  /\ Advance
  /\ UNCHANGED <<file, rewriting, output, cursor>>

RegisterDone ==
  /\ pc = "register" /\ at > Len(Tree)
  /\ Enter("strip")
  /\ UNCHANGED <<file, rewriting, collected, output, cursor>>

-----------------------------------------------------------------------------
(* strip_comptime_dependencies *)

(* Faulty variant of UsesDependency: a name is looked up once.             *)
UsesDependencyFirst(t, n) ==
  /\ t[n].sym \in {"identifier", "type_identifier"} /\ t[n].name \in comptime_dependencies
  /\ \A m \in 1..(n - 1) : t[m].name # t[n].name

UsesDependency(t, n) ==
  t[n].sym \in {"identifier", "type_identifier"} /\ t[n].name \in comptime_dependencies

(* A use outside every function, declaration, typedef and call dereferences *)
(* the null call_expression_root.                                           *)
StripNode ==
  /\ AtNode("strip")
  /\ IF ~UsesDependency(Tree, at)
     THEN Advance /\ UNCHANGED to_be_removed
     ELSE IF StripRoot(Tree, at) # 0
          THEN /\ to_be_removed' = Append(to_be_removed, Extent(Tree, StripRoot(Tree, at)))
               /\ Advance
          ELSE Stop("crash") /\ UNCHANGED to_be_removed
  /\ UNCHANGED <<file, rewriting, collected, left, cursor, snippets, kept>>

StripDone ==
  /\ pc = "strip" /\ at > Len(Tree)
  /\ Enter("snippets")
  /\ UNCHANGED <<file, rewriting, collected, output, cursor>>

-----------------------------------------------------------------------------
(* build_runner_snippets *)

(* Faulty variant of PlaceholderFor: the search begins with the second.    *)
PlaceholderAfterFirst(i) ==
  LET Hits == {k \in DOMAIN comptimetype_stmt_indices :
                 k > 1 /\ comptimetype_stmt_indices[k] = i}
  IN IF Hits = {} THEN -1 ELSE (CHOOSE k \in Hits : \A l \in Hits : k <= l) - 1

(* comptimetype_placeholder_for_stmt: the first placeholder whose statement *)
(* is i, -1 when there is none.                                             *)
PlaceholderFor(i) ==
  LET Hits == {k \in DOMAIN comptimetype_stmt_indices : comptimetype_stmt_indices[k] = i}
  IN IF Hits = {} THEN -1 ELSE (CHOOSE k \in Hits : \A l \in Hits : k <= l) - 1

(* Faulty variant of EmitSnippet: the statements are counted from one.     *)
EmitSnippetBefore ==
  /\ pc = "snippets" /\ at <= Len(comptime_stmts)
  /\ snippets' = Append(snippets, [stmt |-> at - 2, placeholder |-> PlaceholderFor(at - 1)])
  /\ Advance
  /\ UNCHANGED <<file, rewriting, collected, to_be_removed, left, cursor, kept>>

EmitSnippet ==
  /\ pc = "snippets" /\ at <= Len(comptime_stmts)
  /\ snippets' = Append(snippets, [stmt |-> at - 1, placeholder |-> PlaceholderFor(at - 1)])
  /\ Advance
  /\ UNCHANGED <<file, rewriting, collected, to_be_removed, left, cursor, kept>>

(* The snippets are written; build_comptime_safe_source starts.             *)
SnippetsDone ==
  /\ pc = "snippets" /\ at > Len(comptime_stmts)
  /\ Enter("safe")
  /\ left' = DOMAIN to_be_removed
  /\ cursor' = 0
  /\ UNCHANGED <<file, rewriting, collected, to_be_removed, snippets, kept>>

-----------------------------------------------------------------------------
(* build_comptime_safe_source: qsort by compare_slice_start, then one loop. *)
(* The loop is modelled as visiting the ranges in that order; equal ranges  *)
(* are indistinguishable and are visited in the order they were appended.   *)

(* Faulty variant of SortsBefore: the operands are swapped.                *)
SortsAfter(i, j) ==
  LET a == to_be_removed[i]
      b == to_be_removed[j]
  IN \/ a.lo > b.lo
     \/ a.lo = b.lo /\ a.hi > b.hi
     \/ a = b /\ i < j

(* compare_slice_start(to_be_removed[i], to_be_removed[j]) < 0 *)
SortsBefore(i, j) ==
  LET a == to_be_removed[i]
      b == to_be_removed[j]
  IN \/ a.lo < b.lo
     \/ a.lo = b.lo /\ a.hi < b.hi
     \/ a = b /\ i < j

IsNextRange(i) == i \in left /\ \A j \in left \ {i} : SortsBefore(i, j)

(* A range that starts before the cursor is skipped; one that starts at the *)
(* cursor fails the assert; any other is cut out.                           *)
CutRange ==
  /\ pc = "safe" /\ left # {}
  /\ \E i \in left :
       /\ IsNextRange(i)
       /\ LET r == to_be_removed[i]
          IN \/ /\ cursor > r.lo
                /\ left' = left \ {i}
                /\ UNCHANGED <<pc, kept, cursor>>
             \/ /\ cursor = r.lo
                /\ pc' = "abort"
                /\ UNCHANGED <<left, kept, cursor>>
             \/ /\ cursor < r.lo
                /\ kept' = Append(kept, [lo |-> cursor, hi |-> r.lo])
                /\ cursor' = r.hi
                /\ left' = left \ {i}
                /\ UNCHANGED pc
  /\ UNCHANGED <<file, at, rewriting, collected, to_be_removed, snippets>>

(* Faulty variant of CopyTail: the length is that of the unrewritten text. *)
CopyTailOfPre ==
  /\ pc = "safe" /\ left = {}
  /\ kept' = Append(kept, [lo |-> cursor, hi |-> PreLen[file]])
  /\ Enter("done")
  /\ UNCHANGED <<file, rewriting, collected, to_be_removed, left, cursor, snippets>>

CopyTail ==
  /\ pc = "safe" /\ left = {}
  /\ kept' = Append(kept, [lo |-> cursor, hi |-> PostLen[file]])
  /\ Enter("done")
  /\ UNCHANGED <<file, rewriting, collected, to_be_removed, left, cursor, snippets>>

-----------------------------------------------------------------------------
Correct == CorrectNode \/ CorrectDone
Rewrite == RewriteSpan \/ RewriteDone
Register == \/ RegisterOther \/ RegisterFatal \/ RegisterAbort
            \/ RegisterCall \/ RegisterType \/ RegisterDone
Strip == StripNode \/ StripDone
Emit == EmitSnippet \/ SnippetsDone
Cut == CutRange \/ CopyTail

Next == Correct \/ Rewrite \/ Register \/ Strip \/ Emit \/ Cut

Spec == Init /\ [][Next]_vars
-----------------------------------------------------------------------------
(* Properties.                                                             *)

(* The WalkContext keeps its types; a placeholder's statement number and a *)
(* snippet's placeholder never leave the arrays they index.                *)
TypeOK ==
  /\ file \in Files
  /\ pc \in Phases
  /\ at \in Nat \ {0}
  /\ corrections \in Seq(Slice)
  /\ comptimetype_stmts \in Seq(SourceSlice)
  /\ comptimetype_stmt_indices \in Seq({-1} \cup Nat)
  /\ comptime_stmts \in Seq(SourceSlice)
  /\ comptime_dependencies \subseteq STRING
  /\ to_be_removed \in Seq(Slice)
  /\ left \subseteq DOMAIN to_be_removed
  /\ cursor \in Nat
  /\ snippets \in Seq([stmt : Nat, placeholder : {-1} \cup Nat])
  /\ kept \in Seq(Slice)

(* A placeholder that was given a statement was given the statement made   *)
(* from its own span, and no statement serves two placeholders: otherwise  *)
(* the runner would define _COMPTIMETYPE_k with another type's text.       *)
PlaceholdersResolve ==
  /\ Len(comptimetype_stmt_indices) = Len(comptimetype_stmts)
  /\ \A k \in DOMAIN comptimetype_stmt_indices :
       LET s == comptimetype_stmt_indices[k]
       IN s # -1 => /\ s + 1 \in DOMAIN comptime_stmts
                    /\ comptime_stmts[s + 1] = comptimetype_stmts[k]
  /\ \A k, l \in DOMAIN comptimetype_stmt_indices :
       k # l /\ comptimetype_stmt_indices[k] # -1
         => comptimetype_stmt_indices[k] # comptimetype_stmt_indices[l]

(* The linear search that inverts comptimetype_stmt_indices: call number i *)
(* of the runner's main runs statement i, and registers it as a type with  *)
(* exactly the placeholder whose span it evaluates.                        *)
SnippetsInvert ==
  \A i \in DOMAIN snippets :
    /\ snippets[i].stmt = i - 1
    /\ (snippets[i].placeholder >= 0) <=> (comptime_stmts[i].buf = "pp_source")
    /\ snippets[i].placeholder >= 0
         => comptimetype_stmts[snippets[i].placeholder + 1] = comptime_stmts[i]

(* What StatementsFollowText relies on: the n-th node that stands for a     *)
(* directive is the n-th directive of the text, a _Comptime in the call     *)
(* that was written, a placeholder under the number of its span.  It need  *)
(* not be so of a file with a bare _Comptime, which the passes refuse.     *)
Rank(S, n) == Cardinality(S \cap (1..n))
Directives(t) == {n \in DOMAIN t : IsComptime(t, n) \/ IsPlaceholder(t, n)}
Callable(f) == \A n \in DOMAIN Post[f] : IsComptime(Post[f], n) => Call(Post[f], n) # 0
Corrected(f) == {n \in DOMAIN Pre[f] : SpansAt(f, n) # {}}
TreesShowBlocks(f) ==
  LET t == Post[f]
  IN /\ Rank(Directives(t), Len(t)) = Len(Invocations[f])
     /\ \A n \in Directives(t) :
          LET v == Invocations[f][Rank(Directives(t), n)]
          IN \/ /\ IsComptime(t, n) /\ v.buf = "processed_source"
                /\ Call(t, n) # 0 => Extent(t, Call(t, n)) = [lo |-> v.lo, hi |-> v.hi]
             \/ /\ IsPlaceholder(t, n) /\ v.buf = "pp_source"
                /\ \A m \in Corrected(f) :
                     Rank(Corrected(f), m) = t[n].ph + 1
                       => SpansAt(f, m) = {[lo |-> v.lo, hi |-> v.hi]}

(* The n-th _Comptime or _ComptimeType of the text is statement n: the two *)
(* passes, the placeholders and the reparse together keep the order in     *)
(* which the final compile's __COUNTER__ numbers the invocations.          *)
StatementsFollowText ==
  pc = "done" =>
    comptime_stmts = [i \in DOMAIN Invocations[file] |->
                        [buf |-> Invocations[file][i].buf,
                         lo |-> Invocations[file][i].lo,
                         hi |-> Invocations[file][i].hi]]

Gone(n) ==
  \A k \in DOMAIN kept : kept[k].hi <= Tree[n].lo \/ Tree[n].hi <= kept[k].lo
Kept(n) ==
  \E k \in DOMAIN kept : kept[k].lo <= Tree[n].lo /\ Tree[n].hi <= kept[k].hi

(* What the copying loop relies on: two ranges that begin at the same byte  *)
(* are the same range.  In C only a call of a call's result breaks it,     *)
(* where no definition encloses the two: g(f)(f) in an enum's sizeof.      *)
StripRoots(t) ==
  {StripRoot(t, n) :
     n \in {m \in DOMAIN t : t[m].sym \in {"identifier", "type_identifier"}}} \ {0}
RootsBeginApart(t) ==
  \A r, s \in StripRoots(t) : t[r].lo = t[s].lo => Extent(t, r) = Extent(t, s)

(* The text the runner includes names no comptime-dependent definition any *)
(* more: every use was cut together with the definition that holds it.     *)
NoDependentLeft ==
  pc = "done" => \A n \in DOMAIN Tree : UsesDependency(Tree, n) => Gone(n)

(* Every placeholder is the type in a function, a declaration or a typedef  *)
(* that has a name, and no _ComptimeType is left unrewritten as a type.    *)
DirectivesDefine(t) ==
  \A n \in DOMAIN t :
    /\ t[n].ph >= 0 =>
         /\ t[n].sym = "type_identifier"
         /\ \/ Function(t, n) + Declaration(t, n) > 0
            \/ Typedef(t, n) # 0 /\ TypedefName(t, Typedef(t, n)) # 0
    /\ ~(t[n].sym = "type_identifier" /\ t[n].name = "_ComptimeType")

(* ... and holds no placeholder, and no directive inside a definition (at  *)
(* top level the runner's own macro blanks it).                            *)
NoDirectiveLeft ==
  pc = "done" =>
    \A n \in DOMAIN Tree :
      \/ Tree[n].ph >= 0 \/ IsComptimeType(Tree, n)
      \/ IsComptime(Tree, n) /\ Function(Tree, n) + Declaration(Tree, n) > 0
      => Gone(n)

(* Cutting is not greedy: a top-level item that mentions no dependency is  *)
(* in the comptime-safe source whole, whatever was cut around it.          *)
IndependentCodeSurvives ==
  pc = "done" =>
    \A r \in TopLevel(Tree) :
      (\A n \in r..Tree[r].last : ~UsesDependency(Tree, n)) => Kept(r)

(* The slices copied are in order, do not overlap and end with the source. *)
KeptInOrder ==
  /\ \A i \in DOMAIN kept : kept[i].lo <= kept[i].hi /\ kept[i].hi <= PostLen[file]
  /\ \A i \in DOMAIN kept : i > 1 => kept[i - 1].hi < kept[i].lo
  /\ pc = "done" => kept[Len(kept)].hi = PostLen[file]

(* Something is left between two ranges, and before the first.             *)
RootsApart(t) ==
  \A r, s \in StripRoots(t) : t[r].lo # 0 /\ t[s].hi # t[r].lo

(* What the asserts, fatal()s and unchecked pointers ask of the trees: spans *)
(* that follow each other; directives in definitions of the usual shapes, a  *)
(* call its argument list, a span one placeholder; and a name that a        *)
(* directive marks only where there is a root to remove.                   *)
Marked(t) == UNION {MarkedNames(t, n) : n \in Directives(t)}
Passable(f) ==
  LET t == Post[f]
  IN /\ \A m, n \in Corrected(f) :
          m < n => \A r \in SpansAt(f, m), s \in SpansAt(f, n) : r.hi <= s.lo
     /\ \A n \in Directives(t) :
          /\ ~BadShape(t, n)
          /\ IsComptime(t, n) => Call(t, n) # 0 /\ HasArguments(t, Call(t, n))
          /\ IsPlaceholder(t, n) =>
               /\ t[n].ph < Rank(Corrected(f), Len(Pre[f]))
               /\ \A m \in Directives(t) : IsPlaceholder(t, m) /\ t[m].ph = t[n].ph => m = n
     /\ \A n \in DOMAIN t :
          /\ ~(t[n].sym = "identifier" /\ IsComptimeType(t, n))
          /\ t[n].sym \in {"identifier", "type_identifier"} /\ t[n].name \in Marked(t)
               => StripRoot(t, n) # 0

(* None of the asserts, fatal()s and unchecked pointers of the passes stops *)
(* a file whose top-level items are apart, and apart from its beginning.   *)
ItemsApart(t) ==
  \A r \in TopLevel(t) : t[r].lo > 0 /\ \A s \in TopLevel(t) : t[s].hi # t[r].lo
ApartFilesFinish == ItemsApart(Post[file]) => pc \notin {"abort", "fatal", "crash"}

(* The functions and variables with a name, at top level. *)
Defining(t, name) ==
  {r \in TopLevel(t) :
     \/ /\ t[r].sym = "function_definition" /\ FunctionName(t, r) # 0
        /\ t[FunctionName(t, r)].name = name
     \/ /\ t[r].sym = "declaration" /\ VariableName(t, r) # 0
        /\ t[VariableName(t, r)].name = name}

(* What RunnerLinks relies on, as marking is not transitive: what a name    *)
(* stands for has a definition that speaks of no marked name, wherever the *)
(* name stands in nothing that is cut because of a marked name.            *)
MarkedUses(t) ==
  {m \in DOMAIN t : t[m].sym \in {"identifier", "type_identifier"} /\ t[m].name \in Marked(t)}
MarkingReaches(t) ==
  \A n \in DOMAIN t :
    t[n].sym = "identifier" /\ Defining(t, t[n].name) # {} =>
      /\ t[n].lo < t[n].hi
      /\ (\A r \in {StripRoot(t, m) : m \in MarkedUses(t)} \ {0} : ~Within(t, r, n)) =>
           \E d \in Defining(t, t[n].name) : \A m \in MarkedUses(t) : ~Within(t, d, m)

(* What the runner includes is closed under use: a definition that is kept *)
(* only refers to definitions that are kept, so the runner links.          *)
RunnerLinks ==
  pc = "done" =>
    \A n \in DOMAIN Tree :
      Tree[n].sym = "identifier" /\ Kept(n) /\ Defining(Tree, Tree[n].name) # {}
        => \E r \in Defining(Tree, Tree[n].name) : Kept(r)

-----------------------------------------------------------------------------
(* What a message of the source says and some file breaks.                 *)

(* The assert of build_comptime_safe_source, "cursor is ahead of comptime   *)
(* slice", which the code after it is written to live with: it never fails. *)
SafeSourceAssertHolds == ~(pc = "abort" /\ left # {})
=============================================================================
