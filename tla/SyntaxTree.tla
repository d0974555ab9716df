----------------------------- MODULE SyntaxTree -----------------------------
(***************************************************************************)
(* The concrete syntax trees that tree-sitter hands to tree_passes.c.      *)
(*                                                                         *)
(* A tree is the sequence of its named nodes in the order in which the     *)
(* recursive walks of tree_passes.c visit them (a node before its          *)
(* children, children from left to right).  A node is a record             *)
(*                                                                         *)
(*   sym   its grammar symbol; every symbol that no pass tests is "other"  *)
(*   name  the text of an identifier or type_identifier, else ""           *)
(*   last  the position, in the sequence, of the last node of its subtree  *)
(*   lo,hi the bytes [lo, hi) of the source it spans                       *)
(*   ph    k when the text is the placeholder _COMPTIMETYPE_k, else -1     *)
(*                                                                         *)
(* Because a subtree is the interval n .. t[n].last, the ancestors of a    *)
(* node are the nodes whose interval holds it, and no recursion is needed. *)
(***************************************************************************)
EXTENDS Integers, Sequences

Symbols ==
  {"function_definition", "function_declarator", "declaration",
   "init_declarator", "type_definition", "call_expression", "argument_list",
   "macro_type_specifier", "type_descriptor", "identifier", "type_identifier",
   "preproc_def", "ERROR", "other"}

Node == [sym : Symbols, name : STRING, last : Nat, lo : Nat, hi : Nat, ph : Int]

(* A source range: ts_node_range's Slice, as the half-open interval it spans. *)
Slice == [lo : Nat, hi : Nat]
(* Faulty variant of Extent: the terminator is counted in.                 *)
ExtentAndOne(t, n) == [lo |-> t[n].lo, hi |-> t[n].hi + 1]

Extent(t, n) == [lo |-> t[n].lo, hi |-> t[n].hi]

Within(t, a, n) == a <= n /\ n <= t[a].last

Largest(S) == CHOOSE x \in S : \A y \in S : y <= x

(* The nearest node with symbol s that holds n, n itself included; 0 when   *)
(* there is none.  This is what a LocalWalkContext carries down the walk:   *)
(* each level overwrites its copy of the pointer when it meets the symbol.  *)
Nearest(t, n, s) ==
  LET Holders == {a \in 1..n : t[a].sym = s /\ Within(t, a, n)}
  IN IF Holders = {} THEN 0 ELSE Largest(Holders)

Parent(t, n) ==
  LET Holders == {a \in 1..(n - 1) : Within(t, a, n)}
  IN IF Holders = {} THEN 0 ELSE Largest(Holders)

(* ts_node_child(node, 0) and ts_node_child(node, 1); 0 is the null node. *)
Child0(t, n) == IF n < t[n].last THEN n + 1 ELSE 0
Child1(t, n) ==
  LET c == Child0(t, n)
  IN IF c # 0 /\ t[c].last < t[n].last THEN t[c].last + 1 ELSE 0

HasSym(t, n, s) == n # 0 /\ t[n].sym = s

(* What the parser guarantees of a tree over a text of len bytes: subtrees  *)
(* are intervals of nodes, spans lie in the text, and the nodes the strip   *)
(* pass removes have a non-empty span.                                      *)
Removable == {"function_definition", "declaration", "type_definition", "call_expression"}
WellFormed(t, len) ==
  \A n \in DOMAIN t :
    /\ n <= t[n].last /\ t[n].last <= Len(t)
    /\ t[n].lo <= t[n].hi /\ t[n].hi <= len
    /\ t[n].sym \in Removable => t[n].lo < t[n].hi

(* Nodes nest or follow one another, in the numbering and in the text       *)
(* alike: a node in another's subtree spans a part of what that one spans,  *)
(* a node behind another's subtree begins no earlier than that one ends.    *)
SpansNest(t) ==
  \A a, n \in DOMAIN t :
    /\ Within(t, a, n) => /\ t[n].last <= t[a].last
                          /\ t[a].lo <= t[n].lo /\ t[n].hi <= t[a].hi
    /\ t[a].last < n => t[a].hi <= t[n].lo

(* The children of the translation unit: the top-level items of the file. *)
TopLevel(t) == {n \in DOMAIN t : Parent(t, n) = 0}
=============================================================================
