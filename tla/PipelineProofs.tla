-------------------------- MODULE PipelineProofs --------------------------
(***************************************************************************)
(* Theorems about the tree passes and about the whole way of one file, for *)
(* every set of files and every well-formed syntax tree.                   *)
(***************************************************************************)
EXTENDS Pipeline, FiniteSetTheorems, SequenceTheorems, WellFoundedInduction, TLAPS

-----------------------------------------------------------------------------
(* Lemmas about the tree operators.                                        *)

(* A non-empty set of natural numbers has a smallest element. *)
LEMMA SmallestExists ==
  ASSUME NEW S \in SUBSET Nat, S # {}
  PROVE  \E c \in S : \A e \in S : c <= e
<1> DEFINE Less == {ss \in Nat \X Nat : ss[1] < ss[2]}
<1>1. Less = OpToRel(<, Nat)
  BY DEF OpToRel
<1>2. IsWellFoundedOn(Less, Nat)
  BY <1>1, NatLessThanWellFounded
<1>3. PICK d \in S : \A e \in S : ~(<<e, d>> \in Less)
  BY <1>2, WFMin
<1>4. \A e \in S : ~(e < d)
  BY <1>3
<1>5. \A e \in S : e \in Nat /\ d \in Nat
  OBVIOUS
<1>6. \A e \in S : d <= e
  BY <1>4, <1>5
<1> QED  BY <1>6

(* A non-empty set of numbers in 1..n has a largest element. *)
LEMMA LargestIn ==
  ASSUME NEW n \in Nat, NEW S \in SUBSET (1..n), S # {}
  PROVE  Largest(S) \in S /\ \A y \in S : y <= Largest(S)
<1> DEFINE D == {n - x : x \in S}
<1>1. D \in SUBSET Nat /\ D # {}
  <2>1. \A x \in S : n - x \in Nat
    OBVIOUS
  <2>2. D \subseteq Nat
    BY <2>1
  <2>3. PICK x \in S : TRUE
    OBVIOUS
  <2>4. n - x \in D
    BY <2>3
  <2> QED  BY <2>2, <2>4
<1> HIDE DEF D
<1>2. PICK d \in D : \A e \in D : d <= e
  BY <1>1, SmallestExists
<1>3. PICK x \in S : d = n - x
  BY <1>2 DEF D
<1>4. \A y \in S : n - x <= n - y
  BY <1>2, <1>3 DEF D
<1>5. \A y \in S : y <= x
  BY <1>4
<1> QED  BY <1>5 DEF Largest

(* Nearest returns a node with the symbol asked for, or the null node. *)
LEMMA NearestIsNode ==
  ASSUME NEW t \in Seq(Node), NEW n \in DOMAIN t, NEW s
  PROVE  \/ Nearest(t, n, s) = 0
         \/ Nearest(t, n, s) \in DOMAIN t /\ t[Nearest(t, n, s)].sym = s
<1> DEFINE Holders == {a \in 1..n : t[a].sym = s /\ Within(t, a, n)}
<1>1. n \in Nat /\ 1..n \subseteq DOMAIN t
  BY LenProperties
<1>2. CASE Holders = {}
  BY <1>2 DEF Nearest
<1>3. CASE Holders # {}
  <2>1. Largest(Holders) \in Holders
    BY <1>1, <1>3, LargestIn
  <2> QED  BY <1>1, <1>3, <2>1 DEF Nearest
<1> QED  BY <1>2, <1>3

(* The first two children of a node are nodes of the tree, or null. *)
LEMMA ChildIsNode ==
  ASSUME NEW t \in Seq(Node), NEW len, WellFormed(t, len), NEW n \in DOMAIN t
  PROVE  /\ Child0(t, n) \in {0} \cup DOMAIN t
         /\ Child1(t, n) \in {0} \cup DOMAIN t
<1>1. DOMAIN t = 1..Len(t) /\ Len(t) \in Nat
  BY LenProperties
<1>2. \A m \in DOMAIN t : t[m].last \in Nat /\ m <= t[m].last /\ t[m].last <= Len(t)
  <2>1. \A m \in DOMAIN t : t[m] \in Node
    BY <1>1
  <2> QED  BY <2>1 DEF WellFormed, Node
<1>3. Child0(t, n) \in {0} \cup DOMAIN t
  BY <1>1, <1>2 DEF Child0
<1>4. CASE Child0(t, n) = 0
  BY <1>4 DEF Child1
<1>5. CASE Child0(t, n) # 0
  <2>1. Child0(t, n) \in DOMAIN t  BY <1>3, <1>5
  <2> QED  BY <1>1, <1>2, <2>1 DEF Child1
<1> QED  BY <1>3, <1>4, <1>5

-----------------------------------------------------------------------------
(* Lemmas about the operators of the passes.                               *)

(* A definition that passes the shape asserts has a name, and what is put  *)
(* in the hash map is the text of a node.                                  *)
LEMMA MarkedNamesAreText ==
  ASSUME NEW t \in Seq(Node), NEW len, WellFormed(t, len), NEW n \in DOMAIN t,
         ~BadShape(t, n)
  PROVE  MarkedNames(t, n) \subseteq STRING
<1>1. \A m \in DOMAIN t : t[m].name \in STRING
  <2>1. \A m \in DOMAIN t : t[m] \in Node
    BY LenProperties
  <2> QED  BY <2>1 DEF Node
<1>2. ASSUME NEW f \in DOMAIN t
      PROVE  FunctionName(t, f) \in {0} \cup DOMAIN t
  <2>1. Child1(t, f) \in {0} \cup DOMAIN t
    BY <1>2, ChildIsNode
  <2>2. CASE Child1(t, f) = 0
    BY <2>2 DEF FunctionName, HasSym
  <2>3. CASE Child1(t, f) \in DOMAIN t
    <3>1. Child0(t, Child1(t, f)) \in {0} \cup DOMAIN t
      BY <2>3, ChildIsNode
    <3> QED  BY <3>1 DEF FunctionName
  <2> QED  BY <2>1, <2>2, <2>3
<1>3. ASSUME NEW d \in DOMAIN t
      PROVE  VariableName(t, d) \in {0} \cup DOMAIN t
  <2>1. Child1(t, d) \in {0} \cup DOMAIN t
    BY <1>3, ChildIsNode
  <2>2. CASE Child1(t, d) = 0
    BY <2>2 DEF VariableName, HasSym
  <2>3. CASE Child1(t, d) \in DOMAIN t
    <3>1. Child0(t, Child1(t, d)) \in {0} \cup DOMAIN t
      BY <2>3, ChildIsNode
    <3> QED  BY <3>1 DEF VariableName
  <2> QED  BY <2>1, <2>2, <2>3
<1>4. ASSUME NEW d \in DOMAIN t
      PROVE  TypedefName(t, d) \in {0} \cup DOMAIN t
  <2> DEFINE Named == {c \in (d + 1)..t[d].last :
                         /\ Parent(t, c) = d
                         /\ t[c].sym \in {"identifier", "type_identifier"}
                         /\ t[c].ph < 0}
  <2>1. d \in Nat \ {0} /\ t[d].last \in Nat /\ t[d].last <= Len(t) /\ Len(t) \in Nat
        /\ DOMAIN t = 1..Len(t)
    <3> HIDE DEF Named
    <3>1. t[d] \in Node /\ DOMAIN t = 1..Len(t) /\ Len(t) \in Nat
      BY <1>4, LenProperties
    <3>2. t[d].last \in Nat
      BY <3>1 DEF Node
    <3>3. t[d].last <= Len(t)
      BY <1>4 DEF WellFormed
    <3>4. d \in Nat \ {0}
      BY <3>1, <1>4
    <3> QED  BY <3>1, <3>2, <3>3, <3>4
  <2>2. Named \subseteq DOMAIN t /\ Named \in SUBSET Nat
    BY <2>1
  <2>3. CASE Named = {}
    BY <2>3 DEF TypedefName
  <2>4. CASE Named # {}
    <3> HIDE DEF Named
    <3>1. (CHOOSE c \in Named : \A e \in Named : c <= e) \in Named
      BY <2>2, <2>4, SmallestExists
    <3> QED  BY <2>2, <2>4, <3>1 DEF TypedefName, Named
  <2> QED  BY <2>3, <2>4
<1>5. \A s : Nearest(t, n, s) = 0 \/ Nearest(t, n, s) \in DOMAIN t
  BY NearestIsNode
<1>6. CASE Function(t, n) # 0
  <2>1. Function(t, n) \in DOMAIN t
    BY <1>5, <1>6 DEF Function
  <2>2. FunctionName(t, Function(t, n)) \in DOMAIN t
    BY <1>2, <1>6, <2>1 DEF BadShape
  <2> QED  BY <1>1, <1>6, <2>2 DEF MarkedNames
<1>7. CASE Function(t, n) = 0 /\ Declaration(t, n) # 0
  <2>1. Declaration(t, n) \in DOMAIN t
    BY <1>5, <1>7 DEF Declaration
  <2>2. VariableName(t, Declaration(t, n)) \in DOMAIN t
    BY <1>3, <1>7, <2>1 DEF BadShape
  <2> QED  BY <1>1, <1>7, <2>2 DEF MarkedNames
<1>8. CASE Function(t, n) = 0 /\ Declaration(t, n) = 0
  <2>1. Typedef(t, n) = 0 \/ Typedef(t, n) \in DOMAIN t
    BY <1>5 DEF Typedef
  <2> QED  BY <1>1, <1>4, <1>8, <2>1 DEF MarkedNames
<1> QED  BY <1>6, <1>7, <1>8

(* A range put on the list is a non-empty span of the text. *)
LEMMA StripRootIsRemovable ==
  ASSUME NEW t \in Seq(Node), NEW len, WellFormed(t, len), NEW n \in DOMAIN t,
         StripRoot(t, n) # 0
  PROVE  /\ StripRoot(t, n) \in DOMAIN t
         /\ Extent(t, StripRoot(t, n)) \in Slice
         /\ Extent(t, StripRoot(t, n)).lo < Extent(t, StripRoot(t, n)).hi
         /\ Extent(t, StripRoot(t, n)).hi <= len
<1>1. StripRoot(t, n) \in DOMAIN t /\ t[StripRoot(t, n)].sym \in Removable
  BY NearestIsNode DEF StripRoot, Function, Declaration, Typedef, Call, Removable
<1>2. t[StripRoot(t, n)] \in Node
  BY <1>1, LenProperties
<1> QED  BY <1>1, <1>2 DEF WellFormed, Extent, Slice, Node

(* The tree a phase walks is a well-formed tree over the text at hand. *)
LEMMA TreeIsTree ==
  ASSUME file \in Files
  PROVE  /\ Tree \in Seq(Node)
         /\ pc # "correct" => WellFormed(Tree, PostLen[file])
         /\ Pre[file] \in Seq(Node)
         /\ PostLen[file] \in Nat
         /\ at \in Nat \ {0} /\ at <= Len(Tree) => at \in DOMAIN Tree
<1>1. Tree \in Seq(Node) /\ Pre[file] \in Seq(Node) /\ PostLen[file] \in Nat
  BY FilesAssumption DEF Tree
<1>2. pc # "correct" => WellFormed(Tree, PostLen[file])
  BY FilesAssumption DEF Tree
<1>3. DOMAIN Tree = 1..Len(Tree) /\ Len(Tree) \in Nat
  BY <1>1, LenProperties
<1> QED  BY <1>1, <1>2, <1>3

-----------------------------------------------------------------------------
(* The walks keep the context well typed: in particular no walk indexes    *)
(* the placeholder arrays, or a tree, out of range.                        *)
THEOREM TypeCorrect == Spec => []TypeOK
<1>1. Init => TypeOK
  BY DEF Init, TypeOK, Phases, Walks
<1>2. TypeOK /\ [Next]_vars => TypeOK'
  <2> SUFFICES ASSUME TypeOK, [Next]_vars PROVE TypeOK'
    OBVIOUS
  <2> USE DEF Phases, Walks, Final, Stopped
  <2>0. CASE UNCHANGED vars
    BY <2>0 DEF vars, TypeOK
  <2>1. CASE CorrectNode
    <3>1. \A s \in SpansAt(file, at) : s \in Slice
      <4>1. Tree = Pre[file] /\ at \in DOMAIN Tree /\ Tree[at] \in Node
        BY <2>1, TreeIsTree, LenProperties DEF TypeOK, CorrectNode, Tree
      <4>2. Extent(Pre[file], at) \in Slice
        BY <4>1 DEF Extent, Slice, Node
      <4>3. \A s \in RecoveredSpan(file, Pre[file], at) : s \in Slice
        <5>1. Invocations[file] \in Seq(Invocation)
          BY FilesAssumption DEF TypeOK
        <5>2. \A i \in DOMAIN Invocations[file] : Invocations[file][i] \in Invocation
          BY <5>1, LenProperties
        <5> QED  BY <5>2 DEF RecoveredSpan, Invocation, Slice
      <4> QED  BY <4>2, <4>3 DEF SpansAt
    <3>2. corrections' \in Seq(Slice)
      <4>1. CASE SpansAt(file, at) = {}
        BY <2>1, <4>1 DEF CorrectNode, TypeOK
      <4>2. CASE SpansAt(file, at) # {}
        <5>1. PICK s \in SpansAt(file, at) : corrections' = Append(corrections, s)
          BY <2>1, <4>2 DEF CorrectNode
        <5>2. s \in Slice
          BY <3>1
        <5> QED  BY <5>1, <5>2, AppendProperties DEF TypeOK
      <4> QED  BY <4>1, <4>2
    <3>3. UNCHANGED <<file, pc, comptimetype_stmts, collected, output, cursor>>
          /\ at' \in Nat \ {0}
      BY <2>1 DEF CorrectNode, TypeOK, Advance
    <3> QED  BY <3>2, <3>3 DEF TypeOK, collected, output
  <2>2. CASE CorrectDone
    BY <2>2 DEF CorrectDone, TypeOK, Enter, rewriting, collected, output
  <2>3. CASE RewriteSpan
    <3>1. corrections[at] \in Slice
      BY <2>3, LenProperties DEF RewriteSpan, TypeOK
    <3>2. [buf |-> "pp_source", lo |-> corrections[at].lo, hi |-> corrections[at].hi]
            \in SourceSlice
      BY <3>1 DEF Slice, SourceSlice, Buffers
    <3>3. corrections[at].hi \in Nat
      BY <3>1 DEF Slice
    <3>4. /\ comptimetype_stmts' \in Seq(SourceSlice)
          /\ comptimetype_stmt_indices' \in Seq({-1} \cup Nat)
          /\ cursor' \in Nat
      <4>1. Append(comptimetype_stmt_indices, -1) \in Seq({-1} \cup Nat)
        BY AppendProperties DEF TypeOK
      <4>2. Append(comptimetype_stmts, [buf |-> "pp_source", lo |-> corrections[at].lo,
                                        hi |-> corrections[at].hi]) \in Seq(SourceSlice)
        BY <3>2, AppendProperties DEF TypeOK
      <4> QED  BY <2>3, <3>3, <4>1, <4>2 DEF RewriteSpan, TypeOK
    <3>5. /\ UNCHANGED <<file, corrections, comptime_stmts, comptime_dependencies, output>>
          /\ at' \in Nat \ {0} /\ pc' \in Phases
      BY <2>3 DEF RewriteSpan, TypeOK, Advance, Stop
    <3> QED  BY <3>4, <3>5 DEF TypeOK, output
  <2>4. CASE RewriteDone
    BY <2>4 DEF RewriteDone, TypeOK, Enter, rewriting, collected, output
  <2>5. CASE RegisterOther \/ RegisterFatal \/ RegisterAbort
    <3>1. /\ UNCHANGED <<file, rewriting, collected, output, cursor>>
          /\ at' \in Nat \ {0} /\ pc' \in Phases
      BY <2>5 DEF RegisterOther, RegisterFatal, RegisterAbort, TypeOK, Advance, Stop
    <3> QED  BY <3>1 DEF TypeOK, rewriting, collected, output
  <2>6. CASE RegisterCall
    <3>1. at \in DOMAIN Tree /\ Tree \in Seq(Node) /\ WellFormed(Tree, PostLen[file])
      BY <2>6, TreeIsTree DEF TypeOK, RegisterCall, AtNode
    <3>2. MarkedNames(Tree, at) \subseteq STRING
      BY <2>6, <3>1, MarkedNamesAreText DEF RegisterCall
    <3>3. Tree[Call(Tree, at)] \in Node
      BY <2>6, <3>1, NearestIsNode, LenProperties DEF RegisterCall, Call
    <3>4. [buf |-> "processed_source", lo |-> Tree[Call(Tree, at)].lo,
           hi |-> Tree[Call(Tree, at)].hi] \in SourceSlice
      BY <3>3 DEF Node, SourceSlice, Buffers
    <3>5. comptime_stmts' \in Seq(SourceSlice)
      BY <2>6, <3>4, AppendProperties DEF RegisterCall, TypeOK
    <3>6. comptime_dependencies' \subseteq STRING
      BY <2>6, <3>2 DEF RegisterCall, TypeOK
    <3>7. /\ UNCHANGED <<file, pc, rewriting, comptimetype_stmt_indices, output, cursor>>
          /\ at' \in Nat \ {0}
      BY <2>6 DEF RegisterCall, TypeOK, Advance
    <3> QED  BY <3>5, <3>6, <3>7 DEF TypeOK, rewriting, output
  <2>7. CASE RegisterType
    <3>1. at \in DOMAIN Tree /\ Tree \in Seq(Node) /\ WellFormed(Tree, PostLen[file])
      BY <2>7, TreeIsTree DEF TypeOK, RegisterType, AtNode
    <3>2. MarkedNames(Tree, at) \subseteq STRING
      BY <2>7, <3>1, MarkedNamesAreText DEF RegisterType
    <3>3. Tree[at].ph \in Nat
      <4>1. Tree[at] \in Node  BY <3>1, LenProperties
      <4> QED  BY <2>7, <4>1 DEF RegisterType, IsPlaceholder, Node
    <3>4. comptimetype_stmts[Tree[at].ph + 1] \in SourceSlice
      BY <2>7, <3>3, LenProperties DEF RegisterType, KnownPlaceholder, TypeOK
    <3>5. Len(comptime_stmts) \in {-1} \cup Nat
      BY LenProperties DEF TypeOK
    <3>6. Tree[at].ph + 1 \in 1..Len(comptimetype_stmt_indices)
      <4>1. Tree[at].ph < Len(comptimetype_stmt_indices)
        BY <2>7 DEF RegisterType, KnownPlaceholder
      <4>2. Len(comptimetype_stmt_indices) \in Nat
        BY LenProperties DEF TypeOK
      <4> QED  BY <3>3, <4>1, <4>2
    <3>7. comptimetype_stmt_indices' \in Seq({-1} \cup Nat)
      BY <2>7, <3>5, <3>6, ExceptSeq DEF RegisterType, TypeOK
    <3>8. comptime_stmts' \in Seq(SourceSlice)
      BY <2>7, <3>4, AppendProperties DEF RegisterType, TypeOK
    <3>9. comptime_dependencies' \subseteq STRING
      BY <2>7, <3>2 DEF RegisterType, TypeOK
    <3>10. /\ UNCHANGED <<file, pc, corrections, comptimetype_stmts, output, cursor>>
           /\ at' \in Nat \ {0}
      <4>1. UNCHANGED <<file, rewriting, output, cursor>> /\ Advance
        BY <2>7 DEF RegisterType
      <4>2. at' = at + 1 /\ pc' = pc
        BY <4>1 DEF Advance
      <4> QED  BY <4>1, <4>2 DEF TypeOK, rewriting
    <3> QED  BY <3>7, <3>8, <3>9, <3>10 DEF TypeOK, output
  <2>8. CASE RegisterDone
    BY <2>8 DEF RegisterDone, TypeOK, Enter, rewriting, collected, output
  <2>9. CASE StripNode
    <3>1. at \in DOMAIN Tree /\ Tree \in Seq(Node) /\ WellFormed(Tree, PostLen[file])
      BY <2>9, TreeIsTree DEF TypeOK, StripNode, AtNode
    <3>2. StripRoot(Tree, at) # 0 => Extent(Tree, StripRoot(Tree, at)) \in Slice
      BY <3>1, StripRootIsRemovable
    <3>3. to_be_removed' \in Seq(Slice) /\ DOMAIN to_be_removed \subseteq DOMAIN to_be_removed'
      <4>1. CASE UNCHANGED to_be_removed
        BY <4>1 DEF TypeOK
      <4>2. CASE StripRoot(Tree, at) # 0
                 /\ to_be_removed' = Append(to_be_removed, Extent(Tree, StripRoot(Tree, at)))
        BY <3>2, <4>2, AppendProperties, LenProperties DEF TypeOK
      <4> QED  BY <2>9, <4>1, <4>2 DEF StripNode
    <3>4. /\ UNCHANGED <<file, rewriting, collected, left, cursor, snippets, kept>>
          /\ at' \in Nat \ {0} /\ pc' \in Phases
      BY <2>9 DEF StripNode, TypeOK, Advance, Stop
    <3> QED  BY <3>3, <3>4 DEF TypeOK, rewriting, collected
  <2>10. CASE StripDone
    BY <2>10 DEF StripDone, TypeOK, Enter, rewriting, collected, output
  <2>11. CASE EmitSnippet
    <3>1. PlaceholderFor(at - 1) \in {-1} \cup Nat
      <4> DEFINE Hits == {k \in DOMAIN comptimetype_stmt_indices :
                            comptimetype_stmt_indices[k] = at - 1}
      <4>1. Hits \in SUBSET Nat /\ \A k \in Hits : k - 1 \in Nat
        BY LenProperties DEF TypeOK
      <4>2. CASE Hits = {}
        BY <4>2 DEF PlaceholderFor
      <4>3. CASE Hits # {}
        <5> HIDE DEF Hits
        <5>1. (CHOOSE k \in Hits : \A l \in Hits : k <= l) \in Hits
          BY <4>1, <4>3, SmallestExists
        <5> QED  BY <4>1, <4>3, <5>1 DEF PlaceholderFor, Hits
      <4> QED  BY <4>2, <4>3
    <3>2. at - 1 \in Nat
      BY DEF TypeOK
    <3> QED  BY <2>11, <3>1, <3>2 DEF EmitSnippet, TypeOK, Advance, rewriting, collected
  <2>12. CASE SnippetsDone
    BY <2>12 DEF SnippetsDone, TypeOK, Enter, rewriting, collected
  <2>13. CASE CutRange
    <3>1. PICK i \in left :
            \/ UNCHANGED <<left, kept, cursor>> /\ pc' = "abort"
            \/ left' = left \ {i} /\ UNCHANGED <<pc, kept, cursor>>
            \/ /\ left' = left \ {i} /\ UNCHANGED pc
               /\ kept' = Append(kept, [lo |-> cursor, hi |-> to_be_removed[i].lo])
               /\ cursor' = to_be_removed[i].hi
      BY <2>13 DEF CutRange
    <3>2. to_be_removed[i] \in Slice
      BY LenProperties DEF TypeOK
    <3>3. to_be_removed[i].hi \in Nat
          /\ [lo |-> cursor, hi |-> to_be_removed[i].lo] \in Slice
      BY <3>2 DEF TypeOK, Slice
    <3>4. UNCHANGED <<file, at, rewriting, collected, to_be_removed, snippets>>
      BY <2>13 DEF CutRange
    <3>5. kept' \in Seq(Slice) /\ cursor' \in Nat /\ pc' \in Phases /\ left' \subseteq left
      <4>1. Append(kept, [lo |-> cursor, hi |-> to_be_removed[i].lo]) \in Seq(Slice)
        BY <3>3, AppendProperties DEF TypeOK
      <4>2. /\ kept' \in {kept, Append(kept, [lo |-> cursor, hi |-> to_be_removed[i].lo])}
            /\ cursor' \in {cursor, to_be_removed[i].hi}
            /\ pc' \in {pc, "abort"} /\ left' \subseteq left
        BY <3>1
      <4> QED  BY <3>3, <4>1, <4>2 DEF TypeOK
    <3> QED  BY <3>4, <3>5 DEF TypeOK, rewriting, collected
  <2>14. CASE CopyTail
    <3>1. [lo |-> cursor, hi |-> PostLen[file]] \in Slice
      BY TreeIsTree DEF TypeOK, Slice
    <3> QED  BY <2>14, <3>1 DEF CopyTail, TypeOK, Enter, rewriting, collected
  <2> QED  BY <2>0, <2>1, <2>2, <2>3, <2>4, <2>5, <2>6, <2>7, <2>8, <2>9, <2>10,
              <2>11, <2>12, <2>13, <2>14
           DEF Next, Correct, Rewrite, Register, Strip, Emit, Cut
<1> QED  BY <1>1, <1>2, PTL DEF Spec

-----------------------------------------------------------------------------
(* A placeholder is bound to the statement made from its own span, and no  *)
(* statement to two placeholders.  Inductive as it stands: a statement is   *)
(* numbered by the length of the list it is appended to, which no earlier   *)
(* binding can have reached.                                               *)
THEOREM PlaceholdersCorrect == Spec => []PlaceholdersResolve
<1>1. Init => PlaceholdersResolve
  BY DEF Init, PlaceholdersResolve
<1>2. TypeOK /\ PlaceholdersResolve /\ [Next]_vars => PlaceholdersResolve'
  <2> SUFFICES ASSUME TypeOK, PlaceholdersResolve, [Next]_vars
               PROVE  PlaceholdersResolve'
    OBVIOUS
  <2> DEFINE bound == comptimetype_stmt_indices
  <2>a. /\ comptimetype_stmts \in Seq(SourceSlice)
        /\ bound \in Seq({-1} \cup Nat)
        /\ comptime_stmts \in Seq(SourceSlice)
    BY DEF TypeOK
  <2>b. /\ Len(bound) = Len(comptimetype_stmts)
        /\ \A k \in DOMAIN bound :
             bound[k] # -1 => /\ bound[k] + 1 \in DOMAIN comptime_stmts
                              /\ comptime_stmts[bound[k] + 1] = comptimetype_stmts[k]
        /\ \A k, l \in DOMAIN bound : k # l /\ bound[k] # -1 => bound[k] # bound[l]
    BY DEF PlaceholdersResolve
  <2>0. CASE UNCHANGED <<comptimetype_stmts, comptimetype_stmt_indices, comptime_stmts>>
    BY <2>0 DEF PlaceholdersResolve
  <2>1. CASE RewriteSpan
    <3>1. CASE cursor <= corrections[at].lo
      <4> DEFINE span == [buf |-> "pp_source", lo |-> corrections[at].lo,
                          hi |-> corrections[at].hi]
      <4>1. /\ comptimetype_stmts' = Append(comptimetype_stmts, span)
            /\ bound' = Append(bound, -1)
            /\ comptime_stmts' = comptime_stmts
        BY <2>1, <3>1 DEF RewriteSpan
      <4> HIDE DEF span
      <4>2. /\ Len(comptimetype_stmts') = Len(comptimetype_stmts) + 1
            /\ \A k \in DOMAIN comptimetype_stmts :
                 comptimetype_stmts'[k] = comptimetype_stmts[k]
        BY <2>a, <4>1, LenProperties
      <4>3. /\ Len(bound') = Len(bound) + 1
            /\ DOMAIN bound' = DOMAIN bound \cup {Len(bound) + 1}
            /\ \A k \in DOMAIN bound : bound'[k] = bound[k]
            /\ bound'[Len(bound) + 1] = -1
        BY <2>a, <4>1, LenProperties
      <4>4. DOMAIN bound = DOMAIN comptimetype_stmts
        BY <2>a, <2>b, LenProperties
      <4> HIDE DEF bound
      <4>5. \A k \in DOMAIN bound' : bound'[k] # -1 => k \in DOMAIN bound
        BY <4>3
      <4>6. \A k \in DOMAIN bound' :
              bound'[k] # -1 =>
                /\ bound'[k] + 1 \in DOMAIN comptime_stmts'
                /\ comptime_stmts'[bound'[k] + 1] = comptimetype_stmts'[k]
        BY <2>b, <4>1, <4>2, <4>3, <4>4, <4>5
      <4>7. \A k, l \in DOMAIN bound' : k # l /\ bound'[k] # -1 => bound'[k] # bound'[l]
        BY <2>b, <4>3
      <4>8. Len(bound') = Len(comptimetype_stmts')
        BY <2>b, <4>2, <4>3
      <4> QED  BY <4>6, <4>7, <4>8 DEF PlaceholdersResolve, bound
    <3>2. CASE ~(cursor <= corrections[at].lo)
      BY <2>0, <2>1, <3>2 DEF RewriteSpan
    <3> QED  BY <3>1, <3>2
  <2>2. CASE RegisterCall
    <3> DEFINE stmt == [buf |-> "processed_source", lo |-> Tree[Call(Tree, at)].lo,
                        hi |-> Tree[Call(Tree, at)].hi]
    <3>1. /\ comptime_stmts' = Append(comptime_stmts, stmt)
          /\ UNCHANGED <<comptimetype_stmts, comptimetype_stmt_indices>>
      BY <2>2 DEF RegisterCall, rewriting
    <3> HIDE DEF stmt
    <3>2. \A s \in DOMAIN comptime_stmts :
            s \in DOMAIN comptime_stmts' /\ comptime_stmts'[s] = comptime_stmts[s]
      BY <2>a, <3>1, LenProperties
    <3> QED  BY <2>b, <3>1, <3>2 DEF PlaceholdersResolve
  <2>3. CASE RegisterType
    <3> DEFINE p == Tree[at].ph + 1
               new == Len(comptime_stmts)
    <3>1. /\ bound' = [bound EXCEPT ![p] = new]
          /\ comptime_stmts' = Append(comptime_stmts, comptimetype_stmts[p])
          /\ UNCHANGED comptimetype_stmts
      BY <2>3 DEF RegisterType, rewriting
    <3>2. new \in Nat /\ DOMAIN comptime_stmts = 1..new
      BY <2>a, LenProperties
    <3> HIDE DEF p, new
    <3>3. /\ \A s \in DOMAIN comptime_stmts :
               s \in DOMAIN comptime_stmts' /\ comptime_stmts'[s] = comptime_stmts[s]
          /\ new + 1 \in DOMAIN comptime_stmts'
          /\ comptime_stmts'[new + 1] = comptimetype_stmts[p]
      BY <2>a, <3>1, <3>2, LenProperties DEF new
    <3>4. /\ DOMAIN bound' = DOMAIN bound /\ Len(bound') = Len(bound)
          /\ \A k \in DOMAIN bound : bound'[k] = IF k = p THEN new ELSE bound[k]
      BY <2>a, <3>1, LenProperties
    <3>5. \A k \in DOMAIN bound : bound[k] # new
      <4>1. \A k \in DOMAIN bound : bound[k] # -1 => bound[k] + 1 \in 1..new
        BY <2>b, <3>2
      <4>2. \A k \in DOMAIN bound : bound[k] \in {-1} \cup Nat
        BY <2>a, LenProperties
      <4> QED  BY <3>2, <4>1, <4>2
    <3> HIDE DEF bound
    <3>6. \A k \in DOMAIN bound' :
            bound'[k] # -1 => /\ bound'[k] + 1 \in DOMAIN comptime_stmts'
                              /\ comptime_stmts'[bound'[k] + 1] = comptimetype_stmts'[k]
      BY <2>b, <3>1, <3>3, <3>4
    <3>7. \A k, l \in DOMAIN bound' : k # l /\ bound'[k] # -1 => bound'[k] # bound'[l]
      BY <2>b, <3>4, <3>5
    <3> QED  BY <2>b, <3>1, <3>4, <3>6, <3>7 DEF PlaceholdersResolve, bound
  <2> QED  BY <2>0, <2>1, <2>2, <2>3
           DEF Next, Correct, Rewrite, Register, Strip, Emit, Cut, vars,
               CorrectNode, CorrectDone, RewriteDone, RegisterOther, RegisterFatal,
               RegisterAbort, RegisterDone, StripNode, StripDone, EmitSnippet,
               SnippetsDone, CutRange, CopyTail, rewriting, collected
<1> QED  BY <1>1, <1>2, TypeCorrect, PTL DEF Spec

-----------------------------------------------------------------------------
(* The linear search of build_runner_snippets inverts                      *)
(* comptimetype_stmt_indices.                                              *)

BeforeSnippets == {"correct", "rewrite", "register", "strip"}

(* What makes SnippetsInvert inductive: a statement that came from a        *)
(* _ComptimeType span is some placeholder's statement, and the snippets are *)
(* written after the last statement was collected.                          *)
SnippetsInductive ==
  /\ \A k \in DOMAIN comptimetype_stmts : comptimetype_stmts[k].buf = "pp_source"
  /\ \A i \in DOMAIN comptime_stmts :
       comptime_stmts[i].buf = "pp_source" =>
         \E k \in DOMAIN comptimetype_stmt_indices : comptimetype_stmt_indices[k] = i - 1
  /\ pc \in BeforeSnippets => snippets = <<>>
  /\ pc = "snippets" => Len(snippets) = at - 1 /\ Len(snippets) <= Len(comptime_stmts)
  /\ pc \in {"safe", "done"} => Len(snippets) = Len(comptime_stmts)
  /\ SnippetsInvert

LEMMA SnippetsInvariant == Spec => []SnippetsInductive
<1>1. Init => SnippetsInductive
  BY DEF Init, SnippetsInductive, SnippetsInvert, BeforeSnippets
<1>2. TypeOK /\ PlaceholdersResolve /\ SnippetsInductive /\ [Next]_vars
        => SnippetsInductive'
  <2> SUFFICES ASSUME TypeOK, PlaceholdersResolve, SnippetsInductive, [Next]_vars
               PROVE  SnippetsInductive'
    OBVIOUS
  <2>a. /\ comptimetype_stmts \in Seq(SourceSlice)
        /\ comptimetype_stmt_indices \in Seq({-1} \cup Nat)
        /\ comptime_stmts \in Seq(SourceSlice)
        /\ snippets \in Seq([stmt : Nat, placeholder : {-1} \cup Nat])
        /\ at \in Nat \ {0}
    BY DEF TypeOK
  <2>0. CASE UNCHANGED <<comptimetype_stmts, collected, snippets>>
             /\ (pc' \in BeforeSnippets => pc \in BeforeSnippets)
             /\ (pc' = "snippets" => (pc = "snippets" /\ at' = at) \/ (pc = "strip" /\ at' = 1))
             /\ \/ pc' \notin {"safe", "done"} \/ pc \in {"safe", "done"}
                \/ SnippetsDone
    <3>1. SnippetsInvert'
      BY <2>0 DEF SnippetsInductive, SnippetsInvert, collected
    <3>2. pc' = "snippets" =>
            Len(snippets') = at' - 1 /\ Len(snippets') <= Len(comptime_stmts')
      <4>1. CASE pc = "snippets" /\ at' = at
        BY <2>0, <4>1 DEF SnippetsInductive, collected
      <4>2. CASE pc = "strip" /\ at' = 1
        BY <2>0, <2>a, <4>2, LenProperties DEF SnippetsInductive, BeforeSnippets, collected
      <4> QED  BY <2>0, <4>1, <4>2
    <3>3. pc' \in {"safe", "done"} => Len(snippets') = Len(comptime_stmts')
      <4>1. UNCHANGED <<comptime_stmts, snippets>>
        BY <2>0 DEF collected
      <4>2. CASE SnippetsDone
        <5>1. pc = "snippets" /\ at > Len(comptime_stmts)
          BY <4>2 DEF SnippetsDone
        <5>2. Len(snippets) = at - 1 /\ Len(snippets) <= Len(comptime_stmts)
          BY <5>1 DEF SnippetsInductive
        <5> QED  BY <2>a, <4>1, <5>1, <5>2, LenProperties
      <4>3. CASE pc \in {"safe", "done"}
        BY <4>1, <4>3 DEF SnippetsInductive
      <4> QED  BY <2>0, <4>2, <4>3
    <3> QED  BY <2>0, <3>1, <3>2, <3>3 DEF SnippetsInductive, collected
  <2>1. CASE RewriteSpan
    <3>1. pc \in BeforeSnippets /\ pc' \in {"rewrite", "abort"}
          /\ UNCHANGED <<comptime_stmts, snippets>>
      BY <2>1 DEF RewriteSpan, BeforeSnippets, Advance, Stop, output
    <3>2. snippets' = <<>>
      BY <3>1 DEF SnippetsInductive
    <3>3. CASE cursor <= corrections[at].lo
      <4> DEFINE span == [buf |-> "pp_source", lo |-> corrections[at].lo,
                          hi |-> corrections[at].hi]
      <4>1. /\ comptimetype_stmts' = Append(comptimetype_stmts, span)
            /\ comptimetype_stmt_indices' = Append(comptimetype_stmt_indices, -1)
            /\ span.buf = "pp_source"
        BY <2>1, <3>3 DEF RewriteSpan
      <4> HIDE DEF span
      <4>2. \A k \in DOMAIN comptimetype_stmts' : comptimetype_stmts'[k].buf = "pp_source"
        BY <2>a, <4>1, LenProperties DEF SnippetsInductive
      <4>3. \A k \in DOMAIN comptimetype_stmt_indices :
              /\ k \in DOMAIN comptimetype_stmt_indices'
              /\ comptimetype_stmt_indices'[k] = comptimetype_stmt_indices[k]
        BY <2>a, <4>1, LenProperties
      <4> QED  BY <3>1, <3>2, <4>2, <4>3 DEF SnippetsInductive, SnippetsInvert
    <3>4. CASE ~(cursor <= corrections[at].lo)
      <4>1. UNCHANGED <<comptimetype_stmts, comptimetype_stmt_indices>>
        BY <2>1, <3>4 DEF RewriteSpan
      <4> QED  BY <3>1, <3>2, <4>1 DEF SnippetsInductive, SnippetsInvert
    <3> QED  BY <3>3, <3>4
  <2>2. CASE RegisterCall
    <3> DEFINE stmt == [buf |-> "processed_source", lo |-> Tree[Call(Tree, at)].lo,
                        hi |-> Tree[Call(Tree, at)].hi]
    <3>1. /\ comptime_stmts' = Append(comptime_stmts, stmt) /\ stmt.buf # "pp_source"
          /\ UNCHANGED <<comptimetype_stmts, comptimetype_stmt_indices, snippets>>
          /\ pc = "register" /\ pc' = "register"
      BY <2>2 DEF RegisterCall, AtNode, Advance, rewriting, output
    <3> HIDE DEF stmt
    <3>2. snippets' = <<>>
      BY <3>1 DEF SnippetsInductive, BeforeSnippets
    <3>3. \A i \in DOMAIN comptime_stmts' :
            comptime_stmts'[i].buf = "pp_source" =>
              i \in DOMAIN comptime_stmts /\ comptime_stmts[i].buf = "pp_source"
      BY <2>a, <3>1, LenProperties
    <3> QED  BY <3>1, <3>2, <3>3 DEF SnippetsInductive, SnippetsInvert
  <2>3. CASE RegisterType
    <3> DEFINE p == Tree[at].ph + 1
    <3>1. /\ comptimetype_stmt_indices' =
               [comptimetype_stmt_indices EXCEPT ![p] = Len(comptime_stmts)]
          /\ comptime_stmts' = Append(comptime_stmts, comptimetype_stmts[p])
          /\ UNCHANGED <<comptimetype_stmts, snippets>>
          /\ pc = "register" /\ pc' = "register"
          /\ KnownPlaceholder(Tree[at].ph)
      BY <2>3 DEF RegisterType, AtNode, Advance, rewriting, output
    <3>2. p \in DOMAIN comptimetype_stmt_indices /\ comptimetype_stmt_indices[p] = -1
      <4>1. at \in DOMAIN Tree /\ Tree \in Seq(Node)
        BY <2>3, TreeIsTree DEF TypeOK, RegisterType, AtNode
      <4>2. Tree[at].ph \in Nat
        <5>1. Tree[at] \in Node  BY <4>1, LenProperties
        <5> QED  BY <2>3, <5>1 DEF RegisterType, IsPlaceholder, Node
      <4>3. Tree[at].ph < Len(comptimetype_stmt_indices)
            /\ comptimetype_stmt_indices[p] = -1
        BY <3>1 DEF KnownPlaceholder
      <4>4. Len(comptimetype_stmt_indices) \in Nat
            /\ DOMAIN comptimetype_stmt_indices = 1..Len(comptimetype_stmt_indices)
        BY <2>a, LenProperties
      <4> QED  BY <4>2, <4>3, <4>4
    <3> HIDE DEF p
    <3>3. snippets' = <<>>
      BY <3>1 DEF SnippetsInductive, BeforeSnippets
    <3>4. /\ DOMAIN comptimetype_stmt_indices' = DOMAIN comptimetype_stmt_indices
          /\ comptimetype_stmt_indices'[p] = Len(comptime_stmts)
          /\ \A k \in DOMAIN comptimetype_stmt_indices :
               k # p => comptimetype_stmt_indices'[k] = comptimetype_stmt_indices[k]
      BY <3>1, <3>2
    <3>5. /\ Len(comptime_stmts) \in Nat
          /\ DOMAIN comptime_stmts = 1..Len(comptime_stmts)
          /\ DOMAIN comptime_stmts' = 1..(Len(comptime_stmts) + 1)
          /\ \A i \in DOMAIN comptime_stmts : comptime_stmts'[i] = comptime_stmts[i]
      BY <2>a, <3>1, LenProperties
    <3>6. ASSUME NEW i \in DOMAIN comptime_stmts', comptime_stmts'[i].buf = "pp_source"
          PROVE  \E k \in DOMAIN comptimetype_stmt_indices' :
                   comptimetype_stmt_indices'[k] = i - 1
      <4>1. CASE i = Len(comptime_stmts) + 1
        BY <3>2, <3>4, <3>5, <4>1
      <4>2. CASE i # Len(comptime_stmts) + 1
        <5>1. i \in DOMAIN comptime_stmts /\ comptime_stmts[i].buf = "pp_source"
          BY <3>5, <3>6, <4>2
        <5>2. PICK k \in DOMAIN comptimetype_stmt_indices :
                comptimetype_stmt_indices[k] = i - 1
          BY <5>1 DEF SnippetsInductive
        <5>3. k # p
          BY <3>2, <3>5, <5>1, <5>2
        <5> QED  BY <3>4, <5>2, <5>3
      <4> QED  BY <4>1, <4>2
    <3> QED  BY <3>1, <3>3, <3>6 DEF SnippetsInductive, SnippetsInvert
  <2>4. CASE EmitSnippet
    <3> DEFINE p == PlaceholderFor(at - 1)
               call == [stmt |-> at - 1, placeholder |-> p]
    <3>1. /\ snippets' = Append(snippets, call)
          /\ pc = "snippets" /\ pc' = "snippets" /\ at' = at + 1
          /\ UNCHANGED <<comptimetype_stmts, comptimetype_stmt_indices, comptime_stmts>>
          /\ at <= Len(comptime_stmts)
      BY <2>4 DEF EmitSnippet, Advance, rewriting, collected
    <3>2. Len(snippets) = at - 1
      BY <3>1 DEF SnippetsInductive
    <3>3. at \in DOMAIN comptime_stmts
      BY <2>a, <3>1, LenProperties
    <3>4. /\ p >= 0 <=> comptime_stmts[at].buf = "pp_source"
          /\ p >= 0 => comptimetype_stmts[p + 1] = comptime_stmts[at]
      <4> DEFINE Hits == {k \in DOMAIN comptimetype_stmt_indices :
                            comptimetype_stmt_indices[k] = at - 1}
      <4>1. Hits \in SUBSET Nat /\ 0 \notin Hits
        BY <2>a, LenProperties
      <4>2. CASE Hits = {}
        <5>1. p = -1
          BY <4>2 DEF PlaceholderFor
        <5>2. comptime_stmts[at].buf # "pp_source"
          BY <3>3, <4>2 DEF SnippetsInductive
        <5> QED  BY <5>1, <5>2
      <4>3. CASE Hits # {}
        <5> DEFINE first == CHOOSE k \in Hits : \A l \in Hits : k <= l
        <5>1. p = first - 1
          BY <4>3 DEF PlaceholderFor
        <5> HIDE DEF Hits, p
        <5>2. first \in Hits
          BY <4>1, <4>3, SmallestExists
        <5>3. first \in Nat /\ first # 0
          BY <4>1, <5>2
        <5> HIDE DEF first
        <5>4. first \in DOMAIN comptimetype_stmt_indices
              /\ comptimetype_stmt_indices[first] = at - 1
          BY <5>2 DEF Hits
        <5>5. comptime_stmts[at] = comptimetype_stmts[first]
          BY <2>a, <5>4 DEF PlaceholdersResolve
        <5>6. first \in DOMAIN comptimetype_stmts
          BY <2>a, <5>4, LenProperties DEF PlaceholdersResolve
        <5>7. comptimetype_stmts[first].buf = "pp_source"
          BY <5>6 DEF SnippetsInductive
        <5> QED  BY <5>1, <5>3, <5>5, <5>7
      <4> QED  BY <4>2, <4>3
    <3> HIDE DEF p
    <3>5. /\ Len(snippets') = at
          /\ DOMAIN snippets' = DOMAIN snippets \cup {at}
          /\ \A i \in DOMAIN snippets : snippets'[i] = snippets[i]
          /\ snippets'[at] = call
      BY <2>a, <3>1, <3>2, LenProperties
    <3>6. SnippetsInvert'
      BY <3>1, <3>4, <3>5 DEF SnippetsInductive, SnippetsInvert
    <3> QED  BY <2>a, <3>1, <3>5, <3>6 DEF SnippetsInductive, BeforeSnippets
  <2> HIDE DEF BeforeSnippets
  <2>5. CASE \/ CorrectNode \/ CorrectDone \/ RewriteDone \/ RegisterOther
             \/ RegisterFatal \/ RegisterAbort \/ RegisterDone \/ StripNode
             \/ StripDone \/ SnippetsDone \/ CutRange \/ CopyTail \/ UNCHANGED vars
    <3>1. UNCHANGED <<comptimetype_stmts, collected, snippets>>
      BY <2>5 DEF CorrectNode, CorrectDone, RewriteDone, RegisterOther, RegisterFatal,
                  RegisterAbort, RegisterDone, StripNode, StripDone, SnippetsDone,
                  CutRange, CopyTail, vars, rewriting, collected, output
    <3>2. /\ pc' \in BeforeSnippets => pc \in BeforeSnippets
          /\ pc' = "snippets" => (pc = "snippets" /\ at' = at) \/ (pc = "strip" /\ at' = 1)
          /\ pc' \notin {"safe", "done"} \/ pc \in {"safe", "done"} \/ SnippetsDone
      <4>1. CASE CorrectNode \/ CorrectDone \/ RewriteDone
        BY <4>1 DEF CorrectNode, CorrectDone, RewriteDone, Advance, Enter, BeforeSnippets
      <4>2. CASE RegisterOther \/ RegisterFatal \/ RegisterAbort \/ RegisterDone
        BY <4>2 DEF RegisterOther, RegisterFatal, RegisterAbort, RegisterDone,
                    AtNode, Advance, Enter, Stop, BeforeSnippets
      <4>3. CASE StripNode \/ StripDone
        BY <4>3 DEF StripNode, StripDone, AtNode, Advance, Enter, Stop, BeforeSnippets
      <4>4. CASE SnippetsDone \/ CopyTail
        BY <4>4 DEF SnippetsDone, CopyTail, Enter, BeforeSnippets
      <4>5. CASE CutRange
        <5>1. pc = "safe"
          BY <4>5 DEF CutRange
        <5>2. pc' = pc \/ pc' = "abort"
          BY <4>5, Zenon DEF CutRange
        <5> QED  BY <5>1, <5>2 DEF BeforeSnippets
      <4>6. CASE UNCHANGED vars
        BY <4>6 DEF vars
      <4> QED  BY <2>5, <4>1, <4>2, <4>3, <4>4, <4>5, <4>6
    <3> QED  BY <2>0, <3>1, <3>2
  <2> QED  BY <2>1, <2>2, <2>3, <2>4, <2>5
           DEF Next, Correct, Rewrite, Register, Strip, Emit, Cut
<1> QED  BY <1>1, <1>2, TypeCorrect, PlaceholdersCorrect, PTL DEF Spec

(* One snippet per statement, in order, a type's under its own placeholder. *)
THEOREM SnippetsCorrect == Spec => []SnippetsInvert
<1>1. SnippetsInductive => SnippetsInvert
  BY DEF SnippetsInductive
<1> QED  BY <1>1, SnippetsInvariant, PTL

-----------------------------------------------------------------------------
(* The copying loop of build_comptime_safe_source.                         *)

(* What makes KeptInOrder inductive: every range is a non-empty part of the *)
(* source, so the cursor stays in the source and, after a cut, strictly     *)
(* ahead of all that was copied.                                           *)
CopyInductive ==
  /\ \A i \in DOMAIN to_be_removed :
       /\ to_be_removed[i].lo < to_be_removed[i].hi
       /\ to_be_removed[i].hi <= PostLen[file]
  /\ pc \in BeforeSnippets \cup {"snippets"} => kept = <<>>
  /\ pc = "safe" => /\ cursor <= PostLen[file]
                    /\ kept # <<>> => kept[Len(kept)].hi < cursor
  /\ KeptInOrder

(* No step leaves the file at hand. *)
LEMMA FileStays ==
  ASSUME [Next]_vars
  PROVE  file' = file
BY Zenon DEF Next, Correct, Rewrite, Register, Strip, Emit, Cut, vars,
       CorrectNode, CorrectDone, RewriteSpan, RewriteDone, RegisterOther,
       RegisterFatal, RegisterAbort, RegisterCall, RegisterType, RegisterDone,
       StripNode, StripDone, EmitSnippet, SnippetsDone, CutRange, CopyTail

LEMMA CopyInvariant == Spec => []CopyInductive
<1>1. Init => CopyInductive
  BY DEF Init, CopyInductive, KeptInOrder, BeforeSnippets
<1>2. TypeOK /\ CopyInductive /\ [Next]_vars => CopyInductive'
  <2> SUFFICES ASSUME TypeOK, CopyInductive, [Next]_vars
               PROVE  CopyInductive'
    OBVIOUS
  <2> DEFINE len == PostLen[file]
  <2>a. /\ kept \in Seq(Slice) /\ to_be_removed \in Seq(Slice)
        /\ cursor \in Nat /\ len \in Nat /\ file' = file
    <3> QED  BY FileStays, FilesAssumption DEF TypeOK
  <2>0. CASE /\ UNCHANGED <<to_be_removed, kept>>
             /\ pc \notin {"safe", "done"} /\ pc' \notin {"safe", "done"}
             /\ pc' \in BeforeSnippets \cup {"snippets"} => pc \in BeforeSnippets \cup {"snippets"}
    BY <2>a, <2>0 DEF CopyInductive, KeptInOrder
  <2>1. CASE StripNode
    <3>1. at \in DOMAIN Tree /\ Tree \in Seq(Node) /\ WellFormed(Tree, len)
          /\ pc = "strip"
      BY <2>1, TreeIsTree DEF TypeOK, StripNode, AtNode
    <3>2. kept' = kept /\ pc' \in {"strip", "crash"}
      BY <2>1, <3>1 DEF StripNode, Advance, Stop
    <3> DEFINE root == StripRoot(Tree, at)
               r == Extent(Tree, root)
    <3>3. CASE UNCHANGED to_be_removed
      BY <2>0, <3>1, <3>2, <3>3 DEF BeforeSnippets
    <3>4. CASE root # 0 /\ to_be_removed' = Append(to_be_removed, r)
      <4>1. r \in Slice /\ r.lo < r.hi /\ r.hi <= len
        BY <3>1, <3>4, StripRootIsRemovable
      <4> HIDE DEF root, r
      <4>2. /\ DOMAIN to_be_removed' = DOMAIN to_be_removed \cup {Len(to_be_removed) + 1}
            /\ \A i \in DOMAIN to_be_removed : to_be_removed'[i] = to_be_removed[i]
            /\ to_be_removed'[Len(to_be_removed) + 1] = r
        BY <2>a, <3>4, LenProperties
      <4>3. \A i \in DOMAIN to_be_removed' :
              /\ to_be_removed'[i].lo < to_be_removed'[i].hi
              /\ to_be_removed'[i].hi <= len
        BY <4>1, <4>2 DEF CopyInductive
      <4>4. kept' = <<>>
        BY <3>1, <3>2 DEF CopyInductive, BeforeSnippets
      <4> QED  BY <2>a, <3>2, <4>3, <4>4 DEF CopyInductive, KeptInOrder
    <3> QED  BY <2>1, <3>3, <3>4 DEF StripNode
  <2>2. CASE SnippetsDone
    <3>1. /\ UNCHANGED <<to_be_removed, kept>> /\ cursor' = 0
          /\ pc = "snippets" /\ pc' = "safe"
      BY <2>2 DEF SnippetsDone, Enter
    <3>2. kept' = <<>>
      BY <3>1 DEF CopyInductive
    <3> QED  BY <2>a, <3>1, <3>2 DEF CopyInductive, KeptInOrder, BeforeSnippets
  <2>3. CASE CutRange
    <3>1. PICK i \in left :
            LET r == to_be_removed[i]
            IN \/ UNCHANGED <<pc, kept, cursor>>
               \/ pc' = "abort" /\ UNCHANGED <<kept, cursor>>
               \/ /\ cursor < r.lo
                  /\ kept' = Append(kept, [lo |-> cursor, hi |-> r.lo])
                  /\ cursor' = r.hi
                  /\ UNCHANGED pc
      BY <2>3 DEF CutRange
    <3>2. pc = "safe" /\ UNCHANGED to_be_removed
      BY <2>3 DEF CutRange
    <3> DEFINE r == to_be_removed[i]
    <3>3. i \in DOMAIN to_be_removed /\ r \in Slice
      BY <2>a, LenProperties DEF TypeOK
    <3>4. r.lo \in Nat /\ r.hi \in Nat /\ r.lo < r.hi /\ r.hi <= len
      BY <3>3 DEF CopyInductive, Slice
    <3>5. CASE UNCHANGED <<pc, kept, cursor>>
      BY <2>a, <3>2, <3>5 DEF CopyInductive, KeptInOrder
    <3>6. CASE pc' = "abort" /\ UNCHANGED <<kept, cursor>>
      BY <2>a, <3>2, <3>6 DEF CopyInductive, KeptInOrder, BeforeSnippets
    <3>7. CASE /\ cursor < r.lo
               /\ kept' = Append(kept, [lo |-> cursor, hi |-> r.lo])
               /\ cursor' = r.hi
               /\ UNCHANGED pc
      <4> DEFINE piece == [lo |-> cursor, hi |-> r.lo]
      <4>1. piece \in Slice /\ piece.lo = cursor /\ piece.hi = r.lo
        BY <2>a, <3>4 DEF Slice
      <4>2. kept' = Append(kept, piece)
        BY <3>7
      <4> HIDE DEF piece
      <4>3. /\ Len(kept') = Len(kept) + 1 /\ Len(kept) \in Nat
            /\ DOMAIN kept = 1..Len(kept) /\ DOMAIN kept' = 1..(Len(kept) + 1)
            /\ \A k \in DOMAIN kept : kept'[k] = kept[k]
            /\ kept'[Len(kept) + 1] = piece
        BY <2>a, <4>1, <4>2, LenProperties
      <4>4. \A k \in DOMAIN kept' : kept'[k].lo <= kept'[k].hi /\ kept'[k].hi <= len
        <5>1. piece.lo <= piece.hi /\ piece.hi <= len
          BY <2>a, <3>4, <3>7, <4>1
        <5> QED  BY <4>3, <5>1 DEF CopyInductive, KeptInOrder
      <4>5. \A k \in DOMAIN kept' : k > 1 => kept'[k - 1].hi < kept'[k].lo
        <5>1. ASSUME NEW k \in DOMAIN kept', k > 1, k # Len(kept) + 1
              PROVE  kept'[k - 1].hi < kept'[k].lo
          <6>1. k \in DOMAIN kept /\ k - 1 \in DOMAIN kept
            BY <4>3, <5>1
          <6> QED  BY <4>3, <5>1, <6>1 DEF CopyInductive, KeptInOrder
        <5>2. ASSUME Len(kept) + 1 > 1
              PROVE  kept'[Len(kept)].hi < kept'[Len(kept) + 1].lo
          <6>1. kept # <<>> /\ Len(kept) \in DOMAIN kept
            BY <4>3, <5>2
          <6>2. kept[Len(kept)].hi < cursor
            BY <3>2, <6>1 DEF CopyInductive
          <6> QED  BY <4>1, <4>3, <6>1, <6>2
        <5>3. Len(kept) + 1 - 1 = Len(kept)
          BY <4>3
        <5> QED  BY <5>1, <5>2, <5>3
      <4>6. cursor' <= len /\ kept'[Len(kept')].hi < cursor'
        BY <3>4, <3>7, <4>1, <4>3
      <4>7. KeptInOrder'
        BY <2>a, <3>2, <3>7, <4>4, <4>5 DEF KeptInOrder
      <4> QED  BY <2>a, <3>2, <3>7, <4>6, <4>7 DEF CopyInductive, BeforeSnippets
    <3> QED  BY <3>1, <3>5, <3>6, <3>7
  <2>4. CASE CopyTail
    <3> DEFINE piece == [lo |-> cursor, hi |-> len]
    <3>1. /\ pc = "safe" /\ pc' = "done" /\ UNCHANGED to_be_removed
          /\ kept' = Append(kept, piece)
      BY <2>4 DEF CopyTail, Enter
    <3>2. cursor <= len /\ (kept # <<>> => kept[Len(kept)].hi < cursor)
      BY <3>1 DEF CopyInductive
    <3>3. piece \in Slice /\ piece.lo = cursor /\ piece.hi = len
      BY <2>a DEF Slice
    <3> HIDE DEF piece
    <3>4. /\ Len(kept') = Len(kept) + 1 /\ Len(kept) \in Nat
          /\ DOMAIN kept = 1..Len(kept) /\ DOMAIN kept' = 1..(Len(kept) + 1)
          /\ \A k \in DOMAIN kept : kept'[k] = kept[k]
          /\ kept'[Len(kept) + 1] = piece
      BY <2>a, <3>1, <3>3, LenProperties
    <3>5. \A k \in DOMAIN kept' : kept'[k].lo <= kept'[k].hi /\ kept'[k].hi <= len
      BY <2>a, <3>2, <3>3, <3>4 DEF CopyInductive, KeptInOrder
    <3>6. \A k \in DOMAIN kept' : k > 1 => kept'[k - 1].hi < kept'[k].lo
      <4>1. ASSUME NEW k \in DOMAIN kept', k > 1, k # Len(kept) + 1
            PROVE  kept'[k - 1].hi < kept'[k].lo
        <5>1. k \in DOMAIN kept /\ k - 1 \in DOMAIN kept
          BY <3>4, <4>1
        <5> QED  BY <3>4, <4>1, <5>1 DEF CopyInductive, KeptInOrder
      <4>2. ASSUME Len(kept) + 1 > 1
            PROVE  kept'[Len(kept)].hi < kept'[Len(kept) + 1].lo
        <5>1. kept # <<>> /\ Len(kept) \in DOMAIN kept
          BY <3>4, <4>2
        <5> QED  BY <3>2, <3>3, <3>4, <5>1
      <4>3. Len(kept) + 1 - 1 = Len(kept)
        BY <3>4
      <4> QED  BY <4>1, <4>2, <4>3
    <3>7. KeptInOrder'
      BY <2>a, <3>3, <3>4, <3>5, <3>6 DEF KeptInOrder
    <3> QED  BY <2>a, <3>1, <3>7 DEF CopyInductive, BeforeSnippets
  <2>5. CASE UNCHANGED vars
    BY <2>5 DEF vars, CopyInductive, KeptInOrder
  <2>6. CASE \/ Correct \/ Rewrite \/ Register \/ StripDone \/ EmitSnippet
    <3>1. UNCHANGED <<to_be_removed, kept>>
      BY <2>6 DEF Correct, Rewrite, Register, CorrectNode, CorrectDone, RewriteSpan,
                  RewriteDone, RegisterOther, RegisterFatal, RegisterAbort, RegisterCall,
                  RegisterType, RegisterDone, StripDone, EmitSnippet, output
    <3>2. pc \in BeforeSnippets \cup {"snippets"} /\ pc' \notin {"safe", "done"}
      <4>1. CASE Correct \/ Rewrite
        BY <4>1 DEF Correct, Rewrite, CorrectNode, CorrectDone, RewriteSpan, RewriteDone,
                    Advance, Enter, Stop, BeforeSnippets
      <4>2. CASE Register
        BY <4>2 DEF Register, RegisterOther, RegisterFatal, RegisterAbort, RegisterCall,
                    RegisterType, RegisterDone, AtNode, Advance, Enter, Stop, BeforeSnippets
      <4>3. CASE StripDone \/ EmitSnippet
        BY <4>3 DEF StripDone, EmitSnippet, Advance, Enter, BeforeSnippets
      <4> QED  BY <2>6, <4>1, <4>2, <4>3
    <3> QED  BY <2>0, <3>1, <3>2 DEF BeforeSnippets
  <2> QED  BY <2>1, <2>2, <2>3, <2>4, <2>5, <2>6 DEF Next, Strip, Emit, Cut
<1> QED  BY <1>1, <1>2, TypeCorrect, PTL DEF Spec

(* Whatever ranges the strip pass found, nested, repeated or overlapping,  *)
(* no byte is copied twice or out of order and the copy reaches the end of *)
(* the source.                                                             *)
THEOREM CopyCorrect == Spec => []KeptInOrder
<1>1. CopyInductive => KeptInOrder
  BY DEF CopyInductive
<1> QED  BY <1>1, CopyInvariant, PTL

-----------------------------------------------------------------------------
(* Which ranges the strip pass lists.                                      *)

RangeOf(n) == Extent(Post[file], StripRoot(Post[file], n))
Uses == {n \in DOMAIN Post[file] : UsesDependency(Post[file], n)}
Listed(n) ==
  /\ StripRoot(Post[file], n) # 0
  /\ \E k \in DOMAIN to_be_removed : to_be_removed[k] = RangeOf(n)

(* The list holds the ranges of the uses met so far and nothing else.      *)
StripInductive ==
  /\ pc \in BeforeSnippets \ {"strip"} => to_be_removed = <<>>
  /\ \A k \in DOMAIN to_be_removed :
       \E n \in Uses : StripRoot(Post[file], n) # 0 /\ to_be_removed[k] = RangeOf(n)
  /\ pc = "strip" => \A n \in Uses : n < at => Listed(n)
  /\ pc \in {"snippets", "safe", "done"} => \A n \in Uses : Listed(n)

(* The nearest holder of a node holds it. *)
LEMMA NearestHolds ==
  ASSUME NEW t \in Seq(Node), NEW n \in DOMAIN t, NEW s, Nearest(t, n, s) # 0
  PROVE  /\ Nearest(t, n, s) \in 1..n /\ t[Nearest(t, n, s)].sym = s
         /\ Within(t, Nearest(t, n, s), n)
         /\ \A a \in 1..n : t[a].sym = s /\ Within(t, a, n) => a <= Nearest(t, n, s)
<1> DEFINE Holders == {a \in 1..n : t[a].sym = s /\ Within(t, a, n)}
<1>1. n \in Nat
  BY LenProperties
<1>2. Holders # {} /\ Nearest(t, n, s) = Largest(Holders)
  BY DEF Nearest
<1>3. Largest(Holders) \in Holders /\ \A y \in Holders : y <= Largest(Holders)
  <2> HIDE DEF Holders
  <2>1. Holders \in SUBSET (1..n)
    BY DEF Holders
  <2> QED  BY <1>1, <1>2, <2>1, LargestIn
<1> QED  BY <1>2, <1>3

(* ... and so does the root the strip pass removes. *)
LEMMA StripRootHolds ==
  ASSUME NEW t \in Seq(Node), NEW n \in DOMAIN t, StripRoot(t, n) # 0
  PROVE  StripRoot(t, n) \in 1..n /\ Within(t, StripRoot(t, n), n)
BY NearestHolds DEF StripRoot, Function, Declaration, Typedef, Call

LEMMA StripInvariant == Spec => []StripInductive
<1>1. Init => StripInductive
  BY DEF Init, StripInductive
<1>2. TypeOK /\ StripInductive /\ [Next]_vars => StripInductive'
  <2> SUFFICES ASSUME TypeOK, StripInductive, [Next]_vars
               PROVE  StripInductive'
    OBVIOUS
  <2>a. to_be_removed \in Seq(Slice) /\ file' = file /\ at \in Nat /\ file \in Files
    BY FileStays DEF TypeOK
  <2>1. CASE Correct \/ Rewrite \/ Register
    <3>1. UNCHANGED to_be_removed
      BY <2>1 DEF Correct, Rewrite, Register, CorrectNode, CorrectDone, RewriteSpan,
                  RewriteDone, RegisterOther, RegisterFatal, RegisterAbort, RegisterCall,
                  RegisterType, RegisterDone, output
    <3>2. /\ pc \in BeforeSnippets \ {"strip"}
          /\ pc' \in BeforeSnippets \cup {"abort", "fatal"}
          /\ pc' = "strip" => at' = 1
      <4>1. CASE Correct \/ Rewrite
        BY <4>1 DEF Correct, Rewrite, CorrectNode, CorrectDone, RewriteSpan, RewriteDone,
                    Advance, Enter, Stop, BeforeSnippets
      <4>2. CASE Register
        BY <4>2 DEF Register, RegisterOther, RegisterFatal, RegisterAbort, RegisterCall,
                    RegisterType, RegisterDone, AtNode, Advance, Enter, Stop, BeforeSnippets
      <4> QED  BY <2>1, <4>1, <4>2
    <3>3. to_be_removed' = <<>>
      BY <3>1, <3>2 DEF StripInductive
    <3>4. \A n \in Uses' : n \in Nat /\ n >= 1
      BY <2>a, FilesAssumption, LenProperties DEF Uses
    <3>5. DOMAIN to_be_removed' = {}
      BY <3>3
    <3>6. pc' \notin {"snippets", "safe", "done"}
      BY <3>2 DEF BeforeSnippets
    <3>7. pc' = "strip" => \A n \in Uses' : ~(n < at')
      BY <3>2, <3>4
    <3> QED  BY <3>3, <3>5, <3>6, <3>7 DEF StripInductive
  <2>2. CASE StripNode
    <3> DEFINE t == Post[file]
    <3>1. /\ pc = "strip" /\ Tree = t /\ at \in DOMAIN t
          /\ UNCHANGED comptime_dependencies
      BY <2>2, TreeIsTree DEF TypeOK, StripNode, AtNode, Tree, collected
    <3>2. Uses' = Uses
      BY <2>a, <3>1 DEF Uses, UsesDependency
    <3>3. CASE ~UsesDependency(t, at)
      <4>1. UNCHANGED to_be_removed /\ at' = at + 1 /\ pc' = "strip"
        BY <2>2, <3>1, <3>3 DEF StripNode, Advance
      <4>2. \A n \in Uses : n < at' => n < at
        <5>1. \A n \in Uses : n \in Nat /\ n # at
          BY <2>a, <3>3, FilesAssumption, LenProperties DEF Uses
        <5> QED  BY <2>a, <4>1, <5>1
      <4>3. \A n \in Uses : Listed(n) => Listed(n)'
        BY <2>a, <4>1 DEF Listed, RangeOf
      <4> QED  BY <2>a, <3>1, <3>2, <4>1, <4>2, <4>3 DEF StripInductive, BeforeSnippets, RangeOf
    <3>4. CASE UsesDependency(t, at) /\ StripRoot(t, at) # 0
      <4>1. /\ to_be_removed' = Append(to_be_removed, RangeOf(at))
            /\ at' = at + 1 /\ pc' = "strip"
        BY <2>2, <3>1, <3>4 DEF StripNode, Advance, RangeOf
      <4>2. RangeOf(at) \in Slice
        BY <2>a, <3>1, <3>4, FilesAssumption, StripRootIsRemovable DEF RangeOf
      <4>3. /\ DOMAIN to_be_removed' = DOMAIN to_be_removed \cup {Len(to_be_removed) + 1}
            /\ \A k \in DOMAIN to_be_removed : to_be_removed'[k] = to_be_removed[k]
            /\ to_be_removed'[Len(to_be_removed) + 1] = RangeOf(at)
        BY <2>a, <4>1, <4>2, LenProperties
      <4>4. at \in Uses
        BY <3>1, <3>4 DEF Uses
      <4>5. \A n \in Uses : RangeOf(n)' = RangeOf(n)
        BY <2>a DEF RangeOf
      <4>6. \A k \in DOMAIN to_be_removed' :
              \E n \in Uses : StripRoot(t, n) # 0 /\ to_be_removed'[k] = RangeOf(n)
        BY <3>4, <4>3, <4>4 DEF StripInductive
      <4>7. \A n \in Uses : n < at' => Listed(n)'
        <5>1. ASSUME NEW n \in Uses, n < at' PROVE n < at \/ n = at
          BY <2>a, <4>1, <5>1, FilesAssumption, LenProperties DEF Uses
        <5>2. \A n \in Uses : Listed(n) => Listed(n)'
          BY <2>a, <4>3, <4>5 DEF Listed
        <5>3. \A n \in Uses : n = at => Listed(n)'
          BY <2>a, <3>4, <4>3, <4>5 DEF Listed
        <5> QED  BY <3>1, <5>1, <5>2, <5>3 DEF StripInductive
      <4> QED  BY <2>a, <3>2, <4>1, <4>5, <4>6, <4>7 DEF StripInductive, BeforeSnippets
    <3>5. CASE UsesDependency(t, at) /\ StripRoot(t, at) = 0
      <4>1. UNCHANGED to_be_removed /\ pc' = "crash"
        BY <2>2, <3>1, <3>5 DEF StripNode, Stop
      <4> QED  BY <2>a, <3>2, <4>1 DEF StripInductive, BeforeSnippets, RangeOf
    <3> QED  BY <3>3, <3>4, <3>5
  <2>3. CASE StripDone \/ Emit \/ Cut \/ UNCHANGED vars
    <3>1. UNCHANGED <<to_be_removed, comptime_dependencies>>
      BY <2>3, Zenon DEF StripDone, Emit, Cut, EmitSnippet, SnippetsDone, CutRange, CopyTail, vars,
                  collected, output
    <3>2. \/ pc = "strip" /\ pc' = "snippets" /\ at > Len(Post[file])
          \/ pc \in {"snippets", "safe"} /\ pc' \in {"snippets", "safe", "done", "abort"}
          \/ pc' = pc /\ at' = at
      <4>1. CASE StripDone
        BY <4>1 DEF StripDone, Enter, Tree
      <4>2. CASE Emit
        BY <4>2 DEF Emit, EmitSnippet, SnippetsDone, Enter, Advance
      <4>3. CASE CutRange
        <5>1. pc = "safe"
          BY <4>3 DEF CutRange
        <5>2. pc' = pc \/ pc' = "abort"
          BY <4>3, Zenon DEF CutRange
        <5> QED  BY <5>1, <5>2
      <4>4. CASE CopyTail \/ UNCHANGED vars
        BY <4>4 DEF CopyTail, Enter, vars
      <4> QED  BY <2>3, <4>1, <4>2, <4>3, <4>4 DEF Cut
    <3>3. Uses' = Uses /\ \A n : RangeOf(n)' = RangeOf(n) /\ Listed(n)' = Listed(n)
      BY <2>a, <3>1 DEF Uses, UsesDependency, RangeOf, Listed
    <3>4. \A k \in DOMAIN to_be_removed' :
            \E n \in Uses' : StripRoot(Post[file'], n) # 0 /\ to_be_removed'[k] = RangeOf(n)'
      BY <2>a, <3>1, <3>3 DEF StripInductive
    <3>5. CASE pc = "strip" /\ pc' = "snippets" /\ at > Len(Post[file])
      <4>1. \A n \in Uses : n < at
        BY <2>a, <3>5, FilesAssumption, LenProperties DEF Uses
      <4> QED  BY <3>3, <3>4, <3>5, <4>1 DEF StripInductive, BeforeSnippets
    <3>6. CASE pc \in {"snippets", "safe"} /\ pc' \in {"snippets", "safe", "done", "abort"}
      BY <3>3, <3>4, <3>6 DEF StripInductive, BeforeSnippets
    <3>7. CASE pc' = pc /\ at' = at
      BY <3>1, <3>3, <3>4, <3>7 DEF StripInductive
    <3> QED  BY <3>2, <3>5, <3>6, <3>7
  <2> QED  BY <2>1, <2>2, <2>3 DEF Next, Strip
<1> QED  BY <1>1, <1>2, TypeCorrect, PTL DEF Spec

-----------------------------------------------------------------------------
(* What the copying loop leaves out, and what it does not.                 *)

(* Only these steps touch what was copied while the loop runs.             *)
LEMMA LoopSteps ==
  ASSUME [Next]_vars
  PROVE  \/ pc' \notin {"safe", "done"}
         \/ SnippetsDone \/ CutRange \/ CopyTail \/ UNCHANGED vars
<1>1. CASE Correct \/ Rewrite
  BY <1>1 DEF Correct, Rewrite, CorrectNode, CorrectDone, RewriteSpan, RewriteDone,
              Advance, Enter, Stop
<1>2. CASE Register
  BY <1>2 DEF Register, RegisterOther, RegisterFatal, RegisterAbort, RegisterCall,
              RegisterType, RegisterDone, AtNode, Advance, Enter, Stop
<1>3. CASE Strip \/ EmitSnippet
  BY <1>3 DEF Strip, StripNode, StripDone, EmitSnippet, AtNode, Advance, Enter, Stop
<1> QED  BY <1>1, <1>2, <1>3 DEF Next, Emit, Cut

(* One round of the loop, for the range at hand: skipped, fatal or cut.    *)
LEMMA CutSteps ==
  ASSUME TypeOK, CutRange
  PROVE  /\ pc = "safe" /\ UNCHANGED <<to_be_removed, comptime_dependencies>>
         /\ \E i \in left :
              LET r == to_be_removed[i]
              IN /\ i \in DOMAIN to_be_removed /\ r \in Slice
                 /\ \A j \in left \ {i} : SortsBefore(i, j)
                 /\ \/ /\ pc' = "safe" /\ cursor > r.lo /\ left' = left \ {i}
                       /\ UNCHANGED <<kept, cursor>>
                    \/ pc' = "abort"
                    \/ /\ pc' = "safe" /\ cursor < r.lo /\ left' = left \ {i}
                       /\ cursor' = r.hi /\ kept \in Seq(Slice)
                       /\ DOMAIN kept' = DOMAIN kept \cup {Len(kept) + 1}
                       /\ \A k \in DOMAIN kept : kept'[k] = kept[k]
                       /\ kept'[Len(kept) + 1] = [lo |-> cursor, hi |-> r.lo]
<1>1. pc = "safe" /\ UNCHANGED <<to_be_removed, comptime_dependencies>>
  BY DEF CutRange, collected
<1>2. PICK i \in left :
        /\ IsNextRange(i)
        /\ LET r == to_be_removed[i]
           IN \/ /\ cursor > r.lo
                 /\ left' = left \ {i}
                 /\ UNCHANGED <<pc, kept, cursor>>
              \/ /\ cursor = r.lo
                 /\ pc' = "abort"
                 /\ UNCHANGED <<left, kept, cursor>>
              \/ /\ cursor < r.lo
                 /\ kept' = Append(kept, [lo |-> cursor, hi |-> r.lo])
                 /\ cursor' = r.hi
                 /\ left' = left \ {i}
                 /\ UNCHANGED pc
  BY DEF CutRange
<1> DEFINE r == to_be_removed[i]
           piece == [lo |-> cursor, hi |-> r.lo]
<1>3. /\ i \in DOMAIN to_be_removed /\ r \in Slice
      /\ \A j \in left \ {i} : SortsBefore(i, j)
  BY <1>2, LenProperties DEF TypeOK, IsNextRange
<1>4. piece \in Slice /\ kept \in Seq(Slice)
  BY <1>3 DEF TypeOK, Slice
<1>5. kept' = Append(kept, piece) =>
        /\ DOMAIN kept' = DOMAIN kept \cup {Len(kept) + 1}
        /\ \A k \in DOMAIN kept : kept'[k] = kept[k]
        /\ kept'[Len(kept) + 1] = piece
  BY <1>4, LenProperties
<1>6. \/ /\ pc' = "safe" /\ cursor > r.lo /\ left' = left \ {i}
         /\ UNCHANGED <<kept, cursor>>
      \/ pc' = "abort"
      \/ /\ pc' = "safe" /\ cursor < r.lo /\ left' = left \ {i}
         /\ cursor' = r.hi /\ kept \in Seq(Slice)
         /\ DOMAIN kept' = DOMAIN kept \cup {Len(kept) + 1}
         /\ \A k \in DOMAIN kept : kept'[k] = kept[k]
         /\ kept'[Len(kept) + 1] = piece
  BY <1>1, <1>2, <1>4, <1>5
<1> QED  BY <1>1, <1>3, <1>6

(* The loop is over: the rest of the text is the last piece.               *)
LEMMA TailStep ==
  ASSUME TypeOK, CopyTail
  PROVE  /\ pc = "safe" /\ pc' = "done" /\ left = {}
         /\ UNCHANGED <<to_be_removed, comptime_dependencies>>
         /\ kept \in Seq(Slice) /\ Len(kept) \in Nat
         /\ DOMAIN kept' = DOMAIN kept \cup {Len(kept) + 1}
         /\ \A k \in DOMAIN kept : kept'[k] = kept[k]
         /\ kept'[Len(kept) + 1] = [lo |-> cursor, hi |-> PostLen[file]]
<1> DEFINE piece == [lo |-> cursor, hi |-> PostLen[file]]
<1>1. piece \in Slice /\ kept \in Seq(Slice) /\ kept' = Append(kept, piece)
  BY FilesAssumption DEF TypeOK, Slice, CopyTail
<1>2. /\ DOMAIN kept' = DOMAIN kept \cup {Len(kept) + 1} /\ Len(kept) \in Nat
      /\ \A k \in DOMAIN kept : kept'[k] = kept[k]
      /\ kept'[Len(kept) + 1] = piece
  BY <1>1, LenProperties
<1> QED  BY <1>1, <1>2 DEF CopyTail, Enter, collected

(* Two ranges of the list nest or do not meet.                             *)
LEMMA RangesNest ==
  ASSUME TypeOK, StripInductive, pc # "correct",
         NEW i \in DOMAIN to_be_removed, NEW j \in DOMAIN to_be_removed
  PROVE  LET r == to_be_removed[i]
             s == to_be_removed[j]
         IN \/ r.hi <= s.lo \/ s.hi <= r.lo
            \/ s.lo <= r.lo /\ r.hi <= s.hi
            \/ r.lo <= s.lo /\ s.hi <= r.hi
<1> DEFINE t == Post[file]
<1>1. t \in Seq(Node) /\ SpansNest(t) /\ DOMAIN t = 1..Len(t) /\ Len(t) \in Nat
      /\ \A n \in DOMAIN t : t[n].last \in Nat
  <2>1. t \in Seq(Node) /\ SpansNest(t)
    BY FilesAssumption DEF TypeOK
  <2>2. \A n \in DOMAIN t : t[n] \in Node
    BY <2>1, LenProperties
  <2> QED  BY <2>1, <2>2, LenProperties DEF Node
<1>2. PICK m \in Uses : StripRoot(t, m) # 0 /\ to_be_removed[i] = RangeOf(m)
  BY DEF StripInductive
<1>3. PICK n \in Uses : StripRoot(t, n) # 0 /\ to_be_removed[j] = RangeOf(n)
  BY DEF StripInductive
<1> DEFINE a == StripRoot(t, m)
           b == StripRoot(t, n)
<1>4. a \in DOMAIN t /\ b \in DOMAIN t
  BY <1>1, <1>2, <1>3, StripRootHolds DEF Uses
<1> HIDE DEF a, b, t
<1>5. \/ Within(t, a, b) \/ Within(t, b, a) \/ t[a].last < b \/ t[b].last < a
  BY <1>1, <1>4 DEF Within
<1>6. \/ t[a].hi <= t[b].lo \/ t[b].hi <= t[a].lo
      \/ t[b].lo <= t[a].lo /\ t[a].hi <= t[b].hi
      \/ t[a].lo <= t[b].lo /\ t[b].hi <= t[a].hi
  BY <1>1, <1>4, <1>5 DEF SpansNest
<1> QED  BY <1>2, <1>3, <1>6 DEF RangeOf, Extent, a, b, t

(* Nothing copied so far meets the range r. *)
Clear(r) == \A k \in DOMAIN kept : kept[k].hi <= r.lo \/ r.hi <= kept[k].lo

(* What makes NoDependentLeft inductive: a range the loop has been at, cut *)
(* or skipped, lies behind the cursor and clear of what was copied, it     *)
(* begins no later than one that is left, and the cursor is the end of the *)
(* range cut last, at whose beginning the copying stopped.                 *)
CutInductive ==
  LET Visited == DOMAIN to_be_removed \ left
  IN /\ pc = "safe" =>
          /\ \A i \in Visited : to_be_removed[i].hi <= cursor /\ Clear(to_be_removed[i])
          /\ \A i \in Visited, j \in left : to_be_removed[i].lo <= to_be_removed[j].lo
          /\ \/ cursor = 0 /\ kept = <<>>
             \/ \E c \in Visited :
                  /\ cursor = to_be_removed[c].hi
                  /\ \A k \in DOMAIN kept : kept[k].hi <= to_be_removed[c].lo
     /\ pc = "done" => \A i \in DOMAIN to_be_removed : Clear(to_be_removed[i])

LEMMA CutInvariant ==
  ASSUME \A f \in Files : RootsBeginApart(Post[f])
  PROVE  Spec => []CutInductive
<1>1. Init => CutInductive
  BY DEF Init, CutInductive
<1>2. TypeOK /\ StripInductive /\ CopyInductive /\ CutInductive /\ [Next]_vars
        => CutInductive'
  <2> SUFFICES ASSUME TypeOK, StripInductive, CopyInductive, CutInductive, [Next]_vars
               PROVE  CutInductive'
    OBVIOUS
  <2>a. /\ kept \in Seq(Slice) /\ Len(kept) \in Nat /\ DOMAIN kept = 1..Len(kept)
        /\ to_be_removed \in Seq(Slice) /\ cursor \in Nat /\ left \subseteq DOMAIN to_be_removed
        /\ \A i \in DOMAIN to_be_removed :
             /\ to_be_removed[i].lo \in Nat /\ to_be_removed[i].hi \in Nat
             /\ to_be_removed[i].lo < to_be_removed[i].hi
        /\ \A k \in DOMAIN kept : kept[k].lo \in Nat /\ kept[k].hi \in Nat
    <3>1. \A i \in DOMAIN to_be_removed : to_be_removed[i] \in Slice
      BY LenProperties DEF TypeOK
    <3>2. \A k \in DOMAIN kept : kept[k] \in Slice
      BY LenProperties DEF TypeOK
    <3> QED  BY <3>1, <3>2, LenProperties DEF TypeOK, CopyInductive, Slice
  <2>1. CASE SnippetsDone
    <3>1. /\ pc' = "safe" /\ left' = DOMAIN to_be_removed' /\ cursor' = 0 /\ kept' = <<>>
      BY <2>1 DEF SnippetsDone, Enter, CopyInductive
    <3> QED  BY <3>1 DEF CutInductive
  <2>2. CASE CutRange
    <3>1. pc = "safe" /\ UNCHANGED to_be_removed
      BY <2>2, CutSteps
    <3>2. PICK i \in left :
            LET r == to_be_removed[i]
            IN /\ i \in DOMAIN to_be_removed /\ r \in Slice
               /\ \A j \in left \ {i} : SortsBefore(i, j)
               /\ \/ /\ pc' = "safe" /\ cursor > r.lo /\ left' = left \ {i}
                     /\ UNCHANGED <<kept, cursor>>
                  \/ pc' = "abort"
                  \/ /\ pc' = "safe" /\ cursor < r.lo /\ left' = left \ {i}
                     /\ cursor' = r.hi /\ kept \in Seq(Slice)
                     /\ DOMAIN kept' = DOMAIN kept \cup {Len(kept) + 1}
                     /\ \A k \in DOMAIN kept : kept'[k] = kept[k]
                     /\ kept'[Len(kept) + 1] = [lo |-> cursor, hi |-> r.lo]
      BY <2>2, CutSteps
    <3> DEFINE r == to_be_removed[i]
               Visited == DOMAIN to_be_removed \ left
    <3>3. /\ \A j \in Visited : to_be_removed[j].hi <= cursor /\ Clear(to_be_removed[j])
          /\ \A h \in Visited, j \in left : to_be_removed[h].lo <= to_be_removed[j].lo
          /\ \/ cursor = 0 /\ kept = <<>>
             \/ \E c \in Visited :
                  /\ cursor = to_be_removed[c].hi
                  /\ \A k \in DOMAIN kept : kept[k].hi <= to_be_removed[c].lo
      BY <3>1 DEF CutInductive
    <3>4. \A j \in left : r.lo <= to_be_removed[j].lo
      BY <2>a, <3>2 DEF SortsBefore
    <3>5. left' = left \ {i} => DOMAIN to_be_removed' \ left' = Visited \cup {i}
      BY <3>1, <3>2
    <3>6. left' = left \ {i} =>
            \A h \in DOMAIN to_be_removed' \ left', j \in left' :
              to_be_removed'[h].lo <= to_be_removed'[j].lo
      BY <3>1, <3>3, <3>4, <3>5
    <3>7. CASE /\ pc' = "safe" /\ cursor > r.lo /\ left' = left \ {i}
               /\ UNCHANGED <<kept, cursor>>
      <4>1. PICK c \in Visited :
              /\ cursor = to_be_removed[c].hi
              /\ \A k \in DOMAIN kept : kept[k].hi <= to_be_removed[c].lo
        BY <2>a, <3>2, <3>3, <3>7
      <4> DEFINE s == to_be_removed[c]
      <4>2. /\ s.lo <= r.lo /\ r.lo < s.hi
            /\ r.lo \in Nat /\ r.hi \in Nat /\ s.lo \in Nat /\ s.hi \in Nat /\ r.lo < r.hi
        BY <2>a, <3>2, <3>3, <3>7, <4>1
      <4>3. r.hi <= s.hi
        <5>1. CASE s.lo <= r.lo /\ r.hi <= s.hi
          BY <5>1
        <5>2. CASE r.lo <= s.lo /\ s.hi <= r.hi
          <6>1. r.lo = s.lo
            BY <4>2, <5>2
          <6>2. PICK m \in Uses : StripRoot(Post[file], m) # 0 /\ r = RangeOf(m)
            BY <3>2 DEF StripInductive
          <6>3. PICK n \in Uses : StripRoot(Post[file], n) # 0 /\ s = RangeOf(n)
            BY <4>1 DEF StripInductive
          <6>4. RootsBeginApart(Post[file])
            BY DEF TypeOK
          <6> HIDE DEF r, s
          <6>5. RangeOf(m) = RangeOf(n)
            BY <6>1, <6>2, <6>3, <6>4
               DEF RootsBeginApart, StripRoots, Uses, UsesDependency, RangeOf, Extent
          <6> QED  BY <4>2, <6>2, <6>3, <6>5
        <5>3. \/ r.hi <= s.lo \/ s.hi <= r.lo
              \/ s.lo <= r.lo /\ r.hi <= s.hi
              \/ r.lo <= s.lo /\ s.hi <= r.hi
          <6>1. pc # "correct" /\ i \in DOMAIN to_be_removed /\ c \in DOMAIN to_be_removed
            BY <3>1, <3>2, <4>1
          <6> QED  BY <6>1, RangesNest
        <5> QED  BY <4>2, <5>1, <5>2, <5>3
      <4>4. r.hi <= cursor /\ Clear(r)
        <5>1. \A k \in DOMAIN kept : kept[k].hi <= r.lo
          BY <2>a, <4>1, <4>2
        <5> QED  BY <4>1, <4>3, <5>1 DEF Clear
      <4>5. \A j \in Visited \cup {i} :
              to_be_removed'[j].hi <= cursor' /\ Clear(to_be_removed[j])'
        BY <3>1, <3>3, <3>7, <4>4 DEF Clear
      <4> QED  BY <3>1, <3>5, <3>6, <3>7, <4>1, <4>5 DEF CutInductive, Clear
    <3>8. CASE pc' = "abort"
      BY <3>8 DEF CutInductive
    <3>9. CASE /\ pc' = "safe" /\ cursor < r.lo /\ left' = left \ {i}
               /\ cursor' = r.hi
               /\ DOMAIN kept' = DOMAIN kept \cup {Len(kept) + 1}
               /\ \A k \in DOMAIN kept : kept'[k] = kept[k]
               /\ kept'[Len(kept) + 1] = [lo |-> cursor, hi |-> r.lo]
      <4>1. /\ r.lo \in Nat /\ r.hi \in Nat /\ r.lo < r.hi
            /\ i \in DOMAIN to_be_removed
        BY <2>a, <3>2
      <4>2. \A k \in DOMAIN kept : kept[k].hi <= r.lo
        BY <2>a, <3>2, <3>3, <4>1
      <4>3. \A k \in DOMAIN kept' : kept'[k].hi <= r.lo
        BY <3>9, <4>1, <4>2
      <4>4. \A j \in Visited : to_be_removed[j].hi <= cursor' /\ Clear(to_be_removed[j])'
        BY <2>a, <3>1, <3>3, <3>9, <4>1 DEF Clear
      <4>5. \A j \in Visited \cup {i} :
              to_be_removed'[j].hi <= cursor' /\ Clear(to_be_removed[j])'
        BY <3>1, <3>9, <4>1, <4>3, <4>4 DEF Clear
      <4> QED  BY <3>1, <3>5, <3>6, <3>9, <4>3, <4>5 DEF CutInductive, Clear
    <3> QED  BY <3>2, <3>7, <3>8, <3>9
  <2>3. CASE CopyTail
    <3>1. /\ pc = "safe" /\ pc' = "done" /\ left = {} /\ UNCHANGED to_be_removed
          /\ DOMAIN kept' = DOMAIN kept \cup {Len(kept) + 1}
          /\ \A k \in DOMAIN kept : kept'[k] = kept[k]
          /\ kept'[Len(kept) + 1] = [lo |-> cursor, hi |-> PostLen[file]]
      BY <2>3, TailStep
    <3>2. \A i \in DOMAIN to_be_removed : to_be_removed[i].hi <= cursor /\ Clear(to_be_removed[i])
      BY <3>1 DEF CutInductive
    <3>3. \A i \in DOMAIN to_be_removed' : Clear(to_be_removed[i])'
      BY <3>1, <3>2 DEF Clear
    <3> QED  BY <3>1, <3>3 DEF CutInductive, Clear
  <2>4. CASE UNCHANGED vars
    BY <2>4 DEF vars, CutInductive, Clear
  <2>5. CASE pc' \notin {"safe", "done"}
    BY <2>5 DEF CutInductive
  <2> QED  BY <2>1, <2>2, <2>3, <2>4, <2>5, LoopSteps
<1> QED  BY <1>1, <1>2, TypeCorrect, StripInvariant, CopyInvariant, PTL DEF Spec

(* The text the runner includes names no comptime-dependent definition,    *)
(* wherever in a definition or call the name stands and however those nest, *)
(* when no two ranges begin at the same byte.                              *)
THEOREM DependentsCut ==
  ASSUME \A f \in Files : RootsBeginApart(Post[f])
  PROVE  Spec => []NoDependentLeft
<1>1. TypeOK /\ StripInductive /\ CutInductive => NoDependentLeft
  <2> SUFFICES ASSUME TypeOK, StripInductive, CutInductive, pc = "done",
                      NEW n \in DOMAIN Tree, UsesDependency(Tree, n)
               PROVE  Gone(n)
    BY DEF NoDependentLeft
  <2> DEFINE t == Post[file]
             a == StripRoot(t, n)
  <2>1. t \in Seq(Node) /\ SpansNest(t) /\ Tree = t /\ n \in Uses
    BY FilesAssumption DEF TypeOK, Tree, Uses
  <2>2. a # 0 /\ \E k \in DOMAIN to_be_removed : to_be_removed[k] = RangeOf(n)
    BY <2>1 DEF StripInductive, Listed
  <2>3. a \in DOMAIN t /\ Within(t, a, n)
    BY <2>1, <2>2, StripRootHolds, LenProperties
  <2>4. t[a].lo <= t[n].lo /\ t[n].hi <= t[a].hi
    BY <2>1, <2>3 DEF SpansNest
  <2>5. \A k \in DOMAIN kept : kept[k].hi <= t[a].lo \/ t[a].hi <= kept[k].lo
    BY <2>2 DEF CutInductive, Clear, RangeOf, Extent
  <2>6. /\ t[a].lo \in Nat /\ t[a].hi \in Nat /\ t[n].lo \in Nat /\ t[n].hi \in Nat
        /\ \A k \in DOMAIN kept : kept[k].lo \in Nat /\ kept[k].hi \in Nat
    <3>1. t[a] \in Node /\ t[n] \in Node /\ \A k \in DOMAIN kept : kept[k] \in Slice
      BY <2>1, <2>3, LenProperties DEF TypeOK
    <3> QED  BY <3>1 DEF Node, Slice
  <2> HIDE DEF t, a
  <2> QED  BY <2>1, <2>4, <2>5, <2>6 DEF Gone
<1> QED  BY <1>1, TypeCorrect, StripInvariant, CutInvariant, PTL

(* The top-level items no use stands in. *)
Independent ==
  {r \in DOMAIN Post[file] :
     /\ Parent(Post[file], r) = 0
     /\ \A n \in r..Post[file][r].last : n \notin Uses}
Whole(r) ==
  \E k \in DOMAIN kept : kept[k].lo <= Post[file][r].lo /\ Post[file][r].hi <= kept[k].hi

(* What makes IndependentCodeSurvives inductive: such an item has been     *)
(* copied whole, or the cursor has not reached it.                         *)
SurviveInductive ==
  /\ pc = "safe" => \A r \in Independent : Whole(r) \/ cursor <= Post[file][r].lo
  /\ pc = "done" => \A r \in Independent : Whole(r)

(* No range of the list meets the span of an item without uses.            *)
LEMMA IndependentApart ==
  ASSUME TypeOK, StripInductive, pc # "correct",
         NEW r \in Independent, NEW k \in DOMAIN to_be_removed
  PROVE  \/ Post[file][r].hi <= to_be_removed[k].lo
         \/ to_be_removed[k].hi <= Post[file][r].lo
<1> DEFINE t == Post[file]
<1>1. t \in Seq(Node) /\ SpansNest(t) /\ DOMAIN t = 1..Len(t) /\ Len(t) \in Nat
      /\ \A n \in DOMAIN t : t[n].last \in Nat
  <2>1. t \in Seq(Node) /\ SpansNest(t)
    BY FilesAssumption DEF TypeOK
  <2>2. \A n \in DOMAIN t : t[n] \in Node
    BY <2>1, LenProperties
  <2> QED  BY <2>1, <2>2, LenProperties DEF Node
<1>2. PICK m \in Uses : StripRoot(t, m) # 0 /\ to_be_removed[k] = RangeOf(m)
  BY DEF StripInductive
<1> DEFINE a == StripRoot(t, m)
<1>3. a \in DOMAIN t /\ m \in DOMAIN t /\ Within(t, a, m)
  BY <1>1, <1>2, StripRootHolds DEF Uses
<1>4. r \in DOMAIN t /\ Parent(t, r) = 0 /\ m \notin r..t[r].last
  BY <1>2 DEF Independent
<1> HIDE DEF a, t
<1>5. ~Within(t, r, a)
  <2>1. Within(t, r, a) => t[a].last <= t[r].last
    BY <1>1, <1>3, <1>4 DEF SpansNest
  <2> QED  BY <1>1, <1>3, <1>4, <2>1 DEF Within
<1>6. ~(a < r /\ Within(t, a, r))
  <2> SUFFICES ASSUME a < r, Within(t, a, r) PROVE FALSE
    OBVIOUS
  <2> DEFINE Holders == {h \in 1..(r - 1) : Within(t, h, r)}
  <2>1. a \in Holders /\ r - 1 \in Nat /\ Holders \in SUBSET (1..(r - 1))
    BY <1>1, <1>3, <1>4
  <2>2. Parent(t, r) = Largest(Holders)
    BY <2>1 DEF Parent
  <2> HIDE DEF Holders
  <2>3. Largest(Holders) \in 1..(r - 1)
    BY <2>1, LargestIn
  <2> QED  BY <1>4, <2>2, <2>3
<1>7. t[a].last < r \/ t[r].last < a
  BY <1>1, <1>3, <1>4, <1>5, <1>6 DEF Within
<1>8. t[a].hi <= t[r].lo \/ t[r].hi <= t[a].lo
  BY <1>1, <1>3, <1>4, <1>7 DEF SpansNest
<1> QED  BY <1>2, <1>8 DEF RangeOf, Extent, a, t

LEMMA SurviveInvariant == Spec => []SurviveInductive
<1>1. Init => SurviveInductive
  BY DEF Init, SurviveInductive
<1>2. TypeOK /\ StripInductive /\ CopyInductive /\ SurviveInductive /\ [Next]_vars
        => SurviveInductive'
  <2> SUFFICES ASSUME TypeOK, StripInductive, CopyInductive, SurviveInductive, [Next]_vars
               PROVE  SurviveInductive'
    OBVIOUS
  <2> DEFINE t == Post[file]
  <2>a. /\ file' = file /\ cursor \in Nat
        /\ \A r \in Independent : t[r].lo \in Nat /\ t[r].hi \in Nat /\ t[r].lo <= t[r].hi
                                 /\ t[r].hi <= PostLen[file]
    <3>1. t \in Seq(Node) /\ WellFormed(t, PostLen[file])
      BY FilesAssumption DEF TypeOK
    <3>2. \A n \in DOMAIN t : t[n] \in Node
      BY <3>1, LenProperties
    <3> QED  BY <3>1, <3>2, FileStays DEF TypeOK, Independent, WellFormed, Node
  <2>b. UNCHANGED comptime_dependencies => Independent' = Independent
    BY <2>a DEF Independent, Uses, UsesDependency
  <2>1. CASE SnippetsDone
    <3>1. pc' = "safe" /\ cursor' = 0 /\ Independent' = Independent
      BY <2>1, <2>b DEF SnippetsDone, Enter, collected
    <3> QED  BY <2>a, <3>1 DEF SurviveInductive
  <2>2. CASE CutRange
    <3>1. /\ pc = "safe" /\ UNCHANGED to_be_removed /\ Independent' = Independent
          /\ \A r \in Independent : Whole(r) \/ cursor <= t[r].lo
      BY <2>2, <2>b, CutSteps DEF SurviveInductive
    <3>2. PICK i \in left :
            LET q == to_be_removed[i]
            IN /\ i \in DOMAIN to_be_removed /\ q \in Slice
               /\ \/ pc' = "safe" /\ UNCHANGED <<kept, cursor>>
                  \/ pc' = "abort"
                  \/ /\ pc' = "safe" /\ cursor' = q.hi
                     /\ DOMAIN kept' = DOMAIN kept \cup {Len(kept) + 1}
                     /\ \A k \in DOMAIN kept : kept'[k] = kept[k]
                     /\ kept'[Len(kept) + 1] = [lo |-> cursor, hi |-> q.lo]
      BY <2>2, CutSteps
    <3> DEFINE q == to_be_removed[i]
    <3>3. CASE pc' = "safe" /\ UNCHANGED <<kept, cursor>>
      BY <2>a, <3>1, <3>3 DEF SurviveInductive, Whole
    <3>4. CASE pc' = "abort"
      BY <3>4 DEF SurviveInductive
    <3>5. CASE /\ pc' = "safe" /\ cursor' = q.hi
               /\ DOMAIN kept' = DOMAIN kept \cup {Len(kept) + 1}
               /\ \A k \in DOMAIN kept : kept'[k] = kept[k]
               /\ kept'[Len(kept) + 1] = [lo |-> cursor, hi |-> q.lo]
      <4>1. ASSUME NEW r \in Independent, ~Whole(r)'
            PROVE  cursor' <= t[r].lo
        <5>1. ~Whole(r)
          BY <2>a, <3>5, <4>1 DEF Whole
        <5>2. cursor <= t[r].lo
          BY <3>1, <5>1
        <5>3. ~(t[r].hi <= q.lo)
          BY <2>a, <3>5, <4>1, <5>2 DEF Whole
        <5>4. t[r].hi <= q.lo \/ q.hi <= t[r].lo
          BY <3>1, <3>2, IndependentApart
        <5> QED  BY <3>5, <5>3, <5>4
      <4> QED  BY <2>a, <3>1, <3>5, <4>1 DEF SurviveInductive
    <3> QED  BY <3>2, <3>3, <3>4, <3>5
  <2>3. CASE CopyTail
    <3>1. /\ pc = "safe" /\ pc' = "done" /\ Independent' = Independent
          /\ DOMAIN kept' = DOMAIN kept \cup {Len(kept) + 1}
          /\ \A k \in DOMAIN kept : kept'[k] = kept[k]
          /\ kept'[Len(kept) + 1] = [lo |-> cursor, hi |-> PostLen[file]]
      BY <2>3, <2>b, TailStep
    <3>2. \A r \in Independent : Whole(r)'
      <4>1. \A r \in Independent : Whole(r) \/ cursor <= t[r].lo
        BY <3>1 DEF SurviveInductive
      <4> QED  BY <2>a, <3>1, <4>1 DEF Whole
    <3> QED  BY <3>1, <3>2 DEF SurviveInductive
  <2>4. CASE UNCHANGED vars
    <3>1. UNCHANGED <<pc, kept, cursor, comptime_dependencies>>
      BY <2>4 DEF vars
    <3> QED  BY <2>a, <2>b, <3>1 DEF SurviveInductive, Whole
  <2>5. CASE pc' \notin {"safe", "done"}
    BY <2>5 DEF SurviveInductive
  <2> QED  BY <2>1, <2>2, <2>3, <2>4, <2>5, LoopSteps
<1> QED  BY <1>1, <1>2, TypeCorrect, StripInvariant, CopyInvariant, PTL DEF Spec

(* A top-level item that names no comptime-dependent definition is in the  *)
(* comptime-safe source whole, for every file: no range reaches into it,   *)
(* and the cursor never passes it before it is copied.                     *)
THEOREM IndependentKept == Spec => []IndependentCodeSurvives
<1>1. SurviveInductive => IndependentCodeSurvives
  <2> SUFFICES ASSUME SurviveInductive, pc = "done", NEW r \in TopLevel(Tree),
                      \A n \in r..Tree[r].last : ~UsesDependency(Tree, n)
               PROVE  Kept(r)
    BY DEF IndependentCodeSurvives
  <2>1. Tree = Post[file] /\ r \in Independent
    BY DEF Tree, TopLevel, Independent, Uses
  <2> QED  BY <2>1 DEF SurviveInductive, Whole, Kept
<1> QED  BY <1>1, SurviveInvariant, PTL

(* A range that is not behind the cursor lies ahead of it.                  *)
LEMMA CutGoesOn ==
  ASSUME TypeOK, StripInductive, CutInductive, RootsApart(Post[file]), CutRange
  PROVE  pc' = pc
<1> DEFINE t == Post[file]
<1>1. PICK i \in left :
        LET r == to_be_removed[i]
        IN \/ UNCHANGED pc
           \/ cursor = r.lo /\ pc' = "abort"
  BY DEF CutRange
<1>2. pc = "safe" /\ i \in DOMAIN to_be_removed
  BY DEF CutRange, TypeOK
<1>3. ASSUME cursor = to_be_removed[i].lo PROVE FALSE
  <2>1. PICK m \in Uses : StripRoot(t, m) # 0 /\ to_be_removed[i] = RangeOf(m)
    BY <1>2 DEF StripInductive
  <2>2. StripRoot(t, m) \in StripRoots(t) /\ RootsApart(t)
    BY <2>1 DEF TypeOK, StripRoots, Uses, UsesDependency
  <2>3. cursor # 0
    BY <1>3, <2>1, <2>2 DEF RootsApart, RangeOf, Extent
  <2>4. PICK c \in DOMAIN to_be_removed : cursor = to_be_removed[c].hi
    BY <1>2, <2>3 DEF CutInductive
  <2>5. PICK n \in Uses : StripRoot(t, n) # 0 /\ to_be_removed[c] = RangeOf(n)
    BY DEF StripInductive
  <2>6. StripRoot(t, n) \in StripRoots(t)
    BY <2>5 DEF StripRoots, Uses, UsesDependency
  <2> QED  BY <1>3, <2>1, <2>2, <2>4, <2>5, <2>6 DEF RootsApart, RangeOf, Extent
<1> QED  BY <1>1, <1>2, <1>3

(* The one file the assert of build_comptime_safe_source stops is the one  *)
(* in which a range begins the text or touches the range before it.        *)
THEOREM ApartRangesCopied ==
  ASSUME \A f \in Files : RootsBeginApart(Post[f]) /\ RootsApart(Post[f])
  PROVE  Spec => []SafeSourceAssertHolds
<1> DEFINE Idle == pc \notin {"safe", "done"} => left = {}
<1>1. Init => Idle
  BY DEF Init
<1>2. TypeOK /\ StripInductive /\ CutInductive /\ Idle /\ [Next]_vars => Idle'
  <2> SUFFICES ASSUME TypeOK, StripInductive, CutInductive, Idle, [Next]_vars
               PROVE  Idle'
    OBVIOUS
  <2> DEFINE t == Post[file]
  <2>1. CASE CutRange
    <3>1. pc = "safe" /\ RootsApart(Post[file])
      BY <2>1 DEF CutRange, TypeOK
    <3> QED  BY <2>1, <3>1, CutGoesOn
  <2>2. CASE CopyTail
    BY <2>2 DEF CopyTail, Enter
  <2>3. CASE SnippetsDone
    BY <2>3 DEF SnippetsDone, Enter
  <2>4. CASE UNCHANGED vars
    BY <2>4 DEF vars
  <2>5. CASE Correct \/ Rewrite
    <3>1. UNCHANGED left /\ pc \notin {"safe", "done"}
      BY <2>5 DEF Correct, Rewrite, CorrectNode, CorrectDone, RewriteSpan, RewriteDone, output
    <3> QED  BY <3>1
  <2>6. CASE Register
    <3>1. UNCHANGED left /\ pc \notin {"safe", "done"}
      BY <2>6 DEF Register, RegisterOther, RegisterFatal, RegisterAbort, RegisterCall,
                  RegisterType, RegisterDone, AtNode, output
    <3> QED  BY <3>1
  <2>7. CASE Strip \/ EmitSnippet
    <3>1. UNCHANGED left /\ pc \notin {"safe", "done"}
      BY <2>7 DEF Strip, StripNode, StripDone, EmitSnippet, AtNode, output
    <3> QED  BY <3>1
  <2> QED  BY <2>1, <2>2, <2>3, <2>4, <2>5, <2>6, <2>7 DEF Next, Emit, Cut
<1>3. Idle => SafeSourceAssertHolds
  BY DEF SafeSourceAssertHolds
<1>4. Spec => []CutInductive
  BY CutInvariant
<1> QED  BY <1>1, <1>2, <1>3, <1>4, TypeCorrect, StripInvariant, PTL DEF Spec

-----------------------------------------------------------------------------
(* The directives go with the definitions they stand in.                   *)

(* The node Nearest returns, by what singles it out. *)
LEMMA NearestIs ==
  ASSUME NEW t \in Seq(Node), NEW n \in DOMAIN t, NEW s,
         NEW a \in 1..n, t[a].sym = s, Within(t, a, n),
         \A b \in 1..n : t[b].sym = s /\ Within(t, b, n) => b <= a
  PROVE  Nearest(t, n, s) = a
<1> DEFINE Holders == {b \in 1..n : t[b].sym = s /\ Within(t, b, n)}
<1>1. n \in Nat
  BY LenProperties
<1>2. Nearest(t, n, s) = Largest(Holders) /\ a \in Holders
      /\ Holders \in SUBSET (1..n) /\ \A b \in Holders : b <= a
  BY DEF Nearest
<1> HIDE DEF Holders
<1>3. Largest(Holders) \in Holders /\ \A y \in Holders : y <= Largest(Holders)
  BY <1>1, <1>2, LargestIn
<1>4. Largest(Holders) <= a /\ a <= Largest(Holders)
  BY <1>2, <1>3
<1>5. Largest(Holders) \in 1..n
  BY <1>2, <1>3
<1> QED  BY <1>1, <1>2, <1>4, <1>5

LEMMA NearestNone ==
  ASSUME NEW t \in Seq(Node), NEW n \in DOMAIN t, NEW s
  PROVE  Nearest(t, n, s) = 0
           <=> \A a \in 1..n : ~(t[a].sym = s /\ Within(t, a, n))
<1>1. ASSUME Nearest(t, n, s) # 0
      PROVE  \E a \in 1..n : t[a].sym = s /\ Within(t, a, n)
  BY <1>1, NearestHolds
<1>2. ASSUME \A a \in 1..n : ~(t[a].sym = s /\ Within(t, a, n))
      PROVE  Nearest(t, n, s) = 0
  BY <1>2, <1>1
<1>3. ASSUME NEW a \in 1..n, t[a].sym = s, Within(t, a, n), Nearest(t, n, s) = 0
      PROVE  FALSE
  <2> DEFINE Holders == {b \in 1..n : t[b].sym = s /\ Within(t, b, n)}
  <2>1. Nearest(t, n, s) = Largest(Holders) /\ a \in Holders
        /\ Holders \in SUBSET (1..n) /\ n \in Nat
    BY <1>3, LenProperties DEF Nearest
  <2> HIDE DEF Holders
  <2>2. Largest(Holders) \in 1..n
    BY <2>1, LargestIn
  <2> QED  BY <1>3, <2>1, <2>2
<1> QED  BY <1>2, <1>3

(* A name that no definition holds but the one at d, and those around it,  *)
(* has the strip root of everything in that definition.                    *)
LEMMA NameRoot ==
  ASSUME NEW t \in Seq(Node), SpansNest(t), NEW n \in DOMAIN t, NEW m \in DOMAIN t,
         Function(t, n) # 0 \/ Declaration(t, n) # 0 \/ Typedef(t, n) # 0,
         NEW d, d = StripRoot(t, n), d <= m, Within(t, d, m),
         \A a \in 1..m :
           Within(t, a, m) =>
             \/ a <= d
             \/ t[a].sym \notin {"function_definition", "declaration", "type_definition"}
  PROVE  d # 0 /\ StripRoot(t, m) = d
<1> DEFINE Kinds == {"function_definition", "declaration", "type_definition"}
<1>1. /\ t \in Seq(Node) /\ DOMAIN t = 1..Len(t) /\ Len(t) \in Nat
      /\ \A k \in DOMAIN t : t[k].last \in Nat
  <2>1. \A k \in DOMAIN t : t[k] \in Node
    BY LenProperties
  <2> QED  BY <2>1, LenProperties DEF Node
<1>2. d \in 1..n /\ Within(t, d, n) /\ d \in DOMAIN t /\ d \in 1..m /\ t[d].sym \in Kinds
  <2>1. d # 0
    BY DEF StripRoot
  <2>2. d \in 1..n /\ Within(t, d, n)
    BY <2>1, StripRootHolds
  <2>3. t[d].sym \in Kinds
    BY NearestHolds DEF StripRoot, Function, Declaration, Typedef
  <2> QED  BY <1>1, <2>2, <2>3
<1>3. ASSUME NEW a \in 1..m, a <= d, Within(t, a, m)
      PROVE  a \in 1..n /\ Within(t, a, n)
  <2>1. a \in DOMAIN t /\ Within(t, a, d)
    BY <1>1, <1>2, <1>3 DEF Within
  <2>2. t[d].last <= t[a].last
    BY <1>2, <2>1 DEF SpansNest
  <2> QED  BY <1>1, <1>2, <2>1, <2>2 DEF Within
<1>4. ASSUME NEW s \in Kinds, Nearest(t, n, s) = 0
      PROVE  Nearest(t, m, s) = 0
  <2>1. ASSUME NEW a \in 1..m, t[a].sym = s, Within(t, a, m)
        PROVE  FALSE
    <3>1. a \in 1..n /\ Within(t, a, n)
      BY <1>3, <2>1
    <3> QED  BY <1>4, <2>1, <3>1, NearestNone
  <2> QED  BY <2>1, NearestNone
<1>5. Nearest(t, m, t[d].sym) = d
  BY <1>2, NearestIs
<1>6. CASE Function(t, n) # 0
  <2>1. t[d].sym = "function_definition"
    BY <1>6, NearestHolds DEF StripRoot, Function
  <2> QED  BY <1>2, <1>5, <2>1 DEF StripRoot, Function
<1>7. CASE Function(t, n) = 0 /\ Declaration(t, n) # 0
  <2>1. t[d].sym = "declaration"
    BY <1>7, NearestHolds DEF StripRoot, Declaration
  <2>2. Function(t, m) = 0
    BY <1>4, <1>7 DEF Function
  <2> QED  BY <1>2, <1>5, <2>1, <2>2 DEF StripRoot, Declaration
<1>8. CASE Function(t, n) = 0 /\ Declaration(t, n) = 0 /\ Typedef(t, n) # 0
  <2>1. t[d].sym = "type_definition"
    BY <1>8, NearestHolds DEF StripRoot, Typedef
  <2>2. Function(t, m) = 0 /\ Declaration(t, m) = 0
    BY <1>4, <1>8 DEF Function, Declaration
  <2> QED  BY <1>2, <1>5, <2>1, <2>2 DEF StripRoot, Typedef
<1> QED  BY <1>6, <1>7, <1>8

(* The first child of a node's second child is held by the two of them and *)
(* by what holds the node, by nothing else.                                *)
LEMMA NameOfSecondChild ==
  ASSUME NEW t \in Seq(Node), NEW len, WellFormed(t, len), SpansNest(t),
         NEW d \in DOMAIN t, Child1(t, d) # 0, Child0(t, Child1(t, d)) # 0
  PROVE  LET c == Child1(t, d)
             m == Child0(t, c)
         IN /\ c \in DOMAIN t /\ m \in DOMAIN t /\ d <= m /\ Within(t, d, m)
            /\ \A a \in 1..m : Within(t, a, m) => a <= d \/ a = c \/ a = m
<1> DEFINE c == Child1(t, d)
           m == Child0(t, c)
<1>1. /\ DOMAIN t = 1..Len(t) /\ Len(t) \in Nat
      /\ \A k \in DOMAIN t : t[k].last \in Nat /\ k <= t[k].last /\ t[k].last <= Len(t)
  <2>1. \A k \in DOMAIN t : t[k] \in Node
    BY LenProperties
  <2> QED  BY <2>1, LenProperties DEF Node, WellFormed
<1>2. /\ d + 1 \in DOMAIN t /\ Within(t, d, d + 1)
      /\ c = t[d + 1].last + 1 /\ t[d + 1].last < t[d].last
  BY <1>1 DEF Child1, Child0, Within
<1>3. c \in DOMAIN t /\ Within(t, d, c)
  BY <1>1, <1>2 DEF Within
<1> HIDE DEF c
<1>4. m = c + 1 /\ c < t[c].last
  BY DEF Child0, c
<1> HIDE DEF m
<1>5. t[c].last <= t[d].last
  BY <1>3 DEF SpansNest
<1>6. m \in DOMAIN t /\ d <= m /\ Within(t, d, m)
  BY <1>1, <1>3, <1>4, <1>5 DEF Within
<1>7. ASSUME NEW a \in 1..m, Within(t, a, m), ~(a <= d), a # c, a # m
      PROVE  FALSE
  <2>1. a \in DOMAIN t /\ Within(t, d + 1, a)
    BY <1>1, <1>2, <1>3, <1>4, <1>6, <1>7 DEF Within
  <2>2. t[a].last <= t[d + 1].last
    BY <1>2, <2>1 DEF SpansNest
  <2>3. m <= t[a].last
    BY <1>7 DEF Within
  <2>4. t[a].last \in Nat /\ t[d + 1].last \in Nat
    BY <1>1, <1>2, <2>1
  <2>5. c = t[d + 1].last + 1 /\ m = c + 1
    BY <1>2, <1>4
  <2> QED  BY <2>2, <2>3, <2>4, <2>5
<1> QED  BY <1>3, <1>6, <1>7 DEF c, m

(* A directive in a definition that passes the asserts marks a name, and   *)
(* the strip root of that name is the one of the directive.                *)
LEMMA MarkedNameStripsRoot ==
  ASSUME NEW t \in Seq(Node), NEW len, WellFormed(t, len), SpansNest(t),
         NEW n \in DOMAIN t, ~BadShape(t, n),
         \/ Function(t, n) # 0 \/ Declaration(t, n) # 0
         \/ Typedef(t, n) # 0 /\ TypedefName(t, Typedef(t, n)) # 0
  PROVE  /\ StripRoot(t, n) # 0
         /\ \E m \in DOMAIN t : /\ t[m].sym \in {"identifier", "type_identifier"}
                               /\ t[m].name \in MarkedNames(t, n)
                               /\ StripRoot(t, m) = StripRoot(t, n)
<1> DEFINE d == StripRoot(t, n)
           Kinds == {"function_definition", "declaration", "type_definition"}
<1>1. d # 0 /\ d \in DOMAIN t
  BY StripRootHolds, StripRootIsRemovable DEF StripRoot
<1>2. CASE Function(t, n) # 0
  <2> DEFINE m == FunctionName(t, d)
  <2>1. d = Function(t, n) /\ m # 0
    BY <1>2 DEF StripRoot, BadShape
  <2>2. /\ m = Child0(t, Child1(t, d))
        /\ HasSym(t, Child1(t, d), "function_declarator") /\ HasSym(t, m, "identifier")
    BY <2>1 DEF FunctionName
  <2> HIDE DEF d, m
  <2>3. /\ m \in DOMAIN t /\ d <= m /\ Within(t, d, m)
        /\ \A a \in 1..m : Within(t, a, m) => a <= d \/ a = Child1(t, d) \/ a = m
    BY <1>1, <2>1, <2>2, NameOfSecondChild DEF HasSym
  <2>4. \A a \in 1..m : Within(t, a, m) => a <= d \/ t[a].sym \notin Kinds
    BY <2>2, <2>3 DEF HasSym
  <2>5. StripRoot(t, m) = d
    BY <1>2, <2>3, <2>4, NameRoot DEF d
  <2>6. t[m].name \in MarkedNames(t, n) /\ t[m].sym = "identifier"
    BY <1>2, <2>1, <2>2 DEF MarkedNames, HasSym, m
  <2> QED  BY <1>1, <2>3, <2>5, <2>6 DEF d
<1>3. CASE Function(t, n) = 0 /\ Declaration(t, n) # 0
  <2> DEFINE m == VariableName(t, d)
  <2>1. d = Declaration(t, n) /\ m # 0
    BY <1>3 DEF StripRoot, BadShape
  <2>2. /\ m = Child0(t, Child1(t, d))
        /\ HasSym(t, Child1(t, d), "init_declarator") /\ HasSym(t, m, "identifier")
    BY <2>1 DEF VariableName
  <2> HIDE DEF d, m
  <2>3. /\ m \in DOMAIN t /\ d <= m /\ Within(t, d, m)
        /\ \A a \in 1..m : Within(t, a, m) => a <= d \/ a = Child1(t, d) \/ a = m
    BY <1>1, <2>1, <2>2, NameOfSecondChild DEF HasSym
  <2>4. \A a \in 1..m : Within(t, a, m) => a <= d \/ t[a].sym \notin Kinds
    BY <2>2, <2>3 DEF HasSym
  <2>5. StripRoot(t, m) = d
    BY <1>3, <2>3, <2>4, NameRoot DEF d
  <2>6. t[m].name \in MarkedNames(t, n) /\ t[m].sym = "identifier"
    BY <1>3, <2>1, <2>2 DEF MarkedNames, HasSym, m
  <2> QED  BY <1>1, <2>3, <2>5, <2>6 DEF d
<1>4. CASE /\ Function(t, n) = 0 /\ Declaration(t, n) = 0 /\ Typedef(t, n) # 0
           /\ TypedefName(t, Typedef(t, n)) # 0
  <2> DEFINE m == TypedefName(t, d)
             Named == {c \in (d + 1)..t[d].last :
                         /\ Parent(t, c) = d
                         /\ t[c].sym \in {"identifier", "type_identifier"}
                         /\ t[c].ph < 0}
  <2>1. d = Typedef(t, n) /\ m # 0
    BY <1>4 DEF StripRoot
  <2>2. /\ DOMAIN t = 1..Len(t) /\ Len(t) \in Nat
        /\ t[d].last \in Nat /\ t[d].last <= Len(t)
    <3>1. t[d] \in Node
      BY <1>1, LenProperties
    <3> QED  BY <1>1, <3>1, LenProperties DEF Node, WellFormed
  <2>3. m = CHOOSE c \in Named : \A e \in Named : c <= e
    BY <2>1 DEF TypedefName
  <2>4. Named # {}
    BY <2>1 DEF TypedefName
  <2>5. Named \in SUBSET Nat
    BY <1>1, <2>2
  <2>6. m \in Named
    <3> HIDE DEF Named, m
    <3> QED  BY <2>3, <2>4, <2>5, SmallestExists
  <2>7. /\ m \in (d + 1)..t[d].last /\ Parent(t, m) = d
        /\ t[m].sym \in {"identifier", "type_identifier"}
    BY <2>6
  <2> HIDE DEF d, m, Named
  <2>8. m \in DOMAIN t /\ d <= m /\ Within(t, d, m)
    BY <1>1, <2>2, <2>7 DEF Within
  <2>9. \A a \in 1..m : Within(t, a, m) => a <= d \/ a = m
    <3> DEFINE Holders == {a \in 1..(m - 1) : Within(t, a, m)}
    <3>1. Holders \in SUBSET (1..(m - 1)) /\ m - 1 \in Nat
      BY <2>2, <2>8
    <3>2. Holders # {} => d = Largest(Holders)
      BY <2>7 DEF Parent
    <3> HIDE DEF Holders
    <3>3. \A a \in Holders : a <= d
      BY <3>1, <3>2, LargestIn
    <3> QED  BY <2>2, <2>8, <3>3 DEF Holders
  <2>10. \A a \in 1..m : Within(t, a, m) => a <= d \/ t[a].sym \notin Kinds
    BY <2>7, <2>9
  <2>11. StripRoot(t, m) = d
    BY <1>4, <2>8, <2>10, NameRoot DEF d
  <2>12. t[m].name \in MarkedNames(t, n)
    BY <1>4, <2>1 DEF MarkedNames, m
  <2> QED  BY <1>1, <2>7, <2>8, <2>11, <2>12 DEF d
<1> QED  BY <1>2, <1>3, <1>4

(* What the register pass has seen to when it has passed the node n. *)
Registered(n) ==
  LET t == Post[file]
  IN /\ ~(t[n].sym = "identifier" /\ IsComptimeType(t, n))
     /\ IsComptime(t, n) \/ IsPlaceholder(t, n)
          => ~BadShape(t, n) /\ MarkedNames(t, n) \subseteq comptime_dependencies
     /\ IsComptime(t, n) => Call(t, n) # 0

RegisterInductive ==
  /\ pc = "register" => \A n \in DOMAIN Post[file] : n < at => Registered(n)
  /\ pc \in {"strip", "snippets", "safe", "done"} =>
       \A n \in DOMAIN Post[file] : Registered(n)

LEMMA RegisterInvariant == Spec => []RegisterInductive
<1>1. Init => RegisterInductive
  BY DEF Init, RegisterInductive
<1>2. TypeOK /\ RegisterInductive /\ [Next]_vars => RegisterInductive'
  <2> SUFFICES ASSUME TypeOK, RegisterInductive, [Next]_vars
               PROVE  RegisterInductive'
    OBVIOUS
  <2> DEFINE t == Post[file]
  <2>a. file' = file /\ at \in Nat /\ DOMAIN t = 1..Len(t) /\ Len(t) \in Nat
    BY FileStays, FilesAssumption, LenProperties DEF TypeOK
  <2>b. ASSUME comptime_dependencies \subseteq comptime_dependencies'
        PROVE  \A n \in DOMAIN t : Registered(n) => Registered(n)'
    BY <2>a, <2>b DEF Registered
  <2>1. CASE Correct \/ Rewrite
    <3>1. \/ pc' \in {"correct", "rewrite", "abort"}
          \/ pc' = "register" /\ at' = 1
      <4>1. CASE Correct
        BY <4>1 DEF Correct, CorrectNode, CorrectDone, Advance, Enter
      <4>2. CASE RewriteSpan
        BY <4>2 DEF RewriteSpan, Advance, Stop
      <4>3. CASE RewriteDone
        BY <4>3 DEF RewriteDone, Enter
      <4> QED  BY <2>1, <4>1, <4>2, <4>3 DEF Rewrite
    <3> QED  BY <2>a, <3>1 DEF RegisterInductive
  <2>2. CASE RegisterOther
    <3>1. /\ pc = "register" /\ pc' = "register" /\ at' = at + 1
          /\ UNCHANGED comptime_dependencies /\ Tree = t
      BY <2>2 DEF RegisterOther, AtNode, Advance, collected, Tree
    <3>2. \A n \in DOMAIN t : n = at => Registered(n)
      BY <2>2, <3>1 DEF RegisterOther, Registered
    <3>3. \A n \in DOMAIN t : n < at' => Registered(n)
      BY <2>a, <3>1, <3>2 DEF RegisterInductive
    <3> QED  BY <2>a, <2>b, <3>1, <3>3 DEF RegisterInductive
  <2>3. CASE RegisterFatal \/ RegisterAbort
    BY <2>3 DEF RegisterFatal, RegisterAbort, Stop, RegisterInductive
  <2>4. CASE RegisterCall \/ RegisterType
    <3>1. /\ pc = "register" /\ pc' = "register" /\ at' = at + 1 /\ Tree = t
          /\ comptime_dependencies' = comptime_dependencies \cup MarkedNames(t, at)
          /\ ~BadShape(t, at)
          /\ \/ IsComptime(t, at) /\ Call(t, at) # 0
             \/ IsPlaceholder(t, at)
      BY <2>4 DEF RegisterCall, RegisterType, AtNode, Advance, Tree
    <3>2. ~(t[at].sym = "identifier" /\ IsComptimeType(t, at))
      BY <3>1 DEF IsComptime, IsComptimeType, IsPlaceholder, HasSym
    <3>3. \A n \in DOMAIN t : n = at => Registered(n)'
      <4>1. MarkedNames(t, at) \subseteq comptime_dependencies'
        BY <3>1
      <4>2. IsComptime(t, at) => Call(t, at) # 0
        BY <3>1 DEF IsComptime, IsPlaceholder, HasSym
      <4> QED  BY <2>a, <3>1, <3>2, <4>1, <4>2 DEF Registered
    <3>4. \A n \in DOMAIN t : n < at => Registered(n)'
      BY <2>b, <3>1 DEF RegisterInductive
    <3>5. \A n \in DOMAIN t : n < at' => n < at \/ n = at
      BY <2>a, <3>1
    <3> QED  BY <2>a, <3>1, <3>3, <3>4, <3>5 DEF RegisterInductive
  <2>5. CASE RegisterDone
    <3>1. /\ pc = "register" /\ pc' = "strip" /\ at > Len(t)
          /\ UNCHANGED comptime_dependencies
      BY <2>5 DEF RegisterDone, Enter, collected, Tree
    <3>2. \A n \in DOMAIN t : Registered(n)
      BY <2>a, <3>1 DEF RegisterInductive
    <3> QED  BY <2>a, <2>b, <3>1, <3>2 DEF RegisterInductive
  <2>6. CASE Strip \/ Emit \/ Cut \/ UNCHANGED vars
    <3>1. UNCHANGED comptime_dependencies
      BY <2>6, Zenon DEF Strip, Emit, Cut, StripNode, StripDone, EmitSnippet, SnippetsDone,
                         CutRange, CopyTail, vars, collected
    <3>2. \/ pc \in {"strip", "snippets", "safe"} /\ pc' # "register"
          \/ pc' = pc /\ at' = at
      <4>1. CASE Strip
        BY <4>1 DEF Strip, StripNode, StripDone, AtNode, Advance, Enter, Stop
      <4>2. CASE Emit
        BY <4>2 DEF Emit, EmitSnippet, SnippetsDone, Advance, Enter
      <4>3. CASE CutRange
        <5>1. pc = "safe"
          BY <4>3 DEF CutRange
        <5>2. pc' = pc \/ pc' = "abort"
          BY <4>3, Zenon DEF CutRange
        <5> QED  BY <5>1, <5>2
      <4>4. CASE CopyTail \/ UNCHANGED vars
        BY <4>4 DEF CopyTail, Enter, vars
      <4> QED  BY <2>6, <4>1, <4>2, <4>3, <4>4 DEF Cut
    <3> QED  BY <2>a, <2>b, <3>1, <3>2 DEF RegisterInductive
  <2> QED  BY <2>1, <2>2, <2>3, <2>4, <2>5, <2>6 DEF Next, Register
<1> QED  BY <1>1, <1>2, TypeCorrect, PTL DEF Spec

(* The text the runner includes holds no directive it could not compile:   *)
(* each was cut with the definition it stands in, whose own name the        *)
(* register pass had put in the hash map.                                  *)
THEOREM DirectivesCut ==
  ASSUME \A f \in Files : RootsBeginApart(Post[f]) /\ DirectivesDefine(Post[f])
  PROVE  Spec => []NoDirectiveLeft
<1>1. TypeOK /\ RegisterInductive /\ StripInductive /\ CutInductive => NoDirectiveLeft
  <2> SUFFICES ASSUME TypeOK, RegisterInductive, StripInductive, CutInductive, pc = "done",
                      NEW n \in DOMAIN Tree,
                      \/ Tree[n].ph >= 0 \/ IsComptimeType(Tree, n)
                      \/ IsComptime(Tree, n) /\ Function(Tree, n) + Declaration(Tree, n) > 0
               PROVE  Gone(n)
    BY DEF NoDirectiveLeft
  <2> DEFINE t == Post[file]
             a == StripRoot(t, n)
  <2>1. /\ t \in Seq(Node) /\ WellFormed(t, PostLen[file]) /\ SpansNest(t) /\ Tree = t
        /\ n \in DOMAIN t /\ DirectivesDefine(t) /\ Registered(n)
    BY FilesAssumption DEF TypeOK, Tree, RegisterInductive
  <2>2. /\ ~BadShape(t, n) /\ MarkedNames(t, n) \subseteq comptime_dependencies
        /\ \/ Function(t, n) + Declaration(t, n) > 0
           \/ Typedef(t, n) # 0 /\ TypedefName(t, Typedef(t, n)) # 0
    <3>1. CASE t[n].ph >= 0
      <4>1. /\ IsPlaceholder(t, n)
            /\ \/ Function(t, n) + Declaration(t, n) > 0
               \/ Typedef(t, n) # 0 /\ TypedefName(t, Typedef(t, n)) # 0
        BY <2>1, <3>1 DEF DirectivesDefine, IsPlaceholder
      <4> QED  BY <2>1, <4>1 DEF Registered
    <3>2. CASE IsComptimeType(t, n)
      BY <2>1, <3>2 DEF IsComptimeType, DirectivesDefine, Registered
    <3>3. CASE IsComptime(t, n) /\ Function(t, n) + Declaration(t, n) > 0
      BY <2>1, <3>3 DEF Registered
    <3> QED  BY <2>1, <3>1, <3>2, <3>3
  <2>3. \/ Function(t, n) # 0 \/ Declaration(t, n) # 0
        \/ Typedef(t, n) # 0 /\ TypedefName(t, Typedef(t, n)) # 0
    BY <2>2
  <2>4. /\ a # 0
        /\ \E m \in DOMAIN t : /\ t[m].sym \in {"identifier", "type_identifier"}
                              /\ t[m].name \in MarkedNames(t, n)
                              /\ StripRoot(t, m) = a
    BY <2>1, <2>2, <2>3, MarkedNameStripsRoot
  <2>5. PICK m \in Uses : StripRoot(t, m) = a
    BY <2>2, <2>4 DEF Uses, UsesDependency
  <2>6. \E k \in DOMAIN to_be_removed : to_be_removed[k] = Extent(t, a)
    BY <2>5 DEF StripInductive, Listed, RangeOf
  <2>7. a \in DOMAIN t /\ Within(t, a, n)
    BY <2>1, <2>4, StripRootHolds, LenProperties
  <2>8. t[a].lo <= t[n].lo /\ t[n].hi <= t[a].hi
    BY <2>1, <2>7 DEF SpansNest
  <2>9. \A k \in DOMAIN kept : kept[k].hi <= t[a].lo \/ t[a].hi <= kept[k].lo
    BY <2>6 DEF CutInductive, Clear, Extent
  <2>10. /\ t[a].lo \in Nat /\ t[a].hi \in Nat /\ t[n].lo \in Nat /\ t[n].hi \in Nat
         /\ \A k \in DOMAIN kept : kept[k].lo \in Nat /\ kept[k].hi \in Nat
    <3>1. t[a] \in Node /\ t[n] \in Node /\ \A k \in DOMAIN kept : kept[k] \in Slice
      BY <2>1, <2>7, LenProperties DEF TypeOK
    <3> QED  BY <3>1 DEF Node, Slice
  <2> HIDE DEF t, a
  <2> QED  BY <2>1, <2>8, <2>9, <2>10 DEF Gone
<1>2. Spec => []CutInductive
  BY CutInvariant
<1> QED  BY <1>1, <1>2, TypeCorrect, RegisterInvariant, StripInvariant, PTL

(* A name is in the hash map because a directive of the file marks it. *)
LEMMA DependenciesAreMarked ==
  Spec => [](comptime_dependencies \subseteq Marked(Post[file]))
<1> DEFINE Inv == comptime_dependencies \subseteq Marked(Post[file])
<1>1. Init => Inv
  BY DEF Init
<1>2. TypeOK /\ Inv /\ [Next]_vars => Inv'
  <2> SUFFICES ASSUME TypeOK, Inv, [Next]_vars PROVE Inv'
    OBVIOUS
  <2>1. file' = file
    BY FileStays
  <2>2. CASE RegisterCall \/ RegisterType
    <3>1. /\ comptime_dependencies' = comptime_dependencies \cup MarkedNames(Tree, at)
          /\ Tree = Post[file] /\ at \in DOMAIN Post[file]
          /\ IsComptime(Tree, at) \/ IsPlaceholder(Tree, at)
      <4>1. /\ comptime_dependencies' = comptime_dependencies \cup MarkedNames(Tree, at)
            /\ pc = "register" /\ at <= Len(Tree)
            /\ IsComptime(Tree, at) \/ IsPlaceholder(Tree, at)
        BY <2>2 DEF RegisterCall, RegisterType, AtNode
      <4>2. Tree = Post[file] /\ at \in DOMAIN Post[file]
        BY <4>1, FilesAssumption, LenProperties DEF Tree, TypeOK
      <4> QED  BY <4>1, <4>2
    <3>2. at \in Directives(Post[file])
      BY <3>1 DEF Directives
    <3>3. MarkedNames(Post[file], at) \subseteq Marked(Post[file])
      BY <3>2 DEF Marked
    <3> HIDE DEF MarkedNames
    <3> QED  BY <2>1, <3>1, <3>3
  <2>3. CASE ~(RegisterCall \/ RegisterType)
    <3>1. comptime_dependencies' = comptime_dependencies
      BY <2>3, Zenon DEF Next, Correct, Rewrite, Register, Strip, Emit, Cut, vars, collected,
         CorrectNode, CorrectDone, RewriteSpan, RewriteDone, RegisterOther, RegisterFatal,
         RegisterAbort, RegisterDone, StripNode, StripDone, EmitSnippet, SnippetsDone,
         CutRange, CopyTail
    <3> QED  BY <2>1, <3>1
  <2> QED  BY <2>2, <2>3
<1> HIDE DEF Inv
<1>3. Spec => []Inv
  BY <1>1, <1>2, TypeCorrect, PTL DEF Spec
<1> QED  BY <1>3 DEF Inv

(* What the runner includes refers to definitions it includes: a name that  *)
(* is kept stands in nothing a marked name had cut, and has a definition   *)
(* that speaks of no marked name, which survives.                          *)
THEOREM RunnerLinksCorrect ==
  ASSUME \A f \in Files : RootsBeginApart(Post[f]) /\ MarkingReaches(Post[f])
  PROVE  Spec => []RunnerLinks
<1>1. TypeOK /\ RegisterInductive /\ StripInductive /\ CutInductive /\ SurviveInductive
        /\ comptime_dependencies \subseteq Marked(Post[file]) => RunnerLinks
  <2> SUFFICES ASSUME TypeOK, RegisterInductive, StripInductive, CutInductive, SurviveInductive,
                      comptime_dependencies \subseteq Marked(Post[file]), pc = "done",
                      NEW n \in DOMAIN Tree, Tree[n].sym = "identifier", Kept(n),
                      Defining(Tree, Tree[n].name) # {}
               PROVE  \E r \in Defining(Tree, Tree[n].name) : Kept(r)
    BY DEF RunnerLinks
  <2> DEFINE t == Post[file]
  <2>1. /\ t \in Seq(Node) /\ SpansNest(t) /\ Tree = t /\ MarkingReaches(t)
        /\ DOMAIN t = 1..Len(t) /\ Len(t) \in Nat
    BY FilesAssumption, LenProperties DEF TypeOK, Tree
  <2>2. Marked(t) \subseteq comptime_dependencies
    <3>1. ASSUME NEW m \in Directives(t) PROVE MarkedNames(t, m) \subseteq comptime_dependencies
      <4>1. m \in DOMAIN t /\ (IsComptime(t, m) \/ IsPlaceholder(t, m))
        BY DEF Directives
      <4>2. Registered(m)
        BY <4>1 DEF RegisterInductive
      <4> QED  BY <4>1, <4>2 DEF Registered
    <3> QED  BY <3>1 DEF Marked
  <2>3. Uses = MarkedUses(t)
    <3> HIDE DEF t
    <3>1. comptime_dependencies = Marked(t)
      BY <2>2 DEF t
    <3> QED  BY <3>1 DEF Uses, MarkedUses, UsesDependency, t
  <2>4. t[n].lo < t[n].hi
    BY <2>1 DEF MarkingReaches
  <2>5. ASSUME NEW m \in MarkedUses(t), StripRoot(t, m) # 0 PROVE ~Within(t, StripRoot(t, m), n)
    <3> DEFINE a == StripRoot(t, m)
    <3> SUFFICES ASSUME Within(t, a, n) PROVE FALSE
      OBVIOUS
    <3>1. m \in DOMAIN t /\ \E k \in DOMAIN to_be_removed : to_be_removed[k] = Extent(t, a)
      BY <2>3 DEF StripInductive, Listed, RangeOf, MarkedUses
    <3>2. a \in DOMAIN t
      BY <2>1, <2>5, <3>1, StripRootHolds
    <3>3. t[a].lo <= t[n].lo /\ t[n].hi <= t[a].hi
      BY <2>1, <3>2 DEF SpansNest
    <3>4. \A k \in DOMAIN kept : kept[k].hi <= t[a].lo \/ t[a].hi <= kept[k].lo
      BY <3>1 DEF CutInductive, Clear, Extent
    <3>5. PICK k \in DOMAIN kept : kept[k].lo <= t[n].lo /\ t[n].hi <= kept[k].hi
      BY <2>1 DEF Kept
    <3>6. /\ t[a].lo \in Nat /\ t[a].hi \in Nat /\ t[n].lo \in Nat /\ t[n].hi \in Nat
          /\ kept[k].lo \in Nat /\ kept[k].hi \in Nat
      <4>1. t[a] \in Node /\ t[n] \in Node /\ kept[k] \in Slice
        BY <2>1, <3>2, LenProperties DEF TypeOK
      <4> QED  BY <4>1 DEF Node, Slice
    <3> HIDE DEF t, a
    <3> QED  BY <2>4, <3>3, <3>4, <3>5, <3>6
  <2>6. \A r \in {StripRoot(t, m) : m \in MarkedUses(t)} \ {0} : ~Within(t, r, n)
    BY <2>5
  <2>7. PICK d \in Defining(t, t[n].name) : \A m \in MarkedUses(t) : ~Within(t, d, m)
    BY <2>1, <2>6 DEF MarkingReaches
  <2>8. d \in Independent
    <3>1. d \in DOMAIN t /\ Parent(t, d) = 0
      BY DEF Defining, TopLevel
    <3>2. \A m \in d..t[d].last : m \notin MarkedUses(t)
      <4>1. t[d].last \in Nat /\ d \in Nat
        <5>1. t[d] \in Node /\ d \in 1..Len(t)
          BY <2>1, <3>1, LenProperties
        <5> HIDE DEF t
        <5>2. t[d].last \in Nat
          BY <5>1 DEF Node
        <5>3. d \in Nat
          BY <2>1, <5>1
        <5> QED  BY <5>2, <5>3
      <4> QED  BY <2>7, <4>1 DEF Within
    <3> QED  BY <2>3, <3>1, <3>2 DEF Independent
  <2>9. Kept(d)
    BY <2>1, <2>8 DEF SurviveInductive, Whole, Kept
  <2> QED  BY <2>1, <2>7, <2>9
<1>2. Spec => []CutInductive
  BY CutInvariant
<1> QED  BY <1>1, <1>2, TypeCorrect, RegisterInvariant, StripInvariant, SurviveInvariant,
            DependenciesAreMarked, PTL

-----------------------------------------------------------------------------
(* Which block each statement is.                                          *)

LEMMA RankSteps ==
  ASSUME NEW S, NEW k \in Nat
  PROVE  /\ Rank(S, k) \in Nat
         /\ k = 0 => Rank(S, k) = 0
         /\ k + 1 \in S => Rank(S, k + 1) = Rank(S, k) + 1
         /\ k + 1 \notin S => Rank(S, k + 1) = Rank(S, k)
<1>1. ASSUME NEW n \in Nat PROVE IsFiniteSet(S \cap (1..n)) /\ Rank(S, n) \in Nat
  <2>1. IsFiniteSet(1..n)
    BY FS_Interval
  <2>2. IsFiniteSet(S \cap (1..n))
    BY <2>1, FS_Subset
  <2> QED  BY <2>2, FS_CardinalityType DEF Rank
<1>2. k = 0 => Rank(S, k) = 0
  <2>1. k = 0 => S \cap (1..k) = {}
    OBVIOUS
  <2> QED  BY <2>1, FS_EmptySet DEF Rank
<1>3. ASSUME k + 1 \in S PROVE Rank(S, k + 1) = Rank(S, k) + 1
  <2>1. S \cap (1..(k + 1)) = (S \cap (1..k)) \cup {k + 1}
    BY <1>3
  <2>2. k + 1 \notin S \cap (1..k)
    OBVIOUS
  <2> QED  BY <1>1, <2>1, <2>2, FS_AddElement DEF Rank
<1>4. ASSUME k + 1 \notin S PROVE Rank(S, k + 1) = Rank(S, k)
  <2>1. S \cap (1..(k + 1)) = S \cap (1..k)
    BY <1>4
  <2> QED  BY <2>1 DEF Rank
<1> QED  BY <1>1, <1>2, <1>3, <1>4

(* The rewritten spans are those of the nodes corrected so far, in order.   *)
SpansInOrder ==
  /\ \A i \in 1..Len(corrections) :
       \E m \in Corrected(file) : Rank(Corrected(file), m) = i /\ corrections[i] \in SpansAt(file, m)
  /\ pc = "correct" => Len(corrections) = Rank(Corrected(file), at - 1)
  /\ pc \notin {"correct", "abort"} => Len(corrections) = Rank(Corrected(file), Len(Pre[file]))
  /\ Len(comptimetype_stmts) <= Len(corrections)
  /\ pc = "correct" => comptimetype_stmts = <<>>
  /\ pc = "rewrite" => Len(comptimetype_stmts) = at - 1
  /\ pc \notin {"correct", "rewrite", "abort"} => Len(comptimetype_stmts) = Len(corrections)
  /\ \A i \in 1..Len(comptimetype_stmts) :
       comptimetype_stmts[i] =
         [buf |-> "pp_source", lo |-> corrections[i].lo, hi |-> corrections[i].hi]

LEMMA SpansInvariant == Spec => []SpansInOrder
<1>1. Init => SpansInOrder
  <2> SUFFICES ASSUME Init PROVE SpansInOrder
    OBVIOUS
  <2>1. /\ pc = "correct" /\ at = 1 /\ corrections = <<>> /\ comptimetype_stmts = <<>>
    BY DEF Init
  <2>2. Rank(Corrected(file), at - 1) = 0
    <3>1. at - 1 = 0 /\ 0 \in Nat
      BY <2>1
    <3> QED  BY <3>1, RankSteps
  <2> QED  BY <2>1, <2>2 DEF SpansInOrder
<1>2. TypeOK /\ SpansInOrder /\ [Next]_vars => SpansInOrder'
  <2> SUFFICES ASSUME TypeOK, SpansInOrder, [Next]_vars PROVE SpansInOrder'
    OBVIOUS
  <2> DEFINE S == Corrected(file)
  <2>a. /\ file' = file /\ file \in Files /\ at \in Nat \ {0}
        /\ corrections \in Seq(Slice) /\ comptimetype_stmts \in Seq(SourceSlice)
        /\ Len(corrections) \in Nat /\ Len(comptimetype_stmts) \in Nat
        /\ DOMAIN Pre[file] = 1..Len(Pre[file]) /\ Len(Pre[file]) \in Nat
    BY FileStays, FilesAssumption, LenProperties DEF TypeOK
  <2>b. S' = S
    BY <2>a DEF Corrected, SpansAt, RecoveredSpan
  <2>c. \A m : SpansAt(file, m)' = SpansAt(file, m)
    BY <2>a DEF SpansAt, RecoveredSpan
  <2>1. CASE CorrectNode
    <3>1. /\ pc = "correct" /\ pc' = "correct" /\ at' = at + 1 /\ at <= Len(Pre[file])
          /\ comptimetype_stmts' = comptimetype_stmts
          /\ \/ SpansAt(file, at) = {} /\ corrections' = corrections
             \/ /\ SpansAt(file, at) # {}
                /\ \E s \in SpansAt(file, at) : corrections' = Append(corrections, s)
      BY <2>1 DEF CorrectNode, Advance, Tree
    <3>2. /\ at - 1 \in Nat /\ (at - 1) + 1 = at /\ at' - 1 = at
          /\ at \in DOMAIN Pre[file]
      BY <2>a, <3>1
    <3>3. Len(corrections) = Rank(S, at - 1) /\ comptimetype_stmts = <<>>
      BY <3>1 DEF SpansInOrder
    <3>4. comptimetype_stmts' = <<>> /\ Len(comptimetype_stmts') = 0
      BY <3>1, <3>3
    <3>5. CASE SpansAt(file, at) = {}
      <4>1. corrections' = corrections /\ at \notin S
        BY <3>1, <3>5 DEF Corrected
      <4>2. Rank(S, at) = Rank(S, at - 1)
        BY <3>2, <4>1, RankSteps
      <4> QED  BY <2>a, <2>b, <2>c, <3>1, <3>2, <3>3, <3>4, <4>1, <4>2 DEF SpansInOrder
    <3>6. CASE SpansAt(file, at) # {}
      <4>1. PICK s \in SpansAt(file, at) : corrections' = Append(corrections, s)
        BY <3>1, <3>6
      <4>2. at \in S
        BY <3>2, <3>6 DEF Corrected
      <4>3. Rank(S, at) = Rank(S, at - 1) + 1
        BY <3>2, <4>2, RankSteps
      <4>4. /\ Len(corrections') = Len(corrections) + 1
            /\ corrections'[Len(corrections) + 1] = s
            /\ \A i \in 1..Len(corrections) : corrections'[i] = corrections[i]
        BY <2>a, <4>1
      <4>5. ASSUME NEW i \in 1..Len(corrections')
            PROVE  \E m \in S : Rank(S, m) = i /\ corrections'[i] \in SpansAt(file, m)
        <5>1. CASE i = Len(corrections) + 1
          BY <3>3, <4>2, <4>3, <4>4, <5>1
        <5>2. CASE i # Len(corrections) + 1
          <6>1. i \in 1..Len(corrections)
            BY <2>a, <4>4, <5>2
          <6> QED  BY <4>4, <6>1 DEF SpansInOrder
        <5> QED  BY <5>1, <5>2
      <4>6. Len(corrections') = Rank(S, at) /\ 0 <= Len(corrections')
        BY <2>a, <3>3, <4>3, <4>4
      <4> HIDE DEF S
      <4> QED  BY <2>b, <2>c, <3>1, <3>2, <3>4, <4>5, <4>6 DEF SpansInOrder, S
    <3> QED  BY <3>5, <3>6
  <2>2. CASE CorrectDone
    <3>1. /\ pc = "correct" /\ pc' = "rewrite" /\ at' = 1 /\ at > Len(Pre[file])
          /\ UNCHANGED <<corrections, comptimetype_stmts>>
      BY <2>2 DEF CorrectDone, Enter, rewriting, Tree
    <3>2. Len(corrections) = Rank(S, Len(Pre[file]))
      <4>1. Len(corrections) = Rank(S, at - 1)
        BY <3>1 DEF SpansInOrder
      <4>2. S \cap (1..(at - 1)) = S \cap (1..Len(Pre[file]))
        BY <2>a, <3>1 DEF Corrected
      <4> QED  BY <4>1, <4>2 DEF Rank
    <3>3. Len(comptimetype_stmts) = at' - 1
      BY <3>1 DEF SpansInOrder
    <3> QED  BY <2>a, <2>b, <2>c, <3>1, <3>2, <3>3 DEF SpansInOrder
  <2>3. CASE RewriteSpan
    <3>1. /\ pc = "rewrite" /\ at <= Len(corrections) /\ corrections' = corrections
          /\ \/ /\ pc' = "rewrite" /\ at' = at + 1
                /\ comptimetype_stmts' =
                     Append(comptimetype_stmts,
                            [buf |-> "pp_source", lo |-> corrections[at].lo,
                             hi |-> corrections[at].hi])
             \/ pc' = "abort" /\ comptimetype_stmts' = comptimetype_stmts
      BY <2>3 DEF RewriteSpan, Advance, Stop
    <3>2. Len(comptimetype_stmts) = at - 1
      BY <3>1 DEF SpansInOrder
    <3>3. CASE pc' = "abort" /\ comptimetype_stmts' = comptimetype_stmts
      BY <2>a, <2>b, <2>c, <3>1, <3>3 DEF SpansInOrder
    <3>4. CASE /\ pc' = "rewrite" /\ at' = at + 1
               /\ comptimetype_stmts' =
                     Append(comptimetype_stmts,
                            [buf |-> "pp_source", lo |-> corrections[at].lo,
                             hi |-> corrections[at].hi])
      <4> DEFINE s == [buf |-> "pp_source", lo |-> corrections[at].lo, hi |-> corrections[at].hi]
      <4> HIDE DEF s
      <4>1. comptimetype_stmts' = Append(comptimetype_stmts, s)
        BY <3>4 DEF s
      <4>2. /\ Len(comptimetype_stmts') = at /\ comptimetype_stmts'[at] = s
            /\ \A i \in 1..(at - 1) : comptimetype_stmts'[i] = comptimetype_stmts[i]
        BY <2>a, <3>2, <4>1
      <4>3. ASSUME NEW i \in 1..at
            PROVE  comptimetype_stmts'[i] =
                     [buf |-> "pp_source", lo |-> corrections[i].lo, hi |-> corrections[i].hi]
        <5>1. CASE i = at
          BY <4>2, <5>1 DEF s
        <5>2. CASE i # at
          <6>1. i \in 1..(at - 1)
            BY <2>a, <5>2
          <6> QED  BY <3>2, <4>2, <6>1 DEF SpansInOrder
        <5> QED  BY <5>1, <5>2
      <4>4. at' - 1 = at
        BY <2>a, <3>4
      <4> QED  BY <2>a, <2>b, <2>c, <3>1, <3>4, <4>2, <4>3, <4>4 DEF SpansInOrder
    <3> QED  BY <3>1, <3>3, <3>4
  <2>4. CASE RewriteDone
    <3>1. /\ pc = "rewrite" /\ pc' = "register" /\ at > Len(corrections)
          /\ UNCHANGED <<corrections, comptimetype_stmts>>
      BY <2>4 DEF RewriteDone, Enter, rewriting
    <3>2. Len(comptimetype_stmts) = Len(corrections)
      <4>1. Len(comptimetype_stmts) = at - 1 /\ Len(comptimetype_stmts) <= Len(corrections)
        BY <3>1 DEF SpansInOrder
      <4> QED  BY <2>a, <3>1, <4>1
    <3> QED  BY <2>a, <2>b, <2>c, <3>1, <3>2 DEF SpansInOrder
  <2>5. CASE Register \/ Strip \/ Emit \/ Cut
    <3>1. /\ UNCHANGED <<corrections, comptimetype_stmts>>
          /\ pc \notin {"correct", "rewrite", "abort"} /\ pc' \notin {"correct", "rewrite"}
      <4>1. CASE Register
        BY <4>1, Zenon DEF Register, RegisterOther, RegisterFatal, RegisterAbort, RegisterCall,
           RegisterType, RegisterDone, AtNode, Advance, Stop, Enter, rewriting
      <4>2. CASE Strip
        BY <4>2, Zenon DEF Strip, StripNode, StripDone, AtNode, Advance, Stop, Enter, rewriting
      <4>3. CASE Emit
        BY <4>3, Zenon DEF Emit, EmitSnippet, SnippetsDone, Advance, Enter, rewriting
      <4>4. CASE Cut
        BY <4>4, Zenon DEF Cut, CutRange, CopyTail, Enter, rewriting
      <4> QED  BY <2>5, <4>1, <4>2, <4>3, <4>4
    <3> QED  BY <2>a, <2>b, <2>c, <3>1 DEF SpansInOrder
  <2>6. CASE UNCHANGED vars
    BY <2>a, <2>b, <2>c, <2>6 DEF vars, SpansInOrder
  <2> QED  BY <2>1, <2>2, <2>3, <2>4, <2>5, <2>6 DEF Next, Correct, Rewrite
<1> QED  BY <1>1, <1>2, TypeCorrect, PTL DEF Spec

(* The block as a statement.                                               *)
Written(f, i) ==
  [buf |-> Invocations[f][i].buf, lo |-> Invocations[f][i].lo, hi |-> Invocations[f][i].hi]

(* The statements collected so far are the blocks of the directives met so  *)
(* far.                                                                    *)
BlocksInOrder ==
  /\ pc \in {"correct", "rewrite"} => comptime_stmts = <<>>
  /\ pc = "register" => Len(comptime_stmts) = Rank(Directives(Post[file]), at - 1)
  /\ pc \in {"strip", "snippets", "safe", "done"} =>
       Len(comptime_stmts) = Rank(Directives(Post[file]), Len(Post[file]))
  /\ \A i \in 1..Len(comptime_stmts) : comptime_stmts[i] = Written(file, i)

(* The statement that the walk appends at a directive is the next block.    *)
LEMMA NextBlock ==
  ASSUME TypeOK, SpansInOrder, TreesShowBlocks(file), RegisterCall \/ RegisterType
  PROVE  /\ pc = "register" /\ pc' = "register" /\ at' = at + 1
         /\ at \in Directives(Post[file])
         /\ comptime_stmts' =
              Append(comptime_stmts, Written(file, Rank(Directives(Post[file]), at)))
<1> DEFINE t == Post[file]
           i == Rank(Directives(t), at)
           v == Invocations[file][i]
<1>1. /\ pc = "register" /\ pc' = "register" /\ at' = at + 1 /\ Tree = t /\ at <= Len(t)
  BY DEF RegisterCall, RegisterType, AtNode, Advance, Tree
<1>2. at \in DOMAIN t
  BY <1>1, FilesAssumption, LenProperties DEF TypeOK
<1>3. at \in Directives(t)
  BY <1>1, <1>2 DEF RegisterCall, RegisterType, Directives
<1>4. ~(IsComptime(t, at) /\ IsPlaceholder(t, at))
  BY DEF IsComptime, IsPlaceholder, HasSym
<1>5. CASE RegisterCall
  <2>1. /\ IsComptime(t, at) /\ Call(t, at) # 0
        /\ comptime_stmts' = Append(comptime_stmts, [buf |-> "processed_source",
                                                     lo |-> t[Call(t, at)].lo,
                                                     hi |-> t[Call(t, at)].hi])
    BY <1>1, <1>5 DEF RegisterCall
  <2>2. v.buf = "processed_source" /\ Extent(t, Call(t, at)) = [lo |-> v.lo, hi |-> v.hi]
    BY <1>3, <1>4, <2>1 DEF TreesShowBlocks
  <2>3. t[Call(t, at)].lo = v.lo /\ t[Call(t, at)].hi = v.hi
    BY <2>2 DEF Extent
  <2> QED  BY <1>1, <1>3, <2>1, <2>2, <2>3 DEF Written
<1>6. CASE RegisterType
  <2>1. /\ IsPlaceholder(t, at) /\ KnownPlaceholder(t[at].ph)
        /\ comptime_stmts' = Append(comptime_stmts, comptimetype_stmts[t[at].ph + 1])
    BY <1>1, <1>6 DEF RegisterType
  <2>2. /\ v.buf = "pp_source"
        /\ \A m \in Corrected(file) :
             Rank(Corrected(file), m) = t[at].ph + 1 => SpansAt(file, m) = {[lo |-> v.lo, hi |-> v.hi]}
    BY <1>3, <1>4, <2>1 DEF TreesShowBlocks
  <2> DEFINE k == t[at].ph + 1
  <2>3. k \in 1..Len(comptimetype_stmts) /\ k \in 1..Len(corrections)
    <3>1. t[at].ph \in Int
      <4>1. t[at] \in Node
        BY <1>2, FilesAssumption, ElementOfSeq, LenProperties DEF TypeOK
      <4> QED  BY <4>1 DEF Node
    <3>2. t[at].ph >= 0 /\ t[at].ph < Len(comptimetype_stmts)
      BY <2>1 DEF IsPlaceholder, KnownPlaceholder
    <3>3. Len(comptimetype_stmts) <= Len(corrections)
          /\ Len(comptimetype_stmts) \in Nat /\ Len(corrections) \in Nat
      BY LenProperties DEF SpansInOrder, TypeOK
    <3> QED  BY <3>1, <3>2, <3>3
  <2> HIDE DEF k
  <2>4. comptimetype_stmts[k] =
          [buf |-> "pp_source", lo |-> corrections[k].lo, hi |-> corrections[k].hi]
    BY <2>3 DEF SpansInOrder
  <2>5. corrections[k] = [lo |-> v.lo, hi |-> v.hi]
    <3>1. PICK m \in Corrected(file) :
            Rank(Corrected(file), m) = k /\ corrections[k] \in SpansAt(file, m)
      BY <2>3 DEF SpansInOrder
    <3>2. SpansAt(file, m) = {[lo |-> v.lo, hi |-> v.hi]}
      BY <2>2, <3>1 DEF k
    <3> QED  BY <3>1, <3>2
  <2>6. comptimetype_stmts[k] = Written(file, i)
    BY <2>2, <2>4, <2>5 DEF Written
  <2> QED  BY <1>1, <1>3, <2>1, <2>6 DEF k
<1> QED  BY <1>5, <1>6

LEMMA BlocksInvariant == Spec => [](TreesShowBlocks(file) => BlocksInOrder)
<1>1. Init => BlocksInOrder
  BY DEF Init, BlocksInOrder
<1>2. TypeOK /\ SpansInOrder /\ (TreesShowBlocks(file) => BlocksInOrder) /\ [Next]_vars
        => (TreesShowBlocks(file) => BlocksInOrder)'
  <2>0. [Next]_vars => (TreesShowBlocks(file)' <=> TreesShowBlocks(file))
    BY FileStays DEF TreesShowBlocks
  <2> SUFFICES ASSUME TypeOK, SpansInOrder, TreesShowBlocks(file), BlocksInOrder, [Next]_vars
               PROVE  BlocksInOrder'
    BY <2>0
  <2> DEFINE t == Post[file]
             D == Directives(t)
  <2>a. /\ file' = file /\ file \in Files /\ at \in Nat \ {0}
        /\ comptime_stmts \in Seq(SourceSlice) /\ Len(comptime_stmts) \in Nat
        /\ DOMAIN t = 1..Len(t) /\ Len(t) \in Nat
    BY FileStays, FilesAssumption, LenProperties DEF TypeOK
  <2>b. D' = D /\ t' = t /\ \A i : Written(file, i)' = Written(file, i)
    BY <2>a DEF Directives, Written, IsComptime, IsPlaceholder, HasSym
  <2>c. at - 1 \in Nat /\ (at - 1) + 1 = at
    BY <2>a
  <2>1. CASE Correct \/ Rewrite
    <3>1. pc \in {"correct", "rewrite"} /\ comptime_stmts' = comptime_stmts
          /\ \/ pc' \in {"correct", "rewrite", "abort"}
             \/ pc' = "register" /\ at' = 1
      <4>1. CASE Correct
        BY <4>1 DEF Correct, CorrectNode, CorrectDone, Advance, Enter, collected
      <4>2. CASE RewriteSpan
        BY <4>2 DEF RewriteSpan, Advance, Stop
      <4>3. CASE RewriteDone
        BY <4>3 DEF RewriteDone, Enter, collected
      <4> QED  BY <2>1, <4>1, <4>2, <4>3 DEF Rewrite
    <3>2. comptime_stmts = <<>>
      BY <3>1 DEF BlocksInOrder
    <3>3. pc' = "register" => Rank(D, at' - 1) = 0
      <4>1. pc' = "register" => at' - 1 = 0
        BY <3>1
      <4> QED  BY <4>1, RankSteps
    <3> QED  BY <2>b, <3>1, <3>2, <3>3 DEF BlocksInOrder
  <2>2. CASE RegisterOther
    <3>1. /\ pc = "register" /\ pc' = "register" /\ at' = at + 1 /\ Tree = t
          /\ comptime_stmts' = comptime_stmts
      BY <2>2 DEF RegisterOther, AtNode, Advance, Tree, collected
    <3>2. at \notin D
      BY <2>2, <3>1 DEF RegisterOther, Directives
    <3>3. Rank(D, at) = Rank(D, at - 1) /\ at' - 1 = at
      BY <2>a, <2>c, <3>1, <3>2, RankSteps
    <3> QED  BY <2>a, <2>b, <3>1, <3>3 DEF BlocksInOrder
  <2>3. CASE RegisterFatal \/ RegisterAbort
    <3>1. comptime_stmts' = comptime_stmts /\ pc' \in {"fatal", "abort"}
      BY <2>3 DEF RegisterFatal, RegisterAbort, Stop, collected
    <3> QED  BY <2>a, <2>b, <3>1 DEF BlocksInOrder
  <2>4. CASE RegisterCall \/ RegisterType
    <3>1. /\ pc = "register" /\ pc' = "register" /\ at' = at + 1 /\ at \in D
          /\ comptime_stmts' = Append(comptime_stmts, Written(file, Rank(D, at)))
      BY <2>a, <2>4, NextBlock
    <3>2. Rank(D, at) = Rank(D, at - 1) + 1 /\ at' - 1 = at
      BY <2>a, <2>c, <3>1, RankSteps
    <3>3. Len(comptime_stmts) = Rank(D, at - 1)
      BY <3>1 DEF BlocksInOrder
    <3> DEFINE n == Rank(D, at)
    <3>4. n = Len(comptime_stmts) + 1
      BY <3>2, <3>3
    <3> HIDE DEF n, D
    <3>5. /\ Len(comptime_stmts') = n /\ comptime_stmts'[n] = Written(file, n)
          /\ \A i \in 1..Len(comptime_stmts) : comptime_stmts'[i] = comptime_stmts[i]
      BY <2>a, <3>1, <3>4 DEF n
    <3>6. ASSUME NEW i \in 1..n PROVE comptime_stmts'[i] = Written(file, i)
      <4>1. CASE i = n
        BY <3>5, <4>1
      <4>2. CASE i # n
        <5>1. i \in 1..Len(comptime_stmts)
          BY <2>a, <3>4, <4>2
        <5> QED  BY <3>5, <5>1 DEF BlocksInOrder
      <4> QED  BY <4>1, <4>2
    <3> QED  BY <2>b, <3>1, <3>2, <3>5, <3>6 DEF BlocksInOrder, n, D
  <2>5. CASE RegisterDone
    <3>1. /\ pc = "register" /\ pc' = "strip" /\ at > Len(t)
          /\ comptime_stmts' = comptime_stmts
      BY <2>5 DEF RegisterDone, Enter, collected, Tree
    <3>2. Len(comptime_stmts) = Rank(D, Len(t))
      <4>1. Len(comptime_stmts) = Rank(D, at - 1)
        BY <3>1 DEF BlocksInOrder
      <4>2. D \cap (1..(at - 1)) = D \cap (1..Len(t))
        BY <2>a, <3>1 DEF Directives
      <4> QED  BY <4>1, <4>2 DEF Rank
    <3> QED  BY <2>a, <2>b, <3>1, <3>2 DEF BlocksInOrder
  <2>6. CASE Strip \/ Emit \/ Cut
    <3>1. /\ comptime_stmts' = comptime_stmts
          /\ pc \in {"strip", "snippets", "safe"}
          /\ pc' \in {"strip", "snippets", "safe", "done", "abort", "crash"}
      <4>1. CASE Strip
        BY <4>1, Zenon DEF Strip, StripNode, StripDone, AtNode, Advance, Stop, Enter, collected
      <4>2. CASE Emit
        BY <4>2, Zenon DEF Emit, EmitSnippet, SnippetsDone, Advance, Enter, collected
      <4>3. CASE Cut
        BY <4>3, Zenon DEF Cut, CutRange, CopyTail, Enter, collected
      <4> QED  BY <2>6, <4>1, <4>2, <4>3
    <3> QED  BY <2>a, <2>b, <3>1 DEF BlocksInOrder
  <2>7. CASE UNCHANGED vars
    BY <2>a, <2>b, <2>7 DEF vars, BlocksInOrder
  <2> QED  BY <2>1, <2>2, <2>3, <2>4, <2>5, <2>6, <2>7 DEF Next, Register
<1> QED  BY <1>1, <1>2, TypeCorrect, SpansInvariant, PTL DEF Spec

(* Both halves of a file's numbering agree: the statements are the blocks  *)
(* of the text in its order, whichever pass found each and in whichever    *)
(* buffer it stands, for all trees that show the blocks in that order.      *)
THEOREM StatementsFollow ==
  ASSUME \A f \in Files : Callable(f) => TreesShowBlocks(f)
  PROVE  Spec => []StatementsFollowText
<1>1. TypeOK /\ RegisterInductive /\ (TreesShowBlocks(file) => BlocksInOrder)
        => StatementsFollowText
  <2> SUFFICES ASSUME TypeOK, RegisterInductive, TreesShowBlocks(file) => BlocksInOrder,
                      pc = "done"
               PROVE  comptime_stmts = [i \in DOMAIN Invocations[file] |-> Written(file, i)]
    BY DEF StatementsFollowText, Written
  <2>0. TreesShowBlocks(file) /\ BlocksInOrder
    <3>1. Callable(file)
      BY DEF RegisterInductive, Registered, Callable
    <3> QED  BY <3>1 DEF TypeOK
  <2>1. Len(comptime_stmts) = Len(Invocations[file])
    BY <2>0 DEF BlocksInOrder, TreesShowBlocks
  <2>2. /\ DOMAIN Invocations[file] = 1..Len(Invocations[file])
        /\ comptime_stmts = [i \in 1..Len(comptime_stmts) |-> comptime_stmts[i]]
    BY FilesAssumption, LenProperties DEF TypeOK
  <2>3. \A i \in 1..Len(comptime_stmts) : comptime_stmts[i] = Written(file, i)
    BY <2>0 DEF BlocksInOrder
  <2> QED  BY <2>1, <2>2, <2>3, Zenon
<1> QED  BY <1>1, TypeCorrect, RegisterInvariant, BlocksInvariant, PTL

-----------------------------------------------------------------------------
(* What can stop the passes.                                               *)

LEMMA RankGrows ==
  ASSUME NEW S, NEW m \in Nat, NEW n \in Nat, m <= n
  PROVE  Rank(S, m) \in Nat /\ Rank(S, n) \in Nat /\ Rank(S, m) <= Rank(S, n)
<1>1. Rank(S, m) \in Nat /\ Rank(S, n) \in Nat
  BY RankSteps
<1>2. IsFiniteSet(S \cap (1..n))
  <2>1. IsFiniteSet(1..n)
    BY FS_Interval
  <2> QED  BY <2>1, FS_Subset
<1>3. S \cap (1..m) \subseteq S \cap (1..n)
  OBVIOUS
<1>4. Cardinality(S \cap (1..m)) <= Cardinality(S \cap (1..n))
  BY <1>2, <1>3, FS_Subset
<1> QED  BY <1>1, <1>4 DEF Rank

(* Spans that follow each other in the tree were corrected in that order.   *)
LEMMA SpansFollow ==
  ASSUME TypeOK, SpansInOrder, Passable(file),
         NEW i \in 1..Len(corrections), NEW j \in 1..Len(corrections), i < j
  PROVE  corrections[i].hi <= corrections[j].lo
<1>1. PICK m \in Corrected(file) :
        Rank(Corrected(file), m) = i /\ corrections[i] \in SpansAt(file, m)
  BY DEF SpansInOrder
<1>2. PICK n \in Corrected(file) :
        Rank(Corrected(file), n) = j /\ corrections[j] \in SpansAt(file, n)
  BY DEF SpansInOrder
<1>3. m \in Nat /\ n \in Nat
  <2>1. DOMAIN Pre[file] = 1..Len(Pre[file])
    BY FilesAssumption, LenProperties DEF TypeOK
  <2> QED  BY <2>1 DEF Corrected
<1>4. m < n
  <2>1. n <= m => j <= i
    BY <1>1, <1>2, <1>3, RankGrows
  <2>2. i \in Nat /\ j \in Nat
    OBVIOUS
  <2> QED  BY <1>3, <2>1, <2>2
<1> QED  BY <1>1, <1>2, <1>4 DEF Passable

(* Nothing has stopped; the spans to rewrite lie ahead; a placeholder with  *)
(* a statement was met; and the hash map holds what directives mark.        *)
Passes ==
  ItemsApart(Post[file]) =>
    /\ pc \notin Stopped
    /\ pc = "rewrite" => \A i \in at..Len(corrections) : cursor <= corrections[i].lo
    /\ pc = "correct" => comptimetype_stmt_indices = <<>>
    /\ pc = "rewrite" =>
         \A k \in 1..Len(comptimetype_stmt_indices) : comptimetype_stmt_indices[k] = -1
    /\ pc = "register" =>
         \A k \in 1..Len(comptimetype_stmt_indices) :
           comptimetype_stmt_indices[k] = -1
             \/ \E n \in Directives(Post[file]) :
                  n < at /\ IsPlaceholder(Post[file], n) /\ Post[file][n].ph = k - 1
    /\ comptime_dependencies \subseteq Marked(Post[file])

LEMMA RewriteGoesOn ==
  ASSUME TypeOK, SpansInOrder, Passes, ItemsApart(Post[file]), Passable(file), RewriteSpan
  PROVE  Passes'
<1> DEFINE r == corrections[at]
<1>1. /\ pc = "rewrite" /\ at <= Len(corrections) /\ file' = file
      /\ UNCHANGED <<corrections, comptime_dependencies>>
      /\ IF cursor <= r.lo
         THEN /\ comptimetype_stmt_indices' = Append(comptimetype_stmt_indices, -1)
              /\ cursor' = r.hi /\ pc' = "rewrite" /\ at' = at + 1
         ELSE TRUE
  BY DEF RewriteSpan, Advance
<1>2. /\ at \in Nat \ {0} /\ Len(corrections) \in Nat
      /\ comptimetype_stmt_indices \in Seq({-1} \cup Nat)
      /\ Len(comptimetype_stmt_indices) \in Nat
  BY LenProperties DEF TypeOK
<1>3. cursor <= r.lo
  <2>1. at \in at..Len(corrections)
    BY <1>1, <1>2
  <2> QED  BY <1>1, <2>1 DEF Passes
<1>4. /\ comptimetype_stmt_indices' = Append(comptimetype_stmt_indices, -1)
      /\ cursor' = r.hi /\ pc' = "rewrite" /\ at' = at + 1
  BY <1>1, <1>3
<1>5. ASSUME NEW i \in at'..Len(corrections') PROVE cursor' <= corrections'[i].lo
  <2>1. at \in 1..Len(corrections) /\ i \in 1..Len(corrections) /\ at < i
    BY <1>1, <1>2, <1>4
  <2> QED  BY <1>1, <1>4, <2>1, SpansFollow
<1>6. ASSUME NEW k \in 1..Len(comptimetype_stmt_indices')
      PROVE  comptimetype_stmt_indices'[k] = -1
  <2>1. /\ Len(comptimetype_stmt_indices') = Len(comptimetype_stmt_indices) + 1
        /\ comptimetype_stmt_indices'[Len(comptimetype_stmt_indices) + 1] = -1
        /\ \A j \in 1..Len(comptimetype_stmt_indices) :
             comptimetype_stmt_indices'[j] = comptimetype_stmt_indices[j]
    BY <1>2, <1>4
  <2>2. CASE k = Len(comptimetype_stmt_indices) + 1
    BY <2>1, <2>2
  <2>3. CASE k # Len(comptimetype_stmt_indices) + 1
    <3>1. k \in 1..Len(comptimetype_stmt_indices)
      BY <1>2, <2>1, <2>3
    <3>2. comptimetype_stmt_indices[k] = -1
      BY <1>1, <3>1 DEF Passes
    <3> QED  BY <2>1, <3>1, <3>2
  <2> QED  BY <2>2, <2>3
<1>7. comptime_dependencies' \subseteq Marked(Post[file'])
  BY <1>1 DEF Passes
<1> QED  BY <1>4, <1>5, <1>6, <1>7 DEF Passes, Stopped

(* No branch of the register pass's visit ends it.                          *)
LEMMA RegisterGoesOn ==
  ASSUME TypeOK, SpansInOrder, PlaceholdersResolve, Passes, ItemsApart(Post[file]),
         Passable(file), Register
  PROVE  Passes'
<1> DEFINE t == Post[file]
           D == Directives(t)
<1>1. /\ pc = "register" /\ Tree = t /\ file' = file
  BY DEF Register, RegisterOther, RegisterFatal, RegisterAbort, RegisterCall, RegisterType,
         RegisterDone, AtNode, Tree
<1>2. /\ at \in Nat \ {0} /\ DOMAIN t = 1..Len(t) /\ Len(t) \in Nat
      /\ comptimetype_stmt_indices \in Seq({-1} \cup Nat)
      /\ Len(comptimetype_stmt_indices) \in Nat
      /\ Len(comptimetype_stmt_indices) = Len(comptimetype_stmts)
  BY FilesAssumption, LenProperties DEF TypeOK, PlaceholdersResolve
<1>3. /\ \A k \in 1..Len(comptimetype_stmt_indices) :
           \/ comptimetype_stmt_indices[k] = -1
           \/ \E n \in D : n < at /\ IsPlaceholder(t, n) /\ t[n].ph = k - 1
      /\ comptime_dependencies \subseteq Marked(t)
  BY <1>1 DEF Passes
<1>4. CASE UNCHANGED <<comptimetype_stmt_indices, comptime_dependencies>>
           /\ \/ pc' = "register" /\ at' = at + 1
              \/ pc' = "strip"
  <2>1. ASSUME NEW k \in 1..Len(comptimetype_stmt_indices), pc' = "register"
        PROVE  \/ comptimetype_stmt_indices[k] = -1
               \/ \E n \in D : n < at' /\ IsPlaceholder(t, n) /\ t[n].ph = k - 1
    <3>1. at' = at + 1
      BY <1>4, <2>1
    <3>2. \A n \in D : n < at => n < at'
      <4>1. D \subseteq Nat
        BY <1>2 DEF Directives
      <4> QED  BY <1>2, <3>1, <4>1
    <3> QED  BY <1>3, <3>2
  <2>2. pc' \notin Stopped /\ pc' \notin {"correct", "rewrite"}
    BY <1>4 DEF Stopped
  <2> HIDE DEF D, t
  <2> QED  BY <1>1, <1>3, <1>4, <2>1, <2>2 DEF Passes, D, t
<1>5. CASE RegisterOther \/ RegisterDone
  <2>1. /\ UNCHANGED <<comptimetype_stmt_indices, comptime_dependencies>>
        /\ \/ pc' = "register" /\ at' = at + 1
           \/ pc' = "strip"
    BY <1>1, <1>5 DEF RegisterOther, RegisterDone, Advance, Enter, collected
  <2> QED  BY <1>4, <2>1
<1>6. ASSUME AtNode("register") PROVE at \in DOMAIN t
  BY <1>1, <1>2, <1>6 DEF AtNode
<1>7. ASSUME at \in DOMAIN t, IsPlaceholder(t, at)
      PROVE  KnownPlaceholder(t[at].ph) /\ t[at].ph + 1 \in 1..Len(comptimetype_stmt_indices)
  <2>1. at \in D
    BY <1>7 DEF Directives
  <2>2. /\ t[at].ph < Rank(Corrected(file), Len(Pre[file]))
        /\ \A m \in D : IsPlaceholder(t, m) /\ t[m].ph = t[at].ph => m = at
    BY <1>7, <2>1 DEF Passable
  <2>3. t[at].ph \in Nat
    <3>1. t[at] \in Node
      BY <1>7, FilesAssumption, LenProperties, ElementOfSeq DEF TypeOK
    <3> QED  BY <1>7, <3>1 DEF IsPlaceholder, Node
  <2>4. Len(comptimetype_stmts) = Rank(Corrected(file), Len(Pre[file]))
    BY <1>1 DEF SpansInOrder
  <2>5. t[at].ph + 1 \in 1..Len(comptimetype_stmt_indices)
    BY <1>2, <2>2, <2>3, <2>4
  <2>6. comptimetype_stmt_indices[t[at].ph + 1] = -1
    <3> SUFFICES ASSUME comptimetype_stmt_indices[t[at].ph + 1] # -1 PROVE FALSE
      OBVIOUS
    <3>1. PICK n \in D : n < at /\ IsPlaceholder(t, n) /\ t[n].ph = (t[at].ph + 1) - 1
      BY <1>3, <2>5
    <3>2. n = at
      BY <2>2, <2>3, <3>1
    <3> QED  BY <1>2, <3>1, <3>2
  <2> QED  BY <1>2, <2>2, <2>4, <2>5, <2>6 DEF KnownPlaceholder
<1>8. ASSUME RegisterFatal \/ RegisterAbort PROVE FALSE
  <2>1. at \in DOMAIN t
    BY <1>6, <1>8 DEF RegisterFatal, RegisterAbort
  <2>2. at \in D => /\ ~BadShape(t, at)
                    /\ IsComptime(t, at) => Call(t, at) # 0 /\ HasArguments(t, Call(t, at))
    BY DEF Passable
  <2>3. ~(t[at].sym = "identifier" /\ IsComptimeType(t, at))
    BY <2>1 DEF Passable
  <2>4. IsComptime(t, at) \/ IsPlaceholder(t, at) => at \in D
    BY <2>1 DEF Directives
  <2> QED  BY <1>1, <1>7, <1>8, <2>1, <2>2, <2>3, <2>4 DEF RegisterFatal, RegisterAbort
<1>9. CASE RegisterCall \/ RegisterType
  <2>1. /\ pc' = "register" /\ at' = at + 1 /\ AtNode("register")
        /\ comptime_dependencies' = comptime_dependencies \cup MarkedNames(t, at)
        /\ IsComptime(t, at) \/ IsPlaceholder(t, at)
        /\ \/ comptimetype_stmt_indices' = comptimetype_stmt_indices
           \/ /\ IsPlaceholder(t, at)
              /\ comptimetype_stmt_indices' =
                   [comptimetype_stmt_indices EXCEPT ![t[at].ph + 1] = Len(comptime_stmts)]
    BY <1>1, <1>9 DEF RegisterCall, RegisterType, Advance
  <2>2. at \in DOMAIN t /\ at \in D
    BY <1>6, <2>1 DEF Directives
  <2>3. comptime_dependencies' \subseteq Marked(t)
    BY <1>3, <2>1, <2>2 DEF Marked
  <2>4. \A n \in D : n < at \/ n = at => n < at'
    <3>1. D \subseteq Nat
      BY <1>2 DEF Directives
    <3> QED  BY <1>2, <2>1, <3>1
  <2>5. ASSUME NEW k \in 1..Len(comptimetype_stmt_indices')
        PROVE  \/ comptimetype_stmt_indices'[k] = -1
               \/ \E n \in D : n < at' /\ IsPlaceholder(t, n) /\ t[n].ph = k - 1
    <3>1. CASE comptimetype_stmt_indices' = comptimetype_stmt_indices
      BY <1>3, <2>4, <3>1
    <3>2. CASE /\ IsPlaceholder(t, at)
               /\ comptimetype_stmt_indices' =
                   [comptimetype_stmt_indices EXCEPT ![t[at].ph + 1] = Len(comptime_stmts)]
      <4>1. k \in 1..Len(comptimetype_stmt_indices)
        BY <1>2, <3>2
      <4>2. CASE k = t[at].ph + 1
        <5>1. t[at].ph = k - 1
          <6>1. t[at] \in Node
            BY <2>2, FilesAssumption, LenProperties, ElementOfSeq DEF TypeOK
          <6>2. t[at].ph \in Int
            BY <6>1 DEF Node
          <6> QED  BY <4>2, <6>2
        <5> QED  BY <2>2, <2>4, <3>2, <5>1
      <4>3. CASE k # t[at].ph + 1
        <5>1. comptimetype_stmt_indices'[k] = comptimetype_stmt_indices[k]
          BY <1>2, <3>2, <4>1, <4>3
        <5> QED  BY <1>3, <2>4, <4>1, <5>1
      <4> QED  BY <4>2, <4>3
    <3> QED  BY <2>1, <3>1, <3>2
  <2>6. pc' \notin Stopped /\ pc' \notin {"correct", "rewrite"}
    BY <2>1 DEF Stopped
  <2> HIDE DEF D, t
  <2> QED  BY <1>1, <2>3, <2>5, <2>6 DEF Passes, D, t
<1> QED  BY <1>5, <1>8, <1>9 DEF Register

(* A use of a marked name has a root.                                      *)
LEMMA StripGoesOn ==
  ASSUME TypeOK, Passes, ItemsApart(Post[file]), Passable(file), Strip
  PROVE  pc' \in {"strip", "snippets"}
<1>1. CASE StripDone
  BY <1>1 DEF StripDone, Enter
<1>2. CASE StripNode
  <2>1. pc = "strip" /\ Tree = Post[file] /\ at <= Len(Tree)
    BY <1>2 DEF StripNode, AtNode, Tree
  <2>2. at \in DOMAIN Post[file]
    BY <2>1, FilesAssumption, LenProperties DEF TypeOK
  <2>3. UsesDependency(Tree, at) => StripRoot(Tree, at) # 0
    BY <2>1, <2>2 DEF UsesDependency, Passable, Passes
  <2> QED  BY <1>2, <2>1, <2>3 DEF StripNode, Advance
<1> QED  BY <1>1, <1>2 DEF Strip

LEMMA PassesInvariant ==
  ASSUME \A f \in Files : RootsBeginApart(Post[f]),
         \A f \in Files : ItemsApart(Post[f]) => RootsApart(Post[f]) /\ Passable(f)
  PROVE  Spec => []Passes
<1>1. Init => Passes
  <2> SUFFICES ASSUME Init PROVE Passes
    OBVIOUS
  <2> QED  BY DEF Init, Passes, Stopped
<1>2. TypeOK /\ SpansInOrder /\ PlaceholdersResolve /\ StripInductive /\ CutInductive
        /\ Passes /\ [Next]_vars => Passes'
  <2> SUFFICES ASSUME TypeOK, SpansInOrder, PlaceholdersResolve, StripInductive, CutInductive,
                      Passes, [Next]_vars, ItemsApart(Post[file])
               PROVE  Passes'
    BY FileStays DEF Passes
  <2>a. file' = file /\ file \in Files /\ RootsApart(Post[file]) /\ Passable(file)
    BY FileStays DEF TypeOK
  <2>b. comptime_dependencies \subseteq Marked(Post[file])
    BY DEF Passes
  <2>1. CASE Correct
    <3>1. /\ UNCHANGED <<comptimetype_stmt_indices, comptime_dependencies>> /\ pc = "correct"
          /\ \/ pc' = "correct"
             \/ pc' = "rewrite" /\ cursor' = 0 /\ corrections' = corrections
      BY <2>1 DEF Correct, CorrectNode, CorrectDone, Advance, Enter, collected, rewriting
    <3>2. comptimetype_stmt_indices = <<>>
      BY <3>1 DEF Passes
    <3>3. ASSUME pc' = "rewrite", NEW i \in at'..Len(corrections') PROVE cursor' <= corrections'[i].lo
      <4>1. corrections \in Seq(Slice) /\ cursor' = 0 /\ corrections' = corrections /\ at' = 1
        BY <2>1, <3>1, <3>3 DEF Correct, CorrectNode, CorrectDone, Advance, Enter, TypeOK
      <4>2. corrections[i] \in Slice
        BY <4>1
      <4> QED  BY <4>1, <4>2 DEF Slice
    <3>4. comptimetype_stmt_indices' = <<>> /\ comptime_dependencies' \subseteq Marked(Post[file'])
      BY <2>a, <2>b, <3>1, <3>2
    <3> QED  BY <3>1, <3>3, <3>4 DEF Passes, Stopped
  <2>2. CASE RewriteSpan
    BY <2>a, <2>2, RewriteGoesOn
  <2>3. CASE RewriteDone
    <3>1. /\ UNCHANGED <<comptimetype_stmt_indices, comptime_dependencies>>
          /\ pc = "rewrite" /\ pc' = "register"
      BY <2>3 DEF RewriteDone, Enter, collected
    <3> QED  BY <2>a, <3>1 DEF Passes, Stopped
  <2>4. CASE Register
    BY <2>a, <2>4, RegisterGoesOn
  <2>5. CASE Strip \/ Emit \/ Cut
    <3>1. comptime_dependencies' = comptime_dependencies
      BY <2>5, Zenon DEF Strip, Emit, Cut, StripNode, StripDone, EmitSnippet, SnippetsDone,
                         CutRange, CopyTail, collected
    <3>2. pc' \in {"strip", "snippets", "safe", "done"}
      <4>1. CASE Strip
        BY <2>a, <4>1, StripGoesOn
      <4>2. CASE Emit
        BY <4>2 DEF Emit, EmitSnippet, SnippetsDone, Advance, Enter
      <4>3. CASE CutRange
        <5>1. pc' = pc /\ pc = "safe"
          BY <2>a, <4>3, CutGoesOn DEF CutRange
        <5> QED  BY <5>1
      <4>4. CASE CopyTail
        BY <4>4 DEF CopyTail, Enter
      <4> QED  BY <2>5, <4>1, <4>2, <4>3, <4>4 DEF Cut
    <3>3. pc' \notin Stopped /\ pc' \notin {"correct", "rewrite", "register"}
      BY <3>2 DEF Stopped
    <3> QED  BY <2>a, <2>b, <3>1, <3>3 DEF Passes
  <2>6. CASE UNCHANGED vars
    BY <2>6 DEF vars, Passes
  <2> QED  BY <2>1, <2>2, <2>3, <2>4, <2>5, <2>6 DEF Next, Rewrite
<1>3. Spec => []CutInductive
  BY CutInvariant
<1> QED  BY <1>1, <1>2, <1>3, TypeCorrect, SpansInvariant, PlaceholdersCorrect, StripInvariant,
            PTL DEF Spec

(* Every file whose trees have the shapes the code asks for, and whose      *)
(* ranges to remove do not touch, gets through all passes: no span is       *)
(* rewritten twice, no placeholder met twice or unknown, no root missing,   *)
(* and the cursor never meets the beginning of a range.                     *)
THEOREM PassesFinish ==
  ASSUME \A f \in Files : RootsBeginApart(Post[f]),
         \A f \in Files : ItemsApart(Post[f]) => RootsApart(Post[f]) /\ Passable(f)
  PROVE  Spec => []ApartFilesFinish
<1>1. Passes => ApartFilesFinish
  BY DEF Passes, ApartFilesFinish, Stopped
<1> QED  BY <1>1, PassesInvariant, PTL

-----------------------------------------------------------------------------
(* Concatenating a sequence of sequences.                                  *)

(* The first index of a set has none of the set before it. *)
LEMMA FirstIndex ==
  ASSUME NEW n \in Nat, NEW T \in SUBSET (1..n), T # {}
  PROVE  \E i \in T : i = 1 \/ (i - 1 \in 1..n /\ i - 1 \notin T)
<1>1. PICK i \in T : \A k \in T : i <= k
  BY SmallestExists
<1>2. i \in Nat /\ i >= 1 /\ i <= n
  OBVIOUS
<1>3. i - 1 \notin T
  <2>1. ~(i <= i - 1)
    BY <1>2
  <2> QED  BY <1>1, <2>1
<1>4. i = 1 \/ i - 1 \in 1..n
  BY <1>2
<1> QED  BY <1>3, <1>4

(* FlattenSeq is the last of its partial results. *)
LEMMA FlattenUnfolds ==
  ASSUME NEW S, NEW f \in Seq(Seq(S)), Len(f) # 0
  PROVE  \E g : /\ FlattenSeq(f) = g[Len(f)]
                /\ \A i \in 1..Len(f) :
                     /\ g[i] = IF i = 1 THEN f[i] ELSE g[i - 1] \o f[i]
                     /\ g[i] \in Seq(S)
<1> DEFINE n == Len(f)
           Up(g, m) == [i \in 1..m |-> IF i = 1 THEN f[i] ELSE g[i - 1] \o f[i]]
<1>1. n \in Nat /\ \A i \in 1..n : f[i] \in Seq(S)
  BY LenProperties
<1>2. \A m \in Nat : \E g : g = Up(g, m)
  <2> DEFINE T == {m \in Nat : ~\E g : g = Up(g, m)}
  <2> SUFFICES ASSUME T # {} PROVE FALSE
    OBVIOUS
  <2>1. T \in SUBSET Nat
    OBVIOUS
  <2>2. PICK m \in T : \A k \in T : m <= k
    BY <2>1, SmallestExists
  <2>3. m # 0
    <3> DEFINE none == [i \in 1..0 |-> 0]
    <3>1. none = Up(none, 0)
      OBVIOUS
    <3> QED  BY <2>2, <3>1
  <2>4. m - 1 \in Nat /\ m - 1 \notin T
    <3> HIDE DEF T
    <3> QED  BY <2>1, <2>2, <2>3
  <2>5. PICK g : g = Up(g, m - 1)
    BY <2>4
  <2> DEFINE h == [i \in 1..m |-> IF i = m THEN IF m = 1 THEN f[m] ELSE g[m - 1] \o f[m]
                                  ELSE g[i]]
  <2>6. \A i \in 1..(m - 1) : g[i] = IF i = 1 THEN f[i] ELSE g[i - 1] \o f[i]
    BY <2>5
  <2>7. \A i \in 1..m : h[i] = IF i = 1 THEN f[i] ELSE h[i - 1] \o f[i]
    BY <2>2, <2>3, <2>6
  <2>8. h = Up(h, m)
    BY <2>7
  <2> QED  BY <2>2, <2>8
<1> DEFINE flat == CHOOSE g : g = Up(g, n)
<1>3. flat = Up(flat, n)
  BY <1>1, <1>2
<1>4. FlattenSeq(f) = flat[n]
  BY DEF FlattenSeq
<1> HIDE DEF flat
<1>5. \A i \in 1..n : flat[i] = IF i = 1 THEN f[i] ELSE flat[i - 1] \o f[i]
  BY <1>3
<1>6. \A i \in 1..n : flat[i] \in Seq(S)
  <2> DEFINE T == {i \in 1..n : flat[i] \notin Seq(S)}
  <2> SUFFICES ASSUME T # {} PROVE FALSE
    OBVIOUS
  <2>1. PICK i \in T : i = 1 \/ (i - 1 \in 1..n /\ i - 1 \notin T)
    <3>1. T \in SUBSET (1..n) /\ T # {}
      OBVIOUS
    <3> HIDE DEF n, T
    <3> QED  BY <1>1, <3>1, FirstIndex
  <2>2. i = 1 \/ flat[i - 1] \in Seq(S)
    BY <2>1
  <2>3. flat[i] \in Seq(S)
    <3>1. f[i] \in Seq(S) /\ flat[i] = IF i = 1 THEN f[i] ELSE flat[i - 1] \o f[i]
      BY <1>1, <1>5, <2>1
    <3>2. flat[i - 1] \in Seq(S) => flat[i - 1] \o f[i] \in Seq(S)
      BY <3>1, ConcatProperties
    <3> QED  BY <2>2, <3>1, <3>2
  <2> QED  BY <2>1, <2>3
<1> QED  BY <1>4, <1>5, <1>6

(* The sequence of pieces grows by a piece, the whole by that piece. *)
LEMMA FlattenAppend ==
  ASSUME NEW S, NEW f \in Seq(Seq(S)), NEW s \in Seq(S)
  PROVE  /\ FlattenSeq(f) \in Seq(S)
         /\ FlattenSeq(Append(f, s)) = FlattenSeq(f) \o s
<1> DEFINE n == Len(f)
           fs == Append(f, s)
<1>1. /\ n \in Nat /\ fs \in Seq(Seq(S)) /\ Len(fs) = n + 1
      /\ \A i \in 1..n : f[i] \in Seq(S) /\ fs[i] = f[i]
      /\ fs[n + 1] = s
  BY LenProperties, AppendProperties
<1> HIDE DEF fs
<1>2. PICK h : /\ FlattenSeq(fs) = h[Len(fs)]
               /\ \A i \in 1..Len(fs) :
                    /\ h[i] = IF i = 1 THEN fs[i] ELSE h[i - 1] \o fs[i]
                    /\ h[i] \in Seq(S)
  <2>1. fs \in Seq(Seq(S)) /\ Len(fs) # 0
    BY <1>1
  <2> QED  BY <2>1, FlattenUnfolds
<1>3. CASE n = 0
  <2>1. f = <<>>
    BY <1>3, EmptySeq
  <2>2. FlattenSeq(f) = <<>>
    BY <1>3, <2>1 DEF FlattenSeq
  <2>3. h[1] = fs[1] /\ fs[1] = s
    BY <1>1, <1>2, <1>3
  <2>4. FlattenSeq(fs) = s
    BY <1>1, <1>2, <1>3, <2>3
  <2> QED  BY <2>2, <2>4, ConcatEmptySeq, EmptySeq DEF fs
<1>4. CASE n # 0
  <2>1. PICK g : /\ FlattenSeq(f) = g[n]
                 /\ \A i \in 1..n : /\ g[i] = IF i = 1 THEN f[i] ELSE g[i - 1] \o f[i]
                                    /\ g[i] \in Seq(S)
    BY <1>4, FlattenUnfolds
  <2>2. \A i \in 1..n : h[i] = g[i]
    <3> DEFINE T == {i \in 1..n : h[i] # g[i]}
    <3> SUFFICES ASSUME T # {} PROVE FALSE
      OBVIOUS
    <3>1. PICK i \in T : i = 1 \/ (i - 1 \in 1..n /\ i - 1 \notin T)
      <4>1. T \in SUBSET (1..n) /\ T # {}
        OBVIOUS
      <4> HIDE DEF n, T
      <4> QED  BY <1>1, <4>1, FirstIndex
    <3>2. i = 1 \/ h[i - 1] = g[i - 1]
      BY <3>1
    <3>3. /\ h[i] = IF i = 1 THEN fs[i] ELSE h[i - 1] \o fs[i]
          /\ g[i] = IF i = 1 THEN f[i] ELSE g[i - 1] \o f[i]
          /\ fs[i] = f[i]
      <4>1. i \in 1..n
        OBVIOUS
      <4>2. i \in 1..Len(fs)
        <5> HIDE DEF n, T
        <5> QED  BY <1>1, <4>1
      <4> HIDE DEF n, T
      <4>3. h[i] = IF i = 1 THEN fs[i] ELSE h[i - 1] \o fs[i]
        BY <1>2, <4>2
      <4>4. g[i] = IF i = 1 THEN f[i] ELSE g[i - 1] \o f[i]
        BY <2>1, <4>1
      <4> QED  BY <1>1, <4>1, <4>3, <4>4
    <3> QED  BY <3>1, <3>2, <3>3
  <2>3. h[n + 1] = h[n] \o s
    <3>1. n + 1 \in 1..Len(fs) /\ n + 1 # 1 /\ (n + 1) - 1 = n
      BY <1>1, <1>4
    <3>2. h[n + 1] = h[(n + 1) - 1] \o fs[n + 1]
      BY <1>2, <3>1
    <3> QED  BY <1>1, <3>1, <3>2
  <2>4. h[n] = g[n] /\ g[n] \in Seq(S)
    BY <1>1, <1>4, <2>1, <2>2
  <2> QED  BY <1>1, <1>2, <2>1, <2>3, <2>4 DEF fs
<1> QED  BY <1>3, <1>4

(* All pieces but the last are empty. *)
LEMMA FlattenOne ==
  ASSUME NEW S, NEW f \in Seq(Seq(S)), Len(f) # 0,
         \A i \in 1..(Len(f) - 1) : f[i] = <<>>
  PROVE  FlattenSeq(f) = f[Len(f)]
<1> DEFINE n == Len(f)
<1>1. n \in Nat /\ \A i \in 1..n : f[i] \in Seq(S)
  BY LenProperties
<1>2. PICK g : /\ FlattenSeq(f) = g[n]
               /\ \A i \in 1..n : /\ g[i] = IF i = 1 THEN f[i] ELSE g[i - 1] \o f[i]
                                  /\ g[i] \in Seq(S)
  BY FlattenUnfolds
<1>3. \A i \in 1..(n - 1) : g[i] = <<>>
  <2> DEFINE T == {i \in 1..(n - 1) : g[i] # <<>>}
  <2> SUFFICES ASSUME T # {} PROVE FALSE
    OBVIOUS
  <2>1. PICK i \in T : i = 1 \/ (i - 1 \in 1..(n - 1) /\ i - 1 \notin T)
    <3>1. n - 1 \in Nat
      <4> HIDE DEF n
      <4> QED  BY <1>1
    <3>2. T \in SUBSET (1..(n - 1)) /\ T # {}
      OBVIOUS
    <3> HIDE DEF n, T
    <3> QED  BY <3>1, <3>2, FirstIndex
  <2>2. i = 1 \/ g[i - 1] = <<>>
    BY <2>1
  <2>3. g[i] = IF i = 1 THEN <<>> ELSE g[i - 1] \o <<>>
    <3>1. i \in 1..n /\ f[i] = <<>>
      <4>1. i \in 1..(n - 1)
        OBVIOUS
      <4>2. i \in 1..n
        <5> HIDE DEF n
        <5> QED  BY <1>1, <4>1
      <4> QED  BY <4>1, <4>2
    <3>2. g[i] = IF i = 1 THEN f[i] ELSE g[i - 1] \o f[i]
      BY <1>2, <3>1
    <3> QED  BY <3>1, <3>2
  <2>4. <<>> \o <<>> = <<>>
    BY ConcatEmptySeq, EmptySeq
  <2> QED  BY <2>1, <2>2, <2>3, <2>4
<1>4. CASE n = 1
  BY <1>2, <1>4
<1>5. CASE n # 1
  <2>1. g[n] = g[n - 1] \o f[n] /\ g[n - 1] = <<>> /\ f[n] \in Seq(S)
    <3>1. n \in 1..n /\ n - 1 \in 1..(n - 1)
      <4>1. n \in Nat /\ n # 0 /\ n # 1
        BY <1>1, <1>5
      <4> HIDE DEF n
      <4> QED  BY <4>1
    <3>2. g[n] = g[n - 1] \o f[n]
      BY <1>2, <1>5, <3>1
    <3> QED  BY <1>1, <1>3, <3>1, <3>2
  <2> QED  BY <1>2, <2>1, ConcatEmptySeq
<1> QED  BY <1>4, <1>5

-----------------------------------------------------------------------------
(* The pipeline runs the passes, and then what they made.                  *)

LEMMA PassesRun == PipelineSpec => Spec
<1>1. PipelineInit => Init
  BY DEF PipelineInit
<1>2. [PipelineNext]_pipelineVars => [Next]_vars
  <2> SUFFICES ASSUME [PipelineNext]_pipelineVars PROVE Next \/ UNCHANGED vars
    OBVIOUS
  <2>1. CASE TreePass
    BY <2>1 DEF TreePass
  <2>2. CASE \/ PassesStop \/ WriteFiles \/ CompileRunner \/ RunRunner \/ RunnerEnded
             \/ FinalCompile \/ FinalCompileFails
    BY <2>2, Zenon DEF PassesStop, WriteFiles, CompileRunner, RunRunner, RunnerEnded,
                       FinalCompile, FinalCompileFails
  <2>3. CASE UNCHANGED pipelineVars
    BY <2>3 DEF pipelineVars
  <2> QED  BY <2>1, <2>2, <2>3 DEF PipelineNext
<1> QED  BY <1>1, <1>2, PTL DEF PipelineSpec, Spec

(* The runner's statements are the blocks of the text, in its order. *)
Numbered ==
  /\ file \in Files
  /\ pc = "done" =>
       /\ snippets \in Seq([stmt : Nat, placeholder : {-1} \cup Nat])
       /\ Len(snippets) = Len(Invocations[file])
       /\ \A i \in 1..Len(snippets) : snippets[i].stmt = i - 1
       /\ \A i \in 1..Len(snippets) :
            comptime_stmts[i] = [buf |-> Invocations[file][i].buf,
                                 lo |-> Invocations[file][i].lo,
                                 hi |-> Invocations[file][i].hi]

LEMMA NumberedCorrect ==
  ASSUME \A f \in Files : Callable(f) => TreesShowBlocks(f)
  PROVE  PipelineSpec => []Numbered
<1>1. TypeOK /\ SnippetsInductive /\ StatementsFollowText => Numbered
  <2> SUFFICES ASSUME TypeOK, SnippetsInductive, StatementsFollowText, pc = "done"
               PROVE  Numbered
    BY DEF Numbered, TypeOK
  <2>1. /\ file \in Files /\ Invocations[file] \in Seq(Invocation)
        /\ snippets \in Seq([stmt : Nat, placeholder : {-1} \cup Nat])
        /\ comptime_stmts \in Seq(SourceSlice)
    BY FilesAssumption DEF TypeOK
  <2>2. /\ DOMAIN Invocations[file] = 1..Len(Invocations[file])
        /\ DOMAIN snippets = 1..Len(snippets)
        /\ DOMAIN comptime_stmts = 1..Len(comptime_stmts)
        /\ Len(Invocations[file]) \in Nat /\ Len(comptime_stmts) \in Nat
    BY <2>1, LenProperties
  <2>3. /\ DOMAIN comptime_stmts = DOMAIN Invocations[file]
        /\ \A i \in DOMAIN Invocations[file] :
             comptime_stmts[i] = [buf |-> Invocations[file][i].buf,
                                  lo |-> Invocations[file][i].lo,
                                  hi |-> Invocations[file][i].hi]
    BY DEF StatementsFollowText
  <2>4. Len(comptime_stmts) = Len(Invocations[file])
    BY <2>2, <2>3
  <2>5. Len(snippets) = Len(comptime_stmts) /\ \A i \in 1..Len(snippets) : snippets[i].stmt = i - 1
    BY <2>2 DEF SnippetsInductive, SnippetsInvert
  <2> QED  BY <2>1, <2>2, <2>3, <2>4, <2>5 DEF Numbered
<1> QED  BY <1>1, PassesRun, TypeCorrect, SnippetsInvariant, StatementsFollow, PTL

-----------------------------------------------------------------------------
(* The runner, over the registrations the passes made.                     *)

Registrations ==
  {c \in Seq([stmt : Nat, placeholder : {-1} \cup Nat]) : \A i \in DOMAIN c : c[i].stmt = i - 1}

RP == INSTANCE RunnerProofs WITH calls <- snippets, CallLists <- Registrations

LEMMA RegistrationsAreRunners == RP!RunnerAssumption
BY BoundsAssumption DEF RP!RunnerAssumption, Registrations, RP!Call

(* The runner of the pipeline is the runner. *)
LEMMA SameRunner ==
  ASSUME R!RunnerNext
  PROVE  RP!RunnerNext
<1>1. R!Buffer = RP!Buffer /\ (R!Executing <=> RP!Executing) /\ R!Ended = RP!Ended
  BY DEF R!Buffer, RP!Buffer, R!Executing, RP!Executing, R!Ended, RP!Ended
<1>2. (R!Open \/ R!OpenFails) => (RP!Open \/ RP!OpenFails)
  BY DEF R!Open, R!OpenFails, RP!Open, RP!OpenFails, R!Select, RP!Select
<1>3. R!AppendInline => RP!AppendInline
  BY <1>1 DEF R!AppendInline, RP!AppendInline
<1>4. R!AppendTopLevel => RP!AppendTopLevel
  BY <1>1 DEF R!AppendTopLevel, RP!AppendTopLevel
<1>5. R!StatementReturns => RP!StatementReturns
  BY <1>1 DEF R!StatementReturns, RP!StatementReturns, R!DefineX, RP!DefineX,
              R!DefineType, RP!DefineType
<1>b. ASSUME NEW lines PROVE R!Beginnings(lines) = RP!Beginnings(lines)
  BY DEF R!Beginnings, RP!Beginnings, R!Prefixes, RP!Prefixes, R!Cuts, RP!Cuts,
         R!Fragment, RP!Fragment
<1>f. ASSUME NEW lines PROVE R!Flush(lines) => RP!Flush(lines)
  BY <1>b DEF R!Flush, RP!Flush
<1>6. R!StatementExits => RP!StatementExits
  BY <1>1, <1>f DEF R!StatementExits, RP!StatementExits
<1>7. R!StatementCrashes => RP!StatementCrashes
  BY <1>1, <1>b DEF R!StatementCrashes, RP!StatementCrashes
<1>8. R!Finish => RP!Finish
  BY <1>f DEF R!Finish, RP!Finish, R!Definitions, RP!Definitions
<1> QED  BY <1>2, <1>3, <1>4, <1>5, <1>6, <1>7, <1>8 DEF R!RunnerNext, RP!RunnerNext

(* What the statements produced: the block of each, its Inline text, and   *)
(* the pieces which make up the TopLevel buffer.                           *)
Produced == [block : Nat, text : Seq(Texts), topLevel : Seq(Texts)]
Pieces == [i \in 1..Len(outputs) |-> outputs[i].topLevel]
Collected ==
  /\ outputs \in Seq(Produced)
  /\ Len(outputs) = next - 1
  /\ \A i \in 1..Len(outputs) : outputs[i].block = i /\ outputs[i].text = inline[i]
  /\ mark \in 0..Len(topLevel)
  /\ next > Len(snippets) => mark = Len(topLevel)
  /\ Len(FlattenSeq(Pieces)) = mark
  /\ \A k \in 1..mark : FlattenSeq(Pieces)[k] = topLevel[k]

Running == {"compile", "run", "final"}
RunnerInductive ==
  /\ blocks = Len(Invocations[file])
  /\ stage = "passes" => outputs = <<>>
  /\ stage \in Running => /\ pc = "done"
                          /\ RP!RunnerTypeOK /\ RP!HeaderInductive /\ RP!Published
                          /\ ~lost /\ Collected
  /\ stage = "final" => state = "succeeded"

(* The first state of a runner. *)
LEMMA RunnerBegins ==
  ASSUME Numbered, stage = "passes", pc = "done", WriteFiles
  PROVE  (RP!RunnerTypeOK /\ RP!HeaderInductive /\ RP!Published /\ ~lost)'
<1>1. /\ snippets' = snippets /\ state' = "start" /\ next' = 1 /\ lost' = FALSE
      /\ inline' = [i \in DOMAIN snippets |-> <<>>]
      /\ topLevel' = <<>> /\ held' = <<>>
      /\ header' = <<RP!Prelude>>
  BY DEF WriteFiles, vars, R!Prelude, RP!Prelude
<1>2. snippets \in Registrations /\ Len(snippets) \in Nat /\ DOMAIN snippets = 1..Len(snippets)
  BY LenProperties DEF Numbered, Registrations
<1>3. RP!Prelude \in RP!Line /\ RP!Prelude.macro = "prelude"
  BY DEF RP!Prelude, RP!Line
<1>4. RP!RunnerTypeOK'
  <2>1. inline' \in [DOMAIN snippets -> Seq(Texts)]
    BY <1>1
  <2>2. header' \in Seq(RP!Line) /\ held' \in Seq(RP!Line) /\ topLevel' \in Seq(Texts)
    BY <1>1, <1>3
  <2>3. next' \in 1..(Len(snippets') + 1)
    <3>1. Len(snippets') \in Nat /\ next' = 1
      BY <1>1, <1>2, Zenon
    <3> QED  BY <3>1
  <2>5. lost' \in BOOLEAN /\ state' \in {"start", "main"} \cup RP!Ended
    BY <1>1, Zenon
  <2>4. snippets' \in Registrations /\ inline' \in [DOMAIN snippets' -> Seq(Texts)]
    BY <1>1, <1>2, <2>1
  <2> QED  BY <2>2, <2>3, <2>4, <2>5 DEF RP!RunnerTypeOK
<1>5. RP!HeaderInductive'
  <2>1. RP!Printed' = <<RP!Prelude>>
    BY <1>1 DEF RP!Printed
  <2>2. \A k \in DOMAIN RP!Printed' : RP!Printed'[k].macro \notin {"_COMPTIME_Xn", "fragment"}
    BY <1>3, <2>1
  <2> HIDE DEF RP!Printed
  <2>3. RP!DefinedMeansReturned'
    BY <2>2 DEF RP!DefinedMeansReturned
  <2>4. RP!OneMacroPerStatement'
    BY <1>1 DEF RP!OneMacroPerStatement
  <2> QED  BY <1>1, <2>3, <2>4 DEF RP!HeaderInductive
<1>6. RP!Published'
  <2>1. RP!NoDefinitions(header') /\ RP!NoDefinitions(held')
    BY <1>1, <1>3 DEF RP!NoDefinitions
  <2>2. \A i \in DOMAIN inline' : Len(inline'[i]) = 0
    BY <1>1
  <2>3. Len(topLevel') = 0
    BY <1>1
  <2> QED  BY <1>1, <2>1, <2>2, <2>3, BoundsAssumption DEF RP!Published, RP!NoDefinitions
<1> QED  BY <1>1, <1>4, <1>5, <1>6

-----------------------------------------------------------------------------
(* What the statements produced.                                           *)

(* No two blocks have the same text. *)
LEMMA BlocksDiffer ==
  ASSUME Numbered, BlocksInPlace(file), NEW i \in DOMAIN Invocations[file],
         NEW j \in DOMAIN Invocations[file],
         Invocations[file][i].buf = Invocations[file][j].buf,
         Invocations[file][i].lo = Invocations[file][j].lo,
         Invocations[file][i].hi = Invocations[file][j].hi
  PROVE  i = j
<1>1. Invocations[file] \in Seq(Invocation)
  BY FilesAssumption DEF Numbered
<1>2. Invocations[file][i] \in Invocation /\ Invocations[file][j] \in Invocation
  BY <1>1
<1>3. Invocations[file][i].lo <= Invocations[file][j].lo /\ Invocations[file][j].hi <= Invocations[file][i].hi
  BY <1>2 DEF Invocation
<1> QED  BY <1>3 DEF BlocksInPlace

(* The statement of registration i is the text of block i. *)
LEMMA StatementsBlock ==
  ASSUME Numbered, BlocksInPlace(file), pc = "done", NEW i \in 1..Len(snippets)
  PROVE  BlockOf(comptime_stmts[snippets[i].stmt + 1]) = i
<1>1. /\ Invocations[file] \in Seq(Invocation)
      /\ DOMAIN Invocations[file] = 1..Len(Invocations[file])
      /\ Len(snippets) = Len(Invocations[file]) /\ Len(snippets) \in Nat
  BY FilesAssumption, LenProperties DEF Numbered
<1> DEFINE stmt == comptime_stmts[snippets[i].stmt + 1]
           inv == Invocations[file]
           hits == {j \in DOMAIN inv : stmt = [buf |-> inv[j].buf, lo |-> inv[j].lo, hi |-> inv[j].hi]}
<1>2. stmt = [buf |-> inv[i].buf, lo |-> inv[i].lo, hi |-> inv[i].hi]
  <2>1. snippets[i].stmt = i - 1 /\ i \in Nat
    BY <1>1 DEF Numbered
  <2>2. snippets[i].stmt + 1 = i
    BY <2>1
  <2> QED  BY <2>2 DEF Numbered
<1>3. i \in DOMAIN inv
  BY <1>1
<1> HIDE DEF stmt
<1>4. hits = {i}
  <2>1. ASSUME NEW j \in hits PROVE j = i
    <3>1. inv[j].buf = inv[i].buf /\ inv[j].lo = inv[i].lo /\ inv[j].hi = inv[i].hi
      BY <1>2
    <3> QED  BY <1>3, <3>1, BlocksDiffer
  <2> QED  BY <1>2, <1>3, <2>1
<1>5. BlockOf(stmt) = Largest(hits)
  <2>1. hits # {}
    BY <1>4
  <2> QED  BY <2>1 DEF BlockOf
<1>6. Largest(hits) = i
  <2>1. hits \in SUBSET (1..Len(snippets)) /\ hits # {}
    BY <1>1, <1>4
  <2> HIDE DEF hits
  <2>2. Largest(hits) \in hits
    BY <1>1, <2>1, LargestIn
  <2> QED  BY <1>4, <2>2
<1> QED  BY <1>5, <1>6 DEF stmt

(* The pieces are sequences of texts. *)
LEMMA PiecesAreTexts ==
  ASSUME NEW o \in Seq(Produced)
  PROVE  LET pieces == [i \in 1..Len(o) |-> o[i].topLevel]
         IN pieces \in Seq(Seq(Texts)) /\ Len(pieces) = Len(o)
<1> DEFINE n == Len(o)
           pieces == [i \in 1..n |-> o[i].topLevel]
<1>1. n \in Nat /\ \A i \in 1..n : o[i] \in Produced
  BY LenProperties
<1> HIDE DEF n
<1>2. \A i \in 1..n : o[i].topLevel \in Seq(Texts)
  BY <1>1 DEF Produced
<1>3. pieces \in [1..n -> Seq(Texts)]
  BY <1>2
<1>4. pieces \in Seq(Seq(Texts)) /\ Len(pieces) = n
  <2> HIDE DEF pieces
  <2>1. DOMAIN pieces = 1..n
    BY <1>3
  <2> QED  BY <1>1, <1>3, <2>1
<1> QED  BY <1>4 DEF n

(* The pieces cut out of the TopLevel buffer put it together again. *)
LEMMA PieceAdded ==
  ASSUME NEW top \in Seq(Texts), NEW pieces \in Seq(Seq(Texts)), NEW m \in 0..Len(top),
         Len(FlattenSeq(pieces)) = m, \A k \in 1..m : FlattenSeq(pieces)[k] = top[k]
  PROVE  /\ SubSeq(top, m + 1, Len(top)) \in Seq(Texts)
         /\ FlattenSeq(Append(pieces, SubSeq(top, m + 1, Len(top)))) = top
<1> DEFINE piece == SubSeq(top, m + 1, Len(top))
           before == FlattenSeq(pieces)
<1>1. Len(top) \in Nat /\ m \in Nat /\ m <= Len(top)
  BY LenProperties
<1>2. /\ piece \in Seq(Texts) /\ Len(piece) = Len(top) - m
      /\ \A i \in 1..(Len(top) - m) : piece[i] = top[m + i]
  <2>1. m + 1 \in Int /\ Len(top) \in Int /\ \A i \in (m + 1)..Len(top) : top[i] \in Texts
    BY <1>1, ElementOfSeq
  <2>2. /\ piece \in Seq(Texts)
        /\ Len(piece) = IF m + 1 <= Len(top) THEN Len(top) - (m + 1) + 1 ELSE 0
        /\ \A i \in 1 .. Len(top) - (m + 1) + 1 : piece[i] = top[(m + 1) + i - 1]
    BY <2>1, SubSeqProperties
  <2> HIDE DEF piece
  <2>3. Len(top) - (m + 1) + 1 = Len(top) - m
    BY <1>1
  <2>4. Len(piece) = Len(top) - m
    BY <1>1, <2>2
  <2>5. \A i \in 1..(Len(top) - m) : (m + 1) + i - 1 = m + i
    BY <1>1
  <2> QED  BY <2>2, <2>3, <2>4, <2>5
<1> HIDE DEF piece, before
<1>3. before \in Seq(Texts) /\ FlattenSeq(Append(pieces, piece)) = before \o piece
  BY <1>2, FlattenAppend DEF before
<1>4. Len(before) = m /\ \A k \in 1..m : before[k] = top[k]
  BY DEF before
<1>5. before \o piece = top
  <2>1. /\ before \o piece \in Seq(Texts) /\ Len(before \o piece) = Len(top)
        /\ \A i \in 1..Len(top) :
             (before \o piece)[i] = IF i <= m THEN before[i] ELSE piece[i - m]
    <3>1. /\ before \o piece \in Seq(Texts) /\ Len(before \o piece) = Len(before) + Len(piece)
          /\ \A i \in 1 .. Len(before) + Len(piece) :
               (before \o piece)[i] = IF i <= Len(before) THEN before[i] ELSE piece[i - Len(before)]
      BY <1>2, <1>3, ConcatProperties
    <3>2. Len(before) + Len(piece) = Len(top)
      BY <1>1, <1>2, <1>4
    <3> QED  BY <1>4, <3>1, <3>2
  <2>2. \A i \in 1..Len(top) : (before \o piece)[i] = top[i]
    <3> SUFFICES ASSUME NEW i \in 1..Len(top) PROVE (before \o piece)[i] = top[i]
      OBVIOUS
    <3>1. CASE i <= m
      BY <1>1, <1>4, <2>1, <3>1
    <3>2. CASE ~(i <= m)
      <4>1. i - m \in 1..(Len(top) - m) /\ m + (i - m) = i
        BY <1>1, <3>2
      <4>2. piece[i - m] = top[m + (i - m)]
        BY <1>2, <4>1
      <4> QED  BY <2>1, <3>2, <4>1, <4>2
    <3> QED  BY <3>1, <3>2
  <2> QED  BY <2>1, <2>2, SeqEqual
<1> QED  BY <1>2, <1>3, <1>5 DEF piece

(* A statement that returns adds what it produced; no other step of the    *)
(* runner changes what the statements before it produced.                  *)
LEMMA RunnerCollects ==
  ASSUME Numbered, BlocksInPlace(file), pc = "done",
         RP!RunnerTypeOK, RP!HeaderInductive, RP!Published, Collected, RunRunner
  PROVE  Collected'
<1>1. /\ snippets' = snippets /\ Len(snippets) \in Nat /\ DOMAIN snippets = 1..Len(snippets)
      /\ snippets \in Registrations
      /\ next \in Nat /\ next <= Len(snippets) + 1 /\ next >= 1
      /\ inline \in [1..Len(snippets) -> Seq(Texts)] /\ topLevel \in Seq(Texts)
      /\ Len(topLevel) \in Nat
      /\ outputs \in Seq(Produced) /\ Len(outputs) = next - 1 /\ DOMAIN outputs = 1..Len(outputs)
      /\ mark \in 0..Len(topLevel)
  <2>1. DOMAIN snippets = 1..Len(snippets) /\ Len(snippets) \in Nat /\ snippets \in Registrations
    BY LenProperties DEF RP!RunnerTypeOK, Registrations
  <2>2. DOMAIN outputs = 1..Len(outputs) /\ Len(topLevel) \in Nat
    BY LenProperties DEF Collected, RP!RunnerTypeOK
  <2> QED  BY <2>1, <2>2 DEF RunRunner, vars, Collected, RP!RunnerTypeOK
<1>2. RP!RunnerNext
  BY SameRunner DEF RunRunner
<1>3. CASE UNCHANGED <<next, outputs, mark>>
           /\ (\A i \in 1..(next - 1) : inline'[i] = inline[i])
           /\ \/ topLevel' = topLevel
              \/ next <= Len(snippets) /\ \E t \in Texts : topLevel' = Append(topLevel, t)
  <2>1. /\ topLevel' \in Seq(Texts) /\ Len(topLevel') \in Nat /\ Len(topLevel) <= Len(topLevel')
        /\ \A k \in 1..mark : topLevel'[k] = topLevel[k]
        /\ next' > Len(snippets') => topLevel' = topLevel
    <3>1. CASE topLevel' = topLevel
      BY <1>1, <3>1
    <3>2. CASE next <= Len(snippets) /\ \E t \in Texts : topLevel' = Append(topLevel, t)
      <4>1. PICK t \in Texts : topLevel' = Append(topLevel, t)
        BY <3>2
      <4>2. /\ Append(topLevel, t) \in Seq(Texts) /\ Len(Append(topLevel, t)) = Len(topLevel) + 1
            /\ \A k \in 1..Len(topLevel) : Append(topLevel, t)[k] = topLevel[k]
        BY <1>1, AppendProperties
      <4>3. \A k \in 1..mark : k \in 1..Len(topLevel)
        BY <1>1
      <4> QED  BY <1>1, <1>3, <3>2, <4>1, <4>2, <4>3
    <3> QED  BY <1>3, <3>1, <3>2
  <2>2. Pieces' = Pieces
    BY <1>3 DEF Pieces
  <2>3. \A i \in 1..Len(outputs) : inline'[i] = inline[i]
    BY <1>1, <1>3
  <2>4. mark' \in 0..Len(topLevel')
    BY <1>1, <1>3, <2>1
  <2> HIDE DEF Pieces
  <2> QED  BY <1>1, <1>3, <2>1, <2>2, <2>3, <2>4 DEF Collected
<1>4. CASE RP!AppendInline
  <2>1. RP!Buffer = next
    BY <1>4, RegistrationsAreRunners, RP!OwnBuffer DEF RP!AppendInline
  <2>2. PICK t \in Texts : inline' = [inline EXCEPT ![next] = Append(@, t)]
    BY <1>4, <2>1 DEF RP!AppendInline
  <2>3. \A i \in 1..(next - 1) : inline'[i] = inline[i]
    BY <1>1, <2>2
  <2>4. UNCHANGED <<next, outputs, mark>> /\ topLevel' = topLevel
    BY <1>1, <1>4 DEF RP!AppendInline, RunRunner
  <2> QED  BY <1>3, <2>3, <2>4
<1>5. CASE RP!AppendTopLevel
  <2>1. UNCHANGED <<next, outputs, mark, inline>>
    BY <1>1, <1>5 DEF RP!AppendTopLevel, RunRunner
  <2>2. next <= Len(snippets) /\ \E t \in Texts : topLevel' = Append(topLevel, t)
    BY <1>5 DEF RP!AppendTopLevel, RP!Executing
  <2> QED  BY <1>3, <2>1, <2>2
<1>6. CASE \/ RP!Open \/ RP!OpenFails \/ RP!StatementExits \/ RP!StatementCrashes \/ RP!Finish
  <2>1. UNCHANGED <<next, inline, topLevel>>
    BY <1>6 DEF RP!Open, RP!OpenFails, RP!StatementExits, RP!StatementCrashes, RP!Finish
  <2>2. UNCHANGED <<outputs, mark>>
    BY <1>1, <2>1 DEF RunRunner
  <2> QED  BY <1>3, <2>1, <2>2
<1>7. CASE RP!StatementReturns
  <2>1. /\ state = "main" /\ next \in 1..Len(snippets) /\ next' = next + 1
        /\ UNCHANGED <<inline, topLevel>>
    BY <1>1, <1>7 DEF RP!StatementReturns, RP!Executing
  <2> DEFINE piece == SubSeq(topLevel, mark + 1, Len(topLevel))
             made == [block |-> next, text |-> inline[next], topLevel |-> piece]
  <2>2. outputs' = Append(outputs, made) /\ mark' = Len(topLevel)
    <3>1. BlockOf(comptime_stmts[snippets[next].stmt + 1]) = next
      BY <2>1, StatementsBlock
    <3> QED  BY <1>1, <2>1, <3>1 DEF RunRunner
  <2>3. Pieces \in Seq(Seq(Texts)) /\ Len(Pieces) = Len(outputs)
    BY <1>1, PiecesAreTexts DEF Pieces
  <2>4. piece \in Seq(Texts) /\ FlattenSeq(Append(Pieces, piece)) = topLevel
    <3> HIDE DEF Pieces
    <3> QED  BY <1>1, <2>3, PieceAdded DEF Collected
  <2>5. made \in Produced
    BY <1>1, <2>1, <2>4 DEF Produced
  <2>6. /\ outputs' \in Seq(Produced) /\ Len(outputs') = next
        /\ \A i \in 1..(next - 1) : outputs'[i] = outputs[i]
        /\ outputs'[next] = made
    <3> HIDE DEF made
    <3>1. /\ Append(outputs, made) \in Seq(Produced)
          /\ Len(Append(outputs, made)) = Len(outputs) + 1
          /\ \A i \in 1..Len(outputs) : Append(outputs, made)[i] = outputs[i]
          /\ Append(outputs, made)[Len(outputs) + 1] = made
      BY <1>1, <2>5, AppendProperties
    <3>2. Len(outputs) + 1 = next
      BY <1>1
    <3> QED  BY <1>1, <2>2, <3>1, <3>2
  <2>7. Pieces' = Append(Pieces, piece)
    <3>1. Pieces' = [i \in 1..next |-> outputs'[i].topLevel]
      BY <2>6 DEF Pieces
    <3>2. made.topLevel = piece
      OBVIOUS
    <3> HIDE DEF piece, made
    <3>3. [i \in 1..next |-> outputs'[i].topLevel] \in Seq(Seq(Texts))
      <4>1. outputs' \in Seq(Produced) /\ Len(outputs') = next
        BY <2>6
      <4> QED  BY <4>1, PiecesAreTexts
    <3>4. \A i \in 1..next : [j \in 1..next |-> outputs'[j].topLevel][i] = Append(Pieces, piece)[i]
      <4>1. /\ Len(Append(Pieces, piece)) = next
            /\ \A i \in 1..(next - 1) : Append(Pieces, piece)[i] = Pieces[i]
            /\ Append(Pieces, piece)[next] = piece
        BY <1>1, <2>3, <2>4, AppendProperties
      <4>2. \A i \in 1..(next - 1) : Pieces[i] = outputs[i].topLevel
        BY <1>1 DEF Pieces
      <4> QED  BY <1>1, <2>6, <3>2, <4>1, <4>2
    <3>5. Append(Pieces, piece) \in Seq(Seq(Texts)) /\ Len(Append(Pieces, piece)) = next
      BY <1>1, <2>3, <2>4, AppendProperties
    <3>6. Len([i \in 1..next |-> outputs'[i].topLevel]) = next
      BY <1>1
    <3> QED  BY <3>1, <3>3, <3>4, <3>5, <3>6, SeqEqual
  <2> HIDE DEF piece, Pieces
  <2>8. \A i \in 1..Len(outputs') : outputs'[i].block = i /\ outputs'[i].text = inline'[i]
    <3> SUFFICES ASSUME NEW i \in 1..next
                 PROVE  outputs'[i].block = i /\ outputs'[i].text = inline'[i]
      BY <2>6
    <3>1. CASE i = next
      BY <2>1, <2>6, <3>1
    <3>2. CASE i # next
      <4>1. i \in 1..(next - 1) /\ i \in 1..Len(outputs)
        BY <1>1, <3>2
      <4> QED  BY <2>1, <2>6, <4>1 DEF Collected
    <3> QED  BY <3>1, <3>2
  <2>9. mark' \in 0..Len(topLevel') /\ mark' = Len(topLevel')
    BY <1>1, <2>1, <2>2
  <2> QED  BY <1>1, <2>1, <2>2, <2>4, <2>6, <2>7, <2>8, <2>9 DEF Collected
<1> QED  BY <1>2, <1>4, <1>5, <1>6, <1>7 DEF RP!RunnerNext

(* Nothing is collected before the runner starts. *)
LEMMA CollectionBegins ==
  ASSUME Numbered, stage = "passes", pc = "done", WriteFiles
  PROVE  Collected'
<1>1. /\ outputs' = <<>> /\ mark' = 0 /\ next' = 1 /\ topLevel' = <<>>
      /\ Len(snippets') = Len(snippets)
  BY DEF WriteFiles, vars
<1>2. Pieces' = <<>>
  <2>1. Pieces' = [i \in 1..Len(outputs') |-> outputs'[i].topLevel]
    BY DEF Pieces
  <2>2. Len(outputs') = 0
    BY <1>1
  <2>3. Pieces' = [i \in 1..0 |-> outputs'[i].topLevel]
    BY <2>1, <2>2
  <2>4. [i \in 1..0 |-> outputs'[i].topLevel] = <<>>
    OBVIOUS
  <2> QED  BY <2>3, <2>4
<1>3. FlattenSeq(<<>>) = <<>>
  BY DEF FlattenSeq
<1> HIDE DEF Pieces
<1>4. outputs' \in Seq(Produced) /\ Len(outputs') = 0 /\ Len(topLevel') = 0
  BY <1>1
<1>5. Len(FlattenSeq(Pieces')) = 0
  BY <1>2, <1>3
<1> QED  BY <1>1, <1>4, <1>5 DEF Collected

(* The runner's invariants hold as long as the pipeline runs. *)
LEMMA RunnerInductiveStep ==
  ASSUME Numbered, BlocksInPlace(file), RunnerInductive, [PipelineNext]_pipelineVars
  PROVE  RunnerInductive'
<1>1. CASE UNCHANGED <<vars, blocks, runnerState>>
           /\ (stage' \in Running => stage \in Running)
           /\ (stage' = "passes" => stage = "passes")
           /\ (stage' = "final" => state = "succeeded")
  <2>1. /\ UNCHANGED <<file, pc, snippets, state, next, inline, topLevel, held, header, lost>>
        /\ UNCHANGED <<outputs, mark, blocks>>
    BY <1>1 DEF vars, runnerState
  <2>2. stage' \in Running => (RP!RunnerTypeOK /\ RP!HeaderInductive /\ RP!Published)'
    <3>1. UNCHANGED RP!runnerVars
      BY <2>1 DEF RP!runnerVars
    <3>2. stage' \in Running => RP!RunnerTypeOK /\ RP!HeaderInductive /\ RP!Published
      BY <1>1 DEF RunnerInductive
    <3> QED  BY <3>1, <3>2, RegistrationsAreRunners, RP!RunnerTypeStep, RP!HeaderStep, RP!PublishedStep
  <2>3. Collected' = Collected
    <3>1. Pieces' = Pieces
      BY <2>1 DEF Pieces
    <3> HIDE DEF Pieces
    <3> QED  BY <2>1, <3>1 DEF Collected
  <2> QED  BY <1>1, <2>1, <2>2, <2>3 DEF RunnerInductive
<1>2. CASE TreePass
  <2>1. UNCHANGED <<blocks, stage, outputs>> /\ stage = "passes" /\ file' = file
    BY <1>2, FileStays DEF TreePass, runnerState
  <2> QED  BY <2>1 DEF RunnerInductive, Running
<1>3. CASE PassesStop \/ CompileRunner \/ FinalCompile \/ FinalCompileFails
  <2>1. UNCHANGED <<vars, blocks, runnerState>>
    BY <1>3 DEF PassesStop, CompileRunner, FinalCompile, FinalCompileFails
  <2>2. /\ stage' \in Running => stage \in Running
        /\ stage' # "passes" /\ stage' # "final"
    BY <1>3 DEF PassesStop, CompileRunner, FinalCompile, FinalCompileFails, Running
  <2> QED  BY <1>1, <2>1, <2>2
<1>4. CASE RunnerEnded
  <2>1. UNCHANGED <<vars, blocks, runnerState>> /\ stage = "run"
        /\ stage' = IF state = "succeeded" THEN "final" ELSE "refused"
    BY <1>4 DEF RunnerEnded
  <2> QED  BY <1>1, <2>1 DEF Running
<1>5. CASE WriteFiles
  <2>1. stage = "passes" /\ pc = "done" /\ stage' = "compile" /\ blocks' = blocks
        /\ file' = file /\ pc' = pc
    BY <1>5 DEF WriteFiles, vars
  <2> QED  BY <1>5, <2>1, RunnerBegins, CollectionBegins DEF RunnerInductive
<1>6. CASE RunRunner
  <2>1. /\ stage = "run" /\ stage' = "run" /\ UNCHANGED <<file, pc, blocks>>
        /\ pc = "done" /\ RP!RunnerTypeOK /\ RP!HeaderInductive /\ RP!Published /\ Collected
        /\ blocks = Len(Invocations[file]) /\ ~lost' /\ ~lost
    BY <1>6 DEF RunRunner, RunnerInductive, Running, vars
  <2>2. RP!RunnerNext
    BY <1>6, SameRunner DEF RunRunner
  <2>3. (RP!RunnerTypeOK /\ RP!HeaderInductive /\ RP!Published)'
    BY <2>1, <2>2, RegistrationsAreRunners, RP!RunnerTypeStep, RP!HeaderStep, RP!PublishedStep
  <2>4. Collected'
    BY <1>6, <2>1, RunnerCollects
  <2> QED  BY <2>1, <2>3, <2>4 DEF RunnerInductive
<1>7. CASE UNCHANGED pipelineVars
  <2>1. UNCHANGED <<vars, blocks, runnerState, stage>>
    BY <1>7 DEF pipelineVars
  <2> QED  BY <1>1, <2>1 DEF RunnerInductive
<1> QED  BY <1>2, <1>3, <1>4, <1>5, <1>6, <1>7 DEF PipelineNext

(* When no block is skipped, the compiler sees all of them. *)
LEMMA RunnerInductiveInit ==
  ASSUME PipelineInit, BlocksInPlace(file)
  PROVE  RunnerInductive
<1>1. file \in Files
  BY DEF PipelineInit, Init
<1>2. Invocations[file] \in Seq(Invocation)
  BY <1>1, FilesAssumption
<1>3. Seen = 1..Len(Invocations[file]) /\ Len(Invocations[file]) \in Nat
  BY <1>2, LenProperties DEF Seen, BlocksInPlace
<1>4. Cardinality(Seen) = Len(Invocations[file])
  BY <1>3, FS_Interval
<1> QED  BY <1>4 DEF RunnerInductive, PipelineInit, Running

LEMMA RunnerInvariant ==
  ASSUME \A f \in Files : Callable(f) => TreesShowBlocks(f),
         \A f \in Files : BlocksInPlace(f)
  PROVE  PipelineSpec => [](Numbered /\ RunnerInductive)
<1>1. PipelineSpec => []Numbered
  BY NumberedCorrect
<1>2. Numbered => BlocksInPlace(file)
  BY DEF Numbered
<1>3. PipelineInit /\ Numbered => RunnerInductive
  BY <1>2, RunnerInductiveInit
<1>4. Numbered /\ RunnerInductive /\ [PipelineNext]_pipelineVars => RunnerInductive'
  BY <1>2, RunnerInductiveStep
<1> QED  BY <1>1, <1>3, <1>4, PTL DEF PipelineSpec

-----------------------------------------------------------------------------
(* The final compile.                                                      *)

(* Blocks that stand apart draw their numbers in the order of the text. *)
LEMMA CounterIsPlace ==
  ASSUME Numbered, BlocksInPlace(file), NEW i \in DOMAIN Invocations[file]
  PROVE  Counter(i) = i - 1
<1>1. Invocations[file] \in Seq(Invocation)
  BY FilesAssumption DEF Numbered
<1>2. DOMAIN Invocations[file] = 1..Len(Invocations[file]) /\ Len(Invocations[file]) \in Nat
  BY <1>1, LenProperties
<1>3. Seen = DOMAIN Invocations[file]
  BY DEF Seen, BlocksInPlace
<1>4. \A j, k \in DOMAIN Invocations[file] : ~Inside(j, k)
  BY DEF Inside, BlocksInPlace
<1>5. {j \in Seen : DrawnBefore(j, i)} = 1..(i - 1)
  BY <1>2, <1>3, <1>4 DEF DrawnBefore
<1>6. i - 1 \in Nat
  BY <1>2
<1>7. Cardinality(1..(i - 1)) = i - 1
  BY <1>6, FS_Interval
<1> QED  BY <1>5, <1>7 DEF Counter

(* A text without a newline is a macro's body as it stands. *)
LEMMA FirstLineOfLine ==
  ASSUME "newline" \notin Texts, NEW text \in Seq(Texts)
  PROVE  FirstLine(text) = text
<1>1. \A k \in DOMAIN text : text[k] # "newline"
  BY LenProperties
<1> QED  BY <1>1 DEF FirstLine

(* The header's last line is all there is of definitions. *)
LEMMA DefinitionsAreTopLevel ==
  ASSUME RP!RunnerTypeOK, RP!Published, state = "succeeded", next > Len(snippets), ~lost
  PROVE  PublishedDefinitions = topLevel
<1>1. PICK lines \in Seq(RP!Line) : RP!NoDefinitions(lines) /\ header = lines \o RP!Ending
  BY DEF RP!Published
<1>2. topLevel \in Seq(Texts) /\ header \in Seq(RP!Line)
  BY DEF RP!RunnerTypeOK
<1> DEFINE f == [k \in DOMAIN header |->
                   IF header[k].macro = "definitions" THEN header[k].text ELSE <<>>]
<1>3. PublishedDefinitions = FlattenSeq(f)
  BY DEF PublishedDefinitions
<1>4. /\ Len(lines) \in Nat /\ Len(header) \in Nat /\ DOMAIN header = 1..Len(header)
      /\ \A k \in 1..Len(header) : header[k] \in RP!Line
  BY <1>2, LenProperties
<1>5. f \in Seq(Seq(Texts)) /\ Len(f) = Len(header)
  <2> DEFINE n == Len(header)
  <2>1. n \in Nat /\ DOMAIN header = 1..n
    BY <1>4
  <2>2. \A k \in 1..n : f[k] \in Seq(Texts)
    <3> SUFFICES ASSUME NEW k \in 1..n PROVE f[k] \in Seq(Texts)
      OBVIOUS
    <3>1. header[k].text \in Seq(Texts)
      BY <1>4 DEF RP!Line
    <3> QED  BY <2>1, <3>1
  <2>3. f \in [1..n -> Seq(Texts)]
    <3> HIDE DEF n
    <3> QED  BY <2>1, <2>2
  <2> HIDE DEF f, n
  <2>4. f \in Seq(Seq(Texts)) /\ Len(f) = n
    <3>1. DOMAIN f = 1..n
      BY <2>3
    <3> QED  BY <2>1, <2>3, <3>1
  <2> QED  BY <2>4 DEF n
<1>6. CASE topLevel = <<>>
  <2>1. header = lines
    BY <1>1, <1>6, ConcatEmptySeq DEF RP!Ending
  <2>2. \A k \in 1..Len(f) : f[k] = <<>>
    BY <1>1, <1>4, <1>5, <2>1 DEF RP!NoDefinitions
  <2>3. CASE Len(f) = 0
    <3> HIDE DEF f
    <3>1. f = <<>>
      BY <1>5, <2>3, EmptySeq
    <3> QED  BY <1>3, <1>6, <3>1 DEF FlattenSeq
  <2>4. CASE Len(f) # 0
    <3> HIDE DEF f
    <3>1. Len(f) \in 1..Len(f) /\ \A k \in 1..(Len(f) - 1) : k \in 1..Len(f)
      BY <1>4, <1>5, <2>4
    <3>2. FlattenSeq(f) = f[Len(f)]
      BY <1>5, <2>2, <2>4, <3>1, FlattenOne
    <3> QED  BY <1>3, <1>6, <2>2, <3>1, <3>2
  <2> QED  BY <2>3, <2>4
<1>7. CASE topLevel # <<>>
  <2> DEFINE last == RP!Definitions(topLevel)
  <2>1. last \in RP!Line /\ last.macro = "definitions" /\ last.text = topLevel
    BY <1>2 DEF RP!Definitions, RP!Line
  <2> HIDE DEF last
  <2>2. header = lines \o <<last>>
    BY <1>1, <1>7 DEF RP!Ending, last
  <2>3. <<last>> \in Seq(RP!Line) /\ Len(<<last>>) = 1 /\ <<last>>[1] = last
    BY <2>1
  <2>4. /\ Len(header) = Len(lines) + 1
        /\ \A k \in 1..Len(lines) : header[k] = lines[k]
        /\ header[Len(lines) + 1] = last
    <3>1. /\ Len(header) = Len(lines) + Len(<<last>>)
          /\ \A k \in 1..Len(lines) : header[k] = lines[k]
          /\ \A k \in 1..Len(<<last>>) : header[Len(lines) + k] = <<last>>[k]
      BY <2>2, <2>3, RP!ConcatKeeps
    <3>2. 1 \in 1..Len(<<last>>)
      BY <2>3
    <3> QED  BY <2>3, <3>1, <3>2
  <2>5. \A k \in 1..(Len(f) - 1) : f[k] = <<>>
    <3> SUFFICES ASSUME NEW k \in 1..(Len(f) - 1) PROVE f[k] = <<>>
      OBVIOUS
    <3>1. k \in 1..Len(lines) /\ k \in DOMAIN header
      BY <1>4, <1>5, <2>4
    <3>2. header[k].macro # "definitions"
      BY <1>1, <2>4, <3>1 DEF RP!NoDefinitions
    <3> QED  BY <3>1, <3>2
  <2>6. f[Len(f)] = topLevel
    <3>1. Len(f) = Len(lines) + 1 /\ Len(lines) + 1 \in DOMAIN header
      BY <1>4, <1>5, <2>4
    <3> QED  BY <2>1, <2>4, <3>1
  <2> HIDE DEF f
  <2>7. Len(f) # 0
    BY <1>4, <1>5, <2>4
  <2>8. FlattenSeq(f) = f[Len(f)]
    BY <1>5, <2>5, <2>7, FlattenOne
  <2> QED  BY <1>3, <2>6, <2>8
<1> QED  BY <1>6, <1>7

(* A final compile that succeeds found every block's own macro, so every   *)
(* statement had returned.                                                 *)
LEMMA BuiltFromOutputs ==
  ASSUME Numbered, BlocksInPlace(file), RunnerInductive, "newline" \notin Texts, FinalCompile
  PROVE  /\ Len(outputs) = blocks
         /\ replacement' = [i \in 1..blocks |-> outputs[i].text]
         /\ definitions' = FlattenSeq([i \in 1..blocks |-> outputs[i].topLevel])
<1>1. /\ pc = "done" /\ state = "succeeded" /\ ~lost /\ blocks = Len(Invocations[file])
      /\ RP!RunnerTypeOK /\ RP!HeaderInductive /\ RP!Published /\ Collected
      /\ \A i \in Seen : Resolved(i)
      /\ replacement' = [i \in Seen |-> Expansion(i)]
      /\ definitions' = PublishedDefinitions
  BY DEF FinalCompile, RunnerInductive, Running
<1>2. /\ Invocations[file] \in Seq(Invocation) /\ Len(Invocations[file]) \in Nat
      /\ DOMAIN Invocations[file] = 1..Len(Invocations[file])
      /\ Len(snippets) = Len(Invocations[file])
      /\ DOMAIN snippets = 1..Len(snippets)
  BY <1>1, FilesAssumption, LenProperties DEF Numbered
<1>3. Seen = 1..blocks
  BY <1>1, <1>2 DEF Seen, BlocksInPlace
<1>4. ASSUME NEW i \in 1..blocks
      PROVE  /\ i < next
             /\ Expansion(i) = inline[i]
  <2>1. Counter(i) = i - 1
    BY <1>1, <1>2, CounterIsPlace
  <2> DEFINE K == DefinesOf(i - 1)
             k == Largest(K)
  <2>2. header \in Seq(RP!Line) /\ held \in Seq(RP!Line)
    BY <1>1 DEF RP!RunnerTypeOK
  <2>3. Len(header) \in Nat /\ DOMAIN header = 1..Len(header)
    BY <2>2, LenProperties
  <2>4. K # {} /\ K \subseteq 1..Len(header)
    BY <1>1, <1>3, <2>1, <2>3 DEF Resolved, DefinesOf
  <2>5. k \in K
    <3> HIDE DEF K
    <3> QED  BY <2>3, <2>4, LargestIn
  <2>6. header[k].macro = "_COMPTIME_Xn" /\ header[k].n = i - 1 /\ k \in 1..Len(header)
    BY <2>4, <2>5 DEF DefinesOf
  <2>7. k \in DOMAIN RP!Printed /\ RP!Printed[k] = header[k]
    <3> HIDE DEF k
    <3> QED  BY <2>2, <2>6, RP!ConcatKeeps DEF RP!Printed
  <2>8. header[k].n + 1 < next /\ header[k].text = inline[header[k].n + 1]
    <3> HIDE DEF k
    <3> QED  BY <1>1, <2>6, <2>7 DEF RP!HeaderInductive, RP!DefinedMeansReturned, RP!CutShort
  <2>9. header[k].n + 1 = i /\ i \in Nat
    <3> HIDE DEF k
    <3> QED  BY <1>1, <1>2, <2>6
  <2>10. Expansion(i) = FirstLine(header[k].text)
    BY <2>1 DEF Expansion
  <2>11. inline[i] \in Seq(Texts)
    BY <1>1, <1>2 DEF RP!RunnerTypeOK
  <2> HIDE DEF k
  <2>12. FirstLine(inline[i]) = inline[i]
    BY <2>11, FirstLineOfLine
  <2> QED  BY <2>8, <2>9, <2>10, <2>12
<1>5. next = Len(snippets) + 1
  <2>1. next \in 1..(Len(snippets) + 1)
    BY <1>1 DEF RP!RunnerTypeOK
  <2>2. CASE next <= Len(snippets)
    <3>1. next \in 1..blocks /\ next \in Nat
      BY <1>1, <1>2, <2>1, <2>2
    <3> QED  BY <1>4, <3>1
  <2> QED  BY <1>2, <2>1, <2>2
<1>6. Len(outputs) = blocks
  BY <1>1, <1>2, <1>5 DEF Collected
<1>7. replacement' = [i \in 1..blocks |-> outputs[i].text]
  <2>1. \A i \in 1..blocks : Expansion(i) = outputs[i].text
    BY <1>1, <1>4, <1>6 DEF Collected
  <2> QED  BY <1>1, <1>3, <2>1
<1>8. definitions' = FlattenSeq([i \in 1..blocks |-> outputs[i].topLevel])
  <2>1. next > Len(snippets) /\ topLevel \in Seq(Texts)
    BY <1>1, <1>2, <1>5 DEF RP!RunnerTypeOK
  <2>2. definitions' = topLevel
    BY <1>1, <2>1, DefinitionsAreTopLevel
  <2>3. mark = Len(topLevel)
    BY <1>1, <2>1 DEF Collected
  <2>4. Pieces \in Seq(Seq(Texts)) /\ Pieces = [i \in 1..blocks |-> outputs[i].topLevel]
    BY <1>1, <1>6, PiecesAreTexts DEF Collected, Pieces
  <2>5. FlattenSeq(Pieces) \in Seq(Texts)
    <3> HIDE DEF Pieces
    <3>1. <<>> \in Seq(Texts)
      BY EmptySeq
    <3> QED  BY <2>4, <3>1, FlattenAppend
  <2>6. FlattenSeq(Pieces) = topLevel
    <3>1. /\ Len(FlattenSeq(Pieces)) = Len(topLevel)
          /\ \A k \in 1..Len(topLevel) : FlattenSeq(Pieces)[k] = topLevel[k]
      BY <1>1, <2>3 DEF Collected
    <3> HIDE DEF Pieces
    <3>2. \A k \in 1..Len(FlattenSeq(Pieces)) : FlattenSeq(Pieces)[k] = topLevel[k]
      BY <3>1
    <3> QED  BY <2>1, <2>5, <3>1, <3>2, SeqEqual
  <2> QED  BY <2>2, <2>4, <2>6
<1> QED  BY <1>6, <1>7, <1>8

-----------------------------------------------------------------------------
(* The promise.                                                            *)

(* A bounded sequence of texts is one of those the promise speaks of. *)
LEMMA UpToBound ==
  ASSUME NEW n \in Nat, NEW s \in Seq(Texts), Len(s) <= n
  PROVE  s \in UpTo(n)
<1>1. Len(s) \in 0..n /\ s \in [1..Len(s) -> Texts]
  BY LenProperties
<1> QED  BY <1>1 DEF UpTo

(* A statement that returns is the next block executed. *)
LEMMA ReturnExecutes ==
  ASSUME Numbered, BlocksInPlace(file), RunnerInductive, RunRunner
  PROVE  Promise!Execute \/ UNCHANGED Promise!comptimeVars
<1>1. /\ stage = "run" /\ stage' = "run" /\ UNCHANGED <<vars, blocks, result>>
      /\ pc = "done" /\ RP!RunnerTypeOK /\ RP!HeaderInductive /\ RP!Published /\ Collected
      /\ blocks = Len(Invocations[file])
  BY DEF RunRunner, RunnerInductive, Running
<1>2. UNCHANGED <<replacement, definitions>>
  BY <1>1 DEF result
<1>3. CASE ~(state = "main" /\ next' > next)
  <2>1. UNCHANGED outputs
    BY <1>3 DEF RunRunner
  <2> QED  BY <1>1, <1>2, <2>1 DEF Promise!comptimeVars
<1>4. CASE state = "main" /\ next' > next
  <2>1. /\ Len(snippets) = Len(Invocations[file]) /\ Len(snippets) \in Nat
        /\ DOMAIN snippets = 1..Len(snippets)
        /\ next \in 1..(Len(snippets) + 1) /\ next' \in Nat
    <3>1. snippets \in Seq(RP!Call) /\ Len(snippets) \in Nat
          /\ DOMAIN snippets = 1..Len(snippets)
      BY <1>1, LenProperties DEF Numbered, RP!Call
    <3>2. RP!RunnerTypeOK'
      BY <1>1, SameRunner, RegistrationsAreRunners, RP!RunnerTypeStep DEF RunRunner
    <3>3. snippets' = snippets
      BY <1>1 DEF vars
    <3> QED  BY <1>1, <3>1, <3>2, <3>3 DEF Numbered, RP!RunnerTypeOK
  <2>2. next \in 1..Len(snippets)
    <3>1. RP!RunnerNext
      BY SameRunner DEF RunRunner
    <3>2. next' # next
      BY <1>4, <2>1
    <3>3. RP!Executing
      BY <3>1, <3>2 DEF RP!RunnerNext, RP!Open, RP!OpenFails, RP!AppendInline, RP!AppendTopLevel,
                        RP!StatementReturns, RP!StatementExits, RP!StatementCrashes, RP!Finish
    <3> QED  BY <2>1, <3>3 DEF RP!Executing
  <2> DEFINE piece == SubSeq(topLevel, mark + 1, Len(topLevel))
  <2>3. outputs' = Append(outputs, [block |-> next, text |-> inline[next], topLevel |-> piece])
    <3>1. BlockOf(comptime_stmts[snippets[next].stmt + 1]) = next
      BY <1>1, <2>2, StatementsBlock
    <3> QED  BY <1>4, <3>1 DEF RunRunner
  <2>4. inline[next] \in UpTo(MaxInline)
    <3>1. inline[next] \in Seq(Texts) /\ next \in DOMAIN inline
      BY <1>1, <2>1, <2>2 DEF RP!RunnerTypeOK
    <3>2. Len(inline[next]) <= MaxInline
      BY <1>1, <3>1 DEF RP!Published
    <3> QED  BY <3>1, <3>2, BoundsAssumption, UpToBound
  <2>5. piece \in UpTo(MaxTopLevel)
    <3>1. topLevel \in Seq(Texts) /\ Len(topLevel) \in Nat /\ Len(topLevel) <= MaxTopLevel
          /\ mark \in 0..Len(topLevel)
      BY <1>1, LenProperties DEF RP!RunnerTypeOK, RP!Published, Collected
    <3>2. mark + 1 \in Int /\ \A i \in (mark + 1)..Len(topLevel) : topLevel[i] \in Texts
      BY <3>1, ElementOfSeq
    <3>3. /\ piece \in Seq(Texts)
          /\ Len(piece) = IF mark + 1 <= Len(topLevel) THEN Len(topLevel) - (mark + 1) + 1 ELSE 0
      BY <3>1, <3>2, SubSeqProperties
    <3> HIDE DEF piece
    <3>4. Len(piece) <= MaxTopLevel
      BY <3>1, <3>3, BoundsAssumption
    <3> QED  BY <3>3, <3>4, BoundsAssumption, UpToBound
  <2>6. Len(outputs) < blocks /\ next = Len(outputs) + 1
    BY <1>1, <2>1, <2>2 DEF Collected
  <2> HIDE DEF piece
  <2>7. Promise!Execute
    BY <1>1, <1>2, <2>3, <2>4, <2>5, <2>6 DEF Promise!Execute
  <2> QED  BY <2>7
<1> QED  BY <1>3, <1>4

(* Every step of the pipeline is one of the promise's, or none. *)
LEMMA PromiseStep ==
  ASSUME Numbered, BlocksInPlace(file), RunnerInductive, "newline" \notin Texts,
         [PipelineNext]_pipelineVars
  PROVE  [Promise!ComptimeNext]_Promise!comptimeVars
<1>1. CASE UNCHANGED <<blocks, outputs, result>> /\ stage \notin {"built", "refused"}
           /\ stage' \notin {"built", "refused"}
  BY <1>1 DEF Promise!comptimeVars, result
<1>2. CASE UNCHANGED <<blocks, outputs, result>> /\ stage \notin {"built", "refused"}
           /\ stage' = "refused"
  BY <1>2 DEF Promise!ComptimeNext, Promise!Refuse, result
<1>3. CASE TreePass
  BY <1>1, <1>3 DEF TreePass, runnerState
<1>4. CASE PassesStop
  BY <1>2, <1>4 DEF PassesStop, runnerState
<1>5. CASE WriteFiles
  <2>1. outputs = <<>>
    BY <1>5 DEF WriteFiles, RunnerInductive
  <2> QED  BY <1>1, <1>5, <2>1 DEF WriteFiles
<1>6. CASE CompileRunner
  BY <1>1, <1>2, <1>6 DEF CompileRunner, runnerState
<1>7. CASE RunRunner
  BY <1>7, ReturnExecutes DEF Promise!ComptimeNext
<1>8. CASE RunnerEnded
  BY <1>1, <1>2, <1>8 DEF RunnerEnded, runnerState
<1>9. CASE FinalCompile
  <2>1. /\ Len(outputs) = blocks
        /\ replacement' = [i \in 1..blocks |-> outputs[i].text]
        /\ definitions' = FlattenSeq([i \in 1..blocks |-> outputs[i].topLevel])
    BY <1>9, BuiltFromOutputs
  <2>2. definitions' = Promise!FlattenSeq([i \in 1..blocks |-> outputs[i].topLevel])
    BY <2>1 DEF FlattenSeq, Promise!FlattenSeq
  <2>3. stage = "final" /\ stage' = "built" /\ UNCHANGED <<blocks, outputs>>
    BY <1>9 DEF FinalCompile, runnerState
  <2> QED  BY <2>1, <2>2, <2>3 DEF Promise!ComptimeNext, Promise!Build
<1>10. CASE FinalCompileFails
  BY <1>2, <1>10 DEF FinalCompileFails, runnerState
<1>11. CASE UNCHANGED pipelineVars
  BY <1>11 DEF pipelineVars, runnerState, result, Promise!comptimeVars
<1> QED  BY <1>3, <1>4, <1>5, <1>6, <1>7, <1>8, <1>9, <1>10, <1>11 DEF PipelineNext

(* Of a file whose trees show its blocks, with no block skipped or written *)
(* inside another one, the pipeline keeps the promise of the README: the   *)
(* blocks are executed once each, in the order of the text, and the        *)
(* program built has every block replaced by what that block produced,     *)
(* and at top level all that the blocks asked for.  This holds whatever    *)
(* the statements append, exit with or crash on, as long as the disk takes *)
(* what the runner prints; a text must not contain a newline, for the      *)
(* runner writes it into the body of a macro as it is.                     *)
THEOREM PromiseKept ==
  ASSUME \A f \in Files : Callable(f) => TreesShowBlocks(f),
         \A f \in Files : BlocksInPlace(f),
         "newline" \notin Texts
  PROVE  PipelineSpec => KeepsPromise
<1>1. PipelineSpec => [](Numbered /\ RunnerInductive)
  BY RunnerInvariant
<1>2. PipelineInit => Promise!ComptimeInit
  <2> SUFFICES ASSUME PipelineInit PROVE Promise!ComptimeInit
    OBVIOUS
  <2>1. file \in Files
    BY DEF PipelineInit, Init
  <2>2. blocks \in Nat
    <3>1. BlocksInPlace(file)
      BY <2>1
    <3>2. blocks = Len(Invocations[file]) /\ Invocations[file] \in Seq(Invocation)
      BY <2>1, <3>1, RunnerInductiveInit, FilesAssumption DEF RunnerInductive
    <3> QED  BY <3>2, LenProperties
  <2> QED  BY <2>2 DEF PipelineInit, Promise!ComptimeInit
<1>3. Numbered /\ RunnerInductive /\ [PipelineNext]_pipelineVars
        => [Promise!ComptimeNext]_Promise!comptimeVars
  <2>1. Numbered => BlocksInPlace(file)
    BY DEF Numbered
  <2> QED  BY <2>1, PromiseStep
<1> QED  BY <1>1, <1>2, <1>3, PTL DEF PipelineSpec, KeepsPromise, Promise!ComptimeSpec
=============================================================================
