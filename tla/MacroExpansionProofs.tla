------------------------ MODULE MacroExpansionProofs ------------------------
(* Theorems about the expansion of macros, for every set of source files    *)
(* and trees.                                                              *)
EXTENDS MacroExpansion, SequenceTheorems, WellFoundedInduction, TLAPS

(* The table grows with the walk, so its entries are behind it; what a       *)
(* replacement is replaced by does not matter.                             *)
Tables ==
  /\ file \in Files
  /\ pc \in {"expand", "apply", "done"} \cup MacroStopped
  /\ at \in Nat \ {0}
  /\ \A name \in DOMAIN macros : macros[name] \in 1..Len(tree)
  /\ pc = "expand" => \A name \in DOMAIN macros : macros[name] < at
  /\ \E S : replacements \in Seq(S)
  /\ \A r \in 1..Len(replacements) : replacements[r].node \in 1..Len(tree)
  /\ cursor \in 0..Len(text)
  /\ OnlyComptimeMacros

LEMMA FilesAreTyped ==
  ASSUME file \in Files
  PROVE  /\ text \in Seq(Tokens) /\ Len(text) \in Nat
         /\ tree \in Seq(MacroNode) /\ Len(tree) \in Nat /\ DOMAIN tree = 1..Len(tree)
         /\ \A n \in 1..Len(tree) :
              /\ tree[n] \in MacroNode
              /\ tree[n].lo \in 0..tree[n].hi /\ tree[n].hi \in 0..Len(text)
<1>1. /\ file.text \in Seq(Tokens) /\ file.tree \in Seq(MacroNode)
      /\ \A n \in DOMAIN file.tree :
           file.tree[n].lo <= file.tree[n].hi /\ file.tree[n].hi <= Len(file.text)
  BY MacroFilesAssumption
<1>2. /\ Len(file.text) \in Nat /\ Len(file.tree) \in Nat
      /\ DOMAIN file.tree = 1..Len(file.tree)
      /\ \A n \in 1..Len(file.tree) : file.tree[n] \in MacroNode
  BY <1>1, LenProperties
<1>3. \A n \in 1..Len(file.tree) : file.tree[n].lo \in Nat /\ file.tree[n].hi \in Nat
  BY <1>2 DEF MacroNode
<1>4. \A n \in 1..Len(file.tree) :
        file.tree[n].lo <= file.tree[n].hi /\ file.tree[n].hi <= Len(file.text)
  BY <1>1, <1>2
<1>5. \A n \in 1..Len(file.tree) :
        /\ file.tree[n].lo \in 0..file.tree[n].hi /\ file.tree[n].hi \in 0..Len(file.text)
  BY <1>2, <1>3, <1>4
<1> QED  BY <1>1, <1>2, <1>5 DEF text, tree

LEMMA TablesInitially == MacroInit => Tables
<1> SUFFICES ASSUME MacroInit PROVE Tables
  OBVIOUS
<1>1. DOMAIN macros = {} /\ replacements \in Seq({}) /\ Len(replacements) = 0
  BY DEF MacroInit
<1>2. 0 \in 0..Len(text)
  BY FilesAreTyped DEF MacroInit
<1> QED  BY <1>1, <1>2 DEF MacroInit, Tables, OnlyComptimeMacros

(* A definition enters the table for its keyword, or in place of one of its *)
(* name that is before it.                                                 *)
LEMMA DefineKeepsTables ==
  ASSUME Tables, Define
  PROVE  Tables'
<1>1. /\ UNCHANGED <<file, pc, replacements, cursor>> /\ pc = "expand" /\ at' = at + 1
      /\ at \in 1..Len(tree)
  BY FilesAreTyped DEF Tables, Define, Is
<1>2. text' = text /\ tree' = tree
  BY <1>1 DEF text, tree
<1>3. \A name \in DOMAIN macros : macros[name] \in 1..Len(tree) /\ macros[name] < at
  BY <1>1 DEF Tables
<1> DEFINE Witness(name, last) ==
             \E n \in 1..last : tree[n].name = name /\ \E body \in tree[n].body : HasComptime(body)
<1>4. \A name \in DOMAIN macros : Witness(name, macros[name])
  BY DEF Tables, OnlyComptimeMacros
<1>5. CASE macros' = macros
  BY <1>1, <1>2, <1>3, <1>5 DEF Tables, OnlyComptimeMacros
<1>6. CASE Relevant /\ macros' = [name \in DOMAIN macros \cup {tree[at].name} |->
                                    IF name = tree[at].name THEN at ELSE macros[name]]
  <2>1. Witness(tree[at].name, at)
    <3>1. CASE Known
      <4>1. PICK n \in 1..macros[tree[at].name] :
              tree[n].name = tree[at].name /\ \E body \in tree[n].body : HasComptime(body)
        BY <1>4, <3>1 DEF Known
      <4>2. n \in 1..at
        BY <1>1, <1>3, <3>1 DEF Known
      <4> QED  BY <4>1, <4>2
    <3>2. CASE \E body \in tree[at].body : HasComptime(body)
      <4>1. at \in 1..at
        BY <1>1
      <4> QED  BY <3>2, <4>1
    <3> QED  BY <1>6, <3>1, <3>2 DEF Relevant
  <2> HIDE DEF Witness
  <2>2. \A name \in DOMAIN macros' : Witness(name, macros'[name])
    BY <1>4, <1>6, <2>1
  <2> USE DEF Witness
  <2>3. OnlyComptimeMacros'
    BY <1>2, <2>2 DEF OnlyComptimeMacros, HasComptime
  <2>4. \A name \in DOMAIN macros' : macros'[name] \in 1..Len(tree) /\ macros'[name] < at'
    BY <1>1, <1>3, <1>6
  <2> QED  BY <1>1, <1>2, <2>3, <2>4 DEF Tables
<1> QED  BY <1>5, <1>6 DEF Define

LEMMA StepKeepsTables ==
  ASSUME Tables, [MacroNext]_macroVars, ~Define
  PROVE  Tables'
<1>1. ASSUME UNCHANGED <<file, macros, replacements, cursor>>,
             at' \in Nat \ {0}, pc' \in {"expand", "apply", "done"} \cup MacroStopped,
             pc' = "expand" => pc = "expand" /\ at <= at'
      PROVE  Tables'
  <2>1. text' = text /\ tree' = tree
    BY <1>1 DEF text, tree
  <2>2. \A name \in DOMAIN macros : macros[name] \in Int
    BY DEF Tables
  <2> QED  BY <1>1, <2>1, <2>2 DEF Tables, OnlyComptimeMacros, HasComptime
<1>2. CASE DefineWithoutBody \/ CallAborts \/ TypeIdentifierCrashes \/ ApplyAborts
  BY <1>1, <1>2 DEF DefineWithoutBody, CallAborts, TypeIdentifierCrashes, ApplyAborts, Stop,
     Tables, MacroStopped
<1>3. CASE Ordinary \/ Walked \/ Applied \/ UNCHANGED macroVars
  BY <1>1, <1>3 DEF Ordinary, Pass, Walked, Applied, macroVars, Tables
<1>4. ASSUME NEW values, Replace(values), pc = "expand", at <= Len(tree) PROVE Tables'
  <2>1. PICK x : /\ x.node = at
                 /\ replacements' = Append(replacements, x)
    BY <1>4 DEF Replace
  <2>2. /\ UNCHANGED <<file, pc, macros, cursor>> /\ at' = at + 1
    BY <1>4 DEF Replace, Pass
  <2>3. text' = text /\ tree' = tree
    BY <2>2 DEF text, tree
  <2>4. at \in 1..Len(tree)
    BY <1>4, FilesAreTyped DEF Tables
  <2>5. PICK S : replacements \in Seq(S)
    BY DEF Tables
  <2>6. replacements' \in Seq(S \cup {x}) /\ Len(replacements') = Len(replacements) + 1
        /\ \A r \in 1..Len(replacements') :
             replacements'[r] = IF r <= Len(replacements) THEN replacements[r] ELSE x
    BY <2>1, <2>5
  <2>7. \A r \in 1..Len(replacements') : replacements'[r].node \in 1..Len(tree)
    BY <2>1, <2>4, <2>5, <2>6 DEF Tables
  <2>8. \A name \in DOMAIN macros : macros[name] \in Int
    BY DEF Tables
  <2> QED
    BY <1>4, <2>2, <2>3, <2>6, <2>7, <2>8 DEF Tables, OnlyComptimeMacros, HasComptime
<1>5. CASE Call \/ TypeIdentifier
  BY <1>4, <1>5 DEF Call, TypeIdentifier, Is
<1>6. CASE Apply
  <2>1. /\ UNCHANGED <<file, pc, macros, replacements>> /\ at' = at + 1 /\ cursor' = Replaced.hi
        /\ pc = "apply" /\ at <= Len(replacements)
    BY <1>6 DEF Apply, Behind
  <2>2. text' = text /\ tree' = tree
    BY <2>1 DEF text, tree
  <2>3. at \in 1..Len(replacements)
    BY <2>1 DEF Tables
  <2>4. cursor' \in 0..Len(text)
    BY <2>1, <2>3, FilesAreTyped DEF Replaced, Tables
  <2> QED  BY <2>1, <2>2, <2>4 DEF Tables, OnlyComptimeMacros, HasComptime
<1> QED  BY <1>2, <1>3, <1>5, <1>6 DEF MacroNext

LEMMA TablesArePreserved == Tables /\ [MacroNext]_macroVars => Tables'
BY DefineKeepsTables, StepKeepsTables

(* The table, the replacements and the cursor stay inside the file.         *)
THEOREM MacroTypeCorrect == MacroSpec => []MacroTypeOK
<1>1. Tables => MacroTypeOK
  <2> SUFFICES ASSUME Tables PROVE MacroTypeOK
    OBVIOUS
  <2>1. PICK S : replacements \in Seq(S)
    BY DEF Tables
  <2>2. DOMAIN replacements = 1..Len(replacements) /\ DOMAIN tree = 1..Len(tree)
    BY <2>1, FilesAreTyped DEF Tables
  <2> QED  BY <2>2 DEF Tables, MacroTypeOK
<1> QED  BY <1>1, TablesInitially, TablesArePreserved, PTL DEF MacroSpec

(* Whatever the files, only macros that once stood for comptime code are    *)
(* expanded.                                                               *)
THEOREM OnlyComptimeCorrect == MacroSpec => []OnlyComptimeMacros
<1>1. Tables => OnlyComptimeMacros
  BY DEF Tables
<1> QED  BY <1>1, TablesInitially, TablesArePreserved, PTL DEF MacroSpec

-----------------------------------------------------------------------------
(* Lemmas about sequences put end to end.                                  *)

(* A set of natural numbers that is not empty has a least element. *)
LEMMA LeastExists ==
  ASSUME NEW T \in SUBSET Nat, T # {}
  PROVE  \E x \in T : \A y \in T : x <= y
<1>1. PICK x \in T : \A y \in T : ~(<<y, x>> \in OpToRel(<, Nat))
  BY NatLessThanWellFounded, WFMin
<1>2. \A y \in T : ~(y < x)
  BY <1>1 DEF OpToRel
<1> QED  BY <1>2

(* The first index of a set has none of the set before it. *)
LEMMA FirstIndex ==
  ASSUME NEW n \in Nat, NEW T \in SUBSET (1..n), T # {}
  PROVE  \E i \in T : i = 1 \/ (i - 1 \in 1..n /\ i - 1 \notin T)
<1>1. PICK i \in T : \A k \in T : i <= k
  BY LeastExists
<1>2. i \in Nat /\ i >= 1 /\ i <= n
  OBVIOUS
<1>3. i - 1 \notin T
  <2>1. ~(i <= i - 1)
    BY <1>2
  <2> QED  BY <1>1, <2>1
<1>4. i = 1 \/ i - 1 \in 1..n
  BY <1>2
<1> QED  BY <1>3, <1>4

(* FlattenSeq is the last of its partial results. *)
LEMMA FlattenUnfolds ==
  ASSUME NEW S, NEW f \in Seq(Seq(S)), Len(f) # 0
  PROVE  \E g : /\ FlattenSeq(f) = g[Len(f)]
                /\ \A i \in 1..Len(f) :
                     /\ g[i] = IF i = 1 THEN f[i] ELSE g[i - 1] \o f[i]
                     /\ g[i] \in Seq(S)
<1> DEFINE n == Len(f)
           Up(g, m) == [i \in 1..m |-> IF i = 1 THEN f[i] ELSE g[i - 1] \o f[i]]
<1>1. n \in Nat /\ \A i \in 1..n : f[i] \in Seq(S)
  BY LenProperties
<1>2. \A m \in Nat : \E g : g = Up(g, m)
  <2> DEFINE T == {m \in Nat : ~\E g : g = Up(g, m)}
  <2> SUFFICES ASSUME T # {} PROVE FALSE
    OBVIOUS
  <2>1. T \in SUBSET Nat
    OBVIOUS
  <2>2. PICK m \in T : \A k \in T : m <= k
    BY <2>1, LeastExists
  <2>3. m # 0
    <3> DEFINE none == [i \in 1..0 |-> 0]
    <3>1. none = Up(none, 0)
      OBVIOUS
    <3> QED  BY <2>2, <3>1
  <2>4. m - 1 \in Nat /\ m - 1 \notin T
    <3> HIDE DEF T
    <3> QED  BY <2>1, <2>2, <2>3
  <2>5. PICK g : g = Up(g, m - 1)
    BY <2>4
  <2> DEFINE h == [i \in 1..m |-> IF i = m THEN IF m = 1 THEN f[m] ELSE g[m - 1] \o f[m]
                                  ELSE g[i]]
  <2>6. \A i \in 1..(m - 1) : g[i] = IF i = 1 THEN f[i] ELSE g[i - 1] \o f[i]
    BY <2>5
  <2>7. \A i \in 1..m : h[i] = IF i = 1 THEN f[i] ELSE h[i - 1] \o f[i]
    BY <2>2, <2>3, <2>6
  <2>8. h = Up(h, m)
    BY <2>7
  <2> QED  BY <2>2, <2>8
<1> DEFINE flat == CHOOSE g : g = Up(g, n)
<1>3. flat = Up(flat, n)
  BY <1>1, <1>2
<1>4. FlattenSeq(f) = flat[n]
  BY DEF FlattenSeq
<1> HIDE DEF flat
<1>5. \A i \in 1..n : flat[i] = IF i = 1 THEN f[i] ELSE flat[i - 1] \o f[i]
  BY <1>3
<1>6. \A i \in 1..n : flat[i] \in Seq(S)
  <2> DEFINE T == {i \in 1..n : flat[i] \notin Seq(S)}
  <2> SUFFICES ASSUME T # {} PROVE FALSE
    OBVIOUS
  <2>1. PICK i \in T : i = 1 \/ (i - 1 \in 1..n /\ i - 1 \notin T)
    <3>1. T \in SUBSET (1..n) /\ T # {}
      OBVIOUS
    <3> HIDE DEF n, T
    <3> QED  BY <1>1, <3>1, FirstIndex
  <2>2. i = 1 \/ flat[i - 1] \in Seq(S)
    BY <2>1
  <2>3. flat[i] \in Seq(S)
    <3>1. f[i] \in Seq(S) /\ flat[i] = IF i = 1 THEN f[i] ELSE flat[i - 1] \o f[i]
      BY <1>1, <1>5, <2>1
    <3>2. flat[i - 1] \in Seq(S) => flat[i - 1] \o f[i] \in Seq(S)
      BY <3>1, ConcatProperties
    <3> QED  BY <2>2, <3>1, <3>2
  <2> QED  BY <2>1, <2>3
<1> QED  BY <1>4, <1>5, <1>6

(* The sequence of pieces grows by a piece, the whole by that piece. *)
LEMMA FlattenAppend ==
  ASSUME NEW S, NEW f \in Seq(Seq(S)), NEW s \in Seq(S)
  PROVE  /\ FlattenSeq(f) \in Seq(S)
         /\ FlattenSeq(Append(f, s)) = FlattenSeq(f) \o s
<1> DEFINE n == Len(f)
           fs == Append(f, s)
<1>1. /\ n \in Nat /\ fs \in Seq(Seq(S)) /\ Len(fs) = n + 1
      /\ \A i \in 1..n : f[i] \in Seq(S) /\ fs[i] = f[i]
      /\ fs[n + 1] = s
  BY LenProperties, AppendProperties
<1> HIDE DEF fs
<1>2. PICK h : /\ FlattenSeq(fs) = h[Len(fs)]
               /\ \A i \in 1..Len(fs) :
                    /\ h[i] = IF i = 1 THEN fs[i] ELSE h[i - 1] \o fs[i]
                    /\ h[i] \in Seq(S)
  <2>1. fs \in Seq(Seq(S)) /\ Len(fs) # 0
    BY <1>1
  <2> QED  BY <2>1, FlattenUnfolds
<1>3. CASE n = 0
  <2>1. f = <<>>
    BY <1>3, EmptySeq
  <2>2. FlattenSeq(f) = <<>>
    BY <1>3, <2>1 DEF FlattenSeq
  <2>3. h[1] = fs[1] /\ fs[1] = s
    BY <1>1, <1>2, <1>3
  <2>4. FlattenSeq(fs) = s
    BY <1>1, <1>2, <1>3, <2>3
  <2> QED  BY <2>2, <2>4, ConcatEmptySeq, EmptySeq DEF fs
<1>4. CASE n # 0
  <2>1. PICK g : /\ FlattenSeq(f) = g[n]
                 /\ \A i \in 1..n : /\ g[i] = IF i = 1 THEN f[i] ELSE g[i - 1] \o f[i]
                                    /\ g[i] \in Seq(S)
    BY <1>4, FlattenUnfolds
  <2>2. \A i \in 1..n : h[i] = g[i]
    <3> DEFINE T == {i \in 1..n : h[i] # g[i]}
    <3> SUFFICES ASSUME T # {} PROVE FALSE
      OBVIOUS
    <3>1. PICK i \in T : i = 1 \/ (i - 1 \in 1..n /\ i - 1 \notin T)
      <4>1. T \in SUBSET (1..n) /\ T # {}
        OBVIOUS
      <4> HIDE DEF n, T
      <4> QED  BY <1>1, <4>1, FirstIndex
    <3>2. i = 1 \/ h[i - 1] = g[i - 1]
      BY <3>1
    <3>3. /\ h[i] = IF i = 1 THEN fs[i] ELSE h[i - 1] \o fs[i]
          /\ g[i] = IF i = 1 THEN f[i] ELSE g[i - 1] \o f[i]
          /\ fs[i] = f[i]
      <4>1. i \in 1..n
        OBVIOUS
      <4>2. i \in 1..Len(fs)
        <5> HIDE DEF n, T
        <5> QED  BY <1>1, <4>1
      <4> HIDE DEF n, T
      <4>3. h[i] = IF i = 1 THEN fs[i] ELSE h[i - 1] \o fs[i]
        BY <1>2, <4>2
      <4>4. g[i] = IF i = 1 THEN f[i] ELSE g[i - 1] \o f[i]
        BY <2>1, <4>1
      <4> QED  BY <1>1, <4>1, <4>3, <4>4
    <3> QED  BY <3>1, <3>2, <3>3
  <2>3. h[n + 1] = h[n] \o s
    <3>1. n + 1 \in 1..Len(fs) /\ n + 1 # 1 /\ (n + 1) - 1 = n
      BY <1>1, <1>4
    <3>2. h[n + 1] = h[(n + 1) - 1] \o fs[n + 1]
      BY <1>2, <3>1
    <3> QED  BY <1>1, <3>1, <3>2
  <2>4. h[n] = g[n] /\ g[n] \in Seq(S)
    BY <1>1, <1>4, <2>1, <2>2
  <2> QED  BY <1>1, <1>2, <2>1, <2>3, <2>4 DEF fs
<1> QED  BY <1>3, <1>4

(* Sequences put end to end are a sequence. *)
LEMMA FlattenIsSeq ==
  ASSUME NEW S, NEW f \in Seq(Seq(S))
  PROVE  FlattenSeq(f) \in Seq(S)
<1>1. <<>> \in Seq(S)
  OBVIOUS
<1> QED  BY <1>1, FlattenAppend

-----------------------------------------------------------------------------
(* What a use is replaced by.                                              *)

(* The place of a parameter is one of the places of the parameters.         *)
LEMMA PlaceHolds ==
  ASSUME NEW params \in Seq(Names), NEW name \in ToSet(params)
  PROVE  Place(name, params) \in 1..Len(params)
<1>1. DOMAIN params = 1..Len(params)
  OBVIOUS
<1>2. \E p \in DOMAIN params : params[p] = name
  BY DEF ToSet
<1>3. Place(name, params) \in DOMAIN params
  BY <1>2 DEF Place
<1> QED  BY <1>1, <1>3

(* The expansion of a macro with a body is a sequence of tokens. *)
LEMMA ExpansionIsSeq ==
  ASSUME NEW def \in MacroNode, def.body # {}, NEW V, NEW values \in Seq(Seq(V)),
         Len(values) = Len(def.params)
  PROVE  Expand(def, values) \in Seq(V \cup Tokens \cup {"quote"})
<1> DEFINE S == V \cup Tokens \cup {"quote"}
           body == CHOOSE b \in def.body : TRUE
           puts == [k \in 1..Len(body) |-> Put(body[k], def.params, values)]
<1>1. def.params \in Seq(Names) /\ body \in Seq(Leaf)
  BY DEF MacroNode
<1>2. ASSUME NEW leaf \in Leaf PROVE Put(leaf, def.params, values) \in Seq(S)
  <2>1. <<leaf.name>> \in Seq(S)
    <3>1. leaf.name \in S
      BY DEF Leaf
    <3> QED  BY <3>1
  <2>2. ASSUME leaf.name \in ToSet(def.params)
        PROVE  values[Place(leaf.name, def.params)] \in Seq(S)
    <3>1. Place(leaf.name, def.params) \in 1..Len(values)
      BY <1>1, <2>2, PlaceHolds
    <3>2. values[Place(leaf.name, def.params)] \in Seq(V)
      BY <3>1, ElementOfSeq
    <3>3. \A s \in Seq(V) : s \in Seq(S)
      OBVIOUS
    <3> QED  BY <3>2, <3>3
  <2>3. <<"quote">> \in Seq(S)
    OBVIOUS
  <2> HIDE DEF S
  <2>4. ASSUME NEW s \in Seq(S) PROVE <<"quote">> \o s \o <<"quote">> \in Seq(S)
    BY <2>3, ConcatProperties
  <2> QED  BY <2>1, <2>2, <2>4 DEF Put
<1>3. Len(body) \in Nat /\ \A k \in 1..Len(body) : body[k] \in Leaf
  BY <1>1, LenProperties
<1> HIDE DEF body, S
<1>4. puts \in Seq(Seq(S))
  <2>1. \A k \in 1..Len(body) : puts[k] \in Seq(S)
    BY <1>2, <1>3
  <2> QED  BY <1>3, <2>1
<1>5. FlattenSeq(puts) \in Seq(S)
  BY <1>4, FlattenIsSeq
<1>6. Expand(def, values) = FlattenSeq(puts)
  BY DEF Expand, body
<1> QED  BY <1>5, <1>6 DEF S

(* The values of a call's arguments are sequences. *)
LEMMA ValuesAreSeqs ==
  ASSUME NEW macro \in MacroNode, tree[at] \in MacroNode, Macro = macro
  PROVE  \E V : Values \in Seq(Seq(V))
<1> DEFINE V == {text[i] : i \in Int}
<1>1. CASE macro.params = <<>>
  BY <1>1 DEF Values
<1>2. CASE macro.params # <<>>
  <2>1. tree[at].args \in Seq(Slice)
    BY DEF MacroNode
  <2>2. /\ Len(tree[at].args) \in Nat /\ DOMAIN tree[at].args = 1..Len(tree[at].args)
        /\ \A k \in 1..Len(tree[at].args) : tree[at].args[k] \in Slice
    BY <2>1, LenProperties
  <2>3. ASSUME NEW s \in Slice PROVE Value(s.lo, s.hi) \in Seq(V)
    <3>1. s.lo + 1 \in Int /\ s.hi \in Int /\ \A i \in (s.lo + 1)..s.hi : text[i] \in V
      BY DEF Slice
    <3> QED  BY <3>1, SubSeqProperties DEF Value
  <2> HIDE DEF V
  <2>4. Values = [k \in 1..Len(tree[at].args) |-> Value(tree[at].args[k].lo, tree[at].args[k].hi)]
    BY <1>2, <2>2 DEF Values
  <2>5. \A k \in 1..Len(tree[at].args) : Values[k] \in Seq(V)
    BY <2>2, <2>3, <2>4
  <2>6. Values \in Seq(Seq(V))
    BY <2>2, <2>4, <2>5
  <2> QED  BY <2>6
<1> QED  BY <1>1, <1>2

(* The definitions in the table have bodies, so what a use becomes has a    *)
(* length.                                                                 *)
Expansions ==
  /\ Tables
  /\ \A name \in DOMAIN macros : tree[macros[name]].body # {}
  /\ \A r \in 1..Len(replacements) : Len(replacements[r].with) \in Nat

LEMMA ExpansionsInitially == MacroInit => Expansions
<1> SUFFICES ASSUME MacroInit PROVE Expansions
  OBVIOUS
<1>1. DOMAIN macros = {} /\ Len(replacements) = 0
  BY DEF MacroInit
<1> QED  BY <1>1, TablesInitially DEF Expansions

LEMMA ReplaceKeepsExpansions ==
  ASSUME Expansions, NEW V, NEW values \in Seq(Seq(V)), Known,
         Len(values) = Len(Macro.params), Replace(values)
  PROVE  /\ UNCHANGED <<file, pc, macros, cursor, out>>
         /\ \A r \in 1..Len(replacements') : Len(replacements'[r].with) \in Nat
<1>1. Macro \in MacroNode /\ Macro.body # {}
  BY FilesAreTyped DEF Expansions, Tables, Known, Macro
<1>2. Len(Expand(Macro, values)) \in Nat
  BY <1>1, ExpansionIsSeq, LenProperties
<1>3. PICK x : replacements' = Append(replacements, x) /\ x.with = Expand(Macro, values)
  BY DEF Replace
<1>4. PICK S : replacements \in Seq(S)
  BY DEF Expansions, Tables
<1>5. Len(replacements') = Len(replacements) + 1
      /\ \A r \in 1..Len(replacements') :
           replacements'[r] = IF r <= Len(replacements) THEN replacements[r] ELSE x
  BY <1>3, <1>4
<1>6. \A r \in 1..Len(replacements') : Len(replacements'[r].with) \in Nat
  BY <1>2, <1>3, <1>4, <1>5 DEF Expansions
<1> QED  BY <1>6 DEF Replace, Pass

LEMMA ExpansionsArePreserved == Expansions /\ [MacroNext]_macroVars => Expansions'
<1> SUFFICES ASSUME Expansions, [MacroNext]_macroVars PROVE Expansions'
  OBVIOUS
<1>1. Tables'
  BY TablesArePreserved DEF Expansions
<1>2. CASE UNCHANGED <<file, macros, replacements>>
  BY <1>1, <1>2 DEF Expansions, tree
<1>3. CASE Define
  <2>1. UNCHANGED <<file, replacements>> /\ tree' = tree
    BY <1>3 DEF Define, tree
  <2>2. CASE macros' = macros
    BY <1>1, <2>1, <2>2 DEF Expansions
  <2>3. CASE tree[at].body # {} /\ macros' = [name \in DOMAIN macros \cup {tree[at].name} |->
                                    IF name = tree[at].name THEN at ELSE macros[name]]
    <3>1. \A name \in DOMAIN macros' : tree[macros'[name]].body # {}
      BY <2>3 DEF Expansions
    <3> QED  BY <1>1, <2>1, <3>1 DEF Expansions
  <2> QED  BY <1>3, <2>2, <2>3 DEF Define
<1>4. ASSUME NEW V, NEW values \in Seq(Seq(V)), Known, Len(values) = Len(Macro.params),
             Replace(values)
      PROVE  Expansions'
  <2>1. /\ UNCHANGED <<file, pc, macros, cursor, out>>
        /\ \A r \in 1..Len(replacements') : Len(replacements'[r].with) \in Nat
    BY <1>4, ReplaceKeepsExpansions
  <2> QED  BY <1>1, <2>1 DEF Expansions, tree
<1>5. CASE Call
  <2>1. Known /\ Len(Macro.params) = Len(Values) /\ Replace(Values)
    BY <1>5 DEF Call
  <2>2. Macro \in MacroNode /\ tree[at] \in MacroNode
    <3>1. at \in 1..Len(tree)
      BY <1>5 DEF Call, Is, Expansions, Tables
    <3> QED  BY <2>1, <3>1, FilesAreTyped DEF Expansions, Tables, Known, Macro
  <2>3. PICK V : Values \in Seq(Seq(V))
    BY <2>2, ValuesAreSeqs
  <2> QED  BY <1>4, <2>1, <2>3
<1>6. CASE TypeIdentifier
  <2>1. Known /\ Macro.params = <<>> /\ Replace(<<>>)
    BY <1>6 DEF TypeIdentifier
  <2>2. <<>> \in Seq(Seq({})) /\ Len(<<>>) = Len(Macro.params)
    BY <2>1
  <2> QED  BY <1>4, <2>1, <2>2
<1>7. CASE DefineWithoutBody \/ CallAborts \/ TypeIdentifierCrashes \/ ApplyAborts
           \/ Ordinary \/ Walked \/ Apply \/ Applied \/ UNCHANGED macroVars
  BY <1>2, <1>7 DEF DefineWithoutBody, CallAborts, TypeIdentifierCrashes, ApplyAborts, Stop,
     Ordinary, Pass, Walked, Apply, Applied, macroVars
<1> QED  BY <1>3, <1>5, <1>6, <1>7 DEF MacroNext

-----------------------------------------------------------------------------
(* The copying loop.                                                       *)

(* What o holds of the source are the tokens of P, once and in order.       *)
Copies(o, P) ==
  LET Copied == {k \in 1..Len(o) : o[k].from # 0}
  IN /\ \E S : o \in Seq(S)
     /\ \A k \in Copied : o[k].from \in P /\ o[k].token = text[o[k].from]
     /\ \A p \in P : \E k \in Copied : o[k].from = p
     /\ \A k, l \in Copied : k < l => o[k].from < o[l].from

(* A piece of the source put behind it.                                    *)
LEMMA SourceIsCopied ==
  ASSUME NEW o, NEW P \in SUBSET Nat, Copies(o, P), NEW a \in Nat, NEW b \in Nat, a <= b,
         \A p \in P : p <= a
  PROVE  Copies(o \o Source(a, b), P \cup ((a + 1)..b))
<1> DEFINE piece == Source(a, b)
           new == o \o piece
<1>1. PICK S : o \in Seq(S)
  BY DEF Copies
<1> DEFINE T == S \cup {[token |-> text[a + k], from |-> a + k] : k \in 1..(b - a)}
<1>2. /\ piece \in Seq(T) /\ Len(piece) = b - a
      /\ \A k \in 1..(b - a) : piece[k].from = a + k /\ piece[k].token = text[a + k]
  <2>1. \A k \in 1..(b - a) :
          /\ piece[k].from = a + k /\ piece[k].token = text[a + k]
          /\ piece[k] = [token |-> text[a + k], from |-> a + k]
    BY DEF Source
  <2>2. b - a \in Nat /\ piece = [k \in 1..(b - a) |-> piece[k]]
    BY DEF Source
  <2>3. \A k \in 1..(b - a) : piece[k] \in T
    BY <2>1
  <2> HIDE DEF piece, T
  <2>4. piece \in Seq(T) /\ Len(piece) = b - a
    BY <2>2, <2>3
  <2> QED  BY <2>1, <2>4
<1>3. o \in Seq(T) /\ Len(o) \in Nat
  BY <1>1
<1> HIDE DEF piece, T
<1>4. /\ new \in Seq(T) /\ Len(new) = Len(o) + (b - a)
      /\ \A k \in 1..Len(o) : new[k] = o[k]
      /\ \A k \in 1..Len(new) : k > Len(o) => /\ new[k].from = a + (k - Len(o))
                                               /\ new[k].token = text[new[k].from]
  <2>1. /\ new \in Seq(T) /\ Len(new) = Len(o) + Len(piece)
        /\ \A k \in 1..Len(o) + Len(piece) :
             new[k] = IF k <= Len(o) THEN o[k] ELSE piece[k - Len(o)]
    <3>1. piece \in Seq(T) /\ o \in Seq(T)
      BY <1>2, <1>3
    <3> QED  BY <3>1, ConcatProperties
  <2>2. \A k \in 1..Len(new) : k > Len(o) => k - Len(o) \in 1..(b - a) /\ new[k] = piece[k - Len(o)]
    BY <1>2, <1>3, <2>1
  <2>3. \A k \in 1..Len(new) : k > Len(o) => new[k].from = a + (k - Len(o))
    BY <1>2, <2>2
  <2>4. \A k \in 1..Len(new) : k > Len(o) => new[k].token = text[new[k].from]
    BY <1>2, <2>2, <2>3
  <2> QED  BY <1>2, <1>3, <2>1, <2>3, <2>4
<1> HIDE DEF new
<1>5. ASSUME NEW k \in 1..Len(new), new[k].from # 0
      PROVE  /\ new[k].from \in P \cup ((a + 1)..b)
             /\ new[k].token = text[new[k].from]
  <2>1. CASE k <= Len(o)
    <3>1. k \in 1..Len(o) /\ new[k] = o[k]
      BY <1>3, <1>4, <2>1
    <3> QED  BY <1>5, <3>1 DEF Copies
  <2>2. CASE k > Len(o)
    BY <1>3, <1>4, <2>2
  <2> QED  BY <1>3, <1>4, <2>1, <2>2
<1>6. ASSUME NEW p \in P \cup ((a + 1)..b)
      PROVE  \E k \in 1..Len(new) : new[k].from # 0 /\ new[k].from = p
  <2>1. CASE p \in P
    <3>1. PICK k \in 1..Len(o) : o[k].from # 0 /\ o[k].from = p
      BY <2>1 DEF Copies
    <3>2. k \in 1..Len(new)
      BY <1>3, <1>4
    <3> QED  BY <1>4, <3>1, <3>2
  <2>2. CASE p \in (a + 1)..b
    <3>1. Len(o) + (p - a) \in 1..Len(new)
      BY <1>3, <1>4, <2>2
    <3>2. /\ Len(o) + (p - a) > Len(o) /\ a + ((Len(o) + (p - a)) - Len(o)) = p
          /\ p # 0
      BY <1>3, <2>2
    <3>3. new[Len(o) + (p - a)].from = p
      BY <1>4, <3>1, <3>2
    <3> QED  BY <3>1, <3>2, <3>3
  <2> QED  BY <2>1, <2>2
<1>7. ASSUME NEW k \in 1..Len(new), NEW l \in 1..Len(new), new[k].from # 0, new[l].from # 0, k < l
      PROVE  new[k].from < new[l].from
  <2>1. CASE l <= Len(o)
    <3>1. k \in 1..Len(o) /\ l \in 1..Len(o) /\ new[k] = o[k] /\ new[l] = o[l]
      BY <1>3, <1>4, <1>7, <2>1
    <3> QED  BY <1>7, <3>1 DEF Copies
  <2>2. CASE l > Len(o) /\ k <= Len(o)
    <3>1. k \in 1..Len(o) /\ new[k] = o[k]
      BY <1>3, <1>4, <2>2
    <3>2. new[k].from \in P
      BY <1>7, <3>1 DEF Copies
    <3>3. new[k].from \in Nat /\ new[k].from <= a
      BY <3>2
    <3> QED  BY <1>3, <1>4, <2>2, <3>3
  <2>3. CASE k > Len(o)
    BY <1>3, <1>4, <1>7, <2>3
  <2> QED  BY <1>3, <1>4, <2>1, <2>2, <2>3
<1> QED  BY <1>4, <1>5, <1>6, <1>7 DEF Copies, new, piece

(* What a use becomes is put behind it.                                    *)
LEMMA MadeIsAdded ==
  ASSUME NEW o, NEW P \in SUBSET Nat, Copies(o, P), NEW w, Len(w) \in Nat
  PROVE  Copies(o \o Made(w), P)
<1> DEFINE piece == Made(w)
           new == o \o piece
<1>1. PICK S : o \in Seq(S)
  BY DEF Copies
<1> DEFINE T == S \cup {[token |-> w[k], from |-> 0] : k \in 1..Len(w)}
<1>2. /\ piece \in Seq(T) /\ Len(piece) = Len(w)
      /\ \A k \in 1..Len(w) : piece[k].from = 0
  BY DEF Made
<1>3. o \in Seq(T) /\ Len(o) \in Nat
  BY <1>1
<1> HIDE DEF piece, T
<1>4. /\ new \in Seq(T) /\ Len(new) = Len(o) + Len(w)
      /\ \A k \in 1..Len(o) : new[k] = o[k]
      /\ \A k \in 1..Len(new) : k > Len(o) => new[k].from = 0
  <2>1. /\ new \in Seq(T) /\ Len(new) = Len(o) + Len(piece)
        /\ \A k \in 1..Len(o) + Len(piece) :
             new[k] = IF k <= Len(o) THEN o[k] ELSE piece[k - Len(o)]
    <3>1. piece \in Seq(T) /\ o \in Seq(T)
      BY <1>2, <1>3
    <3> QED  BY <3>1, ConcatProperties
  <2>2. \A k \in 1..Len(new) : k > Len(o) => k - Len(o) \in 1..Len(w) /\ new[k] = piece[k - Len(o)]
    BY <1>2, <1>3, <2>1
  <2> QED  BY <1>2, <1>3, <2>1, <2>2
<1> HIDE DEF new
<1>5. \A k \in 1..Len(new) : new[k].from # 0 => k \in 1..Len(o) /\ new[k] = o[k]
  BY <1>3, <1>4
<1>6. \A k \in 1..Len(o) : k \in 1..Len(new) /\ new[k] = o[k]
  BY <1>3, <1>4
<1>7. ASSUME NEW k \in 1..Len(new), new[k].from # 0
      PROVE  new[k].from \in P /\ new[k].token = text[new[k].from]
  BY <1>5, <1>7 DEF Copies
<1>8. ASSUME NEW p \in P PROVE \E k \in 1..Len(new) : new[k].from # 0 /\ new[k].from = p
  BY <1>6 DEF Copies
<1>9. ASSUME NEW k \in 1..Len(new), NEW l \in 1..Len(new), new[k].from # 0, new[l].from # 0, k < l
      PROVE  new[k].from < new[l].from
  BY <1>5, <1>9 DEF Copies
<1> QED  BY <1>4, <1>7, <1>8, <1>9 DEF Copies, new, piece

(* The tokens of the first k - 1 replaced nodes. *)
Dropped(k) ==
  UNION {(tree[replacements[r].node].lo + 1)..tree[replacements[r].node].hi : r \in 1..(k - 1)}

(* The loop is at the cursor: what it has copied are the tokens before it   *)
(* that no replacement so far has dropped, and the nodes replaced so far    *)
(* end before it.                                                          *)
Copying ==
  /\ Expansions
  /\ pc = "expand" => out = <<>> /\ cursor = 0
  /\ pc = "apply" =>
       /\ at <= Len(replacements) + 1
       /\ Copies(out, (1..cursor) \ Dropped(at))
       /\ \A r \in 1..(at - 1) : tree[replacements[r].node].hi <= cursor
  /\ pc = "done" => Copies(out, (1..Len(text)) \ Covered)

LEMMA CopyingInitially == MacroInit => Copying
BY ExpansionsInitially DEF MacroInit, Copying

LEMMA WalkKeepsCopying ==
  ASSUME Copying, [MacroNext]_macroVars, ~Apply, ~Applied
  PROVE  Copying'
<1>1. Expansions'
  BY ExpansionsArePreserved DEF Copying
<1>2. CASE UNCHANGED macroVars
  BY <1>1, <1>2 DEF macroVars, Copying, Copies, Dropped, Covered, text, tree
<1>3. CASE DefineWithoutBody \/ CallAborts \/ TypeIdentifierCrashes \/ ApplyAborts
  BY <1>1, <1>3 DEF DefineWithoutBody, CallAborts, TypeIdentifierCrashes, ApplyAborts, Stop, Copying
<1>4. CASE Define \/ Call \/ TypeIdentifier \/ Ordinary
  <2>1. pc = "expand" /\ UNCHANGED <<pc, out, cursor>>
    BY <1>4 DEF Define, Call, TypeIdentifier, Ordinary, Replace, Pass, Is
  <2> QED  BY <1>1, <2>1 DEF Copying
<1>5. CASE Walked
  <2>1. /\ UNCHANGED <<file, replacements, cursor, out>> /\ at' = 1 /\ pc' = "apply"
        /\ out = <<>> /\ cursor = 0
    BY <1>5 DEF Walked, Copying
  <2>2. PICK S : replacements \in Seq(S)
    BY DEF Copying, Expansions, Tables
  <2>3. at' <= Len(replacements') + 1
    BY <2>1, <2>2
  <2>4. (1..cursor)' = {} /\ (1..(at - 1))' = {}
    BY <2>1
  <2>5. Copies(out, (1..cursor) \ Dropped(at))'
    <3>1. out' = <<>> /\ out' \in Seq({}) /\ Len(out') = 0
      BY <2>1
    <3> QED  BY <2>4, <3>1 DEF Copies
  <2> QED  BY <1>1, <2>1, <2>3, <2>4, <2>5 DEF Copying
<1> QED  BY <1>2, <1>3, <1>4, <1>5 DEF MacroNext

LEMMA ApplyKeepsCopying ==
  ASSUME Copying, Apply
  PROVE  Copying'
<1>1. Expansions'
  BY ExpansionsArePreserved DEF Copying, MacroNext
<1>2. /\ pc = "apply" /\ at <= Len(replacements) /\ cursor <= Replaced.lo
      /\ out' = out \o Source(cursor, Replaced.lo) \o Made(replacements[at].with)
      /\ cursor' = Replaced.hi /\ at' = at + 1
      /\ UNCHANGED <<file, pc, macros, replacements>>
  BY DEF Apply, Behind
<1>3. text' = text /\ tree' = tree
  BY <1>2 DEF text, tree
<1>4. /\ file \in Files /\ at \in Nat \ {0} /\ cursor \in 0..Len(text)
      /\ \A r \in 1..Len(replacements) : replacements[r].node \in 1..Len(tree)
      /\ \A r \in 1..Len(replacements) : Len(replacements[r].with) \in Nat
  BY DEF Copying, Expansions, Tables
<1>5. PICK S : replacements \in Seq(S)
  BY DEF Copying, Expansions, Tables
<1>6. Len(replacements) \in Nat /\ at \in 1..Len(replacements)
  BY <1>2, <1>4, <1>5
<1>7. /\ Len(text) \in Nat
      /\ \A r \in 1..Len(replacements) :
           /\ tree[replacements[r].node].lo \in Nat /\ tree[replacements[r].node].hi \in Nat
           /\ tree[replacements[r].node].lo <= tree[replacements[r].node].hi
  BY <1>4, FilesAreTyped
<1> DEFINE Lo(r) == tree[replacements[r].node].lo
           Hi(r) == tree[replacements[r].node].hi
           old == (1..cursor) \ Dropped(at)
<1>8. /\ Replaced.lo = Lo(at) /\ Replaced.hi = Hi(at)
      /\ Lo(at) \in Nat /\ Hi(at) \in Nat /\ Lo(at) <= Hi(at) /\ cursor \in Nat
  BY <1>4, <1>6, <1>7 DEF Replaced
<1>9. /\ \A r \in 1..(at - 1) : Hi(r) <= cursor
      /\ Copies(out, old)
  BY <1>2 DEF Copying
<1>10. Copies(out', old \cup ((cursor + 1)..Lo(at)))
  <2>1. old \in SUBSET Nat /\ \A p \in old : p <= cursor
    BY <1>8
  <2> HIDE DEF old
  <2>2. Copies(out \o Source(cursor, Replaced.lo), old \cup ((cursor + 1)..Lo(at)))
    BY <1>2, <1>8, <1>9, <2>1, SourceIsCopied
  <2>3. old \cup ((cursor + 1)..Lo(at)) \in SUBSET Nat
    <3>1. (cursor + 1)..Lo(at) \in SUBSET Nat
      BY <1>8
    <3> QED  BY <2>1, <3>1
  <2>4. Len(replacements[at].with) \in Nat
    BY <1>4, <1>6
  <2> QED  BY <1>2, <2>2, <2>3, <2>4, MadeIsAdded
<1>11. old \cup ((cursor + 1)..Lo(at)) = (1..Hi(at)) \ Dropped(at + 1)
  <2> DEFINE In(p, r) == p \in (Lo(r) + 1)..Hi(r)
  <2>1. \A p : p \in Dropped(at) <=> \E r \in 1..(at - 1) : In(p, r)
    BY DEF Dropped
  <2>2. \A p : p \in Dropped(at + 1) <=> \E r \in 1..at : In(p, r)
    <3>1. (at + 1) - 1 = at
      BY <1>4
    <3> QED  BY <3>1 DEF Dropped
  <2>3. \A r : r \in 1..at <=> (r \in 1..(at - 1) \/ r = at)
    BY <1>4
  <2>4. \A p : p \in Dropped(at + 1) <=> (p \in Dropped(at) \/ In(p, at))
    <3> HIDE DEF In
    <3> QED  BY <2>1, <2>2, <2>3
  <2>5. \A p \in Dropped(at) : p \in Nat /\ p <= cursor
    <3>1. ASSUME NEW r \in 1..(at - 1), NEW p \in (Lo(r) + 1)..Hi(r) PROVE p \in Nat /\ p <= cursor
      <4>1. r \in 1..Len(replacements)
        BY <1>6
      <4>2. Lo(r) \in Nat /\ Hi(r) \in Nat /\ Hi(r) <= cursor
        BY <1>7, <1>9, <4>1
      <4> HIDE DEF Lo, Hi
      <4> QED  BY <1>8, <4>2
    <3> QED  BY <2>1, <3>1
  <2>6. ASSUME NEW p
        PROVE  p \in old \cup ((cursor + 1)..Lo(at)) <=> p \in (1..Hi(at)) \ Dropped(at + 1)
    <3> HIDE DEF Lo, Hi
    <3>1. CASE p \in Dropped(at)
      BY <1>2, <1>8, <2>4, <2>5, <3>1
    <3>2. CASE p \notin Dropped(at)
      <4>1. p \in Dropped(at + 1) <=> p \in (Lo(at) + 1)..Hi(at)
        BY <2>4, <3>2
      <4> QED  BY <1>2, <1>8, <3>2, <4>1
    <3> QED  BY <3>1, <3>2
  <2> QED  BY <2>6
<1>12. Copies(out, (1..cursor) \ Dropped(at))'
  <2> DEFINE kept == (1..cursor) \ Dropped(at)
  <2>1. Dropped(at)' = Dropped(at + 1)
    BY <1>2, <1>3 DEF Dropped
  <2>2. kept' = (1..Hi(at)) \ Dropped(at + 1)
    BY <1>2, <1>8, <2>1
  <2>3. Copies(out', kept')
    BY <1>10, <1>11, <2>2
  <2> HIDE DEF kept
  <2>4. Copies(out, kept)'
    BY <1>3, <2>3 DEF Copies
  <2> QED  BY <2>4 DEF kept
<1>13. \A r \in 1..(at' - 1) : Hi(r) <= cursor'
  <2>1. \A r \in 1..(at' - 1) : r \in 1..(at - 1) \/ r = at
    BY <1>2, <1>4
  <2>2. \A r \in 1..(at - 1) : Hi(r) <= cursor'
    <3>1. \A r \in 1..(at - 1) : Hi(r) \in Nat /\ Hi(r) <= cursor
      BY <1>6, <1>7, <1>9
    <3> HIDE DEF Hi
    <3> QED  BY <1>2, <1>8, <3>1
  <2>3. Hi(at) <= cursor'
    BY <1>2, <1>8
  <2> HIDE DEF Hi
  <2> QED  BY <2>1, <2>2, <2>3
<1>14. at' <= Len(replacements') + 1
  BY <1>2, <1>6
<1> QED  BY <1>1, <1>2, <1>3, <1>12, <1>13, <1>14 DEF Copying

LEMMA AppliedKeepsCopying ==
  ASSUME Copying, Applied
  PROVE  Copying'
<1>1. Expansions'
  BY ExpansionsArePreserved DEF Copying, MacroNext
<1>2. /\ pc = "apply" /\ at > Len(replacements) /\ pc' = "done"
      /\ out' = out \o Source(cursor, Len(text))
      /\ UNCHANGED <<file, at, macros, replacements, cursor>>
  BY DEF Applied
<1>3. text' = text /\ tree' = tree
  BY <1>2 DEF text, tree
<1>4. PICK S : replacements \in Seq(S)
  BY DEF Copying, Expansions, Tables
<1>5. /\ file \in Files /\ at \in Nat /\ cursor \in 0..Len(text) /\ Len(text) \in Nat
      /\ \A r \in 1..Len(replacements) : replacements[r].node \in 1..Len(tree)
  BY FilesAreTyped DEF Copying, Expansions, Tables
<1>6. at - 1 = Len(replacements) /\ DOMAIN replacements = 1..Len(replacements)
  BY <1>2, <1>4, <1>5 DEF Copying
<1> DEFINE old == (1..cursor) \ Dropped(at)
<1>7. Dropped(at) = Covered
  BY <1>6 DEF Dropped, Covered
<1>8. \A p \in Covered : p \in Nat /\ p <= cursor
  <2>1. ASSUME NEW r \in 1..Len(replacements)
        PROVE  /\ tree[replacements[r].node].lo \in Nat /\ tree[replacements[r].node].hi \in Nat
               /\ tree[replacements[r].node].hi <= cursor
    BY <1>2, <1>5, <1>6, FilesAreTyped DEF Copying
  <2> QED  BY <1>5, <1>6, <2>1 DEF Covered
<1>9. Copies(out', old \cup ((cursor + 1)..Len(text)))
  <2>1. Copies(out, old)
    BY <1>2 DEF Copying
  <2>2. old \in SUBSET Nat /\ \A p \in old : p <= cursor
    BY <1>5
  <2> HIDE DEF old
  <2> QED  BY <1>2, <1>5, <2>1, <2>2, SourceIsCopied
<1>10. old \cup ((cursor + 1)..Len(text)) = (1..Len(text)) \ Covered
  <2>1. ASSUME NEW p
        PROVE  p \in old \cup ((cursor + 1)..Len(text)) <=> p \in (1..Len(text)) \ Covered
    <3>1. CASE p \in Covered
      BY <1>5, <1>7, <1>8, <3>1
    <3>2. CASE p \notin Covered
      BY <1>5, <1>7, <3>2
    <3> QED  BY <3>1, <3>2
  <2> QED  BY <2>1
<1>11. Copies(out, (1..Len(text)) \ Covered)'
  <2> DEFINE kept == (1..Len(text)) \ Covered
  <2>1. kept' = kept
    BY <1>2, <1>3 DEF Covered
  <2>2. Copies(out', kept)
    BY <1>9, <1>10
  <2> HIDE DEF kept
  <2>3. Copies(out, kept)'
    BY <1>3, <2>1, <2>2 DEF Copies
  <2> QED  BY <2>3 DEF kept
<1> QED  BY <1>1, <1>2, <1>11 DEF Copying

LEMMA CopyingIsPreserved == Copying /\ [MacroNext]_macroVars => Copying'
BY WalkKeepsCopying, ApplyKeepsCopying, AppliedKeepsCopying

(* Whatever the file and the tree: once the loop has ended, every token     *)
(* outside the replaced nodes is in the output once and in order, and no    *)
(* token of a replaced node is.                                            *)
THEOREM KeptOnceCorrect == MacroSpec => []KeptOnce
<1>1. Copying => KeptOnce
  <2> SUFFICES ASSUME Copying, pc = "done" PROVE KeptOnce
    BY DEF KeptOnce
  <2>1. Copies(out, (1..Len(text)) \ Covered)
    BY DEF Copying
  <2>2. PICK S : out \in Seq(S)
    BY <2>1 DEF Copies
  <2>3. DOMAIN out = 1..Len(out)
    BY <2>2
  <2> DEFINE Copied == {k \in DOMAIN out : out[k].from # 0}
             Outside == (1..Len(text)) \ Covered
  <2>4. \A k \in Copied : out[k].from \in Outside /\ out[k].token = text[out[k].from]
    BY <2>1, <2>3 DEF Copies
  <2>5. \A p \in Outside : \E k \in Copied : out[k].from = p
    BY <2>1, <2>3 DEF Copies
  <2>6. \A k, l \in Copied : k < l => out[k].from < out[l].from
    BY <2>1, <2>3 DEF Copies
  <2>7. {out[k].from : k \in Copied} = Outside
    <3> HIDE DEF Copied, Outside
    <3> QED  BY <2>4, <2>5
  <2> QED  BY <2>4, <2>6, <2>7 DEF KeptOnce
<1> QED  BY <1>1, CopyingInitially, CopyingIsPreserved, PTL DEF MacroSpec

-----------------------------------------------------------------------------
(* A text by the pieces that stand in place of its tokens.                 *)

(* What holds at the first of some places, and from each to the next, holds *)
(* at all of them.                                                          *)
LEMMA EveryPlace ==
  ASSUME NEW first \in Nat, NEW last \in Nat, NEW G, first \in G,
         \A k \in (first + 1)..last : k - 1 \in G => k \in G
  PROVE  \A k \in first..last : k \in G
<1> DEFINE T == {k \in first..last : k \notin G}
<1> SUFFICES ASSUME T # {} PROVE FALSE
  OBVIOUS
<1>1. PICK k \in T : \A j \in T : k <= j
  <2>1. T \in SUBSET Nat
    OBVIOUS
  <2> QED  BY <2>1, LeastExists
<1>2. k \in first..last /\ k \notin G /\ k # first
  OBVIOUS
<1>3. k - 1 \in first..last /\ k \in (first + 1)..last /\ ~(k <= k - 1)
  BY <1>2
<1>4. k - 1 \in G
  BY <1>1, <1>3
<1> QED  BY <1>2, <1>3, <1>4

(* The first n pieces, end to end. *)
Parts(P, n) == FlattenSeq([q \in 1..n |-> P[q]])

LEMMA PartsGrow ==
  ASSUME NEW S, NEW P \in Seq(Seq(S))
  PROVE  /\ Parts(P, 0) = <<>>
         /\ \A n \in 0..Len(P) : Parts(P, n) \in Seq(S)
         /\ \A n \in 1..Len(P) : Parts(P, n) = Parts(P, n - 1) \o P[n]
         /\ Parts(P, Len(P)) = FlattenSeq(P)
<1> DEFINE Q == Seq(S)
           F(n) == [q \in 1..n |-> P[q]]
<1>1. Len(P) \in Nat /\ \A q \in 1..Len(P) : P[q] \in Q
  BY LenProperties
<1>2. P = F(Len(P))
  BY LenProperties
<1>3. \A n \in 0..Len(P) : F(n) \in Seq(Q) /\ Len(F(n)) = n
  BY <1>1
<1>4. ASSUME NEW n \in 1..Len(P)
      PROVE  n - 1 \in 0..Len(P) /\ F(n) = Append(F(n - 1), P[n]) /\ P[n] \in Q
  <2>1. n - 1 \in 0..Len(P) /\ P[n] \in Q
    BY <1>1
  <2>2. F(n - 1) \in Seq(Q) /\ Len(F(n - 1)) = n - 1
    BY <1>3, <2>1
  <2>3. /\ Append(F(n - 1), P[n]) \in Seq(Q) /\ Len(Append(F(n - 1), P[n])) = n
        /\ \A k \in 1..n : Append(F(n - 1), P[n])[k] = P[k]
    <3> DEFINE g == F(n - 1)
    <3>1. \A k \in 1..(n - 1) : g[k] = P[k]
      OBVIOUS
    <3> HIDE DEF g, Q
    <3>2. /\ Append(g, P[n]) \in Seq(Q) /\ Len(Append(g, P[n])) = Len(g) + 1
          /\ \A k \in 1..Len(g) : Append(g, P[n])[k] = g[k]
          /\ Append(g, P[n])[Len(g) + 1] = P[n]
      BY <2>1, <2>2, AppendProperties DEF g
    <3>3. Len(g) = n - 1
      BY <2>2 DEF g
    <3> QED  BY <3>1, <3>2, <3>3 DEF g
  <2>4. F(n) \in Seq(Q) /\ Len(F(n)) = n /\ \A k \in 1..n : F(n)[k] = P[k]
    <3>1. n \in 0..Len(P)
      BY <1>1
    <3> QED  BY <1>3, <3>1
  <2> HIDE DEF F, Q
  <2> QED  BY <2>1, <2>3, <2>4, SeqEqual
<1>5. \A n \in 0..Len(P) : Parts(P, n) = FlattenSeq(F(n))
  BY DEF Parts
<1>6. Parts(P, 0) = <<>>
  <2>1. F(0) = <<>> /\ Len(F(0)) = 0
    OBVIOUS
  <2> QED  BY <2>1 DEF Parts, FlattenSeq
<1>7. Parts(P, Len(P)) = FlattenSeq(P)
  BY <1>2 DEF Parts
<1> HIDE DEF F
<1>8. \A n \in 0..Len(P) : Parts(P, n) \in Q
  BY <1>3, <1>5, FlattenIsSeq
<1>9. ASSUME NEW n \in 1..Len(P) PROVE Parts(P, n) = Parts(P, n - 1) \o P[n]
  <2>1. n \in 0..Len(P) /\ n - 1 \in 0..Len(P) /\ F(n) = Append(F(n - 1), P[n]) /\ P[n] \in Q
    BY <1>1, <1>4
  <2>2. F(n - 1) \in Seq(Q)
    BY <1>3, <2>1
  <2>3. FlattenSeq(Append(F(n - 1), P[n])) = FlattenSeq(F(n - 1)) \o P[n]
    BY <2>1, <2>2, FlattenAppend
  <2> QED  BY <1>5, <2>1, <2>3
<1> QED  BY <1>6, <1>7, <1>8, <1>9

(* Concatenation under a name of its own, for steps that only regroup. *)
Cat(s, t) == s \o t
LEMMA ThreeJoin ==
  ASSUME NEW S, NEW s \in Seq(S), NEW t \in Seq(S), NEW u \in Seq(S)
  PROVE  Cat(Cat(s, t), u) = Cat(s, Cat(t, u))
BY ConcatAssociative DEF Cat

(* The tokens behind the a-th, up to the b-th. *)
Stretch(t, a, b) == [k \in 1..(b - a) |-> t[a + k]]

LEMMA StretchGrows ==
  ASSUME NEW S, NEW t \in Seq(S), NEW a \in 0..Len(t), NEW k \in (a + 1)..Len(t)
  PROVE  /\ Stretch(t, a, k - 1) \in Seq(S) /\ <<t[k]>> \in Seq(S)
         /\ Stretch(t, a, k - 1) \o <<t[k]>> = Stretch(t, a, k)
<1> DEFINE one == <<t[k]>>
<1> DEFINE r == Stretch(t, a, k - 1)
           s == Stretch(t, a, k)
           n == k - a
<1>0. Len(t) \in Nat /\ a \in Nat /\ k \in Nat /\ \A p \in 1..Len(t) : t[p] \in S
  BY LenProperties
<1>1. n \in Nat /\ n - 1 \in Nat /\ (k - 1) - a = n - 1 /\ a + n = k
  BY <1>0
<1>2. \A j \in 1..n : t[a + j] \in S
  BY <1>0
<1>3. r = [j \in 1..(n - 1) |-> t[a + j]] /\ s = [j \in 1..n |-> t[a + j]]
  BY <1>1 DEF Stretch
<1>4. t[k] \in S
  OBVIOUS
<1> HIDE DEF r, s, n
<1>5. r \in Seq(S) /\ Len(r) = n - 1 /\ \A j \in 1..(n - 1) : r[j] = t[a + j]
  BY <1>1, <1>2, <1>3
<1>6. s \in Seq(S) /\ Len(s) = n /\ \A j \in 1..n : s[j] = t[a + j]
  BY <1>1, <1>2, <1>3
<1>7. /\ Append(r, t[k]) \in Seq(S) /\ Len(Append(r, t[k])) = Len(r) + 1
      /\ \A j \in 1..Len(r) : Append(r, t[k])[j] = r[j]
      /\ Append(r, t[k])[Len(r) + 1] = t[k]
  BY <1>4, <1>5, AppendProperties
<1>8. \A j \in 1..n : j \in 1..(n - 1) \/ j = n
  BY <1>1
<1>9. ASSUME NEW j \in 1..n PROVE Append(r, t[k])[j] = s[j]
  <2>1. CASE j \in 1..(n - 1)
    <3>1. Append(r, t[k])[j] = r[j] /\ r[j] = t[a + j]
      BY <1>5, <1>7, <2>1
    <3> QED  BY <1>6, <3>1
  <2>2. CASE j = n
    <3>1. Append(r, t[k])[n] = t[k]
      BY <1>1, <1>5, <1>7
    <3>2. s[n] = t[a + n] /\ a + n = k
      BY <1>1, <1>6, <2>2
    <3> QED  BY <2>2, <3>1, <3>2
  <2> QED  BY <1>8, <2>1, <2>2
<1>10. Append(r, t[k]) = s
  BY <1>1, <1>5, <1>6, <1>7, <1>9, SeqEqual
<1>11. r \o <<t[k]>> = Append(r, t[k])
  BY <1>4, <1>5, AppendIsConcat
<1>12. one \in Seq(S)
  BY <1>4
<1>13. r \o one = s
  BY <1>10, <1>11, Zenon
<1> QED  BY ONLY <1>5, <1>12, <1>13, Zenon DEF r, s, one

(* Tokens in their own places. *)
LEMMA PartsCopied ==
  ASSUME NEW S, NEW P \in Seq(Seq(S)), NEW t \in Seq(S), Len(t) = Len(P),
         NEW a \in 0..Len(P), NEW b \in a..Len(P), \A p \in (a + 1)..b : P[p] = <<t[p]>>
  PROVE  Parts(P, b) = Parts(P, a) \o Stretch(t, a, b)
<1> DEFINE G == {k \in a..b : Parts(P, k) = Parts(P, a) \o Stretch(t, a, k)}
<1>1. Len(P) \in Nat /\ a \in Nat /\ b \in Nat /\ a <= b /\ b <= Len(P)
  BY LenProperties
<1>2. Parts(P, a) \in Seq(S)
  BY <1>1, PartsGrow
<1>6. ASSUME NEW k \in (a + 1)..b
      PROVE  /\ Stretch(t, a, k - 1) \in Seq(S) /\ <<t[k]>> \in Seq(S)
             /\ Stretch(t, a, k - 1) \o <<t[k]>> = Stretch(t, a, k)
  <2>1. a \in 0..Len(t) /\ k \in (a + 1)..Len(t)
    BY <1>1
  <2> QED  BY <2>1, StretchGrows, Zenon
<1>3. a \in G
  <2>1. Stretch(t, a, a) = <<>> /\ a \in a..b
    BY <1>1 DEF Stretch
  <2> QED  BY <1>2, <2>1, ConcatEmptySeq
<1>4. ASSUME NEW k \in (a + 1)..b, k - 1 \in G PROVE k \in G
  <2>1. k \in 1..Len(P) /\ k \in a..b /\ k \in Nat /\ a < k
    BY <1>1
  <2>2. Parts(P, k - 1) = Parts(P, a) \o Stretch(t, a, k - 1)
    BY <1>4
  <2>3. Parts(P, k) = Parts(P, k - 1) \o <<t[k]>>
    BY <2>1, PartsGrow
  <2> DEFINE x == Parts(P, a)
             y == Stretch(t, a, k - 1)
             z == <<t[k]>>
  <2>5. y \in Seq(S) /\ z \in Seq(S) /\ y \o z = Stretch(t, a, k)
    BY <1>6, Zenon
  <2>6. x \in Seq(S)
    BY <1>2
  <2> HIDE DEF x, y, z
  <2>7. (x \o y) \o z = x \o (y \o z)
    <3>1. Cat(Cat(x, y), z) = Cat(x, Cat(y, z))
      BY ONLY <2>5, <2>6, ThreeJoin
    <3> QED  BY <3>1, Zenon DEF Cat
  <2>8. Parts(P, k) = x \o Stretch(t, a, k)
    BY <2>2, <2>3, <2>5, <2>7 DEF x, y, z
  <2> QED  BY <2>1, <2>8 DEF x
<1> HIDE DEF G
<1>5. b \in a..b
  BY <1>1
<1>7. \A k \in a..b : k \in G
  BY <1>1, <1>3, <1>4, EveryPlace
<1> QED  BY <1>5, <1>7 DEF G

(* A use: all it becomes is in the place of its first token. *)
LEMMA PartsReplaced ==
  ASSUME NEW S, NEW P \in Seq(Seq(S)), NEW lo \in Nat, NEW hi \in (lo + 1)..Len(P),
         \A p \in (lo + 2)..hi : P[p] = <<>>
  PROVE  Parts(P, hi) = Parts(P, lo) \o P[lo + 1]
<1> DEFINE G == {k \in (lo + 1)..hi : Parts(P, k) = Parts(P, lo) \o P[lo + 1]}
<1>1. Len(P) \in Nat /\ hi \in Nat /\ lo + 1 \in 1..Len(P) /\ lo + 1 \in Nat /\ (lo + 1) - 1 = lo
  BY LenProperties
<1>2. \A n \in 1..Len(P) : Parts(P, n) = Parts(P, n - 1) \o P[n]
  BY PartsGrow
<1>3. lo + 1 \in G
  <2>1. Parts(P, lo + 1) = Parts(P, (lo + 1) - 1) \o P[lo + 1]
    BY <1>1, <1>2
  <2>2. lo + 1 \in (lo + 1)..hi
    BY <1>1
  <2> QED  BY <1>1, <2>1, <2>2
<1>4. ASSUME NEW k \in ((lo + 1) + 1)..hi, k - 1 \in G PROVE k \in G
  <2>1. k \in 1..Len(P) /\ k \in (lo + 1)..hi /\ k \in (lo + 2)..hi /\ k - 1 \in 0..Len(P)
    BY <1>1
  <2>2. Parts(P, k) = Parts(P, k - 1) \o <<>>
    BY <1>2, <2>1
  <2>3. Parts(P, k - 1) \in Seq(S)
    BY <2>1, PartsGrow
  <2> QED  BY <1>4, <2>1, <2>2, <2>3, ConcatEmptySeq
<1> HIDE DEF G
<1>5. hi \in (lo + 1)..hi
  BY <1>1
<1>6. \A k \in (lo + 1)..hi : k \in G
  BY <1>1, <1>3, <1>4, EveryPlace
<1> QED  BY <1>5, <1>6 DEF G

(* The tokens of an output. *)
Spoken(o) == [k \in 1..Len(o) |-> o[k].token]

LEMMA SpokenJoin ==
  ASSUME NEW T, NEW o \in Seq(T), NEW p \in Seq(T)
  PROVE  Spoken(o \o p) = Spoken(o) \o Spoken(p)
<1> DEFINE K == {x.token : x \in T}
           u == Spoken(o)
           v == Spoken(p)
           w == Spoken(o \o p)
<1>1. /\ Len(o) \in Nat /\ \A k \in 1..Len(o) : o[k] \in T
      /\ Len(p) \in Nat /\ \A k \in 1..Len(p) : p[k] \in T
  BY LenProperties
<1>2. /\ o \o p \in Seq(T) /\ Len(o \o p) = Len(o) + Len(p)
      /\ \A k \in 1..Len(o) + Len(p) :
           (o \o p)[k] = IF k <= Len(o) THEN o[k] ELSE p[k - Len(o)]
  BY ConcatProperties
<1>3. u \in Seq(K) /\ Len(u) = Len(o) /\ \A k \in 1..Len(o) : u[k] = o[k].token
  <2>1. \A k \in 1..Len(o) : o[k].token \in K
    BY <1>1
  <2> HIDE DEF K
  <2> QED  BY <1>1, <2>1 DEF Spoken
<1>4. v \in Seq(K) /\ Len(v) = Len(p) /\ \A k \in 1..Len(p) : v[k] = p[k].token
  <2>1. \A k \in 1..Len(p) : p[k].token \in K
    BY <1>1
  <2> HIDE DEF K
  <2> QED  BY <1>1, <2>1 DEF Spoken
<1> DEFINE c == o \o p
<1>5. c \in Seq(T) /\ Len(c) = Len(o) + Len(p)
  BY <1>2
<1>6. /\ w \in Seq(K) /\ Len(w) = Len(o) + Len(p)
      /\ \A k \in 1..Len(o) + Len(p) : w[k] = c[k].token
  <2> HIDE DEF c
  <2>1. \A k \in 1..Len(c) : c[k] \in T
    BY <1>5, LenProperties
  <2>2. \A k \in 1..Len(c) : c[k].token \in K
    BY <2>1
  <2>3. Len(c) \in Nat /\ w = [k \in 1..Len(c) |-> c[k].token]
    BY <1>1, <1>5 DEF Spoken, c
  <2> HIDE DEF K, w
  <2>4. w \in Seq(K) /\ Len(w) = Len(c) /\ \A k \in 1..Len(c) : w[k] = c[k].token
    BY <2>2, <2>3
  <2> QED  BY <1>5, <2>4
<1>7. /\ u \o v \in Seq(K) /\ Len(u \o v) = Len(u) + Len(v)
      /\ \A k \in 1..Len(u) + Len(v) : (u \o v)[k] = IF k <= Len(u) THEN u[k] ELSE v[k - Len(u)]
  <2>1. u \in Seq(K) /\ v \in Seq(K)
    BY <1>3, <1>4
  <2> HIDE DEF u, v, w, c, K
  <2> QED  BY <2>1, ConcatProperties
<1>8. ASSUME NEW k \in 1..Len(o) + Len(p) PROVE w[k] = (u \o v)[k]
  <2>0. w[k] = c[k].token /\ c[k] = IF k <= Len(o) THEN o[k] ELSE p[k - Len(o)]
    BY <1>2, <1>6
  <2>9. (u \o v)[k] = IF k <= Len(o) THEN u[k] ELSE v[k - Len(o)]
    BY <1>3, <1>4, <1>7
  <2>1. CASE k <= Len(o)
    <3>1. k \in 1..Len(o)
      BY <1>1, <2>1
    <3>2. u[k] = o[k].token
      BY <1>3, <3>1
    <3> HIDE DEF u, v, w, c, K
    <3> QED  BY <2>0, <2>1, <2>9, <3>2
  <2>2. CASE ~(k <= Len(o))
    <3>1. k - Len(o) \in 1..Len(p)
      BY <1>1, <2>2
    <3>2. v[k - Len(o)] = p[k - Len(o)].token
      BY <1>4, <3>1
    <3> HIDE DEF u, v, w, c, K
    <3> QED  BY <2>0, <2>2, <2>9, <3>2
  <2> QED  BY <2>1, <2>2
<1> HIDE DEF u, v, w, K
<1>9. w = u \o v
  BY <1>3, <1>4, <1>6, <1>7, <1>8, SeqEqual
<1> QED  BY <1>9 DEF u, v, w

LEMMA SpokenSource ==
  ASSUME NEW a \in Nat, NEW b \in Nat, a <= b
  PROVE  /\ \E T : Source(a, b) \in Seq(T)
         /\ Spoken(Source(a, b)) = Stretch(text, a, b)
<1> DEFINE T == {[token |-> text[a + k], from |-> a + k] : k \in 1..(b - a)}
           piece == Source(a, b)
<1>1. b - a \in Nat
  OBVIOUS
<1>2. piece = [k \in 1..(b - a) |-> [token |-> text[a + k], from |-> a + k]]
  BY DEF Source
<1>3. piece \in Seq(T)
  <2>1. \A k \in 1..(b - a) : piece[k] \in T
    BY <1>2
  <2>2. piece = [k \in 1..(b - a) |-> piece[k]]
    BY <1>2
  <2> HIDE DEF T, piece
  <2> QED  BY <1>1, <2>1, <2>2
<1>4. Len(piece) = b - a /\ \A k \in 1..(b - a) : piece[k].token = text[a + k]
  BY <1>1, <1>2
<1> HIDE DEF piece
<1>5. Spoken(piece) = [k \in 1..(b - a) |-> text[a + k]]
  BY <1>4 DEF Spoken
<1> QED  BY <1>3, <1>5 DEF piece, Stretch

LEMMA SpokenMade ==
  ASSUME NEW S, NEW w \in Seq(S)
  PROVE  /\ \E T : Made(w) \in Seq(T)
         /\ Spoken(Made(w)) = w
<1> DEFINE T == {[token |-> w[k], from |-> 0] : k \in 1..Len(w)}
           piece == Made(w)
<1>1. Len(w) \in Nat /\ w = [k \in 1..Len(w) |-> w[k]]
  BY LenProperties
<1>2. piece = [k \in 1..Len(w) |-> [token |-> w[k], from |-> 0]]
  BY DEF Made
<1>3. piece \in Seq(T)
  <2>1. \A k \in 1..Len(w) : piece[k] \in T
    BY <1>2
  <2>2. piece = [k \in 1..Len(w) |-> piece[k]]
    BY <1>2
  <2> HIDE DEF T, piece
  <2> QED  BY <1>1, <2>1, <2>2
<1>4. Len(piece) = Len(w) /\ \A k \in 1..Len(w) : piece[k].token = w[k]
  BY <1>1, <1>2
<1> HIDE DEF piece
<1>5. Spoken(piece) = [k \in 1..Len(w) |-> w[k]]
  BY <1>4 DEF Spoken
<1> QED  BY <1>1, <1>3, <1>5 DEF piece

(* What is copied and what is put behind it are spoken as they are. *)
LEMMA SpokenGrows ==
  ASSUME NEW o, \E T : o \in Seq(T), NEW q, \E T : q \in Seq(T)
  PROVE  Spoken(o \o q) = Spoken(o) \o Spoken(q) /\ \E T : o \o q \in Seq(T)
<1>1. PICK A : o \in Seq(A)
  OBVIOUS
<1>2. PICK B : q \in Seq(B)
  OBVIOUS
<1> DEFINE T == A \cup B
<1>3. o \in Seq(T) /\ q \in Seq(T)
  BY <1>1, <1>2
<1> HIDE DEF T
<1> QED  BY <1>3, SpokenJoin, ConcatProperties

-----------------------------------------------------------------------------
(* What the tree shows of the macros, and what the reference reads.         *)

(* A non-empty set of nodes has a last one, and only one. *)
LEMMA LargestIn ==
  ASSUME NEW n \in Nat, NEW S \in SUBSET (1..n), S # {}
  PROVE  Largest(S) \in S /\ \A y \in S : y <= Largest(S)
<1> DEFINE D == {n - x : x \in S}
<1>1. D \in SUBSET Nat /\ D # {}
  <2>1. \A x \in S : n - x \in Nat
    OBVIOUS
  <2>2. D \subseteq Nat
    BY <2>1
  <2>3. PICK x \in S : TRUE
    OBVIOUS
  <2>4. n - x \in D
    BY <2>3
  <2> QED  BY <2>2, <2>4
<1> HIDE DEF D
<1>2. PICK d \in D : \A e \in D : d <= e
  BY <1>1, LeastExists
<1>3. PICK x \in S : d = n - x
  BY <1>2 DEF D
<1>4. \A y \in S : n - x <= n - y
  BY <1>2, <1>3 DEF D
<1>5. \A y \in S : y <= x
  BY <1>4
<1> QED  BY <1>5 DEF Largest

LEMMA LargestIs ==
  ASSUME NEW n \in Nat, NEW S \in SUBSET (1..n), NEW x \in S, \A y \in S : y <= x
  PROVE  Largest(S) = x
<1>1. Largest(S) \in S /\ \A y \in S : y <= Largest(S)
  BY LargestIn
<1>2. Largest(S) \in Nat /\ x \in Nat
  <2>1. \A y \in S : y \in Nat
    OBVIOUS
  <2> QED  BY <1>1, <2>1, Zenon
<1>3. Largest(S) <= x /\ x <= Largest(S)
  BY <1>1
<1> QED  BY <1>2, <1>3

(* The tree shows the macros of the file. *)
Shown == file \in Files /\ TreeShowsMacros(file)

LEMMA ShownDefinitions ==
  ASSUME Shown
  PROVE  /\ Len(tree) \in Nat
         /\ Definitions(tree) \subseteq 1..Len(tree)
         /\ \A n \in 1..Len(tree) :
              tree[n] \in MacroNode /\ tree[n].lo \in Nat /\ tree[n].hi \in Nat
         /\ \A m, n \in 1..Len(tree) :
              m < n /\ (m \in Definitions(tree) \/ n \in Definitions(tree)) =>
                tree[m].lo < tree[n].lo
         /\ \A n \in Definitions(tree) :
              /\ tree[n].body # {}
              /\ \A body \in tree[n].body : \A k \in DOMAIN body : Spelled(body[k], tree[n].params)
<1>1. file \in Files /\ file.tree = tree
  BY DEF Shown, tree
<1>2. /\ Len(tree) \in Nat /\ DOMAIN tree = 1..Len(tree)
      /\ \A n \in 1..Len(tree) :
              tree[n] \in MacroNode /\ tree[n].lo \in Nat /\ tree[n].hi \in Nat
  BY <1>1, FilesAreTyped DEF MacroNode
<1>3. Definitions(tree) \subseteq 1..Len(tree)
  BY <1>2 DEF Definitions
<1>4. \A m, n \in DOMAIN tree :
         m < n /\ {m, n} \cap Definitions(tree) # {} => tree[m].lo < tree[n].lo
  BY <1>1 DEF Shown, TreeShowsMacros
<1>5. ASSUME NEW m \in 1..Len(tree), NEW n \in 1..Len(tree), m < n,
             m \in Definitions(tree) \/ n \in Definitions(tree)
      PROVE  tree[m].lo < tree[n].lo
  <2>1. {m, n} \cap Definitions(tree) # {}
    BY <1>5
  <2> QED  BY <1>2, <1>4, <1>5, <2>1
<1>6. \A n \in Definitions(tree) :
              /\ tree[n].body # {}
              /\ \A body \in tree[n].body : \A k \in DOMAIN body : Spelled(body[k], tree[n].params)
  BY <1>1 DEF Shown, TreeShowsMacros
<1> QED  BY <1>2, <1>3, <1>5, <1>6

LEMMA ShownLines ==
  ASSUME Shown
  PROVE  /\ Len(file.lines) \in Nat /\ DOMAIN file.lines = 1..Len(file.lines)
         /\ \A l \in 1..Len(file.lines) : file.lines[l].at \in Nat
         /\ \A k, l \in 1..Len(file.lines) : k < l => file.lines[k].at < file.lines[l].at
         /\ \A l \in 1..Len(file.lines) :
              \E m \in Definitions(tree) : file.lines[l] = LineOf(tree[m])
         /\ \A m \in Definitions(tree) :
              \E l \in 1..Len(file.lines) : file.lines[l] = LineOf(tree[m])
<1>1. file \in Files /\ file.tree = tree
  BY DEF Shown, tree
<1>2. file.lines \in Seq(Line)
  BY <1>1, MacroFilesAssumption
<1>3. /\ Len(file.lines) \in Nat /\ DOMAIN file.lines = 1..Len(file.lines)
      /\ \A l \in 1..Len(file.lines) : file.lines[l] \in Line
  BY <1>2, LenProperties
<1>4. \A l \in 1..Len(file.lines) : file.lines[l].at \in Nat
  BY <1>3 DEF Line
<1>5. /\ \A k, l \in DOMAIN file.lines : k < l => file.lines[k].at < file.lines[l].at
      /\ ToSet(file.lines) = {LineOf(tree[n]) : n \in Definitions(tree)}
  BY <1>1 DEF Shown, TreeShowsMacros
<1>6. ToSet(file.lines) = {file.lines[l] : l \in 1..Len(file.lines)}
  BY <1>3 DEF ToSet
<1>7. ASSUME NEW l \in 1..Len(file.lines)
      PROVE  \E m \in Definitions(tree) : file.lines[l] = LineOf(tree[m])
  <2>1. file.lines[l] \in {LineOf(tree[n]) : n \in Definitions(tree)}
    BY <1>5, <1>6
  <2> QED  BY <2>1
<1>8. ASSUME NEW m \in Definitions(tree)
      PROVE  \E l \in 1..Len(file.lines) : file.lines[l] = LineOf(tree[m])
  <2>1. LineOf(tree[m]) \in {file.lines[l] : l \in 1..Len(file.lines)}
    BY <1>5, <1>6
  <2> QED  BY <2>1
<1> QED  BY <1>3, <1>4, <1>5, <1>7, <1>8

(* The lines a use of the preprocessor looks at are the definitions of its  *)
(* name that the walk has passed.                                          *)
LEMMA LinesBefore ==
  ASSUME Shown, NEW n \in (1..Len(tree)) \ Definitions(tree), NEW m \in Definitions(tree),
         NEW l \in 1..Len(file.lines), file.lines[l] = LineOf(tree[m])
  PROVE  /\ m \in Earlier(tree, n) <=>
              file.lines[l].at < UseOf(tree[n]).lo /\ file.lines[l].name = UseOf(tree[n]).name
         /\ Comptime(file.lines[l]) <=> \E body \in tree[m].body : HasComptime(body)
<1>1. /\ m \in 1..Len(tree) /\ m # n /\ tree[m].lo \in Nat /\ tree[n].lo \in Nat
      /\ m \in Nat /\ n \in Nat
      /\ m < n => tree[m].lo < tree[n].lo
      /\ n < m => tree[n].lo < tree[m].lo
  <2>1. m \in 1..Len(tree) /\ m # n /\ n \in 1..Len(tree)
    BY ShownDefinitions
  <2> QED  BY <2>1, ShownDefinitions
<1>2. m < n <=> tree[m].lo < tree[n].lo
  BY <1>1
<1>3. /\ file.lines[l].at = tree[m].lo /\ file.lines[l].name = tree[m].name
      /\ file.lines[l].body = tree[m].body
      /\ UseOf(tree[n]).lo = tree[n].lo /\ UseOf(tree[n]).name = tree[n].name
  BY DEF LineOf, UseOf
<1>4. m \in Earlier(tree, n) <=> m < n /\ tree[m].name = tree[n].name
  BY DEF Earlier
<1>5. \A body \in tree[m].body : \A k \in DOMAIN body :
        body[k].name \in Keywords => body[k].sym = "identifier"
  BY ShownDefinitions DEF Spelled
<1>6. Comptime(file.lines[l]) <=> \E body \in tree[m].body : HasComptime(body)
  BY <1>3, <1>5 DEF Comptime, HasComptime
<1> QED  BY <1>2, <1>3, <1>4, <1>6

(* The definition in force at a use, for the preprocessor and for the walk. *)
LEMMA InForceIsLastBefore ==
  ASSUME Shown, NEW n \in (1..Len(tree)) \ Definitions(tree), Earlier(tree, n) # {}
  PROVE  /\ LastBefore(tree, n) \in Earlier(tree, n)
         /\ InForce(UseOf(tree[n])) = {LineOf(tree[LastBefore(tree, n)])}
<1> DEFINE u == UseOf(tree[n])
           before == {l \in DOMAIN file.lines : file.lines[l].at < u.lo /\ file.lines[l].name = u.name}
           d == LastBefore(tree, n)
<1>1. Earlier(tree, n) \in SUBSET (1..Len(tree)) /\ Earlier(tree, n) \subseteq Definitions(tree)
  BY ShownDefinitions DEF Earlier
<1>2. d \in Earlier(tree, n) /\ \A m \in Earlier(tree, n) : m <= d
  BY <1>1, ShownDefinitions, LargestIn DEF LastBefore
<1>3. PICK x \in 1..Len(file.lines) : file.lines[x] = LineOf(tree[d])
  BY <1>1, <1>2, ShownLines
<1>4. x \in before
  <2>1. d \in Definitions(tree)
    BY <1>1, <1>2
  <2>2. file.lines[x].at < u.lo /\ file.lines[x].name = u.name
    BY <1>2, <1>3, <2>1, LinesBefore
  <2> QED  BY <1>3, <2>2, ShownLines
<1>5. ASSUME NEW l \in before PROVE l <= x
  <2>1. l \in 1..Len(file.lines) /\ file.lines[l].at < u.lo /\ file.lines[l].name = u.name
    BY ShownLines
  <2>2. PICK m \in Definitions(tree) : file.lines[l] = LineOf(tree[m])
    BY <2>1, ShownLines
  <2>3. m \in Earlier(tree, n)
    BY <2>1, <2>2, LinesBefore
  <2>4. m <= d /\ m \in 1..Len(tree) /\ d \in Definitions(tree) /\ d \in 1..Len(tree)
    BY <1>1, <1>2, <2>3
  <2>5. tree[m].lo <= tree[d].lo /\ tree[m].lo \in Nat /\ tree[d].lo \in Nat
    <3>1. m < d \/ m = d
      BY <2>4, ShownDefinitions
    <3>2. m < d => tree[m].lo < tree[d].lo
      BY <2>4, ShownDefinitions
    <3>3. tree[m].lo \in Nat /\ tree[d].lo \in Nat
      BY <2>4, ShownDefinitions
    <3> QED  BY <3>1, <3>2, <3>3
  <2>6. file.lines[l].at <= file.lines[x].at
    <3>1. file.lines[l].at = tree[m].lo /\ file.lines[x].at = tree[d].lo
      BY <1>3, <2>2 DEF LineOf
    <3> QED  BY <2>5, <3>1
  <2>7. ~(x < l)
    <3>1. file.lines[x].at \in Nat /\ file.lines[l].at \in Nat
      BY <2>1, ShownLines
    <3>2. x < l => file.lines[x].at < file.lines[l].at
      BY <2>1, ShownLines
    <3> QED  BY <2>6, <3>1, <3>2
  <2> QED  BY <2>1, <2>7, ShownLines
<1>6. Largest(before) = x
  <2>1. before \in SUBSET (1..Len(file.lines)) /\ Len(file.lines) \in Nat
    BY ShownLines
  <2> HIDE DEF before
  <2> QED  BY <1>4, <1>5, <2>1, LargestIs
<1>7. InForce(u) = IF before = {} THEN {} ELSE {file.lines[Largest(before)]}
  BY DEF InForce
<1> HIDE DEF before, u, d
<1>8. InForce(u) = {LineOf(tree[d])}
  BY <1>3, <1>4, <1>6, <1>7
<1> QED  BY <1>2, <1>8 DEF u, d

(* A use is concerned when it stands in the tree of comptime macros. *)
LEMMA ConcernedStands ==
  ASSUME Shown, NEW n \in (1..Len(tree)) \ Definitions(tree)
  PROVE  Concerned(UseOf(tree[n])) <=> n \in Standing(tree)
<1> DEFINE u == UseOf(tree[n])
<1>1. n \in Standing(tree) <=>
        \E m \in Earlier(tree, n) : \E body \in tree[m].body : HasComptime(body)
  <2>1. DOMAIN tree = 1..Len(tree)
    BY FilesAreTyped DEF Shown
  <2> QED  BY <2>1 DEF Standing
<1>2. ASSUME Concerned(u) PROVE n \in Standing(tree)
  <2>1. PICK l \in 1..Len(file.lines) :
          file.lines[l].at < u.lo /\ file.lines[l].name = u.name /\ Comptime(file.lines[l])
    BY <1>2, ShownLines DEF Concerned
  <2>2. PICK m \in Definitions(tree) : file.lines[l] = LineOf(tree[m])
    BY ShownLines
  <2>3. m \in Earlier(tree, n) /\ \E body \in tree[m].body : HasComptime(body)
    BY <2>1, <2>2, LinesBefore
  <2> QED  BY <1>1, <2>3
<1>3. ASSUME n \in Standing(tree) PROVE Concerned(u)
  <2>1. PICK m \in Earlier(tree, n) : \E body \in tree[m].body : HasComptime(body)
    BY <1>1, <1>3
  <2>2. m \in Definitions(tree)
    BY DEF Earlier
  <2>3. PICK l \in 1..Len(file.lines) : file.lines[l] = LineOf(tree[m])
    BY <2>2, ShownLines
  <2>4. file.lines[l].at < u.lo /\ file.lines[l].name = u.name /\ Comptime(file.lines[l])
    BY <2>1, <2>2, <2>3, LinesBefore
  <2> QED  BY <2>4, ShownLines DEF Concerned
<1> QED  BY <1>2, <1>3

(* The values the walk finds at a standing node, and the text it notes for   *)
(* it, when the definition is the last one before it.                      *)
Given(n) ==
  IF tree[LastBefore(tree, n)].params = <<>> THEN <<>>
  ELSE [k \in DOMAIN tree[n].args |-> Value(tree[n].args[k].lo, tree[n].args[k].hi)]
NewText(n) == Expand(tree[LastBefore(tree, n)], Given(n))
Words == {text[i] : i \in Int} \cup Tokens \cup {"quote"}

LEMMA StandingNodes ==
  ASSUME Shown, NEW n \in Standing(tree)
  PROVE  /\ n \in (1..Len(tree)) \ Definitions(tree)
         /\ Earlier(tree, n) # {}
         /\ LastBefore(tree, n) \in Earlier(tree, n)
         /\ LastBefore(tree, n) \in Definitions(tree)
         /\ LastBefore(tree, n) \in 1..Len(tree)
<1>1. n \in (1..Len(tree)) \ Definitions(tree) /\ Earlier(tree, n) # {}
  <2>1. DOMAIN tree = 1..Len(tree)
    BY FilesAreTyped DEF Shown
  <2> QED  BY <2>1 DEF Standing
<1>2. LastBefore(tree, n) \in Earlier(tree, n)
  BY <1>1, InForceIsLastBefore
<1>3. LastBefore(tree, n) \in Definitions(tree)
  BY <1>2 DEF Earlier
<1> QED  BY <1>1, <1>2, <1>3, ShownDefinitions

(* There is a value for each parameter. *)
LEMMA GivenValues ==
  ASSUME Shown, NEW n \in Standing(tree)
  PROVE  /\ Given(n) \in Seq(Seq({text[i] : i \in Int}))
         /\ Len(Given(n)) = Len(tree[LastBefore(tree, n)].params)
         /\ \A p \in 1..Len(tree[LastBefore(tree, n)].params) :
              Given(n)[p] = Value(tree[n].args[p].lo, tree[n].args[p].hi)
<1> DEFINE V == {text[i] : i \in Int}
           args == tree[n].args
           params == tree[LastBefore(tree, n)].params
<1>1. args \in Seq(Slice) /\ params \in Seq(Names)
  <2>1. tree[n] \in MacroNode /\ tree[LastBefore(tree, n)] \in MacroNode
    BY StandingNodes, ShownDefinitions
  <2> QED  BY <2>1 DEF MacroNode
<1>2. /\ Len(args) \in Nat /\ DOMAIN args = 1..Len(args)
      /\ \A k \in 1..Len(args) : args[k] \in Slice
  BY <1>1, LenProperties
<1>3. Len(args) = Len(params)
  BY DEF Shown, TreeShowsMacros, tree
<1>4. ASSUME NEW s \in Slice PROVE Value(s.lo, s.hi) \in Seq(V)
  <2>1. s.lo + 1 \in Int /\ s.hi \in Int /\ \A i \in (s.lo + 1)..s.hi : text[i] \in V
    BY DEF Slice
  <2> QED  BY <2>1, SubSeqProperties DEF Value
<1>5. CASE params = <<>>
  <2>1. Given(n) = <<>> /\ Len(params) = 0
    BY <1>5 DEF Given
  <2> QED  BY <2>1
<1>6. CASE params # <<>>
  <2>1. Given(n) = [k \in 1..Len(args) |-> Value(args[k].lo, args[k].hi)]
    BY <1>2, <1>6 DEF Given
  <2> HIDE DEF V
  <2>2. \A k \in 1..Len(args) : Given(n)[k] \in Seq(V)
    BY <1>2, <1>4, <2>1
  <2>3. Given(n) \in Seq(Seq(V)) /\ Len(Given(n)) = Len(args)
    BY <1>2, <2>1, <2>2
  <2> QED  BY <1>3, <2>1, <2>3 DEF V
<1> QED  BY <1>5, <1>6

(* What the preprocessor makes of a use is what the walk notes. *)
LEMMA SubstitutedIsNewText ==
  ASSUME Shown, NEW n \in Standing(tree)
  PROVE  Substituted(UseOf(tree[n]), LineOf(tree[LastBefore(tree, n)])) = NewText(n)
<1> DEFINE d == tree[LastBefore(tree, n)]
           args == tree[n].args
           values == Given(n)
           body == CHOOSE b \in d.body : TRUE
           u == UseOf(tree[n])
           line == LineOf(d)
           Arg(name) ==
             LET arg == u.args[Place(name, line.params)] IN Value(arg.lo, arg.hi)
           One(leaf) ==
             IF leaf.name \notin ToSet(line.params) THEN <<leaf.name>>
             ELSE IF leaf.sym = "preproc_directive"
                  THEN <<"quote">> \o Arg(leaf.name) \o <<"quote">> ELSE Arg(leaf.name)
<1>1. /\ d \in MacroNode /\ d.body # {}
      /\ \A b \in d.body : \A k \in DOMAIN b : Spelled(b[k], d.params)
  BY StandingNodes, ShownDefinitions
<1>2. /\ body \in d.body /\ body \in Seq(Leaf) /\ d.params \in Seq(Names)
  BY <1>1 DEF MacroNode
<1>3. DOMAIN body = 1..Len(body)
  BY <1>2, LenProperties
<1>4. ASSUME NEW name \in ToSet(d.params) PROVE values[Place(name, d.params)] = Arg(name)
  <2>1. Place(name, d.params) \in 1..Len(d.params)
    BY <1>2, PlaceHolds
  <2>2. values[Place(name, d.params)]
          = Value(args[Place(name, d.params)].lo, args[Place(name, d.params)].hi)
    BY <2>1, GivenValues
  <2>3. u.args = args /\ line.params = d.params
    BY DEF UseOf, LineOf
  <2> QED  BY <2>2, <2>3
<1>5. Substituted(u, line) = FlattenSeq([k \in 1..Len(body) |-> One(body[k])])
  <2> DEFINE whole == CHOOSE b \in line.body : TRUE
  <2>1. whole = body
    BY DEF LineOf
  <2>2. Substituted(u, line) = FlattenSeq([k \in 1..Len(whole) |-> One(whole[k])])
    <3> HIDE DEF u, line
    <3> QED  BY DEF Substituted
  <2> HIDE DEF whole, One, body
  <2> QED  BY <2>1, <2>2, Zenon
<1>9. line.params = d.params
  BY DEF LineOf
<1>6. NewText(n) = FlattenSeq([k \in 1..Len(body) |-> Put(body[k], d.params, values)])
  BY Zenon DEF NewText, Expand
<1> HIDE DEF d, values, body, Arg, u, line
<1>7. ASSUME NEW k \in 1..Len(body) PROVE Put(body[k], d.params, values) = One(body[k])
  <2>1. Spelled(body[k], d.params)
    BY <1>1, <1>2, <1>3
  <2>2. CASE body[k].name \notin ToSet(d.params)
    BY <1>9, <2>2 DEF Put
  <2>3. CASE body[k].name \in ToSet(d.params)
    <3>1. body[k].sym \in {"identifier", "preproc_directive"}
      BY <2>1, <2>3 DEF Spelled
    <3>2. values[Place(body[k].name, d.params)] = Arg(body[k].name)
      BY <1>4, <2>3
    <3> QED  BY <1>9, <2>3, <3>1, <3>2 DEF Put
  <2> QED  BY <2>2, <2>3
<1> HIDE DEF One
<1>8. [k \in 1..Len(body) |-> Put(body[k], d.params, values)] = [k \in 1..Len(body) |-> One(body[k])]
  BY <1>7
<1> QED  BY <1>5, <1>6, <1>8 DEF d, u, line

(* It is a sequence of words. *)
LEMMA NewTextIsSeq ==
  ASSUME Shown, NEW n \in Standing(tree)
  PROVE  NewText(n) \in Seq(Words)
<1> DEFINE d == tree[LastBefore(tree, n)]
<1>1. d \in MacroNode /\ d.body # {}
  BY StandingNodes, ShownDefinitions
<1>2. Expand(d, Given(n)) \in Seq({text[i] : i \in Int} \cup Tokens \cup {"quote"})
  <2> DEFINE V == {text[i] : i \in Int}
  <2>1. Given(n) \in Seq(Seq(V)) /\ Len(Given(n)) = Len(d.params)
    BY GivenValues
  <2> HIDE DEF V
  <2>2. Expand(d, Given(n)) \in Seq(V \cup Tokens \cup {"quote"})
    BY <1>1, <2>1, ExpansionIsSeq
  <2> QED  BY <2>2 DEF V
<1> QED  BY <1>2 DEF NewText, Words

-----------------------------------------------------------------------------
(* The use a token is in. *)
LEMMA UseAtToken ==
  ASSUME Shown, NEW n \in Standing(tree), NEW p \in (tree[n].lo + 1)..tree[n].hi
  PROVE  Piece(p) = IF p = tree[n].lo + 1 THEN NewText(n) ELSE <<>>
<1> DEFINE held == {u \in ToSet(file.uses) : u.lo < p /\ p <= u.hi /\ Concerned(u) /\ InForce(u) # {}}
           v == UseOf(tree[n])
           line == LineOf(tree[LastBefore(tree, n)])
<1>1. /\ n \in (1..Len(tree)) \ Definitions(tree) /\ Earlier(tree, n) # {}
      /\ tree[n].lo \in Nat /\ tree[n].hi \in Nat
  BY StandingNodes, ShownDefinitions
<1>2. /\ {UseOf(tree[m]) : m \in Standing(tree)} \subseteq ToSet(file.uses)
      /\ \A u, w \in ToSet(file.uses) : u.lo < u.hi /\ (u = w \/ u.hi <= w.lo \/ w.hi <= u.lo)
  BY DEF Shown, TreeShowsMacros, tree
<1>3. v \in ToSet(file.uses) /\ v.lo = tree[n].lo /\ v.hi = tree[n].hi
  BY <1>2 DEF UseOf
<1>4. Concerned(v) /\ InForce(v) = {line}
  BY <1>1, ConcernedStands, InForceIsLastBefore
<1>5. v \in held
  <2>1. v.lo < p /\ p <= v.hi
    BY <1>1, <1>3
  <2>2. InForce(v) # {}
    BY <1>4
  <2> HIDE DEF v
  <2> QED  BY <1>3, <1>4, <2>1, <2>2, Zenon
<1>6. ASSUME NEW u \in held PROVE u = v
  <2>1. u \in ToSet(file.uses) /\ u.lo < p /\ p <= u.hi
    OBVIOUS
  <2>2. u \in Use
    <3>1. file.uses \in Seq(Use)
      BY MacroFilesAssumption DEF Shown
    <3> QED  BY <2>1, <3>1 DEF ToSet
  <2>3. u.lo \in Nat /\ u.hi \in Nat
    BY <2>2 DEF Use
  <2>4. ~(u.hi <= v.lo) /\ ~(v.hi <= u.lo)
    BY <1>1, <1>3, <2>1, <2>3
  <2> QED  BY <1>2, <1>3, <2>1, <2>4
<1>7. held = {v}
  BY <1>5, <1>6
<1>8. Substituted(v, line) = NewText(n)
  BY SubstitutedIsNewText
<1>9. Piece(p) = IF held = {} THEN <<text[p]>>
                 ELSE LET u == CHOOSE x \in held : TRUE
                      IN IF p = u.lo + 1 THEN Substituted(u, CHOOSE l \in InForce(u) : TRUE) ELSE <<>>
  BY DEF Piece
<1> HIDE DEF held, v, line
<1>10. (CHOOSE x \in held : TRUE) = v /\ held # {}
  BY <1>7
<1>11. (CHOOSE l \in InForce(v) : TRUE) = line
  BY <1>4
<1> QED  BY <1>3, <1>8, <1>9, <1>10, <1>11

LEMMA TokenOutsideUses ==
  ASSUME Shown, NEW p \in 1..Len(text), \A n \in Standing(tree) : p \notin (tree[n].lo + 1)..tree[n].hi
  PROVE  Piece(p) = <<text[p]>>
<1> DEFINE held == {u \in ToSet(file.uses) : u.lo < p /\ p <= u.hi /\ Concerned(u) /\ InForce(u) # {}}
<1>1. ASSUME NEW u \in held PROVE FALSE
  <2>1. u \in ToSet(file.uses) /\ u.lo < p /\ p <= u.hi /\ Concerned(u)
    OBVIOUS
  <2>2. ToSet(file.uses) \subseteq {UseOf(tree[n]) : n \in DOMAIN tree \ Definitions(tree)}
    BY DEF Shown, TreeShowsMacros, tree
  <2>3. PICK n \in DOMAIN tree \ Definitions(tree) : u = UseOf(tree[n])
    BY <2>1, <2>2
  <2>4. n \in (1..Len(tree)) \ Definitions(tree)
    BY <2>3, FilesAreTyped DEF Shown
  <2>5. n \in Standing(tree)
    BY <2>1, <2>3, <2>4, ConcernedStands
  <2>6. tree[n].lo \in Nat /\ tree[n].hi \in Nat
    BY <2>4, ShownDefinitions
  <2>7. Len(text) \in Nat
    BY FilesAreTyped DEF Shown
  <2>8. u.lo = tree[n].lo /\ u.hi = tree[n].hi
    BY <2>3 DEF UseOf
  <2>9. p \in (tree[n].lo + 1)..tree[n].hi
    BY <2>1, <2>6, <2>7, <2>8
  <2> QED  BY <2>5, <2>9
<1>2. held = {}
  BY <1>1
<1> QED  BY <1>2 DEF Piece

(* The pieces are sequences of words. *)
Pieces == [p \in 1..Len(text) |-> Piece(p)]

LEMMA PiecesAreSeqs ==
  ASSUME Shown
  PROVE  /\ Pieces \in Seq(Seq(Words)) /\ Len(Pieces) = Len(text) /\ Len(text) \in Nat
         /\ text \in Seq(Words)
         /\ \A p \in 1..Len(text) : Pieces[p] = Piece(p)
         /\ Preprocessed = Parts(Pieces, Len(text))
<1>1. text \in Seq(Tokens) /\ Len(text) \in Nat
  BY FilesAreTyped DEF Shown
<1>2. ASSUME NEW p \in 1..Len(text) PROVE text[p] \in Words
  BY <1>1 DEF Words
<1>3. text \in Seq(Words)
  <2>1. text = [p \in 1..Len(text) |-> text[p]]
    BY <1>1
  <2> QED  BY <1>1, <1>2, <2>1
<1>4. ASSUME NEW p \in 1..Len(text) PROVE Piece(p) \in Seq(Words)
  <2>1. ASSUME NEW n \in Standing(tree), p \in (tree[n].lo + 1)..tree[n].hi
        PROVE  Piece(p) \in Seq(Words)
    <3>1. Piece(p) = IF p = tree[n].lo + 1 THEN NewText(n) ELSE <<>>
      BY <2>1, UseAtToken
    <3>2. NewText(n) \in Seq(Words) /\ <<>> \in Seq(Words)
      BY NewTextIsSeq
    <3> QED  BY <3>1, <3>2, Zenon
  <2>2. ASSUME \A n \in Standing(tree) : p \notin (tree[n].lo + 1)..tree[n].hi
        PROVE  Piece(p) \in Seq(Words)
    <3>1. Piece(p) = <<text[p]>>
      BY <2>2, TokenOutsideUses
    <3>2. <<text[p]>> \in Seq(Words)
      BY <1>2
    <3> QED  BY <3>1, <3>2, Zenon
  <2> QED  BY <2>1, <2>2
<1>5. Pieces \in Seq(Seq(Words)) /\ Len(Pieces) = Len(text)
  BY <1>1, <1>4 DEF Pieces
<1>6. \A p \in 1..Len(text) : Pieces[p] = Piece(p)
  BY DEF Pieces
<1>7. Preprocessed = FlattenSeq(Pieces)
  BY DEF Preprocessed, Pieces
<1>8. Parts(Pieces, Len(Pieces)) = FlattenSeq(Pieces)
  BY <1>5, PartsGrow
<1> QED  BY <1>1, <1>3, <1>5, <1>6, <1>7, <1>8

-----------------------------------------------------------------------------
(* The walk and the loop over a file whose tree shows its macros.          *)

(* The definitions of a name the walk has passed. *)
Since(name) == {m \in Definitions(tree) : m < at /\ tree[m].name = name}
HasMacro(m) == \E body \in tree[m].body : HasComptime(body)

(* The walk has noted the standing nodes up to e, in order, each with the    *)
(* text the preprocessor puts there.                                       *)
Noted(e) ==
  /\ \A r \in 1..Len(replacements) :
       /\ replacements[r].node \in Standing(tree) /\ replacements[r].node <= e
       /\ replacements[r].with = NewText(replacements[r].node)
  /\ \A r, s \in 1..Len(replacements) : r < s => replacements[r].node < replacements[s].node
  /\ \A n \in Standing(tree) : n <= e => \E r \in 1..Len(replacements) : replacements[r].node = n

(* The table holds the last definition of each name that had a comptime one; *)
(* the copying loop has put out what stands in place of the tokens before  *)
(* the cursor.                                                             *)
Table ==
  /\ \A name : name \in DOMAIN macros <=> \E m \in Since(name) : HasMacro(m)
  /\ \A name \in DOMAIN macros : macros[name] = Largest(Since(name))
Expanding ==
  /\ Shown /\ Copying
  /\ pc \notin MacroStopped
  /\ pc = "expand" => at <= Len(tree) + 1 /\ Table /\ Noted(at - 1)
  /\ pc # "expand" => Noted(Len(tree))
  /\ pc = "apply" => /\ cursor = IF at = 1 THEN 0 ELSE tree[replacements[at - 1].node].hi
                     /\ Spoken(out) = Parts(Pieces, cursor)
  /\ pc = "done" => Spoken(out) = Parts(Pieces, Len(text))

LEMMA ExpandingInitially ==
  ASSUME MacroInit, TreeShowsMacros(file)
  PROVE  Expanding
<1>1. Shown /\ Copying
  BY CopyingInitially DEF MacroInit, Shown
<1>2. pc = "expand" /\ at = 1 /\ DOMAIN macros = {} /\ Len(replacements) = 0
  BY DEF MacroInit
<1>3. Len(tree) \in Nat /\ Definitions(tree) \subseteq 1..Len(tree)
  BY <1>1, ShownDefinitions
<1>4. \A name : Since(name) = {}
  BY <1>2, <1>3 DEF Since
<1>5. Table
  BY <1>2, <1>4 DEF Table
<1>6. Noted(at - 1)
  <2>1. \A n \in Standing(tree) : n \in 1..Len(tree)
    BY <1>1, StandingNodes
  <2>2. \A n \in Standing(tree) : ~(n <= at - 1)
    BY <1>2, <2>1
  <2> QED  BY <1>2, <2>2 DEF Noted
<1> QED  BY <1>1, <1>2, <1>3, <1>5, <1>6 DEF Expanding, MacroStopped

(* A node is known to the walk when it stands, and with the definition the   *)
(* preprocessor would take.                                                *)
LEMMA KnownStands ==
  ASSUME Expanding, pc = "expand", at \in (1..Len(tree)) \ Definitions(tree)
  PROVE  /\ Known <=> at \in Standing(tree)
         /\ Known => /\ Macro = tree[LastBefore(tree, at)] /\ Values = Given(at)
                     /\ Len(Macro.params) = Len(Values)
<1>1. Shown /\ Table
  BY DEF Expanding
<1>2. Since(tree[at].name) = Earlier(tree, at)
  BY DEF Since, Earlier
<1>3. Known <=> \E m \in Earlier(tree, at) : HasMacro(m)
  BY <1>1, <1>2 DEF Table, Known
<1>4. DOMAIN tree = 1..Len(tree)
  BY <1>1, FilesAreTyped DEF Shown
<1>5. Known <=> at \in Standing(tree)
  BY <1>3, <1>4 DEF Standing, HasMacro
<1>6. ASSUME Known
      PROVE  /\ Macro = tree[LastBefore(tree, at)] /\ Values = Given(at)
             /\ Len(Macro.params) = Len(Values)
  <2>1. Macro = tree[LastBefore(tree, at)]
    BY <1>1, <1>2, <1>6 DEF Table, Known, Macro, LastBefore
  <2>2. Values = Given(at)
    BY <2>1, Zenon DEF Values, Given
  <2>3. Len(Given(at)) = Len(tree[LastBefore(tree, at)].params)
    BY <1>1, <1>5, <1>6, GivenValues
  <2> QED  BY <2>1, <2>2, <2>3
<1> QED  BY <1>5, <1>6

(* A step of the walk that leaves the file and the replacements alone.       *)
LEMMA PassedKeepsNoted ==
  ASSUME Noted(at - 1), at \in Nat, at \notin Standing(tree), UNCHANGED <<file, replacements>>,
         at' = at + 1, \A n \in Standing(tree) : n \in Nat
  PROVE  Noted(at - 1)'
<1>1. tree' = tree /\ text' = text /\ Standing(tree)' = Standing(tree)
  BY DEF tree, text
<1>2. \A n : NewText(n)' = NewText(n)
  BY <1>1 DEF NewText, Given, Value, Expand
<1>3. (at - 1)' = at
  OBVIOUS
<1>4. \A n \in Standing(tree) : n <= at <=> n <= at - 1
  OBVIOUS
<1>5. \A r \in 1..Len(replacements) :
        /\ replacements[r].node \in Standing(tree) /\ replacements[r].node <= at
        /\ replacements[r].with = NewText(replacements[r].node)
  BY <1>4 DEF Noted
<1> HIDE DEF NewText
<1> QED  BY <1>1, <1>2, <1>3, <1>4, <1>5 DEF Noted

LEMMA DefineKeepsExpanding ==
  ASSUME Expanding, Define
  PROVE  Expanding'
<1>1. /\ pc = "expand" /\ at \in Nat /\ at <= Len(tree) /\ at' = at + 1
      /\ tree[at].sym \in {"preproc_function_def", "preproc_def"}
      /\ UNCHANGED <<file, pc, replacements, cursor, out>>
  BY DEF Define, Is, Expanding, Copying, Expansions, Tables
<1>2. Shown /\ Table /\ Noted(at - 1)
  BY <1>1 DEF Expanding
<1>3. Copying'
  BY CopyingIsPreserved DEF Expanding, MacroNext
<1>4. /\ tree' = tree /\ text' = text /\ Definitions(tree)' = Definitions(tree)
  BY <1>1 DEF tree, text
<1>5. /\ DOMAIN tree = 1..Len(tree) /\ Len(tree) \in Nat
      /\ Definitions(tree) \subseteq 1..Len(tree)
      /\ at \in 1..Len(tree) /\ at \in Definitions(tree)
  <2>1. DOMAIN tree = 1..Len(tree) /\ Len(tree) \in Nat /\ at \in 1..Len(tree)
    BY <1>1, <1>2, FilesAreTyped DEF Shown, Expanding, Copying, Expansions, Tables
  <2> QED  BY <1>1, <1>2, <2>1, ShownDefinitions DEF Definitions
<1>6. tree[at].body # {}
  BY <1>2, <1>5, ShownDefinitions
<1>7. Noted(at - 1)'
  <2>1. at \notin Standing(tree)
    BY <1>5 DEF Standing
  <2>2. \A n \in Standing(tree) : n \in Nat
    BY <1>5 DEF Standing
  <2> QED  BY <1>1, <1>2, <2>1, <2>2, PassedKeepsNoted
<1>8. \A name : Since(name)' = Since(name) \cup (IF name = tree[at].name THEN {at} ELSE {})
  <2>1. \A m \in Definitions(tree) : m < at' <=> (m < at \/ m = at)
    BY <1>1, <1>5
  <2> QED  BY <1>4, <1>5, <2>1 DEF Since
<1>9. \A m : HasMacro(m)' <=> HasMacro(m)
  BY <1>4 DEF HasMacro, HasComptime
<1>10. Table'
  <2>1. CASE Relevant
    <3>1. macros' = [name \in DOMAIN macros \cup {tree[at].name} |->
                       IF name = tree[at].name THEN at ELSE macros[name]]
      BY <1>6, <2>1 DEF Define
    <3>2. Known \/ HasMacro(at)
      BY <2>1 DEF Relevant, HasMacro
    <3>3. ASSUME NEW name
          PROVE  name \in DOMAIN macros' <=> \E m \in Since(name)' : HasMacro(m)
      <4>1. CASE name = tree[at].name
        <5>1. name \in DOMAIN macros'
          BY <3>1, <4>1
        <5>2. \E m \in Since(name)' : HasMacro(m)
          <6>1. CASE HasMacro(at)
            BY <1>8, <4>1, <6>1
          <6>2. CASE Known
            BY <1>2, <1>8, <4>1, <6>2 DEF Known, Table
          <6> QED  BY <3>2, <6>1, <6>2
        <5> QED  BY <5>1, <5>2
      <4>2. CASE name # tree[at].name
        <5>1. name \in DOMAIN macros' <=> name \in DOMAIN macros
          BY <3>1, <4>2
        <5>2. Since(name)' = Since(name)
          BY <1>8, <4>2
        <5> QED  BY <1>2, <5>1, <5>2 DEF Table
      <4> QED  BY <4>1, <4>2
    <3>4. ASSUME NEW name \in DOMAIN macros' PROVE macros'[name] = Largest(Since(name)')
      <4>1. CASE name = tree[at].name
        <5> DEFINE new == Since(name)'
        <5>1. new = Since(name) \cup {at}
          BY <1>8, <4>1
        <5>2. Since(name) \subseteq 1..Len(tree) /\ \A m \in Since(name) : m <= at
          BY <1>5 DEF Since
        <5>3. new \in SUBSET (1..Len(tree)) /\ at \in new /\ \A m \in new : m <= at
          BY <1>1, <1>5, <5>1, <5>2
        <5> HIDE DEF new
        <5>4. Largest(new) = at
          BY <1>5, <5>3, LargestIs
        <5>5. macros'[name] = at
          BY <3>1, <4>1
        <5> QED  BY <5>4, <5>5 DEF new
      <4>2. CASE name # tree[at].name
        <5>1. name \in DOMAIN macros /\ macros'[name] = macros[name]
          BY <3>1, <4>2
        <5>2. Since(name)' = Since(name)
          BY <1>8, <4>2
        <5> QED  BY <1>2, <5>1, <5>2 DEF Table
      <4> QED  BY <4>1, <4>2
    <3> QED  BY <1>9, <3>3, <3>4 DEF Table, Largest
  <2>2. CASE ~Relevant
    <3>1. macros' = macros
      BY <2>2 DEF Define
    <3>2. ~Known /\ ~HasMacro(at)
      BY <2>2 DEF Relevant, HasMacro
    <3>3. ASSUME NEW name
          PROVE  name \in DOMAIN macros' <=> \E m \in Since(name)' : HasMacro(m)
      <4>1. (\E m \in Since(name)' : HasMacro(m)) <=> (\E m \in Since(name) : HasMacro(m))
        BY <1>8, <3>2
      <4> QED  BY <1>2, <3>1, <4>1 DEF Table
    <3>4. ASSUME NEW name \in DOMAIN macros' PROVE macros'[name] = Largest(Since(name)')
      <4>1. name \in DOMAIN macros /\ name # tree[at].name
        BY <3>1, <3>2 DEF Known
      <4>2. Since(name)' = Since(name)
        BY <1>8, <4>1
      <4> QED  BY <1>2, <3>1, <4>1, <4>2 DEF Table
    <3> QED  BY <1>9, <3>3, <3>4 DEF Table, Largest
  <2> QED  BY <2>1, <2>2
<1>11. Shown'
  BY <1>1, <1>2 DEF Shown
<1>12. pc' = "expand" /\ at' <= Len(tree') + 1
  BY <1>1, <1>4, <1>5
<1> QED  BY <1>3, <1>7, <1>10, <1>11, <1>12 DEF Expanding, MacroStopped

(* A node that is no definition leaves the table as it is. *)
LEMMA PassKeepsTable ==
  ASSUME Table, Shown, at \in (1..Len(tree)) \ Definitions(tree), UNCHANGED <<file, macros>>,
         at' = at + 1
  PROVE  Table'
<1>1. tree' = tree /\ Definitions(tree)' = Definitions(tree)
  BY DEF tree
<1>2. \A m : HasMacro(m)' <=> HasMacro(m)
  BY <1>1 DEF HasMacro, HasComptime
<1>3. \A m \in Definitions(tree) : m < at' <=> m < at
  BY ShownDefinitions
<1>4. \A name : Since(name)' = Since(name)
  BY <1>1, <1>3 DEF Since
<1> QED  BY <1>2, <1>4 DEF Table, Largest

LEMMA OrdinaryKeepsExpanding ==
  ASSUME Expanding, Ordinary
  PROVE  Expanding'
<1>1. /\ pc = "expand" /\ at \in Nat /\ at <= Len(tree) /\ at' = at + 1 /\ ~Known
      /\ tree[at].sym \in {"call_expression", "type_identifier"}
      /\ UNCHANGED <<file, pc, macros, replacements, cursor, out>>
  BY DEF Ordinary, Pass, Is, Expanding, Copying, Expansions, Tables
<1>2. Shown /\ Table /\ Noted(at - 1)
  BY <1>1 DEF Expanding
<1>3. Copying'
  BY CopyingIsPreserved DEF Expanding, MacroNext
<1>4. at \in (1..Len(tree)) \ Definitions(tree) /\ Len(tree) \in Nat /\ DOMAIN tree = 1..Len(tree)
  <2>1. at \in 1..Len(tree) /\ Len(tree) \in Nat /\ DOMAIN tree = 1..Len(tree)
    BY <1>1, <1>2, FilesAreTyped DEF Shown, Expanding, Copying, Expansions, Tables
  <2> QED  BY <1>1, <2>1 DEF Definitions
<1>5. at \notin Standing(tree)
  BY <1>1, <1>4, KnownStands
<1>6. \A n \in Standing(tree) : n \in Nat
  BY <1>4 DEF Standing
<1>7. Noted(at - 1)'
  BY <1>1, <1>2, <1>5, <1>6, PassedKeepsNoted
<1>8. Table'
  BY <1>1, <1>2, <1>4, PassKeepsTable
<1>9. Shown' /\ at' <= Len(tree') + 1
  BY <1>1, <1>2, <1>4 DEF Shown, tree
<1> QED  BY <1>1, <1>3, <1>7, <1>8, <1>9 DEF Expanding, MacroStopped

LEMMA ReplaceKeepsExpanding ==
  ASSUME Expanding, Call \/ TypeIdentifier
  PROVE  Expanding'
<1>1. /\ pc = "expand" /\ at \in Nat /\ at <= Len(tree) /\ at' = at + 1 /\ Known
      /\ tree[at].sym \in {"call_expression", "type_identifier"}
      /\ UNCHANGED <<file, pc, macros, cursor, out>>
  BY DEF Call, TypeIdentifier, Replace, Pass, Is, Expanding, Copying, Expansions, Tables
<1>2. Shown /\ Table /\ Noted(at - 1)
  BY <1>1 DEF Expanding
<1>3. Copying'
  BY CopyingIsPreserved DEF Expanding, MacroNext
<1>4. at \in (1..Len(tree)) \ Definitions(tree) /\ Len(tree) \in Nat /\ DOMAIN tree = 1..Len(tree)
  <2>1. at \in 1..Len(tree) /\ Len(tree) \in Nat /\ DOMAIN tree = 1..Len(tree)
    BY <1>1, <1>2, FilesAreTyped DEF Shown, Expanding, Copying, Expansions, Tables
  <2> QED  BY <1>1, <2>1 DEF Definitions
<1>5. at \in Standing(tree) /\ Macro = tree[LastBefore(tree, at)] /\ Values = Given(at)
  BY <1>1, <1>4, KnownStands
<1>6. replacements' = Append(replacements, [node |-> at, with |-> NewText(at)])
  <2>1. CASE Call
    BY <1>5, <2>1 DEF Call, Replace, NewText
  <2>2. CASE TypeIdentifier
    <3>1. Values = <<>>
      BY <2>2 DEF TypeIdentifier, Values
    <3> QED  BY <1>5, <2>2, <3>1 DEF TypeIdentifier, Replace, NewText
  <2> QED  BY <2>1, <2>2
<1>7. \A n \in Standing(tree) : n \in Nat
  BY <1>4 DEF Standing
<1>8. Noted(at - 1)'
  <2> DEFINE x == [node |-> at, with |-> NewText(at)]
             L == Len(replacements)
  <2>1. x.node = at /\ x.with = NewText(at)
    OBVIOUS
  <2>2. PICK S : replacements \in Seq(S)
    BY DEF Expanding, Copying, Expansions, Tables
  <2> HIDE DEF x
  <2>3. /\ L \in Nat /\ Len(replacements') = L + 1
        /\ \A r \in 1..L : replacements'[r] = replacements[r]
        /\ replacements'[L + 1] = x
    BY <1>6, <2>2 DEF x
  <2>4. tree' = tree /\ text' = text /\ Standing(tree)' = Standing(tree) /\ (at - 1)' = at
    BY <1>1 DEF tree, text
  <2>5. \A n : NewText(n)' = NewText(n)
    BY <2>4 DEF NewText, Given, Value, Expand
  <2>6. \A r \in 1..(L + 1) : r \in 1..L \/ r = L + 1
    BY <2>3
  <2>7. ASSUME NEW r \in 1..(L + 1)
        PROVE  /\ replacements'[r].node \in Standing(tree) /\ replacements'[r].node <= at
               /\ replacements'[r].with = NewText(replacements'[r].node)
    <3>1. CASE r \in 1..L
      <4>1. /\ replacements[r].node \in Standing(tree) /\ replacements[r].node <= at - 1
            /\ replacements[r].with = NewText(replacements[r].node)
        BY <1>2, <3>1 DEF Noted
      <4>2. replacements[r].node <= at
        BY <1>1, <1>7, <4>1
      <4> QED  BY <2>3, <3>1, <4>1, <4>2
    <3>2. CASE r = L + 1
      BY <1>1, <1>5, <2>1, <2>3, <3>2
    <3> QED  BY <2>6, <3>1, <3>2
  <2>8. ASSUME NEW r \in 1..(L + 1), NEW s \in 1..(L + 1), r < s
        PROVE  replacements'[r].node < replacements'[s].node
    <3>1. r \in 1..L
      BY <2>3, <2>8
    <3>2. CASE s \in 1..L
      <4>1. replacements[r].node < replacements[s].node
        BY <1>2, <2>8, <3>1, <3>2 DEF Noted
      <4> QED  BY <2>3, <3>1, <3>2, <4>1
    <3>3. CASE s = L + 1
      <4>1. replacements[r].node \in Standing(tree) /\ replacements[r].node <= at - 1
        BY <1>2, <3>1 DEF Noted
      <4>2. replacements[r].node < at
        BY <1>1, <1>7, <4>1
      <4> QED  BY <2>1, <2>3, <3>1, <3>3, <4>2
    <3> QED  BY <2>6, <3>2, <3>3
  <2>9. ASSUME NEW n \in Standing(tree), n <= at
        PROVE  \E r \in 1..(L + 1) : replacements'[r].node = n
    <3>1. CASE n = at
      <4>1. L + 1 \in 1..(L + 1)
        BY <2>3
      <4> QED  BY <2>1, <2>3, <3>1, <4>1
    <3>2. CASE n # at
      <4>1. n <= at - 1
        BY <1>1, <1>7, <2>9, <3>2
      <4>2. PICK r \in 1..L : replacements[r].node = n
        BY <1>2, <4>1 DEF Noted
      <4> QED  BY <2>3, <4>2
    <3> QED  BY <3>1, <3>2
  <2> HIDE DEF L
  <2> QED  BY <2>3, <2>4, <2>5, <2>7, <2>8, <2>9 DEF Noted
<1>9. Table'
  BY <1>1, <1>2, <1>4, PassKeepsTable
<1>10. Shown' /\ at' <= Len(tree') + 1
  BY <1>1, <1>2, <1>4 DEF Shown, tree
<1> QED  BY <1>1, <1>3, <1>8, <1>9, <1>10 DEF Expanding, MacroStopped

LEMMA StopsAreOut ==
  ASSUME Expanding
  PROVE  ~DefineWithoutBody /\ ~CallAborts /\ ~TypeIdentifierCrashes /\ ~ApplyAborts
<1>1. Shown /\ file \in Files /\ at \in Nat \ {0}
  BY DEF Expanding, Shown, Copying, Expansions, Tables
<1>2. DOMAIN tree = 1..Len(tree) /\ Len(tree) \in Nat
  BY <1>1, FilesAreTyped
<1>3. ~DefineWithoutBody
  <2> SUFFICES ASSUME DefineWithoutBody PROVE FALSE
    OBVIOUS
  <2>1. at \in Definitions(tree) /\ tree[at].body = {}
    BY <1>1, <1>2 DEF DefineWithoutBody, Is, Definitions
  <2> QED  BY <1>1, <2>1, ShownDefinitions
<1>4. ASSUME Is("call_expression") \/ Is("type_identifier")
      PROVE  pc = "expand" /\ at \in (1..Len(tree)) \ Definitions(tree)
  BY <1>1, <1>2, <1>4 DEF Is, Definitions
<1>5. ~CallAborts
  BY <1>4, KnownStands DEF CallAborts
<1>6. ~TypeIdentifierCrashes
  <2> SUFFICES ASSUME TypeIdentifierCrashes PROVE FALSE
    OBVIOUS
  <2>1. Is("type_identifier") /\ Known /\ Macro.params # <<>>
    BY DEF TypeIdentifierCrashes
  <2>2. at \in Standing(tree) /\ Macro = tree[LastBefore(tree, at)]
    BY <1>4, <2>1, KnownStands
  <2>3. tree[at].args = <<>> /\ Len(tree[at].args) = Len(Macro.params)
    BY <1>1, <2>1, <2>2 DEF Shown, TreeShowsMacros, tree, Is
  <2>4. Macro.params \in Seq(Names)
    <3>1. Macro \in MacroNode
      BY <1>1, <2>2, StandingNodes, ShownDefinitions
    <3> QED  BY <3>1 DEF MacroNode
  <2>5. Len(Macro.params) = 0
    BY <2>3
  <2> QED  BY <2>1, <2>4, <2>5, EmptySeq
<1>7. ~ApplyAborts
  <2> SUFFICES ASSUME ApplyAborts PROVE FALSE
    OBVIOUS
  <2>1. pc = "apply" /\ at <= Len(replacements) /\ cursor > Replaced.lo
    BY DEF ApplyAborts
  <2>2. PICK S : replacements \in Seq(S)
    BY DEF Expanding, Copying, Expansions, Tables
  <2>3. at \in 1..Len(replacements) /\ at \in Nat
    BY <1>1, <2>1, <2>2
  <2>4. Noted(Len(tree)) /\ cursor = IF at = 1 THEN 0 ELSE tree[replacements[at - 1].node].hi
    BY <2>1 DEF Expanding
  <2> DEFINE n == replacements[at].node
  <2>5. n \in Standing(tree) /\ Replaced = tree[n]
    BY <2>3, <2>4 DEF Noted, Replaced
  <2>6. tree[n].lo \in Nat
    BY <1>1, <2>5, StandingNodes, ShownDefinitions
  <2>7. CASE at = 1
    BY <2>1, <2>4, <2>5, <2>6, <2>7
  <2>8. CASE at # 1
    <3> DEFINE m == replacements[at - 1].node
    <3>1. at - 1 \in 1..Len(replacements) /\ at - 1 < at
      BY <2>3, <2>8
    <3>2. m \in Standing(tree) /\ m < n
      BY <2>3, <2>4, <3>1 DEF Noted
    <3>3. tree[m].hi <= tree[n].lo
      BY <1>1, <2>5, <3>2 DEF Shown, TreeShowsMacros, tree
    <3>4. tree[m].hi \in Nat
      BY <1>1, <3>2, StandingNodes, ShownDefinitions
    <3> HIDE DEF m, n
    <3> QED  BY <2>1, <2>4, <2>5, <2>6, <2>8, <3>3, <3>4 DEF m
  <2> QED  BY <2>7, <2>8
<1> QED  BY <1>3, <1>5, <1>6, <1>7

LEMMA WalkedKeepsExpanding ==
  ASSUME Expanding, Walked
  PROVE  Expanding'
<1>1. /\ pc = "expand" /\ at > Len(tree) /\ pc' = "apply" /\ at' = 1
      /\ UNCHANGED <<file, macros, replacements, cursor, out>>
  BY DEF Walked
<1>2. Copying'
  BY CopyingIsPreserved DEF Expanding, MacroNext
<1>3. /\ Shown /\ at <= Len(tree) + 1 /\ Noted(at - 1) /\ cursor = 0 /\ out = <<>>
      /\ at \in Nat
  BY <1>1 DEF Expanding, Copying, Expansions, Tables
<1>4. Len(tree) \in Nat
  BY <1>3, ShownDefinitions
<1>5. at - 1 = Len(tree)
  BY <1>1, <1>3, <1>4
<1>6. tree' = tree /\ text' = text
  BY <1>1 DEF tree, text
<1>7. Noted(Len(tree))'
  <2>1. Noted(Len(tree))
    BY <1>3, <1>5
  <2>2. \A n : NewText(n)' = NewText(n)
    BY <1>6 DEF NewText, Given, Value, Expand
  <2> HIDE DEF NewText
  <2> QED  BY <1>1, <1>6, <2>1, <2>2 DEF Noted
<1>8. Shown'
  BY <1>1, <1>3 DEF Shown
<1>9. Spoken(out) = Parts(Pieces, cursor)
  <2>1. Pieces \in Seq(Seq(Words))
    BY <1>3, PiecesAreSeqs
  <2>2. Parts(Pieces, 0) = <<>>
    BY <2>1, PartsGrow
  <2>3. Spoken(<<>>) = <<>>
    BY DEF Spoken
  <2> QED  BY <1>3, <2>2, <2>3
<1>10. Spoken(out)' = Parts(Pieces, cursor)'
  <2>1. Pieces' = Pieces
    BY <1>1, <1>6 DEF Pieces, Piece, Concerned, InForce, Comptime, Substituted, Value
  <2> HIDE DEF Pieces
  <2> QED  BY <1>1, <1>9, <2>1 DEF Parts, Spoken
<1> QED  BY <1>1, <1>2, <1>3, <1>7, <1>8, <1>10 DEF Expanding, MacroStopped

(* The file fixes what is not a variable. *)
LEMMA FileFixes ==
  ASSUME UNCHANGED <<file, replacements>>
  PROVE  /\ tree' = tree /\ text' = text /\ Pieces' = Pieces
         /\ Shown' <=> Shown
         /\ Noted(Len(tree))' <=> Noted(Len(tree))
<1>1. tree' = tree /\ text' = text
  BY DEF tree, text
<1>2. Pieces' = Pieces
  BY <1>1 DEF Pieces, Piece, Concerned, InForce, Comptime, Substituted, Value
<1>3. \A n : NewText(n)' = NewText(n)
  BY <1>1 DEF NewText, Given, Value, Expand
<1>4. Shown' <=> Shown
  BY DEF Shown
<1> HIDE DEF NewText
<1>5. Noted(Len(tree))' <=> Noted(Len(tree))
  BY <1>1, <1>3 DEF Noted
<1> QED  BY <1>1, <1>2, <1>4, <1>5

(* What the loop copies is in no standing node. *)
LEMMA CopiedStretch ==
  ASSUME Expanding, NEW b \in cursor..Len(text),
         \A n \in Standing(tree) : tree[n].hi <= cursor \/ b <= tree[n].lo,
         NEW o, \E T : o \in Seq(T), Spoken(o) = Parts(Pieces, cursor)
  PROVE  /\ \E T : o \o Source(cursor, b) \in Seq(T)
         /\ Spoken(o \o Source(cursor, b)) = Parts(Pieces, b)
<1>1. Shown /\ cursor \in 0..Len(text)
  BY DEF Expanding, Copying, Expansions, Tables
<1>2. /\ Pieces \in Seq(Seq(Words)) /\ Len(Pieces) = Len(text) /\ Len(text) \in Nat
      /\ text \in Seq(Words) /\ \A p \in 1..Len(text) : Pieces[p] = Piece(p)
  BY <1>1, PiecesAreSeqs
<1>3. cursor \in Nat /\ b \in Nat /\ cursor <= b /\ b <= Len(text)
  BY <1>1, <1>2
<1>4. ASSUME NEW p \in (cursor + 1)..b PROVE Pieces[p] = <<text[p]>>
  <2>1. p \in 1..Len(text)
    BY <1>2, <1>3
  <2>2. ASSUME NEW n \in Standing(tree) PROVE p \notin (tree[n].lo + 1)..tree[n].hi
    <3>1. tree[n].lo \in Nat /\ tree[n].hi \in Nat
      BY <1>1, StandingNodes, ShownDefinitions
    <3>2. tree[n].hi <= cursor \/ b <= tree[n].lo
      OBVIOUS
    <3> QED  BY <1>3, <3>1, <3>2
  <2>3. Piece(p) = <<text[p]>>
    BY <1>1, <2>1, <2>2, TokenOutsideUses
  <2> QED  BY <1>2, <2>1, <2>3
<1>5. Parts(Pieces, b) = Parts(Pieces, cursor) \o Stretch(text, cursor, b)
  <2>1. cursor \in 0..Len(Pieces) /\ b \in cursor..Len(Pieces)
    BY <1>1, <1>2
  <2>2. Len(text) = Len(Pieces)
    BY <1>2
  <2> HIDE DEF Pieces
  <2> QED  BY <1>2, <1>4, <2>1, <2>2, PartsCopied
<1> DEFINE q == Source(cursor, b)
<1>6. (\E T : q \in Seq(T)) /\ Spoken(q) = Stretch(text, cursor, b)
  BY <1>3, SpokenSource
<1> HIDE DEF q
<1>7. Spoken(o \o q) = Spoken(o) \o Spoken(q) /\ \E T : o \o q \in Seq(T)
  BY <1>6, SpokenGrows
<1> QED  BY <1>5, <1>6, <1>7 DEF q

LEMMA ApplyKeepsExpanding ==
  ASSUME Expanding, Apply
  PROVE  Expanding'
<1>1. /\ pc = "apply" /\ at <= Len(replacements) /\ cursor <= Replaced.lo
      /\ out' = out \o Source(cursor, Replaced.lo) \o Made(replacements[at].with)
      /\ cursor' = Replaced.hi /\ at' = at + 1
      /\ UNCHANGED <<file, pc, macros, replacements>>
  BY DEF Apply, Behind
<1>2. Copying'
  BY CopyingIsPreserved DEF Expanding, MacroNext
<1>3. /\ Shown /\ Noted(Len(tree)) /\ Spoken(out) = Parts(Pieces, cursor)
      /\ \E T : out \in Seq(T)
      /\ at \in Nat \ {0} /\ cursor \in 0..Len(text)
      /\ \A r \in 1..(at - 1) : tree[replacements[r].node].hi <= cursor
  BY <1>1 DEF Expanding, Copying, Copies, Expansions, Tables
<1>4. PICK S : replacements \in Seq(S)
  BY DEF Expanding, Copying, Expansions, Tables
<1>5. at \in 1..Len(replacements) /\ Len(replacements) \in Nat
  BY <1>1, <1>3, <1>4
<1> DEFINE n == replacements[at].node
<1>6. n \in Standing(tree) /\ Replaced = tree[n] /\ replacements[at].with = NewText(n)
  BY <1>3, <1>5 DEF Noted, Replaced
<1> HIDE DEF n
<1>7. /\ tree[n].lo \in Nat /\ tree[n].hi \in Nat /\ tree[n].lo < tree[n].hi
      /\ tree[n].hi <= Len(text) /\ Len(text) \in Nat
  <2>1. n \in 1..Len(tree)
    BY <1>3, <1>6, StandingNodes
  <2>2. UseOf(tree[n]) \in ToSet(file.uses)
    BY <1>3, <1>6 DEF Shown, TreeShowsMacros, tree
  <2>3. UseOf(tree[n]).lo < UseOf(tree[n]).hi
    BY <1>3, <2>2 DEF Shown, TreeShowsMacros
  <2> QED  BY <1>3, <2>1, <2>3, FilesAreTyped, ShownDefinitions DEF Shown, UseOf
<1>8. ASSUME NEW m \in Standing(tree) PROVE tree[m].hi <= cursor \/ tree[n].lo <= tree[m].lo
  <2>1. m \in 1..Len(tree) /\ m <= Len(tree)
    BY <1>3, StandingNodes, ShownDefinitions
  <2>2. PICK r \in 1..Len(replacements) : replacements[r].node = m
    BY <1>3, <2>1 DEF Noted
  <2>3. CASE r < at
    <3>1. r \in 1..(at - 1)
      BY <1>3, <1>5, <2>3
    <3> QED  BY <1>3, <2>2, <3>1
  <2>4. CASE r = at
    BY <1>7, <2>2, <2>4 DEF n
  <2>5. CASE at < r
    <3>1. n < m
      BY <1>3, <1>5, <2>2, <2>5 DEF Noted, n
    <3>2. tree[n].hi <= tree[m].lo
      BY <1>3, <1>6, <3>1 DEF Shown, TreeShowsMacros, tree
    <3>3. tree[m].lo \in Nat
      BY <1>3, <2>1, ShownDefinitions
    <3> QED  BY <1>7, <3>2, <3>3
  <2> QED  BY <1>5, <2>3, <2>4, <2>5
<1> DEFINE o == out \o Source(cursor, tree[n].lo)
           w == NewText(n)
<1>9. (\E T : o \in Seq(T)) /\ Spoken(o) = Parts(Pieces, tree[n].lo)
  <2>1. tree[n].lo \in cursor..Len(text)
    BY <1>1, <1>3, <1>6, <1>7
  <2> QED  BY <1>3, <1>8, <2>1, CopiedStretch
<1>10. w \in Seq(Words)
  BY <1>3, <1>6, NewTextIsSeq
<1>11. out' = o \o Made(w)
  BY <1>1, <1>6
<1> HIDE DEF o, w
<1>12. Spoken(out') = Spoken(o) \o w
  <2>1. (\E T : Made(w) \in Seq(T)) /\ Spoken(Made(w)) = w
    BY <1>10, SpokenMade
  <2> QED  BY <1>9, <1>11, <2>1, SpokenGrows
<1>13. Parts(Pieces, tree[n].hi) = Parts(Pieces, tree[n].lo) \o w
  <2>1. /\ Pieces \in Seq(Seq(Words)) /\ Len(Pieces) = Len(text)
        /\ \A p \in 1..Len(text) : Pieces[p] = Piece(p)
    BY <1>3, PiecesAreSeqs
  <2>2. ASSUME NEW p \in (tree[n].lo + 1)..tree[n].hi
        PROVE  Pieces[p] = IF p = tree[n].lo + 1 THEN w ELSE <<>>
    <3>1. p \in 1..Len(text)
      BY <1>7
    <3>2. Piece(p) = IF p = tree[n].lo + 1 THEN NewText(n) ELSE <<>>
      BY <1>3, <1>6, UseAtToken
    <3> QED  BY <2>1, <3>1, <3>2 DEF w
  <2>3. tree[n].hi \in (tree[n].lo + 1)..Len(Pieces) /\ tree[n].lo + 1 \in (tree[n].lo + 1)..tree[n].hi
    BY <1>7, <2>1
  <2>4. \A p \in (tree[n].lo + 2)..tree[n].hi :
          p \in (tree[n].lo + 1)..tree[n].hi /\ p # tree[n].lo + 1
    BY <1>7
  <2>5. Pieces[tree[n].lo + 1] = w /\ \A p \in (tree[n].lo + 2)..tree[n].hi : Pieces[p] = <<>>
    BY <2>2, <2>3, <2>4
  <2> HIDE DEF Pieces
  <2> QED  BY <1>7, <2>1, <2>3, <2>5, PartsReplaced
<1>14. /\ tree' = tree /\ Pieces' = Pieces /\ Shown' /\ Noted(Len(tree))'
  BY <1>1, <1>3, FileFixes
<1>15. (Spoken(out) = Parts(Pieces, cursor))'
  <2>1. Spoken(out') = Parts(Pieces, tree[n].hi)
    BY <1>9, <1>12, <1>13
  <2>2. cursor' = tree[n].hi
    BY <1>1, <1>6
  <2> HIDE DEF Pieces
  <2> QED  BY <1>14, <2>1, <2>2 DEF Parts, Spoken
<1>16. (cursor = IF at = 1 THEN 0 ELSE tree[replacements[at - 1].node].hi)'
  <2>1. at' # 1 /\ at' - 1 = at
    BY <1>1, <1>5
  <2> QED  BY <1>1, <1>6, <1>14, <2>1 DEF n
<1> QED  BY <1>1, <1>2, <1>14, <1>15, <1>16 DEF Expanding, MacroStopped

LEMMA AppliedKeepsExpanding ==
  ASSUME Expanding, Applied
  PROVE  Expanding'
<1>1. /\ pc = "apply" /\ at > Len(replacements) /\ pc' = "done"
      /\ out' = out \o Source(cursor, Len(text))
      /\ UNCHANGED <<file, at, macros, replacements, cursor>>
  BY DEF Applied
<1>2. Copying'
  BY CopyingIsPreserved DEF Expanding, MacroNext
<1>3. /\ Shown /\ Noted(Len(tree)) /\ Spoken(out) = Parts(Pieces, cursor)
      /\ \E T : out \in Seq(T)
      /\ at \in Nat \ {0} /\ cursor \in 0..Len(text)
      /\ at <= Len(replacements) + 1
      /\ \A r \in 1..(at - 1) : tree[replacements[r].node].hi <= cursor
  BY <1>1 DEF Expanding, Copying, Copies, Expansions, Tables
<1>4. PICK S : replacements \in Seq(S)
  BY DEF Expanding, Copying, Expansions, Tables
<1>5. at - 1 = Len(replacements)
  BY <1>1, <1>3, <1>4
<1>6. ASSUME NEW m \in Standing(tree) PROVE tree[m].hi <= cursor \/ Len(text) <= tree[m].lo
  <2>1. m \in 1..Len(tree) /\ m <= Len(tree)
    BY <1>3, StandingNodes, ShownDefinitions
  <2>2. PICK r \in 1..Len(replacements) : replacements[r].node = m
    BY <1>3, <2>1 DEF Noted
  <2> QED  BY <1>3, <1>5, <2>2
<1>7. Spoken(out') = Parts(Pieces, Len(text))
  <2>1. Len(text) \in cursor..Len(text)
    BY <1>3, PiecesAreSeqs
  <2> QED  BY <1>1, <1>3, <1>6, <2>1, CopiedStretch
<1>8. /\ text' = text /\ Pieces' = Pieces /\ Shown' /\ Noted(Len(tree))'
  BY <1>1, <1>3, FileFixes
<1>9. (Spoken(out) = Parts(Pieces, Len(text)))'
  <2> HIDE DEF Pieces
  <2> QED  BY <1>7, <1>8 DEF Parts, Spoken
<1> QED  BY <1>1, <1>2, <1>8, <1>9 DEF Expanding, MacroStopped

LEMMA StutterKeepsExpanding ==
  ASSUME Expanding, UNCHANGED macroVars
  PROVE  Expanding'
<1>1. UNCHANGED <<file, pc, at, macros, replacements, cursor, out>>
  BY DEF macroVars
<1>2. Copying'
  BY CopyingIsPreserved DEF Expanding
<1>3. /\ tree' = tree /\ text' = text /\ Pieces' = Pieces
      /\ Shown' <=> Shown
      /\ Noted(Len(tree))' <=> Noted(Len(tree))
  BY <1>1, FileFixes
<1>4. \A n : NewText(n)' = NewText(n)
  BY <1>3 DEF NewText, Given, Value, Expand
<1> HIDE DEF NewText, Pieces
<1>5. Noted(at - 1)' <=> Noted(at - 1)
  BY <1>1, <1>3, <1>4 DEF Noted
<1>6. Table' <=> Table
  BY <1>1, <1>3 DEF Table, Since, HasMacro, HasComptime, Definitions, Largest
<1>7. /\ (Spoken(out) = Parts(Pieces, cursor))' <=> Spoken(out) = Parts(Pieces, cursor)
      /\ (Spoken(out) = Parts(Pieces, Len(text)))' <=> Spoken(out) = Parts(Pieces, Len(text))
  BY <1>1, <1>3 DEF Parts, Spoken
<1> QED  BY <1>1, <1>2, <1>3, <1>5, <1>6, <1>7 DEF Expanding

LEMMA ExpandingIsPreserved == Expanding /\ [MacroNext]_macroVars => Expanding'
BY StopsAreOut, DefineKeepsExpanding, OrdinaryKeepsExpanding, ReplaceKeepsExpanding,
   WalkedKeepsExpanding, ApplyKeepsExpanding, AppliedKeepsExpanding, StutterKeepsExpanding
   DEF MacroNext

(* Whatever the files: where the tree shows the macros of every supported   *)
(* one, each is finished, and its output is the text the preprocessor would *)
(* make of its comptime macros.                                            *)
THEOREM ExpansionCorrect ==
  ASSUME \A f \in Files : f.supported => TreeShowsMacros(f)
  PROVE  MacroSpec => []ExpandsAsPreprocessor
<1> DEFINE Inv == file.supported => Expanding
<1>1. MacroInit => Inv
  BY ExpandingInitially DEF MacroInit
<1>2. Inv /\ [MacroNext]_macroVars => Inv'
  <2> SUFFICES ASSUME Inv, [MacroNext]_macroVars PROVE Inv'
    OBVIOUS
  <2>1. file' = file
    BY DEF MacroNext, Define, DefineWithoutBody, Call, CallAborts, TypeIdentifier,
       TypeIdentifierCrashes, Ordinary, Walked, Apply, ApplyAborts, Applied, Replace, Pass, Stop,
       macroVars
  <2> HIDE DEF Inv
  <2>2. file.supported => Expanding'
    BY ExpandingIsPreserved DEF Inv
  <2> QED  BY <2>1, <2>2 DEF Inv
<1>3. Inv => ExpandsAsPreprocessor
  <2> SUFFICES ASSUME Inv, file.supported PROVE ExpandsAsPreprocessor
    BY DEF ExpandsAsPreprocessor
  <2>1. Expanding
    OBVIOUS
  <2>2. Preprocessed = Parts(Pieces, Len(text))
    BY <2>1, PiecesAreSeqs DEF Expanding
  <2>3. pc = "done" => Spoken(out) = Preprocessed
    BY <2>1, <2>2 DEF Expanding
  <2>4. pc \notin MacroStopped
    BY <2>1 DEF Expanding
  <2> HIDE DEF Inv
  <2> QED  BY <2>3, <2>4 DEF ExpandsAsPreprocessor, Spoken
<1> HIDE DEF Inv
<1> QED  BY <1>1, <1>2, <1>3, PTL DEF MacroSpec
=============================================================================
