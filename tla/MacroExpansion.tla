--------------------------- MODULE MacroExpansion ---------------------------
(***************************************************************************)
(* cct_expand_macros (macro_expansion.c): one walk over the tree of the    *)
(* user's source, which keeps a table of the macros that stand for         *)
(* comptime code and notes what each use of one becomes, and one loop that *)
(* copies the text with these replacements.  Its output is the text that   *)
(* TreePasses starts from.                                                 *)
(*                                                                         *)
(* Text is a sequence of tokens; the line of a #define is one token, as    *)
(* nothing inside it is replaced.  Nodes the walk does nothing at are left *)
(* out of the tree; Within and Largest are those of SyntaxTree.  The tree  *)
(* of a macro's body, which the walk parses on its own, is the sequence of *)
(* its leaves.                                                             *)
(***************************************************************************)
EXTENDS SyntaxTree, SequencesExt

CONSTANTS
  Tokens,  \* the tokens of source texts
  Names,   \* those that name macros and parameters
  Files    \* the source files considered

(* A leaf of a body: the text of an identifier, or of a directive #x (its   *)
(* name is then x), or any other token.                                    *)
Leaf == [sym : {"identifier", "type_identifier", "preproc_directive", "other"}, name : Tokens]
MacroSyms == {"preproc_function_def", "preproc_def", "call_expression", "type_identifier"}
(* name is the macro's, the called identifier's or the type's; args are the *)
(* ranges of a call's arguments; body is a set of at most one sequence.    *)
MacroNode ==
  [sym : MacroSyms, name : Names, last : Nat, lo : Nat, hi : Nat,
   params : Seq(Names), body : SUBSET Seq(Leaf), args : Seq(Slice)]

(* The lines and uses of the reference, below.                             *)
Line == [at : Nat, name : Names, params : Seq(Names), body : SUBSET Seq(Leaf)]
Use == [name : Names, lo : Nat, hi : Nat, args : Seq(Slice)]

ASSUME MacroFilesAssumption ==
  \A f \in Files :
    /\ f.text \in Seq(Tokens)
    /\ f.tree \in Seq(MacroNode)
    /\ f.lines \in Seq(Line)
    /\ f.uses \in Seq(Use)
    /\ \A n \in DOMAIN f.tree :
         f.tree[n].lo <= f.tree[n].hi /\ f.tree[n].hi <= Len(f.text)

VARIABLES
  file, pc, at,
  macros,        \* the table: name -> the node of its definition
  replacements,  \* what the walk found: the node and its new text
  cursor,        \* first token not yet copied
  out            \* the output: tokens, and where in the source each is from (0: an expansion)

macroVars == <<file, pc, at, macros, replacements, cursor, out>>

tree == file.tree
text == file.text
MacroStopped == {"abort", "crash"}

MacroInit ==
  /\ file \in Files
  /\ pc = "expand"
  /\ at = 1
  /\ macros = [name \in {} |-> 0]
  /\ replacements = <<>>
  /\ cursor = 0
  /\ out = <<>>

-----------------------------------------------------------------------------
(* expand_macro_tree and expand_macro_node: the value of a parameter in    *)
(* place of every identifier with its name, quoted in place of a directive *)
(* with it; what was put in is not looked at again.                        *)

Value(lo, hi) == SubSeq(text, lo + 1, hi)
Place(name, params) == CHOOSE p \in DOMAIN params : params[p] = name
(* Faulty variant: directives are replaced like identifiers.               *)
PutUnquoted(leaf, params, values) ==
  IF leaf.name \in ToSet(params) THEN values[Place(leaf.name, params)] ELSE <<leaf.name>>
Put(leaf, params, values) ==
  CASE leaf.sym = "identifier" /\ leaf.name \in ToSet(params) -> values[Place(leaf.name, params)]
    [] leaf.sym = "preproc_directive" /\ leaf.name \in ToSet(params) ->
         <<"quote">> \o values[Place(leaf.name, params)] \o <<"quote">>
    [] OTHER -> <<leaf.name>>
Expand(def, values) ==
  LET body == CHOOSE b \in def.body : TRUE
  IN FlattenSeq([k \in 1..Len(body) |-> Put(body[k], def.params, values)])

(* has_comptime_identifier *)
Keywords == {"_Comptime", "_ComptimeType"}
HasComptime(body) ==
  \E k \in DOMAIN body : body[k].sym = "identifier" /\ body[k].name \in Keywords

-----------------------------------------------------------------------------
(* expand_macros_tree_node, one node per step.                             *)

Is(sym) == pc = "expand" /\ at <= Len(tree) /\ tree[at].sym = sym
Known == tree[at].name \in DOMAIN macros
Macro == tree[macros[tree[at].name]]
Stop(label) == pc' = label /\ UNCHANGED <<file, at, macros, replacements, cursor, out>>

(* put_macro_def_if_comptime_relevant: a macro is kept when its own body    *)
(* has a comptime keyword, or when it redefines one that was kept.         *)
(* Faulty variant: every macro is kept.                                    *)
RelevantAny == TRUE
Relevant == Known \/ \E body \in tree[at].body : HasComptime(body)

Define ==
  /\ Is("preproc_function_def") \/ Is("preproc_def")
  /\ tree[at].sym = "preproc_function_def" => tree[at].body # {}
  /\ at' = at + 1
  /\ macros' = IF tree[at].body # {} /\ Relevant
               THEN [name \in DOMAIN macros \cup {tree[at].name} |->
                       IF name = tree[at].name THEN at ELSE macros[name]]
               ELSE macros
  /\ UNCHANGED <<file, pc, replacements, cursor, out>>
(* ts_node_symbol of the null node                                         *)
DefineWithoutBody ==
  Is("preproc_function_def") /\ tree[at].body = {} /\ Stop("crash")

Pass == /\ at' = at + 1
        /\ UNCHANGED <<file, pc, macros, cursor, out>>
Replace(values) ==
  /\ replacements' = Append(replacements, [node |-> at, with |-> Expand(Macro, values)])
  /\ Pass

(* The arguments of a call; a macro without parameters gets none.          *)
Values ==
  IF Macro.params = <<>> THEN <<>>
  ELSE [k \in DOMAIN tree[at].args |-> Value(tree[at].args[k].lo, tree[at].args[k].hi)]

Call == /\ Is("call_expression") /\ Known
        /\ Len(Macro.params) = Len(Values)
        /\ Replace(Values)
CallAborts == /\ Is("call_expression") /\ Known
              /\ Len(Macro.params) # Len(Values)
              /\ Stop("abort")
TypeIdentifier == /\ Is("type_identifier") /\ Known
                  /\ Macro.params = <<>>
                  /\ Replace(<<>>)
(* The loop that logs the parameters reads values that are not there.      *)
TypeIdentifierCrashes == Is("type_identifier") /\ Known /\ Macro.params # <<>> /\ Stop("crash")
(* try_expand_* return 0.                                                  *)
Ordinary == /\ Is("call_expression") \/ Is("type_identifier")
            /\ ~Known
            /\ UNCHANGED replacements
            /\ Pass
Walked == /\ pc = "expand" /\ at > Len(tree)
          /\ pc' = "apply" /\ at' = 1
          /\ UNCHANGED <<file, macros, replacements, cursor, out>>

-----------------------------------------------------------------------------
(* apply_node_replacements_to_tree, one replacement per step.              *)

Source(lo, hi) == [k \in 1..(hi - lo) |-> [token |-> text[lo + k], from |-> lo + k]]
Made(tokens) == [k \in 1..Len(tokens) |-> [token |-> tokens[k], from |-> 0]]
Replaced == tree[replacements[at].node]
(* Faulty variants: the cursor is left in the replaced node, or behind its  *)
(* terminator.                                                             *)
BehindStart == Replaced.lo + 1
BehindTerminator == Replaced.hi + 1
Behind == Replaced.hi

Apply ==
  /\ pc = "apply" /\ at <= Len(replacements)
  /\ cursor <= Replaced.lo
  /\ out' = out \o Source(cursor, Replaced.lo) \o Made(replacements[at].with)
  /\ cursor' = Behind
  /\ at' = at + 1
  /\ UNCHANGED <<file, pc, macros, replacements>>
(* A replacement inside another one: "cursor is ahead of slice".           *)
ApplyAborts ==
  pc = "apply" /\ at <= Len(replacements) /\ cursor > Replaced.lo /\ Stop("abort")
(* Without replacements the source itself is the output, which is the same. *)
Applied ==
  /\ pc = "apply" /\ at > Len(replacements)
  /\ out' = out \o Source(cursor, Len(text))
  /\ pc' = "done"
  /\ UNCHANGED <<file, at, macros, replacements, cursor>>

MacroNext ==
  \/ Define \/ DefineWithoutBody \/ Call \/ CallAborts
  \/ TypeIdentifier \/ TypeIdentifierCrashes \/ Ordinary \/ Walked
  \/ Apply \/ ApplyAborts \/ Applied
MacroSpec == MacroInit /\ [][MacroNext]_macroVars

-----------------------------------------------------------------------------
(* The reference: the C preprocessor, as far as comptime macros are        *)
(* concerned.  file.lines are the definitions it obeys, in text order, and *)
(* file.uses the uses it sees that are not inside another one; neither     *)
(* comes from a tree.  It is the preprocessor's first step only: what a    *)
(* use became is not scanned again, tokens joined by ## are not pasted,    *)
(* and quotes in what # quotes are not escaped, as in the code.            *)

Comptime(line) == \E body \in line.body : \E k \in DOMAIN body : body[k].name \in Keywords
InForce(u) ==
  LET before == {l \in DOMAIN file.lines : file.lines[l].at < u.lo /\ file.lines[l].name = u.name}
  IN IF before = {} THEN {} ELSE {file.lines[Largest(before)]}
(* A name that never stood for comptime code is none of ccomptime's.       *)
Concerned(u) ==
  \E l \in DOMAIN file.lines :
    file.lines[l].at < u.lo /\ file.lines[l].name = u.name /\ Comptime(file.lines[l])
Substituted(u, line) ==
  LET body == CHOOSE b \in line.body : TRUE
      Arg(name) == LET arg == u.args[Place(name, line.params)] IN Value(arg.lo, arg.hi)
      One(leaf) ==
        IF leaf.name \notin ToSet(line.params) THEN <<leaf.name>>
        ELSE IF leaf.sym = "preproc_directive"
             THEN <<"quote">> \o Arg(leaf.name) \o <<"quote">> ELSE Arg(leaf.name)
  IN FlattenSeq([k \in 1..Len(body) |-> One(body[k])])
(* What stands in place of the p-th token.                                 *)
Piece(p) ==
  LET held == {u \in ToSet(file.uses) : u.lo < p /\ p <= u.hi /\ Concerned(u) /\ InForce(u) # {}}
  IN IF held = {} THEN <<text[p]>>
     ELSE LET u == CHOOSE x \in held : TRUE
          IN IF p = u.lo + 1 THEN Substituted(u, CHOOSE l \in InForce(u) : TRUE) ELSE <<>>
Preprocessed == FlattenSeq([p \in 1..Len(text) |-> Piece(p)])

-----------------------------------------------------------------------------
(* Properties.                                                             *)

(* The variables have their types; the cursor stays in the text.           *)
MacroTypeOK ==
  /\ pc \in {"expand", "apply", "done"} \cup MacroStopped
  /\ at \in Nat \ {0}
  /\ \A name \in DOMAIN macros : macros[name] \in DOMAIN tree
  /\ \A r \in DOMAIN replacements : replacements[r].node \in DOMAIN tree
  /\ cursor \in 0..Len(text)

(* Only a macro that stands for comptime code is ever expanded: for every   *)
(* name in the table some definition before the walk's position has the    *)
(* keyword in its body, so the user's other macros are left alone.         *)
OnlyComptimeMacros ==
  \A name \in DOMAIN macros :
    \E n \in 1..macros[name] :
      tree[n].name = name /\ \E body \in tree[n].body : HasComptime(body)

(* Whatever the file, the copying loop drops exactly the replaced uses and  *)
(* keeps everything else once and in order: of a file that is finished,    *)
(* the tokens outside the replaced nodes.                                  *)
Covered == UNION {(tree[replacements[r].node].lo + 1)..tree[replacements[r].node].hi :
                    r \in DOMAIN replacements}
KeptOnce ==
  pc = "done" =>
    LET Copied == {k \in DOMAIN out : out[k].from # 0}
        Outside == (1..Len(text)) \ Covered
    IN /\ {out[k].from : k \in Copied} = Outside
       /\ \A k \in Copied : out[k].token = text[out[k].from]
       /\ \A k, l \in Copied : k < l => out[k].from < out[l].from

(* What ExpandsAsPreprocessor relies on: the tree shows the definitions,    *)
(* each with a body, and the uses of the text, in its order; a parameter    *)
(* or keyword in a body is seen as one; and what is taken for a use of a    *)
(* comptime macro is one, inside no other, with an argument per parameter. *)
Definitions(t) == {n \in DOMAIN t : t[n].sym \in {"preproc_function_def", "preproc_def"}}
Earlier(t, n) == {m \in Definitions(t) : m < n /\ t[m].name = t[n].name}
LastBefore(t, n) == Largest(Earlier(t, n))
Standing(t) ==
  {n \in DOMAIN t \ Definitions(t) :
     \E m \in Earlier(t, n) : \E body \in t[m].body : HasComptime(body)}
LineOf(node) == [at |-> node.lo, name |-> node.name, params |-> node.params, body |-> node.body]
UseOf(node) == [name |-> node.name, lo |-> node.lo, hi |-> node.hi, args |-> node.args]
Spelled(leaf, params) ==
  /\ leaf.name \in Keywords => leaf.sym = "identifier"
  /\ leaf.name \in ToSet(params) => leaf.sym \in {"identifier", "preproc_directive"}
TreeShowsMacros(f) ==
  LET t == f.tree
  IN /\ \A m, n \in DOMAIN t :
          m < n /\ {m, n} \cap Definitions(t) # {} => t[m].lo < t[n].lo
     /\ \A k, l \in DOMAIN f.lines : k < l => f.lines[k].at < f.lines[l].at
     /\ ToSet(f.lines) = {LineOf(t[n]) : n \in Definitions(t)}
     /\ \A n \in Definitions(t) :
          t[n].body # {} /\ \A body \in t[n].body : \A k \in DOMAIN body : Spelled(body[k], t[n].params)
     /\ {UseOf(t[n]) : n \in Standing(t)} \subseteq ToSet(f.uses)
     /\ ToSet(f.uses) \subseteq {UseOf(t[n]) : n \in DOMAIN t \ Definitions(t)}
     /\ \A u, v \in ToSet(f.uses) : u.lo < u.hi /\ (u = v \/ u.hi <= v.lo \/ v.hi <= u.lo)
     /\ \A m, n \in Standing(t) : m < n => t[m].hi <= t[n].lo
     /\ \A n \in Standing(t) :
          /\ Len(t[n].args) = Len(t[LastBefore(t, n)].params)
          /\ t[n].sym = "type_identifier" => t[n].args = <<>>

(* A file of supported items is finished, with the text the preprocessor    *)
(* would make of its comptime macros: each use with the last definition    *)
(* before it, its arguments in the places of the parameters.               *)
ExpandsAsPreprocessor ==
  file.supported =>
    /\ pc \notin MacroStopped
    /\ pc = "done" => [k \in 1..Len(out) |-> out[k].token] = Preprocessed
=============================================================================
