------------------------------ MODULE Sources ------------------------------
(***************************************************************************)
(* Source files for the model checker: short top-level items of C with the *)
(* trees that tree-sitter-c builds for them, and files put together from   *)
(* them.  The trees were dumped from the vendored parser, for the item as  *)
(* written and for the item after cct_correct_comptimetype_nodes, so an    *)
(* item keeps the shape the real passes meet (ERROR nodes included).       *)
(* Nodes no pass looks at are dropped below the ones whose children count. *)
(***************************************************************************)
EXTENDS TreePasses, FiniteSets, SequencesExt

LOCAL N(sym, last, lo, hi) ==
  [sym |-> sym, name |-> "", last |-> last, lo |-> lo, hi |-> hi, ph |-> -1]
LOCAL I(sym, name, last, lo, hi) == [N(sym, last, lo, hi) EXCEPT !.name = name]
LOCAL P(sym, last, lo, hi, k) == [N(sym, last, lo, hi) EXCEPT !.ph = k]
LOCAL V(buf, lo, hi, enabled) ==
  [buf |-> buf, lo |-> lo, hi |-> hi, enabled |-> enabled]

LOCAL Rewritten(len, postLen, inv, pre, post) ==
  [len |-> len, postLen |-> postLen, inv |-> inv, pre |-> pre, post |-> post]
LOCAL Unchanged(len, inv, tree) == Rewritten(len, len, inv, tree, tree)

(* #include "m.h" *)
Include ==
  Unchanged(14, <<>>,
     <<>>)

(* int m(){return 0;} *)
Plain ==
  Unchanged(18, <<>>,
     <<N("function_definition", 6, 0, 18), N("other", 2, 0, 3),
       N("function_declarator", 5, 4, 7), I("identifier", "m", 4, 4, 5),
       N("other", 5, 5, 7), N("other", 6, 7, 18)>>)

(* int f(); *)
Proto ==
  Unchanged(8, <<>>,
     <<N("declaration", 5, 0, 8), N("other", 2, 0, 3),
       N("function_declarator", 5, 4, 7), I("identifier", "f", 4, 4, 5),
       N("other", 5, 5, 7)>>)

(* int f(){return _Comptime(1);} *)
FnCall ==
  Unchanged(29, <<V("processed_source", 15, 27, TRUE)>>,
     <<N("function_definition", 10, 0, 29), N("other", 2, 0, 3),
       N("function_declarator", 5, 4, 7), I("identifier", "f", 4, 4, 5),
       N("other", 5, 5, 7), N("other", 10, 7, 29), N("other", 10, 8, 28),
       N("call_expression", 10, 15, 27), I("identifier", "_Comptime", 9, 15, 24),
       N("argument_list", 10, 24, 27)>>)

(* int w(){return _Comptime(1)+_Comptime(2);} *)
FnTwo ==
  Unchanged(42, <<V("processed_source", 15, 27, TRUE), V("processed_source", 28, 40, TRUE)>>,
     <<N("function_definition", 14, 0, 42), N("other", 2, 0, 3),
       N("function_declarator", 5, 4, 7), I("identifier", "w", 4, 4, 5),
       N("other", 5, 5, 7), N("other", 14, 7, 42), N("other", 14, 8, 41),
       N("other", 14, 15, 40), N("call_expression", 11, 15, 27),
       I("identifier", "_Comptime", 10, 15, 24), N("argument_list", 11, 24, 27),
       N("call_expression", 14, 28, 40), I("identifier", "_Comptime", 13, 28, 37),
       N("argument_list", 14, 37, 40)>>)

(* int a(){return m(_Comptime(1));} *)
FnArg ==
  Unchanged(32, <<V("processed_source", 17, 29, TRUE)>>,
     <<N("function_definition", 13, 0, 32), N("other", 2, 0, 3),
       N("function_declarator", 5, 4, 7), I("identifier", "a", 4, 4, 5),
       N("other", 5, 5, 7), N("other", 13, 7, 32), N("other", 13, 8, 31),
       N("call_expression", 13, 15, 30), I("identifier", "m", 9, 15, 16),
       N("argument_list", 13, 16, 30), N("call_expression", 13, 17, 29),
       I("identifier", "_Comptime", 12, 17, 26), N("argument_list", 13, 26, 29)>>)

(* int g(){return f();} *)
UsesF ==
  Unchanged(20, <<>>,
     <<N("function_definition", 10, 0, 20), N("other", 2, 0, 3),
       N("function_declarator", 5, 4, 7), I("identifier", "g", 4, 4, 5),
       N("other", 5, 5, 7), N("other", 10, 7, 20), N("other", 10, 8, 19),
       N("call_expression", 10, 15, 18), I("identifier", "f", 9, 15, 16),
       N("argument_list", 10, 16, 18)>>)

(* int h(){return g();} *)
UsesG ==
  Unchanged(20, <<>>,
     <<N("function_definition", 10, 0, 20), N("other", 2, 0, 3),
       N("function_declarator", 5, 4, 7), I("identifier", "h", 4, 4, 5),
       N("other", 5, 5, 7), N("other", 10, 7, 20), N("other", 10, 8, 19),
       N("call_expression", 10, 15, 18), I("identifier", "g", 9, 15, 16),
       N("argument_list", 10, 16, 18)>>)

(* int v=_Comptime(1); *)
VarCall ==
  Unchanged(19, <<V("processed_source", 6, 18, TRUE)>>,
     <<N("declaration", 7, 0, 19), N("other", 2, 0, 3),
       N("init_declarator", 7, 4, 18), I("identifier", "v", 4, 4, 5),
       N("call_expression", 7, 6, 18), I("identifier", "_Comptime", 6, 6, 15),
       N("argument_list", 7, 15, 18)>>)

(* _Comptime(1); *)
TopCall ==
  Unchanged(13, <<V("processed_source", 0, 12, TRUE)>>,
     <<N("other", 4, 0, 13), N("call_expression", 4, 0, 12),
       I("identifier", "_Comptime", 3, 0, 9), N("argument_list", 4, 9, 12)>>)

(* typedef _ComptimeType({1;}) T; *)
TypedefBlock ==
  Rewritten(30, 26, <<V("pp_source", 8, 27, TRUE)>>,
     <<N("ERROR", 2, 0, 22), I("identifier", "_ComptimeType", 2, 8, 21),
       N("ERROR", 3, 26, 27), I("type_identifier", "T", 4, 28, 29)>>,
     <<N("type_definition", 3, 0, 26), P("type_identifier", 2, 8, 23, 0),
       I("type_identifier", "T", 3, 24, 25)>>)

(* T u=1; *)
VarOfT ==
  Unchanged(6, <<>>,
     <<N("declaration", 5, 0, 6), I("type_identifier", "T", 2, 0, 1),
       N("init_declarator", 5, 2, 5), I("identifier", "u", 4, 2, 3),
       N("other", 5, 4, 5)>>)

(* struct R{T a;}; *)
StructOfT ==
  Unchanged(15, <<>>,
     <<N("other", 5, 0, 14), I("type_identifier", "R", 2, 7, 8),
       N("other", 5, 8, 14), N("other", 5, 9, 13),
       I("type_identifier", "T", 5, 9, 10)>>)

(* _ComptimeType(k(c)) t(){return 1;} *)
FnType ==
  Rewritten(34, 30, <<V("pp_source", 0, 19, TRUE)>>,
     <<N("function_definition", 13, 0, 34), N("macro_type_specifier", 9, 0, 19),
       I("identifier", "_ComptimeType", 3, 0, 13), N("type_descriptor", 9, 14, 18),
       I("type_identifier", "k", 5, 14, 15), N("other", 9, 15, 18),
       N("other", 9, 15, 18), N("other", 9, 16, 17),
       I("type_identifier", "c", 9, 16, 17), N("function_declarator", 12, 20, 23),
       I("identifier", "t", 11, 20, 21), N("other", 12, 21, 23),
       N("other", 13, 23, 34)>>,
     <<N("function_definition", 6, 0, 30), P("type_identifier", 2, 0, 15, 0),
       N("function_declarator", 5, 16, 19), I("identifier", "t", 4, 16, 17),
       N("other", 5, 17, 19), N("other", 6, 19, 30)>>)

(* int l(){return (_ComptimeType({1;})){1};} *)
FnLiteral ==
  Rewritten(41, 37, <<V("pp_source", 16, 35, TRUE)>>,
     <<N("function_definition", 11, 0, 41), N("other", 2, 0, 3),
       N("function_declarator", 5, 4, 7), I("identifier", "l", 4, 4, 5),
       N("other", 5, 5, 7), N("other", 11, 7, 41), N("other", 11, 8, 40),
       N("other", 11, 15, 39), N("type_descriptor", 11, 16, 35),
       I("type_identifier", "_ComptimeType", 10, 16, 29), N("other", 11, 29, 35)>>,
     <<N("function_definition", 10, 0, 37), N("other", 2, 0, 3),
       N("function_declarator", 5, 4, 7), I("identifier", "l", 4, 4, 5),
       N("other", 5, 5, 7), N("other", 10, 7, 37), N("other", 10, 8, 36),
       N("other", 10, 15, 35), N("type_descriptor", 10, 16, 31),
       P("type_identifier", 10, 16, 31, 0)>>)

(* _ComptimeType(k(c)) x=1; *)
VarType ==
  Rewritten(24, 20, <<V("pp_source", 0, 19, TRUE)>>,
     <<N("declaration", 12, 0, 24), N("macro_type_specifier", 9, 0, 19),
       I("identifier", "_ComptimeType", 3, 0, 13), N("type_descriptor", 9, 14, 18),
       I("type_identifier", "k", 5, 14, 15), N("other", 9, 15, 18),
       N("other", 9, 15, 18), N("other", 9, 16, 17),
       I("type_identifier", "c", 9, 16, 17), N("init_declarator", 12, 20, 23),
       I("identifier", "x", 11, 20, 21), N("other", 12, 22, 23)>>,
     <<N("declaration", 5, 0, 20), P("type_identifier", 2, 0, 15, 0),
       N("init_declarator", 5, 16, 19), I("identifier", "x", 4, 16, 17),
       N("other", 5, 18, 19)>>)

(* typedef _ComptimeType(c.k("i")) T; *)
TypedefCall ==
  Rewritten(34, 27, <<V("pp_source", 8, 31, TRUE)>>,
     <<N("type_definition", 10, 0, 34), N("macro_type_specifier", 8, 8, 30),
       I("identifier", "_ComptimeType", 3, 8, 21), N("type_descriptor", 5, 22, 23),
       I("type_identifier", "c", 5, 22, 23), N("ERROR", 8, 23, 29),
       I("identifier", "k", 7, 24, 25), I("identifier", "i", 8, 27, 28),
       N("ERROR", 9, 30, 31), I("type_identifier", "T", 10, 32, 33)>>,
     <<N("type_definition", 4, 0, 27), P("type_identifier", 2, 8, 23, 0),
       N("ERROR", 3, 23, 24), I("type_identifier", "T", 4, 25, 26)>>)

(* int s(){return sizeof(_ComptimeType(k.c()));} *)
SizeofCall ==
  Rewritten(45, 40, <<V("pp_source", 22, 42, TRUE)>>,
     <<N("function_definition", 16, 0, 45), N("other", 2, 0, 3),
       N("function_declarator", 5, 4, 7), I("identifier", "s", 4, 4, 5),
       N("other", 5, 5, 7), N("other", 16, 7, 45), N("other", 16, 8, 44),
       N("other", 16, 15, 43), N("other", 16, 21, 43),
       N("call_expression", 16, 22, 42),
       I("identifier", "_ComptimeType", 11, 22, 35),
       N("argument_list", 16, 35, 42), N("call_expression", 16, 36, 41),
       N("other", 15, 36, 39), I("identifier", "k", 15, 36, 37),
       N("argument_list", 16, 39, 41)>>,
     <<N("function_definition", 10, 0, 40), N("other", 2, 0, 3),
       N("function_declarator", 5, 4, 7), I("identifier", "s", 4, 4, 5),
       N("other", 5, 5, 7), N("other", 10, 7, 40), N("other", 10, 8, 39),
       N("other", 10, 15, 38), N("other", 10, 21, 38),
       P("identifier", 10, 22, 37, 0)>>)

(* struct S{_ComptimeType(k(c)) a;}; *)
FieldType ==
  Rewritten(33, 29, <<V("pp_source", 9, 28, TRUE)>>,
     <<N("other", 12, 0, 32), I("type_identifier", "S", 2, 7, 8),
       N("other", 12, 8, 32), N("other", 12, 9, 31),
       N("macro_type_specifier", 12, 9, 28),
       I("identifier", "_ComptimeType", 6, 9, 22),
       N("type_descriptor", 12, 23, 27), I("type_identifier", "k", 8, 23, 24),
       N("other", 12, 24, 27), N("other", 12, 24, 27), N("other", 12, 25, 26),
       I("type_identifier", "c", 12, 25, 26)>>,
     <<N("other", 5, 0, 28), I("type_identifier", "S", 2, 7, 8),
       N("other", 5, 8, 28), N("other", 5, 9, 27), P("type_identifier", 5, 9, 24, 0)>>)

(* void p(_ComptimeType({1;}) x){} *)
ParamType ==
  Unchanged(31, <<V("pp_source", 7, 26, TRUE)>>,
     <<N("function_definition", 10, 0, 31), N("other", 2, 0, 4),
       N("function_declarator", 9, 5, 29), I("identifier", "p", 4, 5, 6),
       N("other", 9, 6, 29), N("other", 7, 7, 26),
       I("type_identifier", "_ComptimeType", 7, 7, 20), N("ERROR", 9, 27, 28),
       I("identifier", "x", 9, 27, 28), N("other", 10, 29, 31)>>)

(* _ComptimeType(k(c)) x; *)
VarTypeBare ==
  Rewritten(22, 18, <<V("pp_source", 0, 19, TRUE)>>,
     <<N("declaration", 10, 0, 22), N("macro_type_specifier", 9, 0, 19),
       I("identifier", "_ComptimeType", 3, 0, 13), N("type_descriptor", 9, 14, 18),
       I("type_identifier", "k", 5, 14, 15), N("other", 9, 15, 18),
       N("other", 9, 15, 18), N("other", 9, 16, 17),
       I("type_identifier", "c", 9, 16, 17), I("identifier", "x", 10, 20, 21)>>,
     <<N("declaration", 3, 0, 18), P("type_identifier", 2, 0, 15, 0),
       I("identifier", "x", 3, 16, 17)>>)

(* static int q=_Comptime(1); *)
StaticCall ==
  Unchanged(26, <<V("processed_source", 13, 25, TRUE)>>,
     <<N("declaration", 8, 0, 26), N("other", 2, 0, 6), N("other", 3, 7, 10),
       N("init_declarator", 8, 11, 25), I("identifier", "q", 5, 11, 12),
       N("call_expression", 8, 13, 25), I("identifier", "_Comptime", 7, 13, 22),
       N("argument_list", 8, 22, 25)>>)

(* int n(){return _Comptime(1+_Comptime(2));} *)
NestedCall ==
  Unchanged(42, <<V("processed_source", 15, 40, TRUE), V("processed_source", 27, 39, TRUE)>>,
     <<N("function_definition", 14, 0, 42), N("other", 2, 0, 3),
       N("function_declarator", 5, 4, 7), I("identifier", "n", 4, 4, 5),
       N("other", 5, 5, 7), N("other", 14, 7, 42), N("other", 14, 8, 41),
       N("call_expression", 14, 15, 40), I("identifier", "_Comptime", 9, 15, 24),
       N("argument_list", 14, 24, 40), N("other", 14, 25, 39),
       N("call_expression", 14, 27, 39), I("identifier", "_Comptime", 13, 27, 36),
       N("argument_list", 14, 36, 39)>>)

(* int n(){return sizeof(_ComptimeType(_ComptimeType(1)));} *)
NestedType ==
  Rewritten(56, 0, <<V("pp_source", 22, 53, TRUE), V("pp_source", 36, 52, TRUE)>>,
     <<N("function_definition", 15, 0, 56), N("other", 2, 0, 3),
       N("function_declarator", 5, 4, 7), I("identifier", "n", 4, 4, 5),
       N("other", 5, 5, 7), N("other", 15, 7, 56), N("other", 15, 8, 55),
       N("other", 15, 15, 54), N("other", 15, 21, 54),
       N("call_expression", 15, 22, 53),
       I("identifier", "_ComptimeType", 11, 22, 35),
       N("argument_list", 15, 35, 53), N("call_expression", 15, 36, 52),
       I("identifier", "_ComptimeType", 14, 36, 49), N("argument_list", 15, 49, 52)>>,
     <<>>)

(* int e(){return _Comptime();} *)
EmptyCall ==
  Unchanged(28, <<V("processed_source", 15, 26, TRUE)>>,
     <<N("function_definition", 10, 0, 28), N("other", 2, 0, 3),
       N("function_declarator", 5, 4, 7), I("identifier", "e", 4, 4, 5),
       N("other", 5, 5, 7), N("other", 10, 7, 28), N("other", 10, 8, 27),
       N("call_expression", 10, 15, 26), I("identifier", "_Comptime", 9, 15, 24),
       N("argument_list", 10, 24, 26)>>)

(* int b(){return _Comptime;} *)
BareWord ==
  Unchanged(26, <<>>,
     <<N("function_definition", 8, 0, 26), N("other", 2, 0, 3),
       N("function_declarator", 5, 4, 7), I("identifier", "b", 4, 4, 5),
       N("other", 5, 5, 7), N("other", 8, 7, 26), N("other", 8, 8, 25),
       I("identifier", "_Comptime", 8, 15, 24)>>)

(* int b(){return m(_Comptime);} *)
BareArg ==
  Unchanged(29, <<>>,
     <<N("function_definition", 11, 0, 29), N("other", 2, 0, 3),
       N("function_declarator", 5, 4, 7), I("identifier", "b", 4, 4, 5),
       N("other", 5, 5, 7), N("other", 11, 7, 29), N("other", 11, 8, 28),
       N("call_expression", 11, 15, 27), I("identifier", "m", 9, 15, 16),
       N("argument_list", 11, 16, 27), I("identifier", "_Comptime", 11, 17, 26)>>)

(* #if 0 int d=_Comptime(1); #endif *)
Disabled ==
  Unchanged(33, <<V("processed_source", 12, 24, FALSE)>>,
     <<N("other", 8, 0, 32), N("declaration", 8, 6, 25), N("other", 3, 6, 9),
       N("init_declarator", 8, 10, 24), I("identifier", "d", 5, 10, 11),
       N("call_expression", 8, 12, 24), I("identifier", "_Comptime", 7, 12, 21),
       N("argument_list", 8, 21, 24)>>)
ItemNames ==
  {"Include", "Plain", "Proto", "FnCall", "FnTwo", "FnArg", "UsesF",
   "UsesG", "VarCall", "TopCall", "TypedefBlock", "VarOfT", "StructOfT",
   "FnType", "FnLiteral", "VarType", "TypedefCall", "SizeofCall",
   "FieldType", "ParamType", "VarTypeBare", "StaticCall", "NestedCall",
   "NestedType", "EmptyCall", "BareWord", "BareArg", "Disabled"}

Item(name) ==
  CASE name = "Include" -> Include
    [] name = "Plain" -> Plain
    [] name = "Proto" -> Proto
    [] name = "FnCall" -> FnCall
    [] name = "FnTwo" -> FnTwo
    [] name = "FnArg" -> FnArg
    [] name = "UsesF" -> UsesF
    [] name = "UsesG" -> UsesG
    [] name = "VarCall" -> VarCall
    [] name = "TopCall" -> TopCall
    [] name = "TypedefBlock" -> TypedefBlock
    [] name = "VarOfT" -> VarOfT
    [] name = "StructOfT" -> StructOfT
    [] name = "FnType" -> FnType
    [] name = "FnLiteral" -> FnLiteral
    [] name = "VarType" -> VarType
    [] name = "TypedefCall" -> TypedefCall
    [] name = "SizeofCall" -> SizeofCall
    [] name = "FieldType" -> FieldType
    [] name = "ParamType" -> ParamType
    [] name = "VarTypeBare" -> VarTypeBare
    [] name = "StaticCall" -> StaticCall
    [] name = "NestedCall" -> NestedCall
    [] name = "NestedType" -> NestedType
    [] name = "EmptyCall" -> EmptyCall
    [] name = "BareWord" -> BareWord
    [] name = "BareArg" -> BareArg
    [] name = "Disabled" -> Disabled

-----------------------------------------------------------------------------
(* Files: the items of a sequence of names, one after the other.           *)

LOCAL Placeholders(tree) == Cardinality({n \in DOMAIN tree : tree[n].ph >= 0})

LOCAL ShiftTree(tree, nodes, bytes, phs) ==
  [n \in DOMAIN tree |->
     [tree[n] EXCEPT !.last = @ + nodes, !.lo = @ + bytes, !.hi = @ + bytes,
                     !.ph = IF @ >= 0 THEN @ + phs ELSE @]]

LOCAL ShiftInvocation(v, len, postLen) ==
  LET off == IF v.buf = "pp_source" THEN len ELSE postLen
  IN [v EXCEPT !.lo = @ + off, !.hi = @ + off]

LOCAL Join(f, i, gap) ==
  LET len == f.len + gap
      postLen == f.postLen + gap
  IN [len |-> len + i.len,
      postLen |-> postLen + i.postLen,
      pre |-> f.pre \o ShiftTree(i.pre, Len(f.pre), len, 0),
      post |-> f.post \o ShiftTree(i.post, Len(f.post), postLen, Placeholders(f.post)),
      inv |-> f.inv \o [k \in DOMAIN i.inv |-> ShiftInvocation(i.inv[k], len, postLen)]]

(* A file is the names of its items and the number of blank bytes between  *)
(* two of them.                                                            *)
Program(file_) ==
  LET items == [k \in DOMAIN file_.names |-> Item(file_.names[k])]
  IN FoldLeft(LAMBDA f, i : Join(f, i, file_.gap), Head(items), Tail(items))

(* The files of two or three items, one to a line.  "Include" has no node   *)
(* and makes a shorter file of a longer one.                               *)
Pairs(S) == [names : S \X S, gap : {1}]
Triples(S) == [names : S \X S \X S, gap : {1}]
=============================================================================
