-------------------------- MODULE MCMacroExpansion --------------------------
(* Files of up to three items, of which the first defines a macro.  The    *)
(* trees are those the vendored parser builds of them.                     *)
EXTENDS MacroExpansion

MCTokens == {"#", "F", "G", "H", "S", "K", "T", "V", "Z", "E", "x", "y", "1", "2", "v", ";",
             "quote", "_Comptime", "_ComptimeType", "__VA_ARGS__"}
MCNames == MCTokens

Id(name) == [sym |-> "identifier", name |-> name]
Type(name) == [sym |-> "type_identifier", name |-> name]
Quoted(name) == [sym |-> "preproc_directive", name |-> name]

(* Items have positions of their own; an item is placed by adding what      *)
(* stands before it.                                                       *)
NoItem == [text |-> <<>>, tree |-> <<>>, lines |-> <<>>, uses |-> <<>>, supported |-> TRUE]
NodeOf(sym, name, last, lo, hi, params, body, args) ==
  [sym |-> sym, name |-> name, last |-> last, lo |-> lo, hi |-> hi,
   params |-> params, body |-> body, args |-> args]
Span(lo, hi) == [lo |-> lo, hi |-> hi]

Definition(sym, name, params, body, supported) ==
  [text |-> <<"#">>, tree |-> <<NodeOf(sym, name, 1, 0, 1, params, body, <<>>)>>,
   lines |-> <<[at |-> 0, name |-> name, params |-> params, body |-> body]>>,
   uses |-> <<>>, supported |-> supported]
Fn(name, params, body) == Definition("preproc_function_def", name, params, {body}, TRUE)
Object(name, body) == Definition("preproc_def", name, <<>>, {body}, TRUE)
Unsupported(item) == [item EXCEPT !.supported = FALSE]

(* name(args): every argument is one token.                                *)
CallOf(name, args) ==
  LET ranges == [k \in 1..Len(args) |-> Span(k, k + 1)]
      hi == Len(args) + 1
  IN [text |-> <<name>> \o args,
      tree |-> <<NodeOf("call_expression", name, 1, 0, hi, <<>>, {}, ranges)>>,
      lines |-> <<>>,
      uses |-> <<[name |-> name, lo |-> 0, hi |-> hi, args |-> ranges]>>, supported |-> TRUE]
(* outer(inner(1)): the outer use holds the inner one.                     *)
Nested(outer, inner, seen) ==
  [text |-> <<outer, inner, "1", ";">>,
   tree |-> <<NodeOf("call_expression", outer, 2, 0, 3, <<>>, {}, <<Span(1, 3)>>),
              NodeOf("call_expression", inner, 2, 1, 3, <<>>, {}, <<Span(2, 3)>>)>>,
   lines |-> <<>>,
   uses |-> <<seen>>, supported |-> TRUE]
TypeUse(name) ==
  [text |-> <<name, "v", ";">>,
   tree |-> <<NodeOf("type_identifier", name, 1, 0, 1, <<>>, {}, <<>>)>>,
   lines |-> <<>>,
   uses |-> <<[name |-> name, lo |-> 0, hi |-> 1, args |-> <<>>]>>, supported |-> TRUE]

Items ==
  {Fn("F", <<"x">>, <<Id("_Comptime"), Id("x")>>),
   Fn("F", <<"x", "y">>, <<Id("_Comptime"), Id("y"), Id("2"), Id("x"), Id("x")>>),
   Fn("F", <<"x">>, <<Id("x"), Id("x")>>),
   Fn("F", <<"x">>, <<Id("_Comptime"), Id("x"), Quoted("x"), Quoted("y")>>),
   Fn("G", <<"x">>, <<Id("x")>>),
   Fn("F", <<>>, <<Id("_Comptime"), Id("1")>>),
   Object("T", <<Id("_ComptimeType"), Id("1")>>),
   Object("T", <<Id("v")>>),
   (* no body: nothing is recorded *)
   Unsupported(Definition("preproc_def", "T", <<>>, {}, TRUE)),
   (* the parser takes the parameter for a type: it is not replaced *)
   Unsupported(Fn("F", <<"x">>, <<Id("_Comptime"), Type("x")>>)),
   (* no body: a crash *)
   Unsupported(Definition("preproc_function_def", "F", <<"x">>, {}, TRUE)),
   (* stands for comptime code only through another macro: not recorded *)
   Unsupported(Fn("G", <<"x">>, <<Id("F"), Id("x")>>)),
   (* #undef, and a definition in a group that is skipped *)
   [NoItem EXCEPT !.text = <<"#">>, !.supported = FALSE,
                  !.lines = <<[at |-> 0, name |-> "F", params |-> <<>>, body |-> {}]>>],
   [Fn("F", <<"x">>, <<Id("_Comptime"), Id("x")>>) EXCEPT !.lines = <<>>, !.supported = FALSE],
   CallOf("F", <<"1">>), CallOf("G", <<"1">>),
   CallOf("F", <<"1", "2">>), CallOf("F", <<>>),
   TypeUse("T"), Unsupported(TypeUse("F")),
   Nested("G", "F", [name |-> "F", lo |-> 1, hi |-> 3, args |-> <<Span(2, 3)>>]),
   Nested("F", "G", [name |-> "F", lo |-> 0, hi |-> 3, args |-> <<Span(1, 3)>>]),
   Unsupported(Nested("F", "F", [name |-> "F", lo |-> 0, hi |-> 3, args |-> <<Span(1, 3)>>])),
   [NoItem EXCEPT !.text = <<"1", ";">>]}

Moved(range, by) == [range EXCEPT !.lo = @ + by, !.hi = @ + by]
MovedArgs(x, by) ==
  [Moved(x, by) EXCEPT !.args = [k \in 1..Len(x.args) |-> Moved(x.args[k], by)]]
Join(a, b) ==
  LET t == Len(a.text)
      n == Len(a.tree)
  IN [text |-> a.text \o b.text,
      tree |-> a.tree \o [k \in 1..Len(b.tree) |->
                            [MovedArgs(b.tree[k], t) EXCEPT !.last = @ + n]],
      lines |-> a.lines \o [k \in 1..Len(b.lines) |-> [b.lines[k] EXCEPT !.at = @ + t]],
      uses |-> a.uses \o [k \in 1..Len(b.uses) |-> MovedArgs(b.uses[k], t)],
      supported |-> a.supported /\ b.supported]

(* Calls whose number of arguments is not that of the parameters, and types *)
(* with the name of a macro with parameters, are not supported either.     *)
Effective(f, u) ==
  LET before == {l \in DOMAIN f.lines : f.lines[l].at < u.lo /\ f.lines[l].name = u.name}
  IN IF before = {} THEN {} ELSE {f.lines[Largest(before)]}
Fits(f) ==
  \A u \in ToSet(f.uses) : \A l \in Effective(f, u) : Len(l.params) = Len(u.args)
Finished(f) == [f EXCEPT !.supported = @ /\ Fits(f)]

Defining == {i \in Items : i.lines # <<>>}
MCFiles == {Finished(Join(Join(a, b), c)) : a \in Defining, b, c \in Items}

(* What the theorem assumes of the supported files.                        *)
ASSUME ShownAssumption == \A f \in Files : f.supported => TreeShowsMacros(f)
=============================================================================
