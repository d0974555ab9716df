------------------------------ MODULE Scanners ------------------------------
(***************************************************************************)
(* The two places where tree_passes.c reads the text of the source itself: *)
(* try_append_error_comptime_type looks for the end of a _ComptimeType(..) *)
(* that the parser did not understand, and parse_comptime_call_expr2 trims *)
(* the argument list of a call to the statement the runner will execute.   *)
(* The trees of TreePasses give both results; here they are computed.      *)
(*                                                                         *)
(* A text is a sequence of characters, of which only those matter that the *)
(* loops test; " " stands for a tab too, "a" for all the others.           *)
(***************************************************************************)
EXTENDS Integers, Sequences, FiniteSets

CONSTANTS
  SpanTexts,  \* what follows the identifier _ComptimeType
  TrimTexts   \* argument lists, from "(" to ")"

ASSUME TextsAssumption ==
  /\ SpanTexts \cup TrimTexts \subseteq Seq(STRING)
  /\ \A t \in SpanTexts \cup TrimTexts : \A k \in 1..Len(t) : t[k] # "end"  \* no character
  /\ \A t \in TrimTexts : Len(t) >= 2 /\ t[1] = "(" /\ t[Len(t)] = ")"

VARIABLES
  text, pc,
  p,      \* the character at hand
  depth,  \* parentheses open
  quote,  \* the character that ends the literal at hand
  start   \* where the statement begins

scanVars == <<text, pc, p, depth, quote, start>>

size == Len(text)
ScanInit ==
  /\ \/ text \in SpanTexts /\ pc = "skip"
     \/ text \in TrimTexts /\ pc = "trim"
  /\ p = 1
  /\ depth = 0 /\ quote = "" /\ start = 0

-----------------------------------------------------------------------------
(* try_append_error_comptime_type: one character, or one two-character      *)
(* mark, per step.                                                         *)

Here == IF p <= size THEN text[p] ELSE "end"
On(c) == Here = c
Then(c) == p + 1 <= size /\ text[p + 1] = c
To(label, q) == pc' = label /\ p' = q /\ UNCHANGED <<text, start>>
Keep == UNCHANGED <<depth, quote>>

Blank == {" ", "\n"}
SkipBlank == pc = "skip" /\ Here \in Blank /\ To("skip", p + 1) /\ Keep
NoList == pc = "skip" /\ Here \notin Blank \cup {"("} /\ To("none", p) /\ Keep
List == pc = "skip" /\ On("(") /\ To("span", p) /\ Keep

Quotes == {"'", "\""}
OpenQuote == /\ pc = "span" /\ Here \in Quotes
             /\ quote' = text[p] /\ To("quoted", p + 1) /\ UNCHANGED depth
(* Faulty variant: a backslash is trusted to have a character behind it.   *)
QuotedPastEnd ==
  /\ pc = "quoted" /\ Keep
  /\ \/ p > size /\ To("span", p)
     \/ On("\\") /\ To("quoted", p + 2)
     \/ On(quote) /\ To("span", p + 1)
     \/ Here \notin {"\\", quote, "end"} /\ To("quoted", p + 1)
Quoted ==
  /\ pc = "quoted" /\ Keep
  /\ \/ p > size /\ To("span", p)
     \/ On("\\") /\ p + 1 <= size /\ To("quoted", p + 2)
     \/ On(quote) /\ To("span", p + 1)
     \/ p <= size /\ ~(On("\\") /\ p + 1 <= size) /\ ~On(quote) /\ To("quoted", p + 1)

LineComment ==
  \/ pc = "span" /\ On("/") /\ Then("/") /\ To("line", p + 2) /\ Keep
  \/ pc = "line" /\ p <= size /\ ~On("\n") /\ To("line", p + 1) /\ Keep
  \/ pc = "line" /\ Here \in {"end", "\n"} /\ To("span", p) /\ Keep
(* A comment that is not closed leaves the last character to be read again. *)
BlockComment ==
  \/ pc = "span" /\ On("/") /\ Then("*") /\ To("block", p + 2) /\ Keep
  \/ pc = "block" /\ p + 1 <= size /\ ~(On("*") /\ Then("/")) /\ To("block", p + 1) /\ Keep
  \/ pc = "block" /\ On("*") /\ Then("/") /\ To("span", p + 2) /\ Keep
  \/ pc = "block" /\ p + 1 > size /\ To("span", p) /\ Keep

Open == pc = "span" /\ On("(") /\ depth' = depth + 1 /\ To("span", p + 1) /\ UNCHANGED quote
(* Faulty variant: the first closing parenthesis ends the span.            *)
FirstOne == TRUE
Outermost == depth = 1
Close == /\ pc = "span" /\ On(")")
         /\ depth' = depth - 1
         /\ To(IF Outermost THEN "found" ELSE "span", p + 1)
         /\ UNCHANGED quote
Code == /\ pc = "span" /\ Here \notin Quotes \cup {"(", ")", "end"}
        /\ ~(On("/") /\ (Then("/") \/ Then("*")))
        /\ To("span", p + 1) /\ Keep
NoEnd == pc = "span" /\ p > size /\ To("none", p) /\ Keep

-----------------------------------------------------------------------------
(* parse_comptime_call_expr2                                               *)

Leading == {" ", "{"}
(* Faulty variant: a semicolon ends the trimming.                          *)
TrailingBraces == {" ", "}"}
Trailing == {" ", "}", ";"}

(* "Empty _Comptime are not allowed"                                       *)
TrimAborts == pc = "trim" /\ size <= 2 /\ To("abort", p) /\ Keep
Trim == pc = "trim" /\ size > 2 /\ To("leading", 2) /\ Keep
TrimLeading == pc = "leading" /\ text[p] \in Leading /\ To("leading", p + 1) /\ Keep
StartHere == /\ pc = "leading" /\ text[p] \notin Leading
             /\ start' = p /\ p' = size - 1 /\ pc' = "trailing"
             /\ UNCHANGED <<text, depth, quote>>
TrimTrailing == pc = "trailing" /\ text[p] \in Trailing /\ To("trailing", p - 1) /\ Keep
EndHere == pc = "trailing" /\ text[p] \notin Trailing /\ To("trimmed", p) /\ Keep

ScanNext ==
  \/ SkipBlank \/ NoList \/ List \/ OpenQuote \/ Quoted \/ LineComment \/ BlockComment
  \/ Open \/ Close \/ Code \/ NoEnd
  \/ TrimAborts \/ Trim \/ TrimLeading \/ StartHere \/ TrimTrailing \/ EndHere
ScanSpec == ScanInit /\ [][ScanNext]_scanVars

-----------------------------------------------------------------------------
(* The references.  Modes is how C reads a text, character by character:    *)
(* Modes[k] is what character k is part of.                                *)

After(m, c, next) ==
  CASE m = "code" /\ c \in Quotes -> c
    [] m = "code" /\ c = "/" /\ next = "/" -> "line"
    [] m = "code" /\ c = "/" /\ next = "*" -> "opening"
    [] m \in Quotes /\ c = "\\" -> IF m = "'" THEN "escape'" ELSE "escape\""
    [] m \in Quotes /\ c = m -> "code"
    [] m = "escape'" -> "'"
    [] m = "escape\"" -> "\""
    [] m = "line" /\ c = "\n" -> "code"
    [] m = "opening" -> "comment"
    [] m = "comment" /\ c = "*" /\ next = "/" -> "closing"
    [] m = "closing" -> "code"
    [] OTHER -> m
Modes ==
  LET mode[k \in 1..(size + 1)] ==
        IF k = 1 THEN "code"
        ELSE After(mode[k - 1], text[k - 1], IF k <= size THEN text[k] ELSE "")
  IN mode

(* The parenthesis that closes the first one.                              *)
Closers ==
  LET modes == Modes
      Seen(c, k) == {j \in 1..k : text[j] = c /\ modes[j] = "code"}
  IN {k \in Seen(")", size) : Cardinality(Seen("(", k)) = Cardinality(Seen(")", k))}

StartsList == \E k \in 1..size : text[k] = "(" /\ \A j \in 1..(k - 1) : text[j] \in Blank

Least(S) == CHOOSE x \in S : \A y \in S : x <= y
Greatest(S) == CHOOSE x \in S : \A y \in S : y <= x
Codes == {k \in 2..(size - 1) : text[k] \notin {" ", "{", "}", ";"}}
Balanced(lo, hi) ==
  LET N(c, k) == Cardinality({j \in lo..k : text[j] = c})
  IN N("{", hi) = N("}", hi) /\ \A k \in lo..hi : N("{", k) >= N("}", k)

(* The blocks that the README and tests/ write: balanced, between one pair  *)
(* of braces or none, with no further brace at either end.                 *)
Front(lo) == Least({k \in lo..size : text[k] # " "})
Back(hi) == Greatest({k \in 1..hi : text[k] \notin {" ", ";"}})
Simple(lo, hi) == Balanced(lo, hi) /\ text[Front(lo)] # "{" /\ text[Back(hi)] # "}"
IsBlock ==
  LET l == Front(2)
      h == Back(size - 1)
  IN \/ Simple(2, size - 1)
     \/ l < h /\ text[l] = "{" /\ text[h] = "}" /\ Simple(l + 1, h - 1)

-----------------------------------------------------------------------------
(* Properties.                                                             *)

(* The variables have their types; no loop reads outside its text, however  *)
(* literals, comments and the text itself end.                             *)
ScanTypeOK ==
  /\ pc \in {"skip", "span", "quoted", "line", "block", "found", "none",
             "trim", "leading", "trailing", "trimmed", "abort"}
  /\ p \in 1..(size + 1)
  /\ depth \in 0..size
  /\ pc \in {"leading", "trailing", "trimmed"} => p \in 1..size

(* A recovered _ComptimeType(..) ends at the parenthesis that closes it,    *)
(* whatever parentheses stand in its literals and comments, and is found   *)
(* whenever there is one; provided every comment is closed.                *)
SpanIsClosed ==
  Modes[size + 1] \notin {"opening", "comment"} =>
    /\ pc = "found" => Closers # {} /\ p - 1 = Least(Closers)
    /\ pc = "none" => ~StartsList \/ Closers = {}

(* A block of one of the usual forms becomes a statement with all its code, *)
(* in which every brace has its partner.                                   *)
StatementIsBlock ==
  pc = "trimmed" /\ Codes # {} /\ IsBlock =>
    start <= Least(Codes) /\ Greatest(Codes) <= p /\ Balanced(start, p)
=============================================================================
