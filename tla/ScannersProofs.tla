--------------------------- MODULE ScannersProofs ---------------------------
(* Theorems about the loops that read the text, for texts of any length.    *)
EXTENDS Scanners, FiniteSetTheorems, WellFoundedInduction, TLAPS

(* In the span a parenthesis is open, but for the first step, which opens   *)
(* one; the trimming has the list's own parentheses to stop at.             *)
Spanning == {"span", "quoted", "line", "block"}
Trimming == {"leading", "trailing", "trimmed"}
InText ==
  /\ text \in SpanTexts \cup TrimTexts
  /\ p \in 1..(size + 1)
  /\ depth \in Nat /\ depth < p
  /\ pc = "span" => depth >= 1 \/ On("(")
  /\ pc \in Spanning \ {"span"} => depth >= 1
  /\ pc = "quoted" => quote \in Quotes
  /\ pc = "skip" => depth = 0
  /\ pc \in {"trim"} \cup Trimming => text \in TrimTexts /\ depth = 0
  /\ pc = "trim" => p = 1
  /\ pc \in Trimming => p \in 1..size
  /\ pc \in {"skip", "found", "none", "trim", "abort"} \cup Spanning \cup Trimming

LEMMA SizeIsNatural == ASSUME InText PROVE size \in Nat
BY TextsAssumption DEF InText, size

LEMMA ListHasParentheses ==
  ASSUME InText, text \in TrimTexts
  PROVE  size >= 2 /\ text[1] = "(" /\ text[size] = ")"
BY TextsAssumption DEF size

LEMMA InTextInitially == ScanInit => InText
<1> SUFFICES ASSUME ScanInit PROVE InText
  OBVIOUS
<1>0. text \in SpanTexts \cup TrimTexts
  BY DEF ScanInit
<1>1. size \in Nat
  BY <1>0, TextsAssumption DEF size
<1>2. p = 1 /\ depth = 0 /\ (pc = "skip" \/ (pc = "trim" /\ text \in TrimTexts))
  BY DEF ScanInit
<1> QED  BY <1>0, <1>1, <1>2 DEF InText, Spanning, Trimming

(* What is behind the character at hand.                                    *)
LEMMA CharactersAreInText ==
  ASSUME InText
  PROVE  /\ Here # "end" => p <= size
         /\ \A c : Then(c) => p + 1 <= size
         /\ On("(") \/ On(")") \/ On("/") \/ On("*") \/ On("\n") \/ On("\\") => p <= size
         /\ Here \in Quotes \cup Blank => p <= size
BY DEF Here, On, Then, Quotes, Blank

LEMMA SpanKeepsInText ==
  ASSUME InText,
         SkipBlank \/ NoList \/ List \/ OpenQuote \/ Quoted \/ LineComment \/ BlockComment
           \/ Open \/ Close \/ Code \/ NoEnd
  PROVE  InText'
<1> USE SizeIsNatural, CharactersAreInText
<1>0. text' = text => size' = size
  BY DEF size
<1> DEFINE Move(labels, n) == /\ text' = text /\ pc' \in labels /\ n \in 0..2
                              /\ p' = p + n /\ p + n <= size + 1
<1>1. ASSUME NEW n, Move(Spanning \ {"span"}, n), depth' = depth, depth >= 1,
             pc' = "quoted" => quote' \in Quotes
      PROVE  InText'
  BY <1>0, <1>1 DEF InText, Spanning, Trimming
<1>2. ASSUME NEW n, Move({"span"}, n), depth' = depth, depth >= 1 PROVE InText'
  BY <1>0, <1>2 DEF InText, Spanning, Trimming
<1>3. ASSUME NEW n, Move({"none"}, n), depth' = depth PROVE InText'
  BY <1>0, <1>3 DEF InText, Spanning, Trimming
<1>4. pc = "span" /\ ~On("(") => depth >= 1
  BY DEF InText
<1>5. pc \in {"quoted", "line", "block"} => depth >= 1
  BY DEF InText, Spanning
<1>6. CASE SkipBlank
  <2>1. Move({"skip"}, 1) /\ depth' = depth /\ pc = "skip"
    BY <1>6 DEF SkipBlank, To, Keep, InText
  <2> QED  BY <1>0, <2>1 DEF InText, Spanning, Trimming
<1>7. CASE NoList \/ NoEnd
  <2>1. Move({"none"}, 0) /\ depth' = depth
    BY <1>7 DEF NoList, NoEnd, To, Keep, InText
  <2> QED  BY <1>3, <2>1
<1>8. CASE List
  <2>1. Move({"span"}, 0) /\ depth' = depth /\ On("(")
    BY <1>8 DEF List, To, Keep, InText
  <2>2. On("(")'
    <3>1. p' = p /\ size' = size /\ text' = text /\ On("(")
      BY <1>0, <1>8 DEF List, To
    <3> QED  BY <3>1 DEF On, Here
  <2> QED  BY <1>0, <2>1, <2>2 DEF InText, Spanning, Trimming
<1>9. CASE OpenQuote
  <2>1. p <= size /\ quote' \in Quotes /\ ~On("(")
    BY <1>9 DEF OpenQuote, Quotes, Here, On
  <2>2. Move({"quoted"}, 1) /\ depth' = depth /\ depth >= 1
    BY <1>4, <1>9, <2>1 DEF OpenQuote, To, InText
  <2> QED  BY <1>1, <2>1, <2>2 DEF Spanning
<1>10. CASE Quoted
  <2>1. depth >= 1 /\ quote \in Quotes /\ depth' = depth /\ quote' = quote
    BY <1>5, <1>10 DEF Quoted, Keep, InText
  <2>2. On(quote) => p <= size
    BY <2>1 DEF On, Here, Quotes
  <2>3. Move({"quoted"}, 1) \/ Move({"quoted"}, 2) \/ Move({"span"}, 0) \/ Move({"span"}, 1)
    BY <1>10, <2>2 DEF Quoted, To, InText
  <2> QED  BY <1>1, <1>2, <2>1, <2>3 DEF Spanning
<1>11. CASE LineComment
  <2>1. depth >= 1 /\ depth' = depth
    BY <1>4, <1>5, <1>11 DEF LineComment, On, Keep
  <2>2. Move({"line"}, 1) \/ Move({"line"}, 2) \/ Move({"span"}, 0)
    BY <1>11 DEF LineComment, To, InText
  <2> QED  BY <1>1, <1>2, <2>1, <2>2 DEF Spanning
<1>12. CASE BlockComment
  <2>1. depth >= 1 /\ depth' = depth
    BY <1>4, <1>5, <1>12 DEF BlockComment, On, Keep
  <2>2. Move({"block"}, 1) \/ Move({"block"}, 2) \/ Move({"span"}, 0) \/ Move({"span"}, 2)
    BY <1>12 DEF BlockComment, To, InText
  <2> QED  BY <1>1, <1>2, <2>1, <2>2 DEF Spanning
<1>13. CASE Open
  <2>1. Move({"span"}, 1) /\ depth' = depth + 1
    BY <1>13 DEF Open, To, InText
  <2> QED  BY <1>0, <2>1 DEF InText, Spanning, Trimming
<1>14. CASE Close
  <2>1. ~On("(") /\ p <= size /\ pc = "span"
    BY <1>14 DEF Close, On
  <2>2. depth >= 1 /\ depth' = depth - 1
    BY <1>4, <1>14, <2>1 DEF Close
  <2>3. p' = p + 1 /\ text' = text /\ (pc' = "found" \/ (pc' = "span" /\ depth # 1))
    BY <1>14 DEF Close, To, Outermost
  <2> QED  BY <1>0, <2>1, <2>2, <2>3 DEF InText, Spanning, Trimming
<1>15. CASE Code
  <2>1. p <= size /\ ~On("(")
    BY <1>15 DEF Code, On
  <2>2. Move({"span"}, 1) /\ depth' = depth /\ depth >= 1
    BY <1>4, <1>15, <2>1 DEF Code, To, Keep, InText
  <2> QED  BY <1>2, <2>2
<1> QED
  BY <1>6, <1>7, <1>8, <1>9, <1>10, <1>11, <1>12, <1>13, <1>14, <1>15

LEMMA TrimKeepsInText ==
  ASSUME InText, TrimAborts \/ Trim \/ TrimLeading \/ StartHere \/ TrimTrailing \/ EndHere
  PROVE  InText'
<1> USE SizeIsNatural
<1>1. text \in TrimTexts /\ depth = 0 /\ text' = text /\ size' = size
  BY DEF InText, Trimming, TrimAborts, Trim, TrimLeading, StartHere, TrimTrailing, EndHere, To,
         size
<1>2. size >= 2 /\ text[1] = "(" /\ text[size] = ")"
  BY <1>1, ListHasParentheses
<1>3. ASSUME depth' = depth, p' \in 1..size, pc' \in {"abort"} \cup Trimming
      PROVE  InText'
  <2>1. p' \in 1..(size' + 1) /\ depth' \in Nat /\ depth' < p' /\ p' \in 1..size'
    BY <1>1, <1>3
  <2>2. pc' \notin {"trim", "skip"} \cup Spanning
    BY <1>3 DEF Spanning, Trimming
  <2> QED  BY <1>1, <1>3, <2>1, <2>2 DEF InText, Spanning
<1>4. CASE TrimAborts \/ Trim
  <2>1. 1 \in 1..size /\ p = 1
    BY <1>2, <1>4 DEF InText, TrimAborts, Trim
  <2>2. size > 2 => 2 \in 1..size
    OBVIOUS
  <2> QED  BY <1>3, <1>4, <2>1, <2>2 DEF TrimAborts, Trim, To, Keep, Trimming
<1>5. CASE TrimLeading
  <2>1. p \in 1..size /\ text[p] # ")"
    BY <1>5 DEF TrimLeading, Leading, InText, Trimming
  <2>2. p + 1 \in 1..size
    BY <1>2, <2>1
  <2> QED  BY <1>3, <1>5, <2>2 DEF TrimLeading, To, Keep, Trimming
<1>6. CASE StartHere
  BY <1>2, <1>3, <1>6 DEF StartHere, Trimming
<1>7. CASE TrimTrailing
  <2>1. p \in 1..size /\ text[p] # "("
    BY <1>7 DEF TrimTrailing, Trailing, InText, Trimming
  <2>2. p - 1 \in 1..size
    BY <1>2, <2>1
  <2> QED  BY <1>3, <1>7, <2>2 DEF TrimTrailing, To, Keep, Trimming
<1>8. CASE EndHere
  BY <1>3, <1>8 DEF EndHere, To, Keep, Trimming, InText
<1> QED  BY <1>4, <1>5, <1>6, <1>7, <1>8

LEMMA InTextIsPreserved == InText /\ [ScanNext]_scanVars => InText'
<1> SUFFICES ASSUME InText, [ScanNext]_scanVars PROVE InText'
  OBVIOUS
<1>1. CASE UNCHANGED scanVars
  BY <1>1 DEF scanVars, InText, size, On, Here
<1> QED  BY <1>1, SpanKeepsInText, TrimKeepsInText DEF ScanNext

(* No loop reads outside its text, however literals, comments and the text  *)
(* itself end; and the span never closes more parentheses than it opened.   *)
THEOREM ScanTypeCorrect == ScanSpec => []ScanTypeOK
<1>1. InText => ScanTypeOK
  BY SizeIsNatural DEF InText, ScanTypeOK, Spanning, Trimming
<1> QED  BY <1>1, InTextInitially, InTextIsPreserved, PTL DEF ScanSpec

-----------------------------------------------------------------------------
(* Least and greatest elements.                                            *)

LEMMA LeastHolds ==
  ASSUME NEW S \in SUBSET Nat, S # {}
  PROVE  Least(S) \in S /\ \A y \in S : Least(S) <= y
<1>1. PICK x \in S : \A y \in S : ~(<<y, x>> \in OpToRel(<, Nat))
  BY NatLessThanWellFounded, WFMin
<1>2. \A y \in S : ~(y < x)
  BY <1>1 DEF OpToRel
<1>3. \E x1 \in S : \A y \in S : x1 <= y
  BY <1>2
<1> QED  BY <1>3 DEF Least

LEMMA LeastIs ==
  ASSUME NEW S \in SUBSET Nat, NEW x \in S, \A y \in S : x <= y
  PROVE  Least(S) = x
<1>1. Least(S) \in S /\ Least(S) <= x
  BY LeastHolds
<1>2. x <= Least(S) /\ x \in Nat /\ Least(S) \in Nat
  BY <1>1
<1> QED  BY <1>1, <1>2

LEMMA GreatestHolds ==
  ASSUME NEW n \in Nat, NEW S \in SUBSET (1..n), S # {}
  PROVE  Greatest(S) \in S /\ \A y \in S : y <= Greatest(S)
<1> DEFINE T == {n - y : y \in S}
<1>1. T \in SUBSET Nat /\ T # {}
  <2>1. \A y \in S : n - y \in Nat
    OBVIOUS
  <2> QED  BY <2>1
<1> HIDE DEF T
<1>2. Least(T) \in T /\ \A z \in T : Least(T) <= z
  BY <1>1, LeastHolds
<1>3. PICK x \in S : Least(T) = n - x
  BY <1>2 DEF T
<1>4. \A y \in S : n - x <= n - y
  BY <1>2, <1>3 DEF T
<1>5. \A y \in S : y <= x
  BY <1>4
<1> QED  BY <1>5 DEF Greatest

-----------------------------------------------------------------------------
(* parse_comptime_call_expr2                                               *)

(* What the two loops have passed is all of the kinds they pass over.       *)
Trims ==
  /\ InText
  /\ pc \in Trimming => size > 2
  /\ pc = "leading" => p >= 2 /\ \A k \in 2..(p - 1) : text[k] \in Leading
  /\ pc \in {"trailing", "trimmed"} =>
       /\ start \in 2..size /\ text[start] \notin Leading
       /\ \A k \in 2..(start - 1) : text[k] \in Leading
       /\ \A k \in (p + 1)..(size - 1) : text[k] \in Trailing
       /\ p <= size - 1
  /\ pc = "trimmed" => text[p] \notin Trailing

LEMMA TrimsInitially == ScanInit => Trims
BY InTextInitially DEF ScanInit, Trims, Trimming

LEMMA TrimsIsPreserved == Trims /\ [ScanNext]_scanVars => Trims'
<1> SUFFICES ASSUME Trims, [ScanNext]_scanVars PROVE Trims'
  OBVIOUS
<1>1. InText'
  BY InTextIsPreserved DEF Trims
<1>2. size \in Nat
  BY SizeIsNatural DEF Trims
<1>3. text' = text /\ size' = size
  BY DEF scanVars, ScanNext, SkipBlank, NoList, List, OpenQuote, Quoted, LineComment,
     BlockComment, Open, Close, Code, NoEnd, TrimAborts, Trim, TrimLeading, StartHere,
     TrimTrailing, EndHere, To, size
<1>4. CASE UNCHANGED scanVars
  BY <1>1, <1>3, <1>4 DEF scanVars, Trims
<1>5. CASE SkipBlank \/ NoList \/ List \/ OpenQuote \/ Quoted \/ LineComment \/ BlockComment
           \/ Open \/ Close \/ Code \/ NoEnd
  <2>1. pc' \in {"skip", "none", "span", "quoted", "line", "block", "found"}
    BY <1>5 DEF SkipBlank, NoList, List, OpenQuote, Quoted, LineComment, BlockComment,
       Open, Close, Code, NoEnd, To
  <2> QED  BY <1>1, <2>1 DEF Trims, Trimming
<1>6. CASE TrimAborts
  <2>1. pc' = "abort"
    BY <1>6 DEF TrimAborts, To
  <2> QED  BY <1>1, <2>1 DEF Trims, Trimming
<1>7. CASE Trim
  BY <1>1, <1>2, <1>3, <1>7 DEF Trims, Trim, To, Trimming
<1>8. CASE TrimLeading
  <2>1. /\ pc = "leading" /\ pc' = "leading" /\ p' = p + 1 /\ text[p] \in Leading
        /\ p \in 1..size /\ size > 2 /\ p >= 2
        /\ \A k \in 2..(p - 1) : text[k] \in Leading
    BY <1>8 DEF Trims, TrimLeading, To, Trimming, InText
  <2>2. \A k \in 2..(p' - 1) : text[k] \in Leading
    <3>1. \A k \in 2..(p' - 1) : k \in 2..(p - 1) \/ k = p
      BY <2>1
    <3> QED  BY <2>1, <3>1
  <2> QED  BY <1>1, <1>3, <2>1, <2>2 DEF Trims
<1>9. CASE StartHere
  <2>1. /\ pc = "leading" /\ pc' = "trailing" /\ p' = size - 1 /\ start' = p
        /\ text[p] \notin Leading
        /\ p \in 1..size /\ size > 2 /\ p >= 2
        /\ \A k \in 2..(p - 1) : text[k] \in Leading
    BY <1>9 DEF Trims, StartHere, Trimming, InText
  <2>2. \A k \in (p' + 1)..(size - 1) : FALSE
    BY <1>2, <2>1
  <2> QED  BY <1>1, <1>2, <1>3, <2>1, <2>2 DEF Trims
<1>10. CASE TrimTrailing
  <2>1. /\ pc = "trailing" /\ pc' = "trailing" /\ p' = p - 1 /\ text[p] \in Trailing
        /\ start' = start /\ p \in 1..size /\ size > 2 /\ p <= size - 1
        /\ \A k \in (p + 1)..(size - 1) : text[k] \in Trailing
        /\ start \in 2..size /\ text[start] \notin Leading
        /\ \A k \in 2..(start - 1) : text[k] \in Leading
    BY <1>10 DEF Trims, TrimTrailing, To, Trimming, InText
  <2>2. \A k \in (p' + 1)..(size - 1) : text[k] \in Trailing
    <3>1. \A k \in (p' + 1)..(size - 1) : k \in (p + 1)..(size - 1) \/ k = p
      BY <1>2, <2>1
    <3> QED  BY <2>1, <3>1
  <2>3. p' <= size - 1
    BY <1>2, <2>1
  <2> QED  BY <1>1, <1>3, <2>1, <2>2, <2>3 DEF Trims
<1>11. CASE EndHere
  BY <1>1, <1>3, <1>11 DEF Trims, EndHere, To, Trimming
<1> QED  BY <1>4, <1>5, <1>6, <1>7, <1>8, <1>9, <1>10, <1>11 DEF ScanNext

(* A part of a balanced text is balanced when no brace stands outside it.   *)
Braces == {"{", "}"}
LEMMA InnerBalanced ==
  ASSUME NEW lo \in Nat, NEW hi \in Nat, NEW a \in Nat, NEW b \in Nat,
         lo <= a, a <= b, b <= hi, Balanced(lo, hi),
         \A k \in lo..(a - 1) : text[k] \notin Braces,
         \A k \in (b + 1)..hi : text[k] \notin Braces
  PROVE  Balanced(a, b)
<1>1. ASSUME NEW c \in Braces, NEW k \in a..b
      PROVE  {j \in a..k : text[j] = c} = {j \in lo..k : text[j] = c}
  <2>1. \A j \in lo..k : j \in a..k \/ j \in lo..(a - 1)
    OBVIOUS
  <2>2. \A j \in a..k : j \in lo..k
    OBVIOUS
  <2> QED  BY <2>1, <2>2
<1>2. ASSUME NEW c \in Braces
      PROVE  {j \in a..b : text[j] = c} = {j \in lo..hi : text[j] = c}
  <2>1. \A j \in lo..hi : j \in a..b \/ j \in lo..(a - 1) \/ j \in (b + 1)..hi
    OBVIOUS
  <2>2. \A j \in a..b : j \in lo..hi
    OBVIOUS
  <2> QED  BY <2>1, <2>2
<1>3. \A k \in a..b : k \in lo..hi
  OBVIOUS
<1> DEFINE N(lw, c, k) == Cardinality({j \in lw..k : text[j] = c})
<1>4. /\ \A c \in Braces : \A k \in a..b : N(a, c, k) = N(lo, c, k)
      /\ \A c \in Braces : N(a, c, b) = N(lo, c, hi)
  BY <1>1, <1>2
<1>5. "{" \in Braces /\ "}" \in Braces
  BY Zenon DEF Braces
<1>6. N(lo, "{", hi) = N(lo, "}", hi) /\ \A k \in lo..hi : N(lo, "{", k) >= N(lo, "}", k)
  BY Zenon DEF Balanced
<1> HIDE DEF N
<1>7. N(a, "{", b) = N(a, "}", b) /\ \A k \in a..b : N(a, "{", k) >= N(a, "}", k)
  BY <1>3, <1>4, <1>5, <1>6, Zenon
<1> QED  BY <1>7, Zenon DEF Balanced, N

Space == {" "}
Gap == {" ", ";"}
Left == "{"
Right == "}"

(* The characters that the loops and the forms of a block tell apart.       *)
LEMMA TrimmedCharacters ==
  /\ \A c \in Leading : c \in Space \/ c = Left
  /\ \A c \in Trailing : c \in Gap \/ c = Right
  /\ Space \subseteq Leading /\ Gap \subseteq Trailing
  /\ Left \in Leading /\ Right \in Trailing
  /\ \A c \in Braces : c \notin Space /\ c \notin Gap
  /\ "(" \notin Gap /\ ")" \notin Space
BY Zenon DEF Leading, Trailing, Braces, Space, Gap, Left, Right

LEMMA FrontHolds ==
  ASSUME InText, text \in TrimTexts, NEW lo \in Nat, lo <= size
  PROVE  /\ Front(lo) \in lo..size /\ text[Front(lo)] \notin Space
         /\ \A k \in lo..size : text[k] \notin Space => Front(lo) <= k
<1> DEFINE S == {k \in lo..size : text[k] \notin Space}
<1>1. size \in Nat /\ text[size] = ")"
  BY SizeIsNatural, ListHasParentheses
<1>2. size \in S
  BY <1>1, TrimmedCharacters
<1>3. S \in SUBSET Nat
  BY <1>1
<1>4. Front(lo) = Least(S)
  BY Zenon DEF Front, Space
<1>5. Front(lo) \in S /\ \A k \in S : Front(lo) <= k
  <2> HIDE DEF S
  <2> QED  BY <1>2, <1>3, <1>4, LeastHolds
<1> QED  BY <1>5

LEMMA BackHolds ==
  ASSUME InText, text \in TrimTexts, NEW hi \in Nat, 1 <= hi
  PROVE  /\ Back(hi) \in 1..hi /\ text[Back(hi)] \notin Gap
         /\ \A k \in 1..hi : text[k] \notin Gap => k <= Back(hi)
<1> DEFINE S == {k \in 1..hi : text[k] \notin Gap}
<1>1. text[1] = "("
  BY ListHasParentheses
<1>2. 1 \in S
  BY <1>1, TrimmedCharacters
<1>3. S \in SUBSET (1..hi)
  OBVIOUS
<1>4. Back(hi) = Greatest(S)
  BY Zenon DEF Back, Gap
<1>5. Back(hi) \in S /\ \A k \in S : k <= Back(hi)
  <2> HIDE DEF S
  <2>1. S # {}
    BY <1>2
  <2> QED  BY <1>3, <1>4, <2>1, GreatestHolds
<1> QED  BY <1>5

(* No brace is passed over at an end where the block has no further one.    *)
LEMMA FrontIsClear ==
  ASSUME InText, text \in TrimTexts, NEW lo \in Nat, NEW a \in Nat, lo <= a, a <= size,
         \A k \in lo..(a - 1) : text[k] \in Leading, text[Front(lo)] # Left
  PROVE  \A k \in lo..(a - 1) : text[k] \notin Braces
<1> SUFFICES ASSUME NEW k \in lo..(a - 1), text[k] \in Braces PROVE FALSE
  OBVIOUS
<1>1. size \in Nat /\ lo <= size /\ k \in lo..size
  BY SizeIsNatural
<1>2. text[k] \notin Space
  BY TrimmedCharacters
<1>3. Front(lo) \in lo..size /\ text[Front(lo)] \notin Space /\ Front(lo) <= k
  BY <1>1, <1>2, FrontHolds
<1>4. Front(lo) \in lo..(a - 1)
  BY <1>1, <1>3
<1> QED  BY <1>3, <1>4, TrimmedCharacters, Zenon

LEMMA BackIsClear ==
  ASSUME InText, text \in TrimTexts, NEW hi \in Nat, NEW b \in Nat, 1 <= b, b <= hi,
         \A k \in (b + 1)..hi : text[k] \in Trailing, text[Back(hi)] # Right
  PROVE  \A k \in (b + 1)..hi : text[k] \notin Braces
<1> SUFFICES ASSUME NEW k \in (b + 1)..hi, text[k] \in Braces PROVE FALSE
  OBVIOUS
<1>1. 1 <= hi /\ k \in 1..hi
  OBVIOUS
<1>2. text[k] \notin Gap
  BY TrimmedCharacters
<1>3. Back(hi) \in 1..hi /\ text[Back(hi)] \notin Gap /\ k <= Back(hi)
  BY <1>1, <1>2, BackHolds
<1>4. Back(hi) \in (b + 1)..hi
  BY <1>1, <1>3
<1> QED  BY <1>3, <1>4, TrimmedCharacters, Zenon

(* The statement between the trimmed ends.                                  *)
LEMMA TrimmedIsBlock ==
  ASSUME Trims, pc = "trimmed", Codes # {}, IsBlock
  PROVE  start <= Least(Codes) /\ Greatest(Codes) <= p /\ Balanced(start, p)
<1>1. InText /\ text \in TrimTexts /\ size \in Nat /\ size > 2
  BY SizeIsNatural DEF Trims, InText, Trimming
<1>2. /\ start \in 2..size /\ text[start] \notin Leading
      /\ \A k \in 2..(start - 1) : text[k] \in Leading
      /\ \A k \in (p + 1)..(size - 1) : text[k] \in Trailing
      /\ p <= size - 1 /\ p \in 1..size /\ text[p] \notin Trailing
  BY DEF Trims, InText, Trimming
<1>3. ASSUME NEW c \in Codes PROVE c \in 2..(size - 1) /\ start <= c /\ c <= p
  <2>1. c \in 2..(size - 1) /\ text[c] \notin {" ", "{", "}", ";"}
    BY Zenon DEF Codes
  <2>2. text[c] \notin Leading /\ text[c] \notin Trailing
    BY <2>1, Zenon DEF Leading, Trailing
  <2>3. c \notin 2..(start - 1) /\ c \notin (p + 1)..(size - 1)
    BY <1>2, <2>2
  <2>4. c \in 2..(size - 1)
    BY <2>1, Zenon
  <2> QED  BY <1>1, <1>2, <2>3, <2>4
<1>4. start <= Least(Codes) /\ Greatest(Codes) <= p
  <2>1. Codes \in SUBSET (1..(size - 1)) /\ size - 1 \in Nat
    BY <1>1, <1>3
  <2>2. Least(Codes) \in Codes
    BY <1>1, <1>3, LeastHolds
  <2>3. Greatest(Codes) \in Codes
    BY <2>1, GreatestHolds
  <2> QED  BY <1>3, <2>2, <2>3
<1>5. start <= p
  <2>1. PICK c \in Codes : TRUE
    OBVIOUS
  <2> QED  BY <1>1, <1>2, <1>3, <2>1
<1>6. ASSUME NEW lo \in Nat, NEW hi \in Nat, 2 <= lo, lo <= start, p <= hi, hi <= size - 1,
             Simple(lo, hi)
      PROVE  Balanced(start, p)
  <2>1. Balanced(lo, hi) /\ text[Front(lo)] # Left /\ text[Back(hi)] # Right
    BY <1>6, Zenon DEF Simple, Left, Right
  <2>2. \A k \in lo..(start - 1) : text[k] \in Leading
    <3>1. \A k \in lo..(start - 1) : k \in 2..(start - 1)
      BY <1>2, <1>6
    <3> QED  BY <1>2, <3>1
  <2>3. \A k \in (p + 1)..hi : text[k] \in Trailing
    <3>1. \A k \in (p + 1)..hi : k \in (p + 1)..(size - 1)
      BY <1>1, <1>2, <1>6
    <3> QED  BY <1>2, <3>1
  <2>4. start \in Nat /\ start <= size /\ p \in Nat /\ 1 <= p
    BY <1>1, <1>2
  <2>5. \A k \in lo..(start - 1) : text[k] \notin Braces
    BY <1>1, <1>6, <2>1, <2>2, <2>4, FrontIsClear
  <2>6. \A k \in (p + 1)..hi : text[k] \notin Braces
    BY <1>1, <1>6, <2>1, <2>3, <2>4, BackIsClear
  <2> QED  BY <1>5, <1>6, <2>1, <2>4, <2>5, <2>6, InnerBalanced
<1>7. CASE Simple(2, size - 1)
  <2>1. 2 \in Nat /\ size - 1 \in Nat /\ 2 <= start /\ size - 1 <= size - 1
    BY <1>1, <1>2
  <2> QED  BY <1>2, <1>4, <1>6, <1>7, <2>1
<1>8. ASSUME NEW l, NEW h, l = Front(2), h = Back(size - 1), l < h, text[l] = Left,
             text[h] = Right, Simple(l + 1, h - 1)
      PROVE  Balanced(start, p)
  <2>1. l \in 2..size /\ \A k \in 2..size : text[k] \notin Space => l <= k
    BY <1>1, <1>8, FrontHolds
  <2>2. h \in 1..(size - 1) /\ \A k \in 1..(size - 1) : text[k] \notin Gap => k <= h
    <3>1. size - 1 \in Nat /\ 1 <= size - 1
      BY <1>1
    <3> QED  BY <1>1, <1>8, <3>1, BackHolds
  <2>3. text[start] \notin Space /\ text[p] \notin Gap
    BY <1>2, TrimmedCharacters
  <2>4. l # start /\ h # p
    BY <1>2, <1>8, TrimmedCharacters, Zenon
  <2>5. l + 1 <= start /\ p <= h - 1
    <3>1. l <= start
      BY <1>2, <2>1, <2>3
    <3>2. p \in 1..(size - 1)
      BY <1>1, <1>2
    <3>3. p <= h
      BY <2>2, <2>3, <3>2
    <3> QED  BY <1>1, <1>2, <2>1, <2>2, <2>4, <3>1, <3>3
  <2>6. l + 1 \in Nat /\ h - 1 \in Nat /\ 2 <= l + 1 /\ h - 1 <= size - 1
    BY <1>1, <2>1, <2>2
  <2> QED  BY <1>6, <1>8, <2>5, <2>6
<1>9. CASE ~Simple(2, size - 1)
  <2>1. /\ Front(2) < Back(size - 1) /\ text[Front(2)] = Left /\ text[Back(size - 1)] = Right
        /\ Simple(Front(2) + 1, Back(size - 1) - 1)
    BY <1>9, Zenon DEF IsBlock, Left, Right
  <2> QED  BY <1>4, <1>8, <2>1, Zenon
<1> QED  BY <1>7, <1>9

(* Whatever the argument list, a block of one of the usual forms becomes a  *)
(* statement with all its code, in which every brace has its partner.      *)
THEOREM StatementCorrect == ScanSpec => []StatementIsBlock
<1>1. Trims => StatementIsBlock
  BY TrimmedIsBlock, Zenon DEF StatementIsBlock
<1> QED  BY <1>1, TrimsInitially, TrimsIsPreserved, PTL DEF ScanSpec

-----------------------------------------------------------------------------
(* try_append_error_comptime_type                                          *)

(* How C reads on, one character at a time.                                *)
Escape(q) == IF q = "'" THEN "escape'" ELSE "escape\""
LEMMA CodeReads ==
  ASSUME NEW c, NEW next
  PROVE  /\ c \in Quotes => After("code", c, next) = c
         /\ c = "/" /\ next = "/" => After("code", c, next) = "line"
         /\ c = "/" /\ next = "*" => After("code", c, next) = "opening"
         /\ c \notin Quotes /\ (c = "/" => next # "/" /\ next # "*") =>
              After("code", c, next) = "code"
<1>1. c \in Quotes => After("code", c, next) = c
  BY Zenon DEF After, Quotes
<1>2. c = "/" /\ next = "/" => After("code", c, next) = "line"
  BY Zenon DEF After, Quotes
<1>3. c = "/" /\ next = "*" => After("code", c, next) = "opening"
  BY Zenon DEF After, Quotes
<1>4. c \notin Quotes /\ (c = "/" => next # "/" /\ next # "*") => After("code", c, next) = "code"
  BY Zenon DEF After, Quotes
<1> QED  BY <1>1, <1>2, <1>3, <1>4

LEMMA CommentReads ==
  ASSUME NEW c, NEW next
  PROVE  /\ After("opening", c, next) = "comment"
         /\ ~(c = "*" /\ next = "/") => After("comment", c, next) = "comment"
         /\ c = "*" /\ next = "/" => After("comment", c, next) = "closing"
         /\ After("closing", c, next) = "code"
         /\ c # "\n" => After("line", c, next) = "line"
         /\ c = "\n" => After("line", c, next) = "code"
<1>1. After("opening", c, next) = "comment"
  BY Zenon DEF After, Quotes
<1>2. ~(c = "*" /\ next = "/") => After("comment", c, next) = "comment"
  BY Zenon DEF After, Quotes
<1>3. c = "*" /\ next = "/" => After("comment", c, next) = "closing"
  BY Zenon DEF After, Quotes
<1>4. After("closing", c, next) = "code"
  BY Zenon DEF After, Quotes
<1>5. c # "\n" => After("line", c, next) = "line"
  BY Zenon DEF After, Quotes
<1>6. c = "\n" => After("line", c, next) = "code"
  BY Zenon DEF After, Quotes
<1> QED  BY <1>1, <1>2, <1>3, <1>4, <1>5, <1>6

LEMMA LiteralReads ==
  ASSUME NEW c, NEW next, NEW q \in Quotes
  PROVE  /\ c = "\\" => After(q, c, next) = Escape(q)
         /\ After(Escape(q), c, next) = q
         /\ c = q => After(q, c, next) = "code"
         /\ c # "\\" /\ c # q => After(q, c, next) = q
         /\ q # "code" /\ Escape(q) # "code"
<1>1. CASE q = "'"
  <2>1. c = "\\" => After(q, c, next) = Escape(q)
    BY <1>1, Zenon DEF After, Quotes, Escape
  <2>2. After(Escape(q), c, next) = q
    BY <1>1, Zenon DEF After, Quotes, Escape
  <2>3. c = q => After(q, c, next) = "code"
    BY <1>1, Zenon DEF After, Quotes
  <2>4. c # "\\" /\ c # q => After(q, c, next) = q
    BY <1>1, Zenon DEF After, Quotes
  <2>5. q # "code" /\ Escape(q) # "code"
    BY <1>1, Zenon DEF Escape
  <2> QED  BY <2>1, <2>2, <2>3, <2>4, <2>5, Zenon
<1>2. CASE q # "'"
  <2>0. q = "\""
    BY <1>2, Zenon DEF Quotes
  <2>1. c = "\\" => After(q, c, next) = Escape(q)
    BY <2>0, Zenon DEF After, Quotes, Escape
  <2>2. After(Escape(q), c, next) = q
    BY <2>0, Zenon DEF After, Quotes, Escape
  <2>3. c = q => After(q, c, next) = "code"
    BY <2>0, Zenon DEF After, Quotes
  <2>4. c # "\\" /\ c # q => After(q, c, next) = q
    BY <2>0, Zenon DEF After, Quotes
  <2>5. q # "code" /\ Escape(q) # "code"
    BY <2>0, Zenon DEF Escape
  <2> QED  BY <2>1, <2>2, <2>3, <2>4, <2>5, Zenon
<1> QED  BY <1>1, <1>2

LEMMA Characters ==
  /\ "(" \notin Quotes /\ ")" \notin Quotes /\ "/" \notin Quotes /\ "end" \notin Quotes
  /\ \A c \in Blank : c \notin Quotes /\ c # "/" /\ c # "(" /\ c # ")" /\ c # "end"
  /\ \A c \in Quotes : c # "(" /\ c # ")" /\ c # "\n"
BY Zenon DEF Quotes, Blank

(* The character behind, if there is one.                                  *)
Follow(k) == IF k <= size THEN text[k] ELSE ""
LEMMA FollowIs ==
  ASSUME NEW k
  PROVE  /\ k <= size => Follow(k) = text[k]
         /\ ~(k <= size) => Follow(k) # "/" /\ Follow(k) # "*"
BY Zenon DEF Follow

(* The recursive function Modes exists, for texts of any length.           *)
LEMMA ModesAre ==
  ASSUME size \in Nat
  PROVE  /\ Modes[1] = "code"
         /\ \A k \in 1..size : Modes[k + 1] = After(Modes[k], text[k], Follow(k + 1))
<1> DEFINE First == "code"
           Up(g, m) == [k \in 1..m |-> IF k = 1 THEN First
                                       ELSE After(g[k - 1], text[k - 1], Follow(k))]
           modes == CHOOSE g : g = Up(g, size + 1)
<1>1. \A m \in Nat : \E g : g = Up(g, m)
  <2> DEFINE T == {m \in Nat : ~\E g : g = Up(g, m)}
  <2> SUFFICES ASSUME T # {} PROVE FALSE
    OBVIOUS
  <2>0. T \in SUBSET Nat
    OBVIOUS
  <2>1. Least(T) \in T /\ \A k \in T : Least(T) <= k
    <3> HIDE DEF T
    <3> QED  BY <2>0, LeastHolds
  <2> DEFINE m == Least(T)
  <2> HIDE DEF m
  <2>2. m \in Nat /\ m \in T /\ \A k \in T : m <= k
    BY <2>0, <2>1 DEF m
  <2>3. m # 0
    <3> DEFINE g == [k \in 1..0 |-> First]
    <3>1. g = Up(g, 0)
      OBVIOUS
    <3> QED  BY <3>1, <2>2
  <2>4. m - 1 \in Nat /\ m - 1 \notin T
    <3> HIDE DEF T
    <3> QED  BY <2>2, <2>3
  <2>5. PICK g : g = Up(g, m - 1)
    BY <2>4
  <2> DEFINE h == [k \in 1..m |-> IF k = m
                                  THEN IF m = 1 THEN First ELSE After(g[m - 1], text[m - 1], Follow(m))
                                  ELSE g[k]]
  <2> HIDE DEF First
  <2>6. \A k \in 1..(m - 1) : g[k] = IF k = 1 THEN First ELSE After(g[k - 1], text[k - 1], Follow(k))
    BY <2>5
  <2>7. \A k \in 1..m : h[k] = IF k = 1 THEN First ELSE After(h[k - 1], text[k - 1], Follow(k))
    <3>1. /\ \A k \in 1..(m - 1) : h[k] = g[k]
          /\ h[m] = IF m = 1 THEN First ELSE After(g[m - 1], text[m - 1], Follow(m))
      BY <2>2, <2>3
    <3> HIDE DEF h, T
    <3>2. ASSUME NEW k \in 1..m, k = m
          PROVE  h[k] = IF k = 1 THEN First ELSE After(h[k - 1], text[k - 1], Follow(k))
      <4>1. m # 1 => h[m - 1] = g[m - 1]
        BY <2>2, <2>3, <3>1
      <4> QED  BY <3>1, <3>2, <4>1
    <3>3. ASSUME NEW k \in 1..m, k # m
          PROVE  h[k] = IF k = 1 THEN First ELSE After(h[k - 1], text[k - 1], Follow(k))
      <4>1. k \in 1..(m - 1) /\ h[k] = g[k]
        BY <2>2, <3>1, <3>3
      <4>2. k # 1 => h[k - 1] = g[k - 1]
        BY <2>2, <3>1, <4>1
      <4> QED  BY <2>6, <4>1, <4>2
    <3> QED  BY <3>2, <3>3
  <2>8. h = Up(h, m)
    <3>1. Up(h, m) = [k \in 1..m |-> h[k]]
      BY <2>7, Zenon
    <3>2. h = [k \in 1..m |-> h[k]]
      BY Zenon
    <3> HIDE DEF Up, h
    <3> QED  BY <3>1, <3>2, Zenon
  <2> QED  BY <2>2, <2>8
<1>2. modes = Up(modes, size + 1)
  <2>1. size + 1 \in Nat
    OBVIOUS
  <2>2. \E g : g = Up(g, size + 1)
    BY <1>1, <2>1, Zenon
  <2> QED  BY <2>2, Zenon
<1>3. Modes = modes
  BY Zenon DEF Modes, Follow
<1> HIDE DEF modes, First
<1>4. \A k \in 1..(size + 1) :
        modes[k] = IF k = 1 THEN First ELSE After(modes[k - 1], text[k - 1], Follow(k))
  BY <1>2
<1>5. modes[1] = First
  BY <1>4
<1>6. ASSUME NEW k \in 1..size PROVE modes[k + 1] = After(modes[k], text[k], Follow(k + 1))
  <2>1. k + 1 \in 1..(size + 1) /\ k + 1 # 1 /\ (k + 1) - 1 = k
    OBVIOUS
  <2> QED  BY <1>4, <2>1
<1> QED  BY <1>3, <1>5, <1>6 DEF First

(* The parentheses of the code, and how many of them stand before k.        *)
Opens == {j \in 1..size : text[j] = "(" /\ Modes[j] = "code"}
Closes == {j \in 1..size : text[j] = ")" /\ Modes[j] = "code"}
Count(S, k) == Cardinality(S \cap (1..k))

LEMMA CountSteps ==
  ASSUME NEW S, NEW k \in Nat
  PROVE  /\ Count(S, k) \in Nat
         /\ k = 0 => Count(S, k) = 0
         /\ k # 0 /\ k \in S => Count(S, k) = Count(S, k - 1) + 1
         /\ k # 0 /\ k \notin S => Count(S, k) = Count(S, k - 1)
<1>1. ASSUME NEW n \in Nat PROVE IsFiniteSet(S \cap (1..n)) /\ Count(S, n) \in Nat
  <2>1. IsFiniteSet(1..n)
    BY FS_Interval
  <2>2. IsFiniteSet(S \cap (1..n))
    BY <2>1, FS_Subset
  <2> QED  BY <2>2, FS_CardinalityType DEF Count
<1>2. k = 0 => Count(S, k) = 0
  <2>1. k = 0 => S \cap (1..k) = {}
    OBVIOUS
  <2> QED  BY <2>1, FS_EmptySet DEF Count
<1>3. ASSUME k # 0, k \in S PROVE Count(S, k) = Count(S, k - 1) + 1
  <2>1. S \cap (1..k) = (S \cap (1..(k - 1))) \cup {k}
    BY <1>3
  <2>2. k \notin S \cap (1..(k - 1))
    OBVIOUS
  <2>3. k - 1 \in Nat
    BY <1>3
  <2> QED  BY <1>1, <2>1, <2>2, <2>3, FS_AddElement DEF Count
<1>4. ASSUME k # 0, k \notin S PROVE Count(S, k) = Count(S, k - 1)
  <2>1. S \cap (1..k) = S \cap (1..(k - 1))
    BY <1>4
  <2> QED  BY <2>1 DEF Count
<1> QED  BY <1>1, <1>2, <1>3, <1>4

LEMMA ClosersAre ==
  ASSUME size \in Nat, NEW k
  PROVE  k \in Closers <=> k \in Closes /\ Count(Opens, k) = Count(Closes, k)
<1> DEFINE Seen(c, n) == {j \in 1..n : text[j] = c /\ Modes[j] = "code"}
<1>1. k \in Closers <=> k \in Seen(")", size) /\ Cardinality(Seen("(", k)) = Cardinality(Seen(")", k))
  BY Zenon DEF Closers
<1>2. Seen(")", size) = Closes
  BY DEF Closes
<1>3. k \in Closes => Seen("(", k) = Opens \cap (1..k) /\ Seen(")", k) = Closes \cap (1..k)
  <2>1. k \in Closes => k \in 1..size
    BY DEF Closes
  <2>2. k \in 1..size => \A j : j \in 1..k <=> j \in 1..size /\ j \in 1..k
    OBVIOUS
  <2> QED  BY <2>1, <2>2 DEF Opens, Closes
<1> HIDE DEF Seen
<1> QED  BY <1>1, <1>2, <1>3 DEF Count

(* What the span has read before q: as many parentheses are open as depth   *)
(* says, and none of them was closed.                                      *)
Read(d, q) ==
  /\ d + Count(Closes, q - 1) = Count(Opens, q - 1)
  /\ \A k \in 1..(q - 1) : k \notin Closers

LEMMA NothingIsRead == ASSUME size \in Nat PROVE Read(0, 1)
<1>1. Count(Opens, 0) = 0 /\ Count(Closes, 0) = 0
  BY CountSteps
<1> QED  BY <1>1 DEF Read

LEMMA ReadOver ==
  ASSUME size \in Nat, NEW d \in Nat, NEW q \in 1..size, Read(d, q),
         (text[q] # "(" /\ text[q] # ")") \/ Modes[q] # "code"
  PROVE  Read(d, q + 1)
<1>1. q \notin Opens /\ q \notin Closes
  BY DEF Opens, Closes
<1>2. Count(Opens, q) = Count(Opens, q - 1) /\ Count(Closes, q) = Count(Closes, q - 1)
  BY <1>1, CountSteps
<1>3. q \notin Closers
  BY <1>1, ClosersAre
<1>4. \A k \in 1..q : k \in 1..(q - 1) \/ k = q
  OBVIOUS
<1>5. (q + 1) - 1 = q
  OBVIOUS
<1> QED  BY <1>2, <1>3, <1>4, <1>5 DEF Read

LEMMA ReadOpen ==
  ASSUME size \in Nat, NEW d \in Nat, NEW q \in 1..size, Read(d, q),
         text[q] = "(", Modes[q] = "code"
  PROVE  Read(d + 1, q + 1)
<1>1. q \in Opens /\ q \notin Closes
  BY DEF Opens, Closes
<1>2. Count(Opens, q) = Count(Opens, q - 1) + 1 /\ Count(Closes, q) = Count(Closes, q - 1)
      /\ Count(Opens, q - 1) \in Nat /\ Count(Closes, q - 1) \in Nat
  BY <1>1, CountSteps
<1>3. q \notin Closers
  BY <1>1, ClosersAre
<1>4. \A k \in 1..q : k \in 1..(q - 1) \/ k = q
  OBVIOUS
<1>5. (q + 1) - 1 = q
  OBVIOUS
<1> QED  BY <1>2, <1>3, <1>4, <1>5 DEF Read

LEMMA ReadClose ==
  ASSUME size \in Nat, NEW d \in Nat, d # 0, NEW q \in 1..size, Read(d, q),
         text[q] = ")", Modes[q] = "code"
  PROVE  /\ d = 1 => Closers # {} /\ Least(Closers) = q
         /\ d # 1 => Read(d - 1, q + 1)
<1>1. q \notin Opens /\ q \in Closes
  BY DEF Opens, Closes
<1>2. Count(Opens, q) = Count(Opens, q - 1) /\ Count(Closes, q) = Count(Closes, q - 1) + 1
      /\ Count(Opens, q - 1) \in Nat /\ Count(Closes, q - 1) \in Nat
  BY <1>1, CountSteps
<1>3. q \in Closers <=> Count(Opens, q) = Count(Closes, q)
  BY <1>1, ClosersAre
<1>4. q \in Closers <=> d = 1
  BY <1>2, <1>3 DEF Read
<1>5. \A k \in 1..q : k \in 1..(q - 1) \/ k = q
  OBVIOUS
<1>6. (q + 1) - 1 = q
  OBVIOUS
<1>7. CASE d = 1
  <2>1. Closers \in SUBSET Nat /\ \A k \in Closers : k \in 1..size
    <3>1. \A k \in Closes : k \in 1..size
      BY DEF Closes
    <3>2. \A k \in Closers : k \in Closes
      BY ClosersAre
    <3> QED  BY <3>1, <3>2
  <2>2. \A k \in Closers : q <= k
    BY <2>1 DEF Read
  <2> QED  BY <1>4, <1>7, <2>1, <2>2, LeastIs
<1>8. CASE d # 1
  BY <1>2, <1>4, <1>5, <1>6, <1>8 DEF Read
<1> QED  BY <1>7, <1>8

(* The loops read the text as C does, as long as every comment is closed.   *)
Unclosed == Modes[size + 1] \in {"opening", "comment"}
Reads ==
  /\ pc = "skip" =>
       /\ \A k \in 1..(p - 1) : text[k] \in Blank
       /\ Modes[p] = "code" /\ Read(0, p)
  /\ pc \in Spanning => Read(depth, p)
  /\ pc = "span" /\ p <= size =>
       Modes[p] = "code" \/ (Modes[p] = "line" /\ text[p] = "\n")
  /\ pc = "quoted" /\ p <= size => Modes[p] = quote
  /\ pc = "line" => Modes[p] = "line"
  /\ pc = "block" => Modes[p] = "comment"
  /\ pc = "found" => Closers # {} /\ p - 1 = Least(Closers)
  /\ pc = "none" => ~StartsList \/ Closers = {}
Spans == InText /\ (Unclosed \/ Reads)

LEMMA SpansInitially == ScanInit => Spans
<1> SUFFICES ASSUME ScanInit PROVE Spans
  OBVIOUS
<1>1. InText /\ size \in Nat
  BY InTextInitially, SizeIsNatural
<1>2. p = 1 /\ (pc = "skip" \/ pc = "trim")
  BY DEF ScanInit
<1>3. Modes[1] = "code" /\ Read(0, 1)
  BY <1>1, ModesAre, NothingIsRead
<1>4. \A k \in 1..(p - 1) : FALSE
  BY <1>2
<1> QED  BY <1>1, <1>2, <1>3, <1>4 DEF Spans, Reads, Spanning

(* One character further, one parenthesis less or more, or none at all.     *)
LEMMA TextStays ==
  ASSUME text' = text
  PROVE  /\ size' = size /\ Modes' = Modes /\ Closers' = Closers
         /\ StartsList' = StartsList /\ Unclosed' = Unclosed
         /\ Read(depth', p') => Read(depth, p)'
         /\ Read(0, p') => Read(0, p)'
<1>0. size' = size
  BY DEF size
<1>1. size' = size /\ Modes' = Modes
  <2>1. Modes' = Modes
    BY <1>0, Zenon DEF Modes
  <2> QED  BY <1>0, <2>1
<1>2. Closers' = Closers
  BY <1>1, Zenon DEF Closers
<1>3. StartsList' = StartsList /\ Unclosed' = Unclosed
  BY <1>1, Zenon DEF StartsList, Unclosed
<1>4. Opens' = Opens /\ Closes' = Closes
  BY <1>1, Zenon DEF Opens, Closes
<1>5. Read(depth', p') => Read(depth, p)'
  BY <1>2, <1>4, Zenon DEF Read, Count
<1>6. Read(0, p') => Read(0, p)'
  BY <1>2, <1>4, Zenon DEF Read, Count
<1> QED  BY <1>1, <1>2, <1>3, <1>5, <1>6

(* What a step has to show, by where it leads.                             *)
LEMMA ReadsHolds ==
  ASSUME text' = text,
         pc' \in Spanning => Read(depth', p'),
         pc' \in {"skip", "span", "quoted", "line", "block"},
         pc' = "skip" => /\ \A k \in 1..(p' - 1) : text[k] \in Blank
                         /\ Modes[p'] = "code" /\ Read(0, p'),
         pc' = "span" /\ p' <= size =>
           Modes[p'] = "code" \/ (Modes[p'] = "line" /\ text[p'] = "\n"),
         pc' = "quoted" /\ p' <= size => Modes[p'] = quote',
         pc' = "line" => Modes[p'] = "line",
         pc' = "block" => Modes[p'] = "comment"
  PROVE  Reads'
<1>1. /\ size' = size /\ Modes' = Modes
      /\ pc' \in Spanning => Read(depth, p)'
      /\ pc' = "skip" => Read(0, p)'
  BY TextStays
<1>2. pc' # "found" /\ pc' # "none"
  OBVIOUS
<1> QED  BY <1>1, <1>2 DEF Reads, Spanning

(* The names of the steps' labels differ. *)
LEMMA SkipKeepsSpans ==
  ASSUME Spans, SkipBlank \/ NoList \/ List, ~Unclosed
  PROVE  Reads'
<1>1. /\ InText /\ Reads /\ pc = "skip" /\ size \in Nat /\ p \in 1..(size + 1) /\ depth = 0
      /\ \A k \in 1..(p - 1) : text[k] \in Blank
      /\ Modes[p] = "code" /\ Read(0, p)
  BY SizeIsNatural DEF Spans, Reads, InText, SkipBlank, NoList, List
<1>2. text' = text
  BY DEF SkipBlank, NoList, List, To
<1>3. CASE SkipBlank
  <2>1. pc' = "skip" /\ p' = p + 1 /\ Here \in Blank
    BY <1>3 DEF SkipBlank, To
  <2>2. p <= size /\ p \in 1..size /\ text[p] \in Blank
    BY <1>1, <2>1, Characters DEF Here
  <2>3. text[p] \notin Quotes /\ text[p] # "/" /\ text[p] # "(" /\ text[p] # ")"
    BY <2>2, Characters
  <2>4. Modes[p + 1] = "code"
    BY <1>1, <2>2, <2>3, ModesAre, CodeReads
  <2>5. Read(0, p + 1)
    BY <1>1, <2>2, <2>3, ReadOver
  <2>6. \A k \in 1..(p' - 1) : text[k] \in Blank
    <3>1. \A k \in 1..(p' - 1) : k \in 1..(p - 1) \/ k = p
      BY <1>1, <2>1
    <3> QED  BY <1>1, <2>2, <3>1
  <2> QED  BY <1>2, <2>1, <2>4, <2>5, <2>6, ReadsHolds DEF Spanning
<1>4. CASE List
  <2>1. pc' = "span" /\ p' = p /\ depth' = depth
    BY <1>4 DEF List, To, Keep
  <2> QED  BY <1>1, <1>2, <2>1, ReadsHolds
<1>5. CASE NoList
  <2>1. pc' = "none" /\ p' = p /\ Here \notin Blank /\ Here # "("
    BY <1>5, Zenon DEF NoList, To
  <2>2. ~StartsList
    <3> SUFFICES ASSUME StartsList PROVE FALSE
      OBVIOUS
    <3>1. PICK k \in 1..size : text[k] = "(" /\ \A j \in 1..(k - 1) : text[j] \in Blank
      BY DEF StartsList
    <3>2. k \notin 1..(p - 1)
      BY <1>1, <3>1, Characters
    <3>3. p <= size /\ text[p] = Here
      BY <1>1, <3>2 DEF Here
    <3>4. k # p /\ p \notin 1..(k - 1)
      BY <2>1, <3>1, <3>3
    <3> QED  BY <1>1, <3>2, <3>4
  <2>3. ~StartsList'
    BY <1>2, <2>2, TextStays
  <2> QED  BY <2>1, <2>3 DEF Reads, Spanning
<1> QED  BY <1>3, <1>4, <1>5

LEMMA QuotesKeepSpans ==
  ASSUME Spans, OpenQuote \/ Quoted, ~Unclosed
  PROVE  Reads'
<1>1. /\ Reads /\ size \in Nat /\ p \in 1..(size + 1) /\ depth \in Nat
      /\ pc \in {"span", "quoted"} /\ Read(depth, p) /\ depth' = depth /\ text' = text
      /\ pc = "quoted" => quote \in Quotes
  BY SizeIsNatural DEF Spans, Reads, InText, OpenQuote, Quoted, To, Keep, Spanning
<1>2. CASE OpenQuote
  <2>1. pc = "span" /\ pc' = "quoted" /\ p' = p + 1 /\ quote' = text[p] /\ Here \in Quotes
    BY <1>2 DEF OpenQuote, To
  <2>2. p \in 1..size /\ text[p] \in Quotes
    BY <1>1, <2>1, Characters DEF Here
  <2>3. text[p] # "\n" /\ text[p] # "(" /\ text[p] # ")"
    BY <2>2, Characters
  <2>4. Modes[p] = "code"
    BY <1>1, <2>1, <2>2, <2>3 DEF Reads
  <2>5. Modes[p + 1] = text[p]
    BY <1>1, <2>2, <2>4, ModesAre, CodeReads
  <2>6. Read(depth, p + 1)
    BY <1>1, <2>2, <2>3, ReadOver
  <2> QED  BY <1>1, <2>1, <2>5, <2>6, ReadsHolds
<1>3. CASE Quoted
  <2>1. pc = "quoted" /\ quote \in Quotes /\ quote' = quote
    BY <1>1, <1>3 DEF Quoted, Keep
  <2>2. quote # "end" /\ quote # "\\"
    BY <2>1, Zenon DEF Quotes
  <2>3. p <= size => Modes[p] = quote /\ quote # "code"
    BY <1>1, <2>1, LiteralReads DEF Reads
  <2>4. p <= size => Read(depth, p + 1)
    BY <1>1, <2>3, ReadOver
  <2>5. \/ p > size /\ pc' = "span" /\ p' = p
        \/ On("\\") /\ p + 1 <= size /\ pc' = "quoted" /\ p' = p + 2
        \/ On(quote) /\ pc' = "span" /\ p' = p + 1
        \/ p <= size /\ ~(On("\\") /\ p + 1 <= size) /\ ~On(quote) /\ pc' = "quoted" /\ p' = p + 1
    BY <1>3 DEF Quoted, To
  <2>6. CASE p > size /\ pc' = "span" /\ p' = p
    BY <1>1, <2>6, ReadsHolds
  <2>7. CASE On("\\") /\ p + 1 <= size /\ pc' = "quoted" /\ p' = p + 2
    <3>1. p \in 1..size /\ p + 1 \in 1..size /\ text[p] = "\\"
      BY <1>1, <2>7 DEF On, Here
    <3>2. Modes[p + 1] = Escape(quote)
      <4>1. Modes[p + 1] = After(Modes[p], text[p], Follow(p + 1))
        BY <1>1, <3>1, ModesAre
      <4>2. After(quote, "\\", Follow(p + 1)) = Escape(quote)
        BY <2>1, LiteralReads
      <4>3. Modes[p] = quote
        BY <1>1, <2>3, <3>1
      <4> QED  BY <3>1, <4>1, <4>2, <4>3
    <3>3. Modes[p + 2] = quote
      <4>1. Modes[(p + 1) + 1] = After(Modes[p + 1], text[p + 1], Follow((p + 1) + 1))
        BY <1>1, <3>1, ModesAre
      <4>2. Modes[(p + 1) + 1] = quote
        BY <2>1, <3>2, <4>1, LiteralReads
      <4>3. (p + 1) + 1 = p + 2
        BY <1>1
      <4> QED  BY <4>2, <4>3
    <3>4. Read(depth, p + 2)
      <4>1. Modes[p + 1] # "code"
        BY <2>1, <3>2, LiteralReads
      <4>2. Read(depth, (p + 1) + 1)
        BY <1>1, <2>4, <3>1, <4>1, ReadOver
      <4>3. (p + 1) + 1 = p + 2
        BY <1>1
      <4> QED  BY <4>2, <4>3
    <3> QED  BY <1>1, <2>1, <2>7, <3>3, <3>4, ReadsHolds
  <2>8. CASE On(quote) /\ pc' = "span" /\ p' = p + 1
    <3>1. p \in 1..size /\ text[p] = quote
      BY <1>1, <2>2, <2>8 DEF On, Here
    <3>2. Modes[p + 1] = After(Modes[p], text[p], Follow(p + 1))
      BY <1>1, <3>1, ModesAre
    <3>3. Modes[p + 1] = "code"
      BY <2>1, <2>3, <3>1, <3>2, LiteralReads
    <3> QED  BY <1>1, <2>4, <2>8, <3>1, <3>3, ReadsHolds
  <2>9. CASE p <= size /\ ~(On("\\") /\ p + 1 <= size) /\ ~On(quote)
             /\ pc' = "quoted" /\ p' = p + 1
    <3>1. p \in 1..size /\ text[p] # quote /\ (p + 1 <= size => text[p] # "\\")
      BY <1>1, <2>9 DEF On, Here
    <3>2. p + 1 <= size => Modes[p + 1] = quote
      <4>1. Modes[p + 1] = After(Modes[p], text[p], Follow(p + 1))
        BY <1>1, <3>1, ModesAre
      <4>2. ASSUME NEW c, c # "\\", c # quote PROVE After(quote, c, Follow(p + 1)) = quote
        BY <2>1, <4>2, LiteralReads
      <4>3. Modes[p] = quote
        BY <1>1, <2>3, <3>1
      <4> QED  BY <3>1, <4>1, <4>2, <4>3
    <3> QED  BY <1>1, <2>1, <2>4, <2>9, <3>2, ReadsHolds
  <2> QED  BY <2>5, <2>6, <2>7, <2>8, <2>9
<1> QED  BY <1>2, <1>3

LEMMA CommentsKeepSpans ==
  ASSUME Spans, LineComment \/ BlockComment, ~Unclosed
  PROVE  Reads'
<1>1. /\ Reads /\ size \in Nat /\ p \in 1..(size + 1) /\ depth \in Nat
      /\ pc \in {"span", "line", "block"} /\ Read(depth, p) /\ depth' = depth /\ text' = text
  BY SizeIsNatural DEF Spans, Reads, InText, LineComment, BlockComment, To, Keep, Spanning
<1>2. ASSUME NEW k \in 1..size
      PROVE  Modes[k + 1] = After(Modes[k], text[k], Follow(k + 1))
  BY <1>1, ModesAre
<1>3. ASSUME NEW c \in {"/", "*"}, pc = "span", On("/"), Then(c), p' = p + 2
      PROVE  /\ c = "/" => Modes[p + 2] = "line"
             /\ c = "*" => Modes[p + 2] = "comment"
             /\ Read(depth, p + 2)
  <2>1. p + 1 <= size /\ text[p + 1] = c
    BY <1>3 DEF Then
  <2>2. p \in 1..size /\ p + 1 \in 1..size /\ text[p] = "/"
    BY <1>1, <1>3, <2>1 DEF On, Here
  <2>3. Modes[p] = "code"
    BY <1>1, <1>3, <2>2 DEF Reads
  <2>4. Follow(p + 1) = c
    BY <2>1, FollowIs
  <2>5. Modes[p + 1] = IF c = "/" THEN "line" ELSE "opening"
    BY <1>2, <1>3, <2>2, <2>3, <2>4, CodeReads
  <2>6. Modes[(p + 1) + 1] = After(Modes[p + 1], text[p + 1], Follow((p + 1) + 1))
    BY <1>2, <2>2
  <2>7. (p + 1) + 1 = p + 2
    BY <1>1
  <2>8. c = "/" => Modes[p + 2] = "line"
    BY <2>1, <2>5, <2>6, <2>7, CommentReads
  <2>9. c = "*" => Modes[p + 2] = "comment"
    BY <2>5, <2>6, <2>7, CommentReads
  <2>10. Read(depth, p + 1)
    BY <1>1, <2>2, ReadOver
  <2>11. Modes[p + 1] # "code"
    BY <2>5
  <2>12. Read(depth, (p + 1) + 1)
    BY <1>1, <2>2, <2>10, <2>11, ReadOver
  <2> QED  BY <2>7, <2>8, <2>9, <2>12
<1>4. ASSUME p <= size, Modes[p] # "code" PROVE Read(depth, p + 1)
  BY <1>1, <1>4, ReadOver
<1>5. CASE LineComment
  <2>1. CASE pc = "span" /\ On("/") /\ Then("/") /\ To("line", p + 2) /\ Keep
    <3>1. pc' = "line" /\ p' = p + 2
      BY <2>1 DEF To
    <3>2. Modes[p + 2] = "line" /\ Read(depth, p + 2)
      BY <1>3, <2>1, <3>1
    <3> QED  BY <1>1, <3>1, <3>2, ReadsHolds
  <2>2. CASE pc = "line" /\ p <= size /\ ~On("\n") /\ To("line", p + 1) /\ Keep
    <3>1. pc' = "line" /\ p' = p + 1
      BY <2>2 DEF To
    <3>2. p \in 1..size /\ text[p] # "\n" /\ Modes[p] = "line"
      BY <1>1, <2>2 DEF On, Here, Reads
    <3>3. Modes[p + 1] = "line"
      BY <1>2, <3>2, CommentReads
    <3>4. Read(depth, p + 1)
      BY <1>4, <3>2
    <3> QED  BY <1>1, <3>1, <3>3, <3>4, ReadsHolds
  <2>3. CASE pc = "line" /\ Here \in {"end", "\n"} /\ To("span", p) /\ Keep
    <3>1. pc' = "span" /\ p' = p /\ Modes[p] = "line"
      BY <1>1, <2>3 DEF To, Reads
    <3>2. p <= size => text[p] # "end"
      <4>1. text \in SpanTexts \cup TrimTexts
        BY DEF Spans, InText
      <4> QED  BY <1>1, <4>1, TextsAssumption DEF size
    <3>3. p <= size => text[p] = "\n"
      BY <2>3, <3>2 DEF Here
    <3> QED  BY <1>1, <3>1, <3>3, ReadsHolds
  <2> QED  BY <1>5, <2>1, <2>2, <2>3 DEF LineComment
<1>6. CASE BlockComment
  <2>1. CASE pc = "span" /\ On("/") /\ Then("*") /\ To("block", p + 2) /\ Keep
    <3>1. pc' = "block" /\ p' = p + 2
      BY <2>1 DEF To
    <3>2. Modes[p + 2] = "comment" /\ Read(depth, p + 2)
      BY <1>3, <2>1, <3>1
    <3> QED  BY <1>1, <3>1, <3>2, ReadsHolds
  <2>2. CASE pc = "block" /\ p + 1 <= size /\ ~(On("*") /\ Then("/")) /\ To("block", p + 1) /\ Keep
    <3>1. pc' = "block" /\ p' = p + 1 /\ Modes[p] = "comment"
      BY <1>1, <2>2 DEF To, Reads
    <3>2. p \in 1..size /\ ~(text[p] = "*" /\ Follow(p + 1) = "/")
      BY <1>1, <2>2, FollowIs DEF On, Here, Then
    <3>3. Modes[p + 1] = "comment"
      BY <1>2, <3>1, <3>2, CommentReads
    <3>4. Read(depth, p + 1)
      BY <1>4, <3>1, <3>2
    <3> QED  BY <1>1, <3>1, <3>3, <3>4, ReadsHolds
  <2>3. CASE pc = "block" /\ On("*") /\ Then("/") /\ To("span", p + 2) /\ Keep
    <3>1. pc' = "span" /\ p' = p + 2 /\ Modes[p] = "comment"
      BY <1>1, <2>3 DEF To, Reads
    <3>2. p + 1 <= size /\ text[p + 1] = "/"
      BY <2>3 DEF Then
    <3>3. p \in 1..size /\ p + 1 \in 1..size /\ text[p] = "*" /\ Follow(p + 1) = "/"
      BY <1>1, <2>3, <3>2, FollowIs DEF On, Here
    <3>4. Modes[p + 1] = "closing"
      BY <1>2, <3>1, <3>3, CommentReads
    <3>5. Modes[(p + 1) + 1] = After(Modes[p + 1], text[p + 1], Follow((p + 1) + 1))
      BY <1>2, <3>3
    <3>6. (p + 1) + 1 = p + 2
      BY <1>1
    <3>7. Modes[p + 2] = "code"
      BY <3>4, <3>5, <3>6, CommentReads
    <3>8. Read(depth, p + 1)
      BY <1>4, <3>1, <3>3
    <3>9. Read(depth, (p + 1) + 1)
      BY <1>1, <3>3, <3>4, <3>8, ReadOver
    <3> QED  BY <1>1, <3>1, <3>6, <3>7, <3>9, ReadsHolds
  <2>4. CASE pc = "block" /\ p + 1 > size /\ To("span", p) /\ Keep
    <3>1. Modes[p] = "comment"
      BY <1>1, <2>4 DEF Reads
    <3>2. p = size \/ p = size + 1
      BY <1>1, <2>4
    <3>3. CASE p = size
      <4>1. p \in 1..size /\ Follow(p + 1) # "/"
        BY <1>1, <3>3, FollowIs
      <4>2. Modes[p + 1] = "comment"
        BY <1>2, <3>1, <4>1, CommentReads
      <4> QED  BY <3>3, <4>2 DEF Unclosed
    <3> QED  BY <3>1, <3>2, <3>3 DEF Unclosed
  <2> QED  BY <1>6, <2>1, <2>2, <2>3, <2>4 DEF BlockComment
<1> QED  BY <1>5, <1>6

LEMMA CodeKeepsSpans ==
  ASSUME Spans, Open \/ Close \/ Code \/ NoEnd, ~Unclosed
  PROVE  Reads'
<1>1. /\ Reads /\ size \in Nat /\ p \in 1..(size + 1) /\ depth \in Nat
      /\ pc = "span" /\ Read(depth, p) /\ text' = text
      /\ depth >= 1 \/ On("(")
  BY SizeIsNatural DEF Spans, Reads, InText, Open, Close, Code, NoEnd, To, Spanning
<1>2. ASSUME p \in 1..size
      PROVE  /\ Modes[p + 1] = After(Modes[p], text[p], Follow(p + 1))
             /\ Modes[p] = "code" \/ (Modes[p] = "line" /\ text[p] = "\n")
  BY <1>1, <1>2, ModesAre DEF Reads
<1>3. ASSUME p \in 1..size, text[p] \in {"(", ")"} PROVE Modes[p] = "code" /\ Modes[p + 1] = "code"
  <2>1. text[p] # "\n" /\ text[p] # "/" /\ text[p] \notin Quotes
    BY <1>3, Characters
  <2> QED  BY <1>2, <1>3, <2>1, CodeReads
<1>4. CASE Open
  <2>1. p \in 1..size /\ text[p] = "(" /\ pc' = "span" /\ p' = p + 1 /\ depth' = depth + 1
    BY <1>1, <1>4 DEF Open, To, On, Here
  <2>2. Modes[p] = "code" /\ Modes[p + 1] = "code"
    BY <1>3, <2>1
  <2>3. Read(depth + 1, p + 1)
    BY <1>1, <2>1, <2>2, ReadOpen
  <2> QED  BY <1>1, <2>1, <2>2, <2>3, ReadsHolds
<1>5. CASE Close
  <2>1. /\ p \in 1..size /\ text[p] = ")" /\ p' = p + 1 /\ depth' = depth - 1 /\ depth # 0
        /\ pc' = IF depth = 1 THEN "found" ELSE "span"
    BY <1>1, <1>5 DEF Close, To, On, Here, Outermost
  <2>2. Modes[p] = "code" /\ Modes[p + 1] = "code"
    BY <1>3, <2>1
  <2>3. /\ depth = 1 => Closers # {} /\ Least(Closers) = p
        /\ depth # 1 => Read(depth - 1, p + 1)
    BY <1>1, <2>1, <2>2, ReadClose
  <2>4. CASE depth = 1
    <3>1. pc' = "found" /\ p' - 1 = p /\ Closers' = Closers
      BY <1>1, <2>1, <2>4, TextStays
    <3> QED  BY <2>3, <2>4, <3>1 DEF Reads, Spanning, Least
  <2>5. CASE depth # 1
    BY <1>1, <2>1, <2>2, <2>3, <2>5, ReadsHolds
  <2> QED  BY <2>4, <2>5
<1>6. CASE Code
  <2>1. /\ pc' = "span" /\ p' = p + 1 /\ depth' = depth
        /\ Here \notin Quotes /\ Here # "(" /\ Here # ")" /\ Here # "end"
    BY <1>6, Zenon DEF Code, To, Keep
  <2>2. p \in 1..size /\ text[p] = Here
    BY <1>1, <2>1 DEF Here
  <2>3. text[p] = "/" => Follow(p + 1) # "/" /\ Follow(p + 1) # "*"
    <3>1. On("/") => ~Then("/") /\ ~Then("*")
      BY <1>6 DEF Code
    <3> QED  BY <2>2, <3>1, FollowIs DEF On, Then
  <2>4. Modes[p + 1] = "code"
    BY <1>2, <2>1, <2>2, <2>3, CodeReads, CommentReads
  <2>5. Read(depth, p + 1)
    BY <1>1, <2>1, <2>2, ReadOver
  <2> QED  BY <1>1, <2>1, <2>4, <2>5, ReadsHolds
<1>7. CASE NoEnd
  <2>1. pc' = "none" /\ p = size + 1
    BY <1>1, <1>7 DEF NoEnd, To
  <2>2. Closers = {}
    <3>1. \A k \in Closes : k \in 1..size
      BY DEF Closes
    <3>2. \A k \in Closers : k \in 1..(p - 1)
      BY <1>1, <2>1, <3>1, ClosersAre
    <3> QED  BY <1>1, <3>2 DEF Read
  <2>3. Closers' = {}
    BY <1>1, <2>2, TextStays
  <2> QED  BY <2>1, <2>3 DEF Reads, Spanning
<1> QED  BY <1>4, <1>5, <1>6, <1>7

LEMMA SpansIsPreserved == Spans /\ [ScanNext]_scanVars => Spans'
<1> SUFFICES ASSUME Spans, [ScanNext]_scanVars PROVE Spans'
  OBVIOUS
<1>1. InText' /\ text' = text
  BY InTextIsPreserved DEF Spans, scanVars, ScanNext, SkipBlank, NoList, List, OpenQuote, Quoted,
     LineComment, BlockComment, Open, Close, Code, NoEnd, TrimAborts, Trim, TrimLeading,
     StartHere, TrimTrailing, EndHere, To
<1>2. Unclosed' = Unclosed
  BY <1>1, TextStays
<1>3. CASE Unclosed
  BY <1>1, <1>2, <1>3 DEF Spans
<1>4. CASE ~Unclosed
  <2>1. CASE UNCHANGED scanVars
    <3>1. Reads'
      BY <1>4, <2>1, TextStays DEF Spans, Reads, scanVars, Least
    <3> QED  BY <1>1, <3>1 DEF Spans
  <2>2. CASE TrimAborts \/ Trim \/ TrimLeading \/ StartHere \/ TrimTrailing \/ EndHere
    <3>1. pc' \in {"abort", "leading", "trailing", "trimmed"}
      BY <2>2 DEF TrimAborts, Trim, TrimLeading, StartHere, TrimTrailing, EndHere, To
    <3>2. Reads'
      BY <3>1 DEF Reads, Spanning
    <3> QED  BY <1>1, <3>2 DEF Spans
  <2>3. CASE SkipBlank \/ NoList \/ List \/ OpenQuote \/ Quoted \/ LineComment \/ BlockComment
             \/ Open \/ Close \/ Code \/ NoEnd
    <3>1. Reads'
      BY <1>4, <2>3, SkipKeepsSpans, QuotesKeepSpans, CommentsKeepSpans, CodeKeepsSpans
    <3> QED  BY <1>1, <3>1 DEF Spans
  <2> QED  BY <2>1, <2>2, <2>3 DEF ScanNext
<1> QED  BY <1>3, <1>4

(* Whatever the text: a recovered _ComptimeType(..) ends at the parenthesis *)
(* that closes it for C, and is found whenever there is one, provided every *)
(* comment is closed.                                                      *)
THEOREM SpanCorrect == ScanSpec => []SpanIsClosed
<1>1. Spans => SpanIsClosed
  BY DEF Spans, Reads, Unclosed, SpanIsClosed
<1> QED  BY <1>1, SpansInitially, SpansIsPreserved, PTL DEF ScanSpec

=============================================================================
