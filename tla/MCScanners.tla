----------------------------- MODULE MCScanners -----------------------------
(* Every text of up to four characters behind the opening parenthesis, and  *)
(* longer ones over the characters of literals, and those of comments;      *)
(* argument lists of up to five characters.                                *)
EXTENDS Scanners

Behind(chars, n) == UNION {{<<"(">> \o t : t \in [1..k -> chars]} : k \in 0..n}
MCSpanTexts ==
  Behind({"(", ")", "\"", "'", "\\", "/", "*", "\n", "a"}, 4)
    \cup Behind({"(", ")", "\"", "\\"}, 6)
    \cup Behind({")", "/", "*", "\n"}, 6)
    \cup {<<>>, <<" ">>, <<"a">>, <<" ", "(", ")">>, <<"\n", "(">>, <<" ", "a">>}

MCTrimTexts ==
  {<<"(">> \o t \o <<")">> : t \in UNION {[1..k -> {" ", "{", "}", ";", "\n", "a"}] : k \in 0..5}}
=============================================================================
