--------------------------- MODULE MCCommandLine ---------------------------
(* Command lines of up to four words behind the compiler: every line of    *)
(* three words, and lines of four in which outputs, values and sources     *)
(* meet.                                                                   *)
EXTENDS CommandLine

MCTexts == {"a", "b"}
One(kinds) == {[kind |-> k, text |-> "a"] : k \in kinds}
Compiler == CHOOSE w \in One({"compiler"}) : TRUE
Lines(words, n) == {<<Compiler>> \o l : l \in [1..n -> words]}
Meeting == One({"-o", "-o<name>", "option value", "word", "source", "-comptime-keep-inter"})
             \cup {[kind |-> "source", text |-> "b"]}
AllWords == One(UserKinds) \cup {[kind |-> "source", text |-> "b"]}

MCVectors == {<<>>} \cup {<<w>> : w \in AllWords}
             \cup UNION {Lines(AllWords, n) : n \in 0..3}
             \cup Lines(Meeting, 4)
=============================================================================
