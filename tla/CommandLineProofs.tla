------------------------- MODULE CommandLineProofs -------------------------
(* Theorems about the sorting of argv, for every set of argument vectors.    *)
EXTENDS CommandLine, SequenceTheorems, WellFoundedInduction, TLAPS

----------------------------------------------------------------------------
(* Lists of indices that grow at their end.                                  *)

LEMMA AppendedIndex ==
  ASSUME NEW s \in Seq(Nat), NEW n \in Nat, Increasing(s), \A x \in Positions(s) : x < n
  PROVE  /\ Increasing(Append(s, n))
         /\ Positions(Append(s, n)) = Positions(s) \cup {n}
         /\ Append(s, n) \in Seq(Nat)
<1> DEFINE t == Append(s, n)
<1>1. /\ Len(s) \in Nat /\ Len(t) = Len(s) + 1 /\ t \in Seq(Nat) /\ t[Len(s) + 1] = n
      /\ \A k \in 1..Len(s) : t[k] = s[k] /\ s[k] \in Nat
  OBVIOUS
<1>2. \A k \in 1..Len(s) : t[k] < n
  BY <1>1 DEF Positions
<1>3. Increasing(t)
  <2> SUFFICES ASSUME NEW k \in 1..Len(t), NEW l \in 1..Len(t), k < l PROVE t[k] < t[l]
    BY DEF Increasing
  <2>1. CASE l = Len(s) + 1
    <3>1. k \in 1..Len(s)
      BY <1>1, <2>1
    <3> QED  BY <1>1, <1>2, <2>1, <3>1
  <2>2. CASE l # Len(s) + 1
    <3>1. k \in 1..Len(s) /\ l \in 1..Len(s)
      BY <1>1, <2>2
    <3> QED  BY <1>1, <3>1 DEF Increasing
  <2> QED  BY <2>1, <2>2
<1>4. Positions(t) = Positions(s) \cup {n}
  <2>1. 1..Len(t) = 1..Len(s) \cup {Len(s) + 1}
    BY <1>1
  <2>2. \A x \in Positions(t) : x \in Positions(s) \cup {n}
    BY <1>1, <2>1 DEF Positions
  <2>3. \A x \in Positions(s) \cup {n} : x \in Positions(t)
    BY <1>1, <2>1 DEF Positions
  <2> QED  BY <2>2, <2>3
<1> QED  BY <1>1, <1>3, <1>4

LEMMA TwoAppended ==
  ASSUME NEW s \in Seq(Nat), NEW n \in Nat
  PROVE  s \o <<n, n + 1>> = Append(Append(s, n), n + 1)
OBVIOUS

LEMMA PositionsAreIndices ==
  ASSUME NEW S, NEW s \in Seq(S)
  PROVE  Positions(s) \subseteq S
BY DEF Positions

LEMMA ListOfIndices ==
  ASSUME NEW s \in Seq(Nat), NEW S, Positions(s) \subseteq S
  PROVE  s \in Seq(S)
<1>1. \A k \in 1..Len(s) : s[k] \in S
  BY DEF Positions
<1> QED  BY <1>1

----------------------------------------------------------------------------
(* What the loop of CliArgs_parse keeps: the lists hold what is behind i.    *)
Indices(list, last, next) ==
  /\ list \in Seq(Nat) /\ Increasing(list)
  /\ Positions(list) \subseteq 2..last
  /\ \A x \in Positions(list) : x < next
Argv == Word \cup {Made("wrapper", t) : t \in Texts}

Sorted ==
  /\ given \in Seq(Word) /\ argv \in Seq(Argv) /\ Len(argv) = Len(given)
  /\ pc \in {"cli", "parse", "next input", "run runner"} \cup Ended
  /\ i \in 2..(Len(given) + 2)
  /\ pc \in {"cli", "parse"} => argv = given
  /\ Indices(input_files, Len(given), i) /\ Indices(flags, Len(given), i)
  /\ Indices(output_files, Len(given) + 1, i)
  /\ cct_flags \in SUBSET ToolFlags
  /\ file \in Nat \ {0}
  /\ pc = "run runner" => file <= Len(input_files)
  /\ Positions(input_files) \cap Positions(output_files) = {}
  /\ Positions(input_files) \cap Positions(flags) = {}
  /\ Positions(output_files) \cap Positions(flags) = {}
  /\ \A k \in 2..(i - 1) :
       \/ k \in Positions(input_files) \cup Positions(output_files) \cup Positions(flags)
       \/ given[k].kind \in cct_flags

LEMMA SortedInitially == CliInit => Sorted
<1> SUFFICES ASSUME CliInit PROVE Sorted
  OBVIOUS
<1>1. given \in Seq(Word) /\ argv = given /\ Len(given) \in Nat
  BY VectorsAssumption DEF CliInit
<1>2. argv \in Seq(Argv)
  BY <1>1 DEF Argv
<1>3. Positions(<<>>) = {} /\ Increasing(<<>>) /\ <<>> \in Seq(Nat)
  BY DEF Positions, Increasing
<1> QED  BY <1>1, <1>2, <1>3 DEF CliInit, Sorted, Indices

LEMMA SortedTypes ==
  ASSUME Sorted
  PROVE  /\ Len(given) \in Nat /\ argv \in Seq(Argv) /\ Len(argv) = Len(given)
         /\ argc = Len(given) + 1
         /\ input_files \in Seq(2..Len(given)) /\ flags \in Seq(2..Len(given))
         /\ output_files \in Seq(2..argc)
         /\ file \in Nat /\ file # 0
<1>1. /\ given \in Seq(Word) /\ argv \in Seq(Argv) /\ Len(argv) = Len(given)
      /\ Indices(input_files, Len(given), i) /\ Indices(flags, Len(given), i)
      /\ Indices(output_files, Len(given) + 1, i)
      /\ file \in Nat \ {0}
  BY DEF Sorted
<1>2. Len(given) \in Nat
  BY <1>1
<1>3. argc = Len(given) + 1
  BY <1>1 DEF argc
<1>4. input_files \in Seq(2..Len(given)) /\ flags \in Seq(2..Len(given))
      /\ output_files \in Seq(2..(Len(given) + 1))
  BY <1>1, ListOfIndices DEF Indices
<1> QED  BY <1>1, <1>2, <1>3, <1>4

LEMMA WordsHaveTexts == ASSUME NEW w \in Argv PROVE w.text \in Texts
<1>1. CASE w \in Word
  BY <1>1 DEF Word
<1>2. CASE w \in {Made("wrapper", t) : t \in Texts}
  BY <1>2 DEF Made
<1> QED  BY <1>1, <1>2 DEF Argv

LEMMA IndicesGrow ==
  ASSUME NEW list, NEW last \in Nat, NEW n \in 2..last, Indices(list, last, n)
  PROVE  /\ Indices(Append(list, n), last, n + 1)
         /\ Positions(Append(list, n)) = Positions(list) \cup {n}
<1>1. /\ Increasing(Append(list, n)) /\ Append(list, n) \in Seq(Nat)
      /\ Positions(Append(list, n)) = Positions(list) \cup {n}
  BY AppendedIndex DEF Indices
<1>2. \A x \in Positions(list) : x \in Int /\ x < n
  BY DEF Indices
<1> QED  BY <1>1, <1>2 DEF Indices

LEMMA IndicesStay ==
  ASSUME NEW list, NEW last \in Nat, NEW n \in Nat, NEW m \in Nat, n <= m,
         Indices(list, last, n)
  PROVE  Indices(list, last, m)
<1>1. \A x \in Positions(list) : x \in Int /\ x < n
  BY DEF Indices
<1> QED  BY <1>1 DEF Indices

(* One word, or an output with its operand, goes to one place.              *)
LEMMA ScanKeepsSorted ==
  ASSUME Sorted, ScanOutput \/ ScanTool \/ ScanInput \/ ScanFlag
  PROVE  Sorted'
<1> DEFINE last == Len(given)
<1>0. /\ given' = given /\ argv' = argv /\ pc' = pc /\ file' = file
      /\ pc = "parse" /\ argv = given /\ last \in Nat /\ i \in 2..last
  <2>1. /\ UNCHANGED <<given, argv, pc, file>> /\ pc = "parse" /\ i < argc
    BY DEF ScanOutput, ScanTool, ScanInput, ScanFlag, At, Past
  <2>2. Len(given) \in Nat /\ Len(argv) = Len(given) /\ i \in 2..(Len(given) + 2) /\ argv = given
    BY <2>1 DEF Sorted
  <2> QED  BY <2>1, <2>2 DEF argc
<1> DEFINE In(k) == k \in Positions(input_files)
           Out(k) == k \in Positions(output_files)
           Flag(k) == k \in Positions(flags)
<1>1. \A k : (In(k) \/ Out(k) \/ Flag(k)) => k \in Nat /\ k < i
  <2>1. Indices(input_files, last, i) /\ Indices(flags, last, i) /\ Indices(output_files, last + 1, i)
    BY DEF Sorted
  <2>2. \A k : k \in 2..last \/ k \in 2..(last + 1) => k \in Nat
    BY <1>0
  <2> QED  BY <2>1, <2>2 DEF Indices
<1>2. /\ ~\E k : In(k) /\ Out(k)
      /\ ~\E k : In(k) /\ Flag(k)
      /\ ~\E k : Out(k) /\ Flag(k)
      /\ \A k \in 2..(i - 1) : In(k) \/ Out(k) \/ Flag(k) \/ given[k].kind \in cct_flags
  BY DEF Sorted
<1>3. ASSUME NEW n \in {i + 1, i + 2}
      PROVE  /\ Indices(input_files, last, n) /\ Indices(flags, last, n)
             /\ Indices(output_files, last + 1, n)
  BY <1>0, <1>3, IndicesStay DEF Sorted
<1>4. CASE ScanOutput
  <2>1. /\ i' = i + 2 /\ UNCHANGED <<input_files, flags, cct_flags>>
        /\ output_files' = Append(Append(output_files, i), i + 1)
    BY <1>0, <1>4, TwoAppended DEF ScanOutput, Past, Sorted, Indices
  <2>2. /\ Indices(Append(output_files, i), last + 1, i + 1)
        /\ Positions(Append(output_files, i)) = Positions(output_files) \cup {i}
    BY <1>0, IndicesGrow DEF Sorted
  <2>3. /\ Indices(output_files', last + 1, i + 2)
        /\ Positions(output_files') = Positions(output_files) \cup {i, i + 1}
    BY <1>0, <2>1, <2>2, IndicesGrow
  <2>4. \A k \in 2..(i' - 1) : In(k) \/ Flag(k) \/ k \in Positions(output_files')
                               \/ given[k].kind \in cct_flags
    BY <1>0, <1>2, <2>1, <2>3
  <2>5. Positions(input_files) \cap Positions(output_files') = {}
        /\ Positions(output_files') \cap Positions(flags) = {}
    BY <1>0, <1>1, <1>2, <2>3
  <2> QED  BY <1>0, <1>3, <2>1, <2>3, <2>4, <2>5 DEF Sorted
<1>5. CASE ScanTool
  <2>1. /\ i' = i + 1 /\ UNCHANGED <<input_files, output_files, flags>>
        /\ cct_flags' = cct_flags \cup {given[i].kind} /\ given[i].kind \in ToolFlags
    BY <1>0, <1>5 DEF ScanTool, At, Past
  <2>2. \A k \in 2..(i' - 1) : In(k) \/ Out(k) \/ Flag(k) \/ given[k].kind \in cct_flags'
    BY <1>0, <1>2, <2>1
  <2> QED  BY <1>0, <1>3, <2>1, <2>2 DEF Sorted
<1>6. CASE ScanInput
  <2>1. /\ i' = i + 1 /\ UNCHANGED <<output_files, flags, cct_flags>>
        /\ input_files' = Append(input_files, i)
    BY <1>6 DEF ScanInput, Past
  <2>2. /\ Indices(input_files', last, i + 1)
        /\ Positions(input_files') = Positions(input_files) \cup {i}
    BY <1>0, <2>1, IndicesGrow DEF Sorted
  <2>3. \A k \in 2..(i' - 1) : k \in Positions(input_files') \/ Out(k) \/ Flag(k)
                               \/ given[k].kind \in cct_flags
    BY <1>0, <1>2, <2>1, <2>2
  <2>4. Positions(input_files') \cap Positions(output_files) = {}
        /\ Positions(input_files') \cap Positions(flags) = {}
    BY <1>0, <1>1, <1>2, <2>2
  <2> QED  BY <1>0, <1>3, <2>1, <2>2, <2>3, <2>4 DEF Sorted
<1>7. CASE ScanFlag
  <2>1. /\ i' = i + 1 /\ UNCHANGED <<input_files, output_files, cct_flags>>
        /\ flags' = Append(flags, i)
    BY <1>7 DEF ScanFlag, Past
  <2>2. Indices(flags', last, i + 1) /\ Positions(flags') = Positions(flags) \cup {i}
    BY <1>0, <2>1, IndicesGrow DEF Sorted
  <2>3. \A k \in 2..(i' - 1) : In(k) \/ Out(k) \/ k \in Positions(flags')
                               \/ given[k].kind \in cct_flags
    BY <1>0, <1>2, <2>1, <2>2
  <2>4. Positions(input_files) \cap Positions(flags') = {}
        /\ Positions(output_files) \cap Positions(flags') = {}
    BY <1>0, <1>1, <1>2, <2>2
  <2> QED  BY <1>0, <1>3, <2>1, <2>2, <2>3, <2>4 DEF Sorted
<1> QED  BY <1>4, <1>5, <1>6, <1>7

(* Behind the parse only a word of argv is overwritten, by a wrapper.       *)
LEMMA CompileKeepsSorted ==
  ASSUME Sorted, Cli \/ Usage \/ ScanUnknown \/ Parsed \/ Compile \/ UNCHANGED cliVars
  PROVE  Sorted'
<1>1. ASSUME UNCHANGED <<given, i, lists>>, argv' \in Seq(Argv), Len(argv') = Len(argv),
             pc' \in {"cli", "parse", "next input", "run runner"} \cup Ended,
             pc' \in {"cli", "parse"} => argv' = given,
             file' \in Nat \ {0}, pc' = "run runner" => file' <= Len(input_files)
      PROVE  Sorted'
  BY <1>1 DEF Sorted, lists
<1>2. CASE Cli \/ Usage \/ ScanUnknown \/ Parsed \/ RunFileAborts \/ UNCHANGED cliVars
  BY <1>1, <1>2 DEF Cli, Usage, ScanUnknown, Parsed, RunFileAborts, At, Goto, Sorted, Ended,
     cliVars
<1>3. CASE CompileRunner \/ FinalCompile
  BY <1>1, <1>3 DEF CompileRunner, FinalCompile, AtInput, Sorted, Ended
<1>4. CASE RunRunner
  <2> DEFINE k == input_files[file]
  <2>1. /\ UNCHANGED <<given, i, lists>> /\ pc = "run runner"
        /\ \/ /\ pc' = "next input" /\ file' = file + 1
              /\ argv' = [argv EXCEPT ![k] = Made("wrapper", Source)]
           \/ pc' = "failed" /\ file' = file /\ argv' = argv
    BY <1>4 DEF RunRunner
  <2>2. file <= Len(input_files)
    BY <2>1 DEF Sorted
  <2>3. k \in 1..Len(argv)
    <3>1. k \in 2..Len(given)
      BY <2>2, SortedTypes
    <3> QED  BY <3>1, SortedTypes
  <2>4. Made("wrapper", Source) \in Argv
    <3>1. argv[k] \in Argv
      BY <2>3, SortedTypes
    <3>2. Source \in Texts
      BY <3>1, WordsHaveTexts DEF Source
    <3> QED  BY <3>2 DEF Argv
  <2>5. argv' \in Seq(Argv) /\ Len(argv') = Len(argv)
    <3> HIDE DEF k
    <3>1. [argv EXCEPT ![k] = Made("wrapper", Source)] \in Seq(Argv)
          /\ Len([argv EXCEPT ![k] = Made("wrapper", Source)]) = Len(argv)
      BY <2>3, <2>4, SortedTypes
    <3> QED  BY <2>1, <3>1, SortedTypes DEF k
  <2>6. file' \in Nat \ {0}
    <3>1. file' = file \/ file' = file + 1
      BY <2>1
    <3> QED  BY <3>1, SortedTypes
  <2> QED  BY <1>1, <2>1, <2>5, <2>6 DEF Ended
<1> QED  BY <1>2, <1>3, <1>4 DEF Compile

(* Every word that was passed has one role, whatever the vectors are.       *)
THEOREM OneRoleCorrect == CliSpec => []OneRoleEach
<1>1. Sorted /\ [CliNext]_cliVars => Sorted'
  BY ScanKeepsSorted, CompileKeepsSorted DEF CliNext, Parse
<1>2. Sorted => OneRoleEach
  <2> SUFFICES ASSUME Sorted PROVE OneRoleEach
    OBVIOUS
  <2>1. /\ given \in Seq(Word) /\ cct_flags \in SUBSET ToolFlags
        /\ pc \in {"cli", "parse", "next input", "run runner"} \cup Ended
        /\ i \in 2..(Len(given) + 2)
    BY DEF Sorted
  <2>2. i \in 2..(argc + 2)
    <3>1. Len(given) \in Nat /\ argc = Len(given) + 1
      BY SortedTypes
    <3>2. \A n \in Nat : 2..(n + 2) \subseteq 2..(n + 3)
      OBVIOUS
    <3>3. argc + 2 = Len(given) + 3
      BY <3>1
    <3>4. 2..(Len(given) + 2) \subseteq 2..(Len(given) + 3)
      BY <3>1, <3>2
    <3> QED  BY <2>1, <3>3, <3>4, Zenon
  <2>3. CliTypeOK
    <3>1. argv \in Seq(Word \cup {Made("wrapper", t) : t \in Texts}) /\ Len(argv) = Len(given)
      BY SortedTypes, Zenon DEF Argv
    <3>2. /\ input_files \in Seq(2..Len(given)) /\ flags \in Seq(2..Len(given))
          /\ output_files \in Seq(2..argc) /\ file \in Nat \ {0}
      BY SortedTypes
    <3> QED  BY <2>1, <2>2, <3>1, <3>2, Zenon DEF CliTypeOK
  <2> QED  BY <2>3 DEF Sorted, Indices, OneRoleEach
<1> QED  BY <1>1, <1>2, SortedInitially, PTL DEF CliSpec

-----------------------------------------------------------------------------
(* What a compiler hears.                                                  *)

LEMMA LeastExists ==
  ASSUME NEW T \in SUBSET Nat, T # {}
  PROVE  \E x \in T : \A y \in T : x <= y
<1>1. PICK x \in T : \A y \in T : ~(<<y, x>> \in OpToRel(<, Nat))
  BY NatLessThanWellFounded, WFMin
<1>2. \A y \in T : ~(y < x)
  BY <1>1 DEF OpToRel
<1> QED  BY <1>2

(* What holds at the first of some places, and from each to the next, holds *)
(* at all of them.                                                          *)
LEMMA EveryPlace ==
  ASSUME NEW first \in Nat, NEW last \in Nat, NEW G, first \in G,
         \A k \in (first + 1)..last : k - 1 \in G => k \in G
  PROVE  \A k \in first..last : k \in G
<1> DEFINE T == {k \in first..last : k \notin G}
<1> SUFFICES ASSUME T # {} PROVE FALSE
  OBVIOUS
<1>1. PICK k \in T : \A j \in T : k <= j
  <2>1. T \in SUBSET Nat
    OBVIOUS
  <2> QED  BY <2>1, LeastExists
<1>2. k \in first..last /\ k \notin G /\ k # first
  OBVIOUS
<1>3. k - 1 \in first..last /\ k \in (first + 1)..last /\ ~(k <= k - 1)
  BY <1>2
<1>4. k - 1 \in G
  BY <1>1, <1>3
<1> QED  BY <1>2, <1>3, <1>4

(* The recursive function of HeardBut exists, for lines of any length.      *)
LEMMA HeardButIs ==
  ASSUME NEW words, NEW omitted, Len(words) \in Nat
  PROVE  \E h : /\ HeardBut(words, omitted) = h[Len(words)]
                /\ h[0] = Told0
                /\ \A k \in 1..Len(words) :
                     h[k] = IF k \in omitted THEN h[k - 1] ELSE Hear(h[k - 1], words[k])
<1> DEFINE n == Len(words)
           Step(k, told) == IF k \in omitted THEN told ELSE Hear(told, words[k])
           Up(g, m) == [k \in 0..m |-> IF k = 0 THEN Told0 ELSE Step(k, g[k - 1])]
           heard == CHOOSE g : g = Up(g, n)
<1>1. \A m \in Nat : \E g : g = Up(g, m)
  <2> DEFINE T == {m \in Nat : ~\E g : g = Up(g, m)}
  <2> SUFFICES ASSUME T # {} PROVE FALSE
    OBVIOUS
  <2>1. T \in SUBSET Nat
    OBVIOUS
  <2>2. PICK m \in T : \A k \in T : m <= k
    <3> HIDE DEF T
    <3> QED  BY <2>1, LeastExists
  <2>3. m # 0
    <3> DEFINE g == [k \in 0..0 |-> Told0]
    <3>1. g = Up(g, 0)
      OBVIOUS
    <3> QED  BY <2>2, <3>1
  <2>4. m - 1 \in Nat /\ m - 1 \notin T /\ m \in Nat
    <3> HIDE DEF T
    <3> QED  BY <2>1, <2>2, <2>3
  <2>5. PICK g : g = Up(g, m - 1)
    BY <2>4
  <2> DEFINE h == [k \in 0..m |-> IF k = m THEN Step(m, g[m - 1]) ELSE g[k]]
  <2>6. \A k \in 0..(m - 1) : g[k] = IF k = 0 THEN Told0 ELSE Step(k, g[k - 1])
    BY <2>5
  <2>7. \A k \in 0..m : h[k] = IF k = 0 THEN Told0 ELSE Step(k, h[k - 1])
    <3>1. (\A k \in 0..(m - 1) : h[k] = g[k]) /\ h[m] = Step(m, g[m - 1])
      BY <2>3, <2>4
    <3> HIDE DEF h, T
    <3>2. ASSUME NEW k \in 0..m, k = m
          PROVE  h[k] = IF k = 0 THEN Told0 ELSE Step(k, h[k - 1])
      BY <2>3, <2>4, <3>1, <3>2
    <3>3. ASSUME NEW k \in 0..m, k # m
          PROVE  h[k] = IF k = 0 THEN Told0 ELSE Step(k, h[k - 1])
      <4>1. k \in 0..(m - 1) /\ h[k] = g[k]
        BY <2>4, <3>1, <3>3
      <4>2. k # 0 => h[k - 1] = g[k - 1]
        BY <2>4, <3>1, <4>1
      <4> QED  BY <2>6, <4>1, <4>2
    <3> QED  BY <3>2, <3>3
  <2>8. h = Up(h, m)
    <3>1. Up(h, m) = [k \in 0..m |-> h[k]]
      BY <2>7, Zenon
    <3>2. h = [k \in 0..m |-> h[k]]
      BY Zenon
    <3> HIDE DEF Up, h
    <3> QED  BY <3>1, <3>2, Zenon
  <2> QED  BY <2>2, <2>8
<1>2. heard = Up(heard, n)
  <2>1. \E g : g = Up(g, n)
    BY <1>1, Zenon
  <2> QED  BY <2>1, Zenon
<1>3. HeardBut(words, omitted) = heard[n]
  BY Zenon DEF HeardBut
<1> HIDE DEF heard
<1>4. \A k \in 0..n : heard[k] = IF k = 0 THEN Told0 ELSE Step(k, heard[k - 1])
  BY <1>2
<1>5. heard[0] = Told0
  BY <1>4
<1>6. \A k \in 1..n : heard[k] = Step(k, heard[k - 1])
  BY <1>4
<1> QED  BY <1>3, <1>5, <1>6

LEMMA HeardIs ==
  ASSUME NEW words, Len(words) \in Nat
  PROVE  \E h : /\ Heard(words) = h[Len(words)]
                /\ h[0] = Told0
                /\ \A k \in 1..Len(words) : h[k] = Hear(h[k - 1], words[k])
BY HeardButIs DEF Heard

(* One word, by what it is taken for.                                      *)
FlagKinds == {"compiler", "-o<name>", "option", "option value", "word"}
Expecting == {"none", "value"}

LEMMA FlagIsHeard ==
  ASSUME NEW told, NEW w, told.expects \in Expecting, w.kind \in FlagKinds
  PROVE  \/ Hear(told, w) = [told EXCEPT !.expects = "none", !.options = Append(@, w)]
         \/ Hear(told, w) = [told EXCEPT !.outputs = Append(@, w)]
         \/ Hear(told, w) = [told EXCEPT !.expects = "value", !.options = Append(@, w)]
         \/ Hear(told, w) = [told EXCEPT !.words = Append(@, w)]
         \/ Hear(told, w) = [told EXCEPT !.options = Append(@, w)]
BY Zenon DEF Hear, FlagKinds, Expecting

LEMMA WordIsHeard ==
  ASSUME NEW told, NEW w
  PROVE  /\ told.expects = "value" =>
              Hear(told, w) = [told EXCEPT !.expects = "none", !.options = Append(@, w)]
         /\ told.expects = "none" /\ w.kind = "option" =>
              Hear(told, w) = [told EXCEPT !.options = Append(@, w)]
         /\ told.expects = "none" /\ w.kind = "source" =>
              Hear(told, w) = [told EXCEPT !.sources = Append(@, w)]
         /\ told.expects = "none" /\ w.kind = "-o" =>
              Hear(told, w) = [told EXCEPT !.expects = "output"]
         /\ told.expects = "output" =>
              Hear(told, w) = [told EXCEPT !.expects = "none", !.outputs = Append(@, w)]
<1>1. told.expects = "value" =>
        Hear(told, w) = [told EXCEPT !.expects = "none", !.options = Append(@, w)]
  BY Zenon DEF Hear
<1>2. told.expects = "none" /\ w.kind = "option" =>
        Hear(told, w) = [told EXCEPT !.options = Append(@, w)]
  BY Zenon DEF Hear
<1>3. told.expects = "none" /\ w.kind = "source" =>
        Hear(told, w) = [told EXCEPT !.sources = Append(@, w)]
  BY Zenon DEF Hear
<1>4. told.expects = "none" /\ w.kind = "-o" => Hear(told, w) = [told EXCEPT !.expects = "output"]
  BY Zenon DEF Hear
<1>5. told.expects = "output" =>
        Hear(told, w) = [told EXCEPT !.expects = "none", !.outputs = Append(@, w)]
  BY Zenon DEF Hear
<1> QED  BY <1>1, <1>2, <1>3, <1>4, <1>5

(* Lines in which the record keeps its shape.                              *)
ToldOf(S) ==
  [expects : {"none", "value", "output"}, sources : Seq(S), words : Seq(S),
   options : Seq(S), outputs : Seq(S)]

(* The words of the flags name no source and leave no output to be named.   *)
LEMMA FlagsAreHeard ==
  ASSUME NEW S, NEW told \in ToldOf(S), NEW w \in S,
         told.expects \in Expecting, w.kind \in FlagKinds
  PROVE  /\ Hear(told, w) \in ToldOf(S) /\ Hear(told, w).expects \in Expecting
         /\ Hear(told, w).sources = told.sources
<1>1. /\ told.sources \in Seq(S) /\ Append(told.options, w) \in Seq(S)
      /\ Append(told.outputs, w) \in Seq(S) /\ Append(told.words, w) \in Seq(S)
  BY DEF ToldOf
<1>2. "none" \in Expecting /\ "value" \in Expecting
  BY DEF Expecting
<1>3. CASE Hear(told, w) = [told EXCEPT !.expects = "none", !.options = Append(@, w)]
  BY <1>1, <1>2, <1>3 DEF ToldOf
<1>4. CASE Hear(told, w) = [told EXCEPT !.outputs = Append(@, w)]
  BY <1>1, <1>2, <1>4 DEF ToldOf
<1>5. CASE Hear(told, w) = [told EXCEPT !.expects = "value", !.options = Append(@, w)]
  BY <1>1, <1>2, <1>5 DEF ToldOf
<1>6. CASE Hear(told, w) = [told EXCEPT !.words = Append(@, w)]
  BY <1>1, <1>2, <1>6 DEF ToldOf
<1>7. CASE Hear(told, w) = [told EXCEPT !.options = Append(@, w)]
  BY <1>1, <1>2, <1>7 DEF ToldOf
<1> QED  BY <1>3, <1>4, <1>5, <1>6, <1>7, FlagIsHeard

(* An option that stands alone ends the wait for a value.                   *)
LEMMA OptionIsHeard ==
  ASSUME NEW S, NEW told \in ToldOf(S), NEW w \in S,
         told.expects \in Expecting, w.kind = "option"
  PROVE  /\ Hear(told, w) \in ToldOf(S) /\ Hear(told, w).expects = "none"
         /\ Hear(told, w).sources = told.sources /\ Hear(told, w).outputs = told.outputs
<1>1. told.expects = "none" \/ told.expects = "value"
  BY DEF Expecting
<1>2. Append(told.options, w) \in Seq(S)
  BY DEF ToldOf
<1>3. CASE told.expects = "none"
  <2>1. Hear(told, w) = [told EXCEPT !.options = Append(@, w)]
    BY <1>3, WordIsHeard
  <2> QED  BY <1>2, <1>3, <2>1 DEF ToldOf
<1>4. CASE told.expects = "value"
  <2>1. Hear(told, w) = [told EXCEPT !.expects = "none", !.options = Append(@, w)]
    BY <1>4, WordIsHeard
  <2> QED  BY <1>2, <2>1 DEF ToldOf
<1> QED  BY <1>1, <1>3, <1>4

LEMMA SourceIsHeard ==
  ASSUME NEW S, NEW told \in ToldOf(S), NEW w \in S,
         told.expects = "none", w.kind = "source"
  PROVE  /\ Hear(told, w) \in ToldOf(S) /\ Hear(told, w).expects = "none"
         /\ Hear(told, w).sources = Append(told.sources, w)
<1>1. Append(told.sources, w) \in Seq(S)
  BY DEF ToldOf
<1>2. Hear(told, w) = [told EXCEPT !.sources = Append(@, w)]
  BY WordIsHeard
<1> QED  BY <1>1, <1>2 DEF ToldOf

LEMMA OutputIsHeard ==
  ASSUME NEW S, NEW told \in ToldOf(S), NEW w \in S, NEW o \in S,
         told.expects = "none", o.kind = "-o"
  PROVE  /\ Hear(Hear(told, o), w) \in ToldOf(S)
         /\ Hear(Hear(told, o), w).expects = "none"
         /\ Hear(Hear(told, o), w).sources = told.sources
         /\ Hear(Hear(told, o), w).outputs = Append(told.outputs, w)
<1> DEFINE due == Hear(told, o)
<1>1. due \in ToldOf(S) /\ due.expects = "output" /\ due.sources = told.sources
      /\ due.outputs = told.outputs
  <2>1. due = [told EXCEPT !.expects = "output"]
    BY WordIsHeard
  <2> HIDE DEF due
  <2> QED  BY <2>1 DEF ToldOf
<1>2. Append(told.outputs, w) \in Seq(S)
  BY DEF ToldOf
<1> DEFINE named == Hear(due, w)
<1> HIDE DEF due, named
<1>3. named = [due EXCEPT !.expects = "none", !.outputs = Append(@, w)]
  BY <1>1, WordIsHeard DEF named
<1>4. /\ named \in ToldOf(S) /\ named.expects = "none"
      /\ named.sources = told.sources /\ named.outputs = Append(told.outputs, w)
  BY <1>1, <1>2, <1>3 DEF ToldOf
<1> QED  BY <1>4 DEF due, named

(* A line of flags, options, the template, an output and options.           *)
LEMMA RunnerLineIsHeard ==
  ASSUME NEW S, NEW line \in Seq(S), NEW n \in Nat, NEW d \in Nat \ {0}, NEW r \in Nat,
         Len(line) = n + d + 3 + r,
         \A k \in 1..n : line[k].kind \in FlagKinds,
         \A k \in (n + 1)..(n + d) : line[k].kind = "option",
         line[n + d + 1] = Templ, line[n + d + 2] = Dash_o,
         \A k \in (n + d + 4)..Len(line) : line[k].kind = "option"
  PROVE  LET told == Told(line)
         IN /\ told.sources = <<Templ>>
            /\ told.outputs[Len(told.outputs)] = line[n + d + 3]
<1> DEFINE m == n + d
<1>1. PICK h : /\ Heard(line) = h[Len(line)]
               /\ h[0] = Told0
               /\ \A k \in 1..Len(line) : h[k] = Hear(h[k - 1], line[k])
  <2>1. Len(line) \in Nat
    OBVIOUS
  <2> QED  BY <2>1, HeardIs
<1>2. \A k \in 1..Len(line) : line[k] \in S
  OBVIOUS
<1> DEFINE Flags(k) == h[k] \in ToldOf(S) /\ h[k].expects \in Expecting /\ h[k].sources = <<>>
           Plain(k) == h[k] \in ToldOf(S) /\ h[k].expects = "none"
<1>3. \A k \in 0..n : Flags(k)
  <2>1. Flags(0)
    BY <1>1 DEF Told0, ToldOf, Expecting
  <2>2. ASSUME NEW k \in 1..n, Flags(k - 1) PROVE Flags(k)
    <3>1. k \in 1..Len(line) /\ line[k].kind \in FlagKinds
      OBVIOUS
    <3>2. h[k] = Hear(h[k - 1], line[k]) /\ line[k] \in S
      BY <1>1, <1>2, <3>1
    <3>3. h[k - 1] \in ToldOf(S) /\ h[k - 1].expects \in Expecting /\ h[k - 1].sources = <<>>
      BY <2>2
    <3> HIDE DEF Flags
    <3> DEFINE before == h[k - 1]
               word == line[k]
    <3>4. before \in ToldOf(S) /\ before.expects \in Expecting /\ word \in S /\ word.kind \in FlagKinds
      BY <3>1, <3>2, <3>3
    <3> HIDE DEF before, word
    <3>5. /\ Hear(before, word) \in ToldOf(S) /\ Hear(before, word).expects \in Expecting
          /\ Hear(before, word).sources = before.sources
      BY ONLY <3>4, FlagsAreHeard, Zenon
    <3>6. h[k] = Hear(before, word) /\ before.sources = <<>>
      BY <3>2, <3>3 DEF before, word
    <3> QED  BY <3>5, <3>6 DEF Flags
  <2> HIDE DEF Flags
  <2> DEFINE G == {k \in 0..n : Flags(k)}
  <2>3. 0 \in 0..n /\ 0 + 1 = 1 /\ 0 \in Nat /\ 1..n \subseteq 0..n
    OBVIOUS
  <2>4. 0 \in G /\ \A k \in (0 + 1)..n : k - 1 \in G => k \in G
    BY ONLY <2>1, <2>2, <2>3, Zenon
  <2> HIDE DEF G
  <2>5. \A k \in 0..n : k \in G
    BY <2>3, <2>4, EveryPlace, Zenon
  <2> QED  BY ONLY <2>5, Zenon DEF G
<1>4. \A k \in (n + 1)..m : Plain(k) /\ h[k].sources = <<>>
  <2> DEFINE Q(k) == Plain(k) /\ h[k].sources = <<>>
  <2>1. Q(n + 1)
    <3>1. n + 1 \in 1..Len(line) /\ line[n + 1].kind = "option" /\ (n + 1) - 1 = n /\ n \in 0..n
      OBVIOUS
    <3>2. h[n + 1] = Hear(h[n], line[n + 1]) /\ Flags(n) /\ line[n + 1] \in S
      BY <1>1, <1>2, <1>3, <3>1
    <3> QED  BY <3>1, <3>2, OptionIsHeard
  <2>2. ASSUME NEW k \in (n + 2)..m, Q(k - 1) PROVE Q(k)
    <3>1. k \in 1..Len(line) /\ line[k].kind = "option"
      OBVIOUS
    <3>2. h[k] = Hear(h[k - 1], line[k]) /\ line[k] \in S
      BY <1>1, <1>2, <3>1
    <3>3. h[k - 1].expects \in Expecting
      BY <2>2 DEF Expecting
    <3> QED  BY <2>2, <3>1, <3>2, <3>3, OptionIsHeard
  <2> HIDE DEF Q
  <2> DEFINE G == {k \in (n + 1)..m : Q(k)}
  <2>3. /\ n + 1 \in (n + 1)..m /\ (n + 1) + 1 = n + 2 /\ n + 1 \in Nat /\ m \in Nat
        /\ (n + 2)..m \subseteq (n + 1)..m
    OBVIOUS
  <2>4. n + 1 \in G /\ \A k \in ((n + 1) + 1)..m : k - 1 \in G => k \in G
    BY ONLY <2>1, <2>2, <2>3, Zenon
  <2> HIDE DEF G
  <2>5. \A k \in (n + 1)..m : k \in G
    BY <2>3, <2>4, EveryPlace, Zenon
  <2> QED  BY <2>5 DEF G, Q
<1>5. Plain(m) /\ h[m].sources = <<>> /\ m \in Nat
  <2>1. m \in (n + 1)..m
    OBVIOUS
  <2> QED  BY <1>4, <2>1
<1>6. /\ m + 1 \in 1..Len(line) /\ m + 2 \in 1..Len(line) /\ m + 3 \in 1..Len(line)
      /\ (m + 1) - 1 = m /\ (m + 2) - 1 = m + 1 /\ (m + 3) - 1 = m + 2
  OBVIOUS
<1> HIDE DEF m
<1>7. Plain(m + 1) /\ h[m + 1].sources = <<Templ>>
  <2>1. h[m + 1] = Hear(h[m], Templ) /\ Templ \in S
    BY <1>1, <1>2, <1>6 DEF m
  <2>2. Templ.kind = "source"
    BY DEF Templ
  <2> QED  BY <1>5, <2>1, <2>2, SourceIsHeard
<1>8. Plain(m + 3) /\ h[m + 3].sources = <<Templ>>
      /\ h[m + 3].outputs = Append(h[m + 1].outputs, line[m + 3])
  <2>1. h[m + 2] = Hear(h[m + 1], Dash_o) /\ Dash_o \in S
    BY <1>1, <1>2, <1>6 DEF m
  <2>2. h[m + 3] = Hear(h[m + 2], line[m + 3]) /\ line[m + 3] \in S
    BY <1>1, <1>2, <1>6
  <2>3. Dash_o.kind = "-o"
    BY DEF Dash_o
  <2> DEFINE named == Hear(Hear(h[m + 1], Dash_o), line[m + 3])
  <2>4. named \in ToldOf(S) /\ named.expects = "none" /\ named.sources = h[m + 1].sources
        /\ named.outputs = Append(h[m + 1].outputs, line[m + 3])
    <3>1. h[m + 1] \in ToldOf(S) /\ h[m + 1].expects = "none" /\ line[m + 3] \in S /\ Dash_o \in S
      BY <1>7, <2>1, <2>2
    <3>2. ASSUME NEW told \in ToldOf(S), told.expects = "none", NEW w \in S, NEW o \in S, o = Dash_o
          PROVE  /\ Hear(Hear(told, o), w) \in ToldOf(S)
                 /\ Hear(Hear(told, o), w).expects = "none"
                 /\ Hear(Hear(told, o), w).sources = told.sources
                 /\ Hear(Hear(told, o), w).outputs = Append(told.outputs, w)
      BY <2>3, <3>2, OutputIsHeard
    <3> QED  BY <3>1, <3>2
  <2>5. h[m + 3] = named
    BY <2>1, <2>2
  <2> HIDE DEF named
  <2> QED  BY <1>7, <2>4, <2>5
<1>9. \A k \in (m + 3)..Len(line) :
        Plain(k) /\ h[k].sources = <<Templ>> /\ h[k].outputs = h[m + 3].outputs
  <2> DEFINE Q(k) == Plain(k) /\ h[k].sources = <<Templ>> /\ h[k].outputs = h[m + 3].outputs
  <2>1. Q(m + 3)
    BY <1>8
  <2>2. ASSUME NEW k \in (m + 4)..Len(line), Q(k - 1) PROVE Q(k)
    <3>1. k \in 1..Len(line) /\ line[k].kind = "option"
      BY <1>5 DEF m
    <3>2. h[k] = Hear(h[k - 1], line[k]) /\ line[k] \in S
      BY <1>1, <1>2, <3>1
    <3>3. h[k - 1].expects \in Expecting
      BY <2>2 DEF Expecting
    <3> QED  BY <2>2, <3>1, <3>2, <3>3, OptionIsHeard
  <2> HIDE DEF Q, Plain
  <2> DEFINE G == {k \in (m + 3)..Len(line) : Q(k)}
  <2>3. /\ m + 3 \in (m + 3)..Len(line) /\ (m + 3) + 1 = m + 4 /\ m + 3 \in Nat /\ Len(line) \in Nat
        /\ (m + 4)..Len(line) \subseteq (m + 3)..Len(line)
    <3>1. m \in Nat /\ Len(line) \in Nat /\ m + 3 \in 1..Len(line)
      BY <1>5, <1>6
    <3> QED  BY ONLY <3>1
  <2>4. m + 3 \in G /\ \A k \in ((m + 3) + 1)..Len(line) : k - 1 \in G => k \in G
    BY ONLY <2>1, <2>2, <2>3, Zenon
  <2> HIDE DEF G
  <2>5. \A k \in (m + 3)..Len(line) : k \in G
    BY <2>3, <2>4, EveryPlace, Zenon
  <2> QED  BY <2>5 DEF G, Q
<1>10. /\ Heard(line).expects = "none" /\ Heard(line).sources = <<Templ>>
       /\ Heard(line).outputs = Append(h[m + 1].outputs, line[m + 3])
  <2>1. Len(line) \in (m + 3)..Len(line)
    BY <1>6
  <2> QED  BY <1>1, <1>8, <1>9, <2>1
<1>11. Told(line) = Heard(line)
  BY <1>10 DEF Told, Heeded
<1>12. h[m + 1].outputs \in Seq(S)
  BY <1>7 DEF ToldOf
<1>13. Told(line).outputs[Len(Told(line).outputs)] = line[m + 3]
  <2>1. line[m + 3] \in S
    BY <1>2, <1>6
  <2>2. \A s \in Seq(S) : \A x \in S : Append(s, x)[Len(Append(s, x))] = x
    OBVIOUS
  <2>3. Told(line).outputs = Append(h[m + 1].outputs, line[m + 3])
    BY <1>10, <1>11
  <2> QED  BY <1>12, <2>1, <2>2, <2>3
<1> QED  BY <1>10, <1>11, <1>13 DEF m

-----------------------------------------------------------------------------
(* The command line of a runner.                                           *)

(* argv is what the user gave, but for the inputs that are dealt with; what  *)
(* is in flags names no input.                                             *)
Untouched ==
  /\ Sorted
  /\ pc \in {"parse", "next input", "run runner"} => Len(given) >= 1
  /\ \A k \in 1..Len(flags) : given[flags[k]].kind \in FlagKinds
  /\ \A j \in 1..Len(given) :
       (\A m \in 1..(file - 1) : m <= Len(input_files) => j # input_files[m]) => argv[j] = given[j]

Extra(src) == {Templ, Dash_o, RunnerExe(src), Made("option", "debug"), Made("option", "-w"),
               Made("option", "-D")}
LEMMA NoNull ==
  ASSUME NEW src
  PROVE  \A w \in Argv \cup Extra(src) : w # Null
<1>1. Null.kind = "NULL"
  BY DEF Null
<1>2. \A w \in Word : w.kind # "NULL"
  <2>1. "NULL" \notin UserKinds
    BY Zenon DEF UserKinds, ToolFlags
  <2>2. \A w \in Word : w.kind \in UserKinds
    BY DEF Word
  <2> QED  BY <2>1, <2>2
<1>3. \A t : Made("wrapper", t).kind = "wrapper"
  BY DEF Made
<1>4. \A w \in Argv : w.kind # "NULL"
  BY <1>2, <1>3 DEF Argv
<1>5. \A w \in Extra(src) : w.kind # "NULL"
  BY DEF Extra, Templ, Dash_o, RunnerExe, Made
<1> QED  BY <1>1, <1>4, <1>5

(* The words of the flags as the runner's compiler gets them.              *)
LEMMA FlagWords ==
  ASSUME Untouched
  PROVE  /\ Len(flags) \in Nat /\ Len(Indexed(flags)) = Len(flags)
         /\ Indexed(flags) \in Seq(Argv)
         /\ \A k \in 1..Len(flags) : Indexed(flags)[k].kind \in FlagKinds
<1>1. /\ Len(given) \in Nat /\ argv \in Seq(Argv) /\ Len(argv) = Len(given)
      /\ argc = Len(given) + 1
      /\ flags \in Seq(2..Len(given)) /\ input_files \in Seq(2..Len(given))
  BY SortedTypes DEF Untouched
<1>2. Len(flags) \in Nat /\ \A k \in 1..Len(flags) : flags[k] \in 2..Len(given)
  BY <1>1, LenProperties, ElementOfSeq
<1>3. ASSUME NEW k \in 1..Len(flags)
      PROVE  ArgvAt(flags[k]) \in Argv /\ ArgvAt(flags[k]) = given[flags[k]]
  <2>1. flags[k] \in 1..Len(argv) /\ flags[k] < argc
    BY <1>1, <1>2
  <2>2. \A m \in 1..Len(input_files) : flags[k] # input_files[m]
    <3>1. Positions(input_files) \cap Positions(flags) = {}
      BY DEF Untouched, Sorted
    <3> QED  BY <3>1 DEF Positions
  <2>3. \A m \in 1..(file - 1) : m <= Len(input_files) => flags[k] # input_files[m]
    <3>1. file \in Nat /\ Len(input_files) \in Nat
      <4>1. Sorted
        BY DEF Untouched
      <4> QED  BY <1>1, <4>1, SortedTypes, LenProperties
    <3>2. ASSUME NEW m \in 1..(file - 1), m <= Len(input_files) PROVE flags[k] # input_files[m]
      <4>1. m \in 1..Len(input_files)
        BY <3>1, <3>2
      <4> QED  BY <2>2, <4>1
    <3> QED  BY <3>2
  <2>4. argv[flags[k]] = given[flags[k]]
    BY <1>1, <2>1, <2>3 DEF Untouched
  <2> QED  BY <1>1, <2>1, <2>4 DEF ArgvAt
<1>4. Indexed(flags) = [k \in 1..Len(flags) |-> ArgvAt(flags[k])]
  BY DEF Indexed
<1>5. Indexed(flags) \in Seq(Argv) /\ Len(Indexed(flags)) = Len(flags)
  BY <1>2, <1>3, <1>4
<1>6. \A k \in 1..Len(flags) : Indexed(flags)[k].kind \in FlagKinds
  BY <1>3, <1>4 DEF Untouched
<1> QED  BY <1>2, <1>5, <1>6

LEMMA Joined ==
  ASSUME NEW S, NEW s \in Seq(S), NEW t \in Seq(S)
  PROVE  /\ s \o t \in Seq(S) /\ Len(s \o t) = Len(s) + Len(t)
         /\ \A k \in 1..Len(s) : (s \o t)[k] = s[k]
         /\ \A k \in 1..Len(t) : (s \o t)[Len(s) + k] = t[k]
<1>1. Len(s) \in Nat /\ Len(t) \in Nat
  BY LenProperties
<1> QED  BY <1>1, ConcatProperties

(* The line is the template and its output behind the user's flags, whatever *)
(* these are, and says so to the compiler.                                 *)
LEMMA RunnerCommandTells ==
  ASSUME Untouched, Len(given) >= 1, NEW src
  PROVE  LET told == Told(Tail(Executed(RunnerCommand(src))))
         IN /\ told.sources = <<Templ>>
            /\ told.outputs[Len(told.outputs)] = RunnerExe(src)
<1> DEFINE Said == Argv \cup Extra(src)
           F == Indexed(flags)
           D == IF "-comptime-debug" \in cct_flags
                THEN [k \in 1..3 |-> Made("option", "debug")] ELSE <<Made("option", "-w")>>
           M == <<Templ, Dash_o, RunnerExe(src)>>
           E == [k \in 1..4 |-> Made("option", "-D")]
           one == <<argv[1]>>
           cmd == one \o F \o D \o M \o E
<1>1. one \in Seq(Said) /\ Len(one) = 1
  <2>1. argv[1] \in Argv
    <3>1. Len(given) \in Nat /\ argv \in Seq(Argv) /\ Len(argv) = Len(given)
      BY SortedTypes DEF Untouched
    <3> QED  BY <3>1
  <2> QED  BY <2>1
<1>2. /\ Len(F) = Len(flags) /\ Len(flags) \in Nat
      /\ \A k \in 1..Len(F) : F[k].kind \in FlagKinds
      /\ F \in Seq(Said)
  BY FlagWords
<1>3. /\ D \in Seq(Said) /\ Len(D) \in Nat \ {0}
      /\ \A k \in 1..Len(D) : D[k].kind = "option"
  <2>1. Made("option", "debug") \in Said /\ Made("option", "-w") \in Said
    BY DEF Extra
  <2>2. Made("option", "debug").kind = "option" /\ Made("option", "-w").kind = "option"
    BY DEF Made
  <2> HIDE DEF Said
  <2>3. CASE "-comptime-debug" \in cct_flags
    <3>1. D = [k \in 1..3 |-> Made("option", "debug")]
      BY <2>3
    <3> HIDE DEF D
    <3>2. D \in Seq(Said) /\ Len(D) = 3
      BY <2>1, <3>1
    <3> QED  BY <2>2, <3>1, <3>2
  <2>4. CASE "-comptime-debug" \notin cct_flags
    <3>1. D = <<Made("option", "-w")>>
      BY <2>4
    <3> HIDE DEF D
    <3> QED  BY <2>1, <2>2, <3>1
  <2> QED  BY <2>3, <2>4
<1>4. M \in Seq(Said) /\ Len(M) = 3 /\ M[1] = Templ /\ M[2] = Dash_o /\ M[3] = RunnerExe(src)
  BY DEF Extra
<1>5. E \in Seq(Said) /\ Len(E) = 4 /\ \A k \in 1..4 : E[k].kind = "option"
  <2>1. Made("option", "-D") \in Said
    BY DEF Extra
  <2>2. Made("option", "-D").kind = "option"
    BY DEF Made
  <2> HIDE DEF Said
  <2> QED  BY <2>1, <2>2
<1>6. RunnerCommand(src) = cmd
  BY DEF RunnerCommand, BaseCommand
<1> HIDE DEF Said, F, D, M, E, one
<1> DEFINE n == Len(F)
           d == Len(D)
<1>7. /\ cmd \in Seq(Said) /\ Len(cmd) = n + d + 8
      /\ \A k \in 1..n : cmd[k + 1] = F[k]
      /\ \A k \in 1..d : cmd[n + k + 1] = D[k]
      /\ \A k \in 1..3 : cmd[n + d + k + 1] = M[k]
      /\ \A k \in 1..4 : cmd[n + d + 4 + k] = E[k]
  <2> DEFINE p1 == one \o F
             p2 == p1 \o D
             p3 == p2 \o M
  <2>0. \A a, b \in Seq(Said) :
          /\ a \o b \in Seq(Said) /\ Len(a \o b) = Len(a) + Len(b)
          /\ \A k \in 1..Len(a) : (a \o b)[k] = a[k]
          /\ \A k \in 1..Len(b) : (a \o b)[Len(a) + k] = b[k]
    BY Joined
  <2>1. p1 \in Seq(Said) /\ Len(p1) = 1 + n /\ \A k \in 1..n : p1[1 + k] = F[k]
    <3>1. one \in Seq(Said) /\ F \in Seq(Said) /\ Len(one) = 1
      BY <1>1, <1>2
    <3>2. /\ one \o F \in Seq(Said) /\ Len(one \o F) = Len(one) + Len(F)
          /\ \A k \in 1..Len(F) : (one \o F)[Len(one) + k] = F[k]
      BY <2>0, <3>1
    <3> QED  BY <3>1, <3>2, Zenon
  <2>2. cmd = p3 \o E
    OBVIOUS
  <2>3. n \in Nat /\ d \in Nat
    BY <1>2, <1>3
  <2> HIDE DEF p1, cmd
  <2>4. /\ p2 \in Seq(Said) /\ Len(p2) = Len(p1) + d
        /\ \A k \in 1..Len(p1) : p2[k] = p1[k]
        /\ \A k \in 1..d : p2[Len(p1) + k] = D[k]
    <3>1. p1 \in Seq(Said) /\ D \in Seq(Said)
      BY <1>3, <2>1
    <3>2. /\ p1 \o D \in Seq(Said) /\ Len(p1 \o D) = Len(p1) + Len(D)
          /\ \A k \in 1..Len(p1) : (p1 \o D)[k] = p1[k]
          /\ \A k \in 1..Len(D) : (p1 \o D)[Len(p1) + k] = D[k]
      BY <2>0, <3>1
    <3> QED  BY <1>3, <2>1, <3>2, Zenon
  <2> HIDE DEF p2
  <2>5. /\ p3 \in Seq(Said) /\ Len(p3) = Len(p2) + 3
        /\ \A k \in 1..Len(p2) : p3[k] = p2[k]
        /\ \A k \in 1..3 : p3[Len(p2) + k] = M[k]
    <3>1. p2 \in Seq(Said) /\ M \in Seq(Said)
      BY <1>4, <2>4
    <3>2. /\ p2 \o M \in Seq(Said) /\ Len(p2 \o M) = Len(p2) + Len(M)
          /\ \A k \in 1..Len(p2) : (p2 \o M)[k] = p2[k]
          /\ \A k \in 1..Len(M) : (p2 \o M)[Len(p2) + k] = M[k]
      BY <2>0, <3>1
    <3> QED  BY <1>4, <2>4, <3>2, Zenon
  <2> HIDE DEF p3
  <2>6. /\ cmd \in Seq(Said) /\ Len(cmd) = Len(p3) + 4
        /\ \A k \in 1..Len(p3) : cmd[k] = p3[k]
        /\ \A k \in 1..4 : cmd[Len(p3) + k] = E[k]
    <3>1. p3 \in Seq(Said) /\ E \in Seq(Said)
      BY <1>5, <2>2, <2>5
    <3>2. /\ p3 \o E \in Seq(Said) /\ Len(p3 \o E) = Len(p3) + Len(E)
          /\ \A k \in 1..Len(p3) : (p3 \o E)[k] = p3[k]
          /\ \A k \in 1..Len(E) : (p3 \o E)[Len(p3) + k] = E[k]
      BY <2>0, <3>1
    <3> QED  BY <1>5, <2>2, <2>5, <3>2, Zenon
  <2> HIDE DEF n, d
  <2>7. Len(p1) = n + 1 /\ Len(p2) = n + d + 1 /\ Len(p3) = n + d + 4 /\ Len(cmd) = n + d + 8
    BY <2>1, <2>3, <2>4, <2>5, <2>6
  <2>8. ASSUME NEW k \in 1..n PROVE cmd[k + 1] = F[k]
    <3>1. 1 + k = k + 1 /\ k + 1 \in 1..(n + 1) /\ k + 1 \in 1..(n + d + 1)
          /\ k + 1 \in 1..(n + d + 4)
      BY <2>3
    <3>2. p1[k + 1] = F[k]
      BY <2>1, <3>1
    <3> QED  BY <2>4, <2>5, <2>6, <2>7, <3>1, <3>2
  <2>9. ASSUME NEW k \in 1..d PROVE cmd[n + k + 1] = D[k]
    <3>1. (n + 1) + k = n + k + 1 /\ n + k + 1 \in 1..(n + d + 1) /\ n + k + 1 \in 1..(n + d + 4)
      BY <2>3
    <3>2. p2[(n + 1) + k] = D[k]
      BY <2>4, <2>7
    <3> QED  BY <2>5, <2>6, <2>7, <3>1, <3>2
  <2>10. ASSUME NEW k \in 1..3 PROVE cmd[n + d + k + 1] = M[k]
    <3>1. (n + d + 1) + k = n + d + k + 1 /\ n + d + k + 1 \in 1..(n + d + 4)
      BY <2>3
    <3>2. p3[(n + d + 1) + k] = M[k]
      BY <2>5, <2>7
    <3> QED  BY <2>6, <2>7, <3>1, <3>2
  <2>11. \A k \in 1..4 : cmd[n + d + 4 + k] = E[k]
    BY <2>6, <2>7
  <2> QED  BY <2>6, <2>7, <2>8, <2>9, <2>10, <2>11
<1>8. n \in Nat /\ d \in Nat \ {0}
  BY <1>2, <1>3
<1> HIDE DEF cmd, n, d
<1>9. Executed(cmd) = cmd
  <2>1. \A k \in 1..Len(cmd) : cmd[k] # Null
    <3>1. \A k \in 1..Len(cmd) : cmd[k] \in Said
      BY <1>7, ElementOfSeq
    <3> QED  BY <3>1, NoNull DEF Said
  <2>2. {k \in 1..Len(cmd) : cmd[k] = Null} = {}
    BY <2>1
  <2> QED  BY <2>2 DEF Executed
<1> DEFINE line == Tail(cmd)
<1>10. /\ line \in Seq(Said) /\ Len(line) = n + d + 7
       /\ \A k \in 1..(n + d + 7) : line[k] = cmd[k + 1]
  <2>1. cmd # <<>>
    BY <1>7, <1>8
  <2>2. /\ Tail(cmd) \in Seq(Said) /\ Len(Tail(cmd)) = Len(cmd) - 1
        /\ \A k \in 1..Len(Tail(cmd)) : Tail(cmd)[k] = cmd[k + 1]
    BY <1>7, <2>1, HeadTailProperties
  <2> QED  BY <1>7, <1>8, <2>2
<1> HIDE DEF line
<1>11. \A k \in 1..n : line[k].kind \in FlagKinds
  <2>1. ASSUME NEW k \in 1..n PROVE line[k].kind \in FlagKinds
    <3>1. k \in 1..(n + d + 7)
      BY <1>8
    <3>2. line[k] = F[k]
      BY <1>7, <1>10, <3>1
    <3> QED  BY <1>2, <3>2 DEF n
  <2> QED  BY <2>1
<1>12. \A k \in (n + 1)..(n + d) : line[k].kind = "option"
  <2>1. ASSUME NEW k \in (n + 1)..(n + d) PROVE line[k].kind = "option"
    <3>1. k - n \in 1..d /\ k \in 1..(n + d + 7) /\ n + (k - n) + 1 = k + 1
      BY <1>8
    <3>2. line[k] = D[k - n]
      BY <1>7, <1>10, <3>1
    <3> QED  BY <1>3, <3>1, <3>2 DEF d
  <2> QED  BY <2>1
<1>13. line[n + d + 1] = Templ /\ line[n + d + 2] = Dash_o /\ line[n + d + 3] = RunnerExe(src)
  <2>1. ASSUME NEW k \in 1..3 PROVE line[n + d + k] = M[k]
    <3>1. n + d + k \in 1..(n + d + 7) /\ (n + d + k) + 1 = n + d + k + 1
      BY <1>8
    <3>2. line[n + d + k] = cmd[(n + d + k) + 1]
      BY <1>10, <3>1
    <3> QED  BY <1>7, <3>1, <3>2
  <2> QED  BY <1>4, <2>1
<1>14. \A k \in (n + d + 4)..Len(line) : line[k].kind = "option"
  <2>1. ASSUME NEW k \in (n + d + 4)..(n + d + 7) PROVE line[k].kind = "option"
    <3>1. /\ k - (n + d + 3) \in 1..4 /\ k \in 1..(n + d + 7)
          /\ n + d + 4 + (k - (n + d + 3)) = k + 1
      BY <1>8
    <3>2. line[k] = E[k - (n + d + 3)]
      BY <1>7, <1>10, <3>1
    <3> QED  BY <1>5, <3>1, <3>2
  <2> QED  BY <1>10, <2>1
<1>15. Len(line) = n + d + 3 + 4 /\ 4 \in Nat
  BY <1>8, <1>10
<1>16. /\ Told(line).sources = <<Templ>>
       /\ Told(line).outputs[Len(Told(line).outputs)] = RunnerExe(src)
  BY <1>8, <1>10, <1>11, <1>12, <1>13, <1>14, <1>15, RunnerLineIsHeard
<1> QED  BY <1>6, <1>9, <1>16 DEF line

-----------------------------------------------------------------------------
(* The commands that were executed, and where main is.                     *)
Compiled(k) ==
  /\ given[input_files[k]].text \in readable
  /\ Told(Tail(commands[k])).sources = <<Templ>>
  /\ Told(Tail(commands[k])).outputs[Len(Told(Tail(commands[k])).outputs)]
       = RunnerExe(given[input_files[k]].text)
Runs ==
  /\ Untouched
  /\ commands \in Seq(Positions(commands))
  /\ pc \in {"cli", "parse"} => commands = <<>> /\ file = 1
  /\ pc = "next input" => Len(commands) = file - 1 /\ file <= Len(input_files) + 1
  /\ pc = "run runner" => Len(commands) = file
  /\ \A k \in 1..Len(commands) : k <= Len(input_files) => Compiled(k)

LEMMA UntouchedInitially == CliInit => Untouched
<1> SUFFICES ASSUME CliInit PROVE Untouched
  OBVIOUS
<1>1. Sorted
  BY SortedInitially
<1>2. pc \notin {"parse", "next input", "run runner"} /\ flags = <<>> /\ argv = given
  BY Zenon DEF CliInit
<1>3. 1..Len(flags) = {}
  <2>1. flags = <<>>
    BY <1>2, Zenon
  <2> QED  BY <2>1
<1> QED  BY <1>1, <1>2, <1>3, Zenon DEF Untouched

(* In the parse: only ScanFlag puts a word among the flags.                *)
LEMMA ScanKeepsUntouched ==
  ASSUME Untouched, ScanOutput \/ ScanTool \/ ScanInput \/ ScanFlag
  PROVE  Untouched'
<1>1. Sorted'
  BY ScanKeepsSorted DEF Untouched
<1>2. /\ UNCHANGED <<given, argv, pc, file>> /\ pc = "parse" /\ i < argc
      /\ flags' = flags \/ ScanFlag
  BY DEF ScanOutput, ScanTool, ScanInput, ScanFlag, At, Past
<1>3. argv = given /\ Len(given) >= 1
  BY <1>2, Zenon DEF Untouched, Sorted
<1>4. ASSUME ScanFlag PROVE \A k \in 1..Len(flags') : given[flags'[k]].kind \in FlagKinds
  <2>1. flags' = Append(flags, i) /\ given[i].kind \in FlagKinds
    BY <1>3, <1>4, Zenon DEF ScanFlag, At, FlagKinds
  <2>2. flags \in Seq(Nat) /\ i \in Nat
    <3>1. Sorted
      BY DEF Untouched
    <3>2. Len(given) \in Nat /\ flags \in Seq(2..Len(given))
      BY <3>1, SortedTypes
    <3>3. i \in 2..(Len(given) + 2)
      BY <3>1, Zenon DEF Sorted
    <3> QED  BY <3>2, <3>3
  <2>3. \A k \in 1..Len(flags) : given[flags[k]].kind \in FlagKinds
    BY Zenon DEF Untouched
  <2>4. /\ Len(flags') = Len(flags) + 1 /\ Len(flags) \in Nat /\ flags'[Len(flags) + 1] = i
        /\ \A k \in 1..Len(flags) : flags'[k] = flags[k]
    BY <2>1, <2>2
  <2>5. ASSUME NEW k \in 1..Len(flags') PROVE given[flags'[k]].kind \in FlagKinds
    <3>1. k \in 1..Len(flags) \/ k = Len(flags) + 1
      BY <2>4
    <3> QED  BY <2>1, <2>3, <2>4, <3>1, Zenon
  <2> QED  BY <2>5
<1>5. \A k \in 1..Len(flags') : given'[flags'[k]].kind \in FlagKinds
  BY <1>2, <1>4, Zenon DEF Untouched
<1> QED  BY <1>1, <1>2, <1>3, <1>5, Zenon DEF Untouched

(* Behind it: RunRunner overwrites the input at hand and goes on.           *)
LEMMA CompileKeepsUntouched ==
  ASSUME Untouched, Cli \/ Usage \/ ScanUnknown \/ Parsed \/ Compile \/ UNCHANGED cliVars
  PROVE  Untouched'
<1>1. Sorted /\ Sorted'
  BY CompileKeepsSorted DEF Untouched
<1>2. given' = given /\ flags' = flags /\ input_files' = input_files
  BY Zenon DEF Cli, Usage, ScanUnknown, Parsed, Compile, RunFileAborts, CompileRunner, RunRunner,
     FinalCompile, Goto, cliVars, lists
<1>3. pc' \in {"parse", "next input", "run runner"} => Len(given) >= 1
  <2>1. CASE Cli
    <3>1. argc >= 2 /\ argc = Len(given) + 1 /\ Len(given) \in Nat
      BY <1>1, <2>1, SortedTypes DEF Cli
    <3>2. Len(given) >= 1
      BY <3>1
    <3> QED  BY <3>2, Zenon
  <2>2. CASE pc \in {"parse", "next input", "run runner"}
    BY <2>2, Zenon DEF Untouched
  <2>3. CASE Usage \/ ScanUnknown \/ RunFileAborts
    BY <2>3, Zenon DEF Usage, ScanUnknown, RunFileAborts, Goto
  <2>4. CASE Parsed \/ CompileRunner \/ RunRunner \/ FinalCompile
    BY <2>2, <2>4, Zenon DEF Parsed, CompileRunner, RunRunner, FinalCompile, AtInput
  <2>5. CASE UNCHANGED cliVars
    BY <2>2, <2>5, Zenon DEF cliVars
  <2> QED  BY <2>1, <2>3, <2>4, <2>5, Zenon DEF Compile
<1>4. \A k \in 1..Len(flags) : given[flags[k]].kind \in FlagKinds
  BY Zenon DEF Untouched
<1> DEFINE Dealt(j, last) == \E m \in 1..last : m <= Len(input_files) /\ j = input_files[m]
<1>5. \A j \in 1..Len(given) : ~Dealt(j, file - 1) => argv[j] = given[j]
  BY Zenon DEF Untouched
<1>6. \A j \in 1..Len(given) : ~Dealt(j, file' - 1) => argv'[j] = given[j]
  <2>1. CASE argv' = argv /\ file' = file
    BY <1>5, <2>1
  <2>2. CASE RunRunner /\ file' = file + 1
    <3>1. argv' = [argv EXCEPT ![input_files[file]] = Made("wrapper", Source)]
      <4>1. file' # file
        BY <1>1, <2>2, SortedTypes
      <4> QED  BY <2>2, <4>1, Zenon DEF RunRunner
    <3>2. file <= Len(input_files)
      BY <1>1, <2>2, Zenon DEF RunRunner, Sorted
    <3>3. ASSUME NEW j \in 1..Len(given), ~Dealt(j, file' - 1) PROVE argv'[j] = given[j]
      <4>1. file \in Nat \ {0} /\ file' - 1 = file /\ file \in 1..file
        BY <1>1, <2>2, SortedTypes
      <4>2. j # input_files[file]
        BY <3>2, <3>3, <4>1, Zenon
      <4>3. ~Dealt(j, file - 1)
        <5>1. \A m \in 1..(file - 1) : m \in 1..file
          BY <4>1
        <5> QED  BY <3>3, <4>1, <5>1, Zenon
      <4>4. argv[j] = given[j]
        BY <1>5, <4>3
      <4>5. argv'[j] = argv[j]
        <5>1. argv \in Seq(Argv) /\ j \in 1..Len(argv)
          BY <1>1, SortedTypes
        <5> QED  BY <3>1, <4>2, <5>1
      <4> QED  BY <4>4, <4>5
    <3> QED  BY <3>3
  <2>3. \/ argv' = argv /\ file' = file
        \/ RunRunner /\ file' = file + 1
    BY Zenon DEF Cli, Usage, ScanUnknown, Parsed, Compile, RunFileAborts, CompileRunner,
       RunRunner, FinalCompile, Goto, cliVars
  <2> QED  BY <2>1, <2>2, <2>3
<1>7. \A j \in 1..Len(given) :
        (\A m \in 1..(file' - 1) : m <= Len(input_files) => j # input_files[m]) => argv'[j] = given[j]
  BY <1>6, Zenon
<1> QED  BY <1>1, <1>2, <1>3, <1>4, <1>7, Zenon DEF Untouched

LEMMA ListGrows ==
  ASSUME NEW list, list \in Seq(Positions(list)), NEW x
  PROVE  /\ Append(list, x) \in Seq(Positions(Append(list, x)))
         /\ Len(list) \in Nat /\ Len(Append(list, x)) = Len(list) + 1
         /\ Append(list, x)[Len(list) + 1] = x
         /\ \A k \in 1..Len(list) : Append(list, x)[k] = list[k]
<1> DEFINE S == Positions(list) \cup {x}
           t == Append(list, x)
<1>1. /\ t \in Seq(S) /\ Len(list) \in Nat /\ Len(t) = Len(list) + 1 /\ t[Len(list) + 1] = x
      /\ \A k \in 1..Len(list) : t[k] = list[k]
  <2>1. list \in Seq(S) /\ x \in S
    OBVIOUS
  <2> HIDE DEF S
  <2> QED  BY <2>1
<1> HIDE DEF S, t
<1>2. \A k \in 1..Len(t) : t[k] \in Positions(t)
  BY DEF Positions
<1>3. t \in Seq(Positions(t))
  BY <1>1, <1>2
<1> QED  BY <1>1, <1>3 DEF t

LEMMA RunsInitially == CliInit => Runs
<1> SUFFICES ASSUME CliInit PROVE Runs
  OBVIOUS
<1>1. pc = "cli" /\ commands = <<>> /\ file = 1
  BY Zenon DEF CliInit
<1>2. commands \in Seq(Positions(commands)) /\ 1..Len(commands) = {}
  BY <1>1
<1> QED  BY <1>1, <1>2, UntouchedInitially, Zenon DEF Runs

(* Before the first input: no command was executed.                         *)
LEMMA ParseKeepsRuns ==
  ASSUME Runs, Parse
  PROVE  Runs'
<1>1. Untouched'
  BY ScanKeepsUntouched, CompileKeepsUntouched DEF Parse, Runs
<1>2. pc \in {"cli", "parse"} /\ UNCHANGED <<file, commands>>
      /\ pc' \in {"usage", "parse", "unknown flag", "next input"}
  BY Zenon DEF Parse, Cli, Usage, ScanOutput, ScanTool, ScanUnknown, ScanInput, ScanFlag, Parsed,
     At, Past, Goto
<1>3. commands = <<>> /\ file = 1
  BY <1>2, Zenon DEF Runs
<1>4. Len(commands') = file' - 1 /\ file' <= Len(input_files') + 1 /\ 1..Len(commands') = {}
  <2>1. Len(input_files') \in Nat
    <3>1. Sorted'
      BY <1>1 DEF Untouched
    <3>2. input_files' \in Seq(Nat)
      BY <3>1, Zenon DEF Sorted, Indices
    <3> QED  BY <3>2
  <2>2. commands' = <<>> /\ file' = 1
    BY <1>2, <1>3, Zenon
  <2> QED  BY <2>1, <2>2
<1>5. commands' \in Seq(Positions(commands'))
  <2>1. commands' = <<>>
    BY <1>2, <1>3, Zenon
  <2> QED  BY <2>1
<1> QED  BY <1>1, <1>2, <1>3, <1>4, <1>5, Zenon DEF Runs

(* The next runner: of an input that nothing has touched yet.               *)
LEMMA CompileRunnerKeepsRuns ==
  ASSUME Runs, CompileRunner
  PROVE  Runs'
<1>0. Untouched /\ Sorted
  BY DEF Runs, Untouched
<1>1. Untouched'
  BY <1>0, CompileKeepsUntouched DEF Compile
<1>2. /\ pc = "next input" /\ file <= Len(input_files) /\ Source \in readable
      /\ commands' = Append(commands, Executed(RunnerCommand(Source)))
      /\ pc' \in {"run runner", "fatal"}
      /\ UNCHANGED <<given, argv, file, readable, input_files>>
  BY Zenon DEF CompileRunner, AtInput, SourceHasBuffer, lists
<1>3. /\ file \in Nat \ {0} /\ Len(input_files) \in Nat /\ input_files \in Seq(2..Len(given))
      /\ Len(given) \in Nat
  BY <1>0, SortedTypes, LenProperties
<1>4. file \in 1..Len(input_files)
  <2>1. file <= Len(input_files)
    BY <1>2, Zenon
  <2> QED  BY <1>3, <2>1
<1>5. Source = given[input_files[file]].text
  <2>1. input_files[file] \in 1..Len(given)
    <3>1. input_files[file] \in 2..Len(given)
      BY <1>3, <1>4, ElementOfSeq
    <3> QED  BY <1>3, <3>1
  <2>2. ASSUME NEW m \in 1..(file - 1) PROVE input_files[file] # input_files[m]
    <3>1. m \in 1..Len(input_files) /\ m < file
      BY <1>3, <1>4
    <3>2. input_files[m] < input_files[file]
      BY <1>0, <1>4, <3>1 DEF Sorted, Indices, Increasing
    <3>3. input_files[m] \in Nat
      <4>1. input_files[m] \in 2..Len(given)
        BY <1>3, <3>1, ElementOfSeq
      <4> QED  BY <1>3, <4>1
    <3> QED  BY <3>2, <3>3
  <2>3. argv[input_files[file]] = given[input_files[file]]
    BY <1>0, <2>1, <2>2, Zenon DEF Untouched
  <2> QED  BY <2>3 DEF Source
<1>6. Len(commands) = file - 1 /\ commands \in Seq(Positions(commands)) /\ Len(given) >= 1
  BY <1>0, <1>2, Zenon DEF Runs, Untouched
<1> DEFINE new == Executed(RunnerCommand(Source))
<1>7. /\ Told(Tail(new)).sources = <<Templ>>
      /\ Told(Tail(new)).outputs[Len(Told(Tail(new)).outputs)] = RunnerExe(Source)
  BY <1>0, <1>6, RunnerCommandTells
<1> HIDE DEF new
<1>8. /\ commands' \in Seq(Positions(commands')) /\ Len(commands') = file
      /\ commands'[file] = new
      /\ \A k \in 1..(file - 1) : commands'[k] = commands[k]
  <2>1. /\ Append(commands, new) \in Seq(Positions(Append(commands, new)))
        /\ Len(Append(commands, new)) = Len(commands) + 1
        /\ Append(commands, new)[Len(commands) + 1] = new
        /\ \A k \in 1..Len(commands) : Append(commands, new)[k] = commands[k]
    BY <1>6, ListGrows
  <2>2. Len(commands) + 1 = file
    BY <1>3, <1>6
  <2> QED  BY <1>2, <1>6, <2>1, <2>2, Zenon DEF new
<1>9. ASSUME NEW k \in 1..Len(commands'), k <= Len(input_files) PROVE Compiled(k)'
  <2>1. CASE k = file
    BY <1>2, <1>5, <1>7, <1>8, <2>1, Zenon DEF Compiled
  <2>2. CASE k # file
    <3>1. k \in 1..(file - 1)
      BY <1>3, <1>8, <2>2
    <3>2. Compiled(k)
      BY <1>6, <1>9, <3>1, Zenon DEF Runs
    <3>3. commands'[k] = commands[k]
      BY <1>8, <3>1
    <3> QED  BY <1>2, <3>2, <3>3, Zenon DEF Compiled
  <2> QED  BY <2>1, <2>2
<1>10. \A k \in 1..Len(commands') : k <= Len(input_files') => Compiled(k)'
  BY <1>2, <1>9, Zenon
<1>11. pc' \notin {"cli", "parse", "next input"} /\ Len(commands') = file'
  BY <1>2, <1>8, Zenon
<1> QED  BY <1>1, <1>8, <1>10, <1>11, Zenon DEF Runs

(* The final command stands behind the runners'.                           *)
LEMMA FinalKeepsRuns ==
  ASSUME Runs, FinalCompile
  PROVE  Runs'
<1>0. Untouched /\ Sorted
  BY DEF Runs, Untouched
<1>1. Untouched'
  BY <1>0, CompileKeepsUntouched DEF Compile
<1>2. /\ pc = "next input" /\ file > Len(input_files)
      /\ commands' = Append(commands, Executed(FinalCommand))
      /\ pc' \in {"built", "failed"}
      /\ UNCHANGED <<given, readable, input_files>>
  BY Zenon DEF FinalCompile, lists
<1>3. /\ Len(commands) = file - 1 /\ commands \in Seq(Positions(commands))
      /\ file \in Nat /\ Len(input_files) \in Nat
  <2>1. Len(commands) = file - 1 /\ commands \in Seq(Positions(commands))
    BY <1>2, Zenon DEF Runs
  <2> QED  BY <1>0, <2>1, SortedTypes, LenProperties
<1> DEFINE new == Executed(FinalCommand)
<1> HIDE DEF new
<1>4. /\ commands' \in Seq(Positions(commands')) /\ Len(commands') = Len(commands) + 1
      /\ Len(commands) \in Nat
      /\ \A k \in 1..Len(commands) : commands'[k] = commands[k]
  <2>1. /\ Append(commands, new) \in Seq(Positions(Append(commands, new)))
        /\ Len(commands) \in Nat
        /\ Len(Append(commands, new)) = Len(commands) + 1
        /\ \A k \in 1..Len(commands) : Append(commands, new)[k] = commands[k]
    BY <1>3, ListGrows
  <2> QED  BY <1>2, <2>1, Zenon DEF new
<1>5. ASSUME NEW k \in 1..Len(commands'), k <= Len(input_files) PROVE Compiled(k)'
  <2>1. k \in 1..Len(commands)
    <3>1. file > Len(input_files)
      BY <1>2, Zenon
    <3> QED  BY <1>3, <1>4, <1>5, <3>1
  <2>2. Compiled(k)
    BY <1>5, <2>1, Zenon DEF Runs
  <2> QED  BY <1>2, <1>4, <2>1, <2>2, Zenon DEF Compiled
<1>6. \A k \in 1..Len(commands') : k <= Len(input_files') => Compiled(k)'
  BY <1>2, <1>5, Zenon
<1>7. pc' \notin {"cli", "parse", "next input", "run runner"}
  BY <1>2, Zenon
<1> QED  BY <1>1, <1>4, <1>6, <1>7, Zenon DEF Runs

LEMMA OthersKeepRuns ==
  ASSUME Runs, RunFileAborts \/ RunRunner \/ UNCHANGED cliVars
  PROVE  Runs'
<1>0. Untouched /\ Sorted /\ Untouched'
  BY CompileKeepsUntouched DEF Runs, Untouched, Compile
<1>1. /\ UNCHANGED <<given, readable, input_files, commands>>
      /\ \/ pc' = pc /\ file' = file
         \/ pc' \in {"abort", "failed"}
         \/ pc = "run runner" /\ pc' = "next input" /\ file' = file + 1
  BY Zenon DEF RunFileAborts, RunRunner, Goto, cliVars, lists
<1>2. \A k \in 1..Len(commands') : k <= Len(input_files') => Compiled(k)'
  BY <1>1, Zenon DEF Runs, Compiled
<1>3. commands' \in Seq(Positions(commands'))
  BY <1>1, Zenon DEF Runs
<1>4. CASE pc' = pc /\ file' = file
  BY <1>0, <1>1, <1>2, <1>3, <1>4, Zenon DEF Runs
<1>5. CASE pc' \in {"abort", "failed"}
  <2>1. pc' \notin {"cli", "parse", "next input", "run runner"}
    BY <1>5, Zenon
  <2> QED  BY <1>0, <1>2, <1>3, <2>1, Zenon DEF Runs
<1>6. CASE pc = "run runner" /\ pc' = "next input" /\ file' = file + 1
  <2>1. Len(commands) = file /\ file <= Len(input_files)
    BY <1>0, <1>6, Zenon DEF Runs, Sorted
  <2>2. file \in Nat /\ Len(input_files) \in Nat
    BY <1>0, SortedTypes, LenProperties
  <2>3. Len(commands') = file' - 1 /\ file' <= Len(input_files') + 1
    <3>1. file' = file + 1 /\ commands' = commands /\ input_files' = input_files
      BY <1>1, <1>6, Zenon
    <3> QED  BY <2>1, <2>2, <3>1
  <2>4. pc' \notin {"cli", "parse", "run runner"}
    BY <1>6, Zenon
  <2> QED  BY <1>0, <1>2, <1>3, <2>3, <2>4, Zenon DEF Runs
<1> QED  BY <1>1, <1>4, <1>5, <1>6

(* Every runner's command reads the template alone and ends in the runner's  *)
(* output, and its input could be read.                                    *)
THEOREM RunnersFirstCorrect == CliSpec => []RunnersFirst
<1>1. Runs /\ [CliNext]_cliVars => Runs'
  BY ParseKeepsRuns, CompileRunnerKeepsRuns, FinalKeepsRuns, OthersKeepRuns DEF CliNext, Compile
<1>2. Runs => RunnersFirst
  BY Zenon DEF Runs, Compiled, RunnersFirst
<1> QED  BY <1>1, <1>2, RunsInitially, PTL DEF CliSpec

-----------------------------------------------------------------------------
(* What is heard, word by word.                                            *)

(* The list a word goes into, and what is due after it. *)
Goes(due, w) ==
  IF due = "output" THEN "outputs"
  ELSE IF due = "value" THEN "options"
  ELSE IF w.kind = "-o" THEN "nothing"
  ELSE IF w.kind = "-o<name>" THEN "outputs"
  ELSE IF w.kind \in {"source", "wrapper"} THEN "sources"
  ELSE IF w.kind = "word" THEN "words"
  ELSE "options"
Due(due, w) ==
  IF due # "none" THEN "none"
  ELSE IF w.kind = "-o" THEN "output"
  ELSE IF w.kind = "option value" THEN "value"
  ELSE "none"
Added(list, field, due, w) == IF Goes(due, w) = field THEN Append(list, w) ELSE list
HearOne(told, w) ==
  [expects |-> Due(told.expects, w),
   sources |-> Added(told.sources, "sources", told.expects, w),
   words |-> Added(told.words, "words", told.expects, w),
   options |-> Added(told.options, "options", told.expects, w),
   outputs |-> Added(told.outputs, "outputs", told.expects, w)]

LEMMA HearIs ==
  ASSUME NEW S, NEW told \in ToldOf(S), NEW w \in S
  PROVE  Hear(told, w) = HearOne(told, w) /\ Hear(told, w) \in ToldOf(S)
<1>1. /\ Append(told.sources, w) \in Seq(S) /\ Append(told.options, w) \in Seq(S)
      /\ Append(told.outputs, w) \in Seq(S) /\ Append(told.words, w) \in Seq(S)
  BY DEF ToldOf
<1>2. CASE Hear(told, w) = [told EXCEPT !.expects = "none", !.outputs = Append(@, w)]
           /\ Goes(told.expects, w) = "outputs" /\ Due(told.expects, w) = "none"
  BY <1>1, <1>2 DEF ToldOf, HearOne, Added
<1>3. CASE Hear(told, w) = [told EXCEPT !.expects = "none", !.options = Append(@, w)]
           /\ Goes(told.expects, w) = "options" /\ Due(told.expects, w) = "none"
  BY <1>1, <1>3 DEF ToldOf, HearOne, Added
<1>4. CASE Hear(told, w) = [told EXCEPT !.expects = "output"]
           /\ Goes(told.expects, w) = "nothing" /\ Due(told.expects, w) = "output"
  BY <1>1, <1>4 DEF ToldOf, HearOne, Added
<1>5. CASE Hear(told, w) = [told EXCEPT !.outputs = Append(@, w)] /\ told.expects = "none"
           /\ Goes(told.expects, w) = "outputs" /\ Due(told.expects, w) = "none"
  BY <1>1, <1>5 DEF ToldOf, HearOne, Added
<1>6. CASE Hear(told, w) = [told EXCEPT !.expects = "value", !.options = Append(@, w)]
           /\ Goes(told.expects, w) = "options" /\ Due(told.expects, w) = "value"
  BY <1>1, <1>6 DEF ToldOf, HearOne, Added
<1>7. CASE Hear(told, w) = [told EXCEPT !.sources = Append(@, w)] /\ told.expects = "none"
           /\ Goes(told.expects, w) = "sources" /\ Due(told.expects, w) = "none"
  BY <1>1, <1>7 DEF ToldOf, HearOne, Added
<1>8. CASE Hear(told, w) = [told EXCEPT !.words = Append(@, w)] /\ told.expects = "none"
           /\ Goes(told.expects, w) = "words" /\ Due(told.expects, w) = "none"
  BY <1>1, <1>8 DEF ToldOf, HearOne, Added
<1>9. CASE Hear(told, w) = [told EXCEPT !.options = Append(@, w)] /\ told.expects = "none"
           /\ Goes(told.expects, w) = "options" /\ Due(told.expects, w) = "none"
  BY <1>1, <1>9 DEF ToldOf, HearOne, Added
<1>10. told.expects \in {"none", "value", "output"}
  BY DEF ToldOf
<1>11. CASE told.expects = "output"
  BY <1>2, <1>11, Zenon DEF Hear, Goes, Due
<1>12. CASE told.expects = "value"
  BY <1>3, <1>12, Zenon DEF Hear, Goes, Due
<1>13. CASE told.expects = "none"
  <2>1. CASE w.kind = "-o"
    BY <1>4, <1>13, <2>1, Zenon DEF Hear, Goes, Due
  <2>2. CASE w.kind = "-o<name>"
    BY <1>5, <1>13, <2>2, Zenon DEF Hear, Goes, Due
  <2>3. CASE w.kind = "option value"
    BY <1>6, <1>13, <2>3, Zenon DEF Hear, Goes, Due
  <2>4. CASE w.kind \in {"source", "wrapper"}
    BY <1>7, <1>13, <2>4, Zenon DEF Hear, Goes, Due
  <2>5. CASE w.kind = "word"
    BY <1>8, <1>13, <2>5, Zenon DEF Hear, Goes, Due
  <2>6. CASE w.kind \notin {"-o", "-o<name>", "option value", "source", "wrapper", "word"}
    BY <1>9, <1>13, <2>6, Zenon DEF Hear, Goes, Due
  <2> QED  BY <2>1, <2>2, <2>3, <2>4, <2>5, <2>6, Zenon
<1> QED  BY <1>10, <1>11, <1>12, <1>13

(* What is heard of a line keeps its shape; a word behind it is heard last. *)
LEMMA HeardTyped ==
  ASSUME NEW S, NEW words \in Seq(S), NEW omitted
  PROVE  HeardBut(words, omitted) \in ToldOf(S)
<1> DEFINE n == Len(words)
<1>1. n \in Nat /\ \A k \in 1..n : words[k] \in S
  BY LenProperties
<1>2. PICK h : /\ HeardBut(words, omitted) = h[n]
               /\ h[0] = Told0
               /\ \A k \in 1..n :
                    h[k] = IF k \in omitted THEN h[k - 1] ELSE Hear(h[k - 1], words[k])
  <2>1. Len(words) \in Nat
    BY <1>1
  <2> QED  BY <2>1, HeardButIs
<1> HIDE DEF n
<1>3. h[0] \in ToldOf(S)
  BY <1>2 DEF Told0, ToldOf
<1>4. ASSUME NEW k \in 1..n, h[k - 1] \in ToldOf(S) PROVE h[k] \in ToldOf(S)
  <2>1. Hear(h[k - 1], words[k]) \in ToldOf(S)
    BY <1>1, <1>4, HearIs
  <2>2. h[k] = h[k - 1] \/ h[k] = Hear(h[k - 1], words[k])
    BY <1>2
  <2> QED  BY <1>4, <2>1, <2>2
<1>5. \A k \in 0..n : h[k] \in ToldOf(S)
  <2> DEFINE T == {k \in 0..n : h[k] \notin ToldOf(S)}
  <2> SUFFICES ASSUME T # {} PROVE FALSE
    OBVIOUS
  <2>1. PICK k \in T : \A j \in T : k <= j
    <3>1. T \in SUBSET Nat
      BY <1>1
    <3> QED  BY <3>1, LeastExists
  <2>2. k # 0 /\ k \in 0..n
    BY <1>3
  <2>3. k \in 1..n /\ k - 1 \in 0..n /\ ~(k <= k - 1)
    BY <1>1, <2>2
  <2>4. k - 1 \notin T
    BY <2>1, <2>3
  <2>5. h[k - 1] \in ToldOf(S)
    BY <2>3, <2>4
  <2> QED  BY <1>4, <2>3, <2>5
<1> QED  BY <1>1, <1>2, <1>5

LEMMA HeardOfNothing == ASSUME NEW omitted PROVE HeardBut(<<>>, omitted) = Told0
<1>1. Len(<<>>) = 0
  OBVIOUS
<1>2. \E h : HeardBut(<<>>, omitted) = h[Len(<<>>)] /\ h[0] = Told0
  <2>1. Len(<<>>) \in Nat
    OBVIOUS
  <2> QED  BY <2>1, HeardButIs
<1> QED  BY <1>1, <1>2

LEMMA HeardAppend ==
  ASSUME NEW S, NEW words \in Seq(S), NEW w \in S, NEW omitted
  PROVE  HeardBut(Append(words, w), omitted) =
           IF Len(words) + 1 \in omitted THEN HeardBut(words, omitted)
           ELSE Hear(HeardBut(words, omitted), w)
<1> DEFINE n == Len(words)
           more == Append(words, w)
<1>1. /\ n \in Nat /\ Len(more) = n + 1 /\ more[n + 1] = w
      /\ \A k \in 1..n : more[k] = words[k]
  BY LenProperties, AppendProperties
<1>2. PICK h : /\ HeardBut(words, omitted) = h[n]
               /\ h[0] = Told0
               /\ \A k \in 1..n :
                    h[k] = IF k \in omitted THEN h[k - 1] ELSE Hear(h[k - 1], words[k])
  <2>1. Len(words) \in Nat
    BY <1>1
  <2> QED  BY <2>1, HeardButIs
<1> HIDE DEF n, more
<1>3. PICK g : /\ HeardBut(more, omitted) = g[n + 1]
               /\ g[0] = Told0
               /\ \A k \in 1..(n + 1) :
                    g[k] = IF k \in omitted THEN g[k - 1] ELSE Hear(g[k - 1], more[k])
  <2>1. Len(more) \in Nat
    BY <1>1
  <2>2. \E g : /\ HeardBut(more, omitted) = g[Len(more)]
               /\ g[0] = Told0
               /\ \A k \in 1..Len(more) :
                    g[k] = IF k \in omitted THEN g[k - 1] ELSE Hear(g[k - 1], more[k])
    BY <2>1, HeardButIs
  <2> QED  BY <1>1, <2>2
<1>4. \A k \in 0..n : g[k] = h[k]
  <2> DEFINE T == {k \in 0..n : g[k] # h[k]}
  <2> SUFFICES ASSUME T # {} PROVE FALSE
    OBVIOUS
  <2>1. PICK k \in T : \A j \in T : k <= j
    <3>1. T \in SUBSET Nat
      BY <1>1
    <3> QED  BY <3>1, LeastExists
  <2>2. k # 0 /\ k \in 0..n /\ g[k] # h[k]
    BY <1>2, <1>3
  <2>3. k \in 1..n /\ k \in 1..(n + 1) /\ k - 1 \in 0..n /\ ~(k <= k - 1)
    BY <1>1, <2>2
  <2>4. k - 1 \notin T
    BY <2>1, <2>3
  <2>5. g[k - 1] = h[k - 1] /\ more[k] = words[k]
    BY <1>1, <2>3, <2>4
  <2>6. g[k] = IF k \in omitted THEN g[k - 1] ELSE Hear(g[k - 1], more[k])
    BY <1>3, <2>3
  <2>7. h[k] = IF k \in omitted THEN h[k - 1] ELSE Hear(h[k - 1], words[k])
    BY <1>2, <2>3
  <2> QED  BY <2>2, <2>5, <2>6, <2>7
<1>5. n + 1 \in 1..(n + 1) /\ (n + 1) - 1 = n /\ n \in 0..n
  BY <1>1
<1>6. g[n + 1] = IF n + 1 \in omitted THEN g[n] ELSE Hear(g[n], w)
  BY <1>1, <1>3, <1>5
<1>7. g[n] = h[n]
  BY <1>4, <1>5
<1> QED  BY <1>2, <1>3, <1>6, <1>7 DEF n, more

LEMMA StepByStep ==
  ASSUME NEW n \in Nat, NEW G, 0 \in G, \A k \in 0..(n - 1) : k \in G => k + 1 \in G
  PROVE  \A k \in 0..n : k \in G
<1> DEFINE T == {k \in 0..n : k \notin G}
<1> SUFFICES ASSUME T # {} PROVE FALSE
  OBVIOUS
<1>1. PICK k \in T : \A j \in T : k <= j
  <2>1. T \in SUBSET Nat
    OBVIOUS
  <2> QED  BY <2>1, LeastExists
<1>2. k \in 0..n /\ k \notin G /\ k # 0
  OBVIOUS
<1>3. k - 1 \in 0..(n - 1) /\ k - 1 \in 0..n /\ ~(k <= k - 1) /\ (k - 1) + 1 = k
  BY <1>2
<1>4. k - 1 \in G
  BY <1>1, <1>3
<1> QED  BY <1>2, <1>3, <1>4

LEMMA AppendBehind ==
  ASSUME NEW S, NEW s \in Seq(S), NEW t \in Seq(S), NEW w \in S
  PROVE  s \o Append(t, w) = Append(s \o t, w)
<1>1. <<w>> \in Seq(S) /\ s \o t \in Seq(S)
  BY ConcatProperties
<1>2. Append(t, w) = t \o <<w>> /\ Append(s \o t, w) = (s \o t) \o <<w>>
  BY <1>1, AppendIsConcat
<1>3. (s \o t) \o <<w>> = s \o (t \o <<w>>)
  BY <1>1, ConcatAssociative
<1> QED  BY <1>2, <1>3

LEMMA SubSeqGrows ==
  ASSUME NEW S, NEW v \in Seq(S), NEW m \in Nat, NEW n \in Nat, m >= 1, n >= m - 1, n < Len(v)
  PROVE  /\ SubSeq(v, m, n) \in Seq(S) /\ Len(SubSeq(v, m, n)) = n + 1 - m
         /\ SubSeq(v, m, n + 1) = Append(SubSeq(v, m, n), v[n + 1])
<1>1. Len(v) \in Nat /\ \A k \in 1..Len(v) : v[k] \in S
  BY LenProperties
<1>2. /\ SubSeq(v, m, n) \in Seq(S) /\ Len(SubSeq(v, m, n)) = n + 1 - m
      /\ \A k \in 1..(n + 1 - m) : SubSeq(v, m, n)[k] = v[m + k - 1]
  <2>1. \A k \in m..n : v[k] \in S
    BY <1>1
  <2>2. /\ SubSeq(v, m, n) \in Seq(S) /\ Len(SubSeq(v, m, n)) = IF m <= n THEN n - m + 1 ELSE 0
        /\ \A k \in 1..(n - m + 1) : SubSeq(v, m, n)[k] = v[m + k - 1]
    BY <2>1, SubSeqProperties
  <2>3. n - m + 1 = n + 1 - m /\ (~(m <= n) => n + 1 - m = 0)
    OBVIOUS
  <2> QED  BY <2>2, <2>3
<1>3. /\ SubSeq(v, m, n + 1) \in Seq(S) /\ Len(SubSeq(v, m, n + 1)) = n + 2 - m
      /\ \A k \in 1..(n + 2 - m) : SubSeq(v, m, n + 1)[k] = v[m + k - 1]
  <2>1. \A k \in m..(n + 1) : v[k] \in S
    BY <1>1
  <2>2. /\ SubSeq(v, m, n + 1) \in Seq(S)
        /\ Len(SubSeq(v, m, n + 1)) = IF m <= n + 1 THEN (n + 1) - m + 1 ELSE 0
        /\ \A k \in 1..((n + 1) - m + 1) : SubSeq(v, m, n + 1)[k] = v[m + k - 1]
    BY <2>1, SubSeqProperties
  <2>3. (n + 1) - m + 1 = n + 2 - m /\ m <= n + 1
    OBVIOUS
  <2> QED  BY <2>2, <2>3
<1> DEFINE front == SubSeq(v, m, n)
           whole == SubSeq(v, m, n + 1)
           last == v[n + 1]
<1>4. last \in S
  BY <1>1
<1> HIDE DEF front, whole, last
<1>5. /\ Append(front, last) \in Seq(S) /\ Len(Append(front, last)) = n + 2 - m
      /\ \A k \in 1..(n + 1 - m) : Append(front, last)[k] = front[k]
      /\ Append(front, last)[n + 2 - m] = last
  <2>1. front \in Seq(S) /\ Len(front) = n + 1 - m
    BY <1>2 DEF front
  <2>2. (n + 1 - m) + 1 = n + 2 - m
    OBVIOUS
  <2> QED  BY <1>4, <2>1, <2>2, AppendProperties
<1>6. \A k \in 1..(n + 2 - m) : whole[k] = Append(front, last)[k]
  <2> SUFFICES ASSUME NEW k \in 1..(n + 2 - m) PROVE whole[k] = Append(front, last)[k]
    OBVIOUS
  <2>1. CASE k = n + 2 - m
    <3>1. m + k - 1 = n + 1
      BY <2>1
    <3>2. whole[k] = v[m + k - 1]
      BY <1>3 DEF whole
    <3> QED  BY <1>5, <2>1, <3>1, <3>2 DEF last
  <2>2. CASE k # n + 2 - m
    <3>1. k \in 1..(n + 1 - m)
      BY <2>2
    <3>2. whole[k] = v[m + k - 1] /\ front[k] = v[m + k - 1]
      BY <1>2, <1>3, <3>1 DEF whole, front
    <3> QED  BY <1>5, <3>1, <3>2
  <2> QED  BY <2>1, <2>2
<1>7. whole \in Seq(S) /\ Len(whole) = n + 2 - m
  BY <1>3 DEF whole
<1>8. whole = Append(front, last)
  BY <1>5, <1>6, <1>7, SeqEqual
<1> QED  BY <1>2, <1>8 DEF front, whole, last

(* What is heard of one line and then of another.                          *)
Both(a, b) ==
  [expects |-> b.expects, sources |-> a.sources \o b.sources, words |-> a.words \o b.words,
   options |-> a.options \o b.options, outputs |-> a.outputs \o b.outputs]

LEMMA BothTyped ==
  ASSUME NEW S, NEW a \in ToldOf(S), NEW b \in ToldOf(S)
  PROVE  Both(a, b) \in ToldOf(S)
<1>1. /\ a.sources \o b.sources \in Seq(S) /\ a.words \o b.words \in Seq(S)
      /\ a.options \o b.options \in Seq(S) /\ a.outputs \o b.outputs \in Seq(S)
  BY ConcatProperties DEF ToldOf
<1> QED  BY <1>1 DEF Both, ToldOf

LEMMA AddedBehind ==
  ASSUME NEW S, NEW s \in Seq(S), NEW t \in Seq(S), NEW w \in S, NEW field, NEW due
  PROVE  Added(s \o t, field, due, w) = s \o Added(t, field, due, w)
<1>1. s \o Append(t, w) = Append(s \o t, w)
  BY AppendBehind
<1> QED  BY <1>1 DEF Added

LEMMA HearBoth ==
  ASSUME NEW S, NEW a \in ToldOf(S), NEW b \in ToldOf(S), NEW w \in S
  PROVE  Hear(Both(a, b), w) = Both(a, Hear(b, w))
<1>1. Hear(Both(a, b), w) = HearOne(Both(a, b), w)
  BY BothTyped, HearIs
<1>2. Hear(b, w) = HearOne(b, w)
  BY HearIs
<1>3. /\ a.sources \in Seq(S) /\ a.words \in Seq(S) /\ a.options \in Seq(S) /\ a.outputs \in Seq(S)
      /\ b.sources \in Seq(S) /\ b.words \in Seq(S) /\ b.options \in Seq(S) /\ b.outputs \in Seq(S)
  BY DEF ToldOf
<1>4. /\ Both(a, b).expects = b.expects /\ Both(a, b).sources = a.sources \o b.sources
      /\ Both(a, b).words = a.words \o b.words /\ Both(a, b).options = a.options \o b.options
      /\ Both(a, b).outputs = a.outputs \o b.outputs
  BY DEF Both
<1> DEFINE due == b.expects
<1> HIDE DEF due
<1>0. \A s, t \in Seq(S) : \A field : Added(s \o t, field, due, w) = s \o Added(t, field, due, w)
  BY AddedBehind
<1>5. Added(a.sources \o b.sources, "sources", due, w) = a.sources \o Added(b.sources, "sources", due, w)
  <2>1. a.sources \in Seq(S) /\ b.sources \in Seq(S)
    BY <1>3
  <2> QED  BY ONLY <1>0, <2>1, Zenon
<1>6. Added(a.words \o b.words, "words", due, w) = a.words \o Added(b.words, "words", due, w)
  <2>1. a.words \in Seq(S) /\ b.words \in Seq(S)
    BY <1>3
  <2> QED  BY ONLY <1>0, <2>1, Zenon
<1>7. Added(a.options \o b.options, "options", due, w) = a.options \o Added(b.options, "options", due, w)
  <2>1. a.options \in Seq(S) /\ b.options \in Seq(S)
    BY <1>3
  <2> QED  BY ONLY <1>0, <2>1, Zenon
<1>8. Added(a.outputs \o b.outputs, "outputs", due, w) = a.outputs \o Added(b.outputs, "outputs", due, w)
  <2>1. a.outputs \in Seq(S) /\ b.outputs \in Seq(S)
    BY <1>3
  <2> QED  BY ONLY <1>0, <2>1, Zenon
<1>9. HearOne(Both(a, b), w) = Both(a, HearOne(b, w))
  <2>1. HearOne(Both(a, b), w) =
          [expects |-> Due(due, w),
           sources |-> a.sources \o Added(b.sources, "sources", due, w),
           words |-> a.words \o Added(b.words, "words", due, w),
           options |-> a.options \o Added(b.options, "options", due, w),
           outputs |-> a.outputs \o Added(b.outputs, "outputs", due, w)]
    BY <1>4, <1>5, <1>6, <1>7, <1>8 DEF HearOne, due
  <2>2. Both(a, HearOne(b, w)) =
          [expects |-> Due(due, w),
           sources |-> a.sources \o Added(b.sources, "sources", due, w),
           words |-> a.words \o Added(b.words, "words", due, w),
           options |-> a.options \o Added(b.options, "options", due, w),
           outputs |-> a.outputs \o Added(b.outputs, "outputs", due, w)]
    BY DEF HearOne, Both, due
  <2> QED  BY <2>1, <2>2
<1> QED  BY <1>1, <1>2, <1>9

LEMMA HeardMore ==
  ASSUME NEW S, NEW words \in Seq(S), NEW w \in S
  PROVE  Heard(Append(words, w)) = Hear(Heard(words), w) /\ Heard(words) \in ToldOf(S)
<1>1. HeardBut(Append(words, w), {}) = Hear(HeardBut(words, {}), w)
  <2>1. HeardBut(Append(words, w), {}) =
          IF Len(words) + 1 \in {} THEN HeardBut(words, {}) ELSE Hear(HeardBut(words, {}), w)
    BY HeardAppend
  <2> QED  BY <2>1
<1>2. HeardBut(words, {}) \in ToldOf(S)
  BY HeardTyped
<1> QED  BY <1>1, <1>2 DEF Heard

(* What is heard of two lines joined is what is heard of each.              *)
LEMMA HeardConcat ==
  ASSUME NEW S, NEW s \in Seq(S), NEW t \in Seq(S), Heard(s).expects = "none"
  PROVE  Heard(s \o t) = Both(Heard(s), Heard(t))
<1> DEFINE n == Len(t)
           Prefix(k) == SubSeq(t, 1, k)
           G == {k \in 0..n : Heard(s \o Prefix(k)) = Both(Heard(s), Heard(Prefix(k)))}
<1>1. n \in Nat
  BY LenProperties
<1>2. Heard(s) \in ToldOf(S)
  BY HeardTyped DEF Heard
<1>3. 0 \in G
  <2>1. Prefix(0) = <<>> /\ s \o <<>> = s
    BY ConcatEmptySeq, SubSeqEmpty
  <2>2. Heard(<<>>) = Told0
    BY HeardOfNothing DEF Heard
  <2>3. Both(Heard(s), Told0) = Heard(s)
    <3> DEFINE a == Heard(s)
    <3>1. a \in ToldOf(S) /\ a.expects = "none"
      BY <1>2
    <3> HIDE DEF a
    <3>2. /\ a.sources \o <<>> = a.sources /\ a.words \o <<>> = a.words
          /\ a.options \o <<>> = a.options /\ a.outputs \o <<>> = a.outputs
      BY <3>1, ConcatEmptySeq DEF ToldOf
    <3>3. Both(a, Told0) = a
      BY <3>1, <3>2 DEF Both, Told0, ToldOf
    <3> QED  BY <3>3 DEF a
  <2>4. 0 \in 0..n
    BY <1>1
  <2> QED  BY <2>1, <2>2, <2>3, <2>4
<1>4. ASSUME NEW k \in 0..(n - 1), k \in G PROVE k + 1 \in G
  <2>1. k \in Nat /\ k < Len(t) /\ k + 1 \in 0..n /\ k + 1 \in 1..Len(t)
    BY <1>1
  <2>2. Prefix(k) \in Seq(S) /\ Prefix(k + 1) = Append(Prefix(k), t[k + 1])
    BY <2>1, SubSeqGrows
  <2>3. t[k + 1] \in S
    BY <2>1
  <2>4. Heard(s \o Prefix(k)) = Both(Heard(s), Heard(Prefix(k)))
    BY <1>4
  <2> DEFINE f == Prefix(k)
             w == t[k + 1]
  <2> HIDE DEF Front
  <2>5. f \in Seq(S) /\ w \in S /\ s \o f \in Seq(S)
    BY <2>2, <2>3, ConcatProperties
  <2>6. Heard(s \o f) = Both(Heard(s), Heard(f)) /\ Heard(f) \in ToldOf(S)
    BY <2>4, <2>5, HeardTyped DEF Heard
  <2>7. s \o Append(f, w) = Append(s \o f, w)
    BY <2>5, AppendBehind
  <2>8. /\ Heard(Append(s \o f, w)) = Hear(Heard(s \o f), w)
        /\ Heard(Append(f, w)) = Hear(Heard(f), w)
    BY <2>5, HeardMore
  <2>9. Hear(Both(Heard(s), Heard(f)), w) = Both(Heard(s), Hear(Heard(f), w))
    BY <1>2, <2>5, <2>6, HearBoth
  <2>10. Heard(s \o Prefix(k + 1)) = Both(Heard(s), Heard(Prefix(k + 1)))
    BY <2>2, <2>6, <2>7, <2>8, <2>9
  <2> QED  BY <2>1, <2>10
<1>5. n \in G
  <2> HIDE DEF G, n
  <2>1. \A k \in 0..n : k \in G
    BY <1>1, <1>3, <1>4, StepByStep
  <2> QED  BY <1>1, <2>1
<1>6. Prefix(n) = t
  BY SubSeqFull
<1> QED  BY <1>5, <1>6

LEMMA HearFields ==
  ASSUME NEW S, NEW told \in ToldOf(S), NEW w \in S
  PROVE  /\ Hear(told, w) \in ToldOf(S)
         /\ Hear(told, w).expects = Due(told.expects, w)
         /\ Hear(told, w).sources = Added(told.sources, "sources", told.expects, w)
         /\ Hear(told, w).words = Added(told.words, "words", told.expects, w)
         /\ Hear(told, w).options = Added(told.options, "options", told.expects, w)
         /\ Hear(told, w).outputs = Added(told.outputs, "outputs", told.expects, w)
<1>1. Hear(told, w) = HearOne(told, w) /\ Hear(told, w) \in ToldOf(S)
  BY HearIs
<1> QED  BY <1>1 DEF HearOne

(* Where the words go that CliArgs_parse tells apart.                      *)
LEMMA FlagGoes ==
  ASSUME NEW w, w.kind \in FlagKinds, NEW due \in Expecting
  PROVE  Goes(due, w) \in {"options", "outputs", "words"} /\ Due(due, w) \in Expecting
         /\ w.kind \notin ToolFlags
<1>1. w.kind \notin ToolFlags /\ w.kind \notin {"-o", "source", "wrapper"}
  BY Zenon DEF FlagKinds, ToolFlags
<1>2. due = "none" \/ due = "value"
  BY DEF Expecting
<1>3. "none" \in Expecting /\ "value" \in Expecting
  BY DEF Expecting
<1>4. Due(due, w) \in Expecting
  BY <1>1, <1>2, <1>3, Zenon DEF Due
<1>5. Goes(due, w) \in {"options", "outputs", "words"}
  <2>1. due # "output"
    BY <1>2, Zenon
  <2> QED  BY <1>1, <2>1, Zenon DEF Goes
<1> QED  BY <1>1, <1>4, <1>5

LEMMA OthersGo ==
  ASSUME NEW w
  PROVE  /\ Goes("output", w) = "outputs" /\ Due("output", w) = "none"
         /\ w.kind = "source" => Goes("none", w) = "sources" /\ Due("none", w) = "none"
         /\ w.kind = "wrapper" => Goes("none", w) = "sources" /\ Due("none", w) = "none"
         /\ w.kind = "-o" => Goes("none", w) = "nothing" /\ Due("none", w) = "output"
         /\ w.kind \in ToolFlags => Goes("none", w) = "options" /\ Due("none", w) = "none"
         /\ w.kind \in {"source", "-o"} => w.kind \notin ToolFlags
<1>1. Goes("output", w) = "outputs" /\ Due("output", w) = "none"
  BY Zenon DEF Goes, Due
<1>2. w.kind = "source" => Goes("none", w) = "sources" /\ Due("none", w) = "none"
  BY Zenon DEF Goes, Due
<1>3. w.kind = "-o" => Goes("none", w) = "nothing" /\ Due("none", w) = "output"
  BY Zenon DEF Goes, Due
<1>4. w.kind \in ToolFlags => Goes("none", w) = "options" /\ Due("none", w) = "none"
  BY Zenon DEF Goes, Due, ToolFlags
<1>5. w.kind \in {"source", "-o"} => w.kind \notin ToolFlags
  BY Zenon DEF ToolFlags
<1>6. w.kind = "wrapper" => Goes("none", w) = "sources" /\ Due("none", w) = "none"
  BY Zenon DEF Goes, Due
<1> QED  BY <1>1, <1>2, <1>3, <1>4, <1>5, <1>6

-----------------------------------------------------------------------------
(* The user's line up to its n-th word, with ccomptime's own flags and without. *)
Seen(v, n) == SubSeq(v, 2, n)
OwnOf(v) == {k \in 1..(Len(v) - 1) : Own(v, k + 1)}
All(v, n) == Heard(Seen(v, n))
Kept(v, n) == HeardBut(Seen(v, n), OwnOf(v))

LEMMA OneFurther ==
  ASSUME NEW S, NEW v \in Seq(S), NEW n \in 1..(Len(v) - 1)
  PROVE  /\ All(v, n) \in ToldOf(S) /\ Kept(v, n) \in ToldOf(S) /\ v[n + 1] \in S
         /\ All(v, n + 1) = Hear(All(v, n), v[n + 1])
         /\ Kept(v, n + 1) = IF Own(v, n + 1) THEN Kept(v, n) ELSE Hear(Kept(v, n), v[n + 1])
         /\ Own(v, n + 1) <=> v[n + 1].kind \in ToolFlags /\ All(v, n).expects = "none"
<1>1. Len(v) \in Nat /\ n \in Nat /\ n >= 2 - 1 /\ n < Len(v) /\ n + 1 \in 1..Len(v)
  BY LenProperties
<1>2. /\ Seen(v, n) \in Seq(S) /\ Len(Seen(v, n)) = n + 1 - 2
      /\ Seen(v, n + 1) = Append(Seen(v, n), v[n + 1])
  BY <1>1, SubSeqGrows DEF Seen
<1>3. v[n + 1] \in S
  BY <1>1, ElementOfSeq
<1>4. Own(v, n + 1) <=> v[n + 1].kind \in ToolFlags /\ All(v, n).expects = "none"
  <2>1. (n + 1) - 1 = n
    BY <1>1
  <2> QED  BY <2>1 DEF Own, Operand, All, Seen
<1>5. Len(Seen(v, n)) + 1 \in OwnOf(v) <=> Own(v, n + 1)
  <2>1. Len(Seen(v, n)) + 1 = n
    BY <1>1, <1>2
  <2> QED  BY <2>1 DEF OwnOf
<1>6. Kept(v, n + 1) = IF Own(v, n + 1) THEN Kept(v, n) ELSE Hear(Kept(v, n), v[n + 1])
  <2> DEFINE s == Seen(v, n)
             w == v[n + 1]
             o == OwnOf(v)
  <2>1. s \in Seq(S) /\ w \in S
    BY <1>2, <1>3
  <2> HIDE DEF s, w, o
  <2>2. HeardBut(Append(s, w), o) =
          IF Len(s) + 1 \in o THEN HeardBut(s, o) ELSE Hear(HeardBut(s, o), w)
    BY <2>1, HeardAppend
  <2> QED  BY <1>2, <1>5, <2>2 DEF Kept, s, w, o
<1>7. All(v, n) \in ToldOf(S) /\ All(v, n + 1) = Hear(All(v, n), v[n + 1])
  BY <1>2, <1>3, HeardMore DEF All
<1>8. Kept(v, n) \in ToldOf(S)
  BY <1>2, HeardTyped DEF Kept
<1> QED  BY <1>3, <1>4, <1>6, <1>7, <1>8

(* What is named as an output stays named.                                 *)
LEMMA OutputsStay ==
  ASSUME NEW S, NEW v \in Seq(S), NEW n \in 1..Len(v)
  PROVE  /\ Len(All(v, n).outputs) \in Nat
         /\ Len(All(v, n).outputs) <= Len(Heard(Tail(v)).outputs)
<1> DEFINE last == Len(v)
           Named(k) == Len(All(v, k).outputs)
           G == {k \in 0..(last - 1) : Named(last - k) <= Named(last)}
<1>1. last \in Nat /\ n \in Nat /\ n <= last /\ n >= 1
  BY LenProperties
<1>2. ASSUME NEW k \in 1..last PROVE All(v, k) \in ToldOf(S) /\ Named(k) \in Nat
  <2>1. Seen(v, k) \in Seq(S)
    <3>1. \A j \in 2..k : v[j] \in S
      BY <1>1
    <3> QED  BY <1>1, <3>1, SubSeqProperties DEF Seen
  <2>2. All(v, k) \in ToldOf(S)
    BY <2>1, HeardTyped DEF All, Heard
  <2> QED  BY <2>2 DEF ToldOf
<1>3. ASSUME NEW k \in 1..(last - 1) PROVE Named(k) <= Named(k + 1)
  <2>1. All(v, k + 1) = Hear(All(v, k), v[k + 1]) /\ All(v, k) \in ToldOf(S) /\ v[k + 1] \in S
    BY OneFurther
  <2> DEFINE told == All(v, k)
             w == v[k + 1]
  <2> HIDE DEF told, w
  <2>2. Hear(told, w).outputs = Added(told.outputs, "outputs", told.expects, w)
        /\ told.outputs \in Seq(S)
    <3>1. told \in ToldOf(S) /\ w \in S
      BY <2>1 DEF told, w
    <3> QED  BY <3>1, HearFields DEF ToldOf
  <2>3. Len(Hear(told, w).outputs) >= Len(told.outputs)
    <3>1. w \in S
      BY <2>1 DEF w
    <3>2. Len(Append(told.outputs, w)) = Len(told.outputs) + 1 /\ Len(told.outputs) \in Nat
      BY <2>2, <3>1, AppendProperties, LenProperties
    <3> QED  BY <2>2, <3>2 DEF Added
  <2>4. Len(Hear(told, w).outputs) \in Nat /\ Len(told.outputs) \in Nat
    <3>1. k \in 1..last /\ k + 1 \in 1..last
      BY <1>1
    <3> QED  BY <1>2, <2>1, <3>1 DEF told, w
  <2> QED  BY <2>1, <2>3, <2>4 DEF told, w
<1> HIDE DEF Named
<1>4. 0 \in G
  <2>1. last - 0 = last /\ 0 \in 0..(last - 1) /\ last \in 1..last
    BY <1>1
  <2>2. Named(last) \in Nat
    BY <1>2, <2>1
  <2> QED  BY <2>1, <2>2
<1>5. ASSUME NEW k \in 0..((last - 1) - 1), k \in G PROVE k + 1 \in G
  <2>1. /\ last - (k + 1) \in 1..(last - 1) /\ (last - (k + 1)) + 1 = last - k
        /\ last - k \in 1..last /\ last - (k + 1) \in 1..last /\ last \in 1..last
        /\ k + 1 \in 0..(last - 1)
    BY <1>1
  <2>2. Named(last - (k + 1)) <= Named(last - k)
    <3>1. Named(last - (k + 1)) <= Named((last - (k + 1)) + 1)
      BY <1>3, <2>1
    <3> QED  BY <2>1, <3>1
  <2>3. Named(last - k) <= Named(last)
    BY <1>5
  <2>4. Named(last - (k + 1)) \in Nat /\ Named(last - k) \in Nat /\ Named(last) \in Nat
    BY <1>2, <2>1
  <2>5. Named(last - (k + 1)) <= Named(last)
    BY <2>2, <2>3, <2>4
  <2> QED  BY <2>1, <2>5
<1>6. Named(n) <= Named(last)
  <2>1. last - 1 \in Nat /\ last - n \in 0..(last - 1) /\ last - (last - n) = n
    BY <1>1
  <2>2. \A k \in 0..(last - 1) : k \in G
    <3> HIDE DEF G, last
    <3> QED  BY <1>4, <1>5, <2>1, StepByStep
  <2>3. last - n \in G
    BY <2>1, <2>2
  <2> QED  BY <2>1, <2>3
<1>7. Heard(Tail(v)) = All(v, last)
  <2>1. v # <<>>
    BY <1>1
  <2> QED  BY <2>1, TailIsSubSeq DEF All, Seen
<1> QED  BY <1>2, <1>6, <1>7 DEF Named

LEMMA SupportedMeans ==
  ASSUME NEW S, NEW v \in Seq(S), Supported(v)
  PROVE  /\ \A n \in 1..(Len(v) - 1) :
              All(v, n).expects = "value" => v[n + 1].kind \notin {"-o", "source"} \cup ToolFlags
         /\ \A n \in 1..Len(v) : Len(All(v, n).outputs) \in 0..1
<1>1. Len(v) \in Nat
  BY LenProperties
<1>2. ASSUME NEW n \in 1..(Len(v) - 1), All(v, n).expects = "value"
      PROVE  v[n + 1].kind \notin {"-o", "source"} \cup ToolFlags
  <2>1. n + 1 \in 2..Len(v) /\ (n + 1) - 1 = n
    BY <1>1
  <2>2. Operand(v, n + 1) = All(v, n).expects
    BY <2>1 DEF Operand, All, Seen
  <2> QED  BY <1>2, <2>1, <2>2, Zenon DEF Supported
<1>3. ASSUME NEW n \in 1..Len(v) PROVE Len(All(v, n).outputs) \in 0..1
  <2>1. Len(Heard(Tail(v)).outputs) <= 1
    BY Zenon DEF Supported
  <2>2. Len(All(v, n).outputs) \in Nat /\ Len(All(v, n).outputs) <= Len(Heard(Tail(v)).outputs)
    BY OutputsStay
  <2>3. Len(Heard(Tail(v)).outputs) \in Nat
    <3>1. v # <<>>
      BY <1>1
    <3>2. Heard(Tail(v)) \in ToldOf(S)
      BY <3>1, HeadTailProperties, HeardTyped DEF Heard
    <3> QED  BY <3>2 DEF ToldOf
  <2>4. \A a, b \in Nat : a <= b /\ b <= 1 => a \in 0..1
    OBVIOUS
  <2> QED  BY <2>1, <2>2, <2>3, <2>4, Zenon
<1> QED  BY <1>2, <1>3

(* The words at the places of a list.                                      *)
Picked(v, list) == [k \in 1..Len(list) |-> v[list[k]]]

LEMMA PickedGrows ==
  ASSUME NEW S, NEW v \in Seq(S), NEW list \in Seq(1..Len(v)), NEW n \in 1..Len(v)
  PROVE  /\ Picked(v, list) \in Seq(S) /\ Append(list, n) \in Seq(1..Len(v))
         /\ Picked(v, Append(list, n)) = Append(Picked(v, list), v[n])
<1>1. \A l \in Seq(1..Len(v)) : Picked(v, l) \in Seq(S) /\ Len(Picked(v, l)) = Len(l)
  <2> SUFFICES ASSUME NEW l \in Seq(1..Len(v))
               PROVE  Picked(v, l) \in Seq(S) /\ Len(Picked(v, l)) = Len(l)
    OBVIOUS
  <2>1. Len(l) \in Nat /\ \A k \in 1..Len(l) : v[l[k]] \in S
    <3>1. \A k \in 1..Len(l) : l[k] \in 1..Len(v)
      BY ElementOfSeq
    <3> QED  BY <3>1, ElementOfSeq, LenProperties
  <2> QED  BY <2>1 DEF Picked
<1> DEFINE more == Append(list, n)
<1>2. /\ more \in Seq(1..Len(v)) /\ Len(more) = Len(list) + 1 /\ more[Len(list) + 1] = n
      /\ Len(list) \in Nat
      /\ \A k \in 1..Len(list) : more[k] = list[k]
  BY AppendProperties, LenProperties
<1> HIDE DEF more
<1>3. v[n] \in S
  BY ElementOfSeq
<1> DEFINE p == Picked(v, list)
           q == Picked(v, more)
<1>4. /\ p \in Seq(S) /\ Len(p) = Len(list) /\ q \in Seq(S) /\ Len(q) = Len(list) + 1
  BY <1>1, <1>2
<1>5. \A k \in 1..Len(list) : q[k] = p[k]
  <2>1. ASSUME NEW k \in 1..Len(list) PROVE q[k] = p[k]
    <3>1. k \in 1..Len(more)
      BY <1>2
    <3> QED  BY <1>2, <3>1 DEF Picked
  <2> QED  BY <2>1
<1>6. q[Len(list) + 1] = v[n]
  <2>1. Len(list) + 1 \in 1..Len(more)
    BY <1>2
  <2> QED  BY <1>2, <2>1 DEF Picked
<1> HIDE DEF p, q
<1>7. q = Append(p, v[n])
  <2> DEFINE w == v[n]
             r == Append(p, w)
  <2> HIDE DEF w
  <2>1. /\ r \in Seq(S) /\ Len(r) = Len(list) + 1 /\ r[Len(list) + 1] = w
        /\ \A k \in 1..Len(list) : r[k] = p[k]
    BY <1>3, <1>4, AppendProperties DEF w
  <2> HIDE DEF r
  <2>2. \A k \in 1..Len(q) : q[k] = r[k]
    <3>1. ASSUME NEW k \in 1..Len(q) PROVE q[k] = r[k]
      <4>1. k \in 1..Len(list) \/ k = Len(list) + 1
        BY <1>2, <1>4
      <4> QED  BY <1>5, <1>6, <2>1, <4>1 DEF w
    <3> QED  BY <3>1
  <2>3. q = r
    BY <1>4, <2>1, <2>2, SeqEqual
  <2> QED  BY <2>3 DEF r, w
<1> QED  BY <1>2, <1>4, <1>7 DEF p, q, more

(* What the lists say so far is what is heard of the line without ccomptime's *)
(* own flags: the inputs are its sources, the flags its words and options,   *)
(* and its output is named by the flags or by output_files.                 *)
Pair(v, outs) ==
  \E k \in 2..(Len(v) - 1) : outs = <<k, k + 1>> /\ v[k].kind = "-o"
Agrees(v, n, ins, outs, named) ==
  /\ Kept(v, n).expects = All(v, n).expects /\ Kept(v, n).outputs = All(v, n).outputs
  /\ Kept(v, n).sources = Picked(v, ins) /\ Heard(named).sources = <<>>
  /\ Heard(named).words = Kept(v, n).words /\ Heard(named).options = Kept(v, n).options
  /\ Heard(named).expects = Kept(v, n).expects /\ Kept(v, n).expects \in Expecting
  /\ \/ outs = <<>> /\ Heard(named).outputs = Kept(v, n).outputs
     \/ Heard(named).outputs = <<>> /\ Pair(v, outs) /\ Kept(v, n).outputs = <<v[outs[2]]>>

LEMMA AgreesFlag ==
  ASSUME NEW S, NEW v \in Seq(S), NEW n \in 1..(Len(v) - 1), Supported(v),
         NEW ins, NEW outs, NEW named \in Seq(S), Agrees(v, n, ins, outs, named),
         v[n + 1].kind \in FlagKinds
  PROVE  Agrees(v, n + 1, ins, outs, Append(named, v[n + 1]))
<1> DEFINE w == v[n + 1]
           a == All(v, n)
           k == Kept(v, n)
           f == Heard(named)
           a1 == All(v, n + 1)
           k1 == Kept(v, n + 1)
           f1 == Heard(Append(named, w))
           due == k.expects
<1>1. a \in ToldOf(S) /\ k \in ToldOf(S) /\ w \in S
  BY OneFurther
<1>2. f \in ToldOf(S) /\ f1 = Hear(f, w)
  BY <1>1, HeardMore
<1>3. due \in Expecting /\ f.expects = due /\ a.expects = due
  BY DEF Agrees
<1>4. Goes(due, w) \in {"options", "outputs", "words"} /\ Due(due, w) \in Expecting
      /\ w.kind \notin ToolFlags
  BY <1>3, FlagGoes
<1>5. a1 = Hear(a, w) /\ k1 = Hear(k, w)
  BY <1>4, OneFurther
<1>6. n + 1 \in 1..Len(v)
  BY LenProperties
<1>7. Len(a1.outputs) \in 0..1
  BY <1>6, SupportedMeans
<1>8. /\ k.outputs = a.outputs /\ k.sources = Picked(v, ins) /\ f.sources = <<>>
      /\ f.words = k.words /\ f.options = k.options
      /\ \/ outs = <<>> /\ f.outputs = k.outputs
         \/ f.outputs = <<>> /\ Pair(v, outs) /\ k.outputs = <<v[outs[2]]>>
  BY DEF Agrees
<1> HIDE DEF w, a, k, f, a1, k1, f1, due
<1>9. /\ a1.expects = Due(due, w) /\ a1.outputs = Added(k.outputs, "outputs", due, w)
  BY <1>1, <1>3, <1>5, <1>8, HearFields
<1>10. /\ k1.expects = Due(due, w) /\ k1.outputs = Added(k.outputs, "outputs", due, w)
       /\ k1.sources = Added(k.sources, "sources", due, w)
       /\ k1.words = Added(k.words, "words", due, w)
       /\ k1.options = Added(k.options, "options", due, w)
  BY <1>1, <1>5, HearFields DEF due
<1>11. /\ f1.expects = Due(due, w) /\ f1.outputs = Added(f.outputs, "outputs", due, w)
       /\ f1.sources = Added(f.sources, "sources", due, w)
       /\ f1.words = Added(f.words, "words", due, w)
       /\ f1.options = Added(f.options, "options", due, w)
  BY <1>1, <1>2, <1>3, HearFields
<1>12. k1.sources = Picked(v, ins) /\ f1.sources = <<>>
  BY <1>4, <1>8, <1>10, <1>11 DEF Added
<1>13. f1.words = k1.words /\ f1.options = k1.options
  BY <1>8, <1>10, <1>11
<1>14. \/ outs = <<>> /\ f1.outputs = k1.outputs
       \/ f1.outputs = <<>> /\ Pair(v, outs) /\ k1.outputs = <<v[outs[2]]>>
  <2>1. CASE outs = <<>> /\ f.outputs = k.outputs
    BY <1>10, <1>11, <2>1
  <2>2. CASE f.outputs = <<>> /\ Pair(v, outs) /\ k.outputs = <<v[outs[2]]>>
    <3>1. Goes(due, w) # "outputs"
      <4> SUFFICES ASSUME Goes(due, w) = "outputs" PROVE FALSE
        OBVIOUS
      <4>1. a1.outputs = Append(k.outputs, w)
        BY <1>9 DEF Added
      <4>2. Len(a1.outputs) = 2
        BY <2>2, <4>1
      <4> QED  BY <1>7, <4>2
    <3> QED  BY <1>10, <1>11, <2>2, <3>1 DEF Added
  <2> QED  BY <1>8, <2>1, <2>2
<1>15. k1.expects = a1.expects /\ k1.outputs = a1.outputs /\ f1.expects = k1.expects
       /\ k1.expects \in Expecting
  BY <1>4, <1>9, <1>10, <1>11
<1> QED  BY <1>12, <1>13, <1>14, <1>15 DEF Agrees, w, a1, k1, f1

LEMMA NothingDue ==
  ASSUME NEW S, NEW v \in Seq(S), NEW n \in 1..(Len(v) - 1), Supported(v),
         Kept(v, n).expects = All(v, n).expects, Kept(v, n).expects \in Expecting,
         v[n + 1].kind \in {"-o", "source"} \cup ToolFlags
  PROVE  All(v, n).expects = "none" /\ Kept(v, n).expects = "none"
<1>1. All(v, n).expects # "value"
  BY SupportedMeans
<1> QED  BY <1>1 DEF Expecting

LEMMA AgreesInput ==
  ASSUME NEW S, NEW v \in Seq(S), NEW n \in 1..(Len(v) - 1), Supported(v),
         NEW ins \in Seq(1..Len(v)), NEW outs, NEW named, Agrees(v, n, ins, outs, named),
         v[n + 1].kind = "source"
  PROVE  Agrees(v, n + 1, Append(ins, n + 1), outs, named)
<1> DEFINE w == v[n + 1]
           a == All(v, n)
           k == Kept(v, n)
           a1 == All(v, n + 1)
           k1 == Kept(v, n + 1)
<1>1. a \in ToldOf(S) /\ k \in ToldOf(S) /\ w \in S
  BY OneFurther
<1>2. k.expects = "none" /\ a.expects = "none"
  BY NothingDue DEF Agrees
<1>3. Goes("none", w) = "sources" /\ Due("none", w) = "none" /\ w.kind \notin ToolFlags
  BY OthersGo
<1>4. a1 = Hear(a, w) /\ k1 = Hear(k, w)
  BY <1>3, OneFurther
<1>5. n + 1 \in 1..Len(v)
  BY LenProperties
<1>6. Picked(v, Append(ins, n + 1)) = Append(Picked(v, ins), w)
  BY <1>5, PickedGrows
<1> HIDE DEF w, a, k, a1, k1
<1>7. a1.expects = "none" /\ a1.outputs = a.outputs
  BY <1>1, <1>2, <1>3, <1>4, HearFields DEF Added
<1>8. k1.expects = "none" /\ k1.outputs = k.outputs /\ k1.sources = Append(k.sources, w)
      /\ k1.words = k.words /\ k1.options = k.options
  <2>1. /\ k1.expects = Due("none", w) /\ k1.outputs = Added(k.outputs, "outputs", "none", w)
        /\ k1.sources = Added(k.sources, "sources", "none", w)
        /\ k1.words = Added(k.words, "words", "none", w)
        /\ k1.options = Added(k.options, "options", "none", w)
    BY <1>1, <1>2, <1>4, HearFields
  <2> QED  BY <1>3, <2>1 DEF Added
<1> QED  BY <1>2, <1>6, <1>7, <1>8, Zenon DEF Agrees, a, k, a1, k1

LEMMA AgreesTool ==
  ASSUME NEW S, NEW v \in Seq(S), NEW n \in 1..(Len(v) - 1), Supported(v),
         NEW ins, NEW outs, NEW named, Agrees(v, n, ins, outs, named),
         v[n + 1].kind \in ToolFlags
  PROVE  Agrees(v, n + 1, ins, outs, named)
<1> DEFINE w == v[n + 1]
           a == All(v, n)
           a1 == All(v, n + 1)
<1>1. a \in ToldOf(S) /\ w \in S
  BY OneFurther
<1>2. Kept(v, n).expects = "none" /\ a.expects = "none"
  BY NothingDue DEF Agrees
<1>3. Goes("none", w) = "options" /\ Due("none", w) = "none"
  BY OthersGo
<1>4. a1 = Hear(a, w) /\ Kept(v, n + 1) = Kept(v, n)
  BY <1>2, OneFurther
<1> HIDE DEF w, a, a1
<1>5. a1.expects = "none" /\ a1.outputs = a.outputs
  BY <1>1, <1>2, <1>3, <1>4, HearFields DEF Added
<1> QED  BY <1>2, <1>4, <1>5, Zenon DEF Agrees, a, a1

(* An -o and its operand; at most one output is named.                     *)
LEMMA DashHeard ==
  ASSUME NEW S, NEW v \in Seq(S), NEW n \in 1..(Len(v) - 1), Supported(v),
         Kept(v, n).expects = All(v, n).expects, Kept(v, n).expects \in Expecting,
         v[n + 1].kind = "-o"
  PROVE  LET a1 == All(v, n + 1)  k1 == Kept(v, n + 1)
             a == All(v, n)  k == Kept(v, n)
         IN /\ k.expects = "none" /\ a1.expects = "output" /\ a1.outputs = a.outputs
            /\ k1.expects = "output" /\ k1.sources = k.sources /\ k1.words = k.words
            /\ k1.options = k.options /\ k1.outputs = k.outputs
<1> DEFINE w == v[n + 1]
           a == All(v, n)
           k == Kept(v, n)
           a1 == All(v, n + 1)
           k1 == Kept(v, n + 1)
<1>1. a \in ToldOf(S) /\ k \in ToldOf(S) /\ w \in S
  BY OneFurther
<1>2. k.expects = "none" /\ a.expects = "none"
  BY NothingDue
<1>3. Goes("none", w) = "nothing" /\ Due("none", w) = "output" /\ w.kind \notin ToolFlags
  BY OthersGo
<1>4. a1 = Hear(a, w) /\ k1 = Hear(k, w)
  BY <1>3, OneFurther
<1> HIDE DEF w, a, k, a1, k1
<1>5. a1.expects = "output" /\ a1.outputs = a.outputs
  BY <1>1, <1>2, <1>3, <1>4, HearFields DEF Added
<1>6. /\ k1.expects = "output" /\ k1.sources = k.sources /\ k1.words = k.words
      /\ k1.options = k.options /\ k1.outputs = k.outputs
  <2>1. /\ k1.expects = Due("none", w) /\ k1.outputs = Added(k.outputs, "outputs", "none", w)
        /\ k1.sources = Added(k.sources, "sources", "none", w)
        /\ k1.words = Added(k.words, "words", "none", w)
        /\ k1.options = Added(k.options, "options", "none", w)
    BY <1>1, <1>2, <1>4, HearFields
  <2> QED  BY <1>3, <2>1 DEF Added
<1> QED  BY <1>2, <1>5, <1>6 DEF a, k, a1, k1

LEMMA AgreesOutput ==
  ASSUME NEW S, NEW v \in Seq(S), NEW n \in 1..(Len(v) - 2), Supported(v),
         NEW ins, NEW outs, NEW named \in Seq(S), Agrees(v, n, ins, outs, named),
         v[n + 1].kind = "-o"
  PROVE  /\ outs = <<>>
         /\ Agrees(v, n + 2, ins, <<n + 1, n + 2>>, named)
<1> DEFINE w == v[n + 2]
           a == All(v, n)
           k == Kept(v, n)
           a1 == All(v, n + 1)
           k1 == Kept(v, n + 1)
           a2 == All(v, n + 2)
           k2 == Kept(v, n + 2)
           f == Heard(named)
<1>1. /\ n \in 1..(Len(v) - 1) /\ n + 1 \in 1..(Len(v) - 1) /\ (n + 1) + 1 = n + 2
      /\ n + 1 \in 2..(Len(v) - 1) /\ n + 2 \in 1..Len(v)
  BY LenProperties
<1>2. /\ k.expects = "none" /\ a1.expects = "output" /\ a1.outputs = a.outputs
      /\ k1.expects = "output" /\ k1.sources = k.sources /\ k1.words = k.words
      /\ k1.options = k.options /\ k1.outputs = k.outputs
  BY <1>1, DashHeard DEF Agrees
<1>3. a1 \in ToldOf(S) /\ k1 \in ToldOf(S) /\ w \in S
  BY <1>1, OneFurther
<1>4. a2 = Hear(a1, w) /\ k2 = Hear(k1, w)
  BY <1>1, <1>2, OneFurther
<1>5. Goes("output", w) = "outputs" /\ Due("output", w) = "none"
  BY OthersGo
<1>6. Len(a2.outputs) \in 0..1
  BY <1>1, SupportedMeans
<1>7. /\ k.outputs = a.outputs /\ k.sources = Picked(v, ins) /\ f.sources = <<>>
      /\ f.words = k.words /\ f.options = k.options /\ f.expects = k.expects
      /\ \/ outs = <<>> /\ f.outputs = k.outputs
         \/ f.outputs = <<>> /\ Pair(v, outs) /\ k.outputs = <<v[outs[2]]>>
  BY DEF Agrees
<1>8. Pair(v, <<n + 1, n + 2>>) /\ w = v[<<n + 1, n + 2>>[2]]
  BY <1>1 DEF Pair
<1>9. f \in ToldOf(S)
  BY HeardTyped DEF Heard
<1> HIDE DEF w, a, k, a1, k1, a2, k2, f
<1>10. a2.expects = "none" /\ a2.outputs = Append(k.outputs, w)
  <2>1. Hear(a1, w).expects = Due(a1.expects, w)
        /\ Hear(a1, w).outputs = Added(a1.outputs, "outputs", a1.expects, w)
    BY <1>3, HearFields
  <2>2. a2.expects = Due("output", w) /\ a2.outputs = Added(k.outputs, "outputs", "output", w)
    BY <1>2, <1>4, <1>7, <2>1, Zenon
  <2> QED  BY <1>5, <2>2 DEF Added
<1>11. k2.expects = "none" /\ k2.outputs = Append(k.outputs, w) /\ k2.sources = k.sources
       /\ k2.words = k.words /\ k2.options = k.options
  <2>1. /\ Hear(k1, w).expects = Due(k1.expects, w)
        /\ Hear(k1, w).outputs = Added(k1.outputs, "outputs", k1.expects, w)
        /\ Hear(k1, w).sources = Added(k1.sources, "sources", k1.expects, w)
        /\ Hear(k1, w).words = Added(k1.words, "words", k1.expects, w)
        /\ Hear(k1, w).options = Added(k1.options, "options", k1.expects, w)
    BY <1>3, HearFields
  <2>2. /\ k2.expects = Due("output", w) /\ k2.outputs = Added(k.outputs, "outputs", "output", w)
        /\ k2.sources = Added(k.sources, "sources", "output", w)
        /\ k2.words = Added(k.words, "words", "output", w)
        /\ k2.options = Added(k.options, "options", "output", w)
    BY <1>2, <1>4, <2>1, Zenon
  <2> QED  BY <1>5, <2>2 DEF Added
<1>12. k.outputs = <<>>
  <2>1. k.outputs \in Seq(S) /\ Len(k.outputs) \in Nat
    BY <1>2, <1>3 DEF ToldOf
  <2>2. Len(Append(k.outputs, w)) = Len(k.outputs) + 1
    BY <2>1
  <2>3. Len(k.outputs) = 0
    BY <1>6, <1>10, <2>1, <2>2
  <2> QED  BY <2>1, <2>3
<1>13. outs = <<>> /\ f.outputs = <<>>
  <2>1. \A x : <<x>> # <<>>
    OBVIOUS
  <2> QED  BY <1>7, <1>12, <2>1
<1>14. k2.outputs = <<w>>
  BY <1>11, <1>12
<1>15. "none" \in Expecting
  BY DEF Expecting
<1>16. Agrees(v, n + 2, ins, <<n + 1, n + 2>>, named)
  <2>1. k2.expects = a2.expects /\ k2.outputs = a2.outputs /\ k2.sources = Picked(v, ins)
        /\ f.words = k2.words /\ f.options = k2.options /\ f.expects = k2.expects
        /\ k2.expects \in Expecting
    BY <1>2, <1>7, <1>10, <1>11, <1>15
  <2> QED  BY <1>7, <1>8, <1>13, <1>14, <2>1, Zenon DEF Agrees, a2, k2, f
<1> QED  BY <1>13, <1>16

-----------------------------------------------------------------------------
(* The final line: wrappers, then the output, then the flags.              *)
Wrapped(v, ins) == [k \in 1..Len(ins) |-> Made("wrapper", v[ins[k]].text)]
OnlySources(told, list) ==
  /\ told.expects = "none" /\ told.sources = list /\ told.words = <<>>
  /\ told.options = <<>> /\ told.outputs = <<>>

LEMMA WrappersHeard ==
  ASSUME NEW S, NEW line \in Seq(S), \A k \in 1..Len(line) : line[k].kind = "wrapper"
  PROVE  OnlySources(Heard(line), line)
<1> DEFINE n == Len(line)
           Prefix(k) == SubSeq(line, 1, k)
           G == {k \in 0..n : OnlySources(Heard(Prefix(k)), Prefix(k))}
<1>1. n \in Nat
  BY LenProperties
<1>2. 0 \in G
  <2>1. Prefix(0) = <<>>
    BY SubSeqEmpty
  <2>2. Heard(<<>>) = Told0
    BY HeardOfNothing DEF Heard
  <2>3. OnlySources(Heard(<<>>), <<>>)
    BY <2>2 DEF Told0, OnlySources
  <2>4. 0 \in 0..n
    BY <1>1
  <2> QED  BY <2>1, <2>3, <2>4
<1>3. ASSUME NEW k \in 0..(n - 1), k \in G PROVE k + 1 \in G
  <2>1. k \in Nat /\ 1 >= 1 /\ k >= 1 - 1 /\ k < Len(line) /\ k + 1 \in 0..n /\ k + 1 \in 1..Len(line)
    BY <1>1
  <2> DEFINE f == Prefix(k)
             w == line[k + 1]
             h == Heard(f)
  <2>2. f \in Seq(S) /\ Prefix(k + 1) = Append(f, w) /\ w \in S /\ w.kind = "wrapper"
    <3>1. SubSeq(line, 1, k) \in Seq(S) /\ SubSeq(line, 1, k + 1) = Append(SubSeq(line, 1, k), line[k + 1])
      BY <2>1, SubSeqGrows
    <3> QED  BY <2>1, <3>1, ElementOfSeq
  <2>3. OnlySources(h, f)
    BY <1>3
  <2> HIDE DEF f, w
  <2>4. Heard(Append(f, w)) = Hear(h, w) /\ h \in ToldOf(S)
    BY <2>2, HeardMore
  <2> HIDE DEF h
  <2>5. Goes("none", w) = "sources" /\ Due("none", w) = "none"
    BY <2>2, OthersGo
  <2>6. /\ Hear(h, w).expects = Due(h.expects, w)
        /\ Hear(h, w).sources = Added(h.sources, "sources", h.expects, w)
        /\ Hear(h, w).words = Added(h.words, "words", h.expects, w)
        /\ Hear(h, w).options = Added(h.options, "options", h.expects, w)
        /\ Hear(h, w).outputs = Added(h.outputs, "outputs", h.expects, w)
    BY <2>2, <2>4, HearFields
  <2>7. OnlySources(Hear(h, w), Append(f, w))
    <3>1. /\ Hear(h, w).expects = Due("none", w)
          /\ Hear(h, w).sources = Added(f, "sources", "none", w)
          /\ Hear(h, w).words = Added(<<>>, "words", "none", w)
          /\ Hear(h, w).options = Added(<<>>, "options", "none", w)
          /\ Hear(h, w).outputs = Added(<<>>, "outputs", "none", w)
      BY <2>3, <2>6, Zenon DEF OnlySources
    <3> QED  BY <2>5, <3>1 DEF Added, OnlySources
  <2> QED  BY <2>1, <2>2, <2>4, <2>7, Zenon
<1>4. n \in G
  <2> HIDE DEF G, n
  <2>1. \A k \in 0..n : k \in G
    BY <1>1, <1>2, <1>3, StepByStep
  <2> QED  BY <1>1, <2>1
<1>5. Prefix(n) = line
  BY SubSeqFull
<1> QED  BY <1>4, <1>5

(* An output named by output_files: nothing, or an -o and its operand.      *)
LEMMA OutputHeard ==
  ASSUME NEW S, NEW v \in Seq(S), NEW outs, outs = <<>> \/ Pair(v, outs)
  PROVE  /\ Picked(v, outs) \in Seq(S)
         /\ Heard(Picked(v, outs)).expects = "none" /\ Heard(Picked(v, outs)).sources = <<>>
         /\ Heard(Picked(v, outs)).words = <<>> /\ Heard(Picked(v, outs)).options = <<>>
         /\ Heard(Picked(v, outs)).outputs = IF outs = <<>> THEN <<>> ELSE <<v[outs[2]]>>
<1>1. Heard(<<>>) = Told0 /\ <<>> \in Seq(S)
  BY HeardOfNothing DEF Heard
<1>2. CASE outs = <<>>
  <2>1. Picked(v, outs) = <<>>
    BY <1>2 DEF Picked
  <2>2. /\ Told0.expects = "none" /\ Told0.sources = <<>> /\ Told0.words = <<>>
        /\ Told0.options = <<>> /\ Told0.outputs = <<>>
    BY DEF Told0
  <2> QED  BY <1>1, <1>2, <2>1, <2>2, Zenon
<1>3. CASE Pair(v, outs)
  <2>1. PICK k \in 2..(Len(v) - 1) : outs = <<k, k + 1>> /\ v[k].kind = "-o"
    BY <1>3 DEF Pair
  <2> DEFINE o == v[k]
             w == v[k + 1]
  <2>2. o \in S /\ w \in S /\ o.kind = "-o" /\ outs # <<>> /\ w = v[outs[2]]
    <3>1. k \in 1..Len(v) /\ k + 1 \in 1..Len(v)
      BY LenProperties
    <3> QED  BY <2>1, <3>1, ElementOfSeq
  <2>3. Picked(v, outs) = <<o, w>>
    BY <2>1 DEF Picked
  <2> HIDE DEF o, w
  <2> DEFINE one == Heard(<<o>>)
             two == Heard(<<o, w>>)
  <2>4. <<o>> \in Seq(S) /\ <<o, w>> \in Seq(S)
        /\ <<o>> = Append(<<>>, o) /\ <<o, w>> = Append(<<o>>, w)
    BY <2>2
  <2>5. one = Hear(Told0, o) /\ Told0 \in ToldOf(S)
    BY <1>1, <2>2, <2>4, HeardMore
  <2>6. two = Hear(one, w) /\ one \in ToldOf(S)
    BY <2>2, <2>4, HeardMore
  <2> HIDE DEF one, two
  <2>7. /\ Goes("none", o) = "nothing" /\ Due("none", o) = "output"
        /\ Goes("output", w) = "outputs" /\ Due("output", w) = "none"
    BY <2>2, OthersGo
  <2>8. /\ Told0.expects = "none" /\ Told0.sources = <<>> /\ Told0.words = <<>>
        /\ Told0.options = <<>> /\ Told0.outputs = <<>>
    BY DEF Told0
  <2>9. /\ one.expects = "output" /\ one.sources = <<>> /\ one.words = <<>>
        /\ one.options = <<>> /\ one.outputs = <<>>
    <3>1. /\ one.expects = Due(Told0.expects, o)
          /\ one.sources = Added(Told0.sources, "sources", Told0.expects, o)
          /\ one.words = Added(Told0.words, "words", Told0.expects, o)
          /\ one.options = Added(Told0.options, "options", Told0.expects, o)
          /\ one.outputs = Added(Told0.outputs, "outputs", Told0.expects, o)
      BY <2>2, <2>5, HearFields
    <3> QED  BY <2>7, <2>8, <3>1 DEF Added
  <2>10. /\ two.expects = "none" /\ two.sources = <<>> /\ two.words = <<>>
         /\ two.options = <<>> /\ two.outputs = <<w>>
    <3>1. /\ two.expects = Due(one.expects, w)
          /\ two.sources = Added(one.sources, "sources", one.expects, w)
          /\ two.words = Added(one.words, "words", one.expects, w)
          /\ two.options = Added(one.options, "options", one.expects, w)
          /\ two.outputs = Added(one.outputs, "outputs", one.expects, w)
      <4>1. one \in ToldOf(S) /\ w \in S
        BY <2>2, <2>6
      <4>2. /\ Hear(one, w).expects = Due(one.expects, w)
            /\ Hear(one, w).sources = Added(one.sources, "sources", one.expects, w)
            /\ Hear(one, w).words = Added(one.words, "words", one.expects, w)
            /\ Hear(one, w).options = Added(one.options, "options", one.expects, w)
            /\ Hear(one, w).outputs = Added(one.outputs, "outputs", one.expects, w)
        BY <4>1, HearFields
      <4> QED  BY <2>6, <4>2, Zenon
    <3> QED  BY <2>7, <2>9, <3>1 DEF Added
  <2> QED  BY <2>2, <2>3, <2>4, <2>10 DEF two
<1> QED  BY <1>2, <1>3

LEMMA FrontHeard ==
  ASSUME NEW S, NEW v \in Seq(S), NEW wraps \in Seq(S),
         \A k \in 1..Len(wraps) : wraps[k].kind = "wrapper",
         NEW outs, outs = <<>> \/ Pair(v, outs)
  PROVE  LET told == Heard(wraps \o Picked(v, outs))
         IN /\ wraps \o Picked(v, outs) \in Seq(S)
            /\ told \in ToldOf(S) /\ told.expects = "none" /\ told.sources = wraps
            /\ told.words = <<>> /\ told.options = <<>>
            /\ told.outputs = IF outs = <<>> THEN <<>> ELSE <<v[outs[2]]>>
<1> DEFINE line == Picked(v, outs)
           a == Heard(wraps)
           b == Heard(line)
           told == Heard(wraps \o line)
<1>1. line \in Seq(S) /\ b.expects = "none" /\ b.sources = <<>> /\ b.words = <<>>
      /\ b.options = <<>> /\ b.outputs = IF outs = <<>> THEN <<>> ELSE <<v[outs[2]]>>
  BY OutputHeard
<1>2. a.expects = "none" /\ a.sources = wraps /\ a.words = <<>> /\ a.options = <<>> /\ a.outputs = <<>>
  BY WrappersHeard DEF OnlySources
<1> HIDE DEF line
<1>3. wraps \o line \in Seq(S)
  BY <1>1, ConcatProperties
<1>4. told \in ToldOf(S) /\ b \in ToldOf(S)
  BY <1>1, <1>3, HeardTyped DEF Heard
<1>5. told = Both(a, b)
  BY <1>1, <1>2, HeardConcat
<1> HIDE DEF a, b, told
<1>6. /\ wraps \o <<>> = wraps /\ <<>> \o <<>> = <<>> /\ <<>> \o b.outputs = b.outputs
  <2>1. b.outputs \in Seq(S)
    BY <1>4 DEF ToldOf
  <2> QED  BY <2>1, ConcatEmptySeq
<1>7. /\ told.expects = "none" /\ told.sources = wraps /\ told.words = <<>>
      /\ told.options = <<>> /\ told.outputs = b.outputs
  BY <1>1, <1>2, <1>5, <1>6 DEF Both
<1> QED  BY <1>1, <1>3, <1>4, <1>7 DEF told, line

(* What the user means, by its parts.                                      *)
LEMMA MeantIs ==
  ASSUME NEW S, NEW v \in Seq(S), Len(v) >= 1
  PROVE  LET told == Heeded(Kept(v, Len(v)))
         IN /\ Meant(v) = [told EXCEPT !.sources =
                             [k \in 1..Len(told.sources) |-> Made("wrapper", told.sources[k].text)]]
            /\ Kept(v, Len(v)) \in ToldOf(S)
<1>1. v # <<>> /\ Len(v) \in Nat
  BY LenProperties
<1>2. Tail(v) = Seen(v, Len(v)) /\ Tail(v) \in Seq(S)
  BY <1>1, TailIsSubSeq, HeadTailProperties DEF Seen
<1>3. Kept(v, Len(v)) \in ToldOf(S)
  BY <1>2, HeardTyped DEF Kept
<1>4. HeardBut(Tail(v), OwnOf(v)) = Kept(v, Len(v))
  BY <1>2 DEF Kept
<1> QED  BY <1>3, <1>4, Zenon DEF Meant, OwnOf

LEMMA Refused ==
  ASSUME NEW S, NEW told \in ToldOf(S), told.expects # "none"
  PROVE  LET heeded == Heeded(told)
         IN [heeded EXCEPT !.sources =
               [k \in 1..Len(heeded.sources) |-> Made("wrapper", heeded.sources[k].text)]]
              = [Told0 EXCEPT !.expects = told.expects]
<1> DEFINE h == [Told0 EXCEPT !.expects = told.expects]
           list == [k \in 1..Len(h.sources) |-> Made("wrapper", h.sources[k].text)]
<1>1. Heeded(told) = h
  BY DEF Heeded
<1>2. h.sources = <<>>
  BY DEF Told0
<1>3. list = <<>>
  <2>1. 1..Len(h.sources) = {}
    BY <1>2
  <2> QED  BY <2>1
<1> HIDE DEF list
<1>4. [h EXCEPT !.sources = list] = h
  <2>1. [h EXCEPT !.sources = <<>>] = h
    <3> DEFINE e == told.expects
               r == [expects |-> e, sources |-> <<>>, words |-> <<>>, options |-> <<>>,
                     outputs |-> <<>>]
    <3> HIDE DEF e
    <3>1. [Told0 EXCEPT !.expects = e] = r
      BY DEF Told0
    <3>2. [r EXCEPT !.sources = <<>>] = r
      OBVIOUS
    <3> HIDE DEF r
    <3> QED  BY <3>1, <3>2, Zenon DEF e
  <2> QED  BY <1>3, <2>1, Zenon
<1> QED  BY <1>1, <1>4 DEF list

LEMMA FinalHeard ==
  ASSUME NEW S, NEW v \in Seq(S), Len(v) >= 1, NEW ins, NEW outs, NEW named \in Seq(S),
         Len(ins) \in Nat,
         Agrees(v, Len(v), ins, outs, named), Wrapped(v, ins) \in Seq(S)
  PROVE  Told(Wrapped(v, ins) \o Picked(v, outs) \o named) = Meant(v)
<1> DEFINE wraps == Wrapped(v, ins)
           a == Heard(wraps \o Picked(v, outs))
           f == Heard(named)
           k == Kept(v, Len(v))
           told == Heard(wraps \o Picked(v, outs) \o named)
<1>1. /\ k.sources = Picked(v, ins) /\ f.sources = <<>>
      /\ f.words = k.words /\ f.options = k.options /\ f.expects = k.expects
      /\ k.expects \in Expecting
      /\ \/ outs = <<>> /\ f.outputs = k.outputs
         \/ f.outputs = <<>> /\ Pair(v, outs) /\ k.outputs = <<v[outs[2]]>>
  BY DEF Agrees
<1>2. \A j \in 1..Len(wraps) : wraps[j].kind = "wrapper"
  BY DEF Wrapped, Made
<1>3. /\ wraps \o Picked(v, outs) \in Seq(S)
      /\ a \in ToldOf(S) /\ a.expects = "none" /\ a.sources = wraps
      /\ a.words = <<>> /\ a.options = <<>>
      /\ a.outputs = IF outs = <<>> THEN <<>> ELSE <<v[outs[2]]>>
  BY <1>1, <1>2, FrontHeard
<1>4. told = Both(a, f)
  BY <1>3, HeardConcat
<1>5. f \in ToldOf(S) /\ k \in ToldOf(S)
  BY HeardTyped, MeantIs DEF Heard
<1>6. wraps = [j \in 1..Len(k.sources) |-> Made("wrapper", k.sources[j].text)]
  <2>1. Len(Picked(v, ins)) = Len(ins)
    BY DEF Picked
  <2>2. \A j \in 1..Len(ins) : Picked(v, ins)[j] = v[ins[j]]
    BY DEF Picked
  <2> HIDE DEF k
  <2>3. [j \in 1..Len(k.sources) |-> Made("wrapper", k.sources[j].text)]
          = [j \in 1..Len(ins) |-> Made("wrapper", v[ins[j]].text)]
    BY <1>1, <2>1, <2>2
  <2> QED  BY <2>3 DEF Wrapped
<1>7. Meant(v) = [Heeded(k) EXCEPT !.sources =
                    [j \in 1..Len(Heeded(k).sources) |-> Made("wrapper", Heeded(k).sources[j].text)]]
  BY MeantIs
<1>8. Told(wraps \o Picked(v, outs) \o named) = Heeded(told)
  BY DEF Told
<1> HIDE DEF wraps, a, f, k, told
<1>9. /\ told.expects = k.expects /\ told.sources = wraps /\ told.words = k.words
      /\ told.options = k.options /\ told.outputs = k.outputs
  <2>1. /\ wraps \o <<>> = wraps /\ <<>> \o f.words = f.words /\ <<>> \o f.options = f.options
        /\ <<>> \o f.outputs = f.outputs /\ a.outputs \o <<>> = a.outputs
    <3>1. /\ wraps \in Seq(S) /\ f.words \in Seq(S) /\ f.options \in Seq(S) /\ f.outputs \in Seq(S)
          /\ a.outputs \in Seq(S)
      BY <1>3, <1>5 DEF ToldOf
    <3> QED  BY <3>1, ConcatEmptySeq
  <2>2. /\ told.expects = f.expects /\ told.sources = a.sources \o f.sources
        /\ told.words = a.words \o f.words /\ told.options = a.options \o f.options
        /\ told.outputs = a.outputs \o f.outputs
    BY <1>4 DEF Both
  <2>3. told.outputs = k.outputs
    <3>1. CASE outs = <<>> /\ f.outputs = k.outputs
      BY <1>3, <2>1, <2>2, <3>1
    <3>2. CASE f.outputs = <<>> /\ Pair(v, outs) /\ k.outputs = <<v[outs[2]]>>
      <4>1. outs # <<>>
        BY <3>2 DEF Pair
      <4> QED  BY <1>3, <2>1, <2>2, <3>2, <4>1
    <3> QED  BY <1>1, <3>1, <3>2
  <2> QED  BY <1>1, <1>3, <2>1, <2>2, <2>3
<1>10. told \in ToldOf(S)
  BY <1>4, <1>3, <1>5, BothTyped
<1>11. CASE k.expects = "none"
  <2>1. Heeded(told) = told /\ Heeded(k) = k
    BY <1>9, <1>11 DEF Heeded
  <2>2. told = [k EXCEPT !.sources = wraps]
    BY <1>5, <1>9, <1>10 DEF ToldOf
  <2> QED  BY <1>6, <1>7, <1>8, <2>1, <2>2 DEF wraps
<1>12. CASE k.expects # "none"
  <2>1. Heeded(told) = [Told0 EXCEPT !.expects = k.expects]
    BY <1>9, <1>12 DEF Heeded
  <2>2. Meant(v) = [Told0 EXCEPT !.expects = k.expects]
    BY <1>5, <1>7, <1>12, Refused
  <2> QED  BY <1>8, <2>1, <2>2 DEF wraps
<1> QED  BY <1>11, <1>12

LEMMA RefusedHeard ==
  ASSUME NEW S, NEW v \in Seq(S), Len(v) >= 1, NEW ins, NEW outs, NEW o \in S, o.kind = "-o",
         outs = <<>> \/ Pair(v, outs), Kept(v, Len(v)).expects = "output",
         Wrapped(v, ins) \in Seq(S)
  PROVE  Told(Append(Wrapped(v, ins) \o Picked(v, outs), o)) = Meant(v)
<1> DEFINE wraps == Wrapped(v, ins)
           line == wraps \o Picked(v, outs)
           a == Heard(line)
           k == Kept(v, Len(v))
<1>1. \A j \in 1..Len(wraps) : wraps[j].kind = "wrapper"
  BY DEF Wrapped, Made
<1>2. line \in Seq(S) /\ a \in ToldOf(S) /\ a.expects = "none"
  <2>1. wraps \in Seq(S)
    OBVIOUS
  <2> HIDE DEF wraps
  <2>2. /\ line \in Seq(S)
        /\ a \in ToldOf(S) /\ a.expects = "none" /\ a.sources = wraps
        /\ a.words = <<>> /\ a.options = <<>>
        /\ a.outputs = IF outs = <<>> THEN <<>> ELSE <<v[outs[2]]>>
    BY <1>1, <2>1, FrontHeard
  <2> QED  BY <2>2
<1>3. Meant(v) = [Heeded(k) EXCEPT !.sources =
                    [j \in 1..Len(Heeded(k).sources) |-> Made("wrapper", Heeded(k).sources[j].text)]]
      /\ k \in ToldOf(S)
  BY MeantIs
<1>4. k.expects = "output"
  OBVIOUS
<1>5. Meant(v) = [Told0 EXCEPT !.expects = "output"]
  <2> HIDE DEF k
  <2>1. k.expects # "none"
    BY <1>4
  <2> QED  BY <1>3, <1>4, <2>1, Refused
<1>6. Heard(Append(line, o)) = Hear(a, o)
  <2> HIDE DEF line
  <2> QED  BY <1>2, HeardMore
<1> HIDE DEF line, a
<1>7. Hear(a, o).expects = "output"
  <2>1. Hear(a, o).expects = Due("none", o)
    BY <1>2, HearFields
  <2>2. Due("none", o) = "output"
    BY OthersGo
  <2> QED  BY <2>1, <2>2
<1>8. Told(Append(line, o)) = [Told0 EXCEPT !.expects = "output"]
  BY <1>6, <1>7 DEF Told, Heeded
<1> QED  BY <1>5, <1>8 DEF line

-----------------------------------------------------------------------------
(* What execvp sees of a line.                                             *)
LEMMA TailOne ==
  ASSUME NEW S, NEW c \in S, NEW s \in Seq(S)
  PROVE  Tail(<<c>> \o s) = s
<1> DEFINE t == <<c>> \o s
<1>1. <<c>> \in Seq(S) /\ Len(<<c>>) = 1 /\ Len(s) \in Nat
  BY LenProperties
<1>2. /\ t \in Seq(S) /\ Len(t) = 1 + Len(s)
      /\ \A k \in 1..Len(s) : t[1 + k] = s[k]
  <2>1. /\ t \in Seq(S) /\ Len(t) = Len(<<c>>) + Len(s)
        /\ \A k \in 1..Len(s) : t[Len(<<c>>) + k] = s[k]
    BY <1>1, Joined
  <2> QED  BY <1>1, <2>1, Zenon
<1> HIDE DEF t
<1>3. t # <<>>
  BY <1>1, <1>2
<1>4. Tail(t) \in Seq(S) /\ Len(Tail(t)) = Len(s)
      /\ \A k \in 1..Len(s) : Tail(t)[k] = t[k + 1]
  <2>1. Tail(t) \in Seq(S) /\ Len(Tail(t)) = Len(t) - 1
        /\ \A k \in 1..Len(Tail(t)) : Tail(t)[k] = t[k + 1]
    BY <1>2, <1>3, HeadTailProperties
  <2> QED  BY <1>1, <1>2, <2>1
<1>5. \A k \in 1..Len(s) : Tail(t)[k] = s[k]
  <2>1. ASSUME NEW k \in 1..Len(s) PROVE Tail(t)[k] = s[k]
    <3>1. 1 + k = k + 1
      BY <1>1
    <3> QED  BY <1>2, <1>4, <3>1
  <2> QED  BY <2>1
<1>6. Tail(t) = s
  BY <1>4, <1>5, SeqEqual
<1> QED  BY <1>6 DEF t

LEMMA ExecutedWhole ==
  ASSUME NEW S, NEW cmd \in Seq(S), Null \notin S
  PROVE  Executed(cmd) = cmd
<1>1. {k \in 1..Len(cmd) : cmd[k] = Null} = {}
  BY ElementOfSeq
<1> QED  BY <1>1 DEF Executed

(* An -o that ends the line takes the NULL behind it, and ends what is read. *)
LEMMA ExecutedCut ==
  ASSUME NEW S, NEW s \in Seq(S), NEW w \in S, NEW t \in Seq(S), Null \notin S
  PROVE  Executed((s \o <<w, Null>>) \o t) = Append(s, w)
<1> DEFINE T == S \cup {Null}
           two == <<w, Null>>
           front == s \o two
           cmd == front \o t
           n == Len(s)
           ends == {k \in 1..Len(cmd) : cmd[k] = Null}
<1>1. n \in Nat /\ Len(t) \in Nat /\ s \in Seq(T) /\ t \in Seq(T) /\ two \in Seq(T) /\ w # Null
      /\ Len(two) = 2 /\ two[1] = w /\ two[2] = Null
  BY LenProperties
<1> HIDE DEF T, two
<1>0. \A a, b \in Seq(T) :
        /\ a \o b \in Seq(T) /\ Len(a \o b) = Len(a) + Len(b)
        /\ \A k \in 1..Len(a) : (a \o b)[k] = a[k]
        /\ \A k \in 1..Len(b) : (a \o b)[Len(a) + k] = b[k]
  BY Joined
<1>2. /\ front \in Seq(T) /\ Len(front) = n + 2
      /\ \A k \in 1..n : front[k] = s[k]
      /\ \A k \in 1..2 : front[n + k] = two[k]
  <2>1. /\ front \in Seq(T) /\ Len(front) = Len(s) + Len(two)
        /\ \A k \in 1..Len(s) : front[k] = s[k]
        /\ \A k \in 1..Len(two) : front[Len(s) + k] = two[k]
    BY <1>0, <1>1, Zenon
  <2> QED  BY <1>1, <2>1
<1> HIDE DEF front
<1>3. /\ cmd \in Seq(T) /\ Len(cmd) = (n + 2) + Len(t)
      /\ \A k \in 1..(n + 2) : cmd[k] = front[k]
  <2>1. /\ cmd \in Seq(T) /\ Len(cmd) = Len(front) + Len(t)
        /\ \A k \in 1..Len(front) : cmd[k] = front[k]
    BY <1>0, <1>1, <1>2, Zenon
  <2> QED  BY <1>2, <2>1
<1>4. \A k \in 1..n : cmd[k] = s[k] /\ s[k] \in S
  <2>1. ASSUME NEW k \in 1..n PROVE cmd[k] = s[k] /\ s[k] \in S
    <3>1. k \in 1..(n + 2)
      BY <1>1
    <3> QED  BY <1>2, <1>3, <3>1, ElementOfSeq
  <2> QED  BY <2>1
<1>5. cmd[n + 1] = w /\ cmd[n + 2] = Null
  <2>1. n + 1 \in 1..(n + 2) /\ n + 2 \in 1..(n + 2) /\ 1 \in 1..2 /\ 2 \in 1..2
    BY <1>1
  <2>2. front[n + 1] = two[1] /\ front[n + 2] = two[2]
    BY <1>2, <2>1
  <2> QED  BY <1>1, <1>3, <2>1, <2>2
<1> HIDE DEF cmd
<1>6. n + 2 \in ends /\ \A k \in ends : n + 2 <= k
  <2>1. n + 2 \in 1..Len(cmd) /\ n + 2 \in ends
    BY <1>1, <1>3, <1>5
  <2>2. ASSUME NEW k \in ends, k < n + 2 PROVE FALSE
    <3>1. k \in Nat /\ cmd[k] = Null /\ (k \in 1..n \/ k = n + 1)
      BY <1>1, <2>2
    <3> QED  BY <1>1, <1>4, <1>5, <3>1
  <2>3. \A k \in ends : k \in Nat
    OBVIOUS
  <2> QED  BY <1>1, <2>1, <2>2, <2>3
<1>7. Executed(cmd) = SubSeq(cmd, 1, n + 1)
  <2> DEFINE c == CHOOSE k \in ends : \A l \in ends : k <= l
  <2>1. c \in ends /\ \A l \in ends : c <= l
    BY <1>6
  <2>2. ends # {} /\ Executed(cmd) = SubSeq(cmd, 1, c - 1)
    BY <1>6 DEF Executed
  <2> HIDE DEF c
  <2>3. c = n + 2
    <3>1. c <= n + 2 /\ n + 2 <= c /\ c \in Nat
      BY <1>6, <2>1
    <3> QED  BY <1>1, <3>1
  <2>4. c - 1 = n + 1
    BY <1>1, <2>3
  <2> QED  BY <2>2, <2>4
<1>8. SubSeq(cmd, 1, n + 1) = Append(s, w)
  <2> DEFINE cut == SubSeq(cmd, 1, n + 1)
             whole == Append(s, w)
  <2>1. cut \in Seq(T) /\ Len(cut) = n + 1 /\ \A k \in 1..(n + 1) : cut[k] = cmd[k]
    <3>1. \A k \in 1..(n + 1) : cmd[k] \in T
      <4>1. \A k \in 1..(n + 1) : k \in 1..Len(cmd)
        BY <1>1, <1>3
      <4> QED  BY <1>3, <4>1, ElementOfSeq
    <3>2. /\ cut \in Seq(T) /\ Len(cut) = IF 1 <= n + 1 THEN (n + 1) - 1 + 1 ELSE 0
          /\ \A k \in 1..((n + 1) - 1 + 1) : cut[k] = cmd[1 + k - 1]
      BY <1>1, <3>1, SubSeqProperties
    <3>3. (n + 1) - 1 + 1 = n + 1 /\ 1 <= n + 1 /\ \A k \in 1..(n + 1) : 1 + k - 1 = k
      BY <1>1
    <3> QED  BY <3>2, <3>3
  <2>2. whole \in Seq(T) /\ Len(whole) = n + 1 /\ whole[n + 1] = w /\ \A k \in 1..n : whole[k] = s[k]
    <3>1. w \in T
      BY DEF T
    <3> QED  BY <1>1, <3>1, AppendProperties
  <2> HIDE DEF cut, whole
  <2>3. \A k \in 1..Len(cut) : cut[k] = whole[k]
    <3>1. ASSUME NEW k \in 1..(n + 1) PROVE cut[k] = whole[k]
      <4>1. k \in 1..n \/ k = n + 1
        BY <1>1
      <4> QED  BY <1>4, <1>5, <2>1, <2>2, <4>1
    <3> QED  BY <2>1, <3>1
  <2>4. cut = whole
    BY <2>1, <2>2, <2>3, SeqEqual
  <2> QED  BY <2>4 DEF cut, whole
<1> QED  BY <1>7, <1>8 DEF cmd, front, two

-----------------------------------------------------------------------------
(* The invariant: while main is at work, the lists and the line agree.      *)
Going == pc \in {"parse", "next input", "run runner"}
DealtWith ==
  \A m \in 1..Len(input_files) :
    m < file => argv[input_files[m]] = Made("wrapper", given[input_files[m]].text)
Passed ==
  IF i <= Len(given) + 1
  THEN Agrees(given, i - 1, input_files, output_files, Picked(given, flags))
  ELSE /\ Kept(given, Len(given)).expects = "output" /\ given[Len(given)].kind = "-o"
       /\ \E outs : (outs = <<>> \/ Pair(given, outs))
                    /\ output_files = outs \o <<Len(given), Len(given) + 1>>
Simulated ==
  /\ Runs
  /\ pc = "cli" => i = 2 /\ input_files = <<>> /\ output_files = <<>> /\ flags = <<>>
  /\ Going => DealtWith
  /\ pc \in {"next input", "run runner"} => i > Len(given)
  /\ Going /\ Supported(given) => Passed
  /\ DropIn

(* What main finds in argv when every input is dealt with.                 *)
LEMMA FoundInArgv ==
  ASSUME Untouched, DealtWith, file > Len(input_files), Len(given) >= 1
  PROVE  /\ given \in Seq(Argv) /\ Null \notin Argv /\ argv[1] \in Argv
         /\ Indexed(input_files) = Wrapped(given, input_files)
         /\ Wrapped(given, input_files) \in Seq(Argv)
         /\ Indexed(flags) = Picked(given, flags) /\ Picked(given, flags) \in Seq(Argv)
         /\ \A x \in Positions(output_files) : x <= Len(given) => ArgvAt(x) = given[x]
         /\ ArgvAt(Len(given) + 1) = Null
<1>1. /\ Sorted /\ Len(given) \in Nat /\ argv \in Seq(Argv) /\ Len(argv) = Len(given)
      /\ argc = Len(given) + 1 /\ file \in Nat
      /\ input_files \in Seq(2..Len(given)) /\ flags \in Seq(2..Len(given))
      /\ output_files \in Seq(2..argc)
  BY SortedTypes DEF Untouched
<1>2. given \in Seq(Word) /\ Word \subseteq Argv
  BY <1>1 DEF Sorted, Argv
<1>3. given \in Seq(Argv)
  BY <1>2, SeqMonotonic
<1>4. Null \notin Argv
  BY NoNull
<1>5. argv[1] \in Argv
  BY <1>1, ElementOfSeq
<1>6. Len(input_files) \in Nat /\ Len(flags) \in Nat /\ Len(output_files) \in Nat
  BY <1>1, LenProperties
<1>7. \A m \in 1..Len(input_files) : input_files[m] \in 2..Len(given) /\ m < file
  BY <1>1, <1>6, ElementOfSeq
<1>8. ASSUME NEW m \in 1..Len(input_files)
      PROVE  ArgvAt(input_files[m]) = Made("wrapper", given[input_files[m]].text)
             /\ ArgvAt(input_files[m]) \in Argv
  <2>1. input_files[m] \in 1..Len(argv) /\ input_files[m] < argc /\ m < file
    BY <1>1, <1>7
  <2>2. ArgvAt(input_files[m]) = argv[input_files[m]]
    BY <2>1 DEF ArgvAt
  <2>3. argv[input_files[m]] = Made("wrapper", given[input_files[m]].text)
    BY <2>1, Zenon DEF DealtWith
  <2>4. argv[input_files[m]] \in Argv
    BY <1>1, <2>1, ElementOfSeq
  <2> QED  BY <2>2, <2>3, <2>4
<1>9. Indexed(input_files) = Wrapped(given, input_files)
      /\ Wrapped(given, input_files) \in Seq(Argv)
  <2>1. Indexed(input_files) = Wrapped(given, input_files)
    BY <1>8, Zenon DEF Indexed, Wrapped
  <2>2. Indexed(input_files) \in Seq(Argv)
    BY <1>6, <1>8 DEF Indexed
  <2> QED  BY <2>1, <2>2
<1>10. ASSUME NEW x \in 1..Len(given), x \notin Positions(input_files)
       PROVE  ArgvAt(x) = given[x]
  <2>1. \A m \in 1..Len(input_files) : x # input_files[m]
    BY <1>10 DEF Positions
  <2>2. \A m \in 1..(file - 1) : m <= Len(input_files) => x # input_files[m]
    <3>1. \A m \in 1..(file - 1) : m <= Len(input_files) => m \in 1..Len(input_files)
      BY <1>1, <1>6
    <3> QED  BY <2>1, <3>1
  <2>3. argv[x] = given[x]
    BY <2>2, Zenon DEF Untouched
  <2>4. x < argc
    BY <1>1
  <2> QED  BY <2>3, <2>4 DEF ArgvAt
<1>11. Indexed(flags) = Picked(given, flags)
  <2>1. ASSUME NEW k \in 1..Len(flags) PROVE ArgvAt(flags[k]) = given[flags[k]]
    <3>1. flags[k] \in 1..Len(given)
      <4>1. flags[k] \in 2..Len(given)
        BY <1>1, ElementOfSeq
      <4> QED  BY <1>1, <4>1
    <3>2. flags[k] \notin Positions(input_files)
      <4>1. Positions(input_files) \cap Positions(flags) = {} /\ flags[k] \in Positions(flags)
        BY <1>1 DEF Sorted, Positions
      <4> QED  BY <4>1
    <3> QED  BY <1>10, <3>1, <3>2
  <2> QED  BY <2>1, Zenon DEF Indexed, Picked
<1>12. Picked(given, flags) \in Seq(Argv)
  BY <1>11, FlagWords
<1>13. ASSUME NEW x \in Positions(output_files), x <= Len(given) PROVE ArgvAt(x) = given[x]
  <2>1. x \in 1..Len(given)
    <3>1. x \in 2..argc
      BY <1>1, PositionsAreIndices
    <3> QED  BY <1>1, <1>13, <3>1
  <2>2. x \notin Positions(input_files)
    BY <1>1 DEF Sorted
  <2> QED  BY <1>10, <2>1, <2>2
<1>14. ArgvAt(Len(given) + 1) = Null
  BY <1>1 DEF ArgvAt
<1> QED  BY <1>3, <1>4, <1>5, <1>9, <1>11, <1>12, <1>13, <1>14

(* Two pairs of words make a line of four.                                  *)
LEMMA FourWords ==
  ASSUME NEW a, NEW b, NEW d, NEW e
  PROVE  <<a, b>> \o <<d, e>> = <<a, b, d, e>>
<1> DEFINE S == {a, b, d, e}
           s == <<a, b>>
           t == <<d, e>>
           four == <<a, b, d, e>>
<1>1. s \in Seq(S) /\ t \in Seq(S) /\ four \in Seq(S) /\ Len(s) = 2 /\ Len(t) = 2 /\ Len(four) = 4
      /\ s[1] = a /\ s[2] = b /\ t[1] = d /\ t[2] = e
      /\ four[1] = a /\ four[2] = b /\ four[3] = d /\ four[4] = e
  OBVIOUS
<1> HIDE DEF s, t, four, S
<1>0. \A x, y \in Seq(S) :
        /\ x \o y \in Seq(S) /\ Len(x \o y) = Len(x) + Len(y)
        /\ \A k \in 1..Len(x) : (x \o y)[k] = x[k]
        /\ \A k \in 1..Len(y) : (x \o y)[Len(x) + k] = y[k]
  BY Joined
<1>2. /\ s \o t \in Seq(S) /\ Len(s \o t) = Len(s) + Len(t)
      /\ \A k \in 1..Len(s) : (s \o t)[k] = s[k]
      /\ \A k \in 1..Len(t) : (s \o t)[Len(s) + k] = t[k]
  BY <1>0, <1>1, Zenon
<1>3. \A k \in 1..4 : (s \o t)[k] = four[k]
  BY <1>1, <1>2
<1>4. s \o t = four
  BY <1>1, <1>2, <1>3, SeqEqual
<1> QED  BY <1>4 DEF s, t, four

(* Concatenation under a name of its own, for steps that only regroup.      *)
Cat(s, t) == s \o t
LEMMA LinesJoin ==
  ASSUME NEW S
  PROVE  \A s, t, u \in Seq(S) : Cat(Cat(s, t), u) = Cat(s, Cat(t, u))
BY ConcatAssociative DEF Cat

LEMMA FourLines ==
  ASSUME NEW S, NEW a \in Seq(S), NEW b \in Seq(S), NEW d \in Seq(S), NEW e \in Seq(S)
  PROVE  /\ Cat(Cat(Cat(a, b), d), e) = Cat(a, Cat(Cat(b, d), e))
         /\ Cat(Cat(a, b), Cat(d, e)) = Cat(Cat(a, Cat(b, d)), e)
<1> DEFINE Q == Seq(S)
<1>1. \A s, t, u \in Q : Cat(Cat(s, t), u) = Cat(s, Cat(t, u))
  BY LinesJoin
<1>2. \A s, t \in Q : Cat(s, t) \in Q
  BY ConcatProperties DEF Cat
<1>3. a \in Q /\ b \in Q /\ d \in Q /\ e \in Q
  OBVIOUS
<1> HIDE DEF Q
<1> QED  BY <1>1, <1>2, <1>3

(* The final command says what the user's own line would have said.         *)
LEMMA FinalTells ==
  ASSUME Untouched, DealtWith, Passed, Len(given) >= 1, i > Len(given),
         file > Len(input_files)
  PROVE  Told(Tail(Executed(FinalCommand))) = Meant(given)
<1> DEFINE c == argv[1]
           I == Wrapped(given, input_files)
           F == Picked(given, flags)
           last == Len(given)
<1>1. /\ Untouched /\ DealtWith /\ Passed /\ i > last /\ last >= 1
      /\ last \in Nat /\ i \in 2..(last + 2) /\ Len(input_files) \in Nat
      /\ Len(output_files) \in Nat
  <2>1. Sorted
    BY DEF Untouched
  <2>2. i \in 2..(last + 2)
    BY <2>1, Zenon DEF Sorted
  <2>3. last \in Nat /\ Len(input_files) \in Nat /\ Len(output_files) \in Nat
    BY <2>1, SortedTypes, LenProperties
  <2> QED  BY <2>1, <2>2, <2>3
<1>2. /\ given \in Seq(Argv) /\ Null \notin Argv /\ c \in Argv
      /\ Indexed(input_files) = I /\ I \in Seq(Argv)
      /\ Indexed(flags) = F /\ F \in Seq(Argv)
      /\ \A x \in Positions(output_files) : x <= last => ArgvAt(x) = given[x]
      /\ ArgvAt(last + 1) = Null
  BY <1>1, FoundInArgv
<1>3. FinalCommand = <<c>> \o I \o Indexed(output_files) \o F
  BY <1>2 DEF FinalCommand
<1>4. \A k \in 1..Len(output_files) : output_files[k] \in Positions(output_files)
  BY DEF Positions
<1>5. <<c>> \in Seq(Argv)
  BY <1>2
<1> HIDE DEF c, F, last
<1>6. CASE i <= last + 1
  <2> DEFINE O == Picked(given, output_files)
  <2>1. Agrees(given, last, input_files, output_files, F)
    <3>1. i - 1 = last
      BY <1>1, <1>6
    <3> QED  BY <1>1, <1>6, <3>1, Zenon DEF Passed, F, last
  <2>2. output_files = <<>> \/ Pair(given, output_files)
    BY <2>1, Zenon DEF Agrees
  <2>3. O \in Seq(Argv)
    BY <1>2, <2>2, OutputHeard
  <2>4. Indexed(output_files) = O
    <3>1. \A k \in 1..Len(output_files) : ArgvAt(output_files[k]) = given[output_files[k]]
      <4>1. CASE output_files = <<>>
        BY <4>1
      <4>2. CASE Pair(given, output_files)
        <5>1. PICK k \in 2..(last - 1) : output_files = <<k, k + 1>>
          BY <4>2 DEF Pair, last
        <5>2. k <= last /\ k + 1 <= last
          BY <1>1, <5>1
        <5>3. k \in Positions(output_files) /\ k + 1 \in Positions(output_files)
          BY <5>1 DEF Positions
        <5>4. ArgvAt(k) = given[k] /\ ArgvAt(k + 1) = given[k + 1]
          BY <1>2, <5>2, <5>3
        <5> QED  BY <5>1, <5>4
      <4> QED  BY <2>2, <4>1, <4>2
    <3> QED  BY <3>1, Zenon DEF Indexed, Picked
  <2> HIDE DEF O
  <2> DEFINE rest == I \o O \o F
  <2>5. /\ rest \in Seq(Argv) /\ FinalCommand = <<c>> \o rest
    <3> HIDE DEF I
    <3>1. I \in Seq(Argv)
      BY <1>2 DEF I
    <3>2. I \o O \in Seq(Argv) /\ rest \in Seq(Argv) /\ <<c>> \o I \in Seq(Argv)
      BY <1>2, <1>5, <2>3, <3>1, ConcatProperties
    <3>3. ((<<c>> \o I) \o O) \o F = <<c>> \o ((I \o O) \o F)
      <4> DEFINE one == <<c>>
      <4>1. one \in Seq(Argv) /\ F \in Seq(Argv)
        BY <1>2, <1>5, <2>3, <3>1
      <4> HIDE DEF one
      <4>2. Cat(Cat(Cat(one, I), O), F) = Cat(one, Cat(Cat(I, O), F))
        BY <1>2, <2>3, <3>1, <4>1, FourLines
      <4> QED  BY <4>2 DEF one, Cat
    <3> QED  BY <1>3, <2>4, <3>2, <3>3, Zenon DEF I
  <2>6. Told(rest) = Meant(given)
    BY <1>1, <1>2, <2>1, FinalHeard DEF O, last
  <2> HIDE DEF rest
  <2>7. Executed(FinalCommand) = FinalCommand
    <3>1. FinalCommand \in Seq(Argv)
      BY <1>5, <2>5, ConcatProperties
    <3> QED  BY <1>2, <3>1, ExecutedWhole
  <2>8. Tail(FinalCommand) = rest
    BY <1>2, <2>5, TailOne
  <2> QED  BY <2>6, <2>7, <2>8
<1>7. CASE ~(i <= last + 1)
  <2>1. PICK outs : /\ outs = <<>> \/ Pair(given, outs)
                    /\ output_files = outs \o <<last, last + 1>>
    BY <1>1, <1>7, Zenon DEF Passed, last
  <2>2. Kept(given, last).expects = "output" /\ given[last].kind = "-o"
    BY <1>1, <1>7, Zenon DEF Passed, last
  <2> DEFINE P == Picked(given, outs)
             d == given[last]
  <2>3. P \in Seq(Argv) /\ d \in Argv
    <3>1. d \in Argv
      <4>1. last \in 1..Len(given)
        BY <1>1 DEF last
      <4> QED  BY <1>2, <4>1, ElementOfSeq
    <3>2. P \in Seq(Argv)
      BY <1>2, <2>1, OutputHeard
    <3> QED  BY <3>1, <3>2
  <2>4. Indexed(output_files) = P \o <<d, Null>>
    <3>1. CASE outs = <<>>
      <4>1. output_files = <<last, last + 1>>
        BY <2>1, <3>1
      <4>2. last \in Positions(output_files)
        BY <4>1 DEF Positions
      <4>3. ArgvAt(last) = d /\ ArgvAt(last + 1) = Null
        BY <1>1, <1>2, <4>2
      <4>4. P = <<>>
        BY <3>1 DEF Picked
      <4> HIDE DEF P, d
      <4>5. Indexed(output_files) = <<d, Null>>
        BY <4>1, <4>3 DEF Indexed
      <4> QED  BY <4>4, <4>5
    <3>2. CASE Pair(given, outs)
      <4>1. PICK k \in 2..(last - 1) : outs = <<k, k + 1>>
        BY <3>2 DEF Pair, last
      <4>2. output_files = <<k, k + 1, last, last + 1>>
        <5>1. <<k, k + 1>> \o <<last, last + 1>> = <<k, k + 1, last, last + 1>>
          BY FourWords
        <5> QED  BY <2>1, <4>1, <5>1, Zenon
      <4>3. k <= last /\ k + 1 <= last
        BY <1>1, <4>1
      <4>4. /\ k \in Positions(output_files) /\ k + 1 \in Positions(output_files)
            /\ last \in Positions(output_files)
        BY <4>2 DEF Positions
      <4>5. /\ ArgvAt(k) = given[k] /\ ArgvAt(k + 1) = given[k + 1] /\ ArgvAt(last) = d
            /\ ArgvAt(last + 1) = Null
        BY <1>1, <1>2, <4>3, <4>4
      <4>6. P = <<given[k], given[k + 1]>>
        BY <4>1 DEF Picked
      <4> HIDE DEF P, d
      <4>7. Indexed(output_files) = <<given[k], given[k + 1], d, Null>>
        BY <4>2, <4>5 DEF Indexed
      <4> QED  BY <4>6, <4>7
    <3> QED  BY <2>1, <3>1, <3>2
  <2> HIDE DEF P, d
  <2> DEFINE rest == I \o P
             front == <<c>> \o rest
  <2>5. /\ rest \in Seq(Argv) /\ front \in Seq(Argv)
        /\ FinalCommand = (front \o <<d, Null>>) \o F
    <3> DEFINE T == Argv \cup {Null}
               two == <<d, Null>>
    <3> HIDE DEF I, two
    <3>1. I \in Seq(Argv)
      BY <1>2 DEF I
    <3>2. I \in Seq(T) /\ P \in Seq(T) /\ <<c>> \in Seq(T) /\ F \in Seq(T) /\ two \in Seq(T)
      <4>1. \A s \in Seq(Argv) : s \in Seq(T)
        OBVIOUS
      <4>2. two \in Seq(T)
        BY <2>3 DEF two
      <4> QED  BY <1>2, <1>5, <2>3, <3>1, <4>1, <4>2, Zenon
    <3>3. rest \in Seq(Argv) /\ front \in Seq(Argv)
      BY <1>5, <2>3, <3>1, ConcatProperties
    <3> HIDE DEF T
    <3>4. (<<c>> \o I) \o (P \o two) = front \o two
      <4> DEFINE one == <<c>>
      <4>1. one \in Seq(T)
        BY <3>2
      <4> HIDE DEF one
      <4>2. Cat(Cat(one, I), Cat(P, two)) = Cat(Cat(one, Cat(I, P)), two)
        BY <3>2, <4>1, FourLines
      <4> QED  BY <4>2 DEF one, Cat
    <3> QED  BY <1>3, <2>4, <3>3, <3>4, Zenon DEF I, two
  <2>6. Executed(FinalCommand) = Append(front, d)
    <3> HIDE DEF front
    <3> QED  BY <1>2, <2>3, <2>5, ExecutedCut
  <2>7. Tail(Append(front, d)) = Append(rest, d)
    <3> HIDE DEF rest
    <3>1. Append(front, d) = <<c>> \o Append(rest, d)
      BY <1>5, <2>3, <2>5, AppendBehind
    <3>2. Append(rest, d) \in Seq(Argv)
      BY <2>3, <2>5, AppendProperties
    <3> HIDE DEF front
    <3> QED  BY <1>2, <3>1, <3>2, TailOne
  <2>8. Told(Append(rest, d)) = Meant(given)
    BY <1>1, <1>2, <2>1, <2>2, <2>3, RefusedHeard DEF P, d, last
  <2> QED  BY <2>6, <2>7, <2>8
<1> QED  BY <1>6, <1>7

LEMMA SimulatedInitially == CliInit => Simulated
<1> SUFFICES ASSUME CliInit PROVE Simulated
  OBVIOUS
<1>1. /\ pc = "cli" /\ i = 2 /\ input_files = <<>> /\ output_files = <<>> /\ flags = <<>>
  BY Zenon DEF CliInit
<1>2. ~Going /\ pc \notin {"next input", "run runner", "built", "failed"}
  BY <1>1, Zenon DEF Going
<1> QED  BY <1>1, <1>2, RunsInitially, Zenon DEF Simulated, DropIn

LEMMA RunsKept == Runs /\ [CliNext]_cliVars => Runs'
BY ParseKeepsRuns, CompileRunnerKeepsRuns, FinalKeepsRuns, OthersKeepRuns DEF CliNext, Compile

(* Before the first word is passed, nothing is in a list and nothing heard.  *)
LEMMA NothingPassed ==
  ASSUME NEW v
  PROVE  Agrees(v, 1, <<>>, <<>>, Picked(v, <<>>))
<1>1. Seen(v, 1) = <<>> /\ Picked(v, <<>>) = <<>>
  BY SubSeqEmpty DEF Seen, Picked
<1>2. Kept(v, 1) = Told0 /\ All(v, 1) = Told0 /\ Heard(<<>>) = Told0
  BY <1>1, HeardOfNothing DEF Kept, All, Heard
<1>3. /\ Told0.expects = "none" /\ Told0.sources = <<>> /\ Told0.words = <<>>
      /\ Told0.options = <<>> /\ Told0.outputs = <<>>
  BY DEF Told0
<1>4. "none" \in Expecting
  BY DEF Expecting
<1> QED  BY <1>1, <1>2, <1>3, <1>4, Zenon DEF Agrees

LEMMA CliStarts ==
  ASSUME Simulated, Cli
  PROVE  Simulated'
<1>1. Runs'
  BY RunsKept DEF Simulated, CliNext, Parse
<1>2. /\ pc = "cli" /\ pc' = "parse" /\ UNCHANGED <<given, argv, i, input_files, output_files, flags, file>>
      /\ argc >= 2
  BY Zenon DEF Cli, Goto, lists
<1>3. i = 2 /\ input_files = <<>> /\ output_files = <<>> /\ flags = <<>>
  BY <1>2, Zenon DEF Simulated
<1>4. Len(given) \in Nat /\ argc = Len(given) + 1
  <2>1. Sorted
    BY DEF Simulated, Runs, Untouched
  <2> QED  BY <2>1, SortedTypes
<1>5. DealtWith'
  <2>1. input_files' = <<>>
    BY <1>2, <1>3, Zenon
  <2>2. 1..Len(input_files') = {}
    BY <2>1
  <2> QED  BY <2>2, Zenon DEF DealtWith
<1>6. Passed'
  <2>1. argc >= 2
    BY <1>2, Zenon
  <2>2. i <= Len(given) + 1 /\ i - 1 = 1
    BY <1>3, <1>4, <2>1
  <2>3. Agrees(given, 1, <<>>, <<>>, Picked(given, <<>>))
    BY NothingPassed
  <2> QED  BY <1>2, <1>3, <2>2, <2>3, Zenon DEF Passed
<1>7. pc' \notin {"cli", "next input", "run runner", "built", "failed"}
  BY <1>2, Zenon
<1> QED  BY <1>1, <1>5, <1>6, <1>7, Zenon DEF Simulated, DropIn

(* A word more: it goes where the compiler would have put it.              *)
LEMMA ScanKeepsSimulated ==
  ASSUME Simulated, ScanOutput \/ ScanTool \/ ScanInput \/ ScanFlag
  PROVE  Simulated'
<1> DEFINE last == Len(given)
           n == i - 1
           w == given[i]
           F == Picked(given, flags)
<1>0. Sorted /\ Runs'
  BY RunsKept DEF Simulated, Runs, Untouched, CliNext, Parse
<1>1. /\ pc = "parse" /\ pc' = "parse" /\ i < argc /\ argv = given
      /\ UNCHANGED <<given, argv, file>>
      /\ \/ ScanOutput /\ w.kind = "-o"
         \/ ScanTool /\ w.kind \in ToolFlags
         \/ ScanInput /\ w.kind = "source"
         \/ ScanFlag /\ w.kind \in FlagKinds
  <2>1. pc = "parse" /\ i < argc /\ UNCHANGED <<given, argv, pc, file>>
    BY DEF ScanOutput, ScanTool, ScanInput, ScanFlag, At, Past
  <2>2. argv = given
    BY <1>0, <2>1, Zenon DEF Sorted
  <2>3. ScanOutput => w.kind = "-o"
    BY <2>2, Zenon DEF ScanOutput, At
  <2>4. ScanTool => w.kind \in ToolFlags
    BY <2>2, Zenon DEF ScanTool, At
  <2>5. ScanInput => w.kind = "source"
    BY <2>2, Zenon DEF ScanInput, At
  <2>6. ScanFlag => w.kind \in FlagKinds
    BY <2>2, Zenon DEF ScanFlag, At, FlagKinds
  <2> HIDE DEF w
  <2>7. \/ ScanOutput /\ w.kind = "-o"
        \/ ScanTool /\ w.kind \in ToolFlags
        \/ ScanInput /\ w.kind = "source"
        \/ ScanFlag /\ w.kind \in FlagKinds
    BY <2>3, <2>4, <2>5, <2>6, Zenon
  <2>8. pc' = "parse"
    BY <2>1, Zenon
  <2> QED  BY <2>1, <2>2, <2>7, <2>8, Zenon
<1>2. /\ last \in Nat /\ i \in 2..last /\ input_files \in Seq(2..last) /\ flags \in Seq(2..last)
  <2>1. last \in Nat /\ argc = last + 1 /\ input_files \in Seq(2..last) /\ flags \in Seq(2..last)
    BY <1>0, SortedTypes
  <2>2. i \in 2..(last + 2)
    BY <1>0, Zenon DEF Sorted
  <2>3. i < argc
    BY <1>1, Zenon
  <2> QED  BY <2>1, <2>2, <2>3
<1>3. n \in 1..(last - 1) /\ n + 1 = i /\ i \in 1..last /\ i <= last + 1 /\ (i + 1) - 1 = n + 1
      /\ i + 1 <= last + 1
  BY <1>2
<1>4. DealtWith'
  <2>1. file = 1
    BY <1>1, Zenon DEF Simulated, Runs
  <2>2. \A m \in 1..Len(input_files') : ~(m < 1)
    BY SMT
  <2> QED  BY <1>1, <2>1, <2>2, Zenon DEF DealtWith
<1>5. ASSUME Supported(given) PROVE Passed'
  <2>1. Agrees(given, n, input_files, output_files, F)
    <3>1. Passed
      BY <1>1, <1>5, Zenon DEF Simulated, Going
    <3> QED  BY <1>3, <3>1, Zenon DEF Passed
  <2>2. given \in Seq(Word)
    BY <1>0, Zenon DEF Sorted
  <2>3. input_files \in Seq(1..last) /\ flags \in Seq(1..last)
    <3>1. 2..last \subseteq 1..last
      BY <1>2
    <3> QED  BY <1>2, <3>1, SeqMonotonic
  <2>4. F \in Seq(Word) /\ Picked(given, Append(flags, i)) = Append(F, w)
    BY <1>3, <2>2, <2>3, PickedGrows
  <2>5. w = given[n + 1] /\ given' = given
    BY <1>1, <1>3
  <2> HIDE DEF w, F, n
  <2>6. CASE ScanFlag /\ w.kind \in FlagKinds
    <3>1. i' = i + 1 /\ UNCHANGED <<input_files, output_files>> /\ flags' = Append(flags, i)
      BY <2>6, Zenon DEF ScanFlag, Past
    <3>2. Agrees(given, n + 1, input_files, output_files, Append(F, given[n + 1]))
      <4>1. given[n + 1].kind \in FlagKinds
        BY <2>5, <2>6
      <4> QED  BY <1>3, <1>5, <2>1, <2>2, <2>4, <4>1, AgreesFlag
    <3> QED  BY <1>3, <2>4, <2>5, <3>1, <3>2, Zenon DEF Passed
  <2>7. CASE ScanInput /\ w.kind = "source"
    <3>1. i' = i + 1 /\ UNCHANGED <<flags, output_files>> /\ input_files' = Append(input_files, i)
      BY <2>7, Zenon DEF ScanInput, Past
    <3>2. Agrees(given, n + 1, Append(input_files, n + 1), output_files, F)
      <4>1. given[n + 1].kind = "source"
        BY <2>5, <2>7
      <4> QED  BY <1>3, <1>5, <2>1, <2>2, <2>3, <4>1, AgreesInput
    <3> QED  BY <1>3, <2>5, <3>1, <3>2, Zenon DEF Passed, F
  <2>8. CASE ScanTool /\ w.kind \in ToolFlags
    <3>1. i' = i + 1 /\ UNCHANGED <<flags, output_files, input_files>>
      BY <2>8, Zenon DEF ScanTool, Past
    <3>2. Agrees(given, n + 1, input_files, output_files, F)
      <4>1. given[n + 1].kind \in ToolFlags
        BY <2>5, <2>8
      <4> QED  BY <1>3, <1>5, <2>1, <2>2, <4>1, AgreesTool
    <3> QED  BY <1>3, <2>5, <3>1, <3>2, Zenon DEF Passed, F
  <2>9. CASE ScanOutput /\ w.kind = "-o"
    <3>1. i' = i + 2 /\ UNCHANGED <<flags, input_files>> /\ output_files' = output_files \o <<i, i + 1>>
      BY <2>9, Zenon DEF ScanOutput, Past
    <3>2. given[n + 1].kind = "-o"
      BY <2>5, <2>9
    <3>3. CASE i = last
      <4>1. Kept(given, n + 1).expects = "output"
        BY <1>3, <1>5, <2>1, <2>2, <3>2, DashHeard DEF Agrees
      <4>2. ~(i' <= last + 1)
        BY <1>2, <3>1, <3>3
      <4>3. output_files = <<>> \/ Pair(given, output_files)
        BY <2>1, Zenon DEF Agrees
      <4>4. Kept(given, last).expects = "output" /\ given[last].kind = "-o"
            /\ output_files' = output_files \o <<last, last + 1>>
        BY <1>3, <3>1, <3>2, <3>3, <4>1
      <4> QED  BY <2>5, <4>2, <4>3, <4>4, Zenon DEF Passed
    <3>4. CASE i # last
      <4>1. n \in 1..(last - 2) /\ i' <= last + 1 /\ i' - 1 = n + 2 /\ i + 1 = n + 2
        BY <1>2, <1>3, <3>1, <3>4
      <4>2. output_files = <<>> /\ Agrees(given, n + 2, input_files, <<n + 1, n + 2>>, F)
        BY <1>5, <2>1, <2>2, <2>4, <3>2, <4>1, AgreesOutput
      <4>3. output_files' = <<n + 1, n + 2>>
        <5>1. <<>> \o <<n + 1, n + 2>> = <<n + 1, n + 2>>
          OBVIOUS
        <5> QED  BY <1>3, <3>1, <4>1, <4>2, <5>1, Zenon
      <4> QED  BY <2>5, <3>1, <4>1, <4>2, <4>3, Zenon DEF Passed, F
    <3> QED  BY <3>3, <3>4
  <2> QED  BY <1>1, <2>6, <2>7, <2>8, <2>9 DEF w
<1>6. pc' \notin {"cli", "next input", "run runner", "built", "failed"}
  BY <1>1, Zenon
<1>7. Supported(given)' => Supported(given)
  BY <1>1, Zenon
<1> QED  BY <1>0, <1>4, <1>5, <1>6, <1>7, Zenon DEF Simulated, DropIn

(* Steps that leave the lists alone, and argv, and say nothing.            *)
LEMMA OthersKeepSimulated ==
  ASSUME Simulated,
         Usage \/ ScanUnknown \/ Parsed \/ RunFileAborts \/ CompileRunner \/ UNCHANGED cliVars
  PROVE  Simulated'
<1>0. Sorted /\ Runs'
  BY RunsKept DEF Simulated, Runs, Untouched, CliNext, Parse, Compile
<1>1. /\ UNCHANGED <<given, argv, i, input_files, output_files, flags, file>>
      /\ \/ pc' = pc /\ UNCHANGED commands
         \/ pc' \in {"usage", "unknown flag", "abort", "fatal"}
         \/ pc = "parse" /\ pc' = "next input" /\ i >= argc
         \/ pc = "next input" /\ pc' = "run runner"
  BY Zenon DEF Usage, ScanUnknown, Parsed, RunFileAborts, CompileRunner, AtInput, Goto, cliVars, lists
<1>2. CASE pc' = pc /\ UNCHANGED commands
  <2>1. DealtWith' <=> DealtWith
    BY <1>1, Zenon DEF DealtWith
  <2>2. Passed' <=> Passed
    BY <1>1, Zenon DEF Passed
  <2>3. DropIn' <=> DropIn
    BY <1>1, <1>2, Zenon DEF DropIn
  <2>4. Going' <=> Going
    BY <1>2, Zenon DEF Going
  <2> QED  BY <1>0, <1>1, <1>2, <2>1, <2>2, <2>3, <2>4, Zenon DEF Simulated
<1>3. CASE pc' \in {"usage", "unknown flag", "abort", "fatal"}
  <2>1. pc' \notin {"cli", "parse", "next input", "run runner", "built", "failed"}
    BY <1>3, Zenon
  <2> QED  BY <1>0, <2>1, Zenon DEF Simulated, Going, DropIn
<1>4. CASE \/ pc = "parse" /\ pc' = "next input" /\ i >= argc
           \/ pc = "next input" /\ pc' = "run runner"
  <2>1. Going /\ pc' \notin {"cli", "built", "failed"}
    BY <1>4, Zenon DEF Going
  <2>2. DealtWith' /\ (Supported(given)' => Passed')
    BY <1>1, <2>1, Zenon DEF Simulated, DealtWith, Passed
  <2>3. i' > Len(given')
    <3>1. CASE pc = "next input"
      BY <1>1, <3>1, Zenon DEF Simulated
    <3>2. CASE i >= argc
      <4>1. Len(given) \in Nat /\ argc = Len(given) + 1
        BY <1>0, SortedTypes
      <4>2. i \in 2..(Len(given) + 2)
        BY <1>0, Zenon DEF Sorted
      <4>3. \A a, m \in Nat : m >= a + 1 => m > a
        OBVIOUS
      <4>4. i \in Nat
        BY <4>1, <4>2
      <4> QED  BY <1>1, <3>2, <4>1, <4>3, <4>4, Zenon
    <3> QED  BY <1>4, <3>1, <3>2, Zenon
  <2> QED  BY <1>0, <2>1, <2>2, <2>3, Zenon DEF Simulated, DropIn
<1> QED  BY <1>1, <1>2, <1>3, <1>4, Zenon

(* The next input is dealt with: nothing had touched it before.            *)
LEMMA RunRunnerKeepsSimulated ==
  ASSUME Simulated, RunRunner
  PROVE  Simulated'
<1>0. Sorted /\ Untouched /\ Runs'
  BY RunsKept DEF Simulated, Runs, Untouched, CliNext, Compile
<1>1. /\ pc = "run runner" /\ UNCHANGED <<given, i, input_files, output_files, flags, commands>>
      /\ \/ /\ pc' = "next input" /\ file' = file + 1
            /\ argv' = [argv EXCEPT ![input_files[file]] = Made("wrapper", Source)]
         \/ pc' = "failed" /\ UNCHANGED <<argv, file>>
  BY Zenon DEF RunRunner, lists
<1>2. file <= Len(input_files)
  BY <1>0, <1>1, Zenon DEF Sorted
<1>3. /\ Len(given) \in Nat /\ argv \in Seq(Argv) /\ Len(argv) = Len(given)
      /\ file \in Nat /\ file # 0 /\ input_files \in Seq(2..Len(given)) /\ Len(input_files) \in Nat
  BY <1>0, SortedTypes, LenProperties
<1>4. CASE pc' = "failed" /\ UNCHANGED <<argv, file>>
  <2>1. ~(file > Len(input_files))
    BY <1>2, <1>3
  <2>2. ~(file' > Len(input_files'))
    BY <1>1, <1>4, <2>1, Zenon
  <2>3. pc' \notin {"cli", "parse", "next input", "run runner"}
    BY <1>4, Zenon
  <2> QED  BY <1>0, <2>2, <2>3, Zenon DEF Simulated, Going, DropIn
<1>5. CASE /\ pc' = "next input" /\ file' = file + 1
           /\ argv' = [argv EXCEPT ![input_files[file]] = Made("wrapper", Source)]
  <2> DEFINE k == input_files[file]
  <2>0. argv' = [argv EXCEPT ![k] = Made("wrapper", Source)] /\ file' = file + 1
    BY <1>5, Zenon
  <2>1. file \in 1..Len(input_files) /\ k \in 2..Len(given) /\ k \in 1..Len(argv)
    BY <1>2, <1>3, ElementOfSeq
  <2>2. \A m \in 1..(file - 1) : m \in 1..Len(input_files) /\ m < file /\ input_files[m] # k
    <3> SUFFICES ASSUME NEW m \in 1..(file - 1)
                 PROVE  m \in 1..Len(input_files) /\ m < file /\ input_files[m] # k
      OBVIOUS
    <3>1. m \in 1..Len(input_files) /\ m < file
      BY <1>3, <2>1
    <3>2. input_files[m] < k
      BY <1>0, <2>1, <3>1 DEF Sorted, Indices, Increasing
    <3>3. input_files[m] \in 2..Len(given)
      BY <1>3, <3>1, ElementOfSeq
    <3> QED  BY <1>3, <3>1, <3>2, <3>3
  <2>3. argv[k] = given[k]
    BY <1>0, <1>3, <2>1, <2>2 DEF Untouched
  <2>4. Source = given[k].text
    BY <2>3 DEF Source
  <2>5. DealtWith
    BY <1>1, Zenon DEF Simulated, Going
  <2>6. ASSUME NEW m \in 1..Len(input_files), m < file + 1
        PROVE  argv'[input_files[m]] = Made("wrapper", given[input_files[m]].text)
    <3>1. CASE m = file
      <4>1. argv'[k] = Made("wrapper", Source)
        BY <1>3, <2>0, <2>1
      <4> QED  BY <2>4, <3>1, <4>1
    <3>2. CASE m # file
      <4>1. m \in 1..(file - 1) /\ m < file
        BY <1>3, <2>6, <3>2
      <4>2. argv[input_files[m]] = Made("wrapper", given[input_files[m]].text)
        BY <2>5, <4>1, Zenon DEF DealtWith
      <4>3. input_files[m] # k
        BY <2>2, <4>1
      <4>4. argv'[input_files[m]] = argv[input_files[m]]
        <5>1. input_files[m] \in 2..Len(given)
          BY <1>3, ElementOfSeq
        <5> QED  BY <1>3, <2>0, <4>3, <5>1
      <4> QED  BY <4>2, <4>4
    <3> QED  BY <3>1, <3>2
  <2>7. DealtWith'
    BY <1>1, <2>0, <2>6, Zenon DEF DealtWith
  <2>8. Supported(given)' => Passed'
    BY <1>1, Zenon DEF Simulated, Going, Passed
  <2>9. i' > Len(given')
    BY <1>1, Zenon DEF Simulated
  <2>10. pc' \notin {"cli", "built", "failed"}
    BY <1>5, Zenon
  <2> QED  BY <1>0, <2>7, <2>8, <2>9, <2>10, Zenon DEF Simulated, DropIn
<1> QED  BY <1>1, <1>4, <1>5, Zenon

LEMMA FinalKeepsSimulated ==
  ASSUME Simulated, FinalCompile
  PROVE  Simulated'
<1>0. Sorted /\ Untouched /\ Runs /\ Runs'
  BY RunsKept DEF Simulated, Runs, Untouched, CliNext, Compile
<1>1. /\ pc = "next input" /\ file > Len(input_files) /\ pc' \in {"built", "failed"}
      /\ commands' = Append(commands, Executed(FinalCommand)) /\ given' = given
  BY Zenon DEF FinalCompile
<1>2. DealtWith /\ i > Len(given) /\ Len(given) >= 1 /\ file > Len(input_files)
      /\ (Supported(given) => Passed)
  BY <1>0, <1>1, Zenon DEF Simulated, Going, Untouched
<1>3. Supported(given) => Told(Tail(Executed(FinalCommand))) = Meant(given)
  BY <1>0, <1>2, FinalTells
<1>4. commands'[Len(commands')] = Executed(FinalCommand)
  <2> DEFINE new == Executed(FinalCommand)
  <2> HIDE DEF new
  <2>1. commands \in Seq(Positions(commands))
    BY <1>0, Zenon DEF Runs
  <2>2. Len(Append(commands, new)) = Len(commands) + 1 /\ Append(commands, new)[Len(commands) + 1] = new
    BY <2>1, ListGrows
  <2> QED  BY <1>1, <2>2, Zenon DEF new
<1>5. DropIn'
  BY <1>1, <1>3, <1>4, Zenon DEF DropIn
<1>6. pc' \notin {"cli", "parse", "next input", "run runner"}
  BY <1>1, Zenon
<1> QED  BY <1>0, <1>5, <1>6, Zenon DEF Simulated, Going

(* A compiler is told by the final command what the user's line told it.    *)
THEOREM DropInCorrect == CliSpec => []DropIn
<1>1. Simulated /\ [CliNext]_cliVars => Simulated'
  BY CliStarts, ScanKeepsSimulated, OthersKeepSimulated, RunRunnerKeepsSimulated,
     FinalKeepsSimulated DEF CliNext, Parse, Compile
<1>2. Simulated => DropIn
  BY DEF Simulated
<1> QED  BY <1>1, <1>2, SimulatedInitially, PTL DEF CliSpec
=============================================================================
