---------------------------- MODULE RunnerProofs ----------------------------
(***************************************************************************)
(* Theorems about the comptime runner, for every sequence of registrations *)
(* and whatever the statements append, exit with or crash on.              *)
(***************************************************************************)
EXTENDS Runner, SequenceTheorems, TLAPS

-----------------------------------------------------------------------------
(* Lemmas about the lines printed.                                         *)

(* Appending t to s keeps s where it was and puts t behind it.             *)
LEMMA ConcatKeeps ==
  ASSUME NEW S, NEW s \in Seq(S), NEW t \in Seq(S)
  PROVE  /\ s \o t \in Seq(S)
         /\ Len(s \o t) = Len(s) + Len(t)
         /\ \A k \in 1..Len(s) : k \in DOMAIN (s \o t) /\ (s \o t)[k] = s[k]
         /\ \A k \in 1..Len(t) : /\ Len(s) + k \in DOMAIN (s \o t)
                                 /\ (s \o t)[Len(s) + k] = t[k]
         /\ \A k \in DOMAIN (s \o t) :
              k \in 1..Len(s) \/ k - Len(s) \in 1..Len(t)
<1>1. s \o t \in Seq(S) /\ Len(s \o t) = Len(s) + Len(t)
  BY ConcatProperties
<1>2. DOMAIN (s \o t) = 1..(Len(s) + Len(t)) /\ Len(s) \in Nat /\ Len(t) \in Nat
  BY <1>1, LenProperties
<1>3. \A k \in 1..(Len(s) + Len(t)) :
        (s \o t)[k] = IF k <= Len(s) THEN s[k] ELSE t[k - Len(s)]
  BY ConcatProperties
<1> QED  BY <1>1, <1>2, <1>3

(* The registration at hand uses its own buffer. *)
LEMMA OwnBuffer ==
  ASSUME RunnerTypeOK, Executing
  PROVE  Buffer = next /\ next \in DOMAIN calls /\ calls[next] \in Call
<1>1. calls \in Seq(Call) /\ \A i \in DOMAIN calls : calls[i].stmt = i - 1
  BY RunnerAssumption DEF RunnerTypeOK
<1>2. next \in DOMAIN calls
  BY <1>1, LenProperties DEF RunnerTypeOK, Executing
<1>3. next \in Nat /\ calls[next].stmt = next - 1
  BY <1>1, <1>2, LenProperties
<1> QED  BY <1>1, <1>2, <1>3, LenProperties DEF Buffer

(* A beginning of lines is these lines up to some place, but for the last  *)
(* one, which may be cut.                                                  *)
LEMMA BeginningsAreCut ==
  ASSUME NEW lines \in Seq(Line), NEW w \in Beginnings(lines)
  PROVE  /\ w \in Seq(Line) /\ Len(w) \in Nat /\ Len(w) <= Len(lines)
         /\ \A k \in 1..Len(w) :
              w[k] = lines[k] \/ (k = Len(w) /\ w[k] \in Cuts(lines[k]))
<1>0. Len(lines) \in Nat /\ DOMAIN lines = 1..Len(lines)
  BY LenProperties
<1>1. CASE w \in Prefixes(lines)
  <2>1. PICK j \in 0..Len(lines) : w = SubSeq(lines, 1, j)
    BY <1>1 DEF Prefixes
  <2>2. w \in Seq(Line) /\ Len(w) = j /\ \A k \in 1..j : w[k] = lines[k]
    BY <1>0, <2>1, SubSeqProperties
  <2> QED  BY <1>0, <2>2
<1>2. CASE \E k \in DOMAIN lines :
             \E cut \in Cuts(lines[k]) : w = Append(SubSeq(lines, 1, k - 1), cut)
  <2>k. PICK k \in DOMAIN lines :
          \E cut \in Cuts(lines[k]) : w = Append(SubSeq(lines, 1, k - 1), cut)
    BY <1>2
  <2>1. PICK cut \in Cuts(lines[k]) : w = Append(SubSeq(lines, 1, k - 1), cut)
    BY <2>k
  <2>2. lines[k] \in Line
    BY <1>0
  <2>3. cut \in Line
    <3>1. Fragment \in Line
      BY DEF Fragment, Line
    <3>2. ASSUME NEW t \in Prefixes(lines[k].text)
          PROVE  [lines[k] EXCEPT !.text = t] \in Line
      <4>1. lines[k].text \in Seq(Texts)
        BY <2>2 DEF Line
      <4>2. PICK j \in 0..Len(lines[k].text) : t = SubSeq(lines[k].text, 1, j)
        BY DEF Prefixes
      <4>3. t \in Seq(Texts)
        BY <4>1, <4>2, SubSeqProperties, LenProperties
      <4> QED  BY <2>2, <4>3 DEF Line
    <3> QED  BY <3>1, <3>2 DEF Cuts
  <2> DEFINE front == SubSeq(lines, 1, k - 1)
  <2>4. front \in Seq(Line) /\ Len(front) = k - 1 /\ \A i \in 1..(k - 1) : front[i] = lines[i]
    BY <1>0, SubSeqProperties
  <2> HIDE DEF front
  <2>5. Append(front, cut) \in Seq(Line) /\ Len(Append(front, cut)) = k
        /\ \A i \in 1..(k - 1) : Append(front, cut)[i] = front[i]
        /\ Append(front, cut)[k] = cut
    BY <1>0, <2>3, <2>4, AppendProperties
  <2>6. w = Append(front, cut)
    BY <2>1 DEF front
  <2> QED  BY <1>0, <2>1, <2>4, <2>5, <2>6
<1> QED  BY <1>1, <1>2 DEF Beginnings

(* What a last write leaves in the header.                                 *)
LEMMA FlushWrites ==
  ASSUME NEW lines \in Seq(Line), header \in Seq(Line), lost \in BOOLEAN, Flush(lines)
  PROVE  /\ header' \in Seq(Line) /\ held' \in Seq(Line) /\ lost' \in BOOLEAN
         /\ \/ header' = header \o lines /\ lost' = lost
            \/ lost' /\ \E w \in Beginnings(lines) : header' = header \o w
<1>1. header \o lines \in Seq(Line)
  BY ConcatProperties
<1>2. \A w \in Beginnings(lines) : header \o w \in Seq(Line)
  BY BeginningsAreCut, ConcatProperties
<1>3. held' = <<>> /\ <<>> \in Seq(Line)
  BY DEF Flush
<1>4. /\ header' \in Seq(Line) /\ lost' \in BOOLEAN
      /\ \/ header' = header \o lines /\ lost' = lost
         \/ lost' /\ \E w \in Beginnings(lines) : header' = header \o w
  BY <1>1, <1>2 DEF Flush
<1> QED  BY <1>3, <1>4

-----------------------------------------------------------------------------
(* The runner's types.                                                     *)

(* A step of the runner keeps its types. *)
LEMMA RunnerTypeStep == RunnerTypeOK /\ [RunnerNext]_runnerVars => RunnerTypeOK'
<1> SUFFICES ASSUME RunnerTypeOK, [RunnerNext]_runnerVars PROVE RunnerTypeOK'
  OBVIOUS
<1>a. calls \in Seq(Call) /\ Len(calls) \in Nat /\ DOMAIN calls = 1..Len(calls)
  BY RunnerAssumption, LenProperties DEF RunnerTypeOK
<1>0. CASE UNCHANGED runnerVars
  BY <1>0 DEF runnerVars, RunnerTypeOK
<1>1. CASE Open \/ OpenFails
  <2>1. Select \in Line
    BY DEF Select, Line
  <2>2. Append(held, Select) \in Seq(Line)
    BY <2>1, AppendProperties DEF RunnerTypeOK
  <2> QED  BY <1>1, <2>2 DEF Open, OpenFails, RunnerTypeOK, Ended
<1>2. CASE AppendInline
  <2>1. next \in DOMAIN inline /\ Buffer = next
    BY <1>2, OwnBuffer DEF AppendInline, RunnerTypeOK
  <2>2. PICK t \in Texts : inline' = [inline EXCEPT ![next] = Append(@, t)]
    BY <1>2, <2>1 DEF AppendInline
  <2>3. Append(inline[next], t) \in Seq(Texts)
    BY <2>1, AppendProperties DEF RunnerTypeOK
  <2>4. inline' \in [DOMAIN calls -> Seq(Texts)]
    BY <2>1, <2>2, <2>3 DEF RunnerTypeOK
  <2> QED  BY <1>2, <2>4 DEF AppendInline, RunnerTypeOK
<1>3. CASE AppendTopLevel
  <2>1. PICK t \in Texts : topLevel' = Append(topLevel, t)
    BY <1>3 DEF AppendTopLevel
  <2>2. topLevel' \in Seq(Texts)
    BY <2>1, AppendProperties DEF RunnerTypeOK
  <2> QED  BY <1>3, <2>2 DEF AppendTopLevel, RunnerTypeOK
<1>4. CASE StatementReturns
  <2>1. Executing /\ next \in DOMAIN calls /\ Buffer = next /\ calls[next] \in Call
    BY <1>4, OwnBuffer DEF StatementReturns
  <2> DEFINE text == inline[next]
             c == calls[next]
             type == IF c.placeholder >= 0 THEN <<DefineType(c.placeholder, text)>> ELSE <<>>
  <2>2. text \in Seq(Texts)
    BY <2>1 DEF RunnerTypeOK
  <2>3. DefineX(c.stmt, text) \in Line
    BY <2>1, <2>2 DEF DefineX, Line, Call
  <2>4. c.placeholder >= 0 => DefineType(c.placeholder, text) \in Line
    BY <2>1, <2>2 DEF DefineType, Line, Call
  <2>5. held' = held \o <<DefineX(c.stmt, text)>> \o type
    BY <1>4, <2>1 DEF StatementReturns
  <2>6. <<DefineX(c.stmt, text)>> \in Seq(Line) /\ type \in Seq(Line)
    BY <2>3, <2>4
  <2> HIDE DEF text, c, type
  <2>7. held' \in Seq(Line)
    BY <2>5, <2>6, ConcatProperties DEF RunnerTypeOK
  <2>8. next' \in 1..(Len(calls) + 1)
    BY <1>a, <1>4, <2>1 DEF StatementReturns, Executing, RunnerTypeOK
  <2> QED  BY <1>4, <2>7, <2>8 DEF StatementReturns, RunnerTypeOK
<1>5. CASE StatementExits
  <2>0. header \in Seq(Line) /\ held \in Seq(Line) /\ lost \in BOOLEAN
    BY DEF RunnerTypeOK
  <2>1. header' \in Seq(Line) /\ held' \in Seq(Line) /\ lost' \in BOOLEAN
    BY <1>5, <2>0, FlushWrites DEF StatementExits
  <2> QED  BY <1>5, <2>1 DEF StatementExits, RunnerTypeOK, Ended
<1>6. CASE StatementCrashes
  <2>1. PICK w \in Beginnings(held) : header' = header \o w
    BY <1>6 DEF StatementCrashes
  <2>2. w \in Seq(Line)
    BY BeginningsAreCut DEF RunnerTypeOK
  <2>3. header' \in Seq(Line)
    BY <2>1, <2>2, ConcatProperties DEF RunnerTypeOK
  <2> QED  BY <1>6, <2>3 DEF StatementCrashes, RunnerTypeOK, Ended
<1>7. CASE Finish
  <2> DEFINE last == IF topLevel # <<>> THEN <<Definitions(topLevel)>> ELSE <<>>
  <2>1. Definitions(topLevel) \in Line
    BY DEF Definitions, Line, RunnerTypeOK
  <2>2. last \in Seq(Line) /\ Flush(held \o last)
    BY <1>7, <2>1 DEF Finish
  <2> HIDE DEF last
  <2>3. held \o last \in Seq(Line)
    BY <2>2, ConcatProperties DEF RunnerTypeOK
  <2>f. header \in Seq(Line) /\ lost \in BOOLEAN
    BY DEF RunnerTypeOK
  <2>4. header' \in Seq(Line) /\ held' \in Seq(Line) /\ lost' \in BOOLEAN
    BY <2>2, <2>3, <2>f, FlushWrites
  <2> QED  BY <1>7, <2>4 DEF Finish, RunnerTypeOK, Ended
<1> QED  BY <1>0, <1>1, <1>2, <1>3, <1>4, <1>5, <1>6, <1>7 DEF RunnerNext

(* Whatever the statements do, the runner's variables keep their types.    *)
THEOREM RunnerTypeCorrect == RunnerSpec => []RunnerTypeOK
<1>1. RunnerInit => RunnerTypeOK
  <2> SUFFICES ASSUME RunnerInit PROVE RunnerTypeOK
    OBVIOUS
  <2>1. calls \in CallLists /\ calls \in Seq(Call)
    BY RunnerAssumption DEF RunnerInit, Start
  <2>2. inline \in [DOMAIN calls -> Seq(Texts)]
    BY DEF RunnerInit, Start
  <2>3. Prelude \in Line
    BY DEF Prelude, Line
  <2>4. header \in Seq(Line) /\ held \in Seq(Line) /\ topLevel \in Seq(Texts)
    BY <2>3 DEF RunnerInit, Start
  <2>5. next \in 1..(Len(calls) + 1) /\ state = "start" /\ lost = FALSE
    BY <2>1, LenProperties DEF RunnerInit, Start
  <2> QED  BY <2>1, <2>2, <2>4, <2>5 DEF RunnerTypeOK
<1>2. RunnerTypeOK /\ [RunnerNext]_runnerVars => RunnerTypeOK'
  BY RunnerTypeStep
<1> QED  BY <1>1, <1>2, PTL DEF RunnerSpec

-----------------------------------------------------------------------------
(* The header.  DefinedMeansReturned and OneMacroPerStatement are inductive *)
(* together: that a macro is not defined a second time follows from no      *)
(* macro being defined before its statement returned.  Nothing is lost      *)
(* before the process ends, so until then no line is cut.                   *)

HeaderInductive ==
  /\ state \in {"start", "main"} => ~lost
  /\ DefinedMeansReturned
  /\ OneMacroPerStatement

IsDefineX(line) == line.macro = "_COMPTIME_Xn"

(* The lines stand for statements that returned, and none of them is cut.  *)
Whole(lines) ==
  \A i \in DOMAIN lines :
    /\ IsDefineX(lines[i]) =>
         lines[i].n + 1 < next /\ lines[i].text = inline[lines[i].n + 1]
    /\ lines[i].macro # "fragment"

Harmless(line) == line.macro \notin {"_COMPTIME_Xn", "fragment"}

LEMMA NothingCutYet ==
  ASSUME HeaderInductive, state \in {"start", "main"}
  PROVE  Whole(Printed) /\ ~lost
BY DEF HeaderInductive, DefinedMeansReturned, CutShort, Whole, IsDefineX

LEMMA WholeIsReturned == Whole(Printed) => DefinedMeansReturned
BY DEF DefinedMeansReturned, Whole, IsDefineX

LEMMA LinesAssociate ==
  ASSUME NEW s \in Seq(Line), NEW t \in Seq(Line), NEW u \in Seq(Line)
  PROVE  s \o (t \o u) = (s \o t) \o u
<1>1. (s \o t) \o u = s \o (t \o u)
  BY ConcatAssociative
<1> QED  BY <1>1, Zenon

(* Behind whole lines, harmless ones may be printed at any time.           *)
LEMMA HarmlessLinesKeepWhole ==
  ASSUME RunnerTypeOK, Whole(Printed),
         NEW new \in Seq(Line), \A k \in 1..Len(new) : Harmless(new[k])
  PROVE  /\ Whole(Printed \o new)
         /\ \A k \in DOMAIN Printed :
              k \in DOMAIN (Printed \o new) /\ (Printed \o new)[k] = Printed[k]
         /\ \A k \in DOMAIN (Printed \o new) :
              IsDefineX((Printed \o new)[k]) => k \in DOMAIN Printed
<1> DEFINE p == Printed
<1>0. p \in Seq(Line) /\ Len(p) \in Nat /\ DOMAIN p = 1..Len(p)
  BY ConcatProperties, LenProperties DEF RunnerTypeOK, Printed
<1> HIDE DEF p
<1>1. /\ \A k \in DOMAIN p : k \in DOMAIN (p \o new) /\ (p \o new)[k] = p[k]
      /\ \A k \in 1..Len(new) : (p \o new)[Len(p) + k] = new[k]
      /\ \A k \in DOMAIN (p \o new) : k \in DOMAIN p \/ k - Len(p) \in 1..Len(new)
  BY <1>0, ConcatKeeps
<1>2. ASSUME NEW k \in DOMAIN (p \o new), k \notin DOMAIN p
      PROVE  Harmless((p \o new)[k])
  <2>1. k \in Int
    <3>1. p \o new \in Seq(Line)
      BY <1>0, ConcatProperties
    <3> QED  BY <3>1, LenProperties
  <2>2. k - Len(p) \in 1..Len(new)
    BY <1>1, <1>2
  <2>3. (p \o new)[Len(p) + (k - Len(p))] = new[k - Len(p)]
    BY <1>1, <2>2
  <2>4. Len(p) + (k - Len(p)) = k
    BY <1>0, <2>1
  <2> QED  BY <2>2, <2>3, <2>4
<1>3. Whole(p)
  BY DEF p
<1>4. Whole(p \o new) /\ \A k \in DOMAIN (p \o new) : IsDefineX((p \o new)[k]) => k \in DOMAIN p
  BY <1>1, <1>2, <1>3 DEF Whole, IsDefineX, Harmless
<1> QED  BY <1>1, <1>4 DEF p

LEMMA OtherLinesAreHarmless ==
  ASSUME RunnerTypeOK, HeaderInductive, state \in {"start", "main"},
         NEW new \in Seq(Line), \A k \in 1..Len(new) : Harmless(new[k]),
         Printed' = Printed \o new,
         UNCHANGED <<next, inline, lost>>
  PROVE  HeaderInductive'
<1>0. Whole(Printed) /\ ~lost
  BY NothingCutYet
<1>1. /\ Whole(Printed')
      /\ \A k \in DOMAIN Printed : k \in DOMAIN Printed' /\ Printed'[k] = Printed[k]
      /\ \A k \in DOMAIN Printed' : IsDefineX(Printed'[k]) => k \in DOMAIN Printed
  BY <1>0, HarmlessLinesKeepWhole
<1> HIDE DEF Printed
<1>2. DefinedMeansReturned'
  BY <1>1 DEF DefinedMeansReturned, Whole, IsDefineX
<1>3. OneMacroPerStatement'
  <2>1. SUFFICES ASSUME NEW i \in 1..(next - 1)
                 PROVE  \E k \in DOMAIN Printed' :
                          /\ Printed'[k] = DefineX(i - 1, inline[i])
                          /\ \A l \in DOMAIN Printed' :
                               IsDefineX(Printed'[l]) /\ Printed'[l].n = i - 1 => l = k
    BY DEF OneMacroPerStatement, IsDefineX
  <2>2. PICK k \in DOMAIN Printed :
          /\ Printed[k] = DefineX(i - 1, inline[i])
          /\ \A l \in DOMAIN Printed :
               IsDefineX(Printed[l]) /\ Printed[l].n = i - 1 => l = k
    BY <1>0 DEF HeaderInductive, OneMacroPerStatement, IsDefineX
  <2> QED  BY <1>1, <2>2
<1> QED  BY <1>0, <1>2, <1>3 DEF HeaderInductive

(* The process may end with a beginning of what it had to write: where the *)
(* write ended, and there only, a line may be cut.                         *)
LEMMA LossyEnd ==
  ASSUME RunnerTypeOK, HeaderInductive, state \in {"start", "main"},
         NEW new \in Seq(Line), \A k \in 1..Len(new) : Harmless(new[k]),
         NEW w \in Beginnings(held \o new), header' = header \o w, held' = <<>>,
         UNCHANGED <<next, inline>>, state' \in Ended, state' = "failed" \/ lost'
  PROVE  HeaderInductive'
<1> DEFINE lines == held \o new
           all == header \o lines
<1>1. /\ header \in Seq(Line) /\ lines \in Seq(Line) /\ all \in Seq(Line)
      /\ Len(header) \in Nat /\ Len(lines) \in Nat
  BY ConcatProperties, LenProperties DEF RunnerTypeOK
<1>2. all = Printed \o new
  BY LinesAssociate DEF RunnerTypeOK, Printed
<1>3. Whole(all)
  BY <1>2, NothingCutYet, HarmlessLinesKeepWhole
<1>4. /\ w \in Seq(Line) /\ Len(w) \in Nat /\ Len(w) <= Len(lines)
      /\ \A k \in 1..Len(w) : w[k] = lines[k] \/ (k = Len(w) /\ w[k] \in Cuts(lines[k]))
  BY <1>1, BeginningsAreCut
<1>5. Printed' = header \o w
  <2>1. header \o w \in Seq(Line)
    BY <1>1, <1>4, ConcatProperties
  <2> QED  BY <2>1, ConcatEmptySeq DEF Printed
<1> HIDE DEF lines, Printed
<1>6. /\ DOMAIN all = 1..(Len(header) + Len(lines))
      /\ \A l \in 1..(Len(header) + Len(lines)) :
           all[l] = IF l <= Len(header) THEN header[l] ELSE lines[l - Len(header)]
  BY <1>1, ConcatProperties, LenProperties
<1>7. /\ DOMAIN Printed' = 1..Len(Printed') /\ Len(Printed') = Len(header) + Len(w)
      /\ \A l \in 1..(Len(header) + Len(w)) :
           Printed'[l] = IF l <= Len(header) THEN header[l] ELSE w[l - Len(header)]
  <2>1. header \o w \in Seq(Line) /\ Len(header \o w) = Len(header) + Len(w)
    BY <1>1, <1>4, ConcatProperties
  <2> QED  BY <1>1, <1>4, <1>5, <2>1, ConcatProperties, LenProperties
<1> HIDE DEF all
<1>8. ASSUME NEW l \in DOMAIN Printed'
      PROVE  /\ l \in DOMAIN all
             /\ Printed'[l] = all[l] \/ (l = Len(Printed') /\ Printed'[l] \in Cuts(all[l]))
  <2>1. l \in Nat /\ l \in 1..(Len(header) + Len(w)) /\ l \in DOMAIN all
    BY <1>1, <1>4, <1>6, <1>7
  <2>2. CASE l <= Len(header)
    BY <1>6, <1>7, <2>1, <2>2
  <2>3. CASE ~(l <= Len(header))
    <3>1. l - Len(header) \in 1..Len(w)
      BY <1>1, <1>4, <2>1, <2>3
    <3>2. l - Len(header) = Len(w) => l = Len(Printed')
      BY <1>1, <1>4, <1>7, <2>1
    <3>3. Printed'[l] = w[l - Len(header)] /\ all[l] = lines[l - Len(header)]
      BY <1>6, <1>7, <2>1, <2>3
    <3> QED  BY <1>4, <2>1, <3>1, <3>2, <3>3
  <2> QED  BY <2>2, <2>3
<1>9. ASSUME NEW l \in DOMAIN Printed'
      PROVE  /\ IsDefineX(Printed'[l]) =>
                  /\ Printed'[l].n + 1 < next
                  /\ \/ Printed'[l].text = inline[Printed'[l].n + 1]
                     \/ /\ l = Len(Printed')
                        /\ Printed'[l].text \in Prefixes(inline[Printed'[l].n + 1])
             /\ Printed'[l].macro = "fragment" => l = Len(Printed')
  <2>1. CASE Printed'[l] = all[l]
    BY <1>3, <1>8, <2>1 DEF Whole
  <2>2. CASE l = Len(Printed') /\ Printed'[l] = Fragment
    BY <2>2 DEF Fragment, IsDefineX
  <2>3. ASSUME l = Len(Printed'), NEW t \in Prefixes(all[l].text),
               Printed'[l] = [all[l] EXCEPT !.text = t]
        PROVE  /\ IsDefineX(Printed'[l]) =>
                    /\ Printed'[l].n + 1 < next
                    /\ Printed'[l].text \in Prefixes(inline[Printed'[l].n + 1])
               /\ Printed'[l].macro # "fragment"
    <3>1. all[l] \in Line
      BY <1>1, <1>8
    <3>2. Printed'[l].macro = all[l].macro /\ Printed'[l].n = all[l].n /\ Printed'[l].text = t
      BY <2>3, <3>1 DEF Line
    <3> QED  BY <1>3, <1>8, <2>3, <3>2 DEF Whole, IsDefineX
  <2>4. Printed'[l] = all[l] \/ (l = Len(Printed') /\ Printed'[l] \in Cuts(all[l]))
    BY <1>8
  <2>5. Printed'[l] \in Cuts(all[l]) =>
          \/ Printed'[l] = Fragment
          \/ \E t \in Prefixes(all[l].text) : Printed'[l] = [all[l] EXCEPT !.text = t]
    BY DEF Cuts
  <2> QED  BY <2>1, <2>2, <2>3, <2>4, <2>5
<1>10. DefinedMeansReturned'
  BY <1>9 DEF DefinedMeansReturned, CutShort, IsDefineX
<1>11. OneMacroPerStatement'
  BY DEF OneMacroPerStatement
<1> QED  BY <1>10, <1>11 DEF HeaderInductive, Ended

(* A step of the runner keeps the header right. *)
LEMMA HeaderStep == RunnerTypeOK /\ HeaderInductive /\ [RunnerNext]_runnerVars => HeaderInductive'
<1> SUFFICES ASSUME RunnerTypeOK, HeaderInductive, [RunnerNext]_runnerVars
             PROVE  HeaderInductive'
  OBVIOUS
<1>a. /\ header \in Seq(Line) /\ held \in Seq(Line) /\ Printed \in Seq(Line)
      /\ Len(Printed) \in Nat /\ DOMAIN Printed = 1..Len(Printed)
      /\ next \in Nat
  <2>1. Printed \in Seq(Line)
    BY ConcatProperties DEF RunnerTypeOK, Printed
  <2>2. next \in Nat
    BY RunnerAssumption, LenProperties DEF RunnerTypeOK
  <2> QED  BY <2>1, <2>2, LenProperties DEF RunnerTypeOK
<1>b. \A k \in DOMAIN Printed : Printed[k].n \in Nat
  <2>1. \A k \in DOMAIN Printed : Printed[k] \in Line
    BY <1>a
  <2> QED  BY <2>1 DEF Line
<1>0. CASE UNCHANGED <<next, inline, header, held, lost>> /\ state' \in {state, "failed"}
  BY <1>0 DEF HeaderInductive, DefinedMeansReturned, OneMacroPerStatement, CutShort, Printed
<1>1. CASE Open
  <2>1. Select \in Line /\ Harmless(Select)
    BY DEF Select, Line, Harmless
  <2>2. UNCHANGED <<next, inline, header, lost>> /\ held' = Append(held, Select)
        /\ state = "start"
    BY <1>1 DEF Open
  <2> DEFINE new == <<Select>>
  <2>3. new \in Seq(Line) /\ \A k \in 1..Len(new) : Harmless(new[k])
    BY <2>1
  <2>4. held' = held \o new
    BY <1>a, <2>1, <2>2, AppendIsConcat
  <2> HIDE DEF new
  <2>5. Printed' = Printed \o new
    <3>1. header \o (held \o new) = (header \o held) \o new
      BY <1>a, <2>3, LinesAssociate
    <3>2. Printed' = header \o (held \o new)
      BY <2>2, <2>4, Zenon DEF Printed
    <3> QED  BY <3>1, <3>2, Zenon DEF Printed
  <2> QED  BY <2>2, <2>3, <2>5, OtherLinesAreHarmless
<1>2. CASE AppendInline
  <2>1. Buffer = next /\ next \in DOMAIN calls
    BY <1>2, OwnBuffer DEF AppendInline
  <2>2. PICK t \in Texts : inline' = [inline EXCEPT ![next] = Append(@, t)]
    BY <1>2, <2>1 DEF AppendInline
  <2>3. \A i \in DOMAIN calls : i # next => inline'[i] = inline[i]
    BY <2>2 DEF RunnerTypeOK
  <2>4. UNCHANGED <<next, header, held, state, calls, lost>> /\ state = "main"
    BY <1>2 DEF AppendInline, Executing
  <2>5. Printed' = Printed
    BY <2>4 DEF Printed
  <2>6. \A i \in 1..(next - 1) : i \in DOMAIN calls /\ i # next /\ inline'[i] = inline[i]
    <3>1. DOMAIN calls = 1..Len(calls) /\ next \in 1..Len(calls)
      BY <2>1, RunnerAssumption, LenProperties DEF RunnerTypeOK
    <3> QED  BY <2>3, <3>1
  <2> HIDE DEF Printed
  <2>7. Whole(Printed) /\ ~lost
    BY <2>4, NothingCutYet
  <2>8. DefinedMeansReturned'
    <3>1. \A i \in DOMAIN Printed : IsDefineX(Printed[i]) => Printed[i].n + 1 \in 1..(next - 1)
      BY <1>a, <1>b, <2>7 DEF Whole
    <3> QED  BY <2>4, <2>5, <2>6, <2>7, <3>1 DEF DefinedMeansReturned, Whole, IsDefineX
  <2>9. OneMacroPerStatement'
    BY <2>4, <2>5, <2>6, <2>7 DEF HeaderInductive, OneMacroPerStatement
  <2> QED  BY <2>4, <2>7, <2>8, <2>9 DEF HeaderInductive
<1>3. CASE StatementReturns
  <2>1. Executing /\ Buffer = next /\ next \in DOMAIN calls /\ calls[next].stmt = next - 1
        /\ calls[next] \in Call
    BY <1>3, OwnBuffer, RunnerAssumption DEF StatementReturns, RunnerTypeOK
  <2> DEFINE x == DefineX(next - 1, inline[next])
             type == IF calls[next].placeholder >= 0
                     THEN <<DefineType(calls[next].placeholder, inline[next])>> ELSE <<>>
  <2>2. UNCHANGED <<inline, header, state, lost>> /\ next' = next + 1
        /\ held' = held \o <<x>> \o type
    BY <1>3, <2>1 DEF StatementReturns
  <2>w. Whole(Printed) /\ ~lost
    BY <2>1, NothingCutYet DEF Executing
  <2>3. x \in Line /\ x.macro = "_COMPTIME_Xn" /\ x.n = next - 1 /\ x.text = inline[next]
    BY <2>1 DEF DefineX, Line, Call, RunnerTypeOK
  <2>4. type \in Seq(Line) /\ \A k \in 1..Len(type) : Harmless(type[k])
    <3>1. calls[next].placeholder >= 0 =>
            /\ DefineType(calls[next].placeholder, inline[next]) \in Line
            /\ Harmless(DefineType(calls[next].placeholder, inline[next]))
      <4>1. inline[next] \in Seq(Texts) /\ calls[next].placeholder \in {-1} \cup Nat
        BY <2>1 DEF Call, RunnerTypeOK
      <4> QED  BY <4>1 DEF DefineType, Line, Harmless
    <3> QED  BY <3>1
  <2> HIDE DEF x, type
  <2> DEFINE p == Printed \o <<x>>
  <2>5. <<x>> \in Seq(Line) /\ Len(<<x>>) = 1 /\ <<x>>[1] = x
    BY <2>3
  <2>6. Printed' = p \o type
    <3>1. held \o <<x>> \in Seq(Line)
      BY <1>a, <2>5, ConcatProperties
    <3>2. header \o ((held \o <<x>>) \o type) = (header \o (held \o <<x>>)) \o type
      <4> DEFINE t == held \o <<x>>
      <4>1. t \in Seq(Line)
        BY <3>1
      <4> HIDE DEF t
      <4>2. (header \o t) \o type = header \o (t \o type)
        BY <1>a, <2>4, <4>1, LinesAssociate
      <4> QED  BY <4>2 DEF t
    <3>3. header \o (held \o <<x>>) = (header \o held) \o <<x>>
      BY <1>a, <2>5, LinesAssociate
    <3> QED  BY <2>2, <3>2, <3>3 DEF Printed
  <2> HIDE DEF Printed
  <2>7. /\ p \in Seq(Line) /\ Len(p) = Len(Printed) + 1 /\ DOMAIN p = 1..(Len(Printed) + 1)
        /\ \A k \in DOMAIN Printed : p[k] = Printed[k]
        /\ p[Len(Printed) + 1] = x
    BY <1>a, <2>3, <2>5, ConcatProperties, LenProperties
  <2> HIDE DEF p
  <2>8. /\ \A k \in DOMAIN p : k \in DOMAIN Printed' /\ Printed'[k] = p[k]
        /\ \A k \in DOMAIN Printed' : k \in DOMAIN p \/ Harmless(Printed'[k])
    <3>1. /\ \A k \in DOMAIN p : k \in DOMAIN (p \o type) /\ (p \o type)[k] = p[k]
          /\ \A k \in 1..Len(type) : (p \o type)[Len(p) + k] = type[k]
          /\ \A k \in DOMAIN (p \o type) : k \in DOMAIN p \/ k - Len(p) \in 1..Len(type)
      BY <2>4, <2>7, ConcatKeeps
    <3>2. ASSUME NEW k \in DOMAIN (p \o type), k \notin DOMAIN p
          PROVE  Harmless((p \o type)[k])
      <4>0. k \in Int
        <5>1. p \o type \in Seq(Line)
          BY <2>4, <2>7, ConcatProperties
        <5> QED  BY <5>1, LenProperties
      <4>1. k - Len(p) \in 1..Len(type)
        BY <3>1, <3>2
      <4>2. (p \o type)[Len(p) + (k - Len(p))] = type[k - Len(p)]
        BY <3>1, <4>1
      <4>3. Len(p) + (k - Len(p)) = k
        BY <1>a, <2>7, <4>0
      <4> QED  BY <2>4, <4>1, <4>2, <4>3
    <3> QED  BY <2>6, <3>1, <3>2
  <2>9. \A k \in DOMAIN Printed' :
          \/ k \in DOMAIN Printed /\ Printed'[k] = Printed[k]
          \/ k = Len(Printed) + 1 /\ Printed'[k] = x
          \/ Harmless(Printed'[k])
    BY <1>a, <2>7, <2>8
  <2>f. \A k \in DOMAIN Printed' : Printed'[k].macro # "fragment"
    BY <2>3, <2>9, <2>w DEF Whole, Harmless
  <2>x. \A k \in DOMAIN Printed' :
          IsDefineX(Printed'[k]) =>
            \/ k \in DOMAIN Printed /\ Printed'[k] = Printed[k]
            \/ k = Len(Printed) + 1 /\ Printed'[k] = x
    BY <2>9 DEF IsDefineX, Harmless
  <2>10. DefinedMeansReturned'
    <3>1. ASSUME NEW k \in DOMAIN Printed', IsDefineX(Printed'[k])
          PROVE  /\ Printed'[k].n + 1 < next'
                 /\ Printed'[k].text = inline[Printed'[k].n + 1]
      <4>1. CASE k \in DOMAIN Printed /\ Printed'[k] = Printed[k]
        <5>1. Printed[k].n \in Nat
          BY <1>b, <4>1
        <5>2. Printed[k].n + 1 < next /\ Printed[k].text = inline[Printed[k].n + 1]
          BY <2>w, <3>1, <4>1 DEF Whole
        <5> QED  BY <1>a, <2>2, <4>1, <5>1, <5>2
      <4>2. CASE Printed'[k] = x
        <5>0. x.n + 1 = next
          BY <1>a, <2>3
        <5>1. Printed'[k].n + 1 = next
          BY <4>2, <5>0
        <5> QED  BY <1>a, <2>2, <2>3, <4>2, <5>1
      <4> QED  BY <2>x, <3>1, <4>1, <4>2
    <3> QED  BY <2>2, <2>f, <3>1 DEF DefinedMeansReturned, IsDefineX
  <2>11. OneMacroPerStatement'
    <3>1. SUFFICES ASSUME NEW i \in 1..next
                   PROVE  \E k \in DOMAIN Printed' :
                            /\ Printed'[k] = DefineX(i - 1, inline[i])
                            /\ \A l \in DOMAIN Printed' :
                                 IsDefineX(Printed'[l]) /\ Printed'[l].n = i - 1 => l = k
      <4>1. next' - 1 = next
        BY <1>a, <2>2
      <4> QED  BY <2>2, <3>1, <4>1 DEF OneMacroPerStatement, IsDefineX
    <3>2. CASE i = next
      <4>1. Len(Printed) + 1 \in DOMAIN Printed' /\ Printed'[Len(Printed) + 1] = x
        BY <1>a, <2>7, <2>8
      <4>2. \A l \in DOMAIN Printed :
              IsDefineX(Printed[l]) => Printed[l].n # next - 1
        BY <1>a, <1>b, <2>w DEF Whole
      <4>3. x = DefineX(i - 1, inline[i])
        BY <3>2 DEF x
      <4> QED  BY <2>x, <3>2, <4>1, <4>2, <4>3
    <3>3. CASE i # next
      <4>1. i \in 1..(next - 1) /\ i - 1 # next - 1
        BY <1>a, <3>3
      <4>2. PICK k \in DOMAIN Printed :
              /\ Printed[k] = DefineX(i - 1, inline[i])
              /\ \A l \in DOMAIN Printed :
                   IsDefineX(Printed[l]) /\ Printed[l].n = i - 1 => l = k
        BY <2>1, <2>w, <4>1 DEF HeaderInductive, OneMacroPerStatement, IsDefineX, Executing
      <4>3. k \in DOMAIN Printed' /\ Printed'[k] = Printed[k]
        BY <1>a, <2>7, <2>8
      <4>4. \A l \in DOMAIN Printed' :
              IsDefineX(Printed'[l]) /\ Printed'[l].n = i - 1 => l = k
        BY <2>3, <2>x, <4>1, <4>2
      <4> QED  BY <4>2, <4>3, <4>4
    <3> QED  BY <3>2, <3>3
  <2> QED  BY <2>2, <2>w, <2>10, <2>11 DEF HeaderInductive
<1>f. ASSUME NEW new \in Seq(Line), \A k \in 1..Len(new) : Harmless(new[k]),
             Flush(held \o new), state = "main", state' \in Ended, UNCHANGED <<next, inline>>
      PROVE  HeaderInductive'
  <2>0. held \o new \in Seq(Line)
    BY <1>a, ConcatProperties
  <2>1. \/ header' = header \o (held \o new) /\ lost' = lost
        \/ lost' /\ \E w \in Beginnings(held \o new) : header' = header \o w
    BY <1>a, <1>f, <2>0, FlushWrites DEF RunnerTypeOK
  <2>2. held' = <<>>
    BY <1>f DEF Flush
  <2>3. CASE header' = header \o (held \o new) /\ lost' = lost
    <3>1. header' = Printed \o new
      BY <1>a, <2>3, LinesAssociate DEF Printed
    <3>2. Printed \o new \in Seq(Line)
      BY <1>a, ConcatProperties
    <3>3. Printed' = Printed \o new
      BY <2>2, <3>1, <3>2, ConcatEmptySeq DEF Printed
    <3> QED  BY <1>f, <2>3, <3>3, OtherLinesAreHarmless
  <2>4. CASE lost' /\ \E w \in Beginnings(held \o new) : header' = header \o w
    BY <1>f, <2>2, <2>4, LossyEnd
  <2> QED  BY <2>1, <2>3, <2>4
<1>4. CASE StatementExits
  <2>1. UNCHANGED <<next, inline>> /\ state = "main" /\ state' \in Ended /\ Flush(held)
    BY <1>4 DEF StatementExits, Executing
  <2>2. held \o <<>> = held /\ <<>> \in Seq(Line) /\ Len(<<>>) = 0
    BY <1>a, ConcatEmptySeq
  <2>3. \A k \in 1..Len(<<>>) : Harmless(<<>>[k])
    BY <2>2
  <2> QED  BY <1>f, <2>1, <2>2, <2>3
<1>5. CASE StatementCrashes
  <2>1. PICK w \in Beginnings(held) : header' = header \o w
    BY <1>5 DEF StatementCrashes
  <2>2. UNCHANGED <<next, inline>> /\ held' = <<>> /\ state' = "failed" /\ state = "main"
    BY <1>5 DEF StatementCrashes, Executing
  <2>3. held \o <<>> = held /\ <<>> \in Seq(Line) /\ Len(<<>>) = 0
    BY <1>a, ConcatEmptySeq
  <2>4. \A k \in 1..Len(<<>>) : Harmless(<<>>[k])
    BY <2>3
  <2> QED  BY <2>1, <2>2, <2>3, <2>4, LossyEnd DEF Ended
<1>6. CASE Finish
  <2> DEFINE new == IF topLevel # <<>> THEN <<Definitions(topLevel)>> ELSE <<>>
  <2>1. UNCHANGED <<next, inline>> /\ state = "main" /\ state' \in Ended
        /\ Flush(held \o new)
    BY <1>6 DEF Finish, Ended
  <2>2. new \in Seq(Line) /\ \A k \in 1..Len(new) : Harmless(new[k])
    <3>1. Definitions(topLevel) \in Line /\ Harmless(Definitions(topLevel))
      BY DEF Definitions, Line, Harmless, RunnerTypeOK
    <3> QED  BY <3>1
  <2> HIDE DEF new
  <2> QED  BY <1>f, <2>1, <2>2
<1>7. CASE OpenFails \/ AppendTopLevel \/ UNCHANGED runnerVars
  <2>1. UNCHANGED <<next, inline, header, held, lost>> /\ state' \in {state, "failed"}
    BY <1>7 DEF OpenFails, AppendTopLevel, Executing, runnerVars
  <2> QED  BY <1>0, <2>1
<1> QED  BY <1>1, <1>2, <1>3, <1>4, <1>5, <1>6, <1>7 DEF RunnerNext

(* However the statements and the last writes of the stream end, a macro   *)
(* in the header stands for a statement that returned, with its whole text *)
(* but for a last line cut short, which only a process has that failed or  *)
(* whose file did not take all it printed; and unless it failed or lost    *)
(* some, every statement that returned has exactly one macro.              *)
THEOREM HeaderCorrect == RunnerSpec => [](DefinedMeansReturned /\ OneMacroPerStatement)
<1>1. RunnerInit => HeaderInductive
  <2> SUFFICES ASSUME RunnerInit PROVE HeaderInductive
    OBVIOUS
  <2>1. Printed = <<Prelude>> /\ next = 1 /\ ~lost
    BY DEF RunnerInit, Start, Printed
  <2>2. DOMAIN Printed = {1} /\ Printed[1].macro = "prelude"
    BY <2>1 DEF Prelude
  <2> QED  BY <2>1, <2>2 DEF HeaderInductive, DefinedMeansReturned, OneMacroPerStatement
<1>2. RunnerTypeOK /\ HeaderInductive /\ [RunnerNext]_runnerVars => HeaderInductive'
  BY HeaderStep
<1>3. HeaderInductive => DefinedMeansReturned /\ OneMacroPerStatement
  BY DEF HeaderInductive
<1> QED  BY <1>1, <1>2, <1>3, RunnerTypeCorrect, PTL DEF RunnerSpec

(* Two runs of one statement, or none, would make two macros of one name,  *)
(* or none: the part of HeaderCorrect that counts the macros.              *)
THEOREM OneMacroCorrect == RunnerSpec => []OneMacroPerStatement
BY HeaderCorrect, PTL

-----------------------------------------------------------------------------
(* The TopLevel buffer.                                                    *)

NoDefinitions(lines) == \A k \in 1..Len(lines) : lines[k].macro # "definitions"
Ending == IF topLevel # <<>> THEN <<Definitions(topLevel)>> ELSE <<>>

(* The buffers keep to their bounds, and the TopLevel buffer is published   *)
(* once and whole: as the last line of the header, when main ends after    *)
(* every statement has returned and the file takes all that was printed.   *)
Published ==
  /\ \A i \in DOMAIN inline : Len(inline[i]) <= MaxInline
  /\ Len(topLevel) <= MaxTopLevel
  /\ state \in {"start", "main"} => NoDefinitions(header) /\ NoDefinitions(held)
  /\ state = "succeeded" /\ next > Len(calls) /\ ~lost =>
       \E lines \in Seq(Line) : NoDefinitions(lines) /\ header = lines \o Ending

LEMMA NoDefinitionsConcat ==
  ASSUME NEW s \in Seq(Line), NEW t \in Seq(Line), NoDefinitions(s), NoDefinitions(t)
  PROVE  NoDefinitions(s \o t)
<1>1. /\ Len(s \o t) = Len(s) + Len(t) /\ Len(s) \in Nat /\ Len(t) \in Nat
      /\ \A i \in 1..(Len(s) + Len(t)) :
           (s \o t)[i] = IF i <= Len(s) THEN s[i] ELSE t[i - Len(s)]
  BY ConcatProperties, LenProperties
<1>2. ASSUME NEW i \in 1..(Len(s) + Len(t)) PROVE (s \o t)[i].macro # "definitions"
  <2>1. CASE i <= Len(s)
    <3>1. i \in 1..Len(s)
      BY <1>1, <2>1
    <3> QED  BY <1>1, <2>1, <3>1 DEF NoDefinitions
  <2>2. CASE ~(i <= Len(s))
    <3>1. i - Len(s) \in 1..Len(t)
      BY <1>1, <2>2
    <3> QED  BY <1>1, <2>2, <3>1 DEF NoDefinitions
  <2> QED  BY <2>1, <2>2
<1> QED  BY <1>1, <1>2 DEF NoDefinitions

(* A step of the runner keeps all of it. *)
LEMMA PublishedStep == RunnerTypeOK /\ Published /\ [RunnerNext]_runnerVars => Published'
<1> SUFFICES ASSUME RunnerTypeOK, Published, [RunnerNext]_runnerVars PROVE Published'
  OBVIOUS
<1>a. /\ header \in Seq(Line) /\ held \in Seq(Line) /\ topLevel \in Seq(Texts)
      /\ Len(calls) \in Nat /\ next \in Nat /\ MaxInline \in Nat /\ MaxTopLevel \in Nat
  BY RunnerAssumption, LenProperties DEF RunnerTypeOK
<1>1. CASE Open
  <2>1. /\ UNCHANGED <<calls, next, inline, topLevel, header>> /\ state = "start"
        /\ state' = "main" /\ held' = Append(held, Select)
    BY <1>1 DEF Open
  <2>2. Select \in Line /\ Select.macro # "definitions"
    BY DEF Select, Line
  <2>3. <<Select>> \in Seq(Line) /\ NoDefinitions(<<Select>>)
    BY <2>2 DEF NoDefinitions
  <2>4. held' = held \o <<Select>>
    BY <1>a, <2>1, <2>2, AppendIsConcat
  <2>5. NoDefinitions(held')
    BY <1>a, <2>1, <2>3, <2>4, NoDefinitionsConcat DEF Published
  <2> QED  BY <2>1, <2>5 DEF Published
<1>2. CASE OpenFails
  BY <1>2 DEF OpenFails, Published
<1>3. CASE AppendInline
  <2>1. /\ Buffer = next /\ next \in DOMAIN inline /\ state = "main"
        /\ Len(inline[next]) < MaxInline
    BY <1>3, OwnBuffer DEF AppendInline, Executing, RunnerTypeOK
  <2>2. PICK t \in Texts : inline' = [inline EXCEPT ![next] = Append(@, t)]
    BY <1>3, <2>1 DEF AppendInline
  <2>3. UNCHANGED <<calls, state, next, topLevel, held, header>>
    BY <1>3 DEF AppendInline
  <2>4. \A i \in DOMAIN inline : inline[i] \in Seq(Texts)
    BY DEF RunnerTypeOK
  <2>5. ASSUME NEW i \in DOMAIN inline PROVE Len(inline'[i]) <= MaxInline
    <3>1. CASE i = next
      <4>1. inline'[i] = Append(inline[next], t)
        BY <2>2, <3>1
      <4>2. Len(inline'[i]) = Len(inline[next]) + 1 /\ Len(inline[next]) \in Nat
        BY <2>1, <2>4, <4>1, AppendProperties, LenProperties
      <4> QED  BY <1>a, <2>1, <4>2
    <3>2. CASE i # next
      BY <2>2, <3>2 DEF Published
    <3> QED  BY <3>1, <3>2
  <2>6. DOMAIN inline' = DOMAIN inline
    BY <2>2
  <2> QED  BY <2>1, <2>3, <2>5, <2>6 DEF Published
<1>4. CASE AppendTopLevel
  <2>1. /\ UNCHANGED <<calls, state, next, inline, held, header>> /\ state = "main"
        /\ Len(topLevel) < MaxTopLevel
    BY <1>4 DEF AppendTopLevel, Executing
  <2>2. PICK t \in Texts : topLevel' = Append(topLevel, t)
    BY <1>4 DEF AppendTopLevel
  <2>3. Len(topLevel') = Len(topLevel) + 1 /\ Len(topLevel) \in Nat
    BY <1>a, <2>2, AppendProperties, LenProperties
  <2>4. Len(topLevel') <= MaxTopLevel
    BY <1>a, <2>1, <2>3
  <2> QED  BY <2>1, <2>4 DEF Published
<1>5. CASE StatementReturns
  <2>1. Executing /\ next \in DOMAIN calls /\ Buffer = next /\ calls[next] \in Call
    BY <1>5, OwnBuffer DEF StatementReturns
  <2> DEFINE text == inline[next]
             c == calls[next]
             type == IF c.placeholder >= 0 THEN <<DefineType(c.placeholder, text)>> ELSE <<>>
  <2>2. text \in Seq(Texts)
    BY <2>1 DEF RunnerTypeOK
  <2>3. DefineX(c.stmt, text) \in Line /\ DefineX(c.stmt, text).macro # "definitions"
    BY <2>1, <2>2 DEF DefineX, Line, Call
  <2>4. c.placeholder >= 0 => /\ DefineType(c.placeholder, text) \in Line
                              /\ DefineType(c.placeholder, text).macro # "definitions"
    BY <2>1, <2>2 DEF DefineType, Line, Call
  <2>5. held' = held \o <<DefineX(c.stmt, text)>> \o type
    BY <1>5, <2>1 DEF StatementReturns
  <2> DEFINE x == DefineX(c.stmt, text)
  <2>6. <<x>> \in Seq(Line) /\ type \in Seq(Line) /\ NoDefinitions(<<x>>) /\ NoDefinitions(type)
    BY <2>3, <2>4 DEF NoDefinitions
  <2>7. UNCHANGED <<calls, state, inline, topLevel, header>> /\ state = "main"
    BY <1>5 DEF StatementReturns, Executing
  <2> HIDE DEF text, c, type, x
  <2>8. held \o <<x>> \in Seq(Line) /\ NoDefinitions(held \o <<x>>)
    BY <1>a, <2>6, <2>7, ConcatProperties, NoDefinitionsConcat DEF Published
  <2> DEFINE printed == held \o <<x>>
  <2> HIDE DEF printed
  <2>9. printed \in Seq(Line) /\ NoDefinitions(printed) /\ held' = printed \o type
    BY <2>5, <2>8 DEF printed, x
  <2>10. NoDefinitions(held')
    BY <2>6, <2>9, NoDefinitionsConcat
  <2> QED  BY <2>7, <2>10 DEF Published
<1>6. CASE StatementExits
  <2>1. /\ UNCHANGED <<calls, next, inline, topLevel>> /\ next <= Len(calls)
        /\ state' \in {"succeeded", "failed"}
    BY <1>6 DEF StatementExits, Executing, Ended
  <2>2. ~(next > Len(calls))
    BY <1>a, <2>1
  <2> QED  BY <2>1, <2>2 DEF Published
<1>7. CASE StatementCrashes
  <2>1. UNCHANGED <<calls, next, inline, topLevel>> /\ state' = "failed"
    BY <1>7 DEF StatementCrashes
  <2> QED  BY <2>1 DEF Published
<1>8. CASE Finish
  <2>1. /\ UNCHANGED <<calls, next, inline, topLevel>> /\ state = "main"
        /\ state' = "succeeded" /\ Flush(held \o Ending)
    BY <1>8 DEF Finish, Ending
  <2>2. header \o held \in Seq(Line) /\ NoDefinitions(header \o held)
    BY <1>a, <2>1, ConcatProperties, NoDefinitionsConcat DEF Published
  <2>3. Ending' = Ending
    BY <2>1 DEF Ending
  <2>e. Ending \in Seq(Line)
    <3>1. Definitions(topLevel) \in Line
      BY <1>a DEF Definitions, Line
    <3> QED  BY <3>1 DEF Ending
  <2>w. ~lost' => header' = (header \o held) \o Ending
    <3>1. ~lost' => header' = header \o (held \o Ending)
      BY <2>1 DEF Flush
    <3> QED  BY <1>a, <2>e, <3>1, LinesAssociate
  <2>4. ~lost' => \E lines \in Seq(Line) : NoDefinitions(lines) /\ header' = lines \o Ending'
    BY <2>2, <2>3, <2>w
  <2> QED  BY <2>1, <2>4 DEF Published
<1>9. CASE UNCHANGED runnerVars
  BY <1>9 DEF runnerVars, Published, Ending
<1> QED  BY <1>1, <1>2, <1>3, <1>4, <1>5, <1>6, <1>7, <1>8, <1>9 DEF RunnerNext

=============================================================================
