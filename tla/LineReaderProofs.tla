-------------------------- MODULE LineReaderProofs --------------------------
(***************************************************************************)
(* Proofs about LineReader, for every size of the buffer and every set of  *)
(* inputs of text.  Text has no NUL: with one the properties do not hold.  *)
(***************************************************************************)
EXTENDS LineReader, SequenceTheorems, WellFoundedInduction, TLAPS

PlainText == \E A : Nul \notin A /\ Inputs \subseteq Seq(A)

(* The least of some positions *)
LEMMA LeastPosition ==
  ASSUME NEW positions, positions \subseteq Nat, positions # {}
  PROVE  Min(positions) \in positions /\ \A i \in positions : Min(positions) <= i
<1> DEFINE Less == {pair \in Nat \X Nat : pair[1] < pair[2]}
<1>0. IsWellFoundedOn(Less, Nat)
  BY NatLessThanWellFounded DEF OpToRel
<1>1. PICK i \in positions : \A j \in positions : <<j, i>> \notin Less
  <2> HIDE DEF Less
  <2> QED BY <1>0, WFMin
<1>2. ASSUME NEW j \in positions
      PROVE  i <= j
  <2>1. i \in Nat /\ j \in Nat /\ <<j, i>> \in Nat \X Nat
    OBVIOUS
  <2>2. ~(<<j, i>>[1] < <<j, i>>[2])
    BY <1>1, <2>1
  <2> QED BY <2>1, <2>2
<1> QED BY <1>2 DEF Min

(* Where the next such character stands: nowhere before, and there if at   *)
(* all.                                                                    *)
LEMMA NextProperties ==
  ASSUME Len(input) \in Nat, NEW character, NEW from \in 1..End
  PROVE  LET n == Next1(character, from)
         IN  /\ n \in from..End
             /\ n # End => input[n] = character
             /\ \A i \in from..Len(input) : i < n => input[i] # character
<1> DEFINE stops == {i \in from..Len(input) : input[i] = character} \union {End}
<1>1. stops \subseteq Nat /\ stops # {} /\ stops \subseteq from..End
  BY DEF End
<1>2. Min(stops) \in stops /\ \A i \in stops : Min(stops) <= i
  <2> HIDE DEF stops
  <2> QED BY <1>1, LeastPosition
<1>3. Next1(character, from) = Min(stops)
  BY DEF Next1
<1>4. ASSUME NEW i \in from..Len(input), i < Min(stops)
      PROVE  input[i] # character
  <2>1. CASE i \in stops
    <3>1. Min(stops) <= i /\ Min(stops) \in Nat
      BY <1>1, <1>2, <2>1
    <3> QED BY <1>4, <3>1
  <2>2. CASE i \notin stops
    BY <2>2
  <2> QED BY <2>1, <2>2
<1>5. Min(stops) \in from..End /\ (Min(stops) # End => input[Min(stops)] = character)
  BY <1>1, <1>2
<1> QED BY <1>3, <1>4, <1>5

(* The lesser of two positions *)
LEMMA LesserPosition ==
  ASSUME NEW i \in Nat, NEW j \in Nat
  PROVE  Min({i, j}) = IF i <= j THEN i ELSE j
<1> DEFINE both == {i, j}
<1>1. Min(both) \in both /\ \A k \in both : Min(both) <= k
  <2>1. both \subseteq Nat /\ both # {}
    OBVIOUS
  <2> HIDE DEF both
  <2> QED BY <2>1, LeastPosition
<1> QED BY <1>1

-----------------------------------------------------------------------------
(* Reading goes on where a line begins, and every answer is one of the     *)
(* lines before.                                                           *)
ReaderInv ==
  /\ input \in Inputs
  /\ at \in 1..End
  /\ at < End => at \in LineStarts
  /\ EachLineAnswered
  /\ CommandsAreLines

(* What fgets reads ends with the line or with the buffer. *)
LEMMA LastReadProperties ==
  ASSUME Len(input) \in Nat, at \in 1..Len(input)
  PROVE  LET last == LastRead(at)
             nl == Next1(Newline, at)
         IN  /\ last \in at..Len(input) /\ last <= nl /\ last <= at + Capacity - 2
             /\ \/ last = at + Capacity - 2
                \/ last = nl
                \/ last = Len(input)
<1> DEFINE nl == Next1(Newline, at)
           ends == {at + Capacity - 2, nl, Len(input)}
<1>1. nl \in at..End
  <2>1. at \in 1..End
    BY DEF End
  <2> QED BY <2>1, NextProperties
<1>2. /\ at \in Nat /\ at + Capacity - 2 \in Nat /\ nl \in Nat /\ at <= Len(input)
      /\ at <= nl /\ at <= at + Capacity - 2
  <2>1. Len(input) + 1 \in Nat
    OBVIOUS
  <2> QED BY <1>1, <2>1, CapacityAssumption DEF End
<1>3. Min(ends) \in ends /\ \A i \in ends : Min(ends) <= i
  <2>1. ends \subseteq Nat /\ ends # {}
    BY <1>2
  <2> HIDE DEF ends
  <2> QED BY <2>1, LeastPosition
<1>4. LastRead(at) = Min(ends)
  BY DEF LastRead
<1>5. /\ Min(ends) <= Len(input) /\ Min(ends) <= nl /\ Min(ends) <= at + Capacity - 2
      /\ Min(ends) = at + Capacity - 2 \/ Min(ends) = nl \/ Min(ends) = Len(input)
  BY <1>3
<1>6. Min(ends) \in at..Len(input)
  <2> HIDE DEF ends, nl
  <2> QED BY <1>2, <1>5
<1> HIDE DEF ends
<1> QED BY <1>4, <1>5, <1>6

(* Of an input of text, fgets and strlen agree on what was read. *)
LEMMA TextIsRead ==
  ASSUME NEW A, Nul \notin A, input \in Seq(A), at \in 1..Len(input)
  PROVE  LET last == LastRead(at)
         IN  /\ Text(at, last) = SubSeq(input, at, last)
             /\ EndsInNewline(Text(at, last)) <=> input[last] = Newline
<1> DEFINE last == LastRead(at)
           nul == Next1(Nul, at)
<1>1. Len(input) \in Nat /\ at \in 1..End
  BY LenProperties DEF End
<1>2. last \in at..Len(input)
  BY <1>1, LastReadProperties
<1>3. nul \in at..End /\ (nul # End => input[nul] = Nul)
  BY <1>1, NextProperties
<1>4. \A i \in 1..Len(input) : input[i] \in A
  BY ElementOfSeq
<1>5. nul = End
  <2>1. CASE nul # End
    <3>1. nul \in 1..Len(input)
      BY <1>1, <1>3, <2>1 DEF End
    <3> QED BY <1>3, <1>4, <2>1, <3>1
  <2> QED BY <2>1
<1>6. Min({nul - 1, last}) = last
  <2>1. nul - 1 \in Nat /\ last \in Nat /\ last <= nul - 1
    BY <1>1, <1>2, <1>5 DEF End
  <2>2. Min({nul - 1, last}) = IF nul - 1 <= last THEN nul - 1 ELSE last
    BY <2>1, LesserPosition
  <2> HIDE DEF nul, last
  <2> QED BY <2>1, <2>2
<1>7. Text(at, last) = SubSeq(input, at, last)
  BY <1>6 DEF Text
<1>8. /\ Len(SubSeq(input, at, last)) = last - at + 1
      /\ SubSeq(input, at, last) \in Seq(A)
      /\ SubSeq(input, at, last)[last - at + 1] = input[last]
  <2>1. at \in 1..(Len(input) + 1) /\ last \in (at - 1)..Len(input) /\ last - at + 1 \in 1..(last - at + 1)
    BY <1>1, <1>2
  <2>2. at + (last - at + 1) - 1 = last
    BY <1>1, <1>2
  <2> HIDE DEF last
  <2> QED BY <2>1, <2>2, SubSeqProperties
<1>9. SubSeq(input, at, last) # <<>>
  <2>1. last - at + 1 # 0
    BY <1>1, <1>2
  <2> HIDE DEF last
  <2> QED BY <1>8, <2>1
<1> HIDE DEF last
<1>10. EndsInNewline(Text(at, last)) <=> input[last] = Newline
  BY <1>7, <1>8, <1>9 DEF EndsInNewline
<1> QED BY <1>7, <1>10 DEF last

(* However its answer was found, the reader answers the line it stands at, *)
(* rejects it if it does not fit, and goes on behind its newline.          *)
AnswersLine ==
  LET nl == Next1(Newline, at)
      newline == IF nl = End THEN 0 ELSE 1
  IN  /\ Answer(IF nl - at + newline <= Capacity - 1 THEN LineAt(at) ELSE Rejected)
      /\ at' = nl + newline
      /\ UNCHANGED input

(* Every step answers one line. *)
LEMMA StepAnswersLine ==
  ASSUME NEW A, Nul \notin A, input \in Seq(A), at \in 1..End, cli_read_line
  PROVE  AnswersLine
<1> DEFINE last == LastRead(at)
           nl == Next1(Newline, at)
           text == Text(at, last)
<1>1. Len(input) \in Nat /\ at \in 1..Len(input) /\ at \in 1..End /\ End = Len(input) + 1
  BY LenProperties DEF cli_read_line, End
<1>2. /\ last \in at..Len(input) /\ last <= nl /\ last <= at + Capacity - 2
      /\ last = at + Capacity - 2 \/ last = nl \/ last = Len(input)
  BY <1>1, LastReadProperties
<1>3. /\ nl \in at..End
      /\ nl # End => input[nl] = Newline
      /\ \A i \in at..Len(input) : i < nl => input[i] # Newline
  BY <1>1, NextProperties
<1>4. text = SubSeq(input, at, last) /\ (EndsInNewline(text) <=> input[last] = Newline)
  BY <1>1, TextIsRead
<1>5. EndsInNewline(text) <=> last = nl
  <2>1. last = nl => last # End
    BY <1>1, <1>2
  <2>2. input[last] = Newline => ~(last < nl)
    BY <1>2, <1>3
  <2>3. last \in Nat /\ nl \in Nat
    BY <1>1, <1>2, <1>3
  <2> HIDE DEF last, nl, text
  <2> QED BY <1>2, <1>3, <1>4, <2>1, <2>2, <2>3
<1>6. ReadLine(text, last) \/ ReadLastLine(text, last) \/ DiscardLine(text, last)
  BY DEF cli_read_line
<1>7. UNCHANGED input
  BY DEF cli_read_line
<1>8. Capacity \in Nat /\ Capacity >= 2
  BY CapacityAssumption
<1>9. CASE ReadLine(text, last)
  <2>1. last = nl /\ at' = last + 1 /\ Answer(SubSeq(text, 1, Len(text) - 1))
    BY <1>5, <1>9 DEF ReadLine
  <2>2. nl # End /\ nl - at + 1 <= Capacity - 1
    <3> HIDE DEF last, nl, text
    <3> QED BY <1>1, <1>2, <1>3, <1>8, <2>1
  <2>3. SubSeq(text, 1, Len(text) - 1) = LineAt(at)
    <3>1. /\ at \in 1..(Len(input) + 1) /\ nl \in (at - 1)..Len(input)
          /\ nl - 1 \in (at - 1)..Len(input)
      BY <1>1, <1>2, <1>3, <2>1
    <3> HIDE DEF nl, last
    <3>2. /\ text = SubSeq(input, at, nl)
          /\ text \in Seq(A) /\ Len(text) = nl - at + 1
          /\ \A i \in 1..(nl - at + 1) : text[i] = input[at + i - 1]
      BY <1>4, <2>1, <3>1, SubSeqProperties
    <3> HIDE DEF text
    <3>3. 1 \in 1..(Len(text) + 1) /\ Len(text) - 1 = nl - at /\ nl - at \in 0..Len(text)
      BY <1>1, <1>3, <3>1, <3>2
    <3>4. /\ SubSeq(text, 1, nl - at) \in Seq(A) /\ Len(SubSeq(text, 1, nl - at)) = nl - at
          /\ \A i \in 1..(nl - at) : SubSeq(text, 1, nl - at)[i] = text[i]
      <4>1. Len(SubSeq(text, 1, nl - at)) = nl - at - 1 + 1 /\ nl - at - 1 + 1 = nl - at
        BY <1>1, <3>1, <3>2, <3>3, SubSeqProperties
      <4>2. \A i \in 1..(nl - at) : 1 + i - 1 = i
        OBVIOUS
      <4> QED BY <3>2, <3>3, <4>1, <4>2, SubSeqProperties
    <3>5. /\ SubSeq(input, at, nl - 1) \in Seq(A) /\ Len(SubSeq(input, at, nl - 1)) = nl - at
          /\ \A i \in 1..(nl - at) : SubSeq(input, at, nl - 1)[i] = input[at + i - 1]
      <4>1. nl - 1 - at + 1 = nl - at
        BY <1>1, <3>1
      <4> QED BY <3>1, <4>1, SubSeqProperties
    <3>6. SubSeq(text, 1, nl - at) = SubSeq(input, at, nl - 1)
      <4>1. \A i \in 1..(nl - at) : text[i] = input[at + i - 1]
        BY <1>1, <3>1, <3>2
      <4>2. \A i \in 1..Len(SubSeq(text, 1, nl - at)) : SubSeq(text, 1, nl - at)[i] = SubSeq(input, at, nl - 1)[i]
        BY <3>4, <3>5, <4>1
      <4> QED BY <3>4, <3>5, <4>2, SeqEqual
    <3> QED BY <3>3, <3>6 DEF LineAt, nl
  <2> QED BY <1>7, <2>1, <2>2, <2>3 DEF AnswersLine
<1>10. CASE ReadLastLine(text, last)
  <2>1. last # nl /\ last + 1 = End /\ Answer(text) /\ at' = End
    BY <1>5, <1>10 DEF ReadLastLine
  <2>2. nl = End /\ nl - at <= Capacity - 1
    <3> HIDE DEF last, nl, text
    <3> QED BY <1>1, <1>2, <1>3, <1>8, <2>1
  <2>3. text = LineAt(at)
    <3>1. last = nl - 1
      BY <1>1, <1>2, <2>1, <2>2
    <3> QED BY <1>4, <3>1 DEF LineAt
  <2>4. nl - at + 0 <= Capacity - 1 /\ at' = nl + 0
    <3> HIDE DEF nl
    <3> QED BY <1>1, <2>1, <2>2
  <2> QED BY <1>7, <2>1, <2>2, <2>3, <2>4 DEF AnswersLine
<1>11. CASE DiscardLine(text, last)
  <2>1. last # nl /\ last + 1 # End /\ Answer(Rejected) /\ at' = Min({Next1(Newline, last + 1) + 1, End})
    BY <1>5, <1>11 DEF DiscardLine
  <2>2. last < nl /\ last = at + Capacity - 2 /\ last + 1 \in 1..End
    <3> HIDE DEF last, nl, text
    <3> QED BY <1>1, <1>2, <1>3, <1>8, <2>1
  <2> DEFINE next == Next1(Newline, last + 1)
  <2>3. /\ next \in (last + 1)..End
        /\ next # End => input[next] = Newline
        /\ \A i \in (last + 1)..Len(input) : i < next => input[i] # Newline
    BY <1>1, <2>2, NextProperties
  <2>4. next = nl
    <3>1. next < nl => next # End /\ next \in at..Len(input)
      BY <1>1, <1>2, <1>3, <2>3
    <3>2. nl < next => nl # End /\ nl \in (last + 1)..Len(input)
      <4> HIDE DEF last, nl, text, next
      <4> QED BY <1>1, <1>2, <1>3, <2>2, <2>3
    <3>3. next \in Nat /\ nl \in Nat
      BY <1>1, <1>2, <1>3, <2>3
    <3> HIDE DEF nl, next, last
    <3> QED BY <1>3, <2>3, <3>1, <3>2, <3>3
  <2>5. nl \in Nat /\ End \in Nat /\ nl + 1 \in Nat
    BY <1>1, <1>3
  <2>6. at' = IF nl + 1 <= End THEN nl + 1 ELSE End
    <3> HIDE DEF nl, last
    <3> QED BY <2>1, <2>4, <2>5, LesserPosition
  <2>7. at' = nl + (IF nl = End THEN 0 ELSE 1)
    <3> HIDE DEF nl
    <3> QED BY <1>1, <1>3, <2>5, <2>6
  <2>8. ~(nl - at + (IF nl = End THEN 0 ELSE 1) <= Capacity - 1)
    <3> HIDE DEF nl, last, text
    <3> QED BY <1>1, <1>2, <1>3, <1>8, <2>1, <2>2
  <2> QED BY <1>7, <2>1, <2>7, <2>8 DEF AnswersLine
<1> QED BY <1>6, <1>9, <1>10, <1>11

-----------------------------------------------------------------------------
(* A line begins at the start of the input and behind each newline: there  *)
(* is none between a place in the input and the end of its line.           *)
LEMMA NoLineWithin ==
  ASSUME Len(input) \in Nat, at \in 1..Len(input), at \in LineStarts
  PROVE  LET nl == Next1(Newline, at)
             next == nl + (IF nl = End THEN 0 ELSE 1)
         IN  /\ next \in (at + 1)..End
             /\ next < End => next \in LineStarts
             /\ \A i \in LineStarts : i < next <=> i < at \/ i = at
<1> DEFINE nl == Next1(Newline, at)
           next == nl + (IF nl = End THEN 0 ELSE 1)
<1>1. at \in 1..End /\ End = Len(input) + 1
  BY DEF End
<1>2. /\ nl \in at..End
      /\ nl # End => input[nl] = Newline
      /\ \A i \in at..Len(input) : i < nl => input[i] # Newline
  BY <1>1, NextProperties
<1> HIDE DEF nl
<1>3. next \in (at + 1)..End
  BY <1>1, <1>2
<1>4. next < End => next \in 1..Len(input) /\ next - 1 = nl /\ nl # End
  BY <1>1, <1>2
<1>5. next < End => next \in LineStarts
  BY <1>2, <1>4 DEF LineStarts
<1>6. ASSUME NEW i \in LineStarts
      PROVE  i < next <=> i < at \/ i = at
  <2>1. i \in 1..Len(input) /\ (i = 1 \/ input[i - 1] = Newline)
    BY DEF LineStarts
  <2>2. CASE at < i /\ i < next
    <3>1. i # 1 /\ i - 1 \in at..Len(input) /\ i - 1 < nl
      BY <1>1, <1>2, <2>1, <2>2
    <3> QED BY <1>2, <2>1, <3>1
  <2>3. CASE ~(at < i /\ i < next)
    BY <1>1, <1>3, <2>1, <2>3
  <2> QED BY <2>2, <2>3
<1> QED BY <1>3, <1>5, <1>6 DEF nl

(* How long the line is: up to its newline or the end of the input *)
LEMMA LineLength ==
  ASSUME NEW A, input \in Seq(A), at \in 1..Len(input)
  PROVE  Len(LineAt(at)) = Next1(Newline, at) - at
<1> DEFINE nl == Next1(Newline, at)
<1>1. Len(input) \in Nat /\ at \in 1..End /\ End = Len(input) + 1
  BY LenProperties DEF End
<1>2. nl \in at..End
  BY <1>1, NextProperties
<1>3. \A i \in at..(nl - 1) : input[i] \in A
  <2> HIDE DEF nl
  <2>1. \A i \in 1..Len(input) : input[i] \in A
    BY ElementOfSeq
  <2> QED BY <1>1, <1>2, <2>1
<1>4. Len(SubSeq(input, at, nl - 1)) = nl - at
  <2> HIDE DEF nl
  <2>1. Len(SubSeq(input, at, nl - 1)) = IF at <= nl - 1 THEN nl - 1 - at + 1 ELSE 0
    BY <1>1, <1>2, <1>3, SubSeqProperties
  <2> QED BY <1>1, <1>2, <2>1
<1> QED BY <1>4 DEF LineAt

(* The invariant is kept: the answer is the next line's, and right. *)
LEMMA StepKeeps ==
  ASSUME PlainText, ReaderInv, cli_read_line
  PROVE  ReaderInv'
<1>1. PICK A : Nul \notin A /\ Inputs \subseteq Seq(A)
  BY DEF PlainText
<1>2. /\ input \in Seq(A) /\ at \in 1..End /\ Len(input) \in Nat /\ End = Len(input) + 1
      /\ at \in 1..Len(input) /\ at < End /\ at \in LineStarts
  BY <1>1, LenProperties DEF ReaderInv, cli_read_line, End
<1> DEFINE nl == Next1(Newline, at)
           newline == IF nl = End THEN 0 ELSE 1
           line == IF nl - at + newline <= Capacity - 1 THEN LineAt(at) ELSE Rejected
           answer == [from |-> at, line |-> line]
<1>3. answers' = answers \union {answer} /\ at' = nl + newline /\ input' = input
  BY <1>1, <1>2, StepAnswersLine DEF AnswersLine, Answer
<1>4. /\ at' \in (at + 1)..End
      /\ at' < End => at' \in LineStarts
      /\ \A i \in LineStarts : i < at' <=> i < at \/ i = at
  BY <1>2, <1>3, NoLineWithin
<1>5. /\ End' = End /\ LineStarts' = LineStarts
      /\ \A i : LineAt(i)' = LineAt(i)
  BY <1>3 DEF End, LineStarts, LineAt, Next1
<1>6. EachLineAnswered'
  <2>1. /\ {r.from : r \in answers} = {i \in LineStarts : i < at}
        /\ \A r, s \in answers : r.from = s.from => r = s
    BY DEF ReaderInv, EachLineAnswered
  <2>2. answer.from = at
    OBVIOUS
  <2> HIDE DEF answer
  <2>3. {r.from : r \in answers'} = {i \in LineStarts : i < at'}
    <3>1. {r.from : r \in answers'} = {r.from : r \in answers} \union {at}
      BY <1>3, <2>2
    <3>2. {i \in LineStarts : i < at'} = {i \in LineStarts : i < at} \union {at}
      BY <1>2, <1>4
    <3> QED BY <2>1, <3>1, <3>2
  <2>4. \A r \in answers : r.from # at
    <3>1. at \notin {i \in LineStarts : i < at}
      BY <1>2
    <3> QED BY <2>1, <3>1
  <2>5. \A r, s \in answers' : r.from = s.from => r = s
    BY <1>3, <2>1, <2>2, <2>4
  <2> QED BY <1>5, <2>3, <2>5 DEF EachLineAnswered
<1>7. CommandsAreLines'
  <2>1. Len(LineAt(at)) = nl - at
    BY <1>2, LineLength
  <2>2. newline \in {0, 1} /\ Capacity \in Nat
    BY CapacityAssumption
  <2>3. answer.from = at /\ answer.line = line
    OBVIOUS
  <2>nl. nl \in Int /\ at \in Int
    BY <1>2, NextProperties DEF End
  <2> DEFINE Right(r) == LET text == LineAt(r.from)
                         IN  \/ r.line = text /\ Len(text) <= Capacity - 1
                             \/ r.line = Rejected /\ Len(text) >= Capacity - 1
  <2>4. Right(answer)
    <3> HIDE DEF answer, nl, newline
    <3>1. CASE nl - at + newline <= Capacity - 1
      BY <2>1, <2>2, <2>3, <2>nl, <3>1
    <3>2. CASE ~(nl - at + newline <= Capacity - 1)
      BY <2>1, <2>2, <2>3, <2>nl, <3>2
    <3> QED BY <3>1, <3>2
  <2>5. \A r \in answers : Right(r)
    BY DEF ReaderInv, CommandsAreLines
  <2>6. \A r \in answers' : Right(r)
    <3> HIDE DEF Right, answer
    <3> QED BY <1>3, <2>4, <2>5
  <2> QED BY <1>5, <2>6 DEF CommandsAreLines
<1>8. input' \in Inputs /\ at' \in 1..End /\ (at' < End => at' \in LineStarts)
  BY <1>2, <1>3, <1>4 DEF ReaderInv
<1> QED BY <1>5, <1>6, <1>7, <1>8 DEF ReaderInv

(* What holds of every input of text as it is read: the lines before the   *)
(* place of the reader are answered, and it stands at the next.            *)
THEOREM ReaderInvariance ==
  ASSUME PlainText
  PROVE  ReaderSpec => []ReaderInv
<1>1. ReaderInit => ReaderInv
  <2>1. ASSUME ReaderInit
        PROVE  ReaderInv
    <3>1. PICK A : Inputs \subseteq Seq(A)
      BY DEF PlainText
    <3>2. input \in Inputs /\ at = 1 /\ answers = {} /\ Len(input) \in Nat
      BY <2>1, <3>1, LenProperties DEF ReaderInit
    <3>3. at \in 1..End /\ (at < End => at \in LineStarts)
      BY <3>2 DEF End, LineStarts
    <3>4. {i \in LineStarts : i < at} = {}
      BY <3>2 DEF LineStarts
    <3>5. EachLineAnswered /\ CommandsAreLines
      BY <3>2, <3>4 DEF EachLineAnswered, CommandsAreLines
    <3> QED BY <3>2, <3>3, <3>5 DEF ReaderInv
  <2> QED BY <2>1
<1>2. ReaderInv /\ [ReaderNext]_readerVars => ReaderInv'
  <2>1. ASSUME ReaderInv, UNCHANGED readerVars
        PROVE  ReaderInv'
    <3>1. End' = End /\ LineStarts' = LineStarts /\ \A i : LineAt(i)' = LineAt(i)
      BY <2>1 DEF readerVars, End, LineStarts, LineAt, Next1
    <3>2. EachLineAnswered' /\ CommandsAreLines'
      BY <2>1, <3>1 DEF readerVars, ReaderInv, EachLineAnswered, CommandsAreLines
    <3> QED BY <2>1, <3>1, <3>2 DEF readerVars, ReaderInv
  <2> QED BY <2>1, StepKeeps DEF ReaderNext
<1> QED BY <1>1, <1>2, PTL DEF ReaderSpec

(* Each line of a text gets one answer and in its turn, whatever the size  *)
(* of the buffer: the rest of an oversized line is never run as a command. *)
THEOREM LinesAnsweredOnce ==
  ASSUME PlainText
  PROVE  ReaderSpec => []EachLineAnswered
<1>1. ReaderInv => EachLineAnswered
  BY DEF ReaderInv
<1> QED BY ReaderInvariance, <1>1, PTL

(* What is run is a whole line of at most CLI_MAX_INPUT - 1 characters,    *)
(* and a line shorter than that is never rejected.                         *)
THEOREM OnlyWholeLines ==
  ASSUME PlainText
  PROVE  ReaderSpec => []CommandsAreLines
<1>1. ReaderInv => CommandsAreLines
  BY DEF ReaderInv
<1> QED BY ReaderInvariance, <1>1, PTL
=============================================================================
