-------------------------- MODULE CommandLineProofs --------------------------
(***************************************************************************)
(* Proofs about Tokenizer and its composition with Parser in CommandLine,  *)
(* for any characters, lines and limits: nothing is longer than its        *)
(* buffer, the tokens are those of the text and exactly the legal texts    *)
(* have them, the dispatcher agrees with the tokenizer on what a statement *)
(* is, the parser reads no token behind the last, and what was validated   *)
(* can be executed.                                                        *)
(***************************************************************************)
EXTENDS CommandLine, ParserProofs, FiniteSetTheorems, WellFoundedInduction

-----------------------------------------------------------------------------
(* Tokenizer *)

Alphabet == Characters \union {Minus, Nul}

TokenTypes == {"none", "STRING", "NUMBER", "WORD", "EOF", "IDENTIFIER"}
           \union Alphabet \union {Keywords[word] : word \in DOMAIN Keywords}

Unfinished == [type : TokenTypes, value : Seq(Alphabet), from : Nat]
Finished == [type : TokenTypes, value : Seq(Alphabet), from : Nat, to : Int]

(* A token being read has its place; the tokens read leave one for EOF.    *)
Room ==
  /\ status # "TOKENIZE_OK" => Len(storage) <= Capacity - 1
  /\ status # "TOKENIZE_OK" /\ token.type # "none" => HasRoom

(* The inductive invariant *)
TokenizerInv ==
  /\ input \in Seq(Characters)
  /\ p \in 1..(Len(input) + 1)
  /\ token \in Unfinished
  /\ Len(token.value) <= TokenValueMax
  /\ storage \in Seq(Finished)
  /\ Len(storage) <= Capacity
  /\ \A n \in 1..Len(storage) : Len(storage[n].value) <= TokenValueMax
  /\ status \in Statuses \union {"none"}
  /\ Room

(* It holds before the first character. *)
LEMMA InitTokenizerInv == Init => TokenizerInv
<1> SUFFICES ASSUME Init
             PROVE  TokenizerInv
  OBVIOUS
<1>1. input \in Seq(Characters) /\ p = 1 /\ token = NoToken /\ storage = <<>> /\ status = "none"
  BY LineAssumption DEF Init
<1>2. Len(input) \in Nat /\ <<>> \in Seq(Alphabet) /\ <<>> \in Seq(Finished) /\ Len(<<>>) = 0
  BY <1>1, LenProperties
<1>3. NoToken \in Unfinished /\ NoToken.value = <<>> /\ NoToken.type = "none"
  BY <1>2 DEF NoToken, Unfinished, TokenTypes
<1> QED BY <1>1, <1>2, <1>3, LimitAssumption DEF TokenizerInv, Room

-----------------------------------------------------------------------------
(* The character looked at is one of the line, unless it is the NUL. *)
LEMMA WithinLine ==
  ASSUME TokenizerInv
  PROVE  /\ Len(input) \in Nat /\ p \in Nat /\ Here \in Alphabet
         /\ Here # Nul => p \in 1..Len(input) /\ p + 1 \in 1..(Len(input) + 1)
<1>1. Len(input) \in Nat /\ DOMAIN input = 1..Len(input) /\ p \in 1..(Len(input) + 1)
  BY LenProperties DEF TokenizerInv
<1>2. p \in DOMAIN input => input[p] \in Alphabet
  BY <1>1, ElementOfSeq DEF TokenizerInv, Alphabet
<1> QED BY <1>1, <1>2 DEF Here, At, Alphabet

(* A step that only moves on between tokens or begins one *)
LEMMA BeginKeeps ==
  ASSUME TokenizerInv, SkipSpace \/ BeginString \/ BeginNumber \/ BeginWord
  PROVE  TokenizerInv'
<1>1. Here # Nul
  BY ClassAssumption DEF SkipSpace, BeginString, BeginNumber, BeginWord, AtToken, WordCharacters
<1>2. p' \in 1..(Len(input) + 1) /\ p \in Nat
  BY <1>1, WithinLine DEF TokenizerInv, SkipSpace, BeginString, BeginNumber, BeginWord
<1>3. UNCHANGED <<input, storage, status>> /\ status = "none"
  BY DEF SkipSpace, BeginString, BeginNumber, BeginWord, BeginToken, AtToken, Between
<1>4. \/ token' = token
      \/ HasRoom /\ \E type \in {"STRING", "NUMBER", "WORD"}, value \in {<<>>, <<Minus>>} :
           token' = [type |-> type, value |-> value, from |-> p]
  BY DEF SkipSpace, BeginString, BeginNumber, BeginWord, BeginToken
<1>5. /\ <<>> \in Seq(Alphabet) /\ Len(<<>>) = 0
      /\ <<Minus>> \in Seq(Alphabet) /\ Len(<<Minus>>) = 1
  BY DEF Alphabet
<1>begun. ASSUME NEW type \in TokenTypes, NEW value \in Seq(Alphabet)
          PROVE  /\ [type |-> type, value |-> value, from |-> p] \in Unfinished
                 /\ [type |-> type, value |-> value, from |-> p].value = value
  BY <1>2 DEF Unfinished
<1>6. token' \in Unfinished /\ Len(token'.value) <= TokenValueMax
  <2>1. CASE token' = token
    BY <2>1 DEF TokenizerInv
  <2>2. ASSUME NEW type \in {"STRING", "NUMBER", "WORD"}, NEW value \in {<<>>, <<Minus>>},
               token' = [type |-> type, value |-> value, from |-> p]
        PROVE  token' \in Unfinished /\ Len(token'.value) <= TokenValueMax
    <3>1. type \in TokenTypes
      BY DEF TokenTypes
    <3>2. value \in Seq(Alphabet) /\ Len(value) <= TokenValueMax
      <4>1. CASE value = <<>>
        BY <1>5, <4>1, LimitAssumption
      <4>2. CASE value = <<Minus>>
        BY <1>5, <4>2, LimitAssumption
      <4> QED BY <4>1, <4>2
    <3>3. /\ [type |-> type, value |-> value, from |-> p] \in Unfinished
          /\ [type |-> type, value |-> value, from |-> p].value = value
      BY <1>begun, <3>1, <3>2
    <3> QED BY <2>2, <3>2, <3>3
  <2> QED BY <1>4, <2>1, <2>2
<1>7. Room'
  BY <1>3, <1>4 DEF TokenizerInv, Room, HasRoom
<1> QED BY <1>2, <1>3, <1>6, <1>7 DEF TokenizerInv

(* A token that is read on stays within its limit. *)
LEMMA ReadKeeps ==
  ASSUME TokenizerInv, ReadCharacter
  PROVE  TokenizerInv'
<1>1. Here # Nul /\ status = "none" /\ token.type # "none"
  BY ClassAssumption DEF ReadCharacter, GoesOn, Reading, WordCharacters
<1>2. p' \in 1..(Len(input) + 1) /\ Here \in Alphabet
  BY <1>1, WithinLine DEF ReadCharacter
<1> DEFINE value == Append(token.value, Here)
<1>3. value \in Seq(Alphabet) /\ Len(value) = Len(token.value) + 1 /\ Len(token.value) \in Nat
  BY <1>2, AppendProperties, LenProperties DEF TokenizerInv, Unfinished
<1>4. Len(value) <= TokenValueMax
  BY <1>3, LimitAssumption DEF ReadCharacter, Fits
<1>5. token' = [token EXCEPT !.value = value] /\ UNCHANGED <<input, storage, status>>
  BY DEF ReadCharacter
<1> HIDE DEF value
<1>6. token' \in Unfinished /\ token'.value = value /\ token'.type = token.type
  BY <1>3, <1>5 DEF TokenizerInv, Unfinished
<1> QED BY <1>2, <1>4, <1>5, <1>6 DEF TokenizerInv, Room, HasRoom

(* A token that is added to those read *)
LEMMA AppendKeeps ==
  ASSUME TokenizerInv, NEW t \in Finished, Len(t.value) <= TokenValueMax, storage' = Append(storage, t)
  PROVE  /\ storage' \in Seq(Finished) /\ Len(storage') = Len(storage) + 1 /\ Len(storage) \in Nat
         /\ \A n \in 1..Len(storage') : Len(storage'[n].value) <= TokenValueMax
<1>1. /\ storage' \in Seq(Finished) /\ Len(storage') = Len(storage) + 1 /\ Len(storage) \in Nat
      /\ \A n \in 1..Len(storage) : storage'[n] = storage[n]
      /\ storage'[Len(storage) + 1] = t
  BY AppendProperties, LenProperties DEF TokenizerInv
<1> QED BY <1>1 DEF TokenizerInv

(* One that is complete had room, ... *)
LEMMA EmitKeeps ==
  ASSUME TokenizerInv, HasRoom, NEW type \in TokenTypes, NEW value \in Seq(Alphabet), NEW from \in Nat,
         NEW to \in 0..Len(input), Len(value) <= TokenValueMax, Emit(type, value, from, to),
         status = "none"
  PROVE  TokenizerInv'
<1> DEFINE t == [type |-> type, value |-> value, from |-> from, to |-> to]
<1>1. Len(input) \in Nat /\ p' \in 1..(Len(input) + 1)
  BY WithinLine DEF Emit
<1>2. t \in Finished /\ t.value = value
  BY <1>1 DEF Finished
<1>3. storage' = Append(storage, t) /\ token' = NoToken /\ UNCHANGED <<input, status>>
  BY DEF Emit
<1> HIDE DEF t
<1>4. /\ storage' \in Seq(Finished) /\ Len(storage') = Len(storage) + 1 /\ Len(storage) \in Nat
      /\ \A n \in 1..Len(storage') : Len(storage'[n].value) <= TokenValueMax
  BY <1>2, <1>3, AppendKeeps
<1>5. Len(storage') <= Capacity - 1
  BY <1>4, LimitAssumption DEF HasRoom
<1>6. NoToken \in Unfinished /\ Len(NoToken.value) <= TokenValueMax /\ NoToken.type = "none"
  BY LimitAssumption DEF NoToken, Unfinished, TokenTypes
<1> QED BY <1>1, <1>3, <1>4, <1>5, <1>6, LimitAssumption DEF TokenizerInv, Room

(* ... whichever it is, *)
LEMMA EndKeeps ==
  ASSUME TokenizerInv, ReadPunct \/ EndString \/ EndNumber \/ EndWord
  PROVE  TokenizerInv'
<1>line. Len(input) \in Nat /\ p \in 1..(Len(input) + 1) /\ Here \in Alphabet
         /\ (Here # Nul => p \in 1..Len(input))
  BY WithinLine DEF TokenizerInv
<1>token. token.value \in Seq(Alphabet) /\ token.from \in Nat /\ Len(token.value) <= TokenValueMax
  BY DEF TokenizerInv, Unfinished
<1>1. CASE ReadPunct
  <2>1. Here # Nul /\ HasRoom /\ status = "none" /\ Emit(Here, <<Here>>, p, p)
    BY <1>1, ClassAssumption DEF ReadPunct, AtToken, Between
  <2>2. <<Here>> \in Seq(Alphabet) /\ Len(<<Here>>) <= TokenValueMax
    BY <1>line, LimitAssumption
  <2>3. p \in Nat /\ p \in 0..Len(input)
    BY <1>line, <2>1
  <2>4. Here \in TokenTypes
    BY <1>line DEF TokenTypes
  <2> QED BY <2>1, <2>2, <2>3, <2>4, EmitKeeps
<1>2. CASE EndString
  <2>1. p \in 0..Len(input) /\ HasRoom /\ status = "none"
        /\ Emit("STRING", token.value, token.from, p) /\ "STRING" \in TokenTypes
    BY <1>2, <1>line DEF EndString, Reading, TokenizerInv, Room, Quote, Nul, TokenTypes
  <2> QED BY <1>token, <2>1, EmitKeeps
<1>3. CASE EndNumber
  <2>1. p - 1 \in 0..Len(input) /\ HasRoom /\ status = "none"
        /\ Emit("NUMBER", token.value, token.from, p - 1) /\ "NUMBER" \in TokenTypes
    BY <1>3, <1>line DEF EndNumber, Reading, TokenizerInv, Room, TokenTypes
  <2> QED BY <1>token, <2>1, EmitKeeps
<1>4. CASE EndWord
  <2>1. p - 1 \in 0..Len(input) /\ HasRoom /\ status = "none"
        /\ Emit(keyword_lookup(token.value), token.value, token.from, p - 1)
    BY <1>4, <1>line DEF EndWord, Reading, TokenizerInv, Room
  <2>2. keyword_lookup(token.value) \in TokenTypes
    BY DEF keyword_lookup, TokenTypes
  <2> QED BY <1>token, <2>1, <2>2, EmitKeeps
<1> QED BY <1>1, <1>2, <1>3, <1>4

(* ... and the EOF has the place that was left for it. *)
LEMMA FinishKeeps ==
  ASSUME TokenizerInv, Finish
  PROVE  TokenizerInv'
<1> DEFINE t == [type |-> "EOF", value |-> <<>>, from |-> p, to |-> p - 1]
<1>1. p \in Nat /\ <<>> \in Seq(Alphabet) /\ Len(<<>>) = 0
  BY WithinLine
<1>2. t \in Finished /\ Len(t.value) <= TokenValueMax
  BY <1>1, LimitAssumption DEF Finished, TokenTypes
<1>3. storage' = Append(storage, t) /\ status' = "TOKENIZE_OK" /\ UNCHANGED <<input, p, token>>
  BY DEF Finish
<1> HIDE DEF t
<1>4. /\ storage' \in Seq(Finished) /\ Len(storage') = Len(storage) + 1 /\ Len(storage) \in Nat
      /\ \A n \in 1..Len(storage') : Len(storage'[n].value) <= TokenValueMax
  BY <1>2, <1>3, AppendKeeps
<1>5. Len(storage) <= Capacity - 1
  BY DEF Finish, Between, TokenizerInv, Room
<1> QED BY <1>3, <1>4, <1>5, LimitAssumption DEF TokenizerInv, Room, Statuses

(* A refusal leaves everything where it is. *)
LEMMA RefuseKeeps ==
  ASSUME TokenizerInv,
         TooManyTokens \/ InvalidCharacter \/ TokenTooLong \/ UnterminatedString
  PROVE  TokenizerInv'
<1>1. UNCHANGED <<input, p, token, storage>> /\ status' \in Statuses
  BY DEF TooManyTokens, InvalidCharacter, TokenTooLong, UnterminatedString, Return, Statuses
<1>2. status = "none"
  BY DEF TooManyTokens, InvalidCharacter, TokenTooLong, UnterminatedString, AtToken, Between, GoesOn,
         Reading
<1> QED BY <1>1, <1>2 DEF TokenizerInv, Room, HasRoom

-----------------------------------------------------------------------------
(* Every step keeps the invariant, and so does none at all. *)
LEMMA TokenizerKeeps ==
  ASSUME TokenizerInv, [Next]_vars
  PROVE  TokenizerInv'
<1>1. CASE UNCHANGED vars
  BY <1>1 DEF vars, TokenizerInv, Room, HasRoom
<1> QED BY <1>1, BeginKeeps, ReadKeeps, EndKeeps, FinishKeeps, RefuseKeeps DEF Next

(* The tokenizer's invariant, on every line.                               *)
THEOREM TokenizerInvariance == Spec => []TokenizerInv
  BY InitTokenizerInv, TokenizerKeeps, PTL DEF Spec

(* Neither a token's value nor the array of tokens is ever written past    *)
(* its end, whatever the line and the capacities.                          *)
THEOREM BuffersHold == Spec => []TokenizerTypeOK
<1>1. TokenizerInv => TokenizerTypeOK
  BY LenProperties DEF TokenizerInv, TokenizerTypeOK
<1> QED BY TokenizerInvariance, <1>1, PTL

-----------------------------------------------------------------------------
(* The positions of a text *)

(* A character that is not the NUL is one of the line. *)
LEMMA CharacterAt ==
  ASSUME input \in Seq(Characters), NEW i \in Int
  PROVE  /\ Len(input) \in Nat /\ DOMAIN input = 1..Len(input)
         /\ At(i) # Nul <=> i \in 1..Len(input)
         /\ i \in 1..Len(input) => At(i) = input[i]
<1>1. Len(input) \in Nat /\ DOMAIN input = 1..Len(input)
  BY LenProperties
<1>2. i \in 1..Len(input) => input[i] \in Characters
  BY <1>1, ElementOfSeq
<1> QED BY <1>1, <1>2, ClassAssumption DEF At

(* No class holds the NUL. *)
LEMMA NulIsNone ==
  Nul \notin Spaces \union Puncts \union WordCharacters \union {Quote, Minus}
BY ClassAssumption DEF Nul, Quote, Minus

(* Passing a quote enters or leaves a string, passing another does not. *)
LEMMA ParityStep ==
  ASSUME input \in Seq(Characters), NEW i \in 1..Len(input)
  PROVE  InString(i + 1) <=> (IF At(i) = Quote THEN ~InString(i) ELSE InString(i))
<1> DEFINE quotes(k) == {j \in 1..(k - 1) : input[j] = Quote}
<1>1. Len(input) \in Nat /\ At(i) = input[i] /\ i \in Int
  BY CharacterAt, LenProperties
<1>2. IsFiniteSet(quotes(i)) /\ Cardinality(quotes(i)) \in Nat
  <2>1. IsFiniteSet(1..(i - 1))
    BY <1>1, FS_Interval
  <2>2. quotes(i) \subseteq 1..(i - 1)
    OBVIOUS
  <2>3. IsFiniteSet(quotes(i))
    BY <2>1, <2>2, FS_Subset
  <2> QED BY <2>3, FS_CardinalityType
<1>3. i \notin quotes(i)
  BY <1>1
<1>4. CASE At(i) = Quote
  <2>1. quotes(i + 1) = quotes(i) \union {i}
    <3>1. \A j : j \in 1..(i + 1 - 1) <=> j \in 1..(i - 1) \/ j = i
      BY <1>1
    <3>2. input[i] = Quote
      BY <1>1, <1>4
    <3>3. \A j : j \in quotes(i + 1) <=> j \in quotes(i) \/ j = i
      BY <3>1, <3>2
    <3> HIDE DEF quotes
    <3> QED BY <3>3
  <2>2. Cardinality(quotes(i + 1)) = Cardinality(quotes(i)) + 1
    <3> HIDE DEF quotes
    <3> QED BY <1>2, <1>3, <2>1, FS_AddElement
  <2>3. InString(i) <=> Cardinality(quotes(i)) % 2 = 1
    BY DEF InString
  <2>4. InString(i + 1) <=> Cardinality(quotes(i + 1)) % 2 = 1
    BY DEF InString
  <2> HIDE DEF quotes
  <2> QED BY <1>2, <1>4, <2>2, <2>3, <2>4
<1>5. CASE At(i) # Quote
  <2>1. quotes(i + 1) = quotes(i)
    BY <1>1, <1>5
  <2>2. InString(i) <=> Cardinality(quotes(i)) % 2 = 1
    BY DEF InString
  <2>3. InString(i + 1) <=> Cardinality(quotes(i + 1)) % 2 = 1
    BY DEF InString
  <2> HIDE DEF quotes
  <2> QED BY <1>5, <2>1, <2>2, <2>3
<1> QED BY <1>4, <1>5

(* There is no string before the first quote. *)
LEMMA NoQuotes ==
  ASSUME input \in Seq(Characters), NEW i \in 1..(Len(input) + 1), \A j \in 1..(i - 1) : At(j) # Quote
  PROVE  ~InString(i)
<1>1. Len(input) \in Nat /\ \A j \in 1..(i - 1) : input[j] = At(j)
  <2>1. Len(input) \in Nat
    BY LenProperties
  <2> SUFFICES ASSUME NEW j \in 1..(i - 1)
               PROVE  input[j] = At(j)
    BY <2>1
  <2>2. j \in 1..Len(input) /\ j \in Int
    BY <2>1
  <2> QED BY <2>2, CharacterAt
<1>2. {j \in 1..(i - 1) : input[j] = Quote} = {}
  BY <1>1
<1>3. InString(i) <=> Cardinality({}) % 2 = 1
  BY <1>2 DEF InString
<1> QED BY <1>3, FS_EmptySet

(* A word goes on behind a letter, and behind a digit if it did before. *)
LEMMA WordStep ==
  ASSUME NEW i \in Int, i >= 1
  PROVE  WordGoesOn(i + 1) <=> At(i) \in WordCharacters /\ (At(i) \in Letters \/ WordGoesOn(i))
<1>1. ASSUME WordGoesOn(i + 1)
      PROVE  At(i) \in WordCharacters /\ (At(i) \in Letters \/ WordGoesOn(i))
  <2>1. PICK j \in 1..(i + 1 - 1) : /\ At(j) \in Letters
                                    /\ \A k \in j..(i + 1 - 1) : At(k) \in WordCharacters
    BY <1>1 DEF WordGoesOn
  <2>2. At(i) \in WordCharacters
    BY <2>1
  <2>3. j # i => WordGoesOn(i)
    BY <2>1 DEF WordGoesOn
  <2> QED BY <2>1, <2>2, <2>3
<1>2. ASSUME At(i) \in Letters
      PROVE  WordGoesOn(i + 1)
  BY <1>2 DEF WordGoesOn, WordCharacters
<1>3. ASSUME At(i) \in WordCharacters, WordGoesOn(i)
      PROVE  WordGoesOn(i + 1)
  <2>1. PICK j \in 1..(i - 1) : /\ At(j) \in Letters
                                /\ \A k \in j..(i - 1) : At(k) \in WordCharacters
    BY <1>3 DEF WordGoesOn
  <2>2. \A k \in j..(i + 1 - 1) : At(k) \in WordCharacters
    BY <1>3, <2>1
  <2> QED BY <2>1, <2>2 DEF WordGoesOn
<1> QED BY <1>1, <1>2, <1>3

(* None goes on behind what is no word character, or at the first position. *)
LEMMA WordStops ==
  ASSUME NEW i \in Int, WordGoesOn(i)
  PROVE  i > 1 /\ At(i - 1) \in WordCharacters
BY DEF WordGoesOn

-----------------------------------------------------------------------------
(* The position of a character that is part of no token before it *)
Boundary(i) ==
  /\ ~InString(i)
  /\ At(i) \in WordCharacters => ~WordGoesOn(i)
  /\ At(i) \in Digits => At(i - 1) \notin Digits \union {Minus}

(* A character of the token that began at i, other than its first *)
Inside(i, k) ==
  /\ ~Begins(k) /\ IsLegalAt(k)
  /\ IF At(i) = Quote THEN At(k) # Quote ELSE At(k) \in WordCharacters

(* So every token that begins does so on its boundary, ... *)
LEMMA BoundaryBegins ==
  ASSUME NEW i \in Int, Boundary(i)
  PROVE  /\ At(i) \in Spaces => ~Begins(i) /\ IsLegalAt(i)
         /\ At(i) \in WordCharacters => Begins(i)
         /\ At(i) \notin Spaces => (Begins(i) <=> IsLegalAt(i))
BY ClassAssumption DEF Boundary, Begins, IsLegalAt, IsSignAt, WordCharacters, Quote, Minus, Nul

(* ... and there is one behind a space, a mark or a quote. *)
LEMMA BoundaryBehind ==
  ASSUME NEW i \in Int, ~InString(i), At(i - 1) \notin WordCharacters \union {Minus}
  PROVE  Boundary(i)
BY WordStops DEF Boundary, WordCharacters

(* A line begins on one, whatever spaces come first. *)
LEMMA BoundaryFirst ==
  ASSUME input \in Seq(Characters), NEW i \in 1..(Len(input) + 1),
         \A j \in 1..(i - 1) : At(j) \in Spaces
  PROVE  Boundary(i) /\ \A j \in 1..(i - 1) : ~Begins(j) /\ IsLegalAt(j)
<1>1. Len(input) \in Nat /\ 0 \in Int /\ i \in Int
  BY LenProperties
<1>2. \A k \in 1..i : Boundary(k)
  <2> SUFFICES ASSUME NEW k \in 1..i
               PROVE  Boundary(k)
    OBVIOUS
  <2>1. k \in 1..(Len(input) + 1) /\ k - 1 \in Int /\ k \in Int
    BY <1>1
  <2>2. \A j \in 1..(k - 1) : At(j) \in Spaces /\ At(j) # Quote
    BY <1>1, ClassAssumption
  <2>3. ~InString(k)
    BY <2>1, <2>2, NoQuotes
  <2>4. At(k - 1) \in Spaces \union {Nul}
    <3>1. CASE k = 1
      BY <1>1, <2>1, <3>1, CharacterAt
    <3>2. CASE k # 1
      BY <2>1, <2>2, <3>2
    <3> QED BY <3>1, <3>2
  <2> QED BY <2>1, <2>3, <2>4, BoundaryBehind, ClassAssumption, NulIsNone
<1>3. Boundary(i)
  BY <1>1, <1>2
<1>4. \A j \in 1..(i - 1) : ~Begins(j) /\ IsLegalAt(j)
  <2> TAKE j \in 1..(i - 1)
  <2>1. Boundary(j) /\ At(j) \in Spaces /\ j \in Int
    BY <1>1, <1>2
  <2> QED BY <2>1, BoundaryBegins
<1> QED BY <1>3, <1>4

(* The text of a token that is no string reaches to where it breaks off. *)
LEMMA OtherText ==
  ASSUME input \in Seq(Characters), NEW i \in 1..Len(input), At(i) # Quote,
         NEW q \in (i + 1)..(Len(input) + 1), \A k \in (i + 1)..(q - 1) : Inside(i, k),
         q = Len(input) + 1 \/ At(q) \notin WordCharacters \/ Begins(q)
  PROVE  Text(i) = i..(q - 1)
<1>1. Len(input) \in Nat
  BY LenProperties
<1> DEFINE Goes(k) == ~Begins(k) /\ At(k) \in WordCharacters
           part == {j \in i..Len(input) : \A k \in (i + 1)..j : Goes(k)}
<1>2. Text(i) = part
  BY DEF Text
<1>3. \A k \in (i + 1)..(q - 1) : Goes(k)
  BY DEF Inside
<1>4. q \in 1..Len(input) => ~Goes(q)
  BY <1>1
<1> HIDE DEF Goes
<1>5. part = i..(q - 1)
  BY <1>1, <1>3, <1>4
<1> QED BY <1>2, <1>5

(* That of a string reaches to the next quote. *)
LEMMA StringText ==
  ASSUME input \in Seq(Characters), NEW i \in 1..Len(input), At(i) = Quote,
         NEW q \in (i + 1)..Len(input), \A k \in (i + 1)..(q - 1) : Inside(i, k), At(q) = Quote
  PROVE  Text(i) = (i + 1)..(q - 1)
<1>1. Len(input) \in Nat
  BY LenProperties
<1> DEFINE Goes(k) == At(k) # Quote
           part == {j \in i..Len(input) : \A k \in (i + 1)..j : Goes(k)}
<1>2. Text(i) = part \ {i}
  BY DEF Text
<1>3. \A k \in (i + 1)..(q - 1) : Goes(k)
  BY DEF Inside
<1>4. ~Goes(q)
  OBVIOUS
<1> HIDE DEF Goes
<1>5. part = i..(q - 1)
  BY <1>1, <1>3, <1>4
<1> HIDE DEF part
<1> QED BY <1>1, <1>2, <1>5

(* What is inside a token is of its text. *)
LEMMA InsideText ==
  ASSUME input \in Seq(Characters), NEW i \in 1..Len(input),
         NEW j \in i..Len(input), \A k \in (i + 1)..j : Inside(i, k),
         At(i) = Quote => j # i
  PROVE  j \in Text(i)
BY DEF Inside, Text

(* No text begins before its token. *)
LEMMA TextWithin ==
  ASSUME NEW i
  PROVE  Text(i) \subseteq i..Len(input)
BY DEF Text
-----------------------------------------------------------------------------
(* The tokens of a text *)

(* The beginnings below a position *)
Below(i) == {b \in Beginnings : b < i}

(* The characters from one position to another *)
Piece(first, last) == [k \in 1..(last - first + 1) |-> input[first + k - 1]]

(* The type of the token that begins at i, by its first character *)
IsKind(type, value, i) ==
  /\ type = "STRING" <=> At(i) = Quote
  /\ type = "NUMBER" <=> At(i) \in Digits \union {Minus}
  /\ At(i) \in Puncts => type = At(i)
  /\ IF At(i) \in Letters THEN type = keyword_lookup(value)
     ELSE type \notin {"IDENTIFIER"} \union {Keywords[k] : k \in DOMAIN Keywords}

(* A token is one of the text, as a whole. *)
IsToken(t) ==
  /\ t.from \in Beginnings /\ t.to \in t.from..Len(input)
  /\ IsKind(t.type, t.value, t.from)
  /\ IF At(t.from) = Quote
     THEN /\ t.to > t.from /\ Text(t.from) = (t.from + 1)..(t.to - 1)
          /\ t.value = Piece(t.from + 1, t.to - 1)
     ELSE Text(t.from) = t.from..t.to /\ t.value = Piece(t.from, t.to)

(* The first n of s are the tokens below q, in order, where all is legal.  *)
TokensTo(s, n, q) ==
  /\ \A k \in 1..n : IsToken(s[k]) /\ s[k].to < q
  /\ \A k \in 2..n : s[k - 1].to < s[k].from
  /\ {s[k].from : k \in 1..n} = Below(q)
  /\ Cardinality(Below(q)) = n
  /\ \A k \in 1..(q - 1) : IsLegalAt(k)

(* There are none below the first. *)
LEMMA TokensFirst ==
  ASSUME NEW q \in Nat, \A k \in 1..(q - 1) : ~Begins(k) /\ IsLegalAt(k), input \in Seq(Characters)
  PROVE  TokensTo(<<>>, 0, q)
<1>1. DOMAIN input = 1..Len(input) /\ Len(input) \in Nat
  BY LenProperties
<1>2. Below(q) = {}
  BY <1>1 DEF Below, Beginnings
<1>3. Cardinality(Below(q)) = 0
  BY <1>2, FS_EmptySet
<1>4. {<<>>[k].from : k \in 1..0} = {}
  OBVIOUS
<1> QED BY <1>2, <1>3, <1>4 DEF TokensTo

(* A character that begins none is passed. *)
LEMMA TokensPass ==
  ASSUME NEW s, NEW n, NEW q \in Int, NEW r \in Int, q <= r, TokensTo(s, n, q),
         \A k \in 1..n : s[k].to \in Int,
         \A k \in q..(r - 1) : ~Begins(k) /\ IsLegalAt(k), input \in Seq(Characters)
  PROVE  TokensTo(s, n, r)
<1>1. DOMAIN input = 1..Len(input) /\ Len(input) \in Nat
  BY LenProperties
<1>2. Below(r) = Below(q)
  <2>1. \A b \in Beginnings : b < r <=> b < q
    BY <1>1 DEF Beginnings
  <2> QED BY <2>1 DEF Below
<1>3. \A k \in 1..n : s[k].to < r
  <2> TAKE k \in 1..n
  <2>1. s[k].to < q /\ s[k].to \in Int
    BY DEF TokensTo
  <2> QED BY <2>1
<1>4. \A k \in 1..(r - 1) : IsLegalAt(k)
  <2> TAKE k \in 1..(r - 1)
  <2>1. k \in 1..(q - 1) \/ k \in q..(r - 1)
    OBVIOUS
  <2> QED BY <2>1 DEF TokensTo
<1> QED BY <1>2, <1>3, <1>4 DEF TokensTo

(* What is put behind them changes none. *)
LEMMA TokensStay ==
  ASSUME NEW s \in Seq(Finished), NEW t \in Finished, NEW q, TokensTo(s, Len(s), q)
  PROVE  TokensTo(Append(s, t), Len(s), q)
<1> DEFINE u == Append(s, t)
<1>1. Len(s) \in Nat /\ \A k \in 1..Len(s) : u[k] = s[k]
  BY AppendProperties, LenProperties
<1>2. {u[k].from : k \in 1..Len(s)} = {s[k].from : k \in 1..Len(s)}
  BY <1>1
<1>3. \A k \in 2..Len(s) : u[k] = s[k] /\ u[k - 1] = s[k - 1]
  <2> TAKE k \in 2..Len(s)
  <2>1. k \in 1..Len(s) /\ k - 1 \in 1..Len(s)
    BY <1>1
  <2> QED BY <1>1, <2>1
<1> HIDE DEF u
<1>4. \A k \in 1..Len(s) : IsToken(u[k]) /\ u[k].to < q
  BY <1>1 DEF TokensTo
<1>5. \A k \in 2..Len(s) : u[k - 1].to < u[k].from
  BY <1>3 DEF TokensTo
<1>6. TokensTo(u, Len(s), q)
  BY <1>2, <1>4, <1>5 DEF TokensTo
<1> QED BY <1>6 DEF u

(* A token that is put behind those before it is one of them. *)
LEMMA TokensGrow ==
  ASSUME input \in Seq(Characters), NEW s \in Seq(Finished), NEW t \in Finished, IsToken(t),
         TokensTo(s, Len(s), t.from), \A k \in (t.from + 1)..t.to : ~Begins(k) /\ IsLegalAt(k)
  PROVE  TokensTo(Append(s, t), Len(s) + 1, t.to + 1)
<1> DEFINE u == Append(s, t)
           n == Len(s)
           q == t.to + 1
<1>1. n \in Nat /\ (\A k \in 1..n : u[k] = s[k]) /\ u[n + 1] = t
  BY AppendProperties, LenProperties
<1>2. /\ Len(input) \in Nat /\ DOMAIN input = 1..Len(input)
      /\ t.from \in 1..Len(input) /\ t.to \in t.from..Len(input) /\ Begins(t.from)
  BY LenProperties DEF IsToken, Beginnings
<1>3. q \in Int /\ t.from \in Int /\ t.to \in Int /\ t.from < q /\ t.to = q - 1
  BY <1>2
<1>4. Below(q) = Below(t.from) \union {t.from} /\ t.from \notin Below(t.from)
  <2>0. \A b \in Beginnings : b \in Int /\ b \notin (t.from + 1)..t.to
    BY <1>2 DEF Beginnings
  <2>1. \A b \in Beginnings : b < q => b < t.from \/ b = t.from
    BY <1>3, <2>0
  <2>2. \A b \in Beginnings : b < t.from => b < q
    BY <1>3, <2>0
  <2>3. t.from \in Beginnings
    BY DEF IsToken
  <2> QED BY <1>3, <2>1, <2>2, <2>3 DEF Below
<1>5. Cardinality(Below(q)) = n + 1
  <2>1. IsFiniteSet(Below(t.from))
    <3>1. Below(t.from) \subseteq 1..Len(input)
      BY <1>2 DEF Below, Beginnings
    <3>2. IsFiniteSet(1..Len(input))
      BY <1>2, FS_Interval
    <3> QED BY <3>1, <3>2, FS_Subset
  <2>2. Cardinality(Below(t.from) \union {t.from}) = Cardinality(Below(t.from)) + 1
    BY <1>4, <2>1, FS_AddElement
  <2>3. Cardinality(Below(t.from)) = n
    BY DEF TokensTo
  <2> QED BY <1>4, <2>2, <2>3
<1>6. \A k \in 1..n : s[k].to < t.from /\ s[k].to \in Int
  <2> TAKE k \in 1..n
  <2>1. s[k] \in Finished
    BY <1>1, ElementOfSeq
  <2> QED BY <2>1 DEF TokensTo, Finished
<1>7. \A k \in 1..(n + 1) : IsToken(u[k]) /\ u[k].to < q
  <2> TAKE k \in 1..(n + 1)
  <2>1. CASE k \in 1..n
    <3>1. u[k] = s[k] /\ s[k].to < t.from /\ s[k].to \in Int
      BY <1>1, <1>6, <2>1
    <3>2. IsToken(s[k])
      BY <2>1 DEF TokensTo
    <3> QED BY <1>3, <3>1, <3>2
  <2>2. CASE k = n + 1
    <3>1. u[k] = t
      BY <1>1, <2>2
    <3> QED BY <1>3, <3>1
  <2> QED BY <1>1, <2>1, <2>2
<1>8. \A k \in 2..(n + 1) : u[k - 1].to < u[k].from
  <2> TAKE k \in 2..(n + 1)
  <2>1. k - 1 \in 1..n /\ u[k - 1] = s[k - 1]
    BY <1>1
  <2>2. CASE k = n + 1
    <3>1. u[k] = t
      BY <1>1, <2>2
    <3>2. s[k - 1].to < t.from
      BY <1>6, <2>1
    <3> QED BY <2>1, <3>1, <3>2
  <2>3. CASE k # n + 1
    <3>1. k \in 2..n
      BY <1>1, <2>3
    <3>2. u[k] = s[k] /\ s[k - 1].to < s[k].from
      BY <1>1, <3>1 DEF TokensTo
    <3> QED BY <2>1, <3>2
  <2> QED BY <2>2, <2>3
<1>9. {u[k].from : k \in 1..(n + 1)} = Below(q)
  <2>1. {u[k].from : k \in 1..(n + 1)} = {u[k].from : k \in 1..n} \union {u[n + 1].from}
    <3> HIDE DEF u, n
    <3>1. \A k : k \in 1..(n + 1) <=> k \in 1..n \/ k = n + 1
      BY <1>1
    <3> QED BY <3>1
  <2>2. {u[k].from : k \in 1..n} = {s[k].from : k \in 1..n}
    BY <1>1
  <2>3. {s[k].from : k \in 1..n} = Below(t.from)
    BY DEF TokensTo
  <2>4. u[n + 1].from = t.from
    BY <1>1
  <2> HIDE DEF u, n, q
  <2> QED BY <1>4, <2>1, <2>2, <2>3, <2>4
<1>10. \A k \in 1..(q - 1) : IsLegalAt(k)
  <2> TAKE k \in 1..(q - 1)
  <2>1. IsLegalAt(t.from)
    BY <1>2, ClassAssumption DEF Begins, IsLegalAt, WordCharacters
  <2>2. k \in 1..(t.from - 1) \/ k = t.from \/ k \in (t.from + 1)..t.to
    BY <1>3
  <2> QED BY <2>1, <2>2 DEF TokensTo
<1> HIDE DEF u, n, q
<1>11. TokensTo(u, n + 1, q)
  BY <1>5, <1>7, <1>8, <1>9, <1>10 DEF TokensTo
<1> QED BY <1>11 DEF u, n, q
-----------------------------------------------------------------------------
(* A token that is being read *)

(* The position of the first character of its value *)
Start(t) == IF t.type = "STRING" THEN t.from + 1 ELSE t.from

(* It has been read up to q: all of it is inside, and is its value. *)
Reads(q, t) ==
  /\ t.from \in Beginnings /\ q \in Start(t)..(Len(input) + 1)
  /\ \A k \in (t.from + 1)..(q - 1) : Inside(t.from, k)
  /\ t.value = Piece(Start(t), q - 1)
  /\ \/ t.type = "STRING" /\ At(t.from) = Quote /\ InString(q)
     \/ /\ t.type = "NUMBER" /\ At(t.from) \in Digits \union {Minus}
        /\ ~InString(q) /\ ~WordGoesOn(q)
        /\ IF q = t.from THEN At(q) \in Digits ELSE At(q - 1) \in Digits \union {Minus}
     \/ /\ t.type = "WORD" /\ At(t.from) \in Letters
        /\ ~InString(q) /\ (q = t.from \/ WordGoesOn(q))

(* It goes on at q. *)
GoesOnAt(q, t) ==
  \/ t.type = "STRING" /\ At(q) \notin {Quote, Nul}
  \/ t.type = "NUMBER" /\ At(q) \in Digits
  \/ t.type = "WORD" /\ At(q) \in WordCharacters

(* A piece grows by the character behind it. *)
LEMMA PieceGrows ==
  ASSUME NEW first \in Int, NEW q \in Int, first <= q, q \in DOMAIN input
  PROVE  Piece(first, q) = Append(Piece(first, q - 1), At(q))
<1> DEFINE n == q - first
<1>1. n \in Nat /\ q - first + 1 = n + 1 /\ q - 1 - first + 1 = n /\ first + (n + 1) - 1 = q
  OBVIOUS
<1>2. Piece(first, q - 1) = [k \in 1..n |-> input[first + k - 1]]
  BY <1>1 DEF Piece
<1>3. Piece(first, q) = [k \in 1..(n + 1) |-> input[first + k - 1]]
  BY <1>1 DEF Piece
<1>4. At(q) = input[first + (n + 1) - 1]
  BY <1>1 DEF At
<1> DEFINE f(k) == input[first + k - 1]
<1>5. Append([k \in 1..n |-> f(k)], f(n + 1)) = [k \in 1..(n + 1) |-> f(k)]
  <2> HIDE DEF f, n
  <2> DEFINE s == [k \in 1..n |-> f(k)]
  <2>1. s \in Seq({f(k) : k \in 1..n}) /\ Len(s) = n
    BY <1>1
  <2>2. Append(s, f(n + 1)) = [k \in 1..(n + 1) |-> IF k = n + 1 THEN f(n + 1) ELSE s[k]]
    BY <1>1, <2>1
  <2>3. \A k \in 1..(n + 1) : (IF k = n + 1 THEN f(n + 1) ELSE s[k]) = f(k)
    BY <1>1
  <2> QED BY <2>2, <2>3
<1> QED BY <1>2, <1>3, <1>4, <1>5

(* An empty piece, and one of a single character *)
LEMMA PieceBegins ==
  ASSUME NEW first \in Int, first \in DOMAIN input
  PROVE  Piece(first, first - 1) = <<>> /\ Piece(first, first) = <<At(first)>>
<1>1. Piece(first, first - 1) = <<>>
  BY DEF Piece
<1>2. \A k \in 1..1 : input[first + k - 1] = At(first)
  BY DEF At
<1>3. Piece(first, first) = [k \in 1..1 |-> At(first)]
  BY <1>2 DEF Piece
<1> QED BY <1>1, <1>3

(* A character that goes on a token is inside it, and is read. *)
LEMMA ReadsMore ==
  ASSUME input \in Seq(Characters), NEW q \in Int, NEW t, NEW u, Reads(q, t), GoesOnAt(q, t),
         u.from = t.from, u.type = t.type, u.value = Append(t.value, At(q))
  PROVE  /\ q \in Start(t)..Len(input)
         /\ q > t.from => Inside(t.from, q)
         /\ Reads(q + 1, u)
<1>1. /\ Len(input) \in Nat /\ DOMAIN input = 1..Len(input) /\ At(q) # Nul
      /\ q \in 1..Len(input) /\ t.from \in 1..Len(input) /\ Begins(t.from)
      /\ t.type \in {"STRING", "NUMBER", "WORD"}
  BY CharacterAt, NulIsNone, LenProperties DEF GoesOnAt, Reads, Beginnings, WordCharacters
<1>2. q \in Start(t)..Len(input) /\ Start(t) \in Int /\ Start(u) = Start(t) /\ q >= t.from
  BY <1>1 DEF Reads, Start
<1>3. InString(q + 1) <=> (IF At(q) = Quote THEN ~InString(q) ELSE InString(q))
  BY <1>1, ParityStep
<1>4. WordGoesOn(q + 1) <=> At(q) \in WordCharacters /\ (At(q) \in Letters \/ WordGoesOn(q))
  <2>1. q \in Int /\ q >= 1
    BY <1>1
  <2> QED BY <2>1, WordStep
<1>5. q > t.from => Inside(t.from, q)
  <2>1. CASE t.type = "STRING"
    BY <2>1 DEF Reads, GoesOnAt, Inside, Begins, IsLegalAt
  <2>2. CASE t.type = "NUMBER"
    <3>1. /\ At(q) \in Digits /\ At(t.from) # Quote /\ ~InString(q)
          /\ q > t.from => At(q - 1) \in Digits \union {Minus}
      BY <2>2, ClassAssumption DEF Reads, GoesOnAt, WordCharacters, Quote, Minus
    <3>2. q > t.from => ~Begins(q)
      BY <3>1, ClassAssumption DEF Begins, IsSignAt, WordCharacters
    <3> QED BY <3>1, <3>2 DEF Inside, IsLegalAt, WordCharacters
  <2>3. CASE t.type = "WORD"
    <3>1. /\ At(q) \in WordCharacters /\ At(t.from) # Quote /\ ~InString(q)
          /\ q > t.from => WordGoesOn(q)
      BY <2>3, ClassAssumption DEF Reads, GoesOnAt, WordCharacters
    <3>2. q > t.from => ~Begins(q)
      BY <3>1, ClassAssumption DEF Begins, IsSignAt, WordCharacters
    <3> QED BY <3>1, <3>2 DEF Inside, IsLegalAt, WordCharacters
  <2> QED BY <1>1, <2>1, <2>2, <2>3
<1>6. \A k \in (t.from + 1)..(q + 1 - 1) : Inside(t.from, k)
  <2> TAKE k \in (t.from + 1)..(q + 1 - 1)
  <2>1. k \in (t.from + 1)..(q - 1) \/ (k = q /\ q > t.from)
    BY <1>1
  <2> QED BY <1>5, <2>1 DEF Reads
<1>7. u.value = Piece(Start(u), q + 1 - 1)
  <2>1. t.value = Piece(Start(t), q - 1)
    BY DEF Reads
  <2>2. Append(Piece(Start(t), q - 1), At(q)) = Piece(Start(t), q)
    <3>1. Start(t) \in Int /\ q \in Int /\ Start(t) <= q /\ q \in DOMAIN input
      BY <1>1, <1>2
    <3> QED BY <3>1, PieceGrows
  <2>3. q + 1 - 1 = q
    OBVIOUS
  <2> QED BY <1>2, <2>1, <2>2, <2>3
<1>8. \/ u.type = "STRING" /\ At(u.from) = Quote /\ InString(q + 1)
      \/ /\ u.type = "NUMBER" /\ At(u.from) \in Digits \union {Minus}
         /\ ~InString(q + 1) /\ ~WordGoesOn(q + 1)
         /\ q + 1 # u.from /\ At(q + 1 - 1) \in Digits \union {Minus}
      \/ /\ u.type = "WORD" /\ At(u.from) \in Letters
         /\ ~InString(q + 1) /\ WordGoesOn(q + 1)
  <2>0. q + 1 - 1 = q /\ q + 1 # u.from
    BY <1>1, <1>2
  <2>1. CASE t.type = "STRING"
    BY <1>3, <2>1 DEF Reads, GoesOnAt
  <2>2. CASE t.type = "NUMBER"
    <3>1. At(q) \in Digits /\ At(q) # Quote /\ At(q) \notin Letters
      BY <2>2, ClassAssumption DEF GoesOnAt, WordCharacters
    <3> QED BY <1>3, <1>4, <2>0, <2>2, <3>1 DEF Reads
  <2>3. CASE t.type = "WORD"
    <3>1. At(q) \in WordCharacters /\ At(q) # Quote
      BY <2>3, ClassAssumption DEF GoesOnAt, WordCharacters
    <3>2. At(q) \in Letters \/ WordGoesOn(q)
      BY <2>3 DEF Reads
    <3> QED BY <1>3, <1>4, <2>0, <2>3, <3>1, <3>2 DEF Reads
  <2> QED BY <1>1, <2>1, <2>2, <2>3
<1>9. q + 1 \in Start(u)..(Len(input) + 1) /\ u.from \in Beginnings
  BY <1>1, <1>2 DEF Reads
<1>10. Reads(q + 1, u)
  BY <1>6, <1>7, <1>8, <1>9 DEF Reads
<1> QED BY <1>2, <1>5, <1>10
(* The characters inside a token are legal, and none of them begins one. *)
LEMMA InsideLegal ==
  ASSUME NEW i, NEW k, Inside(i, k)
  PROVE  ~Begins(k) /\ IsLegalAt(k)
BY DEF Inside

(* A string is a token once its quote is met, ... *)
LEMMA StringEnds ==
  ASSUME input \in Seq(Characters), NEW q \in Int, NEW t, Reads(q, t),
         t.type = "STRING", At(q) = Quote, NEW u,
         u.type = "STRING", u.value = t.value, u.from = t.from, u.to = q
  PROVE  /\ IsToken(u) /\ Boundary(q + 1) /\ q \in Int
         /\ \A k \in (t.from + 1)..q : ~Begins(k) /\ IsLegalAt(k)
<1>1. /\ Len(input) \in Nat /\ DOMAIN input = 1..Len(input) /\ At(q) # Nul
      /\ q \in 1..Len(input) /\ t.from \in 1..Len(input) /\ q \in (t.from + 1)..Len(input)
  BY CharacterAt, NulIsNone, LenProperties DEF Reads, Beginnings, Start
<1>2. At(t.from) = Quote /\ InString(q) /\ t.value = Piece(t.from + 1, q - 1)
  BY DEF Reads, Start
<1>3. \A k \in (t.from + 1)..(q - 1) : Inside(t.from, k)
  BY DEF Reads
<1>4. Text(t.from) = (t.from + 1)..(q - 1)
  BY <1>1, <1>2, <1>3, StringText
<1>5. IsKind("STRING", t.value, t.from)
  BY <1>2, ClassAssumption, KeywordAssumption DEF IsKind, WordCharacters, Quote, Minus
<1>6. IsToken(u)
  BY <1>1, <1>2, <1>4, <1>5 DEF IsToken, Reads
<1>7. Boundary(q + 1)
  <2>1. ~InString(q + 1)
    BY <1>1, <1>2, ParityStep
  <2>2. q + 1 - 1 = q /\ q + 1 \in Int /\ Quote \notin WordCharacters \union {Minus}
    BY ClassAssumption DEF Quote, Minus
  <2> QED BY <2>1, <2>2, BoundaryBehind
<1>8. \A k \in (t.from + 1)..q : ~Begins(k) /\ IsLegalAt(k)
  <2> TAKE k \in (t.from + 1)..q
  <2>1. k \in (t.from + 1)..(q - 1) \/ k = q
    BY <1>1
  <2>2. ~Begins(q) /\ IsLegalAt(q)
    BY <1>2 DEF Begins, IsLegalAt
  <2> QED BY <1>3, <2>1, <2>2, InsideLegal
<1> QED BY <1>6, <1>7, <1>8

(* ... and a number or a word is where it goes on no more. *)
LEMMA OtherEnds ==
  ASSUME input \in Seq(Characters), NEW q \in Int, NEW t, Reads(q, t),
         t.type # "STRING", ~GoesOnAt(q, t), NEW u,
         t.type = "NUMBER" => u.type = "NUMBER",
         t.type = "WORD" => u.type = keyword_lookup(t.value),
         u.value = t.value, u.from = t.from, u.to = q - 1
  PROVE  /\ IsToken(u) /\ Boundary(q)
         /\ \A k \in (t.from + 1)..(q - 1) : ~Begins(k) /\ IsLegalAt(k)
<1>1. /\ Len(input) \in Nat /\ DOMAIN input = 1..Len(input) /\ t.type \in {"NUMBER", "WORD"}
      /\ t.from \in 1..Len(input) /\ Start(t) = t.from
      /\ t.value = Piece(t.from, q - 1) /\ q \in t.from..(Len(input) + 1)
  BY LenProperties DEF Reads, Beginnings, Start
<1>2. q # t.from
  BY DEF Reads, GoesOnAt, WordCharacters
<1>3. q \in (t.from + 1)..(Len(input) + 1)
  BY <1>1, <1>2
<1>4. At(t.from) # Quote
  BY <1>1, ClassAssumption DEF Reads, WordCharacters, Quote, Minus
<1>5. Boundary(q)
  <2>1. CASE t.type = "NUMBER"
    BY <2>1 DEF Reads, GoesOnAt, Boundary
  <2>2. CASE t.type = "WORD"
    BY <2>2 DEF Reads, GoesOnAt, Boundary, WordCharacters
  <2> QED BY <1>1, <2>1, <2>2
<1>6. At(q) \notin WordCharacters \/ Begins(q)
  BY <1>5, BoundaryBegins
<1>7. \A k \in (t.from + 1)..(q - 1) : Inside(t.from, k)
  BY DEF Reads
<1>8. Text(t.from) = t.from..(q - 1)
  BY <1>1, <1>3, <1>4, <1>6, <1>7, OtherText
<1>9. IsKind(u.type, t.value, t.from)
  <2>1. CASE t.type = "NUMBER"
    <3>1. At(t.from) \in Digits \union {Minus} /\ At(t.from) \notin Letters \union Puncts
      BY <2>1, ClassAssumption DEF Reads, WordCharacters
    <3>2. u.type = "NUMBER" /\ "NUMBER" \notin {"IDENTIFIER"} \union {Keywords[k] : k \in DOMAIN Keywords}
      BY <2>1, KeywordAssumption
    <3> QED BY <1>4, <3>1, <3>2 DEF IsKind
  <2>2. CASE t.type = "WORD"
    <3>1. At(t.from) \in Letters /\ At(t.from) \notin Digits \union {Minus} \union Puncts
      BY <2>2, ClassAssumption DEF Reads, WordCharacters
    <3>2. u.type = keyword_lookup(t.value)
      BY <2>2
    <3>3. keyword_lookup(t.value) \notin {"STRING", "NUMBER"}
      BY KeywordAssumption DEF keyword_lookup
    <3> QED BY <1>4, <3>1, <3>2, <3>3 DEF IsKind
  <2> QED BY <1>1, <2>1, <2>2
<1>10. IsToken(u)
  BY <1>1, <1>3, <1>4, <1>8, <1>9 DEF IsToken, Reads
<1> QED BY <1>5, <1>7, <1>10, InsideLegal

(* A mark is a token of its own. *)
LEMMA PunctEnds ==
  ASSUME input \in Seq(Characters), NEW q \in Int, Boundary(q), At(q) \in Puncts, NEW u,
         u.type = At(q), u.value = <<At(q)>>, u.from = q, u.to = q
  PROVE  IsToken(u) /\ Boundary(q + 1)
<1>1. /\ Len(input) \in Nat /\ DOMAIN input = 1..Len(input) /\ q \in 1..Len(input)
      /\ At(q) # Quote /\ At(q) \notin WordCharacters \union {Minus}
  BY CharacterAt, NulIsNone, ClassAssumption, LenProperties
<1>2. q \in Beginnings
  BY <1>1 DEF Beginnings, Begins, Boundary
<1>3. Boundary(q + 1)
  <2>1. ~InString(q + 1)
    BY <1>1, ParityStep DEF Boundary
  <2>2. q + 1 - 1 = q /\ q + 1 \in Int
    OBVIOUS
  <2> QED BY <1>1, <2>1, <2>2, BoundaryBehind
<1>4. q + 1 = Len(input) + 1 \/ At(q + 1) \notin WordCharacters \/ Begins(q + 1)
  BY <1>3, BoundaryBegins
<1>5. Text(q) = q..q
  <2>1. q + 1 \in (q + 1)..(Len(input) + 1) /\ q + 1 - 1 = q
    BY <1>1
  <2>2. \A k \in (q + 1)..(q + 1 - 1) : Inside(q, k)
    OBVIOUS
  <2>3. Text(q) = q..(q + 1 - 1)
    BY <1>1, <1>4, <2>1, <2>2, OtherText
  <2> QED BY <2>1, <2>3
<1>6. Piece(q, q) = <<At(q)>>
  BY <1>1, PieceBegins
<1>7. IsKind(At(q), <<At(q)>>, q)
  BY <1>1, ClassAssumption, KeywordAssumption DEF IsKind, WordCharacters
<1>8. q \in q..Len(input)
  BY <1>1
<1> QED BY <1>1, <1>2, <1>3, <1>5, <1>6, <1>7, <1>8 DEF IsToken

(* Nothing has been read of a token that begins, or the minus of a number. *)
LEMMA ReadsBegin ==
  ASSUME input \in Seq(Characters), NEW q \in Int, NEW r \in Int, Boundary(q), NEW t, t.from = q,
         \/ t.type = "STRING" /\ At(q) = Quote /\ t.value = <<>> /\ r = q + 1
         \/ t.type = "NUMBER" /\ At(q) \in Digits /\ t.value = <<>> /\ r = q
         \/ t.type = "NUMBER" /\ IsSignAt(q) /\ t.value = <<Minus>> /\ r = q + 1
         \/ t.type = "WORD" /\ At(q) \in Letters /\ t.value = <<>> /\ r = q
  PROVE  Reads(r, t)
<1>1. /\ Len(input) \in Nat /\ DOMAIN input = 1..Len(input) /\ q \in 1..Len(input) /\ q >= 1
      /\ ~InString(q)
  BY CharacterAt, NulIsNone, LenProperties DEF Boundary, IsSignAt, WordCharacters
<1>2. q \in Beginnings
  BY <1>1 DEF Beginnings, Begins, Boundary, WordCharacters
<1>3. /\ Piece(q, q - 1) = <<>> /\ Piece(q, q) = <<At(q)>>
      /\ Piece(q + 1, q) = <<>>
  <2>1. q + 1 \in Int /\ q - (q + 1) + 1 = 0
    OBVIOUS
  <2>2. Piece(q + 1, q) = <<>>
    BY <2>1 DEF Piece
  <2> QED BY <1>1, <2>2, PieceBegins
<1>4. InString(q + 1) <=> (IF At(q) = Quote THEN ~InString(q) ELSE InString(q))
  BY <1>1, ParityStep
<1>5. WordGoesOn(q + 1) => At(q) \in WordCharacters
  BY <1>1, WordStep
<1>6. q + 1 - 1 = q /\ q + 1 # q
  OBVIOUS
<1>7. \A k \in (q + 1)..(r - 1) : Inside(q, k)
  OBVIOUS
<1>8. CASE t.type = "STRING" /\ At(q) = Quote /\ t.value = <<>> /\ r = q + 1
  <2>1. Start(t) = q + 1 /\ q + 1 \in (q + 1)..(Len(input) + 1)
    BY <1>1, <1>8 DEF Start
  <2> QED BY <1>1, <1>2, <1>3, <1>4, <1>6, <1>7, <1>8, <2>1 DEF Reads
<1>9. CASE t.type = "NUMBER" /\ At(q) \in Digits /\ t.value = <<>> /\ r = q
  <2>1. Start(t) = q /\ q \in q..(Len(input) + 1) /\ ~WordGoesOn(q)
    BY <1>1, <1>9 DEF Start, Boundary, WordCharacters
  <2> QED BY <1>1, <1>2, <1>3, <1>7, <1>9, <2>1 DEF Reads
<1>10. CASE t.type = "NUMBER" /\ IsSignAt(q) /\ t.value = <<Minus>> /\ r = q + 1
  <2>1. Start(t) = q /\ q + 1 \in q..(Len(input) + 1)
    BY <1>1, <1>10 DEF Start
  <2>2. At(q) = Minus /\ Minus # Quote /\ Minus \notin WordCharacters
    BY <1>10, ClassAssumption DEF IsSignAt, Minus, Quote
  <2> QED BY <1>1, <1>2, <1>3, <1>4, <1>5, <1>6, <1>7, <1>10, <2>1, <2>2 DEF Reads
<1>11. CASE t.type = "WORD" /\ At(q) \in Letters /\ t.value = <<>> /\ r = q
  <2>1. Start(t) = q /\ q \in q..(Len(input) + 1)
    BY <1>1, <1>11 DEF Start
  <2> QED BY <1>1, <1>2, <1>3, <1>7, <1>11, <2>1 DEF Reads
<1> QED BY <1>8, <1>9, <1>10, <1>11
-----------------------------------------------------------------------------
(* What is known of the text when q is looked at, with the token t being   *)
(* read and the tokens s stored: those are the text's below q, and each    *)
(* status has its reason.                                                  *)
TextAt(q, t, s, r) ==
  /\ t.type \in {"none", "STRING", "NUMBER", "WORD"}
  /\ t.type = "none" =>
       Boundary(q) /\ TokensTo(s, IF r = "TOKENIZE_OK" THEN Len(s) - 1 ELSE Len(s), q)
  /\ t.type # "none" => Reads(q, t) /\ TokensTo(s, Len(s), t.from)
  /\ r = "TOKENIZE_OK" => t.type = "none" /\ q = Len(input) + 1
  /\ r = "TOKENIZE_TOO_MANY_TOKENS" =>
       t.type = "none" /\ Len(s) >= Capacity - 1 /\ At(q) \notin Spaces \union {Nul}
  /\ r = "TOKENIZE_INVALID_CHARACTER" => t.type = "none" /\ ~IsLegalAt(q) /\ At(q) # Nul
  /\ r = "TOKENIZE_TOKEN_TOO_LONG" =>
       t.type # "none" /\ GoesOnAt(q, t) /\ Len(t.value) >= TokenValueMax
  /\ r = "TOKENIZE_UNTERMINATED_STRING" => t.type = "STRING" /\ q = Len(input) + 1

(* The inductive invariant about the text *)
TextInv == TextAt(p, token, storage, status)

(* It is so between two tokens when those before are complete, ... *)
LEMMA BetweenText ==
  ASSUME NEW q, NEW t, NEW s, t.type = "none", Boundary(q), TokensTo(s, Len(s), q)
  PROVE  TextAt(q, t, s, "none")
BY DEF TextAt

(* ... and within one when it has been read so far. *)
LEMMA ReadingText ==
  ASSUME NEW q, NEW t, NEW s, t.type \in {"STRING", "NUMBER", "WORD"}, Reads(q, t),
         TokensTo(s, Len(s), t.from)
  PROVE  TextAt(q, t, s, "none")
BY DEF TextAt

(* A token that is stored *)
LEMMA EmitText ==
  ASSUME TokenizerInv, TokenizerInv', status = "none",
         NEW type, NEW value, NEW from, NEW to \in Int, NEW u,
         u = [type |-> type, value |-> value, from |-> from, to |-> to],
         Emit(type, value, from, to), IsToken(u), Boundary(to + 1), TokensTo(storage, Len(storage), from),
         \A k \in (from + 1)..to : ~Begins(k) /\ IsLegalAt(k)
  PROVE  TextAt(p', token', storage', status')
<1>1. storage' = Append(storage, u) /\ p' = to + 1 /\ token' = NoToken /\ status' = "none"
  BY DEF Emit
<1>2. u.from = from /\ u.to = to
  OBVIOUS
<1>3. /\ storage \in Seq(Finished) /\ storage' \in Seq(Finished) /\ Len(storage) \in Nat
      /\ input \in Seq(Characters)
  BY LenProperties DEF TokenizerInv
<1>4. u \in Finished /\ Len(storage') = Len(storage) + 1
  <2>1. Len(Append(storage, u)) = Len(storage) + 1 /\ Append(storage, u)[Len(storage) + 1] = u
    BY <1>3
  <2>2. storage'[Len(storage')] = u /\ Len(storage') \in 1..Len(storage')
    BY <1>1, <1>3, <2>1
  <2> QED BY <1>1, <1>3, <2>1, <2>2, ElementOfSeq
<1>5. TokensTo(Append(storage, u), Len(storage) + 1, u.to + 1)
  BY <1>2, <1>3, <1>4, TokensGrow
<1>6. NoToken.type = "none"
  BY DEF NoToken
<1> QED BY <1>1, <1>2, <1>4, <1>5, <1>6, BetweenText

(* A step between tokens: a space, a mark, a beginning, or a refusal *)
LEMMA BetweenKeeps ==
  ASSUME TokenizerInv, TokenizerInv', TextInv,
         SkipSpace \/ ReadPunct \/ BeginString \/ BeginNumber \/ BeginWord \/ InvalidCharacter
           \/ TooManyTokens \/ Finish
  PROVE  TextAt(p', token', storage', status')
<1>1. /\ status = "none" /\ token = NoToken /\ token.type = "none" /\ input \in Seq(Characters)
      /\ p \in Int /\ storage \in Seq(Finished) /\ Len(storage) \in Nat /\ Len(input) \in Nat
  BY LenProperties DEF SkipSpace, ReadPunct, BeginString, BeginNumber, BeginWord, InvalidCharacter,
         TooManyTokens, Finish, AtToken, Between, NoToken, TokenizerInv
<1>2. Boundary(p) /\ TokensTo(storage, Len(storage), p)
  BY <1>1 DEF TextInv, TextAt
<1>3. At(p) = Here /\ (IsSign <=> IsSignAt(p))
  BY DEF Here, IsSign, IsSignAt
<1>4. CASE SkipSpace
  <2>1. /\ p' = p + 1 /\ UNCHANGED <<token, storage, status>> /\ At(p) \in Spaces
        /\ At(p) # Nul /\ At(p) # Quote /\ At(p) \notin WordCharacters \union {Minus}
    BY <1>3, <1>4, ClassAssumption DEF SkipSpace
  <2>2. ~Begins(p) /\ IsLegalAt(p)
    BY <1>1, <1>2, <2>1, BoundaryBegins
  <2>3. \A k \in p..(p + 1 - 1) : ~Begins(k) /\ IsLegalAt(k)
    BY <1>1, <2>2
  <2>4. \A k \in 1..Len(storage) : storage[k].to \in Int
    <3> TAKE k \in 1..Len(storage)
    <3>1. storage[k] \in Finished
      BY <1>1, ElementOfSeq
    <3> QED BY <3>1 DEF Finished
  <2>5. TokensTo(storage, Len(storage), p + 1)
    <3>1. p + 1 \in Int /\ p <= p + 1
      BY <1>1
    <3> QED BY <1>1, <1>2, <2>3, <2>4, <3>1, TokensPass
  <2>6. Boundary(p + 1)
    <3>1. p \in 1..Len(input) /\ p + 1 \in Int /\ p + 1 - 1 = p
      BY <1>1, <2>1, CharacterAt
    <3>2. ~InString(p + 1)
      BY <1>1, <1>2, <2>1, <3>1, ParityStep DEF Boundary
    <3> QED BY <2>1, <3>1, <3>2, BoundaryBehind
  <2> QED BY <1>1, <2>1, <2>5, <2>6, BetweenText
<1>5. CASE ReadPunct
  <2> DEFINE u == [type |-> Here, value |-> <<Here>>, from |-> p, to |-> p]
  <2>1. Emit(Here, <<Here>>, p, p) /\ At(p) \in Puncts
    BY <1>3, <1>5 DEF ReadPunct
  <2>2. IsToken(u) /\ Boundary(p + 1)
    <3>1. u.type = At(p) /\ u.value = <<At(p)>> /\ u.from = p /\ u.to = p
      BY <1>3
    <3> HIDE DEF u
    <3> QED BY <1>1, <1>2, <2>1, <3>1, PunctEnds
  <2>3. \A k \in (p + 1)..p : ~Begins(k) /\ IsLegalAt(k)
    BY <1>1
  <2>4. u = [type |-> Here, value |-> <<Here>>, from |-> p, to |-> p]
    OBVIOUS
  <2> HIDE DEF u
  <2> QED BY <1>1, <1>2, <2>1, <2>2, <2>3, <2>4, EmitText
<1>6. CASE BeginString \/ BeginNumber \/ BeginWord
  <2>1. UNCHANGED <<storage, status>> /\ token'.from = p /\ p' \in Int
    BY <1>1, <1>6 DEF BeginString, BeginNumber, BeginWord, BeginToken
  <2>2. \/ token'.type = "STRING" /\ At(p) = Quote /\ token'.value = <<>> /\ p' = p + 1
        \/ token'.type = "NUMBER" /\ At(p) \in Digits /\ token'.value = <<>> /\ p' = p
        \/ token'.type = "NUMBER" /\ IsSignAt(p) /\ token'.value = <<Minus>> /\ p' = p + 1
        \/ token'.type = "WORD" /\ At(p) \in Letters /\ token'.value = <<>> /\ p' = p
    BY <1>3, <1>6 DEF BeginString, BeginNumber, BeginWord, BeginToken
  <2>3. Reads(p', token')
    BY <1>1, <1>2, <2>1, <2>2, ReadsBegin
  <2> QED BY <1>1, <1>2, <2>1, <2>2, <2>3, ReadingText
<1>7. CASE InvalidCharacter
  <2>1. UNCHANGED <<p, token, storage>> /\ status' = "TOKENIZE_INVALID_CHARACTER"
    BY <1>7 DEF InvalidCharacter, Return
  <2>2. ~IsLegalAt(p) /\ At(p) # Nul
    BY <1>2, <1>3, <1>7 DEF InvalidCharacter, AtToken, IsLegalAt, Boundary
  <2> QED BY <1>1, <1>2, <2>1, <2>2 DEF TextAt
<1>8. CASE TooManyTokens
  <2>1. UNCHANGED <<p, token, storage>> /\ status' = "TOKENIZE_TOO_MANY_TOKENS"
    BY <1>8 DEF TooManyTokens, Return
  <2>2. Len(storage) >= Capacity - 1 /\ At(p) \notin Spaces \union {Nul}
    BY <1>1, <1>3, <1>8, LimitAssumption DEF TooManyTokens, AtToken, HasRoom
  <2> QED BY <1>1, <1>2, <2>1, <2>2 DEF TextAt
<1>9. CASE Finish
  <2> DEFINE t == [type |-> "EOF", value |-> <<>>, from |-> p, to |-> p - 1]
  <2>1. UNCHANGED <<p, token>> /\ status' = "TOKENIZE_OK" /\ storage' = Append(storage, t)
    BY <1>9 DEF Finish
  <2>2. t \in Finished
    BY <1>1 DEF Finished, TokenTypes, TokenizerInv
  <2> HIDE DEF t
  <2>3. TokensTo(Append(storage, t), Len(storage), p) /\ Len(Append(storage, t)) = Len(storage) + 1
    BY <1>1, <1>2, <2>2, TokensStay, AppendProperties
  <2>4. p = Len(input) + 1
    BY <1>1, <1>3, <1>9, CharacterAt DEF Finish, TokenizerInv
  <2>5. Len(storage') - 1 = Len(storage)
    BY <1>1, <2>1, <2>3
  <2> QED BY <1>1, <1>2, <2>1, <2>3, <2>4, <2>5 DEF TextAt
<1> QED BY <1>4, <1>5, <1>6, <1>7, <1>8, <1>9
(* A step while a token is read: another character, its end, or a refusal *)
LEMMA ReadingKeeps ==
  ASSUME TokenizerInv, TokenizerInv', TextInv,
         ReadCharacter \/ TokenTooLong \/ EndString \/ UnterminatedString \/ EndNumber \/ EndWord
  PROVE  TextAt(p', token', storage', status')
<1>1. /\ status = "none" /\ token.type \in {"STRING", "NUMBER", "WORD"} /\ input \in Seq(Characters)
      /\ p \in Int /\ Len(storage) \in Nat /\ Len(input) \in Nat /\ At(p) = Here
      /\ token \in Unfinished /\ p \in 1..(Len(input) + 1)
  BY LenProperties DEF ReadCharacter, TokenTooLong, EndString, UnterminatedString, EndNumber, EndWord,
         GoesOn, Reading, TokenizerInv, Here
<1>2. Reads(p, token) /\ TokensTo(storage, Len(storage), token.from)
  BY <1>1 DEF TextInv, TextAt
<1>3. GoesOn <=> GoesOnAt(p, token)
  BY <1>1 DEF GoesOn, GoesOnAt, Reading
<1>4. CASE ReadCharacter
  <2>1. /\ p' = p + 1 /\ UNCHANGED <<storage, status>> /\ GoesOnAt(p, token)
        /\ token'.type = token.type /\ token'.from = token.from
        /\ token'.value = Append(token.value, At(p))
    BY <1>1, <1>3, <1>4 DEF ReadCharacter, Unfinished
  <2>2. Reads(p + 1, token')
    BY <1>1, <1>2, <2>1, ReadsMore
  <2> QED BY <1>1, <1>2, <2>1, <2>2, ReadingText
<1>5. CASE TokenTooLong
  <2>1. UNCHANGED <<p, token, storage>> /\ status' = "TOKENIZE_TOKEN_TOO_LONG"
    BY <1>5 DEF TokenTooLong, Return
  <2>2. GoesOnAt(p, token) /\ Len(token.value) >= TokenValueMax
    <3>1. Len(token.value) \in Nat
      BY <1>1, LenProperties DEF Unfinished
    <3> QED BY <1>3, <1>5, <3>1, LimitAssumption DEF TokenTooLong, Fits
  <2> QED BY <1>1, <1>2, <2>1, <2>2 DEF TextAt
<1>6. CASE UnterminatedString
  <2>1. /\ UNCHANGED <<p, token, storage>> /\ status' = "TOKENIZE_UNTERMINATED_STRING"
        /\ token.type = "STRING" /\ At(p) = Nul
    BY <1>1, <1>6 DEF UnterminatedString, Return, Reading
  <2>2. p = Len(input) + 1
    BY <1>1, <2>1, CharacterAt
  <2> QED BY <1>1, <1>2, <2>1, <2>2 DEF TextAt
<1>7. CASE EndString
  <2> DEFINE u == [type |-> "STRING", value |-> token.value, from |-> token.from, to |-> p]
  <2>1. Emit("STRING", token.value, token.from, p) /\ At(p) = Quote /\ token.type = "STRING"
    BY <1>1, <1>7 DEF EndString, Reading
  <2>2. u.type = "STRING" /\ u.value = token.value /\ u.from = token.from /\ u.to = p
    OBVIOUS
  <2>3. u = [type |-> "STRING", value |-> token.value, from |-> token.from, to |-> p]
    OBVIOUS
  <2> HIDE DEF u
  <2>4. /\ IsToken(u) /\ Boundary(p + 1)
        /\ \A k \in (token.from + 1)..p : ~Begins(k) /\ IsLegalAt(k)
    BY <1>1, <1>2, <2>1, <2>2, StringEnds
  <2> QED BY <1>1, <1>2, <2>1, <2>3, <2>4, EmitText
<1>8. ASSUME NEW type, Emit(type, token.value, token.from, p - 1), ~GoesOn, token.type # "STRING",
             token.type = "NUMBER" => type = "NUMBER",
             token.type = "WORD" => type = keyword_lookup(token.value)
      PROVE  TextAt(p', token', storage', status')
  <2> DEFINE u == [type |-> type, value |-> token.value, from |-> token.from, to |-> p - 1]
  <2>1. u.type = type /\ u.value = token.value /\ u.from = token.from /\ u.to = p - 1
    OBVIOUS
  <2>2. u = [type |-> type, value |-> token.value, from |-> token.from, to |-> p - 1]
    OBVIOUS
  <2> HIDE DEF u
  <2>3. /\ IsToken(u) /\ Boundary(p)
        /\ \A k \in (token.from + 1)..(p - 1) : ~Begins(k) /\ IsLegalAt(k)
    BY <1>1, <1>2, <1>3, <1>8, <2>1, OtherEnds
  <2>4. p - 1 + 1 = p /\ p - 1 \in Int
    BY <1>1
  <2> QED BY <1>1, <1>2, <1>8, <2>2, <2>3, <2>4, EmitText
<1>9. CASE EndNumber
  <2>1. /\ Emit("NUMBER", token.value, token.from, p - 1) /\ ~GoesOn /\ token.type = "NUMBER"
    BY <1>9 DEF EndNumber, Reading
  <2> QED BY <1>8, <2>1
<1>10. CASE EndWord
  <2>1. /\ Emit(keyword_lookup(token.value), token.value, token.from, p - 1) /\ ~GoesOn
        /\ token.type = "WORD"
    BY <1>10 DEF EndWord, Reading
  <2> QED BY <1>8, <2>1
<1> QED BY <1>4, <1>5, <1>6, <1>7, <1>9, <1>10

-----------------------------------------------------------------------------
(* What is said of a text is true as long as the text is the same. *)
LEMMA SameText ==
  ASSUME input' = input
  PROVE  /\ \A i : At(i)' = At(i) /\ (InString(i)' <=> InString(i))
         /\ \A i : (WordGoesOn(i)' <=> WordGoesOn(i)) /\ (Begins(i)' <=> Begins(i))
         /\ \A i : (IsLegalAt(i)' <=> IsLegalAt(i)) /\ Text(i)' = Text(i)
         /\ Beginnings' = Beginnings
<1>1. \A i : At(i)' = At(i)
  BY DEF At
<1>2. \A i : InString(i)' <=> InString(i)
  BY DEF InString
<1>3. \A i : WordGoesOn(i)' <=> WordGoesOn(i)
  BY <1>1 DEF WordGoesOn
<1>4. \A i : IsSignAt(i)' <=> IsSignAt(i)
  BY <1>1 DEF IsSignAt
<1>5. \A i : Begins(i)' <=> Begins(i)
  BY <1>1, <1>2, <1>3, <1>4 DEF Begins
<1>6. \A i : IsLegalAt(i)' <=> IsLegalAt(i)
  BY <1>1, <1>2, <1>4 DEF IsLegalAt
<1>7. Beginnings' = Beginnings
  BY <1>5 DEF Beginnings
<1>8. \A i : Text(i)' = Text(i)
  <2> TAKE i
  <2> DEFINE goes(k) == IF At(i) = Quote THEN At(k) # Quote ELSE ~Begins(k) /\ At(k) \in WordCharacters
             part == {j \in i..Len(input) : \A k \in (i + 1)..j : goes(k)}
  <2>1. \A k : goes(k)' <=> goes(k)
    BY <1>1, <1>5
  <2>2. part' = part
    BY <2>1
  <2>3. Text(i)' = (IF At(i) = Quote THEN part \ {i} ELSE part)'
    BY DEF Text
  <2>4. Text(i) = (IF At(i) = Quote THEN part \ {i} ELSE part)
    BY DEF Text
  <2> HIDE DEF part
  <2> QED BY <1>1, <2>2, <2>3, <2>4
<1> QED BY <1>1, <1>2, <1>3, <1>5, <1>6, <1>7, <1>8

(* So is what is known of its tokens. *)
LEMMA SameTokens ==
  ASSUME input' = input
  PROVE  \A q, t, s, r : TextAt(q, t, s, r)' <=> TextAt(q, t, s, r)
<1>1. /\ \A i : At(i)' = At(i) /\ (InString(i)' <=> InString(i))
      /\ \A i : (WordGoesOn(i)' <=> WordGoesOn(i)) /\ (Begins(i)' <=> Begins(i))
      /\ \A i : (IsLegalAt(i)' <=> IsLegalAt(i)) /\ Text(i)' = Text(i)
      /\ Beginnings' = Beginnings
  BY SameText
<1>2. \A i : Boundary(i)' <=> Boundary(i)
  BY <1>1 DEF Boundary
<1>3. \A i, k : Inside(i, k)' <=> Inside(i, k)
  BY <1>1 DEF Inside
<1>4. \A i : Below(i)' = Below(i)
  BY <1>1 DEF Below
<1>5. \A f, l : Piece(f, l)' = Piece(f, l)
  BY DEF Piece
<1>6. \A t, v, i : IsKind(t, v, i)' <=> IsKind(t, v, i)
  BY <1>1 DEF IsKind
<1>7. \A t : IsToken(t)' <=> IsToken(t)
  BY <1>1, <1>5, <1>6 DEF IsToken
<1>8. \A s, n, q : TokensTo(s, n, q)' <=> TokensTo(s, n, q)
  BY <1>1, <1>4, <1>7 DEF TokensTo
<1>9. \A q, t : Reads(q, t)' <=> Reads(q, t)
  BY <1>1, <1>3, <1>5 DEF Reads, Start
<1>10. \A q, t : GoesOnAt(q, t)' <=> GoesOnAt(q, t)
  BY <1>1 DEF GoesOnAt
<1> QED BY <1>1, <1>2, <1>8, <1>9, <1>10 DEF TextAt

(* Every step of the tokenizer keeps it. *)
LEMMA TextKeeps ==
  ASSUME TokenizerInv, TextInv, [Next]_vars
  PROVE  TextInv'
<1>1. CASE Next
  <2>1. TokenizerInv'
    BY TokenizerKeeps
  <2>2. TextAt(p', token', storage', status')
    BY <1>1, <2>1, BetweenKeeps, ReadingKeeps DEF Next
  <2>3. input' = input
    BY <1>1 DEF Next, SkipSpace, ReadPunct, BeginString, BeginNumber, BeginWord, InvalidCharacter,
                TooManyTokens, Finish, ReadCharacter, TokenTooLong, EndString, UnterminatedString,
                EndNumber, EndWord, Emit, Return, BeginToken
  <2> QED BY <2>2, <2>3, SameTokens DEF TextInv
<1>2. CASE UNCHANGED vars
  BY <1>2, SameTokens DEF TextInv, vars
<1> QED BY <1>1, <1>2
-----------------------------------------------------------------------------
(* What follows from it once the tokenizer has returned *)

(* A token's value is as long as its text, and is that. *)
LEMMA TokenValue ==
  ASSUME NEW t, IsToken(t), input \in Seq(Characters)
  PROVE  /\ Cardinality(Text(t.from)) = Len(t.value)
         /\ t.value = [k \in 1..Cardinality(Text(t.from)) |->
                         input[t.from + k - (IF t.type = "STRING" THEN 0 ELSE 1)]]
<1>1. /\ Len(input) \in Nat /\ t.from \in 1..Len(input) /\ t.to \in t.from..Len(input)
      /\ t.type = "STRING" <=> At(t.from) = Quote
  BY LenProperties DEF IsToken, Beginnings, IsKind
<1>2. CASE At(t.from) = Quote
  <2> DEFINE n == t.to - 1 - (t.from + 1) + 1
  <2>1. t.to > t.from /\ Text(t.from) = (t.from + 1)..(t.to - 1) /\ t.value = Piece(t.from + 1, t.to - 1)
    BY <1>2 DEF IsToken
  <2>2. n \in Nat /\ t.from + 1 \in Int /\ t.to - 1 \in Int
    BY <1>1, <2>1
  <2>3. Cardinality(Text(t.from)) = n
    <3>1. Cardinality((t.from + 1)..(t.to - 1)) =
            IF t.from + 1 > t.to - 1 THEN 0 ELSE t.to - 1 - (t.from + 1) + 1
      BY <2>2, FS_Interval
    <3>2. t.from + 1 > t.to - 1 => n = 0
      BY <2>2
    <3> QED BY <2>1, <3>1, <3>2
  <2>4. t.value = [k \in 1..n |-> input[t.from + 1 + k - 1]]
    BY <2>1 DEF Piece
  <2>5. \A k \in 1..n : t.from + 1 + k - 1 = t.from + k - 0
    BY <1>1
  <2> HIDE DEF n
  <2>6. t.value = [k \in 1..n |-> input[t.from + k - 0]]
    BY <2>4, <2>5
  <2>7. Len(t.value) = n
    BY <2>2, <2>6
  <2> QED BY <1>1, <1>2, <2>3, <2>6, <2>7
<1>3. CASE At(t.from) # Quote
  <2> DEFINE n == t.to - t.from + 1
  <2>1. Text(t.from) = t.from..t.to /\ t.value = Piece(t.from, t.to)
    BY <1>3 DEF IsToken
  <2>2. n \in Nat /\ t.from \in Int /\ t.to \in Int
    BY <1>1
  <2>3. Cardinality(Text(t.from)) = n
    <3>1. Cardinality(t.from..t.to) = IF t.from > t.to THEN 0 ELSE t.to - t.from + 1
      BY <2>2, FS_Interval
    <3>2. ~(t.from > t.to)
      BY <1>1
    <3> QED BY <2>1, <3>1, <3>2
  <2>4. t.value = [k \in 1..n |-> input[t.from + k - 1]]
    BY <2>1 DEF Piece
  <2> HIDE DEF n
  <2>5. Len(t.value) = n
    BY <2>2, <2>4
  <2> QED BY <1>1, <1>3, <2>3, <2>4, <2>5
<1> QED BY <1>2, <1>3

(* No text below the position is longer than a token may be. *)
LEMMA TextsFit ==
  ASSUME TokenizerInv, NEW n, n <= Len(storage), n \in Nat, NEW q, TokensTo(storage, n, q),
         NEW i \in Beginnings, i < q
  PROVE  Cardinality(Text(i)) <= TokenValueMax
<1>1. i \in {storage[k].from : k \in 1..n}
  BY DEF TokensTo, Below
<1>2. PICK k \in 1..n : storage[k].from = i
  BY <1>1
<1>3. IsToken(storage[k]) /\ k \in 1..Len(storage) /\ input \in Seq(Characters)
  BY LenProperties DEF TokensTo, TokenizerInv
<1>4. Len(storage[k].value) <= TokenValueMax
  BY <1>3 DEF TokenizerInv
<1> QED BY <1>2, <1>3, <1>4, TokenValue

(* Positions are finitely many. *)
LEMMA Positions ==
  ASSUME input \in Seq(Characters)
  PROVE  /\ Len(input) \in Nat /\ DOMAIN input = 1..Len(input)
         /\ \A S : S \subseteq 1..Len(input) => IsFiniteSet(S) /\ Cardinality(S) \in Nat
         /\ Beginnings \subseteq 1..Len(input)
         /\ \A i \in Beginnings : Text(i) \subseteq 1..Len(input)
<1>1. Len(input) \in Nat /\ DOMAIN input = 1..Len(input)
  BY LenProperties
<1>2. \A S : S \subseteq 1..Len(input) => IsFiniteSet(S) /\ Cardinality(S) \in Nat
  <2> SUFFICES ASSUME NEW S, S \subseteq 1..Len(input)
               PROVE  IsFiniteSet(S) /\ Cardinality(S) \in Nat
    OBVIOUS
  <2>1. IsFiniteSet(1..Len(input))
    BY <1>1, FS_Interval
  <2>2. IsFiniteSet(S)
    BY <2>1, FS_Subset
  <2> QED BY <2>2, FS_CardinalityType
<1>3. Beginnings \subseteq 1..Len(input)
  BY <1>1 DEF Beginnings
<1>4. \A i \in Beginnings : Text(i) \subseteq 1..Len(input)
  <2> TAKE i \in Beginnings
  <2>1. Text(i) \subseteq i..Len(input) /\ i \in 1..Len(input)
    BY <1>3, TextWithin
  <2> QED BY <1>1, <2>1
<1> QED BY <1>1, <1>2, <1>3, <1>4

(* What is accepted is legal. *)
LEMMA AcceptedLegal ==
  ASSUME TokenizerInv, TextInv, status = "TOKENIZE_OK"
  PROVE  Legal /\ Len(storage) - 1 \in Nat /\ TokensTo(storage, Len(storage) - 1, p) /\ p = Len(input) + 1
         /\ Below(p) = Beginnings
<1>1. /\ p = Len(input) + 1 /\ Boundary(p) /\ TokensTo(storage, Len(storage) - 1, p)
      /\ input \in Seq(Characters) /\ Len(storage) \in Nat /\ Len(storage) <= Capacity
  BY LenProperties DEF TextInv, TextAt, TokenizerInv
<1>2. /\ Len(input) \in Nat /\ DOMAIN input = 1..Len(input) /\ Beginnings \subseteq 1..Len(input)
      /\ Cardinality(Below(p)) \in Nat
  <2>1. Below(p) \subseteq 1..Len(input)
    BY <1>1, Positions DEF Below
  <2> QED BY <1>1, <2>1, Positions
<1>3. Below(p) = Beginnings
  <2>1. \A b \in Beginnings : b < p
    BY <1>1, <1>2
  <2> QED BY <2>1 DEF Below
<1>4. Len(storage) - 1 \in Nat /\ Cardinality(Beginnings) = Len(storage) - 1
  BY <1>1, <1>2, <1>3 DEF TokensTo
<1>5. \A i \in DOMAIN input : IsLegalAt(i)
  BY <1>1, <1>2 DEF TokensTo
<1>6. ~InString(Len(input) + 1)
  BY <1>1 DEF Boundary
<1>7. \A i \in Beginnings : Cardinality(Text(i)) <= TokenValueMax
  <2> TAKE i \in Beginnings
  <2>1. i < p /\ Len(storage) - 1 <= Len(storage)
    BY <1>1, <1>2
  <2> QED BY <1>1, <1>4, <2>1, TextsFit
<1>8. Cardinality(Beginnings) <= Capacity - 1
  BY <1>1, <1>4, LimitAssumption
<1> QED BY <1>1, <1>3, <1>4, <1>5, <1>6, <1>7, <1>8 DEF Legal

(* The tokens of an accepted text are its own. *)
LEMMA TextGivesTokens ==
  ASSUME TokenizerInv, TextInv
  PROVE  TokensAreText
<1> SUFFICES ASSUME status = "TOKENIZE_OK"
             PROVE  TokensAreText
  BY DEF TokensAreText
<1> DEFINE n == Len(storage) - 1
           accepted == SubSeq(storage, 1, n)
<1>1. n \in Nat /\ TokensTo(storage, n, p) /\ Below(p) = Beginnings
  BY AcceptedLegal
<1>2. storage \in Seq(Finished) /\ Len(storage) = n + 1 /\ input \in Seq(Characters)
  BY <1>1, LenProperties DEF TokenizerInv
<1>3. DOMAIN accepted = 1..n /\ \A k \in 1..n : accepted[k] = storage[k]
  BY <1>1, <1>2
<1> HIDE DEF n, accepted
<1>4. {accepted[k].from : k \in DOMAIN accepted} = Beginnings
  <2>1. {accepted[k].from : k \in DOMAIN accepted} = {storage[k].from : k \in 1..n}
    BY <1>3
  <2> QED BY <1>1, <2>1 DEF TokensTo
<1>5. ASSUME NEW k \in DOMAIN accepted, NEW t, t = accepted[k]
      PROVE  /\ k > 1 => accepted[k - 1].to < t.from
             /\ t.value = [c \in 1..Cardinality(Text(t.from)) |->
                             input[t.from + c - (IF t.type = "STRING" THEN 0 ELSE 1)]]
             /\ t.type = "STRING" <=> At(t.from) = Quote
             /\ t.type = "NUMBER" <=> At(t.from) \in Digits \union {Minus}
             /\ At(t.from) \in Puncts => t.type = At(t.from)
             /\ At(t.from) \in Letters =>
                  t.type \in {"IDENTIFIER"} \union {Keywords[c] : c \in DOMAIN Keywords}
             /\ t.type \in {Keywords[c] : c \in DOMAIN Keywords}
                  <=> \E c \in DOMAIN Keywords : Keywords[c] = t.type /\ Folded(t.value) = c
  <2>1. k \in 1..n /\ t = storage[k] /\ IsToken(t)
    BY <1>1, <1>3, <1>5 DEF TokensTo
  <2>2. k > 1 => accepted[k - 1].to < t.from
    <3> SUFFICES ASSUME k > 1
                 PROVE  accepted[k - 1].to < t.from
      OBVIOUS
    <3>1. k - 1 \in 1..n /\ k \in 2..n
      BY <1>1, <2>1
    <3> QED BY <1>1, <1>3, <2>1, <3>1 DEF TokensTo
  <2>3. t.value = [c \in 1..Cardinality(Text(t.from)) |->
                     input[t.from + c - (IF t.type = "STRING" THEN 0 ELSE 1)]]
    BY <1>2, <2>1, TokenValue
  <2>4. IsKind(t.type, t.value, t.from)
    BY <2>1 DEF IsToken
  <2>5. t.type \in {Keywords[c] : c \in DOMAIN Keywords}
          <=> \E c \in DOMAIN Keywords : Keywords[c] = t.type /\ Folded(t.value) = c
    <3>1. CASE At(t.from) \in Letters
      <4>1. t.type = keyword_lookup(t.value)
        BY <2>4, <3>1 DEF IsKind
      <4>2. CASE Folded(t.value) \in DOMAIN Keywords
        BY <4>1, <4>2 DEF keyword_lookup
      <4>3. CASE Folded(t.value) \notin DOMAIN Keywords
        BY <4>1, <4>3, KeywordAssumption DEF keyword_lookup
      <4> QED BY <4>2, <4>3
    <3>2. CASE At(t.from) \notin Letters
      BY <2>4, <3>2 DEF IsKind
    <3> QED BY <3>1, <3>2
  <2>6. At(t.from) \in Letters =>
          t.type \in {"IDENTIFIER"} \union {Keywords[c] : c \in DOMAIN Keywords}
    BY <2>4 DEF IsKind, keyword_lookup
  <2> HIDE DEF n
  <2> QED BY <2>2, <2>3, <2>4, <2>5, <2>6 DEF IsKind
<1> QED BY <1>4, <1>5 DEF TokensAreText, accepted, n
(* Below the position all is legal, and no limit has been passed. *)
LEMMA BelowLegal ==
  ASSUME TokenizerInv, TextInv, status # "TOKENIZE_OK"
  PROVE  /\ \A i \in 1..(p - 1) : IsLegalAt(i)
         /\ Cardinality(Below(p)) <= Capacity - 1
         /\ \A i \in Beginnings : Cardinality({j \in Text(i) : j < p}) <= TokenValueMax
<1>1. /\ input \in Seq(Characters) /\ Len(input) \in Nat /\ p \in 1..(Len(input) + 1) /\ p \in Int
      /\ Beginnings \subseteq 1..Len(input) /\ Len(storage) \in Nat /\ Len(storage) <= Len(storage)
      /\ Capacity \in Nat /\ TokenValueMax \in Nat \ {0} /\ Len(storage) <= Capacity - 1
  BY Positions, LenProperties, LimitAssumption DEF TokenizerInv, Room
<1> DEFINE read(i) == {j \in Text(i) : j < p}
<1>2. \A i \in Beginnings : /\ Cardinality(Text(i)) <= TokenValueMax => Cardinality(read(i)) <= TokenValueMax
                            /\ i >= p => Cardinality(read(i)) <= TokenValueMax
  <2> TAKE i \in Beginnings
  <2>1. IsFiniteSet(Text(i)) /\ Cardinality(Text(i)) \in Nat
    BY <1>1, Positions
  <2>2. Cardinality(read(i)) <= Cardinality(Text(i)) /\ Cardinality(read(i)) \in Nat
    <3>1. read(i) \subseteq Text(i)
      OBVIOUS
    <3> HIDE DEF read
    <3> QED BY <2>1, <3>1, FS_Subset, FS_CardinalityType
  <2>3. i >= p => read(i) = {}
    <3>1. Text(i) \subseteq i..Len(input)
      BY TextWithin
    <3> QED BY <1>1, <3>1
  <2> HIDE DEF read
  <2>4. i >= p => Cardinality(read(i)) <= TokenValueMax
    <3>1. Cardinality({}) = 0 /\ 0 <= TokenValueMax
      BY <1>1, FS_EmptySet
    <3> QED BY <2>3, <3>1
  <2> QED BY <1>1, <2>1, <2>2, <2>4
<1>3. CASE token.type = "none"
  <2>1. TokensTo(storage, Len(storage), p)
    BY <1>3 DEF TextInv, TextAt
  <2>2. \A i \in Beginnings : Cardinality(read(i)) <= TokenValueMax
    <3> TAKE i \in Beginnings
    <3>1. i < p => Cardinality(Text(i)) <= TokenValueMax
      BY <1>1, <2>1, TextsFit
    <3>2. i < p \/ i >= p
      BY <1>1
    <3> HIDE DEF read
    <3> QED BY <1>2, <3>1, <3>2
  <2>3. Cardinality(Below(p)) = Len(storage)
    BY <2>1 DEF TokensTo
  <2> QED BY <1>1, <2>1, <2>2, <2>3 DEF TokensTo
<1>4. CASE token.type # "none"
  <2> DEFINE b == token.from
  <2>1. Reads(p, token) /\ TokensTo(storage, Len(storage), b) /\ token \in Unfinished
    BY <1>4 DEF TextInv, TextAt, TokenizerInv
  <2>2. /\ b \in Beginnings /\ b \in 1..Len(input) /\ Begins(b) /\ b <= p
        /\ \A k \in (b + 1)..(p - 1) : Inside(b, k)
    <3>1. b \in Beginnings /\ p \in Start(token)..(Len(input) + 1)
          /\ \A k \in (b + 1)..(p - 1) : Inside(b, k)
      BY <2>1 DEF Reads
    <3>2. b \in 1..Len(input) /\ Begins(b)
      BY <1>1, <3>1 DEF Beginnings
    <3>3. Start(token) \in {b, b + 1}
      BY DEF Start
    <3> QED BY <1>1, <3>1, <3>2, <3>3
  <2>3. \A i \in 1..(p - 1) : IsLegalAt(i)
    <3> TAKE i \in 1..(p - 1)
    <3>1. i \in 1..(b - 1) \/ i = b \/ i \in (b + 1)..(p - 1)
      BY <1>1, <2>2
    <3>2. IsLegalAt(b)
      BY <2>2, ClassAssumption DEF Begins, IsLegalAt, WordCharacters
    <3> QED BY <2>1, <2>2, <3>1, <3>2, InsideLegal DEF TokensTo
  <2>4. Cardinality(Below(p)) <= Capacity - 1
    <3>1. Below(p) \subseteq Below(b) \union {b}
      <4>1. \A i \in Beginnings : i \notin (b + 1)..(p - 1) /\ i \in Int
        BY <1>1, <2>2, InsideLegal DEF Beginnings
      <4>2. \A i \in Beginnings : i < p => i < b \/ i = b
        BY <1>1, <2>2, <4>1
      <4> QED BY <4>2 DEF Below
    <3>2. IsFiniteSet(Below(b)) /\ Cardinality(Below(b)) = Len(storage)
      <4>1. Below(b) \subseteq 1..Len(input)
        BY <1>1 DEF Below
      <4> QED BY <1>1, <2>1, <4>1, Positions DEF TokensTo
    <3>3. /\ IsFiniteSet(Below(b) \union {b})
          /\ Cardinality(Below(b) \union {b}) = IF b \in Below(b) THEN Len(storage) ELSE Len(storage) + 1
      BY <3>2, FS_AddElement
    <3>4. Cardinality(Below(p)) <= Cardinality(Below(b) \union {b}) /\ Cardinality(Below(p)) \in Nat
      BY <3>1, <3>3, FS_Subset, FS_CardinalityType
    <3>5. Len(storage) < Capacity - 1
      BY <1>4 DEF TokenizerInv, Room, HasRoom
    <3> QED BY <1>1, <3>3, <3>4, <3>5
  <2>5. Cardinality(read(b)) <= TokenValueMax
    <3>1. token.value = Piece(Start(token), p - 1) /\ Start(token) \in Int /\ Start(token) <= p
      BY <1>1, <2>1, <2>2 DEF Reads, Start
    <3> DEFINE n == p - 1 - Start(token) + 1
    <3>2. n \in Nat /\ Len(token.value) = n
      BY <1>1, <3>1 DEF Piece
    <3>3. read(b) \subseteq Start(token)..(p - 1)
      <4>1. CASE token.type = "STRING"
        <5>1. At(b) = Quote /\ Start(token) = b + 1
          BY <2>1, <4>1 DEF Reads, Start
        <5>2. Text(b) \subseteq b..Len(input) /\ b \notin Text(b)
          BY <5>1, TextWithin DEF Text
        <5> QED BY <1>1, <2>2, <5>1, <5>2
      <4>2. CASE token.type # "STRING"
        <5>1. Start(token) = b
          BY <4>2 DEF Start
        <5>2. Text(b) \subseteq b..Len(input)
          BY TextWithin
        <5> QED BY <1>1, <2>2, <5>1, <5>2
      <4> QED BY <4>1, <4>2
    <3>4. /\ IsFiniteSet(Start(token)..(p - 1))
          /\ Cardinality(Start(token)..(p - 1)) = IF Start(token) > p - 1 THEN 0 ELSE n
      <4>1. p - 1 \in Int
        BY <1>1
      <4> QED BY <3>1, <4>1, FS_Interval
    <3>5. Cardinality(Start(token)..(p - 1)) <= n
      BY <3>2, <3>4
    <3>6. Len(token.value) <= TokenValueMax
      BY DEF TokenizerInv
    <3> HIDE DEF read, n, b
    <3>7. Cardinality(read(b)) <= Cardinality(Start(token)..(p - 1)) /\ Cardinality(read(b)) \in Nat
          /\ Cardinality(Start(token)..(p - 1)) \in Nat
      BY <3>3, <3>4, FS_Subset, FS_CardinalityType
    <3> QED BY <1>1, <3>2, <3>5, <3>6, <3>7
  <2>6. \A i \in Beginnings : Cardinality(read(i)) <= TokenValueMax
    <3> TAKE i \in Beginnings
    <3>1. i < b => Cardinality(Text(i)) <= TokenValueMax
      BY <1>1, <2>1, TextsFit
    <3>2. i < b \/ i = b \/ i >= p
      <4>1. i \notin (b + 1)..(p - 1) /\ i \in Int
        BY <1>1, <2>2, InsideLegal DEF Beginnings
      <4> QED BY <1>1, <2>2, <4>1
    <3> HIDE DEF read, b
    <3> QED BY <1>2, <2>5, <3>1, <3>2
  <2> QED BY <2>3, <2>4, <2>6
<1> QED BY <1>3, <1>4
(* A text is refused at the first token too many, ... *)
LEMMA TooManyRefused ==
  ASSUME TokenizerInv, TextInv, status = "TOKENIZE_TOO_MANY_TOKENS"
  PROVE  ~Legal /\ (p \in Beginnings \/ ~IsLegalAt(p))
<1>1. /\ input \in Seq(Characters) /\ Len(input) \in Nat /\ p \in Int /\ DOMAIN input = 1..Len(input)
      /\ Capacity \in Nat /\ Len(storage) \in Nat
  BY Positions, LenProperties, LimitAssumption DEF TokenizerInv
<1>2. /\ Boundary(p) /\ TokensTo(storage, Len(storage), p) /\ Len(storage) >= Capacity - 1
      /\ At(p) \notin Spaces /\ At(p) # Nul
  BY DEF TextInv, TextAt
<1>3. p \in 1..Len(input) /\ (Begins(p) <=> IsLegalAt(p))
  BY <1>1, <1>2, CharacterAt, BoundaryBegins
<1>4. p \in Beginnings \/ ~IsLegalAt(p)
  BY <1>1, <1>3 DEF Beginnings
<1>5. CASE p \in Beginnings
  <2>1. Below(p) \union {p} \subseteq Beginnings /\ p \notin Below(p)
    BY <1>1, <1>5 DEF Below
  <2>2. /\ IsFiniteSet(Below(p)) /\ IsFiniteSet(Beginnings) /\ Cardinality(Beginnings) \in Nat
        /\ Cardinality(Below(p)) = Len(storage)
    <3>1. Below(p) \subseteq 1..Len(input) /\ Beginnings \subseteq 1..Len(input)
      BY <1>1, Positions DEF Below
    <3> QED BY <1>1, <1>2, <3>1, Positions DEF TokensTo
  <2>3. Cardinality(Below(p) \union {p}) = Len(storage) + 1
    BY <2>1, <2>2, FS_AddElement
  <2>4. Cardinality(Below(p) \union {p}) <= Cardinality(Beginnings)
    BY <2>1, <2>2, FS_Subset
  <2>5. ~(Cardinality(Beginnings) <= Capacity - 1)
    BY <1>1, <1>2, <2>2, <2>3, <2>4
  <2> QED BY <1>4, <2>5 DEF Legal
<1>6. CASE ~IsLegalAt(p)
  BY <1>1, <1>3, <1>6 DEF Legal
<1> QED BY <1>4, <1>5, <1>6

(* ... and at a token whose next character is one too many. *)
LEMMA TooLongRefused ==
  ASSUME TokenizerInv, TextInv, status = "TOKENIZE_TOKEN_TOO_LONG"
  PROVE  /\ token.from \in Beginnings /\ p \in Text(token.from)
         /\ Cardinality(Text(token.from)) > TokenValueMax
<1> DEFINE b == token.from
<1>1. /\ input \in Seq(Characters) /\ Len(input) \in Nat /\ p \in Int /\ token \in Unfinished
      /\ TokenValueMax \in Nat \ {0} /\ Len(token.value) \in Nat
  BY Positions, LenProperties, LimitAssumption DEF TokenizerInv, Unfinished
<1>2. /\ Reads(p, token) /\ GoesOnAt(p, token) /\ Len(token.value) >= TokenValueMax
      /\ b \in Beginnings /\ b \in 1..Len(input)
      /\ \A k \in (b + 1)..(p - 1) : Inside(b, k)
  BY <1>1, Positions DEF TextInv, TextAt, Reads
<1>3. p \in Start(token)..Len(input) /\ (p > b => Inside(b, p))
  <2> DEFINE u == [token EXCEPT !.value = Append(token.value, At(p))]
  <2>1. u.from = token.from /\ u.type = token.type /\ u.value = Append(token.value, At(p))
    BY <1>1 DEF Unfinished
  <2> HIDE DEF u
  <2> QED BY <1>1, <1>2, <2>1, ReadsMore
<1>4. Start(token) \in {b, b + 1} /\ (Start(token) = b + 1 <=> At(b) = Quote)
  BY <1>1, <1>2, ClassAssumption DEF Reads, Start, WordCharacters, Quote, Minus, Unfinished
<1>5. \A k \in (b + 1)..p : Inside(b, k)
  <2> TAKE k \in (b + 1)..p
  <2>1. k \in (b + 1)..(p - 1) \/ (k = p /\ p > b)
    BY <1>1, <1>2
  <2> QED BY <1>2, <1>3, <2>1
<1>6. Start(token)..p \subseteq Text(b)
  <2> SUFFICES ASSUME NEW j \in Start(token)..p
               PROVE  j \in Text(b)
    OBVIOUS
  <2>1. j \in b..Len(input) /\ (At(b) = Quote => j # b) /\ j <= p
    BY <1>1, <1>2, <1>3, <1>4
  <2>2. \A k \in (b + 1)..j : Inside(b, k)
    BY <1>1, <1>5, <2>1
  <2> HIDE DEF b
  <2> QED BY <1>1, <1>2, <2>1, <2>2, InsideText
<1>7. Cardinality(Start(token)..p) = Len(token.value) + 1
  <2>1. Start(token) \in Int /\ Start(token) <= p /\ token.value = Piece(Start(token), p - 1)
    BY <1>2, <1>3, <1>4 DEF Reads
  <2>2. Len(token.value) = p - 1 - Start(token) + 1
    BY <1>1, <2>1 DEF Piece
  <2>3. Cardinality(Start(token)..p) = IF Start(token) > p THEN 0 ELSE p - Start(token) + 1
    BY <1>1, <2>1, FS_Interval
  <2> QED BY <1>1, <2>1, <2>2, <2>3
<1>8. IsFiniteSet(Text(b)) /\ Cardinality(Text(b)) \in Nat
  BY <1>1, <1>2, Positions
<1>9. Cardinality(Start(token)..p) <= Cardinality(Text(b))
  BY <1>6, <1>8, FS_Subset
<1>10. Cardinality(Text(b)) > TokenValueMax
  <2> HIDE DEF b
  <2> QED BY <1>1, <1>2, <1>7, <1>8, <1>9
<1>11. p \in Text(b)
  <2>1. p \in Start(token)..p
    BY <1>1, <1>2, <1>3, <1>4
  <2> QED BY <1>6, <2>1
<1> QED BY <1>2, <1>10, <1>11

(* The tokenizer accepts the legal texts, and has its reason to refuse one. *)
LEMMA TextDecides ==
  ASSUME TokenizerInv, TextInv
  PROVE  AcceptsExactly
<1>1. CASE status = "none"
  BY <1>1 DEF AcceptsExactly
<1>2. CASE status = "TOKENIZE_OK"
  BY <1>2, AcceptedLegal DEF AcceptsExactly
<1>3. ASSUME status \in Statuses \ {"TOKENIZE_OK"},
             ~Legal,
             CASE status = "TOKENIZE_INVALID_CHARACTER" -> ~IsLegalAt(p)
               [] status = "TOKENIZE_TOO_MANY_TOKENS" -> p \in Beginnings \/ ~IsLegalAt(p)
               [] status = "TOKENIZE_TOKEN_TOO_LONG" ->
                    \E i \in Beginnings : p \in Text(i) /\ Cardinality(Text(i)) > TokenValueMax
               [] status = "TOKENIZE_UNTERMINATED_STRING" -> InString(Len(input) + 1)
      PROVE  AcceptsExactly
  <2>1. /\ \A i \in 1..(p - 1) : IsLegalAt(i)
        /\ Cardinality(Below(p)) <= Capacity - 1
        /\ \A i \in Beginnings : Cardinality({j \in Text(i) : j < p}) <= TokenValueMax
    BY <1>3, BelowLegal
  <2>2. {i \in Beginnings : i < p} = Below(p)
    BY DEF Below
  <2>3. result = <<>>
    BY <1>3 DEF result
  <2>4. RefusalIsDeserved
    BY <1>3, <2>1, <2>2, <2>3 DEF RefusalIsDeserved
  <2> QED BY <1>3, <2>4 DEF AcceptsExactly
<1>4. CASE status = "TOKENIZE_TOO_MANY_TOKENS"
  BY <1>3, <1>4, TooManyRefused DEF Statuses
<1>5. CASE status = "TOKENIZE_TOKEN_TOO_LONG"
  <2>1. /\ token.from \in Beginnings /\ p \in Text(token.from)
        /\ Cardinality(Text(token.from)) > TokenValueMax
    BY <1>5, TooLongRefused
  <2>2. Cardinality(Text(token.from)) \in Nat /\ TokenValueMax \in Nat
    BY <2>1, Positions, LimitAssumption DEF TokenizerInv
  <2>3. ~Legal
    BY <2>1, <2>2 DEF Legal
  <2> QED BY <1>3, <1>5, <2>1, <2>3 DEF Statuses
<1>6. CASE status = "TOKENIZE_INVALID_CHARACTER"
  <2>1. ~IsLegalAt(p) /\ At(p) # Nul
    BY <1>6 DEF TextInv, TextAt
  <2>2. p \in DOMAIN input
    BY <2>1 DEF At
  <2> QED BY <1>3, <1>6, <2>1, <2>2 DEF Statuses, Legal
<1>7. CASE status = "TOKENIZE_UNTERMINATED_STRING"
  <2>1. InString(Len(input) + 1)
    BY <1>7 DEF TextInv, TextAt, Reads
  <2> QED BY <1>3, <1>7, <2>1 DEF Statuses, Legal
<1> QED BY <1>1, <1>2, <1>4, <1>5, <1>6, <1>7 DEF TokenizerInv, Statuses

(* A line of which nothing was read but spaces *)
Fresh ==
  /\ input \in Seq(Characters) /\ p \in 1..(Len(input) + 1)
  /\ \A j \in 1..(p - 1) : At(j) \in Spaces
  /\ token = NoToken /\ storage = <<>> /\ status = "none"

(* Such a line has no token yet. *)
LEMMA FreshText == Fresh => TextInv
<1> SUFFICES ASSUME Fresh
             PROVE  TextInv
  OBVIOUS
<1>1. /\ input \in Seq(Characters) /\ Len(input) \in Nat /\ p \in 1..(Len(input) + 1) /\ p \in Nat
      /\ token.type = "none" /\ storage = <<>> /\ status = "none" /\ Len(storage) = 0
  BY LenProperties DEF Fresh, NoToken
<1>2. Boundary(p) /\ \A j \in 1..(p - 1) : ~Begins(j) /\ IsLegalAt(j)
  BY <1>1, BoundaryFirst DEF Fresh
<1>3. TokensTo(storage, Len(storage), p)
  BY <1>1, <1>2, TokensFirst
<1> QED BY <1>1, <1>2, <1>3, BetweenText DEF TextInv

-----------------------------------------------------------------------------
(* CommandLine *)

(* The least of some positions *)
LEMMA LeastPosition ==
  ASSUME NEW positions, positions \subseteq Nat, positions # {}
  PROVE  Min(positions) \in positions /\ \A i \in positions : Min(positions) <= i
<1> DEFINE Less == {pair \in Nat \X Nat : pair[1] < pair[2]}
<1>0. IsWellFoundedOn(Less, Nat)
  BY NatLessThanWellFounded DEF OpToRel
<1>1. PICK i \in positions : \A j \in positions : <<j, i>> \notin Less
  <2> HIDE DEF Less
  <2> QED BY <1>0, WFMin
<1>2. ASSUME NEW j \in positions
      PROVE  i <= j
  <2>1. i \in Nat /\ j \in Nat /\ <<j, i>> \in Nat \X Nat
    OBVIOUS
  <2>2. ~(<<j, i>>[1] < <<j, i>>[2])
    BY <1>1, <2>1
  <2> QED BY <2>1, <2>2
<1> QED BY <1>2 DEF Min

(* Where the next word begins, ... *)
LEMMA SkipWithin ==
  ASSUME input \in Seq(Characters), NEW i \in 1..End
  PROVE  SkipSpaces(i) \in i..End
<1> DEFINE stops == {j \in i..Len(input) : input[j] \notin Spaces} \union {End}
<1>1. Len(input) \in Nat /\ stops \subseteq i..End /\ stops \subseteq Nat /\ stops # {}
  BY LenProperties DEF End
<1>2. Min(stops) \in stops
  <2> HIDE DEF stops
  <2> QED BY <1>1, LeastPosition
<1> QED BY <1>1, <1>2 DEF SkipSpaces

(* ... and how far it is read: it is text of the line. *)
LEMMA WordWithin ==
  ASSUME input \in Seq(Characters), NEW i \in 1..End
  PROVE  ReadOf(i) \in i..End /\ Word(i) \in Seq(Characters)
<1> DEFINE stops == {j \in i..Len(input) : input[j] \in Spaces} \union {i + WordMax, End}
<1>1. /\ Len(input) \in Nat /\ End \in Nat
      /\ \A j \in 1..Len(input) : input[j] \in Characters
  BY LenProperties, ElementOfSeq DEF End
<1>2. stops \subseteq Nat /\ End \in stops /\ \A j \in stops : i <= j
  BY <1>1, WordAssumption DEF End
<1>3. Min(stops) \in stops /\ Min(stops) <= End
  <2> HIDE DEF stops
  <2> QED BY <1>2, LeastPosition
<1>4. ReadOf(i) \in i..End
  <2> HIDE DEF stops
  <2>1. Min(stops) \in Nat /\ i <= Min(stops) /\ Min(stops) <= End
    BY <1>2, <1>3
  <2>2. Min(stops) \in i..End
    BY <1>1, <2>1
  <2> QED BY <2>2 DEF ReadOf, stops
<1>5. \A j \in i..(ReadOf(i) - 1) : input[j] \in Characters
  BY <1>1, <1>4 DEF End
<1>6. SubSeq(input, i, ReadOf(i) - 1) \in Seq(Characters)
  BY <1>1, <1>4, <1>5, SubSeqProperties
<1> QED BY <1>4, <1>6 DEF Word

(* So is the argument of a command. *)
LEMMA ArgumentTyping ==
  ASSUME input \in Seq(Characters)
  PROVE  Argument \in Seq(Characters)
<1> DEFINE word == Word(SkipSpaces(ReadOf(First)))
<1>1. 1 \in 1..End
  BY LenProperties DEF End
<1>2. First \in 1..End /\ End \in Nat
  BY <1>1, SkipWithin, LenProperties DEF First, End
<1>3. ReadOf(First) \in 1..End
  BY <1>2, WordWithin
<1>4. SkipSpaces(ReadOf(First)) \in 1..End
  BY <1>2, <1>3, SkipWithin
<1>5. word \in Seq(Characters)
  BY <1>4, WordWithin
<1> HIDE DEF word
<1>6. SubSeq(word, 1, Len(word) - 1) \in Seq(Characters)
  <2>1. Len(word) \in Nat /\ \A j \in 1..Len(word) : word[j] \in Characters
    BY <1>5, LenProperties, ElementOfSeq
  <2>2. \A j \in 1..(Len(word) - 1) : word[j] \in Characters
    BY <2>1
  <2> QED BY <2>1, <2>2, SubSeqProperties
<1> QED BY <1>5, <1>6 DEF Argument, remove_trailing_semicolon, word

-----------------------------------------------------------------------------
(* What a token holds while it is read, and what the parser sees of those  *)
(* that are complete *)
ValueInv ==
  /\ token.type = "WORD" => token.value \in Seq(WordCharacters)
  /\ token.type = "NUMBER" => token.value \in Seq(Digits \union {Minus})
  /\ token.type = "STRING" => token.value \in Seq(Characters)
  /\ \A n \in 1..Len(storage) : Seen(storage[n]) \in Tokens
  /\ status = "TOKENIZE_OK" => Len(storage) >= 1 /\ Seen(storage[Len(storage)]).type = "EOF"

(* A value that was read is one the parser knows. *)
LEMMA ValueIsKnown ==
  ASSUME NEW S, NEW value \in Seq(S), Len(value) <= TokenValueMax
  PROVE  /\ S = WordCharacters => value \in Identifiers
         /\ S = Digits \union {Minus} => value \in Numbers
         /\ S = Characters => value \in Strings
<1>1. Len(value) \in 0..TokenValueMax /\ value \in [1..Len(value) -> S]
  BY LenProperties, LimitAssumption
<1> QED BY <1>1, TokenAssumption

(* A token of any kind is one of the parser's. *)
LEMMA SeenTyping ==
  ASSUME NEW t,
         \/ t.type \in Puncts \/ t.type \in Plain
         \/ t.type = "IDENTIFIER" /\ t.value \in Identifiers
         \/ t.type = "NUMBER" /\ t.value \in Numbers
         \/ t.type = "STRING" /\ t.value \in Strings
  PROVE  Seen(t) \in Tokens
<1>1. CASE t.type \in Puncts
  BY <1>1, TypeAssumption DEF Seen, Tokens
<1>2. CASE t.type \notin Puncts /\ t.type \in Plain
  BY <1>2 DEF Seen, Tokens
<1>3. CASE t.type \notin Puncts /\ t.type \notin Plain
  BY <1>3 DEF Seen, Tokens
<1> QED BY <1>1, <1>2, <1>3

(* Adding one keeps that of all. *)
LEMMA SeenKeeps ==
  ASSUME TokenizerInv, ValueInv, NEW t \in Finished, Seen(t) \in Tokens,
         storage' = Append(storage, t)
  PROVE  /\ Len(storage') = Len(storage) + 1 /\ Len(storage) \in Nat
         /\ storage'[Len(storage')] = t
         /\ \A n \in 1..Len(storage') : Seen(storage'[n]) \in Tokens
<1>1. /\ Len(storage') = Len(storage) + 1 /\ Len(storage) \in Nat
      /\ \A n \in 1..Len(storage) : storage'[n] = storage[n]
      /\ storage'[Len(storage) + 1] = t
  BY AppendProperties, LenProperties DEF TokenizerInv
<1> QED BY <1>1 DEF ValueInv

(* Every step of the tokenizer keeps it: one that goes on, ... *)
LEMMA ReadKeepsValues ==
  ASSUME TokenizerInv, ValueInv,
         SkipSpace \/ BeginString \/ BeginNumber \/ BeginWord \/ ReadCharacter
  PROVE  ValueInv'
<1>1. status = "none" /\ UNCHANGED <<storage, status>>
  BY DEF SkipSpace, BeginString, BeginNumber, BeginWord, ReadCharacter, BeginToken, AtToken,
         Between, GoesOn, Reading
<1>2. /\ token'.type = "WORD" => token'.value \in Seq(WordCharacters)
      /\ token'.type = "NUMBER" => token'.value \in Seq(Digits \union {Minus})
      /\ token'.type = "STRING" => token'.value \in Seq(Characters)
  <2>1. CASE SkipSpace
    BY <2>1 DEF SkipSpace, ValueInv
  <2>2. CASE BeginString \/ BeginWord
    <3>1. token'.value = <<>> /\ token'.type \in {"STRING", "WORD"}
      BY <2>2 DEF BeginString, BeginWord, BeginToken
    <3> QED BY <3>1
  <2>3. CASE BeginNumber
    <3>1. token'.value \in {<<>>, <<Minus>>} /\ token'.type = "NUMBER"
      BY <2>3 DEF BeginNumber, BeginToken
    <3>2. <<>> \in Seq(Digits \union {Minus}) /\ <<Minus>> \in Seq(Digits \union {Minus})
      OBVIOUS
    <3>3. token'.value = <<>> \/ token'.value = <<Minus>>
      BY <3>1
    <3>4. token'.value \in Seq(Digits \union {Minus})
      BY <3>2, <3>3
    <3> QED BY <3>1, <3>4
  <2>4. CASE ReadCharacter
    <3>1. token.value \in Seq(Alphabet) /\ token'.type = token.type
          /\ token'.value = Append(token.value, Here)
      BY <2>4 DEF ReadCharacter, TokenizerInv, Unfinished
    <3>2. CASE Reading("STRING")
      <4>1. Here \in Characters
        <5>1. Here # Nul
          BY <2>4, <3>2 DEF ReadCharacter, GoesOn, Reading
        <5>2. p \in 1..Len(input)
          BY <5>1, WithinLine
        <5> QED BY <5>2, ElementOfSeq, LenProperties DEF Here, At, TokenizerInv
      <4> QED BY <3>1, <3>2, <4>1, AppendProperties DEF ValueInv, Reading
    <3>3. CASE Reading("NUMBER")
      <4>1. Here \in Digits \union {Minus}
        BY <2>4, <3>3 DEF ReadCharacter, GoesOn, Reading
      <4>2. token.value \in Seq(Digits \union {Minus}) /\ token'.type = "NUMBER"
        BY <3>1, <3>3 DEF ValueInv, Reading
      <4> QED BY <3>1, <4>1, <4>2, AppendProperties
    <3>4. CASE Reading("WORD")
      <4>1. Here \in WordCharacters
        BY <2>4, <3>4 DEF ReadCharacter, GoesOn, Reading
      <4>2. token.value \in Seq(WordCharacters) /\ token'.type = "WORD"
        BY <3>1, <3>4 DEF ValueInv, Reading
      <4> QED BY <3>1, <4>1, <4>2, AppendProperties
    <3> QED BY <2>4, <3>2, <3>3, <3>4 DEF ReadCharacter, GoesOn
  <2> QED BY <2>1, <2>2, <2>3, <2>4
<1> QED BY <1>1, <1>2 DEF ValueInv

(* ... one that completes a token, ... *)
LEMMA EmitKeepsValues ==
  ASSUME TokenizerInv, ValueInv, status = "none",
         NEW type \in TokenTypes, NEW value \in Seq(Alphabet), NEW from \in Nat, NEW to \in Int,
         Emit(type, value, from, to),
         \/ type \in Puncts \/ type \in Plain
         \/ type = "IDENTIFIER" /\ value \in Identifiers
         \/ type = "NUMBER" /\ value \in Numbers
         \/ type = "STRING" /\ value \in Strings
  PROVE  ValueInv'
<1> DEFINE t == [type |-> type, value |-> value, from |-> from, to |-> to]
<1>1. t \in Finished /\ t.type = type /\ t.value = value
  BY DEF Finished
<1>2. storage' = Append(storage, t) /\ token' = NoToken /\ status' = "none"
  BY DEF Emit
<1> HIDE DEF t
<1>3. Seen(t) \in Tokens
  BY <1>1, SeenTyping
<1>4. \A n \in 1..Len(storage') : Seen(storage'[n]) \in Tokens
  BY <1>1, <1>2, <1>3, SeenKeeps
<1>5. NoToken.type = "none"
  BY DEF NoToken
<1> QED BY <1>2, <1>4, <1>5 DEF ValueInv

(* ... whichever it is, ... *)
LEMMA EndKeepsValues ==
  ASSUME TokenizerInv, ValueInv, ReadPunct \/ EndString \/ EndNumber \/ EndWord
  PROVE  ValueInv'
<1>1. /\ Len(input) \in Nat /\ p \in Nat /\ p - 1 \in Int /\ p \in Int /\ Here \in Alphabet
      /\ token.value \in Seq(Alphabet) /\ token.from \in Nat /\ Len(token.value) <= TokenValueMax
  BY WithinLine DEF TokenizerInv, Unfinished
<1>2. CASE ReadPunct
  <2>1. Here \in Puncts /\ status = "none" /\ Emit(Here, <<Here>>, p, p)
    BY <1>2 DEF ReadPunct, AtToken, Between
  <2>2. <<Here>> \in Seq(Alphabet) /\ Here \in TokenTypes
    BY <1>1 DEF TokenTypes
  <2> QED BY <1>1, <2>1, <2>2, EmitKeepsValues
<1>3. CASE EndString
  <2>1. token.value \in Seq(Characters) /\ status = "none" /\ "STRING" \in TokenTypes
        /\ Emit("STRING", token.value, token.from, p)
    BY <1>3 DEF EndString, Reading, ValueInv, TokenTypes
  <2>2. token.value \in Strings
    BY <1>1, <2>1, ValueIsKnown
  <2> QED BY <1>1, <2>1, <2>2, EmitKeepsValues
<1>4. CASE EndNumber
  <2>1. token.value \in Seq(Digits \union {Minus}) /\ status = "none" /\ "NUMBER" \in TokenTypes
        /\ Emit("NUMBER", token.value, token.from, p - 1)
    BY <1>4 DEF EndNumber, Reading, ValueInv, TokenTypes
  <2>2. token.value \in Numbers
    BY <1>1, <2>1, ValueIsKnown
  <2> QED BY <1>1, <2>1, <2>2, EmitKeepsValues
<1>5. CASE EndWord
  <2> DEFINE type == keyword_lookup(token.value)
  <2>1. token.value \in Seq(WordCharacters) /\ status = "none"
        /\ Emit(type, token.value, token.from, p - 1)
    BY <1>5 DEF EndWord, Reading, ValueInv
  <2>2. token.value \in Identifiers
    BY <1>1, <2>1, ValueIsKnown
  <2>3. type \in TokenTypes /\ (type \in Plain \/ type = "IDENTIFIER")
    BY TypeAssumption DEF keyword_lookup, TokenTypes
  <2> HIDE DEF type
  <2> QED BY <1>1, <2>1, <2>2, <2>3, EmitKeepsValues
<1> QED BY <1>2, <1>3, <1>4, <1>5

(* ... the one that adds the EOF, and a refusal. *)
LEMMA TokenizerKeepsValues ==
  ASSUME TokenizerInv, ValueInv, Next
  PROVE  ValueInv' /\ status = "none"
<1>1. CASE SkipSpace \/ BeginString \/ BeginNumber \/ BeginWord \/ ReadCharacter
  BY <1>1, ReadKeepsValues
     DEF SkipSpace, BeginString, BeginNumber, BeginWord, ReadCharacter, AtToken, Between, GoesOn,
         Reading
<1>2. CASE ReadPunct \/ EndString \/ EndNumber \/ EndWord
  BY <1>2, EndKeepsValues
     DEF ReadPunct, EndString, EndNumber, EndWord, AtToken, Between, Reading
<1>3. CASE Finish
  <2> DEFINE t == [type |-> "EOF", value |-> <<>>, from |-> p, to |-> p - 1]
  <2>1. p \in Nat /\ <<>> \in Seq(Alphabet)
    BY WithinLine
  <2>2. t \in Finished /\ t.type = "EOF"
    BY <2>1 DEF Finished, TokenTypes
  <2>3. storage' = Append(storage, t) /\ UNCHANGED token /\ status = "none"
    BY <1>3 DEF Finish, Between
  <2> HIDE DEF t
  <2>4. Seen(t) \in Tokens /\ Seen(t).type = "EOF"
    BY <2>2, SeenTyping, TypeAssumption DEF Seen, Plain
  <2>5. /\ Len(storage') = Len(storage) + 1 /\ Len(storage) \in Nat
        /\ storage'[Len(storage')] = t
        /\ \A n \in 1..Len(storage') : Seen(storage'[n]) \in Tokens
    BY <2>2, <2>3, <2>4, SeenKeeps
  <2> QED BY <2>3, <2>4, <2>5 DEF ValueInv
<1>4. CASE TooManyTokens \/ InvalidCharacter \/ TokenTooLong \/ UnterminatedString
  BY <1>4 DEF TooManyTokens, InvalidCharacter, TokenTooLong, UnterminatedString, Return, AtToken,
              Between, GoesOn, Reading, ValueInv
<1> QED BY <1>1, <1>2, <1>3, <1>4 DEF Next

-----------------------------------------------------------------------------
(* Nothing has been read of a line that is not, or not yet, a statement. *)
Unread == p = 1 /\ token = NoToken /\ storage = <<>> /\ status = "none"

(* The inductive invariant: the tokenizer's, and how far the parser is *)
CliInv ==
  /\ TokenizerInv
  /\ ValueInv
  /\ tokens \in Seq(Tokens)
  /\ route \notin {"sql", "select"} => Unread
  /\ status # "TOKENIZE_OK" => tokens = <<>>
  /\ status = "TOKENIZE_OK" /\ parse_status = "none" => Len(tokens) < Len(storage)
  /\ route = "create" => argument \in Seq(Characters)

(* It holds at the prompt. *)
LEMMA InitCliInv == CliInit => CliInv
<1> SUFFICES ASSUME CliInit
             PROVE  CliInv
  OBVIOUS
<1>1. TokenizerInv /\ Unread /\ tokens = <<>> /\ route = "none"
  BY InitTokenizerInv DEF CliInit, Init, ParserInit, Unread
<1>2. ValueInv
  BY <1>1 DEF ValueInv, Unread, NoToken
<1> QED BY <1>1, <1>2 DEF CliInv, Unread

(* A line that is no statement leaves the tokenizer and the parser alone. *)
LEMMA MetaKeeps ==
  ASSUME CliInv,
         \/ IgnoreBlankLine \/ HandleExit \/ Usage \/ handle_create_table
         \/ handle_rebuild_index \/ HandleOther
  PROVE  CliInv' /\ UNCHANGED parserVars
<1>1. route = "none" /\ UNCHANGED vars /\ UNCHANGED parserVars
  BY DEF IgnoreBlankLine, HandleExit, Usage, handle_create_table, handle_rebuild_index,
         HandleOther, Leads, Stays
<1>2. UNCHANGED <<input, p, token, storage, status, tokens, parse_status>>
  BY <1>1 DEF vars, parserVars
<1>3. TokenizerInv'
  BY <1>1, TokenizerKeeps DEF CliInv
<1>4. ValueInv'
  BY <1>2 DEF CliInv, ValueInv, Seen
<1>5. Unread'
  BY <1>1, <1>2 DEF CliInv, Unread
<1>6. route' = "create" => argument' = Argument
  BY DEF IgnoreBlankLine, HandleExit, Usage, handle_create_table, handle_rebuild_index,
         HandleOther, Leads
<1>7. Argument \in Seq(Characters)
  BY ArgumentTyping DEF CliInv, TokenizerInv
<1> QED BY <1>1, <1>2, <1>3, <1>4, <1>5, <1>6, <1>7 DEF CliInv, Unread

(* A statement is tokenized from its first word, ... *)
LEMMA StartKeeps ==
  ASSUME CliInv, handle_sql_input
  PROVE  CliInv' /\ UNCHANGED parserVars
<1>1. /\ route = "none" /\ route' = "sql" /\ p' = First /\ UNCHANGED parserVars
      /\ UNCHANGED <<input, token, storage, status, tokens, parse_status>>
  BY DEF handle_sql_input, Leads, parserVars
<1>2. First \in 1..(Len(input) + 1)
  <2>1. 1 \in 1..End /\ input \in Seq(Characters)
    BY LenProperties DEF End, CliInv, TokenizerInv
  <2> QED BY <2>1, SkipWithin DEF First, End
<1>3. TokenizerInv'
  BY <1>1, <1>2 DEF CliInv, TokenizerInv, Room, HasRoom
<1>4. ValueInv'
  BY <1>1 DEF CliInv, ValueInv, Seen
<1> QED BY <1>1, <1>3, <1>4 DEF CliInv

(* ... and the SELECT from a new table is a line like others. *)
LEMMA SelectKeeps ==
  ASSUME CliInv, SelectFromCreated
  PROVE  CliInv' /\ UNCHANGED parserVars
<1>1. /\ Unread /\ argument \in Seq(Characters) /\ route' = "select" /\ UNCHANGED parserVars
      /\ UNCHANGED <<p, token, storage, status, tokens, parse_status>>
      /\ input' = SelectAllFrom \o argument \o <<Semicolon>>
  BY DEF SelectFromCreated, CliInv, parserVars
<1>2. <<Semicolon>> \in Seq(Characters)
  <2>1. Semicolon \in Characters
    BY SelectAssumption DEF Semicolon
  <2> QED BY <2>1
<1>3. SelectAllFrom \o argument \in Seq(Characters)
  BY <1>1, SelectAssumption, ConcatProperties
<1>4. input' \in Seq(Characters) /\ Len(input') \in Nat
  BY <1>1, <1>2, <1>3, ConcatProperties, LenProperties
<1>5. TokenizerInv'
  BY <1>1, <1>4 DEF CliInv, TokenizerInv, Room, HasRoom, Unread
<1>6. ValueInv'
  BY <1>1 DEF CliInv, ValueInv, Seen
<1> QED BY <1>1, <1>5, <1>6 DEF CliInv

(* The parser is not called before the tokenizer is done. *)
LEMMA TokenizeKeeps ==
  ASSUME CliInv, Tokenize
  PROVE  CliInv' /\ UNCHANGED parserVars
<1>1. /\ route \in {"sql", "select"} /\ Next /\ UNCHANGED <<route, argument, tokens, parse_status>>
      /\ UNCHANGED parserVars
  BY DEF Tokenize, parserVars
<1>2. TokenizerInv' /\ ValueInv' /\ status = "none"
  BY <1>1, TokenizerKeeps, TokenizerKeepsValues DEF CliInv
<1>3. tokens' = <<>> /\ Len(<<>>) = 0
  BY <1>1, <1>2 DEF CliInv
<1>4. status' = "TOKENIZE_OK" => Len(tokens') < Len(storage')
  <2>1. Len(storage') \in Nat
    BY <1>2, LenProperties DEF TokenizerInv
  <2> QED BY <1>2, <1>3, <2>1 DEF ValueInv
<1> QED BY <1>1, <1>2, <1>3, <1>4 DEF CliInv

(* The parser goes on from no end of the input, ... *)
LEMMA StopsAtEnd ==
  ASSUME NEW t, Step(t), parse_status' = "none"
  PROVE  t.type # "EOF"
<1> SUFFICES ASSUME t.type = "EOF"
             PROVE  FALSE
  OBVIOUS
<1>1. ~ExpectToken(t)
  BY DEF ExpectToken, Fixed
<1>2. ~missing_token_status(t) /\ ~AtEnd(t)
  BY DEF missing_token_status, AtEnd, Answer
<1> QED BY <1>1, <1>2 DEF Step, parse_tokens, ParseStar, ParseColumn, ParseTable, ParseWhere,
                         ParseCondition, ParseValue, ParseId, ParseName

(* ... and so takes its tokens from those stored. *)
LEMMA ParseKeeps ==
  ASSUME CliInv, Parse
  PROVE  CliInv' /\ ParserNext
<1>1. /\ route \in {"sql", "select"} /\ status = "TOKENIZE_OK" /\ UNCHANGED vars
      /\ UNCHANGED <<route, argument>>
  BY DEF Parse
<1>2. UNCHANGED <<input, p, token, storage, status>>
  BY <1>1 DEF vars
<1>3. TokenizerInv'
  BY <1>1, TokenizerKeeps DEF CliInv
<1>4. ValueInv'
  BY <1>2 DEF CliInv, ValueInv, Seen
<1>5. CASE semantic_validate
  <2>1. UNCHANGED <<tokens, parse_status>>
    BY <1>5 DEF semantic_validate
  <2> QED BY <1>1, <1>2, <1>3, <1>4, <1>5, <2>1 DEF CliInv, ParserNext
<1>6. CASE Step(Seen(storage[Len(tokens) + 1]))
  <2> DEFINE t == Seen(storage[Len(tokens) + 1])
  <2>1. Parsing(t)
    BY <1>6 DEF Step, ExpectToken, missing_token_status, AtEnd, parse_tokens, ParseStar,
                ParseColumn, ParseTable, ParseWhere, ParseCondition, ParseValue, ParseId, ParseName
  <2>2. /\ Len(tokens) \in Nat /\ Len(storage) \in Nat /\ Len(tokens) < Len(storage)
        /\ Len(tokens) + 1 \in 1..Len(storage)
    BY <1>1, <2>1, LenProperties DEF CliInv, TokenizerInv, Parsing
  <2>3. t \in Tokens
    BY <2>2 DEF CliInv, ValueInv
  <2>4. parse_status' = "none" => Len(tokens) + 1 # Len(storage)
    <3>1. Seen(storage[Len(storage)]).type = "EOF"
      BY <1>1 DEF CliInv, ValueInv
    <3>2. parse_status' = "none" => t.type # "EOF"
      BY <1>6, StopsAtEnd
    <3> QED BY <3>1, <3>2
  <2>5. tokens' = Append(tokens, t)
    BY <2>1 DEF Parsing
  <2>6. Step(t)
    BY <1>6
  <2> HIDE DEF t
  <2>7. tokens' \in Seq(Tokens) /\ Len(tokens') = Len(tokens) + 1
    BY <2>3, <2>5, AppendProperties DEF CliInv
  <2>8. parse_status' = "none" => Len(tokens') < Len(storage')
    BY <1>2, <2>2, <2>4, <2>7
  <2>9. ParserNext
    BY <2>3, <2>6 DEF ParserNext
  <2> QED BY <1>1, <1>2, <1>3, <1>4, <2>7, <2>8, <2>9 DEF CliInv
<1> QED BY <1>5, <1>6 DEF Parse

(* A step of the command line is one of the parser or leaves it alone. *)
LEMMA CliKeeps ==
  ASSUME CliInv, [CliNext]_cliVars
  PROVE  CliInv' /\ [ParserNext]_parserVars
<1>1. CASE UNCHANGED cliVars
  <2>1. UNCHANGED <<vars, parserVars, route, argument>>
    BY <1>1 DEF cliVars
  <2>2. UNCHANGED <<input, p, token, storage, status, tokens, parse_status, route, argument>>
    BY <2>1 DEF vars, parserVars
  <2>3. TokenizerInv'
    BY <2>1, TokenizerKeeps DEF CliInv
  <2>4. ValueInv'
    BY <2>2 DEF CliInv, ValueInv, Seen
  <2> QED BY <2>1, <2>2, <2>3, <2>4 DEF CliInv, Unread
<1> QED BY <1>1, MetaKeeps, StartKeeps, SelectKeeps, TokenizeKeeps, ParseKeeps DEF CliNext

-----------------------------------------------------------------------------
(* The invariant of the command line: among others, while the parser has   *)
(* not answered there is a token left, so that parser_peek never looks     *)
(* behind the array.                                                       *)
THEOREM CliInvariance == CliSpec => []CliInv
  BY InitCliInv, CliKeeps, PTL DEF CliSpec

(* What the command line does with the parser is what Parser may do on its *)
(* own: what is proved of that is true of the statements that are typed.   *)
THEOREM CommandLineUsesParser == CliSpec => ParserSpec
<1>1. CliInit => ParserInit
  BY DEF CliInit
<1> QED BY <1>1, CliInvariance, CliKeeps, PTL DEF CliSpec, ParserSpec

(* Neither a token's value nor the array of tokens is written past its     *)
(* end, whatever is typed.                                                 *)
THEOREM TokensFit == CliSpec => []TokenizerTypeOK
<1>1. CliInv => TokenizerTypeOK
  BY LenProperties DEF CliInv, TokenizerInv, TokenizerTypeOK
<1> QED BY CliInvariance, <1>1, PTL

(* Nor is a field of the AST. *)
THEOREM FieldsFit == CliSpec => []ParserTypeOK
  BY CommandLineUsesParser, NothingOverflows, PTL

(* A statement that was typed and validated meets what the executor takes  *)
(* for granted.                                                            *)
THEOREM StatementsRun == CliSpec => []ValidatedIsExecutable
  BY CommandLineUsesParser, ValidatedRuns, PTL

(* Whatever line was typed, the answer to it is true of its tokens, ...    *)
THEOREM AnswersTell == CliSpec => []StatusIsTrue
  BY CommandLineUsesParser, StatusTells, PTL

(* ... and what is executed is what the line says.                         *)
THEOREM StatementsSay == CliSpec => []AstIsMeaning
  BY CommandLineUsesParser, AstSays, PTL
-----------------------------------------------------------------------------
(* The line, once the command line hands it over *)

(* Skipping stops at the first character that is no space, or at the end.  *)
LEMMA SkipStops ==
  ASSUME input \in Seq(Characters), NEW i \in 1..End
  PROVE  /\ SkipSpaces(i) \in i..End /\ End = Len(input) + 1 /\ Len(input) \in Nat
         /\ \A j \in i..(SkipSpaces(i) - 1) : j \in 1..Len(input) /\ input[j] \in Spaces
         /\ SkipSpaces(i) # End =>
              SkipSpaces(i) \in 1..Len(input) /\ input[SkipSpaces(i)] \notin Spaces
<1> DEFINE stops == {j \in i..Len(input) : input[j] \notin Spaces} \union {End}
<1>1. Len(input) \in Nat /\ End = Len(input) + 1 /\ i \in Int
  BY LenProperties DEF End
<1>2. stops \subseteq Nat /\ stops # {} /\ End \in stops
  BY <1>1
<1>3. Min(stops) \in stops /\ \A j \in stops : Min(stops) <= j
  <2> HIDE DEF stops
  <2> QED BY <1>2, LeastPosition
<1>4. SkipSpaces(i) = Min(stops)
  BY DEF SkipSpaces
<1>5. \A j \in i..(Min(stops) - 1) : j \notin stops
  <2> TAKE j \in i..(Min(stops) - 1)
  <2>1. Min(stops) \in Nat
    BY <1>2, <1>3
  <2> HIDE DEF stops
  <2>2. ~(Min(stops) <= j)
    BY <1>1, <2>1
  <2> QED BY <1>3, <2>2
<1>6. /\ Min(stops) \in i..End
      /\ Min(stops) # End => Min(stops) \in 1..Len(input) /\ input[Min(stops)] \notin Spaces
  <2> DEFINE m == Min(stops)
  <2>1. m \in stops
    BY <1>3
  <2> HIDE DEF m
  <2>2. m \in i..End /\ (m # End => m \in 1..Len(input) /\ input[m] \notin Spaces)
    BY <1>1, <2>1
  <2> QED BY <2>2 DEF m
<1>7. \A j \in i..(Min(stops) - 1) : j \in 1..Len(input) /\ input[j] \in Spaces
  <2> DEFINE m == Min(stops)
  <2>1. m \in i..End
    BY <1>6
  <2>2. \A j \in i..(m - 1) : j \notin stops
    BY <1>5
  <2> HIDE DEF m
  <2>3. \A j \in i..(m - 1) : j \in 1..Len(input) /\ input[j] \in Spaces
    BY <1>1, <2>1, <2>2
  <2> QED BY <2>3 DEF m
<1> HIDE DEF stops
<1> QED BY <1>1, <1>4, <1>6, <1>7

(* A statement is handed over at its first character that is no space. *)
LEMMA StartText ==
  ASSUME CliInv, handle_sql_input
  PROVE  Fresh'
<1>1. /\ route = "none" /\ p' = First /\ UNCHANGED <<input, token, storage, status>>
  BY DEF handle_sql_input, Leads
<1>2. Unread /\ input \in Seq(Characters)
  BY <1>1 DEF CliInv, TokenizerInv
<1>3. /\ First \in 1..(Len(input) + 1)
      /\ \A j \in 1..(First - 1) : j \in 1..Len(input) /\ input[j] \in Spaces
  <2>1. 1 \in 1..End
    BY <1>2, LenProperties DEF End
  <2> QED BY <1>2, <2>1, SkipStops DEF First
<1>4. \A j \in 1..(First - 1) : At(j) \in Spaces
  BY <1>2, <1>3, CharacterAt
<1>5. \A j : At(j)' = At(j)
  BY <1>1, SameText
<1> QED BY <1>1, <1>2, <1>3, <1>4, <1>5 DEF Fresh, Unread

(* A new line is read from its beginning. *)
LEMMA SelectText ==
  ASSUME CliInv', SelectFromCreated, Unread
  PROVE  Fresh'
<1>1. p' = 1 /\ token' = NoToken /\ storage' = <<>> /\ status' = "none" /\ input' \in Seq(Characters)
  BY DEF SelectFromCreated, Unread, CliInv, TokenizerInv
<1>2. 1 \in 1..(Len(input') + 1)
  BY <1>1, LenProperties
<1> QED BY <1>1, <1>2 DEF Fresh

(* Every step of the command line keeps what is known of the text. *)
LEMMA CliKeepsText ==
  ASSUME CliInv, TextInv, [CliNext]_cliVars
  PROVE  TextInv'
<1>0. CliInv'
  BY CliKeeps
<1>1. Fresh' => TextInv'
  BY FreshText, PTL
<1>2. CASE handle_sql_input
  BY <1>1, <1>2, StartText
<1>3. CASE SelectFromCreated
  <2>1. Unread
    BY <1>3 DEF SelectFromCreated, CliInv
  <2> QED BY <1>0, <1>1, <1>3, <2>1, SelectText
<1>4. CASE ~handle_sql_input /\ ~SelectFromCreated
  <2>1. [Next]_vars
    BY <1>4 DEF CliNext, IgnoreBlankLine, HandleExit, Usage, handle_create_table, handle_rebuild_index,
                HandleOther, Stays, Tokenize, Parse, cliVars
  <2> QED BY <2>1, TextKeeps DEF CliInv
<1> QED BY <1>2, <1>3, <1>4

(* It holds at the prompt. *)
LEMMA InitText == CliInit => TextInv
<1> SUFFICES ASSUME CliInit
             PROVE  TextInv
  OBVIOUS
<1>1. CliInv
  BY InitCliInv
<1>2. Unread /\ input \in Seq(Characters) /\ 1 \in 1..(Len(input) + 1)
  BY <1>1, LenProperties DEF CliInit, Init, Unread, CliInv, TokenizerInv
<1>3. Fresh
  BY <1>2 DEF Fresh, Unread
<1> QED BY <1>3, FreshText

(* The text's invariant: what is stored are the tokens below the position. *)
THEOREM TextInvariance == CliSpec => []TextInv
  BY InitText, CliKeepsText, CliInvariance, PTL DEF CliSpec

(* Of all lines, of any length, tokenize accepts those whose characters,   *)
(* strings, tokens and their lengths are legal, and no others; it refuses  *)
(* one at its first fault, for what is wrong there, and gives no tokens.   *)
THEOREM LegalAccepted == CliSpec => []AcceptsExactly
<1>1. CliInv /\ TextInv => AcceptsExactly
  BY TextDecides DEF CliInv
<1> QED BY CliInvariance, TextInvariance, <1>1, PTL

(* The tokens of a line that is accepted are those of its text: all of     *)
(* them, in order, each as long as it goes, keywords told from names.      *)
THEOREM TokensSay == CliSpec => []TokensAreText
<1>1. CliInv /\ TextInv => TokensAreText
  BY TextGivesTokens DEF CliInv
<1> QED BY CliInvariance, TextInvariance, <1>1, PTL
-----------------------------------------------------------------------------
(* What a statement is, to the dispatcher and to the tokenizer *)

(* The tokenizer's side: the first token of the line is a statement's.     *)
SpeaksSql ==
  \E i \in Beginnings : /\ \A j \in Beginnings : i <= j
                        /\ \A j \in 1..(i - 1) : input[j] \in Spaces
                        /\ \E k \in Statements :
                             /\ Cardinality(Text(i)) = Len(k)
                             /\ Folded(SubSeq(input, i, i + Len(k) - 1)) = k

(* What is a keyword in lower case is of letters. *)
LEMMA KeywordOfLetters ==
  ASSUME NEW word, NEW k \in DOMAIN Keywords, Folded(word) = k
  PROVE  /\ DOMAIN word = 1..Len(k) /\ Len(k) \in Nat /\ Len(k) >= 1
         /\ \A c \in 1..Len(k) : word[c] \in Letters
<1>1. k \in Seq(Letters) /\ k # <<>>
  BY KeywordAssumption
<1>2. /\ Len(k) \in Nat /\ DOMAIN k = 1..Len(k) /\ Len(k) # 0
      /\ \A c \in 1..Len(k) : k[c] \in Letters
  BY <1>1, EmptySeq, LenProperties, ElementOfSeq
<1>3. DOMAIN word = DOMAIN k
  BY DEF Folded
<1>4. \A c \in DOMAIN word : word[c] \notin Letters => k[c] = word[c]
  BY DEF Folded
<1> QED BY <1>2, <1>3, <1>4

(* The characters of a word that begins with a letter are inside it. *)
LEMMA WordInside ==
  ASSUME input \in Seq(Characters), NEW i \in 1..Len(input), Begins(i), At(i) \in Letters,
         NEW last \in i..Len(input), \A c \in i..last : At(c) \in WordCharacters
  PROVE  \A j \in (i + 1)..last : Inside(i, j)
<1> TAKE j \in (i + 1)..last
<1>1. Len(input) \in Nat /\ j \in Int /\ At(j) \in WordCharacters /\ At(i) # Quote
  BY LenProperties, ClassAssumption DEF WordCharacters
<1>2. WordGoesOn(j)
  <2>1. i \in 1..(j - 1) /\ \A c \in i..(j - 1) : At(c) \in WordCharacters
    BY <1>1
  <2> QED BY <2>1 DEF WordGoesOn
<1>3. ~Begins(j)
  BY <1>1, <1>2, ClassAssumption DEF Begins, IsSignAt, WordCharacters
<1> QED BY <1>1, <1>3 DEF Inside, IsLegalAt

(* The characters from i to where a word of the line's ends *)
LEMMA PieceOfLine ==
  ASSUME input \in Seq(Characters), NEW i \in 1..Len(input), NEW last \in i..Len(input)
  PROVE  /\ DOMAIN SubSeq(input, i, last) = 1..(last - i + 1)
         /\ \A c \in i..last : SubSeq(input, i, last)[c - i + 1] = At(c) /\ c - i + 1 \in 1..(last - i + 1)
         /\ SubSeq(input, i, last) = Piece(i, last)
<1>1. Len(input) \in Nat /\ DOMAIN input = 1..Len(input)
  BY LenProperties
<1>2. SubSeq(input, i, last) = [c \in 1..(last - i + 1) |-> input[i + c - 1]]
  BY <1>1
<1>3. \A c \in i..last : c - i + 1 \in 1..(last - i + 1) /\ i + (c - i + 1) - 1 = c /\ c \in DOMAIN input
  BY <1>1
<1>4. \A c \in i..last : SubSeq(input, i, last)[c - i + 1] = At(c)
  BY <1>2, <1>3 DEF At
<1> QED BY <1>2, <1>3, <1>4 DEF Piece

(* What the dispatcher takes for a statement begins with one's token, ...  *)
LEMMA SqlSpeaks ==
  ASSUME input \in Seq(Characters), First # End, is_sql_statement
  PROVE  SpeaksSql
<1>1. /\ Len(input) \in Nat /\ DOMAIN input = 1..Len(input) /\ End = Len(input) + 1
      /\ First \in 1..Len(input) /\ \A j \in 1..(First - 1) : j \in 1..Len(input) /\ input[j] \in Spaces
  <2>1. 1 \in 1..End
    BY LenProperties DEF End
  <2> QED BY <2>1, SkipStops, LenProperties DEF First
<1>2. PICK k \in Statements :
        /\ Folded(SubSeq(input, First, Min({First + Len(k), End}) - 1)) = k
        /\ util_is_word_boundary(At(First + Len(k)))
  BY DEF is_sql_statement
<1>3. k \in DOMAIN Keywords /\ Len(k) \in Nat /\ Len(k) >= 1
  <2>1. k \in DOMAIN Keywords
    BY StatementAssumption
  <2> QED BY <1>2, <2>1, KeywordOfLetters
<1> DEFINE last == Min({First + Len(k), End}) - 1
<1>4. last \in First..Len(input)
  <2>1. /\ Min({First + Len(k), End}) \in {First + Len(k), End}
    <3>1. {First + Len(k), End} \subseteq Nat /\ {First + Len(k), End} # {}
      BY <1>1, <1>3
    <3> QED BY <3>1, LeastPosition
  <2>2. Min({First + Len(k), End}) <= End
    <3>1. {First + Len(k), End} \subseteq Nat /\ {First + Len(k), End} # {}
      BY <1>1, <1>3
    <3> QED BY <3>1, LeastPosition
  <2> QED BY <1>1, <1>3, <2>1, <2>2
<1>5. Folded(SubSeq(input, First, last)) = k
  BY <1>2
<1> HIDE DEF last
<1>6. /\ DOMAIN SubSeq(input, First, last) = 1..(last - First + 1)
      /\ \A c \in First..last : /\ SubSeq(input, First, last)[c - First + 1] = At(c)
                                /\ c - First + 1 \in 1..(last - First + 1)
  BY <1>1, <1>4, PieceOfLine
<1>7. /\ 1..(last - First + 1) = 1..Len(k)
      /\ \A c \in 1..Len(k) : SubSeq(input, First, last)[c] \in Letters
  BY <1>3, <1>5, <1>6, KeywordOfLetters
<1>8. last = First + Len(k) - 1
  BY <1>1, <1>3, <1>4, <1>7
<1>9. \A c \in First..last : At(c) \in Letters /\ At(c) \in WordCharacters
  BY <1>6, <1>7 DEF WordCharacters
<1>10. /\ Boundary(First) /\ \A j \in 1..(First - 1) : ~Begins(j)
  <2>1. \A j \in 1..(First - 1) : At(j) \in Spaces
    BY <1>1, CharacterAt
  <2>2. First \in 1..(Len(input) + 1)
    BY <1>1
  <2> QED BY <2>1, <2>2, BoundaryFirst
<1>11. At(First) \in Letters /\ Begins(First) /\ First \in Beginnings
  <2>1. First \in First..last
    BY <1>1, <1>4
  <2>2. Begins(First)
    BY <1>9, <1>10, <2>1, BoundaryBegins
  <2> QED BY <1>1, <1>9, <2>1, <2>2 DEF Beginnings
<1>12. Text(First) = First..last
  <2> DEFINE q == last + 1
  <2>1. \A j \in (First + 1)..last : Inside(First, j)
    BY <1>1, <1>4, <1>9, <1>11, WordInside
  <2>2. q \in (First + 1)..(Len(input) + 1) /\ q - 1 = last /\ q = First + Len(k)
    BY <1>1, <1>3, <1>4, <1>8
  <2> HIDE DEF q
  <2>3. At(q) \notin WordCharacters
    BY <1>2, <2>2 DEF util_is_word_boundary
  <2>4. At(First) # Quote
    BY <1>11, ClassAssumption DEF WordCharacters
  <2>5. \A j \in (First + 1)..(q - 1) : Inside(First, j)
    BY <2>1, <2>2
  <2>6. Text(First) = First..(q - 1)
    BY <1>1, <2>2, <2>3, <2>4, <2>5, OtherText
  <2> QED BY <2>2, <2>6
<1>13. Cardinality(Text(First)) = Len(k)
  <2>1. Cardinality(First..last) = IF First > last THEN 0 ELSE last - First + 1
    BY <1>1, <1>4, FS_Interval
  <2> QED BY <1>1, <1>3, <1>8, <1>12, <2>1
<1>14. \A j \in Beginnings : First <= j
  <2> TAKE j \in Beginnings
  <2>1. Begins(j) /\ j \in 1..Len(input)
    BY <1>1 DEF Beginnings
  <2> QED BY <1>1, <1>10, <2>1
<1> QED BY <1>1, <1>5, <1>8, <1>11, <1>13, <1>14 DEF SpeaksSql

(* A position in whose text a keyword has its place *)
LEMMA WordFits ==
  ASSUME input \in Seq(Characters), NEW i \in Beginnings, NEW k \in DOMAIN Keywords,
         Cardinality(Text(i)) = Len(k), Folded(SubSeq(input, i, i + Len(k) - 1)) = k
  PROVE  /\ Len(k) \in Nat /\ Len(k) >= 1 /\ i \in 1..Len(input) /\ Len(input) \in Nat
         /\ i + Len(k) - 1 \in i..Len(input) /\ Begins(i)
         /\ \A c \in i..(i + Len(k) - 1) : At(c) \in Letters
<1>1. /\ Len(input) \in Nat /\ DOMAIN input = 1..Len(input) /\ i \in 1..Len(input) /\ Begins(i)
      /\ Len(k) \in Nat /\ Len(k) >= 1
      /\ \A c \in 1..Len(k) : SubSeq(input, i, i + Len(k) - 1)[c] \in Letters
  BY LenProperties, KeywordOfLetters DEF Beginnings
<1>2. Len(k) <= Len(input) - i + 1
  <2>1. /\ IsFiniteSet(i..Len(input))
        /\ Cardinality(i..Len(input)) = IF i > Len(input) THEN 0 ELSE Len(input) - i + 1
    BY <1>1, FS_Interval
  <2>2. Text(i) \subseteq i..Len(input)
    BY TextWithin
  <2>3. Cardinality(Text(i)) <= Cardinality(i..Len(input))
    BY <2>1, <2>2, FS_Subset
  <2> QED BY <1>1, <2>1, <2>3
<1>3. i + Len(k) - 1 \in i..Len(input)
  BY <1>1, <1>2
<1> DEFINE last == i + Len(k) - 1
<1>4. last \in i..Len(input) /\ last - i + 1 = Len(k)
  BY <1>1, <1>3
<1>5. \A c \in 1..Len(k) : SubSeq(input, i, last)[c] \in Letters
  BY <1>1
<1> HIDE DEF last
<1>6. \A c \in i..last : At(c) \in Letters
  BY <1>1, <1>4, <1>5, PieceOfLine
<1>7. \A c \in i..(i + Len(k) - 1) : At(c) \in Letters
  BY <1>6 DEF last
<1> QED BY <1>1, <1>3, <1>7

(* ... and a line that begins with such a token is taken for one. *)
LEMMA SpeaksToSql ==
  ASSUME input \in Seq(Characters), SpeaksSql
  PROVE  First # End /\ is_sql_statement
<1>1. PICK i \in Beginnings : /\ \A j \in 1..(i - 1) : input[j] \in Spaces
                              /\ \E k \in Statements :
                                   /\ Cardinality(Text(i)) = Len(k)
                                   /\ Folded(SubSeq(input, i, i + Len(k) - 1)) = k
  BY DEF SpeaksSql
<1>2. PICK k \in Statements : /\ Cardinality(Text(i)) = Len(k)
                              /\ Folded(SubSeq(input, i, i + Len(k) - 1)) = k
  BY <1>1
<1> DEFINE q == i + Len(k)
<1>3. /\ Len(k) \in Nat /\ Len(k) >= 1 /\ i \in 1..Len(input) /\ Len(input) \in Nat
      /\ q - 1 \in i..Len(input) /\ Begins(i)
      /\ \A c \in i..(q - 1) : At(c) \in Letters
  <2>1. k \in DOMAIN Keywords
    BY StatementAssumption
  <2> QED BY <1>2, <2>1, WordFits
<1>4. First = i /\ First # End /\ End = Len(input) + 1
  <2>1. 1 \in 1..End
    BY <1>3 DEF End
  <2>2. /\ First \in 1..End /\ End = Len(input) + 1
        /\ \A j \in 1..(First - 1) : input[j] \in Spaces
        /\ First # End => First \in 1..Len(input) /\ input[First] \notin Spaces
    BY <2>1, SkipStops DEF First
  <2>3. input[i] \notin Spaces
    <3>1. At(i) \in Letters /\ At(i) = input[i]
      BY <1>3, CharacterAt
    <3> QED BY <3>1, ClassAssumption DEF WordCharacters
  <2>4. ~(i < First)
    BY <1>3, <2>2, <2>3
  <2>5. ~(First < i)
    BY <1>1, <1>3, <2>2
  <2> QED BY <1>3, <2>2, <2>4, <2>5
<1>5. At(q) \notin WordCharacters
  <2> SUFFICES ASSUME At(q) \in WordCharacters
               PROVE  FALSE
    OBVIOUS
  <2>1. q \in i..Len(input) /\ q \in Int
    BY <1>3, CharacterAt, NulIsNone
  <2>2. \A c \in i..q : At(c) \in WordCharacters
    <3> HIDE DEF q
    <3> TAKE c \in i..q
    <3>1. c \in i..(q - 1) \/ c = q
      BY <1>3, <2>1
    <3> QED BY <1>3, <3>1 DEF WordCharacters
  <2>3. At(i) \in Letters /\ At(i) # Quote
    BY <1>3, ClassAssumption DEF WordCharacters
  <2> HIDE DEF q
  <2>4. \A j \in (i + 1)..q : Inside(i, j)
    BY <1>3, <2>1, <2>2, <2>3, WordInside
  <2>5. i..q \subseteq Text(i)
    <3> SUFFICES ASSUME NEW j \in i..q
                 PROVE  j \in Text(i)
      OBVIOUS
    <3>1. j \in i..Len(input) /\ \A c \in (i + 1)..j : Inside(i, c)
      BY <1>3, <2>1, <2>4
    <3> QED BY <1>3, <2>3, <3>1, InsideText
  <2>6. Cardinality(i..q) <= Cardinality(Text(i))
    <3>1. IsFiniteSet(Text(i))
      BY Positions
    <3> QED BY <2>5, <3>1, FS_Subset
  <2>7. Cardinality(i..q) = IF i > q THEN 0 ELSE q - i + 1
    BY <1>3, <2>1, FS_Interval
  <2> QED BY <1>2, <1>3, <2>1, <2>6, <2>7 DEF q
<1>6. Min({First + Len(k), End}) = q
  <2>1. {First + Len(k), End} \subseteq Nat /\ {First + Len(k), End} # {} /\ q <= End
        /\ First + Len(k) = q /\ q \in Nat /\ End \in Nat
    BY <1>3, <1>4
  <2> DEFINE m == Min({First + Len(k), End})
  <2>2. m \in {First + Len(k), End} /\ m <= First + Len(k)
    BY <2>1, LeastPosition
  <2> HIDE DEF m
  <2>3. m = q
    BY <2>1, <2>2
  <2> QED BY <2>3 DEF m
<1>7. is_sql_statement
  <2>1. First + Len(k) = q /\ i + Len(k) - 1 = q - 1
    BY <1>3, <1>4
  <2>2. Folded(SubSeq(input, First, q - 1)) = k
    BY <1>2, <1>4, <2>1
  <2> HIDE DEF q
  <2>3. /\ Folded(SubSeq(input, First, Min({First + Len(k), End}) - 1)) = k
        /\ util_is_word_boundary(At(First + Len(k)))
    BY <1>5, <1>6, <2>1, <2>2 DEF util_is_word_boundary
  <2> QED BY <2>3 DEF is_sql_statement
<1> QED BY <1>4, <1>7
(* The line does not change what it is, ... *)
LEMMA SpeaksSame ==
  ASSUME input' = input
  PROVE  SpeaksSql' <=> SpeaksSql
<1>1. Beginnings' = Beginnings /\ \A i : Text(i)' = Text(i)
  BY SameText
<1>2. \A i : (\E k \in Statements : /\ Cardinality(Text(i)) = Len(k)
                                      /\ Folded(SubSeq(input, i, i + Len(k) - 1)) = k)'
              <=> \E k \in Statements : /\ Cardinality(Text(i)) = Len(k)
                                        /\ Folded(SubSeq(input, i, i + Len(k) - 1)) = k
  BY <1>1
<1>3. \A i : (\A j \in 1..(i - 1) : input[j] \in Spaces)' <=> \A j \in 1..(i - 1) : input[j] \in Spaces
  OBVIOUS
<1> QED BY <1>1, <1>2, <1>3 DEF SpeaksSql

(* ... and it was handed to where it belongs. *)
Dispatched == route \notin {"none", "select"} => (route = "sql" <=> SpeaksSql)

(* Every step keeps it, since the two sides agree. *)
LEMMA DispatchKeeps ==
  ASSUME CliInv, Dispatched, [CliNext]_cliVars
  PROVE  Dispatched'
<1>1. input \in Seq(Characters)
  BY DEF CliInv, TokenizerInv
<1>2. CASE handle_sql_input
  <2>1. route' = "sql" /\ input' = input /\ SpeaksSql
    BY <1>1, <1>2, SqlSpeaks DEF handle_sql_input, Leads
  <2> QED BY <2>1, SpeaksSame DEF Dispatched
<1>3. CASE \/ IgnoreBlankLine \/ HandleExit \/ Usage \/ handle_create_table
           \/ handle_rebuild_index \/ HandleOther
  <2>1. First = End \/ ~is_sql_statement
    BY <1>3 DEF IgnoreBlankLine, HandleExit, Usage, handle_create_table, handle_rebuild_index,
                HandleOther, Meta
  <2>2. ~SpeaksSql
    BY <1>1, <2>1, SpeaksToSql
  <2>3. input' = input /\ route' # "sql"
    BY <1>3 DEF IgnoreBlankLine, HandleExit, Usage, handle_create_table, handle_rebuild_index,
                HandleOther, Leads, Stays, vars
  <2> QED BY <2>2, <2>3, SpeaksSame DEF Dispatched
<1>4. CASE SelectFromCreated
  BY <1>4 DEF SelectFromCreated, Dispatched
<1>5. CASE Tokenize
  <2>1. route' = route /\ input' = input
    BY <1>5 DEF Tokenize, Next, SkipSpace, ReadPunct, BeginString, BeginNumber, BeginWord,
                InvalidCharacter, TooManyTokens, Finish, ReadCharacter, TokenTooLong, EndString,
                UnterminatedString, EndNumber, EndWord, Emit, Return, BeginToken
  <2> QED BY <2>1, SpeaksSame DEF Dispatched
<1>6. CASE Parse \/ UNCHANGED cliVars
  <2>1. route' = route /\ input' = input
    BY <1>6 DEF Parse, cliVars, vars
  <2> QED BY <2>1, SpeaksSame DEF Dispatched
<1> QED BY <1>2, <1>3, <1>4, <1>5, <1>6 DEF CliNext

(* The first token of such a line is its statement's keyword. *)
LEMMA FirstToken ==
  ASSUME TokenizerInv, TextInv, SpeaksSql, status = "TOKENIZE_OK"
  PROVE  storage[1].type \in {Keywords[k] : k \in Statements}
<1>1. PICK i \in Beginnings : /\ \A j \in Beginnings : i <= j
                              /\ \E k \in Statements :
                                   /\ Cardinality(Text(i)) = Len(k)
                                   /\ Folded(SubSeq(input, i, i + Len(k) - 1)) = k
  BY DEF SpeaksSql
<1>2. PICK k \in Statements : /\ Cardinality(Text(i)) = Len(k)
                              /\ Folded(SubSeq(input, i, i + Len(k) - 1)) = k
  BY <1>1
<1> DEFINE n == Len(storage) - 1
           last == i + Len(k) - 1
<1>3. k \in DOMAIN Keywords /\ input \in Seq(Characters)
  BY StatementAssumption DEF TokenizerInv
<1>4. /\ Len(k) \in Nat /\ Len(k) >= 1 /\ i \in 1..Len(input) /\ Len(input) \in Nat
      /\ last \in i..Len(input) /\ Begins(i)
      /\ \A c \in i..last : At(c) \in Letters
  BY <1>2, <1>3, WordFits
<1>5. n \in Nat /\ TokensTo(storage, n, p) /\ Below(p) = Beginnings
  BY AcceptedLegal
<1> HIDE DEF n
<1>6. PICK m \in 1..n : storage[m].from = i
  <2>1. i \in {storage[m].from : m \in 1..n}
    BY <1>5 DEF TokensTo
  <2> QED BY <2>1
<1>7. m = 1
  <2> SUFFICES ASSUME m # 1
               PROVE  FALSE
    OBVIOUS
  <2>1. m \in 2..n /\ m - 1 \in 1..n
    BY <1>5, <1>6
  <2>2. storage[m - 1].to < i
    BY <1>5, <1>6, <2>1 DEF TokensTo
  <2>3. IsToken(storage[m - 1])
    BY <1>5, <2>1 DEF TokensTo
  <2>4. /\ storage[m - 1].from \in Beginnings /\ storage[m - 1].to \in storage[m - 1].from..Len(input)
    BY <2>3 DEF IsToken
  <2>5. i <= storage[m - 1].from /\ storage[m - 1].from \in 1..Len(input)
    BY <1>1, <1>3, <2>4, Positions
  <2> QED BY <1>4, <2>2, <2>4, <2>5
<1>8. IsToken(storage[1]) /\ storage[1].from = i
  BY <1>5, <1>6, <1>7 DEF TokensTo
<1>9. At(i) \in Letters /\ At(i) # Quote
  <2>1. i \in i..last
    BY <1>4
  <2>2. At(i) \in Letters
    BY <1>4, <2>1
  <2> QED BY <2>2, ClassAssumption DEF WordCharacters
<1>10. storage[1].type = keyword_lookup(storage[1].value)
  BY <1>8, <1>9 DEF IsToken, IsKind
<1>11. storage[1].value = SubSeq(input, i, last)
  <2>1. PICK to \in i..Len(input) : Text(i) = i..to /\ storage[1].value = Piece(i, to)
    BY <1>8, <1>9 DEF IsToken
  <2>2. to \in Int /\ i \in Int /\ i <= to
    BY <1>4
  <2>3. Cardinality(i..to) = to - i + 1
    <3>1. Cardinality(i..to) = IF i > to THEN 0 ELSE to - i + 1
      BY <2>2, FS_Interval
    <3> QED BY <2>2, <3>1
  <2>4. Len(k) = to - i + 1
    BY <1>2, <2>1, <2>3
  <2>5. to = last
    BY <1>4, <2>2, <2>4
  <2> HIDE DEF last
  <2> QED BY <1>3, <1>4, <2>1, <2>5, PieceOfLine
<1>12. Folded(storage[1].value) = k
  BY <1>2, <1>11
<1> QED BY <1>3, <1>10, <1>12 DEF keyword_lookup

(* A line is taken for SQL exactly if its first token is SELECT or INSERT, *)
(* so that the dispatcher, which compares letters, and the tokenizer agree *)
(* on every line.                                                          *)
THEOREM DispatchIsRight == CliSpec => []DispatchAgrees
<1>1. CliInit => Dispatched
  BY DEF CliInit, Dispatched
<1>2. CliSpec => []Dispatched
  BY <1>1, DispatchKeeps, CliInvariance, PTL DEF CliSpec
<1>3. CliInv /\ TextInv /\ Dispatched => DispatchAgrees
  <2> SUFFICES ASSUME CliInv, TextInv, Dispatched
               PROVE  DispatchAgrees
    OBVIOUS
  <2>1. route = "sql" /\ status = "TOKENIZE_OK" => storage[1].type \in {Keywords[k] : k \in Statements}
    BY FirstToken DEF CliInv, Dispatched
  <2> QED BY <2>1 DEF DispatchAgrees, Dispatched, SpeaksSql
<1> QED BY <1>2, <1>3, CliInvariance, TextInvariance, PTL
-----------------------------------------------------------------------------
(* The words of a meta command *)

(* A stretch of the line has its length and is of its characters.          *)
LEMMA StretchOfLine ==
  ASSUME input \in Seq(Characters), NEW i \in 1..End, NEW e \in i..End
  PROVE  Len(SubSeq(input, i, e - 1)) = e - i /\ SubSeq(input, i, e - 1) \in Seq(Characters)
<1>1. /\ Len(input) \in Nat /\ End = Len(input) + 1
      /\ \A j \in 1..Len(input) : input[j] \in Characters
  BY LenProperties, ElementOfSeq DEF End
<1>2. \A j \in i..(e - 1) : input[j] \in Characters
  BY <1>1
<1>3. e - 1 \in Int /\ i \in Int /\ e - 1 - i + 1 = e - i /\ e - i \in Nat
  BY <1>1
<1>4. SubSeq(input, i, e - 1) \in Seq(Characters)
  BY <1>1, <1>2, <1>3, SubSeqProperties
<1>5. SubSeq(input, i, e - 1) = [k \in 1..(e - 1 - i + 1) |-> input[i + k - 1]]
  BY <1>1
<1>6. Len(SubSeq(input, i, e - 1)) = e - i
  <2> DEFINE n == e - i
  <2>1. SubSeq(input, i, e - 1) = [k \in 1..n |-> input[i + k - 1]] /\ n \in Nat
    BY <1>3, <1>5
  <2> HIDE DEF n
  <2>2. Len(SubSeq(input, i, e - 1)) = n
    BY <2>1
  <2> QED BY <2>2 DEF n
<1> QED BY <1>4, <1>6

(* A word is read to the space behind it, to the end, or as far as it may. *)
LEMMA WordStopsAt ==
  ASSUME input \in Seq(Characters), NEW i \in 1..End
  PROVE  /\ ReadOf(i) \in i..End /\ ReadOf(i) - i <= WordMax
         /\ \A j \in i..(ReadOf(i) - 1) : input[j] \notin Spaces
         /\ ReadOf(i) - i < WordMax /\ ReadOf(i) # End => input[ReadOf(i)] \in Spaces
         /\ Len(Word(i)) = ReadOf(i) - i /\ Word(i) \in Seq(Characters)
<1> DEFINE stops == {j \in i..Len(input) : input[j] \in Spaces} \union {i + WordMax, End}
           e == Min(stops)
<1>1. Len(input) \in Nat /\ End = Len(input) + 1 /\ WordMax \in Nat /\ i \in Nat
  BY LenProperties, WordAssumption DEF End
<1>2. stops \subseteq Nat /\ stops # {} /\ i + WordMax \in stops
  BY <1>1
<1>3. e \in stops /\ \A j \in stops : e <= j
  <2> HIDE DEF stops
  <2> QED BY <1>2, LeastPosition
<1>4. ReadOf(i) = e
  BY DEF ReadOf
<1>5. e \in i..End
  BY <1>4, WordWithin
<1> HIDE DEF e
<1>6. e - i <= WordMax
  BY <1>1, <1>2, <1>3, <1>5
<1>7. \A j \in i..(e - 1) : input[j] \notin Spaces
  <2> SUFFICES ASSUME NEW j \in i..(e - 1), input[j] \in Spaces
               PROVE  FALSE
    OBVIOUS
  <2>1. j \in stops
    BY <1>1, <1>5
  <2> QED BY <1>1, <1>3, <1>5, <2>1
<1>8. e - i < WordMax /\ e # End => input[e] \in Spaces
  BY <1>1, <1>3, <1>5
<1>9. Len(SubSeq(input, i, e - 1)) = e - i /\ SubSeq(input, i, e - 1) \in Seq(Characters)
  BY <1>5, StretchOfLine
<1> HIDE DEF stops
<1> QED BY <1>4, <1>5, <1>6, <1>7, <1>8, <1>9 DEF Word

(* A whole word, to the space behind it or the end *)
LEMMA WholeStopsAt ==
  ASSUME input \in Seq(Characters), NEW i \in 1..End
  PROVE  \E w \in i..End : /\ Whole(i) = SubSeq(input, i, w - 1) /\ Len(Whole(i)) = w - i
                           /\ Whole(i) \in Seq(Characters)
                           /\ \A j \in i..(w - 1) : input[j] \notin Spaces
                           /\ w # End => input[w] \in Spaces
<1> DEFINE stops == {j \in i..Len(input) : input[j] \in Spaces} \union {End}
           w == Min(stops)
<1>1. Len(input) \in Nat /\ End = Len(input) + 1 /\ i \in Nat
  BY LenProperties DEF End
<1>2. stops \subseteq Nat /\ stops # {} /\ End \in stops
  BY <1>1
<1>3. w \in stops /\ \A j \in stops : w <= j
  <2> HIDE DEF stops
  <2> QED BY <1>2, LeastPosition
<1>4. Whole(i) = SubSeq(input, i, w - 1)
  BY DEF Whole
<1> HIDE DEF w
<1>5. w \in i..End /\ (w # End => input[w] \in Spaces)
  BY <1>1, <1>3
<1>6. \A j \in i..(w - 1) : input[j] \notin Spaces
  <2> SUFFICES ASSUME NEW j \in i..(w - 1), input[j] \in Spaces
               PROVE  FALSE
    OBVIOUS
  <2>1. j \in stops
    BY <1>1, <1>5
  <2> QED BY <1>1, <1>3, <1>5, <2>1
<1>7. Len(SubSeq(input, i, w - 1)) = w - i /\ SubSeq(input, i, w - 1) \in Seq(Characters)
  BY <1>5, StretchOfLine
<1> HIDE DEF stops
<1> QED BY <1>4, <1>5, <1>6, <1>7

(* Removing the semicolon takes one character at most. *)
LEMMA RemoveLength ==
  ASSUME NEW word \in Seq(Characters)
  PROVE  /\ Len(word) \in Nat /\ Len(remove_trailing_semicolon(word)) \in Nat
         /\ Len(word) <= Len(remove_trailing_semicolon(word)) + 1
         /\ Len(word) = 0 => remove_trailing_semicolon(word) = <<>>
<1>1. Len(word) \in Nat /\ (Len(word) = 0 => word = <<>>) /\ (word # <<>> => Len(word) # 0)
  BY EmptySeq, LenProperties
<1>2. CASE word # <<>> /\ word[Len(word)] = Semicolon
  <2>1. remove_trailing_semicolon(word) = SubSeq(word, 1, Len(word) - 1)
    BY <1>2 DEF remove_trailing_semicolon
  <2> DEFINE n == Len(word) - 1
  <2>2. n \in Nat /\ n <= Len(word)
    BY <1>1, <1>2
  <2>3. SubSeq(word, 1, n) = [k \in 1..(n - 1 + 1) |-> word[1 + k - 1]] /\ n - 1 + 1 = n
    BY <2>2
  <2> HIDE DEF n
  <2>4. Len(SubSeq(word, 1, n)) = n
    BY <2>2, <2>3
  <2> QED BY <1>1, <1>2, <2>1, <2>2, <2>4 DEF n
<1>3. CASE ~(word # <<>> /\ word[Len(word)] = Semicolon)
  <2>1. remove_trailing_semicolon(word) = word
    BY <1>3 DEF remove_trailing_semicolon
  <2> QED BY <1>1, <2>1
<1> QED BY <1>2, <1>3

(* The second word of the line, as it stands *)
SecondName == remove_trailing_semicolon(Whole(Min(WordStarts \ {Min(WordStarts)})))

(* The argument of a command is that word: all of it, or too long for a    *)
(* name as the word is.                                                    *)
LEMMA ArgumentIsSecond ==
  ASSUME input \in Seq(Characters), First # End, Command \in DOMAIN Commands, Argument # <<>>
  PROVE  /\ Cardinality(WordStarts) >= 2
         /\ storage_valid_table_name(SecondName) => Argument = SecondName
         /\ storage_valid_table_name(Argument) => storage_valid_table_name(SecondName)
<1> DEFINE f == First
           e == ReadOf(f)
           s == SkipSpaces(e)
<1>1. /\ Len(input) \in Nat /\ End = Len(input) + 1 /\ DOMAIN input = 1..Len(input)
      /\ f \in 1..Len(input) /\ f \in 1..End /\ input[f] \notin Spaces
      /\ \A j \in 1..(f - 1) : j \in 1..Len(input) /\ input[j] \in Spaces
  <2>1. 1 \in 1..End
    BY LenProperties DEF End
  <2> QED BY <2>1, SkipStops, LenProperties DEF First
<1>2. /\ e \in f..End /\ e \in 1..End /\ e - f < WordMax
      /\ \A j \in f..(e - 1) : input[j] \notin Spaces
      /\ e # End => input[e] \in Spaces
  <2>1. /\ e \in f..End /\ e - f <= WordMax
        /\ \A j \in f..(e - 1) : input[j] \notin Spaces
        /\ e - f < WordMax /\ e # End => input[e] \in Spaces
        /\ Len(Word(f)) = e - f /\ Word(f) \in Seq(Characters)
    BY <1>1, WordStopsAt
  <2>2. Len(Command) + 1 < WordMax
    BY CommandAssumption
  <2>3. Len(Word(f)) <= Len(Command) + 1 /\ Len(Command) \in Nat
    BY <2>1, RemoveLength DEF Command
  <2>4. e - f < WordMax
    BY <1>1, <2>1, <2>2, <2>3, WordAssumption
  <2>5. e \in 1..End
    BY <1>1, <2>1
  <2> QED BY <2>1, <2>4, <2>5
<1> HIDE DEF f, e
<1>3. /\ s \in e..End /\ s \in 1..End
      /\ \A j \in e..(s - 1) : j \in 1..Len(input) /\ input[j] \in Spaces
      /\ s # End => s \in 1..Len(input) /\ input[s] \notin Spaces
  <2>1. /\ s \in e..End
        /\ \A j \in e..(s - 1) : j \in 1..Len(input) /\ input[j] \in Spaces
        /\ s # End => s \in 1..Len(input) /\ input[s] \notin Spaces
    BY <1>2, SkipStops
  <2>2. s \in 1..End
    BY <1>1, <1>2, <2>1
  <2> QED BY <2>1, <2>2
<1>4. Argument = remove_trailing_semicolon(Word(s))
  BY DEF Argument, f, e
<1> HIDE DEF s
<1>5. /\ ReadOf(s) \in s..End /\ ReadOf(s) - s <= WordMax
      /\ \A j \in s..(ReadOf(s) - 1) : input[j] \notin Spaces
      /\ ReadOf(s) - s < WordMax /\ ReadOf(s) # End => input[ReadOf(s)] \in Spaces
      /\ Len(Word(s)) = ReadOf(s) - s /\ Word(s) \in Seq(Characters)
  BY <1>3, WordStopsAt
<1>6. s # End
  <2> SUFFICES ASSUME s = End
               PROVE  FALSE
    OBVIOUS
  <2>1. Len(Word(s)) = 0
    BY <1>1, <1>5
  <2> QED BY <1>4, <1>5, <2>1, RemoveLength
<1>7. /\ e \in 1..Len(input) /\ input[e] \in Spaces /\ s \in (e + 1)..Len(input) /\ input[s] \notin Spaces
      /\ f < e
  <2>1. e # End
    BY <1>1, <1>2, <1>3, <1>6
  <2> QED BY <1>1, <1>2, <1>3, <1>6, <2>1
<1>8. f \in WordStarts /\ s \in WordStarts
  <2>1. f = 1 \/ At(f - 1) \in Spaces
    <3>1. f # 1 => f - 1 \in 1..(f - 1) /\ f - 1 \in Int
      BY <1>1
    <3> QED BY <1>1, <3>1, CharacterAt
  <2>2. At(s - 1) \in Spaces
    <3>1. s - 1 \in e..(s - 1) /\ s - 1 \in Int
      BY <1>1, <1>7
    <3> QED BY <1>3, <3>1, CharacterAt
  <2> QED BY <1>1, <1>3, <1>6, <2>1, <2>2 DEF WordStarts
<1>9. \A i \in WordStarts : i \in 1..Len(input) /\ (i = f \/ s <= i)
  <2> TAKE i \in WordStarts
  <2>1. i \in 1..Len(input) /\ input[i] \notin Spaces /\ (i = 1 \/ At(i - 1) \in Spaces)
    BY <1>1 DEF WordStarts
  <2>2. ~(i < f)
    BY <1>1, <2>1
  <2>3. ~(f < i /\ i < e)
    <3> SUFFICES ASSUME f < i, i < e
                 PROVE  FALSE
      OBVIOUS
    <3>1. i - 1 \in f..(e - 1) /\ i - 1 \in 1..Len(input) /\ i - 1 \in Int /\ i # 1
      BY <1>1, <1>7, <2>1
    <3>2. At(i - 1) = input[i - 1]
      BY <3>1, CharacterAt
    <3> QED BY <1>2, <2>1, <3>1, <3>2
  <2>4. ~(e <= i /\ i < s)
    BY <1>3, <1>7, <2>1
  <2> QED BY <1>1, <1>7, <2>1, <2>2, <2>3, <2>4
<1>10. Min(WordStarts) = f
  <2>1. WordStarts \subseteq Nat /\ WordStarts # {}
    BY <1>8, <1>9
  <2> DEFINE m == Min(WordStarts)
  <2>2. m \in WordStarts /\ m <= f
    BY <1>8, <2>1, LeastPosition
  <2> HIDE DEF m
  <2>3. m = f
    BY <1>1, <1>7, <1>9, <2>2
  <2> QED BY <2>3 DEF m
<1>11. Min(WordStarts \ {f}) = s
  <2>1. WordStarts \ {f} \subseteq Nat /\ s \in WordStarts \ {f}
    BY <1>1, <1>7, <1>8, <1>9
  <2> DEFINE m == Min(WordStarts \ {f})
  <2>2. m \in WordStarts \ {f} /\ m <= s
    BY <2>1, LeastPosition
  <2> HIDE DEF m
  <2>3. m = s
    BY <1>7, <1>9, <2>2
  <2> QED BY <2>3 DEF m
<1>12. SecondName = remove_trailing_semicolon(Whole(s))
  BY <1>10, <1>11 DEF SecondName
<1>13. Cardinality(WordStarts) >= 2
  <2>1. IsFiniteSet(WordStarts) /\ Cardinality(WordStarts) \in Nat
    <3>1. WordStarts \subseteq 1..Len(input)
      BY <1>9
    <3> QED BY <3>1, Positions
  <2>2. IsFiniteSet({f}) /\ Cardinality({f}) = 1
    BY FS_Singleton
  <2>3. s \notin {f}
    BY <1>1, <1>7
  <2>4. Cardinality({f} \union {s}) = 2
    <3>1. Cardinality({f} \union {s}) = IF s \in {f} THEN Cardinality({f}) ELSE Cardinality({f}) + 1
      BY <2>2, FS_AddElement
    <3>2. Cardinality({f} \union {s}) = Cardinality({f}) + 1
      BY ONLY <2>3, <3>1, Zenon
    <3>3. Cardinality({f} \union {s}) = 1 + 1
      BY ONLY <2>2, <3>2, Zenon
    <3> QED BY ONLY <3>3
  <2>5. Cardinality({f} \union {s}) <= Cardinality(WordStarts)
    <3>1. {f} \union {s} \subseteq WordStarts
      BY <1>8
    <3> QED BY <2>1, <3>1, FS_Subset
  <2> QED BY <2>1, <2>4, <2>5
<1>14. PICK w \in s..End : /\ Whole(s) = SubSeq(input, s, w - 1) /\ Len(Whole(s)) = w - s
                           /\ Whole(s) \in Seq(Characters)
                           /\ \A j \in s..(w - 1) : input[j] \notin Spaces
                           /\ w # End => input[w] \in Spaces
  BY <1>3, WholeStopsAt
<1> DEFINE r == ReadOf(s)
<1>15. CASE r - s < WordMax
  <2>1. r \in s..End /\ (r # End => input[r] \in Spaces) /\ \A j \in s..(r - 1) : input[j] \notin Spaces
    BY <1>5, <1>15
  <2> HIDE DEF r
  <2>2. w = r
    <3>1. ~(w < r)
      BY <1>1, <1>7, <1>14, <2>1
    <3>2. ~(r < w)
      BY <1>1, <1>7, <1>14, <2>1
    <3> QED BY <1>1, <1>7, <2>1, <3>1, <3>2
  <2>3. Whole(s) = Word(s)
    BY <1>14, <2>2 DEF Word, r
  <2> QED BY <1>4, <1>12, <1>13, <2>3
<1>16. CASE ~(r - s < WordMax)
  <2>1. /\ r \in s..End /\ r - s = WordMax /\ Len(Word(s)) = WordMax
        /\ \A j \in s..(r - 1) : input[j] \notin Spaces
    BY <1>1, <1>5, <1>7, <1>16, WordAssumption
  <2> HIDE DEF r
  <2>2. ~(w < r)
    BY <1>1, <1>7, <1>14, <2>1
  <2>3. Len(Whole(s)) >= WordMax
    BY <1>1, <1>7, <1>14, <2>1, <2>2
  <2>4. ~storage_valid_table_name(Argument)
    <3>1. Len(Word(s)) <= Len(Argument) + 1 /\ Len(Argument) \in Nat
      BY <1>4, <1>5, RemoveLength
    <3> QED BY <2>1, <3>1, WordAssumption DEF storage_valid_table_name
  <2>5. ~storage_valid_table_name(SecondName)
    <3>1. Len(Whole(s)) <= Len(SecondName) + 1 /\ Len(SecondName) \in Nat /\ Len(Whole(s)) \in Nat
      BY <1>12, <1>14, RemoveLength
    <3> QED BY <2>3, <3>1, WordAssumption DEF storage_valid_table_name
  <2> QED BY <1>13, <2>4, <2>5
<1> QED BY <1>15, <1>16

(* The commands keep it, whatever they answer. *)
LEMMA NamesKeep ==
  ASSUME CliInv, NamesAreWhole, [CliNext]_cliVars
  PROVE  NamesAreWhole'
<1> DEFINE named == {"create", "rebuild", "INVALID_NAME", "NAME_TOO_LONG", "ALLOC_ERROR"}
<1>1. input \in Seq(Characters)
  BY DEF CliInv, TokenizerInv
<1>2. input' = input => WordStarts' = WordStarts /\ SecondName' = SecondName
  <2> SUFFICES ASSUME input' = input
               PROVE  WordStarts' = WordStarts /\ SecondName' = SecondName
    OBVIOUS
  <2>1. WordStarts' = WordStarts
    BY SameText DEF WordStarts
  <2>2. \A i : Whole(i)' = Whole(i)
    BY DEF Whole, End
  <2> QED BY <2>1, <2>2 DEF SecondName
<1>3. NamesAreWhole <=>
        (route \in named =>
           /\ Cardinality(WordStarts) >= 2
           /\ IF storage_valid_table_name(SecondName)
              THEN route \in {"create", "rebuild"} /\ argument = SecondName
              ELSE route \notin {"create", "rebuild"})
  BY DEF NamesAreWhole, SecondName
<1>4. NamesAreWhole' <=>
        (route' \in named =>
           /\ Cardinality(WordStarts') >= 2
           /\ IF storage_valid_table_name(SecondName')
              THEN route' \in {"create", "rebuild"} /\ argument' = SecondName'
              ELSE route' \notin {"create", "rebuild"})
  BY DEF NamesAreWhole, SecondName
<1>5. CASE handle_create_table \/ handle_rebuild_index
  <2>1. /\ Cardinality(WordStarts) >= 2
        /\ storage_valid_table_name(SecondName) => Argument = SecondName
        /\ storage_valid_table_name(Argument) => storage_valid_table_name(SecondName)
    BY <1>1, <1>5, ArgumentIsSecond DEF handle_create_table, handle_rebuild_index, Meta
  <2>2. input' = input /\ argument' = Argument
    BY <1>5 DEF handle_create_table, handle_rebuild_index, Stays, vars, Leads
  <2>3. IF storage_valid_table_name(Argument) THEN route' \in {"create", "rebuild"}
        ELSE route' \notin {"create", "rebuild"}
    <3>1. CASE handle_create_table
      <4>1. route' = CASE Len(Argument) > TableNameMax -> "NAME_TOO_LONG"
                       [] Len(Argument) <= TableNameMax /\ ~storage_valid_table_name(Argument) -> "INVALID_NAME"
                       [] OTHER -> "create"
        BY <3>1 DEF handle_create_table, Leads
      <4>2. Len(Argument) \in Nat /\ TableNameMax \in Nat
        BY <1>1, ArgumentTyping, LenProperties, WordAssumption
      <4>3. storage_valid_table_name(Argument) => Len(Argument) <= TableNameMax
        BY DEF storage_valid_table_name
      <4> QED BY <4>1, <4>2, <4>3
    <3>2. CASE handle_rebuild_index
      BY <3>2 DEF handle_rebuild_index, Leads
    <3> QED BY <1>5, <3>1, <3>2
  <2> QED BY <1>2, <1>4, <2>1, <2>2, <2>3
<1>6. CASE handle_sql_input \/ IgnoreBlankLine \/ HandleExit \/ Usage \/ HandleOther \/ SelectFromCreated
  <2>1. route' \notin named
    BY <1>6 DEF handle_sql_input, IgnoreBlankLine, HandleExit, Usage, HandleOther, SelectFromCreated, Leads
  <2> QED BY <1>4, <2>1
<1>7. CASE Tokenize \/ Parse
  <2>1. route' \notin named
    BY <1>7 DEF Tokenize, Parse
  <2> QED BY <1>4, <2>1
<1>8. CASE UNCHANGED cliVars
  <2>1. input' = input /\ route' = route /\ argument' = argument
    BY <1>8 DEF cliVars, vars
  <2> QED BY <1>2, <1>3, <1>4, <2>1
<1> QED BY <1>5, <1>6, <1>7, <1>8 DEF CliNext

(* The table a command is about is the one the line names, whatever is     *)
(* typed and however long: a name that sscanf cut is never taken for one,  *)
(* and no valid name is refused.                                           *)
THEOREM NamesKept == CliSpec => []NamesAreWhole
<1>1. CliInit => NamesAreWhole
  BY DEF CliInit, NamesAreWhole
<1> QED BY <1>1, NamesKeep, CliInvariance, PTL DEF CliSpec
-----------------------------------------------------------------------------
(* A SELECT from a table that was created                                  *)

(* An identifier is a word of the text and no keyword. *)
LEMMA IdentifierIsName ==
  ASSUME input \in Seq(Characters), NEW t, IsToken(t), t.type = "IDENTIFIER"
  PROVE  /\ Len(t.value) \in Nat \ {0} /\ DOMAIN t.value = 1..Len(t.value) /\ t.value # <<>>
         /\ \A c \in DOMAIN t.value : t.value[c] \in WordCharacters
         /\ t.value[1] \in Letters /\ Folded(t.value) \notin DOMAIN Keywords
<1> DEFINE i == t.from
           j == t.to
<1>1. At(i) \in Letters /\ keyword_lookup(t.value) = "IDENTIFIER"
  BY DEF IsToken, IsKind
<1>2. At(i) # Quote /\ At(i) \in WordCharacters
  BY <1>1, ClassAssumption DEF WordCharacters
<1>3. Len(input) \in Nat /\ i \in 1..Len(input) /\ j \in i..Len(input)
  BY LenProperties DEF IsToken, Beginnings
<1>4. Text(i) = i..j /\ t.value = Piece(i, j)
  BY <1>2 DEF IsToken
<1>5. \A k \in (i + 1)..j : At(k) \in WordCharacters
  <2>1. j \in Text(i)
    BY <1>3, <1>4
  <2> QED BY <1>2, <2>1 DEF Text
<1> HIDE DEF i, j
<1>6. \A k \in i..j : At(k) \in WordCharacters /\ At(k) = input[k]
  <2> TAKE k \in i..j
  <2>1. k \in 1..Len(input) /\ k \in Int /\ (k = i \/ k \in (i + 1)..j)
    BY <1>3
  <2> QED BY <1>2, <1>5, <2>1, CharacterAt
<1>7. t.value = [k \in 1..(j - i + 1) |-> input[i + k - 1]] /\ j - i + 1 \in Nat \ {0}
  BY <1>3, <1>4 DEF Piece
<1>8. Len(t.value) = j - i + 1 /\ DOMAIN t.value = 1..(j - i + 1)
  BY <1>7
<1>9. \A c \in 1..(j - i + 1) : t.value[c] = input[i + c - 1] /\ i + c - 1 \in i..j
  BY <1>3, <1>7
<1>10. t.value[1] = At(i)
  <2>1. 1 \in 1..(j - i + 1) /\ i + 1 - 1 = i /\ i \in i..j
    BY <1>3
  <2> QED BY <1>6, <1>9, <2>1
<1>11. Folded(t.value) \notin DOMAIN Keywords
  BY <1>1, KeywordAssumption DEF keyword_lookup
<1>12. t.value # <<>>
  BY <1>7, <1>8
<1> QED BY <1>1, <1>6, <1>7, <1>8, <1>9, <1>10, <1>11, <1>12

(* So every identifier among the tokens is. *)
LEMMA IdentifiersAreTokens ==
  ASSUME CliInv, TextInv, NEW k \in 1..Len(storage), storage[k].type = "IDENTIFIER"
  PROVE  IsToken(storage[k])
<1>1. Len(storage) \in Nat
  BY LenProperties DEF CliInv, TokenizerInv
<1>2. CASE status = "TOKENIZE_OK"
  <2>1. Seen(storage[Len(storage)]).type = "EOF"
    BY <1>2 DEF CliInv, ValueInv
  <2>2. Seen(storage[k]).type = "IDENTIFIER"
    BY KeywordAssumption DEF Seen
  <2>3. k \in 1..(Len(storage) - 1)
    <3>1. k # Len(storage)
      BY <2>1, <2>2
    <3> QED BY <1>1, <3>1
  <2> QED BY <1>2, <2>3, AcceptedLegal DEF CliInv, TokensTo
<1>3. CASE status # "TOKENIZE_OK"
  BY <1>3 DEF TextInv, TextAt, TokensTo
<1> QED BY <1>2, <1>3

-----------------------------------------------------------------------------
(* The client's line: a star at s, a table's name at t, a semicolon at e   *)
SelectLine(s, t, e) ==
  /\ s \in Nat /\ t \in Nat /\ e \in Nat /\ 3 <= s /\ s + 4 <= t /\ t < e
  /\ s - 2 <= TokenValueMax /\ t - s - 3 <= TokenValueMax /\ e - t <= TokenValueMax
  /\ Len(input) = e
  /\ \A j \in 1..(s - 2) : At(j) \in Letters
  /\ \A j \in (s + 2)..(t - 2) : At(j) \in Letters
  /\ \A j \in t..(e - 1) : At(j) \in WordCharacters
  /\ At(t) \in Letters
  /\ At(s - 1) \in Spaces /\ At(s + 1) \in Spaces /\ At(t - 1) \in Spaces
  /\ At(s) \in Puncts /\ PunctTypes[At(s)] = "STAR"
  /\ At(e) = Semicolon
  /\ keyword_lookup(Piece(1, s - 2)) = "SELECT"
  /\ keyword_lookup(Piece(s + 2, t - 2)) = "FROM"
  /\ Piece(t, e - 1) = argument

(* What is looked up as a keyword is of letters. *)
LEMMA LookedUp ==
  ASSUME NEW word, keyword_lookup(word) # "IDENTIFIER"
  PROVE  \A c \in DOMAIN word : word[c] \in Letters
<1>1. Folded(word) \in DOMAIN Keywords
  BY DEF keyword_lookup
<1> QED BY <1>1, KeywordOfLetters

(* A part of the line, as it is and as it is read. *)
LEMMA PieceIsPart ==
  ASSUME NEW S, NEW text \in Seq(S), NEW i \in Nat \ {0}, NEW j \in Nat, i <= j, j <= Len(text),
         \A k \in i..j : At(k) = text[k] /\ input[k] = text[k], keyword_lookup(SubSeq(text, i, j)) # "IDENTIFIER"
  PROVE  /\ Piece(i, j) = SubSeq(text, i, j)
         /\ \A k \in i..j : At(k) \in Letters
<1> DEFINE word == SubSeq(text, i, j)
<1>1. Len(text) \in Nat /\ word = [c \in 1..(j - i + 1) |-> text[i + c - 1]]
  <2>1. Len(text) \in Nat
    BY LenProperties
  <2> QED BY <2>1 DEF word
<1>2. \A c \in 1..(j - i + 1) : i + c - 1 \in i..j
  OBVIOUS
<1>3. Piece(i, j) = word
  BY <1>1, <1>2 DEF Piece
<1>4. \A c \in DOMAIN word : word[c] \in Letters
  BY LookedUp
<1> HIDE DEF word
<1>5. \A k \in i..j : At(k) \in Letters
  <2> TAKE k \in i..j
  <2>1. k - i + 1 \in 1..(j - i + 1) /\ i + (k - i + 1) - 1 = k
    OBVIOUS
  <2>2. word[k - i + 1] = text[k] /\ k - i + 1 \in DOMAIN word
    BY <1>1, <2>1
  <2> QED BY <1>4, <2>2
<1> QED BY <1>3, <1>5 DEF word

(* A text, a name and one more character, by their positions in the three together. *)
LEMMA ThreeParts ==
  ASSUME NEW S, NEW text \in Seq(S), NEW name \in Seq(S), NEW back \in Seq(S)
  PROVE  /\ Len(text \o name \o back) = Len(text) + Len(name) + Len(back)
         /\ \A j \in 1..Len(text) : (text \o name \o back)[j] = text[j]
         /\ \A j \in 1..Len(name) : (text \o name \o back)[Len(text) + j] = name[j]
         /\ \A j \in 1..Len(back) : (text \o name \o back)[Len(text) + Len(name) + j] = back[j]
<1> DEFINE front == text \o name
           t == Len(text)
           l == Len(name)
           b == Len(back)
<1>1. t \in Nat /\ l \in Nat /\ b \in Nat
  BY LenProperties
<1>2. /\ front \in Seq(S) /\ Len(front) = t + l
      /\ \A j \in 1..(t + l) : front[j] = IF j <= t THEN text[j] ELSE name[j - t]
  BY ConcatProperties
<1> HIDE DEF front
<1>3. /\ Len(front \o back) = t + l + b
      /\ \A j \in 1..(t + l + b) : (front \o back)[j] = IF j <= t + l THEN front[j] ELSE back[j - (t + l)]
  <2>1. /\ Len(front \o back) = Len(front) + b
        /\ \A j \in 1..(Len(front) + b) :
             (front \o back)[j] = IF j <= Len(front) THEN front[j] ELSE back[j - Len(front)]
    <3>1. front \in Seq(S)
      BY <1>2
    <3> QED BY <3>1, ConcatProperties
  <2>2. Len(front) = t + l
    BY <1>2
  <2> HIDE DEF t, l, b
  <2> QED BY <2>1, <2>2
<1> HIDE DEF t, l, b
<1>4. \A j \in 1..t : (front \o back)[j] = text[j]
  <2> TAKE j \in 1..t
  <2>1. j \in 1..(t + l + b) /\ j \in 1..(t + l) /\ j <= t /\ j <= t + l
    BY <1>1
  <2>2. (front \o back)[j] = front[j]
    BY <1>3, <2>1
  <2> QED BY <1>2, <2>1, <2>2
<1>5. \A j \in 1..l : (front \o back)[t + j] = name[j]
  <2> TAKE j \in 1..l
  <2> DEFINE i == t + j
  <2>1. i \in 1..(t + l + b) /\ i \in 1..(t + l) /\ ~(i <= t) /\ i <= t + l /\ i - t = j
    BY <1>1
  <2> HIDE DEF i
  <2>2. (front \o back)[i] = front[i]
    BY <1>3, <2>1
  <2>3. front[i] = name[i - t]
    BY <1>2, <2>1
  <2>4. (front \o back)[i] = name[j]
    BY <2>1, <2>2, <2>3
  <2> QED BY <2>4 DEF i
<1>6. \A j \in 1..b : (front \o back)[t + l + j] = back[j]
  <2> TAKE j \in 1..b
  <2> DEFINE i == t + l + j
             k == t + l
  <2>1. i \in 1..(t + l + b) /\ ~(i <= k) /\ i - k = j
    BY <1>1
  <2> HIDE DEF i
  <2>2. (front \o back)[i] = back[i - k]
    BY <1>3, <2>1
  <2>3. (front \o back)[i] = back[j]
    BY <2>1, <2>2
  <2> QED BY <2>3 DEF i
<1> QED BY <1>3, <1>4, <1>5, <1>6 DEF front, t, l, b

(* Such is the line of a client who selects from a table by a name that    *)
(* begins with a letter.                                                   *)
LEMMA LineOfSelect ==
  ASSUME input = SelectAllFrom \o argument \o <<Semicolon>>, input \in Seq(Characters),
         argument \in Seq(Characters), storage_valid_table_name(argument), argument[1] \in Letters
  PROVE  \E s, t, e \in Nat : SelectLine(s, t, e)
<1>1. PICK s \in Nat, t \in Nat :
        /\ 3 <= s /\ s + 4 <= t /\ s - 2 <= TokenValueMax /\ t - s - 3 <= TokenValueMax
        /\ Len(SelectAllFrom) = t - 1
        /\ keyword_lookup(SubSeq(SelectAllFrom, 1, s - 2)) = "SELECT"
        /\ SelectAllFrom[s] \in Puncts /\ PunctTypes[SelectAllFrom[s]] = "STAR"
        /\ keyword_lookup(SubSeq(SelectAllFrom, s + 2, t - 2)) = "FROM"
        /\ SelectAllFrom[s - 1] \in Spaces /\ SelectAllFrom[s + 1] \in Spaces
        /\ SelectAllFrom[t - 1] \in Spaces
  <2>1. PICK m \in 1..TokenValueMax, n \in 1..TokenValueMax :
          /\ Len(SelectAllFrom) = m + n + 4
          /\ keyword_lookup(SubSeq(SelectAllFrom, 1, m)) = "SELECT"
          /\ SelectAllFrom[m + 2] \in Puncts /\ PunctTypes[SelectAllFrom[m + 2]] = "STAR"
          /\ keyword_lookup(SubSeq(SelectAllFrom, m + 4, m + n + 3)) = "FROM"
          /\ {SelectAllFrom[m + 1], SelectAllFrom[m + 3], SelectAllFrom[m + n + 4]} \subseteq Spaces
    BY SelectAssumption
  <2>2. /\ m + 2 \in Nat /\ m + n + 5 \in Nat /\ 3 <= m + 2 /\ m + 2 + 4 <= m + n + 5
        /\ m + 2 - 2 <= TokenValueMax /\ m + n + 5 - (m + 2) - 3 <= TokenValueMax
    BY <2>1, LimitAssumption
  <2>3. /\ m + n + 5 - 1 = m + n + 4 /\ m + 2 - 2 = m /\ m + 2 + 2 = m + 4 /\ m + n + 5 - 2 = m + n + 3
        /\ m + 2 - 1 = m + 1 /\ m + 2 + 1 = m + 3
    BY <2>1, LimitAssumption
  <2> DEFINE s == m + 2
             t == m + n + 5
  <2>4. /\ s \in Nat /\ t \in Nat /\ 3 <= s /\ s + 4 <= t
        /\ s - 2 <= TokenValueMax /\ t - s - 3 <= TokenValueMax
        /\ t - 1 = m + n + 4 /\ s - 2 = m /\ s + 2 = m + 4 /\ t - 2 = m + n + 3
        /\ s - 1 = m + 1 /\ s + 1 = m + 3 /\ s = m + 2
    BY <2>2, <2>3
  <2> HIDE DEF s, t
  <2>5. /\ Len(SelectAllFrom) = t - 1
        /\ keyword_lookup(SubSeq(SelectAllFrom, 1, s - 2)) = "SELECT"
        /\ SelectAllFrom[s] \in Puncts /\ PunctTypes[SelectAllFrom[s]] = "STAR"
        /\ keyword_lookup(SubSeq(SelectAllFrom, s + 2, t - 2)) = "FROM"
        /\ SelectAllFrom[s - 1] \in Spaces /\ SelectAllFrom[s + 1] \in Spaces
        /\ SelectAllFrom[t - 1] \in Spaces
    BY <2>1, <2>4, Zenon
  <2> QED BY <2>4, <2>5
<1>17. s \in Nat /\ t \in Nat /\ 3 <= s /\ s + 4 <= t /\ Len(SelectAllFrom) = t - 1
  BY <1>1
<1> DEFINE l == Len(argument)
           e == t + l
<1>2. /\ l \in 1..TableNameMax /\ TableNameMax \in Nat
      /\ DOMAIN argument = 1..l
      /\ \A j \in 1..l : argument[j] \in WordCharacters
  <2>1. DOMAIN argument = 1..l /\ l \in Nat /\ argument # <<>> /\ l <= TableNameMax
        /\ \A j \in DOMAIN argument : argument[j] \in WordCharacters
    BY LenProperties DEF storage_valid_table_name
  <2>2. l # 0
    BY <2>1, EmptySeq
  <2>3. TableNameMax \in Nat
    BY WordAssumption
  <2> HIDE DEF l
  <2>4. l \in 1..TableNameMax
    BY <2>1, <2>2, <2>3
  <2> QED BY <2>1, <2>3, <2>4
<1>3. SelectAllFrom \in Seq(Characters) /\ Semicolon \in Characters
  BY SelectAssumption DEF Semicolon
<1>4. /\ Len(input) = t + l
      /\ \A j \in 1..(t - 1) : input[j] = SelectAllFrom[j]
      /\ \A j \in 1..l : input[t + j - 1] = argument[j]
      /\ input[t + l] = Semicolon
  <2> HIDE DEF l
  <2>1. Len(argument) = l /\ l \in Nat /\ Len(SelectAllFrom) = t - 1
    BY <1>1, <1>2 DEF l
  <2> DEFINE back == <<Semicolon>>
  <2>2. back \in Seq(Characters) /\ Len(back) = 1 /\ back[1] = Semicolon
    BY <1>3
  <2>3. input = SelectAllFrom \o argument \o back
    OBVIOUS
  <2> HIDE DEF back
  <2>4. /\ Len(input) = Len(SelectAllFrom) + Len(argument) + Len(back)
        /\ \A j \in 1..Len(SelectAllFrom) : input[j] = SelectAllFrom[j]
        /\ \A j \in 1..Len(argument) : input[Len(SelectAllFrom) + j] = argument[j]
        /\ \A j \in 1..Len(back) : input[Len(SelectAllFrom) + Len(argument) + j] = back[j]
    BY <1>3, <2>2, <2>3, ThreeParts
  <2>5. /\ t - 1 + l + 1 = t + l /\ 1 \in 1..1
        /\ \A j \in 1..l : t - 1 + j = t + j - 1
    BY <1>17, <2>1
  <2>6. input[t - 1 + l + 1] = Semicolon
    BY <2>1, <2>2, <2>4, <2>5
  <2>7. \A j \in 1..l : input[t - 1 + j] = argument[j]
    BY <2>1, <2>4
  <2> QED BY <2>1, <2>2, <2>4, <2>5, <2>6, <2>7
<1> HIDE DEF l
<1>5. e \in Nat /\ t < e /\ e - t = l /\ e - t <= TokenValueMax /\ Len(input) = e
  BY <1>2, <1>4, <1>17, NameFitsAssumption, LimitAssumption
<1> HIDE DEF e
<1>6. \A j \in 1..e : At(j) = input[j]
  BY <1>5, CharacterAt
<1>7. \A j \in 1..(t - 1) : At(j) = SelectAllFrom[j] /\ input[j] = SelectAllFrom[j]
  <2> TAKE j \in 1..(t - 1)
  <2>1. j \in 1..e
    BY <1>5
  <2> QED BY <1>4, <1>6, <2>1
<1>8. \A j \in t..(e - 1) : At(j) = argument[j - t + 1] /\ j - t + 1 \in 1..l
  <2> TAKE j \in t..(e - 1)
  <2>1. j \in 1..e /\ j - t + 1 \in 1..l /\ t + (j - t + 1) - 1 = j
    BY <1>2, <1>17, <1>5
  <2> QED BY <1>4, <1>6, <2>1
<1>9. Piece(1, s - 2) = SubSeq(SelectAllFrom, 1, s - 2) /\ \A j \in 1..(s - 2) : At(j) \in Letters
  <2>1. /\ 1 \in Nat \ {0} /\ s - 2 \in Nat /\ 1 <= s - 2 /\ s - 2 <= Len(SelectAllFrom)
        /\ \A k \in 1..(s - 2) : k \in 1..(t - 1)
    BY <1>17
  <2>2. \A k \in 1..(s - 2) : At(k) = SelectAllFrom[k] /\ input[k] = SelectAllFrom[k]
    BY <1>7, <2>1
  <2>3. keyword_lookup(SubSeq(SelectAllFrom, 1, s - 2)) # "IDENTIFIER"
    BY <1>1
  <2> QED BY <1>3, <2>1, <2>2, <2>3, PieceIsPart
<1>10. /\ Piece(s + 2, t - 2) = SubSeq(SelectAllFrom, s + 2, t - 2)
       /\ \A j \in (s + 2)..(t - 2) : At(j) \in Letters
  <2>1. /\ s + 2 \in Nat \ {0} /\ t - 2 \in Nat /\ s + 2 <= t - 2 /\ t - 2 <= Len(SelectAllFrom)
        /\ \A k \in (s + 2)..(t - 2) : k \in 1..(t - 1)
    BY <1>17
  <2>2. \A k \in (s + 2)..(t - 2) : At(k) = SelectAllFrom[k] /\ input[k] = SelectAllFrom[k]
    BY <1>7, <2>1
  <2>3. keyword_lookup(SubSeq(SelectAllFrom, s + 2, t - 2)) # "IDENTIFIER"
    BY <1>1
  <2> QED BY <1>3, <2>1, <2>2, <2>3, PieceIsPart
<1>11. Piece(t, e - 1) = argument
  <2>1. e - 1 - t + 1 = l
    BY <1>17, <1>2, <1>5
  <2>2. \A c \in 1..l : input[t + c - 1] = argument[c]
    BY <1>4
  <2> DEFINE last == e - 1
  <2>3. Piece(t, last) = [c \in 1..(last - t + 1) |-> input[t + c - 1]]
    <3> HIDE DEF last
    <3> QED BY DEF Piece
  <2>4. argument = [c \in 1..l |-> argument[c]]
    BY <1>2
  <2>5. last - t + 1 = l
    BY <2>1
  <2> HIDE DEF last
  <2>6. Piece(t, last) = argument
    BY <2>2, <2>3, <2>4, <2>5
  <2> QED BY <2>6 DEF last
<1>12. \A j \in t..(e - 1) : At(j) \in WordCharacters
  BY <1>2, <1>8
<1>13. At(t) \in Letters
  <2>1. t \in t..(e - 1) /\ t - t + 1 = 1
    BY <1>5
  <2> QED BY <1>8, <2>1
<1>14. At(e) = Semicolon
  <2>1. e \in 1..e /\ e = t + l
    BY <1>2, <1>5, <1>17 DEF e
  <2> QED BY <1>4, <1>6, <2>1
<1>15. /\ At(s - 1) \in Spaces /\ At(s + 1) \in Spaces /\ At(t - 1) \in Spaces
       /\ At(s) \in Puncts /\ PunctTypes[At(s)] = "STAR"
  <2>1. s - 1 \in 1..(t - 1) /\ s \in 1..(t - 1) /\ s + 1 \in 1..(t - 1) /\ t - 1 \in 1..(t - 1)
    BY <1>17
  <2> QED BY <1>1, <1>7, <2>1
<1>16. SelectLine(s, t, e)
  BY <1>1, <1>5, <1>9, <1>10, <1>11, <1>12, <1>13, <1>14, <1>15 DEF SelectLine
<1> QED BY <1>5, <1>16

(* Its tokens begin at its words, its star and its semicolon, and tokenize *)
(* accepts it.                                                             *)
LEMMA SelectIsLegal ==
  ASSUME input \in Seq(Characters), NEW s, NEW t, NEW e, SelectLine(s, t, e)
  PROVE  /\ Beginnings = {1, s, s + 2, t, e}
         /\ Text(1) = 1..(s - 2) /\ Text(s + 2) = (s + 2)..(t - 2) /\ Text(t) = t..(e - 1)
         /\ Legal /\ Cardinality(Beginnings) = 5
<1>1. /\ s \in Nat /\ t \in Nat /\ e \in Nat /\ 3 <= s /\ s + 4 <= t /\ t < e
      /\ s - 2 <= TokenValueMax /\ t - s - 3 <= TokenValueMax /\ e - t <= TokenValueMax
      /\ Len(input) = e
  BY DEF SelectLine
<1>2. /\ \A j \in 1..(s - 2) : At(j) \in Letters
      /\ \A j \in (s + 2)..(t - 2) : At(j) \in Letters
      /\ \A j \in t..(e - 1) : At(j) \in WordCharacters
      /\ At(t) \in Letters
  BY DEF SelectLine
<1>3. /\ At(s - 1) \in Spaces /\ At(s + 1) \in Spaces /\ At(t - 1) \in Spaces
      /\ At(s) \in Puncts /\ At(e) \in Puncts
  BY SelectAssumption DEF SelectLine, Semicolon
<1>4. \A j \in 1..e : \/ j \in 1..(s - 2) \/ j = s - 1 \/ j = s \/ j = s + 1
                      \/ j \in (s + 2)..(t - 2) \/ j = t - 1 \/ j \in t..(e - 1) \/ j = e
  BY <1>1
<1>5. \A j \in 1..e : At(j) \in Spaces \union Puncts \union WordCharacters
  BY <1>2, <1>3, <1>4 DEF WordCharacters
<1>6. \A c \in Spaces \union Puncts \union WordCharacters : c # Quote /\ c # Minus
  BY ClassAssumption
<1>7. \A j \in 1..(e + 1) : ~InString(j)
  <2> TAKE j \in 1..(e + 1)
  <2>1. j \in 1..(Len(input) + 1) /\ \A k \in 1..(j - 1) : k \in 1..e
    BY <1>1
  <2>2. \A k \in 1..(j - 1) : At(k) # Quote
    BY <1>5, <1>6, <2>1
  <2> QED BY <2>1, <2>2, NoQuotes
<1>8. /\ \A j \in 1..e : At(j) \in Spaces => ~Begins(j)
      /\ \A j \in 1..e : At(j) \in Puncts => Begins(j)
      /\ \A j \in 1..e : IsLegalAt(j)
  <2>1. \A j \in 1..e : ~InString(j)
    BY <1>1, <1>7
  <2>2. \A j \in 1..e : ~IsSignAt(j)
    BY <1>5, <1>6 DEF IsSignAt
  <2>3. \A c \in Spaces : c \notin Puncts \union {Quote} /\ c \notin Letters /\ c \notin Digits
    BY ClassAssumption DEF WordCharacters
  <2>4. \A j \in 1..e : At(j) \in Spaces => ~Begins(j)
    BY <2>2, <2>3 DEF Begins
  <2>5. \A j \in 1..e : At(j) \in Puncts => Begins(j)
    BY <2>1 DEF Begins
  <2>6. \A j \in 1..e : IsLegalAt(j)
    BY <1>5 DEF IsLegalAt
  <2> QED BY <2>4, <2>5, <2>6
<1>9. \A j \in 1..e : At(j) \in Letters /\ (j = 1 \/ At(j - 1) \in Spaces) => Begins(j)
  <2> SUFFICES ASSUME NEW j \in 1..e, At(j) \in Letters, j = 1 \/ At(j - 1) \in Spaces
               PROVE  Begins(j)
    OBVIOUS
  <2>1. j \in Int /\ j \in 1..(e + 1) /\ (j = 1 => ~(j > 1))
    BY <1>1
  <2>2. ~WordGoesOn(j)
    <3> SUFFICES ASSUME WordGoesOn(j) PROVE FALSE
      OBVIOUS
    <3>1. j > 1 /\ At(j - 1) \in WordCharacters
      BY <2>1, WordStops
    <3> QED BY <2>1, <3>1, ClassAssumption
  <2> QED BY <1>7, <2>1, <2>2 DEF Begins
<1>10. Begins(1) /\ Begins(s + 2) /\ Begins(t) /\ Begins(s) /\ Begins(e)
  <2>1. /\ 1 \in 1..e /\ s + 2 \in 1..e /\ t \in 1..e /\ s \in 1..e /\ e \in 1..e
        /\ 1 \in 1..(s - 2) /\ s + 2 \in (s + 2)..(t - 2) /\ s + 2 - 1 = s + 1
    BY <1>1
  <2>2. At(1) \in Letters /\ At(s + 2) \in Letters
    BY <1>2, <2>1
  <2> QED BY <1>2, <1>3, <1>8, <1>9, <2>1, <2>2
(* A word, with what is behind it *)
<1>11. ASSUME NEW i \in 1..e, NEW last \in i..e, Begins(i), At(i) \in Letters, last < e,
              \A c \in i..last : At(c) \in WordCharacters, At(last + 1) \notin WordCharacters
       PROVE  /\ \A j \in (i + 1)..last : ~Begins(j)
              /\ Text(i) = i..last
  <2>1. i \in 1..Len(input) /\ last \in i..Len(input) /\ last + 1 \in (i + 1)..(Len(input) + 1) /\ last + 1 - 1 = last
    BY <1>1
  <2>2. \A j \in (i + 1)..last : Inside(i, j)
    BY <2>1, <1>11, WordInside
  <2>3. At(i) # Quote
    BY <1>5, <1>6
  <2> DEFINE q == last + 1
  <2>4. q \in (i + 1)..(Len(input) + 1) /\ q - 1 = last /\ At(q) \notin WordCharacters
    BY <1>11, <2>1
  <2> HIDE DEF q
  <2>5. \A k \in (i + 1)..(q - 1) : Inside(i, k)
    BY <2>2, <2>4
  <2>6. Text(i) = i..(q - 1)
    BY <2>1, <2>3, <2>4, <2>5, OtherText
  <2> QED BY <2>2, <2>4, <2>6, InsideLegal
<1>12. \A c \in Spaces \union Puncts : c \notin WordCharacters
  BY ClassAssumption
<1>13. /\ \A j \in 2..(s - 2) : ~Begins(j)
       /\ Text(1) = 1..(s - 2)
  <2>1. 1 \in 1..e /\ s - 2 \in 1..e /\ s - 2 < e /\ s - 2 + 1 = s - 1 /\ 1 + 1 = 2 /\ 1 \in 1..(s - 2)
    BY <1>1
  <2>2. \A c \in 1..(s - 2) : At(c) \in WordCharacters
    BY <1>2 DEF WordCharacters
  <2>3. At(s - 2 + 1) \notin WordCharacters
    BY <1>3, <1>12, <2>1
  <2>4. /\ \A j \in (1 + 1)..(s - 2) : ~Begins(j)
        /\ Text(1) = 1..(s - 2)
    BY <1>2, <1>10, <1>11, <2>1, <2>2, <2>3
  <2> QED BY <2>1, <2>4
<1>14. /\ \A j \in (s + 3)..(t - 2) : ~Begins(j)
       /\ Text(s + 2) = (s + 2)..(t - 2)
  <2>1. /\ s + 2 \in 1..e /\ t - 2 \in (s + 2)..e /\ t - 2 < e /\ t - 2 + 1 = t - 1 /\ s + 2 + 1 = s + 3
        /\ s + 2 \in (s + 2)..(t - 2)
    BY <1>1
  <2>2. \A c \in (s + 2)..(t - 2) : At(c) \in WordCharacters
    BY <1>2 DEF WordCharacters
  <2>3. At(t - 2 + 1) \notin WordCharacters
    BY <1>3, <1>12, <2>1
  <2>4. /\ \A j \in (s + 2 + 1)..(t - 2) : ~Begins(j)
        /\ Text(s + 2) = (s + 2)..(t - 2)
    BY <1>2, <1>10, <1>11, <2>1, <2>2, <2>3
  <2> QED BY <2>1, <2>4
<1>15. /\ \A j \in (t + 1)..(e - 1) : ~Begins(j)
       /\ Text(t) = t..(e - 1)
  <2>1. t \in 1..e /\ e - 1 \in t..e /\ e - 1 < e /\ e - 1 + 1 = e
    BY <1>1
  <2>2. At(e - 1 + 1) \notin WordCharacters
    BY <1>3, <1>12, <2>1
  <2> QED BY <1>2, <1>10, <1>11, <2>1, <2>2
<1>16. Text(s) = s..s /\ Text(e) = e..e
  <2>1. At(s) # Quote /\ At(e) # Quote /\ At(s + 1) \notin WordCharacters
    BY <1>3, <1>6, <1>12
  <2>2. /\ s \in 1..Len(input) /\ s + 1 \in (s + 1)..(Len(input) + 1) /\ s + 1 - 1 = s
        /\ e \in 1..Len(input) /\ e + 1 \in (e + 1)..(Len(input) + 1) /\ e + 1 - 1 = e
        /\ e + 1 = Len(input) + 1
        /\ (s + 1)..s = {} /\ (e + 1)..e = {}
    BY <1>1
  <2>3. Text(s) = s..(s + 1 - 1)
    <3>1. \A k \in (s + 1)..(s + 1 - 1) : Inside(s, k)
      BY <2>2
    <3> QED BY <2>1, <2>2, <3>1, OtherText
  <2>4. Text(e) = e..(e + 1 - 1)
    <3>1. \A k \in (e + 1)..(e + 1 - 1) : Inside(e, k)
      BY <2>2
    <3> QED BY <2>1, <2>2, <3>1, OtherText
  <2> QED BY <2>2, <2>3, <2>4
<1>17. Beginnings = {1, s, s + 2, t, e}
  <2>1. DOMAIN input = 1..e /\ {1, s, s + 2, t, e} \subseteq 1..e
    BY <1>1, LenProperties
  <2>2. \A j \in 1..e : \/ j \in {1, s, s + 2, t, e} \/ j \in 2..(s - 2) \/ j \in {s - 1, s + 1, t - 1}
                        \/ j \in (s + 3)..(t - 2) \/ j \in (t + 1)..(e - 1)
    BY <1>1
  <2>3. \A j \in 1..e : Begins(j) => j \in {1, s, s + 2, t, e}
    BY <1>3, <1>8, <1>13, <1>14, <1>15, <2>2
  <2> QED BY <1>10, <2>1, <2>3 DEF Beginnings
<1>18. Cardinality(Beginnings) = 5
  <2>1. /\ 1 # s /\ 1 # s + 2 /\ 1 # t /\ 1 # e /\ s # s + 2 /\ s # t /\ s # e /\ s + 2 # t
        /\ s + 2 # e /\ t # e
    BY <1>1
  <2> DEFINE a == {1}
             b == {1, s}
             c == {1, s, s + 2}
             d == {1, s, s + 2, t}
  <2>2. IsFiniteSet(a) /\ Cardinality(a) = 1
    BY FS_Singleton
  <2>3. b = a \union {s} /\ c = b \union {s + 2} /\ d = c \union {t} /\ Beginnings = d \union {e}
    BY <1>17
  <2>4. s \notin a /\ s + 2 \notin b /\ t \notin c /\ e \notin d
    BY <2>1
  <2> HIDE DEF a, b, c, d
  <2>5. \A S, x : IsFiniteSet(S) /\ x \notin S
                  => IsFiniteSet(S \union {x}) /\ Cardinality(S \union {x}) = Cardinality(S) + 1
    BY FS_AddElement
  <2>6. IsFiniteSet(b) /\ Cardinality(b) = Cardinality(a) + 1
    BY ONLY <2>2, <2>3, <2>4, <2>5, Zenon
  <2>7. IsFiniteSet(c) /\ Cardinality(c) = Cardinality(b) + 1
    BY ONLY <2>3, <2>4, <2>5, <2>6, Zenon
  <2>8. IsFiniteSet(d) /\ Cardinality(d) = Cardinality(c) + 1
    BY ONLY <2>3, <2>4, <2>5, <2>7, Zenon
  <2>9. Cardinality(Beginnings) = Cardinality(d) + 1
    BY ONLY <2>3, <2>4, <2>5, <2>8, Zenon
  <2> QED BY <2>2, <2>6, <2>7, <2>8, <2>9
<1>19. \A i \in Beginnings : Cardinality(Text(i)) <= TokenValueMax
  <2>1. /\ Cardinality(1..(s - 2)) = s - 2 /\ Cardinality((s + 2)..(t - 2)) = t - s - 3
        /\ Cardinality(t..(e - 1)) = e - t /\ Cardinality(s..s) = 1 /\ Cardinality(e..e) = 1
    <3>1. \A a, b \in Int : a <= b => Cardinality(a..b) = b - a + 1
      BY FS_Interval
    <3>2. /\ 1 \in Int /\ s - 2 \in Int /\ s + 2 \in Int /\ t - 2 \in Int /\ t \in Int /\ e - 1 \in Int
          /\ s \in Int /\ e \in Int /\ 1 <= s - 2 /\ s + 2 <= t - 2 /\ t <= e - 1
      BY <1>1
    <3>3. /\ s - 2 - 1 + 1 = s - 2 /\ t - 2 - (s + 2) + 1 = t - s - 3 /\ e - 1 - t + 1 = e - t
          /\ s - s + 1 = 1 /\ e - e + 1 = 1 /\ s <= s /\ e <= e
      BY <1>1
    <3>4. Cardinality(1..(s - 2)) = s - 2 - 1 + 1
      BY <3>1, <3>2
    <3>5. Cardinality((s + 2)..(t - 2)) = t - 2 - (s + 2) + 1
      BY <3>1, <3>2
    <3>6. Cardinality(t..(e - 1)) = e - 1 - t + 1
      BY <3>1, <3>2
    <3>7. Cardinality(s..s) = s - s + 1 /\ Cardinality(e..e) = e - e + 1
      BY <3>1, <3>2, <3>3
    <3> QED BY <3>3, <3>4, <3>5, <3>6, <3>7
  <2>2. 1 <= TokenValueMax
    BY LimitAssumption
  <2> QED BY <1>1, <1>13, <1>14, <1>15, <1>16, <1>17, <2>1, <2>2
<1>20. Legal
  <2>1. \A i \in DOMAIN input : IsLegalAt(i)
    BY <1>1, <1>8, LenProperties
  <2>2. ~InString(Len(input) + 1)
    BY <1>1, <1>7
  <2>3. Cardinality(Beginnings) <= Capacity - 1
    BY <1>18, NameFitsAssumption, LimitAssumption
  <2> QED BY <1>19, <2>1, <2>2, <2>3 DEF Legal
<1> QED BY <1>13, <1>14, <1>15, <1>17, <1>18, <1>20

(* A token that is a word, by where it begins. *)
LEMMA WordToken ==
  ASSUME NEW u, IsToken(u), At(u.from) \in Letters, NEW i \in Int, NEW j \in Int, i <= j,
         u.from = i, Text(i) = i..j
  PROVE  u.value = Piece(i, j) /\ u.type = keyword_lookup(Piece(i, j))
<1>1. At(u.from) # Quote
  BY ClassAssumption DEF WordCharacters
<1>2. Text(u.from) = u.from..u.to /\ u.value = Piece(u.from, u.to) /\ u.to \in u.from..Len(input)
      /\ u.type = keyword_lookup(u.value)
  BY <1>1 DEF IsToken, IsKind
<1>3. i..j = i..u.to /\ u.to \in Int /\ i <= u.to
  BY <1>2
<1>4. u.to = j
  <2>1. j \in i..u.to /\ u.to \in i..j
    BY <1>3
  <2> QED BY <1>3, <2>1
<1> QED BY <1>2, <1>4

(* A keyword is seen as it is. *)
LEMMA KeywordSeen ==
  ASSUME NEW u, NEW word, u.type = keyword_lookup(word), u.type # "IDENTIFIER"
  PROVE  Seen(u).type = u.type
<1>1. u.type \in {Keywords[k] : k \in DOMAIN Keywords}
  BY DEF keyword_lookup
<1>2. u.type \notin Puncts
  BY <1>1, KeywordAssumption
<1> QED BY <1>2 DEF Seen

(* A statement that was accepted has the tokens of SELECT * FROM the name. *)
LEMMA SelectTokens ==
  ASSUME TokenizerInv, TextInv, ValueInv, status = "TOKENIZE_OK", NEW s, NEW t, NEW e, SelectLine(s, t, e),
         Folded(argument) \notin DOMAIN Keywords
  PROVE  /\ Len(storage) = 6 /\ \A k \in 1..6 : Seen(storage[k]).type = SelectAll[k]
         /\ Seen(storage[4]).value = argument
<1>1. input \in Seq(Characters)
  BY DEF TokenizerInv
<1>2. /\ Beginnings = {1, s, s + 2, t, e} /\ Cardinality(Beginnings) = 5
      /\ Text(1) = 1..(s - 2) /\ Text(s + 2) = (s + 2)..(t - 2) /\ Text(t) = t..(e - 1)
  BY <1>1, SelectIsLegal
<1>3. /\ Len(storage) - 1 \in Nat /\ TokensTo(storage, Len(storage) - 1, p) /\ Below(p) = Beginnings
      /\ Len(storage) \in Nat
  <2>1. Len(storage) \in Nat
    BY LenProperties DEF TokenizerInv
  <2> QED BY <2>1, AcceptedLegal
<1>4. /\ s \in Nat /\ t \in Nat /\ e \in Nat /\ 3 <= s /\ s + 4 <= t /\ t < e
  BY DEF SelectLine
<1>5. Len(storage) = 6 /\ TokensTo(storage, 5, p)
  <2>1. Cardinality(Below(p)) = Len(storage) - 1
    BY <1>3 DEF TokensTo
  <2>2. Len(storage) - 1 = 5
    BY <1>2, <1>3, <2>1
  <2>3. Len(storage) = 6
    BY <1>3, <2>2
  <2> QED BY <1>3, <2>2, <2>3
<1>6. \A k \in 1..5 : IsToken(storage[k])
  BY <1>5 DEF TokensTo
<1>7. /\ storage[1].from = 1 /\ storage[2].from = s /\ storage[3].from = s + 2
      /\ storage[4].from = t /\ storage[5].from = e
  <2> DEFINE f == [k \in 1..5 |-> storage[k].from]
  <2>1. \A k \in 1..5 : storage[k].from \in {1, s, s + 2, t, e}
    BY <1>2, <1>6 DEF IsToken
  <2>2. f \in [1..5 -> {1, s, s + 2, t, e}]
    BY <2>1
  <2>3. \A k \in 2..5 : storage[k - 1].from < storage[k].from
    <3> TAKE k \in 2..5
    <3>1. k - 1 \in 1..5 /\ k \in 1..5
      OBVIOUS
    <3>2. storage[k - 1].to < storage[k].from
      BY <1>5 DEF TokensTo
    <3>3. storage[k - 1].to \in storage[k - 1].from..Len(input)
      BY <1>6, <3>1 DEF IsToken
    <3>4. storage[k - 1].from \in Int /\ storage[k].from \in Int
      BY <1>4, <2>1, <3>1
    <3> QED BY <3>2, <3>3, <3>4
  <2>4. f[1] < f[2] /\ f[2] < f[3] /\ f[3] < f[4] /\ f[4] < f[5]
    <3>1. f[2 - 1] < f[2] /\ f[3 - 1] < f[3] /\ f[4 - 1] < f[4] /\ f[5 - 1] < f[5]
      BY <2>3
    <3> QED BY <3>1
  <2> DEFINE x == s + 2
  <2>5. s \in Int /\ x \in Int /\ t \in Int /\ e \in Int /\ 1 < s /\ s < x /\ x < t /\ t < e
    BY <1>4
  <2>6. /\ f[1] \in {1, s, x, t, e} /\ f[2] \in {1, s, x, t, e} /\ f[3] \in {1, s, x, t, e}
        /\ f[4] \in {1, s, x, t, e} /\ f[5] \in {1, s, x, t, e}
    BY <2>2
  <2>7. f[1] = storage[1].from /\ f[2] = storage[2].from /\ f[3] = storage[3].from
        /\ f[4] = storage[4].from /\ f[5] = storage[5].from
    OBVIOUS
  <2> HIDE DEF f, x
  <2>8. f[1] = 1 /\ f[2] = s /\ f[3] = x /\ f[4] = t /\ f[5] = e
    BY <2>4, <2>5, <2>6
  <2> QED BY <2>7, <2>8 DEF x
<1>8. /\ At(1) \in Letters /\ At(s + 2) \in Letters /\ At(t) \in Letters
      /\ At(s) \in Puncts /\ PunctTypes[At(s)] = "STAR"
      /\ At(e) \in Puncts /\ PunctTypes[At(e)] = "SEMICOLON"
      /\ keyword_lookup(Piece(1, s - 2)) = "SELECT" /\ keyword_lookup(Piece(s + 2, t - 2)) = "FROM"
      /\ Piece(t, e - 1) = argument
  <2>1. 1 \in 1..(s - 2) /\ s + 2 \in (s + 2)..(t - 2)
    BY <1>4
  <2>2. Semicolon \in Puncts /\ PunctTypes[Semicolon] = "SEMICOLON"
    BY SelectAssumption DEF Semicolon
  <2> QED BY <2>1, <2>2 DEF SelectLine
<1>9. Seen(storage[1]).type = "SELECT"
  <2>1. 1 \in Int /\ s - 2 \in Int /\ 1 <= s - 2
    BY <1>4
  <2>2. storage[1].type = keyword_lookup(Piece(1, s - 2))
    BY <1>2, <1>6, <1>7, <1>8, <2>1, WordToken
  <2> QED BY <1>8, <2>2, KeywordSeen
<1>10. Seen(storage[3]).type = "FROM"
  <2>1. s + 2 \in Int /\ t - 2 \in Int /\ s + 2 <= t - 2
    BY <1>4
  <2>2. storage[3].type = keyword_lookup(Piece(s + 2, t - 2))
    BY <1>2, <1>6, <1>7, <1>8, <2>1, WordToken
  <2> QED BY <1>8, <2>2, KeywordSeen
<1>11. Seen(storage[4]).type = "IDENTIFIER" /\ Seen(storage[4]).value = argument
  <2>1. t \in Int /\ e - 1 \in Int /\ t <= e - 1
    BY <1>4
  <2>2. storage[4].type = keyword_lookup(argument) /\ storage[4].value = argument
    BY <1>2, <1>6, <1>7, <1>8, <2>1, WordToken
  <2>3. storage[4].type = "IDENTIFIER"
    BY <2>2 DEF keyword_lookup
  <2>4. "IDENTIFIER" \notin Puncts /\ "IDENTIFIER" \notin Plain
    BY KeywordAssumption DEF Plain
  <2> QED BY <2>2, <2>3, <2>4 DEF Seen
<1>12. Seen(storage[2]).type = "STAR" /\ Seen(storage[5]).type = "SEMICOLON"
  <2>1. storage[2].type = At(s) /\ storage[5].type = At(e)
    BY <1>6, <1>7, <1>8 DEF IsToken, IsKind
  <2> QED BY <1>8, <2>1 DEF Seen
<1>13. Seen(storage[6]).type = "EOF"
  BY <1>5 DEF ValueInv
<1>14. \A k \in 1..6 : Seen(storage[k]).type = SelectAll[k]
  <2> TAKE k \in 1..6
  <2>1. k = 1 \/ k = 2 \/ k = 3 \/ k = 4 \/ k = 5 \/ k = 6
    OBVIOUS
  <2> QED BY <1>9, <1>10, <1>11, <1>12, <1>13, <2>1 DEF SelectAll
<1> QED BY <1>5, <1>11, <1>14

-----------------------------------------------------------------------------
(* The parser's tokens are those stored, in order, as it sees them. *)
SeenInv ==
  /\ \A k \in 1..Len(tokens) : k <= Len(storage) /\ tokens[k] = Seen(storage[k])
  /\ parse_status # "none" => status = "TOKENIZE_OK"

(* A table that was created has a valid name, and it is selected from by it. *)
NameInv ==
  /\ route \in {"create", "select"} =>
       argument \in Seq(Characters) /\ storage_valid_table_name(argument)
  /\ route = "select" => input = SelectAllFrom \o argument \o <<Semicolon>>

(* Every step keeps the first, ... *)
LEMMA SeenKept ==
  ASSUME CliInv, SeenInv, [CliNext]_cliVars
  PROVE  SeenInv'
<1>0. CliInv'
  BY CliKeeps
<1>1. \A u : Seen(u)' = Seen(u)
  BY DEF Seen
<1>2. CASE tokens' = <<>> /\ parse_status' = parse_status /\ (parse_status # "none" => status' = status)
  <2>1. \A k \in 1..Len(tokens') : FALSE
    BY <1>2
  <2> QED BY <1>2, <2>1 DEF SeenInv
<1>3. CASE UNCHANGED <<storage, status, tokens, parse_status>>
  <2>1. \A k \in 1..Len(tokens) : k <= Len(storage) /\ tokens[k] = Seen(storage[k])
    BY DEF SeenInv
  <2>2. Len(tokens') = Len(tokens) /\ Len(storage') = Len(storage)
    BY <1>3
  <2>3. \A k \in 1..Len(tokens') : k <= Len(storage') /\ tokens'[k] = Seen(storage'[k])
    BY <1>3, <2>1, <2>2
  <2>4. \A k \in 1..Len(tokens') : k <= Len(storage') /\ tokens'[k] = Seen(storage[k])'
    BY <2>3 DEF Seen
  <2> QED BY <1>3, <2>4 DEF SeenInv
<1>4. CASE Tokenize
  <2>1. /\ tokens' = tokens /\ parse_status' = parse_status /\ status = "none"
    BY <1>4, TokenizerKeepsValues DEF Tokenize, CliInv, parserVars
  <2> QED BY <1>2, <2>1 DEF CliInv, SeenInv
<1>5. CASE Parse /\ ~semantic_validate
  <2> DEFINE t == Seen(storage[Len(tokens) + 1])
  <2>1. Step(t) /\ status = "TOKENIZE_OK" /\ UNCHANGED <<storage, status>>
    BY <1>5 DEF Parse, vars
  <2>2. Parsing(t)
    BY <2>1 DEF Step, ExpectToken, missing_token_status, AtEnd, parse_tokens, ParseStar,
                ParseColumn, ParseTable, ParseWhere, ParseCondition, ParseValue, ParseId, ParseName
  <2>3. /\ Len(tokens) \in Nat /\ Len(storage) \in Nat /\ Len(tokens) < Len(storage)
        /\ Len(tokens) + 1 \in 1..Len(storage) /\ tokens' = Append(tokens, t)
    BY <2>1, <2>2, LenProperties DEF CliInv, TokenizerInv, Parsing
  <2>4. t \in Tokens
    BY <2>3 DEF CliInv, ValueInv
  <2> HIDE DEF t
  <2>5. /\ Len(tokens') = Len(tokens) + 1 /\ tokens'[Len(tokens) + 1] = t
        /\ \A k \in 1..Len(tokens) : tokens'[k] = tokens[k]
    BY <2>3, <2>4, AppendProperties DEF CliInv
  <2>6. \A k \in 1..Len(tokens') : k <= Len(storage) /\ tokens'[k] = Seen(storage[k])
    <3> TAKE k \in 1..Len(tokens')
    <3>1. CASE k = Len(tokens) + 1
      BY <2>3, <2>5, <3>1 DEF t
    <3>2. CASE k # Len(tokens) + 1
      <4>1. k \in 1..Len(tokens)
        BY <2>3, <2>5, <3>2
      <4> QED BY <2>5, <4>1 DEF SeenInv
    <3> QED BY <3>1, <3>2
  <2>7. \A k \in 1..Len(tokens') : k <= Len(storage') /\ tokens'[k] = Seen(storage[k])'
    BY <2>1, <2>6 DEF Seen
  <2> QED BY <2>1, <2>7 DEF SeenInv
<1>6. CASE Parse /\ semantic_validate
  BY <1>3, <1>6 DEF Parse, semantic_validate, vars
<1>7. CASE UNCHANGED cliVars
  BY <1>3, <1>7 DEF cliVars, vars, parserVars
<1>8. CASE \/ IgnoreBlankLine \/ handle_sql_input \/ HandleExit \/ Usage
           \/ handle_create_table \/ handle_rebuild_index \/ HandleOther \/ SelectFromCreated
  BY <1>3, <1>8 DEF IgnoreBlankLine, handle_sql_input, HandleExit, Usage, handle_create_table,
     handle_rebuild_index, HandleOther, SelectFromCreated, Leads, Stays, vars, parserVars
<1> QED BY <1>4, <1>5, <1>6, <1>7, <1>8 DEF CliNext

(* ... and the second. *)
LEMMA NameKept ==
  ASSUME CliInv, NameInv, [CliNext]_cliVars
  PROVE  NameInv'
<1>1. /\ NameInv <=>
           /\ route \in {"create", "select"} =>
                argument \in Seq(Characters) /\ storage_valid_table_name(argument)
           /\ route = "select" => input = SelectAllFrom \o argument \o <<Semicolon>>
      /\ NameInv' <=>
           /\ route' \in {"create", "select"} =>
                argument' \in Seq(Characters) /\ storage_valid_table_name(argument')
           /\ route' = "select" => input' = SelectAllFrom \o argument' \o <<Semicolon>>
  BY DEF NameInv
<1>2. CASE handle_create_table
  <2>1. /\ argument' = Argument
        /\ route' = CASE Len(Argument) > TableNameMax -> "NAME_TOO_LONG"
                      [] Len(Argument) <= TableNameMax /\ ~storage_valid_table_name(Argument) -> "INVALID_NAME"
                      [] OTHER -> "create"
    BY <1>2 DEF handle_create_table, Leads
  <2>2. Argument \in Seq(Characters) /\ Len(Argument) \in Nat /\ TableNameMax \in Nat
    BY ArgumentTyping, LenProperties, WordAssumption DEF CliInv, TokenizerInv
  <2>3. route' \in {"create", "select"} => storage_valid_table_name(Argument)
    BY <2>1, <2>2
  <2>4. route' # "select"
    BY <2>1
  <2> QED BY <1>1, <2>1, <2>2, <2>3, <2>4
<1>3. CASE handle_rebuild_index \/ handle_sql_input \/ IgnoreBlankLine \/ HandleExit \/ Usage \/ HandleOther
  <2>1. route' \notin {"create", "select"}
    BY <1>3 DEF handle_rebuild_index, handle_sql_input, IgnoreBlankLine, HandleExit, Usage, HandleOther, Leads
  <2> QED BY <1>1, <2>1
<1>4. CASE SelectFromCreated
  <2>1. route = "create" /\ argument' = argument /\ input' = SelectAllFrom \o argument \o <<Semicolon>>
    BY <1>4 DEF SelectFromCreated
  <2> QED BY <1>1, <2>1
<1>5. CASE Tokenize \/ Parse \/ UNCHANGED cliVars
  <2>1. input' = input /\ argument' = argument /\ route' = route
    BY <1>5 DEF Tokenize, Parse, Next, cliVars, vars, SkipSpace, TooManyTokens, ReadPunct, BeginString,
       BeginNumber, BeginWord, InvalidCharacter, ReadCharacter, TokenTooLong, EndString,
       UnterminatedString, EndNumber, EndWord, Finish, Emit, Return, BeginToken
  <2> QED BY <1>1, <2>1
<1> QED BY <1>2, <1>3, <1>4, <1>5 DEF CliNext

(* A name that begins with a letter and is no keyword is selected from ... *)
LEMMA LettersReach ==
  ASSUME CliInv, TextInv, SeenInv, NameInv, ReadingInv, VerdictInv, route = "select", Answered,
         argument[1] \in Letters, Folded(argument) \notin DOMAIN Keywords
  PROVE  verdict = "SEMANTIC_OK" /\ ast.table_name = argument
<1>1. /\ argument \in Seq(Characters) /\ storage_valid_table_name(argument)
      /\ input = SelectAllFrom \o argument \o <<Semicolon>>
      /\ input \in Seq(Characters) /\ TokenizerInv /\ ValueInv
  BY DEF NameInv, CliInv, TokenizerInv
<1>2. PICK s, t, e \in Nat : SelectLine(s, t, e)
  BY <1>1, LineOfSelect
<1>3. Legal
  BY <1>1, <1>2, SelectIsLegal
<1>4. status # "none" => status = "TOKENIZE_OK"
  BY <1>1, <1>3, TextDecides DEF AcceptsExactly
<1>5. parse_status # "none" /\ status = "TOKENIZE_OK"
  BY <1>4 DEF Answered, VerdictInv, SeenInv
<1>6. /\ Len(storage) = 6 /\ \A k \in 1..6 : Seen(storage[k]).type = SelectAll[k]
      /\ Seen(storage[4]).value = argument
  BY <1>1, <1>2, <1>5, SelectTokens
<1>7. Len(tokens) \in Nat
  BY LenProperties DEF CliInv
<1>8. Len(tokens) <= 6
  <2>1. Len(tokens) # 0 => Len(tokens) \in 1..Len(tokens)
    BY <1>7
  <2> QED BY <1>6, <1>7, <2>1 DEF SeenInv
<1>9. \A k \in 1..Len(tokens) : tokens[k].type = SelectAll[k] /\ tokens[k] = Seen(storage[k])
  BY <1>6, <1>7, <1>8 DEF SeenInv
<1>10. Len(tokens) >= 4 => tokens[4].value = argument
  <2>1. Len(tokens) >= 4 => 4 \in 1..Len(tokens)
    BY <1>7
  <2> QED BY <1>6, <1>9, <2>1
<1>11. argument \notin Oversized
  <2> DEFINE l == Len(argument)
  <2>1. /\ DOMAIN argument = 1..l /\ l \in Nat /\ argument # <<>> /\ l <= TableNameMax
        /\ argument = [j \in DOMAIN argument |-> argument[j]]
        /\ \A j \in DOMAIN argument : argument[j] \in WordCharacters
    BY <1>1, LenProperties DEF storage_valid_table_name
  <2>2. l # 0
    BY <1>1, <2>1, EmptySeq
  <2> HIDE DEF l
  <2>3. l \in 1..TableNameMax
    BY <2>1, <2>2, WordAssumption
  <2>4. argument \in [1..l -> WordCharacters]
    BY <2>1
  <2> QED BY <2>3, <2>4, NameFitsAssumption
<1>12. /\ parse_status = "PARSE_OK" /\ ast.type = "AST_SELECT" /\ ast.columns = <<>>
       /\ ~ast.has_where /\ Len(tokens) = 6 /\ ast.table_name = tokens[4].value
  BY <1>5, <1>8, <1>9, <1>10, <1>11, SelectAllAccepted
<1>13. verdict # "none"
  BY <1>5, <1>12 DEF Answered
<1>14. ColumnsKnown /\ WhereStatus = "SEMANTIC_OK"
  BY <1>12 DEF ColumnsKnown, WhereStatus
<1>15. verdict = "SEMANTIC_OK"
  BY <1>12, <1>13, <1>14 DEF VerdictInv
<1> QED BY <1>10, <1>12, <1>15

(* ... and no other is. *)
LEMMA OthersDoNot ==
  ASSUME CliInv, TextInv, SeenInv, ReadingInv, VerdictInv, verdict = "SEMANTIC_OK"
  PROVE  ast.table_name[1] \in Letters /\ Folded(ast.table_name) \notin DOMAIN Keywords
<1>1. parse_status = "PARSE_OK"
  BY DEF VerdictInv
<1>2. PICK k \in 1..Len(tokens) : tokens[k].type = "IDENTIFIER" /\ tokens[k].value = ast.table_name
  BY <1>1, TableIsIdentifier
<1>3. k \in 1..Len(storage) /\ tokens[k] = Seen(storage[k])
  <2>1. k <= Len(storage) /\ tokens[k] = Seen(storage[k]) /\ Len(storage) \in Nat /\ Len(tokens) \in Nat
    BY <1>2, LenProperties DEF SeenInv, CliInv, TokenizerInv
  <2> QED BY <1>2, <2>1
<1>4. "IDENTIFIER" \notin Plain
  BY DEF Plain
<1>5. storage[k].type = "IDENTIFIER" /\ storage[k].value = ast.table_name
  <2>1. Seen(storage[k]).type = "IDENTIFIER" /\ Seen(storage[k]).value = ast.table_name
    BY <1>2, <1>3
  <2>2. storage[k].type \notin Puncts
    <3>1. storage[k].type \in Puncts => PunctTypes[storage[k].type] \in Plain
      BY TypeAssumption
    <3> QED BY <1>4, <2>1, <3>1 DEF Seen
  <2> QED BY <1>4, <2>1, <2>2 DEF Seen
<1>6. IsToken(storage[k]) /\ input \in Seq(Characters)
  BY <1>3, <1>5, IdentifiersAreTokens DEF CliInv, TokenizerInv
<1> QED BY <1>5, <1>6, IdentifierIsName

(* Every identifier short enough names a table. *)
LEMMA IdentifiersName ==
  ASSUME CliInv, TextInv, NEW n \in DOMAIN storage, storage[n].type = "IDENTIFIER",
         Len(storage[n].value) <= TableNameMax
  PROVE  storage_valid_table_name(storage[n].value)
<1>1. n \in 1..Len(storage) /\ input \in Seq(Characters)
  BY LenProperties DEF CliInv, TokenizerInv
<1>2. IsToken(storage[n])
  BY <1>1, IdentifiersAreTokens
<1> QED BY <1>1, <1>2, IdentifierIsName DEF storage_valid_table_name

(* From the shell to the verdict and back: of all the tables a client may  *)
(* create, whatever the alphabet, the keywords and the limits, he can      *)
(* select from those, and only those, whose name begins with a letter and  *)
(* is no keyword; and every identifier that is short enough names a table. *)
THEOREM CreatedCanBeSelected == CliSpec => []CreatedIsSelectable
<1>1. CliInit => SeenInv /\ NameInv
  <2> SUFFICES ASSUME CliInit
               PROVE  SeenInv /\ NameInv
    OBVIOUS
  <2>1. tokens = <<>> /\ parse_status = "none" /\ route = "none"
    BY DEF CliInit, ParserInit
  <2>2. \A k \in 1..Len(tokens) : FALSE
    BY <2>1
  <2> QED BY <2>1, <2>2 DEF SeenInv, NameInv
<1>2. CliInv /\ TextInv /\ SeenInv /\ NameInv /\ ReadingInv /\ VerdictInv => CreatedIsSelectable
  <2> SUFFICES ASSUME CliInv, TextInv, SeenInv, NameInv, ReadingInv, VerdictInv
               PROVE  CreatedIsSelectable
    OBVIOUS
  <2>1. ASSUME route = "select", Answered
        PROVE  verdict = "SEMANTIC_OK" /\ ast.table_name = argument
                 <=> argument[1] \in Letters /\ Folded(argument) \notin DOMAIN Keywords
    <3>1. verdict = "SEMANTIC_OK" /\ ast.table_name = argument
            => argument[1] \in Letters /\ Folded(argument) \notin DOMAIN Keywords
      BY OthersDoNot
    <3>2. argument[1] \in Letters /\ Folded(argument) \notin DOMAIN Keywords
            => verdict = "SEMANTIC_OK" /\ ast.table_name = argument
      BY <2>1, LettersReach
    <3> QED BY <3>1, <3>2
  <2> QED BY <2>1, IdentifiersName DEF CreatedIsSelectable
<1>3. CliSpec => [](ReadingInv /\ VerdictInv)
  BY CommandLineUsesParser, ReadingInvariance, VerdictInvariance, PTL
<1> QED BY <1>1, <1>2, <1>3, SeenKept, NameKept, CliInvariance, TextInvariance, PTL DEF CliSpec
=============================================================================
