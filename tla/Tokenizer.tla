------------------------------ MODULE Tokenizer ------------------------------
(***************************************************************************)
(* src/tokenizer.c: a line cut into tokens, character by character.  The   *)
(* characters are those of a few classes; one of each class is enough,     *)
(* since the code asks only for the class (isspace, isdigit, isalpha) and, *)
(* for keywords, for the letter in lower case.                             *)
(*                                                                         *)
(* The check before the final TOKEN_EOF never fails and is left out: every *)
(* token before it left room for one more.                                 *)
(***************************************************************************)
EXTENDS Integers, Sequences, FiniteSets

CONSTANTS
  Characters,     \* of the lines, those of no class included
  Spaces, Puncts, Digits, Letters,  \* the classes; `_' is a letter
  Lower,          \* tolower, on Letters
  Keywords,       \* the token type of each keyword, by its letters in lower case
  Capacity,       \* storage_capacity
  TokenValueMax,  \* TOKEN_VALUE_MAX
  Inputs          \* the lines

ASSUME LimitAssumption == Capacity \in Nat \ {0} /\ TokenValueMax \in Nat \ {0}
ASSUME LineAssumption == Inputs \subseteq Seq(Characters)

Quote == "quote"
Minus == "-"
Nul == "NUL"
WordCharacters == Letters \union Digits

(* No character is of two classes (in the C locale), and a line has no NUL *)
ASSUME ClassAssumption ==
  /\ Nul \notin Characters \union Spaces \union Puncts \union WordCharacters
  /\ {Quote, Minus} \intersect (Spaces \union Puncts \union WordCharacters) = {}
  /\ Spaces \intersect (Puncts \union WordCharacters) = {}
  /\ Puncts \intersect WordCharacters = {} /\ Letters \intersect Digits = {}

(* A keyword is of letters, and its token type is no other token's. *)
ASSUME KeywordAssumption ==
  /\ \A k \in DOMAIN Keywords : k \in Seq(Letters) /\ k # <<>>
  /\ \A k \in DOMAIN Keywords : Keywords[k] \notin Puncts \union {"STRING", "NUMBER", "IDENTIFIER"}
  /\ Puncts \intersect {"STRING", "NUMBER", "IDENTIFIER"} = {}

VARIABLES
  input,
  p,        \* the position of the next character
  token,    \* the token being read, with where it began
  storage,  \* the tokens read
  status    \* "none", or what tokenize returned

vars == <<input, p, token, storage, status>>

NoToken == [type |-> "none", value |-> <<>>, from |-> 0]

Init ==
  /\ input \in Inputs
  /\ p = 1
  /\ token = NoToken
  /\ storage = <<>>
  /\ status = "none"

At(i) == IF i \in DOMAIN input THEN input[i] ELSE Nul

Here == At(p)

-----------------------------------------------------------------------------
(* keyword_lookup, and the comparison it makes with util_strncasecmp *)

Folded(word) == [i \in DOMAIN word |-> IF word[i] \in Letters THEN Lower[word[i]] ELSE word[i]]

(* Mutant: a keyword's letters are compared, and what follows them is not. *)
KeywordByPrefix(word) ==
  LET found == {k \in DOMAIN Keywords : Len(k) <= Len(word) /\ Folded(SubSeq(word, 1, Len(k))) = k}
  IN  IF found = {} THEN "IDENTIFIER" ELSE Keywords[CHOOSE k \in found : TRUE]

keyword_lookup(word) ==
  IF Folded(word) \in DOMAIN Keywords THEN Keywords[Folded(word)] ELSE "IDENTIFIER"

-----------------------------------------------------------------------------
Emit(type, value, from, to) ==
  /\ storage' = Append(storage, [type |-> type, value |-> value, from |-> from, to |-> to])
  /\ p' = to + 1
  /\ token' = NoToken
  /\ UNCHANGED <<input, status>>

Return(s) ==
  /\ status' = s
  /\ UNCHANGED <<input, p, token, storage>>

Between == status = "none" /\ token = NoToken

SkipSpace ==
  /\ Between
  /\ Here \in Spaces
  /\ p' = p + 1
  /\ UNCHANGED <<input, token, storage, status>>

AtToken == Between /\ Here \notin Spaces \union {Nul}

(* Room for this token and TOKEN_EOF *)
HasRoom == Len(storage) < Capacity - 1

TooManyTokens == AtToken /\ ~HasRoom /\ Return("TOKENIZE_TOO_MANY_TOKENS")

ReadPunct ==
  /\ AtToken /\ HasRoom
  /\ Here \in Puncts
  /\ Emit(Here, <<Here>>, p, p)

BeginToken(type, value) ==
  /\ token' = [type |-> type, value |-> value, from |-> p]
  /\ UNCHANGED <<input, storage, status>>

BeginString ==
  /\ AtToken /\ HasRoom
  /\ Here = Quote
  /\ BeginToken("STRING", <<>>)
  /\ p' = p + 1

(* Mutant: any minus begins a number. *)
IsSignAlone == Here = Minus

IsSign == Here = Minus /\ At(p + 1) \in Digits

BeginNumber ==
  /\ AtToken /\ HasRoom
  /\ \/ Here \in Digits /\ BeginToken("NUMBER", <<>>) /\ p' = p
     \/ IsSign /\ BeginToken("NUMBER", <<Minus>>) /\ p' = p + 1

BeginWord ==
  /\ AtToken /\ HasRoom
  /\ Here \in Letters
  /\ BeginToken("WORD", <<>>)
  /\ p' = p

InvalidCharacter ==
  /\ AtToken /\ HasRoom
  /\ Here \notin Puncts \union WordCharacters \union {Quote}
  /\ ~IsSign
  /\ Return("TOKENIZE_INVALID_CHARACTER")

-----------------------------------------------------------------------------
Reading(type) == status = "none" /\ token.type = type

(* The loops over the characters of a string, a number and a word *)
GoesOn ==
  \/ Reading("STRING") /\ Here \notin {Quote, Nul}
  \/ Reading("NUMBER") /\ Here \in Digits
  \/ Reading("WORD") /\ Here \in WordCharacters

(* Mutant: the limit leaves no byte for the terminating NUL. *)
FitsWithoutNul == Len(token.value) <= TokenValueMax

Fits == Len(token.value) < TokenValueMax

ReadCharacter ==
  /\ GoesOn /\ Fits
  /\ token' = [token EXCEPT !.value = Append(@, Here)]
  /\ p' = p + 1
  /\ UNCHANGED <<input, storage, status>>

TokenTooLong == GoesOn /\ ~Fits /\ Return("TOKENIZE_TOKEN_TOO_LONG")

EndString ==
  /\ Reading("STRING") /\ Here = Quote
  /\ Emit("STRING", token.value, token.from, p)

UnterminatedString ==
  /\ Reading("STRING") /\ Here = Nul
  /\ Return("TOKENIZE_UNTERMINATED_STRING")

EndNumber ==
  /\ Reading("NUMBER") /\ ~GoesOn
  /\ Emit("NUMBER", token.value, token.from, p - 1)

EndWord ==
  /\ Reading("WORD") /\ ~GoesOn
  /\ Emit(keyword_lookup(token.value), token.value, token.from, p - 1)

Finish ==
  /\ Between /\ Here = Nul
  /\ storage' = Append(storage, [type |-> "EOF", value |-> <<>>, from |-> p, to |-> p - 1])
  /\ status' = "TOKENIZE_OK"
  /\ UNCHANGED <<input, p, token>>

Next ==
  \/ SkipSpace \/ TooManyTokens \/ ReadPunct
  \/ BeginString \/ BeginNumber \/ BeginWord \/ InvalidCharacter
  \/ ReadCharacter \/ TokenTooLong
  \/ EndString \/ UnterminatedString \/ EndNumber \/ EndWord
  \/ Finish

Spec == Init /\ [][Next]_vars

(* What tokenize gives its caller: nothing but on success. *)
result == IF status = "TOKENIZE_OK" THEN storage ELSE <<>>

-----------------------------------------------------------------------------
(* What the tokens of a text are, said of its positions.                   *)

InString(i) == Cardinality({j \in 1..(i - 1) : input[j] = Quote}) % 2 = 1

(* A word goes on here: a letter before, and word characters since. *)
WordGoesOn(i) ==
  \E j \in 1..(i - 1) : /\ At(j) \in Letters
                        /\ \A k \in j..(i - 1) : At(k) \in WordCharacters

IsSignAt(i) == At(i) = Minus /\ At(i + 1) \in Digits

Begins(i) ==
  /\ ~InString(i)
  /\ \/ At(i) \in Puncts \union {Quote} \/ IsSignAt(i)
     \/ At(i) \in Letters /\ ~WordGoesOn(i)
     \/ At(i) \in Digits /\ ~WordGoesOn(i) /\ At(i - 1) \notin Digits \union {Minus}

Beginnings == {i \in DOMAIN input : Begins(i)}

IsLegalAt(i) ==
  \/ InString(i) \/ IsSignAt(i)
  \/ At(i) \in Spaces \union Puncts \union WordCharacters \union {Quote}

(* What a token that begins here would hold, from its first position to    *)
(* its last: a string without its quotes.                                  *)
Text(i) ==
  LET part == {j \in i..Len(input) :
                 \A k \in (i + 1)..j : IF At(i) = Quote THEN At(k) # Quote
                                       ELSE ~Begins(k) /\ At(k) \in WordCharacters}
  IN  IF At(i) = Quote THEN part \ {i} ELSE part

(* The texts that tokenize accepts. *)
Legal ==
  /\ \A i \in DOMAIN input : IsLegalAt(i)
  /\ ~InString(Len(input) + 1)
  /\ Cardinality(Beginnings) <= Capacity - 1
  /\ \A i \in Beginnings : Cardinality(Text(i)) <= TokenValueMax

-----------------------------------------------------------------------------
Statuses == {"TOKENIZE_OK", "TOKENIZE_TOO_MANY_TOKENS", "TOKENIZE_TOKEN_TOO_LONG",
             "TOKENIZE_UNTERMINATED_STRING", "TOKENIZE_INVALID_CHARACTER"}

(* The buffers included: a token's value and NUL, the tokens and EOF. *)
TokenizerTypeOK ==
  /\ p \in 1..(Len(input) + 1)
  /\ Len(token.value) <= TokenValueMax
  /\ Len(storage) <= Capacity
  /\ \A n \in DOMAIN storage : Len(storage[n].value) <= TokenValueMax
  /\ status \in Statuses \union {"none"}

(* The tokens are those of the text, in order: each begins where one of    *)
(* the text does and is as long (so 12 is not 1 and 2, SELECTOR is not     *)
(* SELECT and OR, and nothing inside a string is a token), nothing is left *)
(* out, and a word is a keyword only if all of it is.                      *)
TokensAreText ==
  status = "TOKENIZE_OK" =>
    LET tokens == SubSeq(storage, 1, Len(storage) - 1)
    IN  /\ {tokens[n].from : n \in DOMAIN tokens} = Beginnings
        /\ \A n \in DOMAIN tokens :
             LET t == tokens[n]
             IN  /\ n > 1 => tokens[n - 1].to < t.from
                 /\ t.value = [k \in 1..Cardinality(Text(t.from)) |->
                                 input[t.from + k - (IF t.type = "STRING" THEN 0 ELSE 1)]]
                 /\ t.type = "STRING" <=> At(t.from) = Quote
                 /\ t.type = "NUMBER" <=> At(t.from) \in Digits \union {Minus}
                 /\ At(t.from) \in Puncts => t.type = At(t.from)
                 /\ At(t.from) \in Letters =>
                      t.type \in {"IDENTIFIER"} \union {Keywords[k] : k \in DOMAIN Keywords}
                 /\ t.type \in {Keywords[k] : k \in DOMAIN Keywords}
                      <=> \E k \in DOMAIN Keywords : Keywords[k] = t.type /\ Folded(t.value) = k

(* A line is refused for a fault it has, where the fault shows and where   *)
(* none has shown before, and the tokens before it are not handed out.     *)
RefusalIsDeserved ==
  /\ result = <<>>
  /\ \A i \in 1..(p - 1) : IsLegalAt(i)
  /\ Cardinality({i \in Beginnings : i < p}) <= Capacity - 1
  /\ \A i \in Beginnings : Cardinality({j \in Text(i) : j < p}) <= TokenValueMax
  /\ CASE status = "TOKENIZE_INVALID_CHARACTER" -> ~IsLegalAt(p)
       [] status = "TOKENIZE_TOO_MANY_TOKENS" -> p \in Beginnings \/ ~IsLegalAt(p)
       [] status = "TOKENIZE_TOKEN_TOO_LONG" ->
            \E i \in Beginnings : p \in Text(i) /\ Cardinality(Text(i)) > TokenValueMax
       [] status = "TOKENIZE_UNTERMINATED_STRING" -> InString(Len(input) + 1)

(* The accepted lines are the legal ones: each limit is neither met too    *)
(* early nor passed, nothing that is no token slips through, and a refusal *)
(* names a fault of the line.  Where two faults meet in one string, too    *)
(* long and never closed, the property allows either name:                 *)
(* UnterminatedIsReported says which one is promised.                      *)
AcceptsExactly ==
  /\ status # "none" => (status = "TOKENIZE_OK" <=> Legal)
  /\ status \notin {"none", "TOKENIZE_OK"} => RefusalIsDeserved

(* A string that has begun and is never closed is reported as such         *)
(* (include/tokenizer.h: "Unterminated strings return                      *)
(* TOKENIZE_UNTERMINATED_STRING").  One that is too long as well is not:   *)
(* the loop over its characters meets the limit before the end.            *)
UnterminatedIsReported ==
  LET neverClosed == \A j \in (token.from + 1)..Len(input) : input[j] # Quote
  IN  status # "none" /\ token.type = "STRING" /\ neverClosed
        => status = "TOKENIZE_UNTERMINATED_STRING"
=============================================================================
