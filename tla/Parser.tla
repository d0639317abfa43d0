-------------------------------- MODULE Parser --------------------------------
(***************************************************************************)
(* src/parser.c, src/semantic.c and src/column.c: a token at a time, the   *)
(* statement is recognized and its AST filled; then the AST is validated.  *)
(* The parser never looks beyond the token it is at, so each step draws    *)
(* that token: `tokens' holds those it has looked at, the last of them the *)
(* one it refused, if it did.  The end of the buffer stands for a          *)
(* TOKEN_EOF (parser_peek).                                                *)
(***************************************************************************)
EXTENDS Integers, Sequences

CONSTANTS
  Identifiers, Numbers, Strings,  \* the values of such tokens
  Oversized,   \* the values too long for the AST: 32 characters or more
  InRange,     \* the numbers that util_parse_int32 accepts
  IdColumn, NameColumn,  \* "id" and "name"
  NoValue,     \* the empty string
  MaxColumns   \* MAX_COLUMNS

ASSUME ColumnAssumption == MaxColumns \in Nat \ {0}
ASSUME ValueAssumption ==
  /\ {IdColumn, NameColumn} \subseteq Identifiers \ Oversized /\ IdColumn # NameColumn
  /\ NoValue \notin Oversized

Plain == {"SELECT", "INSERT", "FROM", "WHERE", "INTO", "VALUES",
          "STAR", "COMMA", "EQUAL", "LPAREN", "RPAREN", "SEMICOLON", "EOF"}

Tokens == [type : Plain, value : {NoValue}]
            \union [type : {"IDENTIFIER"}, value : Identifiers]
            \union [type : {"NUMBER"}, value : Numbers]
            \union [type : {"STRING"}, value : Strings]

VARIABLES
  tokens,   \* the tokens looked at
  place,    \* what the parser expects next
  ast,
  parse_status,  \* "none", or what parse_tokens returned
  verdict   \* "none", or what semantic_validate returned

parserVars == <<tokens, place, ast, parse_status, verdict>>

Blank == [type |-> "AST_UNKNOWN", table_name |-> NoValue, select_all |-> FALSE, columns |-> <<>>,
          where_column |-> NoValue, where_type |-> "NUMBER", where_value |-> NoValue,
          has_where |-> FALSE, id |-> NoValue, name |-> NoValue]

ParserInit ==
  /\ tokens = <<>>
  /\ place = "statement"
  /\ ast = Blank
  /\ parse_status = "none"
  /\ verdict = "none"

(* The places where one kind of token leads on and says nothing more       *)
Fixed == {
  <<"more", "COMMA", "column">>, <<"more", "FROM", "table">>,
  <<"from", "FROM", "table">>, <<"where", "SEMICOLON", "end">>,
  <<"equal", "EQUAL", "value">>, <<"semicolon", "SEMICOLON", "end">>,
  <<"into", "INTO", "target">>, <<"values", "VALUES", "lparen">>,
  <<"lparen", "LPAREN", "id">>, <<"comma", "COMMA", "name">>,
  <<"rparen", "RPAREN", "semicolon">>}

(* The others *)
Carrying == {
  <<"statement", "SELECT">>, <<"statement", "INSERT">>,
  <<"projection", "STAR">>, <<"projection", "IDENTIFIER">>, <<"column", "IDENTIFIER">>,
  <<"table", "IDENTIFIER">>, <<"where", "WHERE">>, <<"condition", "IDENTIFIER">>,
  <<"value", "NUMBER">>, <<"value", "STRING">>,
  <<"target", "IDENTIFIER">>, <<"id", "NUMBER">>, <<"name", "STRING">>}

Expected(type) ==
  \/ \E e \in Fixed : e[1] = place /\ e[2] = type
  \/ <<place, type>> \in Carrying

util_copy_checked(value) == value \notin Oversized

-----------------------------------------------------------------------------
Parsing(t) == parse_status = "none" /\ tokens' = Append(tokens, t) /\ UNCHANGED verdict

(* The token fits its place and leads on. *)
Advance(to, new) == place' = to /\ ast' = new /\ UNCHANGED parse_status

(* Nobody uses the AST of a statement that was refused. *)
Answer(s) == parse_status' = s /\ UNCHANGED <<place, ast>>

ExpectToken(t) ==
  /\ Parsing(t)
  /\ \E e \in Fixed : e[1] = place /\ e[2] = t.type /\ Advance(e[3], ast)

(* Mutant: the end of the input is an error like another. *)
UnexpectedToken(t) ==
  /\ Parsing(t)
  /\ place # "end" /\ ~Expected(t.type)
  /\ Answer("PARSE_ERROR")

missing_token_status(t) ==
  /\ Parsing(t)
  /\ place # "end" /\ ~Expected(t.type)
  /\ Answer(IF t.type = "EOF" THEN "PARSE_UNEXPECTED_EOF" ELSE "PARSE_ERROR")

AtEnd(t) ==
  /\ Parsing(t)
  /\ place = "end"
  /\ Answer(IF t.type = "EOF" THEN "PARSE_OK" ELSE "PARSE_TRAILING_TOKENS")

parse_tokens(t) ==
  /\ Parsing(t)
  /\ place = "statement"
  /\ \/ t.type = "SELECT" /\ Advance("projection", [ast EXCEPT !.type = "AST_SELECT"])
     \/ t.type = "INSERT" /\ Advance("into", [ast EXCEPT !.type = "AST_INSERT"])

ParseStar(t) ==
  /\ Parsing(t)
  /\ place = "projection" /\ t.type = "STAR"
  /\ Advance("from", [ast EXCEPT !.select_all = TRUE])

HasColumnLeft == Len(ast.columns) < MaxColumns

(* Mutant: the count stays at one, each column overwrites the last. *)
ParseColumnUncounted(t) ==
  /\ Parsing(t)
  /\ place \in {"projection", "column"} /\ t.type = "IDENTIFIER"
  /\ IF util_copy_checked(t.value)
     THEN Advance("more", [ast EXCEPT !.columns = <<t.value>>])
     ELSE Answer("PARSE_IDENTIFIER_TOO_LONG")

ParseColumn(t) ==
  /\ Parsing(t)
  /\ place \in {"projection", "column"} /\ t.type = "IDENTIFIER"
  /\ CASE ~HasColumnLeft -> Answer("PARSE_ERROR")
       [] HasColumnLeft /\ ~util_copy_checked(t.value) -> Answer("PARSE_IDENTIFIER_TOO_LONG")
       [] OTHER -> Advance("more", [ast EXCEPT !.columns = Append(@, t.value)])

ParseTable(t) ==
  /\ Parsing(t)
  /\ place \in {"table", "target"} /\ t.type = "IDENTIFIER"
  /\ IF util_copy_checked(t.value)
     THEN Advance(IF place = "table" THEN "where" ELSE "values",
                  [ast EXCEPT !.table_name = t.value])
     ELSE Answer("PARSE_TABLE_NAME_TOO_LONG")

ParseWhere(t) ==
  /\ Parsing(t)
  /\ place = "where" /\ t.type = "WHERE"
  /\ Advance("condition", [ast EXCEPT !.has_where = TRUE])

ParseCondition(t) ==
  /\ Parsing(t)
  /\ place = "condition" /\ t.type = "IDENTIFIER"
  /\ IF util_copy_checked(t.value)
     THEN Advance("equal", [ast EXCEPT !.where_column = t.value])
     ELSE Answer("PARSE_IDENTIFIER_TOO_LONG")

ParseValue(t) ==
  /\ Parsing(t)
  /\ place = "value" /\ t.type \in {"NUMBER", "STRING"}
  /\ IF util_copy_checked(t.value)
     THEN Advance("semicolon", [ast EXCEPT !.where_type = t.type, !.where_value = t.value])
     ELSE Answer(IF t.type = "NUMBER" THEN "PARSE_INTEGER_OUT_OF_RANGE" ELSE "PARSE_STRING_TOO_LONG")

ParseId(t) ==
  /\ Parsing(t)
  /\ place = "id" /\ t.type = "NUMBER"
  /\ IF t.value \in InRange THEN Advance("comma", [ast EXCEPT !.id = t.value])
     ELSE Answer("PARSE_INTEGER_OUT_OF_RANGE")

(* Mutant: the name is copied without regard for its length. *)
ParseNameUnchecked(t) ==
  /\ Parsing(t)
  /\ place = "name" /\ t.type = "STRING"
  /\ Advance("rparen", [ast EXCEPT !.name = t.value])

ParseName(t) ==
  /\ Parsing(t)
  /\ place = "name" /\ t.type = "STRING"
  /\ IF util_copy_checked(t.value) THEN Advance("rparen", [ast EXCEPT !.name = t.value])
     ELSE Answer("PARSE_STRING_TOO_LONG")

-----------------------------------------------------------------------------
column_from_name(name) ==
  CASE name = IdColumn -> "COLUMN_ID" [] name = NameColumn -> "COLUMN_NAME" [] OTHER -> "COLUMN_INVALID"

ColumnsKnown == \A i \in DOMAIN ast.columns : column_from_name(ast.columns[i]) # "COLUMN_INVALID"

WhereKnown == column_from_name(ast.where_column) # "COLUMN_INVALID"
WhereTyped == ast.where_column = IdColumn <=> ast.where_type = "NUMBER"

(* Mutant: any number will do for an id. *)
WhereStatusUnparsed ==
  CASE ~ast.has_where \/ (WhereKnown /\ WhereTyped) -> "SEMANTIC_OK"
    [] ast.has_where /\ ~WhereKnown -> "SEMANTIC_UNKNOWN_COLUMN"
    [] OTHER -> "SEMANTIC_TYPE_MISMATCH"

(* What the condition is refused for first *)
WhereStatus ==
  LET InRangeIfId == ast.where_column = IdColumn => ast.where_value \in InRange
  IN  CASE ~ast.has_where \/ (WhereKnown /\ WhereTyped /\ InRangeIfId) -> "SEMANTIC_OK"
        [] ast.has_where /\ ~WhereKnown -> "SEMANTIC_UNKNOWN_COLUMN"
        [] ast.has_where /\ WhereKnown /\ ~WhereTyped -> "SEMANTIC_TYPE_MISMATCH"
        [] OTHER -> "SEMANTIC_INVALID_VALUE"

(* An INSERT has nothing left to validate.  The AST of a SELECT that was   *)
(* parsed has a column or select_all, and not too many.                    *)
semantic_validate ==
  /\ parse_status = "PARSE_OK" /\ verdict = "none"
  /\ verdict' = CASE ast.type = "AST_INSERT" -> "SEMANTIC_OK"
                  [] ast.type # "AST_INSERT" /\ ~ColumnsKnown -> "SEMANTIC_UNKNOWN_COLUMN"
                  [] OTHER -> WhereStatus
  /\ UNCHANGED <<tokens, place, ast, parse_status>>

Step(t) ==
  \/ ExpectToken(t) \/ missing_token_status(t) \/ AtEnd(t)
  \/ parse_tokens(t) \/ ParseStar(t) \/ ParseColumn(t) \/ ParseTable(t)
  \/ ParseWhere(t) \/ ParseCondition(t) \/ ParseValue(t)
  \/ ParseId(t) \/ ParseName(t)

ParserNext == semantic_validate \/ \E t \in Tokens : Step(t)

ParserSpec == ParserInit /\ [][ParserNext]_parserVars

-----------------------------------------------------------------------------
(* The grammar of the README, as the types of a statement's tokens.  It    *)
(* does not limit the list of columns; the parser does not get beyond one  *)
(* column more than it has room for.                                       *)
ColumnList(n) == [k \in 1..(2 * n - 1) |-> IF k % 2 = 1 THEN "IDENTIFIER" ELSE "COMMA"]

Projections == {<<"STAR">>} \union {ColumnList(n) : n \in 1..(MaxColumns + 1)}

Conditions == {<<>>} \union {<<"WHERE", "IDENTIFIER", "EQUAL", v>> : v \in {"NUMBER", "STRING"}}

Sentences ==
  {<<"SELECT">> \o p \o <<"FROM", "IDENTIFIER">> \o c \o <<"SEMICOLON">> :
      p \in Projections, c \in Conditions}
  \union {<<"INSERT", "INTO", "IDENTIFIER", "VALUES", "LPAREN", "NUMBER", "COMMA", "STRING",
            "RPAREN", "SEMICOLON">>}

Types(ts) == [k \in DOMAIN ts |-> ts[k].type]

StartsSentence(types) == \E s \in Sentences : Len(types) <= Len(s) /\ types = SubSeq(s, 1, Len(types))

ReadTokens == IF tokens = <<>> THEN <<>> ELSE SubSeq(tokens, 1, Len(tokens) - 1)
LastToken == tokens[Len(tokens)]

ParserTypeOK ==
  /\ \A k \in DOMAIN tokens : tokens[k] \in Tokens
  /\ Len(ast.columns) <= MaxColumns
  /\ ({ast.table_name, ast.where_column, ast.where_value, ast.name}
        \union {ast.columns[i] : i \in DOMAIN ast.columns}) \intersect Oversized = {}
  /\ verdict # "none" => parse_status = "PARSE_OK"

(* PARSE_OK is for the sentences of the grammar (of so many columns) and   *)
(* for nothing else, and every other status is true of the tokens: an end  *)
(* of input that a statement could have gone on from, tokens behind a      *)
(* whole statement, or else the very token from which no statement goes on *)
(* (or a value, an id or one column more that does not fit).  The parser   *)
(* neither stops early nor reads on.  What the README's grammar does not   *)
(* call for, a refusal of a number in a WHERE and of a list of columns for *)
(* its length, is GrammarIsAccepted's.                                     *)
StatusIsTrue ==
  /\ parse_status = "none" => StartsSentence(Types(tokens))
  /\ parse_status # "none" => StartsSentence(Types(ReadTokens))
  /\ parse_status = "PARSE_OK" => Types(ReadTokens) \in Sentences /\ LastToken.type = "EOF"
  /\ parse_status = "PARSE_TRAILING_TOKENS" => Types(ReadTokens) \in Sentences /\ LastToken.type # "EOF"
  /\ parse_status = "PARSE_UNEXPECTED_EOF" => Types(ReadTokens) \notin Sentences /\ LastToken.type = "EOF"
  /\ parse_status = "PARSE_ERROR" =>
       /\ LastToken.type # "EOF"
       /\ StartsSentence(Types(tokens)) => Types(tokens) = <<"SELECT">> \o ColumnList(MaxColumns + 1)
  /\ parse_status \in {"PARSE_TABLE_NAME_TOO_LONG", "PARSE_IDENTIFIER_TOO_LONG", "PARSE_STRING_TOO_LONG"} =>
       StartsSentence(Types(tokens)) /\ LastToken.value \in Oversized
  /\ parse_status = "PARSE_INTEGER_OUT_OF_RANGE" =>
       /\ StartsSentence(Types(tokens)) /\ LastToken.type = "NUMBER"
       /\ place = "id" => LastToken.value \notin InRange

(* No statement of the README's grammar is refused for its form or for a   *)
(* number in range ("Supported SQL grammar": `SELECT <col>[, <col>...]'    *)
(* and "Numeric literals may be signed and must be in [-2147483648,        *)
(* 2147483647]"; src/status.c: "integer outside int32 range").  Some are:  *)
(* a number in a WHERE of 32 characters, leading zeros included, and a     *)
(* list of more than MAX_COLUMNS columns.                                  *)
GrammarIsAccepted ==
  /\ parse_status = "PARSE_ERROR" => ~StartsSentence(Types(tokens))
  /\ parse_status = "PARSE_INTEGER_OUT_OF_RANGE" => LastToken.value \notin InRange

(* The value of the first token at or behind a position with that type *)
ValueAfter(type, k) ==
  LET found == {j \in k..Len(tokens) : tokens[j].type = type}
  IN  IF found = {} THEN NoValue ELSE tokens[CHOOSE j \in found : \A i \in found : j <= i].value

PositionOf(type) == CHOOSE k \in DOMAIN tokens : tokens[k].type = type

(* The AST of an accepted statement is what the statement says: no value   *)
(* is lost, cut or put in another's place.                                 *)
AstIsMeaning ==
  parse_status = "PARSE_OK" =>
    IF ast.type = "AST_INSERT"
    THEN /\ ast.table_name = ValueAfter("IDENTIFIER", 1)
         /\ ast.id = ValueAfter("NUMBER", 1)
         /\ ast.name = ValueAfter("STRING", 1)
    ELSE LET from == PositionOf("FROM")
         IN  /\ ast.select_all <=> tokens[2].type = "STAR"
             /\ ast.columns = [i \in 1..(IF ast.select_all THEN 0 ELSE (from - 1) \div 2)
                                 |-> tokens[2 * i].value]
             /\ ast.table_name = tokens[from + 1].value
             /\ ast.has_where <=> tokens[from + 2].type = "WHERE"
             /\ ast.has_where =>
                  /\ ast.where_column = tokens[from + 3].value
                  /\ [type |-> ast.where_type, value |-> ast.where_value] = tokens[from + 5]

(* A validated statement meets what the executor takes for granted: every  *)
(* column can be printed, the WHERE value compares with its column (an id  *)
(* that does not parse would silently match no row), and the name of an    *)
(* INSERT fits its row, so that no statement fails half-way for its form.  *)
ValidatedIsExecutable ==
  verdict = "SEMANTIC_OK" =>
    /\ \A i \in DOMAIN ast.columns : ast.columns[i] \in {IdColumn, NameColumn}
    /\ ast.has_where =>
         \/ ast.where_column = IdColumn /\ ast.where_type = "NUMBER" /\ ast.where_value \in InRange
         \/ ast.where_column = NameColumn /\ ast.where_type = "STRING"
    /\ ast.type = "AST_INSERT" => ast.id \in InRange /\ ast.name \notin Oversized
=============================================================================
