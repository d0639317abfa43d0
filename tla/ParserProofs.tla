----------------------------- MODULE ParserProofs -----------------------------
(***************************************************************************)
(* Proofs about Parser, for any values and any limit of the columns: that  *)
(* nothing is longer than its field and that what was validated can be     *)
(* executed; then what the tokens read are at every place, from which it   *)
(* follows that every answer is true and that the AST says what the        *)
(* statement says.                                                         *)
(***************************************************************************)
EXTENDS Parser, SequenceTheorems, TLAPS

Values == Identifiers \union Numbers \union Strings \union {NoValue}
Short == Values \ Oversized

Asts == [type : {"AST_UNKNOWN", "AST_SELECT", "AST_INSERT"}, table_name : Short,
         select_all : BOOLEAN, columns : Seq(Short), where_column : Short,
         where_type : {"NUMBER", "STRING"}, where_value : Short, has_where : BOOLEAN,
         id : Values, name : Short]

(* The places an INSERT comes to, before its id and after *)
BeforeId == {"into", "target", "values", "lparen", "id"}
AfterId == {"comma", "name", "rparen", "semicolon", "end"}

(* The inductive invariant *)
ParserInv ==
  /\ tokens \in Seq(Tokens)
  /\ ast \in Asts
  /\ Len(ast.columns) <= MaxColumns
  /\ verdict # "none" => parse_status = "PARSE_OK"
  /\ parse_status = "PARSE_OK" => place = "end"
  /\ ast.type = "AST_UNKNOWN" <=> place = "statement"
  /\ ast.type = "AST_INSERT" => place \in BeforeId \union AfterId
  /\ ast.type # "AST_SELECT" => ast.columns = <<>> /\ ~ast.has_where
  /\ ast.type = "AST_INSERT" /\ place \in AfterId => ast.id \in InRange
  /\ ValidatedIsExecutable

(* It holds before the first token. *)
LEMMA InitParserInv == ParserInit => ParserInv
<1> SUFFICES ASSUME ParserInit
             PROVE  ParserInv
  OBVIOUS
<1>1. tokens = <<>> /\ place = "statement" /\ ast = Blank /\ parse_status = "none" /\ verdict = "none"
  BY DEF ParserInit
<1>2. <<>> \in Seq(Short) /\ <<>> \in Seq(Tokens) /\ Len(<<>>) = 0
  OBVIOUS
<1>3. NoValue \in Short /\ NoValue \in Values
  BY ValueAssumption DEF Short, Values
<1>4. Blank \in Asts /\ Blank.columns = <<>> /\ Blank.type = "AST_UNKNOWN" /\ ~Blank.has_where
  BY <1>2, <1>3 DEF Blank, Asts
<1> QED BY <1>1, <1>2, <1>4, ColumnAssumption DEF ParserInv, ValidatedIsExecutable

(* A step that only looks at one more token keeps what does not depend on  *)
(* the AST.                                                                *)
LEMMA TokenStep ==
  ASSUME ParserInv, NEW t \in Tokens, Parsing(t)
  PROVE  /\ tokens' \in Seq(Tokens) /\ parse_status = "none" /\ verdict = "none" /\ verdict' = "none"
         /\ ValidatedIsExecutable'
         /\ t.value \in Values /\ (util_copy_checked(t.value) => t.value \in Short)
<1>1. parse_status = "none" /\ verdict = "none" /\ verdict' = "none"
  BY DEF ParserInv, Parsing
<1>2. tokens' \in Seq(Tokens)
  BY AppendProperties DEF ParserInv, Parsing
<1>3. t.value \in Values
  BY DEF Tokens, Values
<1> QED BY <1>1, <1>2, <1>3 DEF ValidatedIsExecutable, util_copy_checked, Short

(* A token that leads on leaves the AST as it was, ... *)
LEMMA PlainKeeps ==
  ASSUME ParserInv, NEW t \in Tokens,
         ExpectToken(t) \/ missing_token_status(t) \/ AtEnd(t)
  PROVE  ParserInv'
<1>1. Parsing(t) /\ ast' = ast
  BY DEF ExpectToken, missing_token_status, AtEnd, Advance, Answer
<1>2. /\ tokens' \in Seq(Tokens) /\ parse_status = "none" /\ verdict' = "none" /\ ValidatedIsExecutable'
  BY <1>1, TokenStep
<1>3. CASE ExpectToken(t)
  BY <1>1, <1>2, <1>3 DEF ExpectToken, Fixed, Advance, ParserInv, BeforeId, AfterId
<1>4. CASE missing_token_status(t)
  BY <1>1, <1>2, <1>4 DEF missing_token_status, Answer, ParserInv
<1>5. CASE AtEnd(t)
  BY <1>1, <1>2, <1>5 DEF AtEnd, Answer, ParserInv
<1> QED BY <1>3, <1>4, <1>5

(* ... and one that says something fills a field it has been measured for, *)
(* or is refused.                                                          *)
LEMMA FieldKeeps ==
  ASSUME ParserInv, NEW t \in Tokens,
         \/ parse_tokens(t) \/ ParseStar(t) \/ ParseTable(t) \/ ParseWhere(t)
         \/ ParseCondition(t) \/ ParseValue(t) \/ ParseId(t) \/ ParseName(t)
  PROVE  ParserInv'
<1>1. Parsing(t)
  BY DEF parse_tokens, ParseStar, ParseTable, ParseWhere, ParseCondition, ParseValue, ParseId,
         ParseName
<1>2. /\ tokens' \in Seq(Tokens) /\ parse_status = "none" /\ verdict' = "none" /\ ValidatedIsExecutable'
      /\ t.value \in Values /\ (util_copy_checked(t.value) => t.value \in Short)
  BY <1>1, TokenStep
<1> USE <1>2 DEF ParserInv, Asts, Advance, Answer, BeforeId, AfterId
<1>3. CASE parse_tokens(t)
  BY <1>3 DEF parse_tokens
<1>4. CASE ParseStar(t) \/ ParseWhere(t)
  BY <1>4 DEF ParseStar, ParseWhere
<1>5. CASE ParseTable(t) \/ ParseCondition(t)
  BY <1>5 DEF ParseTable, ParseCondition
<1>6. CASE ParseValue(t)
  BY <1>6 DEF ParseValue
<1>7. CASE ParseId(t)
  BY <1>7 DEF ParseId
<1>8. CASE ParseName(t)
  BY <1>8 DEF ParseName
<1> QED BY <1>3, <1>4, <1>5, <1>6, <1>7, <1>8

(* A column is added while there is room for it. *)
LEMMA ColumnKeeps ==
  ASSUME ParserInv, NEW t \in Tokens, ParseColumn(t)
  PROVE  ParserInv'
<1>1. /\ tokens' \in Seq(Tokens) /\ parse_status = "none" /\ verdict' = "none" /\ ValidatedIsExecutable'
      /\ t.value \in Values /\ (util_copy_checked(t.value) => t.value \in Short)
  BY TokenStep DEF ParseColumn
<1>2. CASE HasColumnLeft /\ util_copy_checked(t.value)
  <2> DEFINE columns == Append(ast.columns, t.value)
  <2>1. columns \in Seq(Short) /\ Len(columns) = Len(ast.columns) + 1
    BY <1>1, <1>2, AppendProperties DEF ParserInv, Asts
  <2>2. Len(columns) <= MaxColumns
    BY <1>2, <2>1, ColumnAssumption, LenProperties DEF HasColumnLeft, ParserInv, Asts
  <2>3. ast' = [ast EXCEPT !.columns = columns] /\ place' = "more" /\ parse_status' = parse_status
    BY <1>2 DEF ParseColumn, Advance
  <2> HIDE DEF columns
  <2>4. ast' \in Asts /\ ast'.columns = columns /\ ast'.type = ast.type
        /\ ast'.has_where = ast.has_where
    BY <2>1, <2>3 DEF ParserInv, Asts
  <2>5. ast.type = "AST_SELECT"
    BY DEF Asts, ParseColumn, ParserInv, BeforeId, AfterId
  <2> QED BY <1>1, <2>2, <2>3, <2>4, <2>5 DEF ParserInv
<1>3. CASE ~(HasColumnLeft /\ util_copy_checked(t.value))
  <2>1. ast' = ast /\ place' = place /\ parse_status' \in {"PARSE_ERROR", "PARSE_IDENTIFIER_TOO_LONG"}
    BY <1>3 DEF ParseColumn, Answer
  <2> QED BY <1>1, <2>1 DEF ParserInv
<1> QED BY <1>2, <1>3

(* Validation accepts what the executor can carry out. *)
LEMMA ValidationKeeps ==
  ASSUME ParserInv, semantic_validate
  PROVE  ParserInv'
<1>1. UNCHANGED <<tokens, place, ast, parse_status>> /\ parse_status = "PARSE_OK" /\ place = "end"
  BY DEF semantic_validate, ParserInv
<1>2. ASSUME verdict' = "SEMANTIC_OK", ast.type # "AST_INSERT"
      PROVE  ColumnsKnown /\ WhereStatus = "SEMANTIC_OK"
  BY <1>2 DEF semantic_validate
<1>3. ColumnsKnown => \A i \in DOMAIN ast.columns : ast.columns[i] \in {IdColumn, NameColumn}
  BY DEF ColumnsKnown, column_from_name
<1>4. WhereStatus = "SEMANTIC_OK" /\ ast.has_where =>
        \/ ast.where_column = IdColumn /\ ast.where_type = "NUMBER" /\ ast.where_value \in InRange
        \/ ast.where_column = NameColumn /\ ast.where_type = "STRING"
  BY DEF WhereStatus, WhereKnown, WhereTyped, column_from_name, ParserInv, Asts
<1>5. ast.type = "AST_INSERT" => ast.id \in InRange /\ ast.name \notin Oversized
                                       /\ ast.columns = <<>> /\ ~ast.has_where
  BY <1>1 DEF ParserInv, AfterId, Asts, Short
<1>6. ValidatedIsExecutable'
  BY <1>1, <1>2, <1>3, <1>4, <1>5 DEF ValidatedIsExecutable
<1> QED BY <1>1, <1>6 DEF ParserInv

-----------------------------------------------------------------------------
(* The parser's invariant, for every sequence of tokens.                   *)
THEOREM ParserInvariance == ParserSpec => []ParserInv
<1>1. ParserInv /\ [ParserNext]_parserVars => ParserInv'
  <2>1. ASSUME ParserInv, UNCHANGED parserVars
        PROVE  ParserInv'
    BY <2>1 DEF parserVars, ParserInv, ValidatedIsExecutable
  <2>2. ASSUME ParserInv, NEW t \in Tokens, Step(t)
        PROVE  ParserInv'
    BY <2>2, PlainKeeps, FieldKeeps, ColumnKeeps DEF Step
  <2> QED BY <2>1, <2>2, ValidationKeeps DEF ParserNext
<1> QED BY InitParserInv, <1>1, PTL DEF ParserSpec

(* No field of the AST is given more than it has room for.                 *)
THEOREM NothingOverflows == ParserSpec => []ParserTypeOK
<1>1. ASSUME ParserInv
      PROVE  ParserTypeOK
  <2>1. \A k \in DOMAIN tokens : tokens[k] \in Tokens
    BY <1>1, ElementOfSeq, LenProperties DEF ParserInv
  <2>2. \A i \in DOMAIN ast.columns : ast.columns[i] \in Short
    BY <1>1, ElementOfSeq, LenProperties DEF ParserInv, Asts
  <2> QED BY <1>1, <2>1, <2>2 DEF ParserInv, ParserTypeOK, Asts, Short
<1> QED BY ParserInvariance, <1>1, PTL

(* The executor may take for granted what was validated.                   *)
THEOREM ValidatedRuns == ParserSpec => []ValidatedIsExecutable
  BY ParserInvariance, PTL DEF ParserInv

-----------------------------------------------------------------------------
(* The sentences of the grammar, position by position                      *)

(* Where the FROM of a SELECT with so many columns is; none is for a star. *)
FromAt(columns) == IF columns = 0 THEN 3 ELSE 2 * columns + 1

(* What a SELECT has at a position, ... *)
SelectType(columns, has_where, value, k) ==
  LET from == FromAt(columns)
  IN  CASE k = 1 -> "SELECT"
        [] k > 1 /\ k < from -> (IF columns = 0 THEN "STAR" ELSE IF k % 2 = 0 THEN "IDENTIFIER" ELSE "COMMA")
        [] k = from -> "FROM"
        [] k = from + 1 -> "IDENTIFIER"
        [] k = from + 2 /\ has_where -> "WHERE"
        [] k = from + 3 /\ has_where -> "IDENTIFIER"
        [] k = from + 4 /\ has_where -> "EQUAL"
        [] k = from + 5 /\ has_where -> value
        [] OTHER -> "SEMICOLON"

SelectLength(columns, has_where) == FromAt(columns) + (IF has_where THEN 6 ELSE 2)

SelectSentence(columns, has_where, value) ==
  [k \in 1..SelectLength(columns, has_where) |-> SelectType(columns, has_where, value, k)]

(* ... and an INSERT. *)
InsertSentence ==
  <<"INSERT", "INTO", "IDENTIFIER", "VALUES", "LPAREN", "NUMBER", "COMMA", "STRING",
    "RPAREN", "SEMICOLON">>

Terms == Plain \union {"IDENTIFIER", "NUMBER", "STRING"}

(* What stands in the grammar for so many columns, *)
Projection(columns) == IF columns = 0 THEN <<"STAR">> ELSE ColumnList(columns)

(* and for a condition. *)
Condition(has_where, value) == IF has_where THEN <<"WHERE", "IDENTIFIER", "EQUAL", value>> ELSE <<>>

(* Two sequences, one behind the other *)
LEMMA Joined ==
  ASSUME NEW S, NEW s \in Seq(S), NEW t \in Seq(S), NEW m \in Nat, NEW n \in Nat,
         Len(s) = m, Len(s) + Len(t) = n
  PROVE  /\ s \o t \in Seq(S)
         /\ Len(s \o t) = n
         /\ \A k \in 1..n : (s \o t)[k] = IF k <= m THEN s[k] ELSE t[k - m]
  BY ConcatProperties

(* A list of columns reaches from the second position to FROM. *)
LEMMA ProjectionForm ==
  ASSUME NEW columns \in Nat
  PROVE  /\ Projection(columns) \in Seq(Terms)
         /\ Len(Projection(columns)) = FromAt(columns) - 2
         /\ \A k \in 1..(FromAt(columns) - 2) :
              Projection(columns)[k] = SelectType(columns, FALSE, "NUMBER", k + 1)
<1>1. CASE columns = 0
  <2>1. Projection(columns) = <<"STAR">> /\ FromAt(columns) - 2 = 1
    BY <1>1 DEF Projection, FromAt
  <2>2. "STAR" \in Terms
    BY DEF Terms, Plain
  <2>3. \A k \in 1..1 : <<"STAR">>[k] = "STAR" /\ SelectType(columns, FALSE, "NUMBER", k + 1) = "STAR"
    BY <1>1 DEF SelectType, FromAt
  <2>4. <<"STAR">> \in Seq(Terms) /\ Len(<<"STAR">>) = 1
    BY <2>2
  <2>5. \A k \in 1..(FromAt(columns) - 2) : k \in 1..1
    BY <2>1
  <2> QED BY <2>1, <2>3, <2>4, <2>5
<1>2. CASE columns # 0
  <2>1. FromAt(columns) - 2 = 2 * columns - 1 /\ 2 * columns - 1 \in Nat
    BY <1>2 DEF FromAt
  <2>2. Projection(columns) = [k \in 1..(2 * columns - 1) |-> IF k % 2 = 1 THEN "IDENTIFIER" ELSE "COMMA"]
    BY <1>2 DEF Projection, ColumnList
  <2>3. Projection(columns) \in Seq(Terms) /\ Len(Projection(columns)) = 2 * columns - 1
    BY <2>1, <2>2 DEF Terms, Plain
  <2>4. \A k \in 1..(2 * columns - 1) :
          SelectType(columns, FALSE, "NUMBER", k + 1) = IF k % 2 = 1 THEN "IDENTIFIER" ELSE "COMMA"
    BY <1>2 DEF SelectType, FromAt
  <2> QED BY <2>1, <2>2, <2>3, <2>4
<1> QED BY <1>1, <1>2

(* A SELECT of the grammar, by its columns and its condition *)
LEMMA SelectForm ==
  ASSUME NEW columns \in Nat, NEW has_where \in BOOLEAN, NEW value \in {"NUMBER", "STRING"}
  PROVE  <<"SELECT">> \o Projection(columns) \o <<"FROM", "IDENTIFIER">>
           \o Condition(has_where, value) \o <<"SEMICOLON">>
           = SelectSentence(columns, has_where, value)
<1> DEFINE s1 == <<"SELECT">>
           s2 == s1 \o Projection(columns)
           f == <<"FROM", "IDENTIFIER">>
           s3 == s2 \o f
           c == Condition(has_where, value)
           s4 == s3 \o c
           e == <<"SEMICOLON">>
           s5 == s4 \o e
           from == FromAt(columns)
           length == SelectLength(columns, has_where)
<1>1. s1 \in Seq(Terms) /\ f \in Seq(Terms) /\ c \in Seq(Terms) /\ e \in Seq(Terms)
  <2>1. /\ "SELECT" \in Terms /\ "FROM" \in Terms /\ "IDENTIFIER" \in Terms
        /\ "WHERE" \in Terms /\ "EQUAL" \in Terms /\ "SEMICOLON" \in Terms
        /\ value \in Terms
    BY DEF Terms, Plain
  <2>2. s1 \in Seq(Terms) /\ f \in Seq(Terms) /\ e \in Seq(Terms)
    BY <2>1
  <2>3. c \in Seq(Terms)
    BY <2>1 DEF Condition
  <2> QED BY <2>2, <2>3
<1>2. Len(s1) = 1 /\ Len(f) = 2 /\ Len(c) = (IF has_where THEN 4 ELSE 0) /\ Len(e) = 1
  BY DEF Condition
<1>3. from \in Nat /\ from >= 3 /\ length = from + (IF has_where THEN 6 ELSE 2)
  BY DEF FromAt, SelectLength
<1>4. /\ s2 \in Seq(Terms) /\ Len(s2) = from - 1
      /\ \A k \in 1..(from - 1) : s2[k] = IF k <= 1 THEN s1[k] ELSE Projection(columns)[k - 1]
  <2> DEFINE t == Projection(columns)
  <2>1. t \in Seq(Terms) /\ Len(t) = from - 2
    BY ProjectionForm
  <2>2. s1 \in Seq(Terms) /\ Len(s1) = 1
    BY <1>1, <1>2
  <2> HIDE DEF s1, from, t
  <2>3. /\ s1 \o t \in Seq(Terms) /\ Len(s1 \o t) = Len(s1) + Len(t)
        /\ \A k \in 1..(Len(s1) + Len(t)) :
             (s1 \o t)[k] = IF k <= Len(s1) THEN s1[k] ELSE t[k - Len(s1)]
    BY <2>1, <2>2, ConcatProperties
  <2>4. Len(s1) + Len(t) = from - 1
    BY <1>3, <2>1, <2>2
  <2> QED BY <2>2, <2>3, <2>4 DEF t
<1>5. /\ s3 \in Seq(Terms) /\ Len(s3) = from + 1
      /\ \A k \in 1..(from + 1) : s3[k] = IF k <= from - 1 THEN s2[k] ELSE f[k - (from - 1)]
  <2>1. from - 1 \in Nat /\ from + 1 \in Nat
    BY <1>3
  <2>2. Len(s2) + Len(f) = from + 1
    BY <1>2, <1>3, <1>4
  <2> HIDE DEF s2, f, from
  <2> QED BY <1>1, <1>4, <2>1, <2>2, Joined
<1>6. /\ s4 \in Seq(Terms) /\ Len(s4) = length - 1
      /\ \A k \in 1..(length - 1) : s4[k] = IF k <= from + 1 THEN s3[k] ELSE c[k - (from + 1)]
  <2>1. from + 1 \in Nat /\ length - 1 \in Nat
    BY <1>3
  <2>2. Len(s3) + Len(c) = length - 1
    BY <1>2, <1>3, <1>5
  <2> HIDE DEF s3, c, from, length
  <2> QED BY <1>1, <1>5, <2>1, <2>2, Joined
<1>7. /\ s5 \in Seq(Terms) /\ Len(s5) = length
      /\ \A k \in 1..length : s5[k] = IF k <= length - 1 THEN s4[k] ELSE e[k - (length - 1)]
  <2>1. length - 1 \in Nat /\ length \in Nat
    BY <1>3
  <2>2. Len(s4) + Len(e) = length
    BY <1>2, <1>3, <1>6
  <2> HIDE DEF s4, e, length
  <2> QED BY <1>1, <1>6, <2>1, <2>2, Joined
<1>8. ASSUME NEW k \in 1..length
      PROVE  s5[k] = SelectType(columns, has_where, value, k)
  <2> HIDE DEF s1, s2, s3, s4, s5, f, c, e, from, length
  <2>1. k \in Nat /\ length \in Nat
    BY <1>3
  <2>2. CASE k <= from - 1
    <3>1. s5[k] = s2[k]
      <4>1. k <= length - 1 /\ k <= from + 1 /\ k \in 1..(from + 1) /\ k \in 1..(length - 1)
        BY <1>3, <2>1, <2>2
      <4>2. s5[k] = s4[k]
        BY <1>7, <4>1
      <4>3. s4[k] = s3[k]
        BY <1>6, <4>1
      <4>4. s3[k] = s2[k]
        BY <1>5, <2>2, <4>1
      <4> QED BY <4>2, <4>3, <4>4
    <3>2. CASE k = 1
      <4>1. s2[1] = s1[1]
        BY <1>3, <1>4
      <4>2. SelectType(columns, has_where, value, 1) = "SELECT"
        BY DEF SelectType, FromAt
      <4>3. s1[1] = "SELECT"
        BY DEF s1
      <4> QED BY <3>1, <3>2, <4>1, <4>2, <4>3
    <3>3. CASE k # 1
      <4>1. k - 1 \in 1..(from - 2) /\ k - 1 + 1 = k /\ k \in 1..(from - 1) /\ ~(k <= 1)
        BY <1>3, <2>1, <2>2, <3>3
      <4>2. s2[k] = SelectType(columns, FALSE, "NUMBER", k)
        BY <1>4, <4>1, ProjectionForm DEF from
      <4>3. SelectType(columns, FALSE, "NUMBER", k) = SelectType(columns, has_where, value, k)
        BY <1>3, <2>1, <2>2, <3>3 DEF SelectType, from
      <4> QED BY <3>1, <4>2, <4>3
    <3> QED BY <3>2, <3>3
  <2>3. CASE k \in {from, from + 1}
    <3>1. k <= length - 1 /\ k <= from + 1 /\ k \in 1..(from + 1) /\ k \in 1..(length - 1) /\ ~(k <= from - 1)
      BY <1>3, <2>1, <2>3
    <3>2. s5[k] = s4[k]
      BY <1>7, <3>1
    <3>3. s4[k] = s3[k]
      BY <1>6, <3>1
    <3>4. s3[k] = f[k - (from - 1)]
      BY <1>5, <3>1
    <3>5. k - (from - 1) = IF k = from THEN 1 ELSE 2
      BY <1>3, <2>3
    <3>6. s5[k] = IF k = from THEN "FROM" ELSE "IDENTIFIER"
      BY <3>2, <3>3, <3>4, <3>5 DEF f
    <3> QED BY <1>3, <2>1, <2>3, <3>6 DEF SelectType, from
  <2>4. CASE k > from + 1 /\ k <= length - 1
    <3>1. has_where /\ k - (from + 1) \in 1..4 /\ k \in 1..(length - 1) /\ ~(k <= from + 1)
      BY <1>3, <2>1, <2>4
    <3>2. s5[k] = s4[k]
      BY <1>7, <2>4, <3>1
    <3>3. s4[k] = c[k - (from + 1)]
      BY <1>6, <3>1
    <3>4. c = <<"WHERE", "IDENTIFIER", "EQUAL", value>>
      BY <3>1 DEF c, Condition
    <3>5. k = from + 2 \/ k = from + 3 \/ k = from + 4 \/ k = from + 5
      BY <1>3, <2>1, <3>1
    <3>6. CASE k = from + 2
      BY <1>3, <3>1, <3>2, <3>3, <3>4, <3>6 DEF SelectType, from
    <3>7. CASE k = from + 3
      BY <1>3, <3>1, <3>2, <3>3, <3>4, <3>7 DEF SelectType, from
    <3>8. CASE k = from + 4
      BY <1>3, <3>1, <3>2, <3>3, <3>4, <3>8 DEF SelectType, from
    <3>9. CASE k = from + 5
      BY <1>3, <3>1, <3>2, <3>3, <3>4, <3>9 DEF SelectType, from
    <3> QED BY <3>5, <3>6, <3>7, <3>8, <3>9
  <2>5. CASE k = length
    <3>1. ~(k <= length - 1) /\ k - (length - 1) = 1
      BY <2>1, <2>5
    <3>2. s5[k] = "SEMICOLON"
      BY <1>7, <3>1 DEF e
    <3> QED BY <1>3, <2>1, <2>5, <3>2 DEF SelectType, from
  <2> QED BY <1>3, <2>1, <2>2, <2>3, <2>4, <2>5
<1>9. SelectSentence(columns, has_where, value) = [k \in 1..length |-> SelectType(columns, has_where, value, k)]
  BY DEF SelectSentence
<1>10. s5 = [k \in 1..length |-> SelectType(columns, has_where, value, k)]
  <2> HIDE DEF s5, length
  <2>1. s5 = [k \in 1..length |-> s5[k]]
    BY <1>7
  <2> QED BY <1>8, <2>1
<1> QED BY <1>9, <1>10

(* The grammar has these sentences and no others. *)
LEMMA SentencesForm ==
  Sentences = {SelectSentence(columns, has_where, value) :
                 columns \in 0..(MaxColumns + 1), has_where \in BOOLEAN, value \in {"NUMBER", "STRING"}}
                \union {InsertSentence}
<1> DEFINE Select(p, c) == <<"SELECT">> \o p \o <<"FROM", "IDENTIFIER">> \o c \o <<"SEMICOLON">>
           Selects == {SelectSentence(columns, has_where, value) :
                 columns \in 0..(MaxColumns + 1), has_where \in BOOLEAN, value \in {"NUMBER", "STRING"}}
<1>1. Sentences = {Select(p, c) : p \in Projections, c \in Conditions} \union {InsertSentence}
  BY DEF Sentences, InsertSentence
<1>2. \A p : p \in Projections <=> \E columns \in 0..(MaxColumns + 1) : p = Projection(columns)
  BY ColumnAssumption DEF Projections, Projection
<1>3. \A c : c \in Conditions <=> \E w \in BOOLEAN, v \in {"NUMBER", "STRING"} : c = Condition(w, v)
  BY DEF Conditions, Condition
<1>4. \A columns \in 0..(MaxColumns + 1), w \in BOOLEAN, v \in {"NUMBER", "STRING"} :
        Select(Projection(columns), Condition(w, v)) = SelectSentence(columns, w, v)
  <2>1. \A columns \in 0..(MaxColumns + 1) : columns \in Nat
    OBVIOUS
  <2> QED BY <2>1, SelectForm
<1> HIDE DEF Select
<1>5. {Select(p, c) : p \in Projections, c \in Conditions} = Selects
  <2>1. ASSUME NEW p \in Projections, NEW c \in Conditions
        PROVE  Select(p, c) \in Selects
    BY <1>2, <1>3, <1>4
  <2>2. ASSUME NEW columns \in 0..(MaxColumns + 1), NEW w \in BOOLEAN, NEW v \in {"NUMBER", "STRING"}
        PROVE  SelectSentence(columns, w, v) \in {Select(p, c) : p \in Projections, c \in Conditions}
    BY <1>2, <1>3, <1>4
  <2> QED BY <2>1, <2>2
<1> QED BY <1>1, <1>5
-----------------------------------------------------------------------------
(* What has been read when the parser is at a place *)

(* The places of a SELECT behind its table, in order *)
BehindFrom == {"where", "condition", "equal", "value", "semicolon", "end"}

(* How many columns the tokens read call for: one more than those in the   *)
(* AST where the next token must be one.                                   *)
ColumnsAt(q, a) ==
  IF a.select_all THEN 0
  ELSE IF q \in {"projection", "column"} THEN Len(a.columns) + 1 ELSE Len(a.columns)

(* How many tokens lead to a place, *)
Position(q, a) ==
  LET from == FromAt(ColumnsAt(q, a))
  IN  IF a.type = "AST_INSERT"
      THEN CASE q = "into" -> 1 [] q = "target" -> 2 [] q = "values" -> 3 [] q = "lparen" -> 4
             [] q = "id" -> 5 [] q = "comma" -> 6 [] q = "name" -> 7 [] q = "rparen" -> 8
             [] q = "semicolon" -> 9 [] OTHER -> 10
      ELSE CASE q = "statement" -> 0 [] q = "projection" -> 1 [] q = "from" -> 2
             [] q = "more" -> 2 * Len(a.columns) [] q = "column" -> 2 * Len(a.columns) + 1
             [] q = "table" -> from [] q = "where" -> from + 1 [] q = "condition" -> from + 2
             [] q = "equal" -> from + 3 [] q = "value" -> from + 4 [] q = "semicolon" -> from + 5
             [] OTHER -> SelectLength(ColumnsAt(q, a), a.has_where)

(* and of which types they are. *)
TypeAt(q, a, k) ==
  IF a.type = "AST_INSERT" THEN InsertSentence[k]
  ELSE SelectType(ColumnsAt(q, a), a.has_where, a.where_type, k)

(* The AST and the place it was filled at fit together. *)
Fitting(q, a) ==
  CASE a.type = "AST_INSERT" -> q \in BeforeId \union AfterId
    [] a.type = "AST_UNKNOWN" -> q = "statement" /\ ~a.select_all /\ a.columns = <<>>
    [] OTHER ->
         /\ q \in {"projection", "from", "more", "column", "table"} \union BehindFrom
         /\ q = "from" => a.select_all
         /\ q \in {"projection", "more", "column"} => ~a.select_all
         /\ q = "projection" \/ a.select_all <=> a.columns = <<>>
         /\ q \in {"condition", "equal", "value", "semicolon"} => a.has_where
         /\ q \in {"projection", "from", "more", "column", "table", "where"} => ~a.has_where

(* The tokens read are those that lead to the place, ... *)
ShapeInv ==
  /\ Fitting(place, ast)
  /\ Len(tokens) = Position(place, ast) + (IF parse_status = "none" THEN 0 ELSE 1)
  /\ \A k \in 1..Position(place, ast) : tokens[k].type = TypeAt(place, ast, k)

(* ... the values among them are in the AST, ... *)
ValuesRead(q, a) ==
  IF a.type = "AST_INSERT"
  THEN /\ q \notin {"into", "target"} => a.table_name = tokens[3].value
       /\ q \in AfterId => a.id = tokens[6].value
       /\ q \in {"rparen", "semicolon", "end"} => a.name = tokens[8].value
  ELSE LET from == FromAt(ColumnsAt(q, a))
       IN  /\ \A i \in 1..Len(a.columns) : a.columns[i] = tokens[2 * i].value
           /\ q \in BehindFrom => a.table_name = tokens[from + 1].value
           /\ q \in {"equal", "value"} => a.where_column = tokens[from + 3].value
           /\ q \in {"semicolon", "end"} /\ a.has_where =>
                /\ a.where_column = tokens[from + 3].value
                /\ a.where_type = tokens[from + 5].type
                /\ a.where_value = tokens[from + 5].value

(* The places where a token is measured for the AST *)
Measured == {
  <<"projection", "IDENTIFIER">>, <<"column", "IDENTIFIER">>, <<"table", "IDENTIFIER">>,
  <<"condition", "IDENTIFIER">>, <<"value", "NUMBER">>, <<"value", "STRING">>,
  <<"target", "IDENTIFIER">>, <<"id", "NUMBER">>, <<"name", "STRING">>}

(* What parse_tokens returns *)
Answers == {"none", "PARSE_OK", "PARSE_TRAILING_TOKENS", "PARSE_UNEXPECTED_EOF", "PARSE_ERROR",
            "PARSE_TABLE_NAME_TOO_LONG", "PARSE_IDENTIFIER_TOO_LONG", "PARSE_STRING_TOO_LONG",
            "PARSE_INTEGER_OUT_OF_RANGE"}

(* ... and the token after them was refused for what the answer says. *)
AnswerInv ==
  /\ parse_status \in Answers
  /\ parse_status \in {"PARSE_OK", "PARSE_TRAILING_TOKENS"} <=> parse_status # "none" /\ place = "end"
  /\ parse_status = "PARSE_OK" => LastToken.type = "EOF"
  /\ parse_status = "PARSE_TRAILING_TOKENS" => LastToken.type # "EOF"
  /\ parse_status = "PARSE_UNEXPECTED_EOF" => LastToken.type = "EOF"
  /\ parse_status = "PARSE_ERROR" =>
       /\ LastToken.type # "EOF"
       /\ \/ ~Expected(LastToken.type)
          \/ place = "column" /\ LastToken.type = "IDENTIFIER" /\ Len(ast.columns) = MaxColumns
  /\ parse_status \in {"PARSE_TABLE_NAME_TOO_LONG", "PARSE_IDENTIFIER_TOO_LONG", "PARSE_STRING_TOO_LONG"} =>
       <<place, LastToken.type>> \in Measured /\ LastToken.value \in Oversized
  /\ parse_status = "PARSE_INTEGER_OUT_OF_RANGE" =>
       /\ <<place, LastToken.type>> \in Measured /\ LastToken.type = "NUMBER"
       /\ place = "id" => LastToken.value \notin InRange

(* The types of the tokens that lead to the place *)
Read == [k \in 1..Position(place, ast) |-> TypeAt(place, ast, k)]

Matches(types, s) == Len(types) <= Len(s) /\ \A k \in 1..Len(types) : types[k] = s[k]

(* The type at each kind of position *)
TypesOf(columns, has_where, value) ==
  LET from == FromAt(columns)
      Type(k) == SelectType(columns, has_where, value, k)
  IN  /\ from \in Nat /\ from >= 3
      /\ Type(1) = "SELECT"
      /\ columns = 0 => from = 3 /\ Type(2) = "STAR"
      /\ columns > 0 => /\ from = 2 * columns + 1
                        /\ \A i \in 1..columns : Type(2 * i) = "IDENTIFIER"
                        /\ \A i \in 1..(columns - 1) : Type(2 * i + 1) = "COMMA"
      /\ Type(from) = "FROM"
      /\ Type(from + 1) = "IDENTIFIER"
      /\ Type(from + 2) = (IF has_where THEN "WHERE" ELSE "SEMICOLON")
      /\ has_where => /\ Type(from + 3) = "IDENTIFIER" /\ Type(from + 4) = "EQUAL"
                      /\ Type(from + 5) = value /\ Type(from + 6) = "SEMICOLON"

(* A SELECT has these types. *)
LEMMA SelectTypes ==
  ASSUME NEW columns \in Nat, NEW has_where \in BOOLEAN, NEW value
  PROVE  TypesOf(columns, has_where, value)
<1> DEFINE from == FromAt(columns)
           Type(k) == SelectType(columns, has_where, value, k)
<1>1. from \in Nat /\ from >= 3 /\ (columns = 0 => from = 3) /\ (columns > 0 => from = 2 * columns + 1)
  BY DEF FromAt
<1>2. Type(1) = "SELECT"
  BY <1>1 DEF SelectType
<1>3. columns = 0 => Type(2) = "STAR"
  BY <1>1 DEF SelectType
<1>4. ASSUME columns > 0, NEW i \in 1..columns
      PROVE  Type(2 * i) = "IDENTIFIER"
  <2>1. 2 * i > 1 /\ 2 * i < from /\ (2 * i) % 2 = 0 /\ 2 * i # 1
    BY <1>1, <1>4
  <2> QED BY <1>1, <1>4, <2>1 DEF SelectType
<1>5. ASSUME columns > 0, NEW i \in 1..(columns - 1)
      PROVE  Type(2 * i + 1) = "COMMA"
  <2>1. 2 * i + 1 > 1 /\ 2 * i + 1 < from /\ (2 * i + 1) % 2 = 1 /\ 2 * i + 1 # 1
    BY <1>1, <1>5
  <2> QED BY <1>1, <1>5, <2>1 DEF SelectType
<1>6. /\ Type(from) = "FROM" /\ Type(from + 1) = "IDENTIFIER"
      /\ Type(from + 2) = (IF has_where THEN "WHERE" ELSE "SEMICOLON")
  BY <1>1 DEF SelectType
<1>7. has_where => /\ Type(from + 3) = "IDENTIFIER" /\ Type(from + 4) = "EQUAL"
                   /\ Type(from + 5) = value /\ Type(from + 6) = "SEMICOLON"
  BY <1>1 DEF SelectType
<1> QED BY <1>1, <1>2, <1>3, <1>4, <1>5, <1>6, <1>7 DEF TypesOf

(* A sentence is a sequence of types. *)
LEMMA SentenceTyping ==
  ASSUME NEW s \in Sentences
  PROVE  s \in Seq(Terms)
<1>1. CASE s = InsertSentence
  <2>1. /\ "INSERT" \in Terms /\ "INTO" \in Terms /\ "IDENTIFIER" \in Terms /\ "VALUES" \in Terms
        /\ "LPAREN" \in Terms /\ "NUMBER" \in Terms /\ "COMMA" \in Terms /\ "STRING" \in Terms
        /\ "RPAREN" \in Terms /\ "SEMICOLON" \in Terms
    BY DEF Terms, Plain
  <2> QED BY <1>1, <2>1 DEF InsertSentence
<1>2. ASSUME NEW c \in 0..(MaxColumns + 1), NEW w \in BOOLEAN, NEW v \in {"NUMBER", "STRING"},
             s = SelectSentence(c, w, v)
      PROVE  s \in Seq(Terms)
  <2>1. SelectLength(c, w) \in Nat
    BY DEF SelectLength, FromAt
  <2>2. \A k \in 1..SelectLength(c, w) : SelectType(c, w, v, k) \in Terms
    BY DEF SelectType, Terms, Plain
  <2> QED BY <1>2, <2>1, <2>2 DEF SelectSentence
<1> QED BY <1>1, <1>2, SentencesForm

(* To begin a sentence is to match it. *)
LEMMA StartsIfMatches ==
  ASSUME NEW types \in Seq(Terms)
  PROVE  StartsSentence(types) <=> \E s \in Sentences : Matches(types, s)
<1>1. ASSUME NEW s \in Sentences, Len(types) <= Len(s)
      PROVE  types = SubSeq(s, 1, Len(types)) <=> \A k \in 1..Len(types) : types[k] = s[k]
  <2>1. s \in Seq(Terms) /\ Len(s) \in Nat /\ Len(types) \in Nat
    BY SentenceTyping, LenProperties
  <2>2. /\ SubSeq(s, 1, Len(types)) \in Seq(Terms)
        /\ Len(SubSeq(s, 1, Len(types))) = Len(types)
        /\ \A k \in 1..Len(types) : SubSeq(s, 1, Len(types))[k] = s[k]
    <3>1. \A k \in 1..Len(types) : s[k] \in Terms
      BY <1>1, <2>1, ElementOfSeq
    <3> QED BY <2>1, <3>1, SubSeqProperties
  <2> QED BY <2>2, SeqEqual
<1> QED BY <1>1 DEF StartsSentence, Matches
-----------------------------------------------------------------------------
(* What can follow the tokens read                                         *)

Fit(q, a) == a \in Asts /\ Len(a.columns) <= MaxColumns /\ Fitting(q, a)

(* The places and the types that lead on from them *)
Follows == {
  <<"statement", "SELECT">>, <<"statement", "INSERT">>,
  <<"projection", "STAR">>, <<"projection", "IDENTIFIER">>, <<"column", "IDENTIFIER">>,
  <<"more", "COMMA">>, <<"more", "FROM">>, <<"from", "FROM">>, <<"table", "IDENTIFIER">>,
  <<"where", "WHERE">>, <<"where", "SEMICOLON">>, <<"condition", "IDENTIFIER">>,
  <<"equal", "EQUAL">>, <<"value", "NUMBER">>, <<"value", "STRING">>,
  <<"semicolon", "SEMICOLON">>,
  <<"into", "INTO">>, <<"target", "IDENTIFIER">>, <<"values", "VALUES">>, <<"lparen", "LPAREN">>,
  <<"id", "NUMBER">>, <<"comma", "COMMA">>, <<"name", "STRING">>, <<"rparen", "RPAREN">>}

SelectPlaces == {"projection", "from", "more", "column", "table"} \union BehindFrom

(* They are those the parser expects. *)
LEMMA ExpectedTypes ==
  ASSUME NEW type
  PROVE  Expected(type) <=> <<place, type>> \in Follows
<1>1. (\E e \in Fixed : e[1] = place /\ e[2] = type) <=>
        <<place, type>> \in {<<"more", "COMMA">>, <<"more", "FROM">>, <<"from", "FROM">>,
          <<"where", "SEMICOLON">>, <<"equal", "EQUAL">>, <<"semicolon", "SEMICOLON">>, <<"into", "INTO">>,
          <<"values", "VALUES">>, <<"lparen", "LPAREN">>, <<"comma", "COMMA">>, <<"rparen", "RPAREN">>}
  BY DEF Fixed
<1> QED BY <1>1 DEF Expected, Carrying, Follows

(* The columns and the position at a place are numbers within the statement. *)
LEMMA PlaceNumbers ==
  ASSUME NEW q, NEW a, Fit(q, a)
  PROVE  /\ Len(a.columns) \in 0..MaxColumns
         /\ ColumnsAt(q, a) \in 0..(MaxColumns + 1)
         /\ FromAt(ColumnsAt(q, a)) \in Nat /\ FromAt(ColumnsAt(q, a)) >= 3
         /\ Position(q, a) \in Nat
         /\ a.type = "AST_SELECT" =>
              /\ q \in SelectPlaces
              /\ Position(q, a) >= 1
              /\ Position(q, a) <= SelectLength(ColumnsAt(q, a), a.has_where)
              /\ q # "end" => Position(q, a) < SelectLength(ColumnsAt(q, a), a.has_where)
              /\ a.select_all \/ q = "projection" <=> Len(a.columns) = 0
              /\ q \in {"table"} \union BehindFrom => Position(q, a) >= FromAt(ColumnsAt(q, a))
         /\ a.type = "AST_INSERT" => q \in BeforeId \union AfterId
         /\ a.type = "AST_UNKNOWN" => q = "statement" /\ Position(q, a) = 0
<1>1. /\ a.columns \in Seq(Short) /\ a.type \in {"AST_UNKNOWN", "AST_SELECT", "AST_INSERT"}
      /\ a.select_all \in BOOLEAN /\ a.has_where \in BOOLEAN /\ Fitting(q, a)
  BY DEF Fit, Asts
<1>2. Len(a.columns) \in 0..MaxColumns
  BY <1>1, LenProperties, ColumnAssumption DEF Fit
<1>3. ColumnsAt(q, a) \in 0..(MaxColumns + 1)
  BY <1>2, ColumnAssumption DEF ColumnsAt
<1>4. FromAt(ColumnsAt(q, a)) \in Nat /\ FromAt(ColumnsAt(q, a)) >= 3
  BY <1>3, ColumnAssumption DEF FromAt
<1>5. SelectLength(ColumnsAt(q, a), a.has_where) =
        FromAt(ColumnsAt(q, a)) + (IF a.has_where THEN 6 ELSE 2)
  BY DEF SelectLength
<1>6. a.columns = <<>> <=> Len(a.columns) = 0
  BY <1>1, EmptySeq
<1>7. CASE a.type = "AST_INSERT"
  BY <1>1, <1>2, <1>3, <1>4, <1>7 DEF Position, Fitting
<1>8. CASE a.type = "AST_UNKNOWN"
  BY <1>1, <1>2, <1>3, <1>4, <1>8 DEF Position, Fitting
<1>9. CASE a.type = "AST_SELECT"
  <2>1. /\ q \in SelectPlaces
        /\ q = "from" => a.select_all
        /\ q \in {"projection", "more", "column"} => ~a.select_all
        /\ a.select_all \/ q = "projection" <=> Len(a.columns) = 0
        /\ q \in {"condition", "equal", "value", "semicolon"} => a.has_where
    BY <1>1, <1>6, <1>9 DEF Fitting, SelectPlaces
  <2>2. CASE q \in {"projection", "from", "more", "column"}
    <3>1. /\ q = "projection" => Position(q, a) = 1 /\ ColumnsAt(q, a) = 1
          /\ q = "from" => Position(q, a) = 2 /\ ColumnsAt(q, a) = 0
          /\ q = "more" => Position(q, a) = 2 * Len(a.columns) /\ ColumnsAt(q, a) = Len(a.columns)
          /\ q = "column" => Position(q, a) = 2 * Len(a.columns) + 1 /\ ColumnsAt(q, a) = Len(a.columns) + 1
      BY <1>2, <1>9, <2>1, <2>2 DEF Position, ColumnsAt
    <3>2. q \in {"more", "column"} => Len(a.columns) > 0
      BY <1>2, <2>1
    <3>3. Position(q, a) \in Nat /\ Position(q, a) >= 1 /\ Position(q, a) < FromAt(ColumnsAt(q, a))
      BY <1>2, <2>2, <3>1, <3>2 DEF FromAt
    <3> QED BY <1>2, <1>3, <1>4, <1>5, <1>9, <2>1, <2>2, <3>3 DEF BehindFrom
  <2>3. CASE q \in {"table"} \union BehindFrom
    <3> DEFINE from == FromAt(ColumnsAt(q, a))
    <3>1. /\ q = "table" => Position(q, a) = from
          /\ q = "where" => Position(q, a) = from + 1
          /\ q = "condition" => Position(q, a) = from + 2
          /\ q = "equal" => Position(q, a) = from + 3
          /\ q = "value" => Position(q, a) = from + 4
          /\ q = "semicolon" => Position(q, a) = from + 5
          /\ q = "end" => Position(q, a) = SelectLength(ColumnsAt(q, a), a.has_where)
      BY <1>9, <2>3 DEF Position, BehindFrom
    <3> HIDE DEF from
    <3>2. from \in Nat /\ from >= 3
      BY <1>4 DEF from
    <3>3. SelectLength(ColumnsAt(q, a), a.has_where) = from + (IF a.has_where THEN 6 ELSE 2)
      BY <1>5 DEF from
    <3>4. /\ Position(q, a) \in Nat /\ Position(q, a) >= from
          /\ Position(q, a) <= SelectLength(ColumnsAt(q, a), a.has_where)
          /\ q # "end" => Position(q, a) < SelectLength(ColumnsAt(q, a), a.has_where)
      BY <1>1, <2>1, <2>3, <3>1, <3>2, <3>3 DEF BehindFrom
    <3> QED BY <1>2, <1>3, <1>4, <1>9, <2>1, <3>2, <3>4 DEF from
  <2> QED BY <2>1, <2>2, <2>3 DEF SelectPlaces
<1> QED BY <1>1, <1>7, <1>8, <1>9

(* Two SELECTs have the same types up to a position. *)
SameTypes(c, w, v, c2, w2, v2, n) ==
  \A k \in 1..n : SelectType(c, w, v, k) = SelectType(c2, w2, v2, k)

(* The types read settle how many columns there are, as far as they go. *)
LEMMA ColumnsSettled ==
  ASSUME NEW c \in Nat, NEW c2 \in Nat, NEW w \in BOOLEAN, NEW w2 \in BOOLEAN, NEW v, NEW v2,
         NEW n \in Nat,
         SameTypes(c, w, v, c2, w2, v2, n)
  PROVE  /\ \A m \in 1..c : n >= 2 /\ n >= 2 * m - 1 => c2 >= m
         /\ n >= FromAt(c) => c2 = c
<1> DEFINE Type(k) == SelectType(c, w, v, k)
           Type2(k) == SelectType(c2, w2, v2, k)
<1>1. /\ c = 0 => FromAt(c) = 3 /\ Type(2) = "STAR"
      /\ c > 0 => /\ FromAt(c) = 2 * c + 1
                  /\ \A i \in 1..c : Type(2 * i) = "IDENTIFIER"
                  /\ \A i \in 1..(c - 1) : Type(2 * i + 1) = "COMMA"
      /\ Type(FromAt(c)) = "FROM"
  <2>1. TypesOf(c, w, v)
    BY SelectTypes
  <2> QED BY <2>1 DEF TypesOf
<1>2. /\ c2 = 0 => FromAt(c2) = 3 /\ Type2(2) = "STAR"
      /\ c2 > 0 => /\ FromAt(c2) = 2 * c2 + 1
                   /\ \A i \in 1..c2 : Type2(2 * i) = "IDENTIFIER"
                   /\ \A i \in 1..(c2 - 1) : Type2(2 * i + 1) = "COMMA"
      /\ Type2(FromAt(c2)) = "FROM"
  <2>1. TypesOf(c2, w2, v2)
    BY SelectTypes
  <2> QED BY <2>1 DEF TypesOf
<1>3. \A k \in 1..n : Type(k) = Type2(k)
  BY DEF SameTypes
<1> HIDE DEF Type, Type2
<1>4. ASSUME NEW m \in 1..c, n >= 2, n >= 2 * m - 1
      PROVE  c2 >= m
  <2>1. c > 0 /\ 1 \in 1..c
    BY <1>4
  <2>2. Type(2) = "IDENTIFIER"
    <3>1. Type(2 * 1) = "IDENTIFIER"
      BY <1>1, <2>1
    <3> QED BY <3>1
  <2>3. c2 # 0
    BY <1>2, <1>3, <1>4, <2>2
  <2>4. ASSUME c2 < m
        PROVE  FALSE
    <3>1. c2 \in 1..(c - 1) /\ 2 * c2 + 1 \in 1..n
      BY <1>4, <2>3, <2>4
    <3>2. Type(2 * c2 + 1) = "COMMA"
      BY <1>1, <2>1, <3>1
    <3>3. Type2(2 * c2 + 1) = "FROM"
      BY <1>2, <2>3
    <3> QED BY <1>3, <3>1, <3>2, <3>3
  <2> QED BY <1>4, <2>4
<1>5. ASSUME n >= FromAt(c)
      PROVE  c2 = c
  <2>1. CASE c = 0
    <3>1. n >= 3 /\ 2 \in 1..n /\ Type2(2) = "STAR"
      BY <1>1, <1>3, <1>5, <2>1
    <3>2. ASSUME c2 > 0
          PROVE  FALSE
      <4>1. Type2(2 * 1) = "IDENTIFIER"
        BY <1>2, <3>2
      <4> QED BY <3>1, <4>1
    <3> QED BY <2>1, <3>2
  <2>2. CASE c > 0
    <3>1. c \in 1..c /\ n >= 2 /\ n >= 2 * c - 1 /\ 2 * c + 1 \in 1..n
      BY <1>1, <1>5, <2>2
    <3>2. c2 >= c
      BY <1>4, <3>1
    <3>3. ASSUME c2 > c
          PROVE  FALSE
      <4>1. c \in 1..(c2 - 1)
        BY <2>2, <3>3
      <4>2. Type2(2 * c + 1) = "COMMA"
        BY <1>2, <3>3, <4>1
      <4>3. Type(2 * c + 1) = "FROM"
        BY <1>1, <2>2
      <4> QED BY <1>3, <3>1, <4>2, <4>3
    <3> QED BY <3>2, <3>3
  <2> QED BY <2>1, <2>2
<1> QED BY <1>4, <1>5

(* A sentence is either the INSERT or the SELECT of such a form. *)
LEMMA SentenceCases ==
  ASSUME NEW s \in Sentences
  PROVE  \/ s = InsertSentence
         \/ \E c \in 0..(MaxColumns + 1), w \in BOOLEAN, v \in {"NUMBER", "STRING"} :
              /\ s = SelectSentence(c, w, v)
              /\ Len(s) = SelectLength(c, w)
              /\ \A k \in 1..SelectLength(c, w) : s[k] = SelectType(c, w, v, k)
<1>1. ASSUME NEW c \in 0..(MaxColumns + 1), NEW w \in BOOLEAN, NEW v \in {"NUMBER", "STRING"},
             s = SelectSentence(c, w, v)
      PROVE  Len(s) = SelectLength(c, w) /\ \A k \in 1..SelectLength(c, w) : s[k] = SelectType(c, w, v, k)
  <2>1. SelectLength(c, w) \in Nat
    BY DEF SelectLength, FromAt
  <2> QED BY <1>1, <2>1 DEF SelectSentence
<1> QED BY <1>1, SentencesForm

(* Whatever sentence the types read begin goes on with a type that is      *)
(* expected.                                                               *)
LEMMA NextIsExpected ==
  ASSUME Fit(place, ast), place # "end",
         NEW s \in Sentences, Matches(Read, s)
  PROVE  /\ Len(s) > Position(place, ast)
         /\ <<place, s[Position(place, ast) + 1]>> \in Follows
<1> DEFINE n == Position(place, ast)
           c == ColumnsAt(place, ast)
           from == FromAt(c)
<1> SUFFICES Len(s) > n /\ <<place, s[n + 1]>> \in Follows
  OBVIOUS
<1>1. /\ n \in Nat /\ c \in Nat /\ from \in Nat /\ from >= 3
      /\ ast.type \in {"AST_UNKNOWN", "AST_SELECT", "AST_INSERT"}
      /\ ast.has_where \in BOOLEAN
  BY PlaceNumbers DEF Fit, Asts
<1>2. Len(Read) = n /\ \A k \in 1..n : Read[k] = TypeAt(place, ast, k)
  BY <1>1 DEF Read
<1>3. Len(s) >= n /\ \A k \in 1..n : s[k] = TypeAt(place, ast, k)
  BY <1>1, <1>2 DEF Matches
<1>4. InsertSentence[1] = "INSERT" /\ Len(InsertSentence) = 10
  BY DEF InsertSentence
<1>5. CASE ast.type = "AST_UNKNOWN"
  <2>1. place = "statement" /\ n = 0
    BY <1>5, PlaceNumbers
  <2>2. s[1] \in {"SELECT", "INSERT"} /\ Len(s) > 0
    <3>1. CASE s = InsertSentence
      BY <1>4, <3>1
    <3>2. CASE s # InsertSentence
      <4>1. PICK c2 \in 0..(MaxColumns + 1), w \in BOOLEAN, v \in {"NUMBER", "STRING"} :
              /\ Len(s) = SelectLength(c2, w)
              /\ \A k \in 1..SelectLength(c2, w) : s[k] = SelectType(c2, w, v, k)
        BY <3>2, SentenceCases
      <4>2. SelectLength(c2, w) \in Nat /\ SelectLength(c2, w) >= 1
        BY <4>1 DEF SelectLength, FromAt
      <4>3. SelectType(c2, w, v, 1) = "SELECT"
        BY DEF SelectType, FromAt
      <4> QED BY <4>1, <4>2, <4>3
    <3> QED BY <3>1, <3>2
  <2> QED BY <2>1, <2>2 DEF Follows
<1>6. CASE ast.type = "AST_INSERT"
  <2>1. place \in BeforeId \union AfterId /\ place # "end"
    BY <1>6, PlaceNumbers
  <2>2. n \in 1..9
    BY <1>6, <2>1 DEF Position, BeforeId, AfterId
  <2>3. s[1] = "INSERT"
    BY <1>3, <1>4, <1>6, <2>2 DEF TypeAt
  <2>4. s = InsertSentence
    <3>1. CASE s # InsertSentence
      <4>1. PICK c2 \in 0..(MaxColumns + 1), w \in BOOLEAN, v \in {"NUMBER", "STRING"} :
              \A k \in 1..SelectLength(c2, w) : s[k] = SelectType(c2, w, v, k)
        BY <3>1, SentenceCases
      <4>2. SelectLength(c2, w) \in Nat /\ SelectLength(c2, w) >= 1
        BY <4>1 DEF SelectLength, FromAt
      <4>3. SelectType(c2, w, v, 1) = "SELECT"
        BY DEF SelectType, FromAt
      <4> QED BY <2>3, <4>1, <4>2, <4>3
    <3> QED BY <3>1
  <2>5. <<place, InsertSentence[n + 1]>> \in Follows
    BY <1>6, <2>1 DEF Position, BeforeId, AfterId, Follows, InsertSentence
  <2> HIDE DEF n
  <2>6. Len(s) > n
    <3>1. Len(s) = 10
      BY <1>4, <2>4
    <3> QED BY <2>2, <3>1
  <2>7. <<place, s[n + 1]>> \in Follows
    BY <2>4, <2>5, Zenon
  <2> QED BY <2>6, <2>7
<1>7. CASE ast.type = "AST_SELECT"
  <2>1. place \in SelectPlaces /\ n >= 1
    BY <1>7, PlaceNumbers
  <2>2. \A k \in 1..n : s[k] = SelectType(c, ast.has_where, ast.where_type, k)
    BY <1>3, <1>7 DEF TypeAt
  <2>3. s[1] = "SELECT"
    <3>1. 1 \in 1..n
      BY <1>1, <2>1
    <3>2. SelectType(c, ast.has_where, ast.where_type, 1) = "SELECT"
      BY <1>1, SelectTypes DEF TypesOf
    <3> QED BY <2>2, <3>1, <3>2
  <2>4. s # InsertSentence
    BY <1>4, <2>3
  <2>5. PICK c2 \in 0..(MaxColumns + 1), w2 \in BOOLEAN, v2 \in {"NUMBER", "STRING"} :
              /\ Len(s) = SelectLength(c2, w2)
              /\ \A k \in 1..SelectLength(c2, w2) : s[k] = SelectType(c2, w2, v2, k)
    BY <2>4, SentenceCases
  <2> DEFINE Type(k) == SelectType(c2, w2, v2, k)
             m == Len(ast.columns)
             from2 == FromAt(c2)
  <2>6. /\ c2 \in Nat /\ from2 \in Nat /\ from2 >= 3
        /\ Len(s) = from2 + (IF w2 THEN 6 ELSE 2)
    BY <2>5 DEF SelectLength, FromAt
  <2>7. \A k \in 1..Len(s) : s[k] = Type(k)
    BY <2>5
  <2>8. \A k \in 1..n : SelectType(c, ast.has_where, ast.where_type, k) = Type(k)
    BY <1>1, <1>3, <2>2, <2>6, <2>7
  <2>9. /\ c2 = 0 => from2 = 3 /\ Type(2) = "STAR"
        /\ c2 > 0 => /\ from2 = 2 * c2 + 1
                     /\ \A i \in 1..c2 : Type(2 * i) = "IDENTIFIER"
                     /\ \A i \in 1..(c2 - 1) : Type(2 * i + 1) = "COMMA"
        /\ Type(from2) = "FROM"
        /\ Type(from2 + 1) = "IDENTIFIER"
        /\ Type(from2 + 2) = (IF w2 THEN "WHERE" ELSE "SEMICOLON")
        /\ w2 => /\ Type(from2 + 3) = "IDENTIFIER" /\ Type(from2 + 4) = "EQUAL"
                 /\ Type(from2 + 5) = v2 /\ Type(from2 + 6) = "SEMICOLON"
    <3>1. TypesOf(c2, w2, v2)
      BY <2>5, <2>6, SelectTypes
    <3> QED BY <3>1 DEF TypesOf
  <2> HIDE DEF n, c
  <2>10. /\ \A i \in 1..c : n >= 2 /\ n >= 2 * i - 1 => c2 >= i
         /\ n >= from => c2 = c
    <3> DEFINE w == ast.has_where
               v == ast.where_type
    <3>1. w \in BOOLEAN /\ w2 \in BOOLEAN /\ c \in Nat /\ c2 \in Nat /\ n \in Nat
      BY <1>1, <2>5, <2>6
    <3>2. SameTypes(c, w, v, c2, w2, v2, n)
      BY <2>8 DEF SameTypes
    <3> HIDE DEF w, v, Type
    <3> QED BY <3>1, <3>2, ColumnsSettled
  <2> USE DEF n, c
  <2>11. /\ m \in Nat
         /\ ast.select_all \/ place = "projection" <=> m = 0
         /\ place = "from" => ast.select_all
         /\ place \in {"more", "column"} => ~ast.select_all
         /\ place \in {"condition", "equal", "value", "semicolon"} => ast.has_where
         /\ place \in {"table"} \union BehindFrom => n >= from
    BY <1>7, PlaceNumbers DEF Fit, Fitting
  <2> HIDE DEF Type, m, n, c, from, from2
  <2>12. ASSUME n + 1 \in 1..Len(s), <<place, Type(n + 1)>> \in Follows
         PROVE  Len(s) > n /\ <<place, s[n + 1]>> \in Follows
    BY <1>1, <2>6, <2>7, <2>12
  <2>13. CASE place = "projection"
    <3>1. n = 1
      BY <1>7, <2>13 DEF Position, n
    <3>2. Type(2) \in {"STAR", "IDENTIFIER"}
      <4>1. CASE c2 > 0
        <5>1. Type(2 * 1) = "IDENTIFIER"
          BY <2>6, <2>9, <4>1
        <5> QED BY <5>1
      <4> QED BY <2>6, <2>9, <4>1
    <3> QED BY <2>6, <2>12, <2>13, <3>1, <3>2 DEF Follows
  <2>14. CASE place = "from"
    <3>1. n = 2 /\ c = 0
      BY <1>7, <2>11, <2>14 DEF Position, ColumnsAt, n, c
    <3>2. SelectType(c, ast.has_where, ast.where_type, 2) = "STAR"
      BY <1>1, <3>1, SelectTypes DEF TypesOf
    <3>3. Type(2) = "STAR"
      BY <2>8, <3>1, <3>2
    <3>4. c2 = 0
      <4>1. ASSUME c2 > 0
            PROVE  FALSE
        <5>1. Type(2 * 1) = "IDENTIFIER"
          BY <2>6, <2>9, <4>1
        <5> QED BY <3>3, <5>1
      <4> QED BY <2>6, <4>1
    <3> QED BY <2>6, <2>9, <2>12, <2>14, <3>1, <3>4 DEF Follows
  <2>15. CASE place = "more"
    <3>1. n = 2 * m /\ c = m /\ m > 0
      BY <1>7, <2>11, <2>15 DEF Position, ColumnsAt, n, c, m
    <3>2. c2 >= m
      BY <2>10, <2>11, <3>1
    <3>3. CASE c2 = m
      BY <2>6, <2>9, <2>12, <2>15, <3>1, <3>3 DEF Follows
    <3>4. CASE c2 > m
      <4>1. m \in 1..(c2 - 1)
        BY <2>6, <2>11, <3>1, <3>4
      <4>2. Type(2 * m + 1) = "COMMA" /\ from2 = 2 * c2 + 1
        BY <2>6, <2>9, <3>1, <3>4, <4>1
      <4> QED BY <2>6, <2>11, <2>12, <2>15, <3>1, <4>1, <4>2 DEF Follows
    <3> QED BY <2>6, <2>11, <3>2, <3>3, <3>4
  <2>16. CASE place = "column"
    <3>1. n = 2 * m + 1 /\ c = m + 1 /\ m > 0
      BY <1>7, <2>11, <2>16 DEF Position, ColumnsAt, n, c, m
    <3>2. c2 >= m + 1
      <4>1. m + 1 \in 1..c /\ n >= 2 /\ n >= 2 * (m + 1) - 1
        BY <2>11, <3>1
      <4> QED BY <2>10, <4>1
    <3>3. m + 1 \in 1..c2 /\ c2 > 0
      BY <2>6, <2>11, <3>2
    <3>4. Type(2 * (m + 1)) = "IDENTIFIER" /\ from2 = 2 * c2 + 1
      BY <2>9, <3>3
    <3>5. n + 1 = 2 * (m + 1) /\ n + 1 \in 1..Len(s)
      BY <2>6, <2>11, <3>1, <3>2, <3>4
    <3> QED BY <2>12, <2>16, <3>4, <3>5 DEF Follows
  <2>17. CASE place \in {"table"} \union BehindFrom
    <3>1. c2 = c /\ from2 = from
      BY <2>10, <2>11, <2>17 DEF from2, from
    <3>2. /\ place = "table" => n = from
          /\ place = "where" => n = from + 1
          /\ place = "condition" => n = from + 2
          /\ place = "equal" => n = from + 3
          /\ place = "value" => n = from + 4
          /\ place = "semicolon" => n = from + 5
      BY <1>7 DEF Position, n, c, from
    <3>3. ASSUME place \in {"condition", "equal", "value", "semicolon"}
          PROVE  w2
      <4>1. from + 2 \in 1..n
        BY <1>1, <3>2, <3>3
      <4>2. SelectType(c, ast.has_where, ast.where_type, from + 2) = "WHERE"
        BY <1>1, <2>11, <3>3, SelectTypes DEF TypesOf, from
      <4>3. Type(from2 + 2) = "WHERE"
        BY <2>8, <3>1, <4>1, <4>2
      <4> QED BY <2>9, <4>3
    <3>4. CASE place = "table"
      BY <2>6, <2>9, <2>12, <3>1, <3>2, <3>4 DEF Follows
    <3>5. CASE place = "where"
      BY <2>6, <2>9, <2>12, <3>1, <3>2, <3>5 DEF Follows
    <3>6. CASE place = "condition"
      BY <2>6, <2>9, <2>12, <3>1, <3>2, <3>3, <3>6 DEF Follows
    <3>7. CASE place = "equal"
      BY <2>6, <2>9, <2>12, <3>1, <3>2, <3>3, <3>7 DEF Follows
    <3>8. CASE place = "value"
      BY <2>5, <2>6, <2>9, <2>12, <3>1, <3>2, <3>3, <3>8 DEF Follows
    <3>9. CASE place = "semicolon"
      BY <2>6, <2>9, <2>12, <3>1, <3>2, <3>3, <3>9 DEF Follows
    <3> QED BY <2>17, <3>4, <3>5, <3>6, <3>7, <3>8, <3>9 DEF BehindFrom
  <2> QED BY <2>1, <2>13, <2>14, <2>15, <2>16, <2>17 DEF n, SelectPlaces
<1> QED BY <1>1, <1>5, <1>6, <1>7
-----------------------------------------------------------------------------
(* What has been read begins a sentence                                    *)

(* The types read are types. *)
LEMMA ReadTyping ==
  ASSUME Fit(place, ast)
  PROVE  /\ Read \in Seq(Terms) /\ Len(Read) = Position(place, ast)
         /\ \A k \in 1..Position(place, ast) : Read[k] = TypeAt(place, ast, k)
<1>1. Position(place, ast) \in Nat /\ ColumnsAt(place, ast) \in Nat /\ ast.where_type \in Terms
  BY PlaceNumbers DEF Fit, Asts, Terms
<1>2. ASSUME NEW k \in 1..Position(place, ast)
      PROVE  TypeAt(place, ast, k) \in Terms
  <2>1. CASE ast.type = "AST_INSERT"
    <3>1. k \in 1..10
      BY <1>2, <2>1, PlaceNumbers DEF Position
    <3> QED BY <2>1, <3>1 DEF TypeAt, InsertSentence, Terms, Plain
  <2>2. CASE ast.type # "AST_INSERT"
    <3>1. TypeAt(place, ast, k) = SelectType(ColumnsAt(place, ast), ast.has_where, ast.where_type, k)
      BY <2>2 DEF TypeAt
    <3>2. \A c, w, v : v \in Terms => SelectType(c, w, v, k) \in Terms
      BY DEF SelectType, Terms, Plain
    <3> QED BY <1>1, <3>1, <3>2
  <2> QED BY <2>1, <2>2
<1> QED BY <1>1, <1>2 DEF Read

(* The sentences of an INSERT and of a SELECT are in the grammar. *)
LEMMA InTheGrammar ==
  /\ InsertSentence \in Sentences /\ Len(InsertSentence) = 10
  /\ \A c \in 0..(MaxColumns + 1), w \in BOOLEAN, v \in {"NUMBER", "STRING"} :
       /\ SelectSentence(c, w, v) \in Sentences
       /\ Len(SelectSentence(c, w, v)) = SelectLength(c, w)
       /\ \A k \in 1..SelectLength(c, w) : SelectSentence(c, w, v)[k] = SelectType(c, w, v, k)
<1>1. ASSUME NEW c \in 0..(MaxColumns + 1), NEW w \in BOOLEAN, NEW v \in {"NUMBER", "STRING"}
      PROVE  /\ SelectSentence(c, w, v) \in Sentences
             /\ Len(SelectSentence(c, w, v)) = SelectLength(c, w)
             /\ \A k \in 1..SelectLength(c, w) : SelectSentence(c, w, v)[k] = SelectType(c, w, v, k)
  <2>1. SelectLength(c, w) \in Nat
    BY DEF SelectLength, FromAt
  <2>2. /\ Len(SelectSentence(c, w, v)) = SelectLength(c, w)
        /\ \A k \in 1..SelectLength(c, w) : SelectSentence(c, w, v)[k] = SelectType(c, w, v, k)
    BY <2>1 DEF SelectSentence
  <2>3. SelectSentence(c, w, v) \in Sentences
    BY SentencesForm
  <2> QED BY <2>2, <2>3
<1>2. InsertSentence \in Sentences /\ Len(InsertSentence) = 10
  BY SentencesForm DEF InsertSentence
<1> QED BY <1>1, <1>2

(* The types read begin a sentence, *)
LEMMA ReadBegins ==
  ASSUME Fit(place, ast)
  PROVE  \E s \in Sentences : Matches(Read, s)
<1> DEFINE n == Position(place, ast)
           c == ColumnsAt(place, ast)
           w == ast.has_where
           v == ast.where_type
<1>1. Len(Read) = n /\ \A k \in 1..n : Read[k] = TypeAt(place, ast, k)
  BY ReadTyping
<1>2. /\ n \in Nat /\ c \in 0..(MaxColumns + 1) /\ w \in BOOLEAN /\ v \in {"NUMBER", "STRING"}
      /\ ast.type \in {"AST_UNKNOWN", "AST_SELECT", "AST_INSERT"}
  BY PlaceNumbers DEF Fit, Asts
<1>3. CASE ast.type = "AST_INSERT"
  <2>1. n \in 1..10
    BY <1>3, PlaceNumbers DEF Position
  <2>2. \A k \in 1..n : Read[k] = InsertSentence[k]
    BY <1>1, <1>3 DEF TypeAt
  <2> HIDE DEF n
  <2>3. Len(Read) <= Len(InsertSentence)
    BY <1>1, <2>1, InTheGrammar
  <2> QED BY <1>1, <2>2, <2>3, InTheGrammar DEF Matches
<1>4. CASE ast.type = "AST_UNKNOWN"
  <2>1. Len(Read) = 0
    BY <1>1, <1>4, PlaceNumbers
  <2> QED BY <2>1, InTheGrammar DEF Matches
<1>5. CASE ast.type = "AST_SELECT"
  <2>1. n <= SelectLength(c, w) /\ SelectLength(c, w) \in Nat
    <3>1. SelectLength(c, w) \in Nat
      BY <1>2 DEF SelectLength, FromAt
    <3> QED BY <1>5, <3>1, PlaceNumbers
  <2>2. \A k \in 1..n : Read[k] = SelectType(c, w, v, k)
    BY <1>1, <1>5 DEF TypeAt
  <2> HIDE DEF n, c, w, v
  <2>3. /\ SelectSentence(c, w, v) \in Sentences
        /\ Len(SelectSentence(c, w, v)) = SelectLength(c, w)
        /\ \A k \in 1..SelectLength(c, w) : SelectSentence(c, w, v)[k] = SelectType(c, w, v, k)
    BY <1>2, InTheGrammar
  <2>4. Matches(Read, SelectSentence(c, w, v))
    BY <1>1, <1>2, <2>1, <2>2, <2>3 DEF Matches
  <2> QED BY <2>3, <2>4
<1> QED BY <1>2, <1>3, <1>4, <1>5

(* and are one at the end. *)
LEMMA ReadIsWhole ==
  ASSUME Fit(place, ast), place = "end"
  PROVE  Read \in Sentences
<1> DEFINE n == Position(place, ast)
           c == ColumnsAt(place, ast)
           w == ast.has_where
           v == ast.where_type
<1>1. Read = [k \in 1..n |-> TypeAt(place, ast, k)]
  BY DEF Read
<1>2. /\ c \in 0..(MaxColumns + 1) /\ w \in BOOLEAN /\ v \in {"NUMBER", "STRING"}
      /\ ast.type \in {"AST_SELECT", "AST_INSERT"}
  BY PlaceNumbers DEF Fit, Asts
<1>3. CASE ast.type = "AST_INSERT"
  <2>1. n = 10
    BY <1>3 DEF Position
  <2>2. Read = [k \in 1..10 |-> InsertSentence[k]]
    BY <1>1, <1>3, <2>1 DEF TypeAt
  <2>3. InsertSentence = [k \in 1..10 |-> InsertSentence[k]]
    BY DEF InsertSentence
  <2> QED BY <2>2, <2>3, InTheGrammar
<1>4. CASE ast.type = "AST_SELECT"
  <2>1. n = SelectLength(c, w)
    BY <1>4 DEF Position
  <2>2. Read = SelectSentence(c, w, v)
    BY <1>1, <1>4, <2>1 DEF TypeAt, SelectSentence
  <2> HIDE DEF c, w, v
  <2> QED BY <1>2, <2>2, InTheGrammar
<1> QED BY <1>2, <1>3, <1>4

(* A token that was measured fits behind them. *)
LEMMA MeasuredGoesOn ==
  ASSUME Fit(place, ast), NEW type \in Terms, <<place, type>> \in Measured
  PROVE  \E s \in Sentences : Matches(Append(Read, type), s)
<1> DEFINE n == Position(place, ast)
           c == ColumnsAt(place, ast)
           w == ast.has_where
           v == ast.where_type
           from == FromAt(c)
           m == Len(ast.columns)
           longer == Append(Read, type)
<1>1. Read \in Seq(Terms) /\ Len(Read) = n /\ \A k \in 1..n : Read[k] = TypeAt(place, ast, k)
  BY ReadTyping
<1>2. /\ n \in Nat /\ c \in 0..(MaxColumns + 1) /\ w \in BOOLEAN /\ v \in {"NUMBER", "STRING"}
      /\ ast.type \in {"AST_UNKNOWN", "AST_SELECT", "AST_INSERT"} /\ m \in Nat
      /\ from \in Nat /\ from >= 3
  BY PlaceNumbers DEF Fit, Asts
<1>3. /\ Len(longer) = n + 1 /\ longer[n + 1] = type
      /\ \A k \in 1..n : longer[k] = TypeAt(place, ast, k)
  <2> HIDE DEF n
  <2> QED BY <1>1, <1>2, AppendProperties
<1> HIDE DEF longer
<1>4. CASE ast.type = "AST_INSERT"
  <2>1. place \in {"target", "id", "name"}
    <3>1. place \in BeforeId \union AfterId
      BY <1>4, PlaceNumbers
    <3> QED BY <3>1 DEF BeforeId, AfterId, Measured
  <2>2. n \in 1..9 /\ InsertSentence[n + 1] = type
    BY <1>4, <2>1 DEF Position, Measured, InsertSentence
  <2>3. \A k \in 1..n : longer[k] = InsertSentence[k]
    BY <1>3, <1>4 DEF TypeAt
  <2> HIDE DEF n
  <2>4. \A k \in 1..(n + 1) : longer[k] = InsertSentence[k]
    <3>1. \A k \in 1..(n + 1) : k \in 1..n \/ k = n + 1
      BY <1>2
    <3> QED BY <1>3, <2>2, <2>3, <3>1
  <2>5. Len(longer) <= Len(InsertSentence)
    <3>1. Len(InsertSentence) = 10
      BY InTheGrammar
    <3> QED BY <1>3, <2>2, <3>1
  <2> QED BY <1>3, <2>4, <2>5, InTheGrammar DEF Matches, longer
<1>5. CASE ast.type = "AST_UNKNOWN"
  BY <1>5, PlaceNumbers DEF Measured
<1>6. CASE ast.type = "AST_SELECT"
  <2> DEFINE u == IF place = "value" THEN type ELSE v
             length == SelectLength(c, w)
  <2>1. place \in {"projection", "column", "table", "condition", "value"}
    <3>1. place \in SelectPlaces
      BY <1>6, PlaceNumbers
    <3> QED BY <3>1 DEF SelectPlaces, BehindFrom, Measured
  <2>2. u \in {"NUMBER", "STRING"}
    BY <1>2, <2>1 DEF Measured
  <2>3. n < length /\ length \in Nat /\ length = from + (IF w THEN 6 ELSE 2)
    <3>1. length \in Nat /\ length = from + (IF w THEN 6 ELSE 2)
      BY <1>2 DEF SelectLength
    <3>2. n < length
      BY <1>6, <2>1, PlaceNumbers
    <3> QED BY <3>1, <3>2
  <2>4. /\ place = "projection" => n = 1 /\ c = 1
        /\ place = "column" => n = 2 * m + 1 /\ c = m + 1
        /\ place = "table" => n = from
        /\ place = "condition" => n = from + 2
        /\ place = "value" => n = from + 4
        /\ place \in {"condition", "value"} => w
        /\ place # "value" => type = "IDENTIFIER"
    <3>1. place \in {"projection", "column"} => ~ast.select_all
      BY <1>6 DEF Fit, Fitting
    <3>2. place = "projection" => m = 0
      BY <1>6, PlaceNumbers
    <3>3. place \in {"condition", "value"} => w
      BY <1>6 DEF Fit, Fitting
    <3> QED BY <1>6, <2>1, <3>1, <3>2, <3>3 DEF Position, ColumnsAt, Measured
  <2>5. \A k \in 1..n : longer[k] = SelectType(c, w, v, k)
    BY <1>3, <1>6 DEF TypeAt
  <2>6. TypesOf(c, w, u)
    BY <1>2, SelectTypes
  <2> HIDE DEF n, c, w, v, m, length
  <2>7. SelectType(c, w, u, n + 1) = type
    <3>1. CASE place = "projection"
      <4>1. SelectType(c, w, u, 2 * 1) = "IDENTIFIER"
        BY <2>4, <2>6, <3>1 DEF TypesOf
      <4> QED BY <2>4, <3>1, <4>1
    <3>2. CASE place = "column"
      <4>1. c > 0 /\ c \in 1..c /\ n + 1 = 2 * c
        BY <1>2, <2>4, <3>2
      <4>2. SelectType(c, w, u, 2 * c) = "IDENTIFIER"
        BY <2>6, <4>1 DEF TypesOf
      <4> QED BY <2>4, <3>2, <4>1, <4>2
    <3>3. CASE place = "table"
      BY <2>4, <2>6, <3>3 DEF TypesOf
    <3>4. CASE place = "condition"
      <4>1. n + 1 = from + 3
        BY <1>2, <2>4, <3>4
      <4> QED BY <2>4, <2>6, <3>4, <4>1 DEF TypesOf
    <3>5. CASE place = "value"
      <4>1. n + 1 = from + 5
        BY <1>2, <2>4, <3>5
      <4> QED BY <2>4, <2>6, <3>5, <4>1 DEF TypesOf
    <3> QED BY <2>1, <3>1, <3>2, <3>3, <3>4, <3>5
  <2>8. ASSUME NEW k \in 1..n
        PROVE  SelectType(c, w, u, k) = SelectType(c, w, v, k)
    <3>1. CASE place = "value"
      <4>1. k < from + 5 /\ k \in Nat
        BY <1>2, <2>4, <2>8, <3>1
      <4> QED BY <1>2, <4>1 DEF SelectType
    <3>2. CASE place # "value"
      BY <3>2
    <3> QED BY <3>1, <3>2
  <2> HIDE DEF u
  <2>9. /\ SelectSentence(c, w, u) \in Sentences
        /\ Len(SelectSentence(c, w, u)) = length
        /\ \A k \in 1..length : SelectSentence(c, w, u)[k] = SelectType(c, w, u, k)
    BY <1>2, <2>2, InTheGrammar DEF length
  <2>10. ASSUME NEW k \in 1..(n + 1)
         PROVE  longer[k] = SelectSentence(c, w, u)[k]
    <3>1. k \in 1..length /\ (k \in 1..n \/ k = n + 1)
      BY <1>2, <2>3
    <3> QED BY <1>3, <2>5, <2>7, <2>8, <2>9, <3>1
  <2>11. Len(longer) <= Len(SelectSentence(c, w, u))
    BY <1>2, <1>3, <2>3, <2>9
  <2> QED BY <1>3, <2>9, <2>10, <2>11 DEF Matches, longer
<1> QED BY <1>2, <1>4, <1>5, <1>6
-----------------------------------------------------------------------------
(* The answers are true                                                    *)

(* What the parser knows of the tokens *)
ReadingInv == ParserInv /\ ShapeInv /\ ValuesRead(place, ast) /\ AnswerInv

(* The types of the tokens are the types read, and perhaps one more. *)
LEMMA TypesRead ==
  ASSUME ReadingInv
  PROVE  /\ Fit(place, ast)
         /\ parse_status = "none" => Types(tokens) = Read
         /\ parse_status # "none" =>
              /\ Types(ReadTokens) = Read
              /\ Types(tokens) = Append(Read, LastToken.type)
              /\ LastToken \in Tokens /\ LastToken.type \in Terms
<1> DEFINE n == Position(place, ast)
           length == Len(tokens)
<1>1. Fit(place, ast)
  BY DEF ReadingInv, ParserInv, ShapeInv, Fit
<1>2. tokens \in Seq(Tokens)
  BY DEF ReadingInv, ParserInv
<1>3. /\ n \in Nat /\ length = n + (IF parse_status = "none" THEN 0 ELSE 1)
      /\ \A k \in 1..n : tokens[k].type = TypeAt(place, ast, k)
  BY <1>1, PlaceNumbers DEF ReadingInv, ShapeInv
<1>4. Read = [k \in 1..n |-> TypeAt(place, ast, k)]
  BY DEF Read
<1>5. DOMAIN tokens = 1..length
  BY <1>2, LenProperties
<1>6. CASE parse_status = "none"
  <2>1. length = n
    BY <1>3, <1>6
  <2>2. Types(tokens) = [k \in 1..n |-> tokens[k].type]
    BY <1>5, <2>1 DEF Types
  <2> HIDE DEF n
  <2> QED BY <1>1, <1>3, <1>4, <1>6, <2>2
<1>7. CASE parse_status # "none"
  <2>1. length = n + 1
    BY <1>3, <1>7
  <2>2. LastToken = tokens[n + 1]
    BY <2>1 DEF LastToken
  <2> HIDE DEF n, length
  <2>3. LastToken \in Tokens
    <3>1. n + 1 \in 1..length
      BY <1>3, <2>1
    <3> QED BY <1>2, <2>2, <3>1, ElementOfSeq DEF length
  <2>4. LastToken.type \in Terms
    BY <2>3 DEF Tokens, Terms
  <2>5. Types(ReadTokens) = Read
    <3>1. tokens # <<>> /\ n = Len(tokens) - 1
      BY <1>2, <1>3, <2>1, EmptySeq DEF length
    <3>2. ReadTokens = SubSeq(tokens, 1, n)
      BY <3>1 DEF ReadTokens
    <3>3. \A k \in 1..n : tokens[k] \in Tokens
      <4>1. \A k \in 1..n : k \in 1..Len(tokens)
        BY <1>3, <3>1
      <4> QED BY <1>2, <4>1, ElementOfSeq
    <3>4. /\ SubSeq(tokens, 1, n) \in Seq(Tokens) /\ Len(SubSeq(tokens, 1, n)) = n
          /\ \A k \in 1..n : SubSeq(tokens, 1, n)[k] = tokens[k]
      BY <1>2, <1>3, <3>3, SubSeqProperties
    <3>5. DOMAIN ReadTokens = 1..n
      BY <3>2, <3>4, LenProperties
    <3> QED BY <1>3, <1>4, <3>2, <3>4, <3>5 DEF Types
  <2>6. Types(tokens) = Append(Read, LastToken.type)
    <3>1. Read \in Seq(Terms) /\ Len(Read) = n
      BY <1>1, ReadTyping DEF n
    <3>2. Types(tokens) = [k \in 1..(n + 1) |-> tokens[k].type]
      BY <1>5, <2>1 DEF Types
    <3>3. /\ Append(Read, LastToken.type) \in Seq(Terms)
          /\ Len(Append(Read, LastToken.type)) = n + 1
          /\ \A k \in 1..n : Append(Read, LastToken.type)[k] = Read[k]
          /\ Append(Read, LastToken.type)[n + 1] = LastToken.type
      BY <1>3, <2>4, <3>1, AppendProperties
    <3>4. \A k \in 1..(n + 1) : Append(Read, LastToken.type)[k] = tokens[k].type
      <4>1. \A k \in 1..(n + 1) : k \in 1..n \/ k = n + 1
        BY <1>3
      <4> QED BY <1>3, <1>4, <2>2, <3>3, <4>1
    <3>5. Append(Read, LastToken.type) = [k \in 1..(n + 1) |-> Append(Read, LastToken.type)[k]]
      BY <1>3, <3>3
    <3> QED BY <3>2, <3>4, <3>5
  <2> QED BY <1>1, <1>7, <2>3, <2>4, <2>5, <2>6
<1> QED BY <1>6, <1>7

(* The one list of columns that is refused though the grammar has it *)
LEMMA OneColumnMore ==
  ASSUME Fit(place, ast), place = "column", Len(ast.columns) = MaxColumns
  PROVE  Append(Read, "IDENTIFIER") = <<"SELECT">> \o ColumnList(MaxColumns + 1)
<1> DEFINE n == 2 * MaxColumns + 1
           list == ColumnList(MaxColumns + 1)
           longer == Append(Read, "IDENTIFIER")
           wanted == <<"SELECT">> \o list
<1>1. /\ MaxColumns \in Nat /\ MaxColumns > 0 /\ n \in Nat
      /\ ast.type = "AST_SELECT" /\ ~ast.select_all
  BY ColumnAssumption, PlaceNumbers DEF Fit, Fitting, Asts, BeforeId, AfterId
<1>2. Position(place, ast) = n /\ ColumnsAt(place, ast) = MaxColumns + 1
  BY <1>1 DEF Position, ColumnsAt
<1>3. /\ "SELECT" \in Terms /\ "IDENTIFIER" \in Terms /\ "COMMA" \in Terms
  BY DEF Terms, Plain
<1>4. /\ Read \in Seq(Terms) /\ Len(Read) = n
      /\ \A k \in 1..n : Read[k] = SelectType(MaxColumns + 1, ast.has_where, ast.where_type, k)
  BY <1>1, <1>2, ReadTyping DEF TypeAt
<1>5. /\ longer \in Seq(Terms) /\ Len(longer) = n + 1 /\ longer[n + 1] = "IDENTIFIER"
      /\ \A k \in 1..n : longer[k] = Read[k]
  <2> HIDE DEF n
  <2> QED BY <1>1, <1>3, <1>4, AppendProperties
<1>6. list = [k \in 1..n |-> IF k % 2 = 1 THEN "IDENTIFIER" ELSE "COMMA"]
  <2>1. 2 * (MaxColumns + 1) - 1 = n
    BY <1>1
  <2> QED BY <2>1 DEF ColumnList
<1>7. list \in Seq(Terms) /\ Len(list) = n
  <2> HIDE DEF n
  <2> QED BY <1>1, <1>3, <1>6
<1>8. /\ wanted \in Seq(Terms) /\ Len(wanted) = n + 1
      /\ \A k \in 1..(n + 1) : wanted[k] = IF k <= 1 THEN "SELECT" ELSE list[k - 1]
  <2> DEFINE one == <<"SELECT">>
  <2>1. one \in Seq(Terms) /\ Len(one) = 1 /\ one[1] = "SELECT"
    BY <1>3
  <2>2. Len(one) + Len(list) = n + 1
    BY <1>1, <1>7, <2>1
  <2>3. wanted = one \o list
    OBVIOUS
  <2> HIDE DEF n, one, list, wanted
  <2>4. /\ one \o list \in Seq(Terms) /\ Len(one \o list) = n + 1
        /\ \A k \in 1..(n + 1) : (one \o list)[k] = IF k <= 1 THEN one[k] ELSE list[k - 1]
    <3>1. /\ one \o list \in Seq(Terms) /\ Len(one \o list) = Len(one) + Len(list)
          /\ \A k \in 1..(Len(one) + Len(list)) :
               (one \o list)[k] = IF k <= Len(one) THEN one[k] ELSE list[k - Len(one)]
      BY <1>7, <2>1, ConcatProperties
    <3> QED BY <2>1, <2>2, <3>1
  <2>5. \A k \in 1..(n + 1) : k <= 1 => k = 1
    BY <1>1
  <2> QED BY <2>1, <2>3, <2>4, <2>5
<1>9. ASSUME NEW k \in 1..(n + 1)
      PROVE  longer[k] = wanted[k]
  <2>1. CASE k = 1
    <3>1. 1 \in 1..n
      BY <1>1
    <3>2. SelectType(MaxColumns + 1, ast.has_where, ast.where_type, 1) = "SELECT"
      BY DEF SelectType, FromAt
    <3> QED BY <1>4, <1>5, <1>8, <2>1, <3>1, <3>2
  <2>2. CASE k > 1
    <3>1. /\ k - 1 \in 1..n /\ ~(k <= 1) /\ k \in Nat
          /\ ((k - 1) % 2 = 1 <=> k % 2 = 0)
      BY <1>1, <2>2
    <3>2. wanted[k] = IF k % 2 = 0 THEN "IDENTIFIER" ELSE "COMMA"
      BY <1>6, <1>8, <3>1
    <3>3. CASE k = n + 1
      <4>1. k % 2 = 0
        BY <1>1, <3>3
      <4> QED BY <1>5, <3>2, <3>3, <4>1
    <3>4. CASE k # n + 1
      <4>1. k \in 1..n /\ k < FromAt(MaxColumns + 1) /\ MaxColumns + 1 # 0 /\ FromAt(MaxColumns + 1) \in Nat
        BY <1>1, <3>1, <3>4 DEF FromAt
      <4>2. SelectType(MaxColumns + 1, ast.has_where, ast.where_type, k)
              = IF k % 2 = 0 THEN "IDENTIFIER" ELSE "COMMA"
        BY <2>2, <3>1, <4>1 DEF SelectType
      <4> HIDE DEF n, longer, wanted
      <4> QED BY <1>4, <1>5, <3>2, <4>1, <4>2
    <3> QED BY <3>3, <3>4
  <2> HIDE DEF n, longer, wanted
  <2> QED BY <1>1, <2>1, <2>2
<1> HIDE DEF longer, wanted, n
<1> QED
  <2>1. longer = wanted
    BY <1>5, <1>8, <1>9, SeqEqual
  <2> QED BY <2>1 DEF longer, wanted

(* What the parser answers is true of the tokens it has looked at. *)
LEMMA AnswersAreTrue == ReadingInv => StatusIsTrue
<1> SUFFICES ASSUME ReadingInv
             PROVE  StatusIsTrue
  OBVIOUS
<1> DEFINE n == Position(place, ast)
           last == LastToken.type
           longer == Append(Read, last)
<1>1. /\ Fit(place, ast)
      /\ parse_status = "none" => Types(tokens) = Read
      /\ parse_status # "none" => /\ Types(ReadTokens) = Read
                                  /\ Types(tokens) = longer
                                  /\ last \in Terms
  BY TypesRead
<1>2. n \in Nat /\ Read \in Seq(Terms) /\ Len(Read) = n
  BY <1>1, PlaceNumbers, ReadTyping
<1>3. StartsSentence(Read)
  BY <1>1, <1>2, ReadBegins, StartsIfMatches
<1>4. AnswerInv
  BY DEF ReadingInv
<1>5. ASSUME place # "end", NEW s \in Sentences, Matches(Read, s)
      PROVE  Len(s) > n /\ Expected(s[n + 1])
  <2>1. Len(s) > n /\ <<place, s[n + 1]>> \in Follows
    BY <1>1, <1>5, NextIsExpected
  <2> HIDE DEF n
  <2> QED BY <2>1, ExpectedTypes
<1>6. place # "end" => Read \notin Sentences
  <2>1. ASSUME place # "end", Read \in Sentences
        PROVE  FALSE
    <3>1. Matches(Read, Read)
      BY <1>2 DEF Matches
    <3>2. Len(Read) > n
      BY <1>5, <2>1, <3>1
    <3> QED BY <1>2, <3>2
  <2> QED BY <2>1
<1>7. ASSUME last \in Terms
      PROVE  /\ longer \in Seq(Terms) /\ Len(longer) = n + 1 /\ longer[n + 1] = last
             /\ \A k \in 1..n : longer[k] = Read[k]
  <2> HIDE DEF n, last
  <2> QED BY <1>2, <1>7, AppendProperties
<1>8. ASSUME place # "end", last \in Terms, StartsSentence(longer)
      PROVE  Expected(last)
  <2>1. PICK s \in Sentences : Matches(longer, s)
    BY <1>7, <1>8, StartsIfMatches
  <2> HIDE DEF n, last, longer
  <2>2. Len(s) >= n + 1 /\ \A k \in 1..(n + 1) : longer[k] = s[k]
    BY <1>7, <1>8, <2>1 DEF Matches
  <2>3. Len(s) \in Nat
    BY <2>1, SentenceTyping, LenProperties
  <2>4. Matches(Read, s)
    <3>1. \A k \in 1..n : k \in 1..(n + 1)
      BY <1>2
    <3> QED BY <1>2, <1>7, <1>8, <2>2, <2>3, <3>1 DEF Matches
  <2>5. Expected(s[n + 1])
    BY <1>5, <1>8, <2>1, <2>4
  <2>6. s[n + 1] = last
    <3>1. n + 1 \in 1..(n + 1)
      BY <1>2
    <3> QED BY <1>7, <1>8, <2>2, <3>1
  <2> QED BY <2>5, <2>6
<1>9. ASSUME last \in Terms, <<place, last>> \in Measured
      PROVE  StartsSentence(longer)
  <2>1. \E s \in Sentences : Matches(longer, s)
    BY <1>1, <1>9, MeasuredGoesOn
  <2>2. longer \in Seq(Terms)
    BY <1>7, <1>9
  <2> HIDE DEF longer
  <2> QED BY <2>1, <2>2, StartsIfMatches
<1>10. CASE parse_status = "none"
  BY <1>1, <1>3, <1>10 DEF StatusIsTrue
<1>11. CASE parse_status # "none"
  <2>1. StartsSentence(Types(ReadTokens))
    BY <1>1, <1>3, <1>11
  <2>2. parse_status = "PARSE_OK" => Types(ReadTokens) \in Sentences /\ LastToken.type = "EOF"
    BY <1>1, <1>4, <1>11, ReadIsWhole DEF AnswerInv, Answers
  <2>3. parse_status = "PARSE_TRAILING_TOKENS" => Types(ReadTokens) \in Sentences /\ LastToken.type # "EOF"
    BY <1>1, <1>4, <1>11, ReadIsWhole DEF AnswerInv, Answers
  <2>4. parse_status = "PARSE_UNEXPECTED_EOF" => Types(ReadTokens) \notin Sentences /\ LastToken.type = "EOF"
    BY <1>1, <1>4, <1>6, <1>11 DEF AnswerInv, Answers
  <2>5. parse_status = "PARSE_ERROR" =>
          /\ LastToken.type # "EOF"
          /\ StartsSentence(Types(tokens)) => Types(tokens) = <<"SELECT">> \o ColumnList(MaxColumns + 1)
    <3>1. ASSUME parse_status = "PARSE_ERROR", StartsSentence(Types(tokens))
          PROVE  Types(tokens) = <<"SELECT">> \o ColumnList(MaxColumns + 1)
      <4>1. place # "end"
        BY <1>4, <3>1 DEF AnswerInv, Answers
      <4>2. Expected(last)
        BY <1>1, <1>8, <1>11, <3>1, <4>1
      <4>3. place = "column" /\ last = "IDENTIFIER" /\ Len(ast.columns) = MaxColumns
        BY <1>4, <3>1, <4>2 DEF AnswerInv, Answers
      <4> QED BY <1>1, <1>11, <4>3, OneColumnMore
    <3> QED BY <1>4, <3>1 DEF AnswerInv, Answers
  <2>6. parse_status \in {"PARSE_TABLE_NAME_TOO_LONG", "PARSE_IDENTIFIER_TOO_LONG", "PARSE_STRING_TOO_LONG"} =>
          StartsSentence(Types(tokens)) /\ LastToken.value \in Oversized
    BY <1>1, <1>4, <1>9, <1>11 DEF AnswerInv, Answers
  <2>7. parse_status = "PARSE_INTEGER_OUT_OF_RANGE" =>
          /\ StartsSentence(Types(tokens)) /\ LastToken.type = "NUMBER"
          /\ place = "id" => LastToken.value \notin InRange
    BY <1>1, <1>4, <1>9, <1>11 DEF AnswerInv, Answers
  <2> QED BY <1>11, <2>1, <2>2, <2>3, <2>4, <2>5, <2>6, <2>7 DEF StatusIsTrue
<1> QED BY <1>10, <1>11
-----------------------------------------------------------------------------
(* Each token is read at its position                                      *)

(* The place and AST that a token of some type leads to *)
LeadsOnTo(q, a, type, r, b) ==
  /\ Fitting(r, b)
  /\ Position(r, b) = Position(q, a) + 1
  /\ \A k \in 1..Position(q, a) : TypeAt(r, b, k) = TypeAt(q, a, k)
  /\ TypeAt(r, b, Position(q, a) + 1) = type

(* The tokens that the AST quotes are among those read. *)
LEMMA ReadPositions ==
  ASSUME NEW q, NEW a, Fit(q, a), a.type # "AST_INSERT"
  PROVE  LET n == Position(q, a)
             from == FromAt(ColumnsAt(q, a))
         IN  /\ \A i \in 1..Len(a.columns) : 2 * i \in 1..n
             /\ q \in BehindFrom => from + 1 \in 1..n
             /\ q \in {"equal", "value"} => from + 3 \in 1..n
             /\ q \in {"semicolon", "end"} /\ a.has_where => from + 3 \in 1..n /\ from + 5 \in 1..n
<1> DEFINE n == Position(q, a)
           m == Len(a.columns)
           c == ColumnsAt(q, a)
           from == FromAt(c)
<1>1. /\ n \in Nat /\ m \in Nat /\ c \in Nat /\ from \in Nat /\ from >= 3
      /\ a.type \in {"AST_UNKNOWN", "AST_SELECT"}
  BY PlaceNumbers DEF Fit, Asts
<1>2. CASE a.type = "AST_UNKNOWN"
  <2>1. q = "statement" /\ m = 0
    BY <1>2 DEF Fit, Fitting
  <2> QED BY <2>1 DEF BehindFrom
<1>3. CASE a.type = "AST_SELECT"
  <2>1. /\ q \in SelectPlaces
        /\ a.select_all \/ q = "projection" <=> m = 0
        /\ q = "from" => a.select_all
    BY <1>3, PlaceNumbers DEF Fit, Fitting
  <2>2. CASE q \in {"projection", "from", "more", "column"}
    <3>1. /\ q \in {"projection", "from"} => m = 0
          /\ q = "more" => n = 2 * m
          /\ q = "column" => n = 2 * m + 1
      BY <1>3, <2>1, <2>2 DEF Position
    <3> HIDE DEF n, m
    <3>2. \A i \in 1..m : 2 * i \in 1..n
      BY <1>1, <2>2, <3>1
    <3> QED BY <2>2, <3>2 DEF BehindFrom, m, n
  <2>3. CASE q \in {"table"} \union BehindFrom
    <3>1. /\ q = "table" => n = from
          /\ q = "where" => n = from + 1
          /\ q = "condition" => n = from + 2
          /\ q = "equal" => n = from + 3
          /\ q = "value" => n = from + 4
          /\ q = "semicolon" => n = from + 5
          /\ q = "end" => n = from + (IF a.has_where THEN 6 ELSE 2)
      BY <1>3, <2>3 DEF Position, BehindFrom, SelectLength
    <3>2. m > 0 => from = 2 * m + 1
      BY <1>1, <2>1, <2>3 DEF ColumnsAt, FromAt, BehindFrom
    <3> HIDE DEF n, m, from
    <3>3. n >= from
      BY <1>1, <2>3, <3>1 DEF BehindFrom
    <3>4. \A i \in 1..m : 2 * i \in 1..n
      BY <1>1, <3>2, <3>3
    <3>5. /\ q \in BehindFrom => from + 1 \in 1..n
          /\ q \in {"equal", "value"} => from + 3 \in 1..n
          /\ q \in {"semicolon", "end"} /\ a.has_where => from + 3 \in 1..n /\ from + 5 \in 1..n
      BY <1>1, <3>1 DEF BehindFrom
    <3> QED BY <3>4, <3>5 DEF n, m, from
  <2> QED BY <2>1, <2>2, <2>3 DEF SelectPlaces
<1> QED BY <1>1, <1>2, <1>3

(* One more token is looked at, *)
LEMMA Grown ==
  ASSUME ParserInv, ShapeInv, NEW t \in Tokens, Parsing(t)
  PROVE  LET n == Position(place, ast)
         IN  /\ Fit(place, ast) /\ n \in Nat /\ parse_status = "none"
             /\ Len(tokens') = n + 1 /\ LastToken' = t /\ tokens'[n + 1] = t
             /\ \A k \in 1..n : tokens'[k] = tokens[k]
<1> DEFINE n == Position(place, ast)
<1>1. Fit(place, ast) /\ n \in Nat
  BY PlaceNumbers DEF ParserInv, ShapeInv, Fit
<1>2. parse_status = "none" /\ tokens' = Append(tokens, t)
  BY DEF Parsing
<1>3. tokens \in Seq(Tokens) /\ Len(tokens) = n
  BY <1>1, <1>2 DEF ParserInv, ShapeInv
<1> HIDE DEF n
<1>4. /\ Len(tokens') = n + 1 /\ tokens'[n + 1] = t
      /\ \A k \in 1..n : tokens'[k] = tokens[k]
  BY <1>1, <1>2, <1>3, AppendProperties
<1>5. LastToken' = t
  BY <1>4 DEF LastToken
<1> QED BY <1>1, <1>2, <1>4, <1>5 DEF n

(* and leads on *)
LEMMA LeadsKeepsShape ==
  ASSUME ParserInv, ShapeInv, NEW t \in Tokens, Parsing(t), parse_status' = parse_status,
         LeadsOnTo(place, ast, t.type, place', ast')
  PROVE  ShapeInv'
<1> DEFINE n == Position(place, ast)
           n2 == Position(place', ast')
<1>1. /\ n \in Nat /\ parse_status = "none" /\ Len(tokens') = n + 1 /\ tokens'[n + 1] = t
      /\ \A k \in 1..n : tokens'[k] = tokens[k]
  BY Grown
<1>2. \A k \in 1..n : tokens[k].type = TypeAt(place, ast, k)
  BY DEF ShapeInv
<1>3. /\ n2 = n + 1 /\ Fitting(place', ast')
      /\ \A k \in 1..n : TypeAt(place', ast', k) = TypeAt(place, ast, k)
      /\ TypeAt(place', ast', n + 1) = t.type
  BY DEF LeadsOnTo
<1> HIDE DEF n, n2
<1>4. \A k \in 1..n2 : tokens'[k].type = TypeAt(place', ast', k)
  <2>1. \A k \in 1..n2 : k \in 1..n \/ k = n + 1
    BY <1>1, <1>3
  <2> QED BY <1>1, <1>2, <1>3, <2>1
<1>5. Len(tokens') = n2 + (IF parse_status' = "none" THEN 0 ELSE 1)
  BY <1>1, <1>3
<1> QED BY <1>3, <1>4, <1>5 DEF ShapeInv, n2

(* or is refused. *)
LEMMA RefusalKeepsShape ==
  ASSUME ParserInv, ShapeInv, ValuesRead(place, ast), NEW t \in Tokens, Parsing(t),
         UNCHANGED <<place, ast>>, parse_status' # "none"
  PROVE  ShapeInv' /\ ValuesRead(place, ast)'
<1> DEFINE n == Position(place, ast)
           from == FromAt(ColumnsAt(place, ast))
<1>1. /\ Fit(place, ast) /\ n \in Nat /\ parse_status = "none" /\ Len(tokens') = n + 1
      /\ \A k \in 1..n : tokens'[k] = tokens[k]
  BY Grown
<1>2. Fitting(place, ast) /\ \A k \in 1..n : tokens[k].type = TypeAt(place, ast, k)
  BY DEF ShapeInv
<1>3. n' = n /\ \A k \in 1..n : tokens'[k].type = TypeAt(place', ast', k)
  BY <1>1, <1>2
<1>4. ShapeInv'
  <2>1. Fitting(place', ast')
    BY <1>2
  <2>2. Len(tokens') = n' + (IF parse_status' = "none" THEN 0 ELSE 1)
    BY <1>1, <1>3
  <2> QED BY <1>3, <2>1, <2>2 DEF ShapeInv
<1>5. CASE ast.type = "AST_INSERT"
  <2>1. /\ place \notin {"into", "target"} => 3 \in 1..n
        /\ place \in AfterId => 6 \in 1..n
        /\ place \in {"rparen", "semicolon", "end"} => 8 \in 1..n
    <3>1. place \in BeforeId \union AfterId
      BY <1>1, <1>5, PlaceNumbers
    <3> QED BY <1>5, <3>1 DEF Position, BeforeId, AfterId
  <2> QED BY <1>1, <1>4, <1>5, <2>1 DEF ValuesRead
<1>6. CASE ast.type # "AST_INSERT"
  <2>1. /\ \A i \in 1..Len(ast.columns) : 2 * i \in 1..n
        /\ place \in BehindFrom => from + 1 \in 1..n
        /\ place \in {"equal", "value"} => from + 3 \in 1..n
        /\ place \in {"semicolon", "end"} /\ ast.has_where => from + 3 \in 1..n /\ from + 5 \in 1..n
    BY <1>1, <1>6, ReadPositions
  <2> QED BY <1>1, <1>4, <1>6, <2>1 DEF ValuesRead
<1> QED BY <1>4, <1>5, <1>6

(* The token of an INSERT that leads on is at its position, and its value  *)
(* is in the AST.                                                          *)
LEMMA InsertLeads ==
  ASSUME ParserInv, ShapeInv, ValuesRead(place, ast), NEW t \in Tokens,
         ast.type = "AST_INSERT", parse_status' = parse_status,
         ExpectToken(t) \/ ParseTable(t) \/ ParseId(t) \/ ParseName(t)
  PROVE  LeadsOnTo(place, ast, t.type, place', ast') /\ ValuesRead(place, ast)'
<1> DEFINE n == Position(place, ast)
<1>1. Parsing(t)
  BY DEF ExpectToken, ParseTable, ParseId, ParseName
<1>2. /\ Fit(place, ast) /\ n \in Nat /\ parse_status = "none" /\ tokens'[n + 1] = t
      /\ \A k \in 1..n : tokens'[k] = tokens[k]
  BY <1>1, Grown
<1>3. place \in BeforeId \union AfterId /\ ast \in Asts
  BY <1>2, PlaceNumbers DEF ParserInv
<1>4. ASSUME ast'.type = "AST_INSERT", place' \in BeforeId \union AfterId,
             Position(place', ast') = n + 1, InsertSentence[n + 1] = t.type
      PROVE  LeadsOnTo(place, ast, t.type, place', ast')
  BY <1>4 DEF LeadsOnTo, TypeAt, Fitting
<1>5. /\ place \notin {"into", "target"} => ast.table_name = tokens[3].value
      /\ place \in AfterId => ast.id = tokens[6].value
      /\ place \in {"rparen", "semicolon", "end"} => ast.name = tokens[8].value
  BY DEF ValuesRead
<1>6. CASE ExpectToken(t)
  <2>1. ast' = ast
    BY <1>6 DEF ExpectToken, Advance
  <2>2. <<place, t.type, place'>> \in
          {<<"into", "INTO", "target">>, <<"values", "VALUES", "lparen">>, <<"lparen", "LPAREN", "id">>,
           <<"comma", "COMMA", "name">>, <<"rparen", "RPAREN", "semicolon">>,
           <<"semicolon", "SEMICOLON", "end">>}
    BY <1>3, <1>6 DEF ExpectToken, Advance, Fixed, BeforeId, AfterId
  <2>3. /\ place' \in BeforeId \union AfterId /\ Position(place', ast') = n + 1
        /\ InsertSentence[n + 1] = t.type
    <3>1. Position(place', ast') = Position(place', ast)
      BY <2>1
    <3>2. Position(place', ast) = n + 1
      BY <2>2 DEF Position
    <3>3. InsertSentence[n + 1] = t.type
      <4>1. <<n, t.type>> \in {<<1, "INTO">>, <<3, "VALUES">>, <<4, "LPAREN">>, <<6, "COMMA">>,
                             <<8, "RPAREN">>, <<9, "SEMICOLON">>}
        BY <2>2 DEF Position
      <4> HIDE DEF n
      <4> QED BY <4>1 DEF InsertSentence
    <3>4. place' \in BeforeId \union AfterId
      BY <2>2 DEF BeforeId, AfterId
    <3> QED BY <3>1, <3>2, <3>3, <3>4
  <2>4. /\ place' \notin {"into", "target"} => place \notin {"into", "target"} /\ 3 \in 1..n
        /\ place' \in AfterId => place \in AfterId /\ 6 \in 1..n
        /\ place' \in {"rparen", "semicolon", "end"} => place \in {"rparen", "semicolon", "end"} /\ 8 \in 1..n
    BY <2>2 DEF Position, AfterId
  <2> HIDE DEF n
  <2>5. ValuesRead(place, ast)'
    BY <1>2, <1>5, <2>1, <2>4 DEF ValuesRead
  <2> QED BY <1>4, <2>1, <2>3, <2>5
<1>7. CASE ParseTable(t)
  <2>1. place = "target" /\ place' = "values" /\ t.type = "IDENTIFIER" /\ n = 2
    BY <1>2, <1>3, <1>7 DEF ParseTable, Advance, Answer, BeforeId, AfterId, Position
  <2>2. ast' = [ast EXCEPT !.table_name = t.value]
    BY <1>2, <1>7 DEF ParseTable, Advance, Answer
  <2>3. ast'.type = "AST_INSERT" /\ ast'.table_name = t.value
    BY <1>3, <2>2 DEF Asts
  <2>4. LeadsOnTo(place, ast, t.type, place', ast')
    BY <1>4, <2>1, <2>3 DEF Position, InsertSentence, BeforeId
  <2> HIDE DEF n
  <2>5. ValuesRead(place, ast)'
    BY <1>2, <2>1, <2>3 DEF ValuesRead, AfterId
  <2> QED BY <2>4, <2>5
<1>8. CASE ParseId(t)
  <2>1. place = "id" /\ place' = "comma" /\ t.type = "NUMBER" /\ n = 5
    BY <1>2, <1>3, <1>8 DEF ParseId, Advance, Answer, Position
  <2>2. ast' = [ast EXCEPT !.id = t.value]
    BY <1>2, <1>8 DEF ParseId, Advance, Answer
  <2>3. ast'.type = "AST_INSERT" /\ ast'.id = t.value /\ ast'.table_name = ast.table_name
    BY <1>3, <2>2 DEF Asts
  <2>4. LeadsOnTo(place, ast, t.type, place', ast')
    BY <1>4, <2>1, <2>3 DEF Position, InsertSentence, AfterId
  <2> HIDE DEF n
  <2>5. ValuesRead(place, ast)'
    <3>1. 3 \in 1..n /\ tokens'[3] = tokens[3] /\ tokens'[6] = t
      BY <1>2, <2>1
    <3> QED BY <1>5, <2>1, <2>3, <3>1 DEF ValuesRead
  <2> QED BY <2>4, <2>5
<1>9. CASE ParseName(t)
  <2>1. place = "name" /\ place' = "rparen" /\ t.type = "STRING" /\ n = 7
    BY <1>2, <1>3, <1>9 DEF ParseName, Advance, Answer, Position
  <2>2. ast' = [ast EXCEPT !.name = t.value]
    BY <1>2, <1>9 DEF ParseName, Advance, Answer
  <2>3. ast'.type = "AST_INSERT" /\ ast'.name = t.value /\ ast'.table_name = ast.table_name
        /\ ast'.id = ast.id
    BY <1>3, <2>2 DEF Asts
  <2>4. LeadsOnTo(place, ast, t.type, place', ast')
    BY <1>4, <2>1, <2>3 DEF Position, InsertSentence, AfterId
  <2> HIDE DEF n
  <2>5. ValuesRead(place, ast)'
    <3>1. tokens'[3] = tokens[3] /\ tokens'[6] = tokens[6] /\ tokens'[8] = t
      BY <1>2, <2>1
    <3> QED BY <1>5, <2>1, <2>3, <3>1 DEF ValuesRead, AfterId
  <2> QED BY <2>4, <2>5
<1> QED BY <1>6, <1>7, <1>8, <1>9

(* The first token tells the statement. *)
LEMMA StatementLeads ==
  ASSUME ParserInv, ShapeInv, ValuesRead(place, ast), NEW t \in Tokens, parse_tokens(t)
  PROVE  LeadsOnTo(place, ast, t.type, place', ast') /\ ValuesRead(place, ast)'
<1>1. /\ Fit(place, ast) /\ ast \in Asts /\ place = "statement" /\ Position(place, ast) = 0
      /\ ast.type = "AST_UNKNOWN" /\ ~ast.select_all /\ ast.columns = <<>> /\ ~ast.has_where
  <2>1. Parsing(t) /\ place = "statement"
    BY DEF parse_tokens
  <2>2. Fit(place, ast) /\ ast.type = "AST_UNKNOWN"
    BY <2>1, Grown DEF ParserInv
  <2>3. ~ast.select_all /\ ast.columns = <<>> /\ ~ast.has_where /\ Position(place, ast) = 0
    BY <2>2, PlaceNumbers DEF Fit, Fitting, ParserInv
  <2> QED BY <2>1, <2>2, <2>3 DEF ParserInv
<1>2. CASE t.type = "SELECT" /\ Advance("projection", [ast EXCEPT !.type = "AST_SELECT"])
  <2>1. /\ place' = "projection" /\ ast'.type = "AST_SELECT" /\ ~ast'.select_all
        /\ ast'.columns = <<>> /\ ~ast'.has_where
    BY <1>1, <1>2 DEF Advance, Asts
  <2>2. Fitting(place', ast') /\ Position(place', ast') = 1
    BY <2>1 DEF Fitting, Position
  <2>3. TypeAt(place', ast', 1) = "SELECT"
    <3>1. ColumnsAt(place', ast') = 1
      BY <2>1 DEF ColumnsAt
    <3> QED BY <2>1, <3>1 DEF TypeAt, SelectType, FromAt
  <2>4. LeadsOnTo(place, ast, t.type, place', ast')
    BY <1>1, <1>2, <2>2, <2>3 DEF LeadsOnTo
  <2>5. ValuesRead(place, ast)'
    <3>1. \A i \in 1..Len(ast'.columns) : FALSE
      BY <2>1
    <3> QED BY <2>1, <3>1 DEF ValuesRead, BehindFrom
  <2> QED BY <2>4, <2>5
<1>3. CASE t.type = "INSERT" /\ Advance("into", [ast EXCEPT !.type = "AST_INSERT"])
  <2>1. place' = "into" /\ ast'.type = "AST_INSERT"
    BY <1>1, <1>3 DEF Advance, Asts
  <2>2. Fitting(place', ast') /\ Position(place', ast') = 1
    BY <2>1 DEF Fitting, Position, BeforeId
  <2>3. TypeAt(place', ast', 1) = "INSERT"
    BY <2>1 DEF TypeAt, InsertSentence
  <2>4. LeadsOnTo(place, ast, t.type, place', ast')
    BY <1>1, <1>3, <2>2, <2>3 DEF LeadsOnTo
  <2>5. ValuesRead(place, ast)'
    BY <2>1 DEF ValuesRead, AfterId
  <2> QED BY <2>4, <2>5
<1> QED BY <1>2, <1>3 DEF parse_tokens

(* The projection of a SELECT is read a column at a time. *)
LEMMA ProjectionLeads ==
  ASSUME ParserInv, ShapeInv, ValuesRead(place, ast), NEW t \in Tokens,
         ast.type = "AST_SELECT", parse_status' = parse_status,
         place \in {"projection", "from", "more", "column"},
         ExpectToken(t) \/ ParseStar(t) \/ ParseColumn(t)
  PROVE  LeadsOnTo(place, ast, t.type, place', ast') /\ ValuesRead(place, ast)'
<1> DEFINE n == Position(place, ast)
           m == Len(ast.columns)
           w == ast.has_where
           v == ast.where_type
<1>1. Parsing(t)
  BY DEF ExpectToken, ParseStar, ParseColumn
<1>2. /\ Fit(place, ast) /\ n \in Nat /\ parse_status = "none" /\ tokens'[n + 1] = t
      /\ \A k \in 1..n : tokens'[k] = tokens[k]
  BY <1>1, Grown
<1>3. /\ ast \in Asts /\ ast.columns \in Seq(Short) /\ m \in Nat /\ ~w /\ w \in BOOLEAN
      /\ place = "from" <=> ast.select_all
      /\ ast.columns = <<>> <=> place = "projection" \/ place = "from"
      /\ m = 0 <=> place = "projection" \/ place = "from"
      /\ ast.select_all \in BOOLEAN
  <2>1. ast \in Asts /\ ast.columns \in Seq(Short) /\ ast.select_all \in BOOLEAN /\ w \in BOOLEAN
    BY DEF ParserInv, Asts
  <2>2. m \in Nat /\ (ast.columns = <<>> <=> m = 0)
    BY <2>1, EmptySeq, LenProperties
  <2>3. ~w /\ (place = "from" => ast.select_all) /\ (place # "from" => ~ast.select_all)
        /\ (place = "projection" \/ ast.select_all <=> ast.columns = <<>>)
    BY <1>2 DEF Fit, Fitting
  <2> QED BY <2>1, <2>2, <2>3
<1>4. /\ place = "projection" => n = 1 /\ ColumnsAt(place, ast) = 1
      /\ place = "from" => n = 2 /\ ColumnsAt(place, ast) = 0
      /\ place = "more" => n = 2 * m /\ ColumnsAt(place, ast) = m
      /\ place = "column" => n = 2 * m + 1 /\ ColumnsAt(place, ast) = m + 1
  BY <1>3 DEF Position, ColumnsAt
<1>5. \A i \in 1..m : ast.columns[i] = tokens[2 * i].value
  BY DEF ValuesRead
<1>6. \A i \in 1..m : 2 * i \in 1..n
  BY <1>2, ReadPositions
<1>7. \A i \in 1..m : ast.columns[i] = tokens'[2 * i].value
  <2> HIDE DEF n, m
  <2> QED BY <1>2, <1>5, <1>6
<1>8. \A q, k : TypeAt(q, ast, k) = SelectType(ColumnsAt(q, ast), w, v, k)
  BY DEF TypeAt
<1>9. CASE ExpectToken(t)
  <2>1. ast' = ast
    BY <1>9 DEF ExpectToken, Advance
  <2>2. <<place, t.type, place'>> \in
          {<<"more", "COMMA", "column">>, <<"more", "FROM", "table">>, <<"from", "FROM", "table">>}
    BY <1>9 DEF ExpectToken, Advance, Fixed
  <2>3. Fitting(place', ast')
    BY <1>3, <2>1, <2>2 DEF Fitting
  <2>4. /\ place' = "table" => ColumnsAt(place', ast') = m
        /\ place' = "column" => ColumnsAt(place', ast') = m + 1
    BY <1>3, <2>1, <2>2 DEF ColumnsAt
  <2>5. Position(place', ast') = n + 1
    BY <1>3, <1>4, <2>1, <2>2, <2>4 DEF Position, FromAt
  <2>6. TypeAt(place', ast', n + 1) = t.type
    <3>1. CASE place' = "table"
      <4>1. n + 1 = FromAt(m) /\ t.type = "FROM"
        BY <1>3, <1>4, <2>2, <3>1 DEF FromAt
      <4>2. TypesOf(m, w, v)
        BY <1>3, SelectTypes
      <4>3. SelectType(m, w, v, FromAt(m)) = "FROM"
        BY <4>2 DEF TypesOf
      <4> QED BY <1>8, <2>1, <2>4, <3>1, <4>1, <4>3
    <3>2. CASE place' = "column"
      <4>1. n + 1 = 2 * m + 1 /\ t.type = "COMMA" /\ m \in 1..m /\ m + 1 > 0 /\ m + 1 - 1 = m
        BY <1>3, <1>4, <2>2, <3>2
      <4>2. TypesOf(m + 1, w, v)
        BY <1>3, SelectTypes
      <4>3. SelectType(m + 1, w, v, 2 * m + 1) = "COMMA"
        <5> HIDE DEF m, w, v
        <5>1. \A i \in 1..(m + 1 - 1) : SelectType(m + 1, w, v, 2 * i + 1) = "COMMA"
          BY <4>1, <4>2 DEF TypesOf
        <5> QED BY <4>1, <5>1
      <4> QED BY <1>8, <2>1, <2>4, <3>2, <4>1, <4>3
    <3> QED BY <2>2, <3>1, <3>2
  <2>7. \A k \in 1..n : TypeAt(place', ast', k) = TypeAt(place, ast, k)
    <3>1. CASE place' = "table"
      <4>1. ColumnsAt(place', ast') = ColumnsAt(place, ast)
        BY <1>3, <1>4, <2>2, <2>4, <3>1
      <4> QED BY <1>8, <2>1, <4>1
    <3>2. CASE place' = "column"
      <4>1. n = 2 * m /\ m > 0 /\ ColumnsAt(place, ast) = m /\ ColumnsAt(place', ast') = m + 1
        BY <1>3, <1>4, <2>2, <2>4, <3>2
      <4>2. \A k \in 1..(2 * m) : SelectType(m + 1, w, v, k) = SelectType(m, w, v, k)
        <5>1. FromAt(m) = 2 * m + 1 /\ FromAt(m + 1) = 2 * m + 3 /\ m + 1 # 0 /\ m # 0
          BY <1>3, <4>1 DEF FromAt
        <5> HIDE DEF m, w, v
        <5> QED BY <1>3, <5>1 DEF SelectType
      <4> QED BY <1>8, <2>1, <4>1, <4>2
    <3> QED BY <2>2, <3>1, <3>2
  <2>8. LeadsOnTo(place, ast, t.type, place', ast')
    BY <2>3, <2>5, <2>6, <2>7 DEF LeadsOnTo
  <2>9. ValuesRead(place, ast)'
    BY <1>7, <2>1, <2>2 DEF ValuesRead, BehindFrom
  <2> QED BY <2>8, <2>9
<1>10. CASE ParseStar(t)
  <2>1. /\ place = "projection" /\ t.type = "STAR" /\ place' = "from"
        /\ ast' = [ast EXCEPT !.select_all = TRUE]
    BY <1>10 DEF ParseStar, Advance
  <2>2. /\ ast'.type = "AST_SELECT" /\ ast'.select_all /\ ast'.columns = ast.columns /\ ~ast'.has_where
        /\ ast'.where_type = v
    BY <1>3, <2>1 DEF Asts
  <2>3. Fitting(place', ast') /\ Position(place', ast') = 2 /\ ColumnsAt(place', ast') = 0
    BY <1>3, <2>1, <2>2 DEF Fitting, Position, ColumnsAt
  <2>4. \A k : TypeAt(place', ast', k) = SelectType(0, ast'.has_where, v, k)
    BY <2>2, <2>3 DEF TypeAt
  <2>5. TypeAt(place', ast', 1) = "SELECT" /\ TypeAt(place', ast', 2) = "STAR"
    BY <2>4 DEF SelectType, FromAt
  <2>6. TypeAt(place, ast, 1) = "SELECT" /\ n = 1
    BY <1>4, <1>8, <2>1 DEF SelectType, FromAt
  <2>7. LeadsOnTo(place, ast, t.type, place', ast')
    <3>1. Position(place, ast) = 1 /\ \A k \in 1..1 : k = 1
      BY <2>6
    <3>2. \A k \in 1..Position(place, ast) : TypeAt(place', ast', k) = TypeAt(place, ast, k)
      BY <2>5, <2>6, <3>1
    <3>3. TypeAt(place', ast', Position(place, ast) + 1) = t.type
      BY <2>1, <2>5, <3>1
    <3> QED BY <2>3, <3>1, <3>2, <3>3 DEF LeadsOnTo
  <2>8. ValuesRead(place, ast)'
    BY <1>7, <2>1, <2>2 DEF ValuesRead, BehindFrom
  <2> QED BY <2>7, <2>8
<1>11. CASE ParseColumn(t)
  <2>1. /\ place \in {"projection", "column"} /\ t.type = "IDENTIFIER" /\ place' = "more"
        /\ ast' = [ast EXCEPT !.columns = Append(ast.columns, t.value)]
        /\ util_copy_checked(t.value)
    BY <1>2, <1>11 DEF ParseColumn, Advance, Answer
  <2> DEFINE columns == Append(ast.columns, t.value)
  <2>2. /\ ast'.type = "AST_SELECT" /\ ast'.select_all = ast.select_all /\ ast'.columns = columns
        /\ ast'.has_where = w /\ ast'.where_type = v
    BY <1>3, <2>1 DEF Asts
  <2>3. /\ Len(columns) = m + 1 /\ columns # <<>> /\ columns[m + 1] = t.value
        /\ \A i \in 1..m : columns[i] = ast.columns[i]
    <3>1. t.value \in Short
      BY <1>1, <2>1, TokenStep
    <3> QED BY <1>3, <3>1, AppendProperties
  <2> HIDE DEF columns
  <2>4. Fitting(place', ast') /\ Position(place', ast') = 2 * (m + 1) /\ ColumnsAt(place', ast') = m + 1
    BY <1>3, <2>1, <2>2, <2>3 DEF Fitting, Position, ColumnsAt
  <2>5. n + 1 = 2 * (m + 1) /\ ColumnsAt(place, ast) = m + 1
    <3>1. place = "projection" => m = 0
      BY <1>3
    <3> QED BY <1>3, <1>4, <2>1, <3>1
  <2>6. \A k : TypeAt(place', ast', k) = SelectType(m + 1, w, v, k)
    BY <2>2, <2>4 DEF TypeAt
  <2>7. \A k : TypeAt(place, ast, k) = SelectType(m + 1, w, v, k)
    BY <1>8, <2>5
  <2>8. SelectType(m + 1, w, v, 2 * (m + 1)) = "IDENTIFIER"
    <3>1. TypesOf(m + 1, w, v) /\ m + 1 > 0 /\ m + 1 \in 1..(m + 1)
      BY <1>3, SelectTypes
    <3> QED BY <3>1 DEF TypesOf
  <2>9. LeadsOnTo(place, ast, t.type, place', ast')
    BY <2>1, <2>4, <2>5, <2>6, <2>7, <2>8 DEF LeadsOnTo
  <2>10. \A i \in 1..(m + 1) : columns[i] = tokens'[2 * i].value
    <3>1. \A i \in 1..(m + 1) : i \in 1..m \/ i = m + 1
      BY <1>3
    <3>2. tokens'[2 * (m + 1)] = t
      BY <1>2, <2>5
    <3> HIDE DEF n, m
    <3> QED BY <1>7, <2>3, <3>1, <3>2
  <2>11. ValuesRead(place, ast)'
    BY <2>1, <2>2, <2>3, <2>10 DEF ValuesRead, BehindFrom
  <2> QED BY <2>9, <2>11
<1> QED BY <1>9, <1>10, <1>11

(* What follows the projection is read behind FROM. *)
LEMMA ConditionLeads ==
  ASSUME ParserInv, ShapeInv, ValuesRead(place, ast), NEW t \in Tokens,
         ast.type = "AST_SELECT", parse_status' = parse_status,
         place \in {"table"} \union BehindFrom,
         \/ ExpectToken(t) \/ ParseTable(t) \/ ParseWhere(t) \/ ParseCondition(t) \/ ParseValue(t)
  PROVE  LeadsOnTo(place, ast, t.type, place', ast') /\ ValuesRead(place, ast)'
<1> DEFINE n == Position(place, ast)
           m == Len(ast.columns)
           w == ast.has_where
           v == ast.where_type
           c == ColumnsAt(place, ast)
           from == FromAt(c)
<1>1. Parsing(t)
  BY DEF ExpectToken, ParseTable, ParseWhere, ParseCondition, ParseValue
<1>2. /\ Fit(place, ast) /\ n \in Nat /\ parse_status = "none" /\ tokens'[n + 1] = t
      /\ \A k \in 1..n : tokens'[k] = tokens[k]
  BY <1>1, Grown
<1>3. /\ ast \in Asts /\ m \in Nat /\ c \in Nat /\ from \in Nat /\ from >= 3 /\ w \in BOOLEAN
      /\ v \in {"NUMBER", "STRING"}
  BY <1>2, PlaceNumbers DEF ParserInv, Asts
<1>4. /\ place = "table" => n = from
      /\ place = "where" => n = from + 1
      /\ place = "condition" => n = from + 2
      /\ place = "equal" => n = from + 3
      /\ place = "value" => n = from + 4
      /\ place = "semicolon" => n = from + 5
  BY DEF Position
<1>5. /\ place \in {"condition", "equal", "value", "semicolon"} => w
      /\ place \in {"table", "where"} => ~w
      /\ ast.select_all <=> ast.columns = <<>>
  BY <1>2 DEF Fit, Fitting, BehindFrom
<1>6. /\ \A i \in 1..m : ast.columns[i] = tokens[2 * i].value /\ 2 * i \in 1..n
      /\ place \in BehindFrom => ast.table_name = tokens[from + 1].value /\ from + 1 \in 1..n
      /\ place \in {"equal", "value"} => ast.where_column = tokens[from + 3].value /\ from + 3 \in 1..n
      /\ place = "semicolon" =>
           /\ ast.where_column = tokens[from + 3].value /\ from + 3 \in 1..n
           /\ ast.where_type = tokens[from + 5].type /\ ast.where_value = tokens[from + 5].value
           /\ from + 5 \in 1..n
  <2>1. /\ \A i \in 1..m : ast.columns[i] = tokens[2 * i].value
        /\ place \in BehindFrom => ast.table_name = tokens[from + 1].value
        /\ place \in {"equal", "value"} => ast.where_column = tokens[from + 3].value
        /\ place = "semicolon" =>
             /\ ast.where_column = tokens[from + 3].value
             /\ ast.where_type = tokens[from + 5].type /\ ast.where_value = tokens[from + 5].value
    BY <1>5 DEF ValuesRead
  <2>2. /\ \A i \in 1..m : 2 * i \in 1..n
        /\ place \in BehindFrom => from + 1 \in 1..n
        /\ place \in {"equal", "value"} => from + 3 \in 1..n
        /\ place = "semicolon" => from + 3 \in 1..n /\ from + 5 \in 1..n
    BY <1>2, <1>5, ReadPositions
  <2> QED BY <2>1, <2>2
<1>7. /\ \A i \in 1..m : ast.columns[i] = tokens'[2 * i].value
      /\ place \in BehindFrom => ast.table_name = tokens'[from + 1].value
      /\ place \in {"equal", "value"} => ast.where_column = tokens'[from + 3].value
      /\ place = "semicolon" =>
           /\ ast.where_column = tokens'[from + 3].value
           /\ ast.where_type = tokens'[from + 5].type /\ ast.where_value = tokens'[from + 5].value
  <2> HIDE DEF n, m, from
  <2> QED BY <1>2, <1>6
<1>8. c = IF ast.select_all THEN 0 ELSE m
  BY DEF ColumnsAt, BehindFrom
(* The columns stay what they were: so do the types up to FROM.            *)
<1>9. ASSUME ast'.type = "AST_SELECT", ast'.select_all = ast.select_all, ast'.columns = ast.columns,
             place' \in BehindFrom,
             Fitting(place', ast'), Position(place', ast') = n + 1,
             \A k \in 1..n : SelectType(c, ast'.has_where, ast'.where_type, k) = SelectType(c, w, v, k),
             SelectType(c, ast'.has_where, ast'.where_type, n + 1) = t.type
      PROVE  LeadsOnTo(place, ast, t.type, place', ast')
  <2>1. ColumnsAt(place', ast') = c
    BY <1>8, <1>9 DEF ColumnsAt, BehindFrom
  <2>2. \A k : TypeAt(place', ast', k) = SelectType(c, ast'.has_where, ast'.where_type, k)
    BY <1>9, <2>1 DEF TypeAt
  <2>3. \A k : TypeAt(place, ast, k) = SelectType(c, w, v, k)
    BY DEF TypeAt
  <2> QED BY <1>9, <2>2, <2>3 DEF LeadsOnTo
<1>10. ASSUME ast'.type = "AST_SELECT", ast'.select_all = ast.select_all, ast'.columns = ast.columns,
              place' \in BehindFrom,
              ast'.table_name = tokens'[from + 1].value,
              place' \in {"equal", "value", "semicolon"} => ast'.where_column = tokens'[from + 3].value,
              place' = "end" /\ ast'.has_where => ast'.where_column = tokens'[from + 3].value,
              place' \in {"semicolon", "end"} /\ ast'.has_where =>
                 /\ ast'.where_type = tokens'[from + 5].type
                 /\ ast'.where_value = tokens'[from + 5].value
       PROVE  ValuesRead(place, ast)'
  <2>1. ColumnsAt(place', ast') = c
    BY <1>8, <1>10 DEF ColumnsAt, BehindFrom
  <2>2. ast'.type # "AST_INSERT"
    BY <1>10
  <2> HIDE DEF m, c
  <2> QED BY <1>7, <1>10, <2>1, <2>2 DEF ValuesRead, m
<1>11. TypesOf(c, w, v)
  BY <1>3, SelectTypes
<1>12. CASE ExpectToken(t)
  <2>1. ast' = ast
    BY <1>12 DEF ExpectToken, Advance
  <2>2. <<place, t.type, place'>> \in
          {<<"where", "SEMICOLON", "end">>, <<"equal", "EQUAL", "value">>, <<"semicolon", "SEMICOLON", "end">>}
    BY <1>12 DEF ExpectToken, Advance, Fixed, BehindFrom
  <2>3. place' \in BehindFrom /\ Fitting(place', ast')
    BY <1>5, <2>1, <2>2 DEF Fitting, BehindFrom
  <2>4. Position(place', ast') = n + 1
    <3>1. /\ place' = "value" => Position(place', ast) = FromAt(ColumnsAt(place', ast)) + 4
          /\ place' = "end" => Position(place', ast) = SelectLength(ColumnsAt(place', ast), w)
      BY DEF Position
    <3>2. ColumnsAt(place', ast) = c
      BY <1>8, <2>3 DEF ColumnsAt, BehindFrom
    <3>3. SelectLength(c, w) = from + (IF w THEN 6 ELSE 2)
      BY DEF SelectLength
    <3> HIDE DEF n, c, from, w
    <3> QED BY <1>3, <1>4, <1>5, <2>1, <2>2, <3>1, <3>2, <3>3 DEF from
  <2>5. SelectType(c, w, v, n + 1) = t.type
    <3> HIDE DEF n, c, w, v
    <3>1. CASE place = "where"
      <4>1. n + 1 = from + 2
        BY <1>3, <1>4, <3>1
      <4> QED BY <1>5, <1>11, <2>2, <3>1, <4>1 DEF TypesOf
    <3>2. CASE place = "equal"
      <4>1. n + 1 = from + 4
        BY <1>3, <1>4, <3>2
      <4> QED BY <1>5, <1>11, <2>2, <3>2, <4>1 DEF TypesOf
    <3>3. CASE place = "semicolon"
      <4>1. n + 1 = from + 6
        BY <1>3, <1>4, <3>3
      <4> QED BY <1>5, <1>11, <2>2, <3>3, <4>1 DEF TypesOf
    <3> QED BY <2>2, <3>1, <3>2, <3>3
  <2>6. LeadsOnTo(place, ast, t.type, place', ast')
    BY <1>9, <2>1, <2>3, <2>4, <2>5
  <2>7. place \in BehindFrom
    BY <2>2 DEF BehindFrom
  <2> HIDE DEF from
  <2>8. ValuesRead(place, ast)'
    BY <1>5, <1>7, <1>10, <2>1, <2>2, <2>3, <2>7
  <2> QED BY <2>6, <2>8
<1>13. CASE ParseTable(t)
  <2>1. /\ place = "table" /\ t.type = "IDENTIFIER" /\ place' = "where"
        /\ ast' = [ast EXCEPT !.table_name = t.value]
    BY <1>2, <1>13 DEF ParseTable, Advance, Answer, BehindFrom
  <2>2. /\ ast'.type = "AST_SELECT" /\ ast'.select_all = ast.select_all /\ ast'.columns = ast.columns
        /\ ast'.has_where = w /\ ast'.where_type = v /\ ast'.table_name = t.value
    BY <1>3, <2>1 DEF Asts
  <2>3. place' \in BehindFrom /\ Fitting(place', ast')
    BY <1>5, <2>1, <2>2 DEF Fitting, BehindFrom
  <2>4. Position(place', ast') = n + 1 /\ n = from
    <3>1. ColumnsAt(place', ast') = c
      BY <1>8, <2>1, <2>2 DEF ColumnsAt
    <3> QED BY <1>4, <2>1, <2>2, <3>1 DEF Position
  <2>5. SelectType(c, w, v, n + 1) = t.type
    <3> HIDE DEF n, c, w, v
    <3> QED BY <1>11, <2>1, <2>4 DEF TypesOf
  <2>6. LeadsOnTo(place, ast, t.type, place', ast')
    BY <1>9, <2>2, <2>3, <2>4, <2>5
  <2>7. ValuesRead(place, ast)'
    <3> HIDE DEF n, from
    <3> QED BY <1>2, <1>5, <1>10, <2>1, <2>2, <2>3, <2>4
  <2> QED BY <2>6, <2>7
<1>14. CASE ParseWhere(t)
  <2>1. /\ place = "where" /\ t.type = "WHERE" /\ place' = "condition"
        /\ ast' = [ast EXCEPT !.has_where = TRUE]
    BY <1>14 DEF ParseWhere, Advance
  <2>2. /\ ast'.type = "AST_SELECT" /\ ast'.select_all = ast.select_all /\ ast'.columns = ast.columns
        /\ ast'.has_where /\ ast'.where_type = v /\ ast'.table_name = ast.table_name
    BY <1>3, <2>1 DEF Asts
  <2>3. place' \in BehindFrom /\ Fitting(place', ast') /\ place \in BehindFrom
    BY <1>5, <2>1, <2>2 DEF Fitting, BehindFrom
  <2>4. Position(place', ast') = n + 1 /\ n = from + 1
    <3>1. ColumnsAt(place', ast') = c
      BY <1>8, <2>1, <2>2 DEF ColumnsAt
    <3>2. Position(place', ast') = from + 2
      BY <2>1, <2>2, <3>1 DEF Position
    <3> QED BY <1>3, <1>4, <2>1, <3>2
  <2> DEFINE w2 == ast'.has_where
  <2>5. SelectType(c, w2, v, n + 1) = t.type
    <3>1. n + 1 = from + 2
      BY <1>3, <2>4
    <3> HIDE DEF n, v, from
    <3> QED BY <1>3, <2>1, <2>2, <3>1 DEF SelectType, from
  <2>6. \A k \in 1..n : SelectType(c, w2, v, k) = SelectType(c, w, v, k)
    <3>1. \A k \in 1..n : k \in Nat /\ k < from + 2
      BY <1>2, <1>3, <2>4
    <3> HIDE DEF n, w, w2, v, from
    <3> QED BY <1>3, <3>1 DEF SelectType, from
  <2>7. LeadsOnTo(place, ast, t.type, place', ast')
    BY <1>9, <2>2, <2>3, <2>4, <2>5, <2>6
  <2> HIDE DEF from
  <2>8. ValuesRead(place, ast)'
    BY <1>7, <1>10, <2>1, <2>2, <2>3
  <2> QED BY <2>7, <2>8
<1>15. CASE ParseCondition(t)
  <2>1. /\ place = "condition" /\ t.type = "IDENTIFIER" /\ place' = "equal"
        /\ ast' = [ast EXCEPT !.where_column = t.value]
    BY <1>2, <1>15 DEF ParseCondition, Advance, Answer
  <2>2. /\ ast'.type = "AST_SELECT" /\ ast'.select_all = ast.select_all /\ ast'.columns = ast.columns
        /\ ast'.has_where = w /\ ast'.where_type = v /\ ast'.table_name = ast.table_name
        /\ ast'.where_column = t.value
    BY <1>3, <2>1 DEF Asts
  <2>3. place' \in BehindFrom /\ Fitting(place', ast') /\ place \in BehindFrom
    BY <1>5, <2>1, <2>2 DEF Fitting, BehindFrom
  <2>4. Position(place', ast') = n + 1 /\ n + 1 = from + 3
    <3>1. ColumnsAt(place', ast') = c
      BY <1>8, <2>1, <2>2 DEF ColumnsAt
    <3>2. Position(place', ast') = from + 3
      BY <2>1, <2>2, <3>1 DEF Position
    <3> QED BY <1>3, <1>4, <2>1, <3>2
  <2>5. SelectType(c, w, v, n + 1) = t.type
    <3> HIDE DEF n, c, w, v
    <3> QED BY <1>5, <1>11, <2>1, <2>4 DEF TypesOf
  <2>6. LeadsOnTo(place, ast, t.type, place', ast')
    BY <1>9, <2>2, <2>3, <2>4, <2>5
  <2>7. ValuesRead(place, ast)'
    <3> HIDE DEF n, from
    <3> QED BY <1>2, <1>7, <1>10, <2>1, <2>2, <2>3, <2>4
  <2> QED BY <2>6, <2>7
<1>16. CASE ParseValue(t)
  <2>1. /\ place = "value" /\ t.type \in {"NUMBER", "STRING"} /\ place' = "semicolon"
        /\ ast' = [ast EXCEPT !.where_type = t.type, !.where_value = t.value]
    BY <1>2, <1>16 DEF ParseValue, Advance, Answer
  <2>2. /\ ast'.type = "AST_SELECT" /\ ast'.select_all = ast.select_all /\ ast'.columns = ast.columns
        /\ ast'.has_where = w /\ ast'.where_type = t.type /\ ast'.table_name = ast.table_name
        /\ ast'.where_column = ast.where_column /\ ast'.where_value = t.value
    BY <1>3, <2>1 DEF Asts
  <2>3. place' \in BehindFrom /\ Fitting(place', ast') /\ place \in BehindFrom
    BY <1>5, <2>1, <2>2 DEF Fitting, BehindFrom
  <2>4. Position(place', ast') = n + 1 /\ n + 1 = from + 5
    <3>1. ColumnsAt(place', ast') = c
      BY <1>8, <2>1, <2>2 DEF ColumnsAt
    <3>2. Position(place', ast') = from + 5
      BY <2>1, <2>2, <3>1 DEF Position
    <3> QED BY <1>3, <1>4, <2>1, <3>2
  <2>5. SelectType(c, w, t.type, n + 1) = t.type
    <3>1. TypesOf(c, w, t.type)
      BY <1>3, SelectTypes
    <3> HIDE DEF n, c, w
    <3> QED BY <1>5, <2>1, <2>4, <3>1 DEF TypesOf
  <2>6. \A k \in 1..n : SelectType(c, w, t.type, k) = SelectType(c, w, v, k)
    <3>1. \A k \in 1..n : k \in Nat /\ k < from + 5
      BY <1>2, <1>3, <2>4
    <3> HIDE DEF n, w, v, from
    <3> QED BY <1>3, <3>1 DEF SelectType, from
  <2>7. LeadsOnTo(place, ast, t.type, place', ast')
    BY <1>9, <2>2, <2>3, <2>4, <2>5, <2>6
  <2>8. ValuesRead(place, ast)'
    <3> HIDE DEF n, from
    <3> QED BY <1>2, <1>7, <1>10, <2>1, <2>2, <2>3, <2>4
  <2> QED BY <2>7, <2>8
<1> QED BY <1>12, <1>13, <1>14, <1>15, <1>16

(* A token that leads on is in its place. *)
LEMMA AcceptedIsRead ==
  ASSUME ReadingInv, NEW t \in Tokens, Step(t), parse_status' = "none"
  PROVE  ShapeInv' /\ ValuesRead(place, ast)'
<1>1. ParserInv /\ ShapeInv /\ ValuesRead(place, ast)
  BY DEF ReadingInv
<1>2. Parsing(t) /\ parse_status' = parse_status
  BY DEF Step, ExpectToken, missing_token_status, AtEnd, parse_tokens, ParseStar, ParseColumn, ParseTable,
         ParseWhere, ParseCondition, ParseValue, ParseId, ParseName, Parsing
<1>3. Fit(place, ast) /\ ast.type \in {"AST_UNKNOWN", "AST_SELECT", "AST_INSERT"}
  BY <1>1, <1>2, Grown DEF Fit, Asts
<1>4. ~missing_token_status(t) /\ ~AtEnd(t)
  BY <1>2 DEF missing_token_status, AtEnd, Answer
<1>5. LeadsOnTo(place, ast, t.type, place', ast') /\ ValuesRead(place, ast)'
  <2>1. CASE ast.type = "AST_UNKNOWN"
    <3>1. place = "statement"
      BY <1>3, <2>1, PlaceNumbers
    <3>2. parse_tokens(t)
      BY <1>4, <3>1 DEF Step, ExpectToken, Fixed, ParseStar, ParseColumn, ParseTable,
                        ParseWhere, ParseCondition, ParseValue, ParseId, ParseName
    <3> QED BY <1>1, <3>2, StatementLeads
  <2>2. CASE ast.type = "AST_INSERT"
    <3>1. place \in BeforeId \union AfterId
      BY <1>3, <2>2, PlaceNumbers
    <3>2. ExpectToken(t) \/ ParseTable(t) \/ ParseId(t) \/ ParseName(t)
      BY <1>4, <3>1 DEF Step, parse_tokens, ParseStar, ParseColumn, BeforeId, AfterId,
                        ParseWhere, ParseCondition, ParseValue
    <3> QED BY <1>1, <1>2, <2>2, <3>2, InsertLeads
  <2>3. CASE ast.type = "AST_SELECT"
    <3>1. place \in SelectPlaces
      BY <1>3, <2>3, PlaceNumbers
    <3>2. CASE place \in {"projection", "from", "more", "column"}
      <4>1. ExpectToken(t) \/ ParseStar(t) \/ ParseColumn(t)
        BY <1>4, <3>2 DEF Step, parse_tokens, ParseTable,
                          ParseWhere, ParseCondition, ParseValue, ParseId, ParseName
      <4> QED BY <1>1, <1>2, <2>3, <3>2, <4>1, ProjectionLeads
    <3>3. CASE place \in {"table"} \union BehindFrom
      <4>1. \/ ExpectToken(t) \/ ParseTable(t) \/ ParseWhere(t) \/ ParseCondition(t) \/ ParseValue(t)
        BY <1>4, <3>3 DEF Step, parse_tokens, ParseStar, ParseColumn, ParseId, ParseName, BehindFrom
      <4> QED BY <1>1, <1>2, <2>3, <3>3, <4>1, ConditionLeads
    <3> QED BY <3>1, <3>2, <3>3 DEF SelectPlaces
  <2> QED BY <1>3, <2>1, <2>2, <2>3
<1> QED BY <1>1, <1>2, <1>5, LeadsKeepsShape

(* A token that is refused is refused for the reason given. *)
LEMMA RefusedIsAnswered ==
  ASSUME ReadingInv, NEW t \in Tokens, Step(t), parse_status' # "none"
  PROVE  ShapeInv' /\ ValuesRead(place, ast)' /\ AnswerInv'
<1>1. ParserInv /\ ShapeInv /\ ValuesRead(place, ast)
  BY DEF ReadingInv
<1>2. Parsing(t) /\ parse_status = "none" /\ UNCHANGED <<place, ast>>
  BY DEF Step, ExpectToken, missing_token_status, AtEnd, parse_tokens, ParseStar, ParseColumn, ParseTable,
         ParseWhere, ParseCondition, ParseValue, ParseId, ParseName, Parsing, Advance, Answer
<1>3. ShapeInv' /\ ValuesRead(place, ast)'
  BY <1>1, <1>2, RefusalKeepsShape
<1>4. Fit(place, ast) /\ LastToken' = t
  BY <1>1, <1>2, Grown
<1>5. place' = place /\ Len(ast'.columns) = Len(ast.columns)
      /\ \A type : Expected(type)' <=> Expected(type)
  BY <1>2 DEF Expected
<1>6. CASE missing_token_status(t)
  <2>1. /\ place # "end" /\ ~Expected(t.type)
        /\ parse_status' = IF t.type = "EOF" THEN "PARSE_UNEXPECTED_EOF" ELSE "PARSE_ERROR"
    BY <1>6 DEF missing_token_status, Answer
  <2>2. ~Expected(LastToken.type)'
    BY <1>2, <1>4, <2>1 DEF Expected
  <2> QED BY <1>3, <1>4, <1>5, <2>1, <2>2 DEF AnswerInv, Answers
<1>7. CASE AtEnd(t)
  <2>1. /\ place = "end"
        /\ parse_status' = IF t.type = "EOF" THEN "PARSE_OK" ELSE "PARSE_TRAILING_TOKENS"
    BY <1>7 DEF AtEnd, Answer
  <2> QED BY <1>3, <1>4, <1>5, <2>1 DEF AnswerInv, Answers
<1>8. CASE ParseColumn(t)
  <2>1. /\ place \in {"projection", "column"} /\ t.type = "IDENTIFIER"
        /\ \/ ~HasColumnLeft /\ parse_status' = "PARSE_ERROR"
           \/ t.value \in Oversized /\ parse_status' = "PARSE_IDENTIFIER_TOO_LONG"
    BY <1>2, <1>8 DEF ParseColumn, Advance, Answer, util_copy_checked
  <2>2. <<place, t.type>> \in Measured
    BY <2>1 DEF Measured
  <2>3. ~HasColumnLeft => place = "column" /\ Len(ast.columns) = MaxColumns
    <3>1. Len(ast.columns) \in 0..MaxColumns /\ (place = "projection" => Len(ast.columns) = 0)
      <4>1. ast.type = "AST_SELECT"
        BY <1>1, <1>4, <2>1 DEF ParserInv, Fit, Asts, BeforeId, AfterId
      <4> QED BY <1>4, <4>1, PlaceNumbers
    <3> QED BY <2>1, <3>1, ColumnAssumption DEF HasColumnLeft
  <2> QED BY <1>3, <1>4, <1>5, <2>1, <2>2, <2>3 DEF AnswerInv, Answers
<1>9. CASE ParseTable(t) \/ ParseCondition(t) \/ ParseValue(t) \/ ParseId(t) \/ ParseName(t)
  <2>1. /\ <<place, t.type>> \in Measured
        /\ \/ /\ parse_status' \in {"PARSE_TABLE_NAME_TOO_LONG", "PARSE_IDENTIFIER_TOO_LONG",
                                    "PARSE_STRING_TOO_LONG"}
              /\ t.value \in Oversized
           \/ /\ parse_status' = "PARSE_INTEGER_OUT_OF_RANGE" /\ t.type = "NUMBER"
              /\ place = "id" => t.value \notin InRange
    <3>1. CASE ParseTable(t)
      BY <1>2, <3>1 DEF ParseTable, Advance, Answer, util_copy_checked, Measured
    <3>2. CASE ParseCondition(t)
      BY <1>2, <3>2 DEF ParseCondition, Advance, Answer, util_copy_checked, Measured
    <3>3. CASE ParseValue(t)
      BY <1>2, <3>3 DEF ParseValue, Advance, Answer, util_copy_checked, Measured
    <3>4. CASE ParseId(t)
      BY <1>2, <3>4 DEF ParseId, Advance, Answer, Measured
    <3>5. CASE ParseName(t)
      BY <1>2, <3>5 DEF ParseName, Advance, Answer, util_copy_checked, Measured
    <3> QED BY <1>9, <3>1, <3>2, <3>3, <3>4, <3>5
  <2>2. place # "end"
    BY <2>1 DEF Measured
  <2> QED BY <1>3, <1>4, <1>5, <2>1, <2>2 DEF AnswerInv, Answers
<1>10. ~ExpectToken(t) /\ ~parse_tokens(t) /\ ~ParseStar(t) /\ ~ParseWhere(t)
  BY <1>2 DEF ExpectToken, parse_tokens, ParseStar, ParseWhere, Advance
<1> QED BY <1>3, <1>6, <1>7, <1>8, <1>9, <1>10 DEF Step

(* What the parser knows of the tokens, for every sequence of them.        *)
THEOREM ReadingInvariance == ParserSpec => []ReadingInv
<1>1. ParserInit => ReadingInv
  <2> SUFFICES ASSUME ParserInit
               PROVE  ReadingInv
    OBVIOUS
  <2>1. tokens = <<>> /\ place = "statement" /\ ast = Blank /\ parse_status = "none"
    BY DEF ParserInit
  <2>2. ParserInv
    BY InitParserInv
  <2>3. /\ ast.type = "AST_UNKNOWN" /\ ~ast.select_all /\ ast.columns = <<>> /\ Position(place, ast) = 0
        /\ Len(ast.columns) = 0 /\ Len(tokens) = 0
    BY <2>1 DEF Blank, Position
  <2>4. ShapeInv
    <3>1. Fitting(place, ast)
      BY <2>1, <2>3 DEF Fitting
    <3>2. \A k \in 1..0 : FALSE
      OBVIOUS
    <3> QED BY <2>1, <2>3, <3>1, <3>2 DEF ShapeInv
  <2>5. ValuesRead(place, ast)
    BY <2>1, <2>3 DEF ValuesRead, BehindFrom
  <2>6. AnswerInv
    BY <2>1 DEF AnswerInv, Answers
  <2> QED BY <2>2, <2>4, <2>5, <2>6 DEF ReadingInv
<1>2. ParserInv /\ ParserInv' /\ ReadingInv /\ [ParserNext]_parserVars => ReadingInv'
  <2>1. ASSUME ReadingInv, UNCHANGED <<tokens, place, ast, parse_status>>
        PROVE  ShapeInv' /\ ValuesRead(place, ast)' /\ AnswerInv'
    <3>1. ShapeInv'
      BY <2>1 DEF ReadingInv, ShapeInv
    <3>2. ValuesRead(place, ast)'
      BY <2>1 DEF ReadingInv, ValuesRead
    <3>3. AnswerInv'
      BY <2>1 DEF ReadingInv, AnswerInv, Answers, LastToken, Expected
    <3> QED BY <3>1, <3>2, <3>3
  <2>2. ASSUME ReadingInv, NEW t \in Tokens, Step(t)
        PROVE  ShapeInv' /\ ValuesRead(place, ast)' /\ AnswerInv'
    <3>1. CASE parse_status' = "none"
      BY <2>2, <3>1, AcceptedIsRead DEF AnswerInv, Answers
    <3>2. CASE parse_status' # "none"
      BY <2>2, <3>2, RefusedIsAnswered
    <3> QED BY <3>1, <3>2
  <2> QED BY <2>1, <2>2 DEF ParserNext, semantic_validate, parserVars, ReadingInv
<1>3. ParserSpec => []ParserInv
  BY ParserInvariance
<1> QED BY <1>1, <1>2, <1>3, PTL DEF ParserSpec

(* PARSE_OK is for the sentences of the grammar and for nothing else, and  *)
(* every other status is true of the tokens.                               *)
THEOREM StatusTells == ParserSpec => []StatusIsTrue
  BY ReadingInvariance, AnswersAreTrue, PTL

(* An accepted statement is in the AST as it was written. *)
LEMMA AstIsRead == ReadingInv => AstIsMeaning
<1> SUFFICES ASSUME ReadingInv, parse_status = "PARSE_OK"
             PROVE  AstIsMeaning
  BY DEF AstIsMeaning
<1> DEFINE n == Position(place, ast)
           c == ColumnsAt(place, ast)
           from == FromAt(c)
           m == Len(ast.columns)
           w == ast.has_where
<1>1. Fit(place, ast) /\ place = "end" /\ LastToken.type = "EOF"
  BY TypesRead DEF ReadingInv, ParserInv, AnswerInv
<1>2. /\ tokens \in Seq(Tokens) /\ n \in Nat /\ Len(tokens) = n + 1 /\ tokens[n + 1].type = "EOF"
      /\ \A k \in 1..n : tokens[k].type = TypeAt(place, ast, k)
  <2>1. tokens \in Seq(Tokens) /\ Len(tokens) = n + 1
    BY DEF ReadingInv, ParserInv, ShapeInv
  <2>2. tokens[n + 1].type = "EOF"
    BY <1>1, <2>1 DEF LastToken
  <2> QED BY <1>1, <2>1, <2>2, PlaceNumbers DEF ReadingInv, ShapeInv
<1>3. ast \in Asts /\ ast.type \in {"AST_SELECT", "AST_INSERT"}
  BY <1>1, PlaceNumbers DEF ReadingInv, ParserInv, Asts
<1>4. CASE ast.type = "AST_INSERT"
  <2>1. n = 10
    BY <1>1, <1>4 DEF Position
  <2>2. /\ ast.table_name = tokens[3].value /\ ast.id = tokens[6].value /\ ast.name = tokens[8].value
    BY <1>1, <1>4 DEF ReadingInv, ValuesRead, AfterId
  <2>3. \A k \in 1..10 : tokens[k].type = InsertSentence[k]
    BY <1>2, <1>4, <2>1 DEF TypeAt
  <2>4. /\ tokens[1].type = "INSERT" /\ tokens[2].type = "INTO" /\ tokens[3].type = "IDENTIFIER"
        /\ tokens[4].type = "VALUES" /\ tokens[5].type = "LPAREN" /\ tokens[6].type = "NUMBER"
        /\ tokens[7].type = "COMMA" /\ tokens[8].type = "STRING" /\ tokens[9].type = "RPAREN"
        /\ tokens[10].type = "SEMICOLON" /\ tokens[11].type = "EOF"
    BY <1>2, <2>1, <2>3 DEF InsertSentence
  <2>5. ASSUME NEW type, NEW k \in 1..11, \A j \in 1..11 : tokens[j].type = type <=> j = k
        PROVE  ValueAfter(type, 1) = tokens[k].value
    <3>1. {j \in 1..Len(tokens) : tokens[j].type = type} = {k}
      BY <1>2, <2>1, <2>5
    <3>2. (CHOOSE j \in {k} : \A i \in {k} : j <= i) = k
      BY <2>5
    <3> QED BY <3>1, <3>2 DEF ValueAfter
  <2>6. \A j \in 1..11 : (tokens[j].type = "IDENTIFIER" <=> j = 3) /\ (tokens[j].type = "NUMBER" <=> j = 6)
                           /\ (tokens[j].type = "STRING" <=> j = 8)
    BY <2>4
  <2> QED BY <1>4, <2>2, <2>5, <2>6 DEF AstIsMeaning
<1>5. CASE ast.type = "AST_SELECT"
  <2>1. /\ c \in Nat /\ m \in Nat /\ from \in Nat /\ from >= 3 /\ w \in BOOLEAN
        /\ n = from + (IF w THEN 6 ELSE 2)
        /\ c = IF ast.select_all THEN 0 ELSE m
        /\ ast.select_all <=> m = 0
        /\ ast.columns \in Seq(Short) /\ ast.select_all \in BOOLEAN
    <3>1. ast.columns \in Seq(Short) /\ ast.select_all \in BOOLEAN /\ w \in BOOLEAN
      BY <1>3 DEF Asts
    <3> QED BY <1>1, <1>5, <3>1, PlaceNumbers DEF Position, ColumnsAt, SelectLength
  <2>2. /\ \A i \in 1..m : ast.columns[i] = tokens[2 * i].value
        /\ ast.table_name = tokens[from + 1].value
        /\ w => /\ ast.where_column = tokens[from + 3].value
                /\ ast.where_type = tokens[from + 5].type
                /\ ast.where_value = tokens[from + 5].value
    BY <1>1, <1>5 DEF ReadingInv, ValuesRead, BehindFrom
  <2>3. TypesOf(c, w, ast.where_type)
    BY <2>1, SelectTypes
  <2>4. \A k \in 1..n : tokens[k].type = SelectType(c, w, ast.where_type, k)
    BY <1>2, <1>5 DEF TypeAt
  <2>5. ast.where_type \in {"NUMBER", "STRING"}
    BY <1>3 DEF Asts
  <2>6. c > 0 => from = 2 * c + 1
    BY <2>3 DEF TypesOf
  <2> HIDE DEF n, c, from, m, w
  <2>7. \A k \in 1..(n + 1) : tokens[k].type = "FROM" <=> k = from
    <3>1. ASSUME NEW k \in 1..n
          PROVE  SelectType(c, w, ast.where_type, k) = "FROM" <=> k = from
      BY <2>1, <2>5 DEF SelectType, from
    <3>2. n + 1 # from /\ \A k \in 1..(n + 1) : k \in 1..n \/ k = n + 1
      BY <1>2, <2>1
    <3> QED BY <1>2, <2>4, <3>1, <3>2
  <2>8. PositionOf("FROM") = from
    <3>1. DOMAIN tokens = 1..(n + 1)
      BY <1>2, LenProperties
    <3>2. from \in 1..(n + 1)
      BY <2>1
    <3> QED BY <2>7, <3>1, <3>2 DEF PositionOf
  <2>9. ast.select_all <=> tokens[2].type = "STAR"
    <3>1. 2 \in 1..n
      BY <2>1
    <3>2. CASE ast.select_all
      <4>1. SelectType(c, w, ast.where_type, 2) = "STAR"
        BY <2>1, <2>3, <3>2 DEF TypesOf
      <4> QED BY <2>4, <3>1, <3>2, <4>1
    <3>3. CASE ~ast.select_all
      <4>1. c > 0 /\ 1 \in 1..c
        BY <2>1, <3>3
      <4>2. SelectType(c, w, ast.where_type, 2 * 1) = "IDENTIFIER"
        BY <2>3, <4>1 DEF TypesOf
      <4>3. tokens[2].type = "IDENTIFIER"
        BY <2>4, <3>1, <4>2
      <4> QED BY <3>3, <4>3
    <3> QED BY <3>2, <3>3
  <2>10. ast.columns = [i \in 1..(IF ast.select_all THEN 0 ELSE (from - 1) \div 2) |-> tokens[2 * i].value]
    <3>1. m = IF ast.select_all THEN 0 ELSE (from - 1) \div 2
      BY <2>1, <2>6
    <3>2. ast.columns = [i \in 1..m |-> ast.columns[i]]
      BY <2>1 DEF m
    <3> QED BY <2>2, <3>1, <3>2
  <2>11. /\ tokens[from + 2].type = (IF w THEN "WHERE" ELSE "SEMICOLON")
    <3>1. from + 2 \in 1..n
      BY <2>1
    <3>2. SelectType(c, w, ast.where_type, from + 2) = IF w THEN "WHERE" ELSE "SEMICOLON"
      BY <2>3 DEF TypesOf, from
    <3> QED BY <2>4, <3>1, <3>2
  <2>12. w => [type |-> ast.where_type, value |-> ast.where_value] = tokens[from + 5]
    <3>1. ASSUME w
          PROVE  tokens[from + 5] \in Tokens
      <4>1. from + 5 \in 1..Len(tokens)
        BY <1>2, <2>1, <3>1
      <4> QED BY <1>2, <4>1, ElementOfSeq
    <3>2. \A t \in Tokens : t = [type |-> t.type, value |-> t.value]
      BY DEF Tokens
    <3> QED BY <2>2, <3>1, <3>2
  <2> QED BY <1>5, <2>1, <2>2, <2>8, <2>9, <2>10, <2>11, <2>12 DEF AstIsMeaning, w
<1> QED BY <1>3, <1>4, <1>5

(* No value of an accepted statement is lost, cut or put in another's      *)
(* place.                                                                  *)
THEOREM AstSays == ParserSpec => []AstIsMeaning
  BY ReadingInvariance, AstIsRead, PTL
-----------------------------------------------------------------------------
(* A statement of the grammar that nothing is wrong with *)

(* What semantic_validate returns, from the AST of an accepted statement,  *)
(* which is not changed any more                                           *)
VerdictInv ==
  verdict # "none" =>
    /\ parse_status = "PARSE_OK"
    /\ verdict = CASE ast.type = "AST_INSERT" -> "SEMANTIC_OK"
                   [] ast.type # "AST_INSERT" /\ ~ColumnsKnown -> "SEMANTIC_UNKNOWN_COLUMN"
                   [] OTHER -> WhereStatus

(* The verdict is that of the AST. *)
THEOREM VerdictInvariance == ParserSpec => []VerdictInv
<1>1. ParserInit => VerdictInv
  BY DEF ParserInit, VerdictInv
<1>2. VerdictInv /\ [ParserNext]_parserVars => VerdictInv'
  <2> SUFFICES ASSUME VerdictInv, [ParserNext]_parserVars
               PROVE  VerdictInv'
    OBVIOUS
  <2>1. CASE UNCHANGED parserVars
    BY <2>1 DEF parserVars, VerdictInv, ColumnsKnown, WhereStatus, WhereKnown, WhereTyped
  <2>2. CASE semantic_validate
    BY <2>2 DEF semantic_validate, VerdictInv, ColumnsKnown, WhereStatus, WhereKnown, WhereTyped
  <2>3. ASSUME NEW t \in Tokens, Step(t)
        PROVE  VerdictInv'
    <3>1. Parsing(t)
      BY <2>3 DEF Step, ExpectToken, missing_token_status, AtEnd, parse_tokens, ParseStar, ParseColumn,
                  ParseTable, ParseWhere, ParseCondition, ParseValue, ParseId, ParseName
    <3>2. verdict' = "none"
      BY <3>1 DEF Parsing, VerdictInv
    <3> QED BY <3>2 DEF VerdictInv
  <2> QED BY <2>1, <2>2, <2>3 DEF ParserNext
<1> QED BY <1>1, <1>2, PTL DEF ParserSpec

(* SELECT * FROM and a name *)
SelectAll == <<"SELECT", "STAR", "FROM", "IDENTIFIER", "SEMICOLON", "EOF">>

(* A SELECT of everything in a table whose name fits is accepted, and the  *)
(* AST has the name.                                                       *)
LEMMA SelectAllAccepted ==
  ASSUME ReadingInv, parse_status # "none", Len(tokens) <= 6,
         \A k \in 1..Len(tokens) : tokens[k].type = SelectAll[k],
         Len(tokens) >= 4 => tokens[4].value \notin Oversized
  PROVE  /\ parse_status = "PARSE_OK" /\ ast.type = "AST_SELECT" /\ ast.columns = <<>>
         /\ ~ast.has_where /\ Len(tokens) = 6 /\ ast.table_name = tokens[4].value
<1> DEFINE n == Position(place, ast)
           c == ColumnsAt(place, ast)
           from == FromAt(c)
           w == ast.has_where
           m == Len(ast.columns)
<1>1. Fit(place, ast)
  BY TypesRead
<1>2. /\ n \in Nat /\ Len(tokens) = n + 1
      /\ \A k \in 1..n : tokens[k].type = TypeAt(place, ast, k)
      /\ LastToken = tokens[n + 1]
  <2>1. Len(tokens) = n + 1 /\ \A k \in 1..n : tokens[k].type = TypeAt(place, ast, k)
    BY DEF ReadingInv, ShapeInv
  <2> QED BY <1>1, <2>1, PlaceNumbers DEF LastToken
<1>3. ast \in Asts /\ AnswerInv
  BY DEF ReadingInv, ParserInv
<1>4. n <= 5 /\ \A k \in 1..(n + 1) : tokens[k].type = SelectAll[k]
  BY <1>2
<1>5. /\ SelectAll[1] = "SELECT" /\ SelectAll[2] = "STAR" /\ SelectAll[3] = "FROM"
      /\ SelectAll[4] = "IDENTIFIER" /\ SelectAll[5] = "SEMICOLON" /\ SelectAll[6] = "EOF"
  BY DEF SelectAll
<1>6. CASE ast.type = "AST_INSERT"
  <2>1. n >= 1 /\ n <= 10
    BY <1>1, <1>6, PlaceNumbers DEF Position
  <2>2. tokens[1].type = InsertSentence[1]
    BY <1>2, <1>6, <2>1 DEF TypeAt
  <2>3. tokens[1].type = "SELECT"
    BY <1>2, <1>4, <1>5
  <2> QED BY <2>2, <2>3 DEF InsertSentence
<1>7. CASE ast.type = "AST_UNKNOWN"
  <2>1. place = "statement" /\ n = 0
    BY <1>1, <1>7, PlaceNumbers
  <2>2. LastToken.type = "SELECT"
    BY <1>2, <1>4, <1>5, <2>1
  <2>3. Expected("SELECT") /\ <<place, "SELECT">> \notin Measured
    BY <2>1 DEF Expected, Carrying, Measured
  <2> QED BY <1>3, <2>1, <2>2, <2>3 DEF AnswerInv, Answers
<1>8. CASE ast.type = "AST_SELECT"
  <2>1. /\ place \in {"projection", "from", "more", "column", "table"} \union BehindFrom
        /\ m \in Nat /\ c \in Nat /\ from \in Nat /\ from >= 3 /\ w \in BOOLEAN
    BY <1>1, <1>3, <1>8, PlaceNumbers DEF Asts, Fit, Fitting
  <2>2. \A k \in 1..n : tokens[k].type = SelectType(c, w, ast.where_type, k)
    BY <1>2, <1>8 DEF TypeAt
  <2>3. TypesOf(c, w, ast.where_type)
    BY <2>1, SelectTypes
  <2>4. CASE place = "projection"
    <3>1. n = 1
      BY <1>8, <2>4 DEF Position
    <3>2. LastToken.type = "STAR"
      BY <1>2, <1>4, <1>5, <3>1
    <3>3. Expected("STAR") /\ <<place, "STAR">> \notin Measured
      BY <2>4 DEF Expected, Carrying, Measured
    <3> QED BY <1>3, <2>4, <3>2, <3>3 DEF AnswerInv, Answers
  <2>5. CASE place = "from"
    <3>1. n = 2
      BY <1>8, <2>5 DEF Position
    <3>2. LastToken.type = "FROM"
      BY <1>2, <1>4, <1>5, <3>1
    <3>3. Expected("FROM") /\ <<place, "FROM">> \notin Measured
      <4>1. <<"from", "FROM", "table">> \in Fixed
        BY DEF Fixed
      <4>2. <<"from", "FROM", "table">>[1] = place /\ <<"from", "FROM", "table">>[2] = "FROM"
        BY <2>5
      <4>3. Expected("FROM")
        BY <4>1, <4>2 DEF Expected
      <4> QED BY <2>5, <4>3 DEF Measured
    <3> QED BY <1>3, <2>5, <3>2, <3>3 DEF AnswerInv, Answers
  <2>6. ASSUME c > 0, n >= 2
        PROVE  FALSE
    <3>1. SelectType(c, w, ast.where_type, 2 * 1) = "IDENTIFIER"
      BY <2>1, <2>3, <2>6 DEF TypesOf
    <3>2. tokens[2].type = "IDENTIFIER" /\ tokens[2].type = "STAR"
      <4>1. 2 \in 1..n /\ 2 \in 1..(n + 1) /\ 2 * 1 = 2
        BY <1>2, <2>6
      <4> QED BY <1>4, <1>5, <2>2, <3>1, <4>1
    <3> QED BY <3>2
  <2>7. CASE place \in {"more", "column"}
    <3>1. ~ast.select_all /\ m > 0
      BY <1>1, <1>8, <2>7, PlaceNumbers DEF Fit, Fitting
    <3>2. c > 0 /\ n >= 2
      BY <1>8, <2>1, <2>7, <3>1 DEF Position, ColumnsAt
    <3> QED BY <2>6, <3>2
  <2>8. CASE place \in {"table"} \union BehindFrom
    <3>1. n >= from
      BY <1>1, <1>8, <2>8, PlaceNumbers DEF Fit, Fitting
    <3>2. c = 0 /\ from = 3
      BY <1>2, <2>1, <2>6, <3>1 DEF FromAt
    <3>3. CASE place = "table"
      <4>1. n = 3
        BY <1>8, <3>2, <3>3 DEF Position
      <4>2. LastToken.type = "IDENTIFIER" /\ LastToken.value \notin Oversized
        BY <1>2, <1>4, <1>5, <4>1
      <4>3. Expected("IDENTIFIER")
        BY <3>3 DEF Expected, Carrying
      <4> QED BY <1>3, <3>3, <4>2, <4>3 DEF AnswerInv, Answers
    <3>4. CASE place = "where"
      <4>1. n = 4
        BY <1>8, <3>2, <3>4 DEF Position
      <4>2. LastToken.type = "SEMICOLON"
        BY <1>2, <1>4, <1>5, <4>1
      <4>3. Expected("SEMICOLON") /\ <<place, "SEMICOLON">> \notin Measured
        <5>1. <<"where", "SEMICOLON", "end">> \in Fixed
          BY DEF Fixed
        <5>2. <<"where", "SEMICOLON", "end">>[1] = place /\ <<"where", "SEMICOLON", "end">>[2] = "SEMICOLON"
          BY <3>4
        <5>3. Expected("SEMICOLON")
          BY <5>1, <5>2 DEF Expected
        <5> QED BY <3>4, <5>3 DEF Measured
      <4> QED BY <1>3, <3>4, <4>2, <4>3 DEF AnswerInv, Answers
    <3>5. ASSUME w, n >= 5
          PROVE  FALSE
      <4>1. SelectType(c, w, ast.where_type, from + 2) = "WHERE"
        BY <2>3, <3>5 DEF TypesOf
      <4>2. 5 \in 1..n /\ 5 \in 1..(n + 1) /\ from + 2 = 5
        BY <1>2, <3>2, <3>5
      <4>3. tokens[5].type = "WHERE" /\ tokens[5].type = "SEMICOLON"
        BY <1>4, <1>5, <2>2, <4>1, <4>2
      <4> QED BY <4>3
    <3>6. CASE place \in {"condition", "equal", "value", "semicolon"}
      <4>1. w /\ n >= 5
        BY <1>1, <1>8, <3>2, <3>6 DEF Fit, Fitting, Position
      <4> QED BY <3>5, <4>1
    <3>7. CASE place = "end"
      <4>1. n = from + (IF w THEN 6 ELSE 2)
        BY <1>8, <3>7 DEF Position, SelectLength
      <4>2. ~w /\ n = 5
        BY <2>1, <3>2, <3>5, <4>1
      <4>3. LastToken.type = "EOF"
        BY <1>2, <1>4, <1>5, <4>2
      <4>4. parse_status = "PARSE_OK"
        BY <1>3, <3>7, <4>3 DEF AnswerInv
      <4>5. ast.columns = <<>>
        <5>1. ast.select_all \/ m = 0
          BY <3>2, <3>7 DEF ColumnsAt
        <5> QED BY <1>1, <1>3, <1>8, <3>7, <5>1, EmptySeq DEF Fit, Fitting, Asts
      <4>6. ast.table_name = tokens[4].value
        <5>1. ast.table_name = tokens[from + 1].value
          BY <1>8, <3>7 DEF ReadingInv, ValuesRead, BehindFrom
        <5>2. from + 1 = 4
          BY <3>2
        <5> QED BY <5>1, <5>2
      <4> QED BY <1>2, <1>8, <4>2, <4>4, <4>5, <4>6
    <3> QED BY <2>8, <3>3, <3>4, <3>6, <3>7 DEF BehindFrom
  <2> QED BY <2>1, <2>4, <2>5, <2>7, <2>8
<1> QED BY <1>3, <1>6, <1>7, <1>8 DEF Asts

(* An accepted statement's table is the value of one of its identifiers. *)
LEMMA TableIsIdentifier ==
  ASSUME ReadingInv, parse_status = "PARSE_OK"
  PROVE  \E k \in 1..Len(tokens) : tokens[k].type = "IDENTIFIER" /\ tokens[k].value = ast.table_name
<1> DEFINE n == Position(place, ast)
           c == ColumnsAt(place, ast)
           from == FromAt(c)
<1>1. Fit(place, ast) /\ place = "end"
  BY TypesRead DEF ReadingInv, ParserInv
<1>2. /\ n \in Nat /\ Len(tokens) = n + 1
      /\ \A k \in 1..n : tokens[k].type = TypeAt(place, ast, k)
  BY <1>1, PlaceNumbers DEF ReadingInv, ShapeInv
<1>3. ast.type \in {"AST_SELECT", "AST_INSERT"} /\ ast.has_where \in BOOLEAN
  BY <1>1, PlaceNumbers DEF ReadingInv, ParserInv, Asts
<1>4. CASE ast.type = "AST_INSERT"
  <2>1. n = 10 /\ 3 \in 1..Len(tokens) /\ 3 \in 1..n
    BY <1>1, <1>2, <1>4 DEF Position
  <2>2. tokens[3].type = InsertSentence[3]
    BY <1>2, <1>4, <2>1 DEF TypeAt
  <2>3. tokens[3].value = ast.table_name
    BY <1>1, <1>4 DEF ReadingInv, ValuesRead
  <2>4. InsertSentence[3] = "IDENTIFIER"
    BY DEF InsertSentence
  <2> QED BY <2>1, <2>2, <2>3, <2>4
<1>5. CASE ast.type = "AST_SELECT"
  <2>1. c \in Nat /\ from \in Nat /\ from >= 3 /\ n = from + (IF ast.has_where THEN 6 ELSE 2)
    BY <1>1, <1>5, PlaceNumbers DEF Position, SelectLength
  <2>2. from + 1 \in 1..n /\ from + 1 \in 1..Len(tokens)
    BY <1>2, <1>3, <2>1
  <2>3. tokens[from + 1].type = SelectType(c, ast.has_where, ast.where_type, from + 1)
    BY <1>2, <1>5, <2>2 DEF TypeAt
  <2>4. SelectType(c, ast.has_where, ast.where_type, from + 1) = "IDENTIFIER"
    BY <1>3, <2>1, SelectTypes DEF TypesOf
  <2>5. tokens[from + 1].value = ast.table_name
    BY <1>1, <1>5 DEF ReadingInv, ValuesRead, BehindFrom
  <2> QED BY <2>2, <2>3, <2>4, <2>5
<1> QED BY <1>3, <1>4, <1>5
=============================================================================
