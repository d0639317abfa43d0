---------------------------- MODULE MCCommandLine ----------------------------
(* The words of SQL and of the meta commands are a letter each: s(ELECT),  *)
(* i(NSERT), f(ROM), w(HERE), o (INTO), v(ALUES), the columns d and n;     *)
(* c(reate_table), r(ebuild_index) and q(uit).                             *)
EXTENDS CommandLine, TLC

S == INSTANCE SequencesExt

CONSTANTS MaxText, MaxRest, MaxBehindCommas

Texts(characters, n) == UNION {[1..k -> characters] : k \in 0..n}

WordTexts == Texts({" ", ";", "1", "s", "S", "c", "q", "n"}, MaxText)
NameTexts == Texts({" ", ";", "1", "=", "f", "n"}, MaxRest)
TokenCharacters == {" ", ",", "1", "-", "quote", "S", "n"}
CommasBefore == [k \in 1..(Capacity - 2) |-> IF k = 1 THEN "s" ELSE ","]

(* Statements by their lexemes: usual ones, and with any value in place    *)
Columns == {<<"d">>, <<"n">>, <<"c">>, <<"n", "n", "n">>}
Values == {<<"1">>, <<"2">>, <<"0", "0", "1">>, <<"quote", "n", "quote">>,
           <<"quote", "n", "n", "n", "quote">>}
Where(column, value) == <<<<"w">>, column, <<"=">>, value>>
Select(list, table, condition) ==
  <<<<"s">>>> \o list \o <<<<"f">>, table>> \o condition \o <<<<";">>>>
Insert(table, id, name) ==
  <<<<"i">>, <<"o">>, table, <<"v">>, <<"(">>, id, <<",">>, name, <<")">>, <<";">>>>
Lists == {<<<<"*">>>>, <<<<"d">>, <<",">>, <<"n">>>>, <<<<"d">>, <<",">>, <<"n">>, <<",">>, <<"d">>>>}

Usual ==
  {Select(list, <<"c">>, c) : list \in Lists, c \in {<<>>, Where(<<"d">>, <<"1">>)}}
    \union {Insert(<<"c">>, <<"1">>, <<"quote", "n", "quote">>)}
Varied ==
  {Select(list, table, <<>>) : list \in Lists \union {<<c>> : c \in Columns}, table \in Columns}
    \union {Select(list, <<"c">>, Where(c, v)) : list \in Lists, c \in Columns, v \in Values}
    \union {Insert(table, id, name) : table \in Columns, id \in Values, name \in Values}

Lexemes == {<<c>> : c \in {"i", "s", "f", "w", "o", "v"} \union Puncts} \union Columns \union Values

(* A statement cut off anywhere, and any lexeme behind it *)
Cut == UNION {S!Prefixes(u) : u \in Usual}
Broken == Cut \union {Append(u, l) : u \in Cut, l \in Lexemes}

Line(lexemes) == S!FlattenSeq([k \in DOMAIN lexemes |-> Append(lexemes[k], " ")])

MCInputs ==
  WordTexts
    \union {<<c, " ">> \o t : c \in {"c", "r"}, t \in NameTexts}
    \union {<<"s", " ">> \o t : t \in Texts(TokenCharacters, MaxRest)}
    \union {CommasBefore \o t : t \in Texts(TokenCharacters, MaxBehindCommas)}
    \union {Line(l) : l \in Broken \union Varied}

MCLower == [c \in Letters |-> IF c = "S" THEN "s" ELSE c]
MCKeywords == (<<"s">> :> "SELECT") @@ (<<"i">> :> "INSERT") @@ (<<"f">> :> "FROM")
                @@ (<<"w">> :> "WHERE") @@ (<<"o">> :> "INTO") @@ (<<"v">> :> "VALUES")
MCPunctTypes == ("," :> "COMMA") @@ (";" :> "SEMICOLON") @@ ("*" :> "STAR") @@ ("=" :> "EQUAL")
                  @@ ("(" :> "LPAREN") @@ (")" :> "RPAREN")
MCStatements == {<<"s">>, <<"i">>}
MCCommands == (<<"c">> :> "create_table") @@ (<<"r">> :> "rebuild_index") @@ (<<"q">> :> "exit")
MCSelectAllFrom == <<"s", " ", "*", " ", "f", " ">>

(* Values of up to two characters fit, and an int32 is -1, 0 or 1. *)
MCIdentifiers == Seq(Letters \union Digits)
MCNumbers == Seq(Digits \union {"-"})
MCStrings == Seq(Characters)
MCOversized == {v \in Seq(Characters) : Len(v) > TableNameMax}
MCInRange == {n \in MCNumbers : /\ n # <<>> /\ n[Len(n)] \in {"0", "1"}
                                /\ \A k \in 1..(Len(n) - 1) : n[k] \in {"-", "0"}}
MCIdColumn == <<"d">>
MCNameColumn == <<"n">>
MCNoValue == <<>>
=============================================================================
