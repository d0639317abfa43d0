----------------------------- MODULE CommandLine -----------------------------
(***************************************************************************)
(* src/cli.c: what a line leads to.  cli_handle_line takes it for SQL, and *)
(* hands it to the tokenizer (Tokenizer) and its tokens to the parser and  *)
(* the validation (Parser), or for a meta command of one word and one      *)
(* argument, read by sscanf.  Creating, rebuilding and executing are in    *)
(* TableCreate and Executor.                                               *)
(*                                                                         *)
(* After a table has been created a client selects from it by its name.    *)
(***************************************************************************)
EXTENDS Tokenizer, Parser, FiniteSetsExt

CONSTANTS
  WordMax,       \* what sscanf reads of a word: %63s
  TableNameMax,  \* SQL_MAX_TABLE_NAME_LENGTH
  Statements,    \* the keywords a statement begins with, in lower case
  Commands,      \* the meta commands: the function of each word
  PunctTypes,    \* the token type of each of Puncts
  SelectAllFrom  \* the text of a SELECT up to its table

ASSUME WordAssumption == TableNameMax \in Nat \ {0} /\ WordMax \in Nat /\ TableNameMax + 1 < WordMax
ASSUME StatementAssumption == Statements \subseteq DOMAIN Keywords
ASSUME CommandAssumption == \A k \in DOMAIN Commands : k \in Seq(Characters) /\ Len(k) + 1 < WordMax
ASSUME TypeAssumption ==
  /\ PunctTypes \in [Puncts -> Plain] /\ "EOF" \notin Puncts
  /\ \A k \in DOMAIN Keywords : Keywords[k] \in Plain
ASSUME TokenAssumption ==
  \A n \in 0..TokenValueMax :
    /\ [1..n -> WordCharacters] \subseteq Identifiers
    /\ [1..n -> Digits \union {Minus}] \subseteq Numbers
    /\ [1..n -> Characters] \subseteq Strings
(* SelectAllFrom is SELECT * FROM, with a space behind each of the three. *)
ASSUME SelectAssumption ==
  /\ SelectAllFrom \in Seq(Characters) /\ WordCharacters \subseteq Characters
  /\ ";" \in Puncts \intersect Characters /\ PunctTypes[";"] = "SEMICOLON"
  /\ \E m, n \in 1..TokenValueMax :
       LET text == SelectAllFrom
       IN  /\ Len(text) = m + n + 4
           /\ keyword_lookup(SubSeq(text, 1, m)) = "SELECT"
           /\ text[m + 2] \in Puncts /\ PunctTypes[text[m + 2]] = "STAR"
           /\ keyword_lookup(SubSeq(text, m + 4, m + n + 3)) = "FROM"
           /\ {text[m + 1], text[m + 3], text[m + n + 4]} \subseteq Spaces
(* It fits, with a name of any length that a table may have. *)
ASSUME NameFitsAssumption ==
  /\ TableNameMax <= TokenValueMax /\ Capacity >= 6
  /\ \A n \in 1..TableNameMax : [1..n -> WordCharacters] \intersect Oversized = {}

VARIABLES
  route,     \* what the line led to
  argument   \* the second word of a meta command

cliVars == <<vars, parserVars, route, argument>>

CliInit == Init /\ ParserInit /\ route = "none" /\ argument = <<>>

End == Len(input) + 1

(* isspace, to the end of the line *)
SkipSpaces(i) == Min({j \in i..Len(input) : input[j] \notin Spaces} \union {End})

(* The position behind what %63s reads of the word that begins at i *)
ReadOf(i) == Min({j \in i..Len(input) : input[j] \in Spaces} \union {i + WordMax, End})

Word(i) == SubSeq(input, i, ReadOf(i) - 1)

Semicolon == ";"

remove_trailing_semicolon(word) ==
  IF word # <<>> /\ word[Len(word)] = Semicolon THEN SubSeq(word, 1, Len(word) - 1) ELSE word

First == SkipSpaces(1)
Command == remove_trailing_semicolon(Word(First))

(* Mutant: the semicolon stays on the name. *)
ArgumentAsRead == Word(SkipSpaces(ReadOf(First)))

Argument == remove_trailing_semicolon(Word(SkipSpaces(ReadOf(First))))

util_is_word_boundary(c) == c \notin WordCharacters

(* Mutant: SELECTOR begins with SELECT. *)
IsSqlByPrefix ==
  \E k \in Statements : Folded(SubSeq(input, First, Min({First + Len(k), End}) - 1)) = k

is_sql_statement ==
  \E k \in Statements : /\ Folded(SubSeq(input, First, Min({First + Len(k), End}) - 1)) = k
                        /\ util_is_word_boundary(At(First + Len(k)))

(* Mutant: a name is anything that is not too long. *)
IsValidByLength(name) == name # <<>> /\ Len(name) <= TableNameMax

storage_valid_table_name(name) ==
  /\ name # <<>> /\ Len(name) <= TableNameMax
  /\ \A i \in DOMAIN name : name[i] \in WordCharacters

-----------------------------------------------------------------------------
Leads(to, name) ==
  /\ route = "none"
  /\ route' = to
  /\ argument' = name
  /\ UNCHANGED parserVars

Stays == UNCHANGED vars

IgnoreBlankLine == First = End /\ Leads("blank", <<>>) /\ Stays

handle_sql_input ==
  /\ First # End /\ is_sql_statement
  /\ Leads("sql", <<>>)
  /\ p' = First
  /\ UNCHANGED <<input, token, storage, status>>

HandleExit ==
  /\ First # End /\ ~is_sql_statement
  /\ Command \in DOMAIN Commands /\ Commands[Command] = "exit"
  /\ Leads("exit", <<>>) /\ Stays

Meta(command) ==
  /\ First # End /\ ~is_sql_statement
  /\ Command \in DOMAIN Commands /\ Commands[Command] = command

Usage ==
  /\ \E c \in {"create_table", "rebuild_index"} : Meta(c)
  /\ Argument = <<>>
  /\ Leads("usage", <<>>) /\ Stays

handle_create_table ==
  /\ Meta("create_table") /\ Argument # <<>>
  /\ Leads(CASE Len(Argument) > TableNameMax -> "NAME_TOO_LONG"
             [] Len(Argument) <= TableNameMax /\ ~storage_valid_table_name(Argument) -> "INVALID_NAME"
             [] OTHER -> "create", Argument)
  /\ Stays

handle_rebuild_index ==
  /\ Meta("rebuild_index") /\ Argument # <<>>
  /\ Leads(IF storage_valid_table_name(Argument) THEN "rebuild" ELSE "ALLOC_ERROR", Argument)
  /\ Stays

(* help prints text, an unknown command is answered with an error. *)
HandleOther ==
  /\ First # End /\ ~is_sql_statement
  /\ Command \notin DOMAIN Commands
  /\ Leads("other", <<>>) /\ Stays

SelectFromCreated ==
  /\ route = "create"
  /\ route' = "select"
  /\ input' = SelectAllFrom \o argument \o <<Semicolon>>
  /\ UNCHANGED <<p, token, storage, status, parserVars, argument>>

Tokenize == route \in {"sql", "select"} /\ Next /\ UNCHANGED <<parserVars, route, argument>>

(* A token as the parser sees it: with the value of an identifier or a     *)
(* literal, and otherwise its type alone.                                  *)
Seen(t) ==
  LET type == IF t.type \in Puncts THEN PunctTypes[t.type] ELSE t.type
  IN  [type |-> type, value |-> IF type \in Plain THEN NoValue ELSE t.value]

Parse ==
  /\ route \in {"sql", "select"} /\ status = "TOKENIZE_OK"
  /\ semantic_validate \/ Step(Seen(storage[Len(tokens) + 1]))
  /\ UNCHANGED <<vars, route, argument>>

CliNext ==
  \/ IgnoreBlankLine \/ handle_sql_input \/ HandleExit \/ Usage
  \/ handle_create_table \/ handle_rebuild_index \/ HandleOther
  \/ SelectFromCreated \/ Tokenize \/ Parse

CliSpec == CliInit /\ [][CliNext]_cliVars

-----------------------------------------------------------------------------
(* The words of the line, by where they begin, however long *)
WordStarts == {i \in DOMAIN input : input[i] \notin Spaces /\ (i = 1 \/ At(i - 1) \in Spaces)}
Whole(i) == SubSeq(input, i, Min({j \in i..Len(input) : input[j] \in Spaces} \union {End}) - 1)

(* The dispatcher, which compares letters, and the tokenizer, which comes  *)
(* after it, agree on what a statement is: a line is taken for SQL exactly *)
(* if its first token is SELECT or INSERT, so the parser never meets a     *)
(* line without one, and no statement is answered "Unknown command".       *)
DispatchAgrees ==
  /\ route \notin {"none", "select"} =>
       (route = "sql" <=> \E i \in Beginnings : /\ \A j \in Beginnings : i <= j
                                                /\ \A j \in 1..(i - 1) : input[j] \in Spaces
                                                /\ \E k \in Statements :
                                                     /\ Cardinality(Text(i)) = Len(k)
                                                     /\ Folded(SubSeq(input, i, i + Len(k) - 1)) = k)
  /\ route = "sql" /\ status = "TOKENIZE_OK" =>
       storage[1].type \in {Keywords[k] : k \in Statements}

(* The table created or indexed is the one the line names: its second word *)
(* as it stands, but for a semicolon, and never a part of it that sscanf   *)
(* cut off; and no valid name is refused.                                  *)
NamesAreWhole ==
  route \in {"create", "rebuild", "INVALID_NAME", "NAME_TOO_LONG", "ALLOC_ERROR"} =>
    /\ Cardinality(WordStarts) >= 2
    /\ LET second == Min(WordStarts \ {Min(WordStarts)})
           name == remove_trailing_semicolon(Whole(second))
       IN  IF storage_valid_table_name(name)
           THEN route \in {"create", "rebuild"} /\ argument = name
           ELSE route \notin {"create", "rebuild"}

(* The client is done with the SELECT: it was refused or validated. *)
Answered == status \notin {"none", "TOKENIZE_OK"} \/ parse_status \notin {"none", "PARSE_OK"} \/ verdict # "none"

(* A table that was created can be selected from by its name, unless that  *)
(* begins with a digit or is a keyword: these two kinds, which             *)
(* create_table accepts, no statement reaches.  And every identifier short *)
(* enough names a table.                                                   *)
CreatedIsSelectable ==
  /\ route = "select" /\ Answered =>
       (verdict = "SEMANTIC_OK" /\ ast.table_name = argument
          <=> argument[1] \in Letters /\ Folded(argument) \notin DOMAIN Keywords)
  /\ \A n \in DOMAIN storage :
       storage[n].type = "IDENTIFIER" /\ Len(storage[n].value) <= TableNameMax
         => storage_valid_table_name(storage[n].value)
=============================================================================
