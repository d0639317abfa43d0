# sqlengine in TLA+

A TLA+ model of the Mini SQL Engine in C (`src/`, paths below are relative to
it): what its storage layer, its index and its statements do when system calls
fail, processes die, power is lost and counters reach their limits, and what a
line of input comes to on its way to them; TLC configurations that check it on
small instances; and TLAPS proofs that hold for every instance.

## 1. The system

A single-process command-line program. A line of input is tokenized, parsed,
validated and executed; a table is a file of fixed-size rows with a header, and
has a rollback journal while an INSERT is under way and an index file that can
be rebuilt at any time.

    cli_run -> cli_read_line -> cli_handle_line
                 |-- create_table  -> storage_create_table
                 |-- rebuild_index -> index_rebuild
                 `-- tokenize -> parse_tokens -> execute -> semantic_validate
                        |-- execute_insert -> storage_open_table (recovers)
                        |        -> index_load_or_rebuild -> storage_find_id
                        |        -> storage_insert_row -> index_insert -> index_persist
                        `-- execute_select -> storage_open_table_readonly
                                 -> index_load_or_rebuild / scan

### Components

**Insert journal and recovery** (`src/storage.c`, `src/util.c`).
State: the table file's header (row count) and row slots, the journal's
directory entry, the temporary file the journal is built in, and in memory a
`Table` handle with its own `row_count`. Operations: open for writing (with
recovery), open read-only (refused while a journal exists), insert, close.
Hard: an insert is ten system calls in a fixed order, each of which may fail or
be the last before a crash; recovery is another eight and may be interrupted
itself; a failed sync leaves several outcomes open; the handle's row count may go
stale. Correct when every power loss leaves the old or the new table,
acknowledged rows survive, refused rows never appear, and a handle agrees with
its file.

**Table creation** (`storage_create_table`). State: the directory entry and the
new file. Hard: concurrent calls for one name, and a failing call's
`unlink(path)`, which names a path and not a file, and whose result nobody looks
at. Correct when at most one call succeeds, what it created stays, and nobody
unlinks another's file.

**Page layout** (`storage_offset_for_row` and its relatives). Pure functions
between row numbers and offsets, with pages, padding, 64-bit overflow and the
limit of `long`. Correct when an offset is valid exactly if a row begins there,
rows do not overlap, and neither an insert nor a recovery leaves a file that the
next open refuses.

**Row scanner** (`storage_scan_*`, `storage_read_row_at_offset`, and the four loops
over it: `storage_find_id`, `select_with_scan`, `storage_select_all_rows`,
`index_rebuild_from_table`). State: a position, and what the loop has made of the
rows so far. Hard: a read that fails midway, a file that loses its end under the
scan, rows across pages. Correct when every counted row is seen once, when a
failure is never taken for an absent row or the end of the table, and when no
whole file is called corrupt.

**Hash table of the index** (`src/index.c`). State: buckets, bucket count, entry
count. Operations: create for an expected size, insert (replacing or not),
resize, lookup, write out and load. Hard: a resize or an allocation that fails
halfway, the bucket that must be computed anew after a resize, the load limit at
its boundary. Correct when it is a map with an exact count.

**Index file** (`index_load`, `index_persist`, `index_rebuild`). State: the index
file's directory entry. It is outside the journal's protection and tied to the
table only by its entry count. Hard: it may be missing, stale, corrupt or
foreign and still load. Correct when no answer depends on it, and when an index
reported as saved is on disk.

**Statement execution** (`src/executor.c`). Composes the three above. Hard: the
uniqueness check, which the index may answer wrongly; failures after the commit,
which must be warnings. Correct when ids are unique, SELECT answers what a scan
would, and a warning never hides a lost row.

**Command line reader** (`cli_read_line`, `cli_run`). State: the position in the
input. Hard: `fgets` with a full buffer, a last line without a newline, a NUL in
a line. Correct when every line gets one answer.

**Tokenizer** (`src/tokenizer.c`). State: a position in the line, the token being
read, the tokens read. Hard: 64 tokens of 63 characters, one place kept for the
end-of-input token, signs, keywords in any case. Correct when exactly the legal
lines are accepted, their tokens are their text, and a refusal is deserved.

**Parser and semantic validation** (`src/parser.c`, `src/semantic.c`,
`src/column.c`). State: a place in the grammar and the AST, with 10 columns and
fields of 32 bytes. Hard: every token missing, wrong, too long or out of range at
every place. Correct when what is accepted is a statement of the grammar,
each status is true of the tokens, and the AST says what the text says. (Of the
README's grammar not all is accepted: finding 6.)

**Command dispatch** (`cli_handle_line`, `handle_meta_command`, `src/main.c`).
State: none; two words of a line. Hard: it looks at letters before the tokenizer
does, and `sscanf` cuts words. Correct when both agree on what a statement is,
and a name reaches the storage layer whole.

**Journal record** (`journal_checksum` and the byte work of
`persist_insert_journal` and `recover_insert_journal`). Hard: recovery truncates
the table on the word of these bytes. Correct when it follows every record an
insert wrote and no other.

**Rows as bytes and as printed** (`storage_serialize_row`,
`storage_deserialize_row`, `util_print_escaped_field`), **status names**
(`src/status.c`), the **byte format of header and index file**, **temporary
files**, **tests and build**: conversions and wording, without control of their
own.

### Interaction

Calls and files only: there are no threads, callbacks or locks. Components meet
in three places: the directory, which an `fsync` by any of them makes durable for
all (an `index_persist` also settles the fate of an unlinked journal); the
table's row count, which the index file repeats; and offsets, which the index
stores and the page layout judges. The README declares concurrent access
unsupported, except that concurrent `create_table` must not succeed twice.

## 2. The modules

| Module | Models | Extends |
|---|---|---|
| `Durable` | what fsync, rename, unlink and ftruncate mean to a power loss; `util_sync_parent_directory` | |
| `AtomicTable` | abstract: a growing sequence of rows, at most one in doubt | |
| `InsertJournal` | storage_insert_row, recovery, open, close | `Durable`; implements `AtomicTable` |
| `Executor` | execute_insert, execute_select, rebuild_index, the index file | `InsertJournal` |
| `TableCreate` | storage_create_table | `Durable` |
| `PageLayout` | offsets, sizes, validity | |
| `Scanner` | the row iterator and the four loops over it | `PageLayout` |
| `JournalRecord` | the bytes of a journal | `PageLayout`, which it implements |
| `KeyMap` | abstract: a map from ids to offsets | |
| `HashIndex` | the in-memory hash table | implements `KeyMap` |
| `LineReader` | cli_read_line in the loop of cli_run | |
| `CommandLine` | cli_handle_line, handle_sql_input, the meta commands, the name check | `Tokenizer`, `Parser` |
| `Tokenizer` | tokenize | |
| `Parser` | parse_tokens, semantic_validate | |
| `MC...` | instances for TLC | the module they are named after |
| `MCStandalone` | the instances of the three components that share no state, in one module | `MCHashIndex`, `MCLineReader`, `TableCreate` |
| `TableFileProofs` | theorems about the table file and its journal | `Scanner`, `JournalRecord` |
| `ParserProofs`, `CommandLineProofs` | theorems about the parser; about tokenizer and command line | `Parser`; `CommandLine`, `ParserProofs` |
| other `...Proofs` | theorems | the module they are named after |

### Durable: the disk

A *cell* is a piece of storage with two faces: `now`, what every read returns,
and `disk`, the set of values a power loss may leave. `Write` adds the new value
(and torn ones) to `disk`, `Sync` leaves only `now`, a power loss picks a member.
Assumptions, all about POSIX and the disk and none about the program:

- a successful `fsync` persists everything written to that file or directory
  before it, whatever an earlier failed one did;
- writing bytes that are already there, on disk too, cannot tear them;
- `rename` and `unlink` are atomic: a directory entry is old or new, never torn;
- `DirSyncSupported` says whether `fsync` of a directory does anything: the code
  treats EINVAL and ENOTSUP as success.

### InsertJournal: state and actions

`hdr`, `slot`, `jnl`, `temp` are the cells of header, row slots, journal entry
and temporary file; `pc` is the place in the code, `mode` and `row_count` are the
`Table` handle, `previous` the local of `recover_insert_journal`, `row` the
argument, `call` and `ret` the latest call and its `TableStatus`.

| Code | Actions |
|---|---|
| guards of `storage_insert_row` | `BeginInsert`, `RejectInsert` |
| `persist_insert_journal` | `MakeTemp`, `WriteTemp`, `RenameTemp`, `SyncJournalEntry` |
| rest of `storage_insert_row` | `WriteRow`, `SyncRow`, `WriteHeader`, `SyncHeader`, `UnlinkJournal`, `FinishInsert` |
| `storage_open_table_mode` | `OpenTable`, `OpenReadonly` |
| `recover_insert_journal` | `ReadJournal`, `RestoreHeader`, `SyncRestored`, `Truncate`, `SyncTruncated`, `DropJournal`, `SyncDropped` |
| `read_and_validate_header` | `Validate` |
| `storage_close_table` | `CloseTable` |
| directory sync by `index_persist` | `SyncDirectory` |
| environment | `ProcessCrash`, `PowerLoss` |

Each action has its success and its failure as disjuncts; a failed write leaves
nothing, a torn value or the whole value, and what was left in a stdio buffer
may be flushed by the `fclose` of the error path. The fault points in the code
(`consume_storage_fault`) are instances of these failures. A caller closes the handle
of a failed call, as every error path of `executor.c` does.

Bound: `MaxRows`, the number of rows at which the insert guard on `LONG_MAX`
stops; `PageLayout` has the arithmetic of that guard.

### Executor: state and actions

`phase` is the place in `execute_insert` or `execute_select`, `stmt` the
statement, `idx` the index file's cell, `index` the local `Index *` (a function
from ids to offsets, `NoFile` for NULL), `answer` the rows printed, `outcome`
the `ExecStatus`. Storage calls are the actions of `InsertJournal`; each engine
action is one of its steps or leaves its variables alone. A row is reduced to its
id; an offset to the number of the row there, or 0. `MeddleWithIndex`, enabled by
the constant `Meddling`, puts any file in the index's place between statements.
A SELECT without a WHERE on `id` scans and needs no index; it is the case of
`LoadIndex` in which `index` stays NULL. `StartRebuild` is the `rebuild_index`
command: it opens the table for reading only, scans, and ends with the steps
`RebuildIndex`, `PersistIndex` and `SyncRebuilt` that a statement's own rebuild
has, but reports an `IndexStatus`.

### Scanner

`caller` is the loop that runs, `next_row` the iterator, `taken` the rows it has
returned, printed, copied or indexed, `result` how it ended. The table is that of
`PageLayout`, with the row count and the length of the file; between scans it
takes `PageLayout`'s steps (`TableStep`). `LoseBytes`, an environment action, cuts
the end of the file off under a scan, and a read may fail at any row. `ids` may
repeat: the loops are what finds a duplicate.

### Tokenizer, Parser, CommandLine

`Tokenizer` takes a step per character: `p`, `token`, `storage` and the limits are
the locals of `tokenize`, one action per branch of its loop. Characters are
classes (`isspace`, `isdigit`, `isalpha`) with one or two members each. No character
is of two classes and a line has no NUL (`ClassAssumption`): the program never calls
`setlocale`, so the classes are those of the C locale, and `cli_handle_line` is given
a C string. Keywords are of letters (`KeywordAssumption`). What the tokenizer is
checked against (`Beginnings`, `Text`, `Legal`) says of positions of the line,
without a loop, where tokens begin and how far they go.

`Parser` takes a step per token, and `tokens` holds those it has looked at: by
itself (`ParserSpec`, of which the proofs speak) it draws each token only when the
code looks at it, so every sequence of tokens is covered. `Fixed` and `Carrying`
are the rows of the recursive descent: a place, the token expected there, where it
leads. A value fits its field or not (`Oversized`), a number is in range or not
(`InRange`). The checks against a grammar (`Sentences`, `StartsSentence`) list the
statements instead.

`CommandLine` composes the two: a line is routed by `is_sql_statement` or by its
first word; `Word` and `Argument` are what `sscanf` and
`remove_trailing_semicolon` give. `CommandAssumption`: `%63s` cuts no meta command off,
not even with a semicolon. `handle_sql_input` begins the tokenizer's steps
(`Tokenize`), and when they end in TOKENIZE_OK, `Parse` takes a step of `Parser` on
the next of the tokens stored, and in the end validates. After a creation
`SelectFromCreated` is the client's next line, a SELECT from the table of that
name, which goes the same way. Its text is any that says SELECT * FROM with single
spaces (`SelectAssumption`), and a name is shorter than `TOKEN_VALUE_MAX` and fits
the AST's field (`NameFitsAssumption`), as 31 does with the buffers of the code.

### JournalRecord

`JournalRecord` adds to `PageLayout` the journal `file` as bytes. `CutShort` is
`InsertCutShort` that also encodes its record, `Touch` changes one byte, the length,
or puts another table's journal there; `Restore` and `Refuse` are what recovery
makes of the bytes, check by check, and `ReadFails` is the read that fails or comes
up short, which is answered with TABLE_CORRUPT whatever the bytes are. Bytes have
`Byte` values and numbers `Width` bytes. A field is written by `Overlay`, and read
by `get`, as in `put_u32_le` and `get_u32_le`. Exclusive or is the constant
`ExclusiveOr` (of `Bitwise` in the run). Of FNV-1a the properties need only
`XorAssumption` and `PrimeAssumption`: a number's exclusive or with a byte tells
which number it was, and which byte; so does its product with the prime, which is
odd, modulo a power of two. `InsertedRows` are the rows an insert may encode.

### TableCreate, PageLayout, HashIndex, LineReader

`TableCreate`: a set `Creator` of calls, each with its own `pc`, over one
directory entry. A call stands for the file it made; `Discard` unlinks the name,
whatever it leads to, or fails to: the call has failed either way and its file
stays. As nothing syncs that directory afterwards, a power loss may also bring an
unlinked name back. A power loss ends the calls at work (`lost`) and leaves the
answers of those that have returned as they are.

`PageLayout`: the functions are operators of the same names, with `Failure` for
`false`. `row_count`, `file_size` and `journal` are what they are applied to:
`storage_insert_row` is an insert that completes, `InsertCutShort` one that does
not, `recover_insert_journal` its undoing.

`HashIndex`: `index_insert` is `ReplaceEntry`, `RefuseEntry`, `AddEntry`,
`GrowAndAdd`, and for failed allocations `GrowOnly` (the node's, after the
resize) and `AddNothing`. `index_hash` is any function; a chain is the set of its
entries, because no operation depends on their order as long as keys are unique,
which is proved. `Reload` is a write and a load into a table sized for the
entries.

`LineReader`: one action, `cli_read_line`, with its three returns. An `exit`
command ends a behaviour early and so adds no state.

## 3. The runs

| Run | Instance | Distinct states | Shows |
|---|---|---|---|
| `journal_safety` | 2 rows, 3 slots | 11298 | old table or new one after any power loss, acknowledged rows survive, refused rows stay out, handles agree with files, committed rows never go, `AtomicTable` is implemented; a left-over journal is recovered in the end |
| `journal_no_dir_sync` | as the first, no directory syncs | | an acknowledged insert is lost (finding 1) |
| `engine_safety` | 2 ids, 2 slots, any index file | 252426 | unique ids, SELECT answers a scan, warnings are harmless, an index reported as saved is on disk |
| `engine_stale_key` | the same without meddling | | the "should not happen" branch happens (finding 2) |
| `layout` | 2-bit bytes, 15 rows of 3 bytes on 6 pages, offsets to 60 of 64 | 21092 | exactly the offsets of rows are valid, no overlap, the file opens again; exactly the journals an insert wrote are followed, which implements `PageLayout` |
| `scanner` | 5 rows on 3 pages, 2 ids | 50278 | the loops miss and repeat nothing, their reports are true, only damage is called corrupt; every scan ends |
| `standalone` | index: 5 keys, 2 values, 2/4/8 buckets, sizes 0 to 4; reader: texts of 0 to 7 characters, buffer of 4; creation: 3 calls | 35592 | a map, exact count, load limit, no resize while loading; each line answered once, none cut, none that is short enough rejected; one creation, which endures, and no file unlinked by another |
| `command_line` | some 44000 lines, see below; 2 columns, 13 tokens and EOF | 354499 | from the line to the validated statement: dispatcher and tokenizer agree, exactly the legal lines are cut into tokens, only the grammar is accepted, refusals are true of the line, tokens and AST are the text, names are whole, and which created tables a SELECT reaches |
| `string_unterminated` | as above, tokens of 3 | | an unterminated string is called too long (finding 5) |
| `grammar_refused` | as above, lists of columns that all fit | | a number in range is refused as out of range (finding 6) |
| `line_limit` | the reader alone | | a line of the documented limit is rejected (finding 4) |
| `line_nul` | with NULs | | a line gets no answer (finding 3) |

The passing runs exhaust their state spaces; the others stop at their
counterexample. `MCStandalone` begins with the choice of one component, whose steps
it then takes while the two others rest. They share no variable, so its behaviours
are those of the three modules, and each component is explored exactly as it would
be alone; the fixed values of the resting ones keep the product small.

Why the bounds are enough:

- *journal*: recovery needs an empty table, a table with rows and a full one, so
  three slots give an insert before, at and after the one that fails; the two
  rows tell an inserted row from the one a rolled-back insert left behind. No
  bound on crashes or failures is needed: the state space is finite without.
- *engine*: two ids and two slots give a duplicate, an index with as many
  entries as the table and wrong ones, and an insert after a rollback. A third
  slot would make the table longer, not different.
- *standalone*, creation: a third call can open the name between the failures of two
  others.
- *layout*: six pages are filled, the last offset lies near the limit, and
  `LongMax` lies as far below `Word` as one needs for overflow of either kind to
  show; `ValidIffRow` tries every number below `Word`. Every byte of every
  record, padding included, becomes every other byte. Only one byte at a time: a
  32-bit sum cannot tell all others.
- *scanner*: two rows to a page and three pages, the last one half full: a scan
  begins, crosses two boundaries and ends within a page; two ids in five rows
  give every pattern of hits, misses and duplicates; the file shrinks by any
  number of bytes.
- *command_line*: keywords, commands and columns are a letter each, numbers in
  range are -1, 0 and 1. Names are of two characters for 31, tokens of four for 63,
  what `%63s` reads is four as well. The lines are: every one of up to four
  characters; a command with every rest of up to five, so that a name is valid, too
  long, or cut by `sscanf`; a SELECT with every rest of up to five, so that words,
  numbers, strings and signs meet in every way and overrun their length; lines
  that reach the number of tokens; and the statements of the grammar, whole with
  every value at every place, or cut off anywhere with any token behind them. The
  parser stops at the first token it refuses, so these show it every sequence it
  can tell apart. Columns: the limit, one less, and one more.
- *standalone*, index: the table doubles twice and then is as large as it may be;
  three keys share a chain and two of them still do after a resize.
- *standalone*, reader: a line that fits, one that just fits, one that just does not,
  one of two buffers' length, and a line behind each of them.

Deadlock checking is off where the system stops: a table that is full takes no
insert (`layout`), the program ends with its input and every call returns
(`standalone`, `line_*`), and a line is handled once (`command_line` and the runs of
its module).

### Fairness

Two runs need it. In `scanner`, `FairScanSpec` says that a loop that has begun takes
its next step: the code is sequential and waits for nobody, so nothing is assumed
of callers, of the table or of the disk, which may fail as it likes. In
`journal_safety`, `CalmSpec` says that from some point on nothing
fails; that a call that has begun takes its next step (the code is sequential
and does not wait for anybody); and that a closed table is in the end opened for
writing again, which is the client's next INSERT. Without that INSERT a journal
stays for ever, as `execute_select` does not recover: the property is about
recovery getting through, not about clients turning up. The assumption that
faults end is needed too, since a disk that fails for ever prevents recovery.
Everything may fail before that point, and every finite behaviour can be continued
to one that has it, so the safety properties of the run are checked of the same
states and steps as under `Spec`.

### Mutants

Next to the definitions stand mutated ones, marked `Mutant:`, each a plausible
slip in the code (a sync left out, a guard dropped, a stale bucket). For every
property of every passing run TLC finds a violation when the one replaces the
other.

## 4. What is proved

The theorems hold for every set of rows or ids, every bound, every size of page
and row, every hash function and load factor. They rest on the named ASSUMEs of
the modules (which TLC evaluates) and, where files are synced, on
`DirSyncSupported`.

**InsertJournalProofs.** The invariant `IInv` adds to the types what makes the
properties inductive: while no journal is to be seen the header is on disk and a
power loss can bring back only the latest insert's journal or one that describes
the present state (`Quiet`); while one is, either its entry is on disk or the
header has not been touched (`Journalled`); what each step of insert and recovery
has achieved (`InsertInv`, `RecoveryInv`, `TempInv`); and what the latest report
implies (`ReportInv`). `Quiet` is the heart of it: an unlinked journal whose
directory was not synced may come back, and is harmless only because its count is
that of the header or one less. From it follow `AlwaysOldOrNew`, `AckedSurvives`,
`RejectedNeverAppears`, `HandleAgrees`, `CommittedStays` and
`JournalRefinesTable`, that each step is one of `AtomicTable` or a stutter. The
last two go by a lemma on how a step may change the set of outcomes.

**ExecutorProofs.** `EngineUsesStorage` shows that engine behaviours are storage
behaviours, so everything above holds under statements. `EInv` adds that phases
and `pc` agree, that the row being inserted has a fresh id, and that a statement
past its insert was acknowledged. From it: `PrimaryKey`, `IndexIsNotAuthority`,
`WarningIsHarmless`, for any content of the index file.

The types of the engine (`EngineTyping`) need the storage layer's invariant: that
a scan gives an index, a function from ids to offsets, depends on every counted row
being whole. `IndexReachesDisk` adds to it that between the sync of the directory
and the report nothing but a power loss touches the index file's entry.

**TableCreateProofs.** For any number of calls: while a call is at work the name
leads to its file, because nobody else's `open` succeeds then, which is why its
`unlink` hits nobody else; and what the name leads to otherwise was created, or left
by a call that failed or died (`CallsOwnTheirNames`). Nothing is claimed to be
clean: a failed `unlink`, or one undone by a power loss, leaves a file. Hence
`AtMostOneCreation` and `CreatedForGood`; types in `CreateTyping`.

**TableFileProofs.** Three modules over one file.

- *Layout*, for any sizes: `OnlyRowsAreRead`, that a 64-bit number is a valid offset
  exactly when a row begins there; `NoOverlap`; `SizeNeverRefused`; `LayoutTypes`.
  They rest on uniqueness of quotient and remainder and on rows being in the order
  of their places.
- *Journal*, for any width of a number, any rows and any names: `DamageIsNoticed`,
  that what recovery has read in full it takes for a journal exactly if it is as an
  insert wrote it, not if it is of another length, has one byte changed or is of
  another table, and that it never ends well over one that was changed (it may end
  badly over an intact one, when the read fails); and
  `BytesImplementLayout`, that the bytes do what the fields of `PageLayout` do. The
  invariant says that a journal that was not touched is the encoding of the fields,
  and that one that was differs from it in a way recovery sees. It needs that `get`
  undoes `put` (numbers in base `Byte`), that fields written at different places do
  not disturb each other, and that two contents of a length that differ in one byte
  have different sums: the sums differ from that byte on, and every further step of
  FNV-1a keeps them apart.
- *Loops*: the invariant adds that the counted rows end below the largest offset even
  when the file has lost them, so that their offsets can be computed (`NoFalseAlarm`),
  and that while a loop goes on it has found nothing, or left nothing out
  (`LoopsMissNothing`, `ReportsAreTrue`).

**ParserProofs.** For any sequence of tokens, any values and any `MaxColumns`.
`ParserInv` says which fields are set at which place of the grammar and that each
holds a value that fits: hence `NothingOverflows` and, with the steps of the
validation, `ValidatedRuns`. `ReadingInv` says what the types and the values of the
tokens read are at each place: hence `StatusTells`, that every status is true of the
tokens, PARSE_OK being for the sentences of the grammar alone (the other direction,
that all of them are accepted, is false: finding 6); and `AstSays`, that an
accepted statement's AST has each value where the statement has it. Sentences are
sequences of a given shape, for a list of columns of any length, so that this needs
no induction.

**CommandLineProofs.** First the tokenizer on its own. A token being read
has its place in the array, and those that are complete leave one for TOKEN_EOF,
hence `BuffersHold`; that is why the code's check before the final token never
fails. Then the composition: every step of the command line is one of the parser's or
leaves its state alone (`CommandLineUsesParser`), because the tokens the tokenizer
hands over are tokens as `Parser` assumes them and a parser that has not answered has
not reached the last of them (`CliInv`, `StopsAtEnd`). From that everything proved of
the parser holds of whatever is typed: `FieldsFit`, `StatementsRun`, `AnswersTell`,
`StatementsSay`; and `TokensFit` of the tokenizer.

What the tokens are is a second invariant, `TextInv`: those stored are those of the
text below the position, in order, each with its value (`TokensTo`); between two
tokens no string, word or number goes on (`Boundary`); within one it has been read
as far as the position (`Reads`); and each status has its reason there. It connects
the tokenizer's loops with definitions that have none: whether a position is in a
string is the parity of the quotes before it, which one step changes by at most one.
From it follow `LegalAccepted`, that exactly the legal lines are accepted and a
refusal names a fault the line has where it is made, and `TokensSay`. With what
`is_sql_statement` compares, that gives `DispatchIsRight`: a line is taken for SQL
exactly if its first token is SELECT or INSERT. `NamesKept`, that a name is the
whole second word or is refused, needs where `%63s` stops: a word it cuts is longer
than a name may be, semicolon or not.

`CreatedCanBeSelected` goes through all of it. One way: the client's line is described
by the places of its star, its name and its semicolon (`SelectLine`), so that its
tokens begin at five known places (`SelectIsLegal`) and are SELECT, STAR, FROM, the
name, SEMICOLON, EOF (`SelectTokens`); such tokens the parser accepts
(`SelectAllAccepted`, from `ReadingInv`), and the verdict on the AST is OK
(`VerdictInv`). The other way: the table of an accepted statement is one of its
identifiers (`TableIsIdentifier`), and an identifier begins with a letter and is no
keyword (`IdentifierIsName`). In between, the parser's tokens are the stored ones, in
order (`SeenInv`).

The assumptions of these modules say that no character is of two classes, that no
keyword or sign is of the type of a value, that a value of a token's length is one of
the parser's identifiers, numbers or strings, that a name, a semicolon and a
command are shorter than what `sscanf` reads, that a name fits into a token and into
the AST (`NameFitsAssumption`), and that the client's text is SELECT * FROM
(`SelectAssumption`).

**LineReaderProofs.** For every buffer and every text without a NUL (`PlainText`;
with one, finding 3): fgets and strlen agree (`TextIsRead`), so that all three
branches come to the same, one answer for the line and a reader that stands behind
its newline (`StepAnswersLine`). Hence `LinesAnsweredOnce`, and `OnlyWholeLines`: what
is run is a whole line of at most `CLI_MAX_INPUT - 1` characters, and none shorter
than that is rejected. Whether one of just that length is, depends on what ends it
(finding 4).

**HashIndexProofs.** The chains are always those a rehash of the entries would
make, and no key is in two entries. Hence `HeaderCount`, `BoundedLoad`,
`LoadsWithoutResize`, and `HashTableIsMap`, the refinement of `KeyMap`; types in
`HashTyping`.

Only model-checked: the liveness properties `JournalGoes` and `ScansEnd` (liveness
under fairness is beyond the prover), and the counterexamples below. That
`XorAssumption` and `PrimeAssumption` hold for numbers of 32 bits is a fact of
arithmetic the prover cannot reach (TLC evaluates them for the numbers of the run).

## 5. Findings

1. `src/util.c:183`: a directory sync that fails with EINVAL or ENOTSUP counts as
   success. On such a file system an acknowledged INSERT can be undone by a power
   loss, while `README.md:111` says that the removal of the journal has been
   synchronized. (`journal_no_dir_sync`)
2. `src/executor.c:324`: "Should not happen after uniqueness check". It can, after a
   failed call and a crash: an INSERT whose last directory sync fails is visible, a
   SELECT rebuilds the index with its key, a power loss rolls the row back, another
   INSERT brings the row count to that of the stale index, which then loads. The
   branch, which replaces the entry, is what keeps the index right.
   (`engine_stale_key`)
3. `src/cli.c:162`: with a NUL in a line `strlen` misses its newline, and the
   *next* line is discarded as the rest of an oversized one. (`line_nul`)
4. `src/cli.c:158`: `fgets` keeps the newline in the buffer, so a line of 511
   characters and a newline is rejected as too long; `README.md:225` and the error
   message at `src/cli.c:226` give 511 as the limit. (`line_limit`)
5. `src/tokenizer.c:95`: a string that is never closed and is longer than a token may
   be is TOKENIZE_TOKEN_TOO_LONG; `include/tokenizer.h:51` says "Unterminated strings
   return TOKENIZE_UNTERMINATED_STRING". (`string_unterminated`)
6. `src/parser.c:154`: a number in a WHERE clause is copied into 32 bytes before it
   is parsed, so one of 32 characters, leading zeros included, is refused as out of
   range when it is not. INSERT takes it, and `README.md:37` names only the range.
   (`grammar_refused`.) The property also fails of an 11th column, refused by
   `src/parser.c:109` as PARSE_ERROR, while the grammar of `README.md:27` has
   `SELECT <col>[, <col>...]`; with `MaxColumns = 2` TLC shows that case.

Met on the way, without a run of its own: a table whose name begins with a digit or
is a keyword can be created and indexed, but no statement can name it
(`CreatedIsSelectable` says exactly which). No document says otherwise.

## 6. Not modelled, and why

- *Bytes of the header and of the index file*: they stand for what they decode to,
  and a torn or foreign one for itself. Which bytes are torn decides nothing: a
  header is read only when no journal is there, and then it is whole
  (`AlwaysOldOrNew`); an index is never trusted (`IndexIsNotAuthority`).
- *Rows as bytes and as printed*: a row is written and read by pairs of functions
  that are each other's inverse, and printing escapes bytes one by one; neither
  keeps state nor decides anything.
- *Journals with more than one damaged byte*: a sum of 32 bits lets one in some
  four billion through.
- *Index entries one by one*: reading and writing the index file is one step that
  succeeds or fails; the table built from it is `HashIndex`.
- *Temporary files* that a crash leaves: their random names are not used again,
  so they only take up space.
- *Permissions*: mode bits, `O_NOFOLLOW`; a refusal is a failed call.
- *Arguments no caller passes* (NULL pointers, a storage capacity of zero), and
  functions without a caller in `src/` other than `storage_select_all_rows`.
- *Status names, prompts, column headings*: wording.
- *Two processes on one table*, except creating it: declared unsupported.
- *Tests and build*: not part of the program.

## 7. Plan

Done, in this order: `Durable`, `AtomicTable`, `InsertJournal` and its proofs;
`Executor` and its proofs; `TableCreate`; `PageLayout`; `KeyMap` and `HashIndex`;
`LineReader` and its proofs; the `rebuild_index` command; `Scanner` and its proofs;
`Tokenizer`, `Parser`, and `CommandLine`, which composes them; types of every proved
module; `JournalRecord` and its proofs; what parser and tokenizer answer, and the
dispatch; the failures of clean-up and of reading a journal; and the runs that show
where the documents promise more than the code keeps.

What is left, most important first:

1. `CommandLine` in one behaviour with `Executor`: the statement that is executed is
   the one that was typed. Its states are those of both, so it needs a smaller
   `Executor`.
2. `Executor` over `Scanner` and `HashIndex` at once, so that a failed allocation
   within a rebuild is a step of its own; each alone has it now.
