----------------------------- MODULE LineReader -----------------------------
(***************************************************************************)
(* How src/cli.c reads its commands: cli_run calls cli_read_line until the *)
(* end of the input, with a buffer of a fixed size.  fgets stops behind a  *)
(* newline or when the buffer is full, and strlen stops at a NUL, so what  *)
(* it returned need not be a line.                                         *)
(***************************************************************************)
EXTENDS Integers, Sequences, FiniteSetsExt

CONSTANTS
  Capacity,   \* CLI_MAX_INPUT
  Inputs,     \* what may stand on the standard input: sequences of characters
  Rejected    \* the answer "Input too long"

ASSUME CapacityAssumption == Capacity \in Nat /\ Capacity >= 2

Newline == "newline"
Nul == "NUL"

VARIABLES
  input,     \* the standard input
  at,        \* the position of the next character to read
  answers    \* for each result of cli_read_line: where it began, and the
             \* line it gave or Rejected

readerVars == <<input, at, answers>>

End == Len(input) + 1

(* The first position with such a character from a given one on, or End *)
Next1(character, from) == Min({i \in from..Len(input) : input[i] = character} \union {End})

(* Mutant: no regard for the newline that fgets keeps. *)
FullWithoutNewline(from) == Min({from + Capacity - 2, Len(input)})

(* The last position fgets reads *)
LastRead(from) == Min({from + Capacity - 2, Next1(Newline, from), Len(input)})

(* strlen stops at the first NUL. *)
Text(from, last) == SubSeq(input, from, Min({Next1(Nul, from) - 1, last}))

EndsInNewline(text) == text # <<>> /\ text[Len(text)] = Newline

-----------------------------------------------------------------------------
ReaderInit ==
  /\ input \in Inputs
  /\ at = 1
  /\ answers = {}

Answer(line) == answers' = answers \union {[from |-> at, line |-> line]}

ReadLine(text, last) ==
  /\ EndsInNewline(text)
  /\ Answer(SubSeq(text, 1, Len(text) - 1))
  /\ at' = last + 1

(* The last line of the input may lack its newline. *)
ReadLastLine(text, last) ==
  /\ ~EndsInNewline(text)
  /\ last + 1 = End
  /\ Answer(text)
  /\ at' = End

(* Mutant: the rest of the line is left to be read as a line of its own. *)
DiscardNothing(text, last) ==
  /\ ~EndsInNewline(text)
  /\ last + 1 # End
  /\ Answer(Rejected)
  /\ at' = last + 1

DiscardLine(text, last) ==
  /\ ~EndsInNewline(text)
  /\ last + 1 # End
  /\ Answer(Rejected)
  /\ at' = Min({Next1(Newline, last + 1) + 1, End})

cli_read_line ==
  /\ at < End
  /\ LET last == LastRead(at)
         text == Text(at, last)
     IN  ReadLine(text, last) \/ ReadLastLine(text, last) \/ DiscardLine(text, last)
  /\ UNCHANGED input

ReaderNext == cli_read_line

ReaderSpec == ReaderInit /\ [][ReaderNext]_readerVars

-----------------------------------------------------------------------------
(* The lines of the input, by where they begin *)
LineStarts == {i \in 1..Len(input) : i = 1 \/ input[i - 1] = Newline}
LineAt(from) == SubSeq(input, from, Next1(Newline, from) - 1)

(* Every line gets one answer, in its turn: what is left of a rejected     *)
(* line is never taken for a command, and no line is passed over           *)
(* (src/cli.c, "Oversized: discard rest of line").                         *)
EachLineAnswered ==
  /\ {r.from : r \in answers} = {i \in LineStarts : i < at}
  /\ \A r, s \in answers : r.from = s.from => r = s

(* A command is a whole line of the input, never a part of one, and no     *)
(* longer than the limit the README gives, CLI_MAX_INPUT - 1 characters;   *)
(* no shorter line is rejected.  Of lines of just that length the property *)
(* says nothing: RejectedIsTooLong does.                                   *)
CommandsAreLines ==
  \A r \in answers :
    LET line == LineAt(r.from)
    IN  \/ r.line = line /\ Len(line) <= Capacity - 1
        \/ r.line = Rejected /\ Len(line) >= Capacity - 1

(* A line that is rejected exceeds the limit (README, "Known limitations": *)
(* "CLI line limit: 511 characters (`CLI_MAX_INPUT - 1`)"; src/cli.c,      *)
(* "Input too long (maximum %d characters per line)").  It need not: the   *)
(* newline of a line of that length finds no room in the buffer.           *)
RejectedIsTooLong ==
  \A r \in answers : r.line = Rejected => Len(LineAt(r.from)) > Capacity - 1
=============================================================================
