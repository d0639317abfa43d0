----------------------------- MODULE TableCreate -----------------------------
(***************************************************************************)
(* storage_create_table (src/storage.c) by several processes at once, for  *)
(* one table name, each system call a step that may fail; a process may    *)
(* die and the machine lose power between any two.  README: "repeated or   *)
(* concurrent creation cannot both succeed".                               *)
(*                                                                         *)
(* A creator is one call of storage_create_table.  It stands for the file  *)
(* it made, too: `entry' says which file the table's name leads to.  A     *)
(* call that fails after its open unlinks that name, whatever it leads to  *)
(* by then, and does not look at whether that succeeded.                   *)
(***************************************************************************)
EXTENDS Durable

CONSTANTS
  Creator,  \* the calls
  NoFile,   \* no directory entry
  Empty,    \* a file without a byte
  Torn,     \* a header that was cut short
  Header    \* a header that counts no rows

ASSUME CreatorAssumption == NoFile \notin Creator
ASSUME HeaderAssumption == Header \notin {Empty, Torn}

VARIABLES
  entry,    \* the table's directory entry
  content,  \* of the file each creator made
  journal,  \* whether a journal of that name is lying about
  pc,       \* where each call is
  ret       \* what it returned; "lost" if it died or the power did

createVars == <<entry, content, journal, pc, ret>>

Running == {"writeHeader", "syncHeader", "checkJournal", "syncEntry", "discard"}

CreateTypeOK ==
  /\ entry \in Cell(Creator \union {NoFile})
  /\ content \in [Creator -> Cell({Empty, Torn, Header})]
  /\ journal \in BOOLEAN
  /\ pc \in [Creator -> Running \union {"start", "done"}]
  /\ ret \in [Creator -> {"none", "lost", "TABLE_CREATE_OK", "TABLE_CREATE_ALREADY_EXISTS",
                          "TABLE_CREATE_IO_ERROR"}]

CreateInit ==
  /\ entry = Clean(NoFile)
  /\ content = [p \in Creator |-> Clean(Empty)]
  /\ journal \in BOOLEAN
  /\ pc = [p \in Creator |-> "start"]
  /\ ret = [p \in Creator |-> "none"]

-----------------------------------------------------------------------------
Step(p, from, to) ==
  /\ pc[p] = from
  /\ pc' = [pc EXCEPT ![p] = to]
  /\ UNCHANGED <<journal, ret>>

Return(p, from, status) ==
  /\ pc[p] = from
  /\ pc' = [pc EXCEPT ![p] = "done"]
  /\ ret' = [ret EXCEPT ![p] = status]
  /\ UNCHANGED journal

(* Mutant: opened without O_EXCL. *)
OpenAnyway(p) ==
  /\ Step(p, "start", "writeHeader")
  /\ entry' = Write(entry, p, {})
  /\ UNCHANGED content

(* Mutant: every failure, this one too, goes to the clean-up. *)
OpenOrDiscard(p) ==
  \/ /\ entry.now = NoFile
     /\ Step(p, "start", "writeHeader")
     /\ entry' = Write(entry, p, {})
     /\ UNCHANGED content
  \/ /\ Step(p, "start", "discard")
     /\ UNCHANGED <<entry, content>>

(* open with O_CREAT and O_EXCL *)
OpenExclusive(p) ==
  \/ /\ entry.now = NoFile
     /\ Step(p, "start", "writeHeader")
     /\ entry' = Write(entry, p, {})
     /\ UNCHANGED content
  \/ /\ entry.now # NoFile
     /\ Return(p, "start", "TABLE_CREATE_ALREADY_EXISTS")
     /\ UNCHANGED <<entry, content>>
  \/ /\ Return(p, "start", "TABLE_CREATE_IO_ERROR")
     /\ UNCHANGED <<entry, content>>

(* fchmod, fdopen and write_header, which flushes *)
WriteHeader(p) ==
  /\ \/ /\ Step(p, "writeHeader", "syncHeader")
        /\ content' = [content EXCEPT ![p] = Write(@, Header, {Torn})]
     \/ /\ Step(p, "writeHeader", "discard")
        /\ \E c \in FailedWrite(content[p], Header, {Torn}) : content' = [content EXCEPT ![p] = c]
  /\ UNCHANGED entry

(* Mutant: flushed, never synced. *)
FlushHeader(p) ==
  /\ Step(p, "syncHeader", "checkJournal")
  /\ UNCHANGED <<entry, content>>

(* util_flush_and_sync and fclose *)
SyncHeader(p) ==
  /\ \/ /\ Step(p, "syncHeader", "checkJournal")
        /\ content' = [content EXCEPT ![p] = Sync(@)]
     \/ /\ Step(p, "syncHeader", "discard")
        /\ UNCHANGED content
  /\ UNCHANGED entry

(* A new table must not inherit a journal. *)
CheckJournal(p) ==
  /\ Step(p, "checkJournal", IF journal THEN "discard" ELSE "syncEntry")
  /\ UNCHANGED <<entry, content>>

SyncEntry(p) ==
  /\ \/ /\ Return(p, "syncEntry", "TABLE_CREATE_OK")
        /\ entry' = util_sync_parent_directory(entry)
     \/ /\ Step(p, "syncEntry", "discard")
        /\ UNCHANGED entry
  /\ UNCHANGED content

(* Every failure after the open ends with unlink(path), which may fail. *)
Discard(p) ==
  /\ Return(p, "discard", "TABLE_CREATE_IO_ERROR")
  /\ \/ entry' = Write(entry, NoFile, {})
     \/ UNCHANGED entry
  /\ UNCHANGED content

-----------------------------------------------------------------------------
(* The process of a call dies; the machine loses power, and all of them do. *)

Die(p) ==
  /\ pc[p] \in Running
  /\ Return(p, pc[p], "lost")
  /\ UNCHANGED <<entry, content>>

PowerLoss ==
  /\ pc' = [p \in Creator |-> IF pc[p] \in Running THEN "done" ELSE pc[p]]
  /\ ret' = [p \in Creator |-> IF pc[p] \in Running THEN "lost" ELSE ret[p]]
  /\ \E e \in entry.disk : entry' = Clean(e)
  /\ \E c \in [Creator -> {Empty, Torn, Header}] :
       /\ \A p \in Creator : c[p] \in content[p].disk
       /\ content' = [p \in Creator |-> Clean(c[p])]
  /\ UNCHANGED journal

Create(p) ==
  \/ OpenExclusive(p) \/ WriteHeader(p) \/ SyncHeader(p) \/ CheckJournal(p) \/ SyncEntry(p)
  \/ Discard(p)

CreateNext == (\E p \in Creator : Create(p) \/ Die(p)) \/ PowerLoss

CreateSpec == CreateInit /\ [][CreateNext]_createVars

-----------------------------------------------------------------------------
(***************************************************************************)
(* Repeated or concurrent creation cannot both succeed (README, "Meta      *)
(* commands"), crashes and failed attempts in between notwithstanding.     *)
(***************************************************************************)
OneCreation ==
  \A p, q \in Creator :
    ret[p] = "TABLE_CREATE_OK" /\ ret[q] = "TABLE_CREATE_OK" => p = q

(***************************************************************************)
(* A table reported as created is there for good, whole and on disk: no    *)
(* other call truncates it, replaces it or, cleaning up after itself,      *)
(* unlinks it.                                                             *)
(***************************************************************************)
CreatedEndures ==
  \A p \in Creator :
    ret[p] = "TABLE_CREATE_OK" => entry = Clean(p) /\ content[p] = Clean(Header)

(***************************************************************************)
(* While a call is at work the name leads to its own file, so the unlink   *)
(* it may end with removes nobody else's.  And what stands under the name  *)
(* when nobody is at work was created, or is what a call that failed or    *)
(* died left: a failed unlink leaves the file, a power loss may bring it   *)
(* back.  It is never that of a call that was told the name is taken.      *)
(***************************************************************************)
NameIsOwned ==
  \A p \in Creator :
    /\ pc[p] \in Running => entry.now = p
    /\ entry.now = p =>
         pc[p] \in Running \/ ret[p] \in {"TABLE_CREATE_OK", "TABLE_CREATE_IO_ERROR", "lost"}
=============================================================================
