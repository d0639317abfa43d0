------------------------------- MODULE Durable -------------------------------
(***************************************************************************)
(* What the engine relies on from POSIX, as far as power loss can tell: a  *)
(* piece of storage (a file header, a row slot, a directory entry) is a    *)
(* cell that every process sees with one value and that a power loss may   *)
(* leave with another.  None of this is code of the repository; it is the  *)
(* meaning of fwrite/fflush, rename, unlink, ftruncate and fsync as        *)
(* src/storage.c, src/index.c and src/util.c use them.                     *)
(*                                                                         *)
(*   now   the value every read returns until the machine loses power      *)
(*   disk  the values a power loss may leave, now among them               *)
(*                                                                         *)
(* A successful fsync is taken to persist everything written before it,    *)
(* an earlier failed fsync notwithstanding.                                *)
(***************************************************************************)

CONSTANT DirSyncSupported  \* whether fsync of a directory does anything here

ASSUME DirSyncAssumption == DirSyncSupported \in BOOLEAN

Cell(V) == {c \in [now : V, disk : SUBSET V] : c.now \in c.disk}

(* A cell whose value is on disk. *)
Clean(v) == [now |-> v, disk |-> {v}]

(***************************************************************************)
(* v is written over the cell.  Until a sync the disk holds the old value, *)
(* the new one, or one of `tears', what a write that is cut short leaves.  *)
(* Writing the bytes that are already there, on disk too, changes nothing. *)
(***************************************************************************)
Write(c, v, tears) ==
  [now  |-> v,
   disk |-> IF c.disk = {v} THEN {v} ELSE c.disk \union {v} \union tears]

(* A write that reported an error: nothing, all of v, or a torn value, *)
(* unless v was there already.                                         *)
FailedWrite(c, v, tears) ==
  {c} \union {Write(c, w, tears) : w \in {v} \union IF c.now = v THEN {} ELSE tears}

Sync(c) == Clean(c.now)

(* Mutant: the directory is not synced. *)
UnsyncedDirectory(entry) == entry

(* A directory whose fsync fails with EINVAL or ENOTSUP counts as synced. *)
util_sync_parent_directory(entry) ==
  IF DirSyncSupported THEN Sync(entry) ELSE entry
=============================================================================
