-------------------------- MODULE TableCreateProofs --------------------------
(* Proofs about TableCreate, for any number of calls. *)
EXTENDS TableCreate, TLAPS

(* What a call has achieved by the time it gets there. *)
Achieved ==
  \A p \in Creator :
    /\ pc[p] \in {"checkJournal", "syncEntry"} => content[p] = Clean(Header)
    /\ pc[p] = "syncHeader" => content[p].now = Header
    /\ pc[p] \in {"start"} \union Running => ret[p] = "none"
    /\ pc[p] = "done" => ret[p] # "none"
    /\ pc[p] = "start" \/ ret[p] = "TABLE_CREATE_ALREADY_EXISTS" => p \notin entry.disk

(* The invariant of creation, which CreateInvariance proves. *)
CreateInv == CreateTypeOK /\ NameIsOwned /\ Achieved /\ CreatedEndures

(* What writes and syncs leave to be read, and what on disk. *)
LEMMA CellFacts == /\ \A v : Clean(v).now = v /\ Clean(v).disk = {v}
                   /\ \A c : Sync(c) = Clean(c.now)
                   /\ \A c, v, tears : Write(c, v, tears).now = v
                   /\ \A c, v : Write(c, v, {}).disk \subseteq c.disk \union {v}
BY DEF Clean, Sync, Write

(* Cells keep their type. *)
LEMMA CellTypes == ASSUME NEW V
                   PROVE  /\ \A v \in V : Clean(v) \in Cell(V)
                          /\ \A c \in Cell(V) : Sync(c) \in Cell(V)
                          /\ \A c \in Cell(V), v \in V, tears \in SUBSET V :
                               /\ Write(c, v, tears) \in Cell(V)
                               /\ FailedWrite(c, v, tears) \subseteq Cell(V)
BY DEF Clean, Sync, Write, FailedWrite, Cell

(* It holds before any call, when the name leads nowhere. *)
LEMMA InitCreateInv == CreateInit => CreateInv
<1> SUFFICES ASSUME CreateInit
             PROVE  CreateInv
  OBVIOUS
<1>1. CreateTypeOK
  BY CellTypes DEF CreateInit, CreateTypeOK
<1>2. NameIsOwned /\ Achieved /\ CreatedEndures
  BY CellFacts, CreatorAssumption DEF CreateInit, NameIsOwned, Achieved, CreatedEndures, Running
<1> QED BY <1>1, <1>2 DEF CreateInv

(* A step of a call keeps the types, *)
LEMMA CreateStepTyped == ASSUME CreateTypeOK, NEW p \in Creator, Create(p) \/ Die(p)
                         PROVE  CreateTypeOK'
<1> DEFINE Names == Creator \union {NoFile}
           Contents == {Empty, Torn, Header}
<1>1. /\ entry \in Cell(Names) /\ content \in [Creator -> Cell(Contents)]
      /\ Header \in Contents /\ {Torn} \subseteq Contents /\ NoFile \in Names /\ p \in Names
  BY DEF CreateTypeOK
<1>2. /\ Write(entry, p, {}) \in Cell(Names)
      /\ Write(entry, NoFile, {}) \in Cell(Names)
      /\ util_sync_parent_directory(entry) \in Cell(Names)
  BY <1>1, CellTypes DEF util_sync_parent_directory
<1>3. /\ Write(content[p], Header, {Torn}) \in Cell(Contents)
      /\ FailedWrite(content[p], Header, {Torn}) \subseteq Cell(Contents)
      /\ Sync(content[p]) \in Cell(Contents)
  BY <1>1, CellTypes
<1> HIDE DEF Names, Contents
<1>4. entry' \in Cell(Names) /\ content' \in [Creator -> Cell(Contents)]
  BY <1>1, <1>2, <1>3 DEF Create, OpenExclusive, WriteHeader, SyncHeader, CheckJournal, SyncEntry,
     Discard, Die
<1>5. /\ journal' \in BOOLEAN
      /\ pc' \in [Creator -> Running \union {"start", "done"}]
      /\ ret' \in [Creator -> {"none", "lost", "TABLE_CREATE_OK", "TABLE_CREATE_ALREADY_EXISTS",
                               "TABLE_CREATE_IO_ERROR"}]
  BY DEF Create, OpenExclusive, WriteHeader, SyncHeader, CheckJournal, SyncEntry, Discard, Die,
         Step, Return, Running, CreateTypeOK
<1> QED BY <1>4, <1>5 DEF CreateTypeOK, Names, Contents

(* and so does a power loss. *)
LEMMA PowerLossTyped == ASSUME CreateTypeOK, PowerLoss
                        PROVE  CreateTypeOK'
<1>1. entry' \in Cell(Creator \union {NoFile})
  <2>1. PICK e \in entry.disk : entry' = Clean(e)
    BY DEF PowerLoss
  <2>2. e \in Creator \union {NoFile}
    BY DEF CreateTypeOK, Cell
  <2> QED BY <2>1, <2>2, CellTypes
<1>2. content' \in [Creator -> Cell({Empty, Torn, Header})]
  BY CellTypes DEF PowerLoss
<1> QED BY <1>1, <1>2 DEF PowerLoss, CreateTypeOK, Running

(* One call moves; what the others rely on stays. *)
LEMMA CreateStep == ASSUME DirSyncSupported, CreateInv, NEW p \in Creator, Create(p) \/ Die(p)
                    PROVE  CreateInv'
<1> USE CellFacts, CreatorAssumption DEF Step, Return, Running
<1>type. CreateTypeOK /\ CreateTypeOK'
  BY CreateStepTyped DEF CreateInv
<1>alone. pc[p] \in Running => \A q \in Creator : ret[q] # "TABLE_CREATE_OK"
  BY HeaderAssumption DEF CreateInv, NameIsOwned, CreatedEndures, Achieved
<1>1. CASE OpenExclusive(p)
  <2>1. entry.now = NoFile => \A q \in Creator : pc[q] \notin Running /\ ret[q] # "TABLE_CREATE_OK"
    BY DEF CreateInv, NameIsOwned, CreatedEndures
  <2>2. NameIsOwned'
    BY <1>1, <1>type, <2>1 DEF OpenExclusive, CreateInv, NameIsOwned, Achieved, CreateTypeOK
  <2>3. Achieved' /\ CreatedEndures'
    BY <1>1, <1>type, <2>1 DEF OpenExclusive, CreateInv, Achieved, CreatedEndures, CreateTypeOK
  <2> QED BY <1>type, <2>2, <2>3 DEF CreateInv
<1>2. CASE WriteHeader(p) \/ SyncHeader(p) \/ CheckJournal(p)
  <2>1. NameIsOwned'
    BY <1>2, <1>type
    DEF WriteHeader, SyncHeader, CheckJournal, CreateInv, NameIsOwned, CreateTypeOK
  <2>2. pc[p] \in Running /\ ret' = ret
    BY <1>2 DEF WriteHeader, SyncHeader, CheckJournal
  <2>3. CreatedEndures'
    BY <2>2, <1>alone DEF CreatedEndures
  <2>4. CASE WriteHeader(p)
    <3>1. \A q \in Creator : q # p => pc'[q] = pc[q] /\ content'[q] = content[q]
      BY <2>4, <1>type DEF WriteHeader, CreateTypeOK
    <3>2. pc'[p] \in {"syncHeader", "discard"} /\ pc[p] = "writeHeader"
      BY <2>4, <1>type DEF WriteHeader, CreateTypeOK
    <3>3. pc'[p] = "syncHeader" => content'[p].now = Header
      BY <2>4, <1>type DEF WriteHeader, CreateTypeOK
    <3>4. Achieved'
      BY <2>2, <2>4, <3>1, <3>2, <3>3 DEF WriteHeader, CreateInv, Achieved
    <3> QED BY <1>type, <2>1, <2>3, <3>4 DEF CreateInv
  <2>5. CASE SyncHeader(p) \/ CheckJournal(p)
    <3>1. pc[p] = "syncHeader" => content[p].now = Header
      BY DEF CreateInv, Achieved
    <3>2. Achieved'
      BY <2>5, <1>type, <2>2, <3>1 DEF SyncHeader, CheckJournal, CreateInv, Achieved, CreateTypeOK
    <3> QED BY <1>type, <2>1, <2>3, <3>2 DEF CreateInv
  <2> QED BY <1>2, <2>4, <2>5
<1>3. CASE SyncEntry(p)
  <2>1. NameIsOwned'
    BY <1>3, <1>type DEF SyncEntry, CreateInv, NameIsOwned, CreateTypeOK,
       util_sync_parent_directory
  <2>2. Achieved'
    <3>1. entry'.disk \subseteq entry.disk
      BY <1>3, <1>type DEF SyncEntry, util_sync_parent_directory, CreateTypeOK, Cell
    <3> QED BY <1>3, <1>type, <3>1 DEF SyncEntry, CreateInv, Achieved, CreateTypeOK
  <2>3. CreatedEndures'
    BY <1>3, <1>type, <1>alone DEF SyncEntry, CreateInv, NameIsOwned, Achieved, CreatedEndures,
       CreateTypeOK, util_sync_parent_directory
  <2> QED BY <1>type, <2>1, <2>2, <2>3 DEF CreateInv
<1>4. CASE Discard(p)
  <2>1. entry.now = p /\ (entry' = Write(entry, NoFile, {}) \/ entry' = entry)
    BY <1>4 DEF Discard, CreateInv, NameIsOwned
  <2>2. NameIsOwned'
    BY <1>4, <2>1, <1>type DEF Discard, CreateInv, NameIsOwned, CreateTypeOK
  <2>3. Achieved' /\ CreatedEndures'
    BY <1>4, <1>type, <1>alone DEF Discard, CreateInv, Achieved, CreatedEndures, CreateTypeOK
  <2> QED BY <1>type, <2>2, <2>3 DEF CreateInv
<1>5. CASE Die(p)
  <2>1. NameIsOwned'
    BY <1>5, <1>type DEF Die, CreateInv, NameIsOwned, CreateTypeOK
  <2>2. Achieved'
    BY <1>5, <1>type DEF Die, CreateInv, Achieved, CreateTypeOK
  <2>3. CreatedEndures'
    BY <1>5, <1>type, <1>alone DEF Die, CreatedEndures, CreateTypeOK
  <2> QED BY <1>type, <2>1, <2>2, <2>3 DEF CreateInv
<1> QED BY <1>1, <1>2, <1>3, <1>4, <1>5 DEF Create

(* The power goes: a created table is on disk, and nobody is at work. *)
LEMMA PowerLossStep == ASSUME CreateInv, PowerLoss
                       PROVE  CreateInv'
<1>1. CreateTypeOK'
  BY PowerLossTyped DEF CreateInv
<1>2. PICK e \in entry.disk : entry' = Clean(e)
  BY DEF PowerLoss
<1>3. PICK c : /\ \A p \in Creator : c[p] \in content[p].disk
               /\ content' = [p \in Creator |-> Clean(c[p])]
  BY DEF PowerLoss
<1>4. /\ pc' = [p \in Creator |-> IF pc[p] \in Running THEN "done" ELSE pc[p]]
      /\ ret' = [p \in Creator |-> IF pc[p] \in Running THEN "lost" ELSE ret[p]]
  BY DEF PowerLoss
<1>5. Achieved'
  <2>1. entry'.disk \subseteq entry.disk
    BY <1>2, CellFacts
  <2> QED BY <1>4, <2>1 DEF CreateInv, Achieved, Running
<1>6. CreatedEndures'
  <2>1. SUFFICES ASSUME NEW p \in Creator, ret'[p] = "TABLE_CREATE_OK"
                 PROVE  entry' = Clean(p) /\ content'[p] = Clean(Header)
    BY DEF CreatedEndures
  <2>2. ret[p] = "TABLE_CREATE_OK"
    BY <1>4, <2>1
  <2>3. entry.disk = {p} /\ content[p].disk = {Header}
    BY <2>2, CellFacts DEF CreateInv, CreatedEndures
  <2>4. e = p /\ c[p] = Header
    BY <1>2, <1>3, <2>3
  <2> QED BY <1>2, <1>3, <2>4
<1>7. NameIsOwned'
  <2>1. \A p \in Creator : pc'[p] \notin Running
    BY <1>4 DEF Running
  <2>2. ASSUME NEW p \in Creator, entry'.now = p
        PROVE  ret'[p] \in {"TABLE_CREATE_OK", "TABLE_CREATE_IO_ERROR", "lost"}
    <3>1. p \in entry.disk
      BY <1>2, <2>2, CellFacts
    <3>2. pc[p] # "start" /\ ret[p] # "TABLE_CREATE_ALREADY_EXISTS"
      BY <3>1 DEF CreateInv, Achieved
    <3>3. pc[p] = "done" => ret[p] # "none"
      BY DEF CreateInv, Achieved
    <3>4. pc[p] \in Running \union {"start", "done"}
      BY DEF CreateInv, CreateTypeOK
    <3>5. ret[p] \in {"none", "lost", "TABLE_CREATE_OK", "TABLE_CREATE_ALREADY_EXISTS",
                      "TABLE_CREATE_IO_ERROR"}
      BY DEF CreateInv, CreateTypeOK
    <3> QED BY <1>4, <3>2, <3>3, <3>4, <3>5
  <2> QED BY <2>1, <2>2 DEF NameIsOwned
<1> QED BY <1>1, <1>5, <1>6, <1>7 DEF CreateInv

-----------------------------------------------------------------------------
(* The name, the files and the calls fit together at every step. *)
THEOREM CreateInvariance == ASSUME DirSyncSupported
                            PROVE  CreateSpec => []CreateInv
<1>1. CreateInv /\ [CreateNext]_createVars => CreateInv'
  <2>1. ASSUME CreateInv, CreateNext
        PROVE  CreateInv'
    BY <2>1, CreateStep, PowerLossStep DEF CreateNext
  <2>2. ASSUME CreateInv, UNCHANGED createVars
        PROVE  CreateInv'
    BY <2>2 DEF createVars, CreateInv, CreateTypeOK, NameIsOwned, Achieved, CreatedEndures
  <2> QED BY <2>1, <2>2
<1> QED BY InitCreateInv, <1>1, PTL DEF CreateSpec

(***************************************************************************)
(* Calls, names and files keep their types, whoever dies where.            *)
(***************************************************************************)
THEOREM CreateTyping == ASSUME DirSyncSupported
                        PROVE  CreateSpec => []CreateTypeOK
<1>1. CreateInv => CreateTypeOK
  BY DEF CreateInv
<1> QED BY CreateInvariance, <1>1, PTL

(***************************************************************************)
(* A created table is there for good, whatever other calls do.             *)
(***************************************************************************)
THEOREM CreatedForGood == ASSUME DirSyncSupported
                          PROVE  CreateSpec => []CreatedEndures
<1>1. CreateInv => CreatedEndures
  BY DEF CreateInv
<1> QED BY CreateInvariance, <1>1, PTL

(***************************************************************************)
(* Of any number of calls for one name, at most one ever succeeds.         *)
(***************************************************************************)
THEOREM AtMostOneCreation == ASSUME DirSyncSupported
                             PROVE  CreateSpec => []OneCreation
<1>1. CreateInv => OneCreation
  BY CellFacts DEF CreateInv, CreatedEndures, OneCreation
<1> QED BY CreateInvariance, <1>1, PTL

(***************************************************************************)
(* While a call is at work the name leads to its file: a call that fails   *)
(* unlinks nobody's file but its own, though it may fail to.               *)
(***************************************************************************)
THEOREM CallsOwnTheirNames == ASSUME DirSyncSupported
                              PROVE  CreateSpec => []NameIsOwned
<1>1. CreateInv => NameIsOwned
  BY DEF CreateInv
<1> QED BY CreateInvariance, <1>1, PTL
=============================================================================
