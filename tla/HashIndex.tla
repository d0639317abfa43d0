------------------------------ MODULE HashIndex ------------------------------
(***************************************************************************)
(* The hash table of src/index.c: chained buckets, as many as a power of   *)
(* two, doubled when three quarters are in use.  A chain is the set of its *)
(* entries: no operation depends on the order of a chain, as long as no    *)
(* key is in it twice.                                                     *)
(*                                                                         *)
(* The table is also written to the index file and loaded again, into      *)
(* buckets counted for its entries; how the file survives is Executor's.   *)
(***************************************************************************)
EXTENDS Integers, FiniteSets

CONSTANTS
  Keys,
  Values,
  Expected,          \* what index_create_sized may be asked for: row or entry counts
  NotFound,          \* what index_lookup finds for a key that is not there
  index_hash,        \* any hash function: from Keys to Nat
  InitialBuckets,    \* INDEX_INITIAL_BUCKETS
  MaxLoadNum,        \* INDEX_MAX_LOAD_NUM
  MaxLoadDen,        \* INDEX_MAX_LOAD_DEN
  SizeMax            \* SIZE_MAX

ASSUME HashAssumption ==
  /\ NotFound \notin Values
  /\ index_hash \in [Keys -> Nat]
ASSUME ExpectedAssumption == Expected \subseteq Nat
ASSUME BucketsAssumption ==
  /\ MaxLoadNum \in Nat \ {0}
  /\ MaxLoadDen \in Nat \ {0}
  /\ InitialBuckets \in Nat
  /\ MaxLoadDen <= InitialBuckets
  /\ SizeMax \in Nat

VARIABLES
  buckets,       \* the chains
  bucket_count,
  entry_count,
  status,        \* the IndexStatus of the latest insert
  expected       \* how many entries the table was created for

hashVars == <<buckets, bucket_count, entry_count, status, expected>>

Entry == [key : Keys, file_offset : Values]

(* A bit mask of a power of two less one *)
Bucket(key, count) == index_hash[key] % count

index_load_limit(count) == (count \div MaxLoadDen) * MaxLoadNum

(* Mutant: the limit may be exceeded by one. *)
RoomForOneMore(count, entries) == entries <= index_load_limit(count)

HasRoom(count, entries) == entries < index_load_limit(count)

(* The initial number of buckets, doubled while a size can hold it *)
BucketCounts == {n \in InitialBuckets..SizeMax : \E i \in 0..SizeMax : n = InitialBuckets * 2^i}

(* Mutant: a size with exactly no room. *)
CountTooSmall(entries) ==
  {n \in BucketCounts : /\ entries <= index_load_limit(n) + 1
                        /\ \A m \in BucketCounts : m < n => entries > index_load_limit(m)}

bucket_count_for_entries(entries) ==
  {n \in BucketCounts : /\ entries <= index_load_limit(n)
                        /\ \A m \in BucketCounts : m < n => entries > index_load_limit(m)}

Entries == UNION {buckets[b] : b \in 0..(bucket_count - 1)}

(* The chains that hold the same entries in so many buckets *)
Rehashed(count) == [b \in 0..(count - 1) |-> {e \in Entries : Bucket(e.key, count) = b}]

(* The entry a chain walk finds for a key *)
Found(key) == {e \in buckets[Bucket(key, bucket_count)] : e.key = key}

index_lookup(key) ==
  IF Found(key) = {} THEN NotFound ELSE (CHOOSE e \in Found(key) : TRUE).file_offset

-----------------------------------------------------------------------------
(* An empty table, as index_create_sized makes it. *)
HashInit ==
  /\ expected \in Expected
  /\ bucket_count \in bucket_count_for_entries(expected)
  /\ buckets = [b \in 0..(bucket_count - 1) |-> {}]
  /\ entry_count = 0
  /\ status = "INDEX_OK"

(* Mutant: every insert that succeeds is counted. *)
ReplaceAndCount(entry) ==
  \E e \in Found(entry.key) :
    /\ buckets' = [buckets EXCEPT ![Bucket(entry.key, bucket_count)] = (@ \ {e}) \union {entry}]
    /\ status' = "INDEX_OK"
    /\ entry_count' = entry_count + 1
    /\ UNCHANGED <<bucket_count, expected>>

(* index_insert with replace *)
ReplaceEntry(entry) ==
  \E e \in Found(entry.key) :
    /\ buckets' = [buckets EXCEPT ![Bucket(entry.key, bucket_count)] = (@ \ {e}) \union {entry}]
    /\ status' = "INDEX_OK"
    /\ UNCHANGED <<bucket_count, entry_count, expected>>

(* index_insert without *)
RefuseEntry(entry) ==
  /\ Found(entry.key) # {}
  /\ status' = "INDEX_DUPLICATE_KEY"
  /\ UNCHANGED <<buckets, bucket_count, entry_count, expected>>

(* The new node goes to the head of its chain. *)
Link(entry, chains, count) ==
  /\ buckets' = [chains EXCEPT ![Bucket(entry.key, count)] = @ \union {entry}]
  /\ bucket_count' = count
  /\ entry_count' = entry_count + 1
  /\ status' = "INDEX_OK"
  /\ UNCHANGED expected

AddEntry(entry) ==
  /\ Found(entry.key) = {}
  /\ HasRoom(bucket_count, entry_count)
  /\ Link(entry, buckets, bucket_count)

MayGrow == ~HasRoom(bucket_count, entry_count) /\ bucket_count <= SizeMax \div 2

(* Mutant: the bucket found before the resize is used after it. *)
GrowAndAddStale(entry) ==
  /\ Found(entry.key) = {}
  /\ MayGrow
  /\ buckets' = [Rehashed(2 * bucket_count) EXCEPT
                   ![Bucket(entry.key, bucket_count)] = @ \union {entry}]
  /\ bucket_count' = 2 * bucket_count
  /\ entry_count' = entry_count + 1
  /\ status' = "INDEX_OK"
  /\ UNCHANGED expected

GrowAndAdd(entry) ==
  /\ Found(entry.key) = {}
  /\ MayGrow
  /\ Link(entry, Rehashed(2 * bucket_count), 2 * bucket_count)

(* The resize was done when the node could not be allocated. *)
GrowOnly(entry) ==
  /\ Found(entry.key) = {}
  /\ MayGrow
  /\ buckets' = Rehashed(2 * bucket_count)
  /\ bucket_count' = 2 * bucket_count
  /\ status' = "INDEX_ALLOC_ERROR"
  /\ UNCHANGED <<entry_count, expected>>

(* No memory for the node or for the larger table, or no larger size. *)
AddNothing(entry) ==
  /\ Found(entry.key) = {}
  /\ status' = "INDEX_ALLOC_ERROR"
  /\ UNCHANGED <<buckets, bucket_count, entry_count, expected>>

(* index_persist, and index_load in a later statement: a table sized for   *)
(* the entries, which are then inserted one by one (SizedForExpected is    *)
(* why none of these inserts grows it).                                    *)
Reload ==
  /\ expected' = entry_count
  /\ bucket_count' \in bucket_count_for_entries(entry_count)
  /\ buckets' = Rehashed(bucket_count')
  /\ UNCHANGED <<entry_count, status>>

HashNext ==
  \/ \E entry \in Entry :
       \/ ReplaceEntry(entry) \/ RefuseEntry(entry)
       \/ AddEntry(entry) \/ GrowAndAdd(entry) \/ GrowOnly(entry) \/ AddNothing(entry)
  \/ Reload

HashSpec == HashInit /\ [][HashNext]_hashVars

-----------------------------------------------------------------------------
HashTypeOK ==
  /\ bucket_count \in Nat \ {0}
  /\ buckets \in [0..(bucket_count - 1) -> SUBSET Entry]
  /\ entry_count \in Nat
  /\ status \in {"INDEX_OK", "INDEX_DUPLICATE_KEY", "INDEX_ALLOC_ERROR"}
  /\ expected \in Nat

(* Three quarters of the buckets at most are in use.                       *)
LoadBound == entry_count <= index_load_limit(bucket_count)

(* The count index_persist writes in the header of the index file is that  *)
(* of the entries it writes behind it: index_load rejects any other file.  *)
CountIsExact == entry_count = Cardinality(Entries)

(* A table created for as many entries as a file or a table has takes them *)
(* all without growing, so loading and rebuilding never fail for a resize. *)
SizedForExpected == entry_count < expected => HasRoom(bucket_count, entry_count)

(* Every lookup and every insert is one of a map, whatever the chains, the *)
(* resizes, and the allocations that failed.                               *)
ImplementsKeyMap == INSTANCE KeyMap WITH map <- [key \in Keys |-> index_lookup(key)]

AsKeyMap == ImplementsKeyMap!Spec
=============================================================================
