--------------------------- MODULE HashIndexProofs ---------------------------
(***************************************************************************)
(* The hash table of an index is a map, for every hash function, key set   *)
(* and load factor.  The invariant says that the chains are a function of  *)
(* the entries alone, as if they had just been rehashed; then no step need *)
(* be followed into a chain, and a resize changes nothing a lookup sees.   *)
(***************************************************************************)
EXTENDS HashIndex, FiniteSetTheorems, TLAPS

(* The chains a rehash of the entries makes. *)
Chains(entries, count) == [b \in 0..(count - 1) |-> {e \in entries : Bucket(e.key, count) = b}]

(* Every key has one entry at most.                                        *)
Unique(entries) == \A e, f \in entries : e.key = f.key => e = f

(* The invariant of the table, which HashInvariance proves. *)
HashInv ==
  /\ HashTypeOK
  /\ buckets = Chains(Entries, bucket_count)
  /\ Unique(Entries)
  /\ IsFiniteSet(Entries)
  /\ CountIsExact
  /\ bucket_count >= MaxLoadDen
  /\ LoadBound
  /\ expected <= index_load_limit(bucket_count)

-----------------------------------------------------------------------------
(* The bucket of a key is one of the buckets.                              *)
LEMMA BucketInRange ==
  ASSUME NEW key \in Keys, NEW count \in Nat \ {0}
  PROVE  Bucket(key, count) \in 0..(count - 1)
<1>1. index_hash[key] \in Nat
  BY HashAssumption
<1> QED BY <1>1 DEF Bucket

(* Rehashing loses no entry and adds none.                                 *)
LEMMA ChainsHoldEntries ==
  ASSUME NEW entries \in SUBSET Entry, NEW count \in Nat \ {0}
  PROVE  /\ UNION {Chains(entries, count)[b] : b \in 0..(count - 1)} = entries
         /\ Chains(entries, count) \in [0..(count - 1) -> SUBSET Entry]
<1>1. \A e \in entries : Bucket(e.key, count) \in 0..(count - 1)
  BY BucketInRange DEF Entry
<1>2. ASSUME NEW e \in entries
      PROVE  e \in Chains(entries, count)[Bucket(e.key, count)]
  BY <1>1 DEF Chains
<1>3. \A b \in 0..(count - 1) : Chains(entries, count)[b] \subseteq entries
  BY DEF Chains
<1> QED BY <1>1, <1>2, <1>3 DEF Chains

(* The chain of a key holds what the entries hold for it.                  *)
LEMMA FoundAmongEntries ==
  ASSUME HashInv, NEW key \in Keys
  PROVE  Found(key) = {e \in Entries : e.key = key}
<1>1. Bucket(key, bucket_count) \in 0..(bucket_count - 1)
  BY BucketInRange DEF HashInv, HashTypeOK
<1>2. buckets[Bucket(key, bucket_count)]
        = {e \in Entries : Bucket(e.key, bucket_count) = Bucket(key, bucket_count)}
  BY <1>1 DEF HashInv, Chains
<1> QED BY <1>2 DEF Found

(* A node linked into its chain is an entry more.                          *)
LEMMA ChainsAdd ==
  ASSUME NEW entries \in SUBSET Entry, NEW count \in Nat \ {0}, NEW entry \in Entry
  PROVE  [Chains(entries, count) EXCEPT ![Bucket(entry.key, count)] = @ \union {entry}]
           = Chains(entries \union {entry}, count)
<1>1. Bucket(entry.key, count) \in 0..(count - 1)
  BY BucketInRange DEF Entry
<1> QED BY <1>1 DEF Chains

(* An offset replaced in its chain is replaced among the entries.          *)
LEMMA ChainsReplace ==
  ASSUME NEW entries \in SUBSET Entry, NEW count \in Nat \ {0}, NEW entry \in Entry,
         NEW e \in entries, e.key = entry.key
  PROVE  [Chains(entries, count) EXCEPT ![Bucket(entry.key, count)] = (@ \ {e}) \union {entry}]
           = Chains((entries \ {e}) \union {entry}, count)
<1>1. Bucket(entry.key, count) \in 0..(count - 1)
  BY BucketInRange DEF Entry
<1> QED BY <1>1 DEF Chains

(* Twice the buckets take an entry more at least.                          *)
LEMMA LimitGrows ==
  ASSUME NEW n \in Nat, n >= MaxLoadDen
  PROVE  /\ index_load_limit(n) \in Nat
         /\ index_load_limit(2 * n) \in Nat
         /\ index_load_limit(2 * n) >= index_load_limit(n) + 1
<1> DEFINE q == n \div MaxLoadDen
           d == (2 * n) \div MaxLoadDen
<1>den. MaxLoadDen \in Int /\ MaxLoadDen > 0 /\ MaxLoadNum \in Nat /\ MaxLoadNum > 0
  BY BucketsAssumption
<1>1. /\ q \in Int
      /\ n % MaxLoadDen \in 0..(MaxLoadDen - 1)
      /\ n = MaxLoadDen * q + (n % MaxLoadDen)
  BY <1>den
<1>2. /\ d \in Int
      /\ (2 * n) % MaxLoadDen \in 0..(MaxLoadDen - 1)
      /\ 2 * n = MaxLoadDen * d + ((2 * n) % MaxLoadDen)
  BY <1>den
<1> HIDE DEF q, d
<1>3. q >= 1
  <2> SUFFICES ASSUME q <= 0 PROVE FALSE
    BY <1>1
  <2>1. MaxLoadDen * q <= 0
    BY <1>1, <1>den
  <2> QED BY <1>1, <1>den, <2>1
<1>4. d >= 2 * q
  <2> SUFFICES ASSUME d + 1 <= 2 * q PROVE FALSE
    BY <1>1, <1>2
  <2> DEFINE k == 2 * q - (d + 1)
  <2>1. k \in Nat /\ 2 * q = d + 1 + k
    BY <1>1, <1>2
  <2> HIDE DEF k
  <2>2. MaxLoadDen * (2 * q) = MaxLoadDen * d + MaxLoadDen + MaxLoadDen * k
    <3>1. MaxLoadDen * (d + 1 + k) = MaxLoadDen * d + MaxLoadDen + MaxLoadDen * k
      BY <1>2, <1>den, <2>1
    <3> QED BY <2>1, <3>1
  <2>3. MaxLoadDen * k >= 0 /\ MaxLoadDen * k \in Int /\ MaxLoadDen * d \in Int
    BY <1>2, <1>den, <2>1
  <2>4. MaxLoadDen * (2 * q) = 2 * (MaxLoadDen * q) /\ MaxLoadDen * q \in Int
    BY <1>1, <1>den
  <2> QED BY <1>1, <1>2, <1>den, <2>2, <2>3, <2>4
<1>5. /\ q * MaxLoadNum \in Nat
      /\ d * MaxLoadNum \in Nat
      /\ d * MaxLoadNum >= q * MaxLoadNum + 1
  <2> DEFINE k == d - (q + 1)
  <2>1. k \in Nat /\ d = q + 1 + k
    BY <1>1, <1>2, <1>3, <1>4
  <2> HIDE DEF k
  <2>2. d * MaxLoadNum = q * MaxLoadNum + MaxLoadNum + k * MaxLoadNum
    <3>1. (q + 1 + k) * MaxLoadNum = q * MaxLoadNum + MaxLoadNum + k * MaxLoadNum
      BY <1>1, <1>den, <2>1
    <3> QED BY <2>1, <3>1
  <2>3. q * MaxLoadNum \in Nat /\ k * MaxLoadNum \in Nat
    BY <1>1, <1>3, <1>den, <2>1
  <2> QED BY <1>den, <2>2, <2>3
<1> QED BY <1>5 DEF index_load_limit, q, d

-----------------------------------------------------------------------------
(* What a step makes of the entries, for the steps that link a node.       *)
LEMMA LinkInv ==
  ASSUME HashInv,
         NEW entry \in Entry, Found(entry.key) = {},
         NEW count \in Nat \ {0},
         count >= bucket_count,
         index_load_limit(count) \in Nat,
         index_load_limit(count) >= index_load_limit(bucket_count),
         entry_count < index_load_limit(count),
         Link(entry, Chains(Entries, count), count)
  PROVE  HashInv' /\ Entries' = Entries \union {entry}
<1> DEFINE after == Entries \union {entry}
<1>type. /\ bucket_count \in Nat \ {0}
         /\ entry_count \in Nat /\ expected \in Nat
         /\ buckets \in [0..(bucket_count - 1) -> SUBSET Entry]
         /\ Entries \in SUBSET Entry
         /\ entry.key \in Keys
  BY DEF HashInv, HashTypeOK, Entries, Entry
<1>1. /\ bucket_count' = count
      /\ entry_count' = entry_count + 1
      /\ expected' = expected
      /\ status' = "INDEX_OK"
      /\ buckets' = Chains(after, count)
  BY <1>type, ChainsAdd DEF Link
<1>2. after \in SUBSET Entry
  BY <1>type
<1>3. Entries' = after /\ buckets' \in [0..(count - 1) -> SUBSET Entry]
  <2>1. Entries' = UNION {Chains(after, count)[b] : b \in 0..(count - 1)}
    BY <1>1 DEF Entries
  <2> QED BY <1>1, <1>2, <2>1, ChainsHoldEntries
<1>4. entry \notin Entries /\ \A e \in Entries : e.key # entry.key
  BY <1>type, FoundAmongEntries
<1>5. Unique(after)
  BY <1>4 DEF Unique, HashInv
<1>6. IsFiniteSet(after) /\ Cardinality(after) = entry_count + 1
  BY <1>4, FS_AddElement DEF HashInv, CountIsExact
<1>7. HashTypeOK'
  <2>1. buckets' \in [0..(bucket_count' - 1) -> SUBSET Entry]
    BY <1>1, <1>3
  <2> HIDE DEF after
  <2> QED BY <1>1, <1>type, <2>1 DEF HashTypeOK
<1>8. buckets' = Chains(Entries', bucket_count')
  BY <1>1, <1>3
<1>9. (bucket_count >= MaxLoadDen)'
  BY <1>1, <1>type, BucketsAssumption DEF HashInv
<1>10. LoadBound'
  <2>1. entry_count + 1 <= index_load_limit(count)
    BY <1>type
  <2> QED BY <1>1, <2>1 DEF LoadBound, index_load_limit
<1>11. (expected <= index_load_limit(bucket_count))'
  <2>1. index_load_limit(bucket_count) \in Nat
    BY <1>type, LimitGrows DEF HashInv
  <2>2. expected <= index_load_limit(count)
    BY <2>1, <1>type DEF HashInv
  <2> QED BY <1>1, <2>2 DEF index_load_limit
<1> QED BY <1>1, <1>3, <1>5, <1>6, <1>7, <1>8, <1>9, <1>10, <1>11 DEF HashInv, CountIsExact

(* A step that rehashes into enough buckets and counts nothing.            *)
LEMMA RehashInv ==
  ASSUME HashInv,
         NEW count \in Nat \ {0},
         count >= MaxLoadDen,
         entry_count <= index_load_limit(count),
         expected' \in Nat,
         expected' <= index_load_limit(count),
         bucket_count' = count,
         buckets' = Chains(Entries, count),
         entry_count' = entry_count,
         status' \in {"INDEX_OK", "INDEX_DUPLICATE_KEY", "INDEX_ALLOC_ERROR"}
  PROVE  HashInv' /\ Entries' = Entries
<1>type. /\ entry_count \in Nat
         /\ Entries \in SUBSET Entry
  BY DEF HashInv, HashTypeOK, Entries
<1>1. Entries' = Entries /\ buckets' \in [0..(count - 1) -> SUBSET Entry]
  <2>1. Entries' = UNION {Chains(Entries, count)[b] : b \in 0..(count - 1)}
    BY DEF Entries
  <2> QED BY <1>type, <2>1, ChainsHoldEntries
<1>2. HashTypeOK'
  BY <1>1, <1>type DEF HashTypeOK
<1>3. LoadBound' /\ (expected <= index_load_limit(bucket_count))'
  BY DEF LoadBound, index_load_limit
<1> QED BY <1>1, <1>2, <1>3 DEF HashInv, CountIsExact

(* A replaced offset.                                                      *)
LEMMA ReplaceInv ==
  ASSUME HashInv, NEW entry \in Entry, NEW e \in Found(entry.key),
         buckets' = [buckets EXCEPT ![Bucket(entry.key, bucket_count)] = (@ \ {e}) \union {entry}],
         status' = "INDEX_OK",
         UNCHANGED <<bucket_count, entry_count, expected>>
  PROVE  HashInv' /\ Entries' = (Entries \ {e}) \union {entry}
<1> DEFINE after == (Entries \ {e}) \union {entry}
<1>type. /\ bucket_count \in Nat \ {0}
         /\ entry_count \in Nat /\ expected \in Nat
         /\ Entries \in SUBSET Entry
         /\ entry.key \in Keys
  BY DEF HashInv, HashTypeOK, Entries, Entry
<1>1. e \in Entries /\ e.key = entry.key
  BY <1>type, FoundAmongEntries
<1>2. buckets' = Chains(after, bucket_count)
  BY <1>1, <1>type, ChainsReplace DEF HashInv
<1>3. after \in SUBSET Entry
  BY <1>type
<1>4. Entries' = after /\ buckets' \in [0..(bucket_count - 1) -> SUBSET Entry]
  <2>1. Entries' = UNION {Chains(after, bucket_count)[b] : b \in 0..(bucket_count - 1)}
    BY <1>2 DEF Entries
  <2> HIDE DEF after
  <2>2. /\ UNION {Chains(after, bucket_count)[b] : b \in 0..(bucket_count - 1)} = after
        /\ Chains(after, bucket_count) \in [0..(bucket_count - 1) -> SUBSET Entry]
    BY <1>3, <1>type, ChainsHoldEntries
  <2> QED BY <1>2, <2>1, <2>2
<1>5. \A f \in Entries \ {e} : f.key # entry.key
  BY <1>1 DEF HashInv, Unique
<1>6. Unique(after)
  BY <1>5 DEF HashInv, Unique
<1>7. IsFiniteSet(after) /\ Cardinality(after) = Cardinality(Entries)
  <2>1. /\ IsFiniteSet(Entries \ {e})
        /\ Cardinality(Entries \ {e}) = Cardinality(Entries) - 1
    BY <1>1, FS_RemoveElement DEF HashInv
  <2>2. entry \notin Entries \ {e}
    BY <1>5
  <2>3. IsFiniteSet(after) /\ Cardinality(after) = Cardinality(Entries) - 1 + 1
    BY <2>1, <2>2, FS_AddElement
  <2>4. Cardinality(Entries) \in Nat
    BY FS_CardinalityType DEF HashInv
  <2> QED BY <2>3, <2>4
<1>8. HashTypeOK'
  BY <1>4, <1>type DEF HashTypeOK
<1> QED BY <1>2, <1>4, <1>6, <1>7, <1>8
        DEF HashInv, CountIsExact, LoadBound, index_load_limit

-----------------------------------------------------------------------------
(* The sizes a table is created with take the entries it is created for.   *)
LEMMA CreatedSize ==
  ASSUME NEW entries \in Nat, NEW count \in bucket_count_for_entries(entries)
  PROVE  /\ count \in Nat \ {0}
         /\ count >= MaxLoadDen
         /\ entries <= index_load_limit(count)
  BY BucketsAssumption DEF bucket_count_for_entries, BucketCounts

(* It holds of a table just created, which is empty. *)
LEMMA InitHashInv == HashInit => HashInv /\ Entries = {}
<1> SUFFICES ASSUME HashInit PROVE HashInv /\ Entries = {}
  OBVIOUS
<1>1. /\ bucket_count \in Nat \ {0}
      /\ bucket_count >= MaxLoadDen
      /\ expected <= index_load_limit(bucket_count)
      /\ expected \in Nat /\ entry_count = 0
      /\ buckets = [b \in 0..(bucket_count - 1) |-> {}]
  BY CreatedSize, ExpectedAssumption DEF HashInit
<1>2. Entries = {}
  BY <1>1 DEF Entries
<1>3. buckets = Chains(Entries, bucket_count)
  BY <1>1, <1>2 DEF Chains
<1>4. HashTypeOK
  BY <1>1 DEF HashTypeOK, HashInit
<1>5. IsFiniteSet(Entries) /\ Cardinality(Entries) = 0
  BY <1>2, FS_EmptySet
<1>6. index_load_limit(bucket_count) \in Int
  BY <1>1, BucketsAssumption DEF index_load_limit
<1> QED BY <1>1, <1>2, <1>3, <1>4, <1>5, <1>6
        DEF HashInv, Unique, CountIsExact, LoadBound

(* What each step makes of the entries.                                    *)
LEMMA NextHashInv ==
  ASSUME HashInv, [HashNext]_hashVars
  PROVE  /\ HashInv'
         /\ \/ \E entry \in Entry : /\ Found(entry.key) = {}
                                    /\ Entries' = Entries \union {entry}
                                    /\ status' = "INDEX_OK"
            \/ \E entry \in Entry : /\ Found(entry.key) = {}
                                    /\ Entries' = Entries
                                    /\ status' = "INDEX_ALLOC_ERROR"
            \/ \E entry \in Entry, e \in Entries :
                                    /\ e \in Found(entry.key)
                                    /\ Entries' = (Entries \ {e}) \union {entry}
                                    /\ status' = "INDEX_OK"
            \/ \E entry \in Entry : /\ Found(entry.key) # {}
                                    /\ Entries' = Entries
                                    /\ status' = "INDEX_DUPLICATE_KEY"
            \/ Entries' = Entries /\ status' = status
<1>type. /\ bucket_count \in Nat \ {0} /\ bucket_count >= MaxLoadDen
         /\ entry_count \in Nat /\ expected \in Nat
         /\ status \in {"INDEX_OK", "INDEX_DUPLICATE_KEY", "INDEX_ALLOC_ERROR"}
         /\ Entries \in SUBSET Entry
  BY DEF HashInv, HashTypeOK, Entries
<1>limit. /\ index_load_limit(bucket_count) \in Nat
          /\ index_load_limit(2 * bucket_count) \in Nat
          /\ index_load_limit(2 * bucket_count) >= index_load_limit(bucket_count) + 1
          /\ entry_count <= index_load_limit(bucket_count)
          /\ expected <= index_load_limit(bucket_count)
          /\ 2 * bucket_count \in Nat \ {0} /\ 2 * bucket_count >= bucket_count
          /\ 2 * bucket_count >= MaxLoadDen
          /\ entry_count < index_load_limit(2 * bucket_count)
          /\ expected <= index_load_limit(2 * bucket_count)
  <2>1. /\ index_load_limit(bucket_count) \in Nat
        /\ index_load_limit(2 * bucket_count) \in Nat
        /\ index_load_limit(2 * bucket_count) >= index_load_limit(bucket_count) + 1
    BY <1>type, LimitGrows
  <2>2. /\ entry_count <= index_load_limit(bucket_count)
        /\ expected <= index_load_limit(bucket_count)
    BY DEF HashInv, LoadBound
  <2> QED BY <1>type, <2>1, <2>2, BucketsAssumption
<1>rehashed. \A count : Rehashed(count) = Chains(Entries, count)
  BY DEF Rehashed, Chains
<1>1. ASSUME NEW entry \in Entry, ReplaceEntry(entry)
      PROVE  /\ HashInv'
             /\ \E e \in Entries : /\ e \in Found(entry.key)
                                   /\ Entries' = (Entries \ {e}) \union {entry}
                                   /\ status' = "INDEX_OK"
  <2>1. PICK e \in Found(entry.key) :
          /\ buckets' = [buckets EXCEPT ![Bucket(entry.key, bucket_count)] = (@ \ {e}) \union {entry}]
          /\ status' = "INDEX_OK"
          /\ UNCHANGED <<bucket_count, entry_count, expected>>
    BY <1>1 DEF ReplaceEntry
  <2>2. HashInv' /\ Entries' = (Entries \ {e}) \union {entry}
    BY <2>1, ReplaceInv
  <2>3. e \in Entries
    BY FoundAmongEntries DEF Entry
  <2> QED BY <2>1, <2>2, <2>3
<1>2. ASSUME NEW entry \in Entry, RefuseEntry(entry)
      PROVE  /\ HashInv'
             /\ Found(entry.key) # {} /\ Entries' = Entries /\ status' = "INDEX_DUPLICATE_KEY"
  <2>1. /\ Found(entry.key) # {} /\ status' = "INDEX_DUPLICATE_KEY"
        /\ UNCHANGED <<buckets, bucket_count, entry_count, expected>>
    BY <1>2 DEF RefuseEntry
  <2>2. bucket_count' = bucket_count /\ buckets' = Chains(Entries, bucket_count)
    BY <2>1 DEF HashInv
  <2> QED BY <2>1, <2>2, <1>type, <1>limit, RehashInv
<1>3. ASSUME NEW entry \in Entry, AddEntry(entry)
      PROVE  /\ HashInv'
             /\ Found(entry.key) = {} /\ Entries' = Entries \union {entry} /\ status' = "INDEX_OK"
  <2>1. /\ Found(entry.key) = {}
        /\ entry_count < index_load_limit(bucket_count)
        /\ Link(entry, Chains(Entries, bucket_count), bucket_count)
    BY <1>3 DEF AddEntry, HashInv, HasRoom
  <2>2. status' = "INDEX_OK"
    BY <2>1 DEF Link
  <2> QED BY <2>1, <2>2, <1>type, <1>limit, LinkInv
<1>4. ASSUME NEW entry \in Entry, GrowAndAdd(entry)
      PROVE  /\ HashInv'
             /\ Found(entry.key) = {} /\ Entries' = Entries \union {entry} /\ status' = "INDEX_OK"
  <2>1. /\ Found(entry.key) = {}
        /\ Link(entry, Chains(Entries, 2 * bucket_count), 2 * bucket_count)
    BY <1>4, <1>rehashed DEF GrowAndAdd
  <2>2. status' = "INDEX_OK"
    BY <2>1 DEF Link
  <2>3. index_load_limit(2 * bucket_count) >= index_load_limit(bucket_count)
    BY <1>limit
  <2> QED BY <2>1, <2>2, <2>3, <1>type, <1>limit, LinkInv
<1>5. ASSUME NEW entry \in Entry, GrowOnly(entry)
      PROVE  /\ HashInv'
             /\ Found(entry.key) = {} /\ Entries' = Entries /\ status' = "INDEX_ALLOC_ERROR"
  <2>1. /\ Found(entry.key) = {} /\ status' = "INDEX_ALLOC_ERROR"
        /\ buckets' = Chains(Entries, 2 * bucket_count)
        /\ bucket_count' = 2 * bucket_count
        /\ entry_count' = entry_count /\ expected' = expected
    BY <1>5, <1>rehashed DEF GrowOnly
  <2>2. entry_count <= index_load_limit(2 * bucket_count)
    BY <1>limit, <1>type
  <2> QED BY <2>1, <2>2, <1>type, <1>limit, RehashInv
<1>6. ASSUME NEW entry \in Entry, AddNothing(entry)
      PROVE  /\ HashInv'
             /\ Found(entry.key) = {} /\ Entries' = Entries /\ status' = "INDEX_ALLOC_ERROR"
  <2>1. /\ Found(entry.key) = {} /\ status' = "INDEX_ALLOC_ERROR"
        /\ UNCHANGED <<buckets, bucket_count, entry_count, expected>>
    BY <1>6 DEF AddNothing
  <2>2. bucket_count' = bucket_count /\ buckets' = Chains(Entries, bucket_count)
    BY <2>1 DEF HashInv
  <2> QED BY <2>1, <2>2, <1>type, <1>limit, RehashInv
<1>7. CASE Reload
  <2>1. /\ expected' = entry_count
        /\ bucket_count' \in bucket_count_for_entries(entry_count)
        /\ buckets' = Chains(Entries, bucket_count')
        /\ entry_count' = entry_count /\ status' = status
    BY <1>7, <1>rehashed DEF Reload
  <2>2. /\ bucket_count' \in Nat \ {0}
        /\ bucket_count' >= MaxLoadDen
        /\ entry_count <= index_load_limit(bucket_count')
    BY <2>1, <1>type, CreatedSize
  <2>3. HashInv' /\ Entries' = Entries
    BY <2>1, <2>2, <1>type, RehashInv
  <2> QED BY <2>1, <2>3
<1>8. CASE UNCHANGED hashVars
  <2>1. Entries' = Entries
    BY <1>8 DEF hashVars, Entries
  <2> QED BY <1>8, <2>1 DEF hashVars, HashInv, HashTypeOK, CountIsExact, LoadBound, index_load_limit
<1> QED BY <1>1, <1>2, <1>3, <1>4, <1>5, <1>6, <1>7, <1>8 DEF HashNext

-----------------------------------------------------------------------------
(* Keys never leave their chain, counts and limits are kept.               *)
THEOREM HashInvariance == HashSpec => []HashInv
<1>1. HashInit => HashInv
  BY InitHashInv
<1>2. HashInv /\ [HashNext]_hashVars => HashInv'
  BY NextHashInv
<1> QED BY <1>1, <1>2, PTL DEF HashSpec

(* The header of an index file has the count of the entries behind it.     *)
THEOREM HeaderCount == HashSpec => []CountIsExact
  BY HashInvariance, PTL DEF HashInv

(* Entries stay in buckets, through every resize.                          *)
THEOREM HashTyping == HashSpec => []HashTypeOK
  BY HashInvariance, PTL DEF HashInv

(* At most MaxLoadNum of MaxLoadDen buckets' worth of entries are in use.  *)
THEOREM BoundedLoad == HashSpec => []LoadBound
  BY HashInvariance, PTL DEF HashInv

(* A table created for more entries than it has takes one more. *)
LEMMA InvSized == HashInv => SizedForExpected
  BY BucketsAssumption, LimitGrows DEF HashInv, HashTypeOK, SizedForExpected, HasRoom

(* Loading or rebuilding an index never resizes it.                        *)
THEOREM LoadsWithoutResize == HashSpec => []SizedForExpected
  BY HashInvariance, InvSized, PTL

-----------------------------------------------------------------------------
(* What a lookup finds depends on the entries alone.                       *)
LooksUpEntries ==
  \A key \in Keys :
    /\ \A e \in Entries : e.key = key => index_lookup(key) = e.file_offset
    /\ (\A e \in Entries : e.key # key) => index_lookup(key) = NotFound

(* A lookup finds the offset of the one entry of its key, if there is any. *)
LEMMA LookupIsEntries == HashInv => LooksUpEntries
<1> SUFFICES ASSUME HashInv, NEW key \in Keys
             PROVE  /\ \A e \in Entries : e.key = key => index_lookup(key) = e.file_offset
                    /\ (\A e \in Entries : e.key # key) => index_lookup(key) = NotFound
  BY DEF LooksUpEntries
<1>1. Found(key) = {e \in Entries : e.key = key}
  BY FoundAmongEntries
<1>2. ASSUME NEW e \in Entries, e.key = key
      PROVE  index_lookup(key) = e.file_offset
  <2>1. Found(key) = {e}
    BY <1>1, <1>2 DEF HashInv, Unique
  <2> QED BY <2>1 DEF index_lookup
<1>3. ASSUME \A e \in Entries : e.key # key
      PROVE  index_lookup(key) = NotFound
  BY <1>1, <1>3 DEF index_lookup
<1> QED BY <1>2, <1>3

(* The same of the next state. *)
LEMMA LookupIsEntriesNext == HashInv' => LooksUpEntries'
  BY LookupIsEntries, PTL

(* The map a table stands for. *)
Map == [key \in Keys |-> index_lookup(key)]

(* An empty table is the empty map. *)
LEMMA InitKeyMap == HashInit => ImplementsKeyMap!Init
  BY InitHashInv, LookupIsEntries DEF LooksUpEntries, ImplementsKeyMap!Init, HashInit

(* Every step is one of the map, or leaves it alone. *)
LEMMA NextKeyMap ==
  HashInv /\ [HashNext]_hashVars => [ImplementsKeyMap!Next]_<<Map, status>>
<1> SUFFICES ASSUME HashInv, [HashNext]_hashVars
             PROVE  ImplementsKeyMap!Next \/ UNCHANGED <<Map, status>>
  BY DEF Map
<1>inv. HashInv' /\ Entries \in SUBSET Entry
  BY NextHashInv DEF HashInv, HashTypeOK, Entries
<1>now. \A key \in Keys :
          /\ \A e \in Entries : e.key = key => Map[key] = e.file_offset
          /\ (\A e \in Entries : e.key # key) => Map[key] = NotFound
  BY LookupIsEntries DEF LooksUpEntries, Map
<1>then. \A key \in Keys :
           /\ \A e \in Entries' : e.key = key => Map'[key] = e.file_offset
           /\ (\A e \in Entries' : e.key # key) => Map'[key] = NotFound
  BY <1>inv, LookupIsEntriesNext DEF LooksUpEntries, Map
<1>dom. Map = [key \in Keys |-> Map[key]] /\ Map' = [key \in Keys |-> Map'[key]]
  BY DEF Map
<1> HIDE DEF Map
<1>same. ASSUME Entries' = Entries
         PROVE  Map' = Map
  <2>1. ASSUME NEW key \in Keys
        PROVE  Map'[key] = Map[key]
    <3>1. CASE \E e \in Entries : e.key = key
      BY <1>same, <1>now, <1>then, <3>1
    <3>2. CASE \A e \in Entries : e.key # key
      BY <1>same, <1>now, <1>then, <3>2
    <3> QED BY <3>1, <3>2
  <2> QED BY <1>dom, <2>1
<1>found. \A entry \in Entry : Found(entry.key) = {e \in Entries : e.key = entry.key}
  BY FoundAmongEntries DEF Entry
<1>there. \A entry \in Entry : Found(entry.key) # {} => Map[entry.key] # NotFound
  BY <1>found, <1>now, <1>inv, HashAssumption DEF Entry
<1>1. ASSUME NEW entry \in Entry, Found(entry.key) = {},
             Entries' = Entries \union {entry}, status' = "INDEX_OK"
      PROVE  ImplementsKeyMap!Add(entry.key, entry.file_offset)
  <2>1. \A e \in Entries : e.key # entry.key
    BY <1>1, <1>found
  <2>2. Map[entry.key] = NotFound
    BY <2>1, <1>now DEF Entry
  <2>3. ASSUME NEW key \in Keys
        PROVE  Map'[key] = IF key = entry.key THEN entry.file_offset ELSE Map[key]
    <3>1. CASE key = entry.key
      BY <1>1, <1>then, <3>1
    <3>2. CASE key # entry.key /\ \E e \in Entries : e.key = key
      BY <1>1, <1>now, <1>then, <3>2
    <3>3. CASE key # entry.key /\ \A e \in Entries : e.key # key
      BY <1>1, <1>now, <1>then, <3>3
    <3> QED BY <3>1, <3>2, <3>3
  <2>4. Map' = [Map EXCEPT ![entry.key] = entry.file_offset]
    BY <1>dom, <2>3
  <2> QED BY <1>1, <2>2, <2>4 DEF ImplementsKeyMap!Add, Map
<1>2. ASSUME NEW entry \in Entry, Found(entry.key) = {},
             Entries' = Entries, status' = "INDEX_ALLOC_ERROR"
      PROVE  ImplementsKeyMap!Add(entry.key, entry.file_offset)
  <2>1. Map[entry.key] = NotFound
    BY <1>2, <1>found, <1>now DEF Entry
  <2> QED BY <1>2, <1>same, <2>1 DEF ImplementsKeyMap!Add, Map
<1>3. ASSUME NEW entry \in Entry, NEW e \in Entries, e \in Found(entry.key),
             Entries' = (Entries \ {e}) \union {entry}, status' = "INDEX_OK"
      PROVE  ImplementsKeyMap!Replace(entry.key, entry.file_offset)
  <2>1. e.key = entry.key /\ Map[entry.key] # NotFound
    BY <1>3, <1>found, <1>there
  <2>2. ASSUME NEW key \in Keys
        PROVE  Map'[key] = IF key = entry.key THEN entry.file_offset ELSE Map[key]
    <3>1. CASE key = entry.key
      BY <1>3, <1>then, <3>1
    <3>2. CASE key # entry.key /\ \E f \in Entries : f.key = key
      BY <1>3, <1>now, <1>then, <2>1, <3>2
    <3>3. CASE key # entry.key /\ \A f \in Entries : f.key # key
      BY <1>3, <1>now, <1>then, <3>3
    <3> QED BY <3>1, <3>2, <3>3
  <2>3. Map' = [Map EXCEPT ![entry.key] = entry.file_offset]
    BY <1>dom, <2>2
  <2> QED BY <1>3, <2>1, <2>3 DEF ImplementsKeyMap!Replace, Map
<1>4. ASSUME NEW entry \in Entry, Found(entry.key) # {},
             Entries' = Entries, status' = "INDEX_DUPLICATE_KEY"
      PROVE  ImplementsKeyMap!Refuse(entry.key)
  BY <1>4, <1>same, <1>there DEF ImplementsKeyMap!Refuse, Map
<1>5. \A entry \in Entry : entry.key \in Keys /\ entry.file_offset \in Values
  BY DEF Entry
<1> QED BY <1>1, <1>2, <1>3, <1>4, <1>5, <1>same, NextHashInv DEF ImplementsKeyMap!Next

(* The hash table is a map, and a failed allocation changes nothing in it. *)
THEOREM HashTableIsMap == HashSpec => AsKeyMap
<1>1. HashInit => ImplementsKeyMap!Init
  BY InitKeyMap
<1>2. HashInv /\ [HashNext]_hashVars => [ImplementsKeyMap!Next]_<<Map, status>>
  BY NextKeyMap
<1> QED BY <1>1, <1>2, HashInvariance, PTL DEF AsKeyMap, ImplementsKeyMap!Spec, HashSpec, Map
=============================================================================
