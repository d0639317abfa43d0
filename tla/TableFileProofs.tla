--------------------------- MODULE TableFileProofs ---------------------------
(***************************************************************************)
(* Theorems about the table file and its journal: the layout of rows       *)
(* (PageLayout), the bytes of a journal (JournalRecord) and the loops over *)
(* the rows (Scanner), for every size of header, page, row, byte and       *)
(* number, every limit of an offset, any ids and any names.                *)
(*                                                                         *)
(* The layout comes first, and in it the arithmetic: where row r lies      *)
(* (Place), that places grow with the row number by at least a row, and    *)
(* that the two conversions undo each other.  Its invariant then needs     *)
(* only that the last row of the table ends within the file.               *)
(***************************************************************************)
EXTENDS Scanner, JournalRecord, SequenceTheorems, WellFoundedInduction, TLAPS

(* The page of a row, *)
Page(r) == r \div rows_per_page
(* and its slot there. *)
Slot(r) == r % rows_per_page

(* storage_offset_for_row with no limit to the numbers *)
Place(r) == Page(r) * PageSize + Slot(r) * RowSize + HeaderSize

-----------------------------------------------------------------------------
(* What division and remainder are.                                        *)
LEMMA DivModInt ==
  ASSUME NEW a \in Int, NEW b \in Int, b > 0
  PROVE  a = b * (a \div b) + (a % b)
  OBVIOUS

(* The same for what this module divides, with the ranges of the results.  *)
LEMMA DivMod ==
  ASSUME NEW a \in Nat, NEW b \in Nat \ {0}
  PROVE  /\ a \div b \in Nat
         /\ a % b \in 0..(b - 1)
         /\ a = b * (a \div b) + (a % b)
<1>1. a \in Int /\ b \in Int /\ b > 0
  OBVIOUS
<1>2. a = b * (a \div b) + (a % b)
  BY <1>1, DivModInt
<1>3. a \div b \in Nat /\ a % b \in 0..(b - 1)
  OBVIOUS
<1> QED BY <1>2, <1>3

(* Products keep the order of their first factor.                          *)
LEMMA TimesMonotone ==
  ASSUME NEW a \in Nat, NEW b \in Nat, NEW c \in Nat, a <= b
  PROVE  /\ a * c \in Nat
         /\ b * c \in Nat
         /\ a * c <= b * c
<1>1. PICK d \in Nat : b = a + d
  <2>1. b - a \in Nat /\ b = a + (b - a)
    OBVIOUS
  <2> QED BY <2>1
<1>2. b * c = a * c + d * c
  BY <1>1
<1>3. a * c \in Nat /\ d * c \in Nat
  OBVIOUS
<1> QED BY <1>2, <1>3

(* A number has one quotient and one remainder.                            *)
LEMMA DivUnique ==
  ASSUME NEW q \in Nat, NEW b \in Nat \ {0}, NEW m \in 0..(b - 1)
  PROVE  /\ (q * b + m) \div b = q
         /\ (q * b + m) % b = m
<1> DEFINE n == q * b + m
           p == n \div b
<1>1. n \in Nat
  BY TimesMonotone
<1>2. /\ p \in Nat
      /\ n % b \in 0..(b - 1)
      /\ n = b * p + (n % b)
  BY <1>1, DivMod
<1> HIDE DEF p
<1>3. CASE p < q
  <2>1. (p + 1) * b <= q * b
    BY <1>2, <1>3, TimesMonotone
  <2>2. (p + 1) * b = b * p + b
    BY <1>2
  <2>3. b * p \in Nat /\ q * b \in Nat
    BY <1>2, TimesMonotone
  <2> QED BY <1>2, <2>1, <2>2, <2>3
<1>4. CASE q < p
  <2>1. (q + 1) * b <= p * b
    BY <1>2, <1>4, TimesMonotone
  <2>2. (q + 1) * b = q * b + b /\ p * b = b * p
    BY <1>2
  <2>3. b * p \in Nat /\ q * b \in Nat
    BY <1>2, TimesMonotone
  <2> QED BY <1>2, <2>1, <2>2, <2>3
<1>5. CASE p = q
  <2>1. b * p = q * b /\ q * b \in Nat
    BY <1>5, TimesMonotone
  <2> QED BY <1>2, <1>5, <2>1 DEF p
<1> QED BY <1>2, <1>3, <1>4, <1>5

(* A page holds a row at least, and its rows fit.                          *)
LEMMA PageFacts ==
  /\ rows_per_page \in Nat \ {0}
  /\ rows_per_page * RowSize <= PageSize
<1>1. /\ rows_per_page \in Nat
      /\ PageSize % RowSize \in 0..(RowSize - 1)
      /\ PageSize = RowSize * rows_per_page + (PageSize % RowSize)
  BY SizeAssumption, DivMod DEF rows_per_page
<1>2. rows_per_page # 0
  <2> SUFFICES ASSUME rows_per_page = 0 PROVE FALSE
    BY <1>1
  <2>1. RowSize * rows_per_page = 0
    BY SizeAssumption
  <2> QED BY <1>1, <2>1, SizeAssumption
<1>3. /\ RowSize * rows_per_page = rows_per_page * RowSize
      /\ rows_per_page * RowSize \in Nat
  BY <1>1, SizeAssumption
<1> QED BY <1>1, <1>2, <1>3, SizeAssumption

(* Page and slot of a row, and that the slot lies within its page.         *)
LEMMA PlaceFacts ==
  ASSUME NEW r \in Nat
  PROVE  /\ Page(r) \in Nat
         /\ Slot(r) \in 0..(rows_per_page - 1)
         /\ r = Page(r) * rows_per_page + Slot(r)
         /\ Page(r) * PageSize \in Nat
         /\ Slot(r) * RowSize \in Nat
         /\ Slot(r) * RowSize + RowSize <= PageSize
         /\ Place(r) \in Nat
         /\ Place(r) >= HeaderSize
<1>1. /\ Page(r) \in Nat
      /\ Slot(r) \in 0..(rows_per_page - 1)
      /\ r = rows_per_page * Page(r) + Slot(r)
  BY PageFacts, DivMod DEF Page, Slot
<1>2. rows_per_page * Page(r) = Page(r) * rows_per_page
  BY <1>1, PageFacts
<1>3. /\ Page(r) * PageSize \in Nat
      /\ Slot(r) * RowSize \in Nat
      /\ (Slot(r) + 1) * RowSize <= rows_per_page * RowSize
  <2>1. Page(r) * PageSize \in Nat
    BY <1>1, SizeAssumption, TimesMonotone
  <2>2. Slot(r) \in Nat /\ Slot(r) + 1 \in Nat /\ Slot(r) + 1 <= rows_per_page
    BY <1>1, PageFacts
  <2>3. RowSize \in Nat /\ rows_per_page \in Nat
    BY PageFacts, SizeAssumption
  <2> QED BY <2>1, <2>2, <2>3, TimesMonotone
<1>4. (Slot(r) + 1) * RowSize = Slot(r) * RowSize + RowSize
  BY <1>1, SizeAssumption
<1>5. /\ Slot(r) * RowSize + RowSize <= PageSize
  <2>1. rows_per_page * RowSize \in Nat
    BY PageFacts, SizeAssumption
  <2> QED BY <2>1, <1>3, <1>4, PageFacts, SizeAssumption
<1>6. Place(r) \in Nat /\ Place(r) >= HeaderSize
  BY <1>3, SizeAssumption DEF Place
<1> QED BY <1>1, <1>2, <1>3, <1>5, <1>6

(* A later row lies wholly behind an earlier one.                          *)
LEMMA PlacesGrow ==
  ASSUME NEW s \in Nat, NEW r \in Nat, s < r
  PROVE  Place(s) + RowSize <= Place(r)
<1>1. /\ Page(s) \in Nat /\ Slot(s) \in 0..(rows_per_page - 1)
      /\ Page(r) \in Nat /\ Slot(r) \in 0..(rows_per_page - 1)
      /\ s = Page(s) * rows_per_page + Slot(s)
      /\ r = Page(r) * rows_per_page + Slot(r)
  BY PlaceFacts
<1>2. /\ Page(s) * PageSize \in Nat /\ Slot(s) * RowSize \in Nat
      /\ Page(r) * PageSize \in Nat /\ Slot(r) * RowSize \in Nat
      /\ Slot(s) * RowSize + RowSize <= PageSize
  BY PlaceFacts
<1>3. Page(s) <= Page(r)
  <2> SUFFICES ASSUME Page(r) + 1 <= Page(s) PROVE FALSE
    BY <1>1
  <2>1. (Page(r) + 1) * rows_per_page <= Page(s) * rows_per_page
    BY <1>1, PageFacts, TimesMonotone
  <2>2. (Page(r) + 1) * rows_per_page = Page(r) * rows_per_page + rows_per_page
    BY <1>1, PageFacts
  <2>3. Page(r) * rows_per_page \in Nat /\ Page(s) * rows_per_page \in Nat
    BY <1>1, PageFacts
  <2> QED BY <1>1, <2>1, <2>2, <2>3, PageFacts
<1>4. CASE Page(s) = Page(r)
  <2>1. Slot(s) + 1 <= Slot(r)
    <3>1. Page(r) * rows_per_page \in Nat
      BY <1>1, PageFacts
    <3> QED BY <1>1, <1>4, <3>1, PageFacts
  <2>2. (Slot(s) + 1) * RowSize <= Slot(r) * RowSize
    BY <1>1, <2>1, SizeAssumption, TimesMonotone
  <2>3. (Slot(s) + 1) * RowSize = Slot(s) * RowSize + RowSize
    BY <1>1, SizeAssumption
  <2> QED BY <1>2, <1>4, <2>2, <2>3, SizeAssumption DEF Place
<1>5. CASE Page(s) + 1 <= Page(r)
  <2>1. (Page(s) + 1) * PageSize <= Page(r) * PageSize
    BY <1>1, <1>5, SizeAssumption, TimesMonotone
  <2>2. (Page(s) + 1) * PageSize = Page(s) * PageSize + PageSize
    BY <1>1, SizeAssumption
  <2> QED BY <1>2, <2>1, <2>2, SizeAssumption DEF Place
<1> QED BY <1>1, <1>3, <1>4, <1>5

(* storage_row_number_for_offset finds the row that begins at an offset,   *)
(* and what it finds begins there.                                         *)
LEMMA RoundTrip ==
  ASSUME NEW r \in Nat, r < Word
  PROVE  storage_row_number_for_offset(Place(r)) = r
<1> DEFINE data == Page(r) * PageSize + Slot(r) * RowSize
<1>1. /\ Page(r) \in Nat
      /\ Slot(r) \in 0..(rows_per_page - 1)
      /\ r = Page(r) * rows_per_page + Slot(r)
      /\ Page(r) * PageSize \in Nat
      /\ Slot(r) * RowSize \in Nat
      /\ Slot(r) * RowSize + RowSize <= PageSize
      /\ Place(r) \in Nat
      /\ Place(r) >= HeaderSize
  BY PlaceFacts
<1>2. Place(r) - HeaderSize = data
  BY <1>1, SizeAssumption DEF Place
<1>3. PageSize \in Nat \ {0} /\ Slot(r) * RowSize \in 0..(PageSize - 1)
  BY <1>1, SizeAssumption
<1>4. /\ data \div PageSize = Page(r)
      /\ data % PageSize = Slot(r) * RowSize
  BY <1>1, <1>3, DivUnique
<1>5. /\ (Slot(r) * RowSize) \div RowSize = Slot(r)
      /\ (Slot(r) * RowSize) % RowSize = 0
  <2>1. 0 \in 0..(RowSize - 1) /\ Slot(r) \in Nat /\ RowSize \in Nat \ {0}
    BY <1>1, PageFacts, SizeAssumption
  <2>2. /\ (Slot(r) * RowSize + 0) \div RowSize = Slot(r)
        /\ (Slot(r) * RowSize + 0) % RowSize = 0
    BY <2>1, DivUnique
  <2>3. Slot(r) * RowSize + 0 = Slot(r) * RowSize
    BY <1>1
  <2> QED BY <2>2, <2>3
<1>6. ~(Place(r) < HeaderSize) /\ ~(Slot(r) >= rows_per_page)
  BY <1>1, PageFacts, SizeAssumption
<1> HIDE DEF data
<1>7. storage_row_number_for_offset(Place(r)) = Checked(Page(r) * rows_per_page + Slot(r))
  BY <1>2, <1>4, <1>5, <1>6 DEF storage_row_number_for_offset
<1> QED BY <1>1, <1>7 DEF Checked

(* A row that begins below the limit is where storage_offset_for_row says. *)
LEMMA OffsetIsPlace ==
  ASSUME NEW r \in Nat
  PROVE  /\ Place(r) < Word => storage_offset_for_row(r) = Place(r)
         /\ storage_offset_for_row(r) # Failure => storage_offset_for_row(r) = Place(r) /\ Place(r) < Word
  BY DEF storage_offset_for_row, Place, Page, Slot, Checked

(* There are no more rows than bytes.                                      *)
LEMMA RowBelowPlace ==
  ASSUME NEW r \in Nat
  PROVE  r <= Place(r)
<1>1. /\ Page(r) \in Nat /\ Slot(r) \in Nat
      /\ r = Page(r) * rows_per_page + Slot(r)
      /\ Page(r) * PageSize \in Nat /\ Slot(r) * RowSize \in Nat
  <2>1. Slot(r) \in 0..(rows_per_page - 1) => Slot(r) \in Nat
    BY PageFacts
  <2> QED BY <2>1, PlaceFacts
<1>2. Slot(r) <= Slot(r) * RowSize /\ rows_per_page <= rows_per_page * RowSize
  <2> /\ RowSize \in Nat /\ 1 \in Nat /\ 1 <= RowSize
      /\ Slot(r) \in Nat /\ rows_per_page \in Nat
    BY <1>1, PageFacts, SizeAssumption
  <2>1. /\ 1 * Slot(r) <= RowSize * Slot(r)
        /\ 1 * rows_per_page <= RowSize * rows_per_page
    BY TimesMonotone
  <2>2. /\ 1 * Slot(r) = Slot(r) /\ RowSize * Slot(r) = Slot(r) * RowSize
        /\ 1 * rows_per_page = rows_per_page
        /\ RowSize * rows_per_page = rows_per_page * RowSize
    BY <1>1, PageFacts, SizeAssumption
  <2> QED BY <2>1, <2>2
<1>3. rows_per_page <= PageSize
  <2>1. rows_per_page * RowSize \in Nat
    BY PageFacts, SizeAssumption, TimesMonotone
  <2> QED BY <1>2, <2>1, PageFacts, SizeAssumption
<1>4. Page(r) * rows_per_page \in Nat /\ Page(r) * rows_per_page <= Page(r) * PageSize
  <2>1. /\ rows_per_page * Page(r) \in Nat
        /\ rows_per_page * Page(r) <= PageSize * Page(r)
    BY <1>1, <1>3, PageFacts, SizeAssumption, TimesMonotone
  <2>2. /\ rows_per_page * Page(r) = Page(r) * rows_per_page
        /\ PageSize * Page(r) = Page(r) * PageSize
    BY <1>1, PageFacts, SizeAssumption
  <2> QED BY <2>1, <2>2
<1> QED BY <1>1, <1>2, <1>4, SizeAssumption DEF Place

-----------------------------------------------------------------------------
(* The rows below n end within the file.                                   *)
RowsFit(n) == \A r \in 0..(n - 1) : Place(r) + RowSize <= file_size

(* A journal describes an insert behind the rows that count. *)
JournalFits(j) ==
  /\ j.intended_count = j.previous_count + 1
  /\ j.offset = Place(j.previous_count)
  /\ j.offset <= LongMax
  /\ RowsFit(j.previous_count)

(* The invariant of the file, which LayoutInvariance proves. *)
LayoutInv ==
  /\ LayoutTypeOK
  /\ RowsFit(row_count)
  /\ \A j \in journal : JournalFits(j)

(* The length storage_logical_size gives holds all the rows.               *)
LEMMA LogicalSize ==
  ASSUME NEW n \in Nat, n > 0 => Place(n - 1) + RowSize <= LongMax
  PROVE  /\ storage_logical_size(n) \in HeaderSize..LongMax
         /\ \A r \in 0..(n - 1) : Place(r) + RowSize <= storage_logical_size(n)
         /\ n > 0 => storage_logical_size(n) = Place(n - 1) + RowSize
         /\ n = 0 => storage_logical_size(n) = HeaderSize
<1>1. CASE n = 0
  BY <1>1, SizeAssumption, WordAssumption DEF storage_logical_size
<1>2. CASE n > 0
  <2>1. /\ n - 1 \in Nat
        /\ Place(n - 1) \in Nat /\ Place(n - 1) >= HeaderSize
    BY <1>2, PlaceFacts
  <2>2. storage_offset_for_row(n - 1) = Place(n - 1) /\ Place(n - 1) # Failure
    BY <1>2, <2>1, OffsetIsPlace, SizeAssumption, WordAssumption DEF Failure
  <2>3. storage_logical_size(n) = Place(n - 1) + RowSize
    BY <1>2, <2>1, <2>2, SizeAssumption, WordAssumption DEF storage_logical_size, Checked
  <2>4. ASSUME NEW r \in 0..(n - 1)
        PROVE  Place(r) + RowSize <= Place(n - 1) + RowSize
    <3>1. CASE r = n - 1
      BY <2>1, <3>1, SizeAssumption
    <3>2. CASE r < n - 1
      BY <2>1, <3>2, PlacesGrow, PlaceFacts, SizeAssumption
    <3> QED BY <3>1, <3>2
  <2> QED BY <1>2, <2>1, <2>3, <2>4, SizeAssumption, WordAssumption
<1> QED BY <1>1, <1>2

(* It holds of a file with a header and no row. *)
LEMMA InitLayoutInv == Init => LayoutInv
  BY SizeAssumption, WordAssumption
  DEF Init, LayoutInv, LayoutTypeOK, RowsFit

(* Inserts, whole or cut short, and recovery keep it. *)
LEMMA NextLayoutInv == LayoutInv /\ [Next]_vars => LayoutInv'
<1> SUFFICES ASSUME LayoutInv, [Next]_vars PROVE LayoutInv'
  OBVIOUS
<1>type. /\ row_count \in Nat
         /\ file_size \in HeaderSize..LongMax
         /\ journal \in SUBSET Journals
         /\ HeaderSize \in Nat /\ RowSize \in Nat \ {0} /\ LongMax \in Nat
  BY SizeAssumption, WordAssumption DEF LayoutInv, LayoutTypeOK
<1>place. /\ Place(row_count) \in Nat
          /\ Place(row_count) >= HeaderSize
          /\ HasRoom => NextOffset = Place(row_count) /\ Place(row_count) <= LongMax
  BY <1>type, PlaceFacts, OffsetIsPlace DEF HasRoom, NextOffset
<1>behind. \A r \in 0..(row_count - 1) : Place(r) \in Nat /\ Place(r) + RowSize <= Place(row_count)
  BY <1>type, PlaceFacts, PlacesGrow
<1>1. CASE storage_insert_row
  <2>1. /\ row_count' = row_count + 1
        /\ file_size' = Place(row_count) + RowSize
        /\ file_size' <= LongMax
        /\ journal = {} /\ journal' = {}
    BY <1>1, <1>place DEF storage_insert_row
  <2>2. LayoutTypeOK'
    BY <2>1, <1>type, <1>place DEF LayoutTypeOK
  <2>3. RowsFit(row_count)'
    BY <2>1, <1>type, <1>place, <1>behind DEF RowsFit
  <2> QED BY <2>1, <2>2, <2>3 DEF LayoutInv
<1>2. CASE InsertCutShort
  <2> DEFINE j == [previous_count |-> row_count, intended_count |-> row_count + 1,
                   offset |-> NextOffset]
  <2>1. /\ NextOffset = Place(row_count) /\ Place(row_count) <= LongMax
        /\ journal' = {j}
        /\ file_size' \in Nat /\ file_size' <= LongMax /\ file_size' >= HeaderSize
        /\ \/ file_size' = file_size /\ row_count' = row_count
           \/ file_size' >= Place(row_count) /\ row_count' = row_count
           \/ file_size' = Place(row_count) + RowSize /\ row_count' = row_count + 1
    BY <1>2, <1>type, <1>place DEF InsertCutShort
  <2>2. LayoutTypeOK'
    BY <2>1, <1>type, <1>place DEF LayoutTypeOK, Journals
  <2>3. \A r \in 0..(row_count - 1) : Place(r) + RowSize <= file_size'
    BY <2>1, <1>type, <1>place, <1>behind DEF LayoutInv, RowsFit
  <2>4. RowsFit(row_count)'
    BY <2>1, <2>3, <1>type, <1>place DEF RowsFit
  <2>5. ASSUME NEW i \in journal'
        PROVE  JournalFits(i)'
    <3>1. /\ i.previous_count = row_count
          /\ i.intended_count = row_count + 1
          /\ i.offset = Place(row_count)
      BY <2>1
    <3> QED BY <2>1, <2>3, <3>1, <1>type DEF JournalFits, RowsFit
  <2> QED BY <2>1, <2>2, <2>4, <2>5 DEF LayoutInv
<1>3. CASE recover_insert_journal
  <2>1. PICK j \in journal : /\ row_count' = j.previous_count
                             /\ file_size' = storage_logical_size(j.previous_count)
                             /\ journal' = {}
    BY <1>3 DEF recover_insert_journal
  <2>2. j.previous_count \in Nat /\ JournalFits(j)
    BY <2>1, <1>type DEF LayoutInv, Journals
  <2>3. j.previous_count > 0 => Place(j.previous_count - 1) + RowSize <= LongMax
    <3> SUFFICES ASSUME j.previous_count > 0 PROVE Place(j.previous_count - 1) + RowSize <= LongMax
      OBVIOUS
    <3>1. j.previous_count - 1 \in 0..(j.previous_count - 1) /\ Place(j.previous_count - 1) \in Nat
      BY <2>2, PlaceFacts
    <3> QED BY <2>2, <3>1, <1>type DEF JournalFits, RowsFit
  <2>4. /\ storage_logical_size(j.previous_count) \in HeaderSize..LongMax
        /\ \A r \in 0..(j.previous_count - 1) :
             Place(r) + RowSize <= storage_logical_size(j.previous_count)
    BY <2>2, <2>3, LogicalSize
  <2>5. LayoutTypeOK'
    BY <2>1, <2>2, <2>4 DEF LayoutTypeOK
  <2> DEFINE n == j.previous_count
  <2>6. RowsFit(row_count)'
    <3>1. row_count' = n /\ file_size' = storage_logical_size(n)
      BY <2>1
    <3>2. \A r \in 0..(n - 1) : Place(r) + RowSize <= storage_logical_size(n)
      BY <2>4
    <3> HIDE DEF n
    <3> QED BY <3>1, <3>2 DEF RowsFit
  <2> QED BY <2>1, <2>5, <2>6 DEF LayoutInv
<1>4. CASE UNCHANGED vars
  BY <1>4 DEF vars, LayoutInv, LayoutTypeOK, RowsFit, JournalFits
<1> QED BY <1>1, <1>2, <1>3, <1>4 DEF Next

(* The last row that counts always ends within the file.                   *)
THEOREM LayoutInvariance == Spec => []LayoutInv
  BY InitLayoutInv, NextLayoutInv, PTL DEF Spec

(* The limits of a long are kept, whatever the sizes.                      *)
THEOREM LayoutTypes == Spec => []LayoutTypeOK
  BY LayoutInvariance, PTL DEF LayoutInv

-----------------------------------------------------------------------------
(* Every row that counts is where storage_offset_for_row says it is.       *)
LEMMA CountedRows ==
  ASSUME LayoutInv, NEW n \in Nat, RowsFit(n), NEW r \in 0..(n - 1)
  PROVE  /\ r \in Nat
         /\ storage_offset_for_row(r) = Place(r)
         /\ Place(r) \in Nat
         /\ Place(r) >= HeaderSize
         /\ Place(r) + RowSize <= file_size
         /\ file_size <= LongMax
         /\ r < Word
<1>1. r \in Nat /\ Place(r) \in Nat /\ Place(r) >= HeaderSize /\ r <= Place(r)
  BY PlaceFacts, RowBelowPlace
<1>2. /\ Place(r) + RowSize <= file_size
      /\ file_size \in Nat /\ file_size <= LongMax
  BY SizeAssumption, WordAssumption DEF RowsFit, LayoutInv, LayoutTypeOK
<1>3. Place(r) < Word
  BY <1>1, <1>2, SizeAssumption, WordAssumption
<1> QED BY <1>1, <1>2, <1>3, OffsetIsPlace, WordAssumption

(* What storage_row_number_for_offset finds is a row number.               *)
LEMMA FoundIsNumber ==
  ASSUME NEW offset \in Nat, storage_row_number_for_offset(offset) # Failure
  PROVE  storage_row_number_for_offset(offset) \in Nat
<1> DEFINE data == offset - HeaderSize
           page == data \div PageSize
           slot == (data % PageSize) \div RowSize
<1>1. data \in Nat
  BY SizeAssumption DEF storage_row_number_for_offset
<1>2. page \in Nat /\ data % PageSize \in Nat
  <2>1. PageSize \in Nat \ {0}
    BY SizeAssumption
  <2> HIDE DEF data
  <2>2. data \div PageSize \in Nat /\ data % PageSize \in 0..(PageSize - 1)
    BY <1>1, <2>1, DivMod
  <2> QED BY <2>1, <2>2
<1>3. slot \in Nat
  BY <1>2, DivMod, SizeAssumption
<1>4. page * rows_per_page + slot \in Nat
  <2>1. page * rows_per_page \in Nat
    BY <1>2, PageFacts, TimesMonotone
  <2> QED BY <1>3, <2>1
<1>5. storage_row_number_for_offset(offset) = page * rows_per_page + slot
  BY DEF storage_row_number_for_offset, Checked
<1> QED BY <1>4, <1>5

(* An offset is valid exactly when a row that counts begins there. *)
LEMMA InvValidIffRow == LayoutInv => ValidIffRow
<1> SUFFICES ASSUME LayoutInv, NEW offset \in 0..(Word - 1)
             PROVE  storage_is_valid_row_offset(offset, file_size, row_count)
                      <=> \E r \in 0..(row_count - 1) : storage_offset_for_row(r) = offset
  BY DEF ValidIffRow
<1>type. row_count \in Nat /\ RowsFit(row_count) /\ offset \in Nat
  BY WordAssumption DEF LayoutInv, LayoutTypeOK
<1>1. ASSUME storage_is_valid_row_offset(offset, file_size, row_count)
      PROVE  \E r \in 0..(row_count - 1) : storage_offset_for_row(r) = offset
  <2> DEFINE n == storage_row_number_for_offset(offset)
  <2>1. n # Failure /\ n < row_count /\ storage_offset_for_row(n) = offset
    BY <1>1 DEF storage_is_valid_row_offset
  <2>2. n \in Nat
    BY <2>1, <1>type, FoundIsNumber
  <2>3. n \in 0..(row_count - 1)
    BY <2>1, <2>2, <1>type
  <2> QED BY <2>1, <2>3
<1>2. ASSUME NEW r \in 0..(row_count - 1), storage_offset_for_row(r) = offset
      PROVE  storage_is_valid_row_offset(offset, file_size, row_count)
  <2>1. /\ r \in Nat /\ r < row_count
        /\ offset = Place(r) /\ storage_offset_for_row(r) = offset
        /\ offset + RowSize <= file_size
        /\ file_size <= LongMax /\ file_size \in Nat
        /\ r < Word
    BY <1>2, <1>type, CountedRows, SizeAssumption DEF LayoutInv, LayoutTypeOK
  <2>2. storage_row_number_for_offset(offset) = r
    BY <2>1, RoundTrip
  <2>3. r # Failure
    BY <2>1 DEF Failure
  <2>4. offset + RowSize < Word /\ offset + RowSize # Failure
    BY <2>1, <1>type, SizeAssumption, WordAssumption DEF Failure
  <2> QED BY <2>1, <2>2, <2>3, <2>4 DEF storage_is_valid_row_offset, Checked
<1> QED BY <1>1, <1>2

(* Rows lie behind each other, each within a page. *)
LEMMA InvRowsApart == LayoutInv => RowsApart
<1> SUFFICES ASSUME LayoutInv, NEW r \in 0..(row_count - 1)
             PROVE  /\ \A s \in 0..(r - 1) :
                         storage_offset_for_row(s) + RowSize <= storage_offset_for_row(r)
                    /\ ((storage_offset_for_row(r) - HeaderSize) % PageSize) + RowSize <= PageSize
  BY DEF RowsApart
<1>1. row_count \in Nat /\ RowsFit(row_count)
  BY DEF LayoutInv, LayoutTypeOK
<1>2. r \in Nat /\ r < row_count /\ storage_offset_for_row(r) = Place(r)
  BY <1>1, CountedRows
<1>3. ASSUME NEW s \in 0..(r - 1)
      PROVE  storage_offset_for_row(s) + RowSize <= storage_offset_for_row(r)
  <2>1. s \in Nat /\ s < r /\ s \in 0..(row_count - 1)
    BY <1>1, <1>2
  <2>2. storage_offset_for_row(s) = Place(s)
    BY <1>1, <2>1, CountedRows
  <2> QED BY <1>2, <2>1, <2>2, PlacesGrow
<1>4. ((Place(r) - HeaderSize) % PageSize) + RowSize <= PageSize
  <2>1. /\ Page(r) \in Nat
        /\ Page(r) * PageSize \in Nat
        /\ Slot(r) * RowSize \in Nat
        /\ Slot(r) * RowSize + RowSize <= PageSize
    BY <1>2, PlaceFacts
  <2>2. PageSize \in Nat \ {0} /\ Slot(r) * RowSize \in 0..(PageSize - 1)
    BY <2>1, SizeAssumption
  <2>3. (Page(r) * PageSize + Slot(r) * RowSize) % PageSize = Slot(r) * RowSize
    BY <2>1, <2>2, DivUnique
  <2>4. Place(r) - HeaderSize = Page(r) * PageSize + Slot(r) * RowSize
    BY <2>1, SizeAssumption DEF Place
  <2> QED BY <2>1, <2>3, <2>4
<1> QED BY <1>2, <1>3, <1>4

(* The file holds the rows that count, and recovery accepts its journal. *)
LEMMA InvTableOpens == LayoutInv => TableOpens
<1> SUFFICES ASSUME LayoutInv PROVE TableOpens
  OBVIOUS
<1>type. /\ row_count \in Nat /\ RowsFit(row_count)
         /\ file_size \in HeaderSize..LongMax
         /\ journal \in SUBSET Journals
         /\ HeaderSize \in Nat /\ RowSize \in Nat /\ LongMax \in Nat
  BY SizeAssumption, WordAssumption DEF LayoutInv, LayoutTypeOK
<1>1. ASSUME NEW n \in Nat, RowsFit(n)
      PROVE  storage_logical_size(n) \in 0..file_size /\ storage_logical_size(n) \in 0..LongMax
  <2>1. n > 0 => Place(n - 1) + RowSize <= file_size
    BY <1>1 DEF RowsFit
  <2>2. n > 0 => Place(n - 1) + RowSize <= LongMax
    <3>1. n > 0 => Place(n - 1) \in Nat
      BY PlaceFacts
    <3> QED BY <2>1, <3>1, <1>type
  <2>3. /\ storage_logical_size(n) \in HeaderSize..LongMax
        /\ n > 0 => storage_logical_size(n) = Place(n - 1) + RowSize
        /\ n = 0 => storage_logical_size(n) = HeaderSize
    BY <2>2, LogicalSize
  <2> QED BY <2>1, <2>3, <1>type
<1>2. ASSUME NEW j \in journal
      PROVE  JournalAccepted(j)
  <2>1. j.previous_count \in Nat /\ JournalFits(j)
    BY <1>type DEF LayoutInv, Journals
  <2>2. storage_logical_size(j.previous_count) \in 0..LongMax
    BY <2>1, <1>1 DEF JournalFits
  <2>3. Place(j.previous_count) \in Nat /\ Place(j.previous_count) <= LongMax
    BY <2>1, PlaceFacts DEF JournalFits
  <2>4. /\ storage_offset_for_row(j.previous_count) = Place(j.previous_count)
        /\ Place(j.previous_count) # Failure
    BY <2>1, <2>3, OffsetIsPlace, SizeAssumption, WordAssumption DEF Failure
  <2> QED BY <2>1, <2>2, <2>4 DEF JournalAccepted, JournalFits
<1>3. KeptRows \in Nat /\ RowsFit(KeptRows)
  <2>1. CASE journal = {}
    BY <2>1, <1>type DEF KeptRows
  <2>2. CASE journal # {}
    <3>1. KeptRows \in {j.previous_count : j \in journal}
      BY <2>2 DEF KeptRows
    <3>2. PICK j \in journal : KeptRows = j.previous_count
      BY <3>1
    <3> QED BY <3>2, <1>type DEF LayoutInv, JournalFits, Journals
  <2> QED BY <2>1, <2>2
<1>4. \A r \in 0..(KeptRows - 1) : storage_offset_for_row(r) + RowSize <= file_size
  BY <1>3, CountedRows
<1> QED BY <1>1, <1>2, <1>4, <1>type DEF TableOpens

(* Whatever number an index gives as an offset, a row is read there        *)
(* exactly when one begins there.                                          *)
THEOREM OnlyRowsAreRead == Spec => []ValidIffRow
  BY LayoutInvariance, InvValidIffRow, PTL

(* No row reaches into another or across the end of its page.              *)
THEOREM NoOverlap == Spec => []RowsApart
  BY LayoutInvariance, InvRowsApart, PTL

(* No insert leaves a file that the next open refuses for its size.        *)
THEOREM SizeNeverRefused == Spec => []TableOpens
  BY LayoutInvariance, InvTableOpens, PTL

-----------------------------------------------------------------------------
(***************************************************************************)
(* The bytes of a journal.  Recursive functions come first: that one       *)
(* exists, and what holds of each of its values, is shown by the least     *)
(* number it fails at.  Then numbers and the checksum: what is put is got, *)
(* and neither stays the same when one byte changes.  A journal's fields   *)
(* lie in their places and none over another.  So an insert's file is      *)
(* valid, and no file that differs from it as Touch makes it differ.       *)
(***************************************************************************)

(* The least of a set of numbers, *)
LEMMA LeastNumber ==
  ASSUME NEW numbers, numbers \subseteq Nat, numbers # {}
  PROVE  \E least \in numbers : \A n \in numbers : least <= n
<1> DEFINE Less == {pair \in Nat \X Nat : pair[1] < pair[2]}
<1>0. IsWellFoundedOn(Less, Nat)
  BY NatLessThanWellFounded DEF OpToRel
<1>1. PICK least \in numbers : \A n \in numbers : <<n, least>> \notin Less
  <2> HIDE DEF Less
  <2> QED BY <1>0, WFMin
<1>2. ASSUME NEW n \in numbers
      PROVE  least <= n
  <2>1. least \in Nat /\ n \in Nat /\ <<n, least>> \in Nat \X Nat
    OBVIOUS
  <2>2. ~(<<n, least>>[1] < <<n, least>>[2])
    BY <1>1, <2>1
  <2> QED BY <2>1, <2>2
<1> QED BY <1>2

(* and with it an induction that needs no operator: what holds of one      *)
(* number, and of each behind it whose predecessor it holds of, holds up   *)
(* to the last.                                                            *)
LEMMA Climb ==
  ASSUME NEW last \in Nat, NEW first \in 0..last, NEW good, first \in good,
         \A n \in (first + 1)..last : n - 1 \in good => n \in good
  PROVE  first..last \subseteq good
<1> DEFINE bad == (first..last) \ good
<1> SUFFICES ASSUME bad # {} PROVE FALSE
  OBVIOUS
<1>1. bad \subseteq Nat
  OBVIOUS
<1>2. PICK least \in bad : \A n \in bad : least <= n
  <2> HIDE DEF bad
  <2> QED BY <1>1, LeastNumber
<1>3. least \in first..last /\ least \notin good /\ least # first
  OBVIOUS
<1>4. least \in (first + 1)..last /\ least - 1 \in first..last /\ ~(least <= least - 1)
  BY <1>3
<1>5. least - 1 \notin bad
  BY <1>2, <1>4
<1>6. least - 1 \in good
  BY <1>4, <1>5
<1> QED BY <1>3, <1>4, <1>6

(* A function exists that takes a step at each number.                     *)
Stepping(f, last, start, step) ==
  /\ f[0] = start
  /\ \A n \in 1..last : f[n] = step[<<n, f[n - 1]>>]

LEMMA Recursion ==
  ASSUME NEW last \in Nat, NEW S, NEW start \in S, NEW step \in [(1..last) \X S -> S]
  PROVE  \E f \in [0..last -> S] : Stepping(f, last, start, step)
<1> DEFINE good == {n \in 0..last : \E f \in [0..n -> S] : Stepping(f, n, start, step)}
<1>1. 0 \in good
  <2> DEFINE f == [n \in 0..0 |-> start]
  <2>1. f \in [0..0 -> S] /\ f[0] = start
    OBVIOUS
  <2>2. Stepping(f, 0, start, step)
    BY <2>1 DEF Stepping
  <2> QED BY <2>1, <2>2
<1>2. ASSUME NEW n \in 1..last, n - 1 \in good
      PROVE  n \in good
  <2>1. PICK f \in [0..(n - 1) -> S] : Stepping(f, n - 1, start, step)
    BY <1>2
  <2> DEFINE g == [i \in 0..n |-> IF i = n THEN step[<<n, f[n - 1]>>] ELSE f[i]]
  <2>2. step[<<n, f[n - 1]>>] \in S
    <3>1. f[n - 1] \in S
      BY <2>1
    <3>2. <<n, f[n - 1]>> \in (1..last) \X S
      BY <3>1
    <3> QED BY <3>2
  <2>3. g \in [0..n -> S]
    BY <2>1, <2>2
  <2>4. g[0] = start
    BY <2>1 DEF Stepping
  <2>5. ASSUME NEW i \in 1..n
        PROVE  g[i] = step[<<i, g[i - 1]>>]
    <3>1. i \in 0..n /\ i - 1 \in 0..n /\ i - 1 # n
      BY <1>2
    <3>2. g[i - 1] = f[i - 1]
      BY <3>1
    <3>3. CASE i = n
      BY <3>1, <3>2, <3>3
    <3>4. CASE i # n
      <4>1. i \in 1..(n - 1) /\ g[i] = f[i]
        BY <3>1, <3>4
      <4> QED BY <3>2, <4>1, <2>1 DEF Stepping
    <3> QED BY <3>3, <3>4
  <2>6. Stepping(g, n, start, step)
    <3> HIDE DEF g
    <3> QED BY <2>4, <2>5 DEF Stepping
  <2> QED BY <2>3, <2>6
<1>3. 0..last \subseteq good
  <2> HIDE DEF good
  <2> QED BY <1>1, <1>2, Climb
<1> QED BY <1>3

-----------------------------------------------------------------------------
(* What a byte's place is worth, up to the range of a number.              *)
LEMMA Powers ==
  /\ Power \in [0..Width -> Nat \ {0}]
  /\ Power[0] = 1
  /\ \A i \in 1..Width : Power[i] = Power[i - 1] * Byte
<1> DEFINE step == [x \in (1..Width) \X (Nat \ {0}) |-> x[2] * Byte]
<1>1. step \in [(1..Width) \X (Nat \ {0}) -> Nat \ {0}]
  <2>1. ASSUME NEW x \in (1..Width) \X (Nat \ {0})
        PROVE  x[2] * Byte \in Nat \ {0}
    <3>1. x[2] \in Nat \ {0} /\ Byte \in Nat \ {0}
      BY NumberAssumption
    <3>2. \A a, b \in Nat \ {0} : a * b \in Nat \ {0}
      OBVIOUS
    <3> QED BY <3>1, <3>2
  <2> QED BY <2>1
<1>2. Width \in Nat /\ 1 \in Nat \ {0}
  BY NumberAssumption
<1>3. PICK f \in [0..Width -> Nat \ {0}] : Stepping(f, Width, 1, step)
  <2> HIDE DEF step
  <2> QED BY <1>1, <1>2, Recursion
<1>4. ASSUME NEW i \in 1..Width
      PROVE  f[i] = f[i - 1] * Byte
  <2>1. i - 1 \in 0..Width
    BY <1>2
  <2>2. f[i - 1] \in Nat \ {0} /\ <<i, f[i - 1]>> \in (1..Width) \X (Nat \ {0})
    BY <2>1
  <2>3. f[i] = step[<<i, f[i - 1]>>]
    BY <1>3 DEF Stepping
  <2> QED BY <2>2, <2>3
<1>5. f[0] = 1
  BY <1>3 DEF Stepping
<1>6. f = [i \in 0..Width |-> IF i = 0 THEN 1 ELSE f[i - 1] * Byte]
  <2>1. ASSUME NEW i \in 0..Width
        PROVE  f[i] = IF i = 0 THEN 1 ELSE f[i - 1] * Byte
    BY <1>2, <1>4, <1>5
  <2> QED BY <2>1
<1>7. Power = [i \in 0..Width |-> IF i = 0 THEN 1 ELSE Power[i - 1] * Byte]
  BY <1>6 DEF Power
<1>8. ASSUME NEW i \in 1..Width
      PROVE  Power[i] = Power[i - 1] * Byte
  BY <1>2, <1>7
<1>9. Power[0] = 1
  BY <1>2, <1>7
<1>10. 0..Width \subseteq {i \in 0..Width : Power[i] = f[i]}
  <2> DEFINE good == {i \in 0..Width : Power[i] = f[i]}
  <2>1. 0 \in good
    BY <1>2, <1>5, <1>9
  <2>2. \A i \in (0 + 1)..Width : i - 1 \in good => i \in good
    BY <1>2, <1>4, <1>8
  <2>3. 0..Width \subseteq good
    <3>1. 0 \in 0..Width
      BY <1>2
    <3> HIDE DEF good, step
    <3> QED BY <2>1, <2>2, <3>1, <1>2, Climb
  <2> QED BY <2>3
<1>11. Power \in [0..Width -> Nat \ {0}]
  <2>1. Power = f
    BY <1>7, <1>10
  <2> QED BY <2>1
<1> QED BY <1>8, <1>9, <1>11

(* A file holds a part from a place on. *)
Holds(bytes, at, part) == \A i \in 1..Len(part) : bytes[at + i] = part[i]

(* A number is made of the bytes behind a place. *)
IsNumber(bytes, at) == \A i \in 1..Width : bytes[at + i] \in Nat

(* What get has added up, up to its value *)
Adds(value, bytes, at) ==
  /\ value \in [0..Width -> Nat]
  /\ value[0] = 0
  /\ \A i \in 1..Width : value[i] = value[i - 1] + bytes[at + i] * Power[i - 1]
  /\ get(bytes, at) = value[Width]

(* What a number of bytes is worth *)
LEMMA GetAdds ==
  ASSUME NEW bytes, NEW at \in Nat, IsNumber(bytes, at)
  PROVE  \E value : Adds(value, bytes, at)
<1> DEFINE step == [x \in (1..Width) \X Nat |-> x[2] + bytes[at + x[1]] * Power[x[1] - 1]]
           Value == CHOOSE value : value = [i \in 0..Width |->
             IF i = 0 THEN 0 ELSE value[i - 1] + bytes[at + i] * Power[i - 1]]
<1>width. Width \in Nat /\ 0 \in Nat
  BY NumberAssumption
<1>term. \A i \in 1..Width : bytes[at + i] * Power[i - 1] \in Nat
  <2> TAKE i \in 1..Width
  <2>1. i - 1 \in 0..Width
    BY <1>width
  <2>2. bytes[at + i] \in Nat /\ Power[i - 1] \in Nat
    BY <2>1, Powers DEF IsNumber
  <2> QED BY <2>2, TimesMonotone
<1>1. step \in [(1..Width) \X Nat -> Nat]
  <2>1. ASSUME NEW x \in (1..Width) \X Nat
        PROVE  x[2] + bytes[at + x[1]] * Power[x[1] - 1] \in Nat
    <3>1. x[1] \in 1..Width /\ x[2] \in Nat
      OBVIOUS
    <3>2. bytes[at + x[1]] * Power[x[1] - 1] \in Nat
      BY <1>term, <3>1
    <3> QED BY <3>1, <3>2
  <2> QED BY <2>1
<1>2. PICK f \in [0..Width -> Nat] : Stepping(f, Width, 0, step)
  <2> HIDE DEF step
  <2> QED BY <1>1, <1>width, Recursion
<1>3. f = [i \in 0..Width |-> IF i = 0 THEN 0 ELSE f[i - 1] + bytes[at + i] * Power[i - 1]]
  <2>1. ASSUME NEW i \in 1..Width
        PROVE  f[i] = f[i - 1] + bytes[at + i] * Power[i - 1]
    <3>1. i - 1 \in 0..Width
      BY <1>width
    <3>2. f[i - 1] \in Nat
      BY <3>1
    <3>3. f[i] = step[<<i, f[i - 1]>>]
      BY <1>2 DEF Stepping
    <3> QED BY <3>2, <3>3
  <2>2. f[0] = 0
    BY <1>2 DEF Stepping
  <2>3. ASSUME NEW i \in 0..Width
        PROVE  f[i] = IF i = 0 THEN 0 ELSE f[i - 1] + bytes[at + i] * Power[i - 1]
    BY <1>width, <2>1, <2>2
  <2> QED BY <2>3
<1>4. Value = [i \in 0..Width |->
                 IF i = 0 THEN 0 ELSE Value[i - 1] + bytes[at + i] * Power[i - 1]]
  BY <1>3
<1>5. get(bytes, at) = Value[Width]
  BY DEF get
<1> HIDE DEF Value, step
<1>6. Value[0] = 0
  BY <1>4, <1>width
<1>7. \A i \in 1..Width : Value[i] = Value[i - 1] + bytes[at + i] * Power[i - 1]
  BY <1>4, <1>width
<1>8. 0..Width \subseteq {i \in 0..Width : Value[i] \in Nat}
  <2> DEFINE good == {i \in 0..Width : Value[i] \in Nat}
  <2>1. 0 \in good /\ 0 \in 0..Width
    BY <1>6, <1>width
  <2>2. \A i \in (0 + 1)..Width : i - 1 \in good => i \in good
    BY <1>7, <1>term, <1>width
  <2>3. 0..Width \subseteq good
    <3> HIDE DEF good
    <3> QED BY <2>1, <2>2, <1>width, Climb
  <2> QED BY <2>3
<1>9. Value \in [0..Width -> Nat]
  BY <1>4, <1>8
<1> QED BY <1>5, <1>6, <1>7, <1>9 DEF Adds

(* The remainder by a product has one digit more. *)
LEMMA NextDigit ==
  ASSUME NEW n \in Nat, NEW p \in Nat \ {0}, NEW b \in Nat \ {0}
  PROVE  n % (p * b) = (n % p) + ((n \div p) % b) * p
<1> DEFINE q == n \div p
           m == n % p
           c == q % b
           r == q \div b
<1>1. q \in Nat /\ m \in 0..(p - 1) /\ n = p * q + m
  BY DivMod
<1> HIDE DEF q, m
<1>2. r \in Nat /\ c \in 0..(b - 1) /\ q = b * r + c
  BY <1>1, DivMod
<1> HIDE DEF c, r
<1>3. p * b \in Nat \ {0} /\ c * p \in Nat /\ c * p + m \in Nat
  <2>1. c \in Nat /\ p \in Nat \ {0} /\ b \in Nat \ {0} /\ m \in Nat
    BY <1>1, <1>2
  <2>2. \A x, y \in Nat \ {0} : x * y \in Nat \ {0}
    OBVIOUS
  <2> QED BY <2>1, <2>2, TimesMonotone
<1>4. c * p + m < p * b
  <2>1. (c + 1) * p <= b * p
    BY <1>2, TimesMonotone
  <2>2. (c + 1) * p = c * p + p /\ b * p = p * b
    BY <1>2
  <2> QED BY <1>1, <1>3, <2>1, <2>2
<1>5. n = r * (p * b) + (c * p + m)
  <2>1. p * q = p * (b * r) + p * c
    BY <1>2
  <2>2. p * (b * r) = r * (p * b) /\ p * c = c * p
    BY <1>2
  <2>3. r * (p * b) \in Nat
    BY <1>2, <1>3, TimesMonotone
  <2> DEFINE whole == r * (p * b)
             rest == c * p
             all == p * q
  <2>4. all = whole + rest /\ n = all + m
    BY <1>1, <2>1, <2>2
  <2>5. whole \in Nat /\ rest \in Nat /\ m \in Nat /\ whole + (rest + m) = (whole + rest) + m
    BY <1>1, <1>3, <2>3
  <2> HIDE DEF whole, rest, all
  <2>6. n = whole + (rest + m)
    BY <2>4, <2>5
  <2> QED BY <2>6 DEF whole, rest
<1>6. n % (p * b) = c * p + m
  <2> DEFINE d == p * b
             e == c * p + m
  <2>1. d \in Nat \ {0} /\ e \in 0..(d - 1) /\ n = r * d + e
    BY <1>3, <1>4, <1>5
  <2> HIDE DEF d, e
  <2>2. n % d = e
    BY <1>2, <2>1, DivUnique
  <2> QED BY <2>2 DEF d, e
<1>7. c * p + m = m + c * p
  BY <1>1, <1>3
<1> QED BY <1>6, <1>7 DEF q, m, c

(* Numbers written are bytes, ...                                          *)
LEMMA PutBytes ==
  ASSUME NEW n \in Nat
  PROVE  put(n) \in [1..Width -> Bytes] /\ Len(put(n)) = Width
<1>1. ASSUME NEW i \in 1..Width
      PROVE  (n \div Power[i - 1]) % Byte \in Bytes
  <2>1. i - 1 \in 0..Width
    BY NumberAssumption
  <2>2. Power[i - 1] \in Nat \ {0} /\ Byte \in Nat \ {0}
    BY <2>1, Powers, NumberAssumption
  <2>3. n \div Power[i - 1] \in Nat
    BY <2>2, DivMod
  <2> QED BY <2>2, <2>3, DivMod DEF Bytes
<1>2. Width \in Nat
  BY NumberAssumption
<1> QED BY <1>1, <1>2 DEF put

(* ... and read back as what was written, if they are in range.            *)
LEMMA GetPut ==
  ASSUME NEW bytes, NEW at \in Nat, NEW n \in Numbers, Holds(bytes, at, put(n))
  PROVE  get(bytes, at) = n
<1>width. Width \in Nat /\ Word \in Nat /\ n \in Nat /\ Power[Width] = Word
  BY NumberAssumption, WordAssumption DEF Numbers
<1>1. \A i \in 1..Width : bytes[at + i] = (n \div Power[i - 1]) % Byte /\ bytes[at + i] \in Nat
  <2>1. put(n) \in [1..Width -> Bytes] /\ Len(put(n)) = Width
    BY <1>width, PutBytes
  <2> TAKE i \in 1..Width
  <2>2. bytes[at + i] = put(n)[i]
    BY <2>1 DEF Holds
  <2>3. bytes[at + i] \in Nat
    BY <2>1, <2>2, NumberAssumption DEF Bytes
  <2> QED BY <2>2, <2>3 DEF put
<1>2. PICK value : Adds(value, bytes, at)
  BY <1>1, GetAdds DEF IsNumber
<1> DEFINE good == {i \in 0..Width : value[i] = n % Power[i]}
<1>3. 0 \in good /\ 0 \in 0..Width
  <2>1. n % 1 = 0
    BY <1>width
  <2> QED BY <2>1, <1>2, <1>width, Powers DEF Adds
<1>4. ASSUME NEW i \in (0 + 1)..Width, i - 1 \in good
      PROVE  i \in good
  <2>1. i \in 1..Width /\ i - 1 \in 0..Width /\ i \in 0..Width
    BY <1>width
  <2>2. Power[i - 1] \in Nat \ {0} /\ Byte \in Nat \ {0}
    BY <2>1, Powers, NumberAssumption
  <2>3. value[i] = (n % Power[i - 1]) + ((n \div Power[i - 1]) % Byte) * Power[i - 1]
    BY <1>1, <1>2, <1>4, <2>1 DEF Adds
  <2>4. Power[i] = Power[i - 1] * Byte
    BY <2>1, Powers
  <2>5. n % (Power[i - 1] * Byte)
          = (n % Power[i - 1]) + ((n \div Power[i - 1]) % Byte) * Power[i - 1]
    BY <1>width, <2>2, NextDigit
  <2> QED BY <2>1, <2>3, <2>4, <2>5
<1>5. 0..Width \subseteq good
  <2> HIDE DEF good
  <2> QED BY <1>3, <1>4, <1>width, Climb
<1>6. value[Width] = n % Word
  BY <1>5, <1>width
<1>7. n % Word = n
  <2>1. n \in 0..(Word - 1) /\ Word \in Nat \ {0} /\ 0 \in Nat
    BY <1>width DEF Numbers
  <2>2. (0 * Word + n) % Word = n
    BY <2>1, DivUnique
  <2> QED BY <2>1, <2>2
<1> QED BY <1>2, <1>6, <1>7 DEF Adds


(* A number is another as soon as one of its bytes is. *)
LEMMA GetDiffers ==
  ASSUME NEW x, NEW y, NEW at \in Nat, IsNumber(x, at), IsNumber(y, at),
         NEW k \in 1..Width, x[at + k] # y[at + k],
         \A i \in 1..Width : i # k => x[at + i] = y[at + i]
  PROVE  get(x, at) # get(y, at)
<1>width. Width \in Nat
  BY NumberAssumption
<1>1. PICK v : Adds(v, x, at)
  BY GetAdds
<1>2. PICK w : Adds(w, y, at)
  BY GetAdds
<1>3. v[k - 1] = w[k - 1]
  <2> DEFINE good == {i \in 0..(k - 1) : v[i] = w[i]}
  <2>1. 0 \in good /\ 0 \in 0..(k - 1)
    BY <1>1, <1>2, <1>width DEF Adds
  <2>2. \A i \in (0 + 1)..(k - 1) : i - 1 \in good => i \in good
    BY <1>1, <1>2, <1>width DEF Adds
  <2>3. 0..(k - 1) \subseteq good
    <3>1. k - 1 \in Nat
      BY <1>width
    <3> HIDE DEF good
    <3> QED BY <2>1, <2>2, <3>1, Climb
  <2> QED BY <2>3, <1>width
<1> DEFINE good == {i \in k..Width : v[i] # w[i]}
<1>4. k \in good
  <2>1. k - 1 \in 0..Width
    BY <1>width
  <2> DEFINE a == v[k - 1]
             p == Power[k - 1]
             b == x[at + k]
             c == y[at + k]
  <2>2. a \in Nat /\ p \in Nat \ {0} /\ b \in Nat /\ c \in Nat /\ b # c
    BY <1>1, <2>1, Powers DEF Adds, IsNumber
  <2>3. v[k] = a + b * p /\ w[k] = a + c * p
    BY <1>1, <1>2, <1>3 DEF Adds
  <2> HIDE DEF a, p, b, c
  <2>4. b * p # c * p
    <3>1. ASSUME NEW d \in Nat, NEW e \in Nat, d < e
          PROVE  d * p # e * p
      <4>1. (d + 1) * p <= e * p /\ d * p \in Nat /\ e * p \in Nat
        BY <2>2, <3>1, TimesMonotone
      <4>2. (d + 1) * p = d * p + p
        BY <2>2
      <4> QED BY <2>2, <4>1, <4>2
    <3> QED BY <2>2, <3>1
  <2>5. b * p \in Nat /\ c * p \in Nat
    BY <2>2, TimesMonotone
  <2>6. v[k] # w[k]
    BY <2>2, <2>3, <2>4, <2>5
  <2> QED BY <2>6, <1>width
<1>5. ASSUME NEW i \in (k + 1)..Width, i - 1 \in good
      PROVE  i \in good
  <2>1. i \in 1..Width /\ i \in k..Width /\ i # k /\ i - 1 \in 0..Width
    BY <1>width
  <2> DEFINE a == v[i - 1]
             b == w[i - 1]
             t == x[at + i] * Power[i - 1]
  <2>2. v[i] = a + t /\ w[i] = b + t
    BY <1>1, <1>2, <2>1 DEF Adds
  <2>3. a \in Nat /\ b \in Nat /\ a # b
    BY <1>1, <1>2, <1>5, <2>1 DEF Adds
  <2>4. t \in Nat
    BY <2>1, Powers, TimesMonotone DEF IsNumber
  <2> HIDE DEF a, b, t
  <2>5. v[i] # w[i]
    BY <2>2, <2>3, <2>4
  <2> QED BY <2>1, <2>5
<1>6. k..Width \subseteq good
  <2>1. k \in 0..Width
    BY <1>width
  <2> HIDE DEF good
  <2> QED BY <1>4, <1>5, <1>width, <2>1, Climb
<1>7. v[Width] # w[Width]
  BY <1>6, <1>width
<1> QED BY <1>1, <1>2, <1>7 DEF Adds

-----------------------------------------------------------------------------
(* A file of n bytes *)
IsFile(bytes, n) == bytes \in [1..n -> Bytes] /\ Len(bytes) = n

(* The length of a sequence is that of its domain. *)
LEMMA LengthIs ==
  ASSUME NEW S, NEW n \in Nat, NEW bytes \in [1..n -> S]
  PROVE  Len(bytes) = n
<1>1. bytes \in Seq(S)
  BY SeqDef
<1>2. Len(bytes) \in Nat /\ 1..Len(bytes) = 1..n
  BY <1>1, LenProperties
<1> QED BY <1>2

(* A file is the same outside of where a part has been put. *)
SameOutside(x, y, at, length, n) ==
  \A i \in 1..n : i \notin (at + 1)..(at + length) => y[i] = x[i]

(* A part put into a file is there, and nothing else has changed. *)
LEMMA OverlayPuts ==
  ASSUME NEW n \in Nat, NEW bytes, IsFile(bytes, n), NEW at \in Nat,
         NEW length \in Nat, NEW part \in [1..length -> Bytes], at + length <= n
  PROVE  /\ IsFile(Overlay(bytes, at, part), n)
         /\ Holds(Overlay(bytes, at, part), at, part)
         /\ SameOutside(bytes, Overlay(bytes, at, part), at, length, n)
<1> DEFINE new == Overlay(bytes, at, part)
<1>1. Len(part) = length
  BY LengthIs
<1>2. new = [i \in 1..n |-> IF i \in (at + 1)..(at + length) THEN part[i - at] ELSE bytes[i]]
  BY <1>1 DEF Overlay, IsFile
<1> HIDE DEF new
<1>3. new \in [1..n -> Bytes]
  <2>1. ASSUME NEW i \in 1..n
        PROVE  (IF i \in (at + 1)..(at + length) THEN part[i - at] ELSE bytes[i]) \in Bytes
    <3>1. i \in (at + 1)..(at + length) => i - at \in 1..length
      OBVIOUS
    <3> QED BY <3>1 DEF IsFile
  <2> QED BY <1>2, <2>1
<1>4. IsFile(new, n)
  BY <1>3, LengthIs DEF IsFile
<1>5. Holds(new, at, part)
  <2>1. ASSUME NEW i \in 1..length
        PROVE  new[at + i] = part[i]
    <3>1. at + i \in 1..n /\ at + i \in (at + 1)..(at + length) /\ (at + i) - at = i
      OBVIOUS
    <3> QED BY <1>2, <3>1
  <2> QED BY <1>1, <2>1 DEF Holds
<1>6. SameOutside(bytes, new, at, length, n)
  BY <1>2 DEF SameOutside
<1> QED BY <1>4, <1>5, <1>6 DEF new

-----------------------------------------------------------------------------
(* The sums of FNV-1a over the first bytes of a file *)
Hashing(hash, bytes, n) ==
  /\ hash \in [0..n -> Numbers]
  /\ hash[0] = Basis
  /\ \A i \in 1..n : hash[i] = (ExclusiveOr(hash[i - 1], bytes[i]) * Prime) % Word
  /\ Hashed(bytes) = hash[n]

(* A step of the hash stays in range. *)
LEMMA HashStep ==
  ASSUME NEW m \in Numbers, NEW b \in Bytes
  PROVE  (ExclusiveOr(m, b) * Prime) % Word \in Numbers
<1>1. ExclusiveOr(m, b) \in Nat /\ Prime \in Nat
  BY XorAssumption, PrimeAssumption DEF Numbers
<1>2. ExclusiveOr(m, b) * Prime \in Nat
  BY <1>1, TimesMonotone
<1>3. Word \in Nat \ {0}
  BY WordAssumption DEF Numbers
<1> QED BY <1>2, <1>3, DivMod DEF Numbers

(* The hash of a file is a chain of such steps. *)
LEMMA HashChain ==
  ASSUME NEW n \in Nat, NEW bytes, IsFile(bytes, n)
  PROVE  \E hash : Hashing(hash, bytes, n)
<1> DEFINE step == [x \in (1..n) \X Numbers |-> (ExclusiveOr(x[2], bytes[x[1]]) * Prime) % Word]
           Hash == CHOOSE hash : hash = [i \in 0..n |->
             IF i = 0 THEN Basis ELSE (ExclusiveOr(hash[i - 1], bytes[i]) * Prime) % Word]
<1>basis. Basis \in Numbers
  BY FormatAssumption
<1>byte. \A i \in 1..n : bytes[i] \in Bytes
  BY DEF IsFile
<1>1. step \in [(1..n) \X Numbers -> Numbers]
  <2>1. ASSUME NEW x \in (1..n) \X Numbers
        PROVE  (ExclusiveOr(x[2], bytes[x[1]]) * Prime) % Word \in Numbers
    <3>1. x[2] \in Numbers /\ bytes[x[1]] \in Bytes
      BY <1>byte
    <3> QED BY <3>1, HashStep
  <2> QED BY <2>1
<1>2. PICK f \in [0..n -> Numbers] : Stepping(f, n, Basis, step)
  <2> HIDE DEF step
  <2> QED BY <1>1, <1>basis, Recursion
<1>3. f = [i \in 0..n |-> IF i = 0 THEN Basis ELSE (ExclusiveOr(f[i - 1], bytes[i]) * Prime) % Word]
  <2>1. ASSUME NEW i \in 1..n
        PROVE  f[i] = (ExclusiveOr(f[i - 1], bytes[i]) * Prime) % Word
    <3>1. f[i - 1] \in Numbers
      BY <1>2
    <3>2. f[i] = step[<<i, f[i - 1]>>]
      BY <1>2 DEF Stepping
    <3> QED BY <3>1, <3>2
  <2>2. f[0] = Basis
    BY <1>2 DEF Stepping
  <2>3. ASSUME NEW i \in 0..n
        PROVE  f[i] = IF i = 0 THEN Basis ELSE (ExclusiveOr(f[i - 1], bytes[i]) * Prime) % Word
    BY <2>1, <2>2
  <2> QED BY <2>3
<1>4. Hash = [i \in 0..n |->
                IF i = 0 THEN Basis ELSE (ExclusiveOr(Hash[i - 1], bytes[i]) * Prime) % Word]
  BY <1>3
<1>5. Hashed(bytes) = Hash[n]
  BY DEF Hashed, IsFile
<1> HIDE DEF Hash, step
<1>6. Hash[0] = Basis
  BY <1>4
<1>7. \A i \in 1..n : Hash[i] = (ExclusiveOr(Hash[i - 1], bytes[i]) * Prime) % Word
  BY <1>4
<1>8. 0..n \subseteq {i \in 0..n : Hash[i] \in Numbers}
  <2> DEFINE good == {i \in 0..n : Hash[i] \in Numbers}
  <2>1. 0 \in good /\ 0 \in 0..n
    BY <1>6, <1>basis
  <2>2. ASSUME NEW i \in (0 + 1)..n, i - 1 \in good
        PROVE  i \in good
    <3>1. i \in 1..n /\ Hash[i - 1] \in Numbers
      BY <2>2
    <3> QED BY <3>1, <1>7, <1>byte, HashStep
  <2>3. 0..n \subseteq good
    <3> HIDE DEF good
    <3> QED BY <2>1, <2>2, Climb
  <2> QED BY <2>3
<1>9. Hash \in [0..n -> Numbers]
  BY <1>4, <1>8
<1> QED BY <1>5, <1>6, <1>7, <1>9 DEF Hashing

(* Files that differ in one byte have different hashes: each step of the   *)
(* hash is one to one in what it is given of the file, and in what it has  *)
(* so far.                                                                 *)
LEMMA HashDiffers ==
  ASSUME NEW n \in Nat, NEW x, NEW y, IsFile(x, n), IsFile(y, n),
         NEW k \in 1..n, x[k] # y[k], \A i \in 1..n : i # k => x[i] = y[i]
  PROVE  Hashed(x) # Hashed(y)
<1>1. PICK f : Hashing(f, x, n)
  BY HashChain
<1>2. PICK g : Hashing(g, y, n)
  BY HashChain
<1>oneone. ASSUME NEW a \in Numbers, NEW b \in Numbers, NEW c \in Bytes, NEW d \in Bytes,
                  ExclusiveOr(a, c) # ExclusiveOr(b, d)
           PROVE  (ExclusiveOr(a, c) * Prime) % Word # (ExclusiveOr(b, d) * Prime) % Word
  <2>1. ExclusiveOr(a, c) \in Numbers /\ ExclusiveOr(b, d) \in Numbers
    BY XorAssumption
  <2> QED BY <1>oneone, <2>1, PrimeAssumption
<1>3. f[k - 1] = g[k - 1]
  <2> DEFINE good == {i \in 0..(k - 1) : f[i] = g[i]}
  <2>1. 0 \in good /\ 0 \in 0..(k - 1)
    BY <1>1, <1>2 DEF Hashing
  <2>2. \A i \in (0 + 1)..(k - 1) : i - 1 \in good => i \in good
    BY <1>1, <1>2 DEF Hashing
  <2>3. 0..(k - 1) \subseteq good
    <3>1. k - 1 \in Nat
      OBVIOUS
    <3> HIDE DEF good
    <3> QED BY <2>1, <2>2, <3>1, Climb
  <2> QED BY <2>3
<1> DEFINE good == {i \in k..n : f[i] # g[i]}
<1>4. k \in good
  <2>1. f[k - 1] \in Numbers /\ x[k] \in Bytes /\ y[k] \in Bytes
    BY <1>1 DEF Hashing, IsFile
  <2>2. ExclusiveOr(f[k - 1], x[k]) # ExclusiveOr(f[k - 1], y[k])
    BY <2>1, XorAssumption
  <2>3. f[k] # g[k]
    BY <1>1, <1>2, <1>3, <2>1, <2>2, <1>oneone DEF Hashing
  <2> QED BY <2>3
<1>5. ASSUME NEW i \in (k + 1)..n, i - 1 \in good
      PROVE  i \in good
  <2>1. i \in 1..n /\ i \in k..n /\ i # k /\ i - 1 \in 0..n
    OBVIOUS
  <2>2. /\ f[i - 1] \in Numbers /\ g[i - 1] \in Numbers /\ f[i - 1] # g[i - 1]
        /\ x[i] \in Bytes /\ y[i] = x[i]
    BY <1>1, <1>2, <1>5, <2>1 DEF Hashing, IsFile
  <2>3. ExclusiveOr(f[i - 1], x[i]) # ExclusiveOr(g[i - 1], x[i])
    BY <2>2, XorAssumption
  <2>4. f[i] # g[i]
    BY <1>1, <1>2, <2>1, <2>2, <2>3, <1>oneone DEF Hashing
  <2> QED BY <2>1, <2>4
<1>6. k..n \subseteq good
  <2>1. k \in 0..n
    OBVIOUS
  <2> HIDE DEF good
  <2> QED BY <1>4, <1>5, <2>1, Climb
<1>7. f[n] # g[n]
  BY <1>6
<1> QED BY <1>1, <1>2, <1>7 DEF Hashing

-----------------------------------------------------------------------------
(* The places of the fields in a journal *)
LEMMA Places ==
  /\ Width \in Nat \ {0} /\ RowSize \in Nat /\ NameCapacity \in Nat \ {0} /\ PaddingSize \in Nat
  /\ ChecksumAt \in Nat /\ JournalSize \in Nat /\ NameAt \in Nat /\ RowAt \in Nat
  /\ NameAt = 7 * Width
  /\ RowAt = NameAt + NameCapacity
  /\ ChecksumAt = RowAt + RowSize
  /\ JournalSize = ChecksumAt + Width + PaddingSize
  BY NumberAssumption, FormatAssumption, SizeAssumption
  DEF ChecksumAt, JournalSize, NameAt, RowAt

(* Zeros are bytes, and the number 0.                                      *)
LEMMA ZeroFacts ==
  ASSUME NEW n \in Nat
  PROVE  Zeros(n) \in [1..n -> Bytes] /\ IsFile(Zeros(n), n) /\ \A i \in 1..n : Zeros(n)[i] = 0
<1>1. 0 \in Bytes
  BY NumberAssumption DEF Bytes
<1>2. Zeros(n) \in [1..n -> Bytes] /\ \A i \in 1..n : Zeros(n)[i] = 0
  BY <1>1 DEF Zeros
<1> QED BY <1>2, LengthIs DEF IsFile

(* No byte of 0 is other than 0.                                           *)
LEMMA PutZero ==
  ASSUME NEW bytes, NEW at \in Nat, \A i \in 1..Width : bytes[at + i] = 0
  PROVE  Holds(bytes, at, put(0))
<1>1. ASSUME NEW i \in 1..Width
      PROVE  put(0)[i] = 0
  <2>1. i - 1 \in 0..Width
    BY NumberAssumption
  <2> DEFINE p == Power[i - 1]
  <2>2. p \in Nat \ {0} /\ Byte \in Nat \ {0}
    BY <2>1, Powers, NumberAssumption
  <2>3. put(0)[i] = (0 \div p) % Byte
    BY DEF put
  <2> HIDE DEF p
  <2>4. (0 * p + 0) \div p = 0 /\ 0 * p + 0 = 0
    <3>1. 0 \in 0..(p - 1) /\ 0 \in Nat
      BY <2>2
    <3> QED BY <2>2, <3>1, DivUnique
  <2>5. (0 * Byte + 0) % Byte = 0 /\ 0 * Byte + 0 = 0
    <3>1. 0 \in 0..(Byte - 1) /\ 0 \in Nat
      BY <2>2
    <3> QED BY <2>2, <3>1, DivUnique
  <2> QED BY <2>3, <2>4, <2>5
<1>2. Len(put(0)) = Width
  BY PutBytes
<1> QED BY <1>1, <1>2 DEF Holds

-----------------------------------------------------------------------------
(* The checksum is a number. *)
LEMMA ChecksumRange ==
  ASSUME NEW bytes, IsFile(bytes, JournalSize)
  PROVE  journal_checksum(bytes) \in Numbers
<1> DEFINE masked == Overlay(bytes, ChecksumAt, Zeros(Width))
<1>1. IsFile(masked, JournalSize)
  BY Places, ZeroFacts, OverlayPuts
<1> HIDE DEF masked
<1>2. PICK hash : Hashing(hash, masked, JournalSize)
  BY <1>1, Places, HashChain
<1>3. Hashed(masked) \in Numbers
  BY <1>2, Places DEF Hashing
<1> QED BY <1>3 DEF journal_checksum, masked

(* It does not depend on what stands where it will stand, ...              *)
LEMMA ChecksumIgnores ==
  ASSUME NEW x, NEW y, IsFile(x, JournalSize), IsFile(y, JournalSize),
         SameOutside(x, y, ChecksumAt, Width, JournalSize)
  PROVE  journal_checksum(x) = journal_checksum(y)
<1>1. Len(Zeros(Width)) = Width
  BY Places, ZeroFacts DEF IsFile
<1>2. /\ Overlay(x, ChecksumAt, Zeros(Width)) = [i \in 1..JournalSize |->
           IF i \in (ChecksumAt + 1)..(ChecksumAt + Width) THEN Zeros(Width)[i - ChecksumAt] ELSE x[i]]
      /\ Overlay(y, ChecksumAt, Zeros(Width)) = [i \in 1..JournalSize |->
           IF i \in (ChecksumAt + 1)..(ChecksumAt + Width) THEN Zeros(Width)[i - ChecksumAt] ELSE y[i]]
  BY <1>1 DEF Overlay, IsFile
<1>3. Overlay(x, ChecksumAt, Zeros(Width)) = Overlay(y, ChecksumAt, Zeros(Width))
  BY <1>2 DEF SameOutside
<1> QED BY <1>3 DEF journal_checksum

(* ... and on every other byte.                                            *)
LEMMA ChecksumDiffers ==
  ASSUME NEW x, NEW y, IsFile(x, JournalSize), IsFile(y, JournalSize),
         NEW k \in 1..JournalSize, k \notin (ChecksumAt + 1)..(ChecksumAt + Width),
         x[k] # y[k], \A i \in 1..JournalSize : i # k => x[i] = y[i]
  PROVE  journal_checksum(x) # journal_checksum(y)
<1> DEFINE u == Overlay(x, ChecksumAt, Zeros(Width))
           v == Overlay(y, ChecksumAt, Zeros(Width))
<1>1. Len(Zeros(Width)) = Width
  BY Places, ZeroFacts DEF IsFile
<1>2. /\ u = [i \in 1..JournalSize |->
           IF i \in (ChecksumAt + 1)..(ChecksumAt + Width) THEN Zeros(Width)[i - ChecksumAt] ELSE x[i]]
      /\ v = [i \in 1..JournalSize |->
           IF i \in (ChecksumAt + 1)..(ChecksumAt + Width) THEN Zeros(Width)[i - ChecksumAt] ELSE y[i]]
  BY <1>1 DEF Overlay, IsFile
<1>3. IsFile(u, JournalSize) /\ IsFile(v, JournalSize)
  BY Places, ZeroFacts, OverlayPuts
<1> HIDE DEF u, v
<1>4. u[k] # v[k] /\ \A i \in 1..JournalSize : i # k => u[i] = v[i]
  BY <1>2
<1>5. Hashed(u) # Hashed(v)
  BY <1>3, <1>4, Places, HashDiffers
<1> QED BY <1>5 DEF journal_checksum, u, v

(* A file's bytes make numbers.                                            *)
LEMMA FileNumbers ==
  ASSUME NEW n \in Nat, NEW bytes, IsFile(bytes, n), NEW at \in Nat, at + Width <= n
  PROVE  IsNumber(bytes, at)
<1>1. ASSUME NEW i \in 1..Width
      PROVE  bytes[at + i] \in Nat
  <2>1. at + i \in 1..n
    BY NumberAssumption
  <2> QED BY <2>1, NumberAssumption DEF IsFile, Bytes
<1> QED BY <1>1 DEF IsNumber

(* No byte of a file with its checksum can change unnoticed, those of the  *)
(* checksum included.                                                      *)
LEMMA DamageShows ==
  ASSUME NEW x, IsFile(x, JournalSize), get(x, ChecksumAt) = journal_checksum(x),
         NEW k \in 1..JournalSize, NEW b \in Bytes, x[k] # b
  PROVE  get([x EXCEPT ![k] = b], ChecksumAt) # journal_checksum([x EXCEPT ![k] = b])
<1> DEFINE y == [x EXCEPT ![k] = b]
<1>1. /\ y \in [1..JournalSize -> Bytes]
      /\ y[k] = b
      /\ \A i \in 1..JournalSize : i # k => x[i] = y[i]
  BY DEF IsFile
<1> HIDE DEF y
<1>2. IsFile(y, JournalSize)
  BY <1>1, Places, LengthIs DEF IsFile
<1>3. IsNumber(x, ChecksumAt) /\ IsNumber(y, ChecksumAt)
  <2>1. ChecksumAt + Width <= JournalSize
    BY Places
  <2> QED BY <1>2, <2>1, Places, FileNumbers
<1>at. /\ Width \in Nat /\ ChecksumAt \in Nat /\ JournalSize \in Nat
       /\ ChecksumAt + Width <= JournalSize
  BY Places
<1>4. CASE k \in (ChecksumAt + 1)..(ChecksumAt + Width)
  <2>1. journal_checksum(x) = journal_checksum(y)
    <3>1. SameOutside(x, y, ChecksumAt, Width, JournalSize)
      BY <1>1, <1>4 DEF SameOutside
    <3> QED BY <1>2, <3>1, ChecksumIgnores
  <2> DEFINE d == k - ChecksumAt
  <2>2. d \in 1..Width /\ ChecksumAt + d = k
    BY <1>4, <1>at
  <2>3. \A i \in 1..Width : i # d => x[ChecksumAt + i] = y[ChecksumAt + i]
    <3> TAKE i \in 1..Width
    <3>1. ChecksumAt + i \in 1..JournalSize /\ (i # d => ChecksumAt + i # k)
      BY <1>at
    <3> QED BY <1>1, <3>1
  <2> HIDE DEF d
  <2>4. get(x, ChecksumAt) # get(y, ChecksumAt)
    BY <1>1, <1>3, <1>at, <2>2, <2>3, GetDiffers
  <2> QED BY <2>1, <2>4 DEF y
<1>5. CASE k \notin (ChecksumAt + 1)..(ChecksumAt + Width)
  <2>1. journal_checksum(x) # journal_checksum(y)
    BY <1>1, <1>2, <1>5, ChecksumDiffers
  <2>2. get(x, ChecksumAt) = get(y, ChecksumAt)
    <3>1. \A i \in 1..Width : y[ChecksumAt + i] = x[ChecksumAt + i]
      <4> TAKE i \in 1..Width
      <4>1. ChecksumAt + i \in 1..JournalSize /\ ChecksumAt + i # k
        BY <1>at, <1>5
      <4> QED BY <1>1, <4>1
    <3>2. PICK v : Adds(v, x, ChecksumAt)
      BY <1>3, <1>at, GetAdds
    <3>3. PICK w : Adds(w, y, ChecksumAt)
      BY <1>3, <1>at, GetAdds
    <3> DEFINE good == {i \in 0..Width : v[i] = w[i]}
    <3>4. 0 \in good /\ 0 \in 0..Width
      BY <3>2, <3>3, <1>at DEF Adds
    <3>5. \A i \in (0 + 1)..Width : i - 1 \in good => i \in good
      BY <3>1, <3>2, <3>3, <1>at DEF Adds
    <3>6. 0..Width \subseteq good
      <4> HIDE DEF good
      <4> QED BY <3>4, <3>5, <1>at, Climb
    <3> QED BY <3>2, <3>3, <3>6, <1>at DEF Adds
  <2> QED BY <2>1, <2>2 DEF y
<1> QED BY <1>4, <1>5

-----------------------------------------------------------------------------
(* A number put into the journal *)
LEMMA PutNumber ==
  ASSUME NEW bytes, IsFile(bytes, JournalSize), NEW at \in Nat, at + Width <= JournalSize,
         NEW n \in Nat
  PROVE  /\ IsFile(Overlay(bytes, at, put(n)), JournalSize)
         /\ Holds(Overlay(bytes, at, put(n)), at, put(n))
         /\ SameOutside(bytes, Overlay(bytes, at, put(n)), at, Width, JournalSize)
  BY Places, PutBytes, OverlayPuts

(* What a journal holds of the numbers of an insert, *)
HoldsNumbers(bytes, j) ==
  /\ Holds(bytes, 0, put(Magic))
  /\ Holds(bytes, Width, put(Version))
  /\ Holds(bytes, SizeAt, put(JournalSize))
  /\ Holds(bytes, ReservedAt, put(0))
  /\ Holds(bytes, PreviousAt, put(j.previous_count))
  /\ Holds(bytes, IntendedAt, put(j.intended_count))
  /\ Holds(bytes, OffsetAt, put(j.offset))

(* and of its table. *)
HoldsName(bytes, name) ==
  /\ \A i \in 1..Len(name) : bytes[NameAt + i] = name[i]
  /\ \A i \in (Len(name) + 1)..NameCapacity : bytes[NameAt + i] = 0

(* A name and a row that can be in a journal *)
IsName(name) == Len(name) \in 0..(NameCapacity - 1) /\ name \in [1..Len(name) -> Bytes \ {0}]
IsRow(row) == Len(row) = RowSize /\ row \in [1..RowSize -> Bytes]

(* A journal is written as a whole: every field is in its place, none over *)
(* another, and the checksum is that of the file it stands in.             *)
LEMMA Written ==
  ASSUME NEW j \in Journals, NEW name, IsName(name), NEW row, IsRow(row)
  PROVE  LET bytes == persist_insert_journal(j, name, row)
         IN  /\ IsFile(bytes, JournalSize)
             /\ HoldsNumbers(bytes, j)
             /\ HoldsName(bytes, name)
             /\ get(bytes, ChecksumAt) = journal_checksum(bytes)
<1> DEFINE o0 == Zeros(JournalSize)
           o1 == Overlay(o0, 0, put(Magic))
           o2 == Overlay(o1, Width, put(Version))
           o3 == Overlay(o2, SizeAt, put(JournalSize))
           o4 == Overlay(o3, PreviousAt, put(j.previous_count))
           o5 == Overlay(o4, IntendedAt, put(j.intended_count))
           o6 == Overlay(o5, OffsetAt, put(j.offset))
           o7 == Overlay(o6, NameAt, name)
           o8 == Overlay(o7, RowAt, row)
           o9 == Overlay(o8, ChecksumAt, put(journal_checksum(o8)))
<1>persist. persist_insert_journal(j, name, row) = o9
  BY DEF persist_insert_journal
<1>at. /\ Width \in Nat \ {0} /\ RowSize \in Nat /\ NameCapacity \in Nat \ {0}
       /\ PaddingSize \in Nat
       /\ SizeAt = 2 * Width /\ ReservedAt = 3 * Width /\ PreviousAt = 4 * Width
       /\ IntendedAt = 5 * Width /\ OffsetAt = 6 * Width /\ NameAt = 7 * Width
       /\ RowAt = NameAt + NameCapacity
       /\ ChecksumAt = RowAt + RowSize
       /\ JournalSize = ChecksumAt + Width + PaddingSize
  BY Places DEF SizeAt, ReservedAt, PreviousAt, IntendedAt, OffsetAt
<1>number. /\ Magic \in Nat /\ Version \in Nat /\ JournalSize \in Nat
           /\ j.previous_count \in Nat /\ j.intended_count \in Nat /\ j.offset \in Nat
  BY FormatAssumption DEF Numbers, Journals
<1>0. IsFile(o0, JournalSize) /\ \A i \in 1..JournalSize : o0[i] = 0
  BY <1>number, ZeroFacts
<1> HIDE DEF o0
<1>1. /\ IsFile(o1, JournalSize) /\ Holds(o1, 0, put(Magic))
      /\ SameOutside(o0, o1, 0, Width, JournalSize)
  BY <1>0, <1>at, <1>number, PutNumber
<1> HIDE DEF o1
<1>2. /\ IsFile(o2, JournalSize) /\ Holds(o2, Width, put(Version))
      /\ SameOutside(o1, o2, Width, Width, JournalSize)
  BY <1>1, <1>at, <1>number, PutNumber
<1> HIDE DEF o2
<1>3. /\ IsFile(o3, JournalSize) /\ Holds(o3, SizeAt, put(JournalSize))
      /\ SameOutside(o2, o3, SizeAt, Width, JournalSize)
  BY <1>2, <1>at, <1>number, PutNumber
<1> HIDE DEF o3
<1>4. /\ IsFile(o4, JournalSize) /\ Holds(o4, PreviousAt, put(j.previous_count))
      /\ SameOutside(o3, o4, PreviousAt, Width, JournalSize)
  BY <1>3, <1>at, <1>number, PutNumber
<1> HIDE DEF o4
<1>5. /\ IsFile(o5, JournalSize) /\ Holds(o5, IntendedAt, put(j.intended_count))
      /\ SameOutside(o4, o5, IntendedAt, Width, JournalSize)
  BY <1>4, <1>at, <1>number, PutNumber
<1> HIDE DEF o5
<1>6. /\ IsFile(o6, JournalSize) /\ Holds(o6, OffsetAt, put(j.offset))
      /\ SameOutside(o5, o6, OffsetAt, Width, JournalSize)
  BY <1>5, <1>at, <1>number, PutNumber
<1> HIDE DEF o6
<1>7. /\ IsFile(o7, JournalSize) /\ Holds(o7, NameAt, name)
      /\ SameOutside(o6, o7, NameAt, Len(name), JournalSize)
  <2>1. Len(name) \in Nat /\ name \in [1..Len(name) -> Bytes] /\ NameAt \in Nat
    BY <1>at DEF IsName
  <2>2. NameAt + Len(name) <= JournalSize
    BY <1>at DEF IsName
  <2> QED BY <1>6, <1>number, <2>1, <2>2, OverlayPuts
<1> HIDE DEF o7
<1>8. /\ IsFile(o8, JournalSize)
      /\ SameOutside(o7, o8, RowAt, RowSize, JournalSize)
  <2>1. RowAt \in Nat /\ RowAt + RowSize <= JournalSize
    BY <1>at
  <2> QED BY <1>7, <1>at, <1>number, <2>1, OverlayPuts DEF IsRow
<1> HIDE DEF o8
<1>sum. journal_checksum(o8) \in Numbers /\ journal_checksum(o8) \in Nat
  BY <1>8, ChecksumRange DEF Numbers
<1>9. /\ IsFile(o9, JournalSize) /\ Holds(o9, ChecksumAt, put(journal_checksum(o8)))
      /\ SameOutside(o8, o9, ChecksumAt, Width, JournalSize)
  <2>1. ChecksumAt \in Nat /\ ChecksumAt + Width <= JournalSize
    BY <1>at
  <2> QED BY <1>8, <1>sum, <2>1, PutNumber
<1> HIDE DEF o9
<1>length. /\ Len(put(Magic)) = Width /\ Len(put(Version)) = Width
           /\ Len(put(JournalSize)) = Width
           /\ Len(put(j.previous_count)) = Width /\ Len(put(j.intended_count)) = Width
           /\ Len(put(j.offset)) = Width
  BY <1>number, PutBytes
<1>name. Len(name) \in 0..(NameCapacity - 1)
  BY DEF IsName
<1>late. \A i \in 1..(6 * Width + Width) : o9[i] = o6[i]
  BY <1>at, <1>name, <1>7, <1>8, <1>9 DEF SameOutside
<1>10. Holds(o9, OffsetAt, put(j.offset))
  BY <1>at, <1>length, <1>late, <1>6 DEF Holds
<1>11. Holds(o9, IntendedAt, put(j.intended_count))
  BY <1>at, <1>length, <1>late, <1>6, <1>5 DEF Holds, SameOutside
<1>12. Holds(o9, PreviousAt, put(j.previous_count))
  BY <1>at, <1>length, <1>late, <1>6, <1>5, <1>4 DEF Holds, SameOutside
<1>early. \A i \in 1..(4 * Width) : o9[i] = o3[i]
  BY <1>at, <1>late, <1>6, <1>5, <1>4 DEF SameOutside
<1>13. Holds(o9, SizeAt, put(JournalSize))
  BY <1>at, <1>length, <1>early, <1>3 DEF Holds
<1>14. Holds(o9, Width, put(Version))
  BY <1>at, <1>length, <1>early, <1>3, <1>2 DEF Holds, SameOutside
<1>15. Holds(o9, 0, put(Magic))
  BY <1>at, <1>length, <1>early, <1>3, <1>2, <1>1 DEF Holds, SameOutside
<1>16. Holds(o9, ReservedAt, put(0))
  <2>1. \A i \in 1..Width : o9[ReservedAt + i] = 0
    BY <1>at, <1>early, <1>3, <1>2, <1>1, <1>0 DEF SameOutside
  <2> QED BY <2>1, <1>at, PutZero
<1>17. HoldsName(o9, name)
  <2>1. \A i \in 1..NameCapacity : o9[NameAt + i] = o7[NameAt + i]
    BY <1>at, <1>8, <1>9 DEF SameOutside
  <2>2. \A i \in 1..Len(name) : o9[NameAt + i] = name[i]
    <3> TAKE i \in 1..Len(name)
    <3>1. i \in 1..NameCapacity
      BY <1>at, <1>name
    <3>2. o7[NameAt + i] = name[i]
      BY <1>7 DEF Holds
    <3> QED BY <3>1, <3>2, <2>1
  <2>3. \A i \in (Len(name) + 1)..NameCapacity : o7[NameAt + i] = o6[NameAt + i]
    <3> TAKE i \in (Len(name) + 1)..NameCapacity
    <3>1. NameAt + i \in 1..JournalSize /\ NameAt + i \notin (NameAt + 1)..(NameAt + Len(name))
      BY <1>at, <1>name
    <3> QED BY <3>1, <1>7 DEF SameOutside
  <2>4. \A i \in (7 * Width + 1)..JournalSize : o6[i] = o3[i]
    BY <1>at, <1>number, <1>6, <1>5, <1>4 DEF SameOutside
  <2>5. \A i \in (7 * Width + 1)..JournalSize : o3[i] = 0
    BY <1>at, <1>number, <1>3, <1>2, <1>1, <1>0 DEF SameOutside
  <2>6. \A i \in (Len(name) + 1)..NameCapacity : o9[NameAt + i] = 0
    <3> TAKE i \in (Len(name) + 1)..NameCapacity
    <3>1. i \in 1..NameCapacity /\ NameAt + i \in (7 * Width + 1)..JournalSize
      BY <1>at, <1>name
    <3> QED BY <3>1, <2>1, <2>3, <2>4, <2>5
  <2> QED BY <2>2, <2>6 DEF HoldsName
<1>18. get(o9, ChecksumAt) = journal_checksum(o9)
  <2>1. journal_checksum(o9) = journal_checksum(o8)
    BY <1>8, <1>9, ChecksumIgnores
  <2>2. get(o9, ChecksumAt) = journal_checksum(o8)
    BY <1>9, <1>sum, Places, GetPut
  <2> QED BY <2>1, <2>2
<1>19. HoldsNumbers(o9, j)
  BY <1>10, <1>11, <1>12, <1>13, <1>14, <1>15, <1>16 DEF HoldsNumbers
<1> QED BY <1>persist, <1>9, <1>17, <1>18, <1>19

(* What recovery reads of the numbers, ...                                 *)
LEMMA NumbersRead ==
  ASSUME NEW bytes, NEW j \in Journals, HoldsNumbers(bytes, j),
         {j.previous_count, j.intended_count, j.offset} \subseteq Numbers
  PROVE  /\ get(bytes, 0) = Magic
         /\ get(bytes, Width) = Version
         /\ get(bytes, SizeAt) = JournalSize
         /\ get(bytes, ReservedAt) = 0
         /\ Fields(bytes) = j
<1>1. /\ Width \in Nat /\ SizeAt \in Nat /\ ReservedAt \in Nat /\ PreviousAt \in Nat
      /\ IntendedAt \in Nat /\ OffsetAt \in Nat /\ 0 \in Nat
  BY Places DEF SizeAt, ReservedAt, PreviousAt, IntendedAt, OffsetAt
<1>2. /\ Magic \in Numbers /\ Version \in Numbers /\ JournalSize \in Numbers /\ 0 \in Numbers
  BY FormatAssumption, WordAssumption DEF Numbers
<1>3. /\ get(bytes, 0) = Magic
      /\ get(bytes, Width) = Version
      /\ get(bytes, SizeAt) = JournalSize
      /\ get(bytes, ReservedAt) = 0
  BY <1>1, <1>2, GetPut DEF HoldsNumbers
<1>4. /\ get(bytes, PreviousAt) = j.previous_count
      /\ get(bytes, IntendedAt) = j.intended_count
      /\ get(bytes, OffsetAt) = j.offset
  <2>1. /\ Holds(bytes, PreviousAt, put(j.previous_count)) /\ j.previous_count \in Numbers
        /\ Holds(bytes, IntendedAt, put(j.intended_count)) /\ j.intended_count \in Numbers
        /\ Holds(bytes, OffsetAt, put(j.offset)) /\ j.offset \in Numbers
    BY DEF HoldsNumbers
  <2> QED BY <1>1, <2>1, GetPut
<1>5. Fields(bytes) = j
  BY <1>4 DEF Fields, Journals
<1> QED BY <1>3, <1>5

(* ... and of the name.                                                    *)
LEMMA NameRead ==
  ASSUME NEW bytes, NEW name, IsName(name), HoldsName(bytes, name)
  PROVE  StoredName(bytes) = name
<1> DEFINE ends == {n \in 0..(NameCapacity - 1) :
                      n = NameCapacity - 1 \/ bytes[NameAt + n + 1] = 0}
<1>1. Len(name) \in 0..(NameCapacity - 1) /\ name \in [1..Len(name) -> Bytes \ {0}]
  BY DEF IsName
<1>at. NameAt \in Nat /\ NameCapacity \in Nat \ {0}
  BY Places
<1>2. Len(name) \in ends
  <2>1. Len(name) + 1 \in (Len(name) + 1)..NameCapacity
    BY <1>1, <1>at
  <2>2. NameAt + (Len(name) + 1) = NameAt + Len(name) + 1
    BY <1>1, <1>at
  <2> QED BY <1>1, <2>1, <2>2 DEF HoldsName
<1>3. ASSUME NEW n \in ends
      PROVE  Len(name) <= n
  <2> SUFFICES ASSUME n < Len(name) PROVE FALSE
    BY <1>1, <1>at
  <2>1. n + 1 \in 1..Len(name) /\ n # NameCapacity - 1 /\ NameAt + (n + 1) = NameAt + n + 1
    BY <1>1, <1>at
  <2>2. bytes[NameAt + n + 1] = name[n + 1] /\ name[n + 1] # 0
    BY <1>1, <2>1 DEF HoldsName
  <2> QED BY <2>1, <2>2
<1>4. Min(ends) = Len(name)
  <2>1. ends \subseteq Nat
    BY <1>at
  <2> HIDE DEF ends
  <2>2. ASSUME NEW m \in ends, \A n \in ends : m <= n
        PROVE  m = Len(name)
    <3>1. m \in Nat /\ m <= Len(name)
      BY <1>2, <2>1, <2>2
    <3>2. Len(name) <= m
      BY <1>3
    <3>3. Len(name) \in Nat
      BY <1>1, <1>at
    <3> QED BY <3>1, <3>2, <3>3
  <2> QED BY <1>2, <1>3, <2>2 DEF Min
<1>5. StoredName(bytes) = [i \in 1..Len(name) |-> bytes[NameAt + i]]
  BY <1>4 DEF StoredName
<1>6. [i \in 1..Len(name) |-> bytes[NameAt + i]] = name
  BY <1>1 DEF HoldsName
<1> QED BY <1>5, <1>6

-----------------------------------------------------------------------------
(* A journal that is valid, and one that an insert has written *)
Genuine(bytes, j, name) ==
  /\ IsFile(bytes, JournalSize)
  /\ HoldsNumbers(bytes, j)
  /\ HoldsName(bytes, name)
  /\ get(bytes, ChecksumAt) = journal_checksum(bytes)

(* An insert left alone: its file is the one it wrote. *)
FileIs(j) == \E bytes \in file : file = {bytes} /\ Genuine(bytes, j, Name)

(* The inductive invariant: there is a file while there is a journal, and  *)
(* one at most; recovery has ended well only when there is none; until     *)
(* something befalls it, it is as the insert wrote it; and then it is not  *)
(* valid.                                                                  *)
RecordInv ==
  /\ LayoutInv
  /\ touched \in BOOLEAN
  /\ journal = {} => file = {} /\ ~touched
  /\ \A j \in journal : journal = {j}
  /\ file # {} => answer # "TABLE_OK"
  /\ touched => \A bytes \in file : ~IsValid(bytes)
  /\ ~touched => \A j \in journal : FileIs(j)
  /\ touched => answer # "TABLE_OK"

(* The numbers of a journal are in range. *)
LEMMA JournalNumbers ==
  ASSUME LayoutInv, NEW j \in journal
  PROVE  /\ j \in Journals
         /\ {j.previous_count, j.intended_count, j.offset} \subseteq Numbers
         /\ JournalAccepted(j)
<1>1. j \in Journals /\ JournalFits(j) /\ j.previous_count \in Nat
  BY DEF LayoutInv, LayoutTypeOK, Journals
<1>2. /\ Place(j.previous_count) \in Nat
      /\ j.previous_count <= Place(j.previous_count)
      /\ Place(j.previous_count) <= LongMax
  BY <1>1, PlaceFacts, RowBelowPlace DEF JournalFits
<1>3. {j.previous_count, j.intended_count, j.offset} \subseteq Numbers
  BY <1>1, <1>2, SizeAssumption, WordAssumption DEF JournalFits, Numbers
<1>4. JournalAccepted(j)
  BY InvTableOpens DEF TableOpens
<1> QED BY <1>1, <1>3, <1>4

(* What an insert wrote is valid, for its table only.                      *)
LEMMA GenuineIsValid ==
  ASSUME LayoutInv, NEW j \in journal, NEW name, IsName(name), NEW bytes, Genuine(bytes, j, name)
  PROVE  /\ Fields(bytes) = j
         /\ StoredName(bytes) = name
         /\ name = Name => IsValid(bytes)
<1>1. /\ j \in Journals
      /\ {j.previous_count, j.intended_count, j.offset} \subseteq Numbers
      /\ JournalAccepted(j)
  BY JournalNumbers
<1>2. /\ get(bytes, 0) = Magic
      /\ get(bytes, Width) = Version
      /\ get(bytes, SizeAt) = JournalSize
      /\ get(bytes, ReservedAt) = 0
      /\ Fields(bytes) = j
  BY <1>1, NumbersRead DEF Genuine
<1>3. StoredName(bytes) = name
  BY NameRead DEF Genuine
<1> QED BY <1>1, <1>2, <1>3 DEF IsValid, Genuine, IsFile

(* No other length is valid, *)
LEMMA LengthShows ==
  ASSUME NEW bytes, IsFile(bytes, JournalSize), NEW other,
         \/ \E n \in 0..(JournalSize - 1) : other = SubSeq(bytes, 1, n)
         \/ \E b \in Bytes : other = Append(bytes, b)
  PROVE  ~IsValid(other)
<1>1. bytes \in Seq(Bytes) /\ Len(bytes) = JournalSize /\ JournalSize \in Nat
  BY Places, SeqDef DEF IsFile
<1>2. ASSUME NEW n \in 0..(JournalSize - 1), other = SubSeq(bytes, 1, n)
      PROVE  Len(other) # JournalSize
  <2>1. \A i \in 1..n : bytes[i] \in Bytes
    BY <1>1 DEF IsFile
  <2>2. n \in Int /\ 1 \in Int
    BY <1>1
  <2>3. Len(other) = IF 1 <= n THEN n - 1 + 1 ELSE 0
    BY <1>2, <2>1, <2>2, SubSeqProperties
  <2>4. JournalSize # 0
    BY <1>1, <2>2
  <2> QED BY <1>1, <2>3, <2>4
<1>3. ASSUME NEW b \in Bytes, other = Append(bytes, b)
      PROVE  Len(other) # JournalSize
  BY <1>1, <1>3
<1> QED BY <1>2, <1>3 DEF IsValid

(* nor is a file with another byte in it.                                  *)
LEMMA ByteShows ==
  ASSUME NEW bytes, IsFile(bytes, JournalSize), get(bytes, ChecksumAt) = journal_checksum(bytes),
         NEW i \in 1..JournalSize, NEW b \in Bytes, bytes[i] # b
  PROVE  ~IsValid([bytes EXCEPT ![i] = b])
  BY DamageShows DEF IsValid

(* The file of an insert that has been cut short *)
LEMMA Persisted ==
  ASSUME NEW j \in Journals, NEW name \in OtherNames \union {Name}, NEW row \in InsertedRows
  PROVE  IsName(name) /\ Genuine(persist_insert_journal(j, name, row), j, name)
<1>1. IsName(name) /\ IsRow(row)
  BY NameAssumption, RowAssumption DEF IsName, IsRow
<1> QED BY <1>1, Written DEF Genuine

(* No file: nothing is known to have gone wrong. *)
LEMMA InitRecordInv == RecordInit => RecordInv
  BY InitLayoutInv DEF RecordInit, Init, RecordInv

(* Each step of the record is one of the layout, or none. *)
LEMMA RecordStep ==
  ASSUME RecordInv, [RecordNext]_recordVars
  PROVE  [Next]_vars
<1>1. CASE Insert
  BY <1>1 DEF Insert, Next
<1>2. CASE CutShort
  BY <1>2 DEF CutShort, Next
<1>3. CASE Touch \/ Refuse \/ ReadFails \/ UNCHANGED recordVars
  BY <1>3 DEF Touch, Refuse, ReadFails, recordVars
<1>4. CASE Restore
  <2>1. PICK bytes \in file :
          /\ IsValid(bytes)
          /\ row_count' = Fields(bytes).previous_count
          /\ file_size' = storage_logical_size(Fields(bytes).previous_count)
          /\ journal' = {} /\ file' = {}
    BY <1>4 DEF Restore
  <2>2. ~touched /\ journal # {}
    BY <2>1 DEF RecordInv
  <2>3. PICK j \in journal : journal = {j}
    BY <2>2 DEF RecordInv
  <2>4. Genuine(bytes, j, Name)
    BY <2>1, <2>2, <2>3 DEF RecordInv, FileIs
  <2>5. Fields(bytes) = j /\ JournalAccepted(j)
    BY <2>3, <2>4, JournalNumbers, GenuineIsValid, NameAssumption DEF RecordInv, IsName
  <2> QED BY <2>1, <2>3, <2>5 DEF recover_insert_journal, Next
<1> QED BY <1>1, <1>2, <1>3, <1>4 DEF RecordNext

(* Whatever befalls the file, the invariant goes on. *)
LEMMA NextRecordInv == RecordInv /\ [RecordNext]_recordVars => RecordInv'
<1> SUFFICES ASSUME RecordInv, [RecordNext]_recordVars PROVE RecordInv'
  OBVIOUS
<1>layout. LayoutInv /\ LayoutInv'
  BY RecordStep, NextLayoutInv DEF RecordInv
<1>1. CASE Insert
  BY <1>1, <1>layout DEF Insert, storage_insert_row, RecordInv, FileIs
<1>2. CASE CutShort
  <2>1. PICK j \in journal', row \in InsertedRows : file' = {persist_insert_journal(j, Name, row)}
    BY <1>2 DEF CutShort
  <2>2. journal' = {j} /\ journal = {} /\ ~touched /\ ~touched' /\ answer' = "none"
    BY <1>2, <2>1 DEF CutShort, InsertCutShort, RecordInv
  <2>3. j \in Journals
    BY <1>layout, <2>1 DEF LayoutInv, LayoutTypeOK
  <2>4. Genuine(persist_insert_journal(j, Name, row), j, Name)
    BY <2>3, Persisted
  <2>5. FileIs(j)'
    BY <2>1, <2>4 DEF FileIs
  <2>6. \A k \in journal' : journal' = {k} /\ FileIs(k)'
    <3> TAKE k \in journal'
    <3>1. k = j
      BY <2>2
    <3> QED BY <2>2, <2>5, <3>1 DEF FileIs
  <2>7. touched' = FALSE
    BY <2>2, <1>2 DEF CutShort, RecordInv
  <2> QED BY <1>layout, <2>2, <2>6, <2>7 DEF RecordInv, FileIs
<1>3. CASE Touch
  <2>1. /\ ~touched /\ touched' = TRUE
        /\ journal' = journal /\ answer' = answer /\ UNCHANGED vars
    BY <1>3 DEF Touch, vars
  <2>2. PICK bytes \in file : DamageByte(bytes) \/ ChangeLength(bytes) \/ Misplace
    BY <1>3 DEF Touch
  <2>3. journal # {} /\ answer # "TABLE_OK"
    BY <2>2 DEF RecordInv
  <2>4. PICK j \in journal : journal = {j} /\ FileIs(j)
    BY <2>1, <2>3 DEF RecordInv
  <2>5. Genuine(bytes, j, Name)
    BY <2>4 DEF FileIs
  <2>6. \A other \in file' : ~IsValid(other)
    <3>1. CASE DamageByte(bytes)
      BY <2>5, <3>1, ByteShows DEF DamageByte, Genuine
    <3>2. CASE ChangeLength(bytes)
      BY <2>5, <3>2, LengthShows DEF ChangeLength, Genuine
    <3>3. CASE Misplace
      <4>1. PICK name \in OtherNames, row \in InsertedRows, k \in journal :
              file' = {persist_insert_journal(k, name, row)}
        BY <3>3 DEF Misplace
      <4>2. k \in Journals
        BY <1>layout DEF LayoutInv, LayoutTypeOK
      <4>3. IsName(name) /\ Genuine(persist_insert_journal(k, name, row), k, name)
        BY <4>2, Persisted
      <4>4. StoredName(persist_insert_journal(k, name, row)) = name /\ name # Name
        BY <1>layout, <4>3, GenuineIsValid, NameAssumption
      <4> QED BY <4>1, <4>4 DEF IsValid
    <3> QED BY <2>2, <3>1, <3>2, <3>3
  <2>7. \A other \in file' : ~IsValid(other)'
    <3> TAKE other \in file'
    <3>1. IsValid(other)' = IsValid(other)
      BY DEF IsValid, JournalAccepted, Fields, get, StoredName, journal_checksum
    <3> QED BY <2>6, <3>1
  <2> QED BY <1>layout, <2>1, <2>3, <2>4, <2>7 DEF RecordInv
<1>4. CASE Restore
  BY <1>4, <1>layout DEF Restore, RecordInv, FileIs
<1>5. CASE Refuse \/ ReadFails
  <2>1. UNCHANGED <<journal, file, touched>> /\ answer' = "TABLE_CORRUPT"
    BY <1>5 DEF Refuse, ReadFails, vars
  <2>2. (\A bytes \in file : ~IsValid(bytes))' = \A bytes \in file : ~IsValid(bytes)
    BY <2>1 DEF IsValid, JournalAccepted, Fields, get, StoredName, journal_checksum
  <2> QED BY <1>layout, <2>1, <2>2 DEF RecordInv, FileIs
<1>6. CASE UNCHANGED recordVars
  BY <1>6, <1>layout DEF recordVars, vars, RecordInv, FileIs
<1> QED BY <1>1, <1>2, <1>3, <1>4, <1>5, <1>6 DEF RecordNext

(* The invariant always holds. *)
THEOREM RecordInvariance == RecordSpec => []RecordInv
  BY InitRecordInv, NextRecordInv, PTL DEF RecordSpec

(* No damage of one byte, no other length and no other table's journal    *)
(* passes for an insert's own, and an insert's own does.                   *)
THEOREM DamageIsNoticed == RecordSpec => []MalformedIsCorrupt
<1>1. RecordInv => MalformedIsCorrupt
  <2> SUFFICES ASSUME RecordInv PROVE MalformedIsCorrupt
    OBVIOUS
  <2>1. ASSUME NEW bytes \in file, ~touched PROVE IsValid(bytes)
    <3>1. PICK j \in journal : FileIs(j)
      BY <2>1 DEF RecordInv
    <3>2. Genuine(bytes, j, Name)
      BY <3>1 DEF FileIs
    <3>3. IsName(Name) /\ LayoutInv
      BY NameAssumption DEF IsName, RecordInv
    <3> QED BY <3>2, <3>3, GenuineIsValid
  <2> QED BY <2>1 DEF RecordInv, MalformedIsCorrupt
<1> QED BY <1>1, RecordInvariance, PTL

(* The bytes implement the fields. *)
THEOREM BytesImplementLayout == RecordSpec => ImplementsLayout
<1>1. RecordInit => Init
  BY DEF RecordInit
<1>2. RecordInv /\ [RecordNext]_recordVars => [Next]_vars
  BY RecordStep
<1> QED BY <1>1, <1>2, RecordInvariance, PTL DEF RecordSpec, ImplementsLayout

-----------------------------------------------------------------------------
(***************************************************************************)
(* The loops over the rows: what one of them reports is true, at whatever  *)
(* row it stopped and however the file shrank under it.                    *)
(***************************************************************************)

(* The rows that count end below the largest offset, even those the file   *)
(* has lost.                                                               *)
Sized == row_count > 0 => Place(row_count - 1) + RowSize <= LongMax

(* An insert cut short is one of a whole file; nothing else cuts one that  *)
(* has a journal.                                                          *)
FileInv ==
  /\ LayoutTypeOK
  /\ Sized
  /\ journal # {} => LayoutInv

(* Between scans the iterator is at rest; while one goes on, what it took  *)
(* tells nothing has been found yet, or that nothing has been left out.    *)
LoopInv ==
  /\ caller = "none" => next_row = 0 /\ taken = {} /\ result = "none"
  /\ result = "none" /\ caller = "find" => taken = {}
  /\ result = "none" /\ caller = "rebuild" => taken = Seen

(* The inductive invariant *)
ScanInv ==
  /\ FileInv
  /\ ScanTypeOK
  /\ LoopInv
  /\ LoopsAreExact
  /\ ResultsAreTrue
  /\ OnlyDamageIsCorrupt

-----------------------------------------------------------------------------
(* A row that counts is read back from the offset it is written at, and    *)
(* ends within the size that opening the table asks for.                   *)
LEMMA RowsLie ==
  ASSUME LayoutTypeOK, Sized, NEW r \in Rows
  PROVE  /\ r \in Nat /\ r < row_count
         /\ storage_offset_for_row(r) = Place(r) /\ Place(r) \in Nat
         /\ storage_row_number_for_offset(Place(r)) = r
         /\ Place(r) + RowSize <= storage_logical_size(row_count)
         /\ storage_logical_size(row_count) \in HeaderSize..LongMax
<1>1. r \in Nat /\ r < row_count /\ row_count \in Nat
  BY DEF Rows, LayoutTypeOK
<1>2. /\ Place(r) + RowSize <= storage_logical_size(row_count)
      /\ storage_logical_size(row_count) \in HeaderSize..LongMax
  BY <1>1, LogicalSize DEF Sized
<1>3. Place(r) \in Nat /\ r <= Place(r)
  BY <1>1, PlaceFacts, RowBelowPlace
<1>4. Place(r) < Word /\ r < Word
  BY <1>1, <1>2, <1>3, SizeAssumption, WordAssumption
<1> QED BY <1>1, <1>2, <1>3, <1>4, OffsetIsPlace, RoundTrip

(* A table that opens has all its rows. *)
LEMMA OpenFits ==
  ASSUME LayoutTypeOK, Opens
  PROVE  LayoutInv
<1>type. /\ row_count \in Nat /\ file_size \in HeaderSize..LongMax
         /\ storage_logical_size(row_count) \in 0..file_size /\ journal = {}
         /\ LongMax \in Nat /\ HeaderSize \in Nat /\ RowSize \in Nat
  BY SizeAssumption, WordAssumption DEF LayoutTypeOK, Opens
<1>1. Sized
  <2> SUFFICES ASSUME row_count > 0
               PROVE  Place(row_count - 1) + RowSize <= LongMax
    BY DEF Sized
  <2> DEFINE last == storage_offset_for_row(row_count - 1)
  <2>1. last # Failure /\ Checked(last + RowSize) \in 0..file_size
    BY <1>type DEF storage_logical_size, Failure
  <2>2. row_count - 1 \in Nat
    BY <1>type
  <2>3. last = Place(row_count - 1) /\ Place(row_count - 1) \in Nat
    BY <2>1, <2>2, OffsetIsPlace, PlaceFacts
  <2> HIDE DEF last
  <2>4. last + RowSize <= file_size
    BY <2>1, <2>3, <1>type DEF Checked, Failure
  <2> QED BY <2>3, <2>4, <1>type
<1>2. ASSUME NEW r \in Rows
      PROVE  Place(r) + RowSize <= file_size
  <2>1. Place(r) \in Nat /\ Place(r) + RowSize <= storage_logical_size(row_count)
    BY <1>1, RowsLie
  <2> QED BY <2>1, <1>type
<1>3. RowsFit(row_count)
  BY <1>2 DEF RowsFit, Rows
<1> QED BY <1>3, <1>type DEF LayoutInv

(* A whole file has its rows below the largest offset. *)
LEMMA WholeIsSized ==
  ASSUME LayoutInv
  PROVE  Sized
<1> SUFFICES ASSUME row_count > 0
             PROVE  Place(row_count - 1) + RowSize <= LongMax
  BY DEF Sized
<1>1. row_count - 1 \in 0..(row_count - 1) /\ row_count - 1 \in Nat
  BY DEF LayoutInv, LayoutTypeOK
<1>2. Place(row_count - 1) + RowSize <= file_size /\ Place(row_count - 1) \in Nat
  BY <1>1, PlaceFacts DEF LayoutInv, RowsFit
<1> QED BY <1>2, SizeAssumption, WordAssumption DEF LayoutInv, LayoutTypeOK

(* The same, after a step. *)
LEMMA WholeIsSizedNext == (LayoutInv => Sized)'
<1>1. LayoutInv => Sized
  BY WholeIsSized
<1> QED BY <1>1, PTL

(* What an iterator reads is the row it has come to. *)
LEMMA ReadsNextRow ==
  ASSUME FileInv, next_row \in Nat, next_row < row_count
  PROVE  /\ next_row \in Rows
         /\ RowRead = next_row
         /\ storage_logical_size(row_count) <= file_size => Readable
<1>type. /\ row_count \in Nat /\ file_size \in HeaderSize..LongMax
         /\ LongMax \in Nat /\ HeaderSize \in Nat /\ RowSize \in Nat
  BY SizeAssumption, WordAssumption DEF FileInv, LayoutTypeOK
<1>1. next_row \in Rows
  BY <1>type DEF Rows
<1>2. /\ Offset = Place(next_row) /\ Place(next_row) \in Nat
      /\ storage_row_number_for_offset(Place(next_row)) = next_row
      /\ Place(next_row) + RowSize <= storage_logical_size(row_count)
      /\ storage_logical_size(row_count) \in HeaderSize..LongMax
      /\ storage_offset_for_row(next_row) = Place(next_row)
  BY <1>1, RowsLie DEF FileInv, Offset
<1>3. ASSUME storage_logical_size(row_count) <= file_size
      PROVE  Readable
  <2>1. Place(next_row) + RowSize <= file_size
    BY <1>type, <1>2, <1>3
  <2>2. Checked(Place(next_row) + RowSize) # Failure
    BY <1>type, <1>2, WordAssumption DEF Checked, Failure
  <2> QED BY <1>2, <2>1, <2>2 DEF Readable, storage_is_valid_row_offset, Failure
<1> QED BY <1>1, <1>2, <1>3 DEF RowRead

-----------------------------------------------------------------------------
(* The invariant holds of a table without a row. *)
LEMMA InitScanInv == ScanInit => ScanInv
<1> SUFFICES ASSUME ScanInit
             PROVE  ScanInv
  OBVIOUS
<1>1. LayoutInv
  BY InitLayoutInv DEF ScanInit
<1>2. FileInv
  BY <1>1, WholeIsSized DEF FileInv, LayoutInv
<1>3. row_count = 0 /\ Rows = {}
  BY DEF ScanInit, Init, Rows
<1>4. ids \in [Rows -> Ids]
  BY <1>3 DEF ScanInit
<1>5. ScanTypeOK /\ LoopInv /\ LoopsAreExact /\ ResultsAreTrue /\ OnlyDamageIsCorrupt
  BY <1>1, <1>3, <1>4
  DEF ScanInit, LayoutInv, ScanTypeOK, LoopInv, LoopsAreExact, ResultsAreTrue,
      OnlyDamageIsCorrupt, Callers, Results
<1> QED BY <1>2, <1>5 DEF ScanInv

(* Between scans the table may change as it likes. *)
LEMMA TableKeeps ==
  ASSUME ScanInv, TableStep
  PROVE  ScanInv'
<1>1. LayoutInv
  BY OpenFits DEF ScanInv, FileInv, TableStep
<1>2. LayoutInv'
  BY <1>1, NextLayoutInv DEF TableStep
<1>3. FileInv'
  BY <1>2, WholeIsSizedNext DEF FileInv, LayoutInv
<1>4. /\ caller' = "none" /\ next_row' = 0 /\ taken' = {} /\ result' = "none"
      /\ wanted' \in Ids \union {Any}
  BY DEF TableStep, scanVars, ScanInv, LoopInv, ScanTypeOK
<1>5. ids' \in [Rows' -> Ids] /\ row_count' \in Nat
  BY <1>2 DEF TableStep, Rows, LayoutInv, LayoutTypeOK
<1>6. ScanTypeOK'
  BY <1>2, <1>4, <1>5 DEF ScanTypeOK, LayoutInv
<1>7. LoopInv' /\ LoopsAreExact' /\ ResultsAreTrue' /\ OnlyDamageIsCorrupt'
  BY <1>4 DEF LoopInv, LoopsAreExact, ResultsAreTrue, OnlyDamageIsCorrupt
<1> QED BY <1>3, <1>6, <1>7 DEF ScanInv

(* A scan begins at the first row with nothing found. *)
LEMMA BeginKeeps ==
  ASSUME ScanInv, storage_scan_begin
  PROVE  ScanInv'
<1>1. /\ UNCHANGED <<vars, ids, result>>
      /\ caller' \in Callers /\ wanted' \in Ids \union {Any}
      /\ next_row' = 0 /\ taken' = {} /\ result = "none" /\ result' = "none"
  BY DEF storage_scan_begin, ScanInv, LoopInv
<1>2. row_count \in Nat /\ Rows' = Rows /\ FileInv'
  BY <1>1 DEF ScanInv, FileInv, Sized, LayoutInv, LayoutTypeOK, RowsFit, JournalFits, vars, Rows
<1>3. Seen' = {}
  BY <1>1, <1>2 DEF Seen, Rows
<1>4. ScanTypeOK'
  BY <1>1, <1>2 DEF ScanInv, ScanTypeOK, FileInv, vars
<1>5. LoopInv' /\ LoopsAreExact'
  BY <1>1, <1>3 DEF LoopInv, LoopsAreExact, Callers
<1>6. ResultsAreTrue' /\ OnlyDamageIsCorrupt'
  BY <1>1 DEF ResultsAreTrue, OnlyDamageIsCorrupt
<1> QED BY <1>2, <1>4, <1>5, <1>6 DEF ScanInv

(* A file that loses bytes loses no row number, and a damaged one stays so. *)
LEMMA LossKeeps ==
  ASSUME ScanInv, LoseBytes
  PROVE  ScanInv'
<1>1. /\ UNCHANGED <<row_count, journal, ids, scanVars>> /\ journal = {}
      /\ file_size' \in HeaderSize..file_size
      /\ file_size \in HeaderSize..LongMax /\ row_count \in Nat
      /\ HeaderSize \in Nat /\ LongMax \in Nat
  BY SizeAssumption, WordAssumption DEF LoseBytes, ScanInv, FileInv, LayoutTypeOK
<1>2. file_size' \in HeaderSize..LongMax /\ file_size' <= file_size
  BY <1>1
<1>3. FileInv' /\ ScanTypeOK'
  BY <1>1, <1>2 DEF ScanInv, FileInv, Sized, LayoutTypeOK, ScanTypeOK, scanVars, Rows
<1>4. LoopInv' /\ LoopsAreExact' /\ ResultsAreTrue'
  BY <1>1 DEF ScanInv, LoopInv, LoopsAreExact, ResultsAreTrue, Seen, Rows, Matches, scanVars
<1>5. OnlyDamageIsCorrupt'
  <2> SUFFICES ASSUME result' = "SCAN_CORRUPT"
               PROVE  file_size' < storage_logical_size(row_count)'
    BY DEF OnlyDamageIsCorrupt
  <2>1. file_size < storage_logical_size(row_count)
    BY <1>1 DEF ScanInv, OnlyDamageIsCorrupt, scanVars
  <2>2. row_count' = row_count
    BY <1>1
  <2>3. row_count > 0
    BY <1>1, <2>1 DEF storage_logical_size
  <2>4. storage_logical_size(row_count) \in HeaderSize..LongMax
    BY <1>1, <2>3, LogicalSize DEF ScanInv, FileInv, Sized
  <2> QED BY <1>1, <1>2, <2>1, <2>2, <2>4 DEF storage_logical_size
<1> QED BY <1>3, <1>4, <1>5 DEF ScanInv

-----------------------------------------------------------------------------
(* The rows seen after one more: those before, and the one just read. *)
LEMMA SeenGrows ==
  ASSUME ScanInv, next_row < row_count, next_row' = next_row + 1, UNCHANGED row_count
  PROVE  Seen' = Seen \union {next_row} /\ next_row \notin Seen /\ next_row \in Rows
BY DEF ScanInv, ScanTypeOK, FileInv, LayoutTypeOK, Seen, Rows

(* What every one of the four loops does with a row. *)
LEMMA RowKeeps ==
  ASSUME ScanInv, NEW c \in Callers, NEW kept \in SUBSET {RowRead}, Reads(c), NextRow(kept),
         result' \in {"none", "SCAN_OK", "INDEX_DUPLICATE_PRIMARY_KEY"}
  PROVE  /\ FileInv' /\ ScanTypeOK' /\ OnlyDamageIsCorrupt'
         /\ Seen' = Seen \union {next_row} /\ next_row \notin Seen /\ next_row \in Rows
         /\ RowRead = next_row /\ Rows' = Rows
         /\ caller = c /\ caller' = c /\ result = "none" /\ ids' = ids /\ wanted' = wanted
<1>1. /\ UNCHANGED <<vars, ids, caller, wanted>> /\ next_row' = next_row + 1
      /\ taken' = taken \union kept /\ caller = c /\ next_row < row_count /\ result = "none"
  BY DEF Reads, NextRow
<1>2. next_row \in Nat /\ row_count \in Nat
  BY DEF ScanInv, ScanTypeOK, FileInv, LayoutTypeOK
<1>3. RowRead = next_row
  BY <1>1, <1>2, ReadsNextRow DEF ScanInv
<1>4. Seen' = Seen \union {next_row} /\ next_row \notin Seen /\ next_row \in Rows
  BY <1>1, SeenGrows DEF vars
<1>5. FileInv' /\ Rows' = Rows
  BY <1>1 DEF ScanInv, FileInv, Sized, LayoutInv, LayoutTypeOK, RowsFit, JournalFits, vars, Rows
<1>6. ScanTypeOK'
  <2>1. next_row' \in 0..row_count /\ taken' \in SUBSET Rows
    BY <1>1, <1>2, <1>3, <1>4 DEF ScanInv, ScanTypeOK
  <2> QED BY <1>1, <1>5, <2>1 DEF ScanInv, ScanTypeOK, FileInv, Results, vars
<1>7. OnlyDamageIsCorrupt'
  BY DEF OnlyDamageIsCorrupt
<1> QED BY <1>1, <1>3, <1>4, <1>5, <1>6, <1>7

(* The four loops, each over one row. *)
LEMMA LoopKeeps ==
  ASSUME ScanInv,
         storage_find_id \/ select_with_scan \/ storage_select_all_rows \/ index_rebuild_from_table
  PROVE  ScanInv'
<1> USE DEF LoopInv, LoopsAreExact, ResultsAreTrue
<1>old. LoopInv /\ LoopsAreExact
  BY DEF ScanInv
<1>1. CASE storage_find_id
  <2> DEFINE kept == IF ids[RowRead] = wanted THEN {RowRead} ELSE {}
  <2>1. Reads("find") /\ NextRow(kept)
        /\ result' = IF ids[RowRead] = wanted THEN "SCAN_OK" ELSE "none"
    BY <1>1 DEF storage_find_id
  <2>2. /\ FileInv' /\ ScanTypeOK' /\ OnlyDamageIsCorrupt'
        /\ Seen' = Seen \union {next_row} /\ next_row \notin Seen /\ next_row \in Rows
        /\ RowRead = next_row /\ Rows' = Rows
        /\ caller = "find" /\ caller' = "find" /\ result = "none" /\ ids' = ids /\ wanted' = wanted
    BY <2>1, RowKeeps DEF Callers
  <2>3. taken' = taken \union kept /\ taken = {}
    BY <1>old, <2>1, <2>2 DEF NextRow
  <2>4. taken' = {r \in Seen' : ids[r] = wanted}
    BY <1>old, <2>2, <2>3
  <2>5. \A s \in 0..(next_row - 1) : ids[s] # wanted
    <3>1. \A s \in 0..(next_row - 1) : s \in Seen
      BY <2>2 DEF Seen, Rows, ScanInv, ScanTypeOK, FileInv, LayoutTypeOK
    <3> QED BY <1>old, <2>2, <2>3, <3>1
  <2>6. LoopInv' /\ LoopsAreExact'
    BY <2>1, <2>2, <2>3, <2>4
  <2>7. ResultsAreTrue'
    BY <2>1, <2>2, <2>3, <2>5
  <2> QED BY <2>2, <2>6, <2>7 DEF ScanInv
<1>2. CASE select_with_scan
  <2> DEFINE kept == {r \in {RowRead} : Matches(r)}
  <2>1. Reads("where") /\ NextRow(kept) /\ result' = result /\ result = "none"
    BY <1>2 DEF select_with_scan, Reads
  <2>2. /\ FileInv' /\ ScanTypeOK' /\ OnlyDamageIsCorrupt'
        /\ Seen' = Seen \union {next_row} /\ RowRead = next_row
        /\ caller = "where" /\ caller' = "where" /\ ids' = ids /\ wanted' = wanted
    BY <2>1, RowKeeps DEF Callers
  <2>3. taken' = taken \union kept
    BY <2>1 DEF NextRow
  <2>4. \A r : Matches(r)' <=> Matches(r)
    BY <2>2 DEF Matches
  <2>5. taken' = {r \in Seen' : Matches(r)}
    BY <1>old, <2>2, <2>3
  <2>6. LoopsAreExact'
    BY <2>2, <2>4, <2>5
  <2> QED BY <2>1, <2>2, <2>6 DEF ScanInv
<1>3. CASE storage_select_all_rows
  <2>1. Reads("all") /\ NextRow({RowRead}) /\ result' = result /\ result = "none"
    BY <1>3 DEF storage_select_all_rows, Reads
  <2>2. /\ FileInv' /\ ScanTypeOK' /\ OnlyDamageIsCorrupt'
        /\ Seen' = Seen \union {next_row} /\ RowRead = next_row
        /\ caller = "all" /\ caller' = "all"
    BY <2>1, RowKeeps DEF Callers
  <2>3. taken' = Seen'
    BY <1>old, <2>1, <2>2 DEF NextRow
  <2> QED BY <2>1, <2>2, <2>3 DEF ScanInv
<1>4. CASE index_rebuild_from_table
  <2> DEFINE known == \E r \in taken : ids[r] = ids[RowRead]
             kept  == IF known THEN {} ELSE {RowRead}
  <2>1. /\ Reads("rebuild") /\ NextRow(kept) /\ result = "none"
        /\ result' = IF known THEN "INDEX_DUPLICATE_PRIMARY_KEY" ELSE "none"
    BY <1>4 DEF index_rebuild_from_table, Reads
  <2>2. /\ FileInv' /\ ScanTypeOK' /\ OnlyDamageIsCorrupt'
        /\ Seen' = Seen \union {next_row} /\ next_row \notin Seen /\ next_row \in Rows
        /\ RowRead = next_row /\ Rows' = Rows
        /\ caller = "rebuild" /\ caller' = "rebuild" /\ ids' = ids
    BY <2>1, RowKeeps DEF Callers
  <2>3. taken = Seen /\ taken' = taken \union kept /\ taken \subseteq Rows
    BY <1>old, <2>1, <2>2 DEF NextRow, Seen
  <2>4. \A r, s \in taken : ids[r] = ids[s] => r = s
    BY <1>old, <2>2
  <2>5. /\ \A r \in Seen' : \E s \in taken' : ids[s] = ids[r]
        /\ \A r, s \in taken' : ids[r] = ids[s] => r = s
    BY <2>2, <2>3, <2>4
  <2>6. LoopInv' /\ LoopsAreExact'
    BY <2>1, <2>2, <2>3, <2>5
  <2>7. known => \E r, s \in Rows : r # s /\ ids[r] = ids[s]
    BY <2>2, <2>3
  <2>8. ResultsAreTrue'
    BY <2>1, <2>2, <2>7
  <2> QED BY <2>2, <2>6, <2>8 DEF ScanInv
<1> QED BY <1>1, <1>2, <1>3, <1>4

(* How a loop stops: what it took is what there is, or the file is damaged. *)
LEMMA StopKeeps ==
  ASSUME ScanInv, ScanEnd \/ ScanCorrupt \/ ScanIOError \/ OutOfMemory
  PROVE  ScanInv'
<1>1. /\ UNCHANGED <<vars, ids, caller, wanted, next_row, taken>>
      /\ caller # "none" /\ result = "none"
      /\ result' \in {"SCAN_END", "SCAN_CORRUPT", "SCAN_IO_ERROR", "ALLOC_ERROR"}
  BY DEF ScanEnd, ScanCorrupt, ScanIOError, OutOfMemory, Stop
<1>2. next_row \in 0..row_count /\ row_count \in Nat
  BY DEF ScanInv, ScanTypeOK, FileInv, LayoutTypeOK
<1>3. /\ FileInv' /\ Rows' = Rows /\ Seen' = Seen
      /\ storage_logical_size(row_count)' = storage_logical_size(row_count)
  BY <1>1 DEF ScanInv, FileInv, Sized, LayoutInv, LayoutTypeOK, RowsFit, JournalFits, vars, Rows,
              Seen, storage_logical_size
<1>4. ScanTypeOK'
  BY <1>1, <1>3 DEF ScanInv, ScanTypeOK, FileInv, Results, vars
<1>5. LoopInv' /\ LoopsAreExact'
  BY <1>1, <1>3 DEF ScanInv, LoopInv, LoopsAreExact, Matches
<1>6. ResultsAreTrue'
  <2> SUFFICES ASSUME result' = "SCAN_END"
               PROVE  ResultsAreTrue'
    BY <1>1 DEF ResultsAreTrue
  <2>1. next_row = row_count
    BY <1>2 DEF ScanEnd, ScanCorrupt, ScanIOError, OutOfMemory, Stop
  <2>2. Seen = Rows
    BY <1>2, <2>1 DEF Seen, Rows
  <2> QED BY <1>1, <1>3, <2>2 DEF ScanInv, LoopInv, LoopsAreExact, ResultsAreTrue, Matches
<1>7. OnlyDamageIsCorrupt'
  <2> SUFFICES ASSUME result' = "SCAN_CORRUPT"
               PROVE  file_size < storage_logical_size(row_count)
    BY <1>1, <1>3 DEF OnlyDamageIsCorrupt, vars
  <2>1. next_row < row_count /\ ~Readable
    BY DEF ScanEnd, ScanCorrupt, ScanIOError, OutOfMemory, Stop
  <2>2. ~(storage_logical_size(row_count) <= file_size) /\ next_row \in Rows
    BY <1>2, <2>1, ReadsNextRow DEF ScanInv
  <2>3. storage_logical_size(row_count) \in HeaderSize..LongMax /\ file_size \in HeaderSize..LongMax
    BY <2>2, RowsLie DEF ScanInv, FileInv, LayoutTypeOK
  <2> QED BY <2>2, <2>3, SizeAssumption, WordAssumption
<1> QED BY <1>3, <1>4, <1>5, <1>6, <1>7 DEF ScanInv

(* Closing leaves nothing behind. *)
LEMMA CloseKeeps ==
  ASSUME ScanInv, Close
  PROVE  ScanInv'
<1>1. /\ UNCHANGED <<vars, ids>> /\ caller' = "none" /\ wanted' = Any
      /\ next_row' = 0 /\ taken' = {} /\ result' = "none"
  BY DEF Close
<1>2. FileInv' /\ Rows' = Rows /\ row_count \in Nat
  BY <1>1 DEF ScanInv, FileInv, Sized, LayoutInv, LayoutTypeOK, RowsFit, JournalFits, vars, Rows
<1>3. ScanTypeOK'
  BY <1>1, <1>2 DEF ScanInv, ScanTypeOK, FileInv, vars
<1>4. LoopInv' /\ LoopsAreExact' /\ ResultsAreTrue' /\ OnlyDamageIsCorrupt'
  BY <1>1 DEF LoopInv, LoopsAreExact, ResultsAreTrue, OnlyDamageIsCorrupt
<1> QED BY <1>2, <1>3, <1>4 DEF ScanInv

(* Nothing changes while nothing changes. *)
LEMMA StutterKeeps ==
  ASSUME ScanInv, UNCHANGED allVars
  PROVE  ScanInv'
BY DEF ScanInv, FileInv, Sized, LayoutInv, LayoutTypeOK, RowsFit, JournalFits, ScanTypeOK, LoopInv,
       LoopsAreExact, ResultsAreTrue, OnlyDamageIsCorrupt, Rows, Seen, Matches,
       storage_logical_size, allVars, vars, scanVars

-----------------------------------------------------------------------------
(* The loops' invariant, through inserts, crashes, recoveries and losses.  *)
THEOREM ScanInvariance == ScanSpec => []ScanInv
<1>1. ScanInv /\ [ScanNext]_allVars => ScanInv'
  BY TableKeeps, BeginKeeps, LossKeeps, LoopKeeps, StopKeeps, CloseKeeps, StutterKeeps
  DEF ScanNext, ScanStep
<1> QED BY InitScanInv, <1>1, PTL DEF ScanSpec

(* An iterator never leaves the rows that count.                           *)
THEOREM ScanTyping == ScanSpec => []ScanTypeOK
  BY ScanInvariance, PTL DEF ScanInv

(* At every row a loop has made what it should of the rows so far: none is *)
(* printed, copied or indexed twice, and none is passed over.              *)
THEOREM LoopsMissNothing == ScanSpec => []LoopsAreExact
  BY ScanInvariance, PTL DEF ScanInv

(* However a loop ends, what it reports is true of the table.              *)
THEOREM ReportsAreTrue == ScanSpec => []ResultsAreTrue
  BY ScanInvariance, PTL DEF ScanInv

(* A file that is whole is never called corrupt.                           *)
THEOREM NoFalseAlarm == ScanSpec => []OnlyDamageIsCorrupt
  BY ScanInvariance, PTL DEF ScanInv
=============================================================================
