--------------------------- MODULE SlottedPageLemmas ---------------------------
(***************************************************************************)
(* What the operations of SlottedPage make of a page, for every page size  *)
(* and every cell: the facts the proofs of SlottedPageProofs and           *)
(* IndexPageProofs rest on.                                                *)
(***************************************************************************)
EXTENDS SlottedPage, SequenceTheorems, TLAPS

(* The inductive invariant.                                                *)
PageInv(p) == p \in Page /\ (Raw(p) \/ Formatted(p))

(* What a successful add_cell makes of a page: the entry is in the slot    *)
(* directory at idx, the cell is in the bytes just below the old free_end. *)
Added(p, idx, cell) ==
  [p EXCEPT !.slots = ShiftIn(@, idx, NewEntry(p, cell)),
            !.free_start = p.free_start + ENTRY_SIZE,
            !.bytes = CopyIn(@, p.free_end - Len(cell), cell),
            !.free_end = p.free_end - Len(cell)]

(* A page of which a cell fits has been formatted (a raw page has no room).*)
LEMMA RoomMeansFormatted ==
  ASSUME NEW p, PageInv(p), NEW cell \in Cell, ~NoRoomFor(p, cell)
  PROVE  Formatted(p)
  BY DEF PageInv, Page, Raw, NoRoomFor, ENTRY_SIZE, Cell

(* slot_count computed from free_start is the length of the directory.     *)
LEMMA SlotCountIsLen ==
  ASSUME NEW p \in Page, Formatted(p)
  PROVE  SlotCount(p) = Len(p.slots)
<1> DEFINE n == Len(p.slots)
<1>1. n \in Nat
  BY DEF Page
<1>2. p.free_start - HEADER_SIZE = 4 * n
  BY <1>1 DEF Formatted, HEADER_SIZE, ENTRY_SIZE
<1>3. \A k \in Nat : (4 * k) \div 4 = k
  OBVIOUS
<1> QED
  BY <1>1, <1>2, <1>3 DEF SlotCount, ENTRY_SIZE

(* An insertion into a sequence gives a sequence, one longer.              *)
LEMMA ShiftInType ==
  ASSUME NEW S, NEW s \in Seq(S), NEW e \in S, NEW idx \in 0 .. Len(s)
  PROVE  /\ ShiftIn(s, idx, e) \in Seq(S)
         /\ Len(ShiftIn(s, idx, e)) = Len(s) + 1
<1> DEFINE t == ShiftIn(s, idx, e)
<1>1. \A i \in 1 .. Len(s) + 1 : t[i] \in S
  BY DEF ShiftIn
<1>2. t \in [1 .. Len(s) + 1 -> S]
  BY <1>1 DEF ShiftIn
<1> QED
  BY <1>2

(* append_slot_entry is insertion behind the last entry.                   *)
LEMMA AppendIsShiftIn ==
  ASSUME NEW S, NEW s \in Seq(S), NEW e \in S
  PROVE  Append(s, e) = ShiftIn(s, Len(s), e)
<1> DEFINE t == ShiftIn(s, Len(s), e)
<1>1. t \in Seq(S) /\ Len(t) = Len(s) + 1
  BY ShiftInType
<1>2. /\ Append(s, e) \in Seq(S) /\ Len(Append(s, e)) = Len(s) + 1
      /\ \A i \in 1 .. Len(s) : Append(s, e)[i] = s[i]
      /\ Append(s, e)[Len(s) + 1] = e
  BY AppendProperties
<1>3. \A i \in 1 .. Len(s) + 1 : Append(s, e)[i] = t[i]
  BY <1>2 DEF ShiftIn
<1> QED
  BY <1>1, <1>2, <1>3, SeqEqual

(* The memmove of insert_slot_entry_at_index is insertion into a list.     *)
LEMMA ShiftInIsInsertion ==
  ASSUME NEW S, NEW s \in Seq(S), NEW e \in S, NEW idx \in 0 .. Len(s)
  PROVE  SubSeq(s, 1, idx) \o <<e>> \o SubSeq(s, idx + 1, Len(s)) = ShiftIn(s, idx, e)
<1> DEFINE t == ShiftIn(s, idx, e)
           a == SubSeq(s, 1, idx)
           b == SubSeq(s, idx + 1, Len(s))
<1>1. a \in Seq(S) /\ Len(a) = idx /\ \A i \in 1 .. idx : a[i] = s[i]
  BY SubSeqProperties
<1>2. /\ b \in Seq(S) /\ Len(b) = Len(s) - idx
      /\ \A i \in 1 .. Len(s) - idx : b[i] = s[idx + i]
  BY SubSeqProperties
<1>3. <<e>> \in Seq(S) /\ Len(<<e>>) = 1 /\ <<e>>[1] = e
  OBVIOUS
<1> DEFINE c == a \o <<e>>
<1>4. /\ c \in Seq(S) /\ Len(c) = idx + 1
      /\ \A i \in 1 .. idx + 1 : c[i] = IF i <= idx THEN s[i] ELSE e
  <2> HIDE DEF a
  <2>1. /\ c \in Seq(S) /\ Len(c) = idx + 1
        /\ \A i \in 1 .. idx + 1 : c[i] = IF i <= idx THEN a[i] ELSE <<e>>[i - idx]
    BY <1>1, <1>3, ConcatProperties
  <2> QED
    BY <2>1, <1>1, <1>3
<1>5. /\ c \o b \in Seq(S) /\ Len(c \o b) = Len(s) + 1
      /\ \A i \in 1 .. Len(s) + 1 :
           (c \o b)[i] = IF i <= idx + 1 THEN c[i] ELSE b[i - (idx + 1)]
  <2> HIDE DEF b, c
  <2> QED
    BY <1>2, <1>4, ConcatProperties, SMTT(30)
<1>6. \A i \in 1 .. Len(s) + 1 : (c \o b)[i] = t[i]
  <2> HIDE DEF b, c
  <2> QED
    BY <1>2, <1>4, <1>5, SMTT(30) DEF ShiftIn
<1>7. t \in Seq(S) /\ Len(t) = Len(s) + 1
  BY ShiftInType
<1>8. c \o b = t
  <2> HIDE DEF b, c, t
  <2> QED
    BY <1>5, <1>6, <1>7, SeqEqual, SMTT(30)
<1> QED
  BY <1>8, ZenonT(30)

-----------------------------------------------------------------------------
(* What the operations come to.                                            *)

(* The entry and the bytes a new cell gets are within the page.            *)
LEMMA RoomIsOnPage ==
  ASSUME NEW p, PageInv(p), NEW cell \in Cell, ~NoRoomFor(p, cell)
  PROVE  /\ Len(cell) \in Nat
         /\ p.free_end - Len(cell) \in Offset
         /\ p.free_start + ENTRY_SIZE <= p.free_end - Len(cell)
         /\ HEADER_SIZE <= p.free_start
         /\ NewEntry(p, cell) \in SlotEntry
<1>1. Formatted(p) /\ p \in Page
  BY RoomMeansFormatted DEF PageInv
<1>2. Len(cell) \in Nat /\ Len(p.slots) \in Nat
  BY <1>1 DEF Cell, Page
<1>3. p.free_end \in Offset /\ p.free_start \in Offset
  BY <1>1 DEF Page
<1>4. HEADER_SIZE <= p.free_start
  BY <1>1, <1>2 DEF Formatted, HEADER_SIZE, ENTRY_SIZE
<1>5. p.free_start + ENTRY_SIZE <= p.free_end - Len(cell)
  BY <1>2, <1>3, SMTT(30) DEF NoRoomFor, ENTRY_SIZE, Offset
<1>6. Len(cell) \in Offset /\ p.free_end - Len(cell) \in Offset
  BY PageSizeAssumption, <1>2, <1>3, <1>4, <1>5, SMTT(30) DEF Offset, HEADER_SIZE, ENTRY_SIZE
<1> QED
  BY <1>2, <1>4, <1>5, <1>6 DEF NewEntry, SlotEntry

(* Once the entry is in the directory, the rest of add_cell cannot fail.   *)
LEMMA StoreMeaning ==
  ASSUME NEW p, PageInv(p), NEW cell \in Cell, ~NoRoomFor(p, cell), NEW slots
  PROVE  StoreCell(IncrementFreeStart([p EXCEPT !.slots = slots], ENTRY_SIZE),
                   p.free_end - Len(cell), cell)
           = Ok([p EXCEPT !.slots = slots,
                          !.free_start = p.free_start + ENTRY_SIZE,
                          !.bytes = CopyIn(@, p.free_end - Len(cell), cell),
                          !.free_end = p.free_end - Len(cell)])
<1> DEFINE start == p.free_end - Len(cell)
           fs    == p.free_start + ENTRY_SIZE
           p1    == [p EXCEPT !.slots = slots]
           p2    == [p1 EXCEPT !.free_start = fs]
           p3    == [p2 EXCEPT !.bytes = CopyIn(@, start, cell)]
<1>1. p \in Page
  BY DEF PageInv
<1>2. /\ Len(cell) \in Nat /\ start \in Nat /\ fs \in Nat
      /\ fs <= start /\ HEADER_SIZE <= fs /\ fs <= p.free_end
  BY <1>1, RoomIsOnPage, SMTT(30) DEF Offset, Page, HEADER_SIZE, ENTRY_SIZE
<1>3. p1.free_start = p.free_start /\ p1.free_end = p.free_end
  BY <1>1 DEF Page
<1>4. IncrementFreeStart(p1, ENTRY_SIZE) = Ok(p2)
  <2>1. ~(fs > p1.free_end \/ fs < HEADER_SIZE)
    BY <1>1, <1>2, <1>3, SMTT(30) DEF HEADER_SIZE, Page, Offset
  <2> QED
    BY <2>1, <1>3, Zenon DEF IncrementFreeStart
<1>5. p3.free_start = fs
  BY <1>1 DEF Page
<1>6. SetFreeEnd(p3, start) = Ok([p3 EXCEPT !.free_end = start])
  <2>1. ~(start < HEADER_SIZE) /\ ~(start < p3.free_start)
    BY <1>2, <1>5 DEF HEADER_SIZE
  <2> QED
    BY <2>1, Zenon DEF SetFreeEnd
<1>7. StoreCell(Ok(p2), start, cell) = SetFreeEnd(p3, start)
  <2>1. Ok(p2).err = "Ok" /\ Ok(p2).page = p2
    BY DEF Ok
  <2> QED
    BY <2>1, Zenon DEF StoreCell
<1>8. [p3 EXCEPT !.free_end = start]
        = [p EXCEPT !.slots = slots, !.free_start = fs,
                    !.bytes = CopyIn(@, start, cell), !.free_end = start]
  BY <1>1 DEF Page
<1> QED
  BY <1>4, <1>6, <1>7, <1>8, Zenon

(* add_cell_at_slot_entry_index refuses a cell for one of two reasons or   *)
(* adds it; no other outcome is possible.                                  *)
LEMMA AddAtMeaning ==
  ASSUME NEW p, PageInv(p), NEW cell \in Cell, NEW idx \in Nat
  PROVE  AddCellAtSlotEntryIndex(p, idx, cell) =
           IF NoRoomFor(p, cell) THEN Err("NoContigiousSpace", p)
           ELSE IF idx > Len(p.slots) THEN Err("SlotIndexNotInRange", p)
           ELSE Ok(Added(p, idx, cell))
<1>1. CASE NoRoomFor(p, cell)
  BY <1>1, Zenon DEF AddCellAtSlotEntryIndex
<1>2. CASE ~NoRoomFor(p, cell)
  <2> DEFINE entry == NewEntry(p, cell)
             start == p.free_end - Len(cell)
  <2>1. p \in Page /\ p.slots \in Seq(SlotEntry) /\ Len(p.slots) \in Nat
    BY DEF PageInv, Page
  <2>2. SlotCount(p) = Len(p.slots)
    BY <1>2, <2>1, RoomMeansFormatted, SlotCountIsLen
  <2>3. ~(p.free_end - p.free_start < ENTRY_SIZE)
    BY <1>2, <2>1, RoomIsOnPage, SMTT(30) DEF Page, Offset, ENTRY_SIZE
  <2>4. AddCellAtSlotEntryIndex(p, idx, cell)
          = StoreCell(InsertSlotEntryAtIndex(p, idx, entry), start, cell)
    BY <1>2, Zenon DEF AddCellAtSlotEntryIndex
  <2>5. CASE idx > Len(p.slots)
    <3>1. InsertSlotEntryAtIndex(p, idx, entry) = Err("SlotIndexNotInRange", p)
      BY <2>2, <2>3, <2>5, Zenon DEF InsertSlotEntryAtIndex
    <3>2. StoreCell(Err("SlotIndexNotInRange", p), start, cell)
            = Err("SlotIndexNotInRange", p)
      BY DEF StoreCell, Err
    <3> QED
      BY <1>2, <2>4, <2>5, <3>1, <3>2, Zenon
  <2>6. CASE ~(idx > Len(p.slots))
    <3>1. InsertSlotEntryAtIndex(p, idx, entry)
            = IncrementFreeStart([p EXCEPT !.slots = ShiftIn(p.slots, idx, entry)], ENTRY_SIZE)
      <4>1. CASE idx = Len(p.slots)
        <5>1. InsertSlotEntryAtIndex(p, idx, entry) = AppendSlotEntry(p, entry)
          BY <2>2, <2>3, <2>6, <4>1, Zenon DEF InsertSlotEntryAtIndex
        <5>2. AppendSlotEntry(p, entry)
                = IncrementFreeStart([p EXCEPT !.slots = Append(p.slots, entry)], ENTRY_SIZE)
          BY <2>3, Zenon DEF AppendSlotEntry
        <5>3. Append(p.slots, entry) = ShiftIn(p.slots, idx, entry)
          BY <1>2, <2>1, <4>1, RoomIsOnPage, AppendIsShiftIn
        <5> QED
          BY <5>1, <5>2, <5>3, Zenon
      <4>2. CASE idx # Len(p.slots)
        BY <2>2, <2>3, <2>6, <4>2, Zenon DEF InsertSlotEntryAtIndex
      <4> QED
        BY <4>1, <4>2, Zenon
    <3>2. StoreCell(InsertSlotEntryAtIndex(p, idx, entry), start, cell) = Ok(Added(p, idx, cell))
      BY <1>2, <3>1, StoreMeaning, Zenon DEF Added
    <3> QED
      BY <1>2, <2>4, <2>6, <3>2, Zenon
  <2> QED
    BY <2>5, <2>6, Zenon
<1> QED
  BY <1>1, <1>2, Zenon

(* add_cell_append_slot_entry adds the cell behind the last, if it fits.   *)
LEMMA AddAppendMeaning ==
  ASSUME NEW p, PageInv(p), NEW cell \in Cell
  PROVE  AddCellAppendSlotEntry(p, cell) =
           IF NoRoomFor(p, cell) THEN Err("NoContigiousSpace", p)
           ELSE Ok(Added(p, Len(p.slots), cell))
<1>1. CASE NoRoomFor(p, cell)
  BY <1>1, Zenon DEF AddCellAppendSlotEntry
<1>2. CASE ~NoRoomFor(p, cell)
  <2> DEFINE entry == NewEntry(p, cell)
             start == p.free_end - Len(cell)
  <2>1. p \in Page /\ p.slots \in Seq(SlotEntry)
    BY DEF PageInv, Page
  <2>2. ~(p.free_end - p.free_start < ENTRY_SIZE)
    BY <1>2, <2>1, RoomIsOnPage, SMTT(30) DEF Page, Offset, ENTRY_SIZE
  <2>3. AppendSlotEntry(p, entry)
          = IncrementFreeStart([p EXCEPT !.slots = Append(p.slots, entry)], ENTRY_SIZE)
    BY <2>2, Zenon DEF AppendSlotEntry
  <2>4. Append(p.slots, entry) = ShiftIn(p.slots, Len(p.slots), entry)
    BY <1>2, <2>1, RoomIsOnPage, AppendIsShiftIn, SMTT(30)
  <2>5. StoreCell(AppendSlotEntry(p, entry), start, cell) = Ok(Added(p, Len(p.slots), cell))
    BY <1>2, <2>3, <2>4, StoreMeaning, Zenon DEF Added
  <2> QED
    BY <1>2, <2>5, Zenon DEF AddCellAppendSlotEntry
<1> QED
  BY <1>1, <1>2, Zenon

(* A page with a cell more is a page with a sound layout.                  *)
LEMMA AddedKeepsLayout ==
  ASSUME NEW p, PageInv(p), NEW cell \in Cell, ~NoRoomFor(p, cell),
         NEW idx \in 0 .. Len(p.slots)
  PROVE  Added(p, idx, cell) \in Page /\ Formatted(Added(p, idx, cell))
<1> DEFINE q     == Added(p, idx, cell)
           n     == Len(p.slots)
           entry == NewEntry(p, cell)
           start == p.free_end - Len(cell)
<1>1. p \in Page /\ Formatted(p) /\ p.slots \in Seq(SlotEntry) /\ n \in Nat
  BY RoomMeansFormatted DEF PageInv, Page
<1>2. /\ Len(cell) \in Nat /\ start \in Offset /\ entry \in SlotEntry
      /\ p.free_start + ENTRY_SIZE <= start /\ HEADER_SIZE <= p.free_start
  BY RoomIsOnPage
<1>3. q.slots \in Seq(SlotEntry) /\ Len(q.slots) = n + 1
  <2>1. q.slots = ShiftIn(p.slots, idx, entry)
    BY <1>1 DEF Added, Page
  <2> QED
    BY <1>1, <1>2, <2>1, ShiftInType
<1>4. /\ q.free_start = p.free_start + ENTRY_SIZE /\ q.free_end = start
      /\ q.special = p.special /\ Limit(q) = Limit(p)
  BY <1>1 DEF Added, Page, Limit
<1>5. q.free_start \in Offset
  BY <1>1, <1>2, <1>4, PageSizeAssumption, SMTT(30) DEF Offset, Page, ENTRY_SIZE
<1>6. CopyIn(p.bytes, start, cell) \in [1 .. PAGE_SIZE -> Byte]
  <2>1. ASSUME NEW i \in 1 .. PAGE_SIZE, i \in start + 1 .. start + Len(cell)
        PROVE  cell[i - start] \in Byte
    <3>1. i - start \in 1 .. Len(cell)
      BY <1>2, <2>1, PageSizeAssumption, SMTT(30) DEF Offset
    <3> QED
      BY <3>1 DEF Cell
  <2>2. \A i \in 1 .. PAGE_SIZE : p.bytes[i] \in Byte
    BY <1>1, ZenonT(30) DEF Page
  <2> QED
    BY <2>1, <2>2 DEF CopyIn
<1>7. q \in Page
  BY <1>1, <1>2, <1>3, <1>4, <1>5, <1>6, ZenonT(30) DEF Added, Page
<1>8. \A i \in 1 .. n + 1 :
        q.slots[i] = IF i <= idx THEN p.slots[i]
                     ELSE IF i = idx + 1 THEN entry ELSE p.slots[i - 1]
  BY <1>1 DEF Added, ShiftIn, Page
<1>9. entry.offset = start /\ entry.length = Len(cell)
  BY DEF NewEntry
<1>10. Formatted(q)
  <2> DEFINE old(i) == IF i <= idx THEN i ELSE i - 1
  <2>1. \A i \in 1 .. n + 1 : i # idx + 1 => old(i) \in 1 .. n /\ q.slots[i] = p.slots[old(i)]
    BY <1>1, <1>8, SMTT(30)
  <2>2. \A i, j \in 1 .. n + 1 :
          i # j /\ i # idx + 1 /\ j # idx + 1 => old(i) # old(j)
    BY <1>1
  <2>3. q.slots[idx + 1] = entry /\ start + Len(cell) = p.free_end
    <3>1. idx + 1 \in 1 .. n + 1 /\ ~(idx + 1 <= idx)
      BY <1>1
    <3>2. q.slots[idx + 1] = entry
      BY <1>8, <3>1, Zenon
    <3>3. start + Len(cell) = p.free_end
      BY <1>1, <1>2, SMTT(30) DEF Page, Offset
    <3> QED
      BY <3>2, <3>3
  <2>4. \A i \in 1 .. n : /\ p.slots[i].offset \in Nat /\ p.slots[i].length \in Nat
                          /\ p.free_end <= p.slots[i].offset
                          /\ p.slots[i].offset + p.slots[i].length <= Limit(p)
    <3>1. \A i \in 1 .. n : p.slots[i] \in SlotEntry
      BY <1>1
    <3>2. \A i \in 1 .. n : p.slots[i].offset \in Nat /\ p.slots[i].length \in Nat
      BY <3>1 DEF SlotEntry, Offset
    <3> QED
      BY <1>1, <3>2 DEF Formatted
  <2>5. p.free_end \in Nat /\ start \in Nat /\ Limit(p) \in Nat /\ p.free_end <= Limit(p)
    BY <1>1, <1>2, PageSizeAssumption DEF Formatted, Page, Limit, Offset
  <2> HIDE DEF old, entry, start, q
  <2>6. ASSUME NEW i \in 1 .. n + 1
        PROVE  /\ start <= q.slots[i].offset
               /\ q.slots[i].offset + q.slots[i].length <= Limit(p)
    <3>1. CASE i = idx + 1
      BY <1>2, <1>9, <2>3, <2>5, <3>1, SMTT(30)
    <3>2. CASE i # idx + 1
      <4>1. old(i) \in 1 .. n /\ q.slots[i] = p.slots[old(i)]
        BY <2>1, <3>2
      <4>2. start <= p.free_end
        BY <1>2, <2>3, <2>5
      <4> QED
        BY <2>4, <2>5, <4>1, <4>2, SMTT(30)
    <3> QED
      BY <3>1, <3>2
  <2>7. ASSUME NEW i \in 1 .. n + 1, NEW j \in 1 .. n + 1, i # j
        PROVE  \/ q.slots[i].offset + q.slots[i].length <= q.slots[j].offset
               \/ q.slots[j].offset + q.slots[j].length <= q.slots[i].offset
    <3>1. CASE i = idx + 1
      BY <1>9, <2>1, <2>3, <2>4, <2>7, <3>1, ZenonT(30)
    <3>2. CASE j = idx + 1
      BY <1>9, <2>1, <2>3, <2>4, <2>7, <3>2, ZenonT(30)
    <3>3. CASE i # idx + 1 /\ j # idx + 1
      <4>1. old(i) \in 1 .. n /\ old(j) \in 1 .. n /\ old(i) # old(j)
        BY <2>1, <2>2, <2>7, <3>3
      <4>2. q.slots[i] = p.slots[old(i)] /\ q.slots[j] = p.slots[old(j)]
        BY <2>1, <3>3
      <4> QED
        BY <1>1, <4>1, <4>2, SMTT(30) DEF Formatted
    <3> QED
      BY <3>1, <3>2, <3>3
  <2>8. q.free_start = HEADER_SIZE + ENTRY_SIZE * (n + 1)
    BY <1>1, <1>4 DEF Formatted, HEADER_SIZE, ENTRY_SIZE
  <2>9. q.special \in {0, PAGE_SIZE - INDEX_SPECIAL_SIZE}
    BY <1>1, <1>4 DEF Formatted
  <2>10. q.free_start <= q.free_end /\ q.free_end <= Limit(q)
    BY <1>2, <1>4, <2>3, <2>5
  <2> QED
    BY <1>3, <1>4, <2>6, <2>7, <2>8, <2>9, <2>10 DEF Formatted
<1> QED
  BY <1>7, <1>10

(* init_in_place succeeds and leaves an empty page that is laid out around *)
(* the special area.                                                       *)
LEMMA InitIndexPageMeaning ==
  ASSUME NEW lsn \in Nat
  PROVE  \E q \in Page :
           /\ InitIndexPage(lsn) = Ok(q) /\ Formatted(q) /\ q.slots = <<>>
           /\ q.free_start = HEADER_SIZE
           /\ q.free_end = PAGE_SIZE - INDEX_SPECIAL_SIZE /\ q.free_end = Limit(q)
           /\ q.special = q.free_end /\ q.page_type = 2
           /\ \A k \in 1 .. PAGE_SIZE : q.bytes[k] = 0
<1> DEFINE pt == NewPageType(KindToU8["IndexInternal"], 0)
           end == PAGE_SIZE - INDEX_SPECIAL_SIZE
           p1 == SetPageType(ZeroPage, pt)
           p2 == [p1 EXCEPT !.special = end]
           p3 == [p2 EXCEPT !.free_start = HEADER_SIZE]
           p4 == [p3 EXCEPT !.free_end = end]
           q  == SetLsn(p4, lsn)
<1>1. pt = 2
  BY DEF NewPageType, KindToU8
<1>2. ZeroPage \in Page
  BY PageSizeAssumption DEF ZeroPage, Page, Offset, Byte
<1>3. end \in Offset /\ HEADER_SIZE \in Offset /\ HEADER_SIZE <= end
  BY PageSizeAssumption DEF Offset, HEADER_SIZE, INDEX_SPECIAL_SIZE
<1>4. p1 \in Page
  <2>1. pt \in Byte
    BY <1>1 DEF Byte
  <2> HIDE DEF pt
  <2> QED
    BY <1>2, <2>1 DEF SetPageType, Page
<1>5. SetSpecialOffset(p1, INDEX_SPECIAL_SIZE) = Ok(p2)
  BY PageSizeAssumption DEF SetSpecialOffset, INDEX_SPECIAL_SIZE, HEADER_SIZE
<1>6. SetFreeStart(p2, HEADER_SIZE) = Ok(p3)
  BY PageSizeAssumption DEF SetFreeStart, INDEX_SPECIAL_SIZE, HEADER_SIZE
<1>7. p3 \in Page /\ p3.free_start = HEADER_SIZE
  BY <1>3, <1>4, ZenonT(30) DEF Page
<1>8. SetFreeEnd(p3, end) = Ok(p4)
  <2>1. ~(end < HEADER_SIZE) /\ ~(end < p3.free_start)
    BY <1>3, <1>7 DEF HEADER_SIZE, Offset
  <2> QED
    BY <2>1, Zenon DEF SetFreeEnd
<1>9. \A r : Ok(r).err = "Ok" /\ Ok(r).page = r
  BY DEF Ok
<1>10. InitIndexPage(lsn) = Ok(q)
  <2> HIDE DEF p1, p2, p3, p4, end
  <2> QED
    BY <1>5, <1>6, <1>8, <1>9, Zenon DEF InitIndexPage, p1, end
<1>11. /\ q \in Page /\ q.slots = <<>> /\ q.free_start = HEADER_SIZE
       /\ q.free_end = end /\ q.special = end
       /\ q.page_type = 2 /\ \A k \in 1 .. PAGE_SIZE : q.bytes[k] = 0
  <2>1. /\ p3.slots = <<>> /\ p3.special = end
        /\ p3.page_type = 2 /\ \A k \in 1 .. PAGE_SIZE : p3.bytes[k] = 0
    <3> HIDE DEF pt
    <3> QED
      BY <1>1, <1>4, <1>7 DEF Page, SetPageType, ZeroPage
  <2> HIDE DEF p3
  <2>2. /\ p4 \in Page /\ p4.slots = <<>> /\ p4.free_start = HEADER_SIZE
        /\ p4.free_end = end /\ p4.special = end
        /\ p4.page_type = 2 /\ \A k \in 1 .. PAGE_SIZE : p4.bytes[k] = 0
    BY <1>3, <1>7, <2>1 DEF Page
  <2> HIDE DEF p4
  <2> QED
    BY <2>2 DEF Page, SetLsn
<1>12. Formatted(q)
  <2> HIDE DEF q
  <2> QED
    BY <1>3, <1>11, PageSizeAssumption DEF Formatted, Limit, HEADER_SIZE, ENTRY_SIZE, Offset
<1>13. q.free_end = Limit(q)
  BY <1>11, PageSizeAssumption DEF Limit, HEADER_SIZE, INDEX_SPECIAL_SIZE
<1> QED
  BY <1>10, <1>11, <1>12, <1>13, Zenon

(* init_new on a page without a special area, whatever else is on it,      *)
(* leaves an empty page without a special area.                            *)
LEMMA InitNewMeaning ==
  ASSUME NEW p \in Page, p.special = 0, NEW pt \in Byte
  PROVE  /\ InitNew(p, pt) \in Page /\ Formatted(InitNew(p, pt))
         /\ InitNew(p, pt).slots = <<>>
         /\ InitNew(p, pt).free_start = HEADER_SIZE
         /\ InitNew(p, pt).free_end = PAGE_SIZE
         /\ InitNew(p, pt).free_end = Limit(InitNew(p, pt))
<1> DEFINE q == InitNew(p, pt)
<1>1. HEADER_SIZE \in Offset /\ PAGE_SIZE \in Offset
  BY PageSizeAssumption DEF Offset, HEADER_SIZE, INDEX_SPECIAL_SIZE
<1>2. /\ q \in Page /\ q.slots = <<>> /\ q.free_start = HEADER_SIZE
      /\ q.free_end = PAGE_SIZE /\ q.special = 0
  <2> DEFINE none == <<>>
  <2>1. none \in Seq(SlotEntry)
    OBVIOUS
  <2>2. q = [p EXCEPT !.slots = none, !.free_start = HEADER_SIZE, !.free_end = PAGE_SIZE,
                      !.page_type = pt]
    BY Zenon DEF InitNew
  <2>3. /\ q \in Page /\ q.slots = none /\ q.free_start = HEADER_SIZE
        /\ q.free_end = PAGE_SIZE /\ q.special = p.special
    <3> HIDE DEF none, q
    <3> QED
      BY <1>1, <2>1, <2>2, ZenonT(30) DEF Page
  <2> QED
    BY <2>3, Zenon
<1> HIDE DEF q
<1>3. Formatted(q)
  BY <1>2, PageSizeAssumption DEF Formatted, Limit, HEADER_SIZE, ENTRY_SIZE, INDEX_SPECIAL_SIZE
<1>4. q.free_end = Limit(q)
  BY <1>2 DEF Limit
<1> QED
  BY <1>2, <1>3, <1>4 DEF q

-----------------------------------------------------------------------------
(* What an added cell does to the cells that are there.                    *)

(* The cells of a sound page are a sequence of cells, one for each slot.   *)
LEMMA CellsType ==
  ASSUME NEW p \in Page, Formatted(p)
  PROVE  /\ CellsOf(p) \in Seq(Cell) /\ Len(CellsOf(p)) = Len(p.slots)
         /\ \A i \in 1 .. Len(p.slots) : CellsOf(p)[i] = Slice(p, p.slots[i])
<1>1. Len(p.slots) \in Nat /\ \A i \in 1 .. Len(p.slots) : p.slots[i] \in SlotEntry
  BY DEF Page
<1>2. ASSUME NEW i \in 1 .. Len(p.slots)
      PROVE  Slice(p, p.slots[i]) \in Cell
  <2> DEFINE o == p.slots[i].offset
             l == p.slots[i].length
  <2>1. o \in Nat /\ l \in Nat /\ o + l <= PAGE_SIZE
    <3>1. o \in Nat /\ l \in Nat
      BY <1>1 DEF SlotEntry, Offset
    <3>2. o + l <= Limit(p)
      BY DEF Formatted
    <3>3. Limit(p) \in Nat /\ Limit(p) <= PAGE_SIZE
      BY PageSizeAssumption DEF Limit, Page, Offset
    <3> HIDE DEF o, l
    <3> QED
      BY <3>1, <3>2, <3>3, PageSizeAssumption
  <2> HIDE DEF o, l
  <2>2. \A k \in o + 1 .. o + l : p.bytes[k] \in Byte
    <3>1. p.bytes \in [1 .. PAGE_SIZE -> Byte]
      BY DEF Page
    <3>2. o + 1 .. o + l \subseteq 1 .. PAGE_SIZE
      BY <2>1, PageSizeAssumption
    <3> QED
      BY <3>1, <3>2, ZenonT(30)
  <2>3. SubSeq(p.bytes, o + 1, o + l) \in Seq(Byte)
    BY <2>1, <2>2, SubSeqProperties
  <2> QED
    BY <2>3 DEF Slice, Cell, o, l
<1>3. CellsOf(p) \in [1 .. Len(p.slots) -> Cell]
  BY <1>2 DEF CellsOf
<1> QED
  BY <1>1, <1>3 DEF CellsOf

(* Arrays with the same bytes in a range have the same slice there.        *)
LEMMA SameBytes ==
  ASSUME NEW b, NEW c, NEW o \in Nat, NEW l \in Nat,
         \A k \in o + 1 .. o + l : b[k] = c[k] /\ c[k] \in Byte
  PROVE  SubSeq(b, o + 1, o + l) = SubSeq(c, o + 1, o + l)
<1> DEFINE u == SubSeq(b, o + 1, o + l)
           t == SubSeq(c, o + 1, o + l)
<1>1. /\ u \in Seq(Byte)
      /\ Len(u) = IF o + 1 <= o + l THEN (o + l) - (o + 1) + 1 ELSE 0
      /\ \A k \in 1 .. (o + l) - (o + 1) + 1 : u[k] = b[(o + 1) + k - 1]
  BY SubSeqProperties
<1>2. /\ t \in Seq(Byte)
      /\ Len(t) = IF o + 1 <= o + l THEN (o + l) - (o + 1) + 1 ELSE 0
      /\ \A k \in 1 .. (o + l) - (o + 1) + 1 : t[k] = c[(o + 1) + k - 1]
  BY SubSeqProperties
<1> HIDE DEF u, t
<1>3. Len(u) = l
  BY <1>1
<1>4. \A k \in 1 .. l : u[k] = t[k]
  BY <1>1, <1>2
<1>5. u = t
  BY <1>1, <1>2, <1>3, <1>4, SeqEqual
<1> QED
  BY <1>5 DEF u, t

(* A cell already on the page reads the same after another is added: the   *)
(* new cell is written below free_end, and it lies above.                  *)
LEMMA OldCellUntouched ==
  ASSUME NEW p, PageInv(p), NEW cell \in Cell, ~NoRoomFor(p, cell),
         NEW idx \in 0 .. Len(p.slots), NEW i \in 1 .. Len(p.slots)
  PROVE  Slice(Added(p, idx, cell), p.slots[i]) = Slice(p, p.slots[i])
<1> DEFINE o == p.slots[i].offset
           l == p.slots[i].length
           b == CopyIn(p.bytes, p.free_end - Len(cell), cell)
<1>1. p \in Page /\ Formatted(p)
  BY RoomMeansFormatted DEF PageInv
<1>2. Added(p, idx, cell).bytes = b
  BY <1>1 DEF Added, Page
<1>3. /\ o \in Nat /\ l \in Nat /\ o + l <= PAGE_SIZE /\ p.free_end <= o
  <2>1. p.slots[i] \in SlotEntry
    BY <1>1 DEF Page
  <2>2. o \in Nat /\ l \in Nat
    BY <2>1 DEF SlotEntry, Offset
  <2>3. o + l <= Limit(p) /\ p.free_end <= o
    BY <1>1 DEF Formatted
  <2>4. Limit(p) \in Nat /\ Limit(p) <= PAGE_SIZE
    BY <1>1, PageSizeAssumption DEF Limit, Page, Offset
  <2> HIDE DEF o, l
  <2> QED
    BY <2>2, <2>3, <2>4, PageSizeAssumption
<1>4. Len(cell) \in Nat /\ p.free_end \in Nat
  BY <1>1 DEF Cell, Page, Offset
<1> HIDE DEF o, l
<1>5. \A k \in o + 1 .. o + l : b[k] = p.bytes[k] /\ p.bytes[k] \in Byte
  <2> SUFFICES ASSUME NEW k \in o + 1 .. o + l
               PROVE  b[k] = p.bytes[k] /\ p.bytes[k] \in Byte
    OBVIOUS
  <2>1. k \in 1 .. PAGE_SIZE
    BY <1>3, PageSizeAssumption
  <2>2. ~(k \in (p.free_end - Len(cell)) + 1 .. (p.free_end - Len(cell)) + Len(cell))
    BY <1>3, <1>4
  <2> QED
    BY <1>1, <2>1, <2>2, ZenonT(30) DEF CopyIn, Page
<1> HIDE DEF b
<1>6. SubSeq(b, o + 1, o + l) = SubSeq(p.bytes, o + 1, o + l)
  BY <1>3, <1>5, SameBytes
<1> QED
  BY <1>2, <1>6, ZenonT(30) DEF Slice, o, l

(* The new slot reads back the bytes of the cell that was added.           *)
LEMMA NewCellReadsBack ==
  ASSUME NEW p, PageInv(p), NEW cell \in Cell, ~NoRoomFor(p, cell),
         NEW idx \in 0 .. Len(p.slots)
  PROVE  Slice(Added(p, idx, cell), NewEntry(p, cell)) = cell
<1> DEFINE start == p.free_end - Len(cell)
           b     == CopyIn(p.bytes, start, cell)
<1>1. p \in Page
  BY DEF PageInv
<1>2. Added(p, idx, cell).bytes = b
  BY <1>1 DEF Added, Page
<1>3. NewEntry(p, cell).offset = start /\ NewEntry(p, cell).length = Len(cell)
  BY DEF NewEntry
<1>4. Len(cell) \in Nat /\ start \in Nat /\ start + Len(cell) <= PAGE_SIZE
  BY <1>1, RoomIsOnPage, PageSizeAssumption DEF Offset, Page
<1> HIDE DEF start
<1>5. \A k \in 1 .. Len(cell) : cell[k] \in Byte
  BY DEF Cell
<1>6. \A k \in start + 1 .. start + Len(cell) : b[k] = cell[k - start] /\ b[k] \in Byte
  <2> SUFFICES ASSUME NEW k \in start + 1 .. start + Len(cell)
               PROVE  b[k] = cell[k - start] /\ b[k] \in Byte
    OBVIOUS
  <2>1. k \in 1 .. PAGE_SIZE /\ k - start \in 1 .. Len(cell)
    BY <1>4, PageSizeAssumption
  <2>2. b[k] = cell[k - start]
    BY <2>1 DEF CopyIn
  <2> QED
    BY <1>5, <2>1, <2>2
<1> HIDE DEF b
<1> DEFINE t == SubSeq(b, start + 1, start + Len(cell))
<1>7. /\ t \in Seq(Byte)
      /\ Len(t) = IF start + 1 <= start + Len(cell)
                  THEN (start + Len(cell)) - (start + 1) + 1 ELSE 0
      /\ \A k \in 1 .. (start + Len(cell)) - (start + 1) + 1 : t[k] = b[(start + 1) + k - 1]
  <2>1. start + 1 \in Int /\ start + Len(cell) \in Int
    BY <1>4
  <2>2. \A k \in start + 1 .. start + Len(cell) : b[k] \in Byte
    BY <1>6
  <2> QED
    BY <2>1, <2>2, SubSeqProperties, SMTT(30)
<1> HIDE DEF t
<1>8. Len(t) = Len(cell) /\ \A k \in 1 .. Len(cell) : t[k] = cell[k]
  BY <1>4, <1>6, <1>7
<1>9. t = cell
  BY <1>7, <1>8, SeqEqual DEF Cell
<1> QED
  BY <1>2, <1>3, <1>9 DEF Slice, t

(* Adding a cell to the page is inserting it into the list of its cells.   *)
LEMMA AddedCells ==
  ASSUME NEW p, PageInv(p), NEW cell \in Cell, ~NoRoomFor(p, cell),
         NEW idx \in 0 .. Len(p.slots)
  PROVE  LET cells == CellsOf(p) IN
         /\ Len(cells) = Len(p.slots)
         /\ CellsOf(Added(p, idx, cell))
              = SubSeq(cells, 1, idx) \o <<cell>> \o SubSeq(cells, idx + 1, Len(cells))
         /\ CellsOf(Added(p, idx, cell)) = ShiftIn(cells, idx, cell)
<1> DEFINE q == Added(p, idx, cell)
           n == Len(p.slots)
           c == CellsOf(p)
           t == ShiftIn(c, idx, cell)
<1>1. p \in Page /\ Formatted(p) /\ n \in Nat
  BY RoomMeansFormatted DEF PageInv, Page
<1>2. q \in Page /\ Formatted(q)
  BY AddedKeepsLayout
<1>3. /\ c \in Seq(Cell) /\ Len(c) = n
      /\ \A i \in 1 .. n : c[i] = Slice(p, p.slots[i])
  BY <1>1, CellsType
<1>4. q.slots = ShiftIn(p.slots, idx, NewEntry(p, cell))
  BY <1>1 DEF Added, Page
<1>5. Len(q.slots) = n + 1
  <2>1. NewEntry(p, cell) \in SlotEntry /\ p.slots \in Seq(SlotEntry)
    BY <1>1, RoomIsOnPage DEF Page
  <2>2. Len(ShiftIn(p.slots, idx, NewEntry(p, cell))) = n + 1
    BY <2>1, ShiftInType, ZenonT(30)
  <2> QED
    BY <1>4, <2>2
<1>6. /\ CellsOf(q) \in Seq(Cell) /\ Len(CellsOf(q)) = n + 1
      /\ \A i \in 1 .. n + 1 : CellsOf(q)[i] = Slice(q, q.slots[i])
  BY <1>2, <1>5, CellsType
<1>7. t \in Seq(Cell) /\ Len(t) = n + 1
  BY <1>3, ShiftInType
<1>8. ASSUME NEW i \in 1 .. n + 1
      PROVE  CellsOf(q)[i] = t[i]
  <2>1. /\ q.slots[i] = IF i <= idx THEN p.slots[i]
                         ELSE IF i = idx + 1 THEN NewEntry(p, cell) ELSE p.slots[i - 1]
        /\ t[i] = IF i <= idx THEN c[i] ELSE IF i = idx + 1 THEN cell ELSE c[i - 1]
    BY <1>3, <1>4 DEF ShiftIn
  <2>2. \A j \in 1 .. n : Slice(q, p.slots[j]) = c[j]
    BY <1>3, OldCellUntouched
  <2>3. Slice(q, NewEntry(p, cell)) = cell
    BY NewCellReadsBack
  <2>4. (i <= idx => i \in 1 .. n) /\ (~(i <= idx) /\ i # idx + 1 => i - 1 \in 1 .. n)
    BY <1>1
  <2> HIDE DEF q, c, t
  <2> QED
    BY <1>6, <2>1, <2>2, <2>3, <2>4, Zenon
<1>9. CellsOf(q) = t
  <2> HIDE DEF q, c, t
  <2> QED
    BY <1>6, <1>7, <1>8, SeqEqual
<1>10. SubSeq(c, 1, idx) \o <<cell>> \o SubSeq(c, idx + 1, Len(c)) = t
  <2> HIDE DEF c
  <2> QED
    BY <1>3, ShiftInIsInsertion, ZenonT(30)
<1> QED
  BY <1>3, <1>9, <1>10, ZenonT(30)
=============================================================================
