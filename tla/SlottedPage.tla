------------------------------ MODULE SlottedPage ------------------------------
(***************************************************************************)
(* The slotted page of src/page/slotted_page.rs: a fixed array of bytes    *)
(* with a header, a slot directory that grows upwards from the header, and *)
(* cells that grow downwards from the end of the page (or from the special *)
(* area a page wrapper keeps at the end).                                  *)
(*                                                                         *)
(*   | header | slot 0 | slot 1 | ...  free  ... | cell | cell | special | *)
(*            HEADER_SIZE       free_start       free_end       PAGE_SIZE  *)
(*                                                                         *)
(* This module holds the operations as functions from a page to an error   *)
(* and a page.  SlottedPageOps and IndexPage are the state machines that   *)
(* call them.                                                              *)
(*                                                                         *)
(* The header words and the slot directory are fields of their own; bytes  *)
(* stands for the rest of the array (its header and directory part is not  *)
(* used).  That the directory and the cells never meet in the one array    *)
(* the code has is therefore a property to check: LayoutOK.                *)
(***************************************************************************)
EXTENDS Integers, Sequences, PageType

CONSTANT PAGE_SIZE    \* bytes in a page: 4096 in the code, small in a model

HEADER_SIZE == 24     \* bytes before the slot directory
ENTRY_SIZE  == 4      \* bytes of a slot entry: offset and length, u16 each
INDEX_SPECIAL_SIZE == 16   \* special area of an index page (internal_page.rs)

(* A page holds its header and the special area of its wrapper, and every  *)
(* offset in it fits the u16 header words and slot entries.                *)
ASSUME PageSizeAssumption ==
  /\ PAGE_SIZE \in Nat
  /\ HEADER_SIZE + INDEX_SPECIAL_SIZE <= PAGE_SIZE
  /\ PAGE_SIZE < 65536

Byte   == 0 .. 255
Offset == 0 .. PAGE_SIZE
Cell   == Seq(Byte)

SlotEntry == [offset : Offset, length : Offset]

Page == [bytes : [1 .. PAGE_SIZE -> Byte], slots : Seq(SlotEntry),
         free_start : Offset, free_end : Offset, special : Offset,
         page_type : Byte, flags : Byte, lsn : Nat]

(* A page fresh from the allocator, and what wipe_page leaves: all zeros.  *)
ZeroPage ==
  [bytes |-> [i \in 1 .. PAGE_SIZE |-> 0], slots |-> <<>>, free_start |-> 0,
   free_end |-> 0, special |-> 0, page_type |-> 0, flags |-> 0, lsn |-> 0]

(* The Result of an operation.  "Panic" is a failed assert or debug_assert,*)
(* every other error is a PageError.                                       *)
Ok(p)     == [err |-> "Ok", page |-> p]
Err(e, p) == [err |-> e, page |-> p]

-----------------------------------------------------------------------------
(* Writers.                                                                *)

(* init_new does not wipe: special, flags, lsn and bytes are what they     *)
(* were.  The slot directory is empty because free_start is reset.         *)
InitNew(p, page_type) ==
  [p EXCEPT !.slots = <<>>, !.free_start = HEADER_SIZE, !.free_end = PAGE_SIZE,
            !.page_type = page_type]

SetPageType(p, page_type) == [p EXCEPT !.page_type = page_type]
SetFlags(p, flags)        == [p EXCEPT !.flags = flags]
SetLsn(p, lsn)            == [p EXCEPT !.lsn = lsn]

SetFreeStart(p, offset) ==
  IF offset >= HEADER_SIZE /\ offset <= PAGE_SIZE
  THEN Ok([p EXCEPT !.free_start = offset])
  ELSE Err("Panic", p)

(* A special area of `special` bytes at the end of the page.               *)
SetSpecialOffset(p, special) ==
  IF special < PAGE_SIZE THEN Ok([p EXCEPT !.special = PAGE_SIZE - special])
                         ELSE Err("Panic", p)

IncrementFreeStart(p, n) ==
  LET fs == p.free_start + n IN
  IF fs > p.free_end \/ fs < HEADER_SIZE THEN Err("Panic", p)
  ELSE Ok([p EXCEPT !.free_start = fs])

SetFreeEnd(p, offset) ==
  IF offset < HEADER_SIZE THEN Err("Panic", p)
  ELSE IF offset < p.free_start THEN Err("InvalidFreeEnd", p)
  ELSE Ok([p EXCEPT !.free_end = offset])

SlotCount(p) == (p.free_start - HEADER_SIZE) \div ENTRY_SIZE

AppendSlotEntry(p, entry) ==
  IF p.free_end - p.free_start < ENTRY_SIZE THEN Err("NotEnoughFreeSpace", p)
  ELSE IncrementFreeStart([p EXCEPT !.slots = Append(@, entry)], ENTRY_SIZE)

(* Mutant of ShiftIn: the entries are copied upwards one by one in place,  *)
(* so the first of them ends up in every slot above it.                    *)
ShiftInForward(slots, idx, entry) ==
  [i \in 1 .. Len(slots) + 1 |->
     IF i <= idx THEN slots[i] ELSE IF i = idx + 1 THEN entry ELSE slots[idx + 1]]

(* ptr::copy of the entries from idx (counted from 0) on, one entry up,    *)
(* and the new entry in the gap.                                           *)
ShiftIn(slots, idx, entry) ==
  [i \in 1 .. Len(slots) + 1 |->
     IF i <= idx THEN slots[i] ELSE IF i = idx + 1 THEN entry ELSE slots[i - 1]]

(* Mutant of InsertSlotEntryAtIndex: no entry behind the last one.          *)
InsertSlotEntryBefore(p, idx, entry) ==
  IF p.free_end - p.free_start < ENTRY_SIZE THEN Err("NotEnoughFreeSpace", p)
  ELSE IF idx >= SlotCount(p) THEN Err("SlotIndexNotInRange", p)
  ELSE IncrementFreeStart([p EXCEPT !.slots = ShiftIn(@, idx, entry)], ENTRY_SIZE)

InsertSlotEntryAtIndex(p, idx, entry) ==
  IF p.free_end - p.free_start < ENTRY_SIZE THEN Err("NotEnoughFreeSpace", p)
  ELSE IF idx > SlotCount(p) THEN Err("SlotIndexNotInRange", p)
  ELSE IF idx = SlotCount(p) THEN AppendSlotEntry(p, entry)
  ELSE IncrementFreeStart([p EXCEPT !.slots = ShiftIn(@, idx, entry)], ENTRY_SIZE)

(* The bytes of the page once src is copied to it at an offset.            *)
CopyIn(bytes, offset, src) ==
  [i \in 1 .. PAGE_SIZE |->
     IF i \in offset + 1 .. offset + Len(src) THEN src[i - offset] ELSE bytes[i]]

(* Mutant of StoreCell: free_end is not moved.                             *)
StoreCellOnly(r, start, cell) ==
  IF r.err # "Ok" THEN r ELSE Ok([r.page EXCEPT !.bytes = CopyIn(@, start, cell)])

(* What both add_cell operations do after the slot entry is in: nothing if *)
(* that failed, else copy the cell and move free_end down to it.           *)
StoreCell(r, start, cell) ==
  IF r.err # "Ok" THEN r
  ELSE SetFreeEnd([r.page EXCEPT !.bytes = CopyIn(@, start, cell)], start)

(* Mutant of NoRoomFor: the slot entry of the cell is not counted.         *)
NoRoomForBytes(p, cell) == Len(cell) > p.free_end - p.free_start

NoRoomFor(p, cell) == Len(cell) + ENTRY_SIZE > p.free_end - p.free_start

NewEntry(p, cell) == [offset |-> p.free_end - Len(cell), length |-> Len(cell)]

AddCellAppendSlotEntry(p, cell) ==
  IF NoRoomFor(p, cell) THEN Err("NoContigiousSpace", p)
  ELSE StoreCell(AppendSlotEntry(p, NewEntry(p, cell)), p.free_end - Len(cell), cell)

AddCellAtSlotEntryIndex(p, idx, cell) ==
  IF NoRoomFor(p, cell) THEN Err("NoContigiousSpace", p)
  ELSE StoreCell(InsertSlotEntryAtIndex(p, idx, NewEntry(p, cell)),
                 p.free_end - Len(cell), cell)

(* Mutant of InitIndexPage: free_end is left at the end of the page.       *)
InitIndexPageToEnd(lsn) ==
  LET typed   == SetPageType(ZeroPage, NewPageType(KindToU8["IndexInternal"], 0))
      special == SetSpecialOffset(typed, INDEX_SPECIAL_SIZE)
      start   == SetFreeStart(special.page, HEADER_SIZE)
      end     == SetFreeEnd(start.page, PAGE_SIZE)
  IN  Ok(SetLsn(end.page, lsn))

(* IndexPageMut::init_in_place: wipe the page, reserve the special area.   *)
InitIndexPage(lsn) ==
  LET typed   == SetPageType(ZeroPage, NewPageType(KindToU8["IndexInternal"], 0))
      special == SetSpecialOffset(typed, INDEX_SPECIAL_SIZE)
      start   == SetFreeStart(special.page, HEADER_SIZE)
      end     == SetFreeEnd(start.page, PAGE_SIZE - INDEX_SPECIAL_SIZE)
  IN  IF special.err # "Ok" THEN special
      ELSE IF start.err # "Ok" THEN start
      ELSE IF end.err # "Ok" THEN end
      ELSE Ok(SetLsn(end.page, lsn))

-----------------------------------------------------------------------------
(* Readers, the same for SlottedPageMut and SlottedPageRef.                *)

Slice(p, entry) == SubSeq(p.bytes, entry.offset + 1, entry.offset + entry.length)

CellErr(e) == [err |-> e, cell |-> <<>>]

(* Mutant of CellSliceFromId: a cell that ends with the page is corrupt.   *)
CellSliceFromIdStrict(p, slot_id) ==
  IF p.free_start < HEADER_SIZE THEN CellErr("Panic")
  ELSE IF SlotCount(p) = 0 THEN CellErr("EmptySlotDir")
  ELSE IF slot_id >= SlotCount(p) THEN CellErr("SlotIDOutOfBounds")
  ELSE LET entry == p.slots[slot_id + 1] IN
       IF entry.offset + entry.length >= PAGE_SIZE THEN CellErr("CorruptCell")
       ELSE [err |-> "Ok", cell |-> Slice(p, entry)]

(* slot_dir_ref asserts that the directory does not end inside the header. *)
CellSliceFromId(p, slot_id) ==
  IF p.free_start < HEADER_SIZE THEN CellErr("Panic")
  ELSE IF SlotCount(p) = 0 THEN CellErr("EmptySlotDir")
  ELSE IF slot_id >= SlotCount(p) THEN CellErr("SlotIDOutOfBounds")
  ELSE LET entry == p.slots[slot_id + 1] IN
       IF entry.offset + entry.length > PAGE_SIZE THEN CellErr("CorruptCell")
       ELSE [err |-> "Ok", cell |-> Slice(p, entry)]

(* The debug_assert demands that the cell ends before the last byte.       *)
CellSliceFromEntry(p, entry) ==
  IF entry.offset + entry.length < PAGE_SIZE
  THEN [err |-> "Ok", cell |-> Slice(p, entry)]
  ELSE CellErr("Panic")

(* Where the cells of a page end: at the special area if it has one.       *)
Limit(p) == IF p.special = 0 THEN PAGE_SIZE ELSE p.special

(* The cells of a page in slot order: what a walk over SlotDirIter reads.  *)
CellsOf(p) == [i \in 1 .. Len(p.slots) |-> Slice(p, p.slots[i])]

-----------------------------------------------------------------------------
(* The layout every operation relies on and has to keep.                   *)

Raw(p) == p.slots = <<>> /\ p.free_start = 0 /\ p.free_end = 0 /\ p.special = 0

Formatted(p) ==
  /\ p.special \in {0, PAGE_SIZE - INDEX_SPECIAL_SIZE}
  /\ p.free_start = HEADER_SIZE + ENTRY_SIZE * Len(p.slots)
  /\ p.free_start <= p.free_end
  /\ p.free_end <= Limit(p)
  /\ \A i \in 1 .. Len(p.slots) :
       /\ p.free_end <= p.slots[i].offset
       /\ p.slots[i].offset + p.slots[i].length <= Limit(p)
  /\ \A i, j \in 1 .. Len(p.slots) :
       i # j => \/ p.slots[i].offset + p.slots[i].length <= p.slots[j].offset
                \/ p.slots[j].offset + p.slots[j].length <= p.slots[i].offset
=============================================================================
