---------------------------- MODULE SlottedPageOps ----------------------------
(***************************************************************************)
(* One page and a client that calls the operations of SlottedPage on it in *)
(* any order, with any cells, on the error paths too.                      *)
(***************************************************************************)
EXTENDS SlottedPage

CONSTANTS Cells,      \* cells the client adds
          PageTypes,  \* page_type bytes it sets
          FlagBytes,  \* flags bytes it sets
          Lsns        \* log sequence numbers it sets

ASSUME ClientAssumption ==
  /\ Cells \subseteq Cell
  /\ PageTypes \subseteq Byte /\ FlagBytes \subseteq Byte /\ Lsns \subseteq Nat

VARIABLES page,       \* the page
          res         \* "Ok" or the error of the last operation

vars == <<page, res>>

Init == page = ZeroPage /\ res = "Ok"

Return(r) == page' = r.page /\ res' = r.err

(* init_new checks nothing and keeps the special offset it finds: on a     *)
(* page that has a special area the cells would grow from the end of the   *)
(* page, over that area.  The client hands it a page without one: its      *)
(* callers in the code pass a zeroed array; here a page that was used      *)
(* before will do.                                                         *)
InitNewPage(page_type) == page.special = 0 /\ Return(Ok(InitNew(page, page_type)))

InitInPlace(lsn)     == Return(InitIndexPage(lsn))
AddCellAppend(cell)  == Return(AddCellAppendSlotEntry(page, cell))
AddCellAt(idx, cell) == Return(AddCellAtSlotEntryIndex(page, idx, cell))

SetType(page_type)   == Return(Ok(SetPageType(page, page_type)))
SetFlagsByte(flags)  == Return(Ok(SetFlags(page, flags)))
SetLsnWord(lsn)      == Return(Ok(SetLsn(page, lsn)))

(* An index past the end of the directory by one stands for all of them.   *)
Next ==
  \/ \E page_type \in PageTypes : InitNewPage(page_type) \/ SetType(page_type)
  \/ \E lsn \in Lsns : InitInPlace(lsn) \/ SetLsnWord(lsn)
  \/ \E cell \in Cells : AddCellAppend(cell)
  \/ \E cell \in Cells : \E idx \in 0 .. Len(page.slots) + 1 : AddCellAt(idx, cell)
  \/ \E flags \in FlagBytes : SetFlagsByte(flags)

Spec == Init /\ [][Next]_vars

-----------------------------------------------------------------------------
(* Properties.                                                             *)

(* The header words stay in range of the page and the slot entries and     *)
(* bytes have their widths; the only errors an add_cell ever returns are   *)
(* the two it means for its caller.  The checks further in (append_slot_   *)
(* entry, increment_free_start, set_free_end) never fail after the first.  *)
TypeOK ==
  /\ page \in Page
  /\ res \in {"Ok", "NoContigiousSpace", "SlotIndexNotInRange"}

(* On any sequence of calls the slot directory ends below free_end, every  *)
(* cell lies between free_end and the special area, and no two cells share *)
(* a byte: the add_cell operations of slotted_page.rs:345-409 never write  *)
(* over the directory, the special area or another cell.                   *)
LayoutOK == Raw(page) \/ Formatted(page)

(* The free-space arithmetic loses no byte: on any sequence of calls the   *)
(* bytes between free_end and the end of the cell area are exactly those   *)
(* of the cells in the directory, so that free_end - free_start is all the *)
(* space there is (what memory_used, slotted_page.rs:133, is meant to      *)
(* count).                                                                 *)
InCell(p, k) ==
  \E i \in 1 .. Len(p.slots) :
    k \in p.slots[i].offset + 1 .. p.slots[i].offset + p.slots[i].length

Tiled(p) == \A k \in 1 .. PAGE_SIZE : InCell(p, k) <=> k \in p.free_end + 1 .. Limit(p)

NoByteLost == Raw(page) \/ Tiled(page)

(* An operation that returns an error has changed nothing: the slot entry  *)
(* add_cell writes first (slotted_page.rs:362, 392) is never left behind   *)
(* by a later failing step.                                                *)
FailureAtomic == [][res' # "Ok" => page' = page]_vars

(* Every slot leads a reader to its cell.  cell_slice_from_id accepts the  *)
(* ids of the directory and no other, and on a page with a special area    *)
(* cell_slice_from_entry reads the same bytes (slotted_page.rs:412-459).   *)
ReadersAgree ==
  Formatted(page) =>
    /\ \A id \in 0 .. Len(page.slots) + 1 :
         (CellSliceFromId(page, id).err = "Ok") <=> (id < Len(page.slots))
    /\ \A i \in DOMAIN page.slots :
         page.special # 0 => CellSliceFromEntry(page, page.slots[i])
                               = CellSliceFromId(page, i - 1)

(* cell_slice_from_entry, slotted_page.rs:449: "We have a valid slot entry.*)
(* The only way we would be able to get this is if there also exists a     *)
(* valid cell area".  Does its debug_assert accept every entry of the      *)
(* directory?                                                              *)
EntryHasCell ==
  \A i \in DOMAIN page.slots : CellSliceFromEntry(page, page.slots[i]).err = "Ok"

Rooms == {PAGE_SIZE - HEADER_SIZE, PAGE_SIZE - HEADER_SIZE - INDEX_SPECIAL_SIZE}

List == INSTANCE CellList WITH list <- CellsOf(page), Overhead <- ENTRY_SIZE,
                               room <- page.free_end - page.free_start,
                               outcome <- res, Capacities <- Rooms

(* A call is the CellList call of the same arguments.                      *)
CallsMatch ==
  /\ \A t \in PageTypes : /\ InitNewPage(t) => List!Clear(PAGE_SIZE - HEADER_SIZE)
                          /\ SetType(t) => List!Other
  /\ \A lsn \in Lsns :
       /\ InitInPlace(lsn) => List!Clear(PAGE_SIZE - HEADER_SIZE - INDEX_SPECIAL_SIZE)
       /\ SetLsnWord(lsn) => List!Other
  /\ \A flags \in FlagBytes : SetFlagsByte(flags) => List!Other
  /\ \A cell \in Cells :
       /\ AddCellAppend(cell) => List!AddLast(cell)
       /\ \A idx \in 0 .. Len(page.slots) + 1 : AddCellAt(idx, cell) => List!AddAt(idx, cell)

(* The page is an ordered list of cells with so many bytes of room: every  *)
(* call does to the list what CellList says for its own cell and index, or *)
(* reports why not.  Cells already on the page keep their order and their  *)
(* bytes (slotted_page.rs:89-108, 345-409).                                *)
ImplementsCellList == List!CLSpec /\ [][CallsMatch]_vars
=============================================================================
