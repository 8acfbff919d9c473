------------------------------ MODULE IndexLayout ------------------------------
(***************************************************************************)
(* The internal page of the index (src/page/internal_page.rs): an          *)
(* interpretation of a slotted page whose cells are a child page id, a key *)
(* length and a key, and whose special area holds the id of the right      *)
(* sibling.  This module holds the layout and find_child_ptr as functions; *)
(* IndexPage is the state machine that calls the operations.               *)
(***************************************************************************)
EXTENDS SlottedPage

-----------------------------------------------------------------------------
(* Little-endian integers: a u16 is two bytes, a u64 is eight.             *)

(* The lowest byte of n, and what is left above one, two or four bytes.    *)
Low(n)    == n % 256
Above1(n) == n \div 256
Above2(n) == Above1(Above1(n))
Above4(n) == Above2(Above2(n))

FitsU64(n) == Above4(Above4(n)) = 0

ToLE2(n) == <<Low(n), Low(Above1(n))>>

ToLE8(n) ==
  <<Low(n), Low(Above1(n)), Low(Above2(n)), Low(Above1(Above2(n))),
    Low(Above4(n)), Low(Above1(Above4(n))), Low(Above2(Above4(n))),
    Low(Above1(Above2(Above4(n))))>>

(* The number with a given low byte and the rest above it.                 *)
Join(low, high) == low + 256 * high

FromLE2(b) == Join(b[1], b[2])

FromLE8(b) ==
  Join(b[1], Join(b[2], Join(b[3], Join(b[4], Join(b[5], Join(b[6], Join(b[7], b[8])))))))

(* The order of &[u8] keys: that of the first byte that differs, else a    *)
(* proper prefix comes first.                                              *)
KeyLess(a, b) ==
  \E n \in 0 .. Len(a) :
    /\ n < Len(b)
    /\ \A i \in 1 .. n : a[i] = b[i]
    /\ n = Len(a) \/ a[n + 1] < b[n + 1]

-----------------------------------------------------------------------------
(* Index cells.                                                            *)

KEY_LEN_OFFSET  == 8
KEY_DATA_OFFSET == 10
MAX_INDEX_CELL_SIZE == PAGE_SIZE - HEADER_SIZE - ENTRY_SIZE

(* IndexCellOwned::new asserts this of a key, and encodes it.              *)
CellAccepted(key) == KEY_DATA_OFFSET + Len(key) < MAX_INDEX_CELL_SIZE

(* key.len() as u16.                                                       *)
LenU16(key) == Len(key) % 65536

(* Mutant of IndexCellOwned: the key length is written before the id.      *)
IndexCellLengthFirst(key, ptr) == ToLE2(LenU16(key)) \o ToLE8(ptr) \o key

IndexCellOwned(key, ptr) == ToLE8(ptr) \o ToLE2(LenU16(key)) \o key

KeyLen(cell) == FromLE2(SubSeq(cell, KEY_LEN_OFFSET + 1, KEY_DATA_OFFSET))

(* What IndexCell::from and get_key assert of a cell.                      *)
CellReadable(cell) ==
  Len(cell) >= KEY_DATA_OFFSET /\ KEY_DATA_OFFSET + KeyLen(cell) <= Len(cell)

KeyOf(cell) == SubSeq(cell, KEY_DATA_OFFSET + 1, KEY_DATA_OFFSET + KeyLen(cell))

PtrOf(cell) == FromLE8(SubSeq(cell, 1, KEY_LEN_OFFSET))

EntryOf(cell) == [key |-> KeyOf(cell), ptr |-> PtrOf(cell)]

-----------------------------------------------------------------------------
(* The special area.                                                       *)

RIGHT_SIBLING_OFFSET == 8

(* get_special_ref succeeds.                                               *)
HasSpecial(p) == p.special # 0

(* get_right_sibling, 0 for None; has_right_sibling compares with 0 too.   *)
RightSibling(p) ==
  IF HasSpecial(p)
  THEN FromLE8(SubSeq(p.bytes, p.special + RIGHT_SIBLING_OFFSET + 1,
                               p.special + RIGHT_SIBLING_OFFSET + 8))
  ELSE 0

(* set_right_sibling does nothing, and says nothing, without special area. *)
WithRightSibling(p, id) ==
  IF HasSpecial(p)
  THEN [p EXCEPT !.bytes = CopyIn(@, p.special + RIGHT_SIBLING_OFFSET, ToLE8(id))]
  ELSE p

-----------------------------------------------------------------------------
(* find_child_ptr: Err(e), or Ok(Some(ptr)), or Ok(None) with ptr = 0.     *)

Found(ptr) == [err |-> "Ok", some |-> TRUE, ptr |-> ptr]
NotFound   == [err |-> "Ok", some |-> FALSE, ptr |-> 0]
FindErr(e) == [err |-> e, some |-> FALSE, ptr |-> 0]

First(S) == CHOOSE i \in S : \A j \in S : i <= j

(* The walk over the slot entries behind the skipped ones.  A cell that    *)
(* fails an assertion ends it with a panic.                                *)
Scan(p, skip, key) ==
  LET read(i) == CellSliceFromEntry(p, p.slots[i])
      bad(i)  == read(i).err # "Ok" \/ ~CellReadable(read(i).cell)
      stop    == {i \in skip + 1 .. Len(p.slots) :
                    bad(i) \/ KeyLess(key, KeyOf(read(i).cell))}
  IN  IF p.free_start < HEADER_SIZE THEN FindErr("Panic")
      ELSE IF stop = {} THEN NotFound
      ELSE IF bad(First(stop)) THEN FindErr("Panic")
      ELSE Found(PtrOf(read(First(stop)).cell))

(* Mutant of FindChildPtr: the walk does not skip the high key.            *)
FindChildPtrNoSkip(p, key) ==
  IF RightSibling(p) = 0 THEN Scan(p, 0, key)
  ELSE LET high == CellSliceFromId(p, 0) IN
       IF high.err # "Ok" THEN FindErr(high.err)
       ELSE IF ~CellReadable(high.cell) THEN FindErr("Panic")
       ELSE IF KeyLess(KeyOf(high.cell), key) THEN Found(RightSibling(p))
       ELSE Scan(p, 0, key)

FindChildPtr(p, key) ==
  IF RightSibling(p) = 0 THEN Scan(p, 0, key)
  ELSE LET high == CellSliceFromId(p, 0) IN
       IF high.err # "Ok" THEN FindErr(high.err)
       ELSE IF ~CellReadable(high.cell) THEN FindErr("Panic")
       ELSE IF KeyLess(KeyOf(high.cell), key) THEN Found(RightSibling(p))
       ELSE Scan(p, 1, key)

-----------------------------------------------------------------------------
(* What find_child_ptr takes for granted of a page: a page with a right    *)
(* sibling has its high key in slot 0, and the pivots behind it, all       *)
(* entries otherwise, are in the order of their keys.                      *)

EntriesOf(p) == [i \in 1 .. Len(p.slots) |-> EntryOf(Slice(p, p.slots[i]))]

PivotsOf(p) == IF RightSibling(p) = 0 THEN EntriesOf(p) ELSE Tail(EntriesOf(p))

Searchable(p) ==
  /\ HasSpecial(p)
  /\ RightSibling(p) # 0 => p.slots # <<>>
  /\ \A i, j \in DOMAIN PivotsOf(p) :
       i < j => KeyLess(PivotsOf(p)[i].key, PivotsOf(p)[j].key)
=============================================================================
