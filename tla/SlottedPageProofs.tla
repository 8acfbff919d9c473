--------------------------- MODULE SlottedPageProofs ---------------------------
(***************************************************************************)
(* Proofs about SlottedPageOps, for every page size, every set of cells    *)
(* and every sequence of calls.                                            *)
(***************************************************************************)
EXTENDS SlottedPageOps, SlottedPageLemmas

Inv == TypeOK /\ LayoutOK

(* What a call may do to the page: leave its layout and its cells alone,   *)
(* format it with n bytes of room, or answer an added cell.                *)
Keeps ==
  /\ res' = "Ok" /\ page' \in Page
  /\ \A f \in {"bytes", "slots", "free_start", "free_end", "special"} : page'[f] = page[f]

Formats(n) ==
  /\ res' = "Ok" /\ page' \in Page /\ Formatted(page') /\ page'.slots = <<>>
  /\ page'.free_end - page'.free_start = n /\ page'.free_end = Limit(page')

Adds(idx, cell) ==
  \/ NoRoomFor(page, cell) /\ page' = page /\ res' = "NoContigiousSpace"
  \/ /\ ~NoRoomFor(page, cell) /\ idx > Len(page.slots)
     /\ page' = page /\ res' = "SlotIndexNotInRange"
  \/ /\ ~NoRoomFor(page, cell) /\ idx \in 0 .. Len(page.slots)
     /\ res' = "Ok" /\ page' = Added(page, idx, cell)

(* What each call does, for its arguments.                                 *)
LEMMA CallMeaning ==
  ASSUME Inv
  PROVE  /\ \A pt \in PageTypes : /\ InitNewPage(pt) => Formats(PAGE_SIZE - HEADER_SIZE)
                                  /\ SetType(pt) => Keeps
         /\ \A lsn \in Lsns :
              /\ InitInPlace(lsn) => Formats(PAGE_SIZE - HEADER_SIZE - INDEX_SPECIAL_SIZE)
              /\ SetLsnWord(lsn) => Keeps
         /\ \A flags \in FlagBytes : SetFlagsByte(flags) => Keeps
         /\ \A cell \in Cells :
              /\ AddCellAppend(cell) => Adds(Len(page.slots), cell)
              /\ \A idx \in 0 .. Len(page.slots) + 1 : AddCellAt(idx, cell) => Adds(idx, cell)
<1>1. PageInv(page) /\ page \in Page /\ Len(page.slots) \in Nat
  BY DEF Inv, TypeOK, LayoutOK, PageInv, Page
<1>2. \A r : Ok(r).err = "Ok" /\ Ok(r).page = r
  BY DEF Ok
<1>3. \A e, r : Err(e, r).err = e /\ Err(e, r).page = r
  BY DEF Err
<1>4. \A cell \in Cells : cell \in Cell
  BY ClientAssumption
<1>5. ASSUME NEW pt \in PageTypes, InitNewPage(pt) PROVE Formats(PAGE_SIZE - HEADER_SIZE)
  <2>1. pt \in Byte
    BY ClientAssumption
  <2>2. res' = "Ok" /\ page' = InitNew(page, pt) /\ page.special = 0
    BY <1>2, <1>5, Zenon DEF InitNewPage, Return
  <2> QED
    BY <1>1, <2>1, <2>2, InitNewMeaning DEF Formats
<1>6. ASSUME NEW pt \in PageTypes, SetType(pt) PROVE Keeps
  BY <1>1, <1>2, <1>6, ClientAssumption, SMTT(30) DEF SetType, Return, SetPageType, Page, Keeps
<1>7. ASSUME NEW lsn \in Lsns, InitInPlace(lsn)
      PROVE  Formats(PAGE_SIZE - HEADER_SIZE - INDEX_SPECIAL_SIZE)
  <2>1. PICK q \in Page :
           /\ InitIndexPage(lsn) = Ok(q) /\ Formatted(q) /\ q.slots = <<>>
           /\ q.free_start = HEADER_SIZE
           /\ q.free_end = PAGE_SIZE - INDEX_SPECIAL_SIZE /\ q.free_end = Limit(q)
    BY ClientAssumption, InitIndexPageMeaning
  <2>2. res' = "Ok" /\ page' = q
    BY <1>2, <1>7, <2>1, Zenon DEF InitInPlace, Return
  <2>3. q.free_end - q.free_start = PAGE_SIZE - HEADER_SIZE - INDEX_SPECIAL_SIZE
    BY <2>1, PageSizeAssumption DEF HEADER_SIZE, INDEX_SPECIAL_SIZE
  <2> QED
    BY <2>1, <2>2, <2>3 DEF Formats
<1>8. ASSUME NEW lsn \in Lsns, SetLsnWord(lsn) PROVE Keeps
  BY <1>1, <1>2, <1>8, ClientAssumption DEF SetLsnWord, Return, SetLsn, Page, Keeps
<1>9. ASSUME NEW flags \in FlagBytes, SetFlagsByte(flags) PROVE Keeps
  BY <1>1, <1>2, <1>9, ClientAssumption, SMTT(30) DEF SetFlagsByte, Return, SetFlags, Page, Keeps
<1>10. ASSUME NEW cell \in Cells, AddCellAppend(cell) PROVE Adds(Len(page.slots), cell)
  <2> DEFINE r == AddCellAppendSlotEntry(page, cell)
  <2>1. r = IF NoRoomFor(page, cell) THEN Err("NoContigiousSpace", page)
            ELSE Ok(Added(page, Len(page.slots), cell))
    BY <1>1, <1>4, AddAppendMeaning
  <2>2. page' = r.page /\ res' = r.err
    BY <1>10 DEF AddCellAppend, Return
  <2>3. Len(page.slots) \in 0 .. Len(page.slots)
    BY <1>1
  <2> HIDE DEF r
  <2> QED
    BY <1>2, <1>3, <2>1, <2>2, <2>3, Zenon DEF Adds
<1>11. ASSUME NEW cell \in Cells, NEW idx \in 0 .. Len(page.slots) + 1, AddCellAt(idx, cell)
       PROVE  Adds(idx, cell)
  <2>1. idx \in Nat /\ (~(idx > Len(page.slots)) => idx \in 0 .. Len(page.slots))
    BY <1>1
  <2> DEFINE r == AddCellAtSlotEntryIndex(page, idx, cell)
  <2>2. r = IF NoRoomFor(page, cell) THEN Err("NoContigiousSpace", page)
            ELSE IF idx > Len(page.slots) THEN Err("SlotIndexNotInRange", page)
            ELSE Ok(Added(page, idx, cell))
    BY <1>1, <1>4, <2>1, AddAtMeaning
  <2>3. page' = r.page /\ res' = r.err
    BY <1>11 DEF AddCellAt, Return
  <2> HIDE DEF r
  <2> QED
    BY <1>2, <1>3, <2>1, <2>2, <2>3, Zenon DEF Adds
<1> QED
  BY <1>5, <1>6, <1>7, <1>8, <1>9, <1>10, <1>11, Zenon

(* A step either changes neither the layout of the page nor its cells,     *)
(* formats it, refuses a cell or adds one: the case split of the           *)
(* invariants.                                                             *)
LEMMA StepMeaning ==
  ASSUME Inv, Next
  PROVE  \/ Keeps
         \/ \E n : Formats(n)
         \/ page' = page /\ res' \in {"NoContigiousSpace", "SlotIndexNotInRange"}
         \/ \E cell \in Cells, idx \in 0 .. Len(page.slots) :
              /\ ~NoRoomFor(page, cell) /\ res' = "Ok" /\ page' = Added(page, idx, cell)
<1>1. Len(page.slots) \in Nat
  BY DEF Inv, TypeOK, Page
<1>2. ASSUME NEW cell \in Cells, NEW idx, Adds(idx, cell)
      PROVE  \/ page' = page /\ res' \in {"NoContigiousSpace", "SlotIndexNotInRange"}
             \/ \E i \in 0 .. Len(page.slots) :
                  /\ ~NoRoomFor(page, cell) /\ res' = "Ok" /\ page' = Added(page, i, cell)
  BY <1>2, Zenon DEF Adds
<1> QED
  BY <1>2, CallMeaning, Zenon DEF Next

(* The inductive step: the layout survives every operation.                *)
LEMMA InvStep == Inv /\ [Next]_vars => Inv'
<1> SUFFICES ASSUME Inv, [Next]_vars PROVE Inv'
  OBVIOUS
<1>1. CASE UNCHANGED vars
  BY <1>1 DEF Inv, TypeOK, LayoutOK, vars
<1>2. CASE Next
  <2>1. PageInv(page) /\ page \in Page
    BY DEF Inv, TypeOK, LayoutOK, PageInv
  <2>2. CASE Keeps
    <3>1. /\ page'.slots = page.slots /\ page'.free_start = page.free_start
          /\ page'.free_end = page.free_end /\ page'.special = page.special
      BY <2>1, <2>2 DEF Page, Keeps
    <3>2. Raw(page) => Raw(page')
      BY <3>1 DEF Raw
    <3>3. Formatted(page) => Formatted(page')
      BY <3>1, Zenon DEF Formatted, Limit
    <3> QED
      BY <2>2, <3>2, <3>3 DEF Inv, TypeOK, LayoutOK, Keeps
  <2>3. CASE \E n : Formats(n)
    BY <2>3 DEF Inv, TypeOK, LayoutOK, Formats
  <2>4. CASE page' = page /\ res' \in {"NoContigiousSpace", "SlotIndexNotInRange"}
    BY <2>4 DEF Inv, TypeOK, LayoutOK
  <2>5. ASSUME NEW cell \in Cells, NEW idx \in 0 .. Len(page.slots),
               ~NoRoomFor(page, cell), res' = "Ok", page' = Added(page, idx, cell)
        PROVE  Inv'
    <3>1. cell \in Cell
      BY ClientAssumption
    <3>2. page' \in Page /\ Formatted(page')
      BY <2>1, <2>5, <3>1, AddedKeepsLayout
    <3> QED
      BY <2>5, <3>2 DEF Inv, TypeOK, LayoutOK
  <2> QED
    BY <1>2, <2>2, <2>3, <2>4, <2>5, StepMeaning, Zenon
<1> QED
  BY <1>1, <1>2

(* The invariant holds from the first state on.                            *)
LEMMA PageInvariant == Spec => []Inv
<1>1. Init => Inv
  <2>1. ZeroPage \in Page
    BY PageSizeAssumption DEF ZeroPage, Page, Offset, Byte
  <2>2. Raw(ZeroPage)
    BY DEF Raw, ZeroPage
  <2> QED
    BY <2>1, <2>2 DEF Init, Inv, TypeOK, LayoutOK
<1> QED
  BY <1>1, InvStep, PTL DEF Spec

(* For every page size and every set of cells: header words, entries and   *)
(* bytes keep their widths, and add_cell returns no error but the two it   *)
(* means for its caller.                                                   *)
THEOREM TypeCorrect == Spec => []TypeOK
  BY PageInvariant, PTL DEF Inv

(* For every page size and every set of cells: the slot directory, the     *)
(* cells and the special area never overlap.                               *)
THEOREM LayoutSafe == Spec => []LayoutOK
  BY PageInvariant, PTL DEF Inv

(* A page with a cell more is still tiled by its cells: the new one fills  *)
(* the bytes free_end moved over, the others keep theirs.                  *)
LEMMA AddedKeepsTiling ==
  ASSUME NEW p, PageInv(p), Tiled(p), NEW cell \in Cell, ~NoRoomFor(p, cell),
         NEW idx \in 0 .. Len(p.slots)
  PROVE  Tiled(Added(p, idx, cell))
<1> DEFINE q     == Added(p, idx, cell)
           n     == Len(p.slots)
           start == p.free_end - Len(cell)
           mine  == start + 1 .. start + Len(cell)
<1>1. p \in Page /\ Formatted(p) /\ n \in Nat
  BY RoomMeansFormatted DEF PageInv, Page
<1>2. Len(cell) \in Nat /\ start \in Nat /\ p.free_end \in Nat /\ start + Len(cell) = p.free_end
  BY <1>1, RoomIsOnPage DEF Page, Offset
<1>3. /\ q.slots = ShiftIn(p.slots, idx, NewEntry(p, cell))
      /\ q.free_end = start /\ Limit(q) = Limit(p)
  BY <1>1 DEF Added, Page, Limit
<1>4. Len(q.slots) = n + 1
  BY <1>1, <1>3, RoomIsOnPage, ShiftInType DEF Page
<1>5. Limit(p) \in Nat /\ p.free_end <= Limit(p)
  BY <1>1, PageSizeAssumption DEF Formatted, Page, Limit, Offset
<1>6. /\ \A i \in 1 .. idx : i \in 1 .. n /\ i \in 1 .. n + 1 /\ q.slots[i] = p.slots[i]
      /\ idx + 1 \in 1 .. n + 1 /\ q.slots[idx + 1] = NewEntry(p, cell)
      /\ \A i \in idx + 1 .. n :
           i \in 1 .. n /\ i + 1 \in 1 .. n + 1 /\ q.slots[i + 1] = p.slots[i]
  BY <1>1, <1>3 DEF ShiftIn
<1>7. NewEntry(p, cell).offset = start /\ NewEntry(p, cell).length = Len(cell)
  BY DEF NewEntry
<1> HIDE DEF q, start
<1>8. ASSUME NEW k \in 1 .. PAGE_SIZE
      PROVE  InCell(q, k) <=> InCell(p, k) \/ k \in mine
  <2> DEFINE has(e) == k \in e.offset + 1 .. e.offset + e.length
  <2>1. has(NewEntry(p, cell)) <=> k \in mine
    BY <1>7
  <2>2. \A i \in 1 .. n : i \in 1 .. idx \/ i \in idx + 1 .. n
    BY <1>1
  <2>3. \A i \in 1 .. n + 1 : i \in 1 .. idx \/ i = idx + 1 \/ i - 1 \in idx + 1 .. n
    BY <1>1
  <2>4. \A i \in 1 .. n + 1 : (i - 1) + 1 = i
    BY <1>1
  <2>5. InCell(q, k) <=> \E i \in 1 .. n + 1 : has(q.slots[i])
    BY <1>4 DEF InCell
  <2>6. InCell(p, k) <=> \E i \in 1 .. n : has(p.slots[i])
    BY DEF InCell
  <2> HIDE DEF has, mine
  <2>7. ASSUME NEW i \in 1 .. n + 1, has(q.slots[i]) PROVE InCell(p, k) \/ k \in mine
    <3>1. CASE i \in 1 .. idx
      BY <1>6, <2>6, <2>7, <3>1, Zenon
    <3>2. CASE i = idx + 1
      BY <1>6, <2>1, <2>7, <3>2, Zenon
    <3>3. ASSUME NEW j \in idx + 1 .. n, j + 1 = i PROVE InCell(p, k)
      BY <1>6, <2>6, <2>7, <3>3, Zenon
    <3> QED
      BY <2>3, <2>4, <3>1, <3>2, <3>3, Zenon
  <2>8. ASSUME NEW i \in 1 .. n, has(p.slots[i]) PROVE InCell(q, k)
    BY <1>6, <2>2, <2>5, <2>8, Zenon
  <2> QED
    BY <1>6, <2>1, <2>5, <2>6, <2>7, <2>8, Zenon
<1>9. \A k \in 1 .. PAGE_SIZE :
        k \in start + 1 .. Limit(p) <=> k \in p.free_end + 1 .. Limit(p) \/ k \in mine
  BY <1>2, <1>5, PageSizeAssumption
<1> QED
  BY <1>3, <1>8, <1>9, Zenon DEF Tiled, q

(* For every page size and every set of cells: no byte between free_end    *)
(* and the end of the cell area is outside a cell, and no cell is outside. *)
THEOREM NothingIsLost == Spec => []NoByteLost
<1>1. Init => NoByteLost
  BY DEF Init, NoByteLost, Raw, ZeroPage
<1>2. Inv /\ NoByteLost /\ [Next]_vars => NoByteLost'
  <2> SUFFICES ASSUME Inv, NoByteLost, [Next]_vars PROVE NoByteLost'
    OBVIOUS
  <2>1. PageInv(page) /\ page \in Page
    BY DEF Inv, TypeOK, LayoutOK, PageInv
  <2>2. CASE page' = page
    BY <2>2 DEF NoByteLost
  <2>3. CASE Keeps
    <3>1. /\ page'.slots = page.slots /\ page'.free_start = page.free_start
          /\ page'.free_end = page.free_end /\ page'.special = page.special
      BY <2>1, <2>3 DEF Page, Keeps
    <3> QED
      BY <3>1, Zenon DEF NoByteLost, Raw, Tiled, InCell, Limit
  <2>4. CASE \E n : Formats(n)
    <3>0. page' \in Page /\ page'.slots = <<>> /\ page'.free_end = Limit(page')
      BY <2>4 DEF Formats
    <3>1. ~(\E k : InCell(page', k))
      BY <3>0 DEF InCell
    <3>2. \A k \in 1 .. PAGE_SIZE : ~(k \in page'.free_end + 1 .. Limit(page'))
      BY <3>0, PageSizeAssumption DEF Page, Offset
    <3> QED
      BY <3>1, <3>2, Zenon DEF NoByteLost, Tiled
  <2>5. ASSUME NEW cell \in Cells, NEW idx \in 0 .. Len(page.slots),
               ~NoRoomFor(page, cell), page' = Added(page, idx, cell)
        PROVE  NoByteLost'
    <3>1. cell \in Cell
      BY ClientAssumption
    <3>2. ~Raw(page)
      BY <2>5, <3>1 DEF Raw, NoRoomFor, ENTRY_SIZE, Cell
    <3>3. Tiled(page')
      BY <2>1, <2>5, <3>1, <3>2, AddedKeepsTiling DEF NoByteLost
    <3> QED
      BY <3>3 DEF NoByteLost
  <2> QED
    BY <2>2, <2>3, <2>4, <2>5, StepMeaning, Zenon DEF vars
<1> QED
  BY <1>1, <1>2, PageInvariant, PTL DEF Spec

(* For every page size and every set of cells: an operation that fails has *)
(* left the page as it was.                                                *)
THEOREM FailureIsAtomic == Spec => FailureAtomic
<1>1. Inv /\ [Next]_vars => [res' # "Ok" => page' = page]_vars
  BY StepMeaning DEF vars, Keeps, Formats
<1> QED
  BY <1>1, PageInvariant, PTL DEF Spec, FailureAtomic

(* For every page size and every set of cells: a slot id is readable       *)
(* exactly when it is in the directory, and with a special area on the     *)
(* page the two ways to read a cell give the same bytes.                   *)
THEOREM ReadersAlwaysAgree == Spec => []ReadersAgree
<1>1. Inv => ReadersAgree
  <2> SUFFICES ASSUME page \in Page, Formatted(page) PROVE ReadersAgree
    BY DEF Inv, TypeOK, ReadersAgree
  <2> DEFINE n == Len(page.slots)
  <2>1. n \in Nat /\ SlotCount(page) = n /\ DOMAIN page.slots = 1 .. n
    BY SlotCountIsLen DEF Page
  <2>2. ~(page.free_start < HEADER_SIZE)
    BY <2>1 DEF Formatted, HEADER_SIZE, ENTRY_SIZE
  <2>3. ASSUME NEW i \in 1 .. n
        PROVE  /\ ~(page.slots[i].offset + page.slots[i].length > PAGE_SIZE)
               /\ page.special # 0 => page.slots[i].offset + page.slots[i].length < PAGE_SIZE
    <3> DEFINE o == page.slots[i].offset
               l == page.slots[i].length
    <3>1. page.slots[i] \in SlotEntry
      BY DEF Page
    <3>2. o \in Nat /\ l \in Nat
      BY <3>1 DEF SlotEntry, Offset
    <3>3. o + l <= Limit(page)
      BY DEF Formatted
    <3>4. /\ Limit(page) \in Nat /\ Limit(page) <= PAGE_SIZE
          /\ page.special # 0 => Limit(page) < PAGE_SIZE
      BY PageSizeAssumption DEF Limit, Page, Offset, Formatted, INDEX_SPECIAL_SIZE
    <3> HIDE DEF o, l
    <3>5. ~(o + l > PAGE_SIZE) /\ (page.special # 0 => o + l < PAGE_SIZE)
      BY <3>2, <3>3, <3>4, PageSizeAssumption
    <3> QED
      BY <3>5 DEF o, l
  <2>4. ASSUME NEW i \in 1 .. n
        PROVE  CellSliceFromId(page, i - 1)
                 = [err |-> "Ok", cell |-> Slice(page, page.slots[i])]
    <3>1. (i - 1) + 1 = i /\ ~(i - 1 >= n) /\ n # 0
      BY <2>1
    <3> QED
      BY <2>1, <2>2, <2>3, <3>1, Zenon DEF CellSliceFromId
  <2>5. ASSUME NEW id \in 0 .. n + 1
        PROVE  (CellSliceFromId(page, id).err = "Ok") <=> (id < n)
    <3>1. CASE id < n
      <4>1. id + 1 \in 1 .. n /\ (id + 1) - 1 = id
        BY <2>1, <3>1
      <4>2. CellSliceFromId(page, id)
              = [err |-> "Ok", cell |-> Slice(page, page.slots[id + 1])]
        BY <2>4, <4>1, Zenon
      <4> QED
        BY <3>1, <4>2
    <3>2. CASE ~(id < n)
      <4>1. id >= n
        BY <2>1, <3>2
      <4>2. CellSliceFromId(page, id) \in {CellErr("EmptySlotDir"), CellErr("SlotIDOutOfBounds")}
        BY <2>1, <2>2, <4>1, Zenon DEF CellSliceFromId
      <4> QED
        BY <3>2, <4>2 DEF CellErr
    <3> QED
      BY <3>1, <3>2
  <2>6. ASSUME NEW i \in 1 .. n, page.special # 0
        PROVE  CellSliceFromEntry(page, page.slots[i]) = CellSliceFromId(page, i - 1)
    BY <2>3, <2>4, <2>6, Zenon DEF CellSliceFromEntry
  <2> QED
    BY <2>1, <2>5, <2>6, Zenon DEF ReadersAgree
<1> QED
  BY <1>1, PageInvariant, PTL

-----------------------------------------------------------------------------
(* The refinement of CellList.                                             *)

(* A call that keeps the cells, or formats the page.                       *)
LEMMA OtherCalls ==
  ASSUME Inv
  PROVE  /\ Keeps => List!Other
         /\ \A n : Formats(n) => List!Clear(n)
<1>1. page \in Page
  BY DEF Inv, TypeOK
<1>2. ASSUME Keeps PROVE List!Other
  <2>1. /\ page'.slots = page.slots /\ page'.bytes = page.bytes
        /\ page'.free_start = page.free_start /\ page'.free_end = page.free_end
    BY <1>1, <1>2 DEF Page, Keeps
  <2>2. CellsOf(page') = CellsOf(page)
    BY <2>1, Zenon DEF CellsOf, Slice
  <2> QED
    BY <1>2, <2>1, <2>2 DEF Keeps, List!Other
<1>3. ASSUME NEW n, Formats(n) PROVE List!Clear(n)
  <2>1. CellsOf(page') = <<>>
    BY <1>3 DEF CellsOf, Formats
  <2> QED
    BY <1>3, <2>1 DEF Formats, List!Clear
<1> QED
  BY <1>2, <1>3

(* A call that adds a cell: refused for want of room, refused for its      *)
(* index, or done, exactly when CellList says so.                          *)
LEMMA AddCalls ==
  ASSUME Inv, NEW cell \in Cells, NEW idx \in Nat, Adds(idx, cell)
  PROVE  List!AddAt(idx, cell)
<1>1. PageInv(page) /\ page \in Page /\ Len(page.slots) \in Nat /\ cell \in Cell
  BY ClientAssumption DEF Inv, TypeOK, LayoutOK, PageInv, Page
<1>2. List!Fits(cell) <=> ~NoRoomFor(page, cell)
  BY <1>1, SMTT(30) DEF List!Fits, NoRoomFor, ENTRY_SIZE, Cell, Page, Offset
<1>3. CASE NoRoomFor(page, cell) /\ page' = page /\ res' = "NoContigiousSpace"
  BY <1>2, <1>3 DEF List!AddAt, List!Full
<1>4. CASE /\ ~NoRoomFor(page, cell) /\ idx > Len(page.slots)
           /\ page' = page /\ res' = "SlotIndexNotInRange"
  <2>1. Len(CellsOf(page)) = Len(page.slots)
    BY <1>1, <1>4, RoomMeansFormatted, CellsType
  <2> QED
    BY <1>2, <1>4, <2>1 DEF List!AddAt, List!OutOfRange
<1>5. CASE /\ ~NoRoomFor(page, cell) /\ idx \in 0 .. Len(page.slots)
           /\ res' = "Ok" /\ page' = Added(page, idx, cell)
  <2>1. /\ Len(CellsOf(page)) = Len(page.slots)
        /\ CellsOf(page') = SubSeq(CellsOf(page), 1, idx) \o <<cell>>
                             \o SubSeq(CellsOf(page), idx + 1, Len(CellsOf(page)))
    BY <1>1, <1>5, AddedCells, Zenon
  <2>2. /\ page'.free_start = page.free_start + ENTRY_SIZE
        /\ page'.free_end = page.free_end - Len(cell)
    BY <1>1, <1>5 DEF Added, Page
  <2>3. page'.free_end - page'.free_start
          = (page.free_end - page.free_start) - (Len(cell) + ENTRY_SIZE)
    BY <1>1, <2>2, SMTT(30) DEF ENTRY_SIZE, Cell, Page, Offset
  <2>4. idx <= Len(CellsOf(page))
    BY <1>1, <1>5, <2>1, SMTT(30)
  <2> QED
    BY <1>2, <1>5, <2>1, <2>3, <2>4, Zenon DEF List!AddAt, List!Insert
<1> QED
  BY <1>3, <1>4, <1>5, Zenon DEF Adds

(* Every call is the CellList call of the same arguments.                  *)
LEMMA CallsMatchList == Inv => CallsMatch
<1> SUFFICES ASSUME Inv PROVE CallsMatch
  OBVIOUS
<1>1. Len(page.slots) \in Nat
  BY DEF Inv, TypeOK, Page
<1>2. \A n \in 0 .. Len(page.slots) + 1 : n \in Nat
  BY <1>1
<1>3. ASSUME NEW cell \in Cells, AddCellAppend(cell) PROVE List!AddLast(cell)
  <2>1. Adds(Len(page.slots), cell)
    BY <1>3, CallMeaning
  <2>2. Len(CellsOf(page)) = Len(page.slots)
    BY <1>1 DEF CellsOf
  <2> QED
    BY <1>1, <2>1, <2>2, AddCalls, SMTT(30) DEF List!AddLast
<1>4. ASSUME NEW cell \in Cells, NEW idx \in 0 .. Len(page.slots) + 1, AddCellAt(idx, cell)
      PROVE  List!AddAt(idx, cell)
  BY <1>2, <1>4, CallMeaning, AddCalls, SMTT(30)
<1> QED
  BY <1>3, <1>4, CallMeaning, OtherCalls, Zenon DEF CallsMatch

(* For every page size and every set of cells the page is the list of      *)
(* cells of CellList: a call does exactly what the list prescribes for its *)
(* cell and its index, and is refused exactly when the list refuses it.    *)
THEOREM PageImplementsCellList == Spec => ImplementsCellList
<1>1. Init => List!CLInit
  BY DEF Init, List!CLInit, ZeroPage, CellsOf
<1>2. Inv /\ [Next]_vars => [CallsMatch]_vars
  BY CallsMatchList
<1>3. Inv /\ [Next]_vars => [List!CLNext]_<<CellsOf(page), page.free_end - page.free_start, res>>
  <2> SUFFICES ASSUME Inv, [Next]_vars
               PROVE  \/ List!CLNext
                      \/ UNCHANGED <<CellsOf(page), page.free_end - page.free_start, res>>
    OBVIOUS
  <2>1. CASE UNCHANGED vars
    BY <2>1 DEF vars, CellsOf, Slice
  <2>2. CASE Next
    <3>1. CallsMatch
      BY CallsMatchList
    <3>2. Len(CellsOf(page)) = Len(page.slots)
      <4>1. Len(page.slots) \in Nat
        BY DEF Inv, TypeOK, Page
      <4> QED
        BY <4>1 DEF CellsOf
    <3>3. PAGE_SIZE - HEADER_SIZE \in Rooms /\ PAGE_SIZE - HEADER_SIZE - INDEX_SPECIAL_SIZE \in Rooms
      BY DEF Rooms
    <3> QED
      BY <2>2, <3>1, <3>2, <3>3, ZenonT(30) DEF CallsMatch, Next, List!CLNext
  <2> QED
    BY <2>1, <2>2
<1> QED
  BY <1>1, <1>2, <1>3, PageInvariant, PTL DEF Spec, ImplementsCellList, List!CLSpec
=============================================================================
