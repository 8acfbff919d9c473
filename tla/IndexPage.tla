------------------------------- MODULE IndexPage -------------------------------
(***************************************************************************)
(* One index page and a client that calls the operations of IndexPageMut   *)
(* (src/page/internal_page.rs) on it in any order.                         *)
(***************************************************************************)
EXTENDS IndexLayout

CONSTANTS Pivots,     \* keys, sequences of bytes, and child ids that are added
          Probes,     \* keys that are searched for
          Siblings,   \* page ids set as right sibling, 0 for none
          Kinds,      \* page kinds a caller sets
          Levels      \* levels a caller sets

ASSUME IndexAssumption ==
  /\ Pivots \subseteq [key : Seq(Byte), ptr : {id \in Nat : FitsU64(id)}]
  /\ Probes \subseteq Seq(Byte) /\ Siblings \subseteq {id \in Nat : FitsU64(id)}
  /\ Kinds \subseteq PageKind /\ Levels \subseteq Nat

VARIABLES page,       \* the page
          res         \* "Ok" or the error of the last operation

vars == <<page, res>>

-----------------------------------------------------------------------------
(* The operations of IndexPageMut.                                         *)

Init == page = ZeroPage /\ res = "Ok"

Return(r) == page' = r.page /\ res' = r.err

(* A page built with init_new and interpreted as an index page afterwards, *)
(* as the test of page_frame.rs does it.  The page has no special area:    *)
(* see InitNewPage in SlottedPageOps.                                      *)
InitBare == page.special = 0 /\ Return(Ok(InitNew(page, KindToU8["Undefined"])))

InitInPlace(lsn) == Return(InitIndexPage(lsn))

(* The kind replaces the whole byte: the level in its high bits is lost.   *)
SetKindTo(kind) == Return(Ok(SetPageType(page, KindToU8[kind])))

(* IndexLevel::new asserts that the level fits its four bits.              *)
NewLevelPanics(level) == level > 15 /\ Return(Err("Panic", page))

(* An IndexLevel need not come from new, its field is public: set_level    *)
(* checks nothing, and the setter of the subtype masks the level.          *)
SetLevel(level) == Return(Ok(SetPageType(page, WithSubType(page.page_type, level))))

SetRightSibling(id) == Return(Ok(WithRightSibling(page, id)))

AddCellAppend(key, ptr) ==
  Return(IF CellAccepted(key) THEN AddCellAppendSlotEntry(page, IndexCellOwned(key, ptr))
                              ELSE Err("Panic", page))

AddCellAt(idx, key, ptr) ==
  Return(IF CellAccepted(key) THEN AddCellAtSlotEntryIndex(page, idx, IndexCellOwned(key, ptr))
                              ELSE Err("Panic", page))

(* Any calls in any order.                                                 *)
Next ==
  \/ InitBare \/ InitInPlace(0)
  \/ \E kind \in Kinds : SetKindTo(kind)
  \/ \E level \in Levels : NewLevelPanics(level) \/ SetLevel(level)
  \/ \E id \in Siblings : SetRightSibling(id)
  \/ \E e \in Pivots :
       \/ AddCellAppend(e.key, e.ptr)
       \/ \E idx \in 0 .. Len(page.slots) + 1 : AddCellAt(idx, e.key, e.ptr)

Spec == Init /\ [][Next]_vars

-----------------------------------------------------------------------------
(* Properties.                                                             *)

(* Every reachable page is a page, laid out soundly, and its special area  *)
(* is untouched by cells: what the wrapper calls keeps the layout of       *)
(* slotted_page.rs.                                                        *)
TypeOK ==
  /\ page \in Page
  /\ Raw(page) \/ Formatted(page)
  /\ res \in {"Ok", "NoContigiousSpace", "SlotIndexNotInRange", "Panic"}

Pivot == INSTANCE PivotPage WITH
  kind <- KindOf(page.page_type), level <- SubTypeOf(page.page_type),
  sibling <- RightSibling(page), entries <- EntriesOf(page),
  linkable <- HasSpecial(page), room <- page.free_end - page.free_start,
  outcome <- res, Entries <- Pivots, MaxLevel <- 15,
  MaxKey <- MAX_INDEX_CELL_SIZE - KEY_DATA_OFFSET - 1,
  BareRoom <- PAGE_SIZE - HEADER_SIZE,
  LinkedRoom <- PAGE_SIZE - HEADER_SIZE - INDEX_SPECIAL_SIZE,
  Overhead <- KEY_DATA_OFFSET + ENTRY_SIZE

(* A call is the PivotPage call of the same arguments.                     *)
AddsMatch(e) ==
  /\ AddCellAppend(e.key, e.ptr) => Pivot!AddLast(e)
  /\ \A idx \in 0 .. Len(page.slots) + 1 : AddCellAt(idx, e.key, e.ptr) => Pivot!AddAt(idx, e)

CallsMatch ==
  /\ InitBare => Pivot!Format("Undefined", FALSE)
  /\ InitInPlace(0) => Pivot!Format("IndexInternal", TRUE)
  /\ \A kind \in Kinds : SetKindTo(kind) => Pivot!SetKind(kind)
  /\ \A level \in Levels : /\ NewLevelPanics(level) => Pivot!CheckLevel(level)
                           /\ SetLevel(level) => Pivot!SetLevelTo(level)
  /\ \A id \in Siblings : SetRightSibling(id) => Pivot!LinkTo(id)
  /\ \A e \in Pivots : AddsMatch(e)

(* The kind, level, right sibling, keys and child ids read back from the   *)
(* bytes of the page are those written, through every mixture of calls: an *)
(* added cell never touches the sibling, a sibling never touches a cell,   *)
(* a level never changes the kind.  A call is refused exactly when its own *)
(* arguments give the reason, and only for the first that applies: a level *)
(* that IndexLevel::new rejects, a key beyond MAX_INDEX_CELL_SIZE, a cell  *)
(* that does not fit what is left, which for a key just within that limit  *)
(* is every page with a special area, or a slot beyond the directory       *)
(* (internal_page.rs:38-150, mod.rs:296-299).                              *)
ImplementsPivotPage == Pivot!PPSpec /\ [][CallsMatch]_vars

(* On every page with a special area whose entries are in order, however   *)
(* it came about, find_child_ptr sends a key to the right sibling exactly  *)
(* when it lies above the high key, and else to the child of the least     *)
(* pivot above it; it finds nothing exactly when no pivot is above it, and *)
(* never panics (internal_page.rs:168-191).  Nothing is said of a bare     *)
(* page: there a debug build panics at the cell that ends with the page    *)
(* (EntryHasCell of SlottedPageOps).                                       *)
FindRoutes ==
  Searchable(page) => \A key \in Probes :
    LET pivots  == {PivotsOf(page)[i] : i \in DOMAIN PivotsOf(page)}
        above   == {e \in pivots : KeyLess(key, e.key)}
        least   == {e \in above : \A f \in above : ~KeyLess(f.key, e.key)}
        beyond  == RightSibling(page) # 0 /\ KeyLess(EntriesOf(page)[1].key, key)
        found   == FindChildPtr(page, key)
    IN  /\ beyond => found = Found(RightSibling(page))
        /\ ~beyond /\ above = {} => found = NotFound
        /\ ~beyond /\ above # {} => {Found(e.ptr) : e \in least} = {found}

(* A slot where a key belongs: behind the high key, above the entry before *)
(* it and below the entry after it.  A caller has looked at no other.      *)
Belongs(p, idx, key) ==
  LET E     == EntriesOf(p)
      first == IF RightSibling(p) = 0 THEN 0 ELSE 1
  IN  /\ idx >= first
      /\ idx > first => KeyLess(E[idx].key, key)
      /\ idx < Len(E) => KeyLess(key, E[idx + 1].key)

(* A pivot added where it belongs keeps the whole page in the order that   *)
(* find_child_ptr walks in: the shift of the slot entries behind it        *)
(* (slotted_page.rs:271-319) and the copy of its cell disturb no other     *)
(* pivot (internal_page.rs:134-150).                                       *)
OrderKept ==
  [][Searchable(page) => \A e \in Pivots : \A idx \in 0 .. Len(page.slots) :
       /\ Belongs(page, idx, e.key)
       /\ \/ AddCellAt(idx, e.key, e.ptr)
          \/ idx = Len(page.slots) /\ AddCellAppend(e.key, e.ptr)
       => Searchable(page')]_vars
=============================================================================
