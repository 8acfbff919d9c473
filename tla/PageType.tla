------------------------------- MODULE PageType -------------------------------
(***************************************************************************)
(* The page_type and flags bytes of a page header (src/page/mod.rs).       *)
(* page_type: kind in bits 0..3, subtype in bits 4..7; a nibble is taken   *)
(* out of the byte with % and \div.  flags: one bit for each page state.   *)
(***************************************************************************)
EXTENDS Integers

Nibble == 0 .. 15

PageKind == {"Heap", "IndexInternal", "IndexMiniLeaf", "IndexLeaf", "Meta",
             "Free", "Undefined"}

(* u8::from(kind).                                                         *)
KindToU8 == [Heap |-> 1, IndexInternal |-> 2, IndexMiniLeaf |-> 3,
             IndexLeaf |-> 4, Meta |-> 5, Free |-> 6, Undefined |-> 0]

(* PageKind::from_u8, with page_kind's default for a nibble that is none.  *)
KindFromU8(n) ==
  IF \E k \in PageKind : KindToU8[k] = n
  THEN CHOOSE k \in PageKind : KindToU8[k] = n
  ELSE "Undefined"

UsesSlottedPageLayout(kind) == kind \in {"IndexInternal", "IndexMiniLeaf", "IndexLeaf"}

(* PageType.                                                               *)

(* Mutant of WithPageType: an unmasked argument spills into the subtype.   *)
SpillPageType(raw, pt) == ((raw - (raw % 16)) + pt) % 256

NewPageType(pt, pst)        == (pt % 16) + 16 * (pst % 16)
KindOf(raw)                 == KindFromU8(raw % 16)
SubTypeOf(raw)              == raw \div 16
WithPageType(raw, pt)       == (raw - (raw % 16)) + (pt % 16)
WithSubType(raw, pst)       == (raw % 16) + 16 * (pst % 16)

-----------------------------------------------------------------------------
(* PageFlags.                                                              *)

PageStates == {"NoState", "FastParent", "Deleted", "HalfDeleted",
               "IncompleteSplit", "HasOverflow"}

Bit == [NoState |-> 0, FastParent |-> 1, Deleted |-> 2, HalfDeleted |-> 4,
        IncompleteSplit |-> 8, HasOverflow |-> 16]

HasFlag(flags, pf)   == Bit[pf] # 0 /\ (flags \div Bit[pf]) % 2 = 1

(* Mutant of SetFlag: `=` for `|=`.                                        *)
AssignFlag(flags, pf) == Bit[pf]

SetFlag(flags, pf)   == IF HasFlag(flags, pf) THEN flags ELSE flags + Bit[pf]
ClearFlag(flags, pf) == IF HasFlag(flags, pf) THEN flags - Bit[pf] ELSE flags

(* The states extract_all_flags pushes, without their order: Deleted is    *)
(* what it pushes for HalfDeleted.                                         *)
ExtractAllFlags(flags) ==
  {pf \in PageStates \ {"HalfDeleted"} : HasFlag(flags, pf)}
    \cup (IF HasFlag(flags, "HalfDeleted") THEN {"Deleted"} ELSE {})
=============================================================================
