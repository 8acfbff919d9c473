----------------------------- MODULE PageIdentity -----------------------------
(***************************************************************************)
(* Page ids and where their pages lie on disk (src/page/mod.rs).           *)
(***************************************************************************)
EXTENDS Naturals

CONSTANTS PageIDs,
          PAGE_SIZE,
          U64         \* how many values a u64 has: 2^64 in the code

ASSUME IdentityAssumption ==
  PageIDs \subseteq Nat /\ PageIDs # {} /\ PAGE_SIZE \in Nat \ {0} /\ U64 \in Nat \ {0}

\* Mutant: the first page is page 1.
ToOffsetFromOne(id) == ((id - 1) * PAGE_SIZE) % U64

\* The product wraps around in a release build ...
ToOffset(id) == (id * PAGE_SIZE) % U64

\* ... and panics in a debug build, unless it fits.
Fits(id) == id * PAGE_SIZE < U64
=============================================================================
