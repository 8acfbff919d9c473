----------------------------- MODULE MCPageLookup -----------------------------
(***************************************************************************)
(* An instance of PageLookup for TLC.  A u64 that holds the offsets of     *)
(* four pages: the offset of page 5 is that of page 1.                     *)
(***************************************************************************)
EXTENDS PageLookup

MCPageIDs == {1, 5}
=============================================================================
