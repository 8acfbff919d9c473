-------------------------- MODULE MCPageTableLatch --------------------------
(***************************************************************************)
(* Instances of PageTableLatch for TLC.  The cell holds a PageTableResult: *)
(* a tag word and an address word.  Two work closures that both ran would  *)
(* put the page into two different frames.                                 *)
(***************************************************************************)
EXTENDS PageTableLatch, TLC

PageTableResult(tag, addr) ==
  [w \in {"tag", "addr"} |-> IF w = "tag" THEN tag ELSE addr]

MCWords == {"tag", "addr"}
MCWordValue == {"Disk", "Memory", "offset", "frame1", "frame2"}
MCInitial == PageTableResult("Disk", "offset")
MCLoaded ==
  {PageTableResult("Memory", "frame1"), PageTableResult("Memory", "frame2")}

ThreadSymmetry == Permutations(Threads)
=============================================================================
