--------------------------- MODULE MCSlottedPageOps ---------------------------
(***************************************************************************)
(* SlottedPageOps on a page of a few dozen bytes: an empty cell, a cell of *)
(* one byte and one longer than a slot entry.                              *)
(***************************************************************************)
EXTENDS SlottedPageOps

MCCells == {<<>>, <<1>>, <<2, 3, 4, 5, 6>>}

(* A page without its type, flags and lsn, on which no call depends, and   *)
(* without the bytes that no reader reaches: what earlier cells and earlier*)
(* uses of the page left between its directory and its cells.              *)
Visible ==
  <<[page EXCEPT !.page_type = 0, !.flags = 0, !.lsn = 0, !.bytes = [k \in 1 .. PAGE_SIZE |->
       IF k > page.free_end /\ page.free_end > 0 THEN @[k] ELSE 0]], res>>
=============================================================================
