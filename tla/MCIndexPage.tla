----------------------------- MODULE MCIndexPage -----------------------------
(***************************************************************************)
(* An instance of IndexPage for TLC.  One key is a prefix of another, the  *)
(* third sorts below both, and one page id needs two bytes.  The fourth key*)
(* is the shortest that IndexCellOwned::new rejects; the last is one byte  *)
(* shorter, and fits no page that has a special area.                      *)
(***************************************************************************)
EXTENDS IndexPage

MCTooLong == [i \in 1 .. MAX_INDEX_CELL_SIZE - KEY_DATA_OFFSET |-> 1]

MCLongest == Tail(MCTooLong)

MCPivots == {[key |-> <<1, 1, 1, 1>>, ptr |-> 300], [key |-> <<1, 1, 1, 1, 0>>, ptr |-> 5],
             [key |-> <<0, 2, 2, 2>>, ptr |-> 7],
             [key |-> MCTooLong, ptr |-> 5], [key |-> MCLongest, ptr |-> 5]}

(* Below, between, equal to and above the keys of cells.                   *)
MCProbes == {<<>>, <<0, 9>>, <<1, 1, 1, 1>>, <<1, 1, 1, 1, 0>>, <<1, 1, 1, 1, 0, 0>>, <<2>>}

(* A page without the bytes that no reader reaches: what earlier cells and *)
(* earlier uses of the page left between its directory and its cells.      *)
Visible ==
  <<[page EXCEPT !.bytes = [k \in 1 .. PAGE_SIZE |->
       IF k > page.free_end /\ page.free_end > 0 THEN @[k] ELSE 0]], res>>
=============================================================================
