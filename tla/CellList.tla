------------------------------- MODULE CellList -------------------------------
(***************************************************************************)
(* What a slotted page promises its callers: an ordered list of cells and  *)
(* a number of free bytes.  A cell costs its own bytes and an Overhead (a  *)
(* slot entry); it goes in exactly when it fits and its index is in range. *)
(***************************************************************************)
EXTENDS Integers, Sequences

CONSTANTS Cells,      \* the set of cells
          Overhead,   \* bytes a cell costs beyond its own
          Capacities  \* room a page may have when it is formatted

VARIABLES list,       \* the cells, in slot order
          room,       \* free bytes
          outcome     \* result of the last operation

CLInit == list = <<>> /\ room = 0 /\ outcome = "Ok"

(* The page is formatted anew, with n bytes for cells and their overhead.  *)
Clear(n) == list' = <<>> /\ room' = n /\ outcome' = "Ok"

Fits(cell) == Len(cell) + Overhead <= room

(* The cell goes in before position i of the list, counted from 0.         *)
Insert(i, cell) ==
  /\ Fits(cell) /\ i <= Len(list)
  /\ list' = SubSeq(list, 1, i) \o <<cell>> \o SubSeq(list, i + 1, Len(list))
  /\ room' = room - (Len(cell) + Overhead)
  /\ outcome' = "Ok"

Full(cell) ==
  /\ ~Fits(cell)
  /\ outcome' = "NoContigiousSpace"
  /\ UNCHANGED <<list, room>>

OutOfRange(i, cell) ==
  /\ Fits(cell) /\ i > Len(list)
  /\ outcome' = "SlotIndexNotInRange"
  /\ UNCHANGED <<list, room>>

(* An operation that does not touch the cells.                             *)
Other == outcome' = "Ok" /\ UNCHANGED <<list, room>>

(* The call that adds a cell at a position: exactly one of the three       *)
(* applies, whatever the cell, the position and the page.                  *)
AddAt(i, cell) == Insert(i, cell) \/ Full(cell) \/ OutOfRange(i, cell)

AddLast(cell) == AddAt(Len(list), cell)

CLNext ==
  \/ \E n \in Capacities : Clear(n)
  \/ \E cell \in Cells : AddLast(cell) \/ \E i \in 0 .. Len(list) + 1 : AddAt(i, cell)
  \/ Other

CLSpec == CLInit /\ [][CLNext]_<<list, room, outcome>>
=============================================================================
