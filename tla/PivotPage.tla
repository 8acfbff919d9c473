------------------------------- MODULE PivotPage -------------------------------
(***************************************************************************)
(* What an index page promises the tree above it: a kind, a level, the id  *)
(* of its right sibling, an ordered list of (key, child) entries, and room *)
(* that is counted, so that every refusal has its reason.                  *)
(***************************************************************************)
EXTENDS Integers, Sequences

CONSTANTS Entries,    \* the (key, ptr) records
          Siblings,   \* ids a right sibling may have; 0 stands for none
          Kinds,      \* page kinds
          Levels,     \* index levels asked for
          MaxLevel,   \* the highest level a page can have
          MaxKey,     \* length of the longest key that is not rejected at once
          BareRoom,   \* room on a fresh page without a place for a sibling
          LinkedRoom, \* room on a fresh page with one
          Overhead    \* room an entry takes besides its key

VARIABLES kind, level, sibling, entries,
          linkable,   \* the page has a place for the id of a sibling
          room,       \* what is left for entries
          outcome     \* result of the last operation

PPInit ==
  /\ kind = "Undefined" /\ level = 0 /\ sibling = 0 /\ entries = <<>>
  /\ linkable = FALSE /\ room = 0 /\ outcome = "Ok"

(* The two ways to format a page: as a bare slotted page, whose kind is    *)
(* set later, and as an index page with a place for the sibling.           *)
Format(k, link) ==
  /\ kind' = k /\ level' = 0 /\ sibling' = 0 /\ entries' = <<>>
  /\ linkable' = link /\ room' = (IF link THEN LinkedRoom ELSE BareRoom)
  /\ outcome' = "Ok"

(* Changing the kind of a page takes it back to level 0.                   *)
SetKind(k) ==
  /\ kind' = k /\ level' = 0 /\ outcome' = "Ok"
  /\ UNCHANGED <<sibling, entries, linkable, room>>

(* Of a level that has not been checked only the low bits are kept.        *)
SetLevelTo(l) ==
  /\ level' = l % (MaxLevel + 1)
  /\ outcome' = "Ok" /\ UNCHANGED <<kind, sibling, entries, linkable, room>>

(* A page that has no place for it drops the link without a word.          *)
LinkTo(id) ==
  /\ sibling' = IF linkable THEN id ELSE 0
  /\ outcome' = "Ok" /\ UNCHANGED <<kind, level, entries, linkable, room>>

Cost(e) == Overhead + Len(e.key)

Insert(i, e) ==
  /\ Len(e.key) <= MaxKey /\ Cost(e) <= room /\ i <= Len(entries)
  /\ entries' = SubSeq(entries, 1, i) \o <<e>> \o SubSeq(entries, i + 1, Len(entries))
  /\ room' = room - Cost(e)
  /\ outcome' = "Ok" /\ UNCHANGED <<kind, level, sibling, linkable>>

(* A refusal changes nothing.                                              *)
Refuse(error) == outcome' = error /\ UNCHANGED <<kind, level, sibling, entries, linkable, room>>

TooLong(e) == Len(e.key) > MaxKey /\ Refuse("Panic")

(* A key may be short enough in general and too long for this page, for an *)
(* empty one with a place for a sibling too.                               *)
Full(e) == Len(e.key) <= MaxKey /\ Cost(e) > room /\ Refuse("NoContigiousSpace")

OutOfRange(i, e) ==
  /\ Len(e.key) <= MaxKey /\ Cost(e) <= room /\ i > Len(entries)
  /\ Refuse("SlotIndexNotInRange")

(* The call that adds an entry at a position: exactly one of the four      *)
(* applies, whatever the entry, the position and the page.                 *)
AddAt(i, e) == Insert(i, e) \/ TooLong(e) \/ Full(e) \/ OutOfRange(i, e)

AddLast(e) == AddAt(Len(entries), e)

(* Checking a level refuses exactly those beyond the highest.              *)
CheckLevel(l) == l > MaxLevel /\ Refuse("Panic")

PPNext ==
  \/ Format("Undefined", FALSE) \/ Format("IndexInternal", TRUE)
  \/ \E k \in Kinds : SetKind(k)
  \/ \E l \in Levels : SetLevelTo(l) \/ CheckLevel(l)
  \/ \E id \in Siblings : LinkTo(id)
  \/ \E e \in Entries : AddLast(e) \/ \E i \in 0 .. Len(entries) + 1 : AddAt(i, e)

PPSpec == PPInit /\ [][PPNext]_<<kind, level, sibling, entries, linkable, room, outcome>>
=============================================================================
