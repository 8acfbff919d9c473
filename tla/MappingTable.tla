----------------------------- MODULE MappingTable -----------------------------
(***************************************************************************)
(* What the mapping table promises (src/buffer/page_table.rs): a map from  *)
(* page ids to shared entries, each of which is filled at most once.  A    *)
(* thread gets the handle of an entry under the lock of the map, and loads *)
(* through it after the lock is gone.                                      *)
(*                                                                         *)
(* The latch of an entry is a write-once cell here; PageLookup has the     *)
(* protocol of the latch in its place, and implements this specification.  *)
(***************************************************************************)
EXTENDS PageIdentity

CONSTANTS Threads,
          Handles,    \* the entries an Arc can point to
          Frames,     \* addresses of page frames
          None        \* neither a handle nor a frame

VARIABLES map,        \* NaiveMappingTable.map
          entries,    \* the entries that exist
          pc,         \* where each thread is
          want,       \* the page id it asked for
          held,       \* its handle
          got         \* what its last load made of the id: a frame

mtVars == <<map, entries, pc, want, held, got>>

\* A PageTableEntry: its latch is on disk until one load has filled it.  The
\* code does not keep the id it was made for.
NewEntry(id) == [id |-> id, disk |-> ToOffset(id), memory |-> None, load |-> "never"]

Created == DOMAIN entries

MTInit ==
  /\ map = [id \in PageIDs |-> None]
  /\ entries = [h \in {} |-> NewEntry(0)]
  /\ pc = [t \in Threads |-> "idle"]
  /\ want = [t \in Threads |-> None]
  /\ held = [t \in Threads |-> None]
  /\ got = [t \in Threads |-> None]

With(f, x, v) == [y \in DOMAIN f \cup {x} |-> IF y = x THEN v ELSE f[y]]

\* The thread holds the handle h, under which it knows the page id.
Take(t, id, h) ==
  /\ want' = [want EXCEPT ![t] = IF h = None THEN None ELSE id]
  /\ held' = [held EXCEPT ![t] = h]
  /\ got' = [got EXCEPT ![t] = None]

\* A fresh entry, made to be inserted.
New(t, id, h) ==
  /\ pc[t] = "idle" /\ h \notin Created
  /\ entries' = With(entries, h, NewEntry(id))
  /\ Take(t, id, h)
  /\ pc' = [pc EXCEPT ![t] = "made"]
  /\ UNCHANGED map

\* insert under the write lock, of a fresh entry or of one that get returned:
\* what was there is replaced.  The caller names the id of the entry.
Insert(t, id) ==
  /\ pc[t] \in {"idle", "made"} /\ held[t] # None /\ entries[held[t]].id = id
  /\ map' = [map EXCEPT ![id] = held[t]]
  /\ pc' = [pc EXCEPT ![t] = "idle"]
  /\ UNCHANGED <<entries, want, held, got>>

\* get under the read lock: the clone of the Arc outlives the lock.
Get(t, id) ==
  /\ pc[t] = "idle"
  /\ Take(t, id, map[id])
  /\ UNCHANGED <<map, entries, pc>>

\* A call of load through the handle, now or much later, and again.
Load(t) ==
  /\ pc[t] = "idle" /\ held[t] # None
  /\ got' = [got EXCEPT ![t] = None]
  /\ pc' = [pc EXCEPT ![t] = "load"]
  /\ UNCHANGED <<map, entries, want, held>>

Return(t, frame) ==
  /\ pc' = [pc EXCEPT ![t] = "idle"]
  /\ got' = [got EXCEPT ![t] = frame]
  /\ UNCHANGED <<map, want, held>>

\* load of the entry's latch: the first thread runs its closure ...
Attempt(t) ==
  /\ pc[t] = "load" /\ entries[held[t]].load = "never"
  /\ entries' = [entries EXCEPT ![held[t]].load = "begun"]
  /\ pc' = [pc EXCEPT ![t] = "work"]
  /\ UNCHANGED <<map, want, held, got>>

\* ... which reads the page at the offset of the entry into a free frame ...
Install(t, f) ==
  /\ pc[t] = "work"
  /\ \A h \in Created : entries[h].memory # f
  /\ entries' = [entries EXCEPT ![held[t]].memory = f]
  /\ Return(t, f)

\* ... or fails, and leaves the latch of the entry taken for good ...
Fail(t) ==
  /\ pc[t] = "work"
  /\ Return(t, None)
  /\ UNCHANGED entries

\* ... and the others return what it left, once it is there.
Hit(t) ==
  /\ pc[t] = "load" /\ entries[held[t]].memory # None
  /\ Return(t, entries[held[t]].memory)
  /\ UNCHANGED entries

\* A thread panics, alone: it holds neither lock nor latch that others need,
\* or leaves the latch taken as Fail does.
Die(t) ==
  /\ pc' = [pc EXCEPT ![t] = "panicked"]
  /\ Take(t, None, None)
  /\ UNCHANGED <<map, entries>>

MTNext ==
  \E t \in Threads :
    \/ \E id \in PageIDs :
         Get(t, id) \/ Insert(t, id) \/ \E h \in Handles : New(t, id, h)
    \/ Load(t) \/ Attempt(t) \/ Fail(t) \/ Hit(t) \/ Die(t)
    \/ \E f \in Frames : Install(t, f)

MTSpec == MTInit /\ [][MTNext]_mtVars
-----------------------------------------------------------------------------
\* How far page_table.rs:7-9 holds: "the mapping table ensures that a PageID
\* always resolves to the correct page location, even if the page is moved,
\* evicted, or replaced".  A load ends in the frame of an entry of the id that
\* was asked for, also when that entry has been replaced since the get.  The
\* frame was filled from the location of that page exactly when the offset of
\* the id fits a u64: a release build gives a greater id the location of
\* another page.  Two loads end in one frame exactly when they went through
\* one entry, and then they asked for one id: ids never share a frame, but a
\* handle from before an insert leads to another frame than one from after it.
ResolvesToOneFrame ==
  \A t \in Threads : got[t] # None =>
    /\ held[t] \in Created
    /\ entries[held[t]].id = want[t] /\ entries[held[t]].memory = got[t]
    /\ entries[held[t]].disk = want[t] * PAGE_SIZE <=> Fits(want[t])
    /\ \A u \in Threads : got[u] # None =>
         /\ got[t] = got[u] <=> held[t] = held[u]
         /\ got[t] = got[u] => want[t] = want[u]

\* Why that is so.  The map and the handles of the threads lead from an id to
\* an entry that was made for it, and a frame stays in the entry it came from.
LeadsToId ==
  /\ \A id \in PageIDs : map[id] # None => map[id] \in Created /\ entries[map[id]].id = id
  /\ \A h \in Created :
       entries[h].id \in PageIDs /\ entries[h].disk = ToOffset(entries[h].id)
  /\ \A t \in Threads :
       /\ held[t] # None => held[t] \in Created /\ entries[held[t]].id = want[t]
       /\ pc[t] \in {"made", "load", "work"} => held[t] # None
       /\ got[t] # None => held[t] # None /\ entries[held[t]].memory = got[t]

\* One thread at most fills an entry, once, with a frame of its own.
FilledOnce ==
  /\ \A h \in Created : entries[h].memory # None => entries[h].load = "begun"
  /\ \A h, g \in Created : entries[h].memory = entries[g].memory /\ entries[h].memory # None => h = g
  /\ \A t \in Threads : pc[t] = "work" =>
       /\ entries[held[t]].load = "begun" /\ entries[held[t]].memory = None
       /\ \A u \in Threads : pc[u] = "work" /\ held[u] = held[t] => u = t

\* The inductive invariant of the table.
TableInv == FilledOnce /\ LeadsToId
=============================================================================
