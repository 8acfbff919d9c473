------------------------------ MODULE PageLookup ------------------------------
(***************************************************************************)
(* The way from a page id to a frame: get and insert of the mapping table  *)
(* (src/buffer/page_table.rs) together with load on the latch of the entry *)
(* (src/buffer/page_table_latch.rs), for many entries and threads at once. *)
(*                                                                         *)
(* PageTableLatch has load on one entry word by word, and shows that the   *)
(* words of a value are never seen apart by load; here a value is cloned   *)
(* or stored in one step.                                                  *)
(***************************************************************************)
EXTENDS PageIdentity

CONSTANTS Threads,
          Handles,    \* the entries an Arc can point to
          Frames,     \* addresses of page frames
          None        \* neither a handle, nor a frame, nor a number

ASSUME LookupAssumption == None \notin Handles \cup Frames \cup Nat

PT_ON_DISK == 0
PT_LOADING == 1
PT_IN_MEMORY == 2

\* PageTableResult
Disk(offset) == [tag |-> "Disk", addr |-> offset]
Memory(frame) == [tag |-> "Memory", addr |-> frame]
PageTableResult == [tag : {"Disk"}, addr : Nat] \cup [tag : {"Memory"}, addr : Frames]

\* Stands for a cell not made yet, and for the local of a thread without one.
Blank == Disk(0)

VARIABLES map,        \* NaiveMappingTable.map
          made,       \* the id each entry was made for, None before new
          state,      \* the state of the latch of each entry, None before new
          data,       \* the cell of the latch of each entry
          filled,     \* the offset each frame was filled from, None if free
          pc,         \* where each thread is
          want,       \* the page id it asked for
          held,       \* its handle
          local,      \* its copy of the cell, or what its closure returned
          got,        \* the frame its last load returned
          failed      \* history: entries whose loader failed

vars == <<map, made, state, data, filled, pc, want, held, local, got, failed>>
table == <<map, made>>
latches == <<state, data, failed>>

Loading == {"work", "store", "publish"}
InLoad == {"loop", "fast", "cas", "backoff"} \cup Loading

Init ==
  /\ map = [id \in PageIDs |-> None]
  /\ made = [h \in Handles |-> None]
  /\ state = [h \in Handles |-> None]
  /\ data = [h \in Handles |-> Blank]
  /\ filled = [f \in Frames |-> None]
  /\ pc = [t \in Threads |-> "idle"]
  /\ want = [t \in Threads |-> None]
  /\ held = [t \in Threads |-> None]
  /\ local = [t \in Threads |-> Blank]
  /\ got = [t \in Threads |-> None]
  /\ failed = {}

Goto(t, label) == pc' = [pc EXCEPT ![t] = label]

\* The thread holds the handle h, under which it knows the page id.
Take(t, id, h) ==
  /\ want' = [want EXCEPT ![t] = IF h = None THEN None ELSE id]
  /\ held' = [held EXCEPT ![t] = h]
  /\ got' = [got EXCEPT ![t] = None]

\* A load returns a frame, or None, and its locals are dropped.  The handle
\* stays with the caller.
Return(t, frame) ==
  /\ Goto(t, "idle")
  /\ got' = [got EXCEPT ![t] = frame]
  /\ local' = [local EXCEPT ![t] = Blank]
  /\ UNCHANGED <<want, held>>

Panic(t) ==
  /\ Goto(t, "panicked")
  /\ Take(t, None, None)
  /\ local' = [local EXCEPT ![t] = Blank]

\* Arc::new(PageTableEntry::new(id)), by a caller that will insert it.
New(t, id, h) ==
  /\ pc[t] = "idle" /\ state[h] = None
  /\ made' = [made EXCEPT ![h] = id]
  /\ state' = [state EXCEPT ![h] = PT_ON_DISK]
  /\ data' = [data EXCEPT ![h] = Disk(ToOffset(id))]
  /\ Take(t, id, h)
  /\ Goto(t, "made")
  /\ UNCHANGED <<map, filled, local, failed>>

\* insert under the write lock, of a fresh entry or of a handle from get: what
\* was there is replaced.  insert takes any entry under any id; that it is the
\* id the entry was made for is assumed of the caller.
Insert(t, id) ==
  /\ pc[t] \in {"idle", "made"} /\ held[t] # None /\ made[held[t]] = id
  /\ map' = [map EXCEPT ![id] = held[t]]
  /\ Goto(t, "idle")
  /\ UNCHANGED <<made, latches, filled, want, held, local, got>>

\* In a debug build PageTableEntry::new panics on an id out of range, before
\* the lock of the map is taken.
NewPanics(t, id) ==
  /\ pc[t] = "idle" /\ ~Fits(id)
  /\ Panic(t)
  /\ UNCHANGED <<table, latches, filled>>

\* Mutant: get clones the entry, not the Arc that points to it.
GetCopied(t, id) ==
  /\ pc[t] = "idle"
  /\ \/ /\ map[id] = None
        /\ Take(t, id, None)
        /\ UNCHANGED <<made, state, data>>
     \/ \E h \in Handles :
          /\ map[id] # None /\ state[h] = None
          /\ made' = [made EXCEPT ![h] = id]
          /\ state' = [state EXCEPT ![h] = state[map[id]]]
          /\ data' = [data EXCEPT ![h] = data[map[id]]]
          /\ Take(t, id, h)
  /\ UNCHANGED <<map, filled, pc, local, failed>>

\* get under the read lock: the clone of the Arc outlives the lock.
Get(t, id) ==
  /\ pc[t] = "idle"
  /\ Take(t, id, map[id])
  /\ UNCHANGED <<table, latches, filled, pc, local>>

\* A call of load through the handle, now or much later, and again.
Load(t) ==
  /\ pc[t] = "idle" /\ held[t] # None
  /\ got' = [got EXCEPT ![t] = None]
  /\ Goto(t, "loop")
  /\ UNCHANGED <<table, latches, filled, want, held, local>>

LoadState(t) ==
  /\ pc[t] = "loop"
  /\ \/ state[held[t]] = PT_IN_MEMORY /\ Goto(t, "fast")
     \/ state[held[t]] = PT_ON_DISK /\ Goto(t, "cas")
     \/ state[held[t]] = PT_LOADING /\ Goto(t, "backoff")
  /\ UNCHANGED <<table, latches, filled, want, held, local, got>>

\* Mutant: the exchange takes the latch of a loaded page again.
CompareExchangeAny(t) ==
  /\ pc[t] = "cas"
  /\ \/ /\ state[held[t]] # PT_LOADING
        /\ state' = [state EXCEPT ![held[t]] = PT_LOADING]
        /\ local' = [local EXCEPT ![t] = data[held[t]]]
        /\ Goto(t, "work")
     \/ /\ state[held[t]] = PT_LOADING
        /\ Goto(t, "loop")
        /\ UNCHANGED <<state, local>>
  /\ UNCHANGED <<table, data, failed, filled, want, held, got>>

\* The winner clones the cell for its closure, the loser retries at once.
CompareExchange(t) ==
  /\ pc[t] = "cas"
  /\ \/ /\ state[held[t]] = PT_ON_DISK
        /\ state' = [state EXCEPT ![held[t]] = PT_LOADING]
        /\ local' = [local EXCEPT ![t] = data[held[t]]]
        /\ Goto(t, "work")
     \/ /\ state[held[t]] # PT_ON_DISK
        /\ Goto(t, "loop")
        /\ UNCHANGED <<state, local>>
  /\ UNCHANGED <<table, data, failed, filled, want, held, got>>

\* The closure of the caller, assumed of the buffer pool that is to come: it
\* is given Disk(offset), reads the page there into a frame f that holds no
\* page and returns Memory(f), or it fails.
WorkOk(t, f) ==
  /\ pc[t] = "work" /\ filled[f] = None
  /\ filled' = [filled EXCEPT ![f] = local[t].addr]
  /\ local' = [local EXCEPT ![t] = Memory(f)]
  /\ Goto(t, "store")
  /\ UNCHANGED <<table, latches, want, held, got>>

WorkErr(t) ==
  /\ pc[t] = "work"
  /\ Return(t, None)
  /\ failed' = failed \cup {held[t]}
  /\ UNCHANGED <<table, state, data, filled>>

WorkPanic(t) ==
  /\ pc[t] = "work"
  /\ Panic(t)
  /\ failed' = failed \cup {held[t]}
  /\ UNCHANGED <<table, state, data, filled>>

Store(t) ==
  /\ pc[t] = "store"
  /\ data' = [data EXCEPT ![held[t]] = local[t]]
  /\ Goto(t, "publish")
  /\ UNCHANGED <<table, state, failed, filled, want, held, local, got>>

\* Mutant: the release store is forgotten.
PublishForgotten(t) ==
  /\ pc[t] = "publish"
  /\ Return(t, local[t].addr)
  /\ UNCHANGED <<table, latches, filled>>

Publish(t) ==
  /\ pc[t] = "publish"
  /\ state' = [state EXCEPT ![held[t]] = PT_IN_MEMORY]
  /\ Return(t, local[t].addr)
  /\ UNCHANGED <<table, data, failed, filled>>

FastReturn(t) ==
  /\ pc[t] = "fast"
  /\ Return(t, data[held[t]].addr)
  /\ UNCHANGED <<table, latches, filled>>

\* One round of waiting; the round that overflows the counter of a debug
\* build panics (PageTableLatch counts the rounds).
Backoff(t) ==
  /\ pc[t] = "backoff"
  /\ \/ Goto(t, "loop") /\ UNCHANGED <<want, held, local, got>>
     \/ Panic(t)
  /\ UNCHANGED <<table, latches, filled>>

\* What a thread does once it is inside load.
Step(t) ==
  \/ LoadState(t) \/ CompareExchange(t) \/ WorkErr(t) \/ WorkPanic(t)
  \/ Store(t) \/ Publish(t) \/ FastReturn(t) \/ Backoff(t)
  \/ \E f \in Frames : WorkOk(t, f)

Next ==
  \E t \in Threads :
    \/ Load(t) \/ Step(t)
    \/ \E id \in PageIDs :
         \/ Get(t, id) \/ Insert(t, id) \/ NewPanics(t, id)
         \/ \E h \in Handles : New(t, id, h)

Spec == Init /\ [][Next]_vars

\* Every thread is scheduled, and closures end.  Nobody has to call.
FairSpec == Spec /\ \A t \in Threads : WF_vars(Step(t))
-----------------------------------------------------------------------------
\* Every load returns or panics, unless it waits for a page whose own loader
\* has failed: page_table_latch.rs:82 leaves that latch taken, and nothing
\* else may keep a thread waiting, however many pages are loaded at once.
LookupEnds ==
  \A t \in Threads :
    pc[t] \in InLoad ~> pc[t] \notin InLoad \/ held[t] \in failed

\* A latch is taken by exactly one thread, which is in its closure or about
\* to publish, or it is taken for good because that thread's closure failed
\* (page_table_latch.rs:75-90).  So a thread that waits waits for a thread
\* that goes on, or for a failure, and no two loaders share an entry.
TakenForAReason ==
  \A h \in Handles :
    LET loaders == {t \in Threads : pc[t] \in Loading /\ held[t] = h}
    IN  /\ state[h] = PT_LOADING <=> h \in failed \/ loaders # {}
        /\ h \in failed => loaders = {}
        /\ \A t, u \in loaders : t = u

\* A frame that a closure has filled belongs to exactly one entry: its loader
\* is about to store it there (page_table_latch.rs:82-89) or the cell holds
\* it.  No race between loads loses a frame, and none gives one frame to two
\* pages.
FrameHasOneEntry ==
  \A f \in Frames :
    LET entries == {h \in Handles : data[h] = Memory(f)} \cup
                   {held[t] : t \in {u \in Threads : pc[u] = "store" /\ local[u] = Memory(f)}}
    IN  IF filled[f] = None THEN entries = {} ELSE \E h \in Handles : entries = {h}

\* An entry whose page is in memory, or whose loader failed, stays as it is:
\* replacing it in the map, late losers of the exchange and waiters do not
\* touch it, and a call that reached an entry after its failure never
\* returns a frame (page_table_latch.rs:56-117).
SettledIsFinal ==
  [][/\ \A h \in Handles :
          state[h] = PT_IN_MEMORY \/ h \in failed => state'[h] = state[h] /\ data'[h] = data[h]
     /\ \A t \in Threads : pc[t] \in InLoad /\ held[t] \in failed => got'[t] = None]_vars
-----------------------------------------------------------------------------
\* The entries as MappingTable sees them, and where the threads are.
EntryOf(h) ==
  [id |-> made[h],
   disk |-> IF data[h].tag = "Disk" THEN data[h].addr ELSE filled[data[h].addr],
   memory |-> IF state[h] = PT_IN_MEMORY THEN data[h].addr ELSE None,
   load |-> IF state[h] = PT_ON_DISK THEN "never" ELSE "begun"]

Entries == [h \in {g \in Handles : state[g] # None} |-> EntryOf(h)]

Phase(label) ==
  IF label \in Loading THEN "work" ELSE IF label \in InLoad THEN "load" ELSE label

Phases == [t \in Threads |-> Phase(pc[t])]

Table == INSTANCE MappingTable WITH entries <- Entries, pc <- Phases

\* Seen through get and load, the entries are write-once cells that go from
\* the offset of their id to one frame filled from there, whatever the latch
\* protocol of page_table_latch.rs:56-117 does on each of them.
ImplementsMappingTable == Table!MTSpec

\* A PageID resolves through the latch protocol as it does in the table: to a
\* frame of its own entry, from the right location if the offset fits, and to
\* one frame for each entry (page_table.rs:7-9, 87-92).
ResolvesToOneFrame == Table!ResolvesToOneFrame

\* page_table.rs:7-9 in full: "a PageID always resolves to the correct page
\* location, even if the page is moved, evicted, or replaced".  Two threads
\* that have loaded one id would be in one frame.
AlwaysOneFrame ==
  \A t, u \in Threads :
    got[t] # None /\ got[u] # None /\ want[t] = want[u] => got[t] = got[u]
-----------------------------------------------------------------------------
LookupTypeOK ==
  /\ map \in [PageIDs -> Handles \cup {None}]
  /\ made \in [Handles -> PageIDs \cup {None}]
  /\ state \in [Handles -> {None, PT_ON_DISK, PT_LOADING, PT_IN_MEMORY}]
  /\ data \in [Handles -> PageTableResult]
  /\ filled \in [Frames -> Nat \cup {None}]
  /\ pc \in [Threads -> InLoad \cup {"idle", "made", "panicked"}]
  /\ want \in [Threads -> PageIDs \cup {None}]
  /\ held \in [Threads -> Handles \cup {None}]
  /\ local \in [Threads -> PageTableResult]
  /\ got \in [Threads -> Frames \cup {None}]
  /\ failed \subseteq Handles

\* What the cell of an entry holds in each state of its latch.  No two
\* entries hold one frame, and a frame in a cell has been filled.
EntryInv(h) ==
  /\ state[h] = None <=> made[h] = None
  /\ state[h] \in {None, PT_ON_DISK} => data[h].tag = "Disk"
  /\ state[h] = PT_IN_MEMORY => data[h].tag = "Memory"
  /\ data[h].tag = "Memory" =>
       /\ filled[data[h].addr] # None
       /\ \A g \in Handles : data[g] = data[h] => g = h

\* What a thread inside load knows of its entry: a loader is alone on it,
\* and the frame it is about to store is in no other hands.
ThreadInv(t) ==
  /\ held[t] # None => state[held[t]] # None
  /\ pc[t] \in InLoad \cup {"made"} => held[t] \in Handles /\ got[t] = None
  /\ pc[t] = "fast" => state[held[t]] = PT_IN_MEMORY
  /\ pc[t] \in Loading =>
       /\ state[held[t]] = PT_LOADING
       /\ \A u \in Threads : pc[u] \in Loading /\ held[u] = held[t] => u = t
  /\ pc[t] = "work" => local[t] = data[held[t]] /\ data[held[t]].tag = "Disk"
  /\ pc[t] = "store" =>
       /\ local[t].tag = "Memory" /\ data[held[t]].tag = "Disk"
       /\ filled[local[t].addr] = data[held[t]].addr
       /\ \A h \in Handles : data[h] # local[t]
       /\ \A u \in Threads : pc[u] = "store" /\ local[u] = local[t] => u = t
  /\ pc[t] = "publish" => local[t] = data[held[t]] /\ local[t].tag = "Memory"

\* The inductive invariant behind the refinement (page_table.rs:85-92 and
\* page_table_latch.rs:56-117 taken together).
LookupInv ==
  /\ LookupTypeOK
  /\ \A id \in PageIDs : map[id] # None => state[map[id]] # None
  /\ \A h \in Handles : EntryInv(h)
  /\ \A t \in Threads : ThreadInv(t)
=============================================================================
