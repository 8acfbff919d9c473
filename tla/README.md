# InkDB verification

TLA+ modules of the parts of InkDB that have behaviour today, the TLC
configurations that check them on small instances, and TLAPS proofs of the
main safety properties for every value of the constants. Paths are those of
the repository (`src/page/...`, `src/buffer/...`).

## The system

InkDB is the beginning of a storage engine for a B-link tree.

| Part | Source | State of the code | Here |
|---|---|---|---|
| slotted page | `src/page/slotted_page.rs` | complete but for `memory_used`, whose body is a TODO comment (a function that returns `usize` and has no value does not compile) | `SlottedPage`, `SlottedPageOps`, `CellList` |
| index page | `src/page/internal_page.rs` | complete | `IndexLayout`, `IndexPage`, `PivotPage` |
| page type, flags, LE helpers | `src/page/mod.rs` | complete | `PageType`, `PageHeaderBits`, `HeaderFields` |
| page frame | `src/buffer/page_frame.rs` | complete; dirty and pin unused | `PageFrame`, `FrameRegister` |
| page table latch | `src/buffer/page_table_latch.rs` | complete | `PageTableLatch`, `OnceCell` |
| mapping table | `src/buffer/page_table.rs` | complete | `PageIdentity`, `PageLookup`, `MappingTable` |
| page cache | `src/buffer/page_cache.rs` | trait without implementation | not modelled |
| buffer manager, pager | `buffer_manager.rs`, `pager.rs` | empty files | not modelled |
| B-tree | `src/tree/btree_base.rs` | `traverse` returns page 0 | not modelled |
| transaction memory, meta page | `tx_memory.rs`, `meta.rs` | structs without operations | not modelled |
| leaf pages, key format | `leaf.rs`, `internal_key.rs` | comments | not modelled |

How they interact: the mapping table hands out shared entries, each with a
latch that runs one load of the page; the load ends in a frame, which keeps
the bytes of a page behind a `RwLock`; the closures a frame runs interpret
the bytes as a slotted page, and that as an index page.

## Modules and how they correspond to the code

**PageTableLatch.** `state`, `data` and the local `spin_count` are variables;
`pc` is where each thread is in `load` or `peek`. Every access to shared
memory is one action. `T` is a record of words that a clone or a store moves
one at a time, in any order, so a race on the `UnsafeCell` shows as a torn
value. `work` may succeed, fail or panic. `spin_count` has its width as a
constant, and overflow panics or wraps with the build. Memory is sequentially
consistent: the code publishes with Release and reads with Acquire, and the
model keeps the order those two give. `OnceCell` is what `load` promises.

**SlottedPage / SlottedPageOps.** Each method of `SlottedPageMut` and
`SlottedPageRef` is an operator from a page to a result; SlottedPageOps calls
them in any order. Header words and directory are fields of a record, cells
are real bytes. A failed `assert!` or `debug_assert!` is the result `Panic` (a
debug build). `CellList` is what a page promises: an ordered list of cells and
a number of free bytes. `ImplementsCellList` relates the two call by call
(`CallsMatch`): a call of the page is the CellList call of the same arguments,
so a cell lands at the index it was added at, and an add is refused exactly
when its own length or its own index gives the reason. `NoByteLost` says that
the cells in the directory are exactly the bytes above `free_end`. The
checksum, version and transaction id words are never written by the code and
are left out. `init_new` neither wipes the page nor looks at the special offset
in its header. On a page that has a special area it would leave that offset in
place and give its bytes to cells; the model assumes that callers do not do
that (no caller in the repository does), and lets them call it on a used page
without a special area.

**IndexLayout / IndexPage.** IndexLayout has the bytes of an index page over
SlottedPage: keys, child ids and the sibling id encoded and decoded, the order
of keys, and `find_child_ptr`. IndexPage calls the operations of
`IndexPageMut` in any order. `PivotPage` is what it promises: a kind, a level,
a sibling, a list of entries that do not disturb each other and so many bytes
of room. As for the slotted page, each call is the PivotPage call of the same
arguments. An add is refused exactly when its key is longer than
`MAX_INDEX_CELL_SIZE` allows, else when it costs more than the room, else when
its slot index is beyond the directory; a refused call changes nothing.
`IndexLevel::new` panics above level 15, but the field of `IndexLevel` is
public, and `set_level` masks a level that did not come from `new`: the two are
actions of their own. `MAX_INDEX_CELL_SIZE` does not count the special area, so
there are keys that `IndexCellOwned::new` accepts and even an empty index page
with a special area refuses; the comment in `internal_key.rs:1-2` wants two keys of any
accepted size to fit a page.

`Searchable` is the order `find_child_ptr` depends on: high key in slot 0 of a
page with a sibling, pivots behind it sorted. No code builds such a page yet;
the order is read off `find_child_ptr`, and the run reaches every searchable
page among all others. A searchable page has a special area: on a page from
`init_new` the cell that ends with the page makes `find_child_ptr` panic in a
debug build (run `slotted_entry_assert`). `OrderKept` says what a caller has to
do to keep a page in that order: compare with the two entries around the slot
it adds at.

**PageType / PageHeaderBits.** Bit operations as arithmetic on bytes.
`HeaderFields` is the abstract view: two independent fields and a set. Each
setter is the HeaderFields call of the same argument: it sets its own field to
the low four bits of the argument, or adds or removes its own flag.

**PageFrame.** `read` and `write` with their guards over `std::sync::RwLock`,
which is external and modelled by what it documents: shared readers, one
writer, poisoned by a panic under a write guard. A closure visits the page
part by part and may panic between two parts. Every write closure adds one to
each part it finds, so a lost or torn update leaves parts that differ.
`FrameRegister` is an atomic page. `slotted_ref` and `slotted_mut` read a
copy of `kind` and change nothing.

**PageIdentity / PageLookup.** The way from a page id to a frame, with the
mapping table and the latches of many entries together. `PageTableEntry::new`,
`get` and `insert` are one action each: the latter two hold the lock of the map
for all of their work. The clone of the `Arc` that `get` returns outlives the
lock; a thread keeps it in `held` and may call `load` through it at any later
time and again, also when the map leads elsewhere by then. `load` is the
protocol of PageTableLatch, access by access, with the value moved in one step.
`to_offset` multiplies in a `u64`: it wraps in a release build and panics in a
debug build.

Three things are assumed of callers, because the code that will call is not
there yet. An entry is inserted under the id it was made for: `insert` takes any
entry under any id and checks nothing. The variable `made` remembers that id,
which the entry itself does not keep. Who makes an entry inserts it before
loading it. And a load closure puts the page into a frame that holds no page
(`WorkOk`); the frames that racing loads must not share or lose are then those
of the entries.

`MappingTable` is what these calls promise together: a map to write-once
entries. `page_table.rs:7-9` claims more, that an id "always resolves to the
correct page location, even if the page is moved, evicted, or replaced".
`ResolvesToOneFrame` says exactly how far that holds: the location is right for
the ids whose offset fits a `u64` and for no other, and two loads of one id end
in one frame when they went through one entry and in two when `insert` replaced
the entry between their gets. The second is what `mapping_replaced` shows.

## Runs

| Run | Shows | Bounds |
|---|---|---|
| `latch_safety` | one loader, one value, one work, exact peeks, the inductive invariant; a write-once cell, final once loaded | 3 threads, 2 words, every outcome of work, counter of 3 |
| `latch_failed_load` (violation) | after a work that returns `Err` later loads never return | 2 threads |
| `latch_peek` (violation) | a peek during a load can be torn | 2 threads, 2 words |
| `latch_wait` (violation) | the `u8` spin counter overflows in a debug build | 2 threads, counter of 256 |
| `slotted_page` | layout, no byte lost, readers agree, failures atomic, each call does to the list what its arguments say | page of 50 bytes: room for several cells with and without special area |
| `slotted_entry_assert` (violation) | the `debug_assert` of `cell_slice_from_entry` rejects a legal cell | the real page size |
| `header_bits` | each setter changes its own field or flag and no other | nine argument bytes, all flags |
| `header_extract` (violation) | `extract_all_flags` never reports HalfDeleted | as above |
| `index_page` | each call does what its arguments say, so what is written is read back in any order of calls and refusals are exact; a pivot added where it belongs keeps the order; `find_child_ptr` routes every key on every page in key order | page of 95 bytes: three cells, so a high key and two pivots; three keys one of which is a prefix of another, one that is refused as too long, one that fits no index page, six keys searched for |
| `frame` | whole reads, frozen poisoned pages, atomic page refinement, every call ends | 3 threads, 2 parts, 2 calls each |
| `mapping` | the table with its latches implements `MappingTable`; a load ends in a frame of its id's entry, from the right location exactly when the offset fits, and loads share a frame exactly when they share an entry; a taken latch has a loader or a failure behind it, a filled frame one entry, and a settled entry never changes; every load ends unless it waits for a loader that failed | 3 threads, 2 entries, 2 frames; a `u64` of 16384 values, so that four pages fit and the id 5 gets the location of page 1 |
| `mapping_replaced` (violation) | two entries inserted for one id put its page into two frames | 2 threads, 2 entries, 2 frames |

The bounds are small because the code treats all threads, keys, cells and
words alike: two threads race for one latch and a third comes late; two words
tear; a page with room for a few cells meets the empty, the exactly full and
the overfull case. What is proved does not depend on them.

The two page runs compare states through the view `Visible`: a page without
the bytes between its directory and its cells, which keep what earlier cells
and earlier uses of the page left there and which no reader reaches, and in
`slotted_page` without type, flags and lsn, on which no call depends. Every call
is taken from one page of each view. The proofs do not use the view.

Violation runs state what a comment of the repository says and show a
behaviour of the code that departs from it; `PROJECT.json` quotes the comment.
Two more disagreements with comments are part of passing runs, whose properties
say what the code does instead: offsets that wrap (`ResolvesToOneFrame`) and
keys of which no two, or not one, fit a page (`ImplementsPivotPage`).

## Fairness

`frame`, `mapping` and `latch_failed_load` assume weak fairness of each thread's
steps inside a call: the operating system schedules it, and closures end.
Nobody has to call. Nothing is assumed of the order in which a lock is
granted; a writer could be overtaken for ever by an endless supply of
readers, which the bound `MaxCalls` on the calls of a thread excludes. The
locks of the mapping table are held for one action, so no thread waits there.

## Proofs

* `PageTableLatchProofs`: `TypeCorrect`, `LatchInvariant`, `StoreIsExclusive`,
  `LoadsAgree`, `OneWorkCall`, `PeekIsExact`, `LoadedStaysFinal`,
  `LatchImplementsOnceCell`, for any threads, words, values and counter width.
  The safety properties are not inductive, because they say nothing of a thread
  between its exchange and its store. `LatchInv` adds who holds the latch in
  which state, what the cell holds, and which words of each copy already agree
  with it.
* `PageLookupProofs`: `LookupInvariant`, `LookupImplementsTable`,
  `OneFramePerPage`, `LatchTakenForAReason`, `FramesHaveOneEntry`,
  `SettledStaysFinal`, for any threads, ids, entries, frames, page size and width
  of the offset. `LookupInv` says that one thread at most is between the
  exchange and the release store of an entry, and that the frame it is about to
  store is in no cell. Each step of the protocol is then a step of
  `MappingTable` or none. There `TableInv` is inductive: map and handles lead
  from an id to an entry made for it, a returned frame stays in the entry of
  the handle, and no two entries hold one frame; `OneFramePerPage` follows
  through the refinement, and from when a product is its own remainder.
  `TakenForAReason` is the safety part of `LookupEnds`: a waiting thread waits for one thread that
  is not waiting itself, or for an entry whose loader failed. It is inductive
  next to `LookupInv` in the form `TakenInv`. `FrameHasOneEntry` is proved as
  `OwnedOnce`, with ownership as a relation that every step but the end of a
  closure keeps: storing only moves a frame from the loader to the cell.
  `SettledStaysFinal` rests on both invariants: who holds a latch is never on
  an entry that is in memory or has failed.
* `SlottedPageProofs`, with the lemmas on single operations in
  `SlottedPageLemmas`: `TypeCorrect`, `LayoutSafe`, `NothingIsLost`,
  `FailureIsAtomic`, `ReadersAlwaysAgree`, `PageImplementsCellList`, for every
  page size up to 65535 and every set of cells. The inductive invariant is the
  type and the layout together: cells are apart from each other and from
  directory and special area, so storing a cell leaves the slices of all others
  as they were.
* `KeyOrderProofs`: `KeyOrderIsTotal`, the comparison of keys is a strict total
  order on byte strings of any length. Two different keys are told apart at the
  least place where they differ; that there is a least one comes from the
  well-ordering of the naturals (`LeastNatural`), so no induction over a key is
  needed.
* `IndexPageProofs`: `IndexPageLaidOut`, `IndexPageImplementsPivotPage`,
  `FindIsCorrect`, `InsertKeepsOrder`, for every page size, all keys, child ids and siblings that
  fit a `u64`. The inductive invariant adds to that of the slotted page that
  every slot leads to an encoded pivot. The lemmas below it: little-endian
  encoding is read back (`LE2`, `LE8`), a cell gives back its key and child
  (`CellCodec`), writing the sibling keeps the cells and adding a cell keeps the
  sibling, and the walk of `find_child_ptr` stops at the first pivot above the
  key (`ScanMeaning`), which on a sorted page is the least. That a pivot is
  found whenever one lies above the key, and only one, takes the total order of
  keys; so does `InsertKeepsOrder`, which from a comparison with two neighbours
  concludes the order with all entries. The refinement is proved call by call
  (`IndexCalls`); that the refusals are exact takes the length of an encoded
  cell and what it leaves of the free space.
* `PageHeaderBitsProofs`: `HeaderImplementsFields`, for every set of argument
  bytes. The invariant is that the type is a byte and that the flags lie below
  32; a flags byte is then five bits, and a setter writes one of them.
* `PageFrameProofs`: `FrameInvariant`, `ReadersSeeWholePages`, `PoisonStays`,
  `FrameImplementsRegister`, for any threads, parts and number of calls. The
  invariant ties guards to program counters and says that an unpoisoned page
  is the number of completed write closures, plus one in the parts the
  running closure has passed.

Assumptions are the named `ASSUME`s of the modules: ranges of the constants,
and that special values such as `Nobody` are not threads.

Every safety property and every refinement of the passing runs is proved. Only
model-checked is liveness, which rests on fairness and `ENABLED` and is not
covered by the proof system: `CallsEnd` and `LookupEnds`, which also covers the
loads of a single latch. What the violation runs show is a behaviour of one instance, and needs no proof.

## Not modelled

The files that hold no operations (see the table); the contents of load
closures; `dirty`, `pin` and `checksum` of a frame, which nothing uses;
`free_fragmented_space`, which returns 0; `state` and `current_state` of the
latch, which only read; `memory_used`, which has no body. What the closures of
a frame do to an index page is left to its callers, of which there are none yet: no code adds pivots in key
order, splits a page or descends, so IndexPage lets its client call anything,
and nothing is said about a sequence of calls inside one write closure beyond
what each call does and that no reader sees the middle of it.

## Plan

When the B-tree has a descent and inserts: an index page inside a frame, with
writers that keep the page in key order while readers call `find_child_ptr`,
on top of `PageLookup`, `PageFrame` and `IndexLayout`. When the buffer manager
exists: its choice of a frame in place of the assumption that a load closure
takes a free one, with eviction and the pin count.
