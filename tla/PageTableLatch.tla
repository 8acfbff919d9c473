--------------------------- MODULE PageTableLatch ---------------------------
(***************************************************************************)
(* The latch of a page table entry (src/buffer/page_table_latch.rs): an    *)
(* atomic state byte and an UnsafeCell that the threads read and write     *)
(* without a lock.  A thread that calls load either finds the data in      *)
(* memory, wins the compare_exchange and runs its work closure, or waits.  *)
(*                                                                         *)
(* The cell is not read or written in one step: T spans several machine    *)
(* words (PageTableResult is a tag and a u64), so a clone or a store moves *)
(* one word at a time, in any order.  A torn value is then a mixture of    *)
(* the words of two values.                                                *)
(***************************************************************************)
EXTENDS Naturals

CONSTANTS
  Threads,         \* the threads that share the latch
  Words,           \* the machine words a value of type T is made of
  WordValue,       \* what one word can hold
  Initial,         \* the value given to PageTableLatch::new
  Loaded,          \* the values a work closure can return
  WorkOutcomes,    \* how a work closure can end: "ok", "err", "panic"
  CounterModulus,  \* spin_count is a u8: 256
  OverflowChecks,  \* is `+= 1` compiled with overflow checks (debug build)?
  Unset            \* not a value of T

ASSUME LatchAssumption ==
  /\ Initial \in [Words -> WordValue]
  /\ Loaded \subseteq [Words -> WordValue]
  /\ Unset \notin Loaded
  /\ WorkOutcomes \subseteq {"ok", "err", "panic"}
  /\ CounterModulus \in Nat \ {0}
  /\ OverflowChecks \in BOOLEAN

PT_ON_DISK == 0
PT_LOADING == 1
PT_IN_MEMORY == 2

VARIABLES
  state,       \* PageTableLatch.state
  data,        \* PageTableLatch.data
  pc,          \* where each thread is in load or peek
  buf,         \* the value each thread is cloning, storing or has returned
  todo,        \* the words of the clone or store still to be moved
  spin_count,  \* the local of load
  seen,        \* the state peek read before it read the data
  works        \* history: how often a work closure was called

vars == <<state, data, pc, buf, todo, spin_count, seen, works>>

\* Between two calls; "ok", "err" and "peeked" are the ways a call returned.
Returned == {"ready", "ok", "err", "peeked"}
InLoad == {"loop", "fast", "cas", "clone", "work", "store", "backoff"}
Cloning == {"fast", "clone", "peek"}
Label == Returned \cup InLoad \cup {"peek", "panicked"}
LatchState == {PT_ON_DISK, PT_LOADING, PT_IN_MEMORY}

Init ==
  /\ state = PT_ON_DISK
  /\ data = Initial
  /\ pc = [t \in Threads |-> "ready"]
  /\ buf = [t \in Threads |-> Initial]
  /\ todo = [t \in Threads |-> {}]
  /\ spin_count = [t \in Threads |-> 0]
  /\ seen = [t \in Threads |-> PT_ON_DISK]
  /\ works = 0

Goto(t, label) == pc' = [pc EXCEPT ![t] = label]

CallLoad(t) ==
  /\ pc[t] \in Returned
  /\ Goto(t, "loop")
  /\ spin_count' = [spin_count EXCEPT ![t] = 0]
  /\ UNCHANGED <<state, data, buf, todo, seen, works>>

\* Mutant: the waiter takes the fast path while the loader is still storing.
LoadStateEager(t) ==
  /\ pc[t] = "loop"
  /\ \/ /\ state # PT_ON_DISK
        /\ Goto(t, "fast")
        /\ todo' = [todo EXCEPT ![t] = Words]
     \/ /\ state = PT_ON_DISK
        /\ Goto(t, "cas")
        /\ UNCHANGED todo
  /\ UNCHANGED <<state, data, buf, spin_count, seen, works>>

\* The head of the loop: one acquire load, and the match on it.  No store
\* writes another state, so the arm that returns Err("Invalid state") is dead.
LoadState(t) ==
  /\ pc[t] = "loop"
  /\ \/ /\ state = PT_IN_MEMORY
        /\ Goto(t, "fast")
        /\ todo' = [todo EXCEPT ![t] = Words]
     \/ /\ state = PT_ON_DISK
        /\ Goto(t, "cas")
        /\ UNCHANGED todo
     \/ /\ state = PT_LOADING
        /\ Goto(t, "backoff")
        /\ UNCHANGED todo
  /\ UNCHANGED <<state, data, buf, spin_count, seen, works>>

\* Mutant: a plain store instead of the compare_exchange.
CompareExchangeBlind(t) ==
  /\ pc[t] = "cas"
  /\ state' = PT_LOADING
  /\ Goto(t, "clone")
  /\ todo' = [todo EXCEPT ![t] = Words]
  /\ UNCHANGED <<data, buf, spin_count, seen, works>>

\* The loser of the race retries at once, without backing off.
CompareExchange(t) ==
  /\ pc[t] = "cas"
  /\ \/ /\ state = PT_ON_DISK
        /\ state' = PT_LOADING
        /\ Goto(t, "clone")
        /\ todo' = [todo EXCEPT ![t] = Words]
     \/ /\ state # PT_ON_DISK
        /\ Goto(t, "loop")
        /\ UNCHANGED <<state, todo>>
  /\ UNCHANGED <<data, buf, spin_count, seen, works>>

\* One word of a clone out of the cell: of the fast path, of the argument of
\* work, or of peek.
ReadWord(t, w) ==
  /\ pc[t] \in Cloning
  /\ w \in todo[t]
  /\ buf' = [buf EXCEPT ![t][w] = data[w]]
  /\ todo' = [todo EXCEPT ![t] = @ \ {w}]
  /\ UNCHANGED <<state, data, pc, spin_count, seen, works>>

FastReturn(t) ==
  /\ pc[t] = "fast"
  /\ todo[t] = {}
  /\ Goto(t, "ok")
  /\ UNCHANGED <<state, data, buf, todo, spin_count, seen, works>>

CallWork(t) ==
  /\ pc[t] = "clone"
  /\ todo[t] = {}
  /\ Goto(t, "work")
  /\ works' = works + 1
  /\ UNCHANGED <<state, data, buf, todo, spin_count, seen>>

WorkOk(t, v) ==
  /\ pc[t] = "work"
  /\ "ok" \in WorkOutcomes
  /\ Goto(t, "store")
  /\ buf' = [buf EXCEPT ![t] = v]
  /\ todo' = [todo EXCEPT ![t] = Words]
  /\ UNCHANGED <<state, data, spin_count, seen, works>>

\* `work(..)?` returns at once: nothing resets the state.
WorkErr(t) ==
  /\ pc[t] = "work"
  /\ "err" \in WorkOutcomes
  /\ Goto(t, "err")
  /\ UNCHANGED <<state, data, buf, todo, spin_count, seen, works>>

\* A panic in work unwinds the thread; the latch has no guard to run.
WorkPanic(t) ==
  /\ pc[t] = "work"
  /\ "panic" \in WorkOutcomes
  /\ Goto(t, "panicked")
  /\ UNCHANGED <<state, data, buf, todo, spin_count, seen, works>>

WriteWord(t, w) ==
  /\ pc[t] = "store"
  /\ w \in todo[t]
  /\ data' = [data EXCEPT ![w] = buf[t][w]]
  /\ todo' = [todo EXCEPT ![t] = @ \ {w}]
  /\ UNCHANGED <<state, pc, buf, spin_count, seen, works>>

\* Mutant: the state is stored before the data.
PublishEarly(t) ==
  /\ pc[t] = "store"
  /\ state' = PT_IN_MEMORY
  /\ Goto(t, IF todo[t] = {} THEN "ok" ELSE "store")
  /\ UNCHANGED <<data, buf, todo, spin_count, seen, works>>

\* The release store, and the return of what was loaded.
Publish(t) ==
  /\ pc[t] = "store"
  /\ todo[t] = {}
  /\ state' = PT_IN_MEMORY
  /\ Goto(t, "ok")
  /\ UNCHANGED <<data, buf, todo, spin_count, seen, works>>

\* Mutant: the counter is wider than the u8 it is inferred to be.
BackoffWide(t) ==
  /\ pc[t] = "backoff"
  /\ Goto(t, "loop")
  /\ spin_count' = [spin_count EXCEPT ![t] = @ + 1]
  /\ UNCHANGED <<state, data, buf, todo, seen, works>>

\* spin_loop, yield_now or sleep, which differ in time only, then
\* `spin_count += 1` on a u8.
Backoff(t) ==
  /\ pc[t] = "backoff"
  /\ \/ /\ spin_count[t] = CounterModulus - 1
        /\ OverflowChecks
        /\ Goto(t, "panicked")
        /\ UNCHANGED spin_count
     \/ /\ spin_count[t] < CounterModulus - 1 \/ ~OverflowChecks
        /\ Goto(t, "loop")
        /\ spin_count' =
             [spin_count EXCEPT ![t] = (@ + 1) % CounterModulus]
  /\ UNCHANGED <<state, data, buf, todo, seen, works>>

\* peek loads the state first and clones the data next, whatever the state.
CallPeek(t) ==
  /\ pc[t] \in Returned
  /\ Goto(t, "peek")
  /\ seen' = [seen EXCEPT ![t] = state]
  /\ todo' = [todo EXCEPT ![t] = Words]
  /\ UNCHANGED <<state, data, buf, spin_count, works>>

PeekReturn(t) ==
  /\ pc[t] = "peek"
  /\ todo[t] = {}
  /\ Goto(t, "peeked")
  /\ UNCHANGED <<state, data, buf, todo, spin_count, seen, works>>

\* What a thread does once it is inside a call.
Step(t) ==
  \/ LoadState(t) \/ CompareExchange(t) \/ FastReturn(t)
  \/ CallWork(t) \/ WorkErr(t) \/ WorkPanic(t)
  \/ Publish(t) \/ Backoff(t) \/ PeekReturn(t)
  \/ \E w \in Words : ReadWord(t, w) \/ WriteWord(t, w)
  \/ \E v \in Loaded : WorkOk(t, v)

Next == \E t \in Threads : CallLoad(t) \/ CallPeek(t) \/ Step(t)

Spec == Init /\ [][Next]_vars

\* Every thread is scheduled, and work terminates.  Nobody has to call.
FairSpec == Spec /\ \A t \in Threads : WF_vars(Step(t))
-----------------------------------------------------------------------------
\* Every variable stays in its range; in particular state is never a byte
\* that load answers with Err("Invalid state").
TypeOK ==
  /\ state \in LatchState
  /\ data \in [Words -> WordValue]
  /\ pc \in [Threads -> Label]
  /\ buf \in [Threads -> [Words -> WordValue]]
  /\ todo \in [Threads -> SUBSET Words]
  /\ spin_count \in [Threads -> 0 .. CounterModulus - 1]
  /\ seen \in [Threads -> LatchState]
  /\ works \in Nat

\* The SAFETY comment of load: while a loader stores to the cell no other
\* call of load reads or writes it.
ExclusiveStore ==
  \A t, u \in Threads :
    pc[t] = "store" /\ pc[u] \in {"fast", "clone", "work", "store"} => t = u

\* Every call of load that returned Ok, through the fast path or as the
\* loader, returned one and the same whole value that a work closure made.
LoadAgreement ==
  \A t, u \in Threads :
    pc[t] = "ok" /\ pc[u] = "ok" => buf[t] \in Loaded /\ buf[t] = buf[u]

\* "First thread gets the load": one work closure is ever called, and it is
\* given the untorn value the latch was made with, however many threads race
\* and whatever becomes of the loader.
WorkRunsOnce ==
  /\ works <= 1
  /\ \A t \in Threads : pc[t] = "work" => buf[t] = Initial

\* A peek that saw PT_IN_MEMORY returns the value that is in the cell for good.
PeekInMemoryIsExact ==
  \A t \in Threads :
    pc[t] = "peeked" /\ seen[t] = PT_IN_MEMORY
      => buf[t] = data /\ data \in Loaded

\* Once in memory, no later call moves the state or touches the data.
LoadedIsFinal == [][state = PT_IN_MEMORY => UNCHANGED <<state, data>>]_vars

\* The SAFETY comment of peek: having loaded the state with Acquire, peek can
\* read the data, so it returns a value that was once in the cell as a whole.
PeekIsWhole ==
  \A t \in Threads : pc[t] = "peeked" => buf[t] \in {Initial} \cup Loaded

\* Waiting for a loader is not an error: only a thread whose own work closure
\* panicked may panic in load.
WaitingNeverPanics ==
  \A t \in Threads : pc[t] = "panicked" => "panic" \in WorkOutcomes

\* Every call of load returns.
LoadReturns ==
  \A t \in Threads : pc[t] \in InLoad ~> pc[t] \notin InLoad
-----------------------------------------------------------------------------
\* The words already moved agree between the cell and the thread's copy.
Copied(t) == \A w \in Words \ todo[t] : buf[t][w] = data[w]

\* The threads between their compare_exchange and their release store.
Holding == {"clone", "work", "store"}

LoaderInv ==
  \A t \in Threads : pc[t] \in Holding =>
    /\ state = PT_LOADING
    /\ \A u \in Threads : pc[u] \in Holding => u = t

CellInv ==
  /\ works <= 1
  /\ state = PT_ON_DISK => works = 0 /\ data = Initial
  /\ state = PT_IN_MEMORY => data \in Loaded

ThreadInv(t) ==
  /\ pc[t] = "clone" => works = 0 /\ data = Initial /\ Copied(t)
  /\ pc[t] = "work" => works = 1 /\ data = Initial /\ buf[t] = Initial
  /\ pc[t] = "store" => works = 1 /\ buf[t] \in Loaded /\ Copied(t)
  /\ pc[t] = "fast" => state = PT_IN_MEMORY /\ Copied(t)
  /\ pc[t] = "ok" => state = PT_IN_MEMORY /\ buf[t] = data
  /\ pc[t] = "peek" /\ seen[t] = PT_IN_MEMORY
       => state = PT_IN_MEMORY /\ Copied(t)
  /\ pc[t] = "peeked" /\ seen[t] = PT_IN_MEMORY
       => state = PT_IN_MEMORY /\ buf[t] = data

\* The inductive invariant behind every safety property of the latch: who
\* holds the latch, what the cell holds in each state, and how far each
\* thread's copy of it has come.
LatchInv == LoaderInv /\ CellInv /\ \A t \in Threads : ThreadInv(t)
-----------------------------------------------------------------------------
\* The latch implements the write-once cell of OnceCell.
Status(label) ==
  IF label \in {"work", "store"} THEN "loading"
  ELSE IF label \in InLoad THEN "pending"
  ELSE IF label \in {"peek", "peeked"} THEN "ready"
  ELSE label

Cell == INSTANCE OnceCell WITH
  cell <- IF state = PT_IN_MEMORY THEN data ELSE Unset,
  tried <- works > 0,
  status <- [t \in Threads |-> Status(pc[t])],
  got <- [t \in Threads |-> IF pc[t] = "ok" THEN buf[t] ELSE Unset]

\* Seen from its callers, load is the write-once cell: one attempt, one
\* installed value, and hits that return it.
ImplementsOnceCell == Cell!OCSpec
=============================================================================
