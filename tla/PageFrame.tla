------------------------------ MODULE PageFrame ------------------------------
(***************************************************************************)
(* A page frame (src/buffer/page_frame.rs): a page behind a RwLock.  read  *)
(* and write take a guard, run the caller's closure on the bytes and drop  *)
(* the guard.  A closure is not atomic: it visits the page part by part,   *)
(* and may panic between two parts.  Dropping a write guard in a panic     *)
(* poisons the lock, and the unwrap of the next guard panics.              *)
(*                                                                         *)
(* Every write closure adds one to each part of the page it reads there,   *)
(* so that a lost or a torn update leaves parts that differ.               *)
(***************************************************************************)
EXTENDS Naturals

CONSTANTS Threads,    \* the threads that share the frame
          Parts,      \* the parts of a page a closure visits one by one
          MaxCalls,   \* bound: calls of one thread
          Nobody,     \* not a thread
          Nothing     \* not a version

ASSUME FrameAssumption ==
  /\ Parts # {} /\ MaxCalls \in Nat
  /\ Nobody \notin Threads /\ Nothing \notin Nat

VARIABLES page,       \* the bytes in the lock
          writer,     \* the holder of the write guard, or Nobody
          readers,    \* the holders of read guards
          poisoned,   \* the poison flag of the lock
          pc,         \* where each thread is
          todo,       \* the parts its closure has still to visit
          view,       \* what its read closure has seen of each part
          calls,      \* how many calls it made
          writes      \* history: write closures that came to their end

vars == <<page, writer, readers, poisoned, pc, todo, view, calls, writes>>
lock == <<writer, readers, poisoned>>

Label == {"idle", "read", "write", "reading", "writing", "panicked"}
Blank == [p \in Parts |-> Nothing]

Init ==
  /\ page = [p \in Parts |-> 0]
  /\ writer = Nobody /\ readers = {} /\ poisoned = FALSE
  /\ pc = [t \in Threads |-> "idle"]
  /\ todo = [t \in Threads |-> {}]
  /\ view = [t \in Threads |-> Blank]
  /\ calls = [t \in Threads |-> 0]
  /\ writes = 0

Goto(t, label) == pc' = [pc EXCEPT ![t] = label]

Call(t, op) ==
  /\ pc[t] = "idle" /\ calls[t] < MaxCalls
  /\ Goto(t, op)
  /\ calls' = [calls EXCEPT ![t] = @ + 1]
  /\ view' = [view EXCEPT ![t] = Blank]
  /\ UNCHANGED <<page, lock, todo, writes>>

\* latch.read() and latch.write() wait for these.
ReadFree  == writer = Nobody
WriteFree == writer = Nobody /\ readers = {}

\* The unwrap of a poisoned lock panics, and drops the guard in the error.
UnwrapPoisoned(t) ==
  /\ \/ pc[t] = "read" /\ ReadFree
     \/ pc[t] = "write" /\ WriteFree
  /\ poisoned
  /\ Goto(t, "panicked")
  /\ UNCHANGED <<page, lock, todo, view, calls, writes>>

\* Mutant: the read guard is taken from a poisoned lock too.
ReadGuardIntoInner(t) ==
  /\ pc[t] = "read" /\ ReadFree
  /\ Goto(t, "reading")
  /\ readers' = readers \cup {t}
  /\ todo' = [todo EXCEPT ![t] = Parts]
  /\ UNCHANGED <<page, writer, poisoned, view, calls, writes>>

ReadGuard(t) ==
  /\ pc[t] = "read" /\ ReadFree /\ ~poisoned
  /\ Goto(t, "reading")
  /\ readers' = readers \cup {t}
  /\ todo' = [todo EXCEPT ![t] = Parts]
  /\ UNCHANGED <<page, writer, poisoned, view, calls, writes>>

\* Mutant: the write guard shares the page with readers.
WriteGuardShared(t) ==
  /\ pc[t] = "write" /\ ReadFree /\ ~poisoned
  /\ Goto(t, "writing")
  /\ writer' = t
  /\ todo' = [todo EXCEPT ![t] = Parts]
  /\ UNCHANGED <<page, readers, poisoned, view, calls, writes>>

\* Mutant: the write guard is taken from a poisoned lock too.
WriteGuardIntoInner(t) ==
  /\ pc[t] = "write" /\ WriteFree
  /\ Goto(t, "writing")
  /\ writer' = t
  /\ todo' = [todo EXCEPT ![t] = Parts]
  /\ UNCHANGED <<page, readers, poisoned, view, calls, writes>>

WriteGuard(t) ==
  /\ pc[t] = "write" /\ WriteFree /\ ~poisoned
  /\ Goto(t, "writing")
  /\ writer' = t
  /\ todo' = [todo EXCEPT ![t] = Parts]
  /\ UNCHANGED <<page, readers, poisoned, view, calls, writes>>

Visited(t, p) == p \in todo[t] /\ todo' = [todo EXCEPT ![t] = @ \ {p}]

ReadPart(t, p) ==
  /\ pc[t] = "reading" /\ Visited(t, p)
  /\ view' = [view EXCEPT ![t][p] = page[p]]
  /\ UNCHANGED <<page, lock, pc, calls, writes>>

WritePart(t, p) ==
  /\ pc[t] = "writing" /\ Visited(t, p)
  /\ page' = [page EXCEPT ![p] = @ + 1]
  /\ UNCHANGED <<lock, pc, view, calls, writes>>

\* The closure returns and the guard is dropped.
EndRead(t) ==
  /\ pc[t] = "reading" /\ todo[t] = {}
  /\ Goto(t, "idle")
  /\ readers' = readers \ {t}
  /\ UNCHANGED <<page, writer, poisoned, todo, view, calls, writes>>

EndWrite(t) ==
  /\ pc[t] = "writing" /\ todo[t] = {}
  /\ Goto(t, "idle")
  /\ writer' = Nobody
  /\ writes' = writes + 1
  /\ UNCHANGED <<page, readers, poisoned, todo, view, calls>>

\* The closure panics: the guard is dropped while unwinding.
ReadPanic(t) ==
  /\ pc[t] = "reading"
  /\ Goto(t, "panicked")
  /\ readers' = readers \ {t}
  /\ view' = [view EXCEPT ![t] = Blank]
  /\ UNCHANGED <<page, writer, poisoned, todo, calls, writes>>

\* Mutant: the write guard is not dropped in a panic.
WritePanicHolding(t) ==
  /\ pc[t] = "writing"
  /\ Goto(t, "panicked")
  /\ poisoned' = TRUE
  /\ UNCHANGED <<page, writer, readers, todo, view, calls, writes>>

WritePanic(t) ==
  /\ pc[t] = "writing"
  /\ Goto(t, "panicked")
  /\ writer' = Nobody /\ poisoned' = TRUE
  /\ UNCHANGED <<page, readers, todo, view, calls, writes>>

\* What a thread does once it is inside a call.
Step(t) ==
  \/ ReadGuard(t) \/ WriteGuard(t) \/ UnwrapPoisoned(t)
  \/ \E p \in Parts : ReadPart(t, p) \/ WritePart(t, p)
  \/ EndRead(t) \/ EndWrite(t) \/ ReadPanic(t) \/ WritePanic(t)

Next == \E t \in Threads : Call(t, "read") \/ Call(t, "write") \/ Step(t)

Spec == Init /\ [][Next]_vars

\* Every thread is scheduled and closures end.  Nobody has to call.
FairSpec == Spec /\ \A t \in Threads : WF_vars(Step(t))
-----------------------------------------------------------------------------
\* Every variable stays in its range.
TypeOK ==
  /\ page \in [Parts -> Nat]
  /\ writer \in Threads \cup {Nobody} /\ readers \subseteq Threads
  /\ poisoned \in BOOLEAN
  /\ pc \in [Threads -> Label]
  /\ todo \in [Threads -> SUBSET Parts]
  /\ view \in [Threads -> [Parts -> Nat \cup {Nothing}]]
  /\ calls \in [Threads -> 0 .. MaxCalls]
  /\ writes \in Nat

\* The parts the running write closure, if any, has already rewritten.
Rewritten == IF writer = Nobody THEN {} ELSE Parts \ todo[writer]

\* The inductive invariant of the frame: guards belong to the threads inside
\* their closures, a writer is alone, and an unpoisoned page is the result of
\* the completed closures and of the part of the running one that is done,
\* which is what every reader sees; a call that read nothing has no view.
FrameInv ==
  /\ TypeOK
  /\ \A t \in Threads : pc[t] = "writing" <=> writer = t
  /\ \A t \in Threads : pc[t] = "reading" <=> t \in readers
  /\ writer # Nobody => readers = {} /\ ~poisoned
  /\ readers # {} => ~poisoned
  /\ ~poisoned => \A p \in Parts :
       page[p] = IF p \in Rewritten THEN writes + 1 ELSE writes
  /\ \A t \in readers : \A p \in Parts \ todo[t] : view[t][p] = writes
  /\ \A t \in Threads : pc[t] \in {"read", "write", "writing"} => view[t] = Blank

Whole(v, n) == v = [p \in Parts |-> n]

\* A read closure that returned saw every part in the same state: that left
\* by some number of whole write closures, never half of one, even when a
\* writer panicked in the middle of its closure (page_frame.rs:40-54).
ReadsWhole ==
  \A t \in Threads : pc[t] = "idle" =>
    view[t] = Blank \/ \E n \in 0 .. writes : Whole(view[t], n)

\* A page half rewritten by a closure that panicked is never rewritten again:
\* the lock stays poisoned, and the unwrap of write_guard (page_frame.rs:37)
\* keeps every later closure away from it.
PoisonIsFinal == [][poisoned => poisoned' /\ UNCHANGED <<page, writes>>]_vars

\* Every call of read and write returns or panics, also when another thread
\* panicked while it held the guard.
CallsEnd ==
  \A t \in Threads :
    pc[t] \in Label \ {"idle", "panicked"} ~> pc[t] \in {"idle", "panicked"}
-----------------------------------------------------------------------------
Status == [idle |-> "idle", read |-> "calling", write |-> "calling",
           reading |-> "read", writing |-> "calling", panicked |-> "dead"]

\* The version a thread has read: that of the lock while it holds the guard.
VersionOf(label, v, current) ==
  IF label = "reading" THEN current
  ELSE IF label = "idle" /\ \E n \in 0 .. current : Whole(v, n)
  THEN CHOOSE n \in 0 .. current : Whole(v, n)
  ELSE Nothing

Statuses == [t \in Threads |-> Status[pc[t]]]
Results  == [t \in Threads |-> VersionOf(pc[t], view[t], writes)]

Register == INSTANCE FrameRegister WITH
  version <- writes, lost <- poisoned, status <- Statuses, got <- Results

\* Seen through its closures the frame is an atomic page: each read closure
\* sees the page as it was at one instant of its call, each write closure
\* takes effect at one instant or poisons the frame.
ImplementsRegister == Register!FRSpec
=============================================================================
