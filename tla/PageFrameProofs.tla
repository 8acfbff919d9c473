--------------------------- MODULE PageFrameProofs ---------------------------
(***************************************************************************)
(* The safety of the page frame for any number of threads, parts and calls.*)
(***************************************************************************)
EXTENDS PageFrame, TLAPS

\* A frame fresh from PageFrame::new satisfies the invariant.
LEMMA InitInv == Init => FrameInv
<1> SUFFICES ASSUME Init PROVE FrameInv
  OBVIOUS
<1>1. TypeOK
  <2>1. view \in [Threads -> [Parts -> Nat \cup {Nothing}]]
    BY DEF Init, Blank
  <2>2. calls \in [Threads -> 0 .. MaxCalls]
    BY FrameAssumption DEF Init
  <2> QED
    BY <2>1, <2>2 DEF Init, TypeOK, Label
<1> QED
  BY <1>1, FrameAssumption DEF Init, FrameInv, Rewritten

\* No step of a thread breaks the invariant: guards and program counters
\* agree, and the page is what the write closures made of it.
LEMMA StepInv == FrameInv /\ [Next]_vars => FrameInv'
<1> SUFFICES ASSUME FrameInv, [Next]_vars PROVE FrameInv'
  OBVIOUS
<1> USE FrameAssumption
<1>1. ASSUME NEW t \in Threads, NEW op \in {"read", "write"}, Call(t, op)
      PROVE  FrameInv'
  BY <1>1 DEF FrameInv, TypeOK, Label, Blank, Rewritten, Call, Goto, lock
<1>2. ASSUME NEW t \in Threads, UnwrapPoisoned(t) PROVE FrameInv'
  BY <1>2 DEF FrameInv, TypeOK, Label, Rewritten, UnwrapPoisoned, Goto, lock,
              ReadFree, WriteFree
<1>3. ASSUME NEW t \in Threads, ReadGuard(t) PROVE FrameInv'
  BY <1>3 DEF FrameInv, TypeOK, Label, Rewritten, ReadGuard, Goto, ReadFree
<1>4. ASSUME NEW t \in Threads, WriteGuard(t) PROVE FrameInv'
  BY <1>4 DEF FrameInv, TypeOK, Label, Rewritten, WriteGuard, Goto, WriteFree
<1>5. ASSUME NEW t \in Threads, NEW p \in Parts, ReadPart(t, p) PROVE FrameInv'
  BY <1>5 DEF FrameInv, TypeOK, Label, Rewritten, ReadPart, Visited, lock
<1>6. ASSUME NEW t \in Threads, NEW p \in Parts, WritePart(t, p) PROVE FrameInv'
  BY <1>6 DEF FrameInv, TypeOK, Label, Rewritten, WritePart, Visited, lock
<1>7. ASSUME NEW t \in Threads, EndRead(t) PROVE FrameInv'
  BY <1>7 DEF FrameInv, TypeOK, Label, Rewritten, EndRead, Goto
<1>8. ASSUME NEW t \in Threads, EndWrite(t) PROVE FrameInv'
  BY <1>8 DEF FrameInv, TypeOK, Label, Rewritten, EndWrite, Goto
<1>9. ASSUME NEW t \in Threads, ReadPanic(t) PROVE FrameInv'
  BY <1>9 DEF FrameInv, TypeOK, Label, Blank, Rewritten, ReadPanic, Goto
<1>10. ASSUME NEW t \in Threads, WritePanic(t) PROVE FrameInv'
  BY <1>10 DEF FrameInv, TypeOK, Label, Rewritten, WritePanic, Goto
<1>11. CASE UNCHANGED vars
  BY <1>11 DEF FrameInv, TypeOK, Rewritten, vars
<1> QED
  BY <1>1, <1>2, <1>3, <1>4, <1>5, <1>6, <1>7, <1>8, <1>9, <1>10, <1>11
     DEF Next, Step

\* The inductive invariant of page_frame.rs: a writer is alone with the page,
\* and an unpoisoned page is what whole write closures left of it.
THEOREM FrameInvariant == Spec => []FrameInv
BY InitInv, StepInv, PTL DEF Spec

\* A view of a finished read stays a whole version, and a read that ends has
\* seen nothing but the version of its guard.
LEMMA WholeStep == FrameInv /\ ReadsWhole /\ [Next]_vars => ReadsWhole'
<1> SUFFICES ASSUME FrameInv, ReadsWhole, [Next]_vars,
                    NEW u \in Threads, pc'[u] = "idle"
             PROVE  view'[u] = Blank \/ \E n \in 0 .. writes' : Whole(view'[u], n)
  BY DEF ReadsWhole
<1> USE FrameAssumption
<1>1. writes \in Nat /\ (writes' = writes \/ writes' = writes + 1)
  <2>1. writes \in Nat
    BY DEF FrameInv, TypeOK
  <2>2. CASE UNCHANGED vars
    BY <2>1, <2>2 DEF vars
  <2>3. CASE Next
    BY <2>1, <2>3, SMTT(30) DEF Next, Step, Call, UnwrapPoisoned, ReadGuard, WriteGuard,
       ReadPart, WritePart, EndRead, EndWrite, ReadPanic, WritePanic
  <2> QED BY <2>1, <2>2, <2>3
<1>2. CASE pc[u] = "idle" /\ view'[u] = view[u]
  BY <1>1, <1>2 DEF ReadsWhole, Whole
<1>3. CASE view'[u] = Blank
  BY <1>3
<1>4. CASE EndRead(u)
  <2>1. view'[u] = [p \in Parts |-> writes]
    BY <1>4 DEF EndRead, FrameInv, TypeOK
  <2> QED BY <1>1, <2>1 DEF Whole
<1>5. CASE EndWrite(u)
  BY <1>5 DEF EndWrite, FrameInv, TypeOK
<1> QED
  BY <1>2, <1>3, <1>4, <1>5
     DEF Next, Step, Call, UnwrapPoisoned, ReadGuard, WriteGuard, Goto, vars,
         ReadPart, WritePart, EndRead, EndWrite, ReadPanic, WritePanic, FrameInv, TypeOK

\* No read closure that returned ever saw half a write closure, also after a
\* panic in the middle of one.
THEOREM ReadersSeeWholePages == Spec => []ReadsWhole
<1>1. Init => ReadsWhole
  BY DEF Init, ReadsWhole
<1> QED
  BY <1>1, WholeStep, FrameInvariant, PTL DEF Spec

\* A poisoned page is frozen: nobody holds a write guard, and none is given.
THEOREM PoisonStays == Spec => PoisonIsFinal
<1>1. FrameInv /\ [Next]_vars => [poisoned => poisoned' /\ UNCHANGED <<page, writes>>]_vars
  BY FrameAssumption
     DEF FrameInv, Next, Step, Call, UnwrapPoisoned, ReadGuard, WriteGuard, lock, vars,
         ReadPart, WritePart, EndRead, EndWrite, ReadPanic, WritePanic
<1> QED
  BY <1>1, FrameInvariant, PTL DEF Spec, PoisonIsFinal

\* A view that is whole has one version.
LEMMA VersionWhole ==
  ASSUME NEW v, NEW current \in Nat, NEW n \in 0 .. current, Whole(v, n)
  PROVE  VersionOf("idle", v, current) = n
<1>1. \A m \in 0 .. current : Whole(v, m) => m = n
  <2> SUFFICES ASSUME NEW m \in 0 .. current, Whole(v, m) PROVE m = n
    OBVIOUS
  <2>1. PICK p \in Parts : TRUE
    BY FrameAssumption
  <2>2. v[p] = m /\ v[p] = n
    BY DEF Whole
  <2> QED BY <2>2
<1> QED BY <1>1 DEF VersionOf

\* A call that read nothing has no version.
LEMMA VersionBlank ==
  ASSUME NEW label, NEW current \in Nat, label # "reading"
  PROVE  VersionOf(label, Blank, current) = Nothing
<1>1. \A n \in 0 .. current : ~Whole(Blank, n)
  <2> SUFFICES ASSUME NEW n \in 0 .. current, Whole(Blank, n) PROVE FALSE
    OBVIOUS
  <2>1. PICK p \in Parts : TRUE
    BY FrameAssumption
  <2>2. Blank[p] = n /\ Blank[p] = Nothing
    BY DEF Whole, Blank
  <2> QED BY <2>2, FrameAssumption
<1> QED BY <1>1 DEF VersionOf

\* What the thread u has read is not changed by a step that leaves u alone.
LEMMA VersionKept ==
  ASSUME FrameInv, ReadsWhole, NEW u \in Threads,
         pc'[u] = pc[u], view'[u] = view[u],
         writes' = writes \/ (writes' = writes + 1 /\ pc[u] # "reading")
  PROVE  VersionOf(pc'[u], view'[u], writes') = VersionOf(pc[u], view[u], writes)
<1> writes \in Nat
  BY DEF FrameInv, TypeOK
<1>1. CASE writes' = writes
  BY <1>1
<1>2. CASE writes' = writes + 1 /\ pc[u] # "idle" /\ pc[u] # "reading"
  BY <1>2 DEF VersionOf
<1>3. CASE writes' = writes + 1 /\ pc[u] = "idle" /\ view[u] = Blank
  <2>1. VersionOf("idle", Blank, writes) = Nothing /\ VersionOf("idle", Blank, writes + 1) = Nothing
    BY VersionBlank
  <2> QED BY <1>3, <2>1
<1>4. CASE writes' = writes + 1 /\ pc[u] = "idle" /\ view[u] # Blank
  <2>1. PICK n \in 0 .. writes : Whole(view[u], n)
    BY <1>4 DEF ReadsWhole
  <2>2. VersionOf("idle", view[u], writes) = n
    BY <2>1, VersionWhole
  <2>3. n \in 0 .. writes + 1 /\ writes + 1 \in Nat
    OBVIOUS
  <2>4. VersionOf("idle", view[u], writes + 1) = n
    BY <2>1, <2>3, VersionWhole
  <2> QED BY <1>4, <2>2, <2>4
<1> QED BY <1>1, <1>2, <1>3, <1>4

\* A step of one thread, seen from the register, changes the status and the
\* result of that thread only.
LEMMA BecomeStep ==
  ASSUME FrameInv, ReadsWhole, NEW t \in Threads, NEW label \in Label, Goto(t, label),
         \A u \in Threads \ {t} : view'[u] = view[u],
         \/ writes' = writes
         \/ writes' = writes + 1 /\ \A u \in Threads : pc[u] # "reading"
  PROVE  /\ Statuses' = [Statuses EXCEPT ![t] = Status[label]]
         /\ Results' = [Results EXCEPT ![t] = VersionOf(label, view'[t], writes')]
<1>1. pc' = [pc EXCEPT ![t] = label] /\ pc \in [Threads -> Label]
  BY DEF Goto, FrameInv, TypeOK
<1>2. ASSUME NEW u \in Threads, u # t
      PROVE  VersionOf(pc'[u], view'[u], writes') = VersionOf(pc[u], view[u], writes)
  BY <1>1, <1>2, VersionKept
<1>3. pc'[t] = label
  BY <1>1
<1>4. Statuses' = [Statuses EXCEPT ![t] = Status[label]]
  BY <1>1 DEF Statuses
<1>5. Results' = [Results EXCEPT ![t] = VersionOf(label, view'[t], writes')]
  BY <1>2, <1>3 DEF Results
<1> QED
  BY <1>4, <1>5

\* Every step of the frame is a step of the register, or none.
LEMMA RegisterStep ==
  FrameInv /\ ReadsWhole /\ [Next]_vars => [Register!FRNext]_(Register!frVars)
<1> SUFFICES ASSUME FrameInv, ReadsWhole, [Next]_vars
             PROVE  Register!FRNext \/ UNCHANGED Register!frVars
  OBVIOUS
<1> USE FrameAssumption
<1> writes \in Nat /\ pc \in [Threads -> Label] /\ view \in [Threads -> [Parts -> Nat \cup {Nothing}]]
  BY DEF FrameInv, TypeOK
<1> DEFINE Moved(t, label, v) == /\ Statuses' = [Statuses EXCEPT ![t] = Status[label]]
                                 /\ Results' = [Results EXCEPT ![t] = v]
<1>0. \A u \in Threads : /\ Statuses[u] = Status[pc[u]]
                         /\ Results[u] = VersionOf(pc[u], view[u], writes)
  BY DEF Statuses, Results
<1>a. /\ Status["idle"] = "idle" /\ Status["read"] = "calling"
      /\ Status["write"] = "calling" /\ Status["reading"] = "read"
      /\ Status["writing"] = "calling" /\ Status["panicked"] = "dead"
  BY DEF Status
<1>1. ASSUME NEW t \in Threads, NEW op \in {"read", "write"}, Call(t, op)
      PROVE  Register!Call(t)
  <2>1. Moved(t, op, VersionOf(op, view'[t], writes'))
    BY <1>1, BecomeStep DEF Call, Label
  <2>2. view'[t] = Blank /\ writes' = writes
    BY <1>1 DEF Call
  <2>3. VersionOf(op, view'[t], writes') = Nothing
    BY <2>2, VersionBlank
  <2> QED BY <1>a, <1>0, <1>1, <2>1, <2>2, <2>3, ZenonT(30) DEF Register!Call, Register!Become, Call, lock
<1>2. ASSUME NEW t \in Threads, UnwrapPoisoned(t) PROVE Register!Die(t)
  <2>1. Moved(t, "panicked", VersionOf("panicked", view'[t], writes'))
    BY <1>2, BecomeStep DEF UnwrapPoisoned, Label
  <2>2. VersionOf("panicked", view'[t], writes') = Nothing
    BY DEF VersionOf
  <2> QED BY <1>a, <1>0, <1>2, <2>1, <2>2, ZenonT(30) DEF Register!Die, Register!Become, UnwrapPoisoned, lock
<1>3. ASSUME NEW t \in Threads, ReadGuard(t) PROVE Register!ReadAll(t)
  <2>1. Moved(t, "reading", VersionOf("reading", view'[t], writes'))
    BY <1>3, BecomeStep DEF ReadGuard, Label
  <2>2. VersionOf("reading", view'[t], writes') = writes
    BY <1>3 DEF VersionOf, ReadGuard
  <2> QED BY <1>a, <1>0, <1>3, <2>1, <2>2, ZenonT(30) DEF Register!ReadAll, Register!Become, ReadGuard
<1>4. ASSUME NEW t \in Threads, WriteGuard(t) PROVE UNCHANGED Register!frVars
  <2>1. \A u \in Threads : Status[pc'[u]] = Status[pc[u]]
    BY <1>4 DEF WriteGuard, Goto, Status
  <2>2. ASSUME NEW u \in Threads
        PROVE  VersionOf(pc'[u], view'[u], writes') = VersionOf(pc[u], view[u], writes)
    <3>1. CASE u # t
      BY <1>4, <3>1 DEF WriteGuard, Goto
    <3>2. CASE u = t
      BY <1>4, <3>2 DEF WriteGuard, Goto, VersionOf
    <3> QED BY <3>1, <3>2
  <2> QED BY <1>4, <2>1, <2>2 DEF Register!frVars, Statuses, Results, WriteGuard
<1>5. ASSUME NEW t \in Threads, NEW p \in Parts, ReadPart(t, p) PROVE UNCHANGED Register!frVars
  <2>2. ASSUME NEW u \in Threads
        PROVE  VersionOf(pc'[u], view'[u], writes') = VersionOf(pc[u], view[u], writes)
    <3>1. CASE u # t
      BY <1>5, <3>1 DEF ReadPart
    <3>2. CASE u = t
      BY <1>5, <3>2 DEF ReadPart, VersionOf
    <3> QED BY <3>1, <3>2
  <2> QED BY <1>5, <2>2, ZenonT(30) DEF Register!frVars, Statuses, Results, ReadPart, lock
<1>6. ASSUME NEW t \in Threads, NEW p \in Parts, WritePart(t, p) PROVE UNCHANGED Register!frVars
  BY <1>6 DEF WritePart, Register!frVars, Statuses, Results, lock
<1>7. ASSUME NEW t \in Threads, EndRead(t) PROVE Register!Return(t)
  <2>1. Moved(t, "idle", VersionOf("idle", view'[t], writes'))
    BY <1>7, BecomeStep DEF EndRead, Label
  <2>2. Whole(view'[t], writes) /\ writes' = writes
    <3>1. \A p \in Parts : view[t][p] = writes
      BY <1>7 DEF EndRead, FrameInv
    <3> QED BY <1>7, <3>1 DEF Whole, EndRead
  <2>3. VersionOf("idle", view'[t], writes') = writes
    BY <2>2, VersionWhole
  <2>4. VersionOf(pc[t], view[t], writes) = writes
    BY <1>7 DEF EndRead, VersionOf
  <2> QED BY <1>a, <1>0, <1>7, <2>1, <2>3, <2>4, ZenonT(30) DEF Register!Return, Register!Become, EndRead
<1>8. ASSUME NEW t \in Threads, EndWrite(t) PROVE Register!RewriteAll(t)
  <2>1. view'[t] = Blank /\ writes' = writes + 1
    BY <1>8 DEF EndWrite, FrameInv
  <2>2. \A u \in Threads : pc[u] # "reading"
    BY <1>8 DEF EndWrite, FrameInv
  <2>3. Moved(t, "idle", VersionOf("idle", view'[t], writes'))
    BY <1>8, <2>1, <2>2, BecomeStep DEF EndWrite, Label
  <2>4. VersionOf("idle", view'[t], writes') = Nothing
    BY <2>1, VersionBlank
  <2>5. ~poisoned
    BY <1>8 DEF EndWrite, FrameInv
  <2> QED BY <1>a, <1>0, <1>8, <2>1, <2>3, <2>4, <2>5, ZenonT(30) DEF Register!RewriteAll, Register!Become, EndWrite
<1>9. ASSUME NEW t \in Threads, ReadPanic(t) PROVE Register!Die(t)
  <2>1. Moved(t, "panicked", VersionOf("panicked", view'[t], writes'))
    BY <1>9, BecomeStep DEF ReadPanic, Label
  <2>2. VersionOf("panicked", view'[t], writes') = Nothing
    BY DEF VersionOf
  <2> QED BY <1>a, <1>0, <1>9, <2>1, <2>2, ZenonT(30) DEF Register!Die, Register!Become, ReadPanic
<1>10. ASSUME NEW t \in Threads, WritePanic(t) PROVE Register!CutShort(t)
  <2>1. Moved(t, "panicked", VersionOf("panicked", view'[t], writes'))
    BY <1>10, BecomeStep DEF WritePanic, Label
  <2>2. VersionOf("panicked", view'[t], writes') = Nothing
    BY DEF VersionOf
  <2>3. ~poisoned
    BY <1>10 DEF WritePanic, FrameInv
  <2> QED BY <1>a, <1>0, <1>10, <2>1, <2>2, <2>3, ZenonT(30) DEF Register!CutShort, Register!Become, WritePanic
<1>11. CASE UNCHANGED vars
  BY <1>11 DEF vars, Register!frVars, Statuses, Results
<1> HIDE DEF Moved
<1> QED
  BY <1>1, <1>2, <1>3, <1>4, <1>5, <1>6, <1>7, <1>8, <1>9, <1>10, <1>11
     DEF Next, Step, Register!FRNext

\* The frame implements the atomic page: its closures take effect at one
\* instant each, or poison it, for any number of threads and parts.
THEOREM FrameImplementsRegister == Spec => ImplementsRegister
<1>1. Init => Register!FRInit
  <2> SUFFICES ASSUME Init PROVE Register!FRInit
    OBVIOUS
  <2>1. writes = 0 /\ \A t \in Threads : pc[t] = "idle" /\ view[t] = Blank
    BY DEF Init
  <2>2. \A t \in Threads : VersionOf(pc[t], view[t], writes) = Nothing
    BY <2>1, VersionBlank
  <2> QED BY <2>1, <2>2 DEF Init, Register!FRInit, Status, Statuses, Results
<1> QED
  BY <1>1, RegisterStep, FrameInvariant, ReadersSeeWholePages, PTL
     DEF Spec, ImplementsRegister, Register!FRSpec
=============================================================================
