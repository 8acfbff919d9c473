------------------------ MODULE PageTableLatchProofs ------------------------
(***************************************************************************)
(* Proofs about PageTableLatch for any number of threads, any type T (any  *)
(* set of words), any set of values the work closures return, any way they *)
(* end, and both builds.                                                   *)
(***************************************************************************)
EXTENDS PageTableLatch, TLAPS

USE LatchAssumption DEF PT_ON_DISK, PT_LOADING, PT_IN_MEMORY

\* The type invariant: state is one of the three bytes load knows, and the
\* u8 spin_count stays in its range, in a debug and in a release build.
THEOREM TypeCorrect == Spec => []TypeOK
<1>1. Init => TypeOK
  BY DEF Init, TypeOK, Label, LatchState, Returned, InLoad
<1>2. TypeOK /\ [Next]_vars => TypeOK'
  <2> SUFFICES ASSUME TypeOK, [Next]_vars PROVE TypeOK'
    OBVIOUS
  <2> USE DEF TypeOK, Goto, Label, LatchState, Returned, InLoad,
              Cloning
  <2>1. ASSUME NEW t \in Threads, CallLoad(t) PROVE TypeOK'
    BY <2>1 DEF CallLoad
  <2>2. ASSUME NEW t \in Threads, CallPeek(t) PROVE TypeOK'
    BY <2>2 DEF CallPeek
  <2>3. ASSUME NEW t \in Threads, LoadState(t) PROVE TypeOK'
    BY <2>3, SMTT(30) DEF LoadState
  <2>4. ASSUME NEW t \in Threads, CompareExchange(t) PROVE TypeOK'
    <3>1. state' \in LatchState /\ todo' \in [Threads -> SUBSET Words]
      BY <2>4, SMTT(30) DEF CompareExchange
    <3> QED
      BY <2>4, <3>1 DEF CompareExchange
  <2>5. ASSUME NEW t \in Threads, NEW w \in Words, ReadWord(t, w)
        PROVE TypeOK'
    BY <2>5 DEF ReadWord
  <2>6. ASSUME NEW t \in Threads, FastReturn(t) PROVE TypeOK'
    BY <2>6 DEF FastReturn
  <2>7. ASSUME NEW t \in Threads, CallWork(t) PROVE TypeOK'
    BY <2>7 DEF CallWork
  <2>8. ASSUME NEW t \in Threads, NEW v \in Loaded, WorkOk(t, v)
        PROVE TypeOK'
    BY <2>8 DEF WorkOk
  <2>9. ASSUME NEW t \in Threads, WorkErr(t) \/ WorkPanic(t) PROVE TypeOK'
    BY <2>9, SMTT(30) DEF WorkErr, WorkPanic
  <2>10. ASSUME NEW t \in Threads, NEW w \in Words, WriteWord(t, w)
         PROVE TypeOK'
    BY <2>10 DEF WriteWord
  <2>11. ASSUME NEW t \in Threads, Publish(t) PROVE TypeOK'
    <3>1. state' \in LatchState
      BY <2>11 DEF Publish
    <3> QED
      BY <2>11, <3>1 DEF Publish
  <2>12. ASSUME NEW t \in Threads, Backoff(t) PROVE TypeOK'
    <3>1. \A n \in Nat : n % CounterModulus \in 0 .. CounterModulus - 1
      OBVIOUS
    <3>2. spin_count' \in [Threads -> 0 .. CounterModulus - 1]
      BY <2>12, <3>1, SMTT(30) DEF Backoff
    <3>3. pc' \in [Threads -> Label]
      BY <2>12, SMTT(30) DEF Backoff
    <3> QED
      BY <2>12, <3>2, <3>3 DEF Backoff
  <2>13. ASSUME NEW t \in Threads, PeekReturn(t) PROVE TypeOK'
    BY <2>13 DEF PeekReturn
  <2>14. CASE UNCHANGED vars
    BY <2>14 DEF vars
  <2> QED
    BY <2>1, <2>2, <2>3, <2>4, <2>5, <2>6, <2>7, <2>8, <2>9, <2>10, <2>11,
       <2>12, <2>13, <2>14, SMTT(30) DEF Next, Step
<1> QED
  BY <1>1, <1>2, PTL DEF Spec

\* LatchInv is inductive: who holds the latch, what is in the cell, and how
\* far each copy of it has come.
THEOREM LatchInvariant == Spec => []LatchInv
<1>1. Init => LatchInv
  BY DEF Init, LatchInv, LoaderInv, CellInv, ThreadInv, Holding
<1>2. TypeOK /\ LatchInv /\ [Next]_vars => LatchInv'
  <2> SUFFICES ASSUME TypeOK, LatchInv, [Next]_vars PROVE LatchInv'
    OBVIOUS
  <2> USE DEF TypeOK, LatchInv, LoaderInv, CellInv, ThreadInv, Copied, Goto,
              Label, LatchState, Returned, InLoad, Cloning, Holding
  <2>1. ASSUME NEW t \in Threads, CallLoad(t) PROVE LatchInv'
    BY <2>1 DEF CallLoad
  <2>2. ASSUME NEW t \in Threads, CallPeek(t) PROVE LatchInv'
    BY <2>2 DEF CallPeek
  <2>3. ASSUME NEW t \in Threads, LoadState(t) PROVE LatchInv'
    BY <2>3 DEF LoadState
  <2>4. ASSUME NEW t \in Threads, CompareExchange(t) PROVE LatchInv'
    BY <2>4 DEF CompareExchange
  <2>5. ASSUME NEW t \in Threads, NEW w \in Words, ReadWord(t, w)
        PROVE LatchInv'
    BY <2>5 DEF ReadWord
  <2>6. ASSUME NEW t \in Threads, FastReturn(t) PROVE LatchInv'
    BY <2>6 DEF FastReturn
  <2>7. ASSUME NEW t \in Threads, CallWork(t) PROVE LatchInv'
    BY <2>7 DEF CallWork
  <2>8. ASSUME NEW t \in Threads, NEW v \in Loaded, WorkOk(t, v)
        PROVE LatchInv'
    BY <2>8 DEF WorkOk
  <2>9. ASSUME NEW t \in Threads, WorkErr(t) \/ WorkPanic(t) PROVE LatchInv'
    BY <2>9 DEF WorkErr, WorkPanic
  <2>10. ASSUME NEW t \in Threads, NEW w \in Words, WriteWord(t, w)
         PROVE LatchInv'
    BY <2>10, SMTT(30) DEF WriteWord
  <2>11. ASSUME NEW t \in Threads, Publish(t) PROVE LatchInv'
    BY <2>11 DEF Publish
  <2>12. ASSUME NEW t \in Threads, Backoff(t) PROVE LatchInv'
    BY <2>12 DEF Backoff
  <2>13. ASSUME NEW t \in Threads, PeekReturn(t) PROVE LatchInv'
    BY <2>13 DEF PeekReturn
  <2>14. CASE UNCHANGED vars
    BY <2>14 DEF vars
  <2> QED
    BY <2>1, <2>2, <2>3, <2>4, <2>5, <2>6, <2>7, <2>8, <2>9, <2>10, <2>11,
       <2>12, <2>13, <2>14, ZenonT(30) DEF Next, Step
<1> QED
  BY <1>1, <1>2, TypeCorrect, PTL DEF Spec

\* Data-race freedom of load, for every T and every number of threads: while
\* one call of load writes the words of data no other call of load reads or
\* writes them.
THEOREM StoreIsExclusive == Spec => []ExclusiveStore
<1>1. TypeOK /\ LatchInv => ExclusiveStore
  BY DEF TypeOK, LatchInv, LoaderInv, ThreadInv, ExclusiveStore, Holding
<1> QED
  BY <1>1, TypeCorrect, LatchInvariant, PTL

\* Any two calls of load that return a value return the same one, the value
\* that some work closure produced, whole.
THEOREM LoadsAgree == Spec => []LoadAgreement
<1>1. TypeOK /\ LatchInv => LoadAgreement
  BY DEF TypeOK, LatchInv, CellInv, ThreadInv, LoadAgreement
<1> QED
  BY <1>1, TypeCorrect, LatchInvariant, PTL

\* Whatever the number of racing callers, one work closure runs, once.
THEOREM OneWorkCall == Spec => []WorkRunsOnce
<1>1. TypeOK /\ LatchInv => WorkRunsOnce
  BY DEF TypeOK, LatchInv, CellInv, ThreadInv, WorkRunsOnce
<1> QED
  BY <1>1, TypeCorrect, LatchInvariant, PTL

\* A peek that saw PT_IN_MEMORY read the whole of the published value, although
\* it reads the words without a guard.
THEOREM PeekIsExact == Spec => []PeekInMemoryIsExact
<1>1. TypeOK /\ LatchInv => PeekInMemoryIsExact
  BY DEF TypeOK, LatchInv, CellInv, ThreadInv, PeekInMemoryIsExact
<1> QED
  BY <1>1, TypeCorrect, LatchInvariant, PTL

\* Once the state is PT_IN_MEMORY no step of any thread changes the state or
\* the data: this is what lets load return them without a lock.
THEOREM LoadedStaysFinal == Spec => LoadedIsFinal
<1>1. TypeOK /\ LatchInv /\ [Next]_vars
        => [state = PT_IN_MEMORY => UNCHANGED <<state, data>>]_vars
  <2> SUFFICES ASSUME TypeOK, LatchInv, Next, state = PT_IN_MEMORY
               PROVE UNCHANGED <<state, data>>
    OBVIOUS
  <2>1. PICK t \in Threads : CallLoad(t) \/ CallPeek(t) \/ Step(t)
    BY DEF Next
  <2>2. pc[t] \notin Holding
    BY DEF LatchInv, LoaderInv
  <2> QED
    BY <2>1, <2>2
       DEF CallLoad, CallPeek, Step, LoadState, CompareExchange, ReadWord,
           FastReturn, CallWork, WorkOk, WorkErr, WorkPanic, WriteWord,
           Publish, Backoff, PeekReturn, Holding
<1> QED
  BY <1>1, TypeCorrect, LatchInvariant, PTL DEF Spec, LoadedIsFinal

\* Every step of the latch is a step of the write-once cell or leaves it as it
\* is: to its callers load is one attempt, one installed value, and hits.
THEOREM LatchImplementsOnceCell == Spec => ImplementsOnceCell
<1>1. Init => Cell!OCInit
  BY DEF Init, Cell!OCInit, Status, InLoad
<1>2. TypeOK /\ LatchInv /\ [Next]_vars => [Cell!OCNext]_(Cell!ocVars)
  <2> SUFFICES ASSUME TypeOK, LatchInv, [Next]_vars
               PROVE Cell!OCNext \/ UNCHANGED Cell!ocVars
    OBVIOUS
  <2> USE DEF TypeOK, Goto, Status, Label, Returned, InLoad, Cell!Move,
              Cell!Finished
  <2>1. ASSUME NEW t \in Threads, CallLoad(t) PROVE Cell!Call(t)
    BY <2>1, ZenonT(30) DEF CallLoad, Cell!Call
  <2>2. ASSUME NEW t \in Threads, CallPeek(t) PROVE Cell!Forget(t)
    BY <2>2, ZenonT(30) DEF CallPeek, Cell!Forget
  <2>3. ASSUME NEW t \in Threads, LoadState(t) PROVE UNCHANGED Cell!ocVars
    BY <2>3 DEF LoadState, Cell!ocVars
  <2>4. ASSUME NEW t \in Threads, CompareExchange(t)
        PROVE UNCHANGED Cell!ocVars
    BY <2>4 DEF CompareExchange, Cell!ocVars
  <2>5. ASSUME NEW t \in Threads, NEW w \in Words, ReadWord(t, w)
        PROVE UNCHANGED Cell!ocVars
    BY <2>5 DEF ReadWord, Cloning, Cell!ocVars
  <2>6. ASSUME NEW t \in Threads, FastReturn(t) PROVE Cell!Hit(t)
    <3>1. state = PT_IN_MEMORY /\ buf[t] = data /\ data # Unset
      BY <2>6 DEF FastReturn, LatchInv, CellInv, ThreadInv, Copied
    <3> QED
      BY <2>6, <3>1, ZenonT(30) DEF FastReturn, Cell!Hit
  <2>7. ASSUME NEW t \in Threads, CallWork(t) PROVE Cell!Attempt(t)
    <3>1. works = 0 /\ works' = 1
      BY <2>7 DEF CallWork, LatchInv, ThreadInv
    <3>2. ~(works > 0) /\ (works' > 0) = TRUE
      BY <3>1
    <3>3. Cell!Move(t, "loading", Unset) /\ Status(pc[t]) = "pending"
      BY <2>7, ZenonT(30) DEF CallWork
    <3>4. UNCHANGED <<state, data>>
      BY <2>7 DEF CallWork
    <3> QED
      BY <3>2, <3>3, <3>4 DEF Cell!Attempt
  <2>8. ASSUME NEW t \in Threads, NEW v \in Loaded, WorkOk(t, v)
        PROVE UNCHANGED Cell!ocVars
    BY <2>8 DEF WorkOk, Cell!ocVars
  <2>9. ASSUME NEW t \in Threads, WorkErr(t) PROVE Cell!Fail(t)
    BY <2>9, ZenonT(30) DEF WorkErr, Cell!Fail
  <2>10. ASSUME NEW t \in Threads, WorkPanic(t) PROVE Cell!Die(t)
    BY <2>10, ZenonT(30) DEF WorkPanic, Cell!Die
  <2>11. ASSUME NEW t \in Threads, NEW w \in Words, WriteWord(t, w)
         PROVE UNCHANGED Cell!ocVars
    BY <2>11 DEF WriteWord, Cell!ocVars, LatchInv, LoaderInv, Holding
  <2>12. ASSUME NEW t \in Threads, Publish(t)
         PROVE Cell!Install(t, buf[t]) /\ buf[t] \in Loaded
    <3>1. state = PT_LOADING /\ buf[t] = data /\ buf[t] \in Loaded
      BY <2>12 DEF Publish, LatchInv, LoaderInv, Holding, ThreadInv, Copied
    <3>2. state' = PT_IN_MEMORY /\ data' = data /\ works' = works
      BY <2>12 DEF Publish
    <3>3. Status(pc[t]) = "loading"
      BY <2>12 DEF Publish
    <3>4. Cell!Move(t, "ok", buf[t])
      BY <2>12, ZenonT(30) DEF Publish
    <3>5. /\ (IF state = PT_IN_MEMORY THEN data ELSE Unset) = Unset
          /\ (IF state' = PT_IN_MEMORY THEN data' ELSE Unset) = buf[t]
          /\ (works' > 0) = (works > 0)
      BY <3>1, <3>2, SMTT(30)
    <3>6. [u \in Threads |-> Status(pc[u])][t] = "loading"
      BY <3>3, ZenonT(30)
    <3> HIDE DEF Status, Cell!Move
    <3> QED
      BY <3>1, <3>4, <3>5, <3>6, ZenonT(30) DEF Cell!Install
  <2>13. ASSUME NEW t \in Threads, Backoff(t)
         PROVE Cell!Die(t) \/ UNCHANGED Cell!ocVars
    BY <2>13, ZenonT(30) DEF Backoff, Cell!Die, Cell!ocVars
  <2>14. ASSUME NEW t \in Threads, PeekReturn(t) PROVE UNCHANGED Cell!ocVars
    BY <2>14 DEF PeekReturn, Cell!ocVars
  <2>15. CASE UNCHANGED vars
    BY <2>15 DEF vars, Cell!ocVars
  <2> HIDE DEF TypeOK, Goto, Status, Label, Returned, InLoad, Cell!Move,
               Cell!Finished
  <2>16. ASSUME NEW t \in Threads, CallLoad(t) \/ CallPeek(t) \/ Step(t)
         PROVE Cell!OCNext \/ UNCHANGED Cell!ocVars
    BY <2>1, <2>2, <2>3, <2>4, <2>5, <2>6, <2>7, <2>8, <2>9, <2>10, <2>11,
       <2>12, <2>13, <2>14, <2>16, Zenon DEF Step, Cell!OCNext
  <2> QED
    BY <2>15, <2>16 DEF Next
<1> QED
  BY <1>1, <1>2, TypeCorrect, LatchInvariant, PTL
     DEF Spec, ImplementsOnceCell, Cell!OCSpec
=============================================================================
