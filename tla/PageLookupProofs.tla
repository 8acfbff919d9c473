--------------------------- MODULE PageLookupProofs ---------------------------
(***************************************************************************)
(* Proofs about PageLookup, for any number of threads, entries and frames: *)
(* the inductive invariant of the composed protocol, that it implements    *)
(* MappingTable, and that a page id resolves to one frame.                 *)
(***************************************************************************)
EXTENDS PageLookup, TLAPS

\* The offset of a page id is a number.
LEMMA OffsetType == ASSUME NEW id \in PageIDs PROVE ToOffset(id) \in Nat
BY IdentityAssumption DEF ToOffset

\* The results of page_table.rs:54-58 are told apart by their tags.
LEMMA Results ==
  /\ \A n \in Nat : Disk(n) \in PageTableResult /\ Disk(n).tag = "Disk" /\ Disk(n).addr = n
  /\ \A f \in Frames :
       Memory(f) \in PageTableResult /\ Memory(f).tag = "Memory" /\ Memory(f).addr = f
  /\ \A r \in PageTableResult :
       \/ r.tag = "Disk" /\ r.addr \in Nat
       \/ r.tag = "Memory" /\ r.addr \in Frames /\ r = Memory(r.addr)
  /\ Blank \in PageTableResult /\ Blank.tag = "Disk"
<1>1. \A n \in Nat : Disk(n) \in PageTableResult /\ Disk(n).tag = "Disk" /\ Disk(n).addr = n
  BY DEF Disk, PageTableResult
<1>2. \A f \in Frames :
        Memory(f) \in PageTableResult /\ Memory(f).tag = "Memory" /\ Memory(f).addr = f
  BY DEF Memory, PageTableResult
<1>3. \A r \in PageTableResult :
        \/ r.tag = "Disk" /\ r.addr \in Nat
        \/ r.tag = "Memory" /\ r.addr \in Frames /\ r = Memory(r.addr)
  BY DEF Memory, PageTableResult
<1>4. QED BY <1>1, <1>2, <1>3 DEF Blank

USE DEF PT_ON_DISK, PT_LOADING, PT_IN_MEMORY

\* The inductive step of LookupInv, action by action.
LEMMA InvStep == ASSUME LookupInv, [Next]_vars PROVE LookupInv'
<1> USE Results, OffsetType, LookupAssumption
    DEF LookupInv, LookupTypeOK, EntryInv, ThreadInv, table, latches, Loading, InLoad,
        Goto, Return, Panic, Take
<1>1. ASSUME NEW t \in Threads, NEW id \in PageIDs, NEW h \in Handles, New(t, id, h)
      PROVE  LookupInv'
  <2>1. LookupTypeOK' BY <1>1 DEF New
  <2>2. (\A x \in PageIDs : map[x] # None => state[map[x]] # None)' BY <1>1 DEF New
  <2>3. (\A g \in Handles : EntryInv(g))' BY <1>1, IdentityAssumption DEF New
  <2>4. (\A u \in Threads : ThreadInv(u))' BY <1>1 DEF New
  <2>5. QED BY <2>1, <2>2, <2>3, <2>4, SMTT(30)
<1>i. ASSUME NEW t \in Threads, NEW id \in PageIDs, Insert(t, id)
      PROVE  LookupInv'
  BY <1>i DEF Insert
<1>c. ASSUME NEW t \in Threads, Load(t)
      PROVE  LookupInv'
  BY <1>c DEF Load
<1>2. ASSUME NEW t \in Threads, NEW id \in PageIDs, NewPanics(t, id)
      PROVE  LookupInv'
  BY <1>2 DEF NewPanics
<1>3. ASSUME NEW t \in Threads, NEW id \in PageIDs, Get(t, id)
      PROVE  LookupInv'
  BY <1>3, SMTT(30) DEF Get
<1>4. ASSUME NEW t \in Threads, LoadState(t)
      PROVE  LookupInv'
  BY <1>4, SMTT(30) DEF LoadState
<1>5. ASSUME NEW t \in Threads, CompareExchange(t)
      PROVE  LookupInv'
  <2>1. LookupTypeOK'
    <3>1. CASE state[held[t]] = PT_ON_DISK
      <4>1. data[held[t]] \in PageTableResult BY <1>5 DEF CompareExchange
      <4>2. /\ state' = [state EXCEPT ![held[t]] = PT_LOADING] /\ pc' = [pc EXCEPT ![t] = "work"]
            /\ local' = [local EXCEPT ![t] = data[held[t]]]
            /\ UNCHANGED <<table, data, failed, filled, want, held, got>>
        BY <1>5, <3>1, Zenon DEF CompareExchange
      <4>3. local' \in [Threads -> PageTableResult] BY <4>1, <4>2
      <4>4. state' \in [Handles -> {None, PT_ON_DISK, PT_LOADING, PT_IN_MEMORY}] BY <4>2, Zenon
      <4>5. pc' \in [Threads -> InLoad \cup {"idle", "made", "panicked"}] BY <4>2
      <4>6. UNCHANGED <<map, made, data, filled, want, held, got, failed>> BY <4>2, Zenon
      <4>7. QED BY <4>3, <4>4, <4>5, <4>6, Zenon
    <3>2. CASE state[held[t]] # PT_ON_DISK BY <1>5, <3>2, SMTT(30) DEF CompareExchange
    <3>3. QED BY <3>1, <3>2, Zenon
  <2>2. (\A x \in PageIDs : map[x] # None => state[map[x]] # None)' BY <1>5 DEF CompareExchange
  <2>3. (\A g \in Handles : EntryInv(g))' BY <1>5, SMTT(30) DEF CompareExchange
  <2>4. (\A u \in Threads : ThreadInv(u))' BY <1>5, SMTT(30) DEF CompareExchange
  <2>5. QED BY <2>1, <2>2, <2>3, <2>4, SMTT(30)
<1>6. ASSUME NEW t \in Threads, NEW f \in Frames, WorkOk(t, f)
      PROVE  LookupInv'
  <2>1. LookupTypeOK' BY <1>6, SMTT(30) DEF WorkOk
  <2>2. (\A x \in PageIDs : map[x] # None => state[map[x]] # None)' BY <1>6 DEF WorkOk
  <2>3. (\A g \in Handles : EntryInv(g))' BY <1>6 DEF WorkOk
  <2>4. (\A u \in Threads : ThreadInv(u))' BY <1>6, SMTT(30) DEF WorkOk
  <2>5. QED BY <2>1, <2>2, <2>3, <2>4, SMTT(30)
<1>7. ASSUME NEW t \in Threads, WorkErr(t)
      PROVE  LookupInv'
  BY <1>7, SMTT(30) DEF WorkErr
<1>8. ASSUME NEW t \in Threads, WorkPanic(t)
      PROVE  LookupInv'
  BY <1>8, SMTT(30) DEF WorkPanic
<1>9. ASSUME NEW t \in Threads, Store(t)
      PROVE  LookupInv'
  <2>1. LookupTypeOK' BY <1>9, SMTT(30) DEF Store
  <2>2. (\A x \in PageIDs : map[x] # None => state[map[x]] # None)' BY <1>9 DEF Store
  <2>3. (\A g \in Handles : EntryInv(g))' BY <1>9, SMTT(30) DEF Store
  <2>4. (\A u \in Threads : ThreadInv(u))' BY <1>9, SMTT(30) DEF Store
  <2>5. QED BY <2>1, <2>2, <2>3, <2>4, SMTT(30)
<1>10. ASSUME NEW t \in Threads, Publish(t)
      PROVE  LookupInv'
  <2>1. LookupTypeOK' BY <1>10, SMTT(30) DEF Publish
  <2>2. (\A x \in PageIDs : map[x] # None => state[map[x]] # None)' BY <1>10 DEF Publish
  <2>3. (\A g \in Handles : EntryInv(g))' BY <1>10 DEF Publish
  <2>4. (\A u \in Threads : ThreadInv(u))' BY <1>10, SMTT(30) DEF Publish
  <2>5. QED BY <2>1, <2>2, <2>3, <2>4, SMTT(30)
<1>11. ASSUME NEW t \in Threads, FastReturn(t)
      PROVE  LookupInv'
  BY <1>11, SMTT(30) DEF FastReturn
<1>12. ASSUME NEW t \in Threads, Backoff(t)
      PROVE  LookupInv'
  <2>1. CASE Goto(t, "loop") /\ UNCHANGED <<want, held, local, got>>
    BY <1>12, <2>1, SMTT(30) DEF Backoff
  <2>2. CASE Panic(t) BY <1>12, <2>2, SMTT(30) DEF Backoff
  <2>3. QED BY <1>12, <2>1, <2>2, SMTT(30) DEF Backoff
<1>13. ASSUME UNCHANGED vars PROVE LookupInv' BY <1>13, SMTT(30) DEF vars
<1>14. QED BY <1>1, <1>i, <1>c, <1>2, <1>3, <1>4, <1>5, <1>6, <1>7,
           <1>8, <1>9, <1>10, <1>11, <1>12, <1>13, Zenon DEF Next, Step

\* LookupInv is an invariant of the composed protocol.
THEOREM LookupInvariant == Spec => []LookupInv
<1>1. Init => LookupInv
  BY Results, LookupAssumption
  DEF Init, LookupInv, LookupTypeOK, EntryInv, ThreadInv, Loading, InLoad
<1>2. LookupInv /\ [Next]_vars => LookupInv' BY InvStep
<1>3. QED BY <1>1, <1>2, PTL DEF Spec
-----------------------------------------------------------------------------
\* A step that leaves the latches alone leaves the entries of the table.
LEMMA SameEntries ==
  ASSUME UNCHANGED <<made, state, data, filled>> PROVE Entries' = Entries
BY DEF Entries, EntryOf

\* A step on one latch changes one entry of the table.
LEMMA OneEntry ==
  ASSUME NEW h \in Handles, state[h] # None, LookupTypeOK, UNCHANGED <<made, data, filled>>,
         NEW s \in {PT_LOADING, PT_IN_MEMORY}, state' = [state EXCEPT ![h] = s],
         NEW e, EntryOf(h)' = e
  PROVE  Entries' = [Entries EXCEPT ![h] = e] /\ Entries[h] = EntryOf(h)
<1>1. \A g \in Handles : g # h => EntryOf(g)' = EntryOf(g) BY DEF EntryOf, LookupTypeOK
<1>2. {g \in Handles : state[g] # None}' = {g \in Handles : state[g] # None}
  BY LookupAssumption DEF LookupTypeOK
<1>3. QED BY <1>1, <1>2 DEF Entries

\* A thread that goes on to another label is in the phase of that label.
LEMMA PhaseMoves ==
  ASSUME NEW t \in Threads, NEW label, LookupTypeOK, Goto(t, label)
  PROVE  /\ Phases' = [Phases EXCEPT ![t] = Phase(label)]
         /\ Phase(label) = Phase(pc[t]) => Phases' = Phases
<1>1. pc' = [pc EXCEPT ![t] = label] /\ DOMAIN pc = Threads BY DEF Goto, LookupTypeOK
<1>2. \A u \in Threads : pc'[u] = IF u = t THEN label ELSE pc[u] BY <1>1
<1>3. Phases' = [u \in Threads |-> IF u = t THEN Phase(label) ELSE Phase(pc[u])]
  BY <1>2, Zenon DEF Phases, Phase
<1>4. QED BY <1>3, Zenon DEF Phases

\* The phases of the labels.
LEMMA PhaseOf ==
  /\ \A label \in Loading : Phase(label) = "work"
  /\ \A label \in {"loop", "fast", "cas", "backoff"} : Phase(label) = "load"
  /\ Phase("idle") = "idle" /\ Phase("made") = "made" /\ Phase("panicked") = "panicked"
BY DEF Phase, Loading, InLoad

\* A panic of the code is a panic of the table.
LEMMA PanicStep ==
  ASSUME NEW t \in Threads, LookupInv, Panic(t), UNCHANGED <<map, made, state, data, filled>>
  PROVE  Table!Die(t)
BY SameEntries, PhaseMoves, PhaseOf DEF LookupInv, Panic, Take, Table!Die, Table!Take

\* Every step of the protocol is a step of the table, or none.
LEMMA Simulation ==
  ASSUME LookupInv, [Next]_vars
  PROVE  [Table!MTNext]_Table!mtVars
<1> USE DEF table, latches
<1> DEFINE Same == UNCHANGED Table!mtVars
<1>t. LookupTypeOK BY DEF LookupInv
<1>p. \A t \in Threads : Phases[t] = Phase(pc[t]) BY DEF Phases
<1>e. \A h \in Handles : state[h] # None => h \in DOMAIN Entries /\ Entries[h] = EntryOf(h)
  BY DEF Entries
<1>n. None \notin Nat /\ None \notin Frames BY LookupAssumption
<1>1. ASSUME NEW t \in Threads, NEW id \in PageIDs, NEW h \in Handles, New(t, id, h)
      PROVE  Table!New(t, id, h)
  <2>1. h \notin DOMAIN Entries BY <1>1 DEF New, Entries
  <2>2. Entries' = Table!With(Entries, h, Table!NewEntry(id))
    <3>1. DOMAIN Entries' = DOMAIN Entries \cup {h}
      BY <1>t, <1>1, LookupAssumption DEF New, Entries, LookupTypeOK
    <3>2. \A g \in DOMAIN Entries : Entries'[g] = Entries[g]
      BY <1>t, <1>1, <2>1, <3>1 DEF New, Entries, EntryOf, LookupTypeOK
    <3>3. Entries'[h] = Table!NewEntry(id)
      BY <1>t, <1>1, <3>1, Results, OffsetType, SMTT(30)
      DEF New, Entries, EntryOf, Table!NewEntry, Table!ToOffset, ToOffset, LookupTypeOK
    <3>4. Entries' = [g \in DOMAIN Entries' |-> Entries'[g]] BY DEF Entries
    <3>5. QED BY <2>1, <3>1, <3>2, <3>3, <3>4 DEF Table!With
  <2>3. Phases[t] = "idle" /\ Phases' = [Phases EXCEPT ![t] = "made"]
    BY <1>1, <1>t, <1>p, PhaseMoves, PhaseOf DEF New
  <2>4. QED BY <1>1, <2>1, <2>2, <2>3 DEF New, Take, Table!New, Table!Take, Table!Created
<1>i. ASSUME NEW t \in Threads, NEW id \in PageIDs, Insert(t, id) PROVE Table!Insert(t, id)
  <2>1. held[t] \in Handles /\ state[held[t]] # None
    BY <1>i, <1>t DEF Insert, LookupInv, LookupTypeOK, ThreadInv
  <2>2. Entries[held[t]].id = id
    <3>1. Entries[held[t]] = EntryOf(held[t]) BY <1>e, <2>1
    <3>2. EntryOf(held[t]).id = made[held[t]] BY DEF EntryOf
    <3>3. QED BY <1>i, <3>1, <3>2 DEF Insert
  <2>3. Phases[t] \in {"idle", "made"} /\ Phases' = [Phases EXCEPT ![t] = "idle"]
    BY <1>i, <1>t, <1>p, PhaseMoves, PhaseOf DEF Insert
  <2>4. QED BY <1>i, <2>2, <2>3, SameEntries DEF Insert, Table!Insert
<1>c. ASSUME NEW t \in Threads, Load(t) PROVE Table!Load(t)
  BY <1>c, <1>t, <1>p, SameEntries, PhaseMoves, PhaseOf DEF Load, Table!Load
<1>2. ASSUME NEW t \in Threads, NEW id \in PageIDs, NewPanics(t, id) PROVE Table!Die(t)
  BY <1>2, PanicStep DEF NewPanics
<1>3. ASSUME NEW t \in Threads, NEW id \in PageIDs, Get(t, id) PROVE Table!Get(t, id)
  <2>1. Phases[t] = "idle" /\ UNCHANGED Phases BY <1>3, <1>p, PhaseOf DEF Get, Phases
  <2>2. QED BY <1>3, <2>1, SameEntries DEF Get, Take, Table!Get, Table!Take
<1>4. ASSUME NEW t \in Threads, LoadState(t) PROVE Same
  <2>1. UNCHANGED Phases BY <1>4, <1>t, PhaseMoves, PhaseOf DEF LoadState
  <2>2. QED BY <1>4, <2>1, SameEntries DEF LoadState, Table!mtVars
<1>5. ASSUME NEW t \in Threads, CompareExchange(t) PROVE Table!Attempt(t) \/ Same
  <2>1. CASE state[held[t]] # PT_ON_DISK
    <3>1. UNCHANGED Phases BY <1>5, <1>t, <2>1, PhaseMoves, PhaseOf DEF CompareExchange
    <3>2. QED BY <1>5, <2>1, <3>1, SameEntries DEF CompareExchange, Table!mtVars
  <2>2. CASE state[held[t]] = PT_ON_DISK
    <3>1. held[t] \in Handles /\ state[held[t]] # None /\ data[held[t]].tag = "Disk"
      BY <1>5, <2>2, LookupAssumption DEF CompareExchange, LookupInv, ThreadInv, EntryInv, InLoad
    <3>2. Entries' = [Entries EXCEPT ![held[t]].load = "begun"]
      <4>1. PICK h \in Handles : h = held[t] BY <3>1
      <4>2. EntryOf(h)' = [EntryOf(h) EXCEPT !.load = "begun"]
        BY <1>5, <1>t, <2>2, <3>1, <4>1 DEF CompareExchange, EntryOf, LookupTypeOK
      <4>3. QED BY <1>5, <1>t, <2>2, <3>1, <4>1, <4>2, OneEntry DEF CompareExchange
    <3>3. Phases[t] = "load" /\ Phases' = [Phases EXCEPT ![t] = "work"]
      BY <1>5, <1>t, <1>p, <2>2, PhaseMoves, PhaseOf DEF CompareExchange, Loading
    <3>4. Entries[held[t]] = EntryOf(held[t]) BY <1>e, <3>1
    <3>5. EntryOf(held[t]).load = "never" BY <2>2 DEF EntryOf
    <3>6. QED BY <1>5, <2>2, <3>2, <3>3, <3>4, <3>5 DEF CompareExchange, Table!Attempt
  <2>3. QED BY <2>1, <2>2
<1>6. ASSUME NEW t \in Threads, NEW f \in Frames, WorkOk(t, f) PROVE Same
  <2>1. UNCHANGED Phases BY <1>6, <1>t, PhaseMoves, PhaseOf DEF WorkOk, Loading
  <2>2. \A h \in Handles : data[h].tag = "Memory" => data[h].addr # f
    BY <1>6 DEF WorkOk, LookupInv, EntryInv
  <2>3. \A h \in Handles : EntryOf(h)' = EntryOf(h)
    BY <1>6, <1>t, <2>2, Results DEF WorkOk, EntryOf, LookupTypeOK
  <2>4. Entries' = Entries BY <1>6, <2>3 DEF WorkOk, Entries
  <2>5. QED BY <1>6, <2>1, <2>4 DEF WorkOk, Table!mtVars
<1>7. ASSUME NEW t \in Threads, WorkErr(t) PROVE Table!Fail(t)
  BY <1>7, <1>t, <1>p, SameEntries, PhaseMoves, PhaseOf
  DEF WorkErr, Return, Loading, Table!Fail, Table!Return
<1>8. ASSUME NEW t \in Threads, WorkPanic(t) PROVE Table!Die(t)
  BY <1>8, PanicStep DEF WorkPanic
<1>9. ASSUME NEW t \in Threads, Store(t) PROVE Same
  <2>1. UNCHANGED Phases BY <1>9, <1>t, PhaseMoves, PhaseOf DEF Store, Loading
  <2>2. held[t] \in Handles /\ ThreadInv(t) BY <1>9 DEF Store, LookupInv, ThreadInv, InLoad, Loading
  <2>3. \A h \in Handles : EntryOf(h)' = EntryOf(h)
    BY <1>9, <1>t, <2>2, LookupAssumption
    DEF Store, EntryOf, ThreadInv, LookupTypeOK, Loading
  <2>4. Entries' = Entries BY <1>9, <2>3 DEF Store, Entries
  <2>5. QED BY <1>9, <2>1, <2>4 DEF Store, Table!mtVars
<1>10. ASSUME NEW t \in Threads, Publish(t) PROVE \E f \in Frames : Table!Install(t, f)
  <2> DEFINE f == local[t].addr
  <2>1. /\ held[t] \in Handles /\ ThreadInv(t) /\ EntryInv(held[t])
        /\ state[held[t]] = PT_LOADING /\ data[held[t]].tag = "Memory"
    BY <1>10 DEF Publish, LookupInv, ThreadInv, InLoad, Loading
  <2>2. f \in Frames /\ local[t] = Memory(f) /\ data[held[t]] = local[t]
    BY <1>10, <1>t, <2>1, Results DEF Publish, ThreadInv, LookupTypeOK
  <2>3. Entries' = [Entries EXCEPT ![held[t]].memory = f]
    <3>1. PICK h \in Handles : h = held[t] BY <2>1
    <3>2. state[h] = PT_LOADING /\ data[h].addr = f /\ state[h] # None
      <4>1. state[h] = PT_LOADING /\ data[h].addr = f BY <2>1, <2>2, <3>1
      <4>2. QED BY <1>n, <4>1
    <3>3. EntryOf(h)' = [EntryOf(h) EXCEPT !.memory = data[h].addr]
      BY <1>10, <1>t, <3>1, <3>2 DEF Publish, EntryOf, LookupTypeOK
    <3>4. state' = [state EXCEPT ![h] = PT_IN_MEMORY] /\ UNCHANGED <<made, data, filled>>
      BY <1>10, <3>1 DEF Publish
    <3>5. /\ Entries' = [Entries EXCEPT ![h] = [EntryOf(h) EXCEPT !.memory = data[h].addr]]
          /\ Entries[h] = EntryOf(h)
      <4>1. PT_IN_MEMORY \in {PT_LOADING, PT_IN_MEMORY} OBVIOUS
      <4>2. QED BY <1>t, <3>2, <3>3, <3>4, <4>1, OneEntry, Zenon
    <3>6. QED BY <3>1, <3>2, <3>5
  <2>4. \A h \in DOMAIN Entries : Entries[h].memory # f
    <3> HIDE DEF f
    <3> SUFFICES ASSUME NEW h \in DOMAIN Entries, Entries[h].memory = f PROVE FALSE OBVIOUS
    <3>1. h \in Handles /\ state[h] = PT_IN_MEMORY /\ data[h].addr = f
      BY <2>2, LookupAssumption DEF Entries, EntryOf
    <3>2. data[h] = Memory(f) BY <1>t, <3>1, Results DEF LookupInv, EntryInv, LookupTypeOK
    <3>3. h = held[t]
      <4>1. data[h] = data[held[t]] BY <2>2, <3>2, Zenon
      <4>2. QED BY <2>1, <3>1, <4>1, Zenon DEF EntryInv
    <3>4. QED BY <2>1, <3>1, <3>3
  <2>5. Phases[t] = "work" /\ Phases' = [Phases EXCEPT ![t] = "idle"]
    BY <1>10, <1>t, <1>p, PhaseMoves, PhaseOf DEF Publish, Return, Loading
  <2>6. Table!Install(t, f)
    BY <1>10, <2>3, <2>4, <2>5 DEF Publish, Return, Table!Install, Table!Return, Table!Created
  <2>7. QED BY <2>2, <2>6
<1>11. ASSUME NEW t \in Threads, FastReturn(t) PROVE Table!Hit(t)
  <2>1. /\ held[t] \in Handles /\ state[held[t]] # None
        /\ state[held[t]] = PT_IN_MEMORY /\ data[held[t]].addr \in Frames
    BY <1>11, <1>t, Results DEF FastReturn, LookupInv, ThreadInv, EntryInv, InLoad, LookupTypeOK
  <2>2. Entries[held[t]].memory = data[held[t]].addr /\ data[held[t]].addr # None
    <3>1. Entries[held[t]] = EntryOf(held[t]) BY <1>e, <2>1
    <3>2. EntryOf(held[t]).memory = data[held[t]].addr BY <2>1 DEF EntryOf
    <3>3. QED BY <1>n, <2>1, <3>1, <3>2
  <2>3. Phases[t] = "load" /\ Phases' = [Phases EXCEPT ![t] = "idle"]
    BY <1>11, <1>t, <1>p, PhaseMoves, PhaseOf DEF FastReturn, Return
  <2>4. QED BY <1>11, <2>2, <2>3, SameEntries DEF FastReturn, Return, Table!Hit, Table!Return
<1>12. ASSUME NEW t \in Threads, Backoff(t) PROVE Table!Die(t) \/ Same
  <2>1. CASE Panic(t) BY <1>12, <2>1, PanicStep DEF Backoff
  <2>2. CASE Goto(t, "loop") /\ UNCHANGED <<want, held, local, got>>
    <3>1. UNCHANGED Phases BY <1>12, <1>t, <2>2, PhaseMoves, PhaseOf DEF Backoff
    <3>2. QED BY <1>12, <2>2, <3>1, SameEntries DEF Backoff, Table!mtVars
  <2>3. QED BY <1>12, <2>1, <2>2 DEF Backoff
<1>13. ASSUME UNCHANGED vars PROVE Same
  BY <1>13, SameEntries DEF vars, Phases, Table!mtVars
<1>14. QED
  BY <1>1, <1>i, <1>c, <1>2, <1>3, <1>4, <1>5, <1>6, <1>7, <1>8, <1>9, <1>10, <1>11, <1>12, <1>13
  DEF Next, Step, Table!MTNext

\* The latch protocol on shared entries implements the mapping table.
THEOREM LookupImplementsTable == Spec => ImplementsMappingTable
<1>1. Init => Table!MTInit
  <2>1. ASSUME Init PROVE Entries = [h \in {} |-> Table!NewEntry(0)]
    BY <2>1 DEF Init, Entries
  <2>2. ASSUME Init PROVE Phases = [t \in Threads |-> "idle"]
    BY <2>2, PhaseOf DEF Init, Phases
  <2>3. QED BY <2>1, <2>2 DEF Init, Table!MTInit
<1>2. LookupInv /\ [Next]_vars => [Table!MTNext]_Table!mtVars BY Simulation
<1>3. QED BY <1>1, <1>2, LookupInvariant, PTL DEF Spec, ImplementsMappingTable, Table!MTSpec
-----------------------------------------------------------------------------
\* The types of the table that the protocol implements.
TableTypeOK ==
  /\ DOMAIN Entries \subseteq Handles
  /\ Entries \in [DOMAIN Entries -> [id : PageIDs \cup {None}, disk : Nat \cup {None},
                                     memory : Frames \cup {None}, load : {"never", "begun"}]]
  /\ map \in [PageIDs -> Handles \cup {None}]
  /\ Phases \in [Threads -> {"idle", "made", "load", "work", "panicked"}]
  /\ want \in [Threads -> PageIDs \cup {None}]
  /\ held \in [Threads -> Handles \cup {None}]
  /\ got \in [Threads -> Frames \cup {None}]

\* The protocol gives the table these types.
LEMMA TableTypes == ASSUME LookupInv PROVE TableTypeOK
<1> USE DEF LookupInv, LookupTypeOK
<1>1. \A h \in Handles :
        EntryOf(h) \in [id : PageIDs \cup {None}, disk : Nat \cup {None},
                        memory : Frames \cup {None}, load : {"never", "begun"}]
  BY Results DEF EntryOf, EntryInv
<1>2. \A t \in Threads : Phase(pc[t]) \in {"idle", "made", "load", "work", "panicked"}
  BY DEF Phase, InLoad, Loading
<1>3. QED BY <1>1, <1>2 DEF TableTypeOK, Entries, Phases

\* An entry is filled once: the step.
LEMMA FilledStep ==
  ASSUME TableTypeOK, Table!FilledOnce, Table!LeadsToId, [Table!MTNext]_Table!mtVars
  PROVE  Table!FilledOnce'
<1>h. \A t \in Threads : Phases[t] \in {"load", "work"} => held[t] \in DOMAIN Entries
  BY DEF Table!LeadsToId, Table!Created
<1> USE LookupAssumption DEF TableTypeOK, Table!FilledOnce, Table!Created, Table!Return, Table!Take
<1>1. ASSUME NEW t \in Threads, NEW id \in PageIDs, Table!Get(t, id) \/ Table!Insert(t, id)
      PROVE  Table!FilledOnce'
  BY <1>1 DEF Table!Get, Table!Insert
<1>2. ASSUME NEW t \in Threads, NEW id \in PageIDs, NEW h \in Handles, Table!New(t, id, h)
      PROVE  Table!FilledOnce'
  BY <1>2, <1>h DEF Table!New, Table!With, Table!NewEntry
<1>3. ASSUME NEW t \in Threads, Table!Attempt(t) PROVE Table!FilledOnce'
  BY <1>3, <1>h DEF Table!Attempt
<1>4. ASSUME NEW t \in Threads, Table!Fail(t) PROVE Table!FilledOnce'
  BY <1>4 DEF Table!Fail
<1>5. ASSUME NEW t \in Threads, Table!Hit(t) \/ Table!Load(t) PROVE Table!FilledOnce'
  BY <1>5 DEF Table!Hit, Table!Load
<1>6. ASSUME NEW t \in Threads, Table!Die(t) PROVE Table!FilledOnce'
  BY <1>6 DEF Table!Die
<1>7. ASSUME NEW t \in Threads, NEW f \in Frames, Table!Install(t, f) PROVE Table!FilledOnce'
  BY <1>7, <1>h DEF Table!Install
<1>8. ASSUME UNCHANGED Table!mtVars PROVE Table!FilledOnce'
  BY <1>8 DEF Table!mtVars
<1> HIDE DEF TableTypeOK, Table!FilledOnce
<1>9. QED BY <1>1, <1>2, <1>3, <1>4, <1>5, <1>6, <1>7, <1>8, Zenon DEF Table!MTNext

\* Ids lead to entries that were made for them: the step.
LEMMA LeadsStep ==
  ASSUME TableTypeOK, Table!FilledOnce, Table!LeadsToId, [Table!MTNext]_Table!mtVars
  PROVE  Table!LeadsToId'
<1> USE LookupAssumption DEF TableTypeOK, Table!LeadsToId, Table!Created, Table!Return, Table!Take
<1>1. ASSUME NEW t \in Threads, NEW id \in PageIDs, Table!Get(t, id) PROVE Table!LeadsToId'
  BY <1>1 DEF Table!Get
<1>2. ASSUME NEW t \in Threads, NEW id \in PageIDs, NEW h \in Handles, Table!New(t, id, h)
      PROVE  Table!LeadsToId'
  BY <1>2 DEF Table!New, Table!With, Table!NewEntry
<1>3. ASSUME NEW t \in Threads, NEW id \in PageIDs, Table!Insert(t, id) PROVE Table!LeadsToId'
  BY <1>3 DEF Table!Insert
<1>4. ASSUME NEW t \in Threads, Table!Attempt(t) PROVE Table!LeadsToId'
  BY <1>4 DEF Table!Attempt
<1>5. ASSUME NEW t \in Threads, Table!Fail(t) \/ Table!Load(t) PROVE Table!LeadsToId'
  BY <1>5 DEF Table!Fail, Table!Load
<1>6. ASSUME NEW t \in Threads, Table!Hit(t) PROVE Table!LeadsToId'
  BY <1>6 DEF Table!Hit
<1>7. ASSUME NEW t \in Threads, Table!Die(t) PROVE Table!LeadsToId'
  BY <1>7 DEF Table!Die
<1>8. ASSUME NEW t \in Threads, NEW f \in Frames, Table!Install(t, f) PROVE Table!LeadsToId'
  BY <1>8 DEF Table!Install, Table!FilledOnce
<1>9. ASSUME UNCHANGED Table!mtVars PROVE Table!LeadsToId'
  BY <1>9 DEF Table!mtVars
<1> HIDE DEF TableTypeOK, Table!LeadsToId
<1>10. QED BY <1>1, <1>2, <1>3, <1>4, <1>5, <1>6, <1>7, <1>8, <1>9, Zenon DEF Table!MTNext

\* to_offset gives the location of a page exactly when that fits a u64.
LEMMA LocationFits ==
  ASSUME NEW id \in PageIDs
  PROVE  ToOffset(id) = id * PAGE_SIZE <=> Fits(id)
<1>1. id * PAGE_SIZE \in Nat BY IdentityAssumption
<1>2. \A n \in Nat : n % U64 = n <=> n < U64 BY IdentityAssumption
<1>3. QED BY <1>1, <1>2 DEF Fits, ToOffset

\* The invariant of the table gives its promise.
LEMMA Resolves ==
  ASSUME TableTypeOK, Table!TableInv PROVE Table!ResolvesToOneFrame
<1>l. ASSUME NEW t \in Threads, got[t] # None
      PROVE  /\ held[t] \in DOMAIN Entries /\ Entries[held[t]].id = want[t]
             /\ want[t] \in PageIDs /\ Entries[held[t]].memory = got[t]
             /\ Entries[held[t]].disk = Table!ToOffset(want[t])
  BY <1>l DEF Table!TableInv, Table!LeadsToId, Table!Created
<1>f. \A h, g \in DOMAIN Entries :
        Entries[h].memory = Entries[g].memory /\ Entries[h].memory # None => h = g
  BY DEF Table!TableInv, Table!FilledOnce, Table!Created
<1> SUFFICES ASSUME NEW t \in Threads, got[t] # None
             PROVE  /\ held[t] \in DOMAIN Entries
                    /\ Entries[held[t]].id = want[t] /\ Entries[held[t]].memory = got[t]
                    /\ Entries[held[t]].disk = want[t] * PAGE_SIZE <=> Table!Fits(want[t])
                    /\ \A u \in Threads : got[u] # None =>
                         /\ got[t] = got[u] <=> held[t] = held[u]
                         /\ got[t] = got[u] => want[t] = want[u]
  BY Zenon DEF Table!ResolvesToOneFrame, Table!Created
<1>1. held[t] \in DOMAIN Entries /\ Entries[held[t]].id = want[t] /\ Entries[held[t]].memory = got[t]
  BY <1>l
<1>2. Entries[held[t]].disk = want[t] * PAGE_SIZE <=> Table!Fits(want[t])
  <2>1. want[t] \in PageIDs /\ Entries[held[t]].disk = ToOffset(want[t])
    BY <1>l DEF Table!ToOffset, ToOffset
  <2>2. QED BY <2>1, LocationFits DEF Table!Fits, Fits
<1>3. ASSUME NEW u \in Threads, got[u] # None
      PROVE  (got[t] = got[u] <=> held[t] = held[u]) /\ (got[t] = got[u] => want[t] = want[u])
  <2>1. held[u] \in DOMAIN Entries /\ Entries[held[u]].id = want[u] /\ Entries[held[u]].memory = got[u]
    BY <1>3, <1>l
  <2>2. got[t] = got[u] => held[t] = held[u] BY <1>1, <1>f, <2>1
  <2>3. QED BY <1>1, <2>1, <2>2
<1>4. QED BY <1>1, <1>2, <1>3

\* A load ends in a frame of the entry of its id, from the right location
\* exactly when the offset fits, and loads share a frame exactly when they
\* share an entry: for any number of threads, pages and frames, through the
\* latch protocol and whatever inserts replace.
THEOREM OneFramePerPage == Spec => []ResolvesToOneFrame
<1>1. Init => Table!TableInv
  <2> SUFFICES ASSUME Init PROVE Table!TableInv OBVIOUS
  <2>1. DOMAIN Entries = {} BY DEF Init, Entries
  <2>2. \A t \in Threads : Phases[t] = "idle" BY PhaseOf DEF Init, Phases
  <2>3. Table!LeadsToId BY <2>1, <2>2 DEF Init, Table!LeadsToId, Table!Created
  <2>4. Table!FilledOnce BY <2>1, <2>2 DEF Table!FilledOnce, Table!Created
  <2>5. QED BY <2>3, <2>4 DEF Table!TableInv
<1>2. LookupInv /\ Table!TableInv /\ [Next]_vars => Table!TableInv'
  BY TableTypes, Simulation, FilledStep, LeadsStep DEF Table!TableInv
<1>3. LookupInv /\ Table!TableInv => ResolvesToOneFrame
  BY TableTypes, Resolves DEF ResolvesToOneFrame
<1>4. QED BY <1>1, <1>2, <1>3, LookupInvariant, PTL DEF Spec
-----------------------------------------------------------------------------
\* TakenForAReason without what LookupInv says of two loaders.
TakenInv ==
  /\ \A h \in Handles :
       state[h] = PT_LOADING
         <=> h \in failed \/ \E t \in Threads : pc[t] \in Loading /\ held[t] = h
  /\ \A t \in Threads : pc[t] \in Loading => held[t] \notin failed

\* TakenInv is inductive relative to LookupInv: the step.
LEMMA TakenStep == ASSUME LookupInv, TakenInv, [Next]_vars PROVE TakenInv'
<1> DEFINE SameLoaders ==
      \A u \in Threads : /\ pc'[u] \in Loading <=> pc[u] \in Loading
                         /\ pc[u] \in Loading => held'[u] = held[u]
           OthersStay(t) == \A u \in Threads \ {t} : pc'[u] = pc[u] /\ held'[u] = held[u]
<1>l. /\ pc \in [Threads -> InLoad \cup {"idle", "made", "panicked"}]
      /\ held \in [Threads -> Handles \cup {None}]
      /\ state \in [Handles -> {None, PT_ON_DISK, PT_LOADING, PT_IN_MEMORY}]
  BY DEF LookupInv, LookupTypeOK
<1>t. \A t \in Threads : pc[t] \in Loading =>
        /\ held[t] \in Handles /\ state[held[t]] = PT_LOADING
        /\ \A u \in Threads : pc[u] \in Loading /\ held[u] = held[t] => u = t
  BY DEF LookupInv, ThreadInv, Loading, InLoad
<1>n. None \notin Nat BY LookupAssumption
<1> USE DEF Goto, Return, Panic, Take, table, latches
<1>1. ASSUME NEW t \in Threads, NEW id \in PageIDs, NEW h \in Handles, New(t, id, h)
      PROVE  TakenInv'
  <2>1. SameLoaders /\ failed' = failed BY <1>1, <1>l DEF New, Loading
  <2>2. state[h] = None /\ state' = [state EXCEPT ![h] = PT_ON_DISK] BY <1>1 DEF New
  <2>3. QED BY <1>l, <1>t, <1>n, <2>1, <2>2 DEF TakenInv
<1>2. ASSUME NEW t \in Threads, NEW id \in PageIDs, Get(t, id) \/ NewPanics(t, id) \/ Insert(t, id)
      PROVE  SameLoaders /\ UNCHANGED <<state, failed>>
  BY <1>2, <1>l DEF Get, NewPanics, Insert, Loading
<1>3. ASSUME NEW t \in Threads, Load(t) \/ LoadState(t) \/ FastReturn(t) \/ Backoff(t)
      PROVE  SameLoaders /\ UNCHANGED <<state, failed>>
  BY <1>3, <1>l DEF Load, LoadState, FastReturn, Backoff, Loading
<1>4. ASSUME NEW t \in Threads, CompareExchange(t), state[held[t]] # PT_ON_DISK
      PROVE  SameLoaders /\ UNCHANGED <<state, failed>>
  BY <1>4, <1>l DEF CompareExchange, Loading
<1>5. ASSUME NEW t \in Threads, CompareExchange(t), state[held[t]] = PT_ON_DISK PROVE TakenInv'
  <2>1. held[t] \in Handles BY <1>5 DEF CompareExchange, LookupInv, ThreadInv, InLoad
  <2>2. /\ OthersStay(t) /\ pc[t] \notin Loading /\ pc'[t] \in Loading /\ held'[t] = held[t]
        /\ state' = [state EXCEPT ![held[t]] = PT_LOADING] /\ failed' = failed
    BY <1>5, <1>l DEF CompareExchange, Loading
  <2>3. held[t] \notin failed BY <1>5, <2>1 DEF TakenInv
  <2>4. QED BY <1>l, <2>1, <2>2, <2>3 DEF TakenInv
<1>6. ASSUME NEW t \in Threads, NEW f \in Frames, WorkOk(t, f)
      PROVE  SameLoaders /\ UNCHANGED <<state, failed>>
  BY <1>6, <1>l DEF WorkOk, Loading
<1>7. ASSUME NEW t \in Threads, WorkErr(t) \/ WorkPanic(t) PROVE TakenInv'
  <2>1. /\ OthersStay(t) /\ pc[t] \in Loading /\ pc'[t] \notin Loading
        /\ UNCHANGED state /\ failed' = failed \cup {held[t]}
    BY <1>7, <1>l DEF WorkErr, WorkPanic, Loading
  <2>2. QED BY <1>l, <1>t, <2>1 DEF TakenInv
<1>8. ASSUME NEW t \in Threads, Store(t) PROVE SameLoaders /\ UNCHANGED <<state, failed>>
  BY <1>8, <1>l DEF Store, Loading
<1>9. ASSUME NEW t \in Threads, Publish(t) PROVE TakenInv'
  <2>1. /\ OthersStay(t) /\ pc[t] \in Loading /\ pc'[t] \notin Loading /\ failed' = failed
        /\ state' = [state EXCEPT ![held[t]] = PT_IN_MEMORY]
    BY <1>9, <1>l DEF Publish, Loading
  <2>2. QED BY <1>l, <1>t, <2>1 DEF TakenInv
<1>10. ASSUME UNCHANGED vars PROVE SameLoaders /\ UNCHANGED <<state, failed>>
  BY <1>10 DEF vars
<1>11. ASSUME SameLoaders, UNCHANGED <<state, failed>> PROVE TakenInv'
  BY <1>11 DEF TakenInv
<1> HIDE DEF SameLoaders
<1>12. QED BY <1>1, <1>2, <1>3, <1>4, <1>5, <1>6, <1>7, <1>8, <1>9, <1>10, <1>11, Zenon
           DEF Next, Step

\* For any number of threads and entries, a latch that is taken has one loader
\* that goes on, or belongs to an entry whose loader failed.
THEOREM LatchTakenForAReason == Spec => []TakenForAReason
<1>1. Init => TakenInv BY LookupAssumption DEF Init, TakenInv, Loading
<1>2. LookupInv /\ TakenInv /\ [Next]_vars => TakenInv' BY TakenStep
<1>3. ASSUME LookupInv, TakenInv PROVE TakenForAReason
  <2>1. \A t, u \in Threads :
          pc[t] \in Loading /\ pc[u] \in Loading /\ held[u] = held[t] => u = t
    BY <1>3 DEF LookupInv, ThreadInv
  <2>2. QED BY <1>3, <2>1 DEF TakenInv, TakenForAReason
<1>4. QED BY <1>1, <1>2, <1>3, LookupInvariant, PTL DEF Spec

\* The entry h holds the frame f, or its loader is about to store it there.
Owns(h, f) ==
  \/ data[h] = Memory(f)
  \/ \E u \in Threads : pc[u] = "store" /\ local[u] = Memory(f) /\ held[u] = h

\* FrameHasOneEntry in terms of Owns.
OwnedOnce ==
  \A f \in Frames :
    /\ filled[f] = None => \A h \in Handles : ~Owns(h, f)
    /\ filled[f] # None => \E h \in Handles : \A g \in Handles : Owns(g, f) <=> g = h

\* The two statements agree.
LEMMA OwnsMeans == ASSUME LookupInv, OwnedOnce PROVE FrameHasOneEntry
<1> SUFFICES ASSUME NEW f \in Frames
             PROVE  LET entries == {h \in Handles : data[h] = Memory(f)} \cup
                          {held[t] : t \in {u \in Threads : pc[u] = "store" /\ local[u] = Memory(f)}}
                    IN  IF filled[f] = None THEN entries = {} ELSE \E h \in Handles : entries = {h}
  BY Zenon DEF FrameHasOneEntry
<1> DEFINE entries == {h \in Handles : data[h] = Memory(f)} \cup
             {held[t] : t \in {u \in Threads : pc[u] = "store" /\ local[u] = Memory(f)}}
<1>1. entries = {h \in Handles : Owns(h, f)}
  <2>1. \A u \in Threads : pc[u] = "store" => held[u] \in Handles
    BY DEF LookupInv, ThreadInv, InLoad, Loading
  <2>2. QED BY <2>1 DEF Owns
<1> HIDE DEF entries
<1>2. CASE filled[f] = None
  <2>1. entries = {} BY <1>1, <1>2 DEF OwnedOnce
  <2>2. QED BY <1>2, <2>1, Zenon DEF entries
<1>3. CASE filled[f] # None
  <2>1. PICK h \in Handles : \A g \in Handles : Owns(g, f) <=> g = h BY <1>3 DEF OwnedOnce
  <2>2. entries = {h} BY <1>1, <2>1
  <2>3. QED BY <1>3, <2>2, Zenon DEF entries
<1>4. QED BY <1>2, <1>3, Zenon

\* OwnedOnce is inductive relative to LookupInv: the step.
LEMMA OwnedOnceStep ==
  ASSUME LookupInv, OwnedOnce, [Next]_vars PROVE OwnedOnce'
<1> DEFINE SameStores ==
      \A u \in Threads : /\ pc'[u] = "store" <=> pc[u] = "store"
                         /\ pc[u] = "store" => local'[u] = local[u] /\ held'[u] = held[u]
           OthersStay(t) ==
      \A u \in Threads \ {t} : pc'[u] = pc[u] /\ local'[u] = local[u] /\ held'[u] = held[u]
           Same ==
      UNCHANGED filled /\ \A f \in Frames, h \in Handles : Owns(h, f)' <=> Owns(h, f)
<1>l. /\ pc \in [Threads -> InLoad \cup {"idle", "made", "panicked"}]
      /\ held \in [Threads -> Handles \cup {None}] /\ local \in [Threads -> PageTableResult]
      /\ data \in [Handles -> PageTableResult] /\ filled \in [Frames -> Nat \cup {None}]
  BY DEF LookupInv, LookupTypeOK
<1>s. ASSUME SameStores, UNCHANGED <<data, filled>> PROVE Same
  BY <1>s DEF Owns
<1> USE DEF Goto, Return, Panic, Take, table, latches
<1>1. ASSUME NEW t \in Threads, NEW id \in PageIDs, NEW h \in Handles, New(t, id, h)
      PROVE  Same
  <2>1. /\ UNCHANGED filled /\ SameStores
        /\ data' = [data EXCEPT ![h] = Disk(ToOffset(id))] /\ data[h].tag = "Disk"
    BY <1>1, <1>l DEF New, LookupInv, EntryInv
  <2>2. \A f \in Frames : Disk(ToOffset(id)) # Memory(f) /\ data[h] # Memory(f)
    <3>1. Disk(ToOffset(id)).tag = "Disk" BY OffsetType, Results
    <3>2. \A f \in Frames : Memory(f).tag = "Memory" BY Results
    <3>3. QED BY <2>1, <3>1, <3>2
  <2>3. \A f \in Frames, g \in Handles : data'[g] = Memory(f) <=> data[g] = Memory(f)
    BY <1>l, <2>1, <2>2
  <2>4. QED BY <2>1, <2>3 DEF Owns
<1>2. ASSUME NEW t \in Threads, NEW id \in PageIDs, Get(t, id) \/ NewPanics(t, id) \/ Insert(t, id)
      PROVE  SameStores /\ UNCHANGED <<data, filled>>
  BY <1>2, <1>l DEF Get, NewPanics, Insert
<1>3. ASSUME NEW t \in Threads, Load(t) \/ LoadState(t) \/ FastReturn(t) \/ Backoff(t)
      PROVE  SameStores /\ UNCHANGED <<data, filled>>
  BY <1>3, <1>l DEF Load, LoadState, FastReturn, Backoff
<1>4. ASSUME NEW t \in Threads, CompareExchange(t)
      PROVE  SameStores /\ UNCHANGED <<data, filled>>
  BY <1>4, <1>l DEF CompareExchange
<1>5. ASSUME NEW t \in Threads, NEW f \in Frames, WorkOk(t, f)
      PROVE  /\ \A g \in Frames \ {f}, h \in Handles : Owns(h, g)' <=> Owns(h, g)
             /\ \A g \in Frames \ {f} : filled'[g] = filled[g]
             /\ filled'[f] # None /\ held[t] \in Handles
             /\ \A h \in Handles : Owns(h, f)' <=> h = held[t]
  <2>1. /\ OthersStay(t) /\ pc[t] = "work" /\ pc'[t] = "store" /\ local'[t] = Memory(f)
        /\ held' = held /\ data' = data /\ filled[f] = None
        /\ filled' = [filled EXCEPT ![f] = local[t].addr]
    BY <1>5, <1>l DEF WorkOk
  <2>2. held[t] \in Handles /\ local[t].addr \in Nat
    <3>1. held[t] \in Handles /\ local[t].tag = "Disk"
      BY <2>1 DEF LookupInv, ThreadInv, InLoad, Loading
    <3>2. QED BY <1>l, <3>1, Results
  <2>3. \A g \in Frames : Memory(f) = Memory(g) => g = f BY Results
  <2>4. \A h \in Handles : ~Owns(h, f) BY <2>1 DEF OwnedOnce
  <2>5. filled'[f] # None /\ \A g \in Frames \ {f} : filled'[g] = filled[g]
    BY <1>l, <2>1, <2>2, LookupAssumption
  <2>6. \A g \in Frames \ {f}, h \in Handles : Owns(h, g)' <=> Owns(h, g)
    BY <2>1, <2>3 DEF Owns
  <2>7. \A h \in Handles : Owns(h, f)' <=> h = held[t]
    BY <2>1, <2>4 DEF Owns
  <2>8. QED BY <2>2, <2>5, <2>6, <2>7
<1>6. ASSUME NEW t \in Threads, WorkErr(t) \/ WorkPanic(t)
      PROVE  SameStores /\ UNCHANGED <<data, filled>>
  BY <1>6, <1>l DEF WorkErr, WorkPanic
<1>7. ASSUME NEW t \in Threads, Store(t) PROVE Same
  <2>1. /\ OthersStay(t) /\ pc[t] = "store" /\ pc'[t] # "store" /\ UNCHANGED filled
        /\ data' = [data EXCEPT ![held[t]] = local[t]]
    BY <1>7, <1>l DEF Store
  <2>2. held[t] \in Handles /\ data[held[t]].tag = "Disk"
    BY <2>1 DEF LookupInv, ThreadInv, InLoad, Loading
  <2>3. \A u \in Threads : pc[u] = "store" /\ held[u] = held[t] => u = t
    BY <2>1 DEF LookupInv, ThreadInv, Loading
  <2>4. \A f \in Frames : data[held[t]] # Memory(f)
    <3>1. \A f \in Frames : Memory(f).tag = "Memory" BY Results
    <3>2. QED BY <2>2, <3>1
  <2>5. \A h \in Handles : data'[h] = IF h = held[t] THEN local[t] ELSE data[h]
    BY <1>l, <2>1
  <2>6. QED BY <2>1, <2>2, <2>3, <2>4, <2>5 DEF Owns
<1>8. ASSUME NEW t \in Threads, Publish(t) PROVE SameStores /\ UNCHANGED <<data, filled>>
  BY <1>8, <1>l DEF Publish
<1>9. ASSUME UNCHANGED vars PROVE SameStores /\ UNCHANGED <<data, filled>>
  BY <1>9 DEF vars
<1>10. ASSUME Same PROVE OwnedOnce' BY <1>10 DEF OwnedOnce
<1>11. ASSUME NEW t \in Threads, NEW f \in Frames, WorkOk(t, f) PROVE OwnedOnce'
  <2>1. ASSUME NEW g \in Frames \ {f}
        PROVE  /\ filled'[g] = None => \A h \in Handles : ~Owns(h, g)'
               /\ filled'[g] # None => \E h \in Handles : \A k \in Handles : Owns(k, g)' <=> k = h
    BY <1>5, <1>11, <2>1 DEF OwnedOnce
  <2>2. /\ filled'[f] # None
        /\ \E h \in Handles : \A k \in Handles : Owns(k, f)' <=> k = h
    BY <1>5, <1>11
  <2>3. QED BY <2>1, <2>2 DEF OwnedOnce
<1> HIDE DEF Same, SameStores
<1>12. QED BY <1>s, <1>1, <1>2, <1>3, <1>4, <1>6, <1>7, <1>8, <1>9, <1>10, <1>11, Zenon
           DEF Next, Step

\* For any number of threads, entries and frames, a filled frame belongs to
\* exactly one entry: loads that race lose no frame and share none.
THEOREM FramesHaveOneEntry == Spec => []FrameHasOneEntry
<1>1. Init => OwnedOnce BY Results DEF Init, OwnedOnce, Owns
<1>2. LookupInv /\ OwnedOnce /\ [Next]_vars => OwnedOnce' BY OwnedOnceStep
<1>3. LookupInv /\ OwnedOnce => FrameHasOneEntry BY OwnsMeans
<1>4. QED BY <1>1, <1>2, <1>3, LookupInvariant, PTL DEF Spec

\* For any number of threads and entries, an entry in memory and an entry whose
\* loader failed stay as they are, and the latter hands out no frame.
THEOREM SettledStaysFinal == Spec => SettledIsFinal
<1> DEFINE Final ==
      /\ \A h \in Handles :
           state[h] = PT_IN_MEMORY \/ h \in failed => state'[h] = state[h] /\ data'[h] = data[h]
      /\ \A t \in Threads : pc[t] \in InLoad /\ held[t] \in failed => got'[t] = None
<1>1. ASSUME LookupInv, TakenForAReason, Next PROVE Final
  <2>l. /\ state \in [Handles -> {None, PT_ON_DISK, PT_LOADING, PT_IN_MEMORY}]
        /\ data \in [Handles -> PageTableResult] /\ got \in [Threads -> Frames \cup {None}]
        /\ None \notin Nat
    BY <1>1, LookupAssumption DEF LookupInv, LookupTypeOK
  <2>f. \A h \in Handles : h \in failed => state[h] = PT_LOADING
    BY <1>1 DEF TakenForAReason
  <2>t. \A t \in Threads : pc[t] \in Loading =>
          held[t] \in Handles /\ held[t] \notin failed /\ state[held[t]] = PT_LOADING
    BY <1>1 DEF TakenForAReason, LookupInv, ThreadInv, Loading, InLoad
  <2>s. \A t \in Threads : pc[t] = "fast" => held[t] \notin failed
    BY <1>1, <2>f DEF LookupInv, ThreadInv, InLoad
  <2>g. \A t \in Threads : pc[t] \in InLoad => got[t] = None
    BY <1>1 DEF LookupInv, ThreadInv
  <2> USE DEF Goto, Return, Panic, Take, table, latches
  <2>1. ASSUME NEW t \in Threads, NEW id \in PageIDs, NEW h \in Handles, New(t, id, h)
        PROVE  Final
    BY <2>1, <2>l, <2>f, <2>g DEF New
  <2>2. ASSUME NEW t \in Threads, NEW id \in PageIDs, Get(t, id) \/ NewPanics(t, id) \/ Insert(t, id)
        PROVE  Final
    BY <2>2, <2>l, <2>g DEF Get, NewPanics, Insert
  <2>3. ASSUME NEW t \in Threads, CompareExchange(t) PROVE Final
    BY <2>3, <2>l, <2>f, <2>g DEF CompareExchange
  <2>4. ASSUME NEW t \in Threads, NEW f \in Frames, WorkOk(t, f) PROVE Final
    BY <2>4, <2>g DEF WorkOk
  <2>5. ASSUME NEW t \in Threads, WorkErr(t) \/ WorkPanic(t) \/ Backoff(t) PROVE Final
    BY <2>5, <2>l, <2>g DEF WorkErr, WorkPanic, Backoff
  <2>6. ASSUME NEW t \in Threads, Store(t) PROVE Final
    BY <2>6, <2>l, <2>t, <2>g DEF Store, Loading
  <2>7. ASSUME NEW t \in Threads, Publish(t) PROVE Final
    BY <2>7, <2>l, <2>t, <2>g DEF Publish, Loading
  <2>8. ASSUME NEW t \in Threads, FastReturn(t) PROVE Final
    BY <2>8, <2>l, <2>s, <2>g DEF FastReturn
  <2>9. ASSUME NEW t \in Threads, Load(t) \/ LoadState(t) PROVE Final
    BY <2>9, <2>l, <2>g DEF Load, LoadState
  <2> HIDE DEF Final
  <2>10. QED BY <1>1, <2>1, <2>2, <2>3, <2>4, <2>5, <2>6, <2>7, <2>8, <2>9, Zenon DEF Next, Step
<1>2. LookupInv /\ TakenForAReason /\ [Next]_vars => [Final]_vars BY <1>1
<1>3. QED
  BY <1>2, LookupInvariant, LatchTakenForAReason, PTL DEF Spec, SettledIsFinal
=============================================================================
