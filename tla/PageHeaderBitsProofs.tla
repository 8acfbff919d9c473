------------------------- MODULE PageHeaderBitsProofs -------------------------
(***************************************************************************)
(* Proofs about PageHeaderBits, for every set of argument bytes.           *)
(***************************************************************************)
EXTENDS PageHeaderBits, TLAPS

(* A flags byte made of its five bits.                                     *)
Byte5(b0, b1, b2, b3, b4) == b0 + 2 * b1 + 4 * b2 + 8 * b3 + 16 * b4

(* Each bit is read back from the byte.                                    *)
LEMMA BitsReadBack ==
  ASSUME NEW b0 \in {0, 1}, NEW b1 \in {0, 1}, NEW b2 \in {0, 1}, NEW b3 \in {0, 1},
         NEW b4 \in {0, 1}
  PROVE  LET v == Byte5(b0, b1, b2, b3, b4) IN
         /\ v \in Nat /\ v < 32
         /\ ~HasFlag(v, "NoState")
         /\ HasFlag(v, "FastParent") <=> b0 = 1
         /\ HasFlag(v, "Deleted") <=> b1 = 1
         /\ HasFlag(v, "HalfDeleted") <=> b2 = 1
         /\ HasFlag(v, "IncompleteSplit") <=> b3 = 1
         /\ HasFlag(v, "HasOverflow") <=> b4 = 1
<1> DEFINE v == Byte5(b0, b1, b2, b3, b4)
<1>1. v \in Nat /\ v < 32
  BY DEF Byte5
<1>2. v \div 1 = v /\ v % 2 = b0
  BY DEF Byte5
<1>3. (v \div 2) % 2 = b1
  BY DEF Byte5
<1>4. (v \div 4) % 2 = b2
  BY DEF Byte5
<1>5. (v \div 8) % 2 = b3
  BY DEF Byte5
<1>6. (v \div 16) % 2 = b4
  BY DEF Byte5
<1> HIDE DEF v
<1>7. /\ Bit["NoState"] = 0 /\ Bit["FastParent"] = 1 /\ Bit["Deleted"] = 2
      /\ Bit["HalfDeleted"] = 4 /\ Bit["IncompleteSplit"] = 8 /\ Bit["HasOverflow"] = 16
  BY DEF Bit
<1> QED
  BY <1>1, <1>2, <1>3, <1>4, <1>5, <1>6, <1>7 DEF HasFlag, v

(* A byte below 32 is made of five bits.                                   *)
LEMMA ByteOfBits ==
  ASSUME NEW v \in Nat, v < 32
  PROVE  \E b0, b1, b2, b3, b4 \in {0, 1} : v = Byte5(b0, b1, b2, b3, b4)
<1> DEFINE v1 == v \div 2
           v2 == v1 \div 2
           v3 == v2 \div 2
           v4 == v3 \div 2
<1>1. v % 2 \in {0, 1} /\ v1 \in Nat /\ v1 < 16 /\ v = (v % 2) + 2 * v1
  OBVIOUS
<1> HIDE DEF v1
<1>2. v1 % 2 \in {0, 1} /\ v2 \in Nat /\ v2 < 8 /\ v1 = (v1 % 2) + 2 * v2
  BY <1>1
<1> HIDE DEF v2
<1>3. v2 % 2 \in {0, 1} /\ v3 \in Nat /\ v3 < 4 /\ v2 = (v2 % 2) + 2 * v3
  BY <1>2
<1> HIDE DEF v3
<1>4. v3 % 2 \in {0, 1} /\ v4 \in {0, 1} /\ v3 = (v3 % 2) + 2 * v4
  BY <1>3
<1> HIDE DEF v4
<1>5. v = Byte5(v % 2, v1 % 2, v2 % 2, v3 % 2, v4)
  BY <1>1, <1>2, <1>3, <1>4 DEF Byte5
<1> QED
  BY <1>1, <1>2, <1>3, <1>4, <1>5

(* set_flag and clear_flag write one bit.                                  *)
WriteBit(v, pf, b) == IF b = 1 THEN SetFlag(v, pf) ELSE ClearFlag(v, pf)

(* They change what has_flag answers for their state and for no other.     *)
LEMMA FlagWritten ==
  ASSUME NEW v \in Nat, v < 32, NEW pf \in PageStates, NEW b \in {0, 1}
  PROVE  LET w == WriteBit(v, pf, b) IN
         /\ w \in Nat /\ w < 32
         /\ \A q \in PageStates :
              HasFlag(w, q) <=> IF q = pf /\ q # "NoState" THEN b = 1 ELSE HasFlag(v, q)
<1>1. PICK b0 \in {0, 1}, b1 \in {0, 1}, b2 \in {0, 1}, b3 \in {0, 1}, b4 \in {0, 1} :
        v = Byte5(b0, b1, b2, b3, b4)
  BY ByteOfBits
<1> DEFINE w == WriteBit(v, pf, b)
           c0 == IF pf = "FastParent" THEN b ELSE b0
           c1 == IF pf = "Deleted" THEN b ELSE b1
           c2 == IF pf = "HalfDeleted" THEN b ELSE b2
           c3 == IF pf = "IncompleteSplit" THEN b ELSE b3
           c4 == IF pf = "HasOverflow" THEN b ELSE b4
<1>2. /\ ~HasFlag(v, "NoState")
      /\ HasFlag(v, "FastParent") <=> b0 = 1
      /\ HasFlag(v, "Deleted") <=> b1 = 1
      /\ HasFlag(v, "HalfDeleted") <=> b2 = 1
      /\ HasFlag(v, "IncompleteSplit") <=> b3 = 1
      /\ HasFlag(v, "HasOverflow") <=> b4 = 1
  BY <1>1, BitsReadBack
<1>3. w = Byte5(c0, c1, c2, c3, c4)
  <2>1. /\ Bit["NoState"] = 0 /\ Bit["FastParent"] = 1 /\ Bit["Deleted"] = 2
        /\ Bit["HalfDeleted"] = 4 /\ Bit["IncompleteSplit"] = 8 /\ Bit["HasOverflow"] = 16
    BY DEF Bit
  <2>2. CASE b = 1
    BY <1>1, <1>2, <2>1, <2>2 DEF WriteBit, SetFlag, PageStates, Byte5
  <2>3. CASE b = 0
    BY <1>1, <1>2, <2>1, <2>3 DEF WriteBit, ClearFlag, PageStates, Byte5
  <2> QED
    BY <2>2, <2>3
<1>4. c0 \in {0, 1} /\ c1 \in {0, 1} /\ c2 \in {0, 1} /\ c3 \in {0, 1} /\ c4 \in {0, 1}
  OBVIOUS
<1> HIDE DEF w, c0, c1, c2, c3, c4
<1>5. /\ w \in Nat /\ w < 32
      /\ ~HasFlag(w, "NoState")
      /\ HasFlag(w, "FastParent") <=> c0 = 1
      /\ HasFlag(w, "Deleted") <=> c1 = 1
      /\ HasFlag(w, "HalfDeleted") <=> c2 = 1
      /\ HasFlag(w, "IncompleteSplit") <=> c3 = 1
      /\ HasFlag(w, "HasOverflow") <=> c4 = 1
  BY <1>3, <1>4, BitsReadBack
<1>6. \A q \in PageStates :
        HasFlag(w, q) <=> IF q = pf /\ q # "NoState" THEN b = 1 ELSE HasFlag(v, q)
  BY <1>2, <1>5 DEF PageStates, c0, c1, c2, c3, c4
<1> QED
  BY <1>5, <1>6 DEF w

(* PageFlags::new holds its state and no other.                            *)
LEMMA FlagAlone ==
  ASSUME NEW pf \in PageStates
  PROVE  /\ Bit[pf] \in Nat /\ Bit[pf] < 32
         /\ \A q \in PageStates : HasFlag(Bit[pf], q) <=> q = pf /\ q # "NoState"
<1>1. Bit[pf] = SetFlag(0, pf) /\ ~HasFlag(0, pf)
  BY DEF SetFlag, HasFlag, Bit, PageStates
<1>2. \A q \in PageStates : ~HasFlag(0, q)
  BY DEF HasFlag, Bit, PageStates
<1>3. SetFlag(0, pf) = WriteBit(0, pf, 1)
  BY DEF WriteBit
<1> QED
  BY <1>1, <1>2, <1>3, FlagWritten

-----------------------------------------------------------------------------
(* The page_type byte.                                                     *)

(* Two nibbles side by side are read back, and only those.                 *)
LEMMA NibblesReadBack ==
  ASSUME NEW k \in Nat, k < 16, NEW s \in Nat, s < 16
  PROVE  LET v == k + 16 * s IN v \in Nat /\ v < 256 /\ v % 16 = k /\ SubTypeOf(v) = s
  BY DEF SubTypeOf

(* What the three writers of the byte make of its nibbles.                 *)
LEMMA TypeWritten ==
  ASSUME NEW v \in Nat, v < 256, NEW a \in Nat, NEW b \in Nat
  PROVE  /\ v % 16 \in Nat /\ v % 16 < 16 /\ SubTypeOf(v) \in Nat /\ SubTypeOf(v) < 16
         /\ a % 16 \in Nat /\ a % 16 < 16 /\ b % 16 \in Nat /\ b % 16 < 16
         /\ NewPageType(a, b) = (a % 16) + 16 * (b % 16)
         /\ WithPageType(v, a) = (a % 16) + 16 * SubTypeOf(v)
         /\ WithSubType(v, b) = (v % 16) + 16 * (b % 16)
<1>1. v % 16 \in Nat /\ v % 16 < 16 /\ v \div 16 \in Nat /\ v \div 16 < 16
  OBVIOUS
<1>2. a % 16 \in Nat /\ a % 16 < 16 /\ b % 16 \in Nat /\ b % 16 < 16
  OBVIOUS
<1>3. v = (v % 16) + 16 * (v \div 16)
  OBVIOUS
<1>4. WithPageType(v, a) = (a % 16) + 16 * SubTypeOf(v)
  <2> DEFINE k == v % 16
             s == v \div 16
  <2> HIDE DEF k, s
  <2>1. (v - k) + (a % 16) = (a % 16) + 16 * s
    BY <1>1, <1>2, <1>3 DEF k, s
  <2> QED
    BY <2>1 DEF WithPageType, SubTypeOf, k, s
<1> QED
  BY <1>1, <1>2, <1>4 DEF NewPageType, WithSubType, SubTypeOf

-----------------------------------------------------------------------------
(* The refinement of HeaderFields.                                         *)

(* Both bytes stay bytes; no state has one of the three high flag bits.    *)
Inv == page_type \in Nat /\ page_type < 256 /\ flags \in Nat /\ flags < 32

(* Every call of a setter keeps the invariant and is the HeaderFields call *)
(* of the same name and arguments.                                         *)
LEMMA HeaderCalls == Inv => CallsMatch /\ (Next => Inv')
<1> SUFFICES ASSUME Inv PROVE CallsMatch /\ (Next => Inv')
  OBVIOUS
<1> DEFINE k == page_type % 16
           s == SubTypeOf(page_type)
<1>1. \A a \in Args : a \in Nat
  BY ArgsAssumption
<1>2. ASSUME NEW x \in Nat, x < 16, NEW y \in Nat, y < 16, page_type' = x + 16 * y,
             UNCHANGED flags
      PROVE  Inv' /\ page_type' % 16 = x /\ SubTypeOf(page_type') = y
                  /\ StatesIn(flags') = StatesIn(flags)
  BY <1>2, NibblesReadBack DEF Inv
<1>3. k \in Nat /\ k < 16 /\ s \in Nat /\ s < 16
  BY TypeWritten DEF Inv
<1> HIDE DEF k, s
<1>4. ASSUME NEW a \in Args, NEW b \in Args, NewType(a, b)
      PROVE  Inv' /\ Fields!HFNewType(a, b)
  <2>1. page_type' = (a % 16) + 16 * (b % 16) /\ UNCHANGED flags
    BY <1>1, <1>4, TypeWritten DEF NewType, Inv
  <2>2. a % 16 \in Nat /\ a % 16 < 16 /\ b % 16 \in Nat /\ b % 16 < 16
    BY <1>1, TypeWritten, SMTT(30) DEF Inv
  <2>3. /\ Inv' /\ page_type' % 16 = a % 16 /\ SubTypeOf(page_type') = b % 16
        /\ StatesIn(flags') = StatesIn(flags)
    BY <1>2, <2>1, <2>2
  <2> QED
    BY <2>3, Zenon DEF Fields!HFNewType, Fields!Kept
<1>5. ASSUME NEW a \in Args, SetKind(a) PROVE Inv' /\ Fields!HFSetKind(a)
  <2>1. page_type' = (a % 16) + 16 * s /\ UNCHANGED flags
    BY <1>1, <1>5, TypeWritten DEF SetKind, Inv, s
  <2>2. a % 16 \in Nat /\ a % 16 < 16
    BY <1>1, TypeWritten DEF Inv
  <2>3. /\ Inv' /\ page_type' % 16 = a % 16 /\ SubTypeOf(page_type') = s
        /\ StatesIn(flags') = StatesIn(flags)
    BY <1>2, <1>3, <2>1, <2>2
  <2> QED
    BY <2>3, Zenon DEF Fields!HFSetKind, Fields!Kept, s
<1>6. ASSUME NEW b \in Args, SetSubtype(b) PROVE Inv' /\ Fields!HFSetSubtype(b)
  <2>1. page_type' = k + 16 * (b % 16) /\ UNCHANGED flags
    BY <1>1, <1>6, TypeWritten, ZenonT(30) DEF SetSubtype, Inv, k
  <2>2. b % 16 \in Nat /\ b % 16 < 16
    BY <1>1, TypeWritten DEF Inv
  <2>3. /\ Inv' /\ page_type' % 16 = k /\ SubTypeOf(page_type') = b % 16
        /\ StatesIn(flags') = StatesIn(flags)
    BY <1>2, <1>3, <2>1, <2>2
  <2> QED
    BY <2>3, Zenon DEF Fields!HFSetSubtype, Fields!Kept, k
<1>7. ASSUME NEW pf \in PageStates, NewFlags(pf) PROVE Inv' /\ Fields!HFNewFlags(pf)
  <2>1. /\ flags' \in Nat /\ flags' < 32 /\ UNCHANGED page_type
        /\ \A q \in PageStates : HasFlag(flags', q) <=> q = pf /\ q # "NoState"
    BY <1>7, FlagAlone DEF NewFlags
  <2>2. StatesIn(flags') = {pf} \ {"NoState"}
    BY <2>1 DEF StatesIn
  <2> QED
    BY <2>1, <2>2 DEF Inv, Fields!HFNewFlags, Fields!Named
<1>8. ASSUME NEW pf \in PageStates, Raise(pf) PROVE Inv' /\ Fields!HFRaise(pf)
  <2>1. flags' = WriteBit(flags, pf, 1) /\ UNCHANGED page_type
    BY <1>8 DEF Raise, WriteBit
  <2>2. /\ flags' \in Nat /\ flags' < 32
        /\ \A q \in PageStates :
             HasFlag(flags', q) <=> IF q = pf /\ q # "NoState" THEN 1 = 1 ELSE HasFlag(flags, q)
    BY <2>1, FlagWritten DEF Inv
  <2>3. StatesIn(flags') = StatesIn(flags) \cup ({pf} \ {"NoState"})
    BY <2>2 DEF StatesIn
  <2> QED
    BY <2>1, <2>2, <2>3 DEF Inv, Fields!HFRaise, Fields!Named
<1>9. ASSUME NEW pf \in PageStates, Clear(pf) PROVE Inv' /\ Fields!HFClear(pf)
  <2>1. flags' = WriteBit(flags, pf, 0) /\ UNCHANGED page_type
    BY <1>9 DEF Clear, WriteBit
  <2>2. /\ flags' \in Nat /\ flags' < 32
        /\ \A q \in PageStates :
             HasFlag(flags', q) <=> IF q = pf /\ q # "NoState" THEN 0 = 1 ELSE HasFlag(flags, q)
    BY <2>1, FlagWritten DEF Inv
  <2>3. StatesIn(flags') = StatesIn(flags) \ ({pf} \ {"NoState"})
    BY <2>2 DEF StatesIn
  <2> QED
    BY <2>1, <2>2, <2>3 DEF Inv, Fields!HFClear, Fields!Named
<1>10. CallsMatch
  BY <1>4, <1>5, <1>6, <1>7, <1>8, <1>9, Zenon DEF CallsMatch
<1>11. Next => Inv'
  BY <1>4, <1>5, <1>6, <1>7, <1>8, <1>9, Zenon DEF Next
<1> QED
  BY <1>10, <1>11

(* A step of the setters is a step of HeaderFields.                        *)
LEMMA HeaderStep == Inv /\ Next => Fields!HFNext
<1> SUFFICES ASSUME Inv, Next PROVE Fields!HFNext
  OBVIOUS
<1>1. CallsMatch
  BY HeaderCalls
<1> QED
  BY <1>1, Zenon DEF CallsMatch, Next, Fields!HFNext

(* For every set of argument bytes: each call of a setter writes what its  *)
(* own argument says, and no kind, subtype or flag that it is not about.   *)
THEOREM HeaderImplementsFields == Spec => ImplementsHeaderFields
<1>1. Init => Inv /\ Fields!HFInit
  <2> SUFFICES ASSUME Init PROVE Inv /\ Fields!HFInit
    OBVIOUS
  <2>1. page_type = 0 /\ flags = 0
    BY DEF Init, NewPageType, Bit
  <2>2. 0 % 16 = 0 /\ SubTypeOf(0) = 0
    BY DEF SubTypeOf
  <2>3. \A q \in PageStates : ~HasFlag(0, q)
    BY DEF HasFlag, Bit, PageStates
  <2>4. StatesIn(flags) = {}
    BY <2>1, <2>3 DEF StatesIn
  <2> QED
    BY <2>1, <2>2, <2>4 DEF Inv, Fields!HFInit
<1>2. Inv /\ [Next]_vars => Inv'
  BY HeaderCalls DEF Inv, vars
<1>3. Inv /\ [Next]_vars
        => [Fields!HFNext]_<<page_type % 16, SubTypeOf(page_type), StatesIn(flags)>>
  <2>1. UNCHANGED vars
          => UNCHANGED <<page_type % 16, SubTypeOf(page_type), StatesIn(flags)>>
    BY DEF vars
  <2> QED
    BY <2>1, HeaderStep
<1>4. Inv /\ [Next]_vars => [CallsMatch]_vars
  BY HeaderCalls
<1> QED
  BY <1>1, <1>2, <1>3, <1>4, PTL DEF Spec, ImplementsHeaderFields, Fields!HFSpec
=============================================================================
