---------------------------- MODULE KeyOrderProofs ----------------------------
(***************************************************************************)
(* The order of keys that find_child_ptr compares with, for all keys.      *)
(***************************************************************************)
EXTENDS IndexLayout, SequenceTheorems, WellFoundedInduction, TLAPS

(* A set of natural numbers that is not empty has a least element.  The    *)
(* well-foundedness of < stands in for induction.                          *)
LEMMA LeastNatural ==
  ASSUME NEW S, S \subseteq Nat, S # {}
  PROVE  \E m \in S : \A n \in S : m <= n
<1> DEFINE R == OpToRel(<, Nat)
<1>1. \A x, y \in Nat : x < y => <<x, y>> \in R
  BY DEF OpToRel
<1>2. IsWellFoundedOn(R, Nat)
  BY NatLessThanWellFounded, Zenon
<1> HIDE DEF R
<1>3. PICK m \in S : \A n \in S : ~(<<n, m>> \in R)
  BY <1>2, WFMin, Zenon
<1>4. \A n \in S : ~(n < m)
  BY <1>1, <1>3, Zenon
<1>5. \A n \in S : m <= n
  BY <1>4
<1> QED
  BY <1>5

(* What is in a key is a number.                                           *)
LEMMA KeyBytes ==
  ASSUME NEW a \in Seq(Byte)
  PROVE  Len(a) \in Nat /\ \A i \in 1 .. Len(a) : a[i] \in Int
<1>1. \A b \in Byte : b \in Int
  BY DEF Byte
<1>2. \A i \in 1 .. Len(a) : a[i] \in Byte
  BY ElementOfSeq
<1> QED
  BY <1>1, <1>2

(* No key is below itself.                                                 *)
LEMMA KeyLessIrreflexive ==
  ASSUME NEW a \in Seq(Byte)
  PROVE  ~KeyLess(a, a)
<1> SUFFICES ASSUME NEW n \in 0 .. Len(a), n < Len(a), n = Len(a) \/ a[n + 1] < a[n + 1]
             PROVE  FALSE
  BY Zenon DEF KeyLess
<1>1. Len(a) \in Nat /\ n + 1 \in 1 .. Len(a)
  OBVIOUS
<1>2. a[n + 1] \in Int
  BY <1>1, KeyBytes
<1> QED
  BY <1>1, <1>2

(* Two keys agree before, and differ at, the place that decides.           *)
LEMMA KeyLessTransitive ==
  ASSUME NEW a \in Seq(Byte), NEW b \in Seq(Byte), NEW c \in Seq(Byte),
         KeyLess(a, b), KeyLess(b, c)
  PROVE  KeyLess(a, c)
<1>1. PICK n \in 0 .. Len(a) :
        n < Len(b) /\ (\A i \in 1 .. n : a[i] = b[i]) /\ (n = Len(a) \/ a[n + 1] < b[n + 1])
  BY Zenon DEF KeyLess
<1>2. PICK m \in 0 .. Len(b) :
        m < Len(c) /\ (\A i \in 1 .. m : b[i] = c[i]) /\ (m = Len(b) \/ b[m + 1] < c[m + 1])
  BY Zenon DEF KeyLess
<1>3. /\ Len(a) \in Nat /\ Len(b) \in Nat /\ Len(c) \in Nat
      /\ \A i \in 1 .. Len(a) : a[i] \in Int
      /\ \A i \in 1 .. Len(b) : b[i] \in Int
      /\ \A i \in 1 .. Len(c) : c[i] \in Int
  BY KeyBytes
<1> DEFINE k == IF n <= m THEN n ELSE m
<1>4. k \in 0 .. Len(a) /\ k < Len(c)
  BY <1>1, <1>2, <1>3
<1>5. \A i \in 1 .. k : a[i] = c[i]
  BY <1>1, <1>2, <1>3
<1>6. k = Len(a) \/ a[k + 1] < c[k + 1]
  <2>1. CASE n < m
    BY <1>1, <1>2, <1>3, <2>1
  <2>2. CASE n = m
    <3>1. m # Len(b)
      BY <1>1, <2>2
    <3> QED
      BY <1>1, <1>2, <1>3, <2>2, <3>1, SMTT(30)
  <2>3. CASE m < n
    BY <1>1, <1>2, <1>3, <2>3
  <2> QED
    BY <1>1, <1>2, <1>3, <2>1, <2>2, <2>3, SMTT(30)
<1> HIDE DEF k
<1> QED
  BY <1>4, <1>5, <1>6, Zenon DEF KeyLess

(* Of two different keys one is below the other.                           *)
LEMMA KeyLessTotal ==
  ASSUME NEW a \in Seq(Byte), NEW b \in Seq(Byte), a # b
  PROVE  KeyLess(a, b) \/ KeyLess(b, a)
<1> DEFINE D == {i \in 1 .. Len(a) : i <= Len(b) /\ a[i] # b[i]}
<1>1. Len(a) \in Nat /\ Len(b) \in Nat
  OBVIOUS
<1>2. CASE D = {}
  <2>1. \A i \in 1 .. Len(a) : i <= Len(b) => a[i] = b[i]
    BY <1>2
  <2>2. Len(a) # Len(b)
    <3> SUFFICES ASSUME Len(a) = Len(b) PROVE FALSE
      OBVIOUS
    <3>1. \A i \in 1 .. Len(a) : a[i] = b[i]
      BY <1>1, <2>1
    <3> QED
      BY <3>1, SeqEqual
  <2>3. CASE Len(a) < Len(b)
    <3>1. Len(a) \in 0 .. Len(a) /\ \A i \in 1 .. Len(a) : a[i] = b[i]
      BY <1>1, <2>1, <2>3
    <3> QED
      BY <2>3, <3>1, Zenon DEF KeyLess
  <2>4. CASE Len(b) < Len(a)
    <3>1. Len(b) \in 0 .. Len(b) /\ \A i \in 1 .. Len(b) : b[i] = a[i]
      BY <1>1, <2>1, <2>4
    <3> QED
      BY <2>4, <3>1, Zenon DEF KeyLess
  <2> QED
    BY <1>1, <2>2, <2>3, <2>4
<1>3. CASE D # {}
  <2>1. PICK m \in D : \A i \in D : m <= i
    <3>1. D \subseteq Nat
      BY <1>1
    <3> HIDE DEF D
    <3> QED
      BY <1>3, <3>1, LeastNatural, Zenon
  <2>2. m \in 1 .. Len(a) /\ m <= Len(b) /\ a[m] # b[m]
    OBVIOUS
  <2> DEFINE n == m - 1
  <2>3. /\ n \in 0 .. Len(a) /\ n \in 0 .. Len(b) /\ n < Len(a) /\ n < Len(b)
        /\ n + 1 = m
    BY <1>1, <2>2
  <2>4. \A i \in 1 .. n : a[i] = b[i]
    BY <1>1, <2>1, <2>2
  <2>5. a[m] \in Int /\ b[m] \in Int
    BY <1>1, <2>2, <2>3, KeyBytes
  <2>6. a[m] < b[m] \/ b[m] < a[m]
    BY <2>2, <2>5
  <2> HIDE DEF n
  <2>7. CASE a[m] < b[m]
    BY <2>3, <2>4, <2>7, Zenon DEF KeyLess
  <2>8. CASE b[m] < a[m]
    BY <2>3, <2>4, <2>8, Zenon DEF KeyLess
  <2> QED
    BY <2>6, <2>7, <2>8
<1> QED
  BY <1>2, <1>3

(* For all keys: bytewise order with a prefix first is a strict total      *)
(* order, so that of the pivots above a key one and only one is the least, *)
(* and a page in order holds no key twice (internal_page.rs:168-191).      *)
THEOREM KeyOrderIsTotal ==
  \A a, b, c \in Seq(Byte) :
    /\ ~KeyLess(a, a)
    /\ KeyLess(a, b) => ~KeyLess(b, a)
    /\ KeyLess(a, b) /\ KeyLess(b, c) => KeyLess(a, c)
    /\ a = b \/ KeyLess(a, b) \/ KeyLess(b, a)
  BY KeyLessIrreflexive, KeyLessTransitive, KeyLessTotal, Zenon
=============================================================================
