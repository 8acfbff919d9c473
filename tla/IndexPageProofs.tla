---------------------------- MODULE IndexPageProofs ----------------------------
(***************************************************************************)
(* Proofs about IndexPage, for every page size, all keys and child ids,    *)
(* and every sequence of calls.                                            *)
(***************************************************************************)
EXTENDS IndexPage, SlottedPageLemmas, KeyOrderProofs

-----------------------------------------------------------------------------
(* The encoding of ids and cells.                                          *)

(* A number is its low byte and what is above.                             *)
LEMMA LowByte ==
  ASSUME NEW n \in Nat
  PROVE  Low(n) \in Byte /\ Above1(n) \in Nat /\ n = Join(Low(n), Above1(n))
  BY DEF Byte, Above1, Low, Join

(* A u64 is read back from its bytes.                                      *)
LEMMA LE8 ==
  ASSUME NEW n \in Nat, FitsU64(n)
  PROVE  /\ ToLE8(n) \in Seq(Byte) /\ Len(ToLE8(n)) = 8
         /\ FromLE8(ToLE8(n)) = n
<1> DEFINE n1 == Above1(n)
           n2 == Above1(n1)
           n3 == Above1(n2)
           n4 == Above1(n3)
           n5 == Above1(n4)
           n6 == Above1(n5)
           n7 == Above1(n6)
           n8 == Above1(n7)
<1>1. /\ n2 = Above2(n) /\ n3 = Above1(Above2(n)) /\ n4 = Above4(n)
      /\ n5 = Above1(Above4(n)) /\ n6 = Above2(Above4(n))
      /\ n7 = Above1(Above2(Above4(n))) /\ n8 = Above4(Above4(n))
  BY DEF Above2, Above4
<1>2. ToLE8(n) = <<Low(n), Low(n1), Low(n2), Low(n3), Low(n4), Low(n5), Low(n6), Low(n7)>>
  BY <1>1 DEF ToLE8
<1>3. n8 = 0
  BY <1>1 DEF FitsU64
<1>4. ASSUME NEW m \in Nat
      PROVE  Low(m) \in Byte /\ Above1(m) \in Nat /\ m = Join(Low(m), Above1(m))
  BY LowByte
<1>5. Low(n) \in Byte /\ n1 \in Nat /\ n = Join(Low(n), n1)
  BY <1>4
<1>6. Low(n1) \in Byte /\ n2 \in Nat /\ n1 = Join(Low(n1), n2)
  BY <1>4, <1>5
<1>7. Low(n2) \in Byte /\ n3 \in Nat /\ n2 = Join(Low(n2), n3)
  BY <1>4, <1>6
<1>8. Low(n3) \in Byte /\ n4 \in Nat /\ n3 = Join(Low(n3), n4)
  BY <1>4, <1>7
<1>9. Low(n4) \in Byte /\ n5 \in Nat /\ n4 = Join(Low(n4), n5)
  BY <1>4, <1>8
<1>10. Low(n5) \in Byte /\ n6 \in Nat /\ n5 = Join(Low(n5), n6)
  BY <1>4, <1>9
<1>11. Low(n6) \in Byte /\ n7 \in Nat /\ n6 = Join(Low(n6), n7)
  BY <1>4, <1>10
<1>12. Low(n7) \in Byte /\ n8 \in Nat /\ n7 = Join(Low(n7), n8)
  BY <1>4, <1>11
<1> HIDE DEF n1, n2, n3, n4, n5, n6, n7, n8
<1>13. ToLE8(n) \in Seq(Byte) /\ Len(ToLE8(n)) = 8
  BY <1>2, <1>5, <1>6, <1>7, <1>8, <1>9, <1>10, <1>11, <1>12, SMTT(30)
<1>14. FromLE8(ToLE8(n))
        = Join(Low(n), Join(Low(n1), Join(Low(n2), Join(Low(n3),
            Join(Low(n4), Join(Low(n5), Join(Low(n6), Low(n7))))))))
  BY <1>2 DEF FromLE8
<1>15. Low(n7) = n7
  BY <1>3, <1>11, <1>12, SMTT(30) DEF Byte, Join
<1> QED
  BY <1>13, <1>14, <1>15, <1>5, <1>6, <1>7, <1>8, <1>9, <1>10, <1>11, SMTT(30)

(* A u16 is read back from its bytes.                                      *)
LEMMA LE2 ==
  ASSUME NEW n \in Nat, n < 65536
  PROVE  /\ ToLE2(n) \in Seq(Byte) /\ Len(ToLE2(n)) = 2
         /\ FromLE2(ToLE2(n)) = n
<1> DEFINE h == Above1(n)
<1>1. Low(n) \in Byte /\ h \in Nat /\ n = Join(Low(n), h)
  BY LowByte
<1>2. h \in Byte
  BY <1>1 DEF Byte, Join
<1>3. Low(h) = h
  BY <1>2 DEF Byte, Low
<1>4. ToLE2(n) = <<Low(n), h>>
  BY <1>3 DEF ToLE2
<1> HIDE DEF h
<1> QED
  <2>1. ToLE2(n) \in Seq(Byte) /\ Len(ToLE2(n)) = 2
    BY <1>1, <1>2, <1>4
  <2>2. FromLE2(ToLE2(n)) = Join(Low(n), h)
    BY <1>4 DEF FromLE2
  <2> QED
    BY <1>1, <2>1, <2>2

(* The bytes of an encoded cell: child id, key length, key.                *)
LEMMA CellBytes ==
  ASSUME NEW key \in Seq(Byte), NEW ptr \in Nat, FitsU64(ptr)
  PROVE  LET c == IndexCellOwned(key, ptr) IN
         /\ c \in Cell /\ Len(c) = 10 + Len(key)
         /\ \A i \in 1 .. 8 : c[i] = ToLE8(ptr)[i]
         /\ c[9] = ToLE2(LenU16(key))[1] /\ c[10] = ToLE2(LenU16(key))[2]
         /\ \A i \in 1 .. Len(key) : c[10 + i] = key[i]
<1> DEFINE a == ToLE8(ptr)
           b == ToLE2(LenU16(key))
           h == a \o b
<1>1. a \in Seq(Byte) /\ Len(a) = 8
  BY LE8
<1>2. b \in Seq(Byte) /\ Len(b) = 2
  <2>1. LenU16(key) \in Nat /\ LenU16(key) < 65536
    BY DEF LenU16
  <2> QED
    BY <2>1, LE2
<1> HIDE DEF a, b
<1>3. /\ h \in Seq(Byte) /\ Len(h) = 10 /\ \A i \in 1 .. 8 : h[i] = a[i]
      /\ h[9] = b[1] /\ h[10] = b[2]
  <2>1. /\ h \in Seq(Byte) /\ Len(h) = Len(a) + Len(b)
        /\ \A i \in 1 .. Len(a) + Len(b) : h[i] = IF i <= Len(a) THEN a[i] ELSE b[i - Len(a)]
    BY <1>1, <1>2, ConcatProperties, ZenonT(30)
  <2> HIDE DEF h
  <2> QED
    BY <1>1, <1>2, <2>1
<1> DEFINE g == h \o key
<1> HIDE DEF h
<1>4. /\ g \in Seq(Byte) /\ Len(g) = 10 + Len(key)
      /\ \A i \in 1 .. 8 : g[i] = a[i]
      /\ g[9] = b[1] /\ g[10] = b[2]
      /\ \A i \in 1 .. Len(key) : g[10 + i] = key[i]
  <2>1. /\ g \in Seq(Byte) /\ Len(g) = Len(h) + Len(key)
        /\ \A i \in 1 .. Len(h) + Len(key) :
             g[i] = IF i <= Len(h) THEN h[i] ELSE key[i - Len(h)]
    BY <1>3, ConcatProperties, ZenonT(30)
  <2> HIDE DEF g
  <2>2. ASSUME NEW i \in 1 .. Len(key) PROVE g[10 + i] = key[i]
    <3>1. /\ 10 + i \in 1 .. Len(h) + Len(key) /\ ~(10 + i <= Len(h))
          /\ (10 + i) - Len(h) = i
      BY <1>3
    <3> QED
      BY <2>1, <3>1
  <2>3. \A i \in 1 .. 10 : g[i] = h[i]
    BY <1>3, <2>1, SMTT(30)
  <2> QED
    BY <1>3, <2>1, <2>2, <2>3, SMTT(30)
<1>5. IndexCellOwned(key, ptr) = g
  BY DEF IndexCellOwned, g, h, a, b
<1> HIDE DEF g
<1> QED
  BY <1>4, <1>5 DEF Cell, a, b

(* Decoding a cell gives the key and the child it was made of.             *)
LEMMA CellCodec ==
  ASSUME NEW key \in Seq(Byte), NEW ptr \in Nat, FitsU64(ptr), CellAccepted(key)
  PROVE  LET c == IndexCellOwned(key, ptr) IN
         c \in Cell /\ CellReadable(c) /\ EntryOf(c) = [key |-> key, ptr |-> ptr]
<1> DEFINE c == IndexCellOwned(key, ptr)
           n == Len(key)
<1>1. /\ c \in Cell /\ Len(c) = 10 + n
      /\ \A i \in 1 .. 8 : c[i] = ToLE8(ptr)[i]
      /\ c[9] = ToLE2(LenU16(key))[1] /\ c[10] = ToLE2(LenU16(key))[2]
      /\ \A i \in 1 .. n : c[10 + i] = key[i]
  BY CellBytes
<1>2. n \in Nat /\ n < 65536 /\ LenU16(key) = n
  BY PageSizeAssumption DEF LenU16, CellAccepted, KEY_DATA_OFFSET, MAX_INDEX_CELL_SIZE,
                            HEADER_SIZE, ENTRY_SIZE
<1> HIDE DEF c
<1>3. \A i \in 1 .. 10 + n : c[i] \in Byte
  BY <1>1, <1>2, SMTT(30) DEF Cell
<1>4. KeyLen(c) = n
  <2> DEFINE t == SubSeq(c, 9, 10)
  <2>1. /\ t \in Seq(Byte) /\ t[1] = c[9] /\ t[2] = c[10]
    BY <1>2, <1>3, SubSeqProperties, SMTT(30)
  <2>2. FromLE2(t) = FromLE2(ToLE2(n))
    BY <1>1, <1>2, <2>1, SMTT(30) DEF FromLE2
  <2>3. FromLE2(ToLE2(n)) = n
    BY <1>2, LE2
  <2> QED
    BY <2>2, <2>3 DEF KeyLen, KEY_LEN_OFFSET, KEY_DATA_OFFSET
<1>5. PtrOf(c) = ptr
  <2> DEFINE t == SubSeq(c, 1, 8)
  <2>1. \A i \in 1 .. 8 : t[i] = c[i]
    BY <1>2, <1>3, SubSeqProperties
  <2>2. FromLE8(t) = FromLE8(ToLE8(ptr))
    BY <1>1, <2>1 DEF FromLE8
  <2> QED
    BY <2>2, LE8 DEF PtrOf, KEY_LEN_OFFSET
<1>6. KeyOf(c) = key
  <2> DEFINE t == SubSeq(c, 11, 10 + n)
  <2>1. /\ t \in Seq(Byte) /\ Len(t) = n
        /\ \A i \in 1 .. n : t[i] = c[10 + i]
    <3>1. \A i \in 11 .. 10 + n : c[i] \in Byte
      BY <1>2, <1>3
    <3>2. /\ t \in Seq(Byte)
          /\ Len(t) = IF 11 <= 10 + n THEN (10 + n) - 11 + 1 ELSE 0
          /\ \A i \in 1 .. (10 + n) - 11 + 1 : t[i] = c[11 + i - 1]
      BY <1>2, <3>1, SubSeqProperties
    <3> HIDE DEF t
    <3> QED
      BY <1>2, <3>2
  <2> HIDE DEF t
  <2>2. \A i \in 1 .. n : t[i] = key[i]
    BY <1>1, <2>1
  <2>3. t = key
    BY <2>1, <2>2, SeqEqual
  <2> QED
    BY <1>4, <2>3 DEF KeyOf, KEY_DATA_OFFSET, t
<1>7. CellReadable(c)
  BY <1>1, <1>2, <1>4 DEF CellReadable, KEY_DATA_OFFSET
<1> QED
  BY <1>1, <1>5, <1>6, <1>7 DEF EntryOf, c

-----------------------------------------------------------------------------
(* The kind and level in the page_type byte.                               *)

(* A kind is read back from its byte, which has level 0.                   *)
LEMMA KindReadsBack ==
  ASSUME NEW kind \in PageKind
  PROVE  /\ KindToU8[kind] \in Byte
         /\ KindOf(KindToU8[kind]) = kind /\ SubTypeOf(KindToU8[kind]) = 0
<1> DEFINE n == KindToU8[kind]
<1>1. n \in 0 .. 6
  BY DEF PageKind, KindToU8
<1>2. \A k \in PageKind : KindToU8[k] = n => k = kind
  BY DEF PageKind, KindToU8
<1> HIDE DEF n
<1>3. n % 16 = n /\ n \div 16 = 0 /\ n \in Byte
  BY <1>1 DEF Byte
<1>4. (CHOOSE k \in PageKind : KindToU8[k] = n) = kind
  BY <1>2, Zenon DEF n
<1>5. \E k \in PageKind : KindToU8[k] = n
  BY DEF n
<1>6. KindFromU8(n) = kind
  BY <1>4, <1>5, Zenon DEF KindFromU8
<1>7. KindOf(n) = kind /\ SubTypeOf(n) = 0
  BY <1>3, <1>6, Zenon DEF KindOf, SubTypeOf
<1> QED
  BY <1>3, <1>7 DEF n

(* The low four bits of a level are read back, and the kind stays.         *)
LEMMA LevelReadsBack ==
  ASSUME NEW raw \in Byte, NEW level \in Nat
  PROVE  /\ WithSubType(raw, level) \in Byte
         /\ KindOf(WithSubType(raw, level)) = KindOf(raw)
         /\ SubTypeOf(WithSubType(raw, level)) = level % 16
<1> DEFINE r == raw % 16
           l == level % 16
           w == r + 16 * l
<1>1. r \in 0 .. 15 /\ l \in 0 .. 15
  BY DEF Byte
<1>2. WithSubType(raw, level) = w
  BY Zenon DEF WithSubType
<1> HIDE DEF r, l
<1>3. w \in Byte /\ w % 16 = r /\ w \div 16 = l
  BY <1>1 DEF Byte
<1> HIDE DEF w
<1>4. KindOf(w) = KindOf(raw) /\ SubTypeOf(w) = l
  BY <1>3, Zenon DEF KindOf, SubTypeOf, r
<1> QED
  BY <1>2, <1>3, <1>4 DEF l

-----------------------------------------------------------------------------
(* The right sibling in the special area.                                  *)

(* Where the special area of a sound page is.                              *)
LEMMA SpecialArea ==
  ASSUME NEW p, PageInv(p)
  PROVE  /\ HasSpecial(p) => /\ Formatted(p) /\ p.special = PAGE_SIZE - INDEX_SPECIAL_SIZE
                             /\ p.special \in Nat /\ p.special + 16 = PAGE_SIZE
                             /\ Limit(p) = p.special
         /\ ~HasSpecial(p) => p.special = 0 /\ RightSibling(p) = 0
<1>1. HasSpecial(p) => Formatted(p) /\ p.special = PAGE_SIZE - INDEX_SPECIAL_SIZE
  BY DEF PageInv, Raw, Formatted, HasSpecial
<1> QED
  BY <1>1, PageSizeAssumption
     DEF HasSpecial, RightSibling, Limit, INDEX_SPECIAL_SIZE, HEADER_SIZE

(* The sibling is a function of the special area alone.                    *)
LEMMA SiblingKept ==
  ASSUME NEW p, PageInv(p), NEW q, q.special = p.special,
         \A k \in p.special + 1 .. PAGE_SIZE : q.bytes[k] = p.bytes[k]
  PROVE  RightSibling(q) = RightSibling(p) /\ (HasSpecial(q) <=> HasSpecial(p))
<1>1. HasSpecial(q) <=> HasSpecial(p)
  BY DEF HasSpecial
<1>2. CASE ~HasSpecial(p)
  BY <1>1, <1>2 DEF RightSibling
<1>3. CASE HasSpecial(p)
  <2> DEFINE o == p.special + RIGHT_SIBLING_OFFSET
  <2>1. o \in Nat /\ p.special \in Nat /\ o = p.special + 8 /\ o + 8 = PAGE_SIZE
    BY <1>3, SpecialArea DEF RIGHT_SIBLING_OFFSET
  <2>2. p.bytes \in [1 .. PAGE_SIZE -> Byte]
    BY DEF PageInv, Page
  <2> HIDE DEF o
  <2>3. \A k \in o + 1 .. o + 8 :
          k \in 1 .. PAGE_SIZE /\ k \in p.special + 1 .. PAGE_SIZE
    BY <2>1
  <2>4. \A k \in o + 1 .. o + 8 : q.bytes[k] = p.bytes[k] /\ p.bytes[k] \in Byte
    BY <2>2, <2>3, Zenon
  <2>5. SubSeq(q.bytes, o + 1, o + 8) = SubSeq(p.bytes, o + 1, o + 8)
    <3> DEFINE l == 8
    <3>1. l \in Nat /\ o \in Nat
      BY <2>1
    <3>2. \A k \in o + 1 .. o + l : q.bytes[k] = p.bytes[k] /\ p.bytes[k] \in Byte
      BY <2>4
    <3> HIDE DEF l
    <3>3. SubSeq(q.bytes, o + 1, o + l) = SubSeq(p.bytes, o + 1, o + l)
      BY <3>1, <3>2, SameBytes, ZenonT(30)
    <3> QED
      BY <3>3, Zenon DEF l
  <2>6. RightSibling(p) = FromLE8(SubSeq(p.bytes, o + 1, o + 8))
    BY <1>3, Zenon DEF RightSibling, o
  <2>7. RightSibling(q) = FromLE8(SubSeq(q.bytes, q.special + RIGHT_SIBLING_OFFSET + 1,
                                                  q.special + RIGHT_SIBLING_OFFSET + 8))
    BY <1>1, <1>3, Zenon DEF RightSibling
  <2> QED
    BY <1>1, <2>5, <2>6, <2>7, Zenon DEF o
<1> QED
  BY <1>1, <1>2, <1>3

(* The eight bytes of the special area are what the sibling is made of.    *)
LEMMA SiblingFromBytes ==
  ASSUME NEW p, PageInv(p), HasSpecial(p), NEW w,
         \A k \in 1 .. 8 : p.bytes[p.special + 8 + k] = w[k]
  PROVE  RightSibling(p) = FromLE8(w)
<1> DEFINE o == p.special + RIGHT_SIBLING_OFFSET
           t == SubSeq(p.bytes, o + 1, o + 8)
<1>1. o \in Nat /\ o = p.special + 8 /\ o + 8 = PAGE_SIZE
  BY SpecialArea DEF RIGHT_SIBLING_OFFSET
<1>2. p.bytes \in [1 .. PAGE_SIZE -> Byte]
  BY DEF PageInv, Page
<1>3. RightSibling(p) = FromLE8(t)
  BY Zenon DEF RightSibling
<1> HIDE DEF o
<1>4. \A k \in o + 1 .. o + 8 : p.bytes[k] \in Byte
  <2>1. \A k \in o + 1 .. o + 8 : k \in 1 .. PAGE_SIZE
    BY <1>1
  <2> QED
    BY <1>2, <2>1, Zenon
<1>5. \A k \in 1 .. (o + 8) - (o + 1) + 1 : t[k] = p.bytes[(o + 1) + k - 1]
  BY <1>1, <1>4, SubSeqProperties
<1> HIDE DEF t
<1>6. \A k \in 1 .. 8 : t[k] = p.bytes[o + k]
  BY <1>1, <1>5
<1>7. \A k \in 1 .. 8 : t[k] = w[k]
  BY <1>1, <1>6
<1>8. FromLE8(t) = FromLE8(w)
  BY <1>7 DEF FromLE8
<1> QED
  BY <1>3, <1>8

(* What set_right_sibling makes of a page with a special area.             *)
LEMMA SiblingSet ==
  ASSUME NEW p, PageInv(p), HasSpecial(p), NEW id \in Nat, FitsU64(id)
  PROVE  LET q == WithRightSibling(p, id) IN
         /\ q \in Page /\ q = [p EXCEPT !.bytes = q.bytes]
         /\ \A k \in 1 .. p.special : q.bytes[k] = p.bytes[k]
         /\ \A k \in 1 .. 8 : q.bytes[p.special + 8 + k] = ToLE8(id)[k]
<1> DEFINE w == ToLE8(id)
           o == p.special + RIGHT_SIBLING_OFFSET
           b == CopyIn(p.bytes, o, w)
           q == [p EXCEPT !.bytes = b]
<1>1. p \in Page /\ p.bytes \in [1 .. PAGE_SIZE -> Byte]
  BY DEF PageInv, Page
<1>2. w \in Seq(Byte) /\ Len(w) = 8
  BY LE8
<1>3. o \in Nat /\ p.special \in Nat /\ o = p.special + 8 /\ o + 8 = PAGE_SIZE
  BY SpecialArea DEF RIGHT_SIBLING_OFFSET
<1>4. WithRightSibling(p, id) = q
  BY Zenon DEF WithRightSibling
<1> HIDE DEF w, o
<1>5. /\ \A k \in o + 1 .. o + 8 : k \in 1 .. PAGE_SIZE /\ k - o \in 1 .. 8
      /\ \A k \in 1 .. p.special : k \in 1 .. PAGE_SIZE /\ k \notin o + 1 .. o + 8
      /\ \A k \in 1 .. 8 : (o + k) - o = k /\ o + k \in o + 1 .. o + 8
  <2>1. \A k \in o + 1 .. o + 8 : k \in 1 .. PAGE_SIZE /\ k - o \in 1 .. 8
    BY <1>3
  <2>2. \A k \in 1 .. p.special : k \in 1 .. PAGE_SIZE /\ k \notin o + 1 .. o + 8
    BY <1>3
  <2>3. \A k \in 1 .. 8 : (o + k) - o = k /\ o + k \in o + 1 .. o + 8
    BY <1>3
  <2> QED
    BY <2>1, <2>2, <2>3
<1>6. \A k \in 1 .. 8 : w[k] \in Byte
  <2>1. \A k \in 1 .. Len(w) : w[k] \in Byte
    BY <1>2, ElementOfSeq, Zenon
  <2> QED
    BY <1>2, <2>1
<1>7. \A k \in 1 .. PAGE_SIZE : b[k] = IF k \in o + 1 .. o + 8 THEN w[k - o] ELSE p.bytes[k]
  BY <1>2 DEF CopyIn
<1>8. b \in [1 .. PAGE_SIZE -> Byte]
  <2>1. \A k \in 1 .. PAGE_SIZE : b[k] \in Byte
    BY <1>1, <1>5, <1>6, <1>7, Zenon
  <2> QED
    BY <2>1 DEF CopyIn
<1> HIDE DEF b
<1>9. q \in Page /\ q.bytes = b /\ q = [p EXCEPT !.bytes = q.bytes]
  BY <1>1, <1>8 DEF Page
<1>10. \A k \in 1 .. p.special : b[k] = p.bytes[k]
  BY <1>5, <1>7
<1>11. \A k \in 1 .. 8 : b[o + k] = w[k]
  BY <1>5, <1>7
<1>12. \A k \in 1 .. 8 : b[p.special + 8 + k] = w[k]
  BY <1>3, <1>11
<1> HIDE DEF q
<1> QED
  BY <1>4, <1>9, <1>10, <1>12 DEF w

-----------------------------------------------------------------------------
(* The cells of a page that the operations of IndexPage have built.        *)

(* The cells an index page can hold.                                       *)
PivotCells == {IndexCellOwned(e.key, e.ptr) : e \in {e \in Pivots : CellAccepted(e.key)}}

(* The inductive invariant: the page is laid out soundly, and every slot   *)
(* holds an encoded pivot.                                                 *)
Inv ==
  /\ PageInv(page)
  /\ \A i \in 1 .. Len(page.slots) : CellsOf(page)[i] \in PivotCells
  /\ res \in {"Ok", "NoContigiousSpace", "SlotIndexNotInRange", "Panic"}

(* A cell of the page decodes to the pivot it was made of.                 *)
LEMMA PivotCellDecodes ==
  ASSUME NEW c \in PivotCells
  PROVE  c \in Cell /\ CellReadable(c) /\ EntryOf(c) \in Pivots
<1>1. PICK e \in Pivots : CellAccepted(e.key) /\ c = IndexCellOwned(e.key, e.ptr)
  BY DEF PivotCells
<1>2. e.key \in Seq(Byte) /\ e.ptr \in Nat /\ FitsU64(e.ptr) /\ e = [key |-> e.key, ptr |-> e.ptr]
  BY IndexAssumption
<1>3. c \in Cell /\ CellReadable(c) /\ EntryOf(c) = [key |-> e.key, ptr |-> e.ptr]
  BY <1>1, <1>2, CellCodec
<1> QED
  BY <1>2, <1>3

(* A pivot as it is added: the cell it becomes, and what that decodes to.  *)
LEMMA PivotCell ==
  ASSUME NEW e \in Pivots, CellAccepted(e.key)
  PROVE  LET c == IndexCellOwned(e.key, e.ptr) IN
         /\ c \in PivotCells /\ c \in Cell /\ EntryOf(c) = e
         /\ Len(c) = KEY_DATA_OFFSET + Len(e.key)
         /\ Len(c) + ENTRY_SIZE = Pivot!Cost(e)
<1>1. e.key \in Seq(Byte) /\ e.ptr \in Nat /\ FitsU64(e.ptr) /\ e = [key |-> e.key, ptr |-> e.ptr]
  BY IndexAssumption
<1> DEFINE c == IndexCellOwned(e.key, e.ptr)
<1>2. c \in Cell /\ EntryOf(c) = [key |-> e.key, ptr |-> e.ptr]
  BY <1>1, CellCodec
<1>3. c \in PivotCells
  BY DEF PivotCells
<1>4. Len(c) = KEY_DATA_OFFSET + Len(e.key)
  BY <1>1, CellBytes DEF KEY_DATA_OFFSET
<1>5. Len(c) + ENTRY_SIZE = Pivot!Cost(e)
  <2>1. Len(e.key) \in Nat
    BY <1>1
  <2> QED
    BY <1>4, <2>1 DEF Pivot!Cost, KEY_DATA_OFFSET, ENTRY_SIZE
<1> QED
  BY <1>1, <1>2, <1>3, <1>4, <1>5

(* The entries of a page are its cells, decoded.                           *)
LEMMA EntriesMeaning ==
  ASSUME NEW p, Len(p.slots) \in Nat
  PROVE  EntriesOf(p) = [i \in 1 .. Len(p.slots) |-> EntryOf(CellsOf(p)[i])]
  BY DEF EntriesOf, CellsOf

(* Writing only the page_type byte leaves cells, entries and sibling.      *)
LEMMA TypeSet ==
  ASSUME NEW p, PageInv(p), NEW pt \in Byte
  PROVE  LET q == SetPageType(p, pt) IN
         /\ PageInv(q) /\ q.slots = p.slots /\ q.page_type = pt
         /\ q.free_start = p.free_start /\ q.free_end = p.free_end
         /\ CellsOf(q) = CellsOf(p) /\ EntriesOf(q) = EntriesOf(p)
         /\ RightSibling(q) = RightSibling(p) /\ (HasSpecial(q) <=> HasSpecial(p))
<1> DEFINE q == SetPageType(p, pt)
<1>1. p \in Page
  BY DEF PageInv
<1>2. /\ q \in Page /\ q.slots = p.slots /\ q.bytes = p.bytes /\ q.special = p.special
      /\ q.free_start = p.free_start /\ q.free_end = p.free_end /\ q.page_type = pt
  BY <1>1 DEF SetPageType, Page
<1> HIDE DEF q
<1>3. Raw(p) => Raw(q)
  BY <1>2 DEF Raw
<1>4. Formatted(p) => Formatted(q)
  BY <1>2, Zenon DEF Formatted, Limit
<1>5. PageInv(q)
  BY <1>2, <1>3, <1>4 DEF PageInv
<1>6. CellsOf(q) = CellsOf(p) /\ EntriesOf(q) = EntriesOf(p)
  BY <1>2, Zenon DEF CellsOf, EntriesOf, Slice
<1>7. RightSibling(q) = RightSibling(p) /\ (HasSpecial(q) <=> HasSpecial(p))
  BY <1>2, SiblingKept
<1> QED
  BY <1>2, <1>5, <1>6, <1>7 DEF q

(* Setting the sibling leaves the cells, which lie below the special area. *)
LEMMA SiblingSetKeepsCells ==
  ASSUME NEW p, PageInv(p), HasSpecial(p), NEW id \in Nat, FitsU64(id)
  PROVE  LET q == WithRightSibling(p, id) IN
         /\ PageInv(q) /\ q.slots = p.slots /\ q.page_type = p.page_type
         /\ q.free_start = p.free_start /\ q.free_end = p.free_end
         /\ CellsOf(q) = CellsOf(p) /\ EntriesOf(q) = EntriesOf(p)
         /\ RightSibling(q) = id /\ HasSpecial(q)
<1> DEFINE q == WithRightSibling(p, id)
<1>1. /\ q \in Page /\ q = [p EXCEPT !.bytes = q.bytes]
      /\ \A k \in 1 .. p.special : q.bytes[k] = p.bytes[k]
      /\ \A k \in 1 .. 8 : q.bytes[p.special + 8 + k] = ToLE8(id)[k]
  BY SiblingSet
<1>2. p \in Page /\ p.bytes \in [1 .. PAGE_SIZE -> Byte] /\ Len(p.slots) \in Nat
  BY DEF PageInv, Page
<1> HIDE DEF q
<1>3. /\ q.slots = p.slots /\ q.special = p.special /\ q.page_type = p.page_type
      /\ q.free_start = p.free_start /\ q.free_end = p.free_end
  BY <1>1, <1>2 DEF Page
<1>4. /\ Formatted(p) /\ Limit(p) = p.special /\ p.special \in Nat
      /\ p.special + 16 = PAGE_SIZE
  BY SpecialArea
<1>5. Formatted(q) /\ PageInv(q)
  <2>1. Formatted(q)
    BY <1>3, <1>4, Zenon DEF Formatted, Limit
  <2> QED
    BY <1>1, <2>1 DEF PageInv
<1>6. HasSpecial(q)
  BY <1>3 DEF HasSpecial
<1>7. RightSibling(q) = id
  <2>1. \A k \in 1 .. 8 : q.bytes[q.special + 8 + k] = ToLE8(id)[k]
    BY <1>1, <1>3, Zenon
  <2>2. RightSibling(q) = FromLE8(ToLE8(id))
    BY <1>5, <1>6, <2>1, SiblingFromBytes, Zenon
  <2> QED
    BY <2>2, LE8
<1>8. ASSUME NEW i \in 1 .. Len(p.slots)
      PROVE  Slice(q, q.slots[i]) = Slice(p, p.slots[i])
  <2> DEFINE o == p.slots[i].offset
             l == p.slots[i].length
  <2>1. p.slots[i] \in SlotEntry
    BY <1>2 DEF Page
  <2>2. o \in Nat /\ l \in Nat
    BY <2>1 DEF SlotEntry, Offset
  <2>3. o + l <= p.special
    BY <1>4 DEF Formatted
  <2> HIDE DEF o, l
  <2>4. \A k \in o + 1 .. o + l : k \in 1 .. p.special /\ k \in 1 .. PAGE_SIZE
    BY <1>4, <2>2, <2>3
  <2>5. \A k \in o + 1 .. o + l : q.bytes[k] = p.bytes[k] /\ p.bytes[k] \in Byte
    BY <1>1, <1>2, <2>4, Zenon
  <2>6. SubSeq(q.bytes, o + 1, o + l) = SubSeq(p.bytes, o + 1, o + l)
    BY <2>2, <2>5, SameBytes
  <2> QED
    BY <1>3, <2>6, ZenonT(30) DEF Slice, o, l
<1>9. CellsOf(q) = CellsOf(p)
  BY <1>3, <1>8 DEF CellsOf
<1>10. EntriesOf(q) = EntriesOf(p)
  BY <1>2, <1>3, <1>9, EntriesMeaning, Zenon
<1> QED
  BY <1>3, <1>5, <1>6, <1>7, <1>9, <1>10 DEF q

(* The entries of a page whose cells are pivots are a sequence of pivots.  *)
LEMMA EntriesType ==
  ASSUME NEW p \in Page, \A i \in 1 .. Len(p.slots) : CellsOf(p)[i] \in PivotCells
  PROVE  /\ EntriesOf(p) \in Seq(Pivots) /\ Len(EntriesOf(p)) = Len(p.slots)
         /\ Len(p.slots) \in Nat
         /\ \A i \in 1 .. Len(p.slots) : EntriesOf(p)[i] = EntryOf(CellsOf(p)[i])
<1>1. Len(p.slots) \in Nat
  BY DEF Page
<1>2. EntriesOf(p) = [i \in 1 .. Len(p.slots) |-> EntryOf(CellsOf(p)[i])]
  BY <1>1, EntriesMeaning
<1>3. \A i \in 1 .. Len(p.slots) : EntryOf(CellsOf(p)[i]) \in Pivots
  BY PivotCellDecodes
<1>4. EntriesOf(p) \in [1 .. Len(p.slots) -> Pivots]
  BY <1>2, <1>3
<1> QED
  BY <1>1, <1>2, <1>4

(* An added pivot is an entry more, and nothing else changes.              *)
LEMMA PivotAdded ==
  ASSUME NEW p, PageInv(p), \A i \in 1 .. Len(p.slots) : CellsOf(p)[i] \in PivotCells,
         NEW cell \in PivotCells, ~NoRoomFor(p, cell), NEW idx \in 0 .. Len(p.slots)
  PROVE  LET q == Added(p, idx, cell)
             E == EntriesOf(p)
         IN  /\ PageInv(q) /\ q.page_type = p.page_type
             /\ \A i \in 1 .. Len(q.slots) : CellsOf(q)[i] \in PivotCells
             /\ Len(E) = Len(p.slots)
             /\ EntriesOf(q) = SubSeq(E, 1, idx) \o <<EntryOf(cell)>> \o SubSeq(E, idx + 1, Len(E))
             /\ RightSibling(q) = RightSibling(p) /\ (HasSpecial(q) <=> HasSpecial(p))
             /\ q.free_end - q.free_start = (p.free_end - p.free_start) - (Len(cell) + ENTRY_SIZE)
<1> DEFINE q == Added(p, idx, cell)
           n == Len(p.slots)
           c == CellsOf(p)
           E == EntriesOf(p)
           x == EntryOf(cell)
<1>1. cell \in Cell /\ x \in Pivots
  BY PivotCellDecodes
<1>2. p \in Page /\ Formatted(p) /\ n \in Nat
  BY <1>1, RoomMeansFormatted DEF PageInv, Page
<1>3. q \in Page /\ Formatted(q) /\ PageInv(q)
  BY <1>1, AddedKeepsLayout DEF PageInv
<1>4. Len(c) = n /\ CellsOf(q) = ShiftIn(c, idx, cell)
  BY <1>1, AddedCells, Zenon
<1>5. /\ q.slots = ShiftIn(p.slots, idx, NewEntry(p, cell)) /\ q.page_type = p.page_type
      /\ q.free_end = p.free_end - Len(cell) /\ q.free_start = p.free_start + ENTRY_SIZE
  BY <1>2 DEF Added, Page
<1>6. Len(q.slots) = n + 1
  BY <1>1, <1>2, <1>5, RoomIsOnPage, ShiftInType DEF Page
<1>7. \A i \in 1 .. n + 1 :
        CellsOf(q)[i] = IF i <= idx THEN c[i] ELSE IF i = idx + 1 THEN cell ELSE c[i - 1]
  BY <1>4 DEF ShiftIn
<1>8. \A i \in 1 .. n + 1 :
        (i <= idx => i \in 1 .. n) /\ (~(i <= idx) /\ i # idx + 1 => i - 1 \in 1 .. n)
  BY <1>2
<1>9. E \in Seq(Pivots) /\ Len(E) = n /\ \A i \in 1 .. n : E[i] = EntryOf(c[i])
  BY <1>2, EntriesType, SMTT(30)
<1> HIDE DEF q, c, E, x
<1>10. \A i \in 1 .. Len(q.slots) : CellsOf(q)[i] \in PivotCells
  <2> SUFFICES ASSUME NEW i \in 1 .. n + 1 PROVE CellsOf(q)[i] \in PivotCells
    BY <1>6
  <2>1. \A j \in 1 .. n : c[j] \in PivotCells
    BY DEF c
  <2> QED
    BY <1>7, <1>8, <2>1, SMTT(30)
<1>11. EntriesOf(q) = ShiftIn(E, idx, x)
  <2>1. EntriesOf(q) = [i \in 1 .. n + 1 |-> EntryOf(CellsOf(q)[i])]
    BY <1>2, <1>6, EntriesMeaning, SMTT(30)
  <2>2. \A i \in 1 .. n + 1 :
          EntryOf(CellsOf(q)[i]) = IF i <= idx THEN E[i] ELSE IF i = idx + 1 THEN x ELSE E[i - 1]
    BY <1>7, <1>8, <1>9, Zenon DEF x
  <2> QED
    BY <1>9, <2>1, <2>2 DEF ShiftIn
<1>12. SubSeq(E, 1, idx) \o <<x>> \o SubSeq(E, idx + 1, Len(E)) = ShiftIn(E, idx, x)
  BY <1>1, <1>9, ShiftInIsInsertion, Zenon
<1>13. RightSibling(q) = RightSibling(p) /\ (HasSpecial(q) <=> HasSpecial(p))
  <2> DEFINE start == p.free_end - Len(cell)
  <2>1. q.special = p.special /\ q.bytes = CopyIn(p.bytes, start, cell)
    BY <1>2 DEF q, Added, Page
  <2>2. HasSpecial(p) => p.free_end <= p.special /\ p.special \in Nat
    BY <1>2, SpecialArea DEF Formatted
  <2>3. p.free_end \in Nat /\ Len(cell) \in Nat /\ p.special \in Nat
    BY <1>1, <1>2 DEF Page, Offset, Cell
  <2>4. CASE HasSpecial(p)
    <3>1. \A k \in p.special + 1 .. PAGE_SIZE :
            k \in 1 .. PAGE_SIZE /\ k \notin start + 1 .. start + Len(cell)
      BY <2>2, <2>3, <2>4, PageSizeAssumption
    <3>2. \A k \in p.special + 1 .. PAGE_SIZE : q.bytes[k] = p.bytes[k]
      BY <2>1, <3>1, Zenon DEF CopyIn
    <3> QED
      BY <2>1, <3>2, SiblingKept
  <2>5. CASE ~HasSpecial(p)
    BY <2>1, <2>5 DEF HasSpecial, RightSibling
  <2> QED
    BY <2>4, <2>5
<1>14. q.free_end - q.free_start = (p.free_end - p.free_start) - (Len(cell) + ENTRY_SIZE)
  <2>1. p.free_end \in Nat /\ p.free_start \in Nat /\ Len(cell) \in Nat
    BY <1>1, <1>2 DEF Page, Offset, Cell
  <2>2. \A end, start, l \in Nat :
          (end - l) - (start + ENTRY_SIZE) = (end - start) - (l + ENTRY_SIZE)
    BY DEF ENTRY_SIZE
  <2>3. q.free_end = p.free_end - Len(cell) /\ q.free_start = p.free_start + ENTRY_SIZE
    BY <1>5
  <2> QED
    BY <2>1, <2>2, <2>3
<1> QED
  BY <1>3, <1>5, <1>9, <1>10, <1>11, <1>12, <1>13, <1>14, ZenonT(30) DEF q, E, x

-----------------------------------------------------------------------------
(* Every call keeps the invariant and is the call of PivotPage of the same *)
(* arguments.                                                              *)

(* What the two formatting operations leave.                               *)
LEMMA Formats ==
  ASSUME Inv
  PROVE  /\ InitBare => Inv' /\ Pivot!Format("Undefined", FALSE)
         /\ InitInPlace(0) => Inv' /\ Pivot!Format("IndexInternal", TRUE)
<1>1. \A r : Ok(r).err = "Ok" /\ Ok(r).page = r
  BY DEF Ok
<1>2. ASSUME NEW q \in Page, Formatted(q), q.slots = <<>>, page' = q, res' = "Ok"
      PROVE  Inv' /\ EntriesOf(page') = <<>>
  <2>1. Len(q.slots) = 0 /\ EntriesOf(q) = <<>>
    BY <1>2 DEF EntriesOf
  <2>2. \A i \in 1 .. Len(page'.slots) : CellsOf(page')[i] \in PivotCells
    BY <1>2, <2>1
  <2> QED
    BY <1>2, <2>1, <2>2 DEF Inv, PageInv
<1>3. ASSUME InitBare PROVE Inv' /\ Pivot!Format("Undefined", FALSE)
  <2> DEFINE pt == KindToU8["Undefined"]
             q  == InitNew(page, pt)
  <2>1. pt \in Byte /\ KindOf(pt) = "Undefined" /\ SubTypeOf(pt) = 0
    BY KindReadsBack DEF PageKind
  <2> HIDE DEF pt
  <2>2. page \in Page /\ page.special = 0 /\ page' = q /\ res' = "Ok"
    BY <1>1, <1>3 DEF InitBare, Return, Inv, PageInv, pt
  <2>3. /\ q \in Page /\ Formatted(q) /\ q.slots = <<>>
        /\ q.free_start = HEADER_SIZE /\ q.free_end = PAGE_SIZE
    BY <2>1, <2>2, InitNewMeaning
  <2>4. q.special = 0 /\ q.page_type = pt
    BY <2>1, <2>2 DEF InitNew, Page
  <2> HIDE DEF q
  <2>5. Inv' /\ EntriesOf(page') = <<>>
    BY <1>2, <2>2, <2>3
  <2>6. HasSpecial(page') = FALSE /\ RightSibling(page') = 0
    BY <2>2, <2>4 DEF HasSpecial, RightSibling
  <2>7. Pivot!Format("Undefined", FALSE)
    BY <2>1, <2>2, <2>3, <2>4, <2>5, <2>6 DEF Pivot!Format
  <2> QED
    BY <2>5, <2>7, ZenonT(30)
<1>4. ASSUME InitInPlace(0) PROVE Inv' /\ Pivot!Format("IndexInternal", TRUE)
  <2>1. PICK q \in Page :
           /\ InitIndexPage(0) = Ok(q) /\ Formatted(q) /\ q.slots = <<>>
           /\ q.free_end = PAGE_SIZE - INDEX_SPECIAL_SIZE
           /\ q.special = q.free_end /\ q.page_type = 2
           /\ \A k \in 1 .. PAGE_SIZE : q.bytes[k] = 0
    BY InitIndexPageMeaning
  <2>2. page' = q /\ res' = "Ok"
    BY <1>1, <1>4, <2>1, Zenon DEF InitInPlace, Return
  <2>3. Inv' /\ EntriesOf(page') = <<>>
    BY <1>2, <2>1, <2>2
  <2>4. HasSpecial(q) /\ q.special \in Nat /\ q.special + 16 = PAGE_SIZE
    BY <2>1, PageSizeAssumption DEF HasSpecial, INDEX_SPECIAL_SIZE, HEADER_SIZE
  <2>5. RightSibling(q) = 0
    <3> DEFINE w == [k \in 1 .. 8 |-> 0]
    <3>1. \A k \in 1 .. 8 : q.special + 8 + k \in 1 .. PAGE_SIZE
      BY <2>4
    <3>2. \A k \in 1 .. 8 : q.bytes[q.special + 8 + k] = w[k]
      BY <2>1, <3>1, SMTT(30)
    <3>3. PageInv(q)
      BY <2>1 DEF PageInv
    <3>4. Join(0, 0) = 0 /\ \A k \in 1 .. 8 : w[k] = 0
      BY DEF Join
    <3> HIDE DEF w
    <3>5. RightSibling(q) = FromLE8(w)
      BY <2>4, <3>2, <3>3, SiblingFromBytes, SMTT(30)
    <3>6. FromLE8(w) = 0
      BY <3>4 DEF FromLE8
    <3> QED
      BY <3>5, <3>6
  <2>6. KindToU8["IndexInternal"] = 2 /\ "IndexInternal" \in PageKind
    BY DEF KindToU8, PageKind
  <2>7. KindOf(2) = "IndexInternal" /\ SubTypeOf(2) = 0
    BY <2>6, KindReadsBack
  <2>8. Pivot!Format("IndexInternal", TRUE)
    <3>1. HasSpecial(q) = TRUE
      BY <2>4 DEF HasSpecial
    <3>2. q.free_start = HEADER_SIZE + ENTRY_SIZE * Len(q.slots) /\ Len(q.slots) = 0
      BY <2>1 DEF Formatted
    <3>3. q.free_end - q.free_start = PAGE_SIZE - HEADER_SIZE - INDEX_SPECIAL_SIZE
      BY <2>1, <3>2, PageSizeAssumption DEF HEADER_SIZE, INDEX_SPECIAL_SIZE, ENTRY_SIZE
    <3> QED
      BY <2>1, <2>2, <2>3, <2>5, <2>7, <3>1, <3>3, SMTT(30) DEF Pivot!Format
  <2> QED
    BY <2>3, <2>8, ZenonT(30)
<1> QED
  BY <1>3, <1>4, ZenonT(30)

(* What setting the kind, the level or the sibling leaves.                 *)
LEMMA Setters ==
  ASSUME Inv
  PROVE  /\ \A kind \in Kinds : SetKindTo(kind) => Inv' /\ Pivot!SetKind(kind)
         /\ \A level \in Levels :
              /\ NewLevelPanics(level) => Inv' /\ Pivot!CheckLevel(level)
              /\ SetLevel(level) => Inv' /\ Pivot!SetLevelTo(level)
         /\ \A id \in Siblings : SetRightSibling(id) => Inv' /\ Pivot!LinkTo(id)
<1>1. \A r : Ok(r).err = "Ok" /\ Ok(r).page = r
  BY DEF Ok
<1>2. \A e, r : Err(e, r).err = e /\ Err(e, r).page = r
  BY DEF Err
<1>3. PageInv(page) /\ page.page_type \in Byte
  BY DEF Inv, PageInv, Page
<1>4. ASSUME PageInv(page'), page'.slots = page.slots, CellsOf(page') = CellsOf(page),
             res' = "Ok"
      PROVE  Inv'
  BY <1>4, Zenon DEF Inv
<1>5. ASSUME NEW kind \in Kinds, SetKindTo(kind)
      PROVE  Inv' /\ Pivot!SetKind(kind)
  <2> DEFINE pt == KindToU8[kind]
             q  == SetPageType(page, pt)
  <2>1. pt \in Byte /\ KindOf(pt) = kind /\ SubTypeOf(pt) = 0
    BY IndexAssumption, KindReadsBack
  <2>2. page' = q /\ res' = "Ok"
    BY <1>1, <1>5, Zenon DEF SetKindTo, Return
  <2> HIDE DEF pt
  <2>3. /\ PageInv(q) /\ q.slots = page.slots /\ q.page_type = pt
        /\ q.free_start = page.free_start /\ q.free_end = page.free_end
        /\ CellsOf(q) = CellsOf(page) /\ EntriesOf(q) = EntriesOf(page)
        /\ RightSibling(q) = RightSibling(page) /\ (HasSpecial(q) <=> HasSpecial(page))
    BY <1>3, <2>1, TypeSet
  <2> HIDE DEF q
  <2>4. Inv'
    BY <1>4, <2>2, <2>3
  <2>5. Pivot!SetKind(kind)
    BY <2>1, <2>2, <2>3 DEF Pivot!SetKind, HasSpecial
  <2> QED
    BY <2>4, <2>5
<1>6. ASSUME NEW level \in Levels, SetLevel(level)
      PROVE  Inv' /\ Pivot!SetLevelTo(level)
  <2> DEFINE pt == WithSubType(page.page_type, level)
             q  == SetPageType(page, pt)
  <2>1. pt \in Byte /\ KindOf(pt) = KindOf(page.page_type) /\ SubTypeOf(pt) = level % 16
    BY <1>3, IndexAssumption, LevelReadsBack
  <2>2. page' = q /\ res' = "Ok"
    BY <1>1, <1>6, Zenon DEF SetLevel, Return
  <2> HIDE DEF pt
  <2>3. /\ PageInv(q) /\ q.slots = page.slots /\ q.page_type = pt
        /\ q.free_start = page.free_start /\ q.free_end = page.free_end
        /\ CellsOf(q) = CellsOf(page) /\ EntriesOf(q) = EntriesOf(page)
        /\ RightSibling(q) = RightSibling(page) /\ (HasSpecial(q) <=> HasSpecial(page))
    BY <1>3, <2>1, TypeSet
  <2> HIDE DEF q
  <2>4. Inv'
    BY <1>4, <2>2, <2>3
  <2>5. 15 + 1 = 16
    OBVIOUS
  <2>6. Pivot!SetLevelTo(level)
    BY <2>1, <2>2, <2>3, <2>5, SMTT(30) DEF Pivot!SetLevelTo, HasSpecial
  <2> QED
    BY <2>4, <2>6
<1>7. ASSUME NEW level \in Levels, NewLevelPanics(level)
      PROVE  Inv' /\ Pivot!CheckLevel(level)
  <2>1. level > 15 /\ page' = page /\ res' = "Panic"
    BY <1>2, <1>7, Zenon DEF NewLevelPanics, Return
  <2>2. Inv'
    BY <2>1 DEF Inv
  <2> QED
    BY <2>1, <2>2 DEF Pivot!CheckLevel, Pivot!Refuse
<1>8. ASSUME NEW id \in Siblings, SetRightSibling(id)
      PROVE  Inv' /\ Pivot!LinkTo(id)
  <2> DEFINE q == WithRightSibling(page, id)
  <2>1. id \in Nat /\ FitsU64(id)
    BY IndexAssumption
  <2>2. page' = q /\ res' = "Ok"
    BY <1>1, <1>8, Zenon DEF SetRightSibling, Return
  <2>3. /\ PageInv(q) /\ q.slots = page.slots /\ q.page_type = page.page_type
        /\ q.free_start = page.free_start /\ q.free_end = page.free_end
        /\ CellsOf(q) = CellsOf(page) /\ EntriesOf(q) = EntriesOf(page)
        /\ RightSibling(q) = (IF HasSpecial(page) THEN id ELSE 0)
        /\ (HasSpecial(q) <=> HasSpecial(page))
    <3>1. CASE HasSpecial(page)
      BY <1>3, <2>1, <3>1, SiblingSetKeepsCells
    <3>2. CASE ~HasSpecial(page)
      <4>1. q = page
        BY <3>2, Zenon DEF WithRightSibling
      <4> QED
        BY <1>3, <3>2, <4>1, SpecialArea
    <3> QED
      BY <3>1, <3>2, SMTT(30)
  <2> HIDE DEF q
  <2>4. Inv'
    BY <1>4, <2>2, <2>3, SMTT(30)
  <2>5. Pivot!LinkTo(id)
    BY <2>1, <2>2, <2>3 DEF Pivot!LinkTo, HasSpecial
  <2> QED
    BY <2>4, <2>5
<1> QED
  BY <1>5, <1>6, <1>7, <1>8

(* What adding a cell, or refusing to, leaves.                             *)
LEMMA Adds ==
  ASSUME Inv, NEW e \in Pivots
  PROVE  /\ AddCellAppend(e.key, e.ptr) => Inv' /\ Pivot!AddLast(e)
         /\ \A idx \in 0 .. Len(page.slots) + 1 :
              AddCellAt(idx, e.key, e.ptr) => Inv' /\ Pivot!AddAt(idx, e)
<1> DEFINE c == IndexCellOwned(e.key, e.ptr)
           n == Len(page.slots)
<1>1. \A r : Ok(r).err = "Ok" /\ Ok(r).page = r
  BY DEF Ok
<1>2. \A x, r : Err(x, r).err = x /\ Err(x, r).page = r
  BY DEF Err
<1>3. PageInv(page) /\ n \in Nat
  BY DEF Inv, PageInv, Page
<1>4. CellAccepted(e.key) => /\ c \in PivotCells /\ c \in Cell /\ EntryOf(c) = e
                             /\ Len(c) = KEY_DATA_OFFSET + Len(e.key)
                             /\ Len(c) + ENTRY_SIZE = Pivot!Cost(e)
  BY PivotCell
<1> HIDE DEF c
<1>5. Len(e.key) \in Nat /\ page.free_end \in Nat /\ page.free_start \in Nat
  <2>1. e.key \in Seq(Byte)
    BY IndexAssumption
  <2> QED
    BY <1>3, <2>1 DEF PageInv, Page, Offset
<1>6. CellAccepted(e.key) <=> Len(e.key) <= MAX_INDEX_CELL_SIZE - KEY_DATA_OFFSET - 1
  BY <1>5, PageSizeAssumption
     DEF CellAccepted, MAX_INDEX_CELL_SIZE, KEY_DATA_OFFSET, HEADER_SIZE, ENTRY_SIZE
<1>7. CellAccepted(e.key) =>
        (NoRoomFor(page, c) <=> Pivot!Cost(e) > page.free_end - page.free_start)
  BY <1>4, <1>5 DEF NoRoomFor, Pivot!Cost, KEY_DATA_OFFSET, ENTRY_SIZE
<1>8. /\ ~CellAccepted(e.key) <=> Len(e.key) > MAX_INDEX_CELL_SIZE - KEY_DATA_OFFSET - 1
      /\ CellAccepted(e.key) =>
           (~NoRoomFor(page, c) <=> Pivot!Cost(e) <= page.free_end - page.free_start)
  BY <1>5, <1>6, <1>7, PageSizeAssumption, SMTT(30)
     DEF Pivot!Cost, MAX_INDEX_CELL_SIZE, KEY_DATA_OFFSET, HEADER_SIZE, ENTRY_SIZE
<1>9. ASSUME NEW x \in {"NoContigiousSpace", "SlotIndexNotInRange", "Panic"}, NEW i,
             Return(Err(x, page)),
             \/ x = "Panic" /\ ~CellAccepted(e.key)
             \/ x = "NoContigiousSpace" /\ CellAccepted(e.key) /\ NoRoomFor(page, c)
             \/ /\ x = "SlotIndexNotInRange" /\ CellAccepted(e.key) /\ ~NoRoomFor(page, c)
                /\ i > n
      PROVE  Inv' /\ Pivot!AddAt(i, e)
  <2>1. page' = page /\ res' = x
    BY <1>2, <1>9, Zenon DEF Return
  <2>2. Inv'
    BY <2>1 DEF Inv
  <2>3. Pivot!Refuse(x)
    BY <2>1 DEF Pivot!Refuse
  <2>4. Len(EntriesOf(page)) = n
    BY <1>3 DEF EntriesOf
  <2>5. Pivot!TooLong(e) \/ Pivot!Full(e) \/ Pivot!OutOfRange(i, e)
    BY <1>6, <1>7, <1>8, <1>9, <2>3, <2>4, Zenon
       DEF Pivot!TooLong, Pivot!Full, Pivot!OutOfRange
  <2> QED
    BY <2>2, <2>5, Zenon DEF Pivot!AddAt
<1>10. ASSUME NEW idx \in 0 .. n, CellAccepted(e.key), ~NoRoomFor(page, c),
              Return(Ok(Added(page, idx, c)))
       PROVE  Inv' /\ Pivot!AddAt(idx, e)
  <2> DEFINE q == Added(page, idx, c)
             E == EntriesOf(page)
  <2>1. page' = q /\ res' = "Ok"
    BY <1>1, <1>10, Zenon DEF Return
  <2>2. /\ PageInv(q) /\ q.page_type = page.page_type
        /\ \A i \in 1 .. Len(q.slots) : CellsOf(q)[i] \in PivotCells
        /\ Len(E) = n
        /\ EntriesOf(q) = SubSeq(E, 1, idx) \o <<EntryOf(c)>> \o SubSeq(E, idx + 1, Len(E))
        /\ RightSibling(q) = RightSibling(page) /\ (HasSpecial(q) <=> HasSpecial(page))
        /\ q.free_end - q.free_start = (page.free_end - page.free_start) - (Len(c) + ENTRY_SIZE)
    BY <1>3, <1>4, <1>10, PivotAdded, Zenon DEF Inv
  <2> HIDE DEF q
  <2>3. Inv'
    BY <2>1, <2>2 DEF Inv
  <2>4. idx \in 0 .. Len(EntriesOf(page)) /\ idx <= Len(EntriesOf(page))
    BY <1>3, <2>2
  <2>5. HasSpecial(page') = HasSpecial(page)
    BY <2>1, <2>2 DEF HasSpecial
  <2>6. page'.free_end - page'.free_start = (page.free_end - page.free_start) - Pivot!Cost(e)
    BY <1>4, <1>10, <2>1, <2>2, Zenon
  <2>7. Pivot!Insert(idx, e)
    BY <1>4, <1>6, <1>8, <1>10, <2>1, <2>2, <2>4, <2>5, <2>6, Zenon DEF Pivot!Insert
  <2> QED
    BY <2>3, <2>7, Zenon DEF Pivot!AddAt
<1>11. ASSUME NEW idx \in 0 .. n + 1, AddCellAt(idx, e.key, e.ptr)
       PROVE  Inv' /\ Pivot!AddAt(idx, e)
  <2>1. CASE ~CellAccepted(e.key)
    <3>1. Return(Err("Panic", page))
      BY <1>11, <2>1, Zenon DEF AddCellAt
    <3> QED
      BY <1>9, <2>1, <3>1, Zenon
  <2>2. CASE CellAccepted(e.key)
    <3>1. Return(AddCellAtSlotEntryIndex(page, idx, c))
      BY <1>11, <2>2, Zenon DEF AddCellAt, c
    <3>2. AddCellAtSlotEntryIndex(page, idx, c) =
            IF NoRoomFor(page, c) THEN Err("NoContigiousSpace", page)
            ELSE IF idx > n THEN Err("SlotIndexNotInRange", page)
            ELSE Ok(Added(page, idx, c))
      <4>1. idx \in Nat
        BY <1>3, SMTT(30)
      <4> QED
        BY <1>3, <1>4, <2>2, <4>1, AddAtMeaning
    <3>3. ~(idx > n) => idx \in 0 .. n
      BY <1>3
    <3> QED
      BY <1>9, <1>10, <2>2, <3>1, <3>2, <3>3, Zenon
  <2> QED
    BY <2>1, <2>2
<1>12. ASSUME AddCellAppend(e.key, e.ptr) PROVE Inv' /\ Pivot!AddLast(e)
  <2>1. Len(EntriesOf(page)) = n
    BY <1>3 DEF EntriesOf
  <2>2. CASE ~CellAccepted(e.key)
    <3>1. Return(Err("Panic", page))
      BY <1>12, <2>2, Zenon DEF AddCellAppend
    <3>2. Inv' /\ Pivot!AddAt(n, e)
      BY <1>9, <2>2, <3>1, Zenon
    <3> QED
      BY <2>1, <3>2, Zenon DEF Pivot!AddLast
  <2>3. CASE CellAccepted(e.key)
    <3>1. Return(AddCellAppendSlotEntry(page, c))
      BY <1>12, <2>3, Zenon DEF AddCellAppend, c
    <3>2. AddCellAppendSlotEntry(page, c) =
            IF NoRoomFor(page, c) THEN Err("NoContigiousSpace", page)
            ELSE Ok(Added(page, n, c))
      BY <1>3, <1>4, <2>3, AddAppendMeaning, SMTT(30)
    <3>3. n \in 0 .. n
      BY <1>3
    <3>4. Inv' /\ Pivot!AddAt(n, e)
      BY <1>9, <1>10, <2>3, <3>1, <3>2, <3>3, Zenon
    <3> QED
      BY <2>1, <3>4, Zenon DEF Pivot!AddLast
  <2> QED
    BY <2>2, <2>3
<1> QED
  BY <1>11, <1>12

(* Every call is the PivotPage call of the same arguments, and keeps the   *)
(* invariant.                                                              *)
LEMMA IndexCalls == Inv => CallsMatch /\ (Next => Inv')
<1> SUFFICES ASSUME Inv PROVE CallsMatch /\ (Next => Inv')
  OBVIOUS
<1>1. CallsMatch
  BY Formats, Setters, Adds, ZenonT(30) DEF CallsMatch, AddsMatch
<1>2. Next => Inv'
  BY Formats, Setters, Adds, ZenonT(30) DEF Next
<1> QED
  BY <1>1, <1>2

(* A step keeps the invariant, and is a step of PivotPage.                 *)
LEMMA IndexStep == Inv /\ Next => Inv' /\ Pivot!PPNext
<1> SUFFICES ASSUME Inv, Next PROVE Inv' /\ Pivot!PPNext
  OBVIOUS
<1>1. Inv' /\ CallsMatch
  BY IndexCalls
<1>2. Len(EntriesOf(page)) = Len(page.slots)
  <2>1. Len(page.slots) \in Nat
    BY DEF Inv, PageInv, Page
  <2> QED
    BY <2>1 DEF EntriesOf
<1>3. Pivot!PPNext
  BY <1>1, <1>2, ZenonT(30) DEF Next, CallsMatch, AddsMatch, Pivot!PPNext
<1> QED
  BY <1>1, <1>3

(* A zeroed page satisfies the invariant, and is an initial PivotPage.     *)
LEMMA IndexInit == Init => Inv /\ Pivot!PPInit
<1> SUFFICES ASSUME Init PROVE Inv /\ Pivot!PPInit
  OBVIOUS
<1>1. ZeroPage \in Page
  BY PageSizeAssumption DEF ZeroPage, Page, Offset, Byte
<1>2. /\ Raw(ZeroPage) /\ ZeroPage.slots = <<>> /\ ZeroPage.page_type = 0
      /\ ZeroPage.special = 0 /\ ZeroPage.free_end - ZeroPage.free_start = 0
  BY DEF Raw, ZeroPage
<1>3. page = ZeroPage /\ res = "Ok"
  BY DEF Init
<1>4. Inv
  <2>1. Len(page.slots) = 0
    BY <1>2, <1>3
  <2> QED
    BY <1>1, <1>2, <1>3, <2>1 DEF Inv, PageInv
<1>5. KindOf(0) = "Undefined" /\ SubTypeOf(0) = 0
  <2>1. KindToU8["Undefined"] = 0 /\ "Undefined" \in PageKind
    BY DEF KindToU8, PageKind
  <2> QED
    BY <2>1, KindReadsBack
<1>6. EntriesOf(page) = <<>>
  BY <1>2, <1>3 DEF EntriesOf
<1>7. RightSibling(page) = 0 /\ HasSpecial(page) = FALSE
  BY <1>2, <1>3 DEF RightSibling, HasSpecial
<1> QED
  BY <1>2, <1>3, <1>4, <1>5, <1>6, <1>7 DEF Pivot!PPInit

(* The invariant holds in every reachable state.                           *)
LEMMA IndexInvariant == Spec => []Inv
<1>1. Inv /\ UNCHANGED vars => Inv'
  BY DEF Inv, vars
<1> QED
  BY <1>1, IndexInit, IndexStep, PTL DEF Spec

(* For every page size, all pivots and every sequence of calls: the layout *)
(* survives the wrapper's calls, and the only errors are the two of        *)
(* add_cell and the asserted preconditions.                                *)
THEOREM IndexPageLaidOut == Spec => []TypeOK
<1>1. Inv => TypeOK
  BY DEF Inv, PageInv, TypeOK
<1> QED
  BY <1>1, IndexInvariant, PTL

(* For every page size, all pivots and every sequence of calls: what is    *)
(* read back from the bytes of an index page is what was written to it,    *)
(* and a call is refused exactly when its arguments give the reason.       *)
THEOREM IndexPageImplementsPivotPage == Spec => ImplementsPivotPage
<1>1. Inv /\ [Next]_vars
        => [Pivot!PPNext]_<<KindOf(page.page_type), SubTypeOf(page.page_type),
                            RightSibling(page), EntriesOf(page), HasSpecial(page),
                            page.free_end - page.free_start, res>>
  <2> SUFFICES ASSUME Inv, [Next]_vars
               PROVE  \/ Pivot!PPNext
                      \/ UNCHANGED <<KindOf(page.page_type), SubTypeOf(page.page_type),
                                     RightSibling(page), EntriesOf(page), HasSpecial(page),
                                     page.free_end - page.free_start, res>>
    OBVIOUS
  <2>1. CASE UNCHANGED vars
    BY <2>1 DEF vars
  <2>2. CASE Next
    BY <2>2, IndexStep
  <2> QED
    BY <2>1, <2>2
<1>2. Inv /\ [Next]_vars => [CallsMatch]_vars
  BY IndexCalls
<1> QED
  BY <1>1, <1>2, IndexInit, IndexInvariant, PTL DEF Spec, ImplementsPivotPage, Pivot!PPSpec

-----------------------------------------------------------------------------
(* find_child_ptr.                                                         *)

(* On a page that has a special area every slot is readable, both ways,    *)
(* and holds a well-formed cell.                                           *)
LEMMA SlotsReadable ==
  ASSUME Inv, HasSpecial(page), NEW i \in 1 .. Len(page.slots)
  PROVE  LET c == CellsOf(page)[i] IN
         /\ CellSliceFromEntry(page, page.slots[i]) = [err |-> "Ok", cell |-> c]
         /\ i = 1 => CellSliceFromId(page, 0) = [err |-> "Ok", cell |-> c]
         /\ CellReadable(c) /\ EntriesOf(page)[i] = EntryOf(c)
<1> DEFINE n == Len(page.slots)
           c == CellsOf(page)[i]
           o == page.slots[i].offset
           l == page.slots[i].length
<1>1. page \in Page /\ Formatted(page) /\ Limit(page) = page.special /\ page.special \in Nat
      /\ page.special + 16 = PAGE_SIZE
  BY SpecialArea DEF Inv, PageInv
<1>2. n \in Nat /\ SlotCount(page) = n /\ page.slots[i] \in SlotEntry
  BY <1>1, SlotCountIsLen DEF Page
<1>3. c = Slice(page, page.slots[i])
  BY <1>1, CellsType
<1>4. c \in PivotCells /\ CellReadable(c)
  BY PivotCellDecodes DEF Inv
<1>5. EntriesOf(page)[i] = EntryOf(c)
  BY <1>1, EntriesType DEF Inv
<1>6. o + l < PAGE_SIZE /\ ~(o + l > PAGE_SIZE)
  <2>1. o \in Nat /\ l \in Nat
    BY <1>2 DEF SlotEntry, Offset
  <2>2. o + l <= page.special
    BY <1>1 DEF Formatted
  <2> HIDE DEF o, l
  <2> QED
    BY <1>1, <2>1, <2>2
<1>7. ~(page.free_start < HEADER_SIZE)
  BY <1>1, <1>2 DEF Formatted, HEADER_SIZE, ENTRY_SIZE
<1> HIDE DEF c
<1>8. CellSliceFromEntry(page, page.slots[i]) = [err |-> "Ok", cell |-> c]
  BY <1>3, <1>6, Zenon DEF CellSliceFromEntry
<1>9. i = 1 => CellSliceFromId(page, 0) = [err |-> "Ok", cell |-> c]
  <2> SUFFICES ASSUME i = 1 PROVE CellSliceFromId(page, 0) = [err |-> "Ok", cell |-> c]
    OBVIOUS
  <2>1. 0 + 1 = i /\ ~(0 >= n) /\ n # 0
    BY <1>2
  <2> QED
    BY <1>2, <1>3, <1>6, <1>7, <2>1, Zenon DEF CellSliceFromId
<1> QED
  BY <1>4, <1>5, <1>8, <1>9 DEF c

(* The walk of find_child_ptr stops at the first entry above the key.      *)
LEMMA ScanMeaning ==
  ASSUME Inv, HasSpecial(page), NEW skip \in Nat, NEW key
  PROVE  LET E    == EntriesOf(page)
             stop == {i \in skip + 1 .. Len(page.slots) : KeyLess(key, E[i].key)}
         IN  /\ stop = {} => Scan(page, skip, key) = NotFound
             /\ \A m \in stop : (\A j \in stop : m <= j)
                                => Scan(page, skip, key) = Found(E[m].ptr)
<1> DEFINE n       == Len(page.slots)
           E       == EntriesOf(page)
           stop    == {i \in skip + 1 .. n : KeyLess(key, E[i].key)}
           read(i) == CellSliceFromEntry(page, page.slots[i])
           bad(i)  == read(i).err # "Ok" \/ ~CellReadable(read(i).cell)
           halt    == {i \in skip + 1 .. n : bad(i) \/ KeyLess(key, KeyOf(read(i).cell))}
<1>1. page \in Page /\ Formatted(page) /\ n \in Nat
  BY SpecialArea DEF Inv, PageInv, Page
<1>2. ~(page.free_start < HEADER_SIZE)
  BY <1>1 DEF Formatted, HEADER_SIZE, ENTRY_SIZE
<1>3. ASSUME NEW i \in 1 .. n
      PROVE  ~bad(i) /\ KeyOf(read(i).cell) = E[i].key /\ PtrOf(read(i).cell) = E[i].ptr
  <2>1. /\ read(i) = [err |-> "Ok", cell |-> CellsOf(page)[i]]
        /\ CellReadable(CellsOf(page)[i]) /\ E[i] = EntryOf(CellsOf(page)[i])
    BY SlotsReadable
  <2> HIDE DEF read
  <2> QED
    BY <2>1 DEF EntryOf
<1>4. \A i \in skip + 1 .. n : i \in 1 .. n
  BY <1>1
<1>5. Scan(page, skip, key) =
        IF halt = {} THEN NotFound
        ELSE IF bad(First(halt)) THEN FindErr("Panic")
        ELSE Found(PtrOf(read(First(halt)).cell))
  BY <1>2, Zenon DEF Scan
<1> HIDE DEF read, bad, E
<1>6. halt = stop
  BY <1>3, <1>4
<1> HIDE DEF halt
<1>7. ASSUME NEW m \in stop, \A j \in stop : m <= j
      PROVE  First(stop) = m
  <2>1. \A i \in stop : i \in Int
    BY <1>1
  <2> HIDE DEF stop
  <2>2. \A i \in stop : (\A j \in stop : i <= j) => i = m
    BY <1>7, <2>1
  <2> QED
    BY <1>7, <2>2, Zenon DEF First
<1>8. \A i \in stop : i \in 1 .. n
  BY <1>4
<1> HIDE DEF stop
<1>9. stop = {} => Scan(page, skip, key) = NotFound
  BY <1>5, <1>6, Zenon
<1>10. ASSUME NEW m \in stop, \A j \in stop : m <= j
       PROVE  Scan(page, skip, key) = Found(E[m].ptr)
  BY <1>3, <1>5, <1>6, <1>7, <1>8, <1>10, Zenon
<1> QED
  BY <1>9, <1>10 DEF E, stop

(* The pivots of a page are its entries, behind the high key if it has one.*)
LEMMA PivotsAre ==
  ASSUME NEW p, EntriesOf(p) \in Seq(Pivots), RightSibling(p) # 0 => Len(EntriesOf(p)) >= 1
  PROVE  LET E    == EntriesOf(p)
             P    == PivotsOf(p)
             n    == Len(E)
             skip == IF RightSibling(p) = 0 THEN 0 ELSE 1
         IN  /\ skip \in Nat /\ skip <= n /\ DOMAIN P = 1 .. n - skip
             /\ \A i \in 1 .. n - skip : P[i] = E[skip + i]
<1> DEFINE E    == EntriesOf(p)
           P    == PivotsOf(p)
           n    == Len(E)
           skip == IF RightSibling(p) = 0 THEN 0 ELSE 1
<1>1. CASE RightSibling(p) = 0
  <2>1. P = E /\ skip = 0
    BY <1>1 DEF PivotsOf
  <2> HIDE DEF P, E, skip
  <2>2. E \in Seq(Pivots)
    BY DEF E
  <2> QED
    BY <2>1, <2>2 DEF P, E, skip
<1>2. CASE RightSibling(p) # 0
  <2>1. P = Tail(E) /\ skip = 1
    BY <1>2 DEF PivotsOf
  <2>2. E \in Seq(Pivots) /\ n >= 1 /\ n \in Nat
    BY <1>2
  <2>3. E # <<>>
    BY <2>2
  <2> HIDE DEF P, E, skip
  <2>4. /\ Len(Tail(E)) = n - 1 /\ Tail(E) \in Seq(Pivots)
        /\ \A i \in 1 .. n - 1 : Tail(E)[i] = E[i + 1]
    BY <2>2, <2>3
  <2>5. /\ skip \in Nat /\ skip <= n /\ DOMAIN P = 1 .. n - skip
        /\ \A i \in 1 .. n - skip : P[i] = E[skip + i]
    BY <2>1, <2>2, <2>4
  <2> QED
    BY <2>5, Zenon DEF P, E, skip
<1> QED
  BY <1>1, <1>2, Zenon

(* For every page size, all pivots and every sequence of calls: on a page  *)
(* whose entries are in order find_child_ptr goes where the entries say.   *)
THEOREM FindIsCorrect == Spec => []FindRoutes
<1>1. Inv => FindRoutes
  <2> SUFFICES ASSUME Inv, Searchable(page), NEW key \in Probes
               PROVE  LET pivots  == {PivotsOf(page)[i] : i \in DOMAIN PivotsOf(page)}
                          above   == {e \in pivots : KeyLess(key, e.key)}
                          least   == {e \in above : \A f \in above : ~KeyLess(f.key, e.key)}
                          beyond  == RightSibling(page) # 0 /\ KeyLess(EntriesOf(page)[1].key, key)
                          found   == FindChildPtr(page, key)
                      IN  /\ beyond => found = Found(RightSibling(page))
                          /\ ~beyond /\ above = {} => found = NotFound
                          /\ ~beyond /\ above # {} => {Found(e.ptr) : e \in least} = {found}
    BY Zenon DEF FindRoutes
  <2> DEFINE n      == Len(page.slots)
             E      == EntriesOf(page)
             P      == PivotsOf(page)
             skip   == IF RightSibling(page) = 0 THEN 0 ELSE 1
             pivots == {P[i] : i \in DOMAIN P}
             above  == {e \in pivots : KeyLess(key, e.key)}
             least  == {e \in above : \A f \in above : ~KeyLess(f.key, e.key)}
             beyond == RightSibling(page) # 0 /\ KeyLess(E[1].key, key)
             found  == FindChildPtr(page, key)
             stop   == {i \in skip + 1 .. n : KeyLess(key, E[i].key)}
  <2>1. /\ HasSpecial(page) /\ (RightSibling(page) # 0 => page.slots # <<>>)
        /\ \A i, j \in DOMAIN P : i < j => KeyLess(P[i].key, P[j].key)
    BY Zenon DEF Searchable
  <2>2. page \in Page /\ page.slots \in Seq(SlotEntry)
    BY DEF Inv, PageInv, Page
  <2>3. E \in Seq(Pivots) /\ Len(E) = n /\ n \in Nat
    BY <2>2, EntriesType DEF Inv
  <2>4. RightSibling(page) # 0 => n >= 1 /\ E # <<>>
    BY <2>1, <2>2, <2>3
  <2>5. /\ skip \in Nat /\ skip <= n /\ DOMAIN P = 1 .. n - skip
        /\ \A i \in 1 .. n - skip : P[i] = E[skip + i]
    <3>1. RightSibling(page) # 0 => Len(E) >= 1
      BY <2>3, <2>4
    <3>2. /\ skip \in Nat /\ skip <= Len(E) /\ DOMAIN P = 1 .. Len(E) - skip
          /\ \A i \in 1 .. Len(E) - skip : P[i] = E[skip + i]
      BY <2>3, <3>1, PivotsAre, Zenon
    <3> HIDE DEF P, E, skip
    <3> QED
      BY <2>3, <3>2
  <2>6. beyond => found = Found(RightSibling(page))
    <3> SUFFICES ASSUME beyond PROVE found = Found(RightSibling(page))
      OBVIOUS
    <3> DEFINE c == CellsOf(page)[1]
    <3>1. 1 \in 1 .. n
      BY <2>3, <2>4
    <3>2. /\ CellSliceFromId(page, 0) = [err |-> "Ok", cell |-> c]
          /\ CellReadable(c) /\ E[1] = EntryOf(c)
      BY <2>1, <3>1, SlotsReadable, Zenon
    <3> HIDE DEF c, E
    <3>3. E[1].key = KeyOf(c)
      BY <3>2, SMTT(30) DEF EntryOf
    <3>4. CellSliceFromId(page, 0).err = "Ok" /\ CellSliceFromId(page, 0).cell = c
      BY <3>2
    <3> QED
      BY <3>2, <3>3, <3>4, Zenon DEF FindChildPtr
  <2>7. ~beyond => found = Scan(page, skip, key)
    <3> SUFFICES ASSUME ~beyond PROVE found = Scan(page, skip, key)
      OBVIOUS
    <3>1. CASE RightSibling(page) = 0
      BY <3>1, Zenon DEF FindChildPtr
    <3>2. CASE RightSibling(page) # 0
      <4> DEFINE c == CellsOf(page)[1]
      <4>1. 1 \in 1 .. n
        BY <2>3, <2>4, <3>2
      <4>2. /\ CellSliceFromId(page, 0) = [err |-> "Ok", cell |-> c]
            /\ CellReadable(c) /\ E[1] = EntryOf(c)
        BY <2>1, <4>1, SlotsReadable, Zenon
      <4> HIDE DEF c, E
      <4>3. E[1].key = KeyOf(c)
        BY <4>2 DEF EntryOf
      <4>4. CellSliceFromId(page, 0).err = "Ok" /\ CellSliceFromId(page, 0).cell = c
        BY <4>2
      <4> QED
        BY <3>2, <4>2, <4>3, <4>4, Zenon DEF FindChildPtr
    <3> QED
      BY <3>1, <3>2
  <2>8. /\ stop = {} => Scan(page, skip, key) = NotFound
        /\ \A m \in stop : (\A j \in stop : m <= j) => Scan(page, skip, key) = Found(E[m].ptr)
    <3>1. skip \in Nat
      BY <2>5
    <3> HIDE DEF skip
    <3> QED
      BY <2>1, <3>1, ScanMeaning
  <2> HIDE DEF skip, E, P, found, beyond, n
  <2>9. ASSUME NEW k \in stop
        PROVE  /\ k - skip \in DOMAIN P /\ P[k - skip] = E[k] /\ k \in Nat
               /\ P[k - skip] \in above
    <3>1. k \in Nat /\ k - skip \in 1 .. n - skip /\ skip + (k - skip) = k
      BY <2>3, <2>5
    <3>2. P[k - skip] = E[k] /\ k - skip \in DOMAIN P
      BY <2>5, <3>1
    <3> QED
      BY <3>1, <3>2
  <2>10. above = {} => stop = {}
    BY <2>9
  <2>11. ASSUME NEW e \in least
         PROVE  Scan(page, skip, key) = Found(e.ptr)
    <3>1. PICK j \in DOMAIN P : e = P[j]
      OBVIOUS
    <3> DEFINE m == skip + j
    <3>2. j \in Nat /\ m \in skip + 1 .. n /\ e = E[m]
      BY <2>3, <2>5, <3>1
    <3>3. m \in stop
      BY <3>2
    <3>4. ASSUME NEW k \in stop PROVE m <= k
      <4>1. k - skip \in DOMAIN P /\ P[k - skip] \in above /\ k \in Nat
        BY <2>9
      <4>2. ~(k - skip < j)
        BY <2>1, <3>1, <4>1
      <4> QED
        BY <2>5, <3>2, <4>1, <4>2, SMTT(30)
    <3> HIDE DEF m, stop
    <3> QED
      BY <2>8, <3>2, <3>3, <3>4
  <2>12. ASSUME above # {}
         PROVE  least # {}
    <3>1. \A f \in above : \E j \in DOMAIN P : f = P[j] /\ j \in Nat /\ skip + j \in stop
      <4> SUFFICES ASSUME NEW f \in above
                   PROVE  \E j \in DOMAIN P : f = P[j] /\ j \in Nat /\ skip + j \in stop
        OBVIOUS
      <4>1. PICK j \in DOMAIN P : f = P[j]
        OBVIOUS
      <4>2. j \in Nat /\ skip + j \in skip + 1 .. n /\ f = E[skip + j]
        BY <2>3, <2>5, <4>1
      <4> QED
        BY <4>1, <4>2, Zenon
    <3>2. stop # {} /\ stop \subseteq Nat
      BY <2>9, <2>12, <3>1, SMTT(30)
    <3>3. PICK m \in stop : \A k \in stop : m <= k
      <4> HIDE DEF stop
      <4> QED
        BY <3>2, LeastNatural, Zenon
    <3> DEFINE e == P[m - skip]
    <3>4. m - skip \in DOMAIN P /\ e \in above /\ m \in Nat
      BY <2>9
    <3>5. \A i \in DOMAIN P : P[i].key \in Seq(Byte)
      <4> SUFFICES ASSUME NEW i \in DOMAIN P PROVE P[i].key \in Seq(Byte)
        OBVIOUS
      <4>1. skip + i \in 1 .. n /\ P[i] = E[skip + i]
        BY <2>3, <2>5
      <4>2. P[i] \in Pivots
        BY <2>3, <4>1, ElementOfSeq
      <4> QED
        BY <4>2, IndexAssumption
    <3>6. ASSUME NEW f \in above PROVE ~KeyLess(f.key, e.key)
      <4>1. PICK j \in DOMAIN P : f = P[j] /\ j \in Nat /\ skip + j \in stop
        BY <3>1
      <4>2. m - skip = j \/ m - skip < j
        BY <2>5, <3>3, <3>4, <4>1, SMTT(30)
      <4>3. m - skip < j => KeyLess(e.key, f.key)
        BY <2>1, <3>4, <4>1, SMTT(30)
      <4>4. f.key \in Seq(Byte) /\ e.key \in Seq(Byte)
        BY <3>4, <3>5, <4>1
      <4> HIDE DEF above
      <4> QED
        BY <4>1, <4>2, <4>3, <4>4, KeyOrderIsTotal, Zenon
    <3> HIDE DEF above, e
    <3> QED
      BY <3>4, <3>6, Zenon
  <2> HIDE DEF above, least, stop
  <2>13. ~beyond /\ above = {} => found = NotFound
    BY <2>7, <2>8, <2>10, Zenon
  <2>14. ~beyond /\ above # {} => {Found(e.ptr) : e \in least} = {found}
    <3> SUFFICES ASSUME ~beyond, above # {} PROVE {Found(e.ptr) : e \in least} = {found}
      OBVIOUS
    <3>1. \A e \in least : Found(e.ptr) = found
      BY <2>7, <2>11, Zenon
    <3>2. least # {}
      BY <2>12
    <3> QED
      BY <3>1, <3>2
  <2> QED
    BY <2>6, <2>13, <2>14, Zenon DEF beyond, found, above, least, pivots, P, E
<1> QED
  BY <1>1, IndexInvariant, PTL

-----------------------------------------------------------------------------
(* Pivots in order.                                                        *)

(* The entries behind the first skip of them are in order.                 *)
InOrder(E, skip) == \A i, j \in skip + 1 .. Len(E) : i < j => KeyLess(E[i].key, E[j].key)

(* A page is searchable when its entries behind the high key are in order. *)
LEMMA SearchableMeans ==
  ASSUME NEW p, EntriesOf(p) \in Seq(Pivots), RightSibling(p) # 0 => Len(EntriesOf(p)) >= 1
  PROVE  LET E    == EntriesOf(p)
             skip == IF RightSibling(p) = 0 THEN 0 ELSE 1
         IN  (\A i, j \in DOMAIN PivotsOf(p) :
                i < j => KeyLess(PivotsOf(p)[i].key, PivotsOf(p)[j].key))
             <=> InOrder(E, skip)
<1> DEFINE E    == EntriesOf(p)
           P    == PivotsOf(p)
           n    == Len(E)
           skip == IF RightSibling(p) = 0 THEN 0 ELSE 1
<1>1. /\ skip \in Nat /\ skip <= n /\ DOMAIN P = 1 .. n - skip
      /\ \A i \in 1 .. n - skip : P[i] = E[skip + i]
  BY PivotsAre
<1>2. n \in Nat
  OBVIOUS
<1> HIDE DEF E, P, n, skip
<1>3. ASSUME \A i, j \in DOMAIN P : i < j => KeyLess(P[i].key, P[j].key),
             NEW i \in skip + 1 .. n, NEW j \in skip + 1 .. n, i < j
      PROVE  KeyLess(E[i].key, E[j].key)
  <2>1. /\ i - skip \in 1 .. n - skip /\ j - skip \in 1 .. n - skip /\ i - skip < j - skip
        /\ skip + (i - skip) = i /\ skip + (j - skip) = j
    BY <1>1, <1>2, <1>3, SMTT(30)
  <2>2. P[i - skip] = E[i] /\ P[j - skip] = E[j]
    BY <1>1, <2>1
  <2> QED
    BY <1>1, <1>3, <2>1, <2>2, SMTT(30)
<1>4. ASSUME \A i, j \in skip + 1 .. n : i < j => KeyLess(E[i].key, E[j].key),
             NEW i \in DOMAIN P, NEW j \in DOMAIN P, i < j
      PROVE  KeyLess(P[i].key, P[j].key)
  <2>1. skip + i \in skip + 1 .. n /\ skip + j \in skip + 1 .. n /\ skip + i < skip + j
    BY <1>1, <1>2, <1>4, SMTT(30)
  <2>2. P[i] = E[skip + i] /\ P[j] = E[skip + j]
    BY <1>1
  <2> QED
    BY <1>4, <2>1, <2>2, SMTT(30)
<1> QED
  BY <1>3, <1>4, Zenon DEF InOrder, E, P, n, skip

(* An entry that its two neighbours bracket is in order with all of them.  *)
LEMMA OrderedInsertion ==
  ASSUME NEW E \in Seq(Pivots), NEW skip \in Nat, skip <= Len(E), InOrder(E, skip),
         NEW idx \in skip .. Len(E), NEW x \in Pivots,
         idx > skip => KeyLess(E[idx].key, x.key),
         idx < Len(E) => KeyLess(x.key, E[idx + 1].key)
  PROVE  InOrder(ShiftIn(E, idx, x), skip)
<1> DEFINE n == Len(E)
           F == ShiftIn(E, idx, x)
<1>1. n \in Nat /\ x.key \in Seq(Byte) /\ \A k \in 1 .. n : E[k].key \in Seq(Byte)
  <2>1. \A y \in Pivots : y.key \in Seq(Byte)
    BY IndexAssumption
  <2>2. n \in Nat /\ \A k \in 1 .. n : E[k] \in Pivots
    BY ElementOfSeq
  <2> QED
    BY <2>1, <2>2, Zenon
<1>o. \A i, j \in skip + 1 .. n : i < j => KeyLess(E[i].key, E[j].key)
  BY Zenon DEF InOrder
<1>f. /\ Len(F) = n + 1
      /\ \A i \in 1 .. n + 1 :
           F[i] = IF i <= idx THEN E[i] ELSE IF i = idx + 1 THEN x ELSE E[i - 1]
  <2>1. idx \in 0 .. Len(E)
    BY <1>1
  <2> QED
    BY <2>1, ShiftInType DEF ShiftIn
<1> HIDE DEF n, F
<1> SUFFICES ASSUME NEW i \in skip + 1 .. n + 1, NEW j \in skip + 1 .. n + 1, i < j
             PROVE  KeyLess(F[i].key, F[j].key)
  BY <1>f, Zenon DEF InOrder, F
<1>b. idx \in skip .. n /\ skip <= n /\ skip \in Nat
  BY DEF n
<1>2. ASSUME NEW k \in skip + 1 .. n, k <= idx
      PROVE  KeyLess(E[k].key, x.key)
  <2>1. idx > skip /\ idx \in skip + 1 .. n /\ idx \in 1 .. n /\ k \in 1 .. n
    BY <1>1, <1>2, <1>b
  <2>2. k = idx \/ KeyLess(E[k].key, E[idx].key)
    BY <1>1, <1>2, <1>o, <2>1, SMTT(30)
  <2> QED
    BY <1>1, <2>1, <2>2, KeyLessTransitive, Zenon
<1>3. ASSUME NEW k \in skip + 1 .. n, idx < k
      PROVE  KeyLess(x.key, E[k].key)
  <2>1. idx < n /\ idx + 1 \in skip + 1 .. n /\ idx + 1 \in 1 .. n /\ k \in 1 .. n
    BY <1>1, <1>3, <1>b, SMTT(30)
  <2>2. k = idx + 1 \/ KeyLess(E[idx + 1].key, E[k].key)
    BY <1>1, <1>3, <1>o, <2>1
  <2>3. KeyLess(x.key, E[idx + 1].key)
    BY <2>1 DEF n
  <2> QED
    BY <1>1, <2>1, <2>2, <2>3, KeyLessTransitive, Zenon
<1>4. /\ F[i] = IF i <= idx THEN E[i] ELSE IF i = idx + 1 THEN x ELSE E[i - 1]
      /\ F[j] = IF j <= idx THEN E[j] ELSE IF j = idx + 1 THEN x ELSE E[j - 1]
  <2>1. i \in 1 .. n + 1 /\ j \in 1 .. n + 1
    BY <1>1
  <2> QED
    BY <1>f, <2>1, Zenon
<1>5. CASE j <= idx
  <2>1. i <= idx /\ i \in skip + 1 .. n /\ j \in skip + 1 .. n
    BY <1>1, <1>5, <1>b, SMTT(30)
  <2> QED
    BY <1>4, <1>5, <1>o, <2>1
<1>6. CASE j = idx + 1
  <2>1. i <= idx /\ ~(j <= idx) /\ i \in skip + 1 .. n
    BY <1>1, <1>6, <1>b, SMTT(30)
  <2> QED
    BY <1>2, <1>4, <1>6, <2>1, Zenon
<1>7. CASE j > idx + 1 /\ i <= idx
  <2>1. /\ ~(j <= idx) /\ j # idx + 1 /\ i \in skip + 1 .. n /\ j - 1 \in skip + 1 .. n
        /\ i < j - 1
    BY <1>1, <1>7, <1>b, SMTT(30)
  <2> QED
    BY <1>4, <1>7, <1>o, <2>1, Zenon
<1>8. CASE j > idx + 1 /\ i = idx + 1
  <2>1. /\ ~(i <= idx) /\ ~(j <= idx) /\ j # idx + 1 /\ j - 1 \in skip + 1 .. n
        /\ idx < j - 1
    BY <1>1, <1>8, <1>b
  <2> QED
    BY <1>3, <1>4, <1>8, <2>1, Zenon
<1>9. CASE i > idx + 1
  <2>1. /\ ~(i <= idx) /\ i # idx + 1 /\ ~(j <= idx) /\ j # idx + 1
        /\ i - 1 \in skip + 1 .. n /\ j - 1 \in skip + 1 .. n /\ i - 1 < j - 1
    BY <1>1, <1>9, <1>b
  <2> QED
    BY <1>4, <1>o, <2>1, Zenon
<1> QED
  BY <1>1, <1>5, <1>6, <1>7, <1>8, <1>9, SMTT(30)

(* A searchable page stays searchable with a pivot added where it belongs. *)
LEMMA AddedInOrder ==
  ASSUME NEW p, PageInv(p), \A i \in 1 .. Len(p.slots) : CellsOf(p)[i] \in PivotCells,
         NEW cell \in PivotCells, ~NoRoomFor(p, cell), NEW idx \in 0 .. Len(p.slots),
         Searchable(p), Belongs(p, idx, EntryOf(cell).key)
  PROVE  Searchable(Added(p, idx, cell))
<1> DEFINE q    == Added(p, idx, cell)
           n    == Len(p.slots)
           E    == EntriesOf(p)
           F    == EntriesOf(q)
           x    == EntryOf(cell)
           skip == IF RightSibling(p) = 0 THEN 0 ELSE 1
<1>1. x \in Pivots /\ p \in Page /\ p.slots \in Seq(SlotEntry)
  BY PivotCellDecodes DEF PageInv, Page
<1>2. E \in Seq(Pivots) /\ Len(E) = n /\ n \in Nat
  BY <1>1, EntriesType
<1>3. /\ PageInv(q) /\ \A i \in 1 .. Len(q.slots) : CellsOf(q)[i] \in PivotCells
      /\ F = SubSeq(E, 1, idx) \o <<x>> \o SubSeq(E, idx + 1, Len(E))
      /\ RightSibling(q) = RightSibling(p) /\ (HasSpecial(q) <=> HasSpecial(p))
  BY PivotAdded, Zenon
<1>4. q \in Page
  BY <1>3 DEF PageInv
<1> HIDE DEF q
<1>5. F \in Seq(Pivots) /\ Len(F) = Len(q.slots) /\ q.slots \in Seq(SlotEntry)
  <2>1. F \in Seq(Pivots) /\ Len(F) = Len(q.slots)
    BY <1>3, <1>4, EntriesType, Zenon
  <2>2. q.slots \in Seq(SlotEntry)
    BY <1>4 DEF Page
  <2> QED
    BY <2>1, <2>2
<1>6. F = ShiftIn(E, idx, x)
  BY <1>1, <1>2, <1>3, ShiftInIsInsertion, Zenon
<1>7. /\ HasSpecial(p) /\ (RightSibling(p) # 0 => p.slots # <<>>)
      /\ \A i, j \in DOMAIN PivotsOf(p) : i < j => KeyLess(PivotsOf(p)[i].key, PivotsOf(p)[j].key)
  BY Zenon DEF Searchable
<1>8. RightSibling(p) # 0 => Len(E) >= 1
  BY <1>1, <1>2, <1>7
<1>9. InOrder(E, skip)
  BY <1>2, <1>7, <1>8, SearchableMeans, Zenon
<1>10. /\ idx >= skip /\ (idx > skip => KeyLess(E[idx].key, x.key))
       /\ (idx < Len(E) => KeyLess(x.key, E[idx + 1].key))
  BY Zenon DEF Belongs
<1>11. skip \in Nat /\ skip <= Len(E)
  BY <1>2, <1>8
<1> HIDE DEF E, x, skip, F
<1>12. idx \in skip .. Len(E)
  BY <1>2, <1>10, <1>11
<1>13. InOrder(F, skip)
  BY <1>1, <1>2, <1>6, <1>9, <1>10, <1>11, <1>12, OrderedInsertion, Zenon
<1>14. Len(F) >= 1
  <2>1. idx \in 0 .. Len(E)
    BY <1>2
  <2>2. Len(F) = Len(E) + 1
    BY <1>1, <1>2, <1>6, <2>1, ShiftInType, SMTT(30)
  <2> QED
    BY <1>2, <2>2
<1>15. q.slots # <<>>
  <2>1. Len(q.slots) >= 1
    BY <1>5, <1>14
  <2> QED
    BY <1>5, <2>1, EmptySeq
<1>16. InOrder(F, IF RightSibling(q) = 0 THEN 0 ELSE 1)
  BY <1>3, <1>13, Zenon DEF skip
<1>17. \A i, j \in DOMAIN PivotsOf(q) : i < j => KeyLess(PivotsOf(q)[i].key, PivotsOf(q)[j].key)
  BY <1>5, <1>14, <1>16, SearchableMeans, Zenon DEF F
<1>18. Searchable(q)
  BY <1>3, <1>7, <1>15, <1>17, Zenon DEF Searchable
<1> QED
  BY <1>18 DEF q

(* For every page size, all pivots and every sequence of calls: a pivot    *)
(* added at the slot that its two neighbours bracket leaves the page in    *)
(* the order that find_child_ptr needs (internal_page.rs:134-150,          *)
(* slotted_page.rs:271-319).  A caller has only to compare with those two. *)
THEOREM InsertKeepsOrder == Spec => OrderKept
<1>1. ASSUME Inv, Searchable(page), NEW e \in Pivots, NEW idx \in 0 .. Len(page.slots),
             Belongs(page, idx, e.key),
             \/ AddCellAt(idx, e.key, e.ptr)
             \/ idx = Len(page.slots) /\ AddCellAppend(e.key, e.ptr)
      PROVE  Searchable(page')
  <2> DEFINE c == IndexCellOwned(e.key, e.ptr)
             n == Len(page.slots)
  <2>1. \A r, x : Ok(r).page = r /\ Err(x, r).page = r
    BY DEF Ok, Err
  <2>2. PageInv(page) /\ n \in Nat /\ idx \in Nat /\ ~(idx > n)
    BY <1>1 DEF Inv, PageInv, Page
  <2>3. CellAccepted(e.key) => c \in PivotCells /\ c \in Cell /\ EntryOf(c) = e
    BY <1>1, PivotCell
  <2> HIDE DEF c
  <2>4. CASE ~CellAccepted(e.key)
    <3>1. Return(Err("Panic", page))
      BY <1>1, <2>4, Zenon DEF AddCellAppend, AddCellAt
    <3>2. page' = page
      BY <2>1, <3>1, Zenon DEF Return
    <3> QED
      BY <1>1, <3>2, Zenon
  <2>5. CellAccepted(e.key) =>
          page' = IF NoRoomFor(page, c) THEN page ELSE Added(page, idx, c)
    <3> SUFFICES ASSUME CellAccepted(e.key)
                 PROVE  page' = IF NoRoomFor(page, c) THEN page ELSE Added(page, idx, c)
      OBVIOUS
    <3>1. CASE AddCellAt(idx, e.key, e.ptr)
      <4>1. Return(AddCellAtSlotEntryIndex(page, idx, c))
        BY <3>1, Zenon DEF AddCellAt, c
      <4>2. AddCellAtSlotEntryIndex(page, idx, c) =
              IF NoRoomFor(page, c) THEN Err("NoContigiousSpace", page)
              ELSE Ok(Added(page, idx, c))
        BY <2>2, <2>3, AddAtMeaning
      <4> QED
        BY <2>1, <4>1, <4>2, Zenon DEF Return
    <3>2. CASE idx = n /\ AddCellAppend(e.key, e.ptr)
      <4>1. Return(AddCellAppendSlotEntry(page, c))
        BY <3>2, Zenon DEF AddCellAppend, c
      <4>2. AddCellAppendSlotEntry(page, c) =
              IF NoRoomFor(page, c) THEN Err("NoContigiousSpace", page)
              ELSE Ok(Added(page, idx, c))
        BY <2>2, <2>3, <3>2, AddAppendMeaning
      <4> QED
        BY <2>1, <4>1, <4>2, Zenon DEF Return
    <3> QED
      BY <1>1, <3>1, <3>2
  <2>6. ASSUME CellAccepted(e.key), ~NoRoomFor(page, c)
        PROVE  Searchable(Added(page, idx, c))
    BY <1>1, <2>2, <2>3, <2>6, AddedInOrder, Zenon DEF Inv
  <2> QED
    BY <1>1, <2>4, <2>5, <2>6, Zenon
<1>2. Inv /\ [Next]_vars =>
        [Searchable(page) => \A e \in Pivots : \A idx \in 0 .. Len(page.slots) :
           /\ Belongs(page, idx, e.key)
           /\ \/ AddCellAt(idx, e.key, e.ptr)
              \/ idx = Len(page.slots) /\ AddCellAppend(e.key, e.ptr)
           => Searchable(page')]_vars
  BY <1>1, Zenon
<1> QED
  BY <1>2, IndexInvariant, PTL DEF Spec, OrderKept
=============================================================================
