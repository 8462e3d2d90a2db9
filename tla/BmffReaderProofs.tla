-------------------------- MODULE BmffReaderProofs --------------------------
(***************************************************************************)
(* Proofs about BmffReader, for every input and size of the buffer: the    *)
(* types, that r.pos and the Offset of every box are exact, and that the   *)
(* boxes returned are those the input is made of.                          *)
(***************************************************************************)
EXTENDS BmffReader, TLAPS, SequenceTheorems, NaturalsInduction, WellFoundedInduction

\* Drop leaves the cells after the first k.
LEMMA DropSeq ==
  ASSUME NEW s \in Seq(Nat), NEW k \in Nat
  PROVE  /\ Drop(s, k) \in Seq(Nat)
         /\ Len(Drop(s, k)) = IF k <= Len(s) THEN Len(s) - k ELSE 0
  <1>1. CASE k + 1 <= Len(s) + 1
    <2>1. k + 1 \in 1..(Len(s) + 1) /\ Len(s) \in (k + 1 - 1)..Len(s)
      BY <1>1, LenProperties
    <2>2. QED
      BY <2>1, SubSeqProperties DEF Drop
  <1>2. CASE k + 1 > Len(s) + 1
    BY <1>2, LenProperties DEF Drop
  <1>3. QED
    BY <1>1, <1>2, LenProperties

\* A number is a natural number.
LEMMA UintNat ==
  ASSUME NEW s \in Seq(Nat), s # <<>>
  PROVE  Uint(s) \in Nat
  <1>1. Len(s) \in 1..Len(s) /\ s[Len(s)] \in Nat
    BY LenProperties, ElementOfSeq, EmptySeq
  <1>2. MaxUint64 \in Nat
    BY MaxInt64Assumption DEF MaxUint64
  <1>3. QED
    BY <1>1, <1>2 DEF Uint

\* So is a number within a longer sequence.
LEMMA UintWithin ==
  ASSUME NEW s \in Seq(Nat), NEW i \in 1..Len(s), NEW j \in i..Len(s)
  PROVE  Uint(SubSeq(s, i, j)) \in Nat
  <1>1. SubSeq(s, i, j) \in Seq(Nat) /\ Len(SubSeq(s, i, j)) = j - i + 1
    BY SubSeqProperties, LenProperties
  <1>2. SubSeq(s, i, j) # <<>>
    BY <1>1, LenProperties
  <1>3. QED
    BY <1>1, <1>2, UintNat

\* A header that is read whole: its size counts the header and the body.
LEMMA HeaderOK ==
  ASSUME NEW s \in Seq(Nat), Header(s).err = nil
  PROVE  /\ Len(s) >= 8
         /\ Header(s).toEnd \in BOOLEAN /\ Header(s).typ \in Seq(Nat)
         /\ Header(s).headerSize \in {8, 16}
         /\ Header(s).size \in Nat /\ Header(s).remain \in Nat
         /\ ~Header(s).toEnd => Header(s).size = Header(s).headerSize + Header(s).remain
         /\ Header(s).toEnd => Header(s).remain = 0
  <1> DEFINE size32 == Uint(SubSeq(s, 1, 4))
             large == size32 = 1
             hdr == IF large THEN 16 ELSE 8
             size == IF large THEN Uint(SubSeq(s, 9, 16)) ELSE size32
             toEnd == size32 = 0
             remain == IF toEnd THEN 0 ELSE size - hdr
  <1>1. Len(s) \in Nat
    BY LenProperties
  <1> DEFINE err == IF Len(s) < 8 THEN IF Len(s) \in {0, 4} THEN "EOF" ELSE "UnexpectedEOF"
                    ELSE IF Len(s) < hdr THEN IF Len(s) = 8 THEN "EOF" ELSE "UnexpectedEOF"
                    ELSE IF large /\ size > MaxInt64 THEN "unexpectedly large box"
                    ELSE IF remain < 0 THEN "negative size remains"
                    ELSE nil
             yes == [err |-> nil, typ |-> SubSeq(s, 5, 8), size |-> size, headerSize |-> hdr,
                     toEnd |-> toEnd, remain |-> remain]
             no == [err |-> err, typ |-> <<>>, size |-> 0, headerSize |-> 0, toEnd |-> FALSE, remain |-> 0]
  <1>2a. Header(s) = IF err # nil THEN no ELSE yes
    BY Zenon DEF Header
  <1>2b. err = nil
    <2>1. no.err = err /\ yes.err = nil
      OBVIOUS
    <2> HIDE DEF no, yes, err
    <2>2. QED
      BY <1>2a, <2>1
  <1>2c. Header(s) = yes
    BY <1>2a, <1>2b
  <1>2. ~(Len(s) < 8) /\ ~(Len(s) < hdr) /\ ~(remain < 0)
    <2> HIDE DEF hdr, size, remain, large
    <2>1. QED
      BY <1>2b DEF nil
  <1>2d. Len(s) >= 8
    BY <1>1, <1>2
  <1>3. size32 \in Nat
    <2>1. 1 \in 1..Len(s) /\ 4 \in 1..Len(s)
      BY <1>1, <1>2d
    <2>2. QED
      BY <2>1, UintWithin
  <1>4. size \in Nat
    <2>1. CASE large
      <3>1. 9 \in 1..Len(s) /\ 16 \in 9..Len(s)
        BY <1>1, <1>2, <2>1
      <3>2. Uint(SubSeq(s, 9, 16)) \in Nat
        BY <3>1, UintWithin
      <3>3. QED
        BY <2>1, <3>2
    <2>2. CASE ~large
      BY <2>2, <1>3
    <2>3. QED
      BY <2>1, <2>2
  <1>5. hdr \in {8, 16}
    OBVIOUS
  <1>6. remain \in Nat /\ (~toEnd => size = hdr + remain) /\ (toEnd => remain = 0)
    <2>1. size - hdr \in Int /\ (~toEnd => remain = size - hdr)
      BY <1>4, <1>5
    <2> HIDE DEF size, hdr
    <2>2. QED
      BY <1>2, <1>4, <1>5, <2>1
  <1>7. SubSeq(s, 5, 8) \in Seq(Nat)
    <2>1. \A i \in 5..8 : s[i] \in Nat
      BY <1>1, <1>2d, ElementOfSeq
    <2>2. QED
      BY <2>1, SubSeqProperties
  <1>8. toEnd \in BOOLEAN
    OBVIOUS
  <1> HIDE DEF size, hdr, remain, toEnd
  <1>9. /\ yes.typ = SubSeq(s, 5, 8) /\ yes.size = size /\ yes.headerSize = hdr
        /\ yes.toEnd = toEnd /\ yes.remain = remain
    BY Zenon
  <1> HIDE DEF yes
  <1>10. QED
    BY <1>2c, <1>2d, <1>4, <1>5, <1>6, <1>7, <1>8, <1>9

\* No header is read at the end of the input.
LEMMA HeaderAtEnd ==
  ASSUME NEW s \in Seq(Nat), NEW k \in Nat, Header(Drop(s, k)).err = nil
  PROVE  k < Len(s)
  <1>1. /\ Drop(s, k) \in Seq(Nat) /\ Len(s) \in Nat
        /\ Len(Drop(s, k)) = IF k <= Len(s) THEN Len(s) - k ELSE 0
    BY DropSeq, LenProperties
  <1>2. Len(Drop(s, k)) >= 8
    BY <1>1, HeaderOK
  <1>3. QED
    BY <1>1, <1>2, LenProperties

-----------------------------------------------------------------------------
(* Boxes, for every input.                                                 *)

\* A set of natural numbers that is not empty has a least element: the form in
\* which the proofs below use induction.
LEMMA LeastElement ==
  ASSUME NEW T \in SUBSET Nat, T # {}
  PROVE  \E n \in T : \A k \in T : n <= k
<1> DEFINE R == OpToRel(<, Nat)
<1>1. IsWellFoundedOn(R, Nat)
  BY NatLessThanWellFounded
<1> HIDE DEF R
<1>2. PICK n \in T : \A k \in T : ~(<<k, n>> \in R)
  BY <1>1, WFMin
<1>3. \A k \in T : k < n => <<k, n>> \in R
  BY DEF R, OpToRel
<1>4. n \in Nat /\ \A k \in T : k \in Nat
  OBVIOUS
<1>5. \A k \in T : ~(k < n)
  BY <1>2, <1>3
<1>6. \A i, j \in Nat : ~(j < i) => i <= j
  OBVIOUS
<1> QED
  BY <1>4, <1>5, <1>6

\* A box that is read whole ends after the offset it begins at, and within the
\* input.
LEMMA BoxEndLater ==
  ASSUME NEW s \in Seq(Nat), NEW p \in 0..Len(s), Header(Drop(s, p)).err = nil
  PROVE  BoxEnd(s, Header(Drop(s, p)), p) \in (p + 1)..Len(s)
<1>1. p \in Nat /\ Len(s) \in Nat
  BY LenProperties
<1>2. Drop(s, p) \in Seq(Nat)
  BY <1>1, DropSeq
<1>3. PICK h : h = Header(Drop(s, p))
  OBVIOUS
<1>4. /\ h.headerSize \in {8, 16} /\ h.size \in Nat /\ h.remain \in Nat
      /\ ~h.toEnd => h.size = h.headerSize + h.remain
  BY <1>2, <1>3, HeaderOK
<1>5. p < Len(s)
  BY <1>1, HeaderAtEnd
<1>6. BoxEnd(s, h, p) \in (p + 1)..Len(s)
  <2> HIDE <1>3
  <2> QED
    BY <1>1, <1>4, <1>5, SMTT(60) DEF BoxEnd
<1> QED
  BY <1>3, <1>6

\* The list from an offset on depends on the lists from later offsets only.
LEMMA BoxesAtLater ==
  ASSUME NEW s \in Seq(Nat), NEW p \in 0..Len(s), NEW f, NEW g,
         \A q \in (p + 1)..Len(s) : f[q] = g[q]
  PROVE  BoxesAt(s, Header(Drop(s, p)), p, f) = BoxesAt(s, Header(Drop(s, p)), p, g)
<1>1. CASE Header(Drop(s, p)).err = nil
  <2>1. f[BoxEnd(s, Header(Drop(s, p)), p)] = g[BoxEnd(s, Header(Drop(s, p)), p)]
    BY <1>1, BoxEndLater
  <2> QED
    BY <2>1, Zenon DEF BoxesAt
<1>2. CASE Header(Drop(s, p)).err # nil
  BY <1>2, Zenon DEF BoxesAt
<1> QED
  BY <1>1, <1>2

\* Whether f lists the boxes of s from the offsets k..Len(s) on.
ListsFrom(s, f, k) ==
  f = [p \in k..Len(s) |-> BoxesAt(s, Header(Drop(s, p)), p, f)]

\* The recursion of Boxes ends: there is a function that lists the boxes from
\* every offset on.
LEMMA ListExists ==
  ASSUME NEW s \in Seq(Nat)
  PROVE  \E f : ListsFrom(s, f, 0)
<1>1. PICK L \in Nat : L = Len(s)
  BY LenProperties
<1> DEFINE T == {k \in Nat : k <= L + 1 /\ ~\E f : ListsFrom(s, f, L + 1 - k)}
<1>2. CASE T = {}
  <2>1. L + 1 \in Nat /\ L + 1 <= L + 1 /\ L + 1 - (L + 1) = 0
    OBVIOUS
  <2>2. L + 1 \notin T
    BY <1>2
  <2> QED
    BY <2>1, <2>2
<1>3. CASE T # {}
  <2>1. PICK n \in T : \A k \in T : n <= k
    BY <1>3, LeastElement
  <2>2. n \in Nat /\ n <= L + 1 /\ ~\E f : ListsFrom(s, f, L + 1 - n)
    BY <2>1
  <2>3. n # 0
    <3>1. (L + 1)..L = {} /\ L + 1 - 0 = L + 1
      OBVIOUS
    <3>2. PICK f : f = [p \in {} |-> p]
      OBVIOUS
    <3>3. f = [p \in {} |-> BoxesAt(s, Header(Drop(s, p)), p, f)]
      BY <3>2
    <3>4. ListsFrom(s, f, L + 1)
      BY <1>1, <3>1, <3>3 DEF ListsFrom
    <3> QED
      BY <2>2, <3>1, <3>4
  <2>4. PICK m \in 0..L : m = L + 1 - n
    BY <2>2, <2>3
  <2>5. n - 1 \in Nat /\ n - 1 <= L + 1 /\ L + 1 - (n - 1) = m + 1 /\ ~(n <= n - 1)
    BY <2>2, <2>3, <2>4
  <2>6. n - 1 \notin T
    BY <2>1, <2>5
  <2>7. PICK f : ListsFrom(s, f, m + 1)
    BY <2>5, <2>6
  <2>8. \A p \in (m + 1)..L : f[p] = BoxesAt(s, Header(Drop(s, p)), p, f)
    BY <1>1, <2>7, Zenon DEF ListsFrom
  <2>9. PICK g : g = [p \in m..L |-> IF p = m THEN BoxesAt(s, Header(Drop(s, m)), m, f) ELSE f[p]]
    OBVIOUS
  <2>10. \A q \in (m + 1)..L : q \in m..L /\ q # m
    OBVIOUS
  <2>11. \A q \in (m + 1)..L : g[q] = f[q]
    BY <2>9, <2>10, Zenon
  <2>12. ASSUME NEW p \in m..L
         PROVE  g[p] = BoxesAt(s, Header(Drop(s, p)), p, g)
    <3>1. p \in 0..Len(s) /\ \A q \in (p + 1)..Len(s) : q \in (m + 1)..L
      BY <1>1, <2>4
    <3>2. BoxesAt(s, Header(Drop(s, p)), p, f) = BoxesAt(s, Header(Drop(s, p)), p, g)
      BY <2>11, <3>1, BoxesAtLater
    <3>3. g[p] = BoxesAt(s, Header(Drop(s, p)), p, f)
      <4>1. CASE p = m
        BY <2>9, <4>1, Zenon
      <4>2. CASE p # m
        <5>1. p \in (m + 1)..L
          BY <2>4, <4>2
        <5> QED
          BY <2>8, <2>11, <5>1
      <4> QED
        BY <4>1, <4>2
    <3> QED
      BY <3>2, <3>3
  <2>13. g = [p \in m..L |-> BoxesAt(s, Header(Drop(s, p)), p, g)]
    <3>1. g = [p \in m..L |-> g[p]]
      BY <2>9, Zenon
    <3> QED
      BY <2>12, <3>1, Zenon
  <2>14. ListsFrom(s, g, m)
    BY <1>1, <2>13 DEF ListsFrom
  <2> QED
    BY <2>2, <2>4, <2>14
<1> QED
  BY <1>2, <1>3

\* So BoxesFrom is that function.
LEMMA BoxesFromUnfolds ==
  ASSUME NEW s \in Seq(Nat), NEW p \in 0..Len(s)
  PROVE  BoxesFrom(s)[p] = BoxesAt(s, Header(Drop(s, p)), p, BoxesFrom(s))
<1>1. BoxesFrom(s) = CHOOSE f : ListsFrom(s, f, 0)
  BY Zenon DEF BoxesFrom, ListsFrom
<1>2. ListsFrom(s, BoxesFrom(s), 0)
  BY <1>1, ListExists, Zenon
<1>3. BoxesFrom(s) = [q \in 0..Len(s) |-> BoxesAt(s, Header(Drop(s, q)), q, BoxesFrom(s))]
  BY <1>2 DEF ListsFrom
<1>4. \A f : f = [q \in 0..Len(s) |-> BoxesAt(s, Header(Drop(s, q)), q, BoxesFrom(s))]
              => f[p] = BoxesAt(s, Header(Drop(s, p)), p, BoxesFrom(s))
  BY Zenon
<1> QED
  BY <1>3, <1>4, Zenon


\* A list of boxes from an offset on: its error and its boxes, each read at an
\* offset of s.
BoxLists(s) ==
  [err : {Header(Drop(s, p)).err : p \in 0..Len(s)} \cup {nil},
   boxes : Seq({BoxAt(s, Header(Drop(s, p)), p) : p \in 0..Len(s)})]

\* The cases of BoxesAt.
LEMMA BoxesAtCases ==
  ASSUME NEW s \in Seq(Nat), NEW p \in 0..Len(s), NEW h, h = Header(Drop(s, p)), NEW f,
         ~h.toEnd /\ h.err = nil => f[BoxEnd(s, h, p)] \in BoxLists(s)
  PROVE  /\ BoxesAt(s, h, p, f) \in BoxLists(s)
         /\ h.err = "EOF" => BoxesAt(s, h, p, f) = NoBoxes
         /\ h.err # "EOF" /\ h.err # nil =>
              BoxesAt(s, h, p, f).err = h.err /\ BoxesAt(s, h, p, f).boxes = <<>>
         /\ h.err = nil /\ h.toEnd =>
              BoxesAt(s, h, p, f).err = nil /\ BoxesAt(s, h, p, f).boxes = <<BoxAt(s, h, p)>>
         /\ h.err = nil /\ ~h.toEnd =>
              /\ BoxesAt(s, h, p, f).err = f[BoxEnd(s, h, p)].err
              /\ BoxesAt(s, h, p, f).boxes = <<BoxAt(s, h, p)>> \o f[BoxEnd(s, h, p)].boxes
<1> DEFINE E == {Header(Drop(s, q)).err : q \in 0..Len(s)} \cup {nil}
           V == {BoxAt(s, Header(Drop(s, q)), q) : q \in 0..Len(s)}
<1>1. h.err \in E /\ nil \in E /\ BoxAt(s, h, p) \in V
  OBVIOUS
<1>2. BoxLists(s) = [err : E, boxes : Seq(V)]
  BY DEF BoxLists
<1> HIDE DEF E, V
<1>3. NoBoxes \in [err : E, boxes : Seq(V)] /\ NoBoxes.err = nil /\ NoBoxes.boxes = <<>>
  BY <1>1 DEF NoBoxes
<1>4. ASSUME NEW r \in [err : E, boxes : Seq(V)], NEW b \in V
      PROVE  /\ Before(b, r) \in [err : E, boxes : Seq(V)]
             /\ Before(b, r).err = r.err /\ Before(b, r).boxes = <<b>> \o r.boxes
  <2>1. Before(b, r) = [err |-> r.err, boxes |-> <<b>> \o r.boxes]
    <3>1. \A bs : [r EXCEPT !.boxes = bs] = [err |-> r.err, boxes |-> bs]
      OBVIOUS
    <3>2. Before(b, r) = [r EXCEPT !.boxes = <<b>> \o r.boxes]
      BY DEF Before
    <3> QED
      BY <3>1, <3>2
  <2>2. <<b>> \o r.boxes \in Seq(V)
    OBVIOUS
  <2> QED
    BY <2>1, <2>2
<1>5. <<BoxAt(s, h, p)>> \o <<>> = <<BoxAt(s, h, p)>>
  BY <1>1
<1>6. CASE h.err = "EOF"
  BY <1>2, <1>3, <1>6 DEF BoxesAt, nil
<1>7. CASE h.err # "EOF" /\ h.err # nil
  <2>1. BoxesAt(s, h, p, f) = [NoBoxes EXCEPT !.err = h.err]
    BY <1>7 DEF BoxesAt
  <2>2. [NoBoxes EXCEPT !.err = h.err] = [err |-> h.err, boxes |-> <<>>]
    BY DEF NoBoxes
  <2>3. [err |-> h.err, boxes |-> <<>>] \in [err : E, boxes : Seq(V)]
    BY <1>1
  <2> QED
    BY <1>2, <1>7, <2>1, <2>2, <2>3
<1>8. CASE h.err = nil /\ h.toEnd
  <2>1. BoxesAt(s, h, p, f) = Before(BoxAt(s, h, p), NoBoxes)
    BY <1>8 DEF BoxesAt, nil
  <2> QED
    BY <1>1, <1>2, <1>3, <1>4, <1>5, <1>8, <2>1 DEF nil
<1>9. CASE h.err = nil /\ ~h.toEnd
  <2>1. BoxesAt(s, h, p, f) = Before(BoxAt(s, h, p), f[BoxEnd(s, h, p)])
    BY <1>9 DEF BoxesAt, nil
  <2>2. f[BoxEnd(s, h, p)] \in [err : E, boxes : Seq(V)]
    BY <1>2, <1>9
  <2> QED
    BY <1>1, <1>2, <1>4, <1>9, <2>1, <2>2 DEF nil
<1> QED
  BY <1>6, <1>7, <1>8, <1>9

\* BoxesFrom lists boxes from every offset.
LEMMA BoxesFromLists ==
  ASSUME NEW s \in Seq(Nat)
  PROVE  \A p \in 0..Len(s) : BoxesFrom(s)[p] \in BoxLists(s)
<1>1. PICK L \in Nat : L = Len(s)
  BY LenProperties
<1> DEFINE T == {k \in Nat : k <= L /\ BoxesFrom(s)[L - k] \notin BoxLists(s)}
<1>2. CASE T = {}
  <2> SUFFICES ASSUME NEW p \in 0..L PROVE BoxesFrom(s)[p] \in BoxLists(s)
    BY <1>1
  <2>1. L - p \in Nat /\ L - p <= L /\ L - (L - p) = p
    OBVIOUS
  <2>2. L - p \notin T
    BY <1>2
  <2> QED
    BY <2>1, <2>2
<1>3. CASE T # {}
  <2>1. PICK n \in T : \A k \in T : n <= k
    BY <1>3, LeastElement
  <2>2. n \in Nat /\ n <= L /\ BoxesFrom(s)[L - n] \notin BoxLists(s)
    BY <2>1
  <2>3. PICK p \in 0..L : p = L - n
    BY <2>2
  <2>4. PICK h : h = Header(Drop(s, p))
    OBVIOUS
  <2>5. ASSUME h.err = nil PROVE BoxesFrom(s)[BoxEnd(s, h, p)] \in BoxLists(s)
    <3>1. PICK q \in (p + 1)..L : q = BoxEnd(s, h, p)
      BY <1>1, <2>4, <2>5, BoxEndLater
    <3>2. L - q \in Nat /\ L - q <= L /\ ~(n <= L - q) /\ L - (L - q) = q
      BY <2>2, <2>3, <3>1
    <3>3. L - q \notin T
      BY <2>1, <3>2
    <3> QED
      BY <3>1, <3>2, <3>3
  <2>6. BoxesFrom(s)[p] = BoxesAt(s, h, p, BoxesFrom(s))
    BY <1>1, <2>4, BoxesFromUnfolds
  <2>7. BoxesAt(s, h, p, BoxesFrom(s)) \in BoxLists(s)
    BY <1>1, <2>4, <2>5, BoxesAtCases
  <2> QED
    BY <2>2, <2>3, <2>6, <2>7
<1> QED
  BY <1>2, <1>3

\* What the list from an offset on is: nothing, or the box there and the list
\* from its end on.
LEMMA BoxesFromCases ==
  ASSUME NEW s \in Seq(Nat), NEW p \in 0..Len(s), NEW h, h = Header(Drop(s, p))
  PROVE  /\ h.err = "EOF" => BoxesFrom(s)[p].err = nil /\ BoxesFrom(s)[p].boxes = <<>>
         /\ h.err # "EOF" /\ h.err # nil =>
              BoxesFrom(s)[p].err = h.err /\ BoxesFrom(s)[p].boxes = <<>>
         /\ h.err = nil /\ h.toEnd =>
              BoxesFrom(s)[p].err = nil /\ BoxesFrom(s)[p].boxes = <<BoxAt(s, h, p)>>
         /\ h.err = nil /\ ~h.toEnd =>
              /\ BoxEnd(s, h, p) \in 0..Len(s)
              /\ BoxesFrom(s)[p].err = BoxesFrom(s)[BoxEnd(s, h, p)].err
              /\ BoxesFrom(s)[p].boxes = <<BoxAt(s, h, p)>> \o BoxesFrom(s)[BoxEnd(s, h, p)].boxes
<1>1. BoxesFrom(s)[p] = BoxesAt(s, h, p, BoxesFrom(s))
  BY BoxesFromUnfolds
<1>2. h.err = nil => BoxEnd(s, h, p) \in (p + 1)..Len(s)
  BY BoxEndLater
<1>3. \A q \in (p + 1)..Len(s) : q \in 0..Len(s)
  BY LenProperties
<1>4. h.err = nil => BoxEnd(s, h, p) \in 0..Len(s)
  BY <1>2, <1>3
<1>5. h.err = nil => BoxesFrom(s)[BoxEnd(s, h, p)] \in BoxLists(s)
  BY <1>4, BoxesFromLists
<1>6. NoBoxes.err = nil /\ NoBoxes.boxes = <<>>
  BY DEF NoBoxes
<1>7. PICK f : f = BoxesFrom(s)
  OBVIOUS
<1>8. ~h.toEnd /\ h.err = nil => f[BoxEnd(s, h, p)] \in BoxLists(s)
  BY <1>5, <1>7
<1>9. /\ h.err = "EOF" => BoxesAt(s, h, p, f) = NoBoxes
      /\ h.err # "EOF" /\ h.err # nil =>
           BoxesAt(s, h, p, f).err = h.err /\ BoxesAt(s, h, p, f).boxes = <<>>
      /\ h.err = nil /\ h.toEnd =>
           BoxesAt(s, h, p, f).err = nil /\ BoxesAt(s, h, p, f).boxes = <<BoxAt(s, h, p)>>
      /\ h.err = nil /\ ~h.toEnd =>
           /\ BoxesAt(s, h, p, f).err = f[BoxEnd(s, h, p)].err
           /\ BoxesAt(s, h, p, f).boxes = <<BoxAt(s, h, p)>> \o f[BoxEnd(s, h, p)].boxes
  BY <1>8, BoxesAtCases
<1> QED
  BY <1>1, <1>4, <1>6, <1>7, <1>9, Zenon

-----------------------------------------------------------------------------
\* The bytes in the buffer were delivered by the underlying reader.
Buffer == buffered <= src

\* ReadBox gets to the header with nothing left of the last box, or at the end
\* of the input; only a box to the end of the input has no limit.
AtHeader ==
  /\ last.kind = "end" <=> noMore
  /\ last.kind # "limited" => last.n = 0
  /\ pc = "header" => ~noMore /\ (last.n = 0 \/ at >= Len(input))

\* The boxes returned, with numbers in their fields.
OutOK == out \in Seq([typ : Seq(Nat), size : Nat, offset : Nat, headerSize : Nat, start : Nat])

\* PosExact is inductive with these: the header that ReadHeader reads lies at
\* pos because skipRest left nothing of the last box.
IInv == TypeOK /\ Buffer /\ AtHeader /\ PosExact

\* Reading k bytes advances the reader by k, whether from the buffer or not.
LEMMA DeliverAdvances ==
  ASSUME TypeOK, Buffer, NEW k \in Nat, Deliver(k)
  PROVE  src' \in Nat /\ buffered' \in 0..BufSize /\ buffered' <= src' /\ at' = at + k
  <1>1. src \in Nat /\ buffered \in 0..BufSize /\ buffered <= src /\ BufSize \in Nat
    BY InputAssumption DEF TypeOK, Buffer
  <1>2. CASE k <= buffered /\ buffered' = buffered - k /\ UNCHANGED src
    BY <1>1, <1>2 DEF at
  <1>3. CASE /\ k > buffered
             /\ \E b \in 0..Least(BufSize, Avail - k) : buffered' = b /\ src' = at + k + b
    <2>1. PICK b \in 0..Least(BufSize, Avail - k) : buffered' = b /\ src' = at + k + b
      BY <1>3
    <2>2. Avail \in Int
      BY <1>1, LenProperties DEF Avail, at, TypeOK
    <2>3. b \in 0..BufSize
      BY <1>1, <2>1, <2>2 DEF Least
    <2>4. QED
      BY <1>1, <2>1, <2>3 DEF at
  <1>4. QED
    BY <1>2, <1>3 DEF Deliver

LEMMA InitIInv == Init => IInv
  <1> SUFFICES ASSUME Init PROVE IInv
    OBVIOUS
  <1>1. last.kind = "none" /\ last.n = 0 /\ last \in [kind : {"none", "limited", "end"}, n : Nat]
    BY DEF Init, None
  <1>2. input \in Seq(Nat) /\ BufSize \in Nat
    BY InputAssumption DEF Init
  <1>3. at = 0
    BY DEF Init, at
  <1>4. TypeOK
    <2>1. src \in Nat /\ buffered \in 0..BufSize /\ pos \in Nat
      BY <1>2 DEF Init
    <2>2. noMore \in BOOLEAN /\ pc \in {"client", "header", "done"}
      BY Zenon DEF Init
    <2>3. QED
      BY <1>1, <1>2, <2>1, <2>2 DEF Init, TypeOK
  <1>5. QED
    BY <1>1, <1>3, <1>4 DEF Init, IInv, Buffer, AtHeader, PosExact

\* Every step preserves the invariant.
LEMMA NextIInv == IInv /\ [Next]_vars => IInv'
  <1> SUFFICES ASSUME IInv, [Next]_vars PROVE IInv'
    OBVIOUS
  <1> USE DEF IInv, None, Limited, ToEnd
  <1>t. /\ Len(input) \in Nat /\ src \in Nat /\ buffered \in Nat /\ buffered <= src
        /\ at \in Nat /\ last.n \in Nat /\ pos \in Nat /\ Avail \in Nat
        /\ last = [kind |-> last.kind, n |-> last.n] /\ last.kind \in {"none", "limited", "end"}
    BY LenProperties, InputAssumption DEF TypeOK, Buffer, at, Avail
  <1>1. CASE NoMoreBoxes
    BY <1>1 DEF NoMoreBoxes, TypeOK, Buffer, AtHeader, PosExact, at
  <1>2. CASE FirstBox
    BY <1>2, <1>t DEF FirstBox, TypeOK, Buffer, AtHeader, PosExact, at
  <1>3. CASE SkipSeek
    BY <1>3, <1>t, InputAssumption DEF SkipSeek, TypeOK, Buffer, AtHeader, PosExact, at
  <1>4. CASE SkipCopy
    <2>1. PICK k \in {Least(last.n, Avail)} : Deliver(k) /\ last' = [kind |-> "limited", n |-> last.n - k]
      BY <1>4 DEF SkipCopy
    <2>2. k \in Nat /\ k <= last.n /\ (k = last.n \/ at + k >= Len(input))
      BY <2>1, <1>t DEF Least, Avail
    <2>3. src' \in Nat /\ buffered' \in 0..BufSize /\ buffered' <= src' /\ at' = at + k
      BY <2>1, <2>2, DeliverAdvances
    <2>4. last.n - k \in Nat /\ last'.n = last.n - k /\ last'.kind = "limited"
      BY <1>t, <2>1, <2>2
    <2>5. TypeOK'
      BY <1>4, <2>1, <2>3, <2>4 DEF SkipCopy, TypeOK
    <2>6. Buffer' /\ AtHeader'
      BY <1>4, <1>t, <2>2, <2>3, <2>4 DEF SkipCopy, AtHeader, Buffer
    <2>7. PosExact'
      BY <1>4, <1>t, <2>2, <2>3, <2>4 DEF SkipCopy, PosExact
    <2>8. QED
      BY <2>5, <2>6, <2>7
  <1>5. CASE ReadFails
    BY <1>5 DEF ReadFails, TypeOK, Buffer, AtHeader, PosExact, at
  <1>6. CASE ReadHeader
    <2> DEFINE h == Header(Drop(input, at))
    <2>1. Drop(input, at) \in Seq(Nat)
      BY <1>t, DropSeq DEF TypeOK
    <2>2. /\ pc = "header" /\ h.err = nil /\ Deliver(h.headerSize) /\ noMore' = h.toEnd
          /\ last' = IF h.toEnd THEN [kind |-> "end", n |-> 0] ELSE [kind |-> "limited", n |-> h.remain]
          /\ pos' = IF h.toEnd THEN pos ELSE pos + h.size
          /\ pc' = "client" /\ UNCHANGED <<input, seeker>>
      BY <1>6 DEF ReadHeader
    <2>3. /\ h.toEnd \in BOOLEAN /\ h.headerSize \in Nat /\ h.size \in Nat /\ h.remain \in Nat
          /\ ~h.toEnd => h.size = h.headerSize + h.remain
      BY <2>1, <2>2, HeaderOK
    <2>4. at < Len(input)
      BY <1>t, <2>2, HeaderAtEnd DEF TypeOK
    <2>5. pos = at
      BY <1>t, <2>2, <2>4 DEF AtHeader, PosExact
    <2> HIDE DEF h
    <2>6. src' \in Nat /\ buffered' \in 0..BufSize /\ buffered' <= src' /\ at' = at + h.headerSize
      BY <2>2, <2>3, DeliverAdvances
    <2>7. CASE h.toEnd
      BY <1>t, <2>2, <2>3, <2>6, <2>7 DEF TypeOK, Buffer, AtHeader, PosExact
    <2>8. CASE ~h.toEnd
      <3>1. last'.kind = "limited" /\ last'.n = h.remain /\ pos' = pos + h.size /\ ~noMore'
        BY <2>2, <2>3, <2>8
      <3>2. pos' = at' + last'.n /\ at' >= 0
        BY <1>t, <2>3, <2>5, <2>6, <2>8, <3>1
      <3>3. TypeOK'
        BY <1>t, <2>2, <2>3, <2>6, <2>8 DEF TypeOK
      <3>4. QED
        BY <2>2, <2>6, <3>1, <3>2, <3>3 DEF Buffer, AtHeader, PosExact
    <2>9. QED
      BY <2>3, <2>7, <2>8
  <1>7. CASE HeaderFails
    <2>1. Drop(input, at) \in Seq(Nat)
      BY <1>t, DropSeq DEF TypeOK
    <2>2. Consumed(Drop(input, at)) \in Nat
      BY <2>1, LenProperties DEF Consumed
    <2>3. src' \in Nat /\ buffered' \in 0..BufSize /\ buffered' <= src'
      BY <1>7, <2>2, DeliverAdvances DEF HeaderFails
    <2>4. QED
      BY <1>7, <2>3 DEF HeaderFails, TypeOK, Buffer, AtHeader, PosExact
  <1>8. ASSUME NEW k \in 1..Len(input), ReadBody(k) PROVE IInv'
    <2>1. k \in Nat /\ (last.kind = "limited" => k <= last.n)
      BY <1>8, <1>t DEF ReadBody, Least
    <2>2. src' \in Nat /\ buffered' \in 0..BufSize /\ buffered' <= src' /\ at' = at + k
      BY <1>8, <2>1, DeliverAdvances DEF ReadBody
    <2>3. CASE last.kind = "limited"
      <3>1. last' = [kind |-> "limited", n |-> last.n - k] /\ last.n - k \in Nat
        BY <1>8, <1>t, <2>1, <2>3 DEF ReadBody
      <3>2. QED
        BY <1>8, <1>t, <2>1, <2>2, <2>3, <3>1 DEF ReadBody, TypeOK, Buffer, AtHeader, PosExact
    <2>4. CASE last.kind # "limited"
      BY <1>8, <1>t, <2>2, <2>4 DEF ReadBody, TypeOK, Buffer, AtHeader, PosExact
    <2>5. QED
      BY <2>3, <2>4
  <1>9. CASE Done
    BY <1>9 DEF Done, vars, TypeOK, Buffer, AtHeader, PosExact, at
  <1>10. CASE UNCHANGED vars
    BY <1>10 DEF vars, TypeOK, Buffer, AtHeader, PosExact, at
  <1>11. QED
    BY <1>1, <1>2, <1>3, <1>4, <1>5, <1>6, <1>7, <1>8, <1>9, <1>10 DEF Next

LEMMA InvariantIInv == Spec => []IInv
  BY InitIInv, NextIInv, PTL DEF Spec

\* The variables of a Reader have their types: lr.N is never negative, and the
\* buffer never holds more than its size.
THEOREM TypeCorrect == Spec => []TypeOK
  BY InvariantIInv, PTL DEF IInv

\* r.pos is always the offset of the next header.
THEOREM PosIsExact == Spec => []PosExact
  BY InvariantIInv, PTL DEF IInv

\* The boxes returned have their types, and each Offset is where the header was
\* read: ReadHeader appends a box with the offset pos, which is where the
\* reader is.
LEMMA OutIsTyped == Spec => [](OutOK /\ OffsetExact)
  <1> DEFINE Inv == OutOK /\ OffsetExact
  <1>1. Init => Inv
    BY DEF Init, OutOK, OffsetExact
  <1>2. IInv /\ Inv /\ [Next]_vars => Inv'
    <2> SUFFICES ASSUME IInv, Inv, [Next]_vars PROVE Inv'
      OBVIOUS
    <2>1. CASE ReadHeader
      <3> DEFINE h == Header(Drop(input, at))
                 b == [typ |-> h.typ, size |-> h.size, offset |-> pos,
                       headerSize |-> h.headerSize, start |-> at + h.headerSize]
      <3>1. at \in Nat /\ input \in Seq(Nat) /\ pos \in Nat /\ last.n \in Nat
        BY InputAssumption DEF IInv, TypeOK, Buffer, at
      <3>2. Drop(input, at) \in Seq(Nat) /\ pc = "header" /\ h.err = nil /\ out' = Append(out, b)
        BY <2>1, <3>1, DropSeq DEF ReadHeader
      <3>3. h.typ \in Seq(Nat) /\ h.size \in Nat /\ h.headerSize \in Nat
        BY <3>2, HeaderOK
      <3>4. at < Len(input)
        BY <3>1, <3>2, HeaderAtEnd
      <3>5. pos = at
        BY <3>1, <3>2, <3>4, LenProperties DEF IInv, AtHeader, PosExact
      <3> HIDE DEF h
      <3>6. b \in [typ : Seq(Nat), size : Nat, offset : Nat, headerSize : Nat, start : Nat]
        BY <3>1, <3>3
      <3>7. b.start = b.offset + b.headerSize
        BY <3>5
      <3> HIDE DEF b
      <3>8. /\ out' \in Seq([typ : Seq(Nat), size : Nat, offset : Nat, headerSize : Nat, start : Nat])
            /\ Len(out') = Len(out) + 1
            /\ \A i \in 1..Len(out) : out'[i] = out[i]
            /\ out'[Len(out) + 1] = b
        BY <3>2, <3>6, AppendProperties DEF OutOK
      <3>9. OutOK'
        BY <3>8 DEF OutOK
      <3>10. Len(out) \in Nat
        BY LenProperties DEF OutOK
      <3>11. ASSUME NEW i \in 1..Len(out') PROVE out'[i].start = out'[i].offset + out'[i].headerSize
        <4>1. CASE i = Len(out) + 1
          BY <4>1, <3>7, <3>8
        <4>2. CASE i \in 1..Len(out)
          BY <4>2, <3>8 DEF OffsetExact
        <4>3. QED
          BY <3>8, <3>10, <4>1, <4>2
      <3>12. QED
        BY <3>9, <3>11 DEF OffsetExact
    <2>2. CASE ~ReadHeader
      <3>1. UNCHANGED out
        BY <2>2 DEF Next, vars, NoMoreBoxes, FirstBox, SkipSeek, SkipCopy, ReadFails, HeaderFails,
                    ReadBody, Done
      <3>2. QED
        BY <3>1 DEF OutOK, OffsetExact
    <2>3. QED
      BY <2>1, <2>2
  <1>3. QED
    BY <1>1, <1>2, InvariantIInv, PTL DEF Spec

\* The Offset of every box that ReadBox returns is where its header was read.
THEOREM OffsetIsExact == Spec => []OffsetExact
  BY OutIsTyped, PTL

-----------------------------------------------------------------------------
(* ReadBox returns those boxes.                                            *)

\* The header at an offset beyond the end of the input is that at its end.
LEMMA DropBeyond ==
  ASSUME NEW s \in Seq(Nat), NEW k \in Nat, k >= Len(s)
  PROVE  Drop(s, k) = Drop(s, Len(s))
<1>1. Len(s) \in Nat
  BY LenProperties
<1>2. SubSeq(s, k + 1, Len(s)) = <<>> /\ SubSeq(s, Len(s) + 1, Len(s)) = <<>>
  BY <1>1, SubSeqEmpty
<1> QED
  BY <1>2 DEF Drop

\* The boxes still to be listed, when the first n are.
ListedUpTo(all, n, rest) ==
  /\ Len(all) = n + Len(rest)
  /\ \A j \in 1..Len(rest) : all[n + j] = rest[j]

\* The first of them is listed next.
LEMMA ListedNext ==
  ASSUME NEW V, NEW all \in Seq(V), NEW rest \in Seq(V), NEW b \in V, NEW n \in Nat,
         ListedUpTo(all, n, <<b>> \o rest)
  PROVE  n + 1 \in 1..Len(all) /\ all[n + 1] = b /\ ListedUpTo(all, n + 1, rest)
<1>1. /\ Len(<<b>> \o rest) = 1 + Len(rest) /\ (<<b>> \o rest)[1] = b
      /\ \A j \in 1..Len(rest) : (<<b>> \o rest)[j + 1] = rest[j]
  OBVIOUS
<1>2. PICK r : r = <<b>> \o rest
  OBVIOUS
<1>3. Len(all) \in Nat /\ Len(rest) \in Nat
  BY LenProperties
<1>4. /\ Len(all) = n + (1 + Len(rest)) /\ \A j \in 1..(1 + Len(rest)) : all[n + j] = r[j]
      /\ r[1] = b /\ \A j \in 1..Len(rest) : r[j + 1] = rest[j]
  BY <1>1, <1>2 DEF ListedUpTo
<1> HIDE <1>2
<1>5. n + 1 \in 1..Len(all) /\ all[n + 1] = b
  BY <1>3, <1>4
<1>6. ASSUME NEW j \in 1..Len(rest) PROVE all[(n + 1) + j] = rest[j]
  <2>1. j + 1 \in 1..(1 + Len(rest)) /\ n + (j + 1) = (n + 1) + j
    BY <1>3
  <2> QED
    BY <1>4, <2>1
<1> QED
  BY <1>3, <1>4, <1>5, <1>6 DEF ListedUpTo

\* The boxes that are returned are the first ones of the input, and the others
\* are those from pos on, or none after a box that extends to the end.
ReturnsInOrder ==
  LET all == Boxes(input)
      rest == BoxesFrom(input)[Least(pos, Len(input))]
  IN /\ Len(out) \in Nat
     /\ \A i \in 1..Len(out) : i \in 1..Len(all.boxes) /\ Listed(i) = WithoutBody(all.boxes[i])
     /\ pc # "done" /\ ~noMore => ListedUpTo(all.boxes, Len(out), rest.boxes) /\ all.err = rest.err
     /\ pc # "done" /\ noMore => Len(out) = Len(all.boxes) /\ all.err = nil
     /\ pc = "done" /\ ret # "read error" =>
          Len(out) = Len(all.boxes) /\ ret = (IF all.err = nil THEN "EOF" ELSE all.err)

\* ReadHeader returns the first of the boxes still to be listed.
LEMMA ReadHeaderInOrder ==
  ASSUME IInv, OutOK, ReturnsInOrder, ReadHeader
  PROVE  ReturnsInOrder'
<1>1. PICK s \in Seq(Nat) : s = input
  BY DEF IInv, TypeOK
<1>2. PICK p \in Nat : p = at
  BY InputAssumption DEF IInv, TypeOK, Buffer, at
<1>3. PICK h : h = Header(Drop(s, p))
  OBVIOUS
<1>4. /\ pc = "header" /\ h.err = nil /\ noMore' = h.toEnd
      /\ pos' = (IF h.toEnd THEN pos ELSE pos + h.size)
      /\ out' = Append(out, [typ |-> h.typ, size |-> h.size, offset |-> pos,
                             headerSize |-> h.headerSize, start |-> at + h.headerSize])
      /\ pc' = "client" /\ input' = s
  BY <1>1, <1>2, <1>3 DEF ReadHeader
<1>5. Len(s) \in Nat /\ p < Len(s) /\ p \in 0..Len(s)
  BY <1>3, <1>4, HeaderAtEnd, LenProperties
<1>6. pos = p /\ ~noMore
  BY <1>1, <1>2, <1>4, <1>5 DEF IInv, TypeOK, AtHeader, PosExact
<1>7. Least(pos, Len(s)) = p
  BY <1>5, <1>6 DEF Least
<1>8. Drop(s, p) \in Seq(Nat)
  BY DropSeq
<1>9. h.toEnd \in BOOLEAN /\ h.size \in Nat /\ h.headerSize \in Nat /\ h.typ \in Seq(Nat)
  <2>1. h.toEnd \in BOOLEAN
    BY <1>3, <1>4, <1>8, HeaderOK, Zenon
  <2>2. h.size \in Nat /\ h.headerSize \in {8, 16} /\ h.typ \in Seq(Nat)
    BY <1>3, <1>4, <1>8, HeaderOK, Zenon
  <2> QED
    BY <2>1, <2>2
<1>10. PICK V, F : /\ F = BoxesFrom(s) /\ BoxAt(s, h, p) \in V
                   /\ \A q \in 0..Len(s) : F[q].boxes \in Seq(V)
  <2> DEFINE V == {BoxAt(s, Header(Drop(s, q)), q) : q \in 0..Len(s)}
  <2>1. BoxAt(s, h, p) \in V
    BY <1>3, <1>5
  <2>2. \A q \in 0..Len(s) : BoxesFrom(s)[q].boxes \in Seq(V)
    BY BoxesFromLists DEF BoxLists
  <2> QED
    BY <2>1, <2>2
<1>11. PICK n \in Nat, all \in Seq(V) : n = Len(out) /\ all = F[0].boxes
  <2>1. F[0].boxes \in Seq(V)
    BY <1>5, <1>10
  <2>2. Len(out) \in Nat
    BY Zenon DEF ReturnsInOrder
  <2> QED
    BY <2>1, <2>2, Zenon
<1>12. /\ Boxes(input).boxes = all /\ Boxes(input)' = Boxes(input)
       /\ Boxes(input).err = F[0].err
  BY <1>1, <1>4, <1>10, <1>11 DEF Boxes
<1>13. ListedUpTo(all, n, F[p].boxes) /\ F[0].err = F[p].err
  BY <1>1, <1>4, <1>6, <1>7, <1>10, <1>11, <1>12 DEF ReturnsInOrder
<1>14. /\ Len(out') = n + 1
       /\ \A i \in 1..n : out'[i] = out[i]
       /\ out'[n + 1] = [typ |-> h.typ, size |-> h.size, offset |-> p,
                         headerSize |-> h.headerSize, start |-> at + h.headerSize]
  BY <1>4, <1>6, <1>11 DEF OutOK
<1>15. ASSUME n + 1 \in 1..Len(all), all[n + 1] = BoxAt(s, h, p)
       PROVE  \A i \in 1..Len(out') : /\ i \in 1..Len(Boxes(input)'.boxes)
                                      /\ Listed(i)' = WithoutBody(Boxes(input)'.boxes[i])
  <2> SUFFICES ASSUME NEW i \in 1..(n + 1)
               PROVE  i \in 1..Len(all) /\ Listed(i)' = WithoutBody(all[i])
    BY <1>12, <1>14
  <2>1. CASE i = n + 1
    BY <1>14, <1>15, <2>1 DEF Listed, WithoutBody, BoxAt
  <2>2. CASE i \in 1..n
    BY <1>11, <1>12, <1>14, <2>2 DEF Listed, ReturnsInOrder
  <2> QED
    BY <2>1, <2>2
<1>16. CASE h.toEnd
  <2>1. F[p].err = nil /\ F[p].boxes = <<BoxAt(s, h, p)>>
    BY <1>3, <1>4, <1>5, <1>10, <1>16, BoxesFromCases
  <2>2. <<BoxAt(s, h, p)>> = <<BoxAt(s, h, p)>> \o <<>> /\ <<>> \in Seq(V) /\ Len(<<>>) = 0
    BY <1>10
  <2>3. /\ n + 1 \in 1..Len(all) /\ all[n + 1] = BoxAt(s, h, p)
        /\ ListedUpTo(all, n + 1, <<>>)
    <3>1. ListedUpTo(all, n, <<BoxAt(s, h, p)>> \o <<>>)
      BY <1>13, <2>1, <2>2, Zenon
    <3> QED
      BY <1>10, <2>2, <3>1, ListedNext, Zenon
  <2>4. Len(all) = n + 1
    BY <2>2, <2>3 DEF ListedUpTo
  <2> QED
    BY <1>4, <1>12, <1>13, <1>14, <1>15, <1>16, <2>1, <2>3, <2>4 DEF ReturnsInOrder
<1>17. CASE ~h.toEnd
  <2>1. PICK q \in 0..Len(s) : q = BoxEnd(s, h, p)
    BY <1>3, <1>4, <1>5, <1>17, BoxesFromCases
  <2>2. F[p].err = F[q].err /\ F[p].boxes = <<BoxAt(s, h, p)>> \o F[q].boxes
    <3>1. /\ BoxesFrom(s)[p].err = BoxesFrom(s)[BoxEnd(s, h, p)].err
          /\ BoxesFrom(s)[p].boxes = <<BoxAt(s, h, p)>> \o BoxesFrom(s)[BoxEnd(s, h, p)].boxes
      BY <1>3, <1>4, <1>5, <1>17, BoxesFromCases
    <3> QED
      BY <1>10, <2>1, <3>1, Zenon
  <2>3. /\ n + 1 \in 1..Len(all) /\ all[n + 1] = BoxAt(s, h, p)
        /\ ListedUpTo(all, n + 1, F[q].boxes)
    BY <1>10, <1>13, <2>2, ListedNext
  <2>4. Least(pos', Len(s)) = q
    BY <1>4, <1>5, <1>6, <1>9, <1>17, <2>1 DEF Least, BoxEnd
  <2>5. BoxesFrom(input)'[Least(pos', Len(input'))] = F[q]
    BY <1>4, <1>10, <2>4
  <2> QED
    BY <1>4, <1>9, <1>12, <1>13, <1>14, <1>15, <1>17, <2>2, <2>3, <2>5 DEF ReturnsInOrder
<1> QED
  BY <1>9, <1>16, <1>17

\* HeaderFails finds no box where none is listed any more.
LEMMA HeaderFailsInOrder ==
  ASSUME IInv, OutOK, ReturnsInOrder, HeaderFails
  PROVE  ReturnsInOrder'
<1>1. PICK s \in Seq(Nat) : s = input
  BY DEF IInv, TypeOK
<1>2. PICK a \in Nat : a = at
  BY InputAssumption DEF IInv, TypeOK, Buffer, at
<1>3. PICK h : h = Header(Drop(s, a))
  OBVIOUS
<1>4. /\ pc = "header" /\ h.err # nil /\ ret' = h.err /\ pc' = "done"
      /\ UNCHANGED <<input, pos, noMore, out>>
  BY <1>1, <1>2, <1>3 DEF HeaderFails
<1>5. Len(s) \in Nat /\ pos \in Nat /\ last.n \in Nat
  BY LenProperties DEF IInv, TypeOK
<1>6. ~noMore /\ (last.n = 0 \/ a >= Len(s)) /\ pos = a + last.n
  BY <1>1, <1>2, <1>4 DEF IInv, AtHeader, PosExact
<1>7. PICK q \in 0..Len(s) : q = Least(pos, Len(s))
  BY <1>5 DEF Least
<1>8. h = Header(Drop(s, q))
  <2>1. CASE a < Len(s)
    BY <1>3, <1>5, <1>6, <1>7, <2>1 DEF Least
  <2>2. CASE a >= Len(s)
    <3>1. q = Len(s)
      BY <1>5, <1>6, <1>7, <2>2 DEF Least
    <3> QED
      BY <1>3, <2>2, <3>1, DropBeyond
  <2> QED
    BY <1>5, <2>1, <2>2
<1>9. PICK F : F = BoxesFrom(s)
  OBVIOUS
<1>10. /\ F[q].boxes = <<>>
       /\ F[q].err = (IF h.err = "EOF" THEN nil ELSE h.err)
  <2>1. /\ h.err = "EOF" => BoxesFrom(s)[q].err = nil /\ BoxesFrom(s)[q].boxes = <<>>
        /\ h.err # "EOF" /\ h.err # nil =>
             BoxesFrom(s)[q].err = h.err /\ BoxesFrom(s)[q].boxes = <<>>
    BY <1>8, BoxesFromCases, ZenonT(60)
  <2> QED
    BY <1>4, <1>9, <2>1, Zenon
<1>11. /\ ListedUpTo(Boxes(input).boxes, Len(out), F[q].boxes) /\ Boxes(input).err = F[q].err
       /\ Len(out) \in Nat
  BY <1>1, <1>4, <1>6, <1>7, <1>9 DEF ReturnsInOrder
<1>12. Len(F[q].boxes) = 0
  BY <1>10
<1>13. Len(out) = Len(Boxes(input).boxes)
  BY <1>11, <1>12 DEF ListedUpTo
<1>14. ret' = (IF Boxes(input).err = nil THEN "EOF" ELSE Boxes(input).err)
  BY <1>4, <1>10, <1>11
<1>15. \A i \in 1..Len(out) :
         i \in 1..Len(Boxes(input).boxes) /\ Listed(i)' = WithoutBody(Boxes(input).boxes[i])
  BY <1>4 DEF ReturnsInOrder, Listed
<1> QED
  BY <1>4, <1>11, <1>13, <1>14, <1>15 DEF ReturnsInOrder

\* The other steps return no box.
LEMMA OthersInOrder ==
  ASSUME IInv, ReturnsInOrder, UNCHANGED <<input, pos, noMore, out>>,
         pc' = "done" => \/ pc = "done" /\ ret' = ret
                         \/ ret' = "read error"
                         \/ noMore /\ pc # "done" /\ ret' = "EOF",
         pc = "done" => pc' = "done"
  PROVE  ReturnsInOrder'
<1>1. /\ Boxes(input)' = Boxes(input) /\ BoxesFrom(input)' = BoxesFrom(input)
      /\ Least(pos, Len(input))' = Least(pos, Len(input))
      /\ Len(out)' = Len(out)
  BY DEF Boxes, Least
<1>2. \A i : Listed(i)' = Listed(i)
  BY DEF Listed
<1>3. noMore' = noMore
  OBVIOUS
<1>4. CASE pc' # "done"
  <2>1. pc # "done"
    BY <1>4
  <2>2. BoxesFrom(input)'[Least(pos, Len(input))'] = BoxesFrom(input)[Least(pos, Len(input))]
    BY <1>1, Zenon
  <2>3. /\ ~noMore => /\ ListedUpTo(Boxes(input).boxes, Len(out),
                                  BoxesFrom(input)[Least(pos, Len(input))].boxes)
                     /\ Boxes(input).err = BoxesFrom(input)[Least(pos, Len(input))].err
        /\ noMore => Len(out) = Len(Boxes(input).boxes) /\ Boxes(input).err = nil
    BY <2>1, Zenon DEF ReturnsInOrder
  <2>4. /\ ~noMore' => /\ ListedUpTo(Boxes(input)'.boxes, Len(out)',
                                   BoxesFrom(input)'[Least(pos, Len(input))'].boxes)
                      /\ Boxes(input)'.err = BoxesFrom(input)'[Least(pos, Len(input))'].err
        /\ noMore' => Len(out)' = Len(Boxes(input)'.boxes) /\ Boxes(input)'.err = nil
    <3>1. CASE noMore
      BY <1>1, <1>3, <2>3, <3>1, Zenon
    <3>2. CASE ~noMore
      <4>0. noMore = FALSE
        <5>1. \A x \in BOOLEAN : ~x => x = FALSE
          BY Zenon
        <5> QED
          BY <3>2, <5>1, Zenon DEF IInv, TypeOK
      <4>1. ~noMore'
        <5>1. noMore' = FALSE
          BY <1>3, <4>0, Zenon
        <5> QED
          BY <5>1, Zenon
      <4>2. /\ ListedUpTo(Boxes(input)'.boxes, Len(out)',
                          BoxesFrom(input)'[Least(pos, Len(input))'].boxes)
            /\ Boxes(input)'.err = BoxesFrom(input)'[Least(pos, Len(input))'].err
        BY <1>1, <2>2, <2>3, <3>2, Zenon
      <4> QED
        BY <4>1, <4>2, Zenon
    <3> QED
      BY <3>1, <3>2, Zenon
  <2>5. /\ Len(out)' \in Nat
        /\ \A i \in 1..Len(out)' : /\ i \in 1..Len(Boxes(input)'.boxes)
                                  /\ Listed(i)' = WithoutBody(Boxes(input)'.boxes[i])
    BY <1>1, <1>2, Zenon DEF ReturnsInOrder
  <2> QED
    BY <1>4, <2>4, <2>5, Zenon DEF ReturnsInOrder
<1>5. CASE pc' = "done"
  <2>1. ret' # "read error" =>
          /\ Len(out) = Len(Boxes(input).boxes)
          /\ ret' = (IF Boxes(input).err = nil THEN "EOF" ELSE Boxes(input).err)
    <3>1. CASE pc = "done" /\ ret' = ret
      BY <3>1, Zenon DEF ReturnsInOrder
    <3>2. CASE ret' = "read error"
      BY <3>2
    <3>3. CASE noMore /\ pc # "done" /\ ret' = "EOF"
      BY <3>3, Zenon DEF ReturnsInOrder
    <3> QED
      BY <1>5, <3>1, <3>2, <3>3
  <2> QED
    BY <1>1, <1>2, <1>5, <2>1, Zenon DEF ReturnsInOrder
<1> QED
  BY <1>4, <1>5

\* For every input, every way the client reads, and every seeker: ReadBox
\* returns the boxes that the input is made of, in order, and then io.EOF or
\* the first error in their headers.
THEOREM BoxesExactHolds == Spec => []BoxesExact
<1>1. Init => ReturnsInOrder
  <2> SUFFICES ASSUME Init PROVE ReturnsInOrder
    OBVIOUS
  <2>1. input \in Seq(Nat) /\ Len(input) \in Nat
    BY InputAssumption, LenProperties DEF Init
  <2>2. Least(pos, Len(input)) = 0
    BY <2>1 DEF Init, Least
  <2>3. Boxes(input) = BoxesFrom(input)[0] /\ Len(out) = 0 /\ pc = "client" /\ noMore = FALSE
    BY DEF Init, Boxes
  <2>4. Len(BoxesFrom(input)[0].boxes) \in Nat
    BY <2>1, BoxesFromLists, LenProperties DEF BoxLists
  <2>5. PICK l \in Nat : l = Len(BoxesFrom(input)[0].boxes)
    BY <2>4
  <2>6. \A j \in 1..l : 0 + j = j
    OBVIOUS
  <2>7. ListedUpTo(BoxesFrom(input)[0].boxes, 0, BoxesFrom(input)[0].boxes)
    BY <2>5, <2>6 DEF ListedUpTo
  <2> QED
    BY <2>2, <2>3, <2>7 DEF ReturnsInOrder
<1>2. IInv /\ OutOK /\ ReturnsInOrder /\ [Next]_vars => ReturnsInOrder'
  <2> SUFFICES ASSUME IInv, OutOK, ReturnsInOrder, [Next]_vars PROVE ReturnsInOrder'
    OBVIOUS
  <2>1. CASE ReadHeader
    BY <2>1, ReadHeaderInOrder
  <2>2. CASE HeaderFails
    BY <2>2, HeaderFailsInOrder
  <2>3. CASE ~ReadHeader /\ ~HeaderFails
    <3>1. /\ UNCHANGED <<input, pos, noMore, out>>
          /\ pc = "done" => pc' = "done"
          /\ pc' = "done" => \/ pc = "done" /\ ret' = ret
                             \/ ret' = "read error"
                             \/ noMore /\ pc # "done" /\ ret' = "EOF"
      BY <2>3 DEF Next, vars, NoMoreBoxes, FirstBox, SkipSeek, SkipCopy, ReadFails, ReadBody, Done
    <3> QED
      BY <3>1, OthersInOrder
  <2> QED
    BY <2>1, <2>2, <2>3
<1>3. IInv /\ ReturnsInOrder => BoxesExact
  <2> SUFFICES ASSUME IInv, ReturnsInOrder PROVE BoxesExact
    OBVIOUS
  <2>0. PICK l \in Nat : l = Len(Boxes(input).boxes)
    <3>1. input \in Seq(Nat) /\ 0 \in 0..Len(input)
      BY LenProperties DEF IInv, TypeOK
    <3> QED
      BY <3>1, BoxesFromLists, LenProperties DEF BoxLists, Boxes
  <2>1. PICK n \in Nat : n = Len(out)
    BY DEF ReturnsInOrder
  <2>2. n = 0 \/ n \in 1..n
    OBVIOUS
  <2>3. Len(out) <= Len(Boxes(input).boxes)
    <3>1. n \in 1..n => n \in 1..l
      BY <2>0, <2>1, Zenon DEF ReturnsInOrder
    <3>2. n <= l
      BY <2>2, <3>1
    <3> QED
      BY <2>0, <2>1, <3>2
  <2> QED
    BY <2>3, Zenon DEF ReturnsInOrder, BoxesExact
<1> QED
  BY <1>1, <1>2, <1>3, InvariantIInv, OutIsTyped, PTL DEF Spec
=============================================================================
