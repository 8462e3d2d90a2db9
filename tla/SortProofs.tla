----------------------------- MODULE SortProofs -----------------------------
(***************************************************************************)
(* Proofs about package sort. doPivot, for every length and every content  *)
(* of data: the indices, whatever Less answers, and the partition, when    *)
(* Less is the order of the elements. quickSort: the slices it works on    *)
(* and the depth of its stack, whatever Less answers. Search, for every    *)
(* width of int, every n and every f.                                      *)
(***************************************************************************)
EXTENDS Sort, FiniteSetTheorems, TLAPS

USE NAssumption, ValAssumption, LimitsAssumption DEF LessOK

\* TypeOK without data, which only doPivot's own steps are known to keep.
IndexType ==
  /\ order \in {"strict", "any"}
  /\ lo \in 0..N /\ hi \in 0..N /\ hi - lo > Small
  /\ a \in 0..N /\ b \in 0..N /\ c \in 0..N
  /\ dups \in 0..3
  /\ pc \in Locations
  /\ midlo \in 0..N /\ midhi \in 0..N

\* Where a, b and c are.
Bounds ==
  /\ pc = "scanA" => lo < a /\ a <= c /\ c = hi - 1
  /\ pc \in {"scanB", "scanC"} => lo < a /\ a <= b /\ a <= c /\ b <= c + 1 /\ c < hi
  /\ pc \in {"check", "dup1"} => lo < a /\ a <= b /\ c <= b /\ b <= c + 1 /\ lo < c /\ c < hi
  /\ pc \in {"dup1", "dup2"} => 4 * (hi - b) < hi - lo
  /\ pc = "dup1" => hi - lo >= 8
  /\ pc \in {"dup2", "dup3"} =>
       lo < a /\ b <= c + 1 /\ b <= hi /\ lo < c /\ c <= hi /\ hi - lo >= 8
  /\ pc = "dup3" => 4 * (hi - b - 1) < hi - lo
  /\ pc \in {"eqB", "eqA", "final"} =>
       lo < a /\ lo < b /\ b <= c + 1 /\ b <= hi /\ lo < c /\ c <= hi
  /\ pc = "dup1" => dups = 0
  /\ pc = "dup2" => dups <= 1
  /\ pc = "dup3" => dups <= 2
  /\ pc \in {"choose", "check"} \cup Scanning => dups = 0

\* What is known of the elements: before a, from a to b, from b to c, from c.
Below == \A i \in (lo + 1)..(a - 1) : data[i] < data[lo]
NotAbove == \A i \in a..(b - 1) : data[i] <= data[lo]
Equal == \A i \in b..(c - 1) : data[i] = data[lo]
NotBelow == \A i \in c..(hi - 1) : data[i] >= data[lo]

Elements ==
  /\ pc = "scanA" => Below /\ NotBelow
  /\ pc \in {"scanB", "scanC"} => Below /\ NotAbove /\ NotBelow /\ b <= c
  /\ pc = "scanC" /\ b < c => data[lo] < data[b]
  /\ pc \in {"check", "dup1", "dup2", "dup3", "eqB", "eqA", "final"} =>
       Below /\ NotAbove /\ Equal /\ NotBelow /\ a <= b /\ b <= c
  /\ pc = "eqA" /\ a < b => data[b - 1] < data[lo]

IndexInv == IndexType /\ Bounds /\ PartsSmaller

Inv == TypeOK /\ Bounds /\ PartsSmaller /\ (LessOK => Elements /\ Partitioned)

-----------------------------------------------------------------------------
\* TypeOK is IndexType and the type of data.
LEMMA TypeParts == TypeOK <=> IndexType /\ data \in [Index -> Val]
  BY DEF TypeOK, IndexType

\* Swap exchanges two elements of data.
LEMMA SwappedType ==
  ASSUME NEW d \in [Index -> Val], NEW i \in Index, NEW j \in Index
  PROVE  /\ Swapped(d, i, j) \in [Index -> Val]
         /\ Swapped(d, i, j)[i] = d[j]
         /\ Swapped(d, i, j)[j] = d[i]
         /\ \A k \in Index \ {i, j} : Swapped(d, i, j)[k] = d[k]
  BY DEF Swapped, Index

\* medianOfThree sorts its three elements, which are different ones.
LEMMA MedianSorts ==
  ASSUME NEW d \in [Index -> Val],
         NEW m1 \in Index, NEW m0 \in Index, NEW m2 \in Index,
         m1 # m0, m1 # m2, m0 # m2
  PROVE  LET e == medianOfThree(d, m1, m0, m2)
         IN  e \in [Index -> Val] /\ e[m0] <= e[m1] /\ e[m1] <= e[m2]
<1> DEFINE d1 == IF d[m1] < d[m0] THEN Swapped(d, m1, m0) ELSE d
           d2 == Swapped(d1, m2, m1)
           d3 == Swapped(d2, m1, m0)
<1>0. \A e \in [Index -> Val] : \A i \in Index : e[i] \in Int
  OBVIOUS
<1>1. d1 \in [Index -> Val] /\ d1[m0] <= d1[m1]
  <2>1. CASE d[m1] < d[m0]
    BY <1>0, <2>1, SwappedType
  <2>2. CASE ~(d[m1] < d[m0])
    BY <1>0, <2>2
  <2> QED
    BY <2>1, <2>2
<1> HIDE DEF d1
<1>2. d2 \in [Index -> Val] /\ d2[m2] = d1[m1] /\ d2[m1] = d1[m2] /\ d2[m0] = d1[m0]
  BY <1>1, SwappedType
<1>3. d3 \in [Index -> Val] /\ d3[m1] = d2[m0] /\ d3[m0] = d2[m1] /\ d3[m2] = d2[m2]
  BY <1>2, SwappedType
<1>4. medianOfThree(d, m1, m0, m2) =
        IF d1[m2] < d1[m1] THEN IF d2[m1] < d2[m0] THEN d3 ELSE d2 ELSE d1
  BY DEF medianOfThree, d1
<1> HIDE DEF d2, d3
<1>5. CASE ~(d1[m2] < d1[m1])
  BY <1>0, <1>1, <1>4, <1>5
<1>6. CASE d1[m2] < d1[m1] /\ ~(d2[m1] < d2[m0])
  BY <1>0, <1>1, <1>2, <1>4, <1>6
<1>7. CASE d1[m2] < d1[m1] /\ d2[m1] < d2[m0]
  BY <1>0, <1>1, <1>2, <1>3, <1>4, <1>7
<1> QED
  BY <1>5, <1>6, <1>7

\* medianOfThree only moves elements, also when two of the three are the same.
LEMMA MedianType ==
  ASSUME NEW d \in [Index -> Val],
         NEW m1 \in Index, NEW m0 \in Index, NEW m2 \in Index
  PROVE  medianOfThree(d, m1, m0, m2) \in [Index -> Val]
  BY SwappedType DEF medianOfThree

\* The middle of data[lo:hi] lies strictly inside it.
LEMMA Middle ==
  ASSUME IndexType
  PROVE  /\ m \in Index /\ lo \in Index /\ hi - 1 \in Index
         /\ lo < m /\ m < hi - 1
         /\ 2 * (m - lo) <= hi - lo
  BY DEF IndexType, m, Index

\* The places of the ninther are in data.
LEMMA NintherType ==
  ASSUME TypeOK, hi - lo > Large
  PROVE  \A d \in ninther(data) : d \in [Index -> Val]
<1> DEFINE s == (hi - lo) \div 8
<1>1. /\ lo + s \in Index /\ lo + 2 * s \in Index
      /\ m - s \in Index /\ m + s \in Index
      /\ hi - 1 - s \in Index /\ hi - 1 - 2 * s \in Index
  BY DEF TypeOK, m, Index
<1>2. /\ lo \in Index /\ m \in Index /\ hi - 1 \in Index
      /\ data \in [Index -> Val]
  BY Middle, TypeParts DEF TypeOK
<1>3. medianOfThree(data, lo, lo + s, lo + 2 * s) \in [Index -> Val]
  BY <1>1, <1>2, MedianType
<1>4. \A d1 \in [Index -> Val] : medianOfThree(d1, m, m - s, m + s) \in [Index -> Val]
  BY <1>1, <1>2, MedianType
<1>5. \A d2 \in [Index -> Val] :
        medianOfThree(d2, hi - 1, hi - 1 - s, hi - 1 - 2 * s) \in [Index -> Val]
  BY <1>1, <1>2, MedianType
<1> QED
  BY <1>3, <1>4, <1>5, Zenon DEF ninther

-----------------------------------------------------------------------------
\* The initial states satisfy the invariant.
LEMMA InitInv == Init => Inv
  BY DEF Init, Inv, TypeOK, Bounds, PartsSmaller, Elements, Partitioned, Locations, Scanning

\* The choice of the pivot puts an element that is not smaller at hi - 1.
LEMMA ChooseInv == Inv /\ ChoosePivot => Inv'
<1> SUFFICES ASSUME Inv, ChoosePivot PROVE Inv'
  OBVIOUS
<1> USE DEF Inv, Goto
<1>1. /\ m \in Index /\ lo \in Index /\ hi - 1 \in Index /\ lo < m /\ m < hi - 1
      /\ data \in [Index -> Val]
  BY Middle, TypeParts DEF TypeOK
<1>2. data' \in [Index -> Val] /\ (LessOK => data'[lo] <= data'[hi - 1])
  <2>1. CASE ~LessOK
    BY <1>1, <2>1 DEF ChoosePivot
  <2>2. CASE LessOK
    <3>1. PICK d \in IF hi - lo > Large THEN ninther(data) ELSE {data} :
            data' = medianOfThree(d, lo, m, hi - 1)
      BY <2>2 DEF ChoosePivot
    <3>2. d \in [Index -> Val]
      BY <1>1, <3>1, NintherType
    <3>3. lo # m /\ lo # hi - 1 /\ m # hi - 1
      BY <1>1 DEF Index
    <3> QED
      BY <1>1, <3>1, <3>2, <3>3, MedianSorts
  <2> QED
    BY <2>1, <2>2
<1>3. TypeOK'
  BY <1>2 DEF TypeOK, ChoosePivot, Locations, Scanning
<1>4. Bounds' /\ PartsSmaller'
  BY DEF TypeOK, Bounds, PartsSmaller, ChoosePivot, Scanning
<1>5. (LessOK => Elements /\ Partitioned)'
  BY <1>2 DEF TypeOK, Elements, Partitioned, Below, NotBelow, ChoosePivot
<1> QED
  BY <1>3, <1>4, <1>5

\* The scans: a moves over smaller elements, b over ones that are not larger,
\* c over larger ones.
LEMMA ScanInv == Inv /\ (ScanA \/ ScanB \/ ScanC) => Inv'
<1> SUFFICES ASSUME Inv, ScanA \/ ScanB \/ ScanC PROVE Inv'
  OBVIOUS
<1> USE DEF Inv, Goto
<1>0. lo \in Index /\ \A i \in Index : data[i] \in Int
  BY Middle, TypeParts DEF TypeOK
<1>1. CASE ScanA
  <2>1. TypeOK'
    BY <1>1 DEF ScanA, Less, TypeOK, Bounds, Locations, Scanning
  <2>2. Bounds' /\ PartsSmaller'
    BY <1>1 DEF ScanA, Less, TypeOK, Bounds, PartsSmaller, Scanning
  <2>3. (LessOK => Elements /\ Partitioned)'
    <3> SUFFICES ASSUME LessOK PROVE Elements' /\ Partitioned'
      BY <1>1 DEF ScanA
    <3> QED
      BY <1>0, <1>1, SMTT(60) DEF ScanA, Less, TypeOK, Bounds, Elements, Partitioned, Below,
         NotAbove, NotBelow, Index
  <2> QED
    BY <2>1, <2>2, <2>3
<1>2. CASE ScanB
  <2>1. TypeOK'
    BY <1>2 DEF ScanB, Less, TypeOK, Bounds, Locations, Scanning
  <2>2. Bounds' /\ PartsSmaller'
    BY <1>2 DEF ScanB, Less, TypeOK, Bounds, PartsSmaller, Scanning
  <2>3. (LessOK => Elements /\ Partitioned)'
    BY <1>0, <1>2 DEF ScanB, Less, TypeOK, Bounds, Elements, Partitioned, Below,
       NotAbove, NotBelow, Index
  <2> QED
    BY <2>1, <2>2, <2>3
<1>3. CASE /\ pc = "scanC"
           /\ \/ b < c /\ Less(lo, c - 1, TRUE) /\ c' = c - 1 /\ UNCHANGED <<b, pc>>
              \/ b >= c /\ pc' = "check" /\ UNCHANGED <<b, c>>
           /\ UNCHANGED <<order, data, lo, hi, a, dups, midlo, midhi>>
  <2>1. TypeOK'
    BY <1>3 DEF Less, TypeOK, Bounds, Locations, Scanning
  <2>2. Bounds' /\ PartsSmaller'
    BY <1>3 DEF Less, TypeOK, Bounds, PartsSmaller, Scanning
  <2>3. (LessOK => Elements /\ Partitioned)'
    <3> SUFFICES ASSUME LessOK PROVE Elements' /\ Partitioned'
      BY <1>3
    <3>1. CASE b < c /\ Less(lo, c - 1, TRUE) /\ c' = c - 1 /\ UNCHANGED <<b, pc>>
      BY <1>0, <1>3, <3>1 DEF Less, TypeOK, Bounds, Elements, Partitioned, Below,
         NotAbove, NotBelow, Index
    <3>2. CASE b >= c /\ pc' = "check" /\ UNCHANGED <<b, c>>
      BY <1>0, <1>3, <3>2 DEF TypeOK, Bounds, Elements, Partitioned, Below,
         NotAbove, Equal, NotBelow, Index
    <3> QED
      BY <1>3, <3>1, <3>2
  <2> QED
    BY <2>1, <2>2, <2>3
<1>4. CASE /\ pc = "scanC" /\ b < c /\ Less(lo, c - 1, FALSE)
           /\ Swap(b, c - 1) /\ b' = b + 1 /\ c' = c - 1 /\ pc' = "scanB"
           /\ UNCHANGED <<order, lo, hi, a, dups, midlo, midhi>>
  <2>1. b \in Index /\ c - 1 \in Index /\ lo < b
    BY <1>4 DEF TypeOK, Bounds, Index
  <2>2. data' \in [Index -> Val]
    BY <1>4, <2>1, SwappedType DEF Swap, TypeOK
  <2>3. TypeOK' /\ Bounds' /\ PartsSmaller'
    BY <1>4, <2>2 DEF TypeOK, Bounds, PartsSmaller, Locations, Scanning
  <2>4. (LessOK => Elements /\ Partitioned)'
    <3> SUFFICES ASSUME LessOK PROVE Elements' /\ Partitioned'
      BY <1>4
    <3>1. data[lo] < data[b] /\ data[c - 1] <= data[lo]
      BY <1>0, <1>4, <2>1 DEF Elements, Less
    <3>2. b # c - 1
      BY <1>0, <2>1, <3>1
    <3>3. /\ data'[b] = data[c - 1] /\ data'[c - 1] = data[b]
          /\ \A k \in Index \ {b, c - 1} : data'[k] = data[k]
      BY <1>4, <2>1, SwappedType DEF Swap, TypeOK
    <3> QED
      BY <1>0, <1>4, <2>1, <3>1, <3>2, <3>3 DEF TypeOK, Bounds, Elements, Partitioned,
         Below, NotAbove, NotBelow, Index
  <2> QED
    BY <2>3, <2>4
<1> QED
  BY <1>1, <1>2, <1>3, <1>4 DEF ScanC

\* The decision about duplicates.
LEMMA CheckInv == Inv /\ Check => Inv'
<1> SUFFICES ASSUME Inv, Check PROVE Inv'
  OBVIOUS
<1> USE DEF Inv, Goto
<1>1. TypeOK'
  BY DEF Check, TypeOK, Locations, Scanning
<1>2. Bounds' /\ PartsSmaller'
  BY DEF Check, TypeOK, Bounds, PartsSmaller, Scanning
<1>3. (LessOK => Elements /\ Partitioned)'
  BY DEF Check, TypeOK, Elements, Partitioned, Below, NotAbove, Equal, NotBelow
<1> QED
  BY <1>1, <1>2, <1>3

\* The look at hi-1, b-1 and m: what equals the pivot goes to the middle.
LEMMA DupInv == Inv /\ (Dup1 \/ Dup2 \/ Dup3) => Inv'
<1> SUFFICES ASSUME Inv, Dup1 \/ Dup2 \/ Dup3 PROVE Inv'
  OBVIOUS
<1> USE DEF Inv, Goto
<1>0. /\ lo \in Index /\ m \in Index /\ hi - 1 \in Index
      /\ lo < m /\ m < hi - 1 /\ 2 * (m - lo) <= hi - lo
      /\ data \in [Index -> Val] /\ \A i \in Index : data[i] \in Int
  BY Middle, TypeParts DEF TypeOK
<1>1. CASE Dup1
  <2>1. c \in Index
    BY <1>1 DEF Dup1, TypeOK, Bounds, Index
  <2>2. data' \in [Index -> Val]
    BY <1>0, <1>1, <2>1, SwappedType DEF Dup1, Less, Swap
  <2>3. TypeOK'
    BY <1>1, <2>2 DEF Dup1, Less, TypeOK, Bounds, Locations, Scanning
  <2>4. Bounds' /\ PartsSmaller'
    BY <1>1 DEF Dup1, Less, TypeOK, Bounds, PartsSmaller, Scanning
  <2>5. (LessOK => Elements /\ Partitioned)'
    <3> SUFFICES ASSUME LessOK PROVE Elements' /\ Partitioned'
      BY <1>1 DEF Dup1
    <3>1. CASE UNCHANGED <<data, c>>
      BY <1>1, <3>1 DEF Dup1, TypeOK, Elements, Partitioned, Below, NotAbove, Equal, NotBelow
    <3>2. CASE Less(lo, hi - 1, FALSE) /\ Swap(c, hi - 1) /\ c' = c + 1
      <4>1. b = c /\ lo < a /\ a <= b /\ c <= hi - 1
        BY <1>1 DEF Dup1, TypeOK, Bounds, Elements
      <4>2. data[hi - 1] = data[lo]
        BY <1>0, <1>1, <3>2, <4>1 DEF Dup1, Less, TypeOK, Elements, NotBelow
      <4>3. /\ data'[c] = data[hi - 1] /\ data'[hi - 1] = data[c]
            /\ \A k \in Index \ {c, hi - 1} : data'[k] = data[k]
        BY <1>0, <2>1, <3>2, SwappedType DEF Swap
      <4> QED
        BY <1>0, <1>1, <2>1, <3>2, <4>1, <4>2, <4>3 DEF Dup1, TypeOK, Elements, Partitioned,
           Below, NotAbove, Equal, NotBelow, Index
    <3> QED
      BY <1>1, <3>1, <3>2 DEF Dup1
  <2> QED
    BY <2>3, <2>4, <2>5
<1>2. CASE Dup2
  <2>1. b - 1 \in Index /\ lo + 1 < b
    BY <1>2 DEF Dup2, TypeOK, Bounds, Index
  <2>3. TypeOK'
    BY <1>2, <2>1 DEF Dup2, Less, TypeOK, Bounds, Locations, Scanning, Index
  <2>4. Bounds' /\ PartsSmaller'
    BY <1>2, <2>1 DEF Dup2, Less, TypeOK, Bounds, PartsSmaller, Scanning
  <2>5. (LessOK => Elements /\ Partitioned)'
    <3> SUFFICES ASSUME LessOK PROVE Elements' /\ Partitioned'
      BY <1>2 DEF Dup2
    <3>1. CASE UNCHANGED b
      BY <1>2, <3>1 DEF Dup2, TypeOK, Elements, Partitioned, Below, NotAbove, Equal, NotBelow
    <3>2. CASE Less(b - 1, lo, FALSE) /\ b' = b - 1
      <4>1. a <= b - 1
        BY <1>0, <1>2, <2>1, <3>2 DEF Dup2, Less, TypeOK, Bounds, Elements, Below, Index
      <4>2. data[b - 1] = data[lo]
        BY <1>0, <1>2, <2>1, <3>2, <4>1 DEF Dup2, Less, TypeOK, Elements, NotAbove
      <4> QED
        BY <1>0, <1>2, <2>1, <3>2, <4>1, <4>2 DEF Dup2, TypeOK, Elements, Partitioned,
           Below, NotAbove, Equal, NotBelow, Index
    <3> QED
      BY <1>2, <3>1, <3>2 DEF Dup2
  <2> QED
    BY <2>3, <2>4, <2>5
<1>3. CASE Dup3
  <2>1. b - 1 \in Index /\ m < b /\ lo + 1 < b
    BY <1>0, <1>3 DEF Dup3, TypeOK, Bounds, Index
  <2>2. data' \in [Index -> Val]
    BY <1>0, <1>3, <2>1, SwappedType DEF Dup3, Less, Swap
  <2>3. TypeOK'
    BY <1>3, <2>1, <2>2 DEF Dup3, Less, TypeOK, Bounds, Locations, Scanning, Index
  <2>4. Bounds' /\ PartsSmaller'
    BY <1>3, <2>1 DEF Dup3, Less, TypeOK, Bounds, PartsSmaller, Scanning
  <2>5. (LessOK => Elements /\ Partitioned)'
    <3> SUFFICES ASSUME LessOK PROVE Elements' /\ Partitioned'
      BY <1>3 DEF Dup3
    <3>1. CASE UNCHANGED <<data, b>>
      BY <1>3, <3>1 DEF Dup3, TypeOK, Elements, Partitioned, Below, NotAbove, Equal, NotBelow
    <3>2. CASE Less(m, lo, FALSE) /\ Swap(m, b - 1) /\ b' = b - 1
      <4>1. a <= m
        BY <1>0, <1>3, <2>1, <3>2 DEF Dup3, Less, TypeOK, Bounds, Elements, Below, Index
      <4>2. data[m] = data[lo]
        BY <1>0, <1>3, <2>1, <3>2, <4>1 DEF Dup3, Less, TypeOK, Elements, NotAbove, Index
      <4>3. data[b - 1] <= data[lo]
        BY <1>0, <1>3, <2>1, <4>1 DEF Dup3, TypeOK, Elements, NotAbove, Index
      <4>4. /\ data'[m] = data[b - 1] /\ data'[b - 1] = data[m]
            /\ \A k \in Index \ {m, b - 1} : data'[k] = data[k]
        BY <1>0, <2>1, <3>2, SwappedType DEF Swap
      <4>5. b <= c /\ c <= hi
        BY <1>3 DEF Dup3, Elements, Bounds
      <4> QED
        BY <1>0, <1>3, <2>1, <3>2, <4>1, <4>2, <4>3, <4>4, <4>5, SMTT(60) DEF Dup3, TypeOK, Elements,
           Partitioned, Below, NotAbove, Equal, NotBelow, Index
    <3> QED
      BY <1>3, <3>1, <3>2 DEF Dup3
  <2> QED
    BY <2>3, <2>4, <2>5
<1> QED
  BY <1>1, <1>2, <1>3

\* The second partition, of the elements that are not larger than the pivot.
LEMMA EqInv == Inv /\ (EqB \/ EqA) => Inv'
<1> SUFFICES ASSUME Inv, EqB \/ EqA PROVE Inv'
  OBVIOUS
<1> USE DEF Inv, Goto
<1>0. /\ lo \in Index
      /\ data \in [Index -> Val] /\ \A i \in Index : data[i] \in Int
  BY Middle, TypeParts DEF TypeOK
<1>1. CASE EqB
  <2>1. TypeOK'
    BY <1>1 DEF EqB, Less, TypeOK, Bounds, Locations, Scanning
  <2>2. Bounds' /\ PartsSmaller'
    BY <1>1 DEF EqB, Less, TypeOK, Bounds, PartsSmaller, Scanning
  <2>3. (LessOK => Elements /\ Partitioned)'
    <3> SUFFICES ASSUME LessOK PROVE Elements' /\ Partitioned'
      BY <1>1 DEF EqB
    <3>1. Below /\ NotAbove /\ Equal /\ NotBelow /\ lo < a /\ a <= b /\ b <= c /\ c <= hi
      BY <1>1 DEF EqB, Elements, Bounds
    <3>2. CASE a < b /\ data[b - 1] >= data[lo] /\ b' = b - 1 /\ UNCHANGED pc
      <4>1. data[b - 1] = data[lo]
        BY <1>0, <3>1, <3>2 DEF TypeOK, NotAbove, Index
      <4>2. Below' /\ NotAbove' /\ Equal' /\ NotBelow'
        BY <1>1, <3>1, <3>2, <4>1 DEF EqB, TypeOK, Below, NotAbove, Equal, NotBelow
      <4> QED
        BY <1>1, <3>1, <3>2, <4>2 DEF EqB, TypeOK, Elements, Partitioned
    <3>3. CASE (a >= b \/ data[b - 1] < data[lo]) /\ pc' = "eqA" /\ UNCHANGED b
      <4>1. Below' /\ NotAbove' /\ Equal' /\ NotBelow'
        BY <1>1, <3>1, <3>3 DEF EqB, TypeOK, Below, NotAbove, Equal, NotBelow
      <4> QED
        BY <1>1, <3>1, <3>3, <4>1 DEF EqB, TypeOK, Elements, Partitioned
    <3> QED
      BY <1>0, <1>1, <3>1, <3>2, <3>3 DEF EqB, Less, TypeOK, Index
  <2> QED
    BY <2>1, <2>2, <2>3
<1>2. CASE /\ pc = "eqA"
           /\ \/ a < b /\ Less(a, lo, TRUE) /\ a' = a + 1 /\ UNCHANGED <<b, pc>>
              \/ a >= b /\ pc' = "final" /\ UNCHANGED <<a, b>>
           /\ UNCHANGED <<order, data, lo, hi, c, dups, midlo, midhi>>
  <2>1. TypeOK'
    BY <1>2 DEF Less, TypeOK, Bounds, Locations, Scanning
  <2>2. Bounds' /\ PartsSmaller'
    BY <1>2 DEF Less, TypeOK, Bounds, PartsSmaller, Scanning
  <2>3. (LessOK => Elements /\ Partitioned)'
    BY <1>0, <1>2, SMTT(60) DEF Less, TypeOK, Bounds, Elements, Partitioned, Below,
       NotAbove, Equal, NotBelow, Index
  <2> QED
    BY <2>1, <2>2, <2>3
<1>3. CASE /\ pc = "eqA" /\ a < b /\ Less(a, lo, FALSE)
           /\ Swap(a, b - 1) /\ a' = a + 1 /\ b' = b - 1 /\ pc' = "eqB"
           /\ UNCHANGED <<order, lo, hi, c, dups, midlo, midhi>>
  <2>1. a \in Index /\ b - 1 \in Index /\ lo < a /\ lo < b - 1 + 1
    BY <1>3 DEF TypeOK, Bounds, Index
  <2>2. data' \in [Index -> Val]
    BY <1>0, <1>3, <2>1, SwappedType DEF Swap
  <2>3. TypeOK'
    BY <1>3, <2>1, <2>2 DEF TypeOK, Bounds, Locations, Scanning, Index
  <2>4. Bounds' /\ PartsSmaller'
    BY <1>3, <2>1 DEF TypeOK, Bounds, PartsSmaller, Scanning
  <2>5. (LessOK => Elements /\ Partitioned)'
    <3> SUFFICES ASSUME LessOK PROVE Elements' /\ Partitioned'
      BY <1>3
    <3>1. data[a] = data[lo] /\ data[b - 1] < data[lo] /\ b <= c /\ c <= hi
      BY <1>0, <1>3, <2>1 DEF Less, TypeOK, Elements, Bounds, NotAbove, Index
    <3>2. a # b - 1
      BY <1>0, <2>1, <3>1
    <3>3. /\ data'[a] = data[b - 1] /\ data'[b - 1] = data[a]
          /\ \A k \in Index \ {a, b - 1} : data'[k] = data[k]
      BY <1>0, <1>3, <2>1, SwappedType DEF Swap
    <3>4. Below /\ NotAbove /\ Equal /\ NotBelow
      BY <1>3 DEF Elements
    <3>5. Below' /\ NotAbove'
      BY <1>0, <1>3, <2>1, <3>1, <3>2, <3>3, <3>4, SMTT(60) DEF TypeOK, Below, NotAbove, Index
    <3>6. Equal' /\ NotBelow'
      BY <1>0, <1>3, <2>1, <3>1, <3>2, <3>3, <3>4, SMTT(60) DEF TypeOK, Equal, NotBelow, Index
    <3> QED
      BY <1>3, <3>1, <3>2, <3>5, <3>6 DEF TypeOK, Elements, Partitioned
  <2> QED
    BY <2>3, <2>4, <2>5
<1> QED
  BY <1>1, <1>2, <1>3 DEF EqA

\* The pivot goes between the parts.
LEMMA FinalInv == Inv /\ Final => Inv'
<1> SUFFICES ASSUME Inv, Final PROVE Inv'
  OBVIOUS
<1> USE DEF Inv, Goto
<1>0. /\ lo \in Index
      /\ data \in [Index -> Val] /\ \A i \in Index : data[i] \in Int
  BY Middle, TypeParts DEF TypeOK
<1>1. b - 1 \in Index /\ lo <= b - 1
  BY DEF Final, TypeOK, Bounds, Index
<1>2. data' \in [Index -> Val]
  BY <1>0, <1>1, SwappedType DEF Final, Swap
<1>3. TypeOK'
  BY <1>1, <1>2 DEF Final, TypeOK, Locations, Scanning, Index
<1>4. Bounds' /\ PartsSmaller'
  BY <1>1 DEF Final, TypeOK, Bounds, PartsSmaller, Scanning
<1>5. (LessOK => Elements /\ Partitioned)'
  <2> SUFFICES ASSUME LessOK PROVE Elements' /\ Partitioned'
    BY DEF Final
  <2>1. /\ data'[lo] = data[b - 1] /\ data'[b - 1] = data[lo]
        /\ \A k \in Index \ {lo, b - 1} : data'[k] = data[k]
    BY <1>0, <1>1, SwappedType DEF Final, Swap
  <2>2. \A i \in (lo + 1)..(b - 1) : data[i] <= data[lo]
    BY <1>0 DEF Final, TypeOK, Elements, Bounds, Below, NotAbove, Index
  <2>3. b <= c /\ c <= hi
    BY DEF Final, Elements, Bounds
  <2> QED
    BY <1>0, <1>1, <2>1, <2>2, <2>3 DEF Final, TypeOK, Elements, Partitioned,
       Equal, NotBelow, Index
<1> QED
  BY <1>3, <1>4, <1>5

\* A step that changes nothing keeps the invariant.
LEMMA StutterInv == Inv /\ UNCHANGED pivotVars => Inv'
  BY DEF Inv, pivotVars, TypeOK, Bounds, PartsSmaller, Elements, Partitioned, Below,
     NotAbove, Equal, NotBelow, Locations, Scanning, Index

-----------------------------------------------------------------------------
\* The bounds alone keep Less and Swap within data[lo:hi].
LEMMA IndexInRange == IndexInv => InRange
<1> SUFFICES ASSUME IndexInv PROVE InRange
  OBVIOUS
<1>1. lo < m /\ m < hi - 1 /\ m \in Int /\ 2 * (m - lo) <= hi - lo
  BY Middle DEF IndexInv, Index
<1> USE DEF IndexInv, IndexType, InRange, Touched
<1>2. CASE pc \in {"choose", "done"}
  BY <1>1, <1>2
<1>3. CASE pc \in Scanning
  BY <1>1, <1>3 DEF Bounds, Scanning
<1>4. CASE pc \in {"check", "dup1", "dup2", "dup3"}
  BY <1>1, <1>4 DEF Bounds
<1>5. CASE pc \in {"eqB", "eqA", "final"}
  BY <1>1, <1>5 DEF Bounds
<1> QED
  BY <1>2, <1>3, <1>4, <1>5 DEF Locations

-----------------------------------------------------------------------------
\* The bounds and what is known of the elements hold in every step of doPivot.
THEOREM InvHolds == Spec => []Inv
<1>1. Inv /\ [Next]_pivotVars => Inv'
  BY ChooseInv, ScanInv, CheckInv, DupInv, EqInv, FinalInv, StutterInv DEF Next
<1> QED
  BY InitInv, <1>1, PTL DEF Spec

\* Every variable has its type.
THEOREM TypeCorrect == Spec => []TypeOK
<1>1. Inv => TypeOK
  BY DEF Inv
<1> QED
  BY InvHolds, <1>1, PTL

\* doPivot asks Less and Swap for elements of data[lo:hi] only, for slices of
\* any length and whatever Less answers.
THEOREM InRangeHolds == Spec => []InRange
<1>1. Inv => InRange
  BY IndexInRange, TypeParts DEF Inv, IndexInv
<1> QED
  BY InvHolds, <1>1, PTL

\* quickSort's recursion gets smaller slices, whatever Less answers.
THEOREM PartsSmallerHolds == Spec => []PartsSmaller
<1>1. Inv => PartsSmaller
  BY DEF Inv
<1> QED
  BY InvHolds, <1>1, PTL

\* When Less is the order of the elements, doPivot partitions data[lo:hi].
THEOREM PartitionedHolds == Spec => []Partitioned
<1>1. Inv => Partitioned
  BY DEF Inv, Partitioned
<1> QED
  BY InvHolds, <1>1, PTL

\* The invariants of doPivot's comments hold in its loops.
THEOREM LoopInvariantHolds == Spec => []LoopInvariant
<1>1. Inv => LoopInvariant
  BY DEF Inv, TypeOK, Bounds, Elements, LoopInvariant, Below, NotAbove, Equal, NotBelow,
     Scanning
<1> QED
  BY InvHolds, <1>1, PTL

-----------------------------------------------------------------------------
(* quickSort. Between two calls of doPivot heapSort and insertionSort      *)
(* rewrite data; what holds whatever they do are the bounds.               *)

\* doPivot keeps its bounds whatever Less answers and whatever data holds.
LEMMA IndexStep == IndexInv /\ Next => IndexInv'
<1> SUFFICES ASSUME IndexInv, Next PROVE IndexInv'
  OBVIOUS
<1> USE DEF IndexInv, Goto, Less
<1>0. lo < m /\ m < hi - 1 /\ m \in Int /\ 2 * (m - lo) <= hi - lo
  BY Middle DEF Index
<1>1. CASE ChoosePivot
  BY <1>1 DEF ChoosePivot, IndexType, Bounds, PartsSmaller, Locations, Scanning
<1>2. CASE ScanA
  <2>1. IndexType'
    BY <1>2 DEF ScanA, IndexType, Bounds, Locations, Scanning
  <2>2. Bounds' /\ PartsSmaller'
    BY <1>2 DEF ScanA, IndexType, Bounds, PartsSmaller, Scanning
  <2> QED
    BY <2>1, <2>2
<1>3. CASE ScanB
  <2>1. IndexType'
    BY <1>3 DEF ScanB, IndexType, Bounds, Locations, Scanning
  <2>2. Bounds' /\ PartsSmaller'
    BY <1>3 DEF ScanB, IndexType, Bounds, PartsSmaller, Scanning
  <2> QED
    BY <2>1, <2>2
<1>4. CASE ScanC
  <2>1. IndexType'
    BY <1>4 DEF ScanC, IndexType, Bounds, Locations, Scanning
  <2>2. Bounds' /\ PartsSmaller'
    BY <1>4 DEF ScanC, IndexType, Bounds, PartsSmaller, Scanning
  <2> QED
    BY <2>1, <2>2
<1>5. CASE Check
  <2>1. IndexType'
    BY <1>5 DEF Check, IndexType, Locations, Scanning
  <2>2. Bounds' /\ PartsSmaller'
    BY <1>5 DEF Check, IndexType, Bounds, PartsSmaller, Scanning
  <2> QED
    BY <2>1, <2>2
<1>6. CASE Dup1
  <2>1. IndexType'
    BY <1>6 DEF Dup1, IndexType, Bounds, Locations, Scanning
  <2>2. Bounds' /\ PartsSmaller'
    BY <1>6 DEF Dup1, IndexType, Bounds, PartsSmaller, Scanning
  <2> QED
    BY <2>1, <2>2
<1>7. CASE Dup2
  <2>1. lo + 1 < b
    BY <1>7 DEF Dup2, IndexType, Bounds
  <2>2. IndexType'
    BY <1>7, <2>1 DEF Dup2, IndexType, Bounds, Locations, Scanning
  <2>3. Bounds' /\ PartsSmaller'
    BY <1>7, <2>1 DEF Dup2, IndexType, Bounds, PartsSmaller, Scanning
  <2> QED
    BY <2>2, <2>3
<1>8. CASE Dup3
  <2>1. lo + 1 < b
    BY <1>0, <1>8 DEF Dup3, IndexType, Bounds
  <2>2. IndexType'
    BY <1>8, <2>1 DEF Dup3, IndexType, Bounds, Locations, Scanning
  <2>3. Bounds' /\ PartsSmaller'
    BY <1>8, <2>1 DEF Dup3, IndexType, Bounds, PartsSmaller, Scanning
  <2> QED
    BY <2>2, <2>3
<1>9. CASE EqB
  <2>1. IndexType'
    BY <1>9 DEF EqB, IndexType, Bounds, Locations, Scanning
  <2>2. Bounds' /\ PartsSmaller'
    BY <1>9 DEF EqB, IndexType, Bounds, PartsSmaller, Scanning
  <2> QED
    BY <2>1, <2>2
<1>10. CASE EqA
  <2>1. IndexType'
    BY <1>10 DEF EqA, IndexType, Bounds, Locations, Scanning
  <2>2. Bounds' /\ PartsSmaller'
    BY <1>10 DEF EqA, IndexType, Bounds, PartsSmaller, Scanning
  <2> QED
    BY <2>1, <2>2
<1>11. CASE Final
  BY <1>11 DEF Final, IndexType, Bounds, PartsSmaller, Locations, Scanning
<1> QED
  BY <1>1, <1>2, <1>3, <1>4, <1>5, <1>6, <1>7, <1>8, <1>9, <1>10, <1>11 DEF Next

\* The slices of the active calls lie in data, and no two of them overlap.
Frame == [a : 0..N, b : 0..N, d : Nat]
Slices ==
  /\ frames \in Seq(Frame)
  /\ \A k \in 1..Len(frames) : frames[k].a <= frames[k].b
  /\ \A j, k \in 1..Len(frames) :
       j # k => frames[j].b <= frames[k].a \/ frames[k].b <= frames[j].a

\* The slice of a call has at most g[k] elements, where g halves from one call
\* to the next, and is not below 1: 2^(Len(frames) - 1) <= N.
Halves(g) ==
  /\ \A k \in 2..Len(frames) : 2 * g[k] <= g[k - 1]
  /\ \A k \in 1..Len(frames) : frames[k].b - frames[k].a <= g[k]
StackHalves == \E g \in [1..Len(frames) -> 1..N] : Halves(g)

SortInv ==
  /\ IndexInv /\ Slices /\ StackHalves
  /\ at \in {"loop", "pivot"}
  /\ at = "pivot" => frames # <<>> /\ Top.a = lo /\ Top.b = hi

\* The call from Sort may go deep enough for a positive number of levels.
LEMMA DepthType == maxDepth(N) \in Nat
<1>1. IsFiniteSet(0..N) /\ {k \in 0..N : 2^k <= N} \subseteq 0..N
  BY FS_Interval
<1>2. Cardinality({k \in 0..N : 2^k <= N}) \in Nat
  BY <1>1, FS_Subset, FS_CardinalityType
<1> QED
  BY <1>2 DEF maxDepth

LEMMA SortInitInv == SortInit => SortInv
<1> SUFFICES ASSUME SortInit PROVE SortInv
  OBVIOUS
<1>1. PICK d \in {1, maxDepth(N)} : frames = <<[a |-> 0, b |-> N, d |-> d]>>
  BY DEF SortInit
<1>2. d \in Nat
  BY <1>1, DepthType
<1>3. Len(frames) = 1 /\ frames[1] = [a |-> 0, b |-> N, d |-> d]
  BY <1>1
<1>4. Slices
  BY <1>1, <1>2, <1>3 DEF Slices, Frame
<1>5. StackHalves
  <2> DEFINE g == [k \in 1..Len(frames) |-> N]
  <2>1. g \in [1..Len(frames) -> 1..N]
    BY <1>3, SizeAssumption
  <2>2. Halves(g)
    BY <1>3 DEF Halves
  <2> QED
    BY <2>1, <2>2 DEF StackHalves
<1>6. IndexInv
  BY InitInv, TypeParts DEF SortInit, Inv, IndexInv
<1> QED
  BY <1>4, <1>5, <1>6 DEF SortInv, SortInit

\* The call that is on top of the stack.
LEMMA TopType ==
  ASSUME SortInv, frames # <<>>
  PROVE  /\ Len(frames) \in Nat \ {0} /\ Top = frames[Len(frames)]
         /\ Top \in Frame /\ Top.a <= Top.b
  BY DEF SortInv, Slices, Top

\* The call of doPivot gets the slice of the top.
LEMMA CallInv == SortInv /\ CallPivot => SortInv'
<1> SUFFICES ASSUME SortInv, CallPivot PROVE SortInv'
  OBVIOUS
<1> DEFINE L == Len(frames)
<1>1. L \in Nat \ {0} /\ frames[L] \in Frame /\ frames[L].d > 0 /\ Top = frames[L]
  BY TopType DEF CallPivot
<1>2. /\ frames' \in Seq(Frame) /\ Len(frames') = L
      /\ \A k \in 1..L : frames'[k].a = frames[k].a /\ frames'[k].b = frames[k].b
  <2>1. frames' = [frames EXCEPT ![L] = [frames[L] EXCEPT !.d = @ - 1]]
    BY DEF CallPivot
  <2>2. [frames[L] EXCEPT !.d = @ - 1] =
          [a |-> frames[L].a, b |-> frames[L].b, d |-> frames[L].d - 1]
    BY <1>1 DEF Frame
  <2>3. frames[L].d - 1 \in Nat
    BY <1>1 DEF Frame
  <2>4. frames \in Seq(Frame)
    BY DEF SortInv, Slices
  <2> QED
    BY <1>1, <2>1, <2>2, <2>3, <2>4, SMTT(60) DEF Frame
<1>3. Slices'
  BY <1>1, <1>2 DEF SortInv, Slices
<1>4. StackHalves'
  BY <1>1, <1>2 DEF SortInv, StackHalves, Halves
<1>5. IndexInv'
  BY <1>1 DEF CallPivot, Frame, SortInv, IndexInv, IndexType, Bounds, PartsSmaller, Locations,
     Scanning
<1>6. frames' # <<>> /\ Top'.a = lo' /\ Top'.b = hi' /\ at' = "pivot"
  BY <1>1, <1>2 DEF CallPivot, Top
<1> QED
  BY <1>3, <1>4, <1>5, <1>6 DEF SortInv

\* heapSort and the end of the loop take the top off.
LEMMA ReturnInv == SortInv /\ (Heap \/ Finish) => SortInv'
<1> SUFFICES ASSUME SortInv, Heap \/ Finish PROVE SortInv'
  OBVIOUS
<1> DEFINE L == Len(frames)
<1>1. L \in Nat \ {0}
  BY TopType DEF Heap, Finish
<1>2. /\ frames' \in Seq(Frame) /\ Len(frames') = L - 1
      /\ \A k \in 1..(L - 1) : frames'[k] = frames[k]
  BY <1>1 DEF Heap, Finish, Return, SortInv, Slices
<1>3. Slices'
  BY <1>1, <1>2 DEF SortInv, Slices
<1>4. StackHalves'
  <2>1. PICK g \in [1..L -> 1..N] : Halves(g)
    BY DEF SortInv, StackHalves
  <2>2. PICK h : h = [k \in 1..(L - 1) |-> g[k]]
    OBVIOUS
  <2>3. h \in [1..Len(frames') -> 1..N]
    BY <1>1, <1>2, <2>2
  <2>4. Halves(h)'
    BY <1>1, <1>2, <2>1, <2>2 DEF Halves
  <2> QED
    BY <2>3, <2>4 DEF StackHalves
<1>5. IndexInv'
  <2>1. UNCHANGED <<order, lo, hi, a, b, c, dups, pc, midlo, midhi>>
    BY DEF Heap, Finish
  <2> QED
    BY <2>1 DEF SortInv, IndexInv, IndexType, Bounds, PartsSmaller, Locations, Scanning
<1> QED
  BY <1>3, <1>4, <1>5 DEF SortInv, Heap, Finish

\* A step of doPivot leaves quickSort's stack alone.
LEMMA PivotInv == SortInv /\ PivotStep => SortInv'
<1> SUFFICES ASSUME SortInv, PivotStep PROVE SortInv'
  OBVIOUS
<1>1. UNCHANGED <<at, frames, lo, hi>>
  BY DEF PivotStep, Next, ChoosePivot, ScanA, ScanB, ScanC, Check, Dup1, Dup2, Dup3, EqB,
     EqA, Final
<1>2. IndexInv'
  BY IndexStep DEF PivotStep, SortInv
<1> QED
  BY <1>1, <1>2 DEF SortInv, Slices, StackHalves, Halves, Top, Frame

\* The slice of the top is replaced by two that lie in it and do not overlap; the
\* one on top has at most half of its elements.
LEMMA RecurseInv == SortInv /\ PivotReturns => SortInv'
<1> SUFFICES ASSUME SortInv, PivotReturns PROVE SortInv'
  OBVIOUS
<1> DEFINE L == Len(frames)
<1>1. /\ L \in Nat \ {0} /\ frames \in Seq(Frame)
      /\ Top = frames[L] /\ frames[L] \in Frame
      /\ frames[L].a = lo /\ frames[L].b = hi
  BY TopType DEF PivotReturns, SortInv, Slices
<1>2. /\ lo \in 0..N /\ hi \in 0..N /\ hi - lo > Small
      /\ midlo \in 0..N /\ midhi \in 0..N
      /\ lo <= midlo /\ midlo <= midhi /\ midhi <= hi
      /\ midlo < hi /\ midhi > lo
  BY DEF PivotReturns, SortInv, IndexInv, IndexType, PartsSmaller
<1>3. PICK x \in Frame, y \in Frame :
        /\ frames' = Append([frames EXCEPT ![L] = x], y)
        /\ lo <= x.a /\ x.a <= x.b /\ x.b <= hi
        /\ lo <= y.a /\ y.a <= y.b /\ y.b <= hi
        /\ x.b <= y.a \/ y.b <= x.a
        /\ 2 * (y.b - y.a) <= hi - lo
  <2> DEFINE p == [a |-> lo, b |-> midlo, d |-> frames[L].d]
             q == [a |-> midhi, b |-> hi, d |-> frames[L].d]
  <2>1. p \in Frame /\ q \in Frame
    BY <1>1, <1>2 DEF Frame
  <2>2. CASE midlo - lo < hi - midhi
    <3>1. frames' = Append([frames EXCEPT ![L] = q], p)
      BY <1>1, <2>2 DEF PivotReturns, Recurse
    <3> QED
      BY <1>2, <2>1, <2>2, <3>1
  <2>3. CASE ~(midlo - lo < hi - midhi)
    <3>1. frames' = Append([frames EXCEPT ![L] = p], q)
      BY <1>1, <2>3 DEF PivotReturns, Recurse
    <3> QED
      BY <1>2, <2>1, <2>3, <3>1
  <2> QED
    BY <2>2, <2>3
<1>4. /\ frames' \in Seq(Frame) /\ Len(frames') = L + 1
      /\ \A k \in 1..(L - 1) : frames'[k] = frames[k]
      /\ frames'[L] = x /\ frames'[L + 1] = y
  <2> DEFINE e == [frames EXCEPT ![L] = x]
  <2>1. /\ e \in Seq(Frame) /\ Len(e) = L /\ e[L] = x
        /\ \A k \in 1..(L - 1) : e[k] = frames[k]
    BY <1>1
  <2>2. frames' = Append(e, y)
    BY <1>3
  <2> HIDE DEF e
  <2> QED
    BY <1>1, <2>1, <2>2
<1>5. Slices'
  <2>1. \A k \in 1..(L + 1) : frames'[k] \in Frame /\ frames'[k].a <= frames'[k].b
    BY <1>1, <1>3, <1>4 DEF SortInv, Slices
  <2>2. \A k \in 1..(L - 1) : /\ frames[k] \in Frame
                              /\ frames[k].b <= lo \/ hi <= frames[k].a
    BY <1>1 DEF SortInv, Slices
  <2>3. ASSUME NEW j \in 1..(L + 1), NEW k \in 1..(L + 1), j < k
        PROVE  frames'[j].b <= frames'[k].a \/ frames'[k].b <= frames'[j].a
    <3>1. CASE k <= L - 1
      BY <1>1, <1>4, <2>3, <3>1 DEF SortInv, Slices
    <3>2. CASE j = L /\ k = L + 1
      BY <1>3, <1>4, <3>2
    <3>3. CASE j <= L - 1 /\ k = L
      <4>1. frames'[j] = frames[j] /\ frames'[k] = x /\ frames[j] \in Frame
            /\ (frames[j].b <= lo \/ hi <= frames[j].a)
        BY <1>1, <1>4, <2>2, <3>3
      <4>2. frames[j].a \in Int /\ frames[j].b \in Int /\ x.a \in Int /\ x.b \in Int
        BY <4>1 DEF Frame
      <4>3. lo <= x.a /\ x.b <= hi
        BY <1>3
      <4>4. frames[j].b <= x.a \/ x.b <= frames[j].a
        BY <1>2, <4>1, <4>2, <4>3
      <4> QED
        BY <4>1, <4>4
    <3>4. CASE j <= L - 1 /\ k = L + 1
      <4>1. frames'[j] = frames[j] /\ frames'[k] = y /\ frames[j] \in Frame
            /\ (frames[j].b <= lo \/ hi <= frames[j].a)
        BY <1>1, <1>4, <2>2, <3>4
      <4>2. frames[j].a \in Int /\ frames[j].b \in Int /\ y.a \in Int /\ y.b \in Int
        BY <4>1 DEF Frame
      <4>3. lo <= y.a /\ y.b <= hi
        BY <1>3
      <4>4. frames[j].b <= y.a \/ y.b <= frames[j].a
        BY <1>2, <4>1, <4>2, <4>3
      <4> QED
        BY <4>1, <4>4
    <3> QED
      BY <1>1, <2>3, <3>1, <3>2, <3>3, <3>4
  <2> QED
    BY <1>1, <1>4, <2>1, <2>3 DEF Slices
<1>6. StackHalves'
  <2>1. PICK g \in [1..L -> 1..N] : Halves(g)
    BY DEF SortInv, StackHalves
  <2>2. PICK h : h = [k \in 1..(L + 1) |-> IF k = L + 1 THEN g[L] \div 2 ELSE g[k]]
    OBVIOUS
  <2>3. g[L] \in 1..N /\ hi - lo <= g[L]
    BY <1>1, <2>1 DEF Halves
  <2>4. g[L] \div 2 \in 1..N /\ 2 * (g[L] \div 2) <= g[L] /\ y.b - y.a <= g[L] \div 2
    BY <1>2, <1>3, <2>3, SMTT(60) DEF Frame
  <2>5. h \in [1..Len(frames') -> 1..N]
    BY <1>1, <1>4, <2>2, <2>4
  <2>6. \A k \in 2..(L + 1) : 2 * h[k] <= h[k - 1]
    BY <1>1, <2>1, <2>2, <2>4 DEF Halves
  <2>7. \A k \in 1..(L + 1) : frames'[k].b - frames'[k].a <= h[k]
    <3>1. x.b - x.a <= g[L]
      BY <1>2, <1>3, <2>3 DEF Frame
    <3>2. \A k \in 1..(L - 1) : frames'[k].b - frames'[k].a <= h[k]
      <4> SUFFICES ASSUME NEW k \in 1..(L - 1) PROVE frames'[k].b - frames'[k].a <= h[k]
        OBVIOUS
      <4>1. k \in 1..L /\ k \in 1..(L + 1) /\ k # L + 1 /\ frames'[k] = frames[k]
        BY <1>1, <1>4, SMTT(60)
      <4>2. h[k] = g[k]
        BY <2>2, <4>1
      <4>3. frames[k].b - frames[k].a <= g[k]
        BY <2>1, <4>1 DEF Halves
      <4> QED
        BY <4>1, <4>2, <4>3
    <3>3. h[L] = g[L] /\ h[L + 1] = g[L] \div 2
      BY <1>1, <2>2
    <3>4. \A k \in 1..(L + 1) : k \in 1..(L - 1) \/ k = L \/ k = L + 1
      BY <1>1
    <3> QED
      BY <1>4, <2>4, <3>1, <3>2, <3>3, <3>4
  <2>8. Halves(h)'
    BY <1>1, <1>4, <2>6, <2>7 DEF Halves
  <2> QED
    BY <2>5, <2>8 DEF StackHalves
<1>7. IndexInv'
  BY DEF PivotReturns, pivotVars, SortInv, IndexInv, IndexType, Bounds, PartsSmaller, Locations,
     Scanning
<1> QED
  BY <1>5, <1>6, <1>7 DEF SortInv, PivotReturns

\* The bounds of doPivot and of the slices hold in every step of Sort.
LEMMA SortInvHolds == SortSpec => []SortInv
<1>1. SortInv /\ [SortNext]_vars => SortInv'
  <2> SUFFICES ASSUME SortInv, UNCHANGED vars PROVE SortInv'
    BY CallInv, PivotInv, RecurseInv, ReturnInv DEF SortNext
  <2>1. UNCHANGED <<at, frames, lo, hi>>
    BY DEF vars, pivotVars
  <2>2. IndexInv'
    BY DEF vars, pivotVars, SortInv, IndexInv, IndexType, Bounds, PartsSmaller, Locations,
       Scanning
  <2> QED
    BY <2>1, <2>2 DEF SortInv, Slices, StackHalves, Halves, Top, Frame
<1> QED
  BY SortInitInv, <1>1, PTL DEF SortSpec

-----------------------------------------------------------------------------
(* Search.                                                                 *)

\* The comment's invariant: "f(i-1) == false, f(j) == true".
SearchLoop ==
  /\ seI <= seJ
  /\ seI > 0 => ~seF[seI - 1]
  /\ seJ < seN => seF[seJ]

SearchInv ==
  /\ Se!TypeOK /\ SearchLoop /\ Se!ProbesInRange
  /\ seRet # -1 => seRet = seI /\ seI = seJ

\* The middle lies in i..j-1, and is computed without overflow.
LEMMA MidInRange ==
  ASSUME Se!TypeOK, seI < seJ
  PROVE  Se!mid \in Int /\ seI <= Se!mid /\ Se!mid < seJ
  BY MaxIntAssumption DEF Se!TypeOK, Se!mid, Se!Add, Se!Half

\* The invariant holds in every state of Search.
LEMMA SearchInvHolds == Se!Spec => []SearchInv
<1>1. Se!Init => SearchInv
  BY MaxIntAssumption DEF Se!Init, SearchInv, Se!TypeOK, SearchLoop, Se!ProbesInRange
<1>2. SearchInv /\ [Se!Next]_(Se!vars) => SearchInv'
  <2> SUFFICES ASSUME SearchInv, [Se!Next]_(Se!vars) PROVE SearchInv'
    OBVIOUS
  <2> USE DEF SearchInv, Se!TypeOK, SearchLoop, Se!ProbesInRange
  <2>1. CASE Se!Step
    <3>1. Se!mid \in 0..(seN - 1) /\ seI <= Se!mid /\ Se!mid < seJ
      BY <2>1, MidInRange DEF Se!Step
    <3>2. CASE seF[Se!mid]
      BY <2>1, <3>1, <3>2 DEF Se!Step, Se!Probe
    <3>3. CASE ~seF[Se!mid]
      BY <2>1, <3>1, <3>3 DEF Se!Step, Se!Probe
    <3> QED
      BY <3>2, <3>3
  <2>2. CASE Se!Return
    BY <2>2 DEF Se!Return
  <2>3. CASE UNCHANGED Se!vars
    BY <2>3 DEF Se!vars
  <2> QED
    BY <2>1, <2>2, <2>3 DEF Se!Next
<1> QED
  BY <1>1, <1>2, PTL DEF Se!Spec

\* What the invariant says of the result.
LEMMA SearchResult == SearchInv => SearchExact
<1> SUFFICES ASSUME SearchInv PROVE Se!Turns /\ Se!Smallest
  BY DEF SearchInv, SearchExact
<1>1. Se!Turns
  BY DEF SearchInv, Se!TypeOK, SearchLoop, Se!Turns
<1>2. Se!Smallest
  <2> SUFFICES ASSUME seRet # -1,
                      \A k, l \in 0..(seN - 1) : k <= l /\ seF[k] => seF[l],
                      NEW k \in 0..(seN - 1)
               PROVE  seF[k] <=> seRet <= k
    BY DEF Se!Smallest
  <2>1. /\ seN \in Nat /\ seF \in [0..(seN - 1) -> BOOLEAN]
        /\ seRet \in 0..seN
        /\ seRet > 0 => ~seF[seRet - 1]
        /\ seRet < seN => seF[seRet]
    BY DEF SearchInv, Se!TypeOK, SearchLoop
  <2>2. CASE seRet <= k
    BY <2>1, <2>2
  <2>3. CASE k < seRet
    <3>1. seRet - 1 \in 0..(seN - 1) /\ k <= seRet - 1
      BY <2>1, <2>3
    <3> QED
      BY <2>1, <2>3, <3>1
  <2> QED
    BY <2>1, <2>2, <2>3
<1> QED
  BY <1>1, <1>2

-----------------------------------------------------------------------------
(* The package.                                                            *)

\* Whichever function is called, Sort's state and Search's are theirs alone.
LEMMA UsesSort == AllSpec => SortSpec
<1>1. AllInit => SortInit
  BY DEF AllInit, NoSort
<1>2. [AllNext]_allVars => [SortNext]_vars
  BY DEF AllNext, allVars
<1> QED
  BY <1>1, <1>2, PTL DEF AllSpec, SortSpec

LEMMA UsesSearch == AllSpec => Se!Spec
<1>1. AllInit => Se!Init
  BY DEF AllInit, NoSearch
<1>2. [AllNext]_allVars => [Se!Next]_(Se!vars)
  BY DEF AllNext, allVars, searchVars, Se!vars
<1> QED
  BY <1>1, <1>2, PTL DEF AllSpec, Se!Spec

\* In every doPivot of a Sort, Less and Swap are called for elements of the slice
\* only, for slices of any length, whatever Less answers, and whatever heapSort
\* and insertionSort did to data before.
THEOREM SortInRangeHolds == AllSpec => []InRange
<1>1. SortInv => InRange
  BY IndexInRange DEF SortInv
<1> QED
  BY UsesSort, SortInvHolds, <1>1, PTL

\* The parts quickSort goes on with are smaller than its slice, whatever Less
\* answers, in every call.
THEOREM SortPartsSmallerHolds == AllSpec => []PartsSmaller
<1>1. SortInv => PartsSmaller
  BY DEF SortInv, IndexInv
<1> QED
  BY UsesSort, SortInvHolds, <1>1, PTL

\* The active calls of quickSort work on slices of data that do not overlap.
THEOREM SlicesHold == AllSpec => []Slices
<1>1. SortInv => Slices
  BY DEF SortInv
<1> QED
  BY UsesSort, SortInvHolds, <1>1, PTL

\* "Avoiding recursion on the larger subproblem guarantees a stack depth of at
\* most lg(b-a)": N can be halved once for every active call of quickSort but
\* the first, whatever Less answers.
THEOREM StackHalvesHolds == AllSpec => []StackHalves
<1>1. SortInv => StackHalves
  BY DEF SortInv
<1> QED
  BY UsesSort, SortInvHolds, <1>1, PTL

\* Search calls f within the slice and returns the first index of a monotone f,
\* for every width of int, every n and every f.
THEOREM SearchExactHolds == AllSpec => []SearchExact
  BY UsesSearch, SearchInvHolds, SearchResult, PTL
=============================================================================
