------------------------------ MODULE SortOps -------------------------------
(***************************************************************************)
(* The building blocks of sort.Sort and sort.Stable, as functions of the   *)
(* array d: what d is after the calls of Swap that they make. Before is    *)
(* the order of the elements that the caller's Less looks up. A loop of    *)
(* the code is a function of the array and of the loop's variable.         *)
(***************************************************************************)
EXTENDS Integers, Functions

CONSTANT Before(_, _)

Less(d, i, j) == Before(d[i], d[j])
Swapped(d, i, j) == [d EXCEPT ![i] = d[j], ![j] = d[i]]
Arrays(d) == [DOMAIN d -> Range(d)]

insertionSort(d, a, b) ==
  LET sink[e \in Arrays(d), j \in Int] ==
        IF j > a /\ Less(e, j, j - 1) THEN sink[Swapped(e, j, j - 1), j - 1] ELSE e
      loop[e \in Arrays(d), i \in Int] ==
        IF i < b THEN loop[sink[e, i], i + 1] ELSE e
  IN  loop[d, a + 1]

-----------------------------------------------------------------------------
siftDown(d, lo, hi, first) ==
  LET sift[e \in Arrays(d), root \in Int] ==
        LET left == 2 * root + 1
            child == IF left + 1 < hi /\ Less(e, first + left, first + left + 1)
                     THEN left + 1 ELSE left
        IN  IF left >= hi \/ ~Less(e, first + root, first + child) THEN e
            ELSE sift[Swapped(e, first + root, first + child), child]
  IN  sift[d, lo]

\* Build the heap, then pop the largest to the end again and again.
heapSort(d, a, b) ==
  LET hi == b - a
      build[e \in Arrays(d), i \in Int] ==
        IF i >= 0 THEN build[siftDown(e, i, hi, a), i - 1] ELSE e
      pop[e \in Arrays(d), i \in Int] ==
        IF i >= 0 THEN pop[siftDown(Swapped(e, a, a + i), 0, i, a), i - 1] ELSE e
  IN  pop[build[d, (hi - 1) \div 2], hi - 1]

swapRange(d, a, b, n) ==
  LET loop[e \in Arrays(d), i \in Int] ==
        IF i < n THEN loop[Swapped(e, a + i, b + i), i + 1] ELSE e
  IN  loop[d, 0]

rotate(d, a, m, b) ==
  LET loop[e \in Arrays(d), i \in Int, j \in Int] ==
        CASE i = j -> swapRange(e, m - i, m, i)
          [] i > j -> loop[swapRange(e, m - i, m, j), i - j, j]
          [] i < j -> loop[swapRange(e, m - i, m + j - i, i), i, j - i]
  IN  loop[d, m - a, b - m]

\* The binary searches of symMerge: the lowest index h in lo..hi-1 with
\* d[h] >= d[x], and with d[h] > d[x]; the lowest c with d[p - c] < d[c].
searchLeft(d, x, lo, hi) ==
  LET s[i \in Int, j \in Int] ==
        IF i >= j THEN i
        ELSE LET h == i + (j - i) \div 2
             IN  IF Less(d, h, x) THEN s[h + 1, j] ELSE s[i, h]
  IN  s[lo, hi]
searchRight(d, x, lo, hi) ==
  LET s[i \in Int, j \in Int] ==
        IF i >= j THEN i
        ELSE LET h == i + (j - i) \div 2
             IN  IF ~Less(d, x, h) THEN s[h + 1, j] ELSE s[i, h]
  IN  s[lo, hi]
searchCross(d, p, lo, hi) ==
  LET s[i \in Int, j \in Int] ==
        IF i >= j THEN i
        ELSE LET c == i + (j - i) \div 2
             IN  IF ~Less(d, p - c, c) THEN s[c + 1, j] ELSE s[i, c]
  IN  s[lo, hi]

\* d[x] moved to y by swaps of neighbours.
Moved(d, x, y) ==
  LET loop[e \in Arrays(d), k \in Int] ==
        CASE k < y -> loop[Swapped(e, k, k + 1), k + 1]
          [] k > y -> loop[Swapped(e, k, k - 1), k - 1]
          [] k = y -> e
  IN  loop[d, x]
=============================================================================
