------------------------------ MODULE DoPivot -------------------------------
(***************************************************************************)
(* sort.doPivot: the partition of data[lo:hi] that quickSort makes, one    *)
(* comparison or one swap at a time. (zfuncversion.go is generated from    *)
(* it.)                                                                    *)
(*                                                                         *)
(* data is the caller's, behind Less and Swap. Less is the order of the    *)
(* elements, or it answers anything, as a callback that is no strict weak  *)
(* order may (a NaN, a key that changes).                                  *)
(***************************************************************************)
EXTENDS Integers

CONSTANTS
  N,         \* data has the indices 0..N-1
  Val,       \* the elements
  Small,     \* quickSort calls doPivot for more than Small elements: 12
  Large,     \* more than Large elements get Tukey's ninther: 40
  Border     \* hi-c below which duplicates are assumed: 5

ASSUME NAssumption == N \in Nat
ASSUME ValAssumption == Val \subseteq Int
\* The least values for which the algorithm is right; the code's are larger.
ASSUME LimitsAssumption ==
  /\ Small \in Nat /\ Small >= 2
  /\ Large \in Nat /\ Large >= 7
  /\ Border \in Nat /\ Border >= 1

VARIABLES
  order,     \* "strict", or "any": what the caller's Less is
  data, lo, hi,
  a, b, c,
  dups,
  pc,
  midlo, midhi   \* the results

pivotVars == <<order, data, lo, hi, a, b, c, dups, pc, midlo, midhi>>
LessOK == order = "strict"
Index == 0..(N - 1)
m == lo + (hi - lo) \div 2

Init ==
  /\ order \in {"strict", "any"}
  /\ data \in [Index -> Val]
  /\ lo \in 0..N /\ hi \in 0..N /\ hi - lo > Small
  /\ a = 0 /\ b = 0 /\ c = 0 /\ dups = 0
  /\ pc = "choose"
  /\ midlo = 0 /\ midhi = 0

\* data.Less(i, j) answers ans; it has no effect.
Less(i, j, ans) == ans \in BOOLEAN /\ (LessOK => ans = (data[i] < data[j]))

\* The array d after Swap(i, j).
Swapped(d, i, j) == [d EXCEPT ![i] = d[j], ![j] = d[i]]
Swap(i, j) == data' = Swapped(data, i, j)

Goto(l) == pc' = l

-----------------------------------------------------------------------------
(* Slips the properties below must catch; no specification uses them.      *)

\* The scan for elements that equal the pivot does not stop at a.
EqBFar ==
  /\ pc = "eqB"
  /\ \/ b > 0 /\ Less(b - 1, lo, FALSE) /\ b' = b - 1 /\ UNCHANGED pc
     \/ b > 0 /\ Less(b - 1, lo, TRUE) /\ Goto("eqA") /\ UNCHANGED b
     \/ b = 0 /\ Goto("eqA") /\ UNCHANGED b
  /\ UNCHANGED <<order, data, lo, hi, a, c, dups, midlo, midhi>>

\* The two elements that were swapped are looked at again.
ScanCAgain ==
  /\ pc = "scanC"
  /\ \/ b < c /\ Less(lo, c - 1, TRUE) /\ c' = c - 1 /\ UNCHANGED <<data, b, pc>>
     \/ b >= c /\ Goto("check") /\ UNCHANGED <<data, b, c>>
     \/ /\ b < c /\ Less(lo, c - 1, FALSE)
        /\ Swap(b, c - 1) /\ UNCHANGED <<b, c>>
        /\ Goto("scanB")
  /\ UNCHANGED <<order, lo, hi, a, dups, midlo, midhi>>

-----------------------------------------------------------------------------
\* d with the median of d[m0], d[m1], d[m2] in m1.
medianOfThree(d, m1, m0, m2) ==
  LET d1 == IF d[m1] < d[m0] THEN Swapped(d, m1, m0) ELSE d
      d2 == Swapped(d1, m2, m1)
  IN  IF d1[m2] < d1[m1]
      THEN IF d2[m1] < d2[m0] THEN Swapped(d2, m1, m0) ELSE d2
      ELSE d1

\* Tukey's ninther, the medians of three places near lo, m and hi-1: the array
\* after the three calls, as a set of one.
ninther(d) ==
  LET s == (hi - lo) \div 8 IN
  {medianOfThree(d2, hi - 1, hi - 1 - s, hi - 1 - 2 * s) : d2 \in
    {medianOfThree(d1, m, m - s, m + s) : d1 \in
      {medianOfThree(d, lo, lo + s, lo + 2 * s)}}}

\* data[lo] is the pivot from here on. (What comparisons that mean nothing
\* leave where does not matter.)
ChoosePivot ==
  /\ pc = "choose"
  /\ \/ ~LessOK /\ UNCHANGED data
     \/ /\ LessOK
        /\ \E d \in IF hi - lo > Large THEN ninther(data) ELSE {data} :
             data' = medianOfThree(d, lo, m, hi - 1)
  /\ a' = lo + 1 /\ c' = hi - 1
  /\ Goto("scanA")
  /\ UNCHANGED <<order, lo, hi, b, dups, midlo, midhi>>

ScanA ==
  /\ pc = "scanA"
  /\ \/ a < c /\ Less(a, lo, TRUE) /\ a' = a + 1 /\ UNCHANGED <<b, pc>>
     \/ (a >= c \/ Less(a, lo, FALSE)) /\ b' = a /\ Goto("scanB") /\ UNCHANGED a
  /\ UNCHANGED <<order, data, lo, hi, c, dups, midlo, midhi>>

ScanB ==
  /\ pc = "scanB"
  /\ \/ b < c /\ Less(lo, b, FALSE) /\ b' = b + 1 /\ UNCHANGED pc
     \/ (b >= c \/ Less(lo, b, TRUE)) /\ Goto("scanC") /\ UNCHANGED b
  /\ UNCHANGED <<order, data, lo, hi, a, c, dups, midlo, midhi>>

ScanC ==
  /\ pc = "scanC"
  /\ \/ b < c /\ Less(lo, c - 1, TRUE) /\ c' = c - 1 /\ UNCHANGED <<data, b, pc>>
     \/ b >= c /\ Goto("check") /\ UNCHANGED <<data, b, c>>
     \/ /\ b < c /\ Less(lo, c - 1, FALSE)
        /\ Swap(b, c - 1) /\ b' = b + 1 /\ c' = c - 1
        /\ Goto("scanB")
  /\ UNCHANGED <<order, lo, hi, a, dups, midlo, midhi>>

\* protect, or a look at three points, or neither.
Check ==
  /\ pc = "check"
  /\ Goto(IF hi - c < Border THEN "eqB"
          ELSE IF hi - c < (hi - lo) \div 4 THEN "dup1" ELSE "final")
  /\ UNCHANGED <<order, data, lo, hi, a, b, c, dups, midlo, midhi>>

Dup1 ==
  /\ pc = "dup1"
  /\ \/ Less(lo, hi - 1, TRUE) /\ UNCHANGED <<data, c, dups>>
     \/ Less(lo, hi - 1, FALSE) /\ Swap(c, hi - 1) /\ c' = c + 1 /\ dups' = dups + 1
  /\ Goto("dup2")
  /\ UNCHANGED <<order, lo, hi, a, b, midlo, midhi>>

Dup2 ==
  /\ pc = "dup2"
  /\ \/ Less(b - 1, lo, TRUE) /\ UNCHANGED <<b, dups>>
     \/ Less(b - 1, lo, FALSE) /\ b' = b - 1 /\ dups' = dups + 1
  /\ Goto("dup3")
  /\ UNCHANGED <<order, data, lo, hi, a, c, midlo, midhi>>

Dup3 ==
  /\ pc = "dup3"
  /\ \/ Less(m, lo, TRUE) /\ UNCHANGED <<data, b, dups>>
     \/ Less(m, lo, FALSE) /\ Swap(m, b - 1) /\ b' = b - 1 /\ dups' = dups + 1
  /\ Goto(IF dups' > 1 THEN "eqB" ELSE "final")
  /\ UNCHANGED <<order, lo, hi, a, c, midlo, midhi>>

EqB ==
  /\ pc = "eqB"
  /\ \/ a < b /\ Less(b - 1, lo, FALSE) /\ b' = b - 1 /\ UNCHANGED pc
     \/ (a >= b \/ Less(b - 1, lo, TRUE)) /\ Goto("eqA") /\ UNCHANGED b
  /\ UNCHANGED <<order, data, lo, hi, a, c, dups, midlo, midhi>>

EqA ==
  /\ pc = "eqA"
  /\ \/ a < b /\ Less(a, lo, TRUE) /\ a' = a + 1 /\ UNCHANGED <<data, b, pc>>
     \/ a >= b /\ Goto("final") /\ UNCHANGED <<data, a, b>>
     \/ /\ a < b /\ Less(a, lo, FALSE)
        /\ Swap(a, b - 1) /\ a' = a + 1 /\ b' = b - 1
        /\ Goto("eqB")
  /\ UNCHANGED <<order, lo, hi, c, dups, midlo, midhi>>

Final ==
  /\ pc = "final"
  /\ Swap(lo, b - 1)
  /\ midlo' = b - 1 /\ midhi' = c
  /\ Goto("done")
  /\ UNCHANGED <<order, lo, hi, a, b, c, dups>>

Next ==
  \/ ChoosePivot \/ ScanA \/ ScanB \/ ScanC \/ Check
  \/ Dup1 \/ Dup2 \/ Dup3 \/ EqB \/ EqA \/ Final

Spec == Init /\ [][Next]_pivotVars

-----------------------------------------------------------------------------
Scanning == {"scanA", "scanB", "scanC"}
Locations == Scanning \cup
  {"choose", "check", "dup1", "dup2", "dup3", "eqB", "eqA", "final", "done"}

\* Every variable has its type.
TypeOK ==
  /\ order \in {"strict", "any"}
  /\ data \in [Index -> Val]
  /\ lo \in 0..N /\ hi \in 0..N /\ hi - lo > Small
  /\ a \in 0..N /\ b \in 0..N /\ c \in 0..N
  /\ dups \in 0..3
  /\ pc \in Locations
  /\ midlo \in 0..N /\ midhi \in 0..N

\* The indices that the next Less or Swap is called with.
Touched ==
  CASE pc = "choose" -> {lo, m, hi - 1}
    [] pc = "scanA" -> {lo} \cup (IF a < c THEN {a} ELSE {})
    [] pc = "scanB" -> {lo} \cup (IF b < c THEN {b} ELSE {})
    [] pc = "scanC" -> {lo} \cup (IF b < c THEN {b, c - 1} ELSE {})
    [] pc = "dup1" -> {lo, c, hi - 1}
    [] pc = "dup2" -> {lo, b - 1}
    [] pc = "dup3" -> {lo, m, b - 1}
    [] pc \in {"eqB", "eqA"} -> {lo} \cup (IF a < b THEN {a, b - 1} ELSE {})
    [] pc = "final" -> {lo, b - 1}
    [] OTHER -> {}

\* Less and Swap are only called for elements of data[lo:hi], whatever Less
\* answers: a bad callback does not become an index out of range.
InRange == Touched \subseteq lo..(hi - 1)

\* Both parts quickSort goes on with lie in data[lo:hi], do not overlap and are
\* smaller than it, whatever Less answers: a bad callback does not make
\* quickSort run for ever. (With one that contradicts itself the middle may
\* be empty.)
PartsSmaller ==
  pc = "done" =>
    /\ lo <= midlo /\ midlo <= midhi /\ midhi <= hi
    /\ midlo < hi /\ midhi > lo

\* The invariants of the comment in doPivot, for the state of its loops.
LoopInvariant ==
  LessOK /\ pc \in Scanning \cup {"eqB", "eqA"} =>
    /\ \A i \in (lo + 1)..(a - 1) : data[i] < data[lo]
    /\ pc = "scanC" => \A i \in a..(b - 1) : data[i] <= data[lo]
    /\ pc \in {"eqB", "eqA"} => \A i \in b..(c - 1) : data[i] = data[lo]
    /\ pc \in Scanning => data[hi - 1] >= data[lo]
    /\ \A i \in c..(hi - 1) : data[i] >= data[lo]

\* What quickSort relies on: nothing before the middle is larger than the
\* pivot, the middle equals it, and nothing after it is smaller.
Partitioned ==
  LessOK /\ pc = "done" =>
    /\ midlo < midhi
    /\ \A i \in lo..(midlo - 1) : data[i] <= data[midlo]
    /\ \A i \in midlo..(midhi - 1) : data[i] = data[midlo]
    /\ \A i \in midhi..(hi - 1) : data[i] >= data[midlo]
=============================================================================
