----------------------------- MODULE QuickSort ------------------------------
(***************************************************************************)
(* sort.Sort and sort.With: quickSort's loop, its recursion, the switch to *)
(* heapSort, and the Shell pass and insertion sort at the end. The calls   *)
(* of doPivot are those of module DoPivot, whose actions run while quickSort *)
(* waits for them.                                                         *)
(***************************************************************************)
EXTENDS DoPivot, FiniteSets, Sequences

CONSTANT Gap      \* the gap of the Shell pass: 6

ASSUME GapAssumption == Gap \in Nat \ {0}
ASSUME SizeAssumption == N > Small

VARIABLES
  at,       \* "loop", or "pivot" while doPivot runs
  orig,     \* history: how many of each element data had at first
  frames    \* the active calls of quickSort: a, b and maxDepth

vars == <<pivotVars, at, orig, frames>>

Before(x, y) == x < y
Ops == INSTANCE SortOps

Counts(f) == [v \in Val |-> Cardinality({i \in DOMAIN f : f[i] = v})]

\* 2*ceil(lg(x+1)): twice the number of x's binary digits.
maxDepth(x) == 2 * Cardinality({k \in 0..x : 2^k <= x})

\* The call from Sort, or one further down with little depth left. The elements
\* of data do not matter to a Less that answers anything.
SortInit ==
  /\ Init /\ lo = 0 /\ hi = N
  /\ ~LessOK => \A i, j \in Index : data[i] = data[j]
  /\ at = "loop"
  /\ orig = Counts(data)
  /\ \E d \in {1, maxDepth(N)} : frames = <<[a |-> 0, b |-> N, d |-> d]>>

Top == frames[Len(frames)]
Return == frames' = SubSeq(frames, 1, Len(frames) - 1)

-----------------------------------------------------------------------------
(* Slips the properties below must catch; no specification uses them.      *)

\* The larger part is the one that is recursed into.
RecurseLarger(x, y, d) ==
  IF midlo - x >= y - midhi
  THEN frames' = Append([frames EXCEPT ![Len(frames)] = [a |-> midhi, b |-> y, d |-> d]],
                        [a |-> x, b |-> midlo, d |-> d])
  ELSE frames' = Append([frames EXCEPT ![Len(frames)] = [a |-> x, b |-> midlo, d |-> d]],
                        [a |-> midhi, b |-> y, d |-> d])

-----------------------------------------------------------------------------
\* The condition of the loop holds: maxDepth-- and doPivot(data, a, b).
CallPivot ==
  /\ at = "loop" /\ frames # <<>> /\ Top.b - Top.a > Small /\ Top.d > 0
  /\ at' = "pivot"
  /\ lo' = Top.a /\ hi' = Top.b
  /\ pc' = "choose"
  /\ a' = 0 /\ b' = 0 /\ c' = 0 /\ dups' = 0 /\ midlo' = 0 /\ midhi' = 0
  /\ frames' = [frames EXCEPT ![Len(frames)].d = @ - 1]
  /\ UNCHANGED <<order, data, orig>>

PivotStep ==
  /\ at = "pivot"
  /\ Next
  /\ UNCHANGED <<at, orig, frames>>

\* Recursion into the smaller part; the loop goes on with the larger one.
Recurse(x, y, d) ==
  IF midlo - x < y - midhi
  THEN frames' = Append([frames EXCEPT ![Len(frames)] = [a |-> midhi, b |-> y, d |-> d]],
                        [a |-> x, b |-> midlo, d |-> d])
  ELSE frames' = Append([frames EXCEPT ![Len(frames)] = [a |-> x, b |-> midlo, d |-> d]],
                        [a |-> midhi, b |-> y, d |-> d])

PivotReturns ==
  /\ at = "pivot" /\ pc = "done"
  /\ at' = "loop"
  /\ Recurse(Top.a, Top.b, Top.d)
  /\ UNCHANGED <<pivotVars, orig>>

\* maxDepth is used up.
Heap ==
  /\ at = "loop" /\ frames # <<>> /\ Top.b - Top.a > Small /\ Top.d = 0
  /\ data' = IF LessOK THEN Ops!heapSort(data, Top.a, Top.b) ELSE data
  /\ Return
  /\ UNCHANGED <<order, lo, hi, a, b, c, dups, pc, midlo, midhi, at, orig>>

\* One Shell pass over the slice x..y-1 of e.
shellPass(e, x, y) ==
  LET pass[f \in Ops!Arrays(e), i \in Int] ==
        IF i >= y THEN f
        ELSE pass[IF Ops!Less(f, i, i - Gap) THEN Swapped(f, i, i - Gap) ELSE f, i + 1]
  IN  pass[e, x + Gap]

\* What is left of the slice is short.
Finish ==
  /\ at = "loop" /\ frames # <<>> /\ Top.b - Top.a <= Small
  /\ data' = IF LessOK /\ Top.b - Top.a > 1
             THEN Ops!insertionSort(shellPass(data, Top.a, Top.b), Top.a, Top.b)
             ELSE data
  /\ Return
  /\ UNCHANGED <<order, lo, hi, a, b, c, dups, pc, midlo, midhi, at, orig>>

SortNext == CallPivot \/ PivotStep \/ PivotReturns \/ Heap \/ Finish

SortSpec == SortInit /\ [][SortNext]_vars

-----------------------------------------------------------------------------
\* When quickSort returns, data is sorted (IsSorted) with the elements it had.
Sorted ==
  LessOK /\ frames = <<>> =>
    /\ Counts(data) = orig
    /\ \A i \in 1..(N - 1) : ~(data[i] < data[i - 1])

\* "Avoiding recursion on the larger subproblem guarantees a stack depth of at
\* most lg(b-a)", also for a Less that contradicts itself.
StackDepth == frames # <<>> => 2^(Len(frames) - 1) <= N
=============================================================================
