----------------------------- MODULE StableSort -----------------------------
(***************************************************************************)
(* sort.stable and sort.symMerge. The calls of symMerge that are active are *)
(* frames on a stack, each with the recursive calls it still has to make.  *)
(* An element is its key and, as a tag, the index it had at first.         *)
(***************************************************************************)
EXTENDS Integers, Sequences, FiniteSets

CONSTANTS
  MaxN,       \* bound on the length of data
  Key,
  BlockSize   \* the size of the blocks insertionSort sorts: 20

\* Only the keys are compared.
KeyBefore(x, y) == x.key < y.key
INSTANCE SortOps WITH Before <- KeyBefore

VARIABLES
  n, data,
  blockSize,
  a,        \* where the block, or the pair of blocks, to do next begins
  pc,       \* "blocks", "merge", "done"
  frames    \* calls of symMerge still to make, the next one last

vars == <<n, data, blockSize, a, pc, frames>>

Call(x, m, y) == [a |-> x, m |-> m, b |-> y]

Init ==
  /\ n \in 0..MaxN
  /\ \E keys \in [0..(n - 1) -> Key] :
       data = [i \in 0..(n - 1) |-> [key |-> keys[i], tag |-> i]]
  /\ blockSize = BlockSize /\ a = 0 /\ pc = "blocks"
  /\ frames = <<>>

-----------------------------------------------------------------------------
(* Slips the properties below must catch; no specification uses them.      *)

\* The callers' checks for degenerate arguments are gone.
CallsUnchecked(x, start, mid, end, y) == <<Call(mid, end, y), Call(x, start, mid)>>

-----------------------------------------------------------------------------
\* The loop that sorts the blocks, and the rest of data at its end.
SortBlock ==
  /\ pc = "blocks"
  /\ IF a + blockSize <= n
     THEN /\ data' = insertionSort(data, a, a + blockSize)
          /\ a' = a + blockSize /\ pc' = pc
     ELSE /\ data' = insertionSort(data, a, n)
          /\ a' = 0 /\ pc' = "merge"
  /\ UNCHANGED <<n, blockSize, frames>>

\* stable calls symMerge on two blocks of the pass.
MergePair ==
  /\ pc = "merge" /\ frames = <<>> /\ blockSize < n /\ a + 2 * blockSize <= n
  /\ frames' = <<Call(a, a + blockSize, a + 2 * blockSize)>>
  /\ a' = a + 2 * blockSize
  /\ UNCHANGED <<n, data, blockSize, pc>>

\* The end of a pass: a block and what follows it, if there is anything.
MergeRest ==
  /\ pc = "merge" /\ frames = <<>> /\ blockSize < n /\ a + 2 * blockSize > n
  /\ frames' = IF a + blockSize < n THEN <<Call(a, a + blockSize, n)>> ELSE <<>>
  /\ blockSize' = 2 * blockSize /\ a' = 0
  /\ UNCHANGED <<n, data, pc>>

Return ==
  /\ pc = "merge" /\ frames = <<>> /\ blockSize >= n
  /\ pc' = "done"
  /\ UNCHANGED <<n, data, blockSize, a, frames>>

\* The recursive calls of symMerge, the first of them last on the stack.
Calls(x, start, mid, end, y) ==
  (IF mid < end /\ end < y THEN <<Call(mid, end, y)>> ELSE <<>>)
    \o (IF x < start /\ start < mid THEN <<Call(x, start, mid)>> ELSE <<>>)

Top == frames[Len(frames)]
Below == SubSeq(frames, 1, Len(frames) - 1)

\* One element on one side: it is inserted into the other side.
InsertFirst ==
  /\ frames # <<>> /\ Top.m - Top.a = 1
  /\ LET i == searchLeft(data, Top.a, Top.m, Top.b)
     IN  data' = IF Top.a < i - 1 THEN Moved(data, Top.a, i - 1) ELSE data
  /\ frames' = Below
  /\ UNCHANGED <<n, blockSize, a, pc>>

InsertLast ==
  /\ frames # <<>> /\ Top.m - Top.a # 1 /\ Top.b - Top.m = 1
  /\ LET i == searchRight(data, Top.m, Top.a, Top.m)
     IN  data' = IF Top.m > i THEN Moved(data, Top.m, i) ELSE data
  /\ frames' = Below
  /\ UNCHANGED <<n, blockSize, a, pc>>

\* The symmetric comparison, the rotation, and the two calls to follow.
SymMerge ==
  /\ frames # <<>> /\ Top.m - Top.a # 1 /\ Top.b - Top.m # 1
  /\ LET m == Top.m
         mid == Top.a + (Top.b - Top.a) \div 2
         k == mid + m
         start == IF m > mid THEN searchCross(data, k - 1, k - Top.b, mid)
                             ELSE searchCross(data, k - 1, Top.a, m)
         end == k - start
     IN  /\ data' = IF start < m /\ m < end THEN rotate(data, start, m, end) ELSE data
         /\ frames' = Below \o Calls(Top.a, start, mid, end, Top.b)
  /\ UNCHANGED <<n, blockSize, a, pc>>

Next == SortBlock \/ MergePair \/ MergeRest \/ Return \/ InsertFirst \/ InsertLast \/ SymMerge

Spec == Init /\ [][Next]_vars

-----------------------------------------------------------------------------
InOrder(d, x, y) ==
  \A i \in (x + 1)..(y - 1) :
    \/ Less(d, i - 1, i)
    \/ ~Less(d, i, i - 1) /\ d[i - 1].tag < d[i].tag

\* "Stable sorts data while keeping the original order of equal elements": when
\* stable returns, data is sorted, equal elements are in the order they had, and
\* no element is lost.
SortedStably ==
  pc = "done" =>
    /\ {data[i].tag : i \in 0..(n - 1)} = 0..(n - 1)
    /\ InOrder(data, 0, n)

\* "symMerge merges the two sorted subsequences data[a:m] and data[m:b]" and
\* "assumes non-degenerate arguments": every call that is next is given two
\* sorted, non-empty runs.
CallsAreMerges ==
  frames # <<>> =>
    /\ 0 <= Top.a /\ Top.a < Top.m /\ Top.m < Top.b /\ Top.b <= n
    /\ InOrder(data, Top.a, Top.m) /\ InOrder(data, Top.m, Top.b)
=============================================================================
