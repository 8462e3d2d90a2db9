------------------------------- MODULE Search -------------------------------
(***************************************************************************)
(* sort.Search: binary search for the first index at which f is true, one  *)
(* call of f at a time. f is the caller's; it is meant to be monotone, but *)
(* need not be. Ints are as wide as MaxInt says, and wrap around.          *)
(***************************************************************************)
EXTENDS Integers

CONSTANT MaxInt   \* 2^63 - 1, or 2^31 - 1

VARIABLES
  n, f,      \* the arguments
  i, j,
  probes,    \* history: the indices f was called with
  ret        \* the result; -1 before the return

vars == <<n, f, i, j, probes, ret>>

\* The sum of two ints.
Add(x, y) == IF x + y > MaxInt THEN x + y - 2 * (MaxInt + 1) ELSE x + y

\* Go's division truncates towards zero.
Half(x) == IF x >= 0 THEN x \div 2 ELSE -((-x) \div 2)

Init ==
  /\ n \in 0..MaxInt
  /\ f \in [0..(n - 1) -> BOOLEAN]
  /\ i = 0 /\ j = n
  /\ probes = {} /\ ret = -1

-----------------------------------------------------------------------------
(* Slips the properties below must catch; no specification uses them.      *)

\* The sum of the two ends is halved.
midOverflows == Half(Add(i, j))

-----------------------------------------------------------------------------
\* h, "avoid overflow when computing h".
mid == Add(i, Half(j - i))

\* The half of i..j that is left after f(h).
Probe(h) ==
  IF f[h] THEN j' = h /\ UNCHANGED i ELSE i' = h + 1 /\ UNCHANGED j

Step ==
  /\ ret = -1 /\ i < j
  /\ probes' = probes \cup {mid}
  /\ IF mid \in 0..(n - 1) THEN Probe(mid) ELSE UNCHANGED <<i, j>>
  /\ UNCHANGED <<n, f, ret>>

Return ==
  /\ ret = -1 /\ i >= j
  /\ ret' = i
  /\ UNCHANGED <<n, f, i, j, probes>>

Next == Step \/ Return

Spec == Init /\ [][Next]_vars

-----------------------------------------------------------------------------
\* Every variable has its type.
TypeOK ==
  /\ n \in 0..MaxInt
  /\ f \in [0..(n - 1) -> BOOLEAN]
  /\ i \in 0..n /\ j \in 0..n
  /\ ret \in -1..n

\* f is only called for indices of the slice, even when the slice is so long
\* that the sum of two indices overflows.
ProbesInRange == probes \subseteq 0..(n - 1)

\* "f(i-1) == false, f(j) == true", where f(-1) is false and f(n) is true: the
\* result is a place where f turns from false to true, for any f.
Turns ==
  ret # -1 =>
    /\ ret > 0 => ~f[ret - 1]
    /\ ret < n => f[ret]

\* For a monotone f the result is the smallest index at which f is true, or n.
Smallest ==
  ret # -1 /\ (\A k, l \in 0..(n - 1) : k <= l /\ f[k] => f[l]) =>
    \A k \in 0..(n - 1) : f[k] <=> ret <= k
=============================================================================
