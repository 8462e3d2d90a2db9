\* Three goroutines on one path. Call and File bound the call structs and the
\* files that are reachable at once: a Do that would need a third call, or an
\* Open a fourth file, waits until one is garbage. No symmetry: two of the
\* properties are liveness properties.
CONSTANTS
  Proc = {p1, p2, p3}
  Key = {k1}
  Call = {c1, c2}
  File = {f1, f2, f3}
  OpenErr = err
  Unset = unset
  None = none
SPECIFICATION FairSpec
INVARIANTS RefCountExact NoUseAfterClose
PROPERTIES NothingStuck
