\* |Proc| + |Key| calls are never used up; fn may panic. No symmetry: DoReturns
\* is a liveness property.
CONSTANTS
  Proc = {p1, p2, p3}
  Key = {k1, k2}
  Call = {c1, c2, c3, c4, c5}
  Val = {v1}
  Unset = unset
  None = none
  MayPanic = TRUE
SPECIFICATION FairSpec
\* All goroutines may be blocked on a key whose fn panicked.
CHECK_DEADLOCK FALSE
INVARIANTS OneInFlight DuplicateGetsResult
PROPERTIES ForgetsOwnCall DoReturns
