SPECIFICATION Spec
CONSTANTS
  Input <- MCInput
  MaxInt64 = 100
  MaxBody = 2
  BufSize = 20
INVARIANTS PosExact BoxesExact
