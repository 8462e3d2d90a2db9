\* Three workers, so that two may sleep while one releases; the Gate is smaller
\* than the Sem, so that workers block in it with units in their hands.
CONSTANTS
  Proc = {w1, w2, w3}
  Size = 3
  Max = 1
  Jobs = 1
  None = none
SPECIFICATION PoolSpec
INVARIANTS Accounted SetupAndErrs
PROPERTIES ImplementSemaphores WaitReturns
