\* No symmetry: StaleIsRecovered is a liveness property.
\* A process has one file open at most: three inodes are never used up.
CONSTANTS
  p1 = p1
  p2 = p2
  p3 = p3
  t1 = t1
  t2 = t2
  t3 = t3
  Proc = {p1, p2, p3}
  Thread = {t1, t2, t3}
  ProcOf <- MCProcOf
  Inode = {i1, i2, i3}
  None = none
  Empty = empty
  Garbage = garbage
SPECIFICATION LockSpec
INVARIANTS LockNotLost ExclusiveUntilUnlink NoOrphanLock PortableExclusive
PROPERTIES  StaleIsRecovered
