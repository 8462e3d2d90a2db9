\* One slot in wchan, so that senders block; requests of none, one and two
\* chunks.
CONSTANTS
  Writer = {w1, w2}
  Cap = 1
  unitSize = 1400
  Lens = {0, 1400, 2000}
  UpKBps = 1
  DownKBps = 2
  None = none
SPECIFICATION FairSpec
INVARIANTS WriterContract
PROPERTIES NobodyStranded
