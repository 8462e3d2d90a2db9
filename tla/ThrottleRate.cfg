\* Two KB per second, for requests of up to three chunks: 4200 bytes should
\* take two seconds.
CONSTANTS
  Writer = {w1, w2}
  Cap = 1
  unitSize = 1400
  Lens = {0, 1400, 4200}
  UpKBps = 2
  DownKBps = 1
  None = none
SPECIFICATION FairSpec
INVARIANTS RateLimited
