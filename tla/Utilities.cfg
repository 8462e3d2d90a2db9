CONSTANTS
  Content <- Contents
  MaxOff = 4
  Archive <- Archives
  Handle = {h1, h2}
  FlateReader = {f1, f2}
  None = none
  Entry <- Entries
  MaxClose = 2
  Job <- Jobs
  Byte = {0, 1, 2, 3}
  Proc = {p1, p2, p3, p4}
  Recursive = TRUE
  MaxN = 3
  MaxWritten = 7
  Client = {c1, c2}
  MaxIssued = 3
  MaxSize = 3
SPECIFICATION AllSpec
INVARIANTS ReadersExact TocExact EntriesSound ReplaceExact RingsExact
  TrackerExact DeadlockReported
PROPERTIES TokensSound
SYMMETRY Symmetry
\* Clients stop when they have their answer or an error, streams end, and
\* goroutines that nest read locks may deadlock.
CHECK_DEADLOCK FALSE
