\* Thresholds near the least for which doPivot is right, so that slices of eight
\* and nine elements reach the ninther and the look for duplicates. MaxInt is so
\* small that the sum of two indices overflows.
CONSTANTS
  N = 9
  Val = {1, 2, 3}
  Small = 3
  Large = 7
  Border = 1
  Gap = 2
  MaxN = 8
  Key = {1, 2, 3}
  BlockSize = 2
  MaxInt = 7
SPECIFICATION AllSpec
\* The call returns.
CHECK_DEADLOCK FALSE
INVARIANTS InRange ResultsExact
PROPERTIES Returns
