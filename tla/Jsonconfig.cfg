CONSTANTS
  File = {a, b, c}
  Anon = anon
  Call = {"path", "hook", "check"}
  MaxCalls = 2
  Key = {k1, k2}
  Comment = {"_errors", "_knownkeys"}
  MaxAsked = 3
  MaxErrs = 3
  MaxLen = 2
SPECIFICATION AllSpec
\* The calls are bounded, and a panic ends the program.
CHECK_DEADLOCK FALSE
INVARIANTS IncludesExact EvalExact ValidateExact
