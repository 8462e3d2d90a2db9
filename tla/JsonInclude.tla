---------------------------- MODULE JsonInclude -----------------------------
(***************************************************************************)
(* jsonconfig.ConfigParser: the recursion over included files that ReadFile *)
(* and CheckTypes start (recursiveReadJSON, evaluateExpressions,           *)
(* expandFile, ConfigFilePath), on one parser used again and again.        *)
(*                                                                         *)
(* A document is the set of the files its ["_fileobj", f] expressions name *)
(* (a Go map is iterated in any order, so the set is gone through in any   *)
(* order); Anon is the document that has no path: what the Open hook gives *)
(* for "", or the map CheckTypes gets.                                     *)
(***************************************************************************)
EXTENDS Integers, SequencesExt

CONSTANTS
  File,
  Anon,
  Call,       \* the API calls made: a subset of {"path", "hook", "check"}
  MaxCalls    \* bound on their number

ASSUME AnonAssumption == Anon \notin File
ASSUME MaxCallsAssumption == MaxCalls \in Nat

Doc == File \cup {Anon}

VARIABLES
  includes,   \* the files each document includes; they do not change
  made,       \* ReadFile has made the map touchedFiles, which is nil before
  touched,    \* ConfigParser.touchedFiles
  stack,      \* ConfigParser.includeStack
  frames,     \* the active calls: the document and the includes still to expand
  status,     \* of the API call: "idle", "run", "fail" (an error on its way
              \* up), "value" (one that expandFile does not wrap)
  result,     \* of the last call: "none", "ok", "cycle", "error" or "panic"
  root,       \* the document the last call was about
  calls

includeVars == <<includes, made, touched, stack, frames, status, result, root, calls>>

IncludeInit ==
  /\ includes \in [Doc -> SUBSET File]
  /\ made = FALSE /\ touched = {}
  /\ stack = <<>> /\ frames = <<>>
  /\ status = "idle" /\ result = "none" /\ root = Anon
  /\ calls = 0

Frame(d) == [doc |-> d, todo |-> includes[d]]
Top == frames[Len(frames)]

\* A panic runs the deferred Pops on its way to the caller.
Panics ==
  /\ result' = "panic" /\ status' = "idle"
  /\ stack' = <<>> /\ frames' = <<>>

\* The deferred Pop of a frame that has pushed its path.
PopsOf(d) == stack' = IF d = Anon THEN stack ELSE Front(stack)

Begin(c, d) ==
  /\ status = "idle" /\ c \in Call /\ calls < MaxCalls
  /\ calls' = calls + 1
  /\ root' = d

-----------------------------------------------------------------------------
(* Slips the properties below must catch; no specification uses them.      *)

\* The Pop is not deferred, and an error return skips it.
OpenFailsNoPop(f) ==
  /\ status = "run" /\ f \in Top.todo
  /\ f \notin touched /\ made
  /\ touched' = touched \cup {f}
  /\ stack' = Append(stack, f)
  /\ status' = "fail" /\ result' = "error"
  /\ UNCHANGED <<includes, made, frames, root, calls>>

-----------------------------------------------------------------------------
(* The calls of the API.                                                   *)

\* ReadFile(path): the root is read like an included file.
ReadFile(f) ==
  /\ Begin("path", f)
  /\ made' = TRUE /\ touched' = {f}
  /\ stack' = Append(stack, f)
  /\ frames' = <<Frame(f)>>
  /\ status' = "run"
  /\ UNCHANGED <<includes, result>>

\* Its open or Decode fails.
ReadFileFails(f) ==
  /\ Begin("path", f)
  /\ made' = TRUE /\ touched' = {f}
  /\ result' = "error"
  /\ UNCHANGED <<includes, stack, frames, status>>

\* ReadFile("") with an Open hook: nothing is pushed and nothing is touched.
ReadFileHook ==
  /\ Begin("hook", Anon)
  /\ made' = TRUE /\ touched' = {}
  /\ frames' = <<Frame(Anon)>>
  /\ status' = "run"
  /\ UNCHANGED <<includes, stack, result>>

\* CheckTypes(m): touchedFiles is what the last ReadFile has left.
CheckTypes ==
  /\ Begin("check", Anon)
  /\ frames' = <<Frame(Anon)>>
  /\ status' = "run"
  /\ UNCHANGED <<includes, made, touched, stack, result>>

-----------------------------------------------------------------------------
(* The recursion.                                                          *)

\* expandFile and recursiveReadJSON: a file that is found, opened, decoded.
ExpandFile(f) ==
  /\ status = "run" /\ f \in Top.todo
  /\ f \notin touched
  /\ made
  /\ touched' = touched \cup {f}
  /\ stack' = Append(stack, f)
  /\ frames' = Append([frames EXCEPT ![Len(frames)].todo = @ \ {f}], Frame(f))
  /\ UNCHANGED <<includes, made, status, result, root, calls>>

\* touchedFiles is still the nil map, and is written to.
ExpandFileNilMap(f) ==
  /\ status = "run" /\ f \in Top.todo
  /\ ~made
  /\ Panics
  /\ UNCHANGED <<includes, made, touched, root, calls>>

\* "include cycle detected".
ExpandTouched(f) ==
  /\ status = "run" /\ f \in Top.todo
  /\ f \in touched
  /\ status' = "fail" /\ result' = "cycle"
  /\ UNCHANGED <<includes, made, touched, stack, frames, root, calls>>

\* The file is there for ConfigFilePath, but open or Decode fails; the
\* deferred Pop has run when expandFile sees the error.
OpenFails(f) ==
  /\ status = "run" /\ f \in Top.todo
  /\ f \notin touched /\ made
  /\ touched' = touched \cup {f}
  /\ status' = "fail" /\ result' = "error"
  /\ UNCHANGED <<includes, made, stack, frames, root, calls>>

\* ConfigFilePath finds no file, neither in the working directory nor in
\* IncludeDirs, or another expression of the document has an error: what
\* returns is not wrapped in this frame.
ValueError ==
  /\ status = "run" /\ frames # <<>>
  /\ status' = "value" /\ result' = "error"
  /\ UNCHANGED <<includes, made, touched, stack, frames, root, calls>>

\* All expressions of the document are expanded.
Return ==
  /\ status = "run" /\ Top.todo = {}
  /\ PopsOf(Top.doc)
  /\ frames' = Front(frames)
  /\ IF Len(frames) = 1
     THEN status' = "idle" /\ result' = "ok"
     ELSE UNCHANGED <<status, result>>
  /\ UNCHANGED <<includes, made, touched, root, calls>>

\* expandFile wraps the error with includeStack.Last(), and the frame returns.
Wrap ==
  /\ status = "fail" /\ stack # <<>>
  /\ PopsOf(Top.doc)
  /\ frames' = Front(frames)
  /\ status' = IF Len(frames) = 1 THEN "idle" ELSE "fail"
  /\ UNCHANGED <<includes, made, touched, result, root, calls>>

\* Last() of an empty stack.
WrapPanics ==
  /\ status = "fail" /\ stack = <<>>
  /\ Panics
  /\ UNCHANGED <<includes, made, touched, root, calls>>

\* The frame returns the error of an expression that includes nothing.
ReturnError ==
  /\ status = "value"
  /\ PopsOf(Top.doc)
  /\ frames' = Front(frames)
  /\ status' = IF Len(frames) = 1 THEN "idle" ELSE "fail"
  /\ UNCHANGED <<includes, made, touched, result, root, calls>>

Expand(f) ==
  ExpandFile(f) \/ ExpandFileNilMap(f) \/ ExpandTouched(f) \/ OpenFails(f)

IncludeNext ==
  \/ \E f \in File : ReadFile(f) \/ ReadFileFails(f) \/ Expand(f)
  \/ ReadFileHook \/ CheckTypes
  \/ ValueError \/ Return \/ Wrap \/ WrapPanics \/ ReturnError

IncludeSpec == IncludeInit /\ [][IncludeNext]_includeVars

-----------------------------------------------------------------------------
\* Every variable has its type.
IncludeTypeOK ==
  /\ made \in BOOLEAN /\ touched \subseteq File
  /\ stack \in Seq(File)
  /\ \A i \in 1..Len(frames) :
       frames[i].doc \in Doc /\ frames[i].todo \subseteq includes[frames[i].doc]
  /\ status \in {"idle", "run", "fail", "value"}
  /\ result \in {"none", "ok", "cycle", "error", "panic"}
  /\ status = "idle" <=> frames = <<>>

\* "In file included from ..." names the including file: includeStack holds the
\* paths of the documents being read, whatever order files fail in, and is
\* empty again for the parser's next use.
StackIsCalls ==
  LET pathless == IF frames # <<>> /\ frames[1].doc = Anon THEN 1 ELSE 0
  IN /\ Len(stack) = Len(frames) - pathless
     /\ \A i \in 1..Len(stack) : stack[i] = frames[i + pathless].doc

\* Every recursion ends: no file is being read inside itself, however the
\* files include one another.
NoFileInItself ==
  \A i, j \in 1..Len(stack) : stack[i] = stack[j] => i = j

\* The files of S include no others.
Closed(S) == \A f \in S : includes[f] \subseteq S

\* What d includes, directly or through other files.
Reached(d) ==
  {f \in File : \A S \in SUBSET File : includes[d] \subseteq S /\ Closed(S) => f \in S}

\* A call that succeeds has read all that its document includes, directly and
\* through other files, and none of that includes itself.
OkIsWhole ==
  status = "idle" /\ result = "ok" =>
    \A f \in Reached(root) : f \in touched /\ f \notin Reached(f)

\* "Decodes and evaluates a json config file, watching for include cycles":
\* a cycle is reported for files that include themselves.
CycleMeansCycle ==
  status = "idle" /\ result = "cycle" =>
    \E f \in Reached(root) \cup ({root} \cap File) : f \in Reached(f)

\* "If path is empty, the c.Open function must be defined", and "CheckTypes
\* parses m and returns an error ...": both return, with an error if need be.
IncludeNoPanic == result # "panic"

\* Includes are followed as written, whatever files fail and in whatever order:
\* includeStack is the chain of files being read and empty for the next call,
\* no file is read inside itself, and a call that succeeds has read all that
\* its document includes, none of which includes itself.
IncludesExact == IncludeTypeOK /\ StackIsCalls /\ NoFileInItself /\ OkIsWhole
=============================================================================
