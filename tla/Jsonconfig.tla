----------------------------- MODULE Jsonconfig -----------------------------
(***************************************************************************)
(* Package jsonconfig for TLC: the include recursion of JsonInclude, the   *)
(* evaluation of expressions of JsonEval and the accessors of JsonObj. They *)
(* work on different data (the include graph, the tree of one file, the    *)
(* kinds of its values), so a behaviour exercises one of them, chosen at   *)
(* first, and leaves the others alone.                                     *)
(***************************************************************************)
EXTENDS JsonInclude, JsonObj

CONSTANT MaxLen   \* of JsonEval

ASSUME MaxLenAssumption == MaxLen \in Nat

VARIABLES
  part,               \* the part exercised
  m, orig, op, err    \* JsonEval

evalVars == <<m, orig, op, err>>
allVars == <<part, includeVars, evalVars, objVars>>

Eval == INSTANCE JsonEval

\* The data a part that is left alone has.
IncludesNothing == IncludeInit /\ includes = [d \in Doc |-> {}]
EvaluatesNothing ==
  m = Eval!Object(<<>>) /\ orig = m /\ op = "none" /\ err = "nil"
AsksNothing ==
  /\ obj = [k \in Key \cup Comment |-> Absent]
  /\ known = {} /\ errs = <<>> /\ panicked = FALSE
  /\ asked = {} /\ unread = {} /\ valid = "none"

AllInit ==
  \/ part = "include" /\ IncludeInit /\ EvaluatesNothing /\ AsksNothing
  \/ part = "eval" /\ IncludesNothing /\ Eval!Init /\ AsksNothing
  \/ part = "access" /\ IncludesNothing /\ EvaluatesNothing /\ ObjInit

AllNext ==
  \/ part = "include" /\ IncludeNext /\ UNCHANGED <<part, evalVars, objVars>>
  \/ part = "eval" /\ Eval!Next /\ UNCHANGED <<part, includeVars, objVars>>
  \/ part = "access" /\ ObjNext /\ UNCHANGED <<part, includeVars, evalVars>>

AllSpec == AllInit /\ [][AllNext]_allVars

-----------------------------------------------------------------------------
\* ReadFile and CheckTypes fail for the same objects, those with an unfit
\* expression or a value of an unhandled type, in any order of visits; ReadFile
\* gives the expressions of the others their values; CheckTypes changes nothing
\* outside lists. Of objects that are list elements, which the evaluation does
\* not enter, and of unhandled values in lists nothing is said.
EvalExact ==
  Eval!ReadIsMeaning /\ Eval!ErrorMeansUnfit /\ Eval!CheckKeepsOutsideLists
=============================================================================
