------------------------------ MODULE JsonEval ------------------------------
(***************************************************************************)
(* jsonconfig.ConfigParser: evaluating the expressions of a decoded file,  *)
(* in place (evaluateExpressions, evalValue, expandEnv).                   *)
(*                                                                         *)
(* A value is a tree: atoms, ["_env", ...] expressions, lists and objects; *)
(* the objects given to CheckTypes may also hold Go values that no JSON    *)
(* decodes to.                                                             *)
(* Its lists and objects are Go slices and maps, which the evaluation      *)
(* changes under whoever holds them, so evaluating a node gives both its   *)
(* new value and what has become of the node itself. (["_fileobj", f] is   *)
(* in JsonInclude. Map iteration order is arbitrary; the values of an      *)
(* object are the sequence in which they are visited.)                     *)
(***************************************************************************)
EXTENDS Integers, Sequences, SequencesExt

CONSTANTS MaxLen   \* bound on the lengths of the lists enumerated

Str == [t |-> "str"]
Bool == [t |-> "bool"]
Unhandled == [t |-> "unhandled"]   \* an int, say: no case of the type switch
List(es) == [t |-> "list", es |-> es]
Object(es) == [t |-> "obj", es |-> es]

\* ["_env", "${VAR}", def]: what the variables expand to and the default.
Envs == [t : {"env"}, var : {"", "word", "true"}, def : {"none", "str", "bool", "other"}]

Leaf == {Str, Unhandled} \cup Envs
Lists(S) == {List(es) : es \in UNION {[1..n -> S] : n \in 0..MaxLen}}
Pairs(S) == {Object(<<v, w>>) : v, w \in S}
Inner == Leaf \cup Lists(Leaf) \cup {Object(<<v>>) : v \in Leaf}
Values == Inner \cup Lists(Inner) \cup {Object(<<v>>) : v \in Inner} \cup Pairs(Leaf)

VARIABLES
  m,       \* the object
  orig,    \* what it was at first
  op,      \* the last call: "none", "CheckTypes" or "ReadFile"
  err      \* its outcome: "nil", "error" or "panic"

vars == <<m, orig, op, err>>

Init ==
  /\ m \in {Object(<<v>>) : v \in Values} \cup Pairs(Inner)
  /\ orig = m
  /\ op = "none" /\ err = "nil"

\* The outcome of evaluating a node: its value, the node afterwards, the error.
Result(v, node, e) == [val |-> v, node |-> node, err |-> e]

-----------------------------------------------------------------------------
(* Slips the properties below must catch; no specification uses them.      *)

\* The elements are evaluated, and their values not stored.
evalListShared(v, rs) ==
  LET new == List([i \in 1..Len(rs) |-> rs[i].node])
  IN  Result(new, new, "nil")

-----------------------------------------------------------------------------
expandEnv(x) ==
  CASE x.def = "other"                    -> Result(Str, x, "error")
    [] x.var = "" /\ x.def = "none"       -> Result(Str, x, "error")
    [] x.var = "word" /\ x.def = "bool"   -> Result(Bool, x, "error")
    [] x.def = "bool"                     -> Result(Bool, x, "nil")
    [] OTHER                              -> Result(Str, x, "nil")

\* A list whose elements have the results rs: they are replaced one by one up
\* to the first that fails.
evalList(v, rs) ==
  LET bad == {i \in 1..Len(rs) : rs[i].err # "nil"}
      new == List([i \in 1..Len(rs) |->
               CASE \A j \in bad : i < j -> rs[i].val
                 [] i \in bad /\ \A j \in bad : i <= j -> rs[i].node
                 [] OTHER -> v.es[i]])
  IN  IF bad = {} THEN Result(new, new, "nil")
      ELSE Result(Str, new, rs[CHOOSE i \in bad : \A j \in bad : i <= j].err)

\* evalValue, which indexes sl[0] of every list.
RECURSIVE evalValue(_)
evalValue(v) ==
  CASE v.t = "env"                   -> expandEnv(v)
    [] v.t = "list" /\ v.es = <<>>   -> Result(v, v, "panic")
    [] v.t = "list" /\ v.es # <<>>   ->
         evalList(v, [i \in 1..Len(v.es) |-> evalValue(v.es[i])])
    [] OTHER                         -> Result(v, v, "nil")

\* evaluateExpressions: the object afterwards and the error. The first error
\* ends it, as does a value that no case handles; of a list, testOnly keeps
\* only the assignment m[k] = evaled away.
RECURSIVE evaluateExpressions(_, _)
evaluateExpressions(o, testOnly) ==
  LET One(v) ==
        CASE v.t = "obj" -> evaluateExpressions(v, testOnly)
          [] v.t = "env" \/ (v.t = "list" /\ v.es # <<>>) ->
               LET r == evalValue(v)
               IN  [node |-> IF r.err = "nil" /\ ~testOnly THEN r.val ELSE r.node,
                    err |-> r.err]
          [] v.t = "unhandled" -> [node |-> v, err |-> "error"]
          [] OTHER -> [node |-> v, err |-> "nil"]
      Visit(acc, v) ==
        LET r == One(v)
        IN  IF acc.err # "nil" THEN [acc EXCEPT !.es = Append(@, v)]
            ELSE [es |-> Append(acc.es, r.node), err |-> r.err]
      all == FoldLeft(Visit, [es |-> <<>>, err |-> "nil"], o.es)
  IN  [node |-> Object(all.es), err |-> all.err]

-----------------------------------------------------------------------------
RECURSIVE Exprs(_, _)
\* The expressions in v: those in objects that are list elements are left out
\* unless deep.
Exprs(v, deep) ==
  CASE v.t = "env" -> {v}
    [] v.t = "obj" -> UNION {Exprs(v.es[i], deep) : i \in 1..Len(v.es)}
    [] v.t = "list" ->
         UNION {IF v.es[i].t = "obj" /\ ~deep THEN {} ELSE Exprs(v.es[i], deep)
                  : i \in 1..Len(v.es)}
    [] OTHER -> {}

RECURSIVE HasUnhandled(_, _)
\* A value that no JSON decodes to is in v, in a list only if deep.
HasUnhandled(v, deep) ==
  \/ v.t = "unhandled"
  \/ /\ v.t = "obj" \/ (v.t = "list" /\ deep)
     /\ \E i \in 1..Len(v.es) : HasUnhandled(v.es[i], deep)

Evaluate(name, testOnly) ==
  LET r == evaluateExpressions(m, testOnly) IN
  /\ m' = r.node
  /\ err' = r.err
  /\ op' = name
  /\ UNCHANGED orig

\* Of any object, and once more of one that was checked before.
CheckTypes ==
  /\ op # "ReadFile" /\ err # "panic"
  /\ Evaluate("CheckTypes", TRUE)

\* The evaluation at the end of recursiveReadJSON, of what it has decoded.
ReadFile ==
  /\ op = "none" /\ ~HasUnhandled(m, TRUE)
  /\ Evaluate("ReadFile", FALSE)

Next == CheckTypes \/ ReadFile

Spec == Init /\ [][Next]_vars

-----------------------------------------------------------------------------
\* No value that the expression can have: its default is neither a string nor
\* a bool, or a bool is wanted and the variable is none, or nothing is given.
Unfit(x) == x.def = "other" \/ <<x.var, x.def>> \in {<<"", "none">>, <<"word", "bool">>}

RECURSIVE Meaning(_)
\* What a file means: each expression in it stands for its value.
Meaning(v) ==
  CASE v.t = "env" -> IF v.def = "bool" THEN Bool ELSE Str
    [] v.t = "obj" -> Object([i \in 1..Len(v.es) |-> Meaning(v.es[i])])
    [] v.t = "list" -> List([i \in 1..Len(v.es) |-> Meaning(v.es[i])])
    [] OTHER -> v

RECURSIVE Means(_, _)
\* v is what o means, where of an object in a list it may also be what o was.
Means(v, o) ==
  CASE o.t = "obj" -> v.t = "obj" /\ \A i \in 1..Len(o.es) : Means(v.es[i], o.es[i])
    [] o.t = "list" ->
         /\ v.t = "list" /\ Len(v.es) = Len(o.es)
         /\ \A i \in 1..Len(o.es) :
              Means(v.es[i], o.es[i]) \/ (o.es[i].t = "obj" /\ v.es[i] = o.es[i])
    [] OTHER -> v = Meaning(o)

RECURSIVE KeptBut(_, _)
\* v is o but for lists, whose elements may have become what they mean.
KeptBut(v, o) ==
  CASE o.t = "obj" -> v.t = "obj" /\ \A i \in 1..Len(o.es) : KeptBut(v.es[i], o.es[i])
    [] o.t = "list" ->
         /\ v.t = "list" /\ Len(v.es) = Len(o.es)
         /\ \A i \in 1..Len(o.es) :
              KeptBut(v.es[i], o.es[i]) \/ Means(v.es[i], o.es[i])
    [] OTHER -> v = o

\* ReadFile gives the file its meaning. Nothing is said of the expressions in
\* objects that are list elements (see ExpandsAll).
ReadIsMeaning == op = "ReadFile" /\ err = "nil" => Means(m, orig)

\* CheckTypes and ReadFile fail for the same objects, those with an unfit
\* expression or an unhandled value, in whatever order the values are visited.
\* Nothing is said of expressions in objects that are list elements, nor of
\* unhandled values in lists (see CheckFindsAll).
ErrorMeansUnfit ==
  op # "none" /\ err # "panic" =>
    /\ (\E x \in Exprs(orig, FALSE) : Unfit(x)) \/ HasUnhandled(orig, FALSE) => err = "error"
    /\ err = "error" => (\E x \in Exprs(orig, TRUE) : Unfit(x)) \/ HasUnhandled(orig, TRUE)

\* CheckTypes, also when it fails half way or is called again, leaves the object
\* alone but for the elements of lists, which it replaces by their values.
CheckKeepsOutsideLists == op = "CheckTypes" => KeptBut(m, orig)

\* "evaluateExpressions parses recursively m, populating it with the values
\* that are found, unless testOnly is true": CheckTypes leaves m alone.
CheckLeavesObject == op = "CheckTypes" => m = orig

\* "CheckTypes parses m and returns an error if it encounters a type or value
\* that is not supported by this package": it returns.
NoPanic == err # "panic"

\* The same comment: it returns an error, wherever the value is.
CheckFindsAll == op = "CheckTypes" /\ HasUnhandled(orig, TRUE) => err = "error"

\* "ReadFile reads JSON config data from the specified open file, expanding all
\* expressions."
ExpandsAll == op = "ReadFile" /\ err = "nil" => Exprs(m, TRUE) = {}
=============================================================================
