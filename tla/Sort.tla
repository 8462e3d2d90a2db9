-------------------------------- MODULE Sort --------------------------------
(***************************************************************************)
(* Package sort for TLC: Sort (QuickSort over DoPivot), Stable             *)
(* (StableSort) and Search. They share nothing, so a behaviour is a call   *)
(* of one of them, chosen at first.                                        *)
(***************************************************************************)
EXTENDS QuickSort

CONSTANTS
  MaxN, Key, BlockSize,   \* of StableSort
  MaxInt                  \* of Search

ASSUME StableAssumption == MaxN \in Nat /\ BlockSize \in Nat \ {0}
ASSUME MaxIntAssumption == MaxInt \in Nat

VARIABLES
  call,                                                          \* the function called
  stN, stData, stBlockSize, stA, stPc, stFrames,                 \* StableSort
  seN, seF, seI, seJ, seProbes, seRet                            \* Search

stableVars == <<stN, stData, stBlockSize, stA, stPc, stFrames>>
searchVars == <<seN, seF, seI, seJ, seProbes, seRet>>
allVars == <<call, vars, stableVars, searchVars>>

St == INSTANCE StableSort WITH
        n <- stN, data <- stData, blockSize <- stBlockSize, a <- stA, pc <- stPc,
        frames <- stFrames
Se == INSTANCE Search WITH
        n <- seN, f <- seF, i <- seI, j <- seJ, probes <- seProbes, ret <- seRet

\* The functions that are not called have one state.
NoSort ==
  /\ order = "any" /\ at = "loop"
  /\ \E v \in Val : (\A w \in Val : v <= w) /\ data = [i \in Index |-> v]
  /\ frames = <<[a |-> 0, b |-> N, d |-> 1]>>
  /\ SortInit
NoStable == stN = 0 /\ St!Init
NoSearch == seN = 0 /\ Se!Init

AllInit ==
  \/ call = "Sort" /\ SortInit /\ NoStable /\ NoSearch
  \/ call = "Stable" /\ NoSort /\ St!Init /\ NoSearch
  \/ call = "Search" /\ NoSort /\ NoStable /\ Se!Init

AllNext ==
  \/ call = "Sort" /\ SortNext /\ UNCHANGED <<call, stableVars, searchVars>>
  \/ call = "Stable" /\ St!Next /\ UNCHANGED <<call, vars, searchVars>>
  \/ call = "Search" /\ Se!Next /\ UNCHANGED <<call, vars, stableVars>>

\* Nothing but the caller's Less, Swap or f can stop them, and these return.
AllSpec == AllInit /\ [][AllNext]_allVars /\ WF_allVars(AllNext)

-----------------------------------------------------------------------------
\* Sort sorts, and does so on a stack that is logarithmic in the length of the
\* slice, whatever Less answers: quickSort recurses into the smaller part.
SortExact == Sorted /\ StackDepth

\* Stable sorts and keeps the order of equal elements, and its symMerge is
\* called on two sorted runs that are not empty, as it assumes.
StableExact == St!SortedStably /\ St!CallsAreMerges

\* Search calls f for indices of the slice only, although i+j overflows, and
\* returns a place where f turns from false to true, the smallest one for a
\* monotone f.
SearchExact == Se!TypeOK /\ Se!ProbesInRange /\ Se!Turns /\ Se!Smallest

\* What the three return is what their comments promise.
ResultsExact == SortExact /\ StableExact /\ SearchExact

\* Sort, Stable and Search return, Sort whatever Less answers.
Returns ==
  <>CASE call = "Sort" -> frames = <<>>
      [] call = "Stable" -> stPc = "done"
      [] call = "Search" -> seRet # -1
=============================================================================
