------------------------- MODULE SingleFlightProofs -------------------------
(***************************************************************************)
(* Proofs about Group.Do for any number of goroutines, keys and calls.     *)
(***************************************************************************)
EXTENDS SingleFlight, TLAPS

\* A leader's call is the one registered under its key, and no two leaders
\* share a call: new(call) returns memory nobody points to.
Registered ==
  \A p \in Proc : Leading(p) => m[key[p]] = cur[p]

DistinctCalls ==
  \A p, q \in Proc : Leading(p) /\ Leading(q) /\ cur[p] = cur[q] => p = q

\* Once fn has returned the call holds its result.
Stored ==
  \A p \in Proc : pc[p] \in {"signal", "forget"} => val[cur[p]] \in Val

\* wg is released only after the result was stored.
DoneStored == \A c \in LiveCalls : c # None /\ wgDone[c] => val[c] \in Val

\* A leader that has not called wg.Done has not released its call.
NotYetDone ==
  \A p \in Proc : pc[p] \in {"exec", "signal"} => ~wgDone[cur[p]]

SafeInv == Registered /\ DistinctCalls /\ Stored /\ DoneStored /\ NotYetDone

\* Do's variables have their types in every reachable state.
THEOREM TypeCorrect == Spec => []TypeOK
<1>1. Init => TypeOK
  BY DEF Init, TypeOK
<1>2. TypeOK /\ [Next]_sfVars => TypeOK'
  <2> SUFFICES ASSUME TypeOK, [Next]_sfVars PROVE TypeOK'
    OBVIOUS
  <2> USE NoneAssumption DEF TypeOK
  <2>1. CASE UNCHANGED sfVars
    BY <2>1 DEF sfVars
  <2>2. ASSUME NEW p \in Proc, NEW k \in Key, Join(p, k) PROVE TypeOK'
    BY <2>2 DEF Join
  <2>3. ASSUME NEW p \in Proc, NEW k \in Key, Lead(p, k) PROVE TypeOK'
    BY <2>3 DEF Lead
  <2>4. ASSUME NEW p \in Proc, NEW v \in Val, FnReturn(p, v) PROVE TypeOK'
    BY <2>4 DEF FnReturn
  <2>5. ASSUME NEW p \in Proc, FnPanic(p) PROVE TypeOK'
    BY <2>5 DEF FnPanic
  <2>6. ASSUME NEW p \in Proc, WgDone(p) PROVE TypeOK'
    BY <2>6 DEF WgDone
  <2>7. ASSUME NEW p \in Proc, Forget(p) PROVE TypeOK'
    BY <2>7 DEF Forget
  <2>8. ASSUME NEW p \in Proc, WaitReturn(p) PROVE TypeOK'
    BY <2>8 DEF WaitReturn
  <2>9. QED
    BY <2>1, <2>2, <2>3, <2>4, <2>5, <2>6, <2>7, <2>8 DEF Next, Step
<1>3. QED
  BY <1>1, <1>2, PTL DEF Spec

\* The inductive invariant behind the safety properties.
THEOREM Safe == Spec => []SafeInv
<1>1. Init => SafeInv
  BY NoneAssumption
  DEF Init, SafeInv, Registered, DistinctCalls, Stored, DoneStored, NotYetDone,
      Leading, LiveCalls
<1>2. TypeOK /\ TypeOK' /\ SafeInv /\ [Next]_sfVars => SafeInv'
  <2> SUFFICES ASSUME TypeOK, TypeOK', SafeInv, [Next]_sfVars PROVE SafeInv'
    OBVIOUS
  <2> USE NoneAssumption, UnsetAssumption
      DEF TypeOK, SafeInv, Registered, DistinctCalls, Stored, DoneStored,
          NotYetDone, Leading, LiveCalls
  <2>1. CASE UNCHANGED sfVars
    BY <2>1 DEF sfVars
  <2>2. ASSUME NEW p \in Proc, NEW k \in Key, Join(p, k) PROVE SafeInv'
    BY <2>2 DEF Join
  <2>3. ASSUME NEW p \in Proc, NEW k \in Key, Lead(p, k) PROVE SafeInv'
    <3> PICK c \in Call \ LiveCalls :
          /\ cur' = [cur EXCEPT ![p] = c]
          /\ m' = [m EXCEPT ![k] = c]
          /\ wgDone' = [wgDone EXCEPT ![c] = FALSE]
          /\ val' = [val EXCEPT ![c] = Unset]
      BY <2>3 DEF Lead
    <3>1. \A q \in Proc : cur[q] # c
      OBVIOUS
    <3>2. \A j \in Key : m[j] # c
      OBVIOUS
    <3>3. \A q \in Proc \ {p} :
            pc'[q] = pc[q] /\ key'[q] = key[q] /\ cur'[q] = cur[q]
      BY <2>3 DEF Lead
    <3>4. pc'[p] = "exec" /\ key'[p] = k /\ cur'[p] = c
      BY <2>3 DEF Lead
    <3>5. Registered' /\ DistinctCalls'
      BY <2>3, <3>1, <3>3, <3>4 DEF Lead
    <3>6. Stored' /\ NotYetDone'
      BY <2>3, <3>1, <3>3, <3>4
    <3>7. DoneStored'
      BY <2>3, <3>1, <3>2, <3>3, <3>4
    <3>8. QED
      BY <3>5, <3>6, <3>7
  <2>4. ASSUME NEW p \in Proc, NEW v \in Val, FnReturn(p, v) PROVE SafeInv'
    BY <2>4 DEF FnReturn
  <2>5. ASSUME NEW p \in Proc, FnPanic(p) PROVE SafeInv'
    BY <2>5 DEF FnPanic
  <2>6. ASSUME NEW p \in Proc, WgDone(p) PROVE SafeInv'
    BY <2>6 DEF WgDone
  <2>7. ASSUME NEW p \in Proc, Forget(p) PROVE SafeInv'
    BY <2>7 DEF Forget
  <2>8. ASSUME NEW p \in Proc, WaitReturn(p) PROVE SafeInv'
    BY <2>8 DEF WaitReturn
  <2>9. QED
    BY <2>1, <2>2, <2>3, <2>4, <2>5, <2>6, <2>7, <2>8 DEF Next, Step
<1>3. QED
  BY <1>1, <1>2, TypeCorrect, PTL DEF Spec

\* Do never runs fn twice at once for one key, for any number of goroutines.
THEOREM OneInFlightHolds == Spec => []OneInFlight
<1>1. SafeInv => OneInFlight
  BY DEF SafeInv, Registered, DistinctCalls, OneInFlight, Leading
<1>2. QED
  BY <1>1, Safe, PTL

\* A duplicate caller that wg.Wait releases gets what fn returned.
THEOREM DuplicateGetsResultHolds == Spec => []DuplicateGetsResult
<1>1. TypeOK /\ SafeInv => DuplicateGetsResult
  BY NoneAssumption
  DEF TypeOK, SafeInv, DoneStored, DuplicateGetsResult, LiveCalls
<1>2. QED
  BY <1>1, Safe, TypeCorrect, PTL

\* Do's second critical section only deletes its own registration.
THEOREM ForgetsOwnCallHolds == Spec => ForgetsOwnCall
<1>1. SafeInv /\ [Next]_sfVars
        => [\A p \in Proc : Forget(p) => m[key[p]] = cur[p]]_sfVars
  BY DEF SafeInv, Registered, Leading, Forget
<1>2. QED
  BY <1>1, Safe, PTL DEF Spec, ForgetsOwnCall
=============================================================================
