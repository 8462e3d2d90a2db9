----------------------------- MODULE PoolProofs -----------------------------
(***************************************************************************)
(* Proofs about the primitives of package syncutil, each alone and at work *)
(* together in a pool of workers: for any number of goroutines, any sizes  *)
(* of the Sem and the Gate, and any number of jobs.                        *)
(***************************************************************************)
EXTENDS Pool, Sequences, FiniteSetTheorems, TLAPS

-----------------------------------------------------------------------------
(* Sem                                                                     *)

\* The units goroutine p has while it is using k of them.
UnitsOf(p, k) == {p} \X (1..k)

LEMMA UnitsOfCardinality ==
  ASSUME NEW p, NEW k \in Nat
  PROVE  IsFiniteSet(UnitsOf(p, k)) /\ Cardinality(UnitsOf(p, k)) = k
<1>1. IsFiniteSet({p}) /\ Cardinality({p}) = 1
  BY FS_Singleton
<1>2. IsFiniteSet(1..k) /\ Cardinality(1..k) = k
  BY FS_Interval
<1>3. /\ IsFiniteSet({p} \X (1..k))
      /\ Cardinality({p} \X (1..k)) = Cardinality({p}) * Cardinality(1..k)
  BY <1>1, <1>2, FS_Product
<1>4. QED
  BY <1>1, <1>2, <1>3 DEF UnitsOf

SemInv == TypeOK /\ NoLostWakeup /\ IsFiniteSet(Held) /\ Conservation

\* Acquire's loop takes exactly the units that free loses.
LEMMA TakeConserves ==
  ASSUME SemInv, NEW p \in Proc, Take(p)
  PROVE  IsFiniteSet(Held)' /\ Conservation'
<1> USE SizeAssumption DEF SemInv, TypeOK
<1>1. Held' = Held \cup UnitsOf(p, n[p]) /\ Held \cap UnitsOf(p, n[p]) = {}
  BY DEF Take, Held, UnitsOf
<1>2. n[p] \in Nat
  OBVIOUS
<1>3. IsFiniteSet(UnitsOf(p, n[p])) /\ Cardinality(UnitsOf(p, n[p])) = n[p]
  BY <1>2, UnitsOfCardinality
<1>4. IsFiniteSet(Held')
      /\ Cardinality(Held') = Cardinality(Held) + n[p] - Cardinality({})
  BY <1>1, <1>3, FS_Union
<1>5. Cardinality(Held) \in Nat /\ Cardinality({}) = 0
  BY FS_CardinalityType, FS_EmptySet
<1>6. QED
  BY <1>2, <1>4, <1>5 DEF Take, Conservation

\* Release gives back exactly the units that free gains.
LEMMA ReleaseConserves ==
  ASSUME SemInv, NEW p \in Proc, Release(p)
  PROVE  IsFiniteSet(Held)' /\ Conservation'
<1> USE SizeAssumption DEF SemInv, TypeOK
<1>1. Held' = Held \ UnitsOf(p, n[p]) /\ Held \cap UnitsOf(p, n[p]) = UnitsOf(p, n[p])
  BY DEF Release, Woken, Held, UnitsOf
<1>2. n[p] \in Nat
  OBVIOUS
<1>3. Cardinality(UnitsOf(p, n[p])) = n[p]
  BY <1>2, UnitsOfCardinality
<1>4. IsFiniteSet(Held') /\ Cardinality(Held') = Cardinality(Held) - n[p]
  BY <1>1, <1>3, FS_Difference
<1>5. Cardinality(Held) \in Nat
  BY FS_CardinalityType
<1>6. QED
  BY <1>2, <1>4, <1>5 DEF Release, Conservation

\* Acquire and Release keep the types and the units, and nobody sleeps in
\* c.Wait who could have its units.
LEMMA SemInvHolds == Spec => []SemInv
<1> USE SizeAssumption DEF SemInv, TypeOK, NoLostWakeup
<1>1. Init => SemInv
  <2> SUFFICES ASSUME Init PROVE SemInv
    OBVIOUS
  <2>1. Held = {}
    BY DEF Init, Held
  <2>2. QED
    BY <2>1, FS_EmptySet DEF Init, Conservation
<1>2. SemInv /\ [Next]_vars => SemInv'
  <2> SUFFICES ASSUME SemInv, [Next]_vars PROVE SemInv'
    OBVIOUS
  <2>1. CASE UNCHANGED vars
    BY <2>1 DEF vars, Held, Conservation
  <2>2. ASSUME NEW p \in Proc, NEW k \in 0..Size, Acquire(p, k) PROVE SemInv'
    <3>1. Held' = Held
      BY <2>2 DEF Acquire, Held
    <3>2. QED
      BY <2>2, <3>1 DEF Acquire, Conservation
  <2>3. ASSUME NEW p \in Proc, Take(p) PROVE SemInv'
    <3>1. TypeOK' /\ NoLostWakeup'
      BY <2>3 DEF Take
    <3>2. QED
      BY <2>3, <3>1, TakeConserves
  <2>4. ASSUME NEW p \in Proc, Wait(p) PROVE SemInv'
    <3>1. Held' = Held
      BY <2>4 DEF Wait, Held
    <3>2. QED
      BY <2>4, <3>1 DEF Wait, Conservation
  <2>5. ASSUME NEW p \in Proc, Release(p) PROVE SemInv'
    <3>1. TypeOK' /\ NoLostWakeup'
      BY <2>5 DEF Release, Woken
    <3>2. QED
      BY <2>5, <3>1, ReleaseConserves
  <2>6. ASSUME NEW p \in Proc, AcquireFails(p, Size + 1) PROVE SemInv'
    BY <2>6 DEF AcquireFails, vars, Held, Conservation
  <2>7. QED
    BY <2>1, <2>2, <2>3, <2>4, <2>5, <2>6 DEF Next
<1>3. QED
  BY <1>1, <1>2, PTL DEF Spec

\* Sem loses no unit and no wake-up, whoever calls Acquire and Release in pairs.
THEOREM SemSound == Spec => [](TypeOK /\ Conservation /\ NoLostWakeup)
BY SemInvHolds, PTL DEF SemInv

\* Sem implements the safety part of the abstract semaphore.
THEOREM SemImplements == Spec => ImplementsSafely
<1> USE SizeAssumption DEF Phase
<1>1. Init => Abs!Init
  BY DEF Init, Abs!Init
<1>2. SemInv /\ [Next]_vars => [Abs!Next]_(Abs!semVars)
  <2> SUFFICES ASSUME SemInv, [Next]_vars PROVE [Abs!Next]_(Abs!semVars)
    OBVIOUS
  <2> USE DEF SemInv, TypeOK, Abs!semVars
  <2>1. CASE UNCHANGED vars
    BY <2>1 DEF vars
  <2>2. ASSUME NEW p \in Proc, NEW k \in 0..Size, Acquire(p, k)
        PROVE  Abs!Request(p, k)
    BY <2>2 DEF Acquire, Abs!Request
  <2>3. ASSUME NEW p \in Proc, Take(p) PROVE Abs!Grant(p)
    BY <2>3 DEF Take, Abs!Grant
  <2>4. ASSUME NEW p \in Proc, Wait(p) PROVE UNCHANGED Abs!semVars
    BY <2>4 DEF Wait
  <2>5. ASSUME NEW p \in Proc, Release(p) PROVE Abs!Return(p)
    BY <2>5 DEF Release, Woken, Abs!Return
  <2>6. ASSUME NEW p \in Proc, AcquireFails(p, Size + 1)
        PROVE  UNCHANGED Abs!semVars
    BY <2>6 DEF AcquireFails, vars
  <2>7. QED
    BY <2>1, <2>2, <2>3, <2>4, <2>5, <2>6 DEF Next, Abs!Next
<1>3. QED
  BY <1>1, <1>2, SemInvHolds, PTL DEF Spec, ImplementsSafely, Abs!Spec

-----------------------------------------------------------------------------
(* Gate                                                                    *)

Running == {p \in Proc : gatePc[p] = "running"}

\* The channel has one element for each goroutine between Start and Done, and
\* the goroutines in its queue are blocked, each of them once.
GateInv ==
  /\ TheGate!TypeOK
  /\ IsFiniteSet(Running) /\ len = Cardinality(Running)
  /\ \A p \in Proc : gatePc[p] # "panicked"
  /\ \A i \in 1..Len(sendq) : gatePc[sendq[i]] = "blocked"
  /\ \A i, j \in 1..Len(sendq) : sendq[i] = sendq[j] => i = j
  /\ TheGate!BlockedMeansFull

\* Whoever is between Start and Done has an element in the channel.
LEMMA RunningHasSlot == GateInv => TheGate!NoPanic
<1> SUFFICES ASSUME GateInv, NEW p \in Proc, gatePc[p] = "running" PROVE len > 0
  BY DEF GateInv, TheGate!NoPanic
<1>1. Running # {}
  BY DEF Running
<1>2. Cardinality(Running) # 0 /\ Cardinality(Running) \in Nat
  BY <1>1, FS_EmptySet, FS_CardinalityType DEF GateInv
<1>3. QED
  BY <1>2 DEF GateInv

\* The inductive invariant of Start and Done.
LEMMA GateInvHolds == TheGate!Spec => []GateInv
<1> USE MaxAssumption
<1>1. TheGate!Init => GateInv
  <2> SUFFICES ASSUME TheGate!Init PROVE GateInv
    OBVIOUS
  <2>1. Running = {}
    BY DEF TheGate!Init, Running
  <2>2. QED
    BY <2>1, FS_EmptySet
       DEF TheGate!Init, GateInv, TheGate!TypeOK, TheGate!BlockedMeansFull
<1>2. GateInv /\ [TheGate!Next]_(TheGate!vars) => GateInv'
  <2> SUFFICES ASSUME GateInv, [TheGate!Next]_(TheGate!vars) PROVE GateInv'
    OBVIOUS
  <2>0. TheGate!NoPanic
    BY RunningHasSlot
  <2> USE DEF GateInv, TheGate!TypeOK, TheGate!BlockedMeansFull
  <2>1. CASE UNCHANGED TheGate!vars
    BY <2>1 DEF TheGate!vars, Running
  <2>2. ASSUME NEW p \in Proc, TheGate!Start(p) PROVE GateInv'
    <3>1. Running' = Running \cup {p} /\ p \notin Running
      BY <2>2 DEF TheGate!Start, Running
    <3>2. IsFiniteSet(Running') /\ Cardinality(Running') = Cardinality(Running) + 1
      BY <3>1, FS_AddElement
    <3>3. QED
      BY <2>2, <3>2 DEF TheGate!Start
  <2>3. ASSUME NEW p \in Proc, TheGate!StartBlocks(p) PROVE GateInv'
    <3>1. Running' = Running
      BY <2>3 DEF TheGate!StartBlocks, Running
    <3>2. /\ sendq' \in Seq(Proc) /\ Len(sendq') = Len(sendq) + 1
          /\ sendq'[Len(sendq) + 1] = p
          /\ \A i \in 1..Len(sendq) : sendq'[i] = sendq[i] /\ sendq[i] # p
      BY <2>3 DEF TheGate!StartBlocks
    <3>3. /\ \A i \in 1..Len(sendq') : gatePc'[sendq'[i]] = "blocked"
          /\ \A i, j \in 1..Len(sendq') : sendq'[i] = sendq'[j] => i = j
      BY <2>3, <3>2 DEF TheGate!StartBlocks
    <3>4. QED
      BY <2>3, <3>1, <3>2, <3>3 DEF TheGate!StartBlocks
  <2>4. ASSUME NEW p \in Proc, TheGate!Done(p) PROVE GateInv'
    <3>1. len > 0
      BY <2>0, <2>4 DEF TheGate!NoPanic, TheGate!Done
    <3>2. Running' = Running \ {p} /\ p \in Running
      BY <2>4, <3>1 DEF TheGate!Done, Running
    <3>3. IsFiniteSet(Running') /\ Cardinality(Running') = Cardinality(Running) - 1
      BY <3>2, FS_RemoveElement
    <3>4. QED
      BY <2>4, <3>1, <3>3 DEF TheGate!Done
  <2>5. ASSUME NEW p \in Proc, TheGate!DonePass(p) PROVE GateInv'
    <3> DEFINE q == sendq[1]
    <3>1. /\ q = Head(sendq) /\ q \in Proc /\ gatePc[q] = "blocked" /\ p # q
          /\ sendq' \in Seq(Proc) /\ Len(sendq') = Len(sendq) - 1
          /\ \A i \in 1..Len(sendq') : i + 1 \in 1..Len(sendq) /\ sendq'[i] = sendq[i + 1]
      BY <2>5 DEF TheGate!DonePass
    <3>2. ASSUME NEW i \in 1..Len(sendq') PROVE sendq'[i] # q
      <4>1. i + 1 \in 1..Len(sendq) /\ 1 \in 1..Len(sendq) /\ i + 1 # 1
        BY <3>1
      <4>2. QED
        BY <3>1, <4>1
    <3>3. Running' = (Running \ {p}) \cup {q} /\ p \in Running /\ q \notin Running \ {p}
      BY <2>5, <3>1 DEF TheGate!DonePass, Running
    <3>4. /\ IsFiniteSet(Running \ {p})
          /\ Cardinality(Running \ {p}) = Cardinality(Running) - 1
      BY <3>3, FS_RemoveElement
    <3>5. IsFiniteSet(Running') /\ Cardinality(Running') = len - 1 + 1
      <4>1. /\ IsFiniteSet((Running \ {p}) \cup {q})
            /\ Cardinality((Running \ {p}) \cup {q}) = Cardinality(Running \ {p}) + 1
        BY <3>3, <3>4, FS_AddElement, ZenonT(60)
      <4>2. QED
        BY <3>3, <3>4, <4>1
    <3>6. QED
      BY <2>5, <3>1, <3>2, <3>5 DEF TheGate!DonePass
  <2>6. QED
    BY <2>1, <2>2, <2>3, <2>4, <2>5 DEF TheGate!Next
<1>3. QED
  BY <1>1, <1>2, PTL DEF TheGate!Spec

\* Done never finds the channel empty, and Start blocks only while it is full.
THEOREM GateSound == TheGate!Spec => [](TheGate!NoPanic /\ TheGate!BlockedMeansFull)
<1>1. GateInv => TheGate!NoPanic /\ TheGate!BlockedMeansFull
  BY RunningHasSlot DEF GateInv
<1>2. QED
  BY <1>1, GateInvHolds, PTL

\* Gate implements the safety part of the abstract semaphore.
THEOREM GateImplements == TheGate!Spec => TheGate!ImplementsSafely
<1> USE MaxAssumption
<1>1. TheGate!Init => TheGate!Abs!Init
  BY DEF TheGate!Init, TheGate!Abs!Init, TheGate!Phase, TheGate!Units
<1>2. GateInv /\ [TheGate!Next]_(TheGate!vars)
        => [TheGate!Abs!Next]_(TheGate!Abs!semVars)
  <2> SUFFICES ASSUME GateInv, [TheGate!Next]_(TheGate!vars)
               PROVE  [TheGate!Abs!Next]_(TheGate!Abs!semVars)
    OBVIOUS
  <2>0. TheGate!NoPanic
    BY RunningHasSlot
  <2> USE DEF GateInv, TheGate!TypeOK, TheGate!Abs!semVars, TheGate!Phase, TheGate!Units
  <2>1. CASE UNCHANGED TheGate!vars
    BY <2>1 DEF TheGate!vars
  <2>2. ASSUME NEW p \in Proc, TheGate!Start(p) PROVE TheGate!Abs!RequestGranted(p, 1)
    <3>1. 1 <= Max - len /\ (Max - len)' = Max - len - 1
      BY <2>2 DEF TheGate!Start
    <3>2. QED
      BY <2>2, <3>1 DEF TheGate!Start, TheGate!Abs!RequestGranted
  <2>3. ASSUME NEW p \in Proc, TheGate!StartBlocks(p) PROVE TheGate!Abs!Request(p, 1)
    BY <2>3 DEF TheGate!StartBlocks, TheGate!Abs!Request
  <2>4. ASSUME NEW p \in Proc, TheGate!Done(p) PROVE TheGate!Abs!Return(p)
    <3>1. (Max - len)' = Max - len + 1 /\ gatePc' = [gatePc EXCEPT ![p] = "idle"]
      BY <2>0, <2>4 DEF TheGate!Done, TheGate!NoPanic
    <3>2. QED
      BY <2>4, <3>1 DEF TheGate!Done, TheGate!Abs!Return
  <2>5. ASSUME NEW p \in Proc, TheGate!DonePass(p)
        PROVE  \E q \in Proc : TheGate!Abs!Pass(p, q)
    <3>1. PICK q \in Proc : q = Head(sendq) /\ gatePc[q] = "blocked"
      BY <2>5 DEF TheGate!DonePass
    <3>2. /\ gatePc[p] = "running" /\ p # q
          /\ gatePc' = [gatePc EXCEPT ![p] = "idle", ![q] = "running"]
          /\ (Max - len)' = Max - len + 1 - 1 /\ 1 <= Max - len + 1
      BY <2>5, <3>1 DEF TheGate!DonePass
    <3>3. TheGate!Abs!Pass(p, q)
      BY <3>1, <3>2 DEF TheGate!Abs!Pass
    <3>4. QED
      BY <3>3
  <2>6. QED
    BY <2>1, <2>2, <2>3, <2>4, <2>5 DEF TheGate!Next, TheGate!Abs!Next
<1>3. QED
  BY <1>1, <1>2, GateInvHolds, PTL
     DEF TheGate!Spec, TheGate!ImplementsSafely, TheGate!Abs!Spec

-----------------------------------------------------------------------------
(* Once                                                                    *)

\* f has succeeded once its goroutine is about to store done, or has; until
\* then, it may run.
OnceInv ==
  /\ TheOnce!TypeOK
  /\ TheOnce!SucceedsOnce /\ TheOnce!NilMeansDone
  /\ done => ok = 1
  /\ ok = 1 => done \/ \E p \in Proc : oncePc[p] = "store"
  /\ \A p \in Proc : oncePc[p] = "store" => ok = 1
  /\ \A p \in Proc : oncePc[p] \in {"run", "store"} => ~done

\* The inductive invariant of Do.
LEMMA OnceInvHolds == TheOnce!Spec => []OnceInv
<1> USE NoneAssumption DEF OnceInv, TheOnce!TypeOK, TheOnce!SucceedsOnce, TheOnce!NilMeansDone
<1>1. TheOnce!Init => OnceInv
  <2> SUFFICES ASSUME TheOnce!Init PROVE OnceInv
    OBVIOUS
  <2>1. done \in BOOLEAN /\ ~done
    BY DEF TheOnce!Init
  <2>2. QED
    BY <2>1 DEF TheOnce!Init
<1>2. OnceInv /\ [TheOnce!Next]_(TheOnce!vars) => OnceInv'
  <2> SUFFICES ASSUME OnceInv, [TheOnce!Next]_(TheOnce!vars) PROVE OnceInv'
    OBVIOUS
  <2> USE DEF TheOnce!Goto, TheOnce!Return
  <2>1. CASE UNCHANGED TheOnce!vars
    BY <2>1 DEF TheOnce!vars
  <2>2. ASSUME NEW p \in Proc, TheOnce!Fast(p) PROVE OnceInv'
    BY <2>2 DEF TheOnce!Fast
  <2>3. ASSUME NEW p \in Proc, TheOnce!Slow(p) PROVE OnceInv'
    BY <2>3 DEF TheOnce!Slow
  <2>4. ASSUME NEW p \in Proc, TheOnce!Enter(p) PROVE OnceInv'
    BY <2>4 DEF TheOnce!Enter
  <2>5. ASSUME NEW p \in Proc, TheOnce!EnterDone(p) PROVE OnceInv'
    BY <2>5 DEF TheOnce!EnterDone
  <2>6. ASSUME NEW p \in Proc, TheOnce!Succeeds(p) PROVE OnceInv'
    BY <2>6 DEF TheOnce!Succeeds
  <2>7. ASSUME NEW p \in Proc, TheOnce!Store(p) PROVE OnceInv'
    BY <2>7 DEF TheOnce!Store
  <2>8. ASSUME NEW p \in Proc, TheOnce!Fails(p) PROVE OnceInv'
    BY <2>8 DEF TheOnce!Fails
  <2>9. QED
    BY <2>1, <2>2, <2>3, <2>4, <2>5, <2>6, <2>7, <2>8 DEF TheOnce!Next, TheOnce!Progress
<1>3. QED
  BY <1>1, <1>2, PTL DEF TheOnce!Spec

\* f succeeds once at most, and a Do that returns nil has that behind it.
THEOREM OnceSound == TheOnce!Spec => [](TheOnce!SucceedsOnce /\ TheOnce!NilMeansDone)
BY OnceInvHolds, PTL DEF OnceInv

-----------------------------------------------------------------------------
(* Group                                                                   *)

Active == {t \in Proc : groupPc[t] \in {"fn", "append", "done"}}
Appending == {t \in Proc : groupPc[t] = "append"}
Started == {t \in Proc : groupPc[t] # "new"}

\* wg counts the goroutines whose wg.Done is due; errs has the error of every
\* task that failed, once, as soon as its goroutine has appended it.
GroupInv ==
  /\ TheGroup!TypeOK
  /\ IsFiniteSet(Active) /\ wg = Cardinality(Active)
  /\ TheGroup!ToSet(errs) = failed \ Appending
  /\ \A i, j \in DOMAIN errs : errs[i] = errs[j] => i = j
  /\ Appending \subseteq failed
  /\ \A t \in failed : groupPc[t] \in {"append", "done", "end"}
  /\ main # "run" => before = Started
  /\ main = "got" => got = errs /\ Active = {}

\* The inductive invariant of Go, its goroutines, Wait, Err and Errs.
LEMMA GroupInvHolds == TheGroup!Spec => []GroupInv
<1>1. TheGroup!Init => GroupInv
  <2> SUFFICES ASSUME TheGroup!Init PROVE GroupInv
    OBVIOUS
  <2>1. Active = {} /\ Appending = {} /\ TheGroup!ToSet(errs) = {}
    BY DEF TheGroup!Init, Active, Appending, TheGroup!ToSet
  <2>2. QED
    BY <2>1, FS_EmptySet DEF TheGroup!Init, GroupInv, TheGroup!TypeOK
<1>2. GroupInv /\ [TheGroup!Next]_(TheGroup!vars) => GroupInv'
  <2> SUFFICES ASSUME GroupInv, [TheGroup!Next]_(TheGroup!vars) PROVE GroupInv'
    OBVIOUS
  <2> USE DEF GroupInv, TheGroup!TypeOK
  <2>1. CASE UNCHANGED TheGroup!vars
    BY <2>1 DEF TheGroup!vars, Active, Appending, Started, TheGroup!ToSet
  <2>2. ASSUME NEW t \in Proc, TheGroup!Go(t) PROVE GroupInv'
    <3>1. /\ Active' = Active \cup {t} /\ t \notin Active
          /\ Appending' = Appending /\ TheGroup!ToSet(errs)' = TheGroup!ToSet(errs)
      BY <2>2 DEF TheGroup!Go, Active, Appending, TheGroup!ToSet
    <3>2. IsFiniteSet(Active') /\ Cardinality(Active') = wg + 1
      BY <3>1, FS_AddElement
    <3>3. TheGroup!TypeOK' /\ main' = "run"
      BY <2>2 DEF TheGroup!Go
    <3>4. \A u \in failed' : groupPc'[u] \in {"append", "done", "end"}
      BY <2>2 DEF TheGroup!Go
    <3>5. QED
      BY <2>2, <3>1, <3>2, <3>3, <3>4 DEF TheGroup!Go
  <2>3. ASSUME NEW t \in Proc, TheGroup!FnOk(t) PROVE GroupInv'
    <3>1. /\ Active' = Active /\ t \in Active /\ Started' = Started
          /\ Appending' = Appending /\ TheGroup!ToSet(errs)' = TheGroup!ToSet(errs)
      BY <2>3 DEF TheGroup!FnOk, Active, Appending, Started, TheGroup!ToSet
    <3>2. QED
      BY <2>3, <3>1 DEF TheGroup!FnOk
  <2>4. ASSUME NEW t \in Proc, TheGroup!FnFails(t) PROVE GroupInv'
    <3>1. /\ Active' = Active /\ t \in Active /\ Started' = Started
          /\ Appending' = Appending \cup {t}
          /\ TheGroup!ToSet(errs)' = TheGroup!ToSet(errs)
      BY <2>4 DEF TheGroup!FnFails, Active, Appending, Started, TheGroup!ToSet
    <3>2. t \notin failed
      BY <2>4 DEF TheGroup!FnFails
    <3>3. QED
      BY <2>4, <3>1, <3>2 DEF TheGroup!FnFails
  <2>5. ASSUME NEW t \in Proc, TheGroup!AppendErr(t) PROVE GroupInv'
    <3>1. /\ Active' = Active /\ t \in Active /\ Started' = Started
          /\ Appending' = Appending \ {t} /\ t \in Appending
      BY <2>5 DEF TheGroup!AppendErr, Active, Appending, Started
    <3>0. /\ errs' \in Seq(Proc)
          /\ DOMAIN errs = 1..Len(errs) /\ DOMAIN errs' = 1..(Len(errs) + 1)
          /\ errs'[Len(errs) + 1] = t
          /\ \A i \in 1..Len(errs) : errs'[i] = errs[i]
      BY <2>5 DEF TheGroup!AppendErr
    <3>2. TheGroup!ToSet(errs)' = TheGroup!ToSet(errs) \cup {t}
      <4> DEFINE A == {errs[i] : i \in 1..Len(errs)}
                 B == {errs'[i] : i \in 1..(Len(errs) + 1)}
      <4>1. TheGroup!ToSet(errs) = A /\ TheGroup!ToSet(errs)' = B
        BY <3>0 DEF TheGroup!ToSet
      <4>2. A \cup {t} \subseteq B
        <5>1. Len(errs) + 1 \in 1..(Len(errs) + 1)
          OBVIOUS
        <5>2. QED
          BY <3>0, <5>1
      <4>3. B \subseteq A \cup {t}
        BY <3>0
      <4>4. QED
        BY <4>1, <4>2, <4>3
    <3>3. t \notin TheGroup!ToSet(errs)
      BY <3>1
    <3>4. \A i, j \in DOMAIN errs' : errs'[i] = errs'[j] => i = j
      <4>1. \A i \in 1..Len(errs) : errs[i] # t
        BY <3>0, <3>3 DEF TheGroup!ToSet
      <4>2. QED
        BY <3>0, <4>1
    <3>5. QED
      BY <2>5, <3>0, <3>1, <3>2, <3>4 DEF TheGroup!AppendErr
  <2>6. ASSUME NEW t \in Proc, TheGroup!WgDone(t) PROVE GroupInv'
    <3>1. /\ Active' = Active \ {t} /\ t \in Active /\ Started' = Started
          /\ Appending' = Appending /\ TheGroup!ToSet(errs)' = TheGroup!ToSet(errs)
      BY <2>6 DEF TheGroup!WgDone, Active, Appending, Started, TheGroup!ToSet
    <3>2. /\ IsFiniteSet(Active') /\ Cardinality(Active') = wg - 1
          /\ Cardinality(Active') \in Nat
      BY <3>1, FS_RemoveElement, FS_CardinalityType
    <3>3. QED
      BY <2>6, <3>1, <3>2 DEF TheGroup!WgDone
  <2>7. CASE TheGroup!WaitCall
    BY <2>7 DEF TheGroup!WaitCall, Active, Appending, Started, TheGroup!ToSet
  <2>8. CASE TheGroup!WaitReturn
    <3>1. Active = {}
      BY <2>8, FS_EmptySet DEF TheGroup!WaitReturn
    <3>2. QED
      BY <2>8, <3>1 DEF TheGroup!WaitReturn, Active, Appending, Started, TheGroup!ToSet
  <2>9. QED
    BY <2>1, <2>2, <2>3, <2>4, <2>5, <2>6, <2>7, <2>8 DEF TheGroup!Next, TheGroup!TaskStep
<1>3. QED
  BY <1>1, <1>2, PTL DEF TheGroup!Spec

\* What Errs returns is exact, and stays as it is.
LEMMA ErrsAreExact == GroupInv => ErrsExact
<1> SUFFICES ASSUME GroupInv, main = "got"
             PROVE  /\ TheGroup!ToSet(got) = failed \cap before
                    /\ \A i, j \in DOMAIN got : got[i] = got[j] => i = j
                    /\ errs = got /\ \A t \in Proc : groupPc[t] \in {"new", "end"}
  BY DEF ErrsExact, TheGroup!ErrsComplete, TheGroup!ErrsQuiescent
<1>1. Active = {} /\ Appending = {} /\ got = errs /\ before = Started
  BY DEF GroupInv, Active, Appending
<1>2. \A t \in Proc : groupPc[t] \in {"new", "end"}
  BY <1>1 DEF GroupInv, TheGroup!TypeOK, Active
<1>3. failed \subseteq Started
  BY DEF GroupInv, TheGroup!TypeOK, Started
<1>4. QED
  BY <1>1, <1>2, <1>3 DEF GroupInv

\* Errs returns the errors of all tasks started before it, once each, and no
\* goroutine appends to them any more.
THEOREM GroupSound == TheGroup!Spec => []ErrsExact
BY ErrsAreExact, GroupInvHolds, PTL

-----------------------------------------------------------------------------
(* The pool: its steps are steps of each primitive, or leave it alone.     *)

LEMMA StepsOfSem == [PoolNext]_poolVars => [Next]_vars
<1> SUFFICES ASSUME PoolNext PROVE [Next]_vars
  BY DEF poolVars
<1>1. ASSUME NEW t \in Proc, Worker(t) PROVE [Next]_vars
  <2>1. CASE AcquireCall(t)
    <3>1. \A k \in 1..Size : k \in 0..Size
      BY SizeAssumption
    <3>2. QED
      BY <2>1, <3>1 DEF AcquireCall, Next
  <2>2. CASE AcquireSleeps(t) \/ AcquireReturns(t) \/ SemRelease(t)
    BY <2>2 DEF AcquireSleeps, AcquireReturns, SemRelease, Next
  <2>3. QED
    BY <1>1, <2>1, <2>2 DEF Worker, SetupStep, SetupReturns, GateStart, GateDone,
       FnReturns, GoroutineEnds
<1>2. QED
  BY <1>1 DEF PoolNext, GoWorker, MainWaits, MainGoesOn

LEMMA StepsOfGate == [PoolNext]_poolVars => [TheGate!Next]_(TheGate!vars)
BY DEF poolVars, gateVars, TheGate!vars, TheGate!Next, PoolNext, GoWorker, MainWaits,
       MainGoesOn, Worker, SetupStep, SetupReturns, AcquireCall, AcquireSleeps,
       AcquireReturns, GateStart, GateDone, SemRelease, FnReturns, GoroutineEnds

LEMMA StepsOfOnce == [PoolNext]_poolVars => [TheOnce!Next]_(TheOnce!vars)
BY DEF poolVars, onceVars, TheOnce!vars, TheOnce!Next, TheOnce!Progress, PoolNext,
       GoWorker, MainWaits, MainGoesOn, Worker, SetupStep, SetupReturns, AcquireCall,
       AcquireSleeps, AcquireReturns, GateStart, GateDone, SemRelease, FnReturns,
       GoroutineEnds

LEMMA StepsOfGroup == [PoolNext]_poolVars => [TheGroup!Next]_(TheGroup!vars)
BY DEF poolVars, groupVars, TheGroup!vars, TheGroup!Next, TheGroup!TaskStep, PoolNext,
       GoWorker, MainWaits, MainGoesOn, Worker, SetupStep, SetupReturns, AcquireCall,
       AcquireSleeps, AcquireReturns, GateStart, GateDone, SemRelease, FnReturns,
       GoroutineEnds

\* The primitives keep their invariants in the pool.
PrimitivesInv == SemInv /\ GateInv /\ OnceInv /\ GroupInv

LEMMA PrimitivesKeepInv == PoolSpec => []PrimitivesInv
<1>1. PoolInit => Init /\ TheGate!Init /\ TheOnce!Init /\ TheGroup!Init
  BY DEF PoolInit
<1>2. QED
  BY <1>1, StepsOfSem, StepsOfGate, StepsOfOnce, StepsOfGroup, SemInvHolds, GateInvHolds,
     OnceInvHolds, GroupInvHolds, PTL
     DEF PoolSpec, PrimitivesInv, Spec, TheGate!Spec, TheOnce!Spec, TheGroup!Spec

\* Sem and Gate implement the abstract semaphore, also when workers hold units
\* of the one while they wait for the other (the safety part of
\* ImplementSemaphores).
THEOREM BothImplement == PoolSpec => ImplementsSafely /\ TheGate!ImplementsSafely
<1>1. PoolInit => Init /\ TheGate!Init
  BY DEF PoolInit
<1>2. QED
  BY <1>1, StepsOfSem, StepsOfGate, SemImplements, GateImplements, PTL
     DEF PoolSpec, Spec, TheGate!Spec

\* Where a worker's fn is says where it is in each primitive, and whoever is
\* past the set-up has seen it done.
InStage(t) ==
  /\ oncePc[t] # "idle" => stage[t] = "setup"
  /\ pc[t] \in {"check", "asleep"} => stage[t] = "acquire"
  /\ pc[t] = "using" <=> stage[t] \in {"start", "work", "release"}
  /\ gatePc[t] # "idle" <=> stage[t] = "work"
  /\ groupPc[t] # "fn" => stage[t] \in {"setup", "end", "fail"}
  /\ stage[t] \notin {"setup", "fail"} => done

WorkerInv ==
  /\ stage \in [Proc -> {"setup", "acquire", "start", "work", "release", "end", "fail"}]
  /\ jobs \in 0..Jobs
  /\ \A t \in Proc : InStage(t)

\* The inductive invariant of the workers, given those of the primitives.
LEMMA WorkerInvHolds == PoolSpec => []WorkerInv
<1> USE JobsAssumption
<1>1. PoolInit => WorkerInv
  BY DEF PoolInit, Init, TheGate!Init, TheOnce!Init, TheGroup!Init, WorkerInv, InStage
<1>2. PrimitivesInv /\ WorkerInv /\ [PoolNext]_poolVars => WorkerInv'
  <2> SUFFICES ASSUME PrimitivesInv, WorkerInv, [PoolNext]_poolVars PROVE WorkerInv'
    OBVIOUS
  <2>0. /\ TypeOK /\ TheGate!TypeOK /\ TheOnce!TypeOK /\ TheGroup!TypeOK
        /\ TheGate!NoPanic
        /\ \A i \in 1..Len(sendq) : gatePc[sendq[i]] = "blocked"
    BY RunningHasSlot DEF PrimitivesInv, SemInv, GateInv, OnceInv, GroupInv
  <2> USE <2>0 DEF WorkerInv, InStage, TypeOK, TheGate!TypeOK, TheOnce!TypeOK, TheGroup!TypeOK,
          vars, gateVars, onceVars, groupVars, At, Goto, TheOnce!Goto, TheOnce!Return
  <2>1. CASE UNCHANGED poolVars
    BY <2>1 DEF poolVars
  <2>2. ASSUME NEW t \in Proc, GoWorker(t) PROVE WorkerInv'
    BY <2>2 DEF GoWorker, TheGroup!Go
  <2>3. ASSUME NEW t \in Proc, SetupStep(t) PROVE WorkerInv'
    BY <2>3 DEF SetupStep, TheOnce!Slow, TheOnce!Enter, TheOnce!Succeeds
  <2>4. ASSUME NEW t \in Proc, SetupReturns(t) PROVE WorkerInv'
    BY <2>4 DEF SetupReturns, TheOnce!Fast, TheOnce!EnterDone, TheOnce!Store, TheOnce!Fails
  <2>5. ASSUME NEW t \in Proc, AcquireCall(t) PROVE WorkerInv'
    <3>1. CASE UNCHANGED stage
      BY <2>5, <3>1 DEF AcquireCall, Acquire, AcquireFails
    <3>2. CASE stage' = [stage EXCEPT ![t] = "fail"] /\ UNCHANGED vars
      <4>1. /\ stage[t] = "acquire" /\ groupPc[t] = "fn" /\ pc[t] = "idle"
            /\ UNCHANGED <<pc, gatePc, oncePc, groupPc, done, jobs>>
        BY <2>5, <3>2 DEF AcquireCall, Acquire, AcquireFails
      <4>2. ASSUME NEW u \in Proc PROVE InStage(u)'
        BY <3>2, <4>1
      <4>3. QED
        BY <3>2, <4>1, <4>2
    <3>3. QED
      BY <2>5, <3>1, <3>2 DEF AcquireCall, AcquireFails
  <2>6. ASSUME NEW t \in Proc, AcquireSleeps(t) PROVE WorkerInv'
    BY <2>6 DEF AcquireSleeps, Wait
  <2>7. ASSUME NEW t \in Proc, AcquireReturns(t) PROVE WorkerInv'
    <3>1. /\ pc' = [pc EXCEPT ![t] = "using"] /\ stage' = [stage EXCEPT ![t] = "start"]
          /\ stage[t] = "acquire" /\ groupPc[t] = "fn"
          /\ UNCHANGED <<gatePc, oncePc, groupPc, done, jobs>>
      BY <2>7 DEF AcquireReturns, Take
    <3>2. ASSUME NEW u \in Proc PROVE InStage(u)'
      BY <3>1
    <3>3. QED
      BY <3>1, <3>2
  <2>8. ASSUME NEW t \in Proc, GateStart(t) PROVE WorkerInv'
    BY <2>8 DEF GateStart, TheGate!Start, TheGate!StartBlocks
  <2>9. ASSUME NEW t \in Proc, GateDone(t) PROVE WorkerInv'
    <3>1. CASE TheGate!Done(t)
      BY <2>9, <3>1 DEF GateDone, TheGate!Done, TheGate!NoPanic
    <3>2. CASE TheGate!DonePass(t)
      <4>1. Head(sendq) \in Proc /\ gatePc[Head(sendq)] = "blocked"
        BY <3>2 DEF TheGate!DonePass
      <4>2. QED
        BY <2>9, <3>2, <4>1 DEF GateDone, TheGate!DonePass
    <3>3. QED
      BY <2>9, <3>1, <3>2 DEF GateDone
  <2>10. ASSUME NEW t \in Proc, SemRelease(t) PROVE WorkerInv'
    <3>1. /\ pc' = [Woken EXCEPT ![t] = "idle"] /\ stage[t] = "release"
          /\ \/ stage' = [stage EXCEPT ![t] = "acquire"]
             \/ stage' = [stage EXCEPT ![t] = "end"]
          /\ jobs' \in 0..Jobs /\ groupPc[t] = "fn"
          /\ UNCHANGED <<gatePc, oncePc, groupPc, done>>
      BY <2>10 DEF SemRelease, Release
    <3>2. /\ pc'[t] = "idle"
          /\ \A u \in Proc \ {t} :
               pc'[u] = pc[u] \/ (pc[u] = "asleep" /\ pc'[u] = "check")
      BY <3>1 DEF Woken
    <3>3. ASSUME NEW u \in Proc PROVE InStage(u)'
      <4>1. CASE u = t
        BY <3>1, <3>2, <4>1, SMTT(60)
      <4>2. CASE u # t
        BY <3>1, <3>2, <4>2, SMTT(60)
      <4>3. QED
        BY <4>1, <4>2
    <3>4. QED
      BY <3>1, <3>3, ZenonT(60)
  <2>11. ASSUME NEW t \in Proc, FnReturns(t) PROVE WorkerInv'
    BY <2>11 DEF FnReturns, TheGroup!FnOk, TheGroup!FnFails
  <2>12. ASSUME NEW t \in Proc, GoroutineEnds(t) PROVE WorkerInv'
    BY <2>12 DEF GoroutineEnds, TheGroup!AppendErr, TheGroup!WgDone
  <2>13. CASE MainWaits \/ MainGoesOn
    BY <2>13 DEF MainWaits, MainGoesOn, TheGroup!WaitCall, TheGroup!WaitReturn
  <2>14. QED
    BY <2>1, <2>2, <2>3, <2>4, <2>5, <2>6, <2>7, <2>8, <2>9, <2>10, <2>11, <2>12, <2>13
       DEF PoolNext, Worker
<1>3. QED
  BY <1>1, <1>2, PrimitivesKeepInv, PTL DEF PoolSpec

\* When Wait has returned no worker has units or a slot.
LEMMA NothingHeld ==
  PrimitivesInv /\ WorkerInv /\ main = "got" => free = Size /\ len = 0
<1> SUFFICES ASSUME PrimitivesInv, WorkerInv, main = "got" PROVE free = Size /\ len = 0
  OBVIOUS
<1>1. \A t \in Proc : stage[t] \in {"setup", "end", "fail"}
  BY DEF PrimitivesInv, GroupInv, Active, WorkerInv, InStage
<1>2. Held = {} /\ Running = {}
  BY <1>1 DEF WorkerInv, InStage, Held, Running
<1>3. Cardinality(Held) = 0 /\ Cardinality(Running) = 0
  BY <1>2, FS_EmptySet
<1>4. QED
  BY <1>3 DEF PrimitivesInv, SemInv, TypeOK, Conservation, GateInv

\* Units and slots are accounted for, in whatever order the workers take and
\* return them: Sem conserves its units and loses no wake-up, Gate never panics
\* and blocks nobody while it has room, and nothing is held when Wait returns.
THEOREM AccountedHolds == PoolSpec => []Accounted
<1>1. PrimitivesInv /\ WorkerInv => Accounted
  BY RunningHasSlot, NothingHeld
     DEF PrimitivesInv, SemInv, GateInv, OnceInv, GroupInv, WorkerInv, Accounted, PoolTypeOK
<1>2. QED
  BY <1>1, PrimitivesKeepInv, WorkerInvHolds, PTL

\* Every worker that uses the Sem was set up before, by the one set-up that
\* succeeded, and Errs returns the errors of all workers started before it.
THEOREM SetupAndErrsHolds == PoolSpec => []SetupAndErrs
<1>1. PrimitivesInv /\ WorkerInv => SetupBeforeWork
  <2> SUFFICES ASSUME PrimitivesInv, WorkerInv, NEW t \in Proc, pc[t] # "idle"
               PROVE  ok = 1 /\ ~\E u \in Proc : oncePc[u] = "run"
    BY DEF PrimitivesInv, OnceInv, SetupBeforeWork
  <2>1. done
    BY DEF PrimitivesInv, SemInv, TypeOK, WorkerInv, InStage
  <2>2. QED
    BY <2>1 DEF PrimitivesInv, OnceInv
<1>2. PrimitivesInv /\ WorkerInv => SetupAndErrs
  BY <1>1, ErrsAreExact DEF PrimitivesInv, SetupAndErrs
<1>3. QED
  BY <1>2, PrimitivesKeepInv, WorkerInvHolds, PTL
=============================================================================
