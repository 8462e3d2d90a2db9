-------------------------------- MODULE Sem ---------------------------------
(***************************************************************************)
(* syncutil.Sem: Acquire and Release on a sync.Cond.                       *)
(*                                                                         *)
(* The critical sections of c.L are single steps; Cond.Wait is a step into *)
(* the wait set and, after a Broadcast, another critical section. Callers  *)
(* release what they acquired, as the package's users do.                  *)
(***************************************************************************)
EXTENDS Integers, FiniteSets

CONSTANTS
  Proc,   \* goroutines
  Size    \* Sem.max

ASSUME SizeAssumption == Size \in Nat

VARIABLES
  free,   \* Sem.free
  pc,     \* "idle", "check", "asleep" in c.Wait, or "using"
  n       \* the argument of Acquire

vars == <<free, pc, n>>

Init ==
  /\ free = Size
  /\ pc = [p \in Proc |-> "idle"]
  /\ n = [p \in Proc |-> 0]

\* Broadcast: everyone in the wait set goes back to the test in Acquire's loop.
Woken == [p \in Proc |-> IF pc[p] = "asleep" THEN "check" ELSE pc[p]]

-----------------------------------------------------------------------------
(* Slips the properties below must catch; no specification uses them.      *)

\* Release wakes one waiter, as Cond.Signal does.
ReleaseSignal(p) ==
  /\ pc[p] = "using"
  /\ free' = free + n[p]
  /\ LET asleep == {q \in Proc : pc[q] = "asleep"} IN
       IF asleep = {}
       THEN pc' = [pc EXCEPT ![p] = "idle"]
       ELSE \E q \in asleep : pc' = [pc EXCEPT ![p] = "idle", ![q] = "check"]
  /\ n' = [n EXCEPT ![p] = 0]

-----------------------------------------------------------------------------
\* Acquire(k) is called.
Acquire(p, k) ==
  /\ pc[p] = "idle"
  /\ k <= Size
  /\ pc' = [pc EXCEPT ![p] = "check"]
  /\ n' = [n EXCEPT ![p] = k]
  /\ UNCHANGED free

\* Acquire(k) returns an error: more units than the Sem will ever have.
AcquireFails(p, k) ==
  /\ pc[p] = "idle"
  /\ k > Size
  /\ UNCHANGED vars

\* Acquire's loop holds c.L and finds enough units.
Take(p) ==
  /\ pc[p] = "check"
  /\ free >= n[p]
  /\ free' = free - n[p]
  /\ pc' = [pc EXCEPT ![p] = "using"]
  /\ UNCHANGED n

\* It does not: c.Wait releases c.L and sleeps, in one step.
Wait(p) ==
  /\ pc[p] = "check"
  /\ free < n[p]
  /\ pc' = [pc EXCEPT ![p] = "asleep"]
  /\ UNCHANGED <<free, n>>

\* Release: the units come back and every sleeper is woken.
Release(p) ==
  /\ pc[p] = "using"
  /\ free' = free + n[p]
  /\ pc' = [Woken EXCEPT ![p] = "idle"]
  /\ n' = [n EXCEPT ![p] = 0]

Next ==
  \E p \in Proc :
    \/ \E k \in 0..Size : Acquire(p, k)
    \/ AcquireFails(p, Size + 1)
    \/ Take(p) \/ Wait(p) \/ Release(p)

Spec == Init /\ [][Next]_vars

-----------------------------------------------------------------------------
\* Every variable has its type, and free is never negative.
TypeOK ==
  /\ free \in Nat
  /\ pc \in [Proc -> {"idle", "check", "asleep", "using"}]
  /\ n \in [Proc -> 0..Size]

\* The units that goroutines have, each goroutine's numbered from 1.
Held == {u \in Proc \X (1..Size) : pc[u[1]] = "using" /\ u[2] <= n[u[1]]}

\* Acquire and Release neither lose nor create units.
Conservation == free + Cardinality(Held) = Size

\* No wake-up is lost: whoever sleeps in Acquire's c.Wait really lacks units,
\* so a Broadcast still lies ahead of it.
NoLostWakeup == \A p \in Proc : pc[p] = "asleep" => free < n[p]

Phase ==
  [p \in Proc |-> IF pc[p] \in {"check", "asleep"} THEN "waiting" ELSE pc[p]]

Abs == INSTANCE Semaphore WITH avail <- free, phase <- Phase, units <- n

\* Sem is a counting semaphore, and an Acquire that could be granted from some
\* point on is granted: no sleeping goroutine is forgotten.
ImplementsSemaphore == Abs!FairSpec

\* The safety part of ImplementsSemaphore.
ImplementsSafely == Abs!Spec
=============================================================================
