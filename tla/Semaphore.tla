----------------------------- MODULE Semaphore ------------------------------
(***************************************************************************)
(* What a counting semaphore promises its users: a request for n units     *)
(* waits until n units are free and then has them until it returns them.   *)
(* syncutil.Sem and syncutil.Gate implement it.                            *)
(***************************************************************************)
EXTENDS Integers

CONSTANTS Proc, Size

VARIABLES
  avail,   \* units nobody has
  phase,   \* "idle", "waiting" or "using"
  units    \* what the goroutine waits for or uses

semVars == <<avail, phase, units>>

Init ==
  /\ avail = Size
  /\ phase = [p \in Proc |-> "idle"]
  /\ units = [p \in Proc |-> 0]

Request(p, n) ==
  /\ phase[p] = "idle"
  /\ phase' = [phase EXCEPT ![p] = "waiting"]
  /\ units' = [units EXCEPT ![p] = n]
  /\ UNCHANGED avail

Grant(p) ==
  /\ phase[p] = "waiting"
  /\ units[p] <= avail
  /\ phase' = [phase EXCEPT ![p] = "using"]
  /\ avail' = avail - units[p]
  /\ UNCHANGED units

Return(p) ==
  /\ phase[p] = "using"
  /\ phase' = [phase EXCEPT ![p] = "idle"]
  /\ avail' = avail + units[p]
  /\ units' = [units EXCEPT ![p] = 0]

\* A request that finds its units free is granted in the same step.
RequestGranted(p, n) ==
  /\ phase[p] = "idle"
  /\ n <= avail
  /\ phase' = [phase EXCEPT ![p] = "using"]
  /\ units' = [units EXCEPT ![p] = n]
  /\ avail' = avail - n

\* A return that passes its units on to a waiting request.
Pass(p, q) ==
  /\ phase[p] = "using"
  /\ phase[q] = "waiting"
  /\ units[q] <= avail + units[p]
  /\ phase' = [phase EXCEPT ![p] = "idle", ![q] = "using"]
  /\ avail' = avail + units[p] - units[q]
  /\ units' = [units EXCEPT ![p] = 0]

Next ==
  \E p \in Proc :
    \/ \E n \in 0..Size : Request(p, n) \/ RequestGranted(p, n)
    \/ Grant(p)
    \/ Return(p)
    \/ \E q \in Proc : Pass(p, q)

Spec == Init /\ [][Next]_semVars

\* A request that could be granted from some point on is granted.
FairSpec == Spec /\ \A p \in Proc : WF_semVars(Grant(p))
=============================================================================
