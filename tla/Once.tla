-------------------------------- MODULE Once --------------------------------
(***************************************************************************)
(* syncutil.Once: Do, a sync.Once that is re-armed when f fails.           *)
(* The atomic load, the lock, f and the store are steps of their own.      *)
(***************************************************************************)
EXTENDS Integers

CONSTANTS Proc, None

VARIABLES
  pc,     \* where in Do each goroutine is
  mu,     \* the goroutine that holds Once.m
  done,   \* Once.done
  ok,     \* history: how often f has succeeded
  ret     \* what the goroutine's last Do returned: "none", "nil" or "err"

vars == <<pc, mu, done, ok, ret>>

Init ==
  /\ pc = [p \in Proc |-> "idle"]
  /\ mu = None
  /\ done = FALSE
  /\ ok = 0
  /\ ret = [p \in Proc |-> "none"]

Goto(p, l) == pc' = [pc EXCEPT ![p] = l]
Return(p, r) == Goto(p, "idle") /\ ret' = [ret EXCEPT ![p] = r]

-----------------------------------------------------------------------------
(* Slips the properties below must catch; no specification uses them.      *)

\* The slow path runs f without looking at done again.
EnterUnchecked(p) ==
  /\ pc[p] = "slow"
  /\ mu = None
  /\ mu' = p
  /\ Goto(p, "run")
  /\ UNCHANGED <<done, ok, ret>>

-----------------------------------------------------------------------------
\* The fast path: done is 1 already.
Fast(p) ==
  /\ pc[p] = "idle"
  /\ done
  /\ Return(p, "nil")
  /\ UNCHANGED <<mu, done, ok>>

\* It is not: take the slow path.
Slow(p) ==
  /\ pc[p] = "idle"
  /\ ~done
  /\ Goto(p, "slow")
  /\ ret' = [ret EXCEPT ![p] = "none"]
  /\ UNCHANGED <<mu, done, ok>>

\* Once.m is taken and done is still 0: f is called.
Enter(p) ==
  /\ pc[p] = "slow"
  /\ mu = None
  /\ ~done
  /\ mu' = p
  /\ Goto(p, "run")
  /\ UNCHANGED <<done, ok, ret>>

\* Another goroutine's f has succeeded meanwhile.
EnterDone(p) ==
  /\ pc[p] = "slow"
  /\ mu = None
  /\ done
  /\ Return(p, "nil")
  /\ UNCHANGED <<mu, done, ok>>

\* f succeeds.
Succeeds(p) ==
  /\ pc[p] = "run"
  /\ ok' = ok + 1
  /\ Goto(p, "store")
  /\ UNCHANGED <<mu, done, ret>>

\* The store of done, and the deferred unlock.
Store(p) ==
  /\ pc[p] = "store"
  /\ done' = TRUE
  /\ mu' = None
  /\ Return(p, "nil")
  /\ UNCHANGED ok

\* f returns an error, or panics and the caller recovers: the deferred unlock
\* runs and done stays 0.
Fails(p) ==
  /\ pc[p] = "run"
  /\ mu' = None
  /\ Return(p, "err")
  /\ UNCHANGED <<done, ok>>

Progress(p) ==
  Enter(p) \/ EnterDone(p) \/ Succeeds(p) \/ Store(p) \/ Fails(p)

Next == \E p \in Proc : Fast(p) \/ Slow(p) \/ Progress(p)

Spec == Init /\ [][Next]_vars

-----------------------------------------------------------------------------
\* Every variable has its type, and f runs under Once.m.
TypeOK ==
  /\ pc \in [Proc -> {"idle", "slow", "run", "store"}]
  /\ mu \in Proc \cup {None}
  /\ done \in BOOLEAN
  /\ ok \in Nat
  /\ ret \in [Proc -> {"none", "nil", "err"}]
  /\ \A p \in Proc : pc[p] \in {"run", "store"} => mu = p

\* "A Once will perform a successful action exactly once": f succeeds at most
\* once, and never runs again after it has.
SucceedsOnce ==
  /\ ok <= 1
  /\ ok = 1 => \A p \in Proc : pc[p] # "run"

\* A Do that returns nil has the initialization behind it: no caller goes on
\* while another goroutine's f is still running, or after one that failed.
NilMeansDone == \A p \in Proc : ret[p] = "nil" => ok = 1
=============================================================================
