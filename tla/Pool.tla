-------------------------------- MODULE Pool --------------------------------
(***************************************************************************)
(* The primitives of package syncutil at work together: workers started    *)
(* with Group.Go run a set-up through one Once, then jobs that take units  *)
(* of a Sem and, with the units, pass a Gate.                              *)
(*                                                                         *)
(* The primitives are the modules Sem, Gate, Once and Group, whose actions *)
(* are the steps of this module. What is external is the program that      *)
(* calls them: it pairs Acquire with Release and Start with Done, as the   *)
(* package asks of its users, and shares a number of jobs among workers.   *)
(***************************************************************************)
EXTENDS Sem

CONSTANTS
  Max,    \* the Gate's size
  Jobs,   \* the jobs to do besides the first one of each worker
  None

ASSUME MaxAssumption == Max \in Nat \ {0}
ASSUME JobsAssumption == Jobs \in Nat
ASSUME NoneAssumption == None \notin Proc

VARIABLES
  len, sendq, gatePc,                     \* the Gate
  mu, done, ok, ret, oncePc,              \* the Once
  wg, errs, failed, main, before, got, groupPc,   \* the Group
  stage,                                  \* what the worker's fn does next
  jobs                                    \* jobs nobody has taken

gateVars == <<len, sendq, gatePc>>
onceVars == <<mu, done, ok, ret, oncePc>>
groupVars == <<wg, errs, failed, main, before, got, groupPc>>
poolVars == <<vars, gateVars, onceVars, groupVars, stage, jobs>>

TheGate == INSTANCE Gate WITH pc <- gatePc
TheOnce == INSTANCE Once WITH pc <- oncePc
TheGroup == INSTANCE Group WITH Task <- Proc, pc <- groupPc

PoolInit ==
  /\ Init /\ TheGate!Init /\ TheOnce!Init /\ TheGroup!Init
  /\ stage = [t \in Proc |-> "setup"]
  /\ jobs = Jobs

\* Worker t's fn is at stage s.
At(t, s) == groupPc[t] = "fn" /\ stage[t] = s
Goto(t, s) == stage' = [stage EXCEPT ![t] = s]

-----------------------------------------------------------------------------
\* g.Go(worker)
GoWorker(t) ==
  TheGroup!Go(t) /\ UNCHANGED <<vars, gateVars, onceVars, stage, jobs>>

\* once.Do(setup): the steps inside Do, and those that return from it.
SetupStep(t) ==
  /\ At(t, "setup")
  /\ TheOnce!Slow(t) \/ TheOnce!Enter(t) \/ TheOnce!Succeeds(t)
  /\ UNCHANGED <<vars, gateVars, groupVars, stage, jobs>>

SetupReturns(t) ==
  /\ At(t, "setup")
  /\ TheOnce!Fast(t) \/ TheOnce!EnterDone(t) \/ TheOnce!Store(t) \/ TheOnce!Fails(t)
  /\ Goto(t, IF ret'[t] = "nil" THEN "acquire" ELSE "fail")
  /\ UNCHANGED <<vars, gateVars, groupVars, jobs>>

\* sem.Acquire(k), for a job that may want too much.
AcquireCall(t) ==
  /\ At(t, "acquire")
  /\ \/ \E k \in 1..Size : Acquire(t, k) /\ UNCHANGED stage
     \/ AcquireFails(t, Size + 1) /\ Goto(t, "fail")
  /\ UNCHANGED <<gateVars, onceVars, groupVars, jobs>>

AcquireSleeps(t) ==
  /\ At(t, "acquire")
  /\ Wait(t)
  /\ UNCHANGED <<gateVars, onceVars, groupVars, stage, jobs>>

AcquireReturns(t) ==
  /\ At(t, "acquire")
  /\ Take(t)
  /\ Goto(t, "start")
  /\ UNCHANGED <<gateVars, onceVars, groupVars, jobs>>

\* gate.Start()
GateStart(t) ==
  /\ At(t, "start")
  /\ TheGate!Start(t) \/ TheGate!StartBlocks(t)
  /\ Goto(t, "work")
  /\ UNCHANGED <<vars, onceVars, groupVars, jobs>>

\* The job is done: gate.Done(). (A goroutine blocked in Start is not here.)
GateDone(t) ==
  /\ At(t, "work")
  /\ TheGate!Done(t) \/ TheGate!DonePass(t)
  /\ Goto(t, "release")
  /\ UNCHANGED <<vars, onceVars, groupVars, jobs>>

\* sem.Release(k), and the next job if there is one.
SemRelease(t) ==
  /\ At(t, "release")
  /\ Release(t)
  /\ IF jobs > 0
     THEN jobs' = jobs - 1 /\ Goto(t, "acquire")
     ELSE UNCHANGED jobs /\ Goto(t, "end")
  /\ UNCHANGED <<gateVars, onceVars, groupVars>>

\* fn returns, with an error when the set-up or Acquire failed.
FnReturns(t) ==
  /\ \/ At(t, "end") /\ TheGroup!FnOk(t)
     \/ At(t, "fail") /\ TheGroup!FnFails(t)
  /\ UNCHANGED <<vars, gateVars, onceVars, stage, jobs>>

\* What Go's goroutine does after fn.
GoroutineEnds(t) ==
  /\ TheGroup!AppendErr(t) \/ TheGroup!WgDone(t)
  /\ UNCHANGED <<vars, gateVars, onceVars, stage, jobs>>

Worker(t) ==
  \/ SetupStep(t) \/ SetupReturns(t)
  \/ AcquireCall(t) \/ AcquireSleeps(t) \/ AcquireReturns(t)
  \/ GateStart(t) \/ GateDone(t) \/ SemRelease(t)
  \/ FnReturns(t) \/ GoroutineEnds(t)

\* g.Wait, g.Err or g.Errs
MainWaits ==
  TheGroup!WaitCall /\ UNCHANGED <<vars, gateVars, onceVars, stage, jobs>>

MainGoesOn ==
  TheGroup!WaitReturn /\ UNCHANGED <<vars, gateVars, onceVars, stage, jobs>>

PoolNext ==
  \/ \E t \in Proc : GoWorker(t) \/ Worker(t)
  \/ MainWaits \/ MainGoesOn

\* Goroutines that can go on are scheduled. The sync.Mutex of Sem and Once
\* hands itself to a waiter that starves, and only finitely many jobs compete.
PoolSpec ==
  PoolInit /\ [][PoolNext]_poolVars
    /\ WF_poolVars(MainGoesOn) /\ \A t \in Proc : WF_poolVars(Worker(t))

-----------------------------------------------------------------------------
\* Every variable has its type: Sem's free and Group's WaitGroup are never
\* negative, and Once's f runs under its mutex.
PoolTypeOK ==
  /\ TypeOK /\ TheGate!TypeOK /\ TheOnce!TypeOK /\ TheGroup!TypeOK
  /\ stage \in [Proc -> {"setup", "acquire", "start", "work", "release", "end", "fail"}]
  /\ jobs \in 0..Jobs

\* Once performs one successful action, and no worker has got past the set-up
\* before it is complete, whoever ran it.
SetupBeforeWork ==
  /\ TheOnce!SucceedsOnce /\ TheOnce!NilMeansDone
  /\ \A t \in Proc : pc[t] # "idle" => ok = 1 /\ ~\E u \in Proc : oncePc[u] = "run"

\* Group.Errs returns the errors of all workers started before it, once each,
\* and nobody appends to the slice it returned.
ErrsExact == TheGroup!ErrsComplete /\ TheGroup!ErrsQuiescent

\* What the caller of Wait and the workers see of each other: every worker was
\* set up before it worked, and the errors are those of all workers.
SetupAndErrs == SetupBeforeWork /\ ErrsExact

\* Units and slots are accounted for: Sem neither loses nor creates units and
\* nobody sleeps for units that are free, Gate.Done never panics with "Done
\* called more than Start" and a Start is blocked only while the Gate is full,
\* and when Wait returns no units and no slots are held.
Accounted ==
  /\ PoolTypeOK
  /\ Conservation /\ NoLostWakeup
  /\ TheGate!NoPanic /\ TheGate!BlockedMeansFull
  /\ main = "got" => free = Size /\ len = 0

\* Sem, of Size units, and Gate, which "limits concurrency" to Max operations,
\* implement the abstract semaphore, and grant what they can grant.
ImplementSemaphores == ImplementsSemaphore /\ TheGate!ImplementsSemaphore

\* Wait returns: workers blocked in Once, Sem and Gate never wait for each
\* other in a circle and none sleeps for ever.
WaitReturns == main = "wait" ~> main = "got"
=============================================================================
