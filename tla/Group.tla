------------------------------- MODULE Group --------------------------------
(***************************************************************************)
(* syncutil.Group: Go, Wait, Err and Errs. One goroutine starts the tasks  *)
(* and collects their errors; every task is a goroutine of its own.        *)
(***************************************************************************)
EXTENDS Integers, SequencesExt

CONSTANT Task   \* the calls of Go

VARIABLES
  pc,      \* "new", "fn", "append" the error, "done" (wg.Done is due), "end"
  wg,      \* the WaitGroup's counter
  errs,    \* Group.errs, each error named after its task
  failed,  \* history: the tasks whose fn returned an error
  main,    \* the caller: "run", "wait" in wg.Wait, "got" Err's answer
  before,  \* history: the tasks started before the last wait
  got      \* what Errs returned

vars == <<pc, wg, errs, failed, main, before, got>>

Init ==
  /\ pc = [t \in Task |-> "new"]
  /\ wg = 0
  /\ errs = <<>>
  /\ failed = {}
  /\ main = "run"
  /\ before = {}
  /\ got = <<>>

-----------------------------------------------------------------------------
(* Slips the properties below must catch; no specification uses them.      *)

\* wg.Add is called in the new goroutine, after Go has returned.
GoAddsLate(t) ==
  /\ main # "wait"
  /\ pc[t] = "new"
  /\ pc' = [pc EXCEPT ![t] = "fn"]
  /\ main' = "run"
  /\ UNCHANGED <<wg, errs, failed, before, got>>

\* The goroutine runs fn again until it succeeds.
FnFailsRetries(t) ==
  /\ pc[t] = "fn"
  /\ failed' = failed \cup {t}
  /\ UNCHANGED <<pc, wg, errs, main, before, got>>

-----------------------------------------------------------------------------
\* Go: wg.Add(1), and the goroutine starts. Go may follow an Err.
Go(t) ==
  /\ main # "wait"
  /\ pc[t] = "new"
  /\ wg' = wg + 1
  /\ pc' = [pc EXCEPT ![t] = "fn"]
  /\ main' = "run"
  /\ UNCHANGED <<errs, failed, before, got>>

FnOk(t) ==
  /\ pc[t] = "fn"
  /\ pc' = [pc EXCEPT ![t] = "done"]
  /\ UNCHANGED <<wg, errs, failed, main, before, got>>

FnFails(t) ==
  /\ pc[t] = "fn"
  /\ failed' = failed \cup {t}
  /\ pc' = [pc EXCEPT ![t] = "append"]
  /\ UNCHANGED <<wg, errs, main, before, got>>

\* The critical section of Group.mu.
AppendErr(t) ==
  /\ pc[t] = "append"
  /\ errs' = Append(errs, t)
  /\ pc' = [pc EXCEPT ![t] = "done"]
  /\ UNCHANGED <<wg, failed, main, before, got>>

\* The deferred wg.Done, the last thing the goroutine does.
WgDone(t) ==
  /\ pc[t] = "done"
  /\ wg' = wg - 1
  /\ pc' = [pc EXCEPT ![t] = "end"]
  /\ UNCHANGED <<errs, failed, main, before, got>>

\* Wait, Err or Errs is called.
WaitCall ==
  /\ main # "wait"
  /\ main' = "wait"
  /\ before' = {t \in Task : pc[t] # "new"}
  /\ UNCHANGED <<pc, wg, errs, failed, got>>

\* wg.Wait returns, and errs is read without Group.mu.
WaitReturn ==
  /\ main = "wait"
  /\ wg = 0
  /\ main' = "got"
  /\ got' = errs
  /\ UNCHANGED <<pc, wg, errs, failed, before>>

TaskStep(t) == FnOk(t) \/ FnFails(t) \/ AppendErr(t) \/ WgDone(t)

Next ==
  \/ \E t \in Task : Go(t) \/ TaskStep(t)
  \/ WaitCall
  \/ WaitReturn

Spec == Init /\ [][Next]_vars

-----------------------------------------------------------------------------
\* Every variable has its type; a WaitGroup panics below zero.
TypeOK ==
  /\ pc \in [Task -> {"new", "fn", "append", "done", "end"}]
  /\ wg \in Nat
  /\ errs \in Seq(Task)
  /\ failed \in SUBSET Task
  /\ main \in {"run", "wait", "got"}
  /\ before \in SUBSET Task
  /\ got \in Seq(Task)

\* Errs "returns all non-nil errors" of "all previous calls to Go", once each,
\* and Err one of them (the first that was appended) unless there is none.
ErrsComplete ==
  main = "got" =>
    /\ ToSet(got) = failed \cap before
    /\ \A i, j \in DOMAIN got : got[i] = got[j] => i = j

\* The slice Errs returned is not appended to by a task it should have waited
\* for: until the next Go, nothing touches errs any more.
ErrsQuiescent ==
  main = "got" => errs = got /\ \A t \in Task : pc[t] \in {"new", "end"}
=============================================================================
