---------------------------- MODULE SingleFlight ----------------------------
(***************************************************************************)
(* syncutil/singleflight: Group.Do, duplicate call suppression.            *)
(*                                                                         *)
(* A step is what a goroutine does between two points where another        *)
(* goroutine can interfere: the critical sections of Group.mu, the end of  *)
(* fn, the wg.Done and the return of a wg.Wait.                            *)
(***************************************************************************)
EXTENDS FiniteSets

CONSTANTS
  Proc,      \* goroutines that call Do
  Key,       \* keys of Group.m
  Call,      \* identities of *call structs; garbage is reused
  Val,       \* what fn can return (the pair c.val, c.err)
  Unset,     \* c.val, c.err before fn has returned
  None,      \* nil / absent
  MayPanic   \* whether fn may panic and the caller of Do recovers

ASSUME UnsetAssumption == Unset \notin Val
ASSUME NoneAssumption == None \notin Call \cup Key
ASSUME PanicAssumption == MayPanic \in BOOLEAN

VARIABLES
  pc,        \* where in Do each goroutine is
  key,       \* Do's parameter
  cur,       \* Do's local variable c
  m,         \* Group.m
  wgDone,    \* c.wg has been released
  val        \* c.val, c.err

sfVars == <<pc, key, cur, m, wgDone, val>>

Init ==
  /\ pc = [p \in Proc |-> "idle"]
  /\ key = [p \in Proc |-> None]
  /\ cur = [p \in Proc |-> None]
  /\ m = [k \in Key |-> None]
  /\ wgDone = [c \in Call |-> FALSE]
  /\ val = [c \in Call |-> Unset]

\* The *call structs something still points to. The others are garbage, and
\* new(call) may return them again.
LiveCalls == {cur[p] : p \in Proc} \cup {m[k] : k \in Key}

-----------------------------------------------------------------------------
(* Slips the properties below must catch; no specification uses them.      *)

\* Registers a new call without looking the key up.
LeadUnchecked(p, k) ==
  /\ pc[p] = "idle"
  /\ \E c \in Call \ LiveCalls :
       /\ cur' = [cur EXCEPT ![p] = c]
       /\ m' = [m EXCEPT ![k] = c]
       /\ wgDone' = [wgDone EXCEPT ![c] = FALSE]
       /\ val' = [val EXCEPT ![c] = Unset]
  /\ pc' = [pc EXCEPT ![p] = "exec"]
  /\ key' = [key EXCEPT ![p] = k]

\* Loses what fn returned.
FnReturnLost(p, v) ==
  /\ pc[p] = "exec"
  /\ pc' = [pc EXCEPT ![p] = "signal"]
  /\ UNCHANGED <<key, cur, m, wgDone, val>>

\* Forgets c.wg.Done().
WgDoneMissing(p) ==
  /\ pc[p] = "signal"
  /\ pc' = [pc EXCEPT ![p] = "forget"]
  /\ UNCHANGED <<key, cur, m, wgDone, val>>

\* Deletes the key already next to wg.Done, and again at the end.
WgDoneForgets(p) ==
  /\ pc[p] = "signal"
  /\ wgDone' = [wgDone EXCEPT ![cur[p]] = TRUE]
  /\ m' = [m EXCEPT ![key[p]] = None]
  /\ pc' = [pc EXCEPT ![p] = "forget"]
  /\ UNCHANGED <<key, cur, val>>

-----------------------------------------------------------------------------
\* Do found the key in m: it unlocks and blocks in c.wg.Wait.
Join(p, k) ==
  /\ pc[p] = "idle"
  /\ m[k] # None
  /\ pc' = [pc EXCEPT ![p] = "wait"]
  /\ key' = [key EXCEPT ![p] = k]
  /\ cur' = [cur EXCEPT ![p] = m[k]]
  /\ UNCHANGED <<m, wgDone, val>>

\* Do did not find the key: it registers a new call and goes on to run fn.
Lead(p, k) ==
  /\ pc[p] = "idle"
  /\ m[k] = None
  /\ \E c \in Call \ LiveCalls :
       /\ cur' = [cur EXCEPT ![p] = c]
       /\ m' = [m EXCEPT ![k] = c]
       /\ wgDone' = [wgDone EXCEPT ![c] = FALSE]
       /\ val' = [val EXCEPT ![c] = Unset]
  /\ pc' = [pc EXCEPT ![p] = "exec"]
  /\ key' = [key EXCEPT ![p] = k]

\* c.val, c.err = fn()
FnReturn(p, v) ==
  /\ pc[p] = "exec"
  /\ val' = [val EXCEPT ![cur[p]] = v]
  /\ pc' = [pc EXCEPT ![p] = "signal"]
  /\ UNCHANGED <<key, cur, m, wgDone>>

\* fn panics: the rest of Do is skipped, nothing is deferred. The caller
\* recovered and may call Do again.
FnPanic(p) ==
  /\ MayPanic
  /\ pc[p] = "exec"
  /\ pc' = [pc EXCEPT ![p] = "idle"]
  /\ key' = [key EXCEPT ![p] = None]
  /\ cur' = [cur EXCEPT ![p] = None]
  /\ UNCHANGED <<m, wgDone, val>>

\* c.wg.Done()
WgDone(p) ==
  /\ pc[p] = "signal"
  /\ wgDone' = [wgDone EXCEPT ![cur[p]] = TRUE]
  /\ pc' = [pc EXCEPT ![p] = "forget"]
  /\ UNCHANGED <<key, cur, m, val>>

\* delete(g.m, key) in the second critical section, and return.
Forget(p) ==
  /\ pc[p] = "forget"
  /\ m' = [m EXCEPT ![key[p]] = None]
  /\ pc' = [pc EXCEPT ![p] = "idle"]
  /\ key' = [key EXCEPT ![p] = None]
  /\ cur' = [cur EXCEPT ![p] = None]
  /\ UNCHANGED <<wgDone, val>>

\* c.wg.Wait() returns, and Do returns c.val, c.err.
WaitReturn(p) ==
  /\ pc[p] = "wait"
  /\ wgDone[cur[p]]
  /\ pc' = [pc EXCEPT ![p] = "idle"]
  /\ key' = [key EXCEPT ![p] = None]
  /\ cur' = [cur EXCEPT ![p] = None]
  /\ UNCHANGED <<m, wgDone, val>>

Step(p) ==
  \/ \E k \in Key : Join(p, k) \/ Lead(p, k)
  \/ \E v \in Val : FnReturn(p, v)
  \/ FnPanic(p)
  \/ WgDone(p)
  \/ Forget(p)
  \/ WaitReturn(p)

Next == \E p \in Proc : Step(p)

Spec == Init /\ [][Next]_sfVars

\* A goroutine inside Do is scheduled, and fn returns. Nobody has to call Do.
Fairness ==
  \A p \in Proc :
    /\ WF_sfVars(\E v \in Val : FnReturn(p, v))
    /\ WF_sfVars(WgDone(p))
    /\ WF_sfVars(Forget(p))
    /\ WF_sfVars(WaitReturn(p))

FairSpec == Spec /\ Fairness

-----------------------------------------------------------------------------
\* Every variable has its type.
TypeOK ==
  /\ pc \in [Proc -> {"idle", "exec", "signal", "forget", "wait"}]
  /\ key \in [Proc -> Key \cup {None}]
  /\ cur \in [Proc -> Call \cup {None}]
  /\ m \in [Key -> Call \cup {None}]
  /\ wgDone \in [Call -> BOOLEAN]
  /\ val \in [Call -> Val \cup {Unset}]
  /\ \A p \in Proc : pc[p] # "idle" => key[p] \in Key /\ cur[p] \in Call

\* The goroutines that run fn or have yet to undo their registration.
Leading(p) == pc[p] \in {"exec", "signal", "forget"}

\* "only one execution is in-flight for a given key at a time": two
\* goroutines never run fn of Do for one key at once, whatever the
\* interleaving of joins, completions, deletions and recovered panics.
OneInFlight ==
  \A p, q \in Proc :
    pc[p] = "exec" /\ pc[q] = "exec" /\ key[p] = key[q] => p = q

\* "receives the same results": when wg.Wait lets a duplicate caller of Do
\* go, the call it joined holds what fn returned, not the zero call, although
\* the struct may be the reused memory of an earlier call.
DuplicateGetsResult ==
  \A p \in Proc : pc[p] = "wait" /\ wgDone[cur[p]] => val[cur[p]] \in Val

\* Somebody runs the fn of this call or is about to release its waiters.
Completing(c) == \E q \in Proc : pc[q] \in {"exec", "signal"} /\ cur[q] = c

\* The fn of this call panicked: nobody completes it and it stays in m, with
\* every later caller of its key.
Abandoned(c) == MayPanic /\ ~Completing(c) /\ \E k \in Key : m[k] = c

\* Do's second critical section deletes its own registration, never that of
\* a call another goroutine has registered since.
ForgetsOwnCall ==
  [][\A p \in Proc : Forget(p) => m[key[p]] = cur[p]]_sfVars

\* Every caller of Do returns, duplicates included, unless the fn of the call
\* it waits for panicked.
DoReturns ==
  \A p \in Proc :
    pc[p] # "idle" ~> pc[p] = "idle" \/ (pc[p] = "wait" /\ Abandoned(cur[p]))

=============================================================================
