--------------------------- MODULE RWMutexTracker ---------------------------
(***************************************************************************)
(* syncutil/syncdebug.RWMutexTracker: a sync.RWMutex with counters, the    *)
(* stack of the writer and the set of reading goroutines.                  *)
(*                                                                         *)
(* The RWMutex is external: a goroutine in mu.Lock keeps new readers out,  *)
(* and an Unlock lets the readers in that are waiting. As sync.RWMutex     *)
(* allows, a read lock may be released by another goroutine than the one   *)
(* that took it: the one hands it over (HandOver). holdr, which goes by    *)
(* the goroutine that calls, knows nothing of it.                          *)
(***************************************************************************)
EXTENDS Integers, FiniteSets

CONSTANTS
  Proc, None,
  Recursive   \* whether a goroutine may call RLock while it has the read lock

VARIABLES
  pc,       \* where in Lock, Unlock, RLock or RUnlock each goroutine is
  depth,    \* how many read locks each goroutine has, the one it asks for included
  writer,   \* mu: the goroutine with the write lock
  nread,    \* mu: the number of read locks
  nwaitr, nwaitw, nhaver, nhavew,   \* the atomic counters
  holder,   \* who the holder stack is of
  holdr,    \* the goroutines in the map holdr
  warned,   \* history: who logged "Potential R-W-R deadlock" in this RLock
  late,     \* history: <<p, q>> if q called Lock when p had made its check in RLock
  handed,   \* history: a read lock was handed over
  fatal     \* log.Fatalf has ended the program

muVars == <<writer, nread>>
counters == <<nwaitr, nwaitw, nhaver, nhavew>>
trackerVars == <<pc, depth, writer, nread, nwaitr, nwaitw, nhaver, nhavew, holder,
                 holdr, warned, late, handed, fatal>>

Init ==
  /\ pc = [p \in Proc |-> "idle"]
  /\ depth = [p \in Proc |-> 0]
  /\ writer = None /\ nread = 0
  /\ nwaitr = 0 /\ nwaitw = 0 /\ nhaver = 0 /\ nhavew = 0
  /\ holder = None
  /\ holdr = {}
  /\ warned = {}
  /\ late = {}
  /\ handed = FALSE
  /\ fatal = FALSE

Goto(p, l) == ~fatal /\ pc' = [pc EXCEPT ![p] = l]

-----------------------------------------------------------------------------
(* Slips the properties below must catch; no specification uses them.      *)

\* RUnlock leaves the goroutine in holdr.
RUnlockKeepsHoldr(p) ==
  /\ pc[p] = "runlock2"
  /\ Goto(p, "runlock3")
  /\ UNCHANGED <<depth, muVars, counters, holder, holdr, warned, late, handed, fatal>>

\* The check asks for a writer that has the lock.
writerHas == nhavew > 0

-----------------------------------------------------------------------------
\* Lock: nwaitw.
LockCall(p) ==
  /\ pc[p] = "idle" /\ depth[p] = 0
  /\ nwaitw' = nwaitw + 1
  /\ late' = late \cup {<<q, p>> : q \in {q \in Proc : pc[q] = "rlock2"}}
  /\ Goto(p, "lock1")
  /\ UNCHANGED <<depth, muVars, nwaitr, nhaver, nhavew, holder, holdr, warned, handed, fatal>>

\* Lock enters mu.Lock: from now on no new reader gets in.
LockPending(p) ==
  /\ pc[p] = "lock1"
  /\ Goto(p, "lock2")
  /\ UNCHANGED <<depth, muVars, counters, holder, holdr, warned, late, handed, fatal>>

LockAcquire(p) ==
  /\ pc[p] = "lock2"
  /\ writer = None /\ nread = 0
  /\ writer' = p
  /\ late' = {l \in late : l[2] # p}
  /\ Goto(p, "lock3")
  /\ UNCHANGED <<depth, nread, counters, holder, holdr, warned, handed, fatal>>

LockCount(p) ==
  /\ pc[p] = "lock3"
  /\ nwaitw' = nwaitw - 1
  /\ nhavew' = nhavew + 1
  /\ Goto(p, "lock4")
  /\ UNCHANGED <<depth, muVars, nwaitr, nhaver, holder, holdr, warned, late, handed, fatal>>

\* The critical section of hmu.
LockRecord(p) ==
  /\ pc[p] = "lock4"
  /\ holder' = p
  /\ Goto(p, "wheld")
  /\ UNCHANGED <<depth, muVars, counters, holdr, warned, late, handed, fatal>>

UnlockCall(p) ==
  /\ pc[p] = "wheld"
  /\ Goto(p, "unlock1")
  /\ UNCHANGED <<depth, muVars, counters, holder, holdr, warned, late, handed, fatal>>

UnlockClear(p) ==
  /\ pc[p] = "unlock1"
  /\ holder' = None
  /\ Goto(p, "unlock2")
  /\ UNCHANGED <<depth, muVars, counters, holdr, warned, late, handed, fatal>>

UnlockCount(p) ==
  /\ pc[p] = "unlock2"
  /\ nhavew' = nhavew - 1
  /\ Goto(p, "unlock3")
  /\ UNCHANGED <<depth, muVars, nwaitr, nwaitw, nhaver, holder, holdr, warned, late, handed, fatal>>

\* mu.Unlock admits the readers that are blocked in mu.RLock; the others at
\* "rlock2" have not called it yet.
UnlockRelease(p) ==
  /\ pc[p] = "unlock3"
  /\ ~fatal
  /\ writer' = None
  /\ \E in \in SUBSET {q \in Proc : pc[q] = "rlock2"} :
       /\ nread' = Cardinality(in)
       /\ pc' = [q \in Proc |-> IF q = p THEN "idle"
                                ELSE IF q \in in THEN "rlock3" ELSE pc[q]]
       /\ late' = {l \in late : l[1] \notin in}
  /\ UNCHANGED <<depth, counters, holder, holdr, warned, handed, fatal>>

\* RLock: nwaitr, and the check for a read-write-read lock.
RLockCall(p) ==
  /\ pc[p] \in {"idle", "rheld"}
  /\ depth[p] = 0 \/ (Recursive /\ depth[p] = 1)
  /\ depth' = [depth EXCEPT ![p] = @ + 1]
  /\ nwaitr' = nwaitr + 1
  /\ Goto(p, "rlock1")
  /\ UNCHANGED <<muVars, nwaitw, nhaver, nhavew, holder, holdr, warned, late, handed, fatal>>

\* The check loads nhaver, and then nwaitw: two steps.
RLockCheckR(p) ==
  /\ pc[p] = "rlock1"
  /\ warned' = warned \ {p}
  /\ Goto(p, IF nhaver > 0 THEN "rlock1w" ELSE "rlock2")
  /\ UNCHANGED <<depth, muVars, counters, holder, holdr, late, handed, fatal>>

writerWaits == nwaitw > 0

RLockCheckW(p) ==
  /\ pc[p] = "rlock1w"
  /\ warned' = IF writerWaits THEN warned \cup {p} ELSE warned
  /\ Goto(p, "rlock2")
  /\ UNCHANGED <<depth, muVars, counters, holder, holdr, late, handed, fatal>>

\* mu.RLock, which no writer holds or waits for.
RLockAcquire(p) ==
  /\ pc[p] = "rlock2"
  /\ writer = None
  /\ \A q \in Proc : pc[q] # "lock2"
  /\ nread' = nread + 1
  /\ late' = {l \in late : l[1] # p}
  /\ Goto(p, "rlock3")
  /\ UNCHANGED <<depth, writer, counters, holder, holdr, warned, handed, fatal>>

RLockCount(p) ==
  /\ pc[p] = "rlock3"
  /\ nwaitr' = nwaitr - 1
  /\ nhaver' = nhaver + 1
  /\ Goto(p, "rlock4")
  /\ UNCHANGED <<depth, muVars, nwaitw, nhavew, holder, holdr, warned, late, handed, fatal>>

\* The critical section of hmu; a goroutine that is in holdr already ends the
\* program.
RLockRecord(p) ==
  /\ pc[p] = "rlock4"
  /\ fatal' = (p \in holdr)
  /\ holdr' = holdr \cup {p}
  /\ Goto(p, "rheld")
  /\ UNCHANGED <<depth, muVars, counters, holder, warned, late, handed>>

RUnlockCount(p) ==
  /\ pc[p] = "rheld"
  /\ nhaver' = nhaver - 1
  /\ Goto(p, "runlock2")
  /\ UNCHANGED <<depth, muVars, nwaitr, nwaitw, nhavew, holder, holdr, warned, late, handed, fatal>>

RUnlockForget(p) ==
  /\ pc[p] = "runlock2"
  /\ holdr' = holdr \ {p}
  /\ Goto(p, "runlock3")
  /\ UNCHANGED <<depth, muVars, counters, holder, warned, late, handed, fatal>>

RUnlockRelease(p) ==
  /\ pc[p] = "runlock3"
  /\ nread' = nread - 1
  /\ depth' = [depth EXCEPT ![p] = @ - 1]
  /\ Goto(p, IF depth[p] = 2 THEN "rheld" ELSE "idle")
  /\ UNCHANGED <<writer, counters, holder, holdr, warned, late, handed, fatal>>

\* A goroutine leaves it to another, which has no lock, to call RUnlock.
HandOver(p, q) ==
  /\ pc[p] = "rheld" /\ depth[p] = 1
  /\ pc[q] = "idle" /\ depth[q] = 0
  /\ ~fatal
  /\ pc' = [pc EXCEPT ![p] = "idle", ![q] = "rheld"]
  /\ depth' = [depth EXCEPT ![p] = 0, ![q] = 1]
  /\ handed' = TRUE
  /\ UNCHANGED <<muVars, counters, holder, holdr, warned, late, fatal>>

Next ==
  \E p \in Proc :
    \/ LockCall(p) \/ LockPending(p) \/ LockAcquire(p) \/ LockCount(p) \/ LockRecord(p)
    \/ UnlockCall(p) \/ UnlockClear(p) \/ UnlockCount(p) \/ UnlockRelease(p)
    \/ RLockCall(p) \/ RLockCheckR(p) \/ RLockCheckW(p) \/ RLockAcquire(p) \/ RLockCount(p) \/ RLockRecord(p)
    \/ RUnlockCount(p) \/ RUnlockForget(p) \/ RUnlockRelease(p)
    \/ \E q \in Proc : HandOver(p, q)

-----------------------------------------------------------------------------
\* Every variable has its type; "nhavew int32 // should always be 0 or 1".
TypeOK ==
  /\ pc \in [Proc -> {"idle", "lock1", "lock2", "lock3", "lock4", "wheld",
       "unlock1", "unlock2", "unlock3", "rlock1", "rlock1w", "rlock2", "rlock3", "rlock4",
       "rheld", "runlock2", "runlock3"}]
  /\ depth \in [Proc -> 0..2]
  /\ writer \in Proc \cup {None}
  /\ nread \in Nat
  /\ nwaitr \in Nat /\ nwaitw \in Nat /\ nhaver \in Nat /\ nhavew \in {0, 1}
  /\ holder \in Proc \cup {None}
  /\ holdr \in SUBSET Proc
  /\ warned \in SUBSET Proc
  /\ late \subseteq Proc \X Proc
  /\ handed \in BOOLEAN
  /\ fatal \in BOOLEAN

\* Holder "returns the empty string if the lock is not currently held", and
\* otherwise never the stack of a goroutine other than the one with the lock.
HolderIsWriter == holder # None => holder = writer

\* The counters come back: when every goroutine is outside the tracker, they
\* are zero, and nobody is listed as a holder unless a read lock was released
\* by another goroutine.
CountersSettle ==
  ~fatal /\ (\A p \in Proc : pc[p] = "idle") =>
    /\ nwaitr = 0 /\ nwaitw = 0 /\ nhaver = 0 /\ nhavew = 0
    /\ holder = None /\ (~handed => holdr = {})

\* "Recursive call to RLock" ends, of the programs whose goroutines release
\* their own read locks, only those that do call RLock recursively.
FatalMeansRecursive == fatal /\ ~handed => \E p \in Proc : depth[p] = 2

\* log.Fatalf says so of every program. It does not hold: the goroutine whose
\* read lock another one has released is still in holdr, and its next RLock
\* is taken for a recursive call.
FatalMessageTrue == fatal => \E p \in Proc : depth[p] = 2

\* The tracker's bookkeeping agrees with the mutex it wraps, wherever the
\* goroutines are in Lock, Unlock, RLock and RUnlock, and does no harm as long
\* as they release their own read locks.
TrackerExact == TypeOK /\ HolderIsWriter /\ CountersSettle /\ FatalMeansRecursive

\* A goroutine with a read lock waits in RLock behind a waiting writer, which
\* waits for that read lock.
RWRDeadlock(p) ==
  /\ pc[p] = "rlock2" /\ depth[p] = 2
  /\ \E q \in Proc : pc[q] = "lock2"

\* "Catch read-write-read lock": RLock logs the potential deadlock before it
\* deadlocks, unless the writer comes after the two loads of its check, the
\* window before mu.RLock.
DeadlockReported ==
  \A p \in Proc : RWRDeadlock(p) /\ p \notin warned =>
    \A q \in Proc : pc[q] = "lock2" => <<p, q>> \in late
=============================================================================
