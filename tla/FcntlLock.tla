----------------------------- MODULE FcntlLock ------------------------------
(***************************************************************************)
(* package lock with lockFn = lockFcntl (Linux and the other Unixes): Lock,  *)
(* lockFcntl, unlocker.Close, for one file name.                           *)
(*                                                                         *)
(* fcntl locks are external: a lock belongs to a process and an inode, and *)
(* goes away when the process closes ANY descriptor of that inode.         *)
(***************************************************************************)
EXTENDS LockBase

VARIABLES
  nonEmpty,  \* the inodes of non-zero size
  flock,     \* the process that holds the write lock on each inode
  unlinked   \* history: some Close has removed the name

vars == <<pc, fd, lockmu, locked, dir, nonEmpty, flock, unlinked>>

\* What has the name may have contents.
Init ==
  /\ BaseInit
  /\ nonEmpty \in SUBSET ({dir} \cap Inode)
  /\ flock = [i \in Inode |-> None]
  /\ unlinked = FALSE

\* close(2) of the descriptor of thread t.
CloseFd(t) ==
  /\ fd' = [fd EXCEPT ![t] = None]
  /\ flock' = IF flock[fd[t]] = ProcOf[t]
              THEN [flock EXCEPT ![fd[t]] = None]
              ELSE flock

-----------------------------------------------------------------------------
(* Slips the properties below must catch; no specification uses them.      *)

\* Lock does not look at locked[abs].
LockCallUnchecked(t) ==
  /\ pc[t] = "idle"
  /\ LockMu(t)
  /\ Goto(t, "stat")
  /\ UNCHANGED <<fd, locked, dir, nonEmpty, flock, unlinked>>

\* lockFcntl ignores the error of FcntlFlock.
SetLkFailsIgnored(t) ==
  /\ pc[t] = "setlk"
  /\ flock[fd[t]] \notin {None, ProcOf[t]}
  /\ locked' = [locked EXCEPT ![ProcOf[t]] = TRUE]
  /\ UnlockMu(t)
  /\ Goto(t, "held")
  /\ UNCHANGED <<fd, dir, nonEmpty, flock, unlinked>>

\* close removes the file but forgets u.f.Close.
CloseFileMissing(t) ==
  /\ pc[t] = "closefd"
  /\ UnlockMu(t)
  /\ Goto(t, "idle")
  /\ fd' = [fd EXCEPT ![t] = None]
  /\ UNCHANGED <<flock, locked, dir, nonEmpty, unlinked>>

-----------------------------------------------------------------------------
\* Lock takes lockmu and finds the name unlocked in this process. (If
\* locked[abs] it fails at once: nothing changes.)
LockCall(t) ==
  /\ pc[t] = "idle"
  /\ LockMu(t)
  /\ ~locked[ProcOf[t]]
  /\ Goto(t, "stat")
  /\ UNCHANGED <<fd, locked, dir, nonEmpty, flock, unlinked>>

\* os.Stat: no file, or an empty one.
Stat(t) ==
  /\ pc[t] = "stat"
  /\ dir \notin nonEmpty
  /\ Goto(t, "create")
  /\ UNCHANGED <<fd, lockmu, locked, dir, nonEmpty, flock, unlinked>>

\* os.Stat: a file with contents, Lock fails.
StatNonEmpty(t) ==
  /\ pc[t] = "stat"
  /\ dir \in nonEmpty
  /\ UnlockMu(t)
  /\ Goto(t, "idle")
  /\ UNCHANGED <<fd, locked, dir, nonEmpty, flock, unlinked>>

\* os.Create: opens, and truncates, what is there, or links a new inode.
Create(t) ==
  /\ pc[t] = "create"
  /\ \E i \in IF dir # None THEN {dir} ELSE Free :
       /\ dir' = i
       /\ nonEmpty' = nonEmpty \ {i}
       /\ fd' = [fd EXCEPT ![t] = i]
  /\ Goto(t, "setlk")
  /\ UNCHANGED <<lockmu, locked, flock, unlinked>>

\* os.Create fails.
CreateFails(t) ==
  /\ pc[t] = "create"
  /\ UnlockMu(t)
  /\ Goto(t, "idle")
  /\ UNCHANGED <<fd, locked, dir, nonEmpty, flock, unlinked>>

\* F_SETLK succeeds, and Lock returns the unlocker.
SetLk(t) ==
  /\ pc[t] = "setlk"
  /\ flock[fd[t]] \in {None, ProcOf[t]}
  /\ flock' = [flock EXCEPT ![fd[t]] = ProcOf[t]]
  /\ locked' = [locked EXCEPT ![ProcOf[t]] = TRUE]
  /\ UnlockMu(t)
  /\ Goto(t, "held")
  /\ UNCHANGED <<fd, dir, nonEmpty, unlinked>>

\* F_SETLK fails: f.Close, Lock returns the error.
SetLkFails(t) ==
  /\ pc[t] = "setlk"
  /\ flock[fd[t]] \notin {None, ProcOf[t]}
  /\ CloseFd(t)
  /\ UnlockMu(t)
  /\ Goto(t, "idle")
  /\ UNCHANGED <<locked, dir, nonEmpty, unlinked>>

\* unlocker.close takes lockmu and gives the name up. (once: a second Close
\* does nothing.)
CloseCall(t) ==
  /\ pc[t] = "held"
  /\ LockMu(t)
  /\ locked' = [locked EXCEPT ![ProcOf[t]] = FALSE]
  /\ Goto(t, "remove")
  /\ UNCHANGED <<fd, dir, nonEmpty, flock, unlinked>>

\* os.Remove(u.abs): whatever inode the name refers to now.
Remove(t) ==
  /\ pc[t] = "remove"
  /\ dir' = None
  /\ unlinked' = TRUE
  /\ Goto(t, "closefd")
  /\ UNCHANGED <<fd, lockmu, locked, nonEmpty, flock>>

\* u.f.Close.
CloseFile(t) ==
  /\ pc[t] = "closefd"
  /\ CloseFd(t)
  /\ UnlockMu(t)
  /\ Goto(t, "idle")
  /\ UNCHANGED <<locked, dir, nonEmpty, unlinked>>

\* The process exits or is killed, at any point, and is started again: the
\* kernel closes its descriptors and drops its locks.
Exit(p) ==
  LET mine == {t \in Thread : ProcOf[t] = p} IN
  /\ \E t \in mine : pc[t] # "idle"
  /\ pc' = [t \in Thread |-> IF t \in mine THEN "idle" ELSE pc[t]]
  /\ fd' = [t \in Thread |-> IF t \in mine THEN None ELSE fd[t]]
  /\ flock' = [i \in Inode |-> IF flock[i] = p THEN None ELSE flock[i]]
  /\ lockmu' = [lockmu EXCEPT ![p] = None]
  /\ locked' = [locked EXCEPT ![p] = FALSE]
  /\ UNCHANGED <<dir, nonEmpty, unlinked>>

Next ==
  \/ \E t \in Thread :
       \/ LockCall(t) \/ Stat(t) \/ StatNonEmpty(t) \/ Create(t) \/ CreateFails(t)
       \/ SetLk(t) \/ SetLkFails(t) \/ CloseCall(t) \/ Remove(t) \/ CloseFile(t)
  \/ \E p \in Proc : Exit(p)

Spec == Init /\ [][Next]_vars

-----------------------------------------------------------------------------
\* Every variable has its type.
TypeOK ==
  /\ pc \in [Thread -> {"idle", "stat", "create", "setlk", "held", "remove",
                        "closefd"}]
  /\ fd \in [Thread -> Inode \cup {None}]
  /\ lockmu \in [Proc -> Thread \cup {None}]
  /\ locked \in [Proc -> BOOLEAN]
  /\ dir \in Inode \cup {None}
  /\ nonEmpty \in SUBSET Inode
  /\ flock \in [Inode -> Proc \cup {None}]
  /\ unlinked \in BOOLEAN
  /\ \A t \in Thread : pc[t] \notin {"idle", "stat", "create"} => fd[t] \in Inode

\* Threads between Lock's return and the release of the kernel lock.
Holding(t) == pc[t] \in {"held", "remove", "closefd"}

\* "closing any other file descriptor for the same file will release the lock
\* prematurely": no Lock or Close of this package ever does that. A thread
\* that holds the name has the kernel lock on the inode it opened.
LockNotLost ==
  \A t \in Thread : Holding(t) => flock[fd[t]] = ProcOf[t]

\* Lock is exclusive as long as no Close has removed the name: then only exits
\* release it, and every descriptor is one of the linked inode.
ExclusiveUntilUnlink == ~unlinked => MutualExclusion

\* A lock the kernel holds has a live owner: what a process leaves behind when
\* it dies at any step of Lock or Close never blocks the others.
NoOrphanLock ==
  \A i \in Inode : flock[i] # None =>
    \E t \in Thread : ProcOf[t] = flock[i] /\ fd[t] = i /\ Holding(t)
=============================================================================
