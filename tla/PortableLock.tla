---------------------------- MODULE PortableLock ----------------------------
(***************************************************************************)
(* package lock with lockFn = lockPortable: Lock, lockPortable,            *)
(* portableLockStatus and unlocker.Close, for one file name.               *)
(*                                                                         *)
(* Every system call is a step of its own. The file holds the PID of its   *)
(* owner; processes die at any step, and the system may give a dead        *)
(* process's PID to a new one (external).                                  *)
(*                                                                         *)
(* Whether the package can tell that an owner is dead depends on the       *)
(* build. signalZero is set by lock_sigzero.go under the same constraint   *)
(* under which lock_unix.go replaces lockFn, so that it is nil in every    *)
(* build whose Lock calls lockPortable. Builds that have it, or whose      *)
(* os.FindProcess fails for a dead process (Windows), have another lockFn; *)
(* lockPortable is then called directly, as lock_test.go does, and neither *)
(* lockmu nor locked guards it. Both kinds are modelled.                   *)
(***************************************************************************)
EXTENDS LockBase

VARIABLES
  pid,       \* meta.OwnerPID read by portableLockStatus
  content,   \* the contents of each inode
  alive,     \* the processes that run
  signalZero,   \* a PID can be probed: signalZero # nil, or FindProcess fails
  usurped    \* history: os.Remove took a file that was not stale

vars == <<pc, fd, pid, lockmu, locked, dir, content, alive, signalZero, usurped>>
osVars == <<alive, signalZero, usurped>>

\* A file that has the name already may be a lock file, with a PID in use.
Init ==
  /\ BaseInit
  /\ pid = [t \in Thread |-> None]
  /\ \E c \in Proc \cup {Empty, Garbage} : content = [i \in Inode |-> c]
  /\ alive = [p \in Proc |-> TRUE]
  /\ signalZero \in BOOLEAN
  /\ usurped = FALSE

\* Some file has the name and the PID in it is that of a dead process.
Stale == dir # None /\ content[dir] \in Proc /\ ~alive[content[dir]]

\* Lock, when it is what calls lockPortable, returns and unlocks lockmu.
Return(t) == IF signalZero THEN UNCHANGED lockmu ELSE UnlockMu(t)

\* Lock returns an error.
Fail(t) ==
  /\ Return(t)
  /\ Goto(t, "idle")
  /\ pid' = [pid EXCEPT ![t] = None]

-----------------------------------------------------------------------------
(* Slips the properties below must catch; no specification uses them.      *)

\* os.OpenFile without O_EXCL.
CreateExistsTruncates(t) ==
  /\ pc[t] = "create"
  /\ dir # None
  /\ fd' = [fd EXCEPT ![t] = dir]
  /\ content' = [content EXCEPT ![dir] = Empty]
  /\ Goto(t, "encode")
  /\ UNCHANGED <<pid, lockmu, locked, dir, osVars>>

\* A stale file is reported as an error and left.
ProbeStaleFails(t) ==
  /\ pc[t] = "probe"
  /\ signalZero /\ ~alive[pid[t]]
  /\ Fail(t)
  /\ UNCHANGED <<fd, locked, dir, content, osVars>>

\* The status of a file that cannot be decoded is statusStale.
StatusInvalidStale(t) ==
  /\ pc[t] = "status"
  /\ dir # None /\ content[dir] \notin Proc
  /\ Goto(t, "remove")
  /\ UNCHANGED <<fd, pid, lockmu, locked, dir, content, osVars>>

-----------------------------------------------------------------------------
\* Lock takes lockmu and finds the name unlocked in this process (if
\* locked[abs] it fails at once: nothing changes), or lockPortable is called.
LockCall(t) ==
  /\ pc[t] = "idle" /\ alive[ProcOf[t]]
  /\ \/ signalZero /\ UNCHANGED lockmu
     \/ ~signalZero /\ LockMu(t) /\ ~locked[ProcOf[t]]
  /\ Goto(t, "stat")
  /\ UNCHANGED <<fd, pid, locked, dir, content, osVars>>

\* os.Stat: a file of non-zero size has its status looked up.
Stat(t) ==
  /\ pc[t] = "stat"
  /\ Goto(t, IF dir # None /\ content[dir] # Empty THEN "status" ELSE "create")
  /\ UNCHANGED <<fd, pid, lockmu, locked, dir, content, osVars>>

\* portableLockStatus opens and decodes the file; it is gone by now:
\* statusUnlocked.
StatusGone(t) ==
  /\ pc[t] = "status"
  /\ dir = None
  /\ Goto(t, "create")
  /\ UNCHANGED <<fd, pid, lockmu, locked, dir, content, osVars>>

\* It cannot be decoded, or names no PID: statusInvalid, Lock fails.
StatusInvalid(t) ==
  /\ pc[t] = "status"
  /\ dir # None /\ content[dir] \notin Proc
  /\ Fail(t)
  /\ UNCHANGED <<fd, locked, dir, content, osVars>>

\* It names an owner.
StatusOwner(t) ==
  /\ pc[t] = "status"
  /\ dir # None /\ content[dir] \in Proc
  /\ pid' = [pid EXCEPT ![t] = content[dir]]
  /\ Goto(t, "probe")
  /\ UNCHANGED <<fd, lockmu, locked, dir, content, osVars>>

\* The process is found, and signal 0 can be sent to it or there is no signal 0
\* to send: statusLocked, Lock fails.
ProbeLocked(t) ==
  /\ pc[t] = "probe"
  /\ signalZero => alive[pid[t]]
  /\ Fail(t)
  /\ UNCHANGED <<fd, locked, dir, content, osVars>>

\* FindProcess or Signal returns an error: statusStale. There is no such
\* process, or it is another user's, whom this process may not signal.
ProbeStale(t) ==
  /\ pc[t] = "probe"
  /\ signalZero /\ (~alive[pid[t]] \/ pid[t] # ProcOf[t])
  /\ pid' = [pid EXCEPT ![t] = None]
  /\ Goto(t, "remove")
  /\ UNCHANGED <<fd, lockmu, locked, dir, content, osVars>>

\* os.Remove(name): whatever file has the name now.
RemoveStale(t) ==
  /\ pc[t] = "remove"
  /\ dir' = None
  /\ usurped' = (usurped \/ (dir # None /\ ~Stale))
  /\ Goto(t, "create")
  /\ UNCHANGED <<fd, pid, lockmu, locked, content, alive, signalZero>>

\* os.OpenFile with O_CREATE and O_EXCL: the name is free.
Create(t) ==
  /\ pc[t] = "create"
  /\ dir = None
  /\ \E i \in Free :
       /\ dir' = i
       /\ content' = [content EXCEPT ![i] = Empty]
       /\ fd' = [fd EXCEPT ![t] = i]
  /\ Goto(t, "encode")
  /\ UNCHANGED <<pid, lockmu, locked, osVars>>

\* The name is taken, by an empty file too: Lock fails.
CreateExists(t) ==
  /\ pc[t] = "create"
  /\ dir # None
  /\ Fail(t)
  /\ UNCHANGED <<fd, locked, dir, content, osVars>>

\* The owner's PID is written and Lock returns the unlocker.
Encode(t) ==
  /\ pc[t] = "encode"
  /\ content' = [content EXCEPT ![fd[t]] = ProcOf[t]]
  /\ locked' = [locked EXCEPT ![ProcOf[t]] = ~signalZero]
  /\ Return(t)
  /\ Goto(t, "held")
  /\ UNCHANGED <<fd, pid, dir, osVars>>

\* The write fails: Lock returns the error, the file stays.
EncodeFails(t) ==
  /\ pc[t] = "encode"
  /\ fd' = [fd EXCEPT ![t] = None]
  /\ Fail(t)
  /\ UNCHANGED <<locked, dir, content, osVars>>

\* unlocker.close: gives the name up and closes the file. (once: a second
\* Close does nothing.)
CloseCall(t) ==
  /\ pc[t] = "held"
  /\ LockMu(t)
  /\ locked' = [locked EXCEPT ![ProcOf[t]] = FALSE]
  /\ fd' = [fd EXCEPT ![t] = None]
  /\ Goto(t, "unlink")
  /\ UNCHANGED <<pid, dir, content, osVars>>

\* os.Remove(u.abs).
Unlink(t) ==
  /\ pc[t] = "unlink"
  /\ dir' = None
  /\ UnlockMu(t)
  /\ Goto(t, "idle")
  /\ UNCHANGED <<fd, pid, locked, content, osVars>>

\* The process ends, at any point.
Exit(p) ==
  LET mine == {t \in Thread : ProcOf[t] = p} IN
  /\ alive[p]
  /\ alive' = [alive EXCEPT ![p] = FALSE]
  /\ pc' = [t \in Thread |-> IF t \in mine THEN "idle" ELSE pc[t]]
  /\ fd' = [t \in Thread |-> IF t \in mine THEN None ELSE fd[t]]
  /\ pid' = [t \in Thread |-> IF t \in mine THEN None ELSE pid[t]]
  /\ lockmu' = [lockmu EXCEPT ![p] = None]
  /\ locked' = [locked EXCEPT ![p] = FALSE]
  /\ UNCHANGED <<dir, content, signalZero, usurped>>

\* A new process gets the PID of a dead one.
Start(p) ==
  /\ ~alive[p]
  /\ alive' = [alive EXCEPT ![p] = TRUE]
  /\ UNCHANGED <<pc, fd, pid, lockmu, locked, dir, content, signalZero, usurped>>

\* What a thread does inside Lock and close once it was called.
Progress(t) ==
  \/ Stat(t) \/ StatusGone(t) \/ StatusInvalid(t) \/ StatusOwner(t)
  \/ ProbeLocked(t) \/ ProbeStale(t) \/ RemoveStale(t)
  \/ Create(t) \/ CreateExists(t) \/ Encode(t) \/ EncodeFails(t) \/ Unlink(t)

Next ==
  \/ \E t \in Thread : LockCall(t) \/ CloseCall(t) \/ Progress(t)
  \/ \E p \in Proc : Exit(p) \/ Start(p)

Spec == Init /\ [][Next]_vars

-----------------------------------------------------------------------------
\* Every variable has its type.
TypeOK ==
  /\ pc \in [Thread -> {"idle", "stat", "status", "probe", "remove", "create",
                        "encode", "held", "unlink"}]
  /\ fd \in [Thread -> Inode \cup {None}]
  /\ pid \in [Thread -> Proc \cup {None}]
  /\ lockmu \in [Proc -> Thread \cup {None}]
  /\ locked \in [Proc -> BOOLEAN]
  /\ dir \in Inode \cup {None}
  /\ content \in [Inode -> Proc \cup {Empty, Garbage}]
  /\ alive \in [Proc -> BOOLEAN]
  /\ signalZero \in BOOLEAN
  /\ usurped \in BOOLEAN
  /\ \A t \in Thread :
       /\ pc[t] \in {"encode", "held"} => fd[t] \in Inode
       /\ pc[t] = "probe" => pid[t] \in Proc

\* Lock is exclusive, whichever processes die when, unless os.Remove took a
\* file that was not stale: one that replaced the stale file after it was
\* examined, or a live owner's that could not be signalled. Where signalZero
\* is nil that never happens: O_EXCL settles every race.
PortableExclusive ==
  /\ ~usurped => MutualExclusion
  /\ usurped => signalZero

\* Under the same condition the holder's file keeps the name and the holder's
\* PID, whatever the other processes' Lock calls do meanwhile.
HolderKeepsFile ==
  ~usurped => \A t \in Thread :
                pc[t] = "held" => dir = fd[t] /\ content[dir] = ProcOf[t]

\* close takes the name from the file that its own process has written.
UnlinksOwn ==
  \E t \in Thread : pc[t] = "unlink" /\ pc'[t] = "idle" /\ content[dir] = ProcOf[t]

\* A step takes the name from a file that is somebody else's: one that cannot
\* be decoded, or, while only stale files were removed as stale, one that is
\* neither stale nor the closer's own. Where signalZero is nil a stale file is
\* somebody else's too.
RemovesForeign ==
  /\ dir # None /\ dir' # dir
  /\ \/ content[dir] = Garbage
     \/ ~usurped' /\ ~UnlinksOwn /\ (signalZero => ~Stale)

\* A file that Lock says must have zero size can be locked: Lock's create step
\* fails only when another thread has the lock file open.
EmptyFileLockable ==
  [][\A t \in Thread : CreateExists(t) => \E u \in Thread \ {t} : fd[u] # None]_vars

\* The name is blocked for good: an empty file that nobody will complete.
Wedged ==
  dir # None /\ content[dir] = Empty /\ \A t \in Thread : fd[t] # dir

\* Where a PID can be probed, what a holder that died leaves is found stale and
\* replaced once processes have stopped coming and going, as long as one is
\* there, the dead PID was not given to a new process, and none died between
\* creating the file and writing its PID.
StaleIsRecovered ==
  <>[][alive' = alive]_vars =>
    (Stale /\ signalZero ~>
              \/ \E t \in Thread : pc[t] = "held"
              \/ Wedged
              \/ \A t \in Thread : ~alive[ProcOf[t]]
              \/ dir # None /\ content[dir] \in Proc /\ alive[content[dir]])
=============================================================================
