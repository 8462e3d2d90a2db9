-------------------------------- MODULE Lock --------------------------------
(***************************************************************************)
(* package lock: lockFn is lockFcntl where lock_unix.go's init sets it;     *)
(* lockPortable is lockFn elsewhere, and is called directly where          *)
(* signalZero is set. One process has two threads, one has one, and a      *)
(* third PID is that of some other program.                                *)
(***************************************************************************)
EXTENDS FcntlLock, TLC

CONSTANTS p1, p2, p3, t1, t2, t3

MCProcOf == t1 :> p1 @@ t2 :> p1 @@ t3 :> p2

VARIABLES
  lockFn,
  ppc, pfd, plockmu, plocked, pdir, pid, content, alive, signalZero, usurped

Portable == INSTANCE PortableLock WITH
              pc <- ppc, fd <- pfd, lockmu <- plockmu, locked <- plocked, dir <- pdir

portableVars ==
  <<ppc, pfd, plockmu, plocked, pdir, pid, content, alive, signalZero, usurped>>
allVars == <<lockFn, vars, portableVars>>

\* The lock that the platform does not have is left alone.
LockInit ==
  /\ Init /\ Portable!Init
  /\ \/ /\ lockFn = "lockFcntl" /\ signalZero
        /\ pdir = None /\ content = [i \in Inode |-> Empty]
     \/ lockFn = "lockPortable" /\ dir = None

FcntlStep ==
  /\ lockFn = "lockFcntl"
  /\ Next
  /\ UNCHANGED <<lockFn, portableVars>>

PortableStep ==
  /\ lockFn = "lockPortable"
  /\ Portable!Next
  /\ UNCHANGED <<lockFn, vars>>

LockNext == FcntlStep \/ PortableStep

\* A thread of a lockPortable process goes on inside Lock or close, or locks
\* the name again when it does not hold it.
GoesOn(t) ==
  /\ lockFn = "lockPortable"
  /\ Portable!Progress(t) \/ Portable!LockCall(t)
  /\ UNCHANGED <<lockFn, vars>>

LockSpec ==
  /\ LockInit /\ [][LockNext]_allVars
  /\ \A t \in Thread : WF_allVars(GoesOn(t))

-----------------------------------------------------------------------------
(* Of lockFcntl, LockNotLost, ExclusiveUntilUnlink and NoOrphanLock of      *)
(* FcntlLock are checked as they are.                                      *)

\* lockPortable is exclusive between processes, whichever die when, until it
\* removes a file that is not stale, and it never does where signalZero is nil.
PortableExclusive == Portable!PortableExclusive

\* lockPortable never removes a file that it cannot decode. Until it first
\* takes a file for stale that is not, it only removes stale files and, in
\* Close, its own; where signalZero is nil, only its own.
ForeignFileKept ==
  [][lockFn = "lockPortable" => ~Portable!RemovesForeign]_allVars

\* Where a PID can be probed, lockPortable finds the file of a dead holder
\* stale and replaces it.
StaleIsRecovered == lockFn = "lockPortable" => Portable!StaleIsRecovered
=============================================================================
