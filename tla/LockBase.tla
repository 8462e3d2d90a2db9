------------------------------ MODULE LockBase ------------------------------
(***************************************************************************)
(* package lock: what the lock functions of all platforms share. Threads   *)
(* of one process exclude each other with lockmu, which both Lock and      *)
(* Close hold to their end; processes only meet in the file system, in one *)
(* file name. The file system is external.                                 *)
(***************************************************************************)
EXTENDS FiniteSets

CONSTANTS
  Thread,   \* goroutines
  Proc,     \* operating system processes
  ProcOf,   \* the process of each thread
  Inode,    \* inodes; unlinked ones that nobody has open are reused
  None,
  Empty,    \* contents of a file: zero size
  Garbage   \* contents of a file: not the JSON of a pidLockMeta with a PID

ASSUME ThreadAssumption == ProcOf \in [Thread -> Proc]
ASSUME NoneAssumption == None \notin Inode \cup Proc \cup Thread
ASSUME ContentAssumption ==
  Empty \notin Proc /\ Garbage \notin Proc /\ Empty # Garbage

VARIABLES
  pc,        \* where in Lock or close each thread is; "held": has the Closer
  fd,        \* the inode of the thread's open *os.File
  lockmu,    \* the thread that holds the process's lockmu
  locked,    \* locked[abs] of each process
  dir        \* the inode the name refers to

\* Nobody has called Lock; the name may be missing, or left by anybody.
BaseInit ==
  /\ pc = [t \in Thread |-> "idle"]
  /\ fd = [t \in Thread |-> None]
  /\ lockmu = [p \in Proc |-> None]
  /\ locked = [p \in Proc |-> FALSE]
  /\ dir \in Inode \cup {None}

Goto(t, l) == pc' = [pc EXCEPT ![t] = l]

LockMu(t) ==
  /\ lockmu[ProcOf[t]] = None
  /\ lockmu' = [lockmu EXCEPT ![ProcOf[t]] = t]

UnlockMu(t) == lockmu' = [lockmu EXCEPT ![ProcOf[t]] = None]

\* Inodes neither linked nor open: creat(2) may return them.
Free == {i \in Inode : dir # i /\ \A t \in Thread : fd[t] # i}

\* "The lock is an exclusive lock (a write lock)": Lock never lets two
\* threads of any processes hold the name at once.
MutualExclusion ==
  \A t, u \in Thread : pc[t] = "held" /\ pc[u] = "held" => t = u

\* Lock's locked map keeps the threads of one process apart; the kernel would
\* not, a process never conflicts with its own fcntl locks.
ExclusiveInProcess ==
  \A t, u \in Thread :
    pc[t] = "held" /\ pc[u] = "held" /\ ProcOf[t] = ProcOf[u] => t = u
=============================================================================
