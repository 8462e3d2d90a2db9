----------------------------- MODULE LockProofs -----------------------------
(***************************************************************************)
(* Proofs about Lock and Close, with fcntl locks and with PID files, for    *)
(* any number of processes, threads and inodes, with exits at any step.    *)
(***************************************************************************)
EXTENDS Lock, TLAPS

-----------------------------------------------------------------------------
(* lockFcntl                                                                *)

\* A thread inside Lock or close holds its process's lockmu.
InLock(t) == pc[t] \in {"stat", "create", "setlk"}
InClose(t) == pc[t] \in {"remove", "closefd"}

MuHeld == \A t \in Thread : InLock(t) \/ InClose(t) => lockmu[ProcOf[t]] = t

\* Which threads have a descriptor.
HasFd ==
  \A t \in Thread :
    fd[t] # None <=> pc[t] \in {"setlk", "held", "remove", "closefd"}

\* locked[abs] is set while a thread of the process is the holder, and no
\* thread of the process is inside lockFcntl then.
LockedMeansHeld ==
  /\ \A t \in Thread : pc[t] = "held" => locked[ProcOf[t]]
  /\ \A t \in Thread : InLock(t) \/ InClose(t) => ~locked[ProcOf[t]]

\* Until the first Remove every descriptor is one of the linked inode.
AllLinked == ~unlinked =>
  /\ \A t \in Thread : fd[t] # None => fd[t] = dir
  /\ \A t \in Thread : pc[t] # "closefd"

Inv ==
  TypeOK /\ MuHeld /\ HasFd /\ LockedMeansHeld /\ ExclusiveInProcess
    /\ LockNotLost /\ NoOrphanLock /\ AllLinked

\* The inductive invariant of Lock and Close with fcntl locks.
LEMMA InvHolds == Spec => []Inv
<1> USE ThreadAssumption, NoneAssumption
<1>1. Init => Inv
  BY DEF Init, BaseInit, Inv, TypeOK, MuHeld, HasFd, LockedMeansHeld, ExclusiveInProcess,
         LockNotLost, NoOrphanLock, AllLinked, InLock, InClose, Holding
<1>2. Inv /\ [Next]_vars => Inv'
  <2> SUFFICES ASSUME Inv, [Next]_vars PROVE Inv'
    OBVIOUS
  <2> USE DEF Inv, TypeOK, MuHeld, HasFd, LockedMeansHeld, ExclusiveInProcess,
              LockNotLost, NoOrphanLock, AllLinked, InLock, InClose, Holding,
              Goto, LockMu, UnlockMu
  <2>1. CASE UNCHANGED vars
    BY <2>1 DEF vars
  <2>2. ASSUME NEW t \in Thread, LockCall(t) PROVE Inv'
    BY <2>2 DEF LockCall
  <2>3. ASSUME NEW t \in Thread, Stat(t) PROVE Inv'
    BY <2>3 DEF Stat
  <2>4. ASSUME NEW t \in Thread, StatNonEmpty(t) PROVE Inv'
    BY <2>4 DEF StatNonEmpty
  <2>5. ASSUME NEW t \in Thread, Create(t) PROVE Inv'
    BY <2>5 DEF Create, Free
  <2>6. ASSUME NEW t \in Thread, CreateFails(t) PROVE Inv'
    BY <2>6 DEF CreateFails
  <2>7. ASSUME NEW t \in Thread, SetLk(t) PROVE Inv'
    BY <2>7 DEF SetLk
  <2>8. ASSUME NEW t \in Thread, SetLkFails(t) PROVE Inv'
    BY <2>8 DEF SetLkFails, CloseFd
  <2>9. ASSUME NEW t \in Thread, CloseCall(t) PROVE Inv'
    BY <2>9 DEF CloseCall
  <2>10. ASSUME NEW t \in Thread, Remove(t) PROVE Inv'
    BY <2>10 DEF Remove
  <2>11. ASSUME NEW t \in Thread, CloseFile(t) PROVE Inv'
    BY <2>11 DEF CloseFile, CloseFd
  <2>12. ASSUME NEW p \in Proc, Exit(p) PROVE Inv'
    BY <2>12 DEF Exit
  <2>13. QED
    BY <2>1, <2>2, <2>3, <2>4, <2>5, <2>6, <2>7, <2>8, <2>9, <2>10, <2>11,
       <2>12 DEF Next
<1>3. QED
  BY <1>1, <1>2, PTL DEF Spec

-----------------------------------------------------------------------------
(* lockPortable                                                             *)

\* A thread inside close, or inside Lock, holds its process's lockmu.
PMuHeld ==
  \A t \in Thread :
    ppc[t] = "unlink" \/ (~signalZero /\ ppc[t] \notin {"idle", "held"})
      => plockmu[ProcOf[t]] = t

PLockedMeansHeld == ~signalZero =>
  /\ \A t \in Thread : ppc[t] = "held" => plocked[ProcOf[t]]
  /\ \A t \in Thread : ppc[t] \notin {"idle", "held"} => ~plocked[ProcOf[t]]

\* Only the threads of live processes are inside Lock or hold the name.
PAlive == \A t \in Thread : ppc[t] # "idle" => alive[ProcOf[t]]

\* No verdict of statusStale without a probe.
NoProbe == ~signalZero => ~usurped /\ \A t \in Thread : ppc[t] # "remove"

\* The threads that have created the file and not yet removed it.
Owning(t) == ppc[t] \in {"encode", "held", "unlink"}

\* A file that nobody can decode was there from the start: nobody has created
\* one since, nor found it stale.
NoGarbage ==
  pdir # None /\ content[pdir] = Garbage =>
    \A t \in Thread : ppc[t] \in {"idle", "stat", "status", "create"}

\* While only stale files are removed as stale, the file belongs to one
\* thread, of a live process, from its creation to its removal.
OneOwner == ~usurped =>
  /\ \A t, u \in Thread : Owning(t) /\ Owning(u) => t = u
  /\ \A t \in Thread : Owning(t) => pdir \in Inode
  /\ \A t \in Thread : ppc[t] \in {"encode", "held"} => pdir = pfd[t]
  /\ \A t \in Thread : ppc[t] = "encode" => content[pdir] = Empty
  /\ \A t \in Thread : ppc[t] \in {"held", "unlink"} => content[pdir] = ProcOf[t]

PInv ==
  Portable!TypeOK /\ PMuHeld /\ PLockedMeansHeld /\ PAlive /\ NoProbe
    /\ NoGarbage /\ OneOwner

\* The inductive invariant of Lock and Close with PID files.
LEMMA PInvHolds == Portable!Spec => []PInv
<1> USE ThreadAssumption, NoneAssumption, ContentAssumption
<1>1. Portable!Init => PInv
  BY ZenonT(60) DEF Portable!Init, Portable!BaseInit, PInv, Portable!TypeOK, PMuHeld,
         PLockedMeansHeld, PAlive, NoProbe, NoGarbage, OneOwner, Owning
<1>2. PInv /\ [Portable!Next]_(Portable!vars) => PInv'
  <2> SUFFICES ASSUME PInv, [Portable!Next]_(Portable!vars) PROVE PInv'
    OBVIOUS
  <2> USE DEF PInv, Portable!TypeOK, PMuHeld, PLockedMeansHeld, PAlive, NoProbe,
              NoGarbage, OneOwner, Owning, Portable!Goto, Portable!LockMu,
              Portable!UnlockMu, Portable!Return, Portable!Fail, Portable!osVars
  <2>1. CASE UNCHANGED Portable!vars
    BY <2>1 DEF Portable!vars
  <2>2. ASSUME NEW t \in Thread, Portable!LockCall(t) PROVE PInv'
    BY <2>2 DEF Portable!LockCall
  <2>3. ASSUME NEW t \in Thread, Portable!Stat(t) PROVE PInv'
    BY <2>3 DEF Portable!Stat
  <2>4. ASSUME NEW t \in Thread, Portable!StatusGone(t) \/ Portable!StatusInvalid(t)
        PROVE  PInv'
    BY <2>4 DEF Portable!StatusGone, Portable!StatusInvalid
  <2>5. ASSUME NEW t \in Thread, Portable!StatusOwner(t) PROVE PInv'
    BY <2>5 DEF Portable!StatusOwner
  <2>6. ASSUME NEW t \in Thread, Portable!ProbeLocked(t) PROVE PInv'
    BY <2>6 DEF Portable!ProbeLocked
  <2>7. ASSUME NEW t \in Thread, Portable!ProbeStale(t) PROVE PInv'
    BY <2>7 DEF Portable!ProbeStale
  <2>8. ASSUME NEW t \in Thread, Portable!RemoveStale(t) PROVE PInv'
    BY <2>8 DEF Portable!RemoveStale, Portable!Stale
  <2>9. ASSUME NEW t \in Thread, Portable!Create(t) PROVE PInv'
    BY <2>9 DEF Portable!Create, Portable!Free
  <2>10. ASSUME NEW t \in Thread, Portable!CreateExists(t) PROVE PInv'
    BY <2>10 DEF Portable!CreateExists
  <2>11. ASSUME NEW t \in Thread, Portable!Encode(t) PROVE PInv'
    BY <2>11 DEF Portable!Encode
  <2>12. ASSUME NEW t \in Thread, Portable!EncodeFails(t) PROVE PInv'
    BY <2>12 DEF Portable!EncodeFails
  <2>13. ASSUME NEW t \in Thread, Portable!CloseCall(t) PROVE PInv'
    BY <2>13 DEF Portable!CloseCall
  <2>14. ASSUME NEW t \in Thread, Portable!Unlink(t) PROVE PInv'
    BY <2>14 DEF Portable!Unlink
  <2>15. ASSUME NEW p \in Proc, Portable!Exit(p) PROVE PInv'
    BY <2>15 DEF Portable!Exit
  <2>16. ASSUME NEW p \in Proc, Portable!Start(p) PROVE PInv'
    BY <2>16 DEF Portable!Start
  <2>17. QED
    BY <2>1, <2>2, <2>3, <2>4, <2>5, <2>6, <2>7, <2>8, <2>9, <2>10, <2>11,
       <2>12, <2>13, <2>14, <2>15, <2>16 DEF Portable!Next, Portable!Progress
<1>3. QED
  BY <1>1, <1>2, PTL DEF Portable!Spec

-----------------------------------------------------------------------------
(* The package: the platform has one of the two, and the other's variables  *)
(* never change.                                                            *)

\* The steps of the package are steps of lockFcntl, or leave it alone.
LEMMA UsesFcntl == LockSpec => Spec
<1>1. LockInit => Init
  BY DEF LockInit
<1>2. [LockNext]_allVars => [Next]_vars
  BY DEF LockNext, FcntlStep, PortableStep, allVars
<1>3. QED
  BY <1>1, <1>2, PTL DEF LockSpec, Spec

\* The steps of the package are steps of lockPortable, or leave it alone.
LEMMA UsesPortable == LockSpec => Portable!Spec
<1>1. LockInit => Portable!Init
  BY DEF LockInit
<1>2. [LockNext]_allVars => [Portable!Next]_(Portable!vars)
  BY DEF LockNext, FcntlStep, PortableStep, allVars, portableVars, Portable!vars
<1>3. QED
  BY <1>1, <1>2, PTL DEF LockSpec, Portable!Spec

\* The types of Lock's, the kernel's and the file system's state.
THEOREM TypeCorrect == LockSpec => [](TypeOK /\ Portable!TypeOK)
BY UsesFcntl, UsesPortable, InvHolds, PInvHolds, PTL DEF Inv, PInv

\* One thread of a process at most is the holder, whichever lockFn Lock calls.
THEOREM ExclusiveInProcessHolds ==
  LockSpec => [](ExclusiveInProcess /\ (~signalZero => Portable!ExclusiveInProcess))
<1>1. PInv => (~signalZero => Portable!ExclusiveInProcess)
  BY DEF PInv, NoProbe, OneOwner, Owning, Portable!ExclusiveInProcess
<1>2. QED
  BY <1>1, UsesFcntl, UsesPortable, InvHolds, PInvHolds, PTL DEF Inv

\* lockFcntl: the package never releases a held kernel lock prematurely.
THEOREM LockNotLostHolds == LockSpec => []LockNotLost
BY UsesFcntl, InvHolds, PTL DEF Inv

\* lockFcntl: a crash at any step leaves no kernel lock behind.
THEOREM NoOrphanLockHolds == LockSpec => []NoOrphanLock
BY UsesFcntl, InvHolds, PTL DEF Inv

\* lockFcntl: across processes the lock is exclusive until some Close removes
\* the name.
THEOREM ExclusiveUntilUnlinkHolds == LockSpec => []ExclusiveUntilUnlink
<1>1. Inv => ExclusiveUntilUnlink
  <2> SUFFICES ASSUME Inv, ~unlinked, NEW t \in Thread, NEW u \in Thread,
                      pc[t] = "held", pc[u] = "held"
               PROVE  t = u
    BY DEF ExclusiveUntilUnlink, MutualExclusion
  <2>1. fd[t] = dir /\ fd[u] = dir
    BY DEF Inv, AllLinked, HasFd
  <2>2. ProcOf[t] = ProcOf[u]
    BY <2>1 DEF Inv, LockNotLost, Holding
  <2>3. QED
    BY <2>2 DEF Inv, ExclusiveInProcess
<1>2. QED
  BY <1>1, UsesFcntl, InvHolds, PTL

\* lockPortable: the lock is exclusive, whichever processes die when, until
\* a file that is not stale is removed as stale; with signalZero nil, always.
THEOREM PortableExclusiveHolds == LockSpec => []PortableExclusive
<1>1. PInv => PortableExclusive
  BY DEF PInv, NoProbe, OneOwner, Owning, PortableExclusive,
         Portable!PortableExclusive, Portable!MutualExclusion
<1>2. QED
  BY <1>1, UsesPortable, PInvHolds, PTL

\* lockPortable: the holder's file keeps its name and PID until a file that is
\* not stale is removed as stale.
THEOREM HolderKeepsFileHolds == LockSpec => []Portable!HolderKeepsFile
<1>1. PInv => Portable!HolderKeepsFile
  BY DEF PInv, OneOwner, Owning, Portable!HolderKeepsFile
<1>2. QED
  BY <1>1, UsesPortable, PInvHolds, PTL

\* lockPortable: no step takes the name from a file that does not decode. Until
\* a file that is not stale is removed as stale, the only steps that take it
\* from any other are the Unlink of the thread that wrote its own PID there
\* and, where a PID can be probed, the removal of a dead owner's file.
THEOREM ForeignFileKeptHolds == LockSpec => ForeignFileKept
<1> USE ThreadAssumption, NoneAssumption, ContentAssumption
<1>1. PInv /\ [Portable!Next]_(Portable!vars) => ~Portable!RemovesForeign
  <2> SUFFICES ASSUME PInv, [Portable!Next]_(Portable!vars), Portable!RemovesForeign
               PROVE  FALSE
    OBVIOUS
  <2>1. pdir # None /\ pdir' # pdir
    BY DEF Portable!RemovesForeign
  <2>2. \/ \E t \in Thread : Portable!RemoveStale(t) \/ Portable!Unlink(t)
        \/ \E t \in Thread : Portable!Create(t)
    BY <2>1 DEF Portable!Next, Portable!Progress, Portable!vars, Portable!LockCall,
       Portable!Stat, Portable!StatusGone, Portable!StatusInvalid, Portable!StatusOwner,
       Portable!ProbeLocked, Portable!ProbeStale, Portable!CreateExists,
       Portable!Encode, Portable!EncodeFails, Portable!CloseCall, Portable!Exit,
       Portable!Start
  <2>3. PICK t \in Thread : Portable!RemoveStale(t) \/ Portable!Unlink(t)
    BY <2>1, <2>2 DEF Portable!Create
  <2>4. ppc[t] \in {"remove", "unlink"}
    BY <2>3 DEF Portable!RemoveStale, Portable!Unlink
  <2>5. content[pdir] # Garbage
    BY <2>1, <2>4 DEF PInv, NoGarbage
  <2>6. ~usurped' /\ ~Portable!UnlinksOwn /\ (signalZero => ~Portable!Stale)
    BY <2>5 DEF Portable!RemovesForeign
  <2>7. CASE Portable!RemoveStale(t)
    <3>1. signalZero
      BY <2>7 DEF Portable!RemoveStale, PInv, NoProbe
    <3>2. usurped'
      BY <2>1, <2>6, <2>7, <3>1 DEF Portable!RemoveStale
    <3>3. QED
      BY <2>6, <3>2
  <2>8. CASE Portable!Unlink(t)
    <3>1. ppc[t] = "unlink" /\ ppc'[t] = "idle"
      BY <2>8 DEF Portable!Unlink, Portable!Goto, PInv, Portable!TypeOK
    <3>2. ~usurped
      BY <2>6, <2>8 DEF Portable!Unlink, Portable!osVars
    <3>3. content[pdir] = ProcOf[t]
      BY <3>1, <3>2 DEF PInv, OneOwner
    <3>4. QED
      BY <2>6, <3>1, <3>3 DEF Portable!UnlinksOwn
  <2>9. QED
    BY <2>3, <2>7, <2>8
<1>2. [LockNext]_allVars => [Portable!Next]_(Portable!vars)
  BY DEF LockNext, FcntlStep, PortableStep, allVars, portableVars, Portable!vars
<1>3. PInv /\ [LockNext]_allVars
        => [lockFn = "lockPortable" => ~Portable!RemovesForeign]_allVars
  BY <1>1, <1>2
<1>4. QED
  BY <1>3, UsesPortable, PInvHolds, PTL DEF LockSpec, ForeignFileKept
=============================================================================
