---------------------------- MODULE SingleReader ----------------------------
(***************************************************************************)
(* readerutil/singlereader: Open and openFileHandle.Close, which share one *)
(* reference-counted file per path. Composed with singleflight: openerGroup *)
(* is the instance SF, and SF's steps are steps of Open.                   *)
(*                                                                         *)
(* The critical sections of openFileMu are single steps. Everything Open   *)
(* and Close do outside them (Do, wkfs.Open, File.Close) interleaves.      *)
(***************************************************************************)
EXTENDS Integers, FiniteSets

CONSTANTS
  Proc,      \* goroutines
  Key,       \* paths
  Call,      \* *singleflight.call structs
  File,      \* *openFile structs with the descriptor they wrap
  OpenErr,   \* Do's result when wkfs.Open failed
  Unset, None

ASSUME OpenErrAssumption == OpenErr \notin File
ASSUME NoneFileAssumption == None \notin File
ASSUME UnsetFileAssumption == Unset \notin File \cup {OpenErr}
ASSUME NoneCallAssumption == None \notin Call \cup Key
ASSUME ProcFinite == IsFiniteSet(Proc)

VARIABLES
  pc, key, cur, m, wgDone, val,   \* openerGroup and the goroutines in Do
  at,         \* where in Open or Close each goroutine is
  path,       \* Open's parameter
  of,         \* Open's local variable of / the file Close is closing
  openFiles,  \* the map
  refCount,   \* openFile.refCount
  fd,         \* the descriptor of each File: "open" or "closed"
  fpath,      \* openFile.path
  handle      \* the file of the openFileHandle each goroutine got from Open,
              \* None once it is closed: Close of a closed handle does nothing

SF == INSTANCE SingleFlight WITH Val <- File \cup {OpenErr}, MayPanic <- FALSE

sfVars == <<pc, key, cur, m, wgDone, val>>
fileVars == <<openFiles, refCount, fd, fpath, handle>>
vars == <<pc, key, cur, m, wgDone, val, at, path, of, openFiles, refCount, fd,
          fpath, handle>>

Init ==
  /\ SF!Init
  /\ at = [p \in Proc |-> "idle"]
  /\ path = [p \in Proc |-> None]
  /\ of = [p \in Proc |-> None]
  /\ openFiles = [k \in Key |-> None]
  /\ refCount = [f \in File |-> 0]
  /\ fd = [f \in File |-> "closed"]
  /\ fpath = [f \in File |-> None]
  /\ handle = [p \in Proc |-> None]

Goto(p, a) == at' = [at EXCEPT ![p] = a]

\* What can still reach the openFile f: the others, once their descriptor
\* is closed, are garbage.
Reachable(f) ==
  \/ fd[f] = "open"
  \/ \E k \in Key : openFiles[k] = f
  \/ \E p \in Proc : of[p] = f \/ handle[p] = f
  \/ \E c \in SF!LiveCalls : c # None /\ val[c] = f

\* return &openFileHandle{false, f}, nil
ReturnHandle(p, f) ==
  /\ handle' = [handle EXCEPT ![p] = f]
  /\ of' = [of EXCEPT ![p] = None]
  /\ path' = [path EXCEPT ![p] = None]
  /\ Goto(p, "idle")

\* return nil, err
ReturnErr(p) ==
  /\ of' = [of EXCEPT ![p] = None]
  /\ path' = [path EXCEPT ![p] = None]
  /\ Goto(p, "idle")

-----------------------------------------------------------------------------
(* Slips the properties below must catch; no specification uses them.      *)

\* The duplicate takes the winner for the owner of its reference.
IncRefMissing(p) ==
  /\ at[p] = "incref"
  /\ refCount[of[p]] # 0
  /\ ReturnHandle(p, of[p])
  /\ UNCHANGED <<sfVars, openFiles, refCount, fd, fpath>>

\* The duplicate does not look whether the winner has closed the file.
IncRefUnchecked(p) ==
  /\ at[p] = "incref"
  /\ refCount' = [refCount EXCEPT ![of[p]] = @ + 1]
  /\ ReturnHandle(p, of[p])
  /\ UNCHANGED <<sfVars, openFiles, fd, fpath>>

\* The duplicate waits for the closed file to come back.
RetrySpins(p) ==
  /\ at[p] = "incref"
  /\ refCount[of[p]] = 0
  /\ UNCHANGED vars

\* The last Close returns before it closes the descriptor.
CloseLeaks(p, q) ==
  /\ at[p] = "idle"
  /\ handle[q] # None
  /\ handle' = [handle EXCEPT ![q] = None]
  /\ refCount' = [refCount EXCEPT ![handle[q]] = @ - 1]
  /\ IF refCount[handle[q]] = 1
     THEN openFiles' = [openFiles EXCEPT ![fpath[handle[q]]] = None]
     ELSE UNCHANGED openFiles
  /\ UNCHANGED <<sfVars, at, of, path, fd, fpath>>

-----------------------------------------------------------------------------
\* Somebody calls Open(k). A goroutine closes its handle before it asks for
\* another one.
OpenCall(p, k) ==
  /\ at[p] = "idle"
  /\ handle[p] = None
  /\ path' = [path EXCEPT ![p] = k]
  /\ Goto(p, "check")
  /\ UNCHANGED <<sfVars, of, fileVars>>

\* Open's first critical section finds a file: share it.
Reuse(p) ==
  /\ at[p] = "check"
  /\ openFiles[path[p]] # None
  /\ refCount' = [refCount EXCEPT ![openFiles[path[p]]] = @ + 1]
  /\ ReturnHandle(p, openFiles[path[p]])
  /\ UNCHANGED <<sfVars, openFiles, fd, fpath>>

\* It finds none: release openFileMu and call openerGroup.Do.
Miss(p) ==
  /\ at[p] = "check"
  /\ openFiles[path[p]] = None
  /\ Goto(p, "do")
  /\ UNCHANGED <<sfVars, path, of, fileVars>>

\* Do makes this goroutine the winner.
DoLead(p) ==
  /\ at[p] = "do"
  /\ SF!Lead(p, path[p])
  /\ Goto(p, "fn")
  /\ UNCHANGED <<path, of, fileVars>>

\* Do makes it wait for the winner.
DoJoin(p) ==
  /\ at[p] = "do"
  /\ SF!Join(p, path[p])
  /\ Goto(p, "wait")
  /\ UNCHANGED <<path, of, fileVars>>

\* fn: wkfs.Open succeeds and the openFile is built.
FileOpen(p) ==
  /\ at[p] = "fn"
  /\ \E f \in File :
       /\ ~Reachable(f)
       /\ of' = [of EXCEPT ![p] = f]
       /\ fd' = [fd EXCEPT ![f] = "open"]
       /\ fpath' = [fpath EXCEPT ![f] = path[p]]
       /\ refCount' = [refCount EXCEPT ![f] = 1]
  /\ Goto(p, "publish")
  /\ UNCHANGED <<sfVars, path, openFiles, handle>>

\* fn: wkfs.Open fails; Do stores the error.
FileOpenFails(p) ==
  /\ at[p] = "fn"
  /\ SF!FnReturn(p, OpenErr)
  /\ Goto(p, "leave")
  /\ UNCHANGED <<path, of, fileVars>>

\* fn's critical section; fn returns the file to Do.
Publish(p) ==
  /\ at[p] = "publish"
  /\ openFiles' = [openFiles EXCEPT ![path[p]] = of[p]]
  /\ SF!FnReturn(p, of[p])
  /\ Goto(p, "leave")
  /\ UNCHANGED <<path, of, refCount, fd, fpath, handle>>

\* Do wakes the duplicates.
DoSignal(p) ==
  /\ at[p] = "leave"
  /\ SF!WgDone(p)
  /\ UNCHANGED <<at, path, of, fileVars>>

\* Do forgets the key and Open returns to the winner.
DoForget(p) ==
  /\ at[p] = "leave"
  /\ SF!Forget(p)
  /\ IF of[p] = None
     THEN ReturnErr(p) /\ UNCHANGED handle
     ELSE ReturnHandle(p, of[p])
  /\ UNCHANGED <<openFiles, refCount, fd, fpath>>

\* Do returns the winner's result to a duplicate.
DoWaited(p) ==
  /\ at[p] = "wait"
  /\ SF!WaitReturn(p)
  /\ IF val[cur[p]] = OpenErr
     THEN ReturnErr(p)
     ELSE /\ of' = [of EXCEPT ![p] = val[cur[p]]]
          /\ Goto(p, "incref")
          /\ UNCHANGED path
  /\ UNCHANGED fileVars

\* The duplicate's critical section: the file is still in use.
IncRef(p) ==
  /\ at[p] = "incref"
  /\ refCount[of[p]] # 0
  /\ refCount' = [refCount EXCEPT ![of[p]] = @ + 1]
  /\ ReturnHandle(p, of[p])
  /\ UNCHANGED <<sfVars, openFiles, fd, fpath>>

\* "Winner already closed it. Try again (rare)."
Retry(p) ==
  /\ at[p] = "incref"
  /\ refCount[of[p]] = 0
  /\ of' = [of EXCEPT ![p] = None]
  /\ Goto(p, "check")
  /\ UNCHANGED <<sfVars, path, fileVars>>

\* Goroutine p calls Close on the open handle of goroutine q, and runs its
\* critical section.
Close(p, q) ==
  LET f == handle[q] IN
  /\ at[p] = "idle"
  /\ f # None
  /\ handle' = [handle EXCEPT ![q] = None]
  /\ refCount' = [refCount EXCEPT ![f] = @ - 1]
  /\ IF refCount[f] = 1
     THEN /\ openFiles' = [openFiles EXCEPT ![fpath[f]] = None]
          /\ of' = [of EXCEPT ![p] = f]
          /\ Goto(p, "closing")
     ELSE UNCHANGED <<openFiles, of, at>>
  /\ UNCHANGED <<sfVars, path, fd, fpath>>

\* The last Close closes the descriptor, outside openFileMu.
FileClose(p) ==
  /\ at[p] = "closing"
  /\ fd' = [fd EXCEPT ![of[p]] = "closed"]
  /\ of' = [of EXCEPT ![p] = None]
  /\ Goto(p, "idle")
  /\ UNCHANGED <<sfVars, path, openFiles, refCount, fpath, handle>>

\* The steps that Open and Close take by themselves once they were called.
Progress(p) ==
  \/ Reuse(p) \/ Miss(p) \/ DoLead(p) \/ DoJoin(p)
  \/ FileOpen(p) \/ FileOpenFails(p) \/ Publish(p) \/ DoSignal(p)
  \/ DoForget(p) \/ DoWaited(p) \/ IncRef(p) \/ Retry(p) \/ FileClose(p)

Next ==
  \E p \in Proc :
    \/ \E k \in Key : OpenCall(p, k)
    \/ \E q \in Proc : Close(p, q)
    \/ Progress(p)

Spec == Init /\ [][Next]_vars

\* Goroutines that are not blocked are scheduled; nobody has to call Open or
\* Close.
FairSpec == Spec /\ \A p \in Proc : WF_vars(Progress(p))

-----------------------------------------------------------------------------
\* Every variable has its type, refCount an int that may not go negative:
\* Close's panic("unexpected negative refcount") is never reached.
TypeOK ==
  /\ SF!TypeOK
  /\ at \in [Proc -> {"idle", "check", "do", "wait", "fn", "publish", "leave",
                      "incref", "closing"}]
  /\ path \in [Proc -> Key \cup {None}]
  /\ of \in [Proc -> File \cup {None}]
  /\ openFiles \in [Key -> File \cup {None}]
  /\ refCount \in [File -> Nat]
  /\ fd \in [File -> {"open", "closed"}]
  /\ fpath \in [File -> Key \cup {None}]
  /\ handle \in [Proc -> File \cup {None}]

\* The goroutines a file's reference count stands for: those with an open
\* handle, and the winner that has opened it and has not returned yet.
Owners(f) ==
  {p \in Proc : handle[p] = f \/ (at[p] \in {"publish", "leave"} /\ of[p] = f)}

\* refCount counts exactly the users of the file, across the gap between
\* Do's return and the duplicates' increments.
RefCountExact == \A f \in File : refCount[f] = Cardinality(Owners(f))

\* No handle that Open gave out and nobody closed ever has its descriptor
\* closed under it.
NoUseAfterClose ==
  \A p \in Proc : handle[p] # None => fd[handle[p]] = "open"

\* openFiles never holds a file whose last handle is gone: Open's first
\* critical section cannot hand out a file that is about to be closed.
MapEntryInUse ==
  \A k \in Key : openFiles[k] # None =>
    /\ refCount[openFiles[k]] > 0
    /\ fpath[openFiles[k]] = k

\* A descriptor nobody uses is being closed by some Close: none leaks.
NoDescriptorLeak ==
  \A f \in File : fd[f] = "open" /\ refCount[f] = 0 =>
    \E p \in Proc : at[p] = "closing" /\ of[p] = f

\* What "reusing existing file descriptors when possible" promises: while
\* some handle on a path is open, openFiles has a file of that path and the
\* next Open shares it.
HeldPathIsShared ==
  \A p \in Proc :
    handle[p] # None => openFiles[fpath[handle[p]]] # None

\* Open returns, unless other goroutines keep closing the file between Do's
\* return and the duplicate's increment ("Try again (rare)").
OpenReturns ==
  \A p \in Proc :
    \/ []<>(at[p] = "idle")
    \/ []<>(\E q \in Proc \ {p} : at[q] = "closing")

\* An unused descriptor is closed in the end.
UnusedIsClosed ==
  \A f \in File : fd[f] = "open" /\ refCount[f] = 0 ~> fd[f] # "open"

\* Nothing waits for ever: not an Open for the Do or the file of another
\* goroutine, not a file that nobody holds for its Close.
NothingStuck == OpenReturns /\ UnusedIsClosed
=============================================================================
