------------------------- MODULE SingleReaderProofs -------------------------
(***************************************************************************)
(* Proofs about singlereader for any number of goroutines, paths and files. *)
(* What openerGroup guarantees is taken from the theorems about            *)
(* singleflight: Open's steps are steps of Do, or do not touch its state.  *)
(***************************************************************************)
EXTENDS SingleReader, FiniteSetTheorems, TLAPS

SFP == INSTANCE SingleFlightProofs
         WITH Val <- File \cup {OpenErr}, MayPanic <- FALSE

\* A goroutine in Open has a path, and one that publishes has a file.
Shape ==
  /\ DOMAIN at = Proc /\ DOMAIN path = Proc /\ DOMAIN of = Proc
  /\ at = [p \in Proc |-> at[p]]
  /\ path = [p \in Proc |-> path[p]]
  /\ of = [p \in Proc |-> of[p]]
  /\ \A p \in Proc :
       /\ at[p] \notin {"idle", "closing"} => path[p] \in Key
       /\ at[p] = "publish" => of[p] \in File

\* Open keeps its path through every retry.
LEMMA ShapeHolds == Spec => []Shape
<1>1. Init => Shape
  BY DEF Init, Shape
<1>2. Shape /\ [Next]_vars => Shape'
  <2> SUFFICES ASSUME Shape, [Next]_vars PROVE Shape'
    OBVIOUS
  <2> USE DEF Shape, Goto
  <2>1. CASE UNCHANGED vars
    BY <2>1 DEF vars
  <2>2. ASSUME NEW p \in Proc, NEW k \in Key, OpenCall(p, k) PROVE Shape'
    BY <2>2 DEF OpenCall
  <2>3. ASSUME NEW p \in Proc, NEW q \in Proc, Close(p, q) PROVE Shape'
    BY <2>3 DEF Close
  <2>4. ASSUME NEW p \in Proc, Progress(p) PROVE Shape'
    <3>1. CASE Reuse(p) \/ Miss(p) \/ DoLead(p) \/ DoJoin(p)
      BY <3>1 DEF Reuse, Miss, DoLead, DoJoin, ReturnHandle
    <3>2. CASE FileOpen(p) \/ FileOpenFails(p) \/ Publish(p) \/ DoSignal(p)
      BY <3>2 DEF FileOpen, FileOpenFails, Publish, DoSignal
    <3>3. CASE DoForget(p) \/ DoWaited(p)
      BY <3>3 DEF DoForget, DoWaited, ReturnHandle, ReturnErr
    <3>4. CASE IncRef(p) \/ Retry(p) \/ FileClose(p)
      BY <3>4 DEF IncRef, Retry, FileClose, ReturnHandle
    <3>5. QED
      BY <2>4, <3>1, <3>2, <3>3, <3>4 DEF Progress
  <2>5. QED
    BY <2>1, <2>2, <2>3, <2>4 DEF Next
<1>3. QED
  BY <1>1, <1>2, PTL DEF Spec

\* Every behaviour of Open and Close is a behaviour of singleflight's Do.
THEOREM UsesSingleFlight == Spec => SF!Spec
<1>1. Init => SF!Init
  BY DEF Init
<1>2. Shape /\ [Next]_vars => [SF!Next]_sfVars
  <2> SUFFICES ASSUME Shape, [Next]_vars PROVE [SF!Next]_sfVars
    OBVIOUS
  <2>1. CASE UNCHANGED vars
    BY <2>1 DEF vars, sfVars
  <2>2. ASSUME NEW p \in Proc, NEW k \in Key, OpenCall(p, k)
        PROVE  UNCHANGED sfVars
    BY <2>2 DEF OpenCall
  <2>3. ASSUME NEW p \in Proc, NEW q \in Proc, Close(p, q)
        PROVE  UNCHANGED sfVars
    BY <2>3 DEF Close
  <2>4. ASSUME NEW p \in Proc, Progress(p)
        PROVE  SF!Step(p) \/ UNCHANGED sfVars
    <3>1. CASE Reuse(p) \/ Miss(p) \/ IncRef(p) \/ Retry(p) \/ FileClose(p)
               \/ FileOpen(p)
      BY <3>1 DEF Reuse, Miss, IncRef, Retry, FileClose, FileOpen
    <3>2. CASE DoLead(p)
      BY <3>2 DEF DoLead, Shape, SF!Step
    <3>3. CASE DoJoin(p)
      BY <3>3 DEF DoJoin, Shape, SF!Step
    <3>4. CASE FileOpenFails(p)
      BY <3>4 DEF FileOpenFails, SF!Step
    <3>5. CASE Publish(p)
      BY <3>5 DEF Publish, Shape, SF!Step
    <3>6. CASE DoSignal(p) \/ DoForget(p) \/ DoWaited(p)
      BY <3>6 DEF DoSignal, DoForget, DoWaited, SF!Step
    <3>7. QED
      BY <2>4, <3>1, <3>2, <3>3, <3>4, <3>5, <3>6 DEF Progress
  <2>5. QED
    BY <2>1, <2>2, <2>3, <2>4 DEF Next, SF!Next
<1>3. QED
  BY <1>1, <1>2, ShapeHolds, PTL DEF Spec, SF!Spec, sfVars, SF!sfVars

\* What the theorems about Do say of openerGroup.
LEMMA GroupSafe == Spec => [](SF!TypeOK /\ SF!DuplicateGetsResult)
<1>1. SF!Spec => SFP!Spec
  <2>1. SF!Init => SFP!Init
    BY DEF SF!Init, SFP!Init
  <2>2. [SF!Next]_(SF!sfVars) => [SFP!Next]_(SFP!sfVars)
    BY DEF SF!Next, SF!Step, SF!sfVars, SF!Join, SF!Lead, SF!FnReturn,
           SF!FnPanic, SF!WgDone, SF!Forget, SF!WaitReturn, SF!LiveCalls,
           SFP!Next, SFP!Step, SFP!sfVars, SFP!Join, SFP!Lead, SFP!FnReturn,
           SFP!FnPanic, SFP!WgDone, SFP!Forget, SFP!WaitReturn, SFP!LiveCalls
  <2>3. QED
    BY <2>1, <2>2, PTL DEF SF!Spec, SFP!Spec
<1>2. SFP!Spec => []SFP!TypeOK
  BY SFP!TypeCorrect, UnsetFileAssumption, NoneCallAssumption
<1>3. SFP!Spec => []SFP!DuplicateGetsResult
  BY SFP!DuplicateGetsResultHolds, UnsetFileAssumption, NoneCallAssumption
<1>4. SFP!TypeOK => SF!TypeOK
  BY DEF SFP!TypeOK, SF!TypeOK
<1>5. SFP!DuplicateGetsResult => SF!DuplicateGetsResult
  BY DEF SFP!DuplicateGetsResult, SF!DuplicateGetsResult
<1>6. QED
  BY <1>1, <1>2, <1>3, <1>4, <1>5, UsesSingleFlight, PTL

-----------------------------------------------------------------------------
\* TypeOK without the part about openerGroup.
ReaderType ==
  /\ at \in [Proc -> {"idle", "check", "do", "wait", "fn", "publish", "leave",
                      "incref", "closing"}]
  /\ path \in [Proc -> Key \cup {None}]
  /\ of \in [Proc -> File \cup {None}]
  /\ openFiles \in [Key -> File \cup {None}]
  /\ refCount \in [File -> Nat]
  /\ fd \in [File -> {"open", "closed"}]
  /\ fpath \in [File -> Key \cup {None}]
  /\ handle \in [Proc -> File \cup {None}]

\* A goroutine has a file only where Open or Close holds one, and enters Open
\* only without a handle.
Local ==
  \A p \in Proc :
    /\ at[p] \notin {"idle", "closing"} => path[p] \in Key /\ handle[p] = None
    /\ at[p] \in {"publish", "incref", "closing"} => of[p] \in File
    /\ at[p] \in {"idle", "check", "do", "wait", "fn"} => of[p] = None

\* The descriptor of an owned file is open, and the winner's file is one of
\* its path.
OwnedOpen ==
  /\ \A f \in File : \A p \in Owners(f) : fd[f] = "open"
  /\ \A p \in Proc : at[p] \in {"publish", "leave"} /\ of[p] # None =>
       fpath[of[p]] = path[p]

\* One goroutine closes a file, and only when its last reference is gone.
Closers ==
  \A p \in Proc : at[p] = "closing" =>
    /\ refCount[of[p]] = 0
    /\ fd[of[p]] = "open"
    /\ \A q \in Proc : at[q] = "closing" /\ of[q] = of[p] => p = q

Inv ==
  /\ ReaderType
  /\ Local
  /\ RefCountExact
  /\ OwnedOpen
  /\ Closers
  /\ MapEntryInUse
  /\ NoDescriptorLeak

\* Cardinalities of sets of goroutines.
LEMMA CardFacts ==
  ASSUME NEW S \in SUBSET Proc
  PROVE  /\ Cardinality(S) \in Nat
         /\ Cardinality(S) = 0 <=> S = {}
         /\ \A p \in Proc \ S : Cardinality(S \cup {p}) = Cardinality(S) + 1
         /\ \A p \in S : Cardinality(S \ {p}) = Cardinality(S) - 1
<1>1. IsFiniteSet(S)
  BY ProcFinite, FS_Subset
<1>2. QED
  BY <1>1, FS_CardinalityType, FS_EmptySet, FS_AddElement, FS_RemoveElement

\* The count is positive exactly when the file has an owner.
LEMMA CountMeansOwned ==
  ASSUME ReaderType, RefCountExact, NEW f \in File
  PROVE  refCount[f] = 0 <=> Owners(f) = {}
<1>1. Owners(f) \in SUBSET Proc
  BY DEF Owners
<1>2. QED
  BY <1>1, CardFacts DEF RefCountExact

\* The conjuncts that do not mention Owners follow for a step that leaves the
\* files alone; what is left to prove is that it leaves the owners alone too.
LEMMA SameOwners ==
  ASSUME Inv, ReaderType', Local', NEW p \in Proc,
         UNCHANGED <<refCount, fd, fpath>>,
         \A f \in File : Owners(f)' = Owners(f),
         \A q \in Proc \ {p} : at'[q] = at[q] /\ of'[q] = of[q] /\ path'[q] = path[q],
         at'[p] # "closing", at[p] # "closing",
         at'[p] \in {"publish", "leave"} /\ of'[p] # None =>
           fpath[of'[p]] = path'[p]
  PROVE  RefCountExact' /\ OwnedOpen' /\ Closers' /\ NoDescriptorLeak'
<1>1. RefCountExact' /\ OwnedOpen'
  BY DEF Inv, RefCountExact, OwnedOpen, ReaderType
<1>2. Closers' /\ NoDescriptorLeak'
  BY DEF Inv, Closers, NoDescriptorLeak, ReaderType
<1>3. QED
  BY <1>1, <1>2

\* Steps of Open that move no reference.
LEMMA QuietSteps ==
  ASSUME Inv, SF!TypeOK, SF!DuplicateGetsResult, NEW p \in Proc,
         \/ \E k \in Key : OpenCall(p, k)
         \/ Miss(p) \/ DoLead(p) \/ DoJoin(p) \/ FileOpenFails(p)
         \/ DoSignal(p) \/ DoForget(p) \/ DoWaited(p) \/ Retry(p)
  PROVE  Inv'
<1> USE NoneFileAssumption, NoneCallAssumption
<1> USE DEF Inv, Goto, ReturnErr, ReturnHandle, fileVars
<1>1. CASE \E k \in Key : OpenCall(p, k)
  <2>1. ReaderType' /\ Local'
    BY <1>1 DEF OpenCall, ReaderType, Local
  <2>2. \A f \in File : Owners(f)' = Owners(f)
    BY <1>1 DEF OpenCall, ReaderType, Local, Owners
  <2>3. MapEntryInUse'
    BY <1>1 DEF OpenCall, MapEntryInUse
  <2>4. QED
    BY <1>1, <2>1, <2>2, <2>3, SameOwners DEF OpenCall, ReaderType
<1>2. CASE Miss(p) \/ DoLead(p) \/ DoJoin(p)
  <2>1. ReaderType' /\ Local'
    BY <1>2 DEF Miss, DoLead, DoJoin, ReaderType, Local
  <2>2. \A f \in File : Owners(f)' = Owners(f)
    BY <1>2 DEF Miss, DoLead, DoJoin, ReaderType, Local, Owners
  <2>3. MapEntryInUse'
    BY <1>2 DEF Miss, DoLead, DoJoin, MapEntryInUse
  <2>4. QED
    BY <1>2, <2>1, <2>2, <2>3, SameOwners DEF Miss, DoLead, DoJoin, ReaderType
<1>3. CASE FileOpenFails(p) \/ DoSignal(p)
  <2>1. ReaderType' /\ Local'
    BY <1>3 DEF FileOpenFails, DoSignal, ReaderType, Local
  <2>2. \A f \in File : Owners(f)' = Owners(f)
    BY <1>3 DEF FileOpenFails, DoSignal, ReaderType, Local, Owners
  <2>3. MapEntryInUse'
    BY <1>3 DEF FileOpenFails, DoSignal, MapEntryInUse
  <2>4. QED
    BY <1>3, <2>1, <2>2, <2>3, SameOwners
    DEF FileOpenFails, DoSignal, ReaderType, Local, OwnedOpen
<1>4. CASE DoForget(p)
  <2>1. ReaderType' /\ Local'
    BY <1>4 DEF DoForget, ReaderType, Local
  <2>2. \A f \in File : Owners(f)' = Owners(f)
    BY <1>4 DEF DoForget, ReaderType, Local, Owners
  <2>3. MapEntryInUse'
    BY <1>4 DEF DoForget, MapEntryInUse
  <2>4. QED
    BY <1>4, <2>1, <2>2, <2>3, SameOwners DEF DoForget, ReaderType
<1>5. CASE DoWaited(p)
  <2>1. val[cur[p]] \in File \cup {OpenErr}
    BY <1>5 DEF DoWaited, SF!WaitReturn, SF!DuplicateGetsResult
  <2>2. ReaderType' /\ Local'
    BY <1>5, <2>1 DEF DoWaited, ReaderType, Local
  <2>3. \A f \in File : Owners(f)' = Owners(f)
    BY <1>5 DEF DoWaited, ReaderType, Local, Owners
  <2>4. MapEntryInUse'
    BY <1>5 DEF DoWaited, MapEntryInUse
  <2>5. QED
    BY <1>5, <2>2, <2>3, <2>4, SameOwners DEF DoWaited, ReaderType
<1>6. CASE Retry(p)
  <2>1. ReaderType' /\ Local'
    BY <1>6 DEF Retry, ReaderType, Local
  <2>2. \A f \in File : Owners(f)' = Owners(f)
    BY <1>6 DEF Retry, ReaderType, Local, Owners
  <2>3. MapEntryInUse'
    BY <1>6 DEF Retry, MapEntryInUse
  <2>4. QED
    BY <1>6, <2>1, <2>2, <2>3, SameOwners DEF Retry, ReaderType
<1>7. QED
  BY <1>1, <1>2, <1>3, <1>4, <1>5, <1>6

\* fn's critical section: the published file has its winner for an owner.
LEMMA PublishStep ==
  ASSUME Inv, NEW p \in Proc, Publish(p)
  PROVE  Inv'
<1> USE DEF Inv, Goto
<1>1. ReaderType' /\ Local'
  BY DEF Publish, ReaderType, Local
<1>2. \A f \in File : Owners(f)' = Owners(f)
  BY DEF Publish, ReaderType, Owners
<1>3. MapEntryInUse'
  <2>1. of[p] \in File /\ p \in Owners(of[p]) /\ fpath[of[p]] = path[p]
    BY NoneFileAssumption DEF Publish, Local, Owners, OwnedOpen
  <2>2. refCount[of[p]] # 0
    BY <2>1, CountMeansOwned
  <2>3. refCount[of[p]] > 0
    BY <2>1, <2>2 DEF ReaderType
  <2>4. QED
    BY <2>1, <2>3 DEF Publish, MapEntryInUse, ReaderType
<1>4. QED
  BY <1>1, <1>2, <1>3, SameOwners DEF Publish, ReaderType, OwnedOpen

\* wkfs.Open: the new file was unreachable, so nobody owned it.
LEMMA FileOpenStep ==
  ASSUME Inv, NEW p \in Proc, FileOpen(p)
  PROVE  Inv'
<1> USE NoneFileAssumption DEF Inv, Goto
<1> PICK f \in File :
      /\ ~Reachable(f)
      /\ of' = [of EXCEPT ![p] = f]
      /\ fd' = [fd EXCEPT ![f] = "open"]
      /\ fpath' = [fpath EXCEPT ![f] = path[p]]
      /\ refCount' = [refCount EXCEPT ![f] = 1]
  BY DEF FileOpen
<1>1. ReaderType' /\ Local'
  BY DEF FileOpen, ReaderType, Local
<1>2. /\ fd[f] # "open"
      /\ \A k \in Key : openFiles[k] # f
      /\ \A q \in Proc : of[q] # f /\ handle[q] # f
  BY DEF Reachable
<1>3. Owners(f) = {} /\ Owners(f)' = {p}
  BY <1>2 DEF FileOpen, Owners, ReaderType
<1>4. \A g \in File \ {f} : Owners(g)' = Owners(g)
  BY DEF FileOpen, Owners, ReaderType, Local
<1>5. RefCountExact'
  <2>1. Cardinality({p}) = 1
    <3>1. Cardinality({} \cup {p}) = Cardinality({}) + 1
      BY CardFacts
    <3>2. {} \cup {p} = {p} /\ Cardinality({}) = 0
      BY FS_EmptySet
    <3>3. QED
      BY <3>1, <3>2
  <2>2. QED
    BY <1>3, <1>4, <2>1 DEF RefCountExact, ReaderType
<1>6. OwnedOpen'
  <2>1. \A g \in File : \A q \in Owners(g)' : fd'[g] = "open"
    BY <1>3, <1>4 DEF OwnedOpen, ReaderType
  <2>2. QED
    BY <1>2, <2>1 DEF OwnedOpen, FileOpen, ReaderType
<1>7. Closers'
  BY <1>2 DEF Closers, FileOpen, ReaderType, Local
<1>8. MapEntryInUse'
  BY <1>2 DEF MapEntryInUse, FileOpen, ReaderType
<1>9. NoDescriptorLeak'
  BY <1>2 DEF NoDescriptorLeak, FileOpen, ReaderType, Local
<1>10. QED
  BY <1>1, <1>5, <1>6, <1>7, <1>8, <1>9

\* Reuse and IncRef give one more goroutine a handle on a file in use.
LEMMA GainStep ==
  ASSUME Inv, NEW p \in Proc, Reuse(p) \/ IncRef(p)
  PROVE  Inv'
<1> USE NoneFileAssumption DEF Inv, Goto, ReturnHandle
<1>1. PICK f \in File :
        /\ refCount[f] # 0
        /\ refCount' = [refCount EXCEPT ![f] = @ + 1]
        /\ ReturnHandle(p, f)
        /\ UNCHANGED <<openFiles, fd, fpath>>
  <2>1. CASE Reuse(p)
    <3>1. path[p] \in Key /\ openFiles[path[p]] \in File
      BY <2>1 DEF Reuse, ReaderType, Local
    <3>2. refCount[openFiles[path[p]]] # 0
      BY <2>1, <3>1 DEF Reuse, MapEntryInUse, ReaderType
    <3>3. QED
      BY <2>1, <3>1, <3>2 DEF Reuse
  <2>2. CASE IncRef(p)
    BY <2>2 DEF IncRef, Local
  <2>3. QED
    BY <2>1, <2>2
<1>2. at[p] \in {"check", "incref"} /\ handle[p] = None
  BY DEF Reuse, IncRef, Local
<1>3. ReaderType' /\ Local'
  BY <1>1 DEF ReaderType, Local
<1>4. p \notin Owners(f) /\ Owners(f)' = Owners(f) \cup {p}
  BY <1>1, <1>2 DEF Owners, ReaderType
<1>5. \A g \in File \ {f} : Owners(g)' = Owners(g)
  BY <1>1, <1>2 DEF Owners, ReaderType
<1>6. RefCountExact'
  <2>1. Owners(f) \in SUBSET Proc
    BY DEF Owners
  <2>2. Cardinality(Owners(f) \cup {p}) = Cardinality(Owners(f)) + 1
    BY <1>4, <2>1, CardFacts
  <2>3. QED
    BY <1>1, <1>4, <1>5, <2>2 DEF RefCountExact, ReaderType
<1>7. fd[f] = "open"
  BY <1>1, CountMeansOwned DEF OwnedOpen
<1>8. OwnedOpen'
  <2>1. \A g \in File : \A q \in Owners(g)' : fd'[g] = "open"
    BY <1>1, <1>4, <1>5, <1>7 DEF OwnedOpen
  <2>2. QED
    BY <1>1, <2>1 DEF OwnedOpen, ReaderType
<1>9. Closers'
  BY <1>1, <1>2 DEF Closers, ReaderType, Local
<1>10. MapEntryInUse'
  BY <1>1 DEF MapEntryInUse, ReaderType
<1>11. NoDescriptorLeak'
  BY <1>1, <1>2 DEF NoDescriptorLeak, ReaderType
<1>12. QED
  BY <1>3, <1>6, <1>8, <1>9, <1>10, <1>11

\* Close takes away the reference of the handle it closes, and the entry of
\* openFiles with the last one.
LEMMA CloseStep ==
  ASSUME Inv, NEW p \in Proc, NEW q \in Proc, Close(p, q)
  PROVE  Inv'
<1> USE NoneFileAssumption DEF Inv, Goto
<1>0. PICK f \in File : f = handle[q]
  BY DEF Close, ReaderType
<1>1. handle[q] = f /\ at[p] = "idle" /\ of[p] = None
  BY <1>0 DEF Close, Local
<1>2. q \in Owners(f) /\ at[q] \in {"idle", "closing"}
  BY <1>1 DEF Owners, Local, ReaderType
<1>3. Owners(f)' = Owners(f) \ {q}
  BY <1>1, <1>2 DEF Close, Owners, ReaderType
<1>4. \A g \in File \ {f} : Owners(g)' = Owners(g)
  BY <1>1, <1>2 DEF Close, Owners, ReaderType
<1>5. Cardinality(Owners(f) \ {q}) = Cardinality(Owners(f)) - 1
  <2>1. Owners(f) \in SUBSET Proc
    BY DEF Owners
  <2>2. QED
    BY <1>2, <2>1, CardFacts
<1>6. refCount[f] \in Nat /\ refCount[f] # 0 /\ refCount'[f] = refCount[f] - 1
  BY <1>1, <1>2, CountMeansOwned DEF Close, ReaderType
<1>7. ReaderType'
  BY <1>1, <1>6 DEF Close, ReaderType
<1>8. Local'
  BY <1>1 DEF Close, ReaderType, Local
<1>9. RefCountExact'
  BY <1>1, <1>3, <1>4, <1>5, <1>6, ZenonT(60) DEF Close, RefCountExact, ReaderType
<1>10. OwnedOpen'
  <2>1. \A g \in File : \A r \in Owners(g)' : fd'[g] = "open"
    BY <1>3, <1>4 DEF OwnedOpen, Close
  <2>2. QED
    BY <1>1, <2>1 DEF OwnedOpen, ReaderType, Close
<1>11. \A r \in Proc : at[r] = "closing" => of[r] # f
  BY <1>6 DEF Closers
<1>12. fd[f] = "open"
  BY <1>1, <1>2 DEF OwnedOpen
<1>13. Closers'
  BY <1>1, <1>6, <1>11, <1>12 DEF Close, Closers, ReaderType, Local
<1>14. MapEntryInUse'
  BY <1>1, <1>6 DEF Close, MapEntryInUse, ReaderType
<1>15. NoDescriptorLeak'
  BY <1>1, <1>6 DEF Close, NoDescriptorLeak, ReaderType
<1>16. QED
  BY <1>7, <1>8, <1>9, <1>10, <1>13, <1>14, <1>15

\* File.Close: the file has no owner any more.
LEMMA FileCloseStep ==
  ASSUME Inv, NEW p \in Proc, FileClose(p)
  PROVE  Inv'
<1> USE NoneFileAssumption DEF Inv, Goto
<1>1. ReaderType' /\ Local'
  BY DEF FileClose, ReaderType, Local
<1>2. of[p] \in File /\ refCount[of[p]] = 0
  BY DEF FileClose, Local, Closers
<1>3. Owners(of[p]) = {}
  BY <1>2, CountMeansOwned
<1>4. \A g \in File : Owners(g)' = Owners(g)
  BY DEF FileClose, Owners, ReaderType
<1>5. RefCountExact'
  BY <1>4 DEF FileClose, RefCountExact
<1>6. OwnedOpen'
  <2>1. \A g \in File : \A r \in Owners(g)' : fd'[g] = "open"
    BY <1>2, <1>3, <1>4 DEF FileClose, OwnedOpen, ReaderType
  <2>2. QED
    BY <2>1 DEF FileClose, OwnedOpen, ReaderType
<1>7. Closers'
  BY <1>2 DEF FileClose, Closers, ReaderType, Local
<1>8. MapEntryInUse'
  BY DEF FileClose, MapEntryInUse
<1>9. NoDescriptorLeak'
  BY <1>2 DEF FileClose, NoDescriptorLeak, ReaderType
<1>10. QED
  BY <1>1, <1>5, <1>6, <1>7, <1>8, <1>9

\* The inductive invariant of Open and Close.
THEOREM InvHolds == Spec => []Inv
<1>1. Init => Inv
  <2> SUFFICES ASSUME Init PROVE Inv
    OBVIOUS
  <2> USE NoneFileAssumption DEF Init
  <2>1. \A f \in File : Owners(f) = {}
    BY DEF Owners
  <2>2. RefCountExact
    BY <2>1, FS_EmptySet DEF RefCountExact
  <2>3. ReaderType /\ Local /\ OwnedOpen
    BY <2>1 DEF ReaderType, Local, OwnedOpen
  <2>4. Closers /\ MapEntryInUse /\ NoDescriptorLeak
    BY DEF Closers, MapEntryInUse, NoDescriptorLeak
  <2>5. QED
    BY <2>2, <2>3, <2>4 DEF Inv
<1>2. Inv /\ SF!TypeOK /\ SF!DuplicateGetsResult /\ [Next]_vars => Inv'
  <2> SUFFICES ASSUME Inv, SF!TypeOK, SF!DuplicateGetsResult, [Next]_vars
               PROVE  Inv'
    OBVIOUS
  <2>1. CASE UNCHANGED vars
    BY <2>1 DEF vars, Inv, ReaderType, Local, RefCountExact, OwnedOpen, Closers,
                MapEntryInUse, NoDescriptorLeak, Owners
  <2>2. ASSUME NEW p \in Proc, NEW k \in Key, OpenCall(p, k) PROVE Inv'
    BY <2>2, QuietSteps
  <2>3. ASSUME NEW p \in Proc, NEW q \in Proc, Close(p, q) PROVE Inv'
    BY <2>3, CloseStep
  <2>4. ASSUME NEW p \in Proc, Progress(p) PROVE Inv'
    BY <2>4, QuietSteps, PublishStep, FileOpenStep, GainStep, FileCloseStep
    DEF Progress
  <2>5. QED
    BY <2>1, <2>2, <2>3, <2>4 DEF Next
<1>3. QED
  BY <1>1, <1>2, GroupSafe, PTL DEF Spec

\* The types hold; in particular the reference count never goes negative.
THEOREM TypeCorrect == Spec => []TypeOK
<1>1. Inv /\ SF!TypeOK => TypeOK
  BY DEF Inv, ReaderType, TypeOK
<1>2. QED
  BY <1>1, InvHolds, GroupSafe, PTL

\* refCount counts exactly the owners of a file.
THEOREM RefCountExactHolds == Spec => []RefCountExact
BY InvHolds, PTL DEF Inv

\* No open handle has its descriptor closed under it.
THEOREM NoUseAfterCloseHolds == Spec => []NoUseAfterClose
<1>1. Inv => NoUseAfterClose
  BY DEF Inv, ReaderType, OwnedOpen, Owners, NoUseAfterClose
<1>2. QED
  BY <1>1, InvHolds, PTL

\* Open never finds a file in openFiles that is about to be closed.
THEOREM MapEntryInUseHolds == Spec => []MapEntryInUse
BY InvHolds, PTL DEF Inv

\* No descriptor leaks: an unused one is on its way to File.Close.
THEOREM NoDescriptorLeakHolds == Spec => []NoDescriptorLeak
BY InvHolds, PTL DEF Inv
=============================================================================
