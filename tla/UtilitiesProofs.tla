-------------------------- MODULE UtilitiesProofs ---------------------------
(***************************************************************************)
(* Proofs about the packages that stand alone: the lock tracker of         *)
(* syncdebug and the token cache, whose difficulty is in their             *)
(* interleavings, for any number of goroutines; the rings of writerutil    *)
(* and rollsum, for streams of any length; and the handles of ziputil, for *)
(* any entries and any number of handles.                                  *)
(***************************************************************************)
EXTENDS Utilities, FiniteSetTheorems, SequenceTheorems, NaturalsInduction, WellFoundedInduction, TLAPS

-----------------------------------------------------------------------------
(* RWMutexTracker.                                                         *)

\* Where a goroutine counts for nwaitr, nwaitw, nhaver, and for mu's readers.
WaitR == {"rlock1", "rlock1w", "rlock2", "rlock3"}
WaitW == {"lock1", "lock2", "lock3"}
HaveR == {"rlock4", "rheld"}
InR == {"rlock3", "rlock4", "rheld", "runlock2", "runlock3"}

\* Where it has the write lock, and where nhavew knows.
InW == {"lock3", "lock4", "wheld", "unlock1", "unlock2", "unlock3"}
HaveW == {"lock4", "wheld", "unlock1", "unlock2"}

Locations == {"idle", "unlock3", "runlock2", "runlock3"} \cup WaitR \cup WaitW \cup HaveR \cup HaveW

In(L) == {p \in Proc : pc[p] \in L}

\* The goroutines with a read lock that call RLock again.
Nested == {p \in Proc : depth[p] = 2}

Places ==
  /\ pc \in [Proc -> Locations]
  /\ depth \in [Proc -> 0..2]
  /\ holdr \in SUBSET Proc /\ warned \in SUBSET Proc
  /\ late \subseteq Proc \X Proc
  /\ handed \in BOOLEAN
  /\ fatal \in BOOLEAN

\* How many read locks a goroutine has: if none was handed over, log.Fatalf ends
\* the program before it is done with a second one.
Depths ==
  \A p \in Proc :
    /\ pc[p] \in {"idle"} \cup WaitW \cup InW => depth[p] = 0
    /\ pc[p] \in WaitR \cup {"rlock4"} => depth[p] \in {1, 2}
    /\ pc[p] \in {"rheld", "runlock2", "runlock3"} => depth[p] \in {1, 2}
    /\ ~handed /\ pc[p] = "rheld" => depth[p] = 1 \/ (fatal /\ depth[p] = 2)
    /\ ~handed /\ pc[p] \in {"runlock2", "runlock3"} => depth[p] = 1

\* How many there are.
NWaitR == Cardinality(In(WaitR))
NWaitW == Cardinality(In(WaitW))
NHaveR == Cardinality(In(HaveR))
NInR == Cardinality(In(InR))
NNested == Cardinality(Nested)

\* The mutex has its writer, or its readers.
Mutex ==
  /\ writer \in Proc \cup {None}
  /\ \A p \in Proc : writer = p <=> pc[p] \in InW
  /\ writer # None => nread = 0

\* The number of mu's readers, and the atomic counters.
Counters ==
  /\ nread = NInR + NNested
  /\ nwaitr = NWaitR
  /\ nwaitw = NWaitW
  /\ nhaver = NHaveR + NNested

\* What hmu protects, and nhavew.
Holders ==
  /\ holder \in Proc \cup {None}
  /\ \A p \in Proc : holder = p <=> pc[p] \in {"wheld", "unlock1"}
  /\ ~handed => \A p \in Proc : p \in holdr <=> pc[p] \in {"rheld", "runlock2"} \/ depth[p] = 2
  /\ ~handed /\ fatal => \E p \in Proc : depth[p] = 2
  /\ nhavew \in {0, 1}
  /\ nhavew = 1 <=> \E p \in Proc : pc[p] \in HaveW

\* The writers that a goroutine which did not warn has not seen came late.
Reported ==
  \A p, q \in Proc :
    /\ pc[p] = "rlock2" /\ depth[p] = 2 /\ p \notin warned
    /\ pc[q] \in {"lock1", "lock2"}
    => <<p, q>> \in late

TrackInv == Places /\ Depths /\ Mutex /\ Counters /\ Holders /\ Reported

\* The instance counts as this module does.
LEMMA SameCardinality == \A S : Tracker!Cardinality(S) = Cardinality(S)
  BY DEF Tracker!Cardinality, Cardinality

\* Sets of goroutines are finite.
LEMMA ProcFinite ==
  ASSUME NEW S \in SUBSET Proc
  PROVE  IsFiniteSet(S) /\ Cardinality(S) \in Nat /\ (Cardinality(S) = 0 <=> S = {})
  BY ProcAssumption, FS_Subset, FS_CardinalityType, FS_EmptySet

\* A goroutine that goes from one place to another.
LEMMA MoveCount ==
  ASSUME NEW f \in [Proc -> Locations], NEW p \in Proc, NEW l \in Locations, NEW L
  PROVE  LET g == [f EXCEPT ![p] = l]
             before == {q \in Proc : f[q] \in L}
             after == {q \in Proc : g[q] \in L}
         IN Cardinality(after) = Cardinality(before) + (IF l \in L THEN 1 ELSE 0)
                                                     - (IF f[p] \in L THEN 1 ELSE 0)
<1> DEFINE g == [f EXCEPT ![p] = l]
           before == {q \in Proc : f[q] \in L}
           after == {q \in Proc : g[q] \in L}
<1>1. /\ IsFiniteSet(before) /\ Cardinality(before) \in Nat
      /\ IsFiniteSet(after) /\ Cardinality(after) \in Nat
  BY ProcFinite
<1>2. CASE l \in L /\ f[p] \notin L
  <2>1. after = before \cup {p} /\ p \notin before
    BY <1>2
  <2> QED
    BY <1>1, <1>2, <2>1, FS_AddElement
<1>3. CASE l \notin L /\ f[p] \in L
  <2>1. before = after \cup {p} /\ p \notin after
    BY <1>3
  <2> QED
    BY <1>1, <1>3, <2>1, FS_AddElement
<1>4. CASE l \in L <=> f[p] \in L
  <2>1. after = before
    BY <1>4
  <2> QED
    BY <1>1, <1>4, <2>1
<1> QED
  BY <1>2, <1>3, <1>4

\* The counts are numbers, and count their sets.
LEMMA CountTypes ==
  /\ NWaitR \in Nat /\ NWaitW \in Nat /\ NHaveR \in Nat /\ NInR \in Nat /\ NNested \in Nat
  /\ NWaitW = 0 => \A p \in Proc : pc[p] \notin WaitW
  /\ NInR = 0 => \A p \in Proc : pc[p] \notin InR
  /\ NNested = 0 => \A p \in Proc : depth[p] # 2
<1>1. \A S \in SUBSET Proc : Cardinality(S) \in Nat /\ (Cardinality(S) = 0 => S = {})
  BY ProcFinite
<1>2. Nested \in SUBSET Proc /\ \A L : In(L) \in SUBSET Proc
  BY DEF Nested, In
<1>3. (In(WaitW) = {} => \A p \in Proc : pc[p] \notin WaitW)
      /\ (In(InR) = {} => \A p \in Proc : pc[p] \notin InR)
      /\ (Nested = {} => \A p \in Proc : depth[p] # 2)
  BY DEF In, Nested
<1> QED
  BY <1>1, <1>2, <1>3 DEF NWaitR, NWaitW, NHaveR, NInR, NNested

\* What a step of one goroutine does to the counts.
LEMMA Moves ==
  ASSUME Places, NEW p \in Proc, NEW l \in Locations, Tracker!Goto(p, l)
  PROVE  /\ ~fatal /\ pc' = [pc EXCEPT ![p] = l] /\ pc' \in [Proc -> Locations]
         /\ NWaitR' = NWaitR + (IF l \in WaitR THEN 1 ELSE 0) - (IF pc[p] \in WaitR THEN 1 ELSE 0)
         /\ NWaitW' = NWaitW + (IF l \in WaitW THEN 1 ELSE 0) - (IF pc[p] \in WaitW THEN 1 ELSE 0)
         /\ NHaveR' = NHaveR + (IF l \in HaveR THEN 1 ELSE 0) - (IF pc[p] \in HaveR THEN 1 ELSE 0)
         /\ NInR' = NInR + (IF l \in InR THEN 1 ELSE 0) - (IF pc[p] \in InR THEN 1 ELSE 0)
         /\ depth' = depth => NNested' = NNested
<1>1. ~fatal /\ pc' = [pc EXCEPT ![p] = l] /\ pc \in [Proc -> Locations]
  BY DEF Tracker!Goto, Places
<1>2. ASSUME NEW L
      PROVE  Cardinality({q \in Proc : pc'[q] \in L}) =
               Cardinality(In(L)) + (IF l \in L THEN 1 ELSE 0) - (IF pc[p] \in L THEN 1 ELSE 0)
  BY <1>1, MoveCount DEF In
<1>3. depth' = depth => NNested' = NNested
  BY DEF NNested, Nested
<1> QED
  BY <1>1, <1>2, <1>3 DEF NWaitR, NWaitW, NHaveR, NInR, In, WaitR, WaitW, HaveR, InR

\* Lock is called: nwaitw counts the writer before mu knows of it.
LEMMA LockCallInv == TrackInv /\ (\E p \in Proc : Tracker!LockCall(p)) => TrackInv'
<1> SUFFICES ASSUME TrackInv, NEW p \in Proc, Tracker!LockCall(p) PROVE TrackInv'
  OBVIOUS
<1> USE DEF TrackInv, Tracker!muVars, Tracker!counters
<1>1. Tracker!Goto(p, "lock1") /\ "lock1" \in Locations
  BY DEF Tracker!LockCall, Locations, WaitR, WaitW, HaveR, InR, InW, HaveW
<1>2. /\ pc' = [pc EXCEPT ![p] = "lock1"] /\ pc' \in [Proc -> Locations] /\ ~fatal
      /\ pc \in [Proc -> Locations] /\ depth \in [Proc -> 0..2]
  BY <1>1, Moves DEF Places
<1>3. NWaitR' = NWaitR /\ NWaitW' = NWaitW + 1 /\ NHaveR' = NHaveR /\ NInR' = NInR
  BY <1>1, Moves, CountTypes DEF Tracker!LockCall, WaitR, WaitW, HaveR, InR, InW, HaveW
<1>4. Places' /\ Depths'
  BY <1>2 DEF Tracker!LockCall, Places, Depths, WaitR, WaitW, HaveR, InR, InW, HaveW
<1>5. Mutex'
  BY <1>2 DEF Tracker!LockCall, Mutex, InW
<1>6. Counters'
  BY <1>1, <1>3, Moves, CountTypes DEF Tracker!LockCall, Counters
<1>7. Holders'
  BY <1>2 DEF Tracker!LockCall, Holders, HaveW
<1>8. Reported'
  BY <1>2 DEF Tracker!LockCall, Reported
<1> QED
  BY <1>4, <1>5, <1>6, <1>7, <1>8

\* The writer enters mu.Lock, and new readers wait.
LEMMA LockPendingInv == TrackInv /\ (\E p \in Proc : Tracker!LockPending(p)) => TrackInv'
<1> SUFFICES ASSUME TrackInv, NEW p \in Proc, Tracker!LockPending(p) PROVE TrackInv'
  OBVIOUS
<1> USE DEF TrackInv, Tracker!muVars, Tracker!counters
<1>1. Tracker!Goto(p, "lock2") /\ "lock2" \in Locations
  BY DEF Tracker!LockPending, Locations, WaitR, WaitW, HaveR, InR, InW, HaveW
<1>2. /\ pc' = [pc EXCEPT ![p] = "lock2"] /\ pc' \in [Proc -> Locations] /\ ~fatal
      /\ pc \in [Proc -> Locations] /\ depth \in [Proc -> 0..2]
  BY <1>1, Moves DEF Places
<1>3. NWaitR' = NWaitR /\ NWaitW' = NWaitW /\ NHaveR' = NHaveR /\ NInR' = NInR
  BY <1>1, Moves, CountTypes DEF Tracker!LockPending, WaitR, WaitW, HaveR, InR, InW, HaveW
<1>4. Places' /\ Depths'
  BY <1>2 DEF Tracker!LockPending, Places, Depths, WaitR, WaitW, HaveR, InR, InW, HaveW
<1>5. Mutex'
  BY <1>2 DEF Tracker!LockPending, Mutex, InW
<1>6. Counters'
  BY <1>1, <1>3, Moves, CountTypes DEF Tracker!LockPending, Counters
<1>7. Holders'
  BY <1>2 DEF Tracker!LockPending, Holders, HaveW
<1>8. Reported'
  BY <1>2 DEF Tracker!LockPending, Reported
<1> QED
  BY <1>4, <1>5, <1>6, <1>7, <1>8

\* mu.Lock returns: there is no writer and no reader.
LEMMA LockAcquireInv == TrackInv /\ (\E p \in Proc : Tracker!LockAcquire(p)) => TrackInv'
<1> SUFFICES ASSUME TrackInv, NEW p \in Proc, Tracker!LockAcquire(p) PROVE TrackInv'
  OBVIOUS
<1> USE DEF TrackInv, Tracker!muVars, Tracker!counters
<1>1. Tracker!Goto(p, "lock3") /\ "lock3" \in Locations
  BY DEF Tracker!LockAcquire, Locations, WaitR, WaitW, HaveR, InR, InW, HaveW
<1>2. /\ pc' = [pc EXCEPT ![p] = "lock3"] /\ pc' \in [Proc -> Locations] /\ ~fatal
      /\ pc \in [Proc -> Locations] /\ depth \in [Proc -> 0..2]
  BY <1>1, Moves DEF Places
<1>3. NWaitR' = NWaitR /\ NWaitW' = NWaitW /\ NHaveR' = NHaveR /\ NInR' = NInR
  BY <1>1, Moves, CountTypes DEF Tracker!LockAcquire, WaitR, WaitW, HaveR, InR, InW, HaveW
<1>4. Places' /\ Depths'
  BY <1>2 DEF Tracker!LockAcquire, Places, Depths, WaitR, WaitW, HaveR, InR, InW, HaveW
<1>5. Mutex'
  BY <1>2, ProcAssumption DEF Tracker!LockAcquire, Mutex, InW
<1>6. Counters'
  BY <1>1, <1>3, Moves, CountTypes DEF Tracker!LockAcquire, Counters
<1>7. Holders'
  BY <1>2 DEF Tracker!LockAcquire, Holders, HaveW
<1>8. Reported'
  BY <1>2 DEF Tracker!LockAcquire, Reported
<1> QED
  BY <1>4, <1>5, <1>6, <1>7, <1>8

\* The writer moves from nwaitw to nhavew.
LEMMA LockCountInv == TrackInv /\ (\E p \in Proc : Tracker!LockCount(p)) => TrackInv'
<1> SUFFICES ASSUME TrackInv, NEW p \in Proc, Tracker!LockCount(p) PROVE TrackInv'
  OBVIOUS
<1> USE DEF TrackInv, Tracker!muVars, Tracker!counters
<1>1. Tracker!Goto(p, "lock4") /\ "lock4" \in Locations
  BY DEF Tracker!LockCount, Locations, WaitR, WaitW, HaveR, InR, InW, HaveW
<1>2. /\ pc' = [pc EXCEPT ![p] = "lock4"] /\ pc' \in [Proc -> Locations] /\ ~fatal
      /\ pc \in [Proc -> Locations] /\ depth \in [Proc -> 0..2]
  BY <1>1, Moves DEF Places
<1>3. NWaitR' = NWaitR /\ NWaitW' = NWaitW - 1 /\ NHaveR' = NHaveR /\ NInR' = NInR
  BY <1>1, Moves, CountTypes DEF Tracker!LockCount, WaitR, WaitW, HaveR, InR, InW, HaveW
<1>4. Places' /\ Depths'
  BY <1>2 DEF Tracker!LockCount, Places, Depths, WaitR, WaitW, HaveR, InR, InW, HaveW
<1>5. Mutex'
  BY <1>2 DEF Tracker!LockCount, Mutex, InW
<1>6. Counters'
  BY <1>1, <1>3, Moves, CountTypes DEF Tracker!LockCount, Counters
<1>7. Holders'
  BY <1>2, ProcAssumption DEF Tracker!LockCount, Holders, Mutex, InW, HaveW
<1>8. Reported'
  BY <1>2 DEF Tracker!LockCount, Reported
<1> QED
  BY <1>4, <1>5, <1>6, <1>7, <1>8

\* The writer records its stack in holder, under hmu.
LEMMA LockRecordInv == TrackInv /\ (\E p \in Proc : Tracker!LockRecord(p)) => TrackInv'
<1> SUFFICES ASSUME TrackInv, NEW p \in Proc, Tracker!LockRecord(p) PROVE TrackInv'
  OBVIOUS
<1> USE DEF TrackInv, Tracker!muVars, Tracker!counters
<1>1. Tracker!Goto(p, "wheld") /\ "wheld" \in Locations
  BY DEF Tracker!LockRecord, Locations, WaitR, WaitW, HaveR, InR, InW, HaveW
<1>2. /\ pc' = [pc EXCEPT ![p] = "wheld"] /\ pc' \in [Proc -> Locations] /\ ~fatal
      /\ pc \in [Proc -> Locations] /\ depth \in [Proc -> 0..2]
  BY <1>1, Moves DEF Places
<1>3. NWaitR' = NWaitR /\ NWaitW' = NWaitW /\ NHaveR' = NHaveR /\ NInR' = NInR
  BY <1>1, Moves, CountTypes DEF Tracker!LockRecord, WaitR, WaitW, HaveR, InR, InW, HaveW
<1>4. Places' /\ Depths'
  BY <1>2 DEF Tracker!LockRecord, Places, Depths, WaitR, WaitW, HaveR, InR, InW, HaveW
<1>5. Mutex'
  BY <1>2 DEF Tracker!LockRecord, Mutex, InW
<1>6. Counters'
  BY <1>1, <1>3, Moves, CountTypes DEF Tracker!LockRecord, Counters
<1>7. Holders'
  BY <1>2, ProcAssumption DEF Tracker!LockRecord, Holders, Mutex, InW, HaveW
<1>8. Reported'
  BY <1>2 DEF Tracker!LockRecord, Reported
<1> QED
  BY <1>4, <1>5, <1>6, <1>7, <1>8

\* Unlock is called by the goroutine with the lock.
LEMMA UnlockCallInv == TrackInv /\ (\E p \in Proc : Tracker!UnlockCall(p)) => TrackInv'
<1> SUFFICES ASSUME TrackInv, NEW p \in Proc, Tracker!UnlockCall(p) PROVE TrackInv'
  OBVIOUS
<1> USE DEF TrackInv, Tracker!muVars, Tracker!counters
<1>1. Tracker!Goto(p, "unlock1") /\ "unlock1" \in Locations
  BY DEF Tracker!UnlockCall, Locations, WaitR, WaitW, HaveR, InR, InW, HaveW
<1>2. /\ pc' = [pc EXCEPT ![p] = "unlock1"] /\ pc' \in [Proc -> Locations] /\ ~fatal
      /\ pc \in [Proc -> Locations] /\ depth \in [Proc -> 0..2]
  BY <1>1, Moves DEF Places
<1>3. NWaitR' = NWaitR /\ NWaitW' = NWaitW /\ NHaveR' = NHaveR /\ NInR' = NInR
  BY <1>1, Moves, CountTypes DEF Tracker!UnlockCall, WaitR, WaitW, HaveR, InR, InW, HaveW
<1>4. Places' /\ Depths'
  BY <1>2 DEF Tracker!UnlockCall, Places, Depths, WaitR, WaitW, HaveR, InR, InW, HaveW
<1>5. Mutex'
  BY <1>2 DEF Tracker!UnlockCall, Mutex, InW
<1>6. Counters'
  BY <1>1, <1>3, Moves, CountTypes DEF Tracker!UnlockCall, Counters
<1>7. Holders'
  BY <1>2 DEF Tracker!UnlockCall, Holders, HaveW
<1>8. Reported'
  BY <1>2 DEF Tracker!UnlockCall, Reported
<1> QED
  BY <1>4, <1>5, <1>6, <1>7, <1>8

\* Unlock empties holder, under hmu.
LEMMA UnlockClearInv == TrackInv /\ (\E p \in Proc : Tracker!UnlockClear(p)) => TrackInv'
<1> SUFFICES ASSUME TrackInv, NEW p \in Proc, Tracker!UnlockClear(p) PROVE TrackInv'
  OBVIOUS
<1> USE DEF TrackInv, Tracker!muVars, Tracker!counters
<1>1. Tracker!Goto(p, "unlock2") /\ "unlock2" \in Locations
  BY DEF Tracker!UnlockClear, Locations, WaitR, WaitW, HaveR, InR, InW, HaveW
<1>2. /\ pc' = [pc EXCEPT ![p] = "unlock2"] /\ pc' \in [Proc -> Locations] /\ ~fatal
      /\ pc \in [Proc -> Locations] /\ depth \in [Proc -> 0..2]
  BY <1>1, Moves DEF Places
<1>3. NWaitR' = NWaitR /\ NWaitW' = NWaitW /\ NHaveR' = NHaveR /\ NInR' = NInR
  BY <1>1, Moves, CountTypes DEF Tracker!UnlockClear, WaitR, WaitW, HaveR, InR, InW, HaveW
<1>4. Places' /\ Depths'
  BY <1>2 DEF Tracker!UnlockClear, Places, Depths, WaitR, WaitW, HaveR, InR, InW, HaveW
<1>5. Mutex'
  BY <1>2 DEF Tracker!UnlockClear, Mutex, InW
<1>6. Counters'
  BY <1>1, <1>3, Moves, CountTypes DEF Tracker!UnlockClear, Counters
<1>7. Holders'
  BY <1>2, ProcAssumption DEF Tracker!UnlockClear, Holders, Mutex, InW, HaveW
<1>8. Reported'
  BY <1>2 DEF Tracker!UnlockClear, Reported
<1> QED
  BY <1>4, <1>5, <1>6, <1>7, <1>8

\* Unlock takes the writer out of nhavew while it still has mu.
LEMMA UnlockCountInv == TrackInv /\ (\E p \in Proc : Tracker!UnlockCount(p)) => TrackInv'
<1> SUFFICES ASSUME TrackInv, NEW p \in Proc, Tracker!UnlockCount(p) PROVE TrackInv'
  OBVIOUS
<1> USE DEF TrackInv, Tracker!muVars, Tracker!counters
<1>1. Tracker!Goto(p, "unlock3") /\ "unlock3" \in Locations
  BY DEF Tracker!UnlockCount, Locations, WaitR, WaitW, HaveR, InR, InW, HaveW
<1>2. /\ pc' = [pc EXCEPT ![p] = "unlock3"] /\ pc' \in [Proc -> Locations] /\ ~fatal
      /\ pc \in [Proc -> Locations] /\ depth \in [Proc -> 0..2]
  BY <1>1, Moves DEF Places
<1>3. NWaitR' = NWaitR /\ NWaitW' = NWaitW /\ NHaveR' = NHaveR /\ NInR' = NInR
  BY <1>1, Moves, CountTypes DEF Tracker!UnlockCount, WaitR, WaitW, HaveR, InR, InW, HaveW
<1>4. Places' /\ Depths'
  BY <1>2 DEF Tracker!UnlockCount, Places, Depths, WaitR, WaitW, HaveR, InR, InW, HaveW
<1>5. Mutex'
  BY <1>2 DEF Tracker!UnlockCount, Mutex, InW
<1>6. Counters'
  BY <1>1, <1>3, Moves, CountTypes DEF Tracker!UnlockCount, Counters
<1>7. Holders'
  BY <1>2, ProcAssumption DEF Tracker!UnlockCount, Holders, Mutex, InW, HaveW
<1>8. Reported'
  BY <1>2 DEF Tracker!UnlockCount, Reported
<1> QED
  BY <1>4, <1>5, <1>6, <1>7, <1>8

\* The second load of the check: with no writer in nwaitw, none is in Lock.
LEMMA RLockCheckWInv == TrackInv /\ (\E p \in Proc : Tracker!RLockCheckW(p)) => TrackInv'
<1> SUFFICES ASSUME TrackInv, NEW p \in Proc, Tracker!RLockCheckW(p) PROVE TrackInv'
  OBVIOUS
<1> USE DEF TrackInv, Tracker!muVars, Tracker!counters
<1>1. Tracker!Goto(p, "rlock2") /\ "rlock2" \in Locations
  BY DEF Tracker!RLockCheckW, Locations, WaitR, WaitW, HaveR, InR, InW, HaveW
<1>2. /\ pc' = [pc EXCEPT ![p] = "rlock2"] /\ pc' \in [Proc -> Locations] /\ ~fatal
      /\ pc \in [Proc -> Locations] /\ depth \in [Proc -> 0..2]
  BY <1>1, Moves DEF Places
<1>3. NWaitR' = NWaitR /\ NWaitW' = NWaitW /\ NHaveR' = NHaveR /\ NInR' = NInR
  BY <1>1, Moves, CountTypes DEF Tracker!RLockCheckW, WaitR, WaitW, HaveR, InR, InW, HaveW
<1>4. Places' /\ Depths'
  BY <1>2 DEF Tracker!RLockCheckW, Places, Depths, WaitR, WaitW, HaveR, InR, InW, HaveW
<1>5. Mutex'
  BY <1>2 DEF Tracker!RLockCheckW, Mutex, InW
<1>6. Counters'
  BY <1>1, <1>3, Moves, CountTypes DEF Tracker!RLockCheckW, Counters
<1>7. Holders'
  BY <1>2 DEF Tracker!RLockCheckW, Holders, HaveW
<1>8. Reported'
  <2>1. nwaitw > 0 \/ \A q \in Proc : pc[q] \notin {"lock1", "lock2"}
    BY CountTypes DEF Counters, WaitW
  <2> QED
    BY <1>2, <2>1 DEF Tracker!RLockCheckW, Tracker!writerWaits, Reported
<1> QED
  BY <1>4, <1>5, <1>6, <1>7, <1>8

\* mu.RLock returns: there is no writer, and none waits.
LEMMA RLockAcquireInv == TrackInv /\ (\E p \in Proc : Tracker!RLockAcquire(p)) => TrackInv'
<1> SUFFICES ASSUME TrackInv, NEW p \in Proc, Tracker!RLockAcquire(p) PROVE TrackInv'
  OBVIOUS
<1> USE DEF TrackInv, Tracker!muVars, Tracker!counters
<1>1. Tracker!Goto(p, "rlock3") /\ "rlock3" \in Locations
  BY DEF Tracker!RLockAcquire, Locations, WaitR, WaitW, HaveR, InR, InW, HaveW
<1>2. /\ pc' = [pc EXCEPT ![p] = "rlock3"] /\ pc' \in [Proc -> Locations] /\ ~fatal
      /\ pc \in [Proc -> Locations] /\ depth \in [Proc -> 0..2]
  BY <1>1, Moves DEF Places
<1>3. NWaitR' = NWaitR /\ NWaitW' = NWaitW /\ NHaveR' = NHaveR /\ NInR' = NInR + 1
  BY <1>1, Moves, CountTypes DEF Tracker!RLockAcquire, WaitR, WaitW, HaveR, InR, InW, HaveW
<1>4. Places' /\ Depths'
  BY <1>2 DEF Tracker!RLockAcquire, Places, Depths, WaitR, WaitW, HaveR, InR, InW, HaveW
<1>5. Mutex'
  BY <1>2 DEF Tracker!RLockAcquire, Mutex, InW
<1>6. Counters'
  BY <1>1, <1>3, Moves, CountTypes DEF Tracker!RLockAcquire, Counters
<1>7. Holders'
  BY <1>2 DEF Tracker!RLockAcquire, Holders, HaveW
<1>8. Reported'
  BY <1>2 DEF Tracker!RLockAcquire, Reported
<1> QED
  BY <1>4, <1>5, <1>6, <1>7, <1>8

\* The reader moves from nwaitr to nhaver.
LEMMA RLockCountInv == TrackInv /\ (\E p \in Proc : Tracker!RLockCount(p)) => TrackInv'
<1> SUFFICES ASSUME TrackInv, NEW p \in Proc, Tracker!RLockCount(p) PROVE TrackInv'
  OBVIOUS
<1> USE DEF TrackInv, Tracker!muVars, Tracker!counters
<1>1. Tracker!Goto(p, "rlock4") /\ "rlock4" \in Locations
  BY DEF Tracker!RLockCount, Locations, WaitR, WaitW, HaveR, InR, InW, HaveW
<1>2. /\ pc' = [pc EXCEPT ![p] = "rlock4"] /\ pc' \in [Proc -> Locations] /\ ~fatal
      /\ pc \in [Proc -> Locations] /\ depth \in [Proc -> 0..2]
  BY <1>1, Moves DEF Places
<1>3. NWaitR' = NWaitR - 1 /\ NWaitW' = NWaitW /\ NHaveR' = NHaveR + 1 /\ NInR' = NInR
  BY <1>1, Moves, CountTypes DEF Tracker!RLockCount, WaitR, WaitW, HaveR, InR, InW, HaveW
<1>4. Places' /\ Depths'
  BY <1>2 DEF Tracker!RLockCount, Places, Depths, WaitR, WaitW, HaveR, InR, InW, HaveW
<1>5. Mutex'
  BY <1>2 DEF Tracker!RLockCount, Mutex, InW
<1>6. Counters'
  BY <1>1, <1>3, Moves, CountTypes DEF Tracker!RLockCount, Counters
<1>7. Holders'
  BY <1>2 DEF Tracker!RLockCount, Holders, HaveW
<1>8. Reported'
  BY <1>2 DEF Tracker!RLockCount, Reported
<1> QED
  BY <1>4, <1>5, <1>6, <1>7, <1>8

\* The reader enters holdr, under hmu; the second time the program ends.
LEMMA RLockRecordInv == TrackInv /\ (\E p \in Proc : Tracker!RLockRecord(p)) => TrackInv'
<1> SUFFICES ASSUME TrackInv, NEW p \in Proc, Tracker!RLockRecord(p) PROVE TrackInv'
  OBVIOUS
<1> USE DEF TrackInv, Tracker!muVars, Tracker!counters
<1>1. Tracker!Goto(p, "rheld") /\ "rheld" \in Locations
  BY DEF Tracker!RLockRecord, Locations, WaitR, WaitW, HaveR, InR, InW, HaveW
<1>2. /\ pc' = [pc EXCEPT ![p] = "rheld"] /\ pc' \in [Proc -> Locations] /\ ~fatal
      /\ pc \in [Proc -> Locations] /\ depth \in [Proc -> 0..2]
  BY <1>1, Moves DEF Places
<1>3. NWaitR' = NWaitR /\ NWaitW' = NWaitW /\ NHaveR' = NHaveR /\ NInR' = NInR
  BY <1>1, Moves, CountTypes DEF Tracker!RLockRecord, WaitR, WaitW, HaveR, InR, InW, HaveW
<1>4. Places' /\ Depths'
  <2>1. Places'
    BY <1>2 DEF Tracker!RLockRecord, Places
  <2>2. /\ fatal' = (p \in holdr) /\ depth' = depth /\ handed' = handed
        /\ ~handed /\ depth[p] = 2 => p \in holdr
    BY DEF Tracker!RLockRecord, Holders
  <2>3. depth[p] \in {1, 2}
    BY DEF Tracker!RLockRecord, Depths
  <2>4. Depths'
    BY <1>2, <2>2, <2>3 DEF Depths, WaitR, WaitW, HaveR, InR, InW, HaveW
  <2> QED
    BY <2>1, <2>4
<1>5. Mutex'
  BY <1>2 DEF Tracker!RLockRecord, Mutex, InW
<1>6. Counters'
  BY <1>1, <1>3, Moves, CountTypes DEF Tracker!RLockRecord, Counters
<1>7. Holders'
  BY <1>2 DEF Tracker!RLockRecord, Holders, HaveW
<1>8. Reported'
  BY <1>2 DEF Tracker!RLockRecord, Reported
<1> QED
  BY <1>4, <1>5, <1>6, <1>7, <1>8

\* RUnlock takes the reader out of nhaver.
LEMMA RUnlockCountInv == TrackInv /\ (\E p \in Proc : Tracker!RUnlockCount(p)) => TrackInv'
<1> SUFFICES ASSUME TrackInv, NEW p \in Proc, Tracker!RUnlockCount(p) PROVE TrackInv'
  OBVIOUS
<1> USE DEF TrackInv, Tracker!muVars, Tracker!counters
<1>1. Tracker!Goto(p, "runlock2") /\ "runlock2" \in Locations
  BY DEF Tracker!RUnlockCount, Locations, WaitR, WaitW, HaveR, InR, InW, HaveW
<1>2. /\ pc' = [pc EXCEPT ![p] = "runlock2"] /\ pc' \in [Proc -> Locations] /\ ~fatal
      /\ pc \in [Proc -> Locations] /\ depth \in [Proc -> 0..2]
  BY <1>1, Moves DEF Places
<1>3. NWaitR' = NWaitR /\ NWaitW' = NWaitW /\ NHaveR' = NHaveR - 1 /\ NInR' = NInR
  BY <1>1, Moves, CountTypes DEF Tracker!RUnlockCount, WaitR, WaitW, HaveR, InR, InW, HaveW
<1>4. Places' /\ Depths'
  BY <1>2 DEF Tracker!RUnlockCount, Places, Depths, WaitR, WaitW, HaveR, InR, InW, HaveW
<1>5. Mutex'
  BY <1>2 DEF Tracker!RUnlockCount, Mutex, InW
<1>6. Counters'
  BY <1>1, <1>3, Moves, CountTypes DEF Tracker!RUnlockCount, Counters
<1>7. Holders'
  BY <1>2 DEF Tracker!RUnlockCount, Holders, HaveW
<1>8. Reported'
  BY <1>2 DEF Tracker!RUnlockCount, Reported
<1> QED
  BY <1>4, <1>5, <1>6, <1>7, <1>8

\* RUnlock takes the goroutine out of holdr, under hmu.
LEMMA RUnlockForgetInv == TrackInv /\ (\E p \in Proc : Tracker!RUnlockForget(p)) => TrackInv'
<1> SUFFICES ASSUME TrackInv, NEW p \in Proc, Tracker!RUnlockForget(p) PROVE TrackInv'
  OBVIOUS
<1> USE DEF TrackInv, Tracker!muVars, Tracker!counters
<1>1. Tracker!Goto(p, "runlock3") /\ "runlock3" \in Locations
  BY DEF Tracker!RUnlockForget, Locations, WaitR, WaitW, HaveR, InR, InW, HaveW
<1>2. /\ pc' = [pc EXCEPT ![p] = "runlock3"] /\ pc' \in [Proc -> Locations] /\ ~fatal
      /\ pc \in [Proc -> Locations] /\ depth \in [Proc -> 0..2]
  BY <1>1, Moves DEF Places
<1>3. NWaitR' = NWaitR /\ NWaitW' = NWaitW /\ NHaveR' = NHaveR /\ NInR' = NInR
  BY <1>1, Moves, CountTypes DEF Tracker!RUnlockForget, WaitR, WaitW, HaveR, InR, InW, HaveW
<1>4. Places' /\ Depths'
  BY <1>2 DEF Tracker!RUnlockForget, Places, Depths, WaitR, WaitW, HaveR, InR, InW, HaveW
<1>5. Mutex'
  BY <1>2 DEF Tracker!RUnlockForget, Mutex, InW
<1>6. Counters'
  BY <1>1, <1>3, Moves, CountTypes DEF Tracker!RUnlockForget, Counters
<1>7. Holders'
  BY <1>2 DEF Tracker!RUnlockForget, Holders, Depths, HaveW
<1>8. Reported'
  BY <1>2 DEF Tracker!RUnlockForget, Reported
<1> QED
  BY <1>4, <1>5, <1>6, <1>7, <1>8

\* mu.RUnlock: one read lock less. It is the last one, if none was handed over.
LEMMA RUnlockReleaseInv == TrackInv /\ (\E p \in Proc : Tracker!RUnlockRelease(p)) => TrackInv'
<1> SUFFICES ASSUME TrackInv, NEW p \in Proc, Tracker!RUnlockRelease(p) PROVE TrackInv'
  OBVIOUS
<1> USE DEF TrackInv, Tracker!muVars, Tracker!counters
<1>1. PICK l \in {"idle", "rheld"} :
        /\ Tracker!Goto(p, l)
        /\ l = "rheld" <=> depth[p] = 2
  BY DEF Tracker!RUnlockRelease
<1>2. /\ pc' = [pc EXCEPT ![p] = l] /\ pc' \in [Proc -> Locations] /\ ~fatal
      /\ pc \in [Proc -> Locations] /\ depth \in [Proc -> 0..2] /\ l \in Locations
  BY <1>1, Moves DEF Places, Locations, HaveR
<1>3. /\ depth' = [depth EXCEPT ![p] = @ - 1] /\ pc[p] = "runlock3"
      /\ (l = "idle" /\ depth[p] = 1) \/ (l = "rheld" /\ depth[p] = 2 /\ handed)
      /\ UNCHANGED <<writer, nwaitr, nwaitw, nhaver, nhavew, holder, holdr, warned, late, handed, fatal>>
      /\ nread' = nread - 1
  BY <1>1, <1>2 DEF Tracker!RUnlockRelease, Depths, Places
<1>4. /\ NWaitR' = NWaitR /\ NWaitW' = NWaitW
      /\ l = "idle" => NHaveR' = NHaveR /\ NInR' = NInR - 1 /\ NNested' = NNested
      /\ l = "rheld" => NHaveR' = NHaveR + 1 /\ NInR' = NInR /\ NNested' = NNested - 1
  <2>1. /\ NWaitR' = NWaitR /\ NWaitW' = NWaitW
        /\ l = "idle" => NHaveR' = NHaveR /\ NInR' = NInR - 1
        /\ l = "rheld" => NHaveR' = NHaveR + 1 /\ NInR' = NInR
    <3>1. CASE l = "idle"
      <4>1. Tracker!Goto(p, "idle") /\ "idle" \in Locations /\ pc[p] = "runlock3"
        BY <1>1, <1>2, <1>3, <3>1
      <4> QED
        BY <3>1, <4>1, Moves, CountTypes DEF WaitR, WaitW, HaveR, InR
    <3>2. CASE l = "rheld"
      <4>1. Tracker!Goto(p, "rheld") /\ "rheld" \in Locations /\ pc[p] = "runlock3"
        BY <1>1, <1>2, <1>3, <3>2
      <4> QED
        BY <3>2, <4>1, Moves, CountTypes DEF WaitR, WaitW, HaveR, InR
    <3> QED
      BY <1>1, <3>1, <3>2
  <2>2. l = "idle" => NNested' = NNested
    <3>1. l = "idle" => Nested' = Nested
      BY <1>2, <1>3 DEF Nested
    <3> QED
      BY <3>1 DEF NNested
  <2>3. l = "rheld" => NNested' = NNested - 1
    <3>1. l = "rheld" => Nested = Nested' \cup {p} /\ p \notin Nested'
      BY <1>2, <1>3 DEF Nested
    <3>2. Nested' \in SUBSET Proc
      BY DEF Nested
    <3>3. IsFiniteSet(Nested') /\ Cardinality(Nested') \in Nat
      BY <3>2, ProcFinite
    <3>4. l = "rheld" => Cardinality(Nested) = Cardinality(Nested') + 1
      BY <3>1, <3>3, FS_AddElement
    <3> QED
      BY <3>3, <3>4 DEF NNested
  <2> QED
    BY <2>1, <2>2, <2>3
<1>5. Places'
  BY <1>2, <1>3 DEF Places
<1>6. Depths'
  BY <1>2, <1>3 DEF Depths, WaitR, WaitW, InW
<1>7. Mutex'
  <2>1. nread # 0
    BY <1>3, CountTypes DEF Counters, InR
  <2> QED
    BY <1>2, <1>3, <2>1 DEF Mutex, InW
<1>8. Counters'
  BY <1>3, <1>4, CountTypes DEF Counters
<1>9. Holders'
  BY <1>2, <1>3 DEF Holders, HaveW
<1>10. Reported'
  BY <1>2, <1>3 DEF Reported
<1> QED
  BY <1>5, <1>6, <1>7, <1>8, <1>9, <1>10

\* A read lock that is handed over stays the same for the counts.
LEMMA HandOverInv == TrackInv /\ (\E p, q \in Proc : Tracker!HandOver(p, q)) => TrackInv'
<1> SUFFICES ASSUME TrackInv, NEW p \in Proc, NEW q \in Proc, Tracker!HandOver(p, q)
             PROVE  TrackInv'
  OBVIOUS
<1> USE DEF TrackInv, Tracker!muVars, Tracker!counters
<1>1. /\ pc[p] = "rheld" /\ depth[p] = 1 /\ pc[q] = "idle" /\ depth[q] = 0 /\ ~fatal
      /\ pc' = [pc EXCEPT ![p] = "idle", ![q] = "rheld"]
      /\ depth' = [depth EXCEPT ![p] = 0, ![q] = 1]
      /\ handed' = TRUE
      /\ UNCHANGED <<writer, nread, nwaitr, nwaitw, nhaver, nhavew, holder, holdr, warned, late, fatal>>
      /\ pc \in [Proc -> Locations] /\ depth \in [Proc -> 0..2] /\ p # q
  BY DEF Tracker!HandOver, Places
<1>2. "idle" \in Locations /\ "rheld" \in Locations
  BY DEF Locations, HaveR
<1>3. Places'
  BY <1>1, <1>2 DEF Places
<1>4. Depths'
  BY <1>1 DEF Depths, WaitR, WaitW, InW
<1>5. ASSUME NEW L, "idle" \notin L
      PROVE  Cardinality({x \in Proc : pc'[x] \in L}) = Cardinality(In(L))
  <2> DEFINE g == [pc EXCEPT ![p] = "idle"]
             h == [g EXCEPT ![q] = "rheld"]
             out == IF "rheld" \in L THEN 1 ELSE 0
  <2>1. g \in [Proc -> Locations] /\ h = pc' /\ g[q] = "idle"
    BY <1>1, <1>2
  <2>2. Cardinality({x \in Proc : g[x] \in L}) = Cardinality(In(L)) - out
    <3>1. Cardinality({x \in Proc : g[x] \in L})
            = Cardinality({x \in Proc : pc[x] \in L}) + (IF "idle" \in L THEN 1 ELSE 0)
                - (IF pc[p] \in L THEN 1 ELSE 0)
      BY <1>1, <1>2, MoveCount
    <3>2. Cardinality({x \in Proc : pc[x] \in L}) \in Nat
      BY ProcFinite
    <3> QED
      BY <1>1, <1>5, <3>1, <3>2 DEF In
  <2> HIDE DEF g
  <2>3. Cardinality({x \in Proc : h[x] \in L}) = Cardinality({x \in Proc : g[x] \in L}) + out
    <3>1. Cardinality({x \in Proc : h[x] \in L})
            = Cardinality({x \in Proc : g[x] \in L}) + (IF "rheld" \in L THEN 1 ELSE 0)
                - (IF g[q] \in L THEN 1 ELSE 0)
      BY <1>2, <2>1, MoveCount
    <3>2. Cardinality({x \in Proc : g[x] \in L}) \in Nat
      BY ProcFinite
    <3> QED
      BY <1>5, <2>1, <3>1, <3>2
  <2>4. Cardinality(In(L)) \in Nat /\ out \in {0, 1}
    BY ProcFinite DEF In
  <2> HIDE DEF h, out
  <2> QED
    BY <2>1, <2>2, <2>3, <2>4
<1>6. NWaitR' = NWaitR /\ NWaitW' = NWaitW /\ NHaveR' = NHaveR /\ NInR' = NInR
  BY <1>5 DEF NWaitR, NWaitW, NHaveR, NInR, In, WaitR, WaitW, HaveR, InR
<1>7. NNested' = NNested
  <2>1. Nested' = Nested
    BY <1>1 DEF Nested
  <2> QED
    BY <2>1 DEF NNested
<1>8. Mutex'
  BY <1>1 DEF Mutex, InW
<1>9. Counters'
  BY <1>1, <1>6, <1>7 DEF Counters
<1>10. Holders'
  BY <1>1 DEF Holders, HaveW
<1>11. Reported'
  BY <1>1 DEF Reported
<1> QED
  BY <1>3, <1>4, <1>8, <1>9, <1>10, <1>11

\* The first load of RLock's check: a goroutine with a read lock goes on to the
\* second.
LEMMA RLockCheckRInv == TrackInv /\ (\E p \in Proc : Tracker!RLockCheckR(p)) => TrackInv'
<1> SUFFICES ASSUME TrackInv, NEW p \in Proc, Tracker!RLockCheckR(p) PROVE TrackInv'
  OBVIOUS
<1> USE DEF TrackInv, Tracker!muVars, Tracker!counters
<1>1. PICK l \in {"rlock1w", "rlock2"} :
        /\ Tracker!Goto(p, l)
        /\ l = "rlock2" => nhaver = 0
  BY CountTypes DEF Tracker!RLockCheckR, Counters
<1>2. /\ pc' = [pc EXCEPT ![p] = l] /\ pc' \in [Proc -> Locations] /\ ~fatal
      /\ pc \in [Proc -> Locations] /\ depth \in [Proc -> 0..2] /\ l \in Locations
  BY <1>1, Moves DEF Places, Locations, WaitR
<1>3. NWaitR' = NWaitR /\ NWaitW' = NWaitW /\ NHaveR' = NHaveR /\ NInR' = NInR
  BY <1>1, <1>2, Moves, CountTypes DEF Tracker!RLockCheckR, WaitR, WaitW, HaveR, InR
<1>4. Places' /\ Depths'
  BY <1>1, <1>2 DEF Tracker!RLockCheckR, Places, Depths, WaitR, WaitW, HaveR, InR, InW, HaveW
<1>5. Mutex'
  BY <1>1, <1>2 DEF Tracker!RLockCheckR, Mutex, InW
<1>6. Counters'
  BY <1>1, <1>2, <1>3, Moves, CountTypes DEF Tracker!RLockCheckR, Counters
<1>7. Holders'
  BY <1>1, <1>2 DEF Tracker!RLockCheckR, Holders, HaveW
<1>8. Reported'
  <2>1. l = "rlock2" => depth[p] # 2
    BY <1>1, CountTypes DEF Counters
  <2> QED
    BY <1>1, <1>2, <2>1 DEF Tracker!RLockCheckR, Reported
<1> QED
  BY <1>4, <1>5, <1>6, <1>7, <1>8

\* RLock is called, by a goroutine with no lock or with one read lock.
LEMMA RLockCallInv == TrackInv /\ (\E p \in Proc : Tracker!RLockCall(p)) => TrackInv'
<1> SUFFICES ASSUME TrackInv, NEW p \in Proc, Tracker!RLockCall(p) PROVE TrackInv'
  OBVIOUS
<1> USE DEF TrackInv, Tracker!muVars, Tracker!counters
<1>1. Tracker!Goto(p, "rlock1") /\ "rlock1" \in Locations
  BY DEF Tracker!RLockCall, Locations, WaitR
<1>2. /\ pc' = [pc EXCEPT ![p] = "rlock1"] /\ pc' \in [Proc -> Locations] /\ ~fatal
      /\ pc \in [Proc -> Locations] /\ depth \in [Proc -> 0..2]
  BY <1>1, Moves DEF Places
<1>3. /\ depth' = [depth EXCEPT ![p] = @ + 1]
      /\ (pc[p] = "idle" /\ depth[p] = 0) \/ (pc[p] = "rheld" /\ depth[p] = 1)
  <2>1. /\ depth' = [depth EXCEPT ![p] = @ + 1]
        /\ pc[p] = "idle" \/ pc[p] = "rheld"
    BY DEF Tracker!RLockCall
  <2>2. /\ pc[p] = "idle" => depth[p] = 0
        /\ pc[p] = "rheld" => depth[p] = 1
    BY <1>2 DEF Depths, Tracker!RLockCall
  <2> QED
    BY <2>1, <2>2
<1>4. /\ NWaitR' = NWaitR + 1 /\ NWaitW' = NWaitW
      /\ pc[p] = "idle" => NHaveR' = NHaveR /\ NInR' = NInR /\ NNested' = NNested
      /\ pc[p] = "rheld" => NHaveR' = NHaveR - 1 /\ NInR' = NInR - 1 /\ NNested' = NNested + 1
  <2>1. /\ NWaitR' = NWaitR + 1 /\ NWaitW' = NWaitW
        /\ pc[p] = "idle" => NHaveR' = NHaveR /\ NInR' = NInR
        /\ pc[p] = "rheld" => NHaveR' = NHaveR - 1 /\ NInR' = NInR - 1
    BY <1>1, <1>3, Moves, CountTypes DEF WaitR, WaitW, HaveR, InR
  <2>2. pc[p] = "idle" => NNested' = NNested
    <3>1. pc[p] = "idle" => Nested' = Nested
      BY <1>2, <1>3 DEF Nested
    <3> QED
      BY <3>1 DEF NNested
  <2>3. pc[p] = "rheld" => NNested' = NNested + 1
    <3>1. pc[p] = "rheld" => Nested' = Nested \cup {p} /\ p \notin Nested
      BY <1>2, <1>3 DEF Nested
    <3>2. Nested \in SUBSET Proc
      BY DEF Nested
    <3> QED
      BY <3>1, <3>2, ProcFinite, FS_AddElement DEF NNested
  <2> QED
    BY <2>1, <2>2, <2>3
<1>5. Places' /\ Depths'
  BY <1>2, <1>3 DEF Tracker!RLockCall, Places, Depths, WaitR, WaitW, HaveR, InR, InW, HaveW
<1>6. Mutex'
  BY <1>2, <1>3 DEF Tracker!RLockCall, Mutex, InW
<1>7. Counters'
  BY <1>3, <1>4, CountTypes DEF Tracker!RLockCall, Counters
<1>8. Holders'
  BY <1>2, <1>3 DEF Tracker!RLockCall, Holders, HaveW
<1>9. Reported'
  BY <1>2, <1>3 DEF Tracker!RLockCall, Reported
<1> QED
  BY <1>5, <1>6, <1>7, <1>8, <1>9

\* mu.Unlock lets readers in: it had none.
LEMMA UnlockReleaseInv == TrackInv /\ (\E p \in Proc : Tracker!UnlockRelease(p)) => TrackInv'
<1> SUFFICES ASSUME TrackInv, NEW p \in Proc, Tracker!UnlockRelease(p) PROVE TrackInv'
  OBVIOUS
<1> USE DEF TrackInv, Tracker!muVars, Tracker!counters
<1>1. PICK in \in SUBSET {q \in Proc : pc[q] = "rlock2"} :
        /\ nread' = Cardinality(in)
        /\ pc' = [q \in Proc |-> IF q = p THEN "idle" ELSE IF q \in in THEN "rlock3" ELSE pc[q]]
        /\ late' = {l \in late : l[1] \notin in}
  BY SameCardinality DEF Tracker!UnlockRelease
<1>2. /\ pc[p] = "unlock3" /\ writer = p /\ writer' = None /\ ~fatal
      /\ pc \in [Proc -> Locations] /\ depth \in [Proc -> 0..2]
      /\ UNCHANGED <<depth, nwaitr, nwaitw, nhaver, nhavew, holder, holdr, warned, handed, fatal>>
  BY DEF Tracker!UnlockRelease, Mutex, Places, InW
<1>3. nread = 0 /\ NInR = 0 /\ NNested = 0
  BY <1>2, ProcAssumption, CountTypes DEF Mutex, Counters
<1>4. pc' \in [Proc -> Locations]
  BY <1>1, <1>2 DEF Locations, WaitR
<1>5. NWaitR' = NWaitR /\ NWaitW' = NWaitW /\ NHaveR' = NHaveR
  <2>1. In(WaitR)' = In(WaitR)
    BY <1>1, <1>2 DEF In, WaitR
  <2>2. In(WaitW)' = In(WaitW)
    BY <1>1, <1>2 DEF In, WaitW
  <2>3. In(HaveR)' = In(HaveR)
    BY <1>1, <1>2 DEF In, HaveR
  <2> QED
    BY <2>1, <2>2, <2>3 DEF NWaitR, NWaitW, NHaveR, WaitR, WaitW, HaveR
<1>6. NInR' = Cardinality(in) /\ NNested' = 0
  <2>1. \A q \in Proc : pc[q] \notin InR
    BY <1>3, CountTypes
  <2>2. In(InR)' = in
    BY <1>1, <1>2, <2>1 DEF In, InR
  <2> QED
    BY <1>2, <1>3, <2>2 DEF NInR, InR, NNested, Nested
<1>7. Places'
  BY <1>1, <1>2, <1>4 DEF Places
<1>8. Depths'
  BY <1>1, <1>2 DEF Depths, WaitR, WaitW, InW
<1>9. Mutex'
  BY <1>1, <1>2, ProcAssumption DEF Mutex, InW
<1>10. Counters'
  <2>1. Cardinality(in) \in Nat
    BY ProcFinite
  <2>2. nread' = NInR' + NNested'
    BY <1>1, <1>6, <2>1
  <2>3. nhaver' = NHaveR' + NNested'
    BY <1>2, <1>3, <1>5, <1>6 DEF Counters
  <2>4. nwaitr' = NWaitR' /\ nwaitw' = NWaitW'
    BY <1>2, <1>5 DEF Counters
  <2> QED
    BY <2>2, <2>3, <2>4 DEF Counters
<1>11. Holders'
  BY <1>1, <1>2 DEF Holders, HaveW
<1>12. Reported'
  BY <1>1, <1>2 DEF Reported
<1> QED
  BY <1>7, <1>8, <1>9, <1>10, <1>11, <1>12

\* Every step of the tracker keeps the invariant.
LEMMA TrackStep == TrackInv /\ [Tracker!Next]_trackerVars => TrackInv'
<1>1. TrackInv /\ UNCHANGED trackerVars => TrackInv'
  BY DEF trackerVars, TrackInv, Places, Depths, Mutex, Counters, Holders, Reported, NWaitR,
     NWaitW, NHaveR, NInR, NNested, In, Nested, Locations, WaitR, WaitW, HaveR, InR, InW, HaveW
<1> QED
  BY <1>1, LockCallInv, LockPendingInv, LockAcquireInv, LockCountInv, LockRecordInv,
     UnlockCallInv, UnlockClearInv, UnlockCountInv, UnlockReleaseInv, RLockCallInv,
     RLockCheckRInv, RLockCheckWInv, RLockAcquireInv, RLockCountInv, RLockRecordInv,
     RUnlockCountInv, RUnlockForgetInv, RUnlockReleaseInv, HandOverInv, Zenon DEF Tracker!Next

\* A new tracker: nobody is inside.
LEMMA TrackInitInv == Tracker!Init => TrackInv
<1> SUFFICES ASSUME Tracker!Init PROVE TrackInv
  OBVIOUS
<1>1. /\ \A L : "idle" \notin L => In(L) = {}
      /\ Nested = {}
  BY DEF Tracker!Init, In, Nested
<1>2. NWaitR = 0 /\ NWaitW = 0 /\ NHaveR = 0 /\ NInR = 0 /\ NNested = 0
  BY <1>1, FS_EmptySet DEF NWaitR, NWaitW, NHaveR, NInR, NNested, WaitR, WaitW, HaveR, InR
<1>3. Places /\ Depths
  <2>1. pc = [p \in Proc |-> "idle"] /\ depth = [p \in Proc |-> 0]
    BY DEF Tracker!Init
  <2>2. pc \in [Proc -> Locations] /\ depth \in [Proc -> 0..2]
    BY <2>1 DEF Locations
  <2>3. Places
    BY <2>2 DEF Tracker!Init, Places
  <2>4. Depths
    BY <2>1 DEF Depths, WaitR, WaitW, InW
  <2> QED
    BY <2>3, <2>4
<1>4. Mutex /\ Counters
  BY <1>2, ProcAssumption DEF Tracker!Init, Mutex, Counters, InW
<1>5. Holders /\ Reported
  BY ProcAssumption DEF Tracker!Init, Holders, Reported, HaveW
<1> QED
  BY <1>3, <1>4, <1>5 DEF TrackInv

\* In every behaviour that exercises the tracker.
LEMMA TrackInvHolds == AllSpec => [](part = "tracker" => TrackInv)
<1>1. AllInit => (part = "tracker" => TrackInv)
  BY TrackInitInv DEF AllInit
<1>2. (part = "tracker" => TrackInv) /\ [AllNext]_allVars => (part = "tracker" => TrackInv)'
  <2> SUFFICES ASSUME part = "tracker" => TrackInv, [AllNext]_allVars, part' = "tracker"
               PROVE  TrackInv'
    OBVIOUS
  <2>1. part = "tracker" /\ [Tracker!Next]_trackerVars
    BY DEF AllNext, allVars
  <2> QED
    BY <2>1, TrackStep
<1> QED
  BY <1>1, <1>2, PTL DEF AllSpec

\* Wherever any number of goroutines are in Lock, Unlock, RLock and RUnlock:
\* nhavew is 0 or 1, Holder names nobody but the goroutine with the lock, all
\* counters are back at zero when nobody is inside, and, of the programs whose
\* goroutines release their own read locks, log.Fatalf meets only those that
\* call RLock recursively.
THEOREM TrackerExactHolds == AllSpec => []TrackerExact
<1>1. TrackInv => Tracker!TrackerExact
  <2> SUFFICES ASSUME TrackInv PROVE Tracker!TrackerExact
    OBVIOUS
  <2> USE DEF TrackInv
  <2>1. Tracker!TypeOK
    BY CountTypes DEF Tracker!TypeOK, Places, Mutex, Counters, Holders, Locations, WaitR, WaitW,
       HaveR, HaveW
  <2>2. Tracker!HolderIsWriter
    BY DEF Tracker!HolderIsWriter, Holders, Mutex, InW
  <2>3. Tracker!CountersSettle
    <3> SUFFICES ASSUME ~fatal, \A p \in Proc : pc[p] = "idle"
                 PROVE  /\ nwaitr = 0 /\ nwaitw = 0 /\ nhaver = 0 /\ nhavew = 0
                        /\ holder = None /\ (~handed => holdr = {})
      BY DEF Tracker!CountersSettle
    <3>1. (\A L : "idle" \notin L => In(L) = {}) /\ Nested = {}
      BY DEF In, Nested, Depths
    <3>2. NWaitR = 0 /\ NWaitW = 0 /\ NHaveR = 0 /\ NNested = 0
      BY <3>1, FS_EmptySet DEF NWaitR, NWaitW, NHaveR, NNested, WaitR, WaitW, HaveR
    <3>3. nwaitr = 0 /\ nwaitw = 0 /\ nhaver = 0
      BY <3>2 DEF Counters
    <3>4. nhavew = 0 /\ holder = None
      BY DEF Holders, HaveW
    <3>5. ~handed => holdr = {}
      BY DEF Holders, Places, Depths
    <3> QED
      BY <3>3, <3>4, <3>5
  <2>4. Tracker!FatalMeansRecursive
    BY DEF Tracker!FatalMeansRecursive, Holders
  <2> QED
    BY <2>1, <2>2, <2>3, <2>4 DEF Tracker!TrackerExact
<1>2. (part = "tracker" => TrackInv) => TrackerExact
  BY <1>1 DEF TrackerExact
<1> QED
  BY TrackInvHolds, <1>2, PTL

\* A goroutine that deadlocks in a recursive RLock behind a waiting writer has
\* logged it, unless each such writer called Lock after its check.
THEOREM DeadlockReportedHolds == AllSpec => []DeadlockReported
<1>1. TrackInv => Tracker!DeadlockReported
  BY DEF TrackInv, Reported, Tracker!DeadlockReported, Tracker!RWRDeadlock
<1>2. (part = "tracker" => TrackInv) => DeadlockReported
  BY <1>1 DEF DeadlockReported
<1> QED
  BY TrackInvHolds, <1>2, PTL
-----------------------------------------------------------------------------
(* oauthutil's tokens in a CacheFile.                                      *)

CellType == [tok : Nat, last : BOOLEAN]

ClientState ==
  [at : {"idle", "reader", "read", "ask", "create", "write", "close"}, data : Seq(CellType),
   size : Nat, new : Nat, err : BOOLEAN, ret : Seq(CellType)]

CacheType ==
  /\ fsys \in {"os", "gcs", "broken"}
  /\ file \in Seq(Seq(CellType)) /\ Len(file) <= 1
  /\ issued \in Nat
  /\ cl \in [Client -> ClientState]

\* What the place of a process in Token says of its variables.
TokenStep(c) ==
  /\ cl[c].at # "idle" => cl[c].ret = <<>>
  /\ cl[c].at \in {"create", "write", "close"} => cl[c].new \in 1..issued
  /\ cl[c].at = "reader" => fsys = "gcs" /\ file # <<>>
  /\ cl[c].at = "read" => fsys = "os" /\ file # <<>>
  /\ Cache!Writing(c) => fsys # "broken"
  /\ Cache!Writing(c) /\ fsys = "os" => file # <<>>

\* If there is a token in these cells, it was issued.
Genuine(s) == Cache!Unmarshals(s) => \E t \in 1..issued : s = Cache!Marshal(t)

\* An object is a token as it was marshalled. What is in a file is one, or
\* does not unmarshal, unless a write that met another was cut short.
OnDisk ==
  file # <<>> =>
    /\ fsys = "gcs" => \E t \in 1..issued : file[1] = Cache!Marshal(t)
    /\ fsys = "os" /\ ~torn => Genuine(file[1])

\* A process that met no write has the file to itself.
Alone(c) ==
  c \notin shared =>
    /\ Cache!Writing(c) \/ Cache!Reading(c) => \A d \in Client \ {c} : ~Cache!Writing(d)
    /\ fsys = "os" /\ cl[c].at = "write" => file[1] = <<>>
    /\ fsys = "os" /\ cl[c].at = "close" /\ ~cl[c].err => file[1] = Cache!Marshal(cl[c].new)
    /\ cl[c].at = "read" => /\ Len(cl[c].data) <= Len(file[1])
                            /\ cl[c].data = SubSeq(file[1], 1, Len(cl[c].data))

CacheInv == CacheType /\ (\A c \in Client : TokenStep(c) /\ Alone(c)) /\ OnDisk

\* What json.Marshal makes of a token: two or three cells, of which only the
\* last one closes the object.
LEMMA MarshalCells ==
  ASSUME NEW t \in Nat
  PROVE  /\ Cache!Marshal(t) \in Seq(CellType)
         /\ Len(Cache!Marshal(t)) \in {2, 3}
         /\ \A k \in 1..Len(Cache!Marshal(t)) :
              Cache!Marshal(t)[k].last <=> k = Len(Cache!Marshal(t))
<1> DEFINE n == Cache!Cells(t)
           inner == Cache!Cell(t, FALSE)
           body == [k \in 1..n |-> inner]
           end == Cache!Cell(t, TRUE)
           m == Append(body, end)
<1>1. n \in {1, 2}
  BY DEF Cache!Cells
<1>2. inner \in CellType /\ end \in CellType /\ ~inner.last /\ end.last
  BY DEF Cache!Cell, CellType
<1>3. Cache!Marshal(t) = m
  BY DEF Cache!Marshal
<1> HIDE DEF n, inner
<1>4. body \in [1..n -> CellType] /\ \A k \in 1..n : body[k] = inner
  BY <1>2
<1>5. body \in Seq(CellType) /\ Len(body) = n
  BY <1>1, <1>4, SeqDef
<1> HIDE DEF body, end
<1>6. /\ m \in Seq(CellType) /\ Len(m) = n + 1
      /\ \A k \in 1..n : m[k] = body[k]
      /\ m[n + 1] = end
  BY <1>1, <1>2, <1>5, AppendProperties
<1> HIDE DEF m
<1>7. ASSUME NEW k \in 1..(n + 1) PROVE m[k].last <=> k = n + 1
  <2>1. CASE k = n + 1
    BY <1>2, <1>6, <2>1
  <2>2. CASE k # n + 1
    <3>1. k \in 1..n
      BY <1>1, <2>2
    <3>2. m[k] = inner
      BY <1>4, <1>6, <3>1
    <3> QED
      BY <1>2, <2>2, <3>2
  <2> QED
    BY <2>1, <2>2
<1> QED
  BY <1>1, <1>3, <1>6, <1>7

\* No part of a token passes for a token.
LEMMA PartOfToken ==
  ASSUME NEW t \in Nat, NEW n \in 0..Len(Cache!Marshal(t)),
         Cache!Unmarshals(SubSeq(Cache!Marshal(t), 1, n))
  PROVE  SubSeq(Cache!Marshal(t), 1, n) = Cache!Marshal(t)
<1> DEFINE m == Cache!Marshal(t)
           s == SubSeq(m, 1, n)
<1>1. /\ m \in Seq(CellType) /\ Len(m) \in Nat /\ n \in 0..Len(m)
      /\ \A k \in 1..Len(m) : m[k].last <=> k = Len(m)
  BY MarshalCells
<1>2. s # <<>> /\ \A k \in DOMAIN s : s[k].last <=> k = Len(s)
  BY DEF Cache!Unmarshals
<1> HIDE DEF m
<1>3. \A k \in 1..n : k \in 1..Len(m) /\ m[k] \in CellType
  BY <1>1, ElementOfSeq
<1>4. /\ s \in Seq(CellType) /\ Len(s) = n
      /\ \A k \in 1..n : s[k] = m[k]
  <2>1. /\ s \in Seq(CellType) /\ Len(s) = IF 1 <= n THEN n - 1 + 1 ELSE 0
        /\ \A k \in 1..(n - 1 + 1) : s[k] = m[1 + k - 1]
    BY <1>3, SubSeqProperties
  <2> QED
    BY <1>1, <2>1
<1> HIDE DEF s
<1>5. n \in 1..Len(m) /\ n \in DOMAIN s
  BY <1>1, <1>2, <1>4, EmptySeq, LenProperties
<1>6. s[n].last
  BY <1>2, <1>4, <1>5
<1>7. m[n].last
  BY <1>4, <1>5, <1>6
<1>8. n = Len(m)
  BY <1>1, <1>5, <1>7
<1>9. s = m
  BY <1>1, <1>8, SubSeqFull DEF s
<1> QED
  BY <1>9 DEF s, m

\* A token that is written over other cells: what sticks out behind its end
\* does not let it unmarshal.
LEMMA OverwriteWhole ==
  ASSUME NEW t \in Nat, NEW f \in Seq(CellType)
  PROVE  LET o == Cache!Overwrite(f, Cache!Marshal(t))
         IN o \in Seq(CellType) /\ (Cache!Unmarshals(o) => o = Cache!Marshal(t))
<1> DEFINE m == Cache!Marshal(t)
           rest == SubSeq(f, Len(m) + 1, Len(f))
           o == m \o rest
<1>1. /\ m \in Seq(CellType) /\ Len(m) \in {2, 3}
      /\ \A k \in 1..Len(m) : m[k].last <=> k = Len(m)
  BY MarshalCells
<1> HIDE DEF m
<1>2. rest \in Seq(CellType) /\ Len(rest) \in Nat
  <2>1. \A k \in (Len(m) + 1)..Len(f) : f[k] \in CellType
    BY <1>1, ElementOfSeq, LenProperties
  <2> QED
    BY <1>1, <2>1, SubSeqProperties, LenProperties
<1> HIDE DEF rest
<1>3. /\ o \in Seq(CellType) /\ Len(o) = Len(m) + Len(rest)
      /\ \A k \in 1..Len(m) : o[k] = m[k]
  BY <1>1, <1>2, ConcatProperties
<1>4. ASSUME Cache!Unmarshals(o) PROVE o = m
  <2>1. \A k \in DOMAIN o : o[k].last <=> k = Len(o)
    BY <1>4 DEF Cache!Unmarshals
  <2>2. Len(m) \in DOMAIN o /\ Len(m) \in 1..Len(m)
    BY <1>1, <1>2, <1>3, LenProperties
  <2>3. o[Len(m)].last
    <3>1. m[Len(m)].last
      BY <1>1, <2>2
    <3> QED
      BY <1>3, <2>2, <3>1
  <2>4. Len(m) = Len(o)
    BY <2>1, <2>2, <2>3
  <2>5. rest = <<>>
    BY <1>1, <1>2, <1>3, <2>4, EmptySeq
  <2> QED
    BY <1>1, <2>5, ConcatEmptySeq
<1>5. Cache!Overwrite(f, m) = o
  BY DEF Cache!Overwrite, rest
<1> QED
  BY <1>3, <1>4, <1>5 DEF m

\* A write to an empty file.
LEMMA OverwriteEmpty ==
  ASSUME NEW p \in Seq(CellType)
  PROVE  Cache!Overwrite(<<>>, p) = p
<1>1. Len(p) + 1 \in Int /\ Len(<<>>) \in Int /\ Len(<<>>) < Len(p) + 1
  BY LenProperties
<1>2. SubSeq(<<>>, Len(p) + 1, Len(<<>>)) = <<>>
  BY <1>1, SubSeqEmpty
<1> QED
  BY <1>2, ConcatEmptySeq DEF Cache!Overwrite

\* The cells of the file, if there is one.
LEMMA FileCells ==
  ASSUME CacheType, file # <<>>
  PROVE  file[1] \in Seq(CellType) /\ Len(file[1]) \in Nat /\ file = <<file[1]>>
<1>1. file \in Seq(Seq(CellType)) /\ Len(file) = 1
  <2>1. file \in Seq(Seq(CellType)) /\ Len(file) <= 1
    BY DEF CacheType
  <2>2. Len(file) \in Nat \ {0}
    BY <2>1, EmptySeq
  <2>3. \A n \in Nat \ {0} : n <= 1 => n = 1
    OBVIOUS
  <2> QED
    BY <2>1, <2>2, <2>3, Zenon
<1>2. file[1] \in Seq(CellType) /\ <<file[1]>> \in Seq(Seq(CellType)) /\ Len(<<file[1]>>) = 1
  BY <1>1, ElementOfSeq
<1>3. file = <<file[1]>>
  BY <1>1, <1>2, SeqEqual
<1> QED
  BY <1>2, <1>3, LenProperties

\* What a step of process c, to the state x, says of the others.
Moved(c, x) ==
  /\ cl' \in [Client -> ClientState] /\ cl'[c] = x
  /\ \A d \in Client : d # c => /\ cl'[d] = cl[d]
                                /\ Cache!Writing(d)' = Cache!Writing(d)
                                /\ Cache!Reading(d)' = Cache!Reading(d)

\* Processes move one at a time.
LEMMA MovesOne ==
  ASSUME CacheType, NEW c \in Client, NEW x \in ClientState, cl' = [cl EXCEPT ![c] = x]
  PROVE  Moved(c, x)
  BY DEF CacheType, Moved, Cache!Writing, Cache!Reading

\* A step of a process c to a state in which it does not use the file, which
\* the step leaves alone.
Quiet(c, x) ==
  /\ x \in ClientState /\ cl' = [cl EXCEPT ![c] = x]
  /\ x.at \in {"idle", "ask", "create"}
  /\ x.at # "idle" => x.ret = <<>>
  /\ x.at = "create" => x.new \in 1..issued'
  /\ issued' \in Nat /\ issued <= issued'
  /\ UNCHANGED <<fsys, file, shared, torn>>

\* Such a step keeps the invariant.
LEMMA QuietStep ==
  ASSUME CacheInv, NEW c \in Client, NEW x, Quiet(c, x)
  PROVE  CacheInv'
<1> USE DEF CacheInv, Quiet
<1>1. /\ Moved(c, x) /\ issued \in Nat
      /\ ~Cache!Writing(c)' /\ ~Cache!Reading(c)'
  BY MovesOne DEF CacheType, Moved, Cache!Writing, Cache!Reading
<1>2. CacheType'
  BY <1>1 DEF CacheType, Moved
<1>3. ASSUME NEW d \in Client PROVE TokenStep(d)'
  <2>1. CASE d = c
    BY <1>1, <2>1 DEF TokenStep, Moved
  <2>2. CASE d # c
    <3>1. cl[d].new \in 1..issued => cl[d].new \in 1..issued'
      BY <1>1
    <3> QED
      BY <1>1, <2>2, <3>1 DEF TokenStep, Moved
  <2> QED
    BY <2>1, <2>2
<1>4. OnDisk'
  <2>1. 1..issued \subseteq 1..issued'
    BY <1>1
  <2> QED
    BY <2>1 DEF OnDisk, Genuine, Cache!Unmarshals, Cache!Marshal, Cache!Cells, Cache!Cell
<1>5. ASSUME NEW d \in Client PROVE Alone(d)'
  <2>1. CASE d = c
    BY <1>1, <2>1 DEF Alone, Moved
  <2>2. CASE d # c
    BY <1>1, <2>2 DEF Alone, Moved, Cache!Marshal, Cache!Cells, Cache!Cell
  <2> QED
    BY <2>1, <2>2
<1> QED
  BY <1>2, <1>3, <1>4, <1>5

\* The states that Return and a failed read leave.
LEMMA QuietStates ==
  ASSUME CacheType, NEW c \in Client
  PROVE  /\ \A s \in Seq(CellType) : /\ Cache!Idle(s) \in ClientState
                                     /\ Cache!Idle(s).at = "idle" /\ Cache!Idle(s).ret = s
         /\ [cl[c] EXCEPT !.at = "ask", !.data = <<>>] \in ClientState
         /\ [Cache!Idle(<<>>) EXCEPT !.at = "ask"] \in ClientState
         /\ <<>> \in Seq(CellType)
<1>1. <<>> \in Seq(CellType) /\ cl[c] \in ClientState
  BY EmptySeq DEF CacheType
<1> QED
  BY <1>1 DEF Cache!Idle, ClientState, Cache!NoToken

\* The end of cachedToken.
LEMMA CachedTokenInv ==
  ASSUME CacheInv, NEW c \in Client, cl[c].at # "idle", NEW s \in Seq(CellType),
         Cache!CachedToken(c, s), UNCHANGED <<fsys, file, issued, shared, torn>>
  PROVE  CacheInv'
<1>1. issued \in Nat /\ cl[c] \in ClientState /\ cl[c].ret = <<>>
  BY DEF CacheInv, CacheType, TokenStep
<1>2. CASE cl' = [cl EXCEPT ![c] = Cache!Idle(s)]
  <2>1. PICK x : x = Cache!Idle(s)
    OBVIOUS
  <2>2. x \in ClientState /\ x.at = "idle"
    BY <2>1, QuietStates DEF CacheInv
  <2>9. Quiet(c, x)
    BY <1>1, <1>2, <2>1, <2>2 DEF Quiet
  <2> QED
    BY <2>9, QuietStep
<1>3. CASE cl' = [cl EXCEPT ![c] = [cl[c] EXCEPT !.at = "ask", !.data = <<>>]]
  <2>0. PICK x : x = [cl[c] EXCEPT !.at = "ask", !.data = <<>>]
    OBVIOUS
  <2>1. x \in ClientState /\ x.at = "ask" /\ x.ret = <<>>
    BY <1>1, <2>0, QuietStates DEF CacheInv, ClientState
  <2>9. Quiet(c, x)
    BY <1>1, <1>3, <2>0, <2>1 DEF Quiet
  <2> QED
    BY <2>9, QuietStep
<1> QED
  BY <1>2, <1>3 DEF Cache!CachedToken, Cache!Return

\* Token fails, or the process dies, or a read does.
LEMMA GiveUpInv ==
  ASSUME CacheInv, NEW c \in Client,
         Cache!ReadFails(c) \/ Cache!ExchangeFails(c) \/ Cache!CreateFails(c) \/ Cache!Die(c)
  PROVE  CacheInv'
<1>1. issued \in Nat /\ cl[c] \in ClientState
  BY DEF CacheInv, CacheType
<1>2. CASE Cache!ReadFails(c)
  <2>0. PICK x : x = [cl[c] EXCEPT !.at = "ask", !.data = <<>>]
    OBVIOUS
  <2>1. x \in ClientState /\ x.at = "ask" /\ x.ret = <<>>
    BY <1>1, <1>2, <2>0, QuietStates DEF CacheInv, ClientState, TokenStep, Cache!ReadFails, Cache!Reading
  <2>2. cl' = [cl EXCEPT ![c] = x] /\ UNCHANGED <<fsys, file, issued, shared, torn>>
    BY <1>2, <2>0 DEF Cache!ReadFails, Cache!histVars
  <2>9. Quiet(c, x)
    BY <1>1, <2>1, <2>2 DEF Quiet
  <2> QED
    BY <2>9, QuietStep
<1>3. CASE Cache!ExchangeFails(c) \/ Cache!CreateFails(c) \/ Cache!Die(c)
  <2>1. cl' = [cl EXCEPT ![c] = Cache!Idle(<<>>)] /\ UNCHANGED <<fsys, file, issued, shared, torn>>
    BY <1>3 DEF Cache!ExchangeFails, Cache!CreateFails, Cache!Die, Cache!Return, Cache!histVars
  <2>2. PICK x : x = Cache!Idle(<<>>)
    OBVIOUS
  <2>3. x \in ClientState /\ x.at = "idle"
    BY <2>2, QuietStates DEF CacheInv
  <2>9. Quiet(c, x)
    BY <1>1, <2>1, <2>2, <2>3 DEF Quiet
  <2> QED
    BY <2>9, QuietStep
<1> QED
  BY <1>2, <1>3

\* A new token.
LEMMA ExchangeInv ==
  ASSUME CacheInv, NEW c \in Client, Cache!Exchange(c)
  PROVE  CacheInv'
<1>0. PICK x : x = [cl[c] EXCEPT !.at = "create", !.new = issued + 1]
  OBVIOUS
<1>1. issued \in Nat /\ cl[c] \in ClientState /\ cl[c].ret = <<>>
  BY DEF CacheInv, CacheType, TokenStep, Cache!Exchange
<1>2. x \in ClientState /\ x.at = "create" /\ x.new = issued + 1 /\ x.ret = <<>>
  <2>1. issued + 1 \in Nat
    BY <1>1
  <2> QED
    BY <1>0, <1>1, <2>1 DEF ClientState
<1>3. cl' = [cl EXCEPT ![c] = x] /\ issued' = issued + 1 /\ UNCHANGED <<fsys, file, shared, torn>>
  BY <1>0 DEF Cache!Exchange, Cache!histVars
<1>4. Quiet(c, x)
  BY <1>1, <1>2, <1>3 DEF Quiet
<1> QED
  BY <1>4, QuietStep

\* Token is called: a process that opens the file while nobody writes it is
\* alone with it.
LEMMA OpenInv ==
  ASSUME CacheInv, NEW c \in Client, Cache!Open(c)
  PROVE  CacheInv'
<1>1. cl[c].at = "idle" /\ UNCHANGED <<fsys, file, issued, torn>> /\ issued \in Nat
  BY DEF CacheInv, CacheType, Cache!Open
<1>2. CASE /\ cl' = [cl EXCEPT ![c] = [Cache!Idle(<<>>) EXCEPT !.at = "ask"]]
           /\ UNCHANGED shared
  <2>1. PICK x : x = [Cache!Idle(<<>>) EXCEPT !.at = "ask"]
    OBVIOUS
  <2>2. x \in ClientState /\ x.at = "ask" /\ x.ret = <<>>
    BY <2>1, QuietStates DEF CacheInv, Cache!Idle
  <2>3. Quiet(c, x)
    BY <1>1, <1>2, <2>1, <2>2 DEF Quiet
  <2> QED
    BY <2>3, QuietStep
<1>3. CASE /\ fsys # "broken" /\ file # <<>>
           /\ cl' = [cl EXCEPT ![c] = [Cache!Idle(<<>>) EXCEPT
                !.at = IF fsys = "gcs" THEN "reader" ELSE "read", !.size = Len(file[1])]]
           /\ Cache!Begins(c)
  <2>1. PICK x : x = [Cache!Idle(<<>>) EXCEPT
                        !.at = IF fsys = "gcs" THEN "reader" ELSE "read", !.size = Len(file[1])]
    OBVIOUS
  <2>2. Len(file[1]) \in Nat /\ file[1] \in Seq(CellType) /\ <<>> \in Seq(CellType)
    BY <1>3, FileCells, EmptySeq DEF CacheInv
  <2>3. /\ x \in ClientState /\ x.ret = <<>> /\ x.data = <<>>
        /\ (fsys = "gcs" /\ x.at = "reader") \/ (fsys # "gcs" /\ x.at = "read")
    BY <2>1, <2>2 DEF Cache!Idle, ClientState, Cache!NoToken
  <2>4. Moved(c, x) /\ ~Cache!Writing(c) /\ ~Cache!Writing(c)'
    <3>1. cl' = [cl EXCEPT ![c] = x]
      BY <1>3, <2>1
    <3>2. Moved(c, x)
      BY <2>3, <3>1, MovesOne DEF CacheInv
    <3> QED
      BY <1>1, <2>3, <3>2 DEF Moved, Cache!Writing
  <2>5. CacheType'
    BY <1>1, <2>4 DEF CacheInv, CacheType, Moved
  <2>6. ASSUME NEW d \in Client PROVE TokenStep(d)'
    <3>1. CASE d = c
      <4>1. fsys \in {"os", "gcs"} /\ cl'[c] = x
        BY <1>3, <2>4 DEF CacheInv, CacheType, Moved
      <4> QED
        BY <1>1, <1>3, <2>3, <2>4, <3>1, <4>1 DEF TokenStep
    <3>2. CASE d # c
      BY <1>1, <2>4, <3>2 DEF CacheInv, TokenStep, Moved
    <3> QED
      BY <3>1, <3>2
  <2>7. OnDisk'
    BY <1>1 DEF CacheInv, OnDisk, Genuine, Cache!Unmarshals, Cache!Marshal, Cache!Cells, Cache!Cell
  <2>8. ASSUME NEW d \in Client PROVE Alone(d)'
    <3>1. CASE d = c
      <4>1. c \notin shared' => \A e \in Client \ {c} : ~Cache!Writing(e)'
        BY <1>3, <2>4 DEF Cache!Begins, Moved
      <4>2. Len(x.data) = 0 /\ x.data = SubSeq(file[1], 1, Len(x.data))
        BY <2>2, <2>3, EmptySeq, SubSeqEmpty
      <4>3. cl'[c] = x /\ x.at # "write" /\ x.at # "close" /\ file' = file /\ 0 <= Len(file[1])
        BY <1>1, <2>2, <2>3, <2>4 DEF Moved
      <4> QED
        BY <3>1, <4>1, <4>2, <4>3 DEF Alone
    <3>2. CASE d # c
      <4>1. d \notin shared' => d \notin shared
        BY <1>3, <3>2 DEF Cache!Begins
      <4>2. \A e \in Client : Cache!Writing(e)' => Cache!Writing(e)
        BY <2>4 DEF Moved
      <4> QED
        BY <1>1, <2>4, <3>2, <4>1, <4>2
           DEF CacheInv, Alone, Moved, Cache!Marshal, Cache!Cells, Cache!Cell
    <3> QED
      BY <3>1, <3>2
  <2> QED
    BY <2>5, <2>6, <2>7, <2>8 DEF CacheInv
<1> QED
  BY <1>2, <1>3 DEF Cache!Open

\* What gcsFS.Open reads is a part of the object as it is now.
LEMMA GcsReads ==
  ASSUME CacheInv, NEW c \in Client, cl[c].at = "reader"
  PROVE  /\ file # <<>> /\ fsys = "gcs"
         /\ Cache!Min({cl[c].size, Len(file[1])}) \in 0..Len(file[1])
         /\ SubSeq(file[1], 1, Cache!Min({cl[c].size, Len(file[1])})) \in Seq(CellType)
<1>1. file # <<>> /\ fsys = "gcs"
  BY DEF CacheInv, TokenStep
<1>2. /\ file[1] \in Seq(CellType) /\ Len(file[1]) \in Nat /\ cl[c].size \in Nat
  BY <1>1, FileCells DEF CacheInv, CacheType, ClientState
<1>3. Cache!Min({cl[c].size, Len(file[1])}) \in 0..Len(file[1])
  <2>1. \A a, b \in Nat : Cache!Min({a, b}) = IF a <= b THEN a ELSE b
    BY DEF Cache!Min
  <2> QED
    BY <1>2, <2>1
<1>4. PICK n \in 0..Len(file[1]) : n = Cache!Min({cl[c].size, Len(file[1])})
  BY <1>3
<1>5. \A k \in 1..n : file[1][k] \in CellType
  BY <1>2, <1>4, ElementOfSeq
<1>6. SubSeq(file[1], 1, n) \in Seq(CellType)
  BY <1>2, <1>5, SubSeqProperties
<1> QED
  BY <1>1, <1>4, <1>6

\* A read of an object, in one piece.
LEMMA GcsReadInv ==
  ASSUME CacheInv, NEW c \in Client, Cache!GcsRead(c)
  PROVE  CacheInv'
<1>1. PICK s : s = SubSeq(file[1], 1, Cache!Min({cl[c].size, Len(file[1])}))
  OBVIOUS
<1>2. /\ cl[c].at = "reader" /\ Cache!CachedToken(c, s)
      /\ UNCHANGED <<fsys, file, issued, shared, torn>>
  BY <1>1 DEF Cache!GcsRead, Cache!histVars
<1>3. s \in Seq(CellType)
  BY <1>1, <1>2, GcsReads
<1> QED
  BY <1>2, <1>3, CachedTokenInv

\* A read of a file, in pieces: without a write in between they fit.
LEMMA OsReadInv ==
  ASSUME CacheInv, NEW c \in Client, Cache!OsRead(c)
  PROVE  CacheInv'
<1>1. /\ cl[c].at = "read" /\ file # <<>> /\ fsys = "os"
      /\ UNCHANGED <<fsys, file, issued, shared, torn>>
      /\ issued \in Nat /\ cl[c] \in ClientState /\ cl[c].data \in Seq(CellType)
  BY DEF CacheInv, CacheType, ClientState, TokenStep, Cache!OsRead, Cache!histVars
<1>2. /\ file[1] \in Seq(CellType) /\ Len(file[1]) \in Nat /\ Len(cl[c].data) \in Nat
      /\ file' = file
  BY <1>1, FileCells, LenProperties DEF CacheInv
<1>3. CASE Cache!CachedToken(c, cl[c].data)
  <2>1. PICK s : s = cl[c].data
    OBVIOUS
  <2> QED
    BY <1>1, <1>3, <2>1, CachedTokenInv
<1>4. CASE /\ Len(cl[c].data) < Len(file[1])
           /\ \E to \in (Len(cl[c].data) + 1)..Len(file[1]) :
                cl' = [cl EXCEPT ![c].data = @ \o SubSeq(file[1], Len(cl[c].data) + 1, to)]
  <2>1. PICK to \in (Len(cl[c].data) + 1)..Len(file[1]) :
          cl' = [cl EXCEPT ![c].data = @ \o SubSeq(file[1], Len(cl[c].data) + 1, to)]
    BY <1>4
  <2>2. PICK s : s = cl[c].data \o SubSeq(file[1], Len(cl[c].data) + 1, to)
    OBVIOUS
  <2>3. PICK x : x = [cl[c] EXCEPT !.data = s]
    OBVIOUS
  <2>4. s \in Seq(CellType)
    <3>1. \A k \in (Len(cl[c].data) + 1)..to : file[1][k] \in CellType
      BY <1>2, <2>1, ElementOfSeq
    <3>2. SubSeq(file[1], Len(cl[c].data) + 1, to) \in Seq(CellType)
      BY <1>2, <2>1, <3>1, SubSeqProperties
    <3> QED
      BY <1>1, <2>2, <3>2, ConcatProperties
  <2>5. x \in ClientState /\ x.at = "read" /\ x.ret = cl[c].ret /\ x.data = s
    BY <1>1, <2>3, <2>4 DEF ClientState
  <2>6. Moved(c, x) /\ ~Cache!Writing(c) /\ ~Cache!Writing(c)'
    <3>1. cl' = [cl EXCEPT ![c] = x]
      BY <2>1, <2>2, <2>3
    <3> QED
      BY <1>1, <2>5, <3>1, MovesOne DEF CacheInv, Moved, Cache!Writing
  <2>7. CacheType'
    BY <1>1, <2>6 DEF CacheInv, CacheType, Moved
  <2>8. ASSUME NEW d \in Client PROVE TokenStep(d)'
    BY <1>1, <2>5, <2>6 DEF CacheInv, TokenStep, Moved
  <2>9. OnDisk'
    BY <1>1 DEF CacheInv, OnDisk, Genuine, Cache!Unmarshals, Cache!Marshal, Cache!Cells, Cache!Cell
  <2>10. ASSUME NEW d \in Client PROVE Alone(d)'
    <3>1. CASE d = c
      <4>1. ASSUME c \notin shared
            PROVE  Len(s) = to /\ s = SubSeq(file[1], 1, Len(s))
        <5>1. cl[c].data = SubSeq(file[1], 1, Len(cl[c].data))
          BY <1>1, <4>1 DEF CacheInv, Alone
        <5>2. s = SubSeq(file[1], 1, to)
          BY <1>2, <2>1, <2>2, <5>1, ConcatAdjacentSubSeq
        <5>3. \A k \in 1..to : file[1][k] \in CellType
          BY <1>2, <2>1, ElementOfSeq
        <5>4. Len(s) = to
          BY <1>2, <2>1, <5>2, <5>3, SubSeqProperties
        <5> QED
          BY <5>2, <5>4
      <4>2. c \notin shared => \A e \in Client \ {c} : ~Cache!Writing(e)'
        BY <1>1, <2>6 DEF CacheInv, Alone, Moved, Cache!Reading
      <4>3. /\ cl'[c] = x /\ x.at # "write" /\ x.at # "close" /\ x.data = s /\ to <= Len(file[1])
            /\ file' = file /\ shared' = shared
        BY <1>1, <1>2, <2>1, <2>5, <2>6 DEF Moved
      <4> QED
        BY <3>1, <4>1, <4>2, <4>3 DEF Alone
    <3>2. CASE d # c
      <4>1. \A e \in Client : Cache!Writing(e)' => Cache!Writing(e)
        BY <2>6 DEF Moved
      <4> QED
        BY <1>1, <2>6, <3>2, <4>1, ZenonT(60)
           DEF CacheInv, Alone, Moved, Cache!Marshal, Cache!Cells, Cache!Cell
    <3> QED
      BY <3>1, <3>2
  <2> QED
    BY <2>7, <2>8, <2>9, <2>10 DEF CacheInv
<1>5. Len(cl[c].data) >= Len(file[1]) \/ Len(cl[c].data) < Len(file[1])
  BY <1>2
<1> QED
  BY <1>2, <1>3, <1>4, <1>5 DEF Cache!OsRead

\* WriteFile opens the file: whoever uses it has met a write.
LEMMA CreateInv ==
  ASSUME CacheInv, NEW c \in Client, Cache!Create(c)
  PROVE  CacheInv'
<1>1. PICK x : x = [cl[c] EXCEPT !.at = "write"]
  OBVIOUS
<1>2. /\ cl[c].at = "create" /\ fsys \in {"os", "gcs"} /\ cl[c] \in ClientState
      /\ cl[c].ret = <<>> /\ cl[c].new \in 1..issued
      /\ cl' = [cl EXCEPT ![c] = x] /\ Cache!BeginsToWrite(c) /\ UNCHANGED <<fsys, issued>>
  BY <1>1 DEF CacheInv, CacheType, TokenStep, Cache!Create
<1>3. /\ x \in ClientState /\ x.at = "write" /\ x.ret = <<>> /\ x.new \in 1..issued
  BY <1>1, <1>2 DEF ClientState
<1>4. Moved(c, x) /\ ~Cache!Writing(c) /\ ~Cache!Reading(c) /\ Cache!Writing(c)'
  <2>1. Moved(c, x)
    BY <1>2, <1>3, MovesOne DEF CacheInv
  <2> QED
    BY <1>2, <1>3, <2>1 DEF Moved, Cache!Writing, Cache!Reading
<1>5. /\ fsys = "os" => file' = <<<<>>>> /\ torn' = FALSE
      /\ fsys = "gcs" => UNCHANGED <<file, torn>>
  BY DEF Cache!Create
<1>6. CacheType'
  <2>1. <<<<>>>> \in Seq(Seq(CellType)) /\ Len(<<<<>>>>) = 1
    BY EmptySeq
  <2>2. (file \in Seq(Seq(CellType)) /\ Len(file) <= 1)'
    <3>1. CASE fsys = "os"
      <4>1. file' = <<<<>>>>
        BY <1>5, <3>1
      <4>2. file' \in Seq(Seq(CellType)) /\ Len(file') = 1
        BY <2>1, <4>1, Zenon
      <4> QED
        BY <4>2
    <3>2. CASE fsys = "gcs"
      BY <1>5, <3>2 DEF CacheInv, CacheType
    <3> QED
      BY <1>2, <3>1, <3>2
  <2> QED
    BY <1>2, <1>4, <2>2 DEF CacheInv, CacheType, Moved
<1>7. fsys = "os" => file' # <<>> /\ file'[1] = <<>>
  BY <1>5
<1>8. ASSUME NEW d \in Client PROVE TokenStep(d)'
  <2>1. CASE d = c
    BY <1>2, <1>3, <1>4, <1>7, <2>1 DEF TokenStep, Moved
  <2>2. CASE d # c
    BY <1>2, <1>4, <1>5, <1>7, <2>2 DEF CacheInv, TokenStep, Moved
  <2> QED
    BY <2>1, <2>2
<1>9. OnDisk'
  <2>1. CASE fsys = "os"
    BY <1>2, <1>7, <2>1 DEF OnDisk, Genuine, Cache!Unmarshals
  <2>2. CASE fsys = "gcs"
    BY <1>2, <1>5, <2>2 DEF CacheInv, OnDisk, Cache!Marshal, Cache!Cells, Cache!Cell
  <2> QED
    BY <1>2, <2>1, <2>2
<1>10. ASSUME NEW d \in Client PROVE Alone(d)'
  <2>1. CASE d = c
    <3>1. c \notin shared' => \A e \in Client \ {c} : ~Cache!Writing(e)'
      BY <1>2, <1>4 DEF Cache!BeginsToWrite, Moved
    <3>2. cl'[c] = x /\ x.at = "write" /\ fsys' = fsys
      BY <1>2, <1>3, <1>4 DEF Moved
    <3> QED
      BY <1>7, <2>1, <3>1, <3>2 DEF Alone
  <2>2. CASE d # c
    <3>1. d \notin shared' => ~Cache!Writing(d) /\ ~Cache!Reading(d)
      BY <1>2, <2>2 DEF Cache!BeginsToWrite
    <3>2. d \notin shared' => ~Cache!Writing(d)' /\ ~Cache!Reading(d)'
      BY <1>4, <2>2, <3>1 DEF Moved
    <3> QED
      BY <3>2 DEF Alone, Cache!Writing, Cache!Reading
  <2> QED
    BY <2>1, <2>2
<1> QED
  BY <1>6, <1>8, <1>9, <1>10 DEF CacheInv

\* WriteFile writes, the whole token or a part: into an empty file, unless it
\* met another write.
LEMMA WriteInv ==
  ASSUME CacheInv, NEW c \in Client, Cache!Write(c)
  PROVE  CacheInv'
<1>1. /\ cl[c].at = "write" /\ cl[c].new \in 1..issued /\ cl[c] \in ClientState
      /\ cl[c].ret = <<>> /\ fsys \in {"os", "gcs"} /\ issued \in Nat
      /\ fsys = "os" => file # <<>>
      /\ UNCHANGED <<fsys, issued, shared>>
  BY DEF CacheInv, CacheType, TokenStep, Cache!Write, Cache!Writing
<1>2. PICK t \in 1..issued : t = cl[c].new
  BY <1>1
<1>3. PICK all : all = Cache!Marshal(t)
  OBVIOUS
<1>4. t \in Nat /\ all \in Seq(CellType) /\ Len(all) \in {2, 3}
  BY <1>1, <1>2, <1>3, MarshalCells
<1>5. PICK n \in 0..Len(all) :
        /\ cl' = [cl EXCEPT ![c].at = "close", ![c].err = n < Len(all)]
        /\ IF fsys = "os" THEN file' = <<Cache!Overwrite(file[1], SubSeq(all, 1, n))>>
           ELSE UNCHANGED file
        /\ torn' = (torn \/ (fsys = "os" /\ n < Len(all) /\ c \in shared))
  BY <1>2, <1>3 DEF Cache!Write
<1>6. PICK x : x = [cl[c] EXCEPT !.at = "close", !.err = n < Len(all)]
  OBVIOUS
<1>7. /\ x \in ClientState /\ x.at = "close" /\ x.ret = <<>> /\ x.new = t
      /\ ~x.err => n = Len(all)
  <2>1. (n < Len(all)) \in BOOLEAN
    OBVIOUS
  <2>2. /\ x \in ClientState /\ x.at = "close" /\ x.ret = <<>> /\ x.new = t
        /\ x.err = (n < Len(all))
    BY <1>1, <1>2, <1>6, <2>1 DEF ClientState
  <2>3. ~x.err => ~(n < Len(all))
    BY <2>2, Zenon
  <2>4. ~(n < Len(all)) => n = Len(all)
    BY <1>4, <1>5
  <2> QED
    BY <2>2, <2>3, <2>4, Zenon
<1>8. Moved(c, x) /\ Cache!Writing(c) /\ Cache!Writing(c)'
  <2>1. cl' = [cl EXCEPT ![c] = x]
    BY <1>5, <1>6
  <2>2. Moved(c, x)
    BY <1>7, <2>1, MovesOne DEF CacheInv
  <2> QED
    BY <1>1, <1>7, <2>2 DEF Moved, Cache!Writing
<1>9. SubSeq(all, 1, n) \in Seq(CellType) /\ (n = Len(all) => SubSeq(all, 1, n) = all)
  <2>1. \A k \in 1..n : all[k] \in CellType
    BY <1>4, <1>5, ElementOfSeq
  <2> QED
    BY <1>4, <1>5, <2>1, SubSeqProperties, SubSeqFull
<1>10. ASSUME fsys = "os"
       PROVE  /\ file' # <<>> /\ file' \in Seq(Seq(CellType)) /\ Len(file') = 1
              /\ file'[1] = Cache!Overwrite(file[1], SubSeq(all, 1, n))
  <2>1. file' = <<Cache!Overwrite(file[1], SubSeq(all, 1, n))>>
    BY <1>5, <1>10
  <2>2. Cache!Overwrite(file[1], SubSeq(all, 1, n)) \in Seq(CellType)
    <3>1. file[1] \in Seq(CellType) /\ Len(file[1]) \in Nat
      BY <1>1, <1>10, FileCells DEF CacheInv
    <3>2. PICK p \in Seq(CellType) : p = SubSeq(all, 1, n)
      BY <1>9
    <3>3. Len(p) \in Nat /\ \A k \in (Len(p) + 1)..Len(file[1]) : file[1][k] \in CellType
      BY <3>1, ElementOfSeq, LenProperties
    <3>4. SubSeq(file[1], Len(p) + 1, Len(file[1])) \in Seq(CellType)
      BY <3>1, <3>3, SubSeqProperties
    <3> QED
      BY <3>2, <3>4, ConcatProperties DEF Cache!Overwrite
  <2> QED
    BY <2>1, <2>2
<1>11. CacheType'
  <2>1. (file \in Seq(Seq(CellType)) /\ Len(file) <= 1)'
    BY <1>1, <1>5, <1>10 DEF CacheInv, CacheType
  <2> QED
    BY <1>1, <1>8, <2>1 DEF CacheInv, CacheType, Moved
<1>12. ASSUME NEW d \in Client PROVE TokenStep(d)'
  <2>1. CASE d = c
    BY <1>1, <1>2, <1>7, <1>8, <1>10, <2>1 DEF TokenStep, Moved
  <2>2. CASE d # c
    BY <1>1, <1>5, <1>8, <1>10, <2>2 DEF CacheInv, TokenStep, Moved
  <2> QED
    BY <2>1, <2>2
\* What is in the file, if the write was whole or met no other.
<1>13. ASSUME fsys = "os", n = Len(all) \/ c \notin shared
       PROVE  /\ Cache!Unmarshals(file'[1]) => file'[1] = all
              /\ n = Len(all) /\ c \notin shared => file'[1] = all
  <2>1. CASE c \notin shared
    <3>1. file[1] = <<>>
      BY <1>1, <1>13, <2>1 DEF CacheInv, Alone
    <3>2. file'[1] = SubSeq(all, 1, n)
      BY <1>9, <1>10, <1>13, <3>1, OverwriteEmpty
    <3> QED
      BY <1>3, <1>4, <1>5, <1>9, <3>2, PartOfToken
  <2>2. CASE c \in shared
    <3>1. n = Len(all) /\ file[1] \in Seq(CellType)
      BY <1>1, <1>13, <2>2, FileCells DEF CacheInv
    <3>2. file'[1] = Cache!Overwrite(file[1], Cache!Marshal(t))
      BY <1>3, <1>9, <1>10, <1>13, <3>1
    <3> QED
      BY <1>3, <1>4, <2>2, <3>1, <3>2, OverwriteWhole
  <2> QED
    BY <2>1, <2>2
<1>14. OnDisk'
  <2>1. CASE fsys = "os"
    <3>1. ASSUME ~torn' PROVE n = Len(all) \/ c \notin shared
      <4>1. ~(fsys = "os" /\ n < Len(all) /\ c \in shared)
        BY <1>5, <3>1, Zenon
      <4>2. ~(n < Len(all)) => n = Len(all)
        BY <1>4, <1>5
      <4> QED
        BY <2>1, <4>1, <4>2, Zenon
    <3>2. ~torn' => (Cache!Unmarshals(file'[1]) => file'[1] = Cache!Marshal(t))
      BY <1>3, <1>13, <2>1, <3>1
    <3>3. ~torn' => Genuine(file[1])'
      BY <1>1, <1>2, <3>2 DEF Genuine, Cache!Unmarshals, Cache!Marshal, Cache!Cells, Cache!Cell
    <3> QED
      BY <1>1, <2>1, <3>3 DEF OnDisk
  <2>2. CASE fsys = "gcs"
    BY <1>1, <1>5, <2>2 DEF CacheInv, OnDisk, Cache!Marshal, Cache!Cells, Cache!Cell
  <2> QED
    BY <1>1, <2>1, <2>2
<1>15. ASSUME NEW d \in Client PROVE Alone(d)'
  <2>1. CASE d = c
    <3>1. c \notin shared => \A e \in Client \ {c} : ~Cache!Writing(e)'
      BY <1>1, <1>8 DEF CacheInv, Alone, Moved
    <3>2. cl'[c] = x /\ x.at = "close" /\ fsys' = fsys /\ shared' = shared
      BY <1>1, <1>7, <1>8 DEF Moved
    <3>3. fsys = "os" /\ ~x.err /\ c \notin shared => file'[1] = Cache!Marshal(x.new)
      BY <1>3, <1>7, <1>13
    <3> QED
      BY <2>1, <3>1, <3>2, <3>3 DEF Alone, Cache!Marshal, Cache!Cells, Cache!Cell
  <2>2. CASE d # c
    <3>1. d \notin shared => ~Cache!Writing(d) /\ ~Cache!Reading(d)
      BY <1>8, <2>2 DEF CacheInv, Alone
    <3>2. d \notin shared' => ~Cache!Writing(d)' /\ ~Cache!Reading(d)'
      BY <1>1, <1>8, <2>2, <3>1 DEF Moved
    <3> QED
      BY <3>2 DEF Alone, Cache!Writing, Cache!Reading
  <2> QED
    BY <2>1, <2>2
<1> QED
  BY <1>11, <1>12, <1>14, <1>15 DEF CacheInv

\* WriteFile closes the file; an object is replaced now.
LEMMA CloseInv ==
  ASSUME CacheInv, NEW c \in Client, Cache!Close(c)
  PROVE  CacheInv'
<1>1. /\ cl[c].at = "close" /\ cl[c].new \in 1..issued /\ fsys \in {"os", "gcs"} /\ issued \in Nat
      /\ UNCHANGED <<fsys, issued, shared, torn>> /\ Cache!Writing(c)
  BY DEF CacheInv, CacheType, TokenStep, Cache!Close, Cache!Writing, Cache!histVars
<1>2. PICK t \in 1..issued : t = cl[c].new
  BY <1>1
<1>3. PICK all : all = Cache!Marshal(t)
  OBVIOUS
<1>4. t \in Nat /\ all \in Seq(CellType) /\ <<>> \in Seq(CellType)
  BY <1>1, <1>2, <1>3, MarshalCells, EmptySeq
<1>5. PICK s \in Seq(CellType) :
        /\ cl' = [cl EXCEPT ![c] = Cache!Idle(s)]
        /\ file' = file \/ (fsys = "gcs" /\ file' = <<all>>)
  <2>1. \/ Cache!Return(c, all) /\ (file' = file \/ (fsys = "gcs" /\ file' = <<all>>))
        \/ Cache!Return(c, <<>>) /\ file' = file
    BY <1>2, <1>3 DEF Cache!Close
  <2> QED
    BY <1>4, <2>1 DEF Cache!Return
<1>6. PICK x : x = Cache!Idle(s)
  OBVIOUS
<1>7. x \in ClientState /\ x.at = "idle" /\ cl' = [cl EXCEPT ![c] = x]
  BY <1>5, <1>6, QuietStates DEF CacheInv
<1>8. CASE file' = file
  <2>1. Quiet(c, x)
    BY <1>1, <1>7, <1>8 DEF Quiet
  <2> QED
    BY <2>1, QuietStep
<1>9. CASE fsys = "gcs" /\ file' = <<all>>
  <2>1. Moved(c, x)
    BY <1>7, MovesOne DEF CacheInv
  <2>2. ~Cache!Writing(c)' /\ ~Cache!Reading(c)' /\ cl'[c] = x
    BY <1>7, <2>1 DEF Moved, Cache!Writing, Cache!Reading
  <2>3. file' \in Seq(Seq(CellType)) /\ Len(file') = 1 /\ file' # <<>> /\ file'[1] = all
    BY <1>4, <1>9
  <2>4. CacheType'
    BY <1>1, <2>1, <2>3 DEF CacheInv, CacheType, Moved
  <2>5. ASSUME NEW d \in Client PROVE TokenStep(d)'
    <3>1. CASE d = c
      BY <1>7, <2>2, <3>1 DEF TokenStep
    <3>2. CASE d # c
      BY <1>1, <1>9, <2>1, <2>3, <3>2 DEF CacheInv, TokenStep, Moved
    <3> QED
      BY <3>1, <3>2
  <2>6. OnDisk'
    <3>1. file'[1] = Cache!Marshal(t) /\ t \in 1..issued
      BY <1>3, <2>3
    <3> QED
      BY <1>1, <1>9, <3>1 DEF OnDisk, Cache!Marshal, Cache!Cells, Cache!Cell
  <2>7. ASSUME NEW d \in Client PROVE Alone(d)'
    <3>1. CASE d = c
      BY <1>7, <2>2, <3>1 DEF Alone
    <3>2. CASE d # c
      <4>1. cl'[d] = cl[d] /\ cl[d].at # "read" /\ fsys' # "os" /\ shared' = shared
        BY <1>1, <1>9, <2>1, <3>2 DEF CacheInv, TokenStep, Moved
      <4>2. \A e \in Client : Cache!Writing(e)' => Cache!Writing(e)
        BY <2>1, <2>2 DEF Moved
      <4>3. (Cache!Writing(d) \/ Cache!Reading(d))' => Cache!Writing(d) \/ Cache!Reading(d)
        BY <2>1, <3>2 DEF Moved
      <4> QED
        BY <4>1, <4>2, <4>3 DEF CacheInv, Alone
    <3> QED
      BY <3>1, <3>2
  <2> QED
    BY <2>4, <2>5, <2>6, <2>7 DEF CacheInv
<1> QED
  BY <1>5, <1>8, <1>9

\* Every step of the processes, or of time, keeps the invariant.
LEMMA CacheStep == CacheInv /\ [Cache!Next]_cacheVars => CacheInv'
<1>1. ASSUME CacheInv, UNCHANGED <<fsys, file, issued, cl, shared, torn>>
      PROVE  CacheInv'
  BY <1>1 DEF CacheInv, CacheType, TokenStep, OnDisk, Genuine, Alone, Cache!Writing, Cache!Reading,
     Cache!Unmarshals, Cache!Marshal, Cache!Cells, Cache!Cell
<1>2. ASSUME CacheInv, NEW t \in 1..MaxIssued, Cache!Expire(t) PROVE CacheInv'
  BY <1>1, <1>2 DEF Cache!Expire, Cache!histVars
<1>3. CacheInv /\ UNCHANGED cacheVars => CacheInv'
  BY <1>1 DEF cacheVars
<1> QED
  BY <1>2, <1>3, OpenInv, GcsReadInv, OsReadInv, GiveUpInv, ExchangeInv, CreateInv, WriteInv,
     CloseInv, Zenon DEF Cache!Next

\* At first there is no file, and nobody is in Token.
LEMMA CacheInitInv == Cache!Init => CacheInv
<1> SUFFICES ASSUME Cache!Init PROVE CacheInv
  OBVIOUS
<1>1. <<>> \in Seq(CellType) /\ <<>> \in Seq(Seq(CellType)) /\ Len(<<>>) = 0
  BY EmptySeq
<1>2. Cache!Idle(<<>>) \in ClientState /\ Cache!Idle(<<>>).at = "idle"
  BY <1>1 DEF Cache!Idle, ClientState, Cache!NoToken
<1>3. \A c \in Client : cl[c] = Cache!Idle(<<>>)
  BY DEF Cache!Init
<1>4. CacheType
  BY <1>1, <1>2 DEF Cache!Init, CacheType
<1>5. ASSUME NEW c \in Client PROVE TokenStep(c) /\ Alone(c)
  BY <1>2, <1>3 DEF TokenStep, Alone, Cache!Writing, Cache!Reading
<1>6. OnDisk
  BY DEF Cache!Init, OnDisk
<1> QED
  BY <1>4, <1>5, <1>6 DEF CacheInv

\* In every behaviour that exercises the tokens.
LEMMA CacheInvHolds == AllSpec => [](part = "cache" => CacheInv)
<1>1. AllInit => (part = "cache" => CacheInv)
  BY CacheInitInv DEF AllInit
<1>2. (part = "cache" => CacheInv) /\ [AllNext]_allVars => (part = "cache" => CacheInv)'
  <2> SUFFICES ASSUME part = "cache" => CacheInv, [AllNext]_allVars, part' = "cache"
               PROVE  CacheInv'
    OBVIOUS
  <2>1. part = "cache" /\ [Cache!Next]_cacheVars
    BY DEF AllNext, allVars
  <2> QED
    BY <2>1, CacheStep
<1> QED
  BY <1>1, <1>2, PTL DEF AllSpec

\* The end of cachedToken returns a token that has not expired; another process
\* does not make this one return.
LEMMA CachedIsValid ==
  ASSUME CacheInv, NEW c \in Client, NEW s \in Seq(CellType), Cache!CachedToken(c, s),
         cl[c].at # "idle"
  PROVE  /\ \A d \in Client \ {c} : cl'[d] = cl[d]
         /\ cl'[c].at = "idle" =>
              /\ cl'[c].ret = s /\ Cache!Unmarshals(s) /\ Cache!tokenOf(s) \notin expired
         /\ cl'[c].at # "idle" => cl'[c].ret = <<>>
<1>1. cl \in [Client -> ClientState] /\ cl[c].ret = <<>>
  BY DEF CacheInv, CacheType, TokenStep
<1>2. CASE /\ Cache!Unmarshals(s) /\ Cache!Valid(s)
           /\ cl' = [cl EXCEPT ![c] = Cache!Idle(s)]
  <2>1. Cache!Idle(s).at = "idle" /\ Cache!Idle(s).ret = s
    BY QuietStates DEF CacheInv
  <2> QED
    BY <1>1, <1>2, <2>1 DEF Cache!Valid
<1>3. CASE cl' = [cl EXCEPT ![c].at = "ask", ![c].data = <<>>]
  BY <1>1, <1>3 DEF ClientState
<1> QED
  BY <1>2, <1>3 DEF Cache!CachedToken, Cache!Return

\* What TokensSound says of one process.
SoundFor(c) ==
  /\ Cache!FromCache(c) => Cache!tokenOf(cl'[c].ret) \notin expired
  /\ Cache!FromCache(c) /\ (fsys = "gcs" \/ (c \notin shared /\ ~torn)) =>
       \E t \in 1..issued : cl'[c].ret = Cache!Marshal(t)
  /\ Cache!New(c) /\ c \notin shared => file' = <<Cache!Marshal(cl[c].new)>>

\* A process that does not move, or returns nothing, is no exception.
LEMMA NothingReturned ==
  ASSUME CacheInv, NEW c \in Client, cl'[c] = cl[c] \/ cl'[c].ret = <<>>
  PROVE  SoundFor(c)
  BY DEF CacheInv, TokenStep, SoundFor, Cache!FromCache, Cache!New, Cache!Reading

\* The steps of Token that return no token.
LEMMA NoTokenSound ==
  ASSUME CacheInv, NEW c \in Client,
         \/ Cache!Open(c) \/ Cache!ReadFails(c) \/ Cache!Exchange(c) \/ Cache!ExchangeFails(c)
         \/ Cache!Create(c) \/ Cache!CreateFails(c) \/ Cache!Write(c) \/ Cache!Die(c)
  PROVE  /\ cl'[c].ret = <<>>
         /\ \A d \in Client \ {c} : cl'[d] = cl[d]
<1>1. cl \in [Client -> ClientState] /\ TokenStep(c)
  BY DEF CacheInv, CacheType
<1>2. CASE Cache!Open(c)
  BY <1>1, <1>2 DEF Cache!Open, Cache!Idle
<1>3. CASE Cache!ExchangeFails(c) \/ Cache!CreateFails(c) \/ Cache!Die(c)
  BY <1>1, <1>3 DEF Cache!ExchangeFails, Cache!CreateFails, Cache!Die, Cache!Return, Cache!Idle
<1>4. CASE Cache!ReadFails(c)
  BY <1>1, <1>4 DEF Cache!ReadFails, Cache!Reading, TokenStep, ClientState
<1>5. CASE Cache!Exchange(c)
  BY <1>1, <1>5 DEF Cache!Exchange, TokenStep, ClientState
<1>6. CASE Cache!Create(c)
  BY <1>1, <1>6 DEF Cache!Create, TokenStep, ClientState
<1>7. CASE Cache!Write(c)
  <2>1. PICK e : cl' = [cl EXCEPT ![c].at = "close", ![c].err = e]
    BY <1>7 DEF Cache!Write
  <2> QED
    BY <1>1, <1>7, <2>1, ZenonT(60) DEF Cache!Write, TokenStep, ClientState
<1> QED
  BY <1>2, <1>3, <1>4, <1>5, <1>6, <1>7

\* A token that gcsFS read is one that was issued: a part of it is none.
LEMMA GcsReadSound ==
  ASSUME CacheInv, NEW c \in Client, Cache!GcsRead(c)
  PROVE  SoundFor(c) /\ \A d \in Client \ {c} : cl'[d] = cl[d]
<1>1. PICK n : n = Cache!Min({cl[c].size, Len(file[1])})
  OBVIOUS
<1>2. PICK s : s = SubSeq(file[1], 1, n)
  OBVIOUS
<1>3. cl[c].at = "reader" /\ Cache!CachedToken(c, s)
  BY <1>1, <1>2 DEF Cache!GcsRead
<1>4. /\ file # <<>> /\ fsys = "gcs" /\ n \in 0..Len(file[1]) /\ s \in Seq(CellType)
  BY <1>1, <1>2, <1>3, GcsReads
<1>5. PICK t \in 1..issued : file[1] = Cache!Marshal(t)
  BY <1>4 DEF CacheInv, OnDisk
<1>6. issued \in Nat
  BY DEF CacheInv, CacheType
<1>7. Cache!Unmarshals(s) => s = Cache!Marshal(t)
  <2>1. t \in Nat
    BY <1>5, <1>6
  <2> QED
    BY <1>2, <1>4, <1>5, <2>1, PartOfToken
<1> QED
  BY <1>3, <1>4, <1>5, <1>7, CachedIsValid DEF SoundFor, Cache!FromCache, Cache!New

\* So is one that was read from a file, without a write in between.
LEMMA OsReadSound ==
  ASSUME CacheInv, NEW c \in Client, Cache!OsRead(c)
  PROVE  SoundFor(c) /\ \A d \in Client \ {c} : cl'[d] = cl[d]
<1>1. /\ cl[c].at = "read" /\ file # <<>> /\ fsys = "os" /\ cl[c].ret = <<>>
      /\ cl \in [Client -> ClientState] /\ cl[c].data \in Seq(CellType)
  BY DEF CacheInv, CacheType, ClientState, TokenStep, Cache!OsRead
<1>2. file[1] \in Seq(CellType) /\ Len(file[1]) \in Nat /\ Len(cl[c].data) \in Nat
  BY <1>1, FileCells, LenProperties DEF CacheInv
<1>3. CASE Len(cl[c].data) >= Len(file[1]) /\ Cache!CachedToken(c, cl[c].data)
  <2>1. PICK s : s = cl[c].data
    OBVIOUS
  <2>2. ASSUME c \notin shared, ~torn, Cache!Unmarshals(s)
        PROVE  \E t \in 1..issued : s = Cache!Marshal(t)
    <3>1. Len(s) <= Len(file[1]) /\ s = SubSeq(file[1], 1, Len(s))
      BY <1>1, <2>1, <2>2 DEF CacheInv, Alone
    <3>2. Len(s) = Len(file[1])
      BY <1>2, <1>3, <2>1, <3>1
    <3>3. s = file[1]
      BY <1>2, <3>1, <3>2, SubSeqFull
    <3>4. Genuine(file[1])
      BY <1>1, <2>2 DEF CacheInv, OnDisk
    <3> QED
      BY <2>2, <3>3, <3>4 DEF Genuine
  <2>3. /\ s \in Seq(CellType) /\ Cache!CachedToken(c, s)
    BY <1>1, <1>3, <2>1
  <2> QED
    BY <1>1, <2>2, <2>3, CachedIsValid DEF SoundFor, Cache!FromCache, Cache!New
<1>4. CASE \E to \in (Len(cl[c].data) + 1)..Len(file[1]) :
             cl' = [cl EXCEPT ![c].data = @ \o SubSeq(file[1], Len(cl[c].data) + 1, to)]
  <2>1. PICK s : cl' = [cl EXCEPT ![c].data = s]
    BY <1>4
  <2>2. cl'[c].ret = <<>> /\ \A d \in Client \ {c} : cl'[d] = cl[d]
    BY <1>1, <2>1 DEF ClientState
  <2> QED
    BY <2>2, NothingReturned
<1> QED
  BY <1>3, <1>4 DEF Cache!OsRead

\* A new token that Token returns is in the file, unless another write met it.
LEMMA CloseSound ==
  ASSUME CacheInv, NEW c \in Client, Cache!Close(c)
  PROVE  SoundFor(c) /\ \A d \in Client \ {c} : cl'[d] = cl[d]
<1>1. /\ cl[c].at = "close" /\ fsys \in {"os", "gcs"} /\ cl \in [Client -> ClientState]
      /\ fsys = "os" => file # <<>>
  BY DEF CacheInv, CacheType, TokenStep, Cache!Close, Cache!Writing
<1>2. CASE Cache!Return(c, <<>>)
  <2>1. cl'[c].ret = <<>> /\ \A d \in Client \ {c} : cl'[d] = cl[d]
    BY <1>1, <1>2 DEF Cache!Return, Cache!Idle
  <2> QED
    BY <2>1, NothingReturned
<1>3. CASE /\ ~cl[c].err /\ Cache!Return(c, Cache!Marshal(cl[c].new))
           /\ IF fsys = "gcs" THEN file' = <<Cache!Marshal(cl[c].new)>> ELSE UNCHANGED file
  <2>1. \A d \in Client \ {c} : cl'[d] = cl[d]
    BY <1>1, <1>3 DEF Cache!Return
  <2>2. c \notin shared => file' = <<Cache!Marshal(cl[c].new)>>
    <3>1. CASE fsys = "gcs"
      BY <1>3, <3>1
    <3>2. CASE fsys = "os" /\ c \notin shared
      <4>1. file' = file /\ file = <<file[1]>>
        BY <1>1, <1>3, <3>2, FileCells DEF CacheInv
      <4>2. file[1] = Cache!Marshal(cl[c].new)
        BY <1>1, <1>3, <3>2 DEF CacheInv, Alone
      <4> QED
        BY <4>1, <4>2
    <3> QED
      BY <1>1, <3>1, <3>2
  <2> QED
    BY <1>1, <2>1, <2>2 DEF SoundFor, Cache!FromCache, Cache!Reading
<1> QED
  BY <1>2, <1>3 DEF Cache!Close

\* However processes that share a CacheFile interleave, die and fail to write:
\* Token returns no expired token from the cache; on /gcs/ always, and in a
\* file unless a write came between or two met, it returns one that was issued
\* and never a mixture; and a new one is in the file as a whole.
THEOREM TokensSoundHolds == AllSpec => TokensSound
<1>1. ASSUME CacheInv, [Cache!Next]_cacheVars PROVE Cache!TokensSound
  <2>1. ASSUME NEW c \in Client, SoundFor(c), \A d \in Client \ {c} : cl'[d] = cl[d]
        PROVE  \A d \in Client : SoundFor(d)
    <3> SUFFICES ASSUME NEW d \in Client PROVE SoundFor(d)
      OBVIOUS
    <3>1. CASE d = c
      BY <2>1, <3>1
    <3>2. CASE d # c
      BY <1>1, <2>1, <3>2, NothingReturned
    <3> QED
      BY <3>1, <3>2
  <2>2. ASSUME NEW c \in Client, cl'[c].ret = <<>>, \A d \in Client \ {c} : cl'[d] = cl[d]
        PROVE  \A d \in Client : SoundFor(d)
    BY <1>1, <2>1, <2>2, NothingReturned
  <2>3. ASSUME NEW c \in Client, Cache!GcsRead(c) \/ Cache!OsRead(c) \/ Cache!Close(c)
        PROVE  \A d \in Client : SoundFor(d)
    BY <1>1, <2>1, <2>3, GcsReadSound, OsReadSound, CloseSound
  <2>4. ASSUME NEW c \in Client,
               \/ Cache!Open(c) \/ Cache!ReadFails(c) \/ Cache!Exchange(c) \/ Cache!ExchangeFails(c)
               \/ Cache!Create(c) \/ Cache!CreateFails(c) \/ Cache!Write(c) \/ Cache!Die(c)
        PROVE  \A d \in Client : SoundFor(d)
    BY <1>1, <2>2, <2>4, NoTokenSound
  <2>5. ASSUME cl' = cl PROVE \A d \in Client : SoundFor(d)
    BY <1>1, <2>5, NothingReturned
  <2>6. \A d \in Client : SoundFor(d)
    <3>1. CASE \E t \in 1..MaxIssued : Cache!Expire(t)
      BY <2>5, <3>1 DEF Cache!Expire
    <3>2. CASE UNCHANGED cacheVars
      BY <2>5, <3>2 DEF cacheVars
    <3> QED
      BY <1>1, <2>3, <2>4, <3>1, <3>2, Zenon DEF Cache!Next
  <2> QED
    BY <2>6 DEF SoundFor, Cache!TokensSound
<1>2. (part = "cache" => CacheInv) /\ [AllNext]_allVars => [part = "cache" => Cache!TokensSound]_allVars
  <2> SUFFICES ASSUME part = "cache" => CacheInv, [AllNext]_allVars, part = "cache"
               PROVE  Cache!TokensSound
    OBVIOUS
  <2>1. [Cache!Next]_cacheVars
    BY DEF AllNext, allVars
  <2> QED
    BY <1>1, <2>1
<1> QED
  BY CacheInvHolds, <1>2, PTL DEF AllSpec, TokensSound
-----------------------------------------------------------------------------
(* PrefixSuffixSaver and RollSum.                                          *)

\* How long ago, among those of a full suffix, its byte at k was written.
Age(k) == IF k > suffixOff THEN k - 1 - suffixOff ELSE k - 1 - suffixOff + N

\* The ends of the stream are in prefix, and in suffix from suffixOff on.
SaverInv ==
  LET len == Len(written) IN
  /\ N \in Nat /\ written \in Seq(Int) /\ prefix \in Seq(Int) /\ suffix \in Seq(Int)
  /\ Len(prefix) = IF len <= N THEN len ELSE N
  /\ \A k \in 1..Len(prefix) : prefix[k] = written[k]
  /\ Len(suffix) = IF len <= N THEN 0 ELSE IF len <= 2 * N THEN len - N ELSE N
  /\ \A k \in 1..Len(suffix) : suffix[k] = written[len - Len(suffix) + 1 + Age(k)]
  /\ skipped = IF len <= 2 * N THEN 0 ELSE len - 2 * N
  /\ suffixOff \in Nat /\ (N > 0 => suffixOff < N)
  /\ skipped = 0 => suffixOff = 0

\* window has the last four bytes, the oldest of them at wofs.
RollInv ==
  /\ written \in Seq(0..255)
  /\ wofs \in 0..3 /\ window \in [0..3 -> 0..255]
  /\ \A k \in 1..4 : window[(wofs + 4 - k) % 4] = Rings!Newest(k)
  /\ s1 = (Rings!Newest(1) + Rings!Newest(2) + Rings!Newest(3) + Rings!Newest(4) + 4 * 31) % 256
  /\ s2 = (Rings!Newest(1) + 2 * Rings!Newest(2) + 3 * Rings!Newest(3) + 4 * Rings!Newest(4)
           + 12 * 31) % 256

RingInv ==
  /\ ring \in {"saver", "rollsum"}
  /\ ring = "saver" => SaverInv
  /\ ring = "rollsum" => RollInv

\* A part of a sequence of numbers.
LEMMA PartOfSeq ==
  ASSUME NEW s \in Seq(Int), NEW i \in Nat, NEW j \in Nat, i <= j, j <= Len(s)
  PROVE  /\ SubSeq(s, i + 1, j) \in Seq(Int) /\ Len(SubSeq(s, i + 1, j)) = j - i
         /\ \A k \in 1..(j - i) : SubSeq(s, i + 1, j)[k] = s[i + k]
<1>1. \A k \in (i + 1)..j : s[k] \in Int
  BY LenProperties, ElementOfSeq
<1>2. /\ SubSeq(s, i + 1, j) \in Seq(Int)
      /\ Len(SubSeq(s, i + 1, j)) = IF i + 1 <= j THEN j - (i + 1) + 1 ELSE 0
      /\ \A k \in 1..(j - (i + 1) + 1) : SubSeq(s, i + 1, j)[k] = s[i + 1 + k - 1]
  BY <1>1, SubSeqProperties
<1>3. \A k \in 1..(j - i) : SubSeq(s, i + 1, j)[k] = s[i + k]
  <2> SUFFICES ASSUME NEW k \in 1..(j - i) PROVE SubSeq(s, i + 1, j)[k] = s[i + k]
    OBVIOUS
  <2>1. k \in 1..(j - (i + 1) + 1) /\ i + 1 + k - 1 = i + k
    OBVIOUS
  <2> QED
    BY <1>2, <2>1
<1> QED
  BY <1>2, <1>3

\* Two sequences of numbers, one behind the other.
LEMMA Joined ==
  ASSUME NEW s \in Seq(Int), NEW t \in Seq(Int)
  PROVE  /\ s \o t \in Seq(Int) /\ Len(s \o t) = Len(s) + Len(t)
         /\ \A k \in 1..Len(s) : (s \o t)[k] = s[k]
         /\ \A k \in 1..Len(t) : (s \o t)[Len(s) + k] = t[k]
<1>1. Len(s) \in Nat /\ Len(t) \in Nat
  BY LenProperties
<1>2. \A i \in 1..(Len(s) + Len(t)) : (s \o t)[i] = IF i <= Len(s) THEN s[i] ELSE t[i - Len(s)]
  BY ConcatProperties
<1>3. \A k \in 1..Len(t) : (s \o t)[Len(s) + k] = t[k]
  <2> SUFFICES ASSUME NEW k \in 1..Len(t) PROVE (s \o t)[Len(s) + k] = t[k]
    OBVIOUS
  <2>1. Len(s) + k \in 1..(Len(s) + Len(t)) /\ ~(Len(s) + k <= Len(s)) /\ Len(s) + k - Len(s) = k
    BY <1>1
  <2> QED
    BY <1>2, <2>1
<1> QED
  BY <1>1, <1>2, <1>3, ConcatProperties

\* f is base with the first n numbers of p behind it, and the rest of p.
Fills(f, base, p, n) ==
  /\ f.dst \in Seq(Int) /\ Len(f.dst) = Len(base) + n
  /\ \A k \in 1..Len(base) : f.dst[k] = base[k]
  /\ \A k \in 1..n : f.dst[Len(base) + k] = p[k]
  /\ f.rest \in Seq(Int) /\ Len(f.rest) = Len(p) - n
  /\ \A k \in 1..(Len(p) - n) : f.rest[k] = p[n + k]

\* fill moves as many numbers of p behind base as there is room for.
LEMMA FillMoves ==
  ASSUME N \in Nat, NEW base \in Seq(Int), Len(base) <= N, NEW p \in Seq(Int)
  PROVE  \E n \in Nat : /\ n = IF Len(p) <= N - Len(base) THEN Len(p) ELSE N - Len(base)
                        /\ Fills(Rings!fill(base, p), base, p, n)
<1>1. Len(base) \in Nat /\ Len(p) \in Nat
  BY LenProperties
<1>2. PICK n : n = IF Len(p) <= N - Len(base) THEN Len(p) ELSE N - Len(base)
  OBVIOUS
<1>3. n \in 0..Len(p)
  BY <1>1, <1>2
<1>4. Rings!Max({0, Rings!Min({Len(p), N - Len(base)})}) = n
  <2>1. \A a, b \in Int : Rings!Min({a, b}) = IF a <= b THEN a ELSE b
    BY DEF Rings!Min
  <2>2. \A a, b \in Int : Rings!Max({a, b}) = IF a >= b THEN a ELSE b
    BY DEF Rings!Max
  <2>0. N - Len(base) \in Int
    BY <1>1
  <2>3. PICK m \in Int : m = N - Len(base)
    BY <2>0, Zenon
  <2>4. Rings!Min({Len(p), m}) = IF Len(p) <= m THEN Len(p) ELSE m
    BY <1>1, <2>1
  <2>5. Rings!Min({Len(p), N - Len(base)}) = n
    BY <1>2, <2>3, <2>4
  <2>6. Rings!Max({0, n}) = IF 0 >= n THEN 0 ELSE n
    BY <1>3, <2>2
  <2>7. Rings!Max({0, n}) = n
    BY <1>3, <2>6
  <2> QED
    BY <2>5, <2>7, Zenon
<1>5. PICK a : a = SubSeq(p, 1, n)
  OBVIOUS
<1>6. PICK b : b = SubSeq(p, n + 1, Len(p))
  OBVIOUS
<1>7. Rings!fill(base, p) = [dst |-> base \o a, rest |-> b]
  BY <1>4, <1>5, <1>6 DEF Rings!fill
<1>8. a \in Seq(Int) /\ Len(a) = n /\ \A k \in 1..n : a[k] = p[k]
  <2>1. /\ SubSeq(p, 0 + 1, n) \in Seq(Int) /\ Len(SubSeq(p, 0 + 1, n)) = n - 0
        /\ \A k \in 1..(n - 0) : SubSeq(p, 0 + 1, n)[k] = p[0 + k]
    BY <1>1, <1>3, PartOfSeq
  <2>2. 0 + 1 = 1 /\ n - 0 = n
    BY <1>3
  <2>3. SubSeq(p, 0 + 1, n) = a
    BY <1>5, <2>2
  <2>4. \A k \in 1..n : k \in 1..(n - 0) /\ 0 + k = k
    BY <1>3
  <2>5. \A k \in 1..n : a[k] = p[k]
    BY <2>1, <2>3, <2>4
  <2> QED
    BY <2>1, <2>2, <2>3, <2>5
<1>9. b \in Seq(Int) /\ Len(b) = Len(p) - n /\ \A k \in 1..(Len(p) - n) : b[k] = p[n + k]
  BY <1>1, <1>3, <1>6, PartOfSeq
<1>10. /\ base \o a \in Seq(Int) /\ Len(base \o a) = Len(base) + n
       /\ \A k \in 1..Len(base) : (base \o a)[k] = base[k]
       /\ \A k \in 1..n : (base \o a)[Len(base) + k] = p[k]
  BY <1>8, Joined
<1>11. Rings!fill(base, p).dst = base \o a /\ Rings!fill(base, p).rest = b
  BY <1>7
<1>12. Fills(Rings!fill(base, p), base, p, n)
  BY <1>9, <1>10, <1>11 DEF Fills
<1>13. n \in Nat
  BY <1>1, <1>3
<1> QED
  BY <1>2, <1>12, <1>13

\* The numbers of a Write of plen bytes, after len, to a saver of room N: pre
\* and before are the lengths of prefix and suffix, off is suffixOff. n1 bytes
\* go to prefix, over are passed over, n2 find room in suffix and n overwrite it.
WriteNumbers(w) ==
  /\ w.len \in Nat /\ w.plen \in Nat /\ w.room \in Nat /\ w.pre \in Nat /\ w.before \in Nat
  /\ w.off \in Nat /\ w.skip \in Nat /\ w.n1 \in Nat /\ w.over \in Nat /\ w.n2 \in Nat /\ w.n \in Nat
  /\ w.pre = IF w.len <= w.room THEN w.len ELSE w.room
  /\ w.before = IF w.len <= w.room THEN 0
                ELSE IF w.len <= 2 * w.room THEN w.len - w.room ELSE w.room
  /\ w.skip = IF w.len <= 2 * w.room THEN 0 ELSE w.len - 2 * w.room
  /\ (w.room > 0 => w.off < w.room) /\ (w.skip = 0 => w.off = 0)
  /\ w.n1 = IF w.plen <= w.room - w.pre THEN w.plen ELSE w.room - w.pre
  /\ w.over = IF w.plen - w.n1 <= w.room THEN 0 ELSE w.plen - w.n1 - w.room
  /\ w.n2 = IF w.plen - w.n1 - w.over <= w.room - w.before THEN w.plen - w.n1 - w.over
            ELSE w.room - w.before
  /\ w.n = w.plen - w.n1 - w.over - w.n2

\* They add up to the numbers after it.
LEMMA NumbersAfter ==
  ASSUME NEW w, WriteNumbers(w)
  PROVE  /\ w.pre + w.n1 = IF w.len + w.plen <= w.room THEN w.len + w.plen ELSE w.room
         /\ w.before + w.n2 = IF w.len + w.plen <= w.room THEN 0
                              ELSE IF w.len + w.plen <= 2 * w.room THEN w.len + w.plen - w.room
                              ELSE w.room
         /\ w.skip + w.over + w.n = IF w.len + w.plen <= 2 * w.room THEN 0
                                    ELSE w.len + w.plen - 2 * w.room
         /\ w.n1 > 0 => w.pre = w.len
         /\ w.pre <= w.len /\ w.n <= w.room /\ w.before + w.n2 <= w.room /\ w.before <= w.len
         /\ w.before + w.n2 < w.room => w.n = 0 /\ w.over = 0 /\ w.off = 0
<1>1. PICK len, plen, room, pre, before, off, skip, n1, over, n2, n \in Nat :
        /\ len = w.len /\ plen = w.plen /\ room = w.room /\ pre = w.pre /\ before = w.before
        /\ off = w.off /\ skip = w.skip /\ n1 = w.n1 /\ over = w.over /\ n2 = w.n2 /\ n = w.n
  BY DEF WriteNumbers
<1>2. /\ pre = IF len <= room THEN len ELSE room
      /\ before = IF len <= room THEN 0 ELSE IF len <= 2 * room THEN len - room ELSE room
      /\ skip = IF len <= 2 * room THEN 0 ELSE len - 2 * room
      /\ (room > 0 => off < room) /\ (skip = 0 => off = 0)
      /\ n1 = IF plen <= room - pre THEN plen ELSE room - pre
      /\ over = IF plen - n1 <= room THEN 0 ELSE plen - n1 - room
      /\ n2 = IF plen - n1 - over <= room - before THEN plen - n1 - over ELSE room - before
      /\ n = plen - n1 - over - n2
  BY <1>1 DEF WriteNumbers
<1>3. pre + n1 = IF len + plen <= room THEN len + plen ELSE room
  BY <1>2
<1>4. before + n2 = IF len + plen <= room THEN 0
                    ELSE IF len + plen <= 2 * room THEN len + plen - room ELSE room
  BY <1>2
<1>5. skip + over + n = IF len + plen <= 2 * room THEN 0 ELSE len + plen - 2 * room
  BY <1>2
<1>6. /\ n1 > 0 => pre = len
      /\ pre <= len /\ n <= room /\ before + n2 <= room /\ before <= len
  BY <1>2
<1>7. before + n2 < room => n = 0 /\ over = 0 /\ off = 0
  BY <1>2
<1> QED
  BY <1>1, <1>3, <1>4, <1>5, <1>6, <1>7

\* off after the Write, the places of k from the old and from the new off on,
\* and where in the stream the byte belongs that suffix then has at k.
OffAfter(w) == IF w.off + w.n < w.room THEN w.off + w.n ELSE w.off + w.n - w.room
AgeFrom(off, room, k) == IF k > off THEN k - 1 - off ELSE k - 1 - off + room
PlaceAfter(w, k) == w.len + w.plen - (w.before + w.n2) + 1 + AgeFrom(OffAfter(w), w.room, k)

\* That byte is one of the last n of the Write, one suffix already had, or one
\* that found room in suffix.
LEMMA WhereFrom ==
  ASSUME NEW w, WriteNumbers(w), NEW k \in 1..(w.before + w.n2),
         NEW back \in Nat, back = AgeFrom(w.off, w.room, k),
         NEW place \in Int, place = PlaceAfter(w, k)
  PROVE  /\ back < w.n =>
              /\ place = w.len + (w.n1 + w.over + (w.n2 + (back + 1)))
              /\ w.n1 + w.over + (w.n2 + (back + 1)) \in 1..w.plen
         /\ back >= w.n /\ k <= w.before => place = w.len - w.before + 1 + back /\ place \in 1..w.len
         /\ back >= w.n /\ k > w.before =>
              /\ place = w.len + (w.n1 + w.over + (k - w.before))
              /\ w.n1 + w.over + (k - w.before) \in 1..w.plen /\ k - w.before \in 1..w.n2
<1>1. PICK len, plen, room, pre, before, off, skip, n1, over, n2, n \in Nat :
        /\ len = w.len /\ plen = w.plen /\ room = w.room /\ pre = w.pre /\ before = w.before
        /\ off = w.off /\ skip = w.skip /\ n1 = w.n1 /\ over = w.over /\ n2 = w.n2 /\ n = w.n
  BY DEF WriteNumbers
<1>2. /\ pre = IF len <= room THEN len ELSE room
      /\ before = IF len <= room THEN 0 ELSE IF len <= 2 * room THEN len - room ELSE room
      /\ skip = IF len <= 2 * room THEN 0 ELSE len - 2 * room
      /\ (room > 0 => off < room) /\ (skip = 0 => off = 0)
      /\ n1 = IF plen <= room - pre THEN plen ELSE room - pre
      /\ over = IF plen - n1 <= room THEN 0 ELSE plen - n1 - room
      /\ n2 = IF plen - n1 - over <= room - before THEN plen - n1 - over ELSE room - before
      /\ n = plen - n1 - over - n2
  BY <1>1 DEF WriteNumbers
<1>3. PICK off2 \in Int : off2 = IF off + n < room THEN off + n ELSE off + n - room
  <2>1. (IF off + n < room THEN off + n ELSE off + n - room) \in Int
    OBVIOUS
  <2> QED
    BY <2>1, Zenon
<1>4. PICK age \in Int : age = IF k > off2 THEN k - 1 - off2 ELSE k - 1 - off2 + room
  <2>1. (IF k > off2 THEN k - 1 - off2 ELSE k - 1 - off2 + room) \in Int
    OBVIOUS
  <2> QED
    BY <2>1, Zenon
<1>5. /\ back = IF k > off THEN k - 1 - off ELSE k - 1 - off + room
      /\ place = len + plen - (before + n2) + 1 + age
      /\ k \in 1..(before + n2)
  BY <1>1, <1>3, <1>4 DEF AgeFrom, OffAfter, PlaceAfter
<1>6. /\ n <= room /\ before + n2 <= room /\ before <= len /\ pre <= len
      /\ before + n2 < room => n = 0 /\ over = 0 /\ off = 0
      /\ plen = n1 + over + n2 + n /\ room > 0 /\ off < room
      /\ before > 0 => n1 = 0
      /\ over > 0 => n = before
      /\ off > 0 => before = room
  <2>1. /\ n <= room /\ before + n2 <= room /\ before <= len /\ pre <= len
        /\ before + n2 < room => n = 0 /\ over = 0 /\ off = 0
    BY <1>2, SMTT(60)
  <2>2. plen = n1 + over + n2 + n /\ (before > 0 => n1 = 0)
    BY <1>2
  <2>3. over > 0 => n = before
    <3>1. over > 0 => plen - n1 - over = room
      BY <1>2
    <3> QED
      BY <1>2, <2>1, <3>1, SMTT(60)
  <2>4. off > 0 => before = room
    BY <1>2
  <2>5. room > 0
    BY <1>5, <2>1
  <2>6. off < room
    BY <1>2, <2>5
  <2> QED
    BY <2>1, <2>2, <2>3, <2>4, <2>5, <2>6
<1> DEFINE Goal == /\ back < n =>
                        /\ place = len + (n1 + over + (n2 + (back + 1)))
                        /\ n1 + over + (n2 + (back + 1)) \in 1..plen
                   /\ back >= n /\ k <= before => place = len - before + 1 + back /\ place \in 1..len
                   /\ back >= n /\ k > before =>
                        /\ place = len + (n1 + over + (k - before))
                        /\ n1 + over + (k - before) \in 1..plen /\ k - before \in 1..n2
<1>7. ASSUME before + n2 < room PROVE Goal
  BY <1>3, <1>4, <1>5, <1>6, <1>7
<1>8. ASSUME before + n2 = room PROVE Goal
  <2>1. age = IF back < n THEN back - n + room ELSE back - n
    BY <1>3, <1>4, <1>5, <1>6, <1>8
  <2>2. CASE back < n
    BY <1>5, <1>6, <1>8, <2>1, <2>2
  <2>3. CASE back >= n /\ k <= before
    <3>1. back < before
      BY <1>5, <1>6, <1>8, <2>3
    <3>2. over = 0 /\ n1 = 0
      BY <1>5, <1>6, <1>8, <2>3, <3>1
    <3> QED
      BY <1>5, <1>6, <1>8, <2>1, <2>3, <3>1, <3>2
  <2>4. CASE back >= n /\ k > before
    <3>1. off = 0 /\ back = k - 1
      BY <1>5, <1>6, <1>8, <2>4
    <3> QED
      BY <1>5, <1>6, <1>8, <2>1, <2>4, <3>1
  <2> QED
    BY <2>2, <2>3, <2>4
<1>9. Goal
  BY <1>6, <1>7, <1>8
<1> QED
  BY <1>1, <1>9

\* An index that has run past the end of a ring once.
LEMMA WrapOnce ==
  ASSUME NEW m \in Nat, m > 0, NEW a \in 0..(2 * m - 1)
  PROVE  a % m = IF a < m THEN a ELSE a - m
  OBVIOUS

\* Write keeps the ends of the stream: what it moves into prefix, what it
\* passes over, what suffix has room for and what overwrites suffix are
\* p[1..n1], the next over, the next n2 and the last n bytes of p.
LEMMA SaverWrite ==
  ASSUME SaverInv, NEW p \in Seq(Int), Rings!Write(p)
  PROVE  SaverInv'
<1>1. /\ N \in Nat /\ written \in Seq(Int) /\ prefix \in Seq(Int) /\ suffix \in Seq(Int)
      /\ Len(written) \in Nat /\ Len(prefix) \in Nat /\ Len(suffix) \in Nat /\ Len(p) \in Nat
      /\ Len(prefix) <= N /\ Len(suffix) <= N
      /\ suffixOff \in Nat /\ skipped \in Nat /\ N' = N
  <2>1. N \in Nat /\ written \in Seq(Int) /\ prefix \in Seq(Int) /\ suffix \in Seq(Int)
    BY DEF SaverInv
  <2>2. Len(written) \in Nat /\ Len(prefix) \in Nat /\ Len(suffix) \in Nat /\ Len(p) \in Nat
    BY <2>1, LenProperties
  <2> QED
    BY <2>1, <2>2 DEF SaverInv, Rings!Write
<1>2. PICK first : first = Rings!fill(prefix, p)
  OBVIOUS
<1>3. PICK n1 \in Nat : /\ n1 = IF Len(p) <= N - Len(prefix) THEN Len(p) ELSE N - Len(prefix)
                        /\ Fills(first, prefix, p, n1)
  BY <1>1, <1>2, FillMoves
<1>4. PICK rest \in Nat : rest = Len(p) - n1
  <2>1. Len(p) - n1 \in Nat
    BY <1>1, <1>3
  <2> QED
    BY <2>1
<1>5. first.rest \in Seq(Int) /\ Len(first.rest) = rest
  BY <1>3, <1>4 DEF Fills
<1>6. PICK over \in Nat : over = (IF rest <= N THEN 0 ELSE rest - N) /\ over <= rest
  <2>1. (IF rest <= N THEN 0 ELSE rest - N) \in Nat /\ (IF rest <= N THEN 0 ELSE rest - N) <= rest
    BY <1>1, <1>4
  <2> QED
    BY <2>1
<1>7. Rings!Max({0, Len(first.rest) - N}) = over
  <2>1. \A a \in Int : Rings!Max({0, a}) = IF 0 >= a THEN 0 ELSE a
    BY DEF Rings!Max
  <2>2. PICK a \in Int : a = rest - N
    <3>1. rest - N \in Int
      BY <1>1, <1>4
    <3> QED
      BY <3>1, Zenon
  <2>3. Rings!Max({0, a}) = over
    <3>1. Rings!Max({0, a}) = IF 0 >= a THEN 0 ELSE a
      BY <2>1, <2>2
    <3>2. (IF 0 >= a THEN 0 ELSE a) = over
      BY <1>1, <1>4, <1>6, <2>2
    <3> QED
      BY <3>1, <3>2, Zenon
  <2> QED
    BY <1>5, <2>2, <2>3
<1>8. PICK mid : mid = SubSeq(first.rest, over + 1, Len(first.rest))
  OBVIOUS
<1>9. PICK m \in Nat : m = rest - over
  <2>1. rest - over \in Nat
    BY <1>4, <1>6
  <2> QED
    BY <2>1
<1>10. /\ mid \in Seq(Int) /\ Len(mid) = m
       /\ \A k \in 1..m : mid[k] = p[n1 + over + k]
  <2>1. mid = SubSeq(first.rest, over + 1, rest)
    BY <1>5, <1>8
  <2>2. mid \in Seq(Int) /\ Len(mid) = m /\ \A k \in 1..m : mid[k] = first.rest[over + k]
    <3>1. /\ SubSeq(first.rest, over + 1, rest) \in Seq(Int)
          /\ Len(SubSeq(first.rest, over + 1, rest)) = rest - over
          /\ \A k \in 1..(rest - over) : SubSeq(first.rest, over + 1, rest)[k] = first.rest[over + k]
      <4>1. rest \in Nat /\ over \in Nat /\ over <= rest /\ rest <= Len(first.rest)
        BY <1>4, <1>5, <1>6
      <4> QED
        BY <1>5, <4>1, PartOfSeq
    <3> QED
      BY <1>9, <2>1, <3>1
  <2>3. ASSUME NEW k \in 1..m PROVE mid[k] = p[n1 + over + k]
    <3>1. over + k \in 1..rest /\ n1 + (over + k) = n1 + over + k
      <4>1. rest \in Nat /\ over \in Nat /\ m \in Nat /\ n1 \in Nat /\ m = rest - over /\ over <= rest
        BY <1>3, <1>4, <1>6, <1>9, Zenon
      <4> QED
        BY <4>1
    <3>2. first.rest[over + k] = p[n1 + (over + k)]
      BY <1>3, <1>4, <3>1 DEF Fills
    <3> QED
      BY <2>2, <3>1, <3>2
  <2> QED
    BY <2>2, <2>3
<1>11. PICK last : last = Rings!fill(suffix, mid)
  OBVIOUS
<1>12. PICK n2 \in Nat : /\ n2 = IF m <= N - Len(suffix) THEN m ELSE N - Len(suffix)
                         /\ Fills(last, suffix, mid, n2)
  BY <1>1, <1>10, <1>11, FillMoves
<1>13. PICK n \in Nat : n = m - n2
  <2>1. m - n2 \in Nat
    BY <1>1, <1>9, <1>12
  <2> QED
    BY <2>1
<1>14. n = Len(last.rest)
  BY <1>10, <1>12, <1>13 DEF Fills
<1>15. /\ prefix' = first.dst
       /\ suffix' = [k \in DOMAIN last.dst |->
                       IF (k - 1 - suffixOff + N) % N < n THEN last.rest[((k - 1 - suffixOff + N) % N) + 1]
                       ELSE last.dst[k]]
       /\ suffixOff' = IF N = 0 THEN 0 ELSE (suffixOff + n) % N
       /\ skipped' = skipped + over + n
       /\ written' = written \o p
  BY <1>2, <1>7, <1>8, <1>11, <1>14 DEF Rings!Write, Rings!skippedAfter
<1>16. /\ written' \in Seq(Int) /\ Len(written') = Len(written) + Len(p)
       /\ \A k \in 1..Len(written) : written'[k] = written[k]
       /\ \A k \in 1..Len(p) : written'[Len(written) + k] = p[k]
  BY <1>1, <1>15, Joined
<1>17. PICK ls \in Nat : ls = Len(suffix) + n2
  <2>1. Len(suffix) + n2 \in Nat
    BY <1>1, <1>12
  <2> QED
    BY <2>1
<1>18. DOMAIN last.dst = 1..ls
  BY <1>12, <1>17, LenProperties DEF Fills
<1>19. PICK len, plen, room, pre, before, off, skip \in Nat :
         /\ len = Len(written) /\ plen = Len(p) /\ room = N /\ pre = Len(prefix)
         /\ before = Len(suffix) /\ off = suffixOff /\ skip = skipped
  BY <1>1
\* The numbers, before and after.
<1>20. PICK w : w = [len |-> len, plen |-> plen, room |-> room, pre |-> pre, before |-> before,
                     off |-> off, skip |-> skip, n1 |-> n1, over |-> over, n2 |-> n2, n |-> n]
  OBVIOUS
<1>21. /\ w.len = len /\ w.plen = plen /\ w.room = room /\ w.pre = pre /\ w.before = before
       /\ w.off = off /\ w.skip = skip /\ w.n1 = n1 /\ w.over = over /\ w.n2 = n2 /\ w.n = n
  BY <1>20
<1>22. /\ pre = IF len <= room THEN len ELSE room
       /\ before = IF len <= room THEN 0 ELSE IF len <= 2 * room THEN len - room ELSE room
       /\ skip = IF len <= 2 * room THEN 0 ELSE len - 2 * room
       /\ (room > 0 => off < room) /\ (skip = 0 => off = 0)
  BY <1>19 DEF SaverInv
<1>23. WriteNumbers(w)
  <2>2. n1 = IF plen <= room - pre THEN plen ELSE room - pre
    BY <1>3, <1>19
  <2>3. over = IF plen - n1 <= room THEN 0 ELSE plen - n1 - room
    BY <1>4, <1>6, <1>19
  <2>4. m = plen - n1 - over
    BY <1>4, <1>9, <1>19
  <2>5. n2 = IF plen - n1 - over <= room - before THEN plen - n1 - over ELSE room - before
    BY <1>12, <1>19, <2>4
  <2>6. n = plen - n1 - over - n2
    BY <1>13, <2>4
  <2> QED
    BY <1>21, <1>22, <2>2, <2>3, <2>5, <2>6 DEF WriteNumbers
<1>24. /\ pre + n1 = IF len + plen <= room THEN len + plen ELSE room
       /\ before + n2 = IF len + plen <= room THEN 0
                        ELSE IF len + plen <= 2 * room THEN len + plen - room ELSE room
       /\ skip + over + n = IF len + plen <= 2 * room THEN 0 ELSE len + plen - 2 * room
       /\ n1 > 0 => pre = len
       /\ pre <= len /\ n <= room /\ before + n2 <= room /\ before <= len
       /\ before + n2 < room => n = 0 /\ over = 0 /\ off = 0
  BY <1>21, <1>23, NumbersAfter
<1>25. (room > 0 => off < room) /\ (skip = 0 => off = 0)
  BY <1>22
<1>26. PICK off2 \in Nat :
         /\ off2 = suffixOff'
         /\ room > 0 => off2 = IF off + n < room THEN off + n ELSE off + n - room
         /\ room > 0 => off2 < room
         /\ skip + over + n = 0 => off2 = 0
  <2>1. CASE room = 0
    BY <1>15, <1>19, <2>1
  <2>2. CASE room > 0
    <3>1. off + n \in 0..(2 * room - 1)
      BY <1>24, <1>25, <2>2
    <3>2. (off + n) % room = IF off + n < room THEN off + n ELSE off + n - room
      BY <2>2, <3>1, WrapOnce
    <3>3. suffixOff' = (off + n) % room
      BY <1>15, <1>19, <2>2
    <3>4. PICK o \in Nat : o = IF off + n < room THEN off + n ELSE off + n - room
      <4>1. (IF off + n < room THEN off + n ELSE off + n - room) \in Nat
        OBVIOUS
      <4> QED
        BY <4>1, Zenon
    <3>5. o < room /\ (skip + over + n = 0 => o = 0)
      BY <1>24, <1>25, <2>2, <3>1, <3>4
    <3> QED
      BY <2>2, <3>2, <3>3, <3>4, <3>5
  <2> QED
    BY <2>1, <2>2
<1>27. /\ prefix' \in Seq(Int) /\ Len(prefix') = pre + n1
       /\ \A k \in 1..Len(prefix') : prefix'[k] = written'[k]
  <2>1. prefix' \in Seq(Int) /\ Len(prefix') = pre + n1
    BY <1>3, <1>15, <1>19 DEF Fills
  <2>2. ASSUME NEW k \in 1..Len(prefix') PROVE prefix'[k] = written'[k]
    <3>1. CASE k <= pre
      <4>1. k \in 1..pre /\ k \in 1..len
        BY <1>24, <2>1, <3>1
      <4>2. prefix'[k] = prefix[k]
        BY <1>3, <1>15, <1>19, <4>1 DEF Fills
      <4>3. prefix[k] = written[k]
        BY <1>19, <4>1 DEF SaverInv
      <4> QED
        BY <1>16, <1>19, <4>1, <4>2, <4>3
    <3>2. CASE k > pre
      <4>1. PICK j \in 1..n1 : k = pre + j /\ j \in 1..plen /\ pre = len
        <5>1. k - pre \in 1..n1 /\ k = pre + (k - pre) /\ pre = len
          BY <1>24, <2>1, <3>2
        <5>2. n1 <= plen
          BY <1>3, <1>19
        <5> QED
          BY <5>1, <5>2
      <4>2. prefix'[k] = p[j]
        BY <1>3, <1>15, <1>19, <4>1 DEF Fills
      <4> QED
        BY <1>16, <1>19, <4>1, <4>2
    <3> QED
      BY <2>1, <3>1, <3>2
  <2> QED
    BY <2>1, <2>2
\* The byte suffix has at k.
<1>28. ASSUME NEW k \in 1..ls,
              NEW back \in Nat, back = IF k > off THEN k - 1 - off ELSE k - 1 - off + room
       PROVE  /\ suffix'[k] = IF back < n THEN last.rest[back + 1] ELSE last.dst[k]
              /\ suffix'[k] \in Int
              /\ suffix'[k] = written'[len + plen - ls + 1 + Age(k)']
  <2>1. ls = before + n2 /\ ls <= room /\ room > 0 /\ off < room
    BY <1>17, <1>19, <1>24, <1>25
  <2>2. (k - 1 - off + room) % room = back
    <3>1. k - 1 - off + room \in 0..(2 * room - 1)
      BY <2>1
    <3>2. PICK a \in 0..(2 * room - 1) : a = k - 1 - off + room
      BY <3>1
    <3>3. a % room = IF a < room THEN a ELSE a - room
      BY <2>1, WrapOnce
    <3>4. (IF a < room THEN a ELSE a - room) = back
      BY <2>1, <3>2, <1>28
    <3> QED
      BY <3>2, <3>3, <3>4
  <2>3. suffix'[k] = IF back < n THEN last.rest[back + 1] ELSE last.dst[k]
    BY <1>15, <1>18, <1>19, <2>2
  <2>4. PICK age \in Int : age = IF k > off2 THEN k - 1 - off2 ELSE k - 1 - off2 + room
    <3>1. (IF k > off2 THEN k - 1 - off2 ELSE k - 1 - off2 + room) \in Int
      OBVIOUS
    <3> QED
      BY <3>1, Zenon
  <2>5. Age(k)' = age
    BY <1>1, <1>19, <1>26, <2>4 DEF Age
  <2>6. PICK place \in Int : place = len + plen - (before + n2) + 1 + age
    <3>1. len + plen - (before + n2) + 1 + age \in Int
      BY <2>4
    <3> QED
      BY <3>1, Zenon
  <2>7. place = len + plen - ls + 1 + Age(k)'
    BY <2>1, <2>5, <2>6
  <2>8. /\ back < n =>
             /\ place = len + (n1 + over + (n2 + (back + 1)))
             /\ n1 + over + (n2 + (back + 1)) \in 1..plen
        /\ back >= n /\ k <= before => place = len - before + 1 + back /\ place \in 1..len
        /\ back >= n /\ k > before =>
             /\ place = len + (n1 + over + (k - before))
             /\ n1 + over + (k - before) \in 1..plen /\ k - before \in 1..n2
    <3>1. place = PlaceAfter(w, k)
      <4>1. OffAfter(w) = off2
        BY <1>26, <1>21, <2>1 DEF OffAfter
      <4>2. AgeFrom(OffAfter(w), w.room, k) = age
        BY <1>21, <2>4, <4>1 DEF AgeFrom
      <4> QED
        BY <1>21, <2>6, <4>2 DEF PlaceAfter
    <3>2. k \in 1..(w.before + w.n2) /\ back = AgeFrom(w.off, w.room, k)
      BY <1>28, <1>21, <2>1 DEF AgeFrom
    <3>3. /\ back < w.n =>
               /\ place = w.len + (w.n1 + w.over + (w.n2 + (back + 1)))
               /\ w.n1 + w.over + (w.n2 + (back + 1)) \in 1..w.plen
          /\ back >= w.n /\ k <= w.before => place = w.len - w.before + 1 + back /\ place \in 1..w.len
          /\ back >= w.n /\ k > w.before =>
               /\ place = w.len + (w.n1 + w.over + (k - w.before))
               /\ w.n1 + w.over + (k - w.before) \in 1..w.plen /\ k - w.before \in 1..w.n2
      BY <1>23, <2>6, <3>1, <3>2, WhereFrom, SMTT(60)
    <3> QED
      BY <1>21, <3>3
  <2>9. m = n2 + n
    BY <1>13
  <2>10. suffix'[k] = written'[place] /\ place \in 1..(len + plen)
    <3>1. CASE back < n
      <4>1. last.rest[back + 1] = mid[n2 + (back + 1)]
        <5>1. back + 1 \in 1..(Len(mid) - n2)
          BY <1>10, <1>13, <3>1
        <5> QED
          BY <1>12, <5>1 DEF Fills
      <4>2. mid[n2 + (back + 1)] = p[n1 + over + (n2 + (back + 1))]
        <5>1. n2 + (back + 1) \in 1..m
          BY <2>9, <3>1
        <5> QED
          BY <1>10, <5>1
      <4>3. PICK j \in 1..plen : j = n1 + over + (n2 + (back + 1)) /\ place = len + j
        BY <2>8, <3>1
      <4>4. written'[len + j] = p[j]
        BY <1>16, <1>19, <4>3
      <4>5. len + j \in 1..(len + plen)
        BY <4>3
      <4> QED
        BY <2>3, <3>1, <4>1, <4>2, <4>3, <4>4, <4>5
    <3>2. CASE back >= n /\ k <= before
      <4>1. last.dst[k] = suffix[k]
        BY <1>12, <1>19, <3>2 DEF Fills
      <4>2. suffix[k] = written[len - before + 1 + Age(k)]
        <5>1. k \in 1..Len(suffix)
          BY <1>19, <3>2
        <5>2. \A i \in 1..Len(suffix) :
                suffix[i] = written[Len(written) - Len(suffix) + 1 + Age(i)]
          BY DEF SaverInv
        <5> QED
          BY <1>19, <5>1, <5>2
      <4>3. Age(k) = back
        BY <1>19, <1>28 DEF Age
      <4>4. place = len - before + 1 + back /\ place \in 1..len
        BY <2>8, <3>2
      <4>5. written'[place] = written[place]
        BY <1>16, <1>19, <4>4
      <4>6. ~(back < n) /\ place \in 1..(len + plen)
        BY <3>2, <4>4
      <4> QED
        BY <2>3, <4>1, <4>2, <4>3, <4>4, <4>5, <4>6
    <3>3. CASE back >= n /\ k > before
      <4>1. PICK i \in 1..n2 : i = k - before /\ k = before + i
        <5>1. k - before \in 1..n2 /\ k = before + (k - before)
          BY <2>8, <3>3
        <5> QED
          BY <5>1
      <4>2. last.dst[k] = mid[i]
        BY <1>12, <1>19, <4>1 DEF Fills
      <4>3. mid[i] = p[n1 + over + i]
        <5>1. i \in 1..m
          BY <2>9, <4>1
        <5> QED
          BY <1>10, <5>1
      <4>4. PICK j \in 1..plen : j = n1 + over + i /\ place = len + j
        BY <2>8, <3>3, <4>1
      <4>5. written'[len + j] = p[j]
        BY <1>16, <1>19, <4>4
      <4>6. ~(back < n) /\ len + j \in 1..(len + plen)
        BY <3>3, <4>4
      <4> QED
        BY <2>3, <4>2, <4>3, <4>4, <4>5, <4>6
    <3> QED
      BY <3>1, <3>2, <3>3
  <2>11. written'[place] \in Int
    BY <1>16, <1>19, <2>10, ElementOfSeq
  <2> QED
    BY <2>3, <2>7, <2>10, <2>11
<1>29. /\ suffix' \in Seq(Int) /\ Len(suffix') = ls
       /\ \A k \in 1..ls : suffix'[k] = written'[len + plen - ls + 1 + Age(k)']
  <2>1. ASSUME NEW k \in 1..ls
        PROVE  suffix'[k] \in Int /\ suffix'[k] = written'[len + plen - ls + 1 + Age(k)']
    <3>1. PICK back \in Nat : back = IF k > off THEN k - 1 - off ELSE k - 1 - off + room
      <4>1. ls <= room /\ room > 0 /\ off < room
        BY <1>17, <1>19, <1>24, <1>25
      <4>2. (IF k > off THEN k - 1 - off ELSE k - 1 - off + room) \in Nat
        BY <4>1
      <4> QED
        BY <4>2, Zenon
    <3> QED
      BY <1>28, <3>1
  <2>2. suffix' = [k \in 1..ls |-> suffix'[k]]
    <3>1. DOMAIN suffix' = 1..ls
      BY <1>15, <1>18
    <3>2. \A f, S : f = [k \in S |->
                       IF (k - 1 - suffixOff + N) % N < n THEN last.rest[((k - 1 - suffixOff + N) % N) + 1]
                       ELSE last.dst[k]] => f = [k \in S |-> f[k]]
      BY Zenon
    <3> QED
      BY <1>15, <1>18, <3>2
  <2>3. suffix' \in [1..ls -> Int]
    BY <2>1, <2>2
  <2>4. suffix' \in Seq(Int)
    BY <2>3, SeqDef
  <2>5. Len(suffix') = ls
    BY <2>3, <2>4, LenProperties
  <2> QED
    BY <2>1, <2>4, <2>5
<1>30. Len(written') = len + plen /\ Len(suffix') = before + n2 /\ ls = before + n2
  BY <1>16, <1>17, <1>19, <1>29
<1>31. N' = room /\ skipped' = skip + over + n
  BY <1>1, <1>15, <1>19
<1>32. \A k \in 1..Len(suffix') : suffix'[k] = written'[Len(written') - Len(suffix') + 1 + Age(k)']
  BY <1>29, <1>30
<1>33. /\ N' \in Nat /\ written' \in Seq(Int) /\ prefix' \in Seq(Int) /\ suffix' \in Seq(Int)
       /\ Len(prefix') = IF Len(written') <= N' THEN Len(written') ELSE N'
       /\ Len(suffix') = IF Len(written') <= N' THEN 0
                         ELSE IF Len(written') <= 2 * N' THEN Len(written') - N' ELSE N'
       /\ skipped' = IF Len(written') <= 2 * N' THEN 0 ELSE Len(written') - 2 * N'
  BY <1>16, <1>19, <1>24, <1>27, <1>29, <1>30, <1>31
<1>34. suffixOff' \in Nat /\ (N' > 0 => suffixOff' < N') /\ (skipped' = 0 => suffixOff' = 0)
  BY <1>19, <1>26, <1>31
<1> QED
  BY <1>27, <1>32, <1>33, <1>34 DEF SaverInv


\* The bytes of a full suffix, read from suffixOff on, are the last ones of the
\* stream.
LEMMA SuffixUnrolled ==
  ASSUME SaverInv, Len(written) > 2 * N, N > 0
  PROVE  /\ SubSeq(suffix, suffixOff + 1, Len(suffix)) \in Seq(Int)
         /\ SubSeq(suffix, 1, suffixOff) \in Seq(Int)
         /\ SubSeq(suffix, suffixOff + 1, Len(suffix)) \o SubSeq(suffix, 1, suffixOff)
              = SubSeq(written, Len(written) - N + 1, Len(written))
<1>1. PICK len, room, off \in Nat : /\ len = Len(written) /\ room = N /\ off = suffixOff
                                    /\ len > 2 * room /\ off < room
  BY LenProperties DEF SaverInv
<1>2. written \in Seq(Int) /\ suffix \in Seq(Int) /\ Len(suffix) = room
  BY <1>1 DEF SaverInv
<1>3. PICK a : a = SubSeq(suffix, off + 1, room)
  OBVIOUS
<1>4. PICK b : b = SubSeq(suffix, 1, off)
  OBVIOUS
<1>5. PICK c : c = SubSeq(written, len - room + 1, len)
  OBVIOUS
<1>6. a \in Seq(Int) /\ Len(a) = room - off /\ \A k \in 1..(room - off) : a[k] = suffix[off + k]
  <2>1. off <= room /\ room <= Len(suffix)
    BY <1>1, <1>2
  <2> QED
    BY <1>2, <1>3, <2>1, PartOfSeq
<1>7. b \in Seq(Int) /\ Len(b) = off /\ \A k \in 1..off : b[k] = suffix[k]
  <2>1. /\ SubSeq(suffix, 0 + 1, off) \in Seq(Int) /\ Len(SubSeq(suffix, 0 + 1, off)) = off - 0
        /\ \A k \in 1..(off - 0) : SubSeq(suffix, 0 + 1, off)[k] = suffix[0 + k]
    BY <1>1, <1>2, PartOfSeq
  <2>2. 0 + 1 = 1 /\ off - 0 = off /\ \A k \in 1..off : 0 + k = k
    OBVIOUS
  <2> QED
    BY <1>4, <2>1, <2>2
<1>8. c \in Seq(Int) /\ Len(c) = room /\ \A k \in 1..room : c[k] = written[len - room + k]
  <2>1. PICK i \in Nat : i = len - room /\ i <= len /\ len - i = room
    <3>1. len - room \in Nat /\ len - room <= len /\ len - (len - room) = room
      BY <1>1
    <3> QED
      BY <3>1
  <2>2. /\ SubSeq(written, i + 1, len) \in Seq(Int) /\ Len(SubSeq(written, i + 1, len)) = len - i
        /\ \A k \in 1..(len - i) : SubSeq(written, i + 1, len)[k] = written[i + k]
    BY <1>1, <1>2, <2>1, PartOfSeq, SMTT(60)
  <2> QED
    BY <1>5, <2>1, <2>2
<1>9. /\ a \o b \in Seq(Int) /\ Len(a \o b) = Len(a) + Len(b)
      /\ \A k \in 1..Len(a) : (a \o b)[k] = a[k]
      /\ \A k \in 1..Len(b) : (a \o b)[Len(a) + k] = b[k]
  BY <1>6, <1>7, Joined
<1>10. ASSUME NEW i \in 1..room
       PROVE  suffix[i] = written[len - room + 1 + (IF i > off THEN i - 1 - off ELSE i - 1 - off + room)]
  <2>1. \A k \in 1..Len(suffix) : suffix[k] = written[Len(written) - Len(suffix) + 1 + Age(k)]
    BY DEF SaverInv
  <2>2. Age(i) = IF i > off THEN i - 1 - off ELSE i - 1 - off + room
    BY <1>1 DEF Age
  <2> QED
    BY <1>1, <1>2, <2>1, <2>2
<1>11. ASSUME NEW k \in 1..room PROVE (a \o b)[k] = c[k]
  <2>1. CASE k <= room - off
    <3>1. PICK i \in 1..room : i = off + k
      <4>1. off + k \in 1..room
        BY <2>1
      <4> QED
        BY <4>1
    <3>2. (a \o b)[k] = suffix[i]
      BY <1>6, <1>9, <2>1, <3>1
    <3>3. len - room + 1 + (IF i > off THEN i - 1 - off ELSE i - 1 - off + room) = len - room + k
      BY <3>1
    <3>4. suffix[i] = written[len - room + 1 + (IF i > off THEN i - 1 - off ELSE i - 1 - off + room)]
      BY <1>10
    <3> QED
      BY <1>8, <3>2, <3>3, <3>4
  <2>2. CASE ~(k <= room - off)
    <3>1. PICK i \in 1..off : i = k - (room - off) /\ k = (room - off) + i /\ i \in 1..room
      <4>1. /\ k - (room - off) \in 1..off /\ k = (room - off) + (k - (room - off))
            /\ k - (room - off) \in 1..room
        BY <1>1, <2>2
      <4> QED
        BY <4>1
    <3>2. (a \o b)[k] = suffix[i]
      BY <1>6, <1>7, <1>9, <3>1, SMTT(60)
    <3>3. len - room + 1 + (IF i > off THEN i - 1 - off ELSE i - 1 - off + room) = len - room + k
      BY <3>1
    <3>4. suffix[i] = written[len - room + 1 + (IF i > off THEN i - 1 - off ELSE i - 1 - off + room)]
      BY <1>10, <3>1
    <3> QED
      BY <1>8, <3>2, <3>3, <3>4
  <2> QED
    BY <2>1, <2>2
<1>12. Len(a \o b) = room
  BY <1>1, <1>6, <1>7, <1>9
<1>13. a \o b = c
  <2>1. Len(a \o b) = Len(c) /\ \A k \in 1..Len(a \o b) : (a \o b)[k] = c[k]
    BY <1>8, <1>11, <1>12
  <2> QED
    BY <1>8, <1>9, <2>1, SeqEqual
<1> QED
  BY <1>1, <1>2, <1>3, <1>4, <1>5, <1>6, <1>7, <1>13

\* Both ends of the stream come back.
LEMMA SaverInvExact == SaverInv => Rings!SaverExact
<1> SUFFICES ASSUME SaverInv
             PROVE  Rings!Bytes = IF N = 0 THEN <<>>
                                  ELSE IF Len(written) <= 2 * N THEN written
                                  ELSE SubSeq(written, 1, N) \o Rings!Omitting(Len(written) - 2 * N)
                                       \o SubSeq(written, Len(written) - N + 1, Len(written))
  BY DEF Rings!SaverExact
<1>1. /\ N \in Nat /\ written \in Seq(Int) /\ prefix \in Seq(Int) /\ suffix \in Seq(Int)
      /\ Len(written) \in Nat /\ Len(prefix) \in Nat /\ Len(suffix) \in Nat
  BY LenProperties DEF SaverInv
<1>2. suffix = <<>> <=> Len(suffix) = 0
  BY <1>1, EmptySeq
<1>3. prefix = <<>> <=> Len(prefix) = 0
  BY <1>1, EmptySeq
<1>4. PICK len, room, pre, before, skip \in Nat :
        /\ len = Len(written) /\ room = N /\ pre = Len(prefix) /\ before = Len(suffix)
        /\ skip = skipped
  <2>1. skipped \in Nat
    BY <1>1 DEF SaverInv
  <2> QED
    BY <1>1, <2>1
<1>5. /\ pre = IF len <= room THEN len ELSE room
      /\ before = IF len <= room THEN 0 ELSE IF len <= 2 * room THEN len - room ELSE room
      /\ skip = IF len <= 2 * room THEN 0 ELSE len - 2 * room
      /\ skip = 0 => suffixOff = 0
  BY <1>4 DEF SaverInv
<1>6. CASE Len(suffix) = 0
  <2>1. Rings!Bytes = prefix
    BY <1>2, <1>6 DEF Rings!Bytes
  <2>2. CASE N = 0
    <3>1. Len(prefix) = 0
      BY <1>4, <1>5, <2>2
    <3> QED
      BY <1>3, <2>1, <2>2, <3>1
  <2>3. CASE N # 0
    <3>1. Len(written) <= N /\ Len(prefix) = Len(written)
      <4>1. len <= room /\ pre = len
        BY <1>6, <1>4, <1>5, <2>3
      <4> QED
        BY <1>4, <4>1
    <3>2. \A k \in 1..Len(prefix) : prefix[k] = written[k]
      BY DEF SaverInv
    <3>3. prefix = written
      BY <1>1, <3>1, <3>2, SeqEqual
    <3>4. Len(written) <= 2 * N /\ N # 0
      BY <1>1, <2>3, <3>1
    <3> QED
      BY <2>1, <3>3, <3>4
  <2> QED
    BY <2>2, <2>3
<1>7. CASE Len(suffix) > 0 /\ skipped = 0
  <2>1. /\ Len(written) > N /\ Len(written) <= 2 * N /\ N > 0 /\ Len(prefix) = N
        /\ Len(suffix) = Len(written) - N /\ suffixOff = 0
    <3>1. /\ len > room /\ len <= 2 * room /\ room > 0 /\ pre = room /\ before = len - room
          /\ suffixOff = 0
      BY <1>7, <1>4, <1>5
    <3> QED
      BY <1>4, <3>1
  <2>2. Rings!Bytes = prefix \o suffix
    <3>1. suffix # <<>>
      BY <1>2, <1>7
    <3> QED
      BY <1>7, <3>1 DEF Rings!Bytes
  <2>3. /\ prefix \o suffix \in Seq(Int) /\ Len(prefix \o suffix) = Len(written)
        /\ \A k \in 1..Len(prefix) : (prefix \o suffix)[k] = prefix[k]
        /\ \A k \in 1..Len(suffix) : (prefix \o suffix)[Len(prefix) + k] = suffix[k]
    <3>1. /\ prefix \o suffix \in Seq(Int) /\ Len(prefix \o suffix) = Len(prefix) + Len(suffix)
          /\ \A k \in 1..Len(prefix) : (prefix \o suffix)[k] = prefix[k]
          /\ \A k \in 1..Len(suffix) : (prefix \o suffix)[Len(prefix) + k] = suffix[k]
      BY <1>1, Joined
    <3>2. Len(prefix) + Len(suffix) = Len(written)
      BY <1>1, <2>1
    <3> QED
      BY <3>1, <3>2
  <2>4. ASSUME NEW k \in 1..Len(written) PROVE (prefix \o suffix)[k] = written[k]
    <3>1. CASE k <= N
      <4>1. k \in 1..Len(prefix)
        BY <1>1, <2>1, <3>1
      <4>2. \A j \in 1..Len(prefix) : prefix[j] = written[j]
        BY DEF SaverInv
      <4> QED
        BY <2>3, <4>1, <4>2
    <3>2. CASE ~(k <= N)
      <4>1. PICK j \in 1..Len(suffix) : k = Len(prefix) + j
        <5>1. k - Len(prefix) \in 1..Len(suffix) /\ k = Len(prefix) + (k - Len(prefix))
          BY <1>1, <2>1, <3>2
        <5> QED
          BY <5>1
      <4>2. suffix[j] = written[Len(written) - Len(suffix) + 1 + Age(j)]
        BY <4>1 DEF SaverInv
      <4>3. Age(j) = j - 1
        BY <2>1, <4>1 DEF Age
      <4>4. Len(written) - Len(suffix) + 1 + (j - 1) = k
        BY <1>1, <2>1, <4>1
      <4> QED
        BY <2>3, <4>1, <4>2, <4>3, <4>4
    <3> QED
      BY <3>1, <3>2
  <2>5. prefix \o suffix = written
    BY <1>1, <2>3, <2>4, SeqEqual
  <2> QED
    BY <1>1, <2>1, <2>2, <2>5
<1>8. CASE Len(suffix) > 0 /\ skipped # 0
  <2>1. /\ Len(written) > 2 * N /\ N > 0 /\ Len(prefix) = N /\ skipped = Len(written) - 2 * N
        /\ N <= Len(written)
    <3>1. len > 2 * room /\ room > 0 /\ pre = room /\ skip = len - 2 * room /\ room <= len
      <4>1. before > 0 /\ skip # 0
        BY <1>8, <1>4
      <4>2. len > 2 * room
        BY <1>5, <4>1
      <4> QED
        BY <1>5, <4>1, <4>2
    <3> QED
      BY <1>4, <3>1
  <2>2. PICK a : a = SubSeq(suffix, suffixOff + 1, Len(suffix))
    OBVIOUS
  <2>3. PICK b : b = SubSeq(suffix, 1, suffixOff)
    OBVIOUS
  <2>4. PICK o : o = Rings!Omitting(skipped)
    OBVIOUS
  <2>5. Rings!Bytes = ((prefix \o o) \o a) \o b
    <3>1. suffix # <<>>
      BY <1>2, <1>8
    <3> QED
      BY <1>8, <2>2, <2>3, <2>4, <3>1 DEF Rings!Bytes
  <2>6. a \in Seq(Int) /\ b \in Seq(Int) /\ a \o b = SubSeq(written, Len(written) - N + 1, Len(written))
    BY <2>1, <2>2, <2>3, SuffixUnrolled
  <2>7. prefix = SubSeq(written, 1, N)
    <3>1. /\ SubSeq(written, 0 + 1, N) \in Seq(Int) /\ Len(SubSeq(written, 0 + 1, N)) = N - 0
          /\ \A k \in 1..(N - 0) : SubSeq(written, 0 + 1, N)[k] = written[0 + k]
      BY <1>1, <2>1, PartOfSeq
    <3>2. 0 + 1 = 1 /\ N - 0 = N /\ \A k \in 1..N : 0 + k = k
      BY <1>1
    <3>3. PICK c \in Seq(Int) : c = SubSeq(written, 1, N) /\ Len(c) = N /\ \A k \in 1..N : c[k] = written[k]
      BY <3>1, <3>2
    <3>4. \A k \in 1..Len(prefix) : prefix[k] = written[k]
      BY DEF SaverInv
    <3>5. prefix = c
      BY <1>1, <2>1, <3>3, <3>4, SeqEqual
    <3> QED
      BY <3>3, <3>5
  <2>8. PICK S : S = Int \cup {"... omitting n bytes ..."}
    OBVIOUS
  <2>9. o \in Seq(S)
    <3>1. skipped \in Int
      BY <1>1, <2>1
    <3>3. skipped \in S /\ "... omitting n bytes ..." \in S
      BY <2>8, <3>1, Zenon
    <3>2. o = <<"... omitting n bytes ...", skipped>>
      BY <2>4 DEF Rings!Omitting
    <3>4. \A x, y \in S : <<x, y>> \in Seq(S)
      OBVIOUS
    <3> QED
      BY <3>2, <3>3, <3>4, Zenon
  <2>10. prefix \in Seq(S) /\ a \in Seq(S) /\ b \in Seq(S)
    <3>1. \A s \in Seq(Int) : s \in Seq(S)
      <4> SUFFICES ASSUME NEW s \in Seq(Int) PROVE s \in Seq(S)
        OBVIOUS
      <4>1. Len(s) \in Nat /\ s \in [1..Len(s) -> Int]
        BY LenProperties
      <4>2. s \in [1..Len(s) -> S]
        BY <2>8, <4>1
      <4> QED
        BY <4>1, <4>2, SeqDef
    <3> QED
      BY <1>1, <2>6, <3>1
  <2>11. ((prefix \o o) \o a) \o b = (prefix \o o) \o (a \o b)
    <3>1. prefix \o o \in Seq(S)
      BY <2>9, <2>10, ConcatProperties
    <3> QED
      BY <2>10, <3>1, ConcatAssociative, SMTT(60)
  <2>12. Rings!Bytes = (SubSeq(written, 1, N) \o Rings!Omitting(Len(written) - 2 * N))
                       \o SubSeq(written, Len(written) - N + 1, Len(written))
    BY <2>1, <2>4, <2>5, <2>6, <2>7, <2>11
  <2>13. N # 0 /\ ~(Len(written) <= 2 * N)
    BY <1>1, <2>1
  <2> QED
    BY <2>12, <2>13
<1>9. Len(suffix) = 0 \/ Len(suffix) > 0
  BY <1>1
<1> QED
  BY <1>6, <1>7, <1>8, <1>9, Zenon

\* Roll keeps the window and its sums: the newest byte takes the place of the
\* oldest of the window, and every other byte is one older.
LEMMA RollStep ==
  ASSUME RollInv, NEW ch \in 0..255, Rings!Roll(ch)
  PROVE  RollInv'
<1>1. PICK a, b, c, d \in 0..255 : /\ a = Rings!Newest(1) /\ b = Rings!Newest(2)
                                   /\ c = Rings!Newest(3) /\ d = Rings!Newest(4)
  <2>1. \A k \in 1..4 : Rings!Newest(k) \in 0..255
    <3> SUFFICES ASSUME NEW k \in 1..4 PROVE Rings!Newest(k) \in 0..255
      OBVIOUS
    <3>1. written \in Seq(0..255) /\ Len(written) \in Nat
      BY LenProperties DEF RollInv
    <3>2. CASE k <= Len(written)
      <4>1. Len(written) - k + 1 \in 1..Len(written)
        BY <3>1, <3>2
      <4> QED
        BY <3>1, <3>2, <4>1, ElementOfSeq DEF Rings!Newest
    <3>3. CASE ~(k <= Len(written))
      BY <3>3 DEF Rings!Newest
    <3> QED
      BY <3>2, <3>3
  <2>2. 1 \in 1..4 /\ 2 \in 1..4 /\ 3 \in 1..4 /\ 4 \in 1..4
    OBVIOUS
  <2> QED
    BY <2>1, <2>2, Zenon
<1>2. /\ wofs \in 0..3 /\ window \in [0..3 -> 0..255]
      /\ window[(wofs + 3) % 4] = a /\ window[(wofs + 2) % 4] = b
      /\ window[(wofs + 1) % 4] = c /\ window[wofs] = d
      /\ s1 = (a + b + c + d + 124) % 256 /\ s2 = (a + 2 * b + 3 * c + 4 * d + 372) % 256
  <2>1. wofs \in 0..3 /\ window \in [0..3 -> 0..255]
    BY DEF RollInv
  <2>2. \A k \in 1..4 : window[(wofs + 4 - k) % 4] = Rings!Newest(k)
    BY DEF RollInv
  <2>3. window[(wofs + 3) % 4] = a /\ window[(wofs + 2) % 4] = b
    BY <1>1, <2>1, <2>2
  <2>4. window[(wofs + 1) % 4] = c /\ window[wofs % 4] = d
    BY <1>1, <2>1, <2>2
  <2>5. wofs % 4 = wofs
    BY <2>1
  <2>6. s1 = (a + b + c + d + 124) % 256 /\ s2 = (a + 2 * b + 3 * c + 4 * d + 372) % 256
    BY <1>1 DEF RollInv
  <2> QED
    BY <2>1, <2>3, <2>4, <2>5, <2>6
<1>3. /\ written' \in Seq(0..255)
      /\ Rings!Newest(1)' = ch /\ Rings!Newest(2)' = a /\ Rings!Newest(3)' = b /\ Rings!Newest(4)' = c
  <2>1. written \in Seq(0..255) /\ Len(written) \in Nat
    BY LenProperties DEF RollInv
  <2>2. /\ written' \in Seq(0..255) /\ Len(written') = Len(written) + 1
        /\ \A i \in 1..Len(written) : written'[i] = written[i]
        /\ written'[Len(written) + 1] = ch
    BY <2>1, AppendProperties DEF Rings!Roll
  <2>3. Rings!Newest(1)' = ch
    BY <2>1, <2>2 DEF Rings!Newest
  <2>4. ASSUME NEW k \in 1..3 PROVE Rings!Newest(k + 1)' = Rings!Newest(k)
    <3>1. CASE k <= Len(written)
      <4>1. /\ Len(written) - k + 1 \in 1..Len(written)
            /\ Len(written') - (k + 1) + 1 = Len(written) - k + 1 /\ k + 1 <= Len(written')
        BY <2>1, <2>2, <3>1
      <4>2. Rings!Newest(k + 1)' = written'[Len(written) - k + 1]
        BY <4>1 DEF Rings!Newest
      <4>3. Rings!Newest(k) = written[Len(written) - k + 1]
        BY <3>1 DEF Rings!Newest
      <4> QED
        BY <2>2, <4>1, <4>2, <4>3
    <3>2. CASE ~(k <= Len(written))
      <4>1. ~(k + 1 <= Len(written'))
        BY <2>1, <2>2, <3>2
      <4> QED
        BY <3>2, <4>1 DEF Rings!Newest
    <3> QED
      BY <3>1, <3>2
  <2>5. Rings!Newest(1 + 1)' = a /\ Rings!Newest(2 + 1)' = b /\ Rings!Newest(3 + 1)' = c
    BY <1>1, <2>4
  <2>6. 1 + 1 = 2 /\ 2 + 1 = 3 /\ 3 + 1 = 4
    OBVIOUS
  <2> QED
    BY <2>2, <2>3, <2>5, <2>6
<1>4. /\ s1' = (s1 + ch - d) % 256 /\ s2' = (s2 + s1' - 4 * (d + 31)) % 256
      /\ window' = [window EXCEPT ![wofs] = ch] /\ wofs' = (wofs + 1) % 4
  BY <1>2 DEF Rings!Roll, Rings!uint32, Rings!Word, Rings!windowSize, Rings!charOffset
<1>5. wofs' \in 0..3 /\ window' \in [0..3 -> 0..255]
  BY <1>2, <1>4
<1>6. s1' = (ch + a + b + c + 124) % 256
  BY <1>2, <1>4
<1>7. s2' = (ch + 2 * a + 3 * b + 4 * c + 372) % 256
  BY <1>2, <1>4, <1>6
<1>8. /\ window'[(wofs' + 3) % 4] = ch /\ window'[(wofs' + 2) % 4] = a
      /\ window'[(wofs' + 1) % 4] = b /\ window'[wofs' % 4] = c
  <2>1. /\ (wofs' + 3) % 4 = wofs /\ (wofs' + 2) % 4 = (wofs + 3) % 4
        /\ (wofs' + 1) % 4 = (wofs + 2) % 4 /\ wofs' % 4 = (wofs + 1) % 4
        /\ (wofs + 3) % 4 # wofs /\ (wofs + 2) % 4 # wofs /\ (wofs + 1) % 4 # wofs
        /\ (wofs + 3) % 4 \in 0..3 /\ (wofs + 2) % 4 \in 0..3 /\ (wofs + 1) % 4 \in 0..3
    BY <1>2, <1>4
  <2> QED
    BY <1>2, <1>4, <2>1
<1>9. ASSUME NEW k \in 1..4 PROVE window'[(wofs' + 4 - k) % 4] = Rings!Newest(k)'
  <2>1. CASE k = 1
    <3>1. wofs' + 4 - 1 = wofs' + 3
      BY <1>5
    <3> QED
      BY <1>3, <1>8, <2>1, <3>1
  <2>2. CASE k = 2
    <3>1. wofs' + 4 - 2 = wofs' + 2
      BY <1>5
    <3> QED
      BY <1>3, <1>8, <2>2, <3>1
  <2>3. CASE k = 3
    <3>1. wofs' + 4 - 3 = wofs' + 1
      BY <1>5
    <3> QED
      BY <1>3, <1>8, <2>3, <3>1
  <2>4. CASE k = 4
    <3>1. wofs' + 4 - 4 = wofs'
      <4>1. \A i \in 0..3 : i + 4 - 4 = i
        OBVIOUS
      <4> QED
        BY <1>5, <4>1, Zenon
    <3> QED
      BY <1>3, <1>8, <2>4, <3>1
  <2> QED
    BY <2>1, <2>2, <2>3, <2>4
<1>10. /\ s1' = (Rings!Newest(1)' + Rings!Newest(2)' + Rings!Newest(3)' + Rings!Newest(4)' + 4 * 31) % 256
       /\ s2' = (Rings!Newest(1)' + 2 * Rings!Newest(2)' + 3 * Rings!Newest(3)' + 4 * Rings!Newest(4)'
                 + 12 * 31) % 256
  <2>1. 4 * 31 = 124 /\ 12 * 31 = 372
    OBVIOUS
  <2> QED
    BY <1>3, <1>6, <1>7, <2>1
<1> QED
  BY <1>3, <1>5, <1>9, <1>10 DEF RollInv

\* The largest of some of the numbers up to 8.
LEMMA LargestUpTo8 ==
  ASSUME NEW S \in SUBSET (0..8), NEW n \in S
  PROVE  Rings!Max(S) \in S /\ Rings!Max(S) >= n
<1>1. \E x \in S : \A y \in S : x >= y
  OBVIOUS
<1>2. Rings!Max(S) \in S /\ \A y \in S : Rings!Max(S) >= y
  BY <1>1 DEF Rings!Max
<1> QED
  BY <1>2

\* A split of more bits is one of fewer, and its digest has as many ones.
LEMMA SplitBits ==
  ASSUME NEW u \in 0..255, NEW v \in 0..255
  PROVE  /\ v % 4 = 3 => v % 2 = 1
         /\ v % 8 = 7 => v % 2 = 1 /\ ((((u * 16) % 256) + (v % 16)) \div 4) % 2 = 1
         /\ v % 16 = 15 => v % 2 = 1 /\ ((((u * 16) % 256) + (v % 16)) \div 4) % 4 = 3
<1>1. PICK w \in 0..15 : (u * 16) % 256 = 16 * w
  <2>1. (u * 16) % 256 = 16 * (u % 16) /\ u % 16 \in 0..15
    OBVIOUS
  <2> QED
    BY <2>1
<1>2. v % 8 = 7 => v % 16 = 7 \/ v % 16 = 15
  OBVIOUS
<1>3. (16 * w + 7) \div 4 = 4 * w + 1 /\ (16 * w + 15) \div 4 = 4 * w + 3
  BY <1>1
<1>4. (4 * w + 1) % 2 = 1 /\ (4 * w + 3) % 2 = 1 /\ (4 * w + 3) % 4 = 3
  BY <1>1
<1>5. /\ v % 4 = 3 => v % 2 = 1
      /\ v % 8 = 7 => v % 2 = 1
      /\ v % 16 = 15 => v % 2 = 1
  OBVIOUS
<1> QED
  BY <1>1, <1>2, <1>3, <1>4, <1>5

\* The sums are those of the window, and a split of more bits has more of them.
LEMMA RollInvExact == RollInv => Rings!RollExact
<1> SUFFICES ASSUME RollInv PROVE Rings!RollExact
  OBVIOUS
<1> USE DEF Rings!uint32, Rings!Word, Rings!windowSize, Rings!charOffset, Rings!blobBits, Rings!Half
<1>1. PICK a, b, c, d \in Int : /\ a = Rings!Newest(1) /\ b = Rings!Newest(2)
                                /\ c = Rings!Newest(3) /\ d = Rings!Newest(4)
  <2>1. \A k \in 1..4 : window[(wofs + 4 - k) % 4] = Rings!Newest(k)
    BY DEF RollInv
  <2>2. wofs \in 0..3 /\ window \in [0..3 -> 0..255]
    BY DEF RollInv
  <2>3. \A k \in 1..4 : Rings!Newest(k) \in Int
    BY <2>1, <2>2
  <2>4. 1 \in 1..4 /\ 2 \in 1..4 /\ 3 \in 1..4 /\ 4 \in 1..4
    OBVIOUS
  <2> QED
    BY <2>3, <2>4, Zenon
<1>2. s1 = (a + b + c + d + 124) % 256 /\ s2 = (a + 2 * b + 3 * c + 4 * d + 372) % 256
  BY <1>1 DEF RollInv
<1>3. s1 \in 0..255 /\ s2 \in 0..255
  BY <1>2
<1>4. s1 = Rings!uint32(Rings!Over(LAMBDA k : Rings!Newest(k) + Rings!charOffset))
  BY <1>1, <1>2 DEF Rings!Over
<1>5. LET start == Rings!windowSize * (Rings!windowSize - 1) - Rings!Over(LAMBDA k : k)
      IN s2 = Rings!uint32(start * Rings!charOffset
                           + Rings!Over(LAMBDA k : k * (Rings!Newest(k) + Rings!charOffset)))
  BY <1>1, <1>2 DEF Rings!Over
<1>6. /\ s2 % 4 = 3 => s2 % 2 = 1
      /\ s2 % 8 = 7 => s2 % 2 = 1 /\ ((((s1 * 16) % 256) + (s2 % 16)) \div 4) % 2 = 1
      /\ s2 % 16 = 15 => s2 % 2 = 1 /\ ((((s1 * 16) % 256) + (s2 % 16)) \div 4) % 4 = 3
  BY <1>3, SplitBits
<1>7. PICK rsum : rsum = (((s1 * 16) % 256) + (s2 % 16)) \div 4
  OBVIOUS
<1>8. rsum \in Int
  BY <1>3, <1>7
<1>9. PICK S : S = {n \in 0..8 : Rings!Low(rsum, n) = 2^n - 1}
  OBVIOUS
<1>10. Rings!Bits = 1 + Rings!Max(S)
  BY <1>7, <1>9 DEF Rings!Bits, Rings!Digest
<1>11. ASSUME NEW n \in S PROVE Rings!Bits >= 1 + n
  <2>1. S \in SUBSET (0..8)
    BY <1>9
  <2>2. Rings!Max(S) \in S /\ Rings!Max(S) >= n
    BY <2>1, LargestUpTo8
  <2>3. Rings!Max(S) \in 0..8 /\ n \in 0..8
    BY <2>1, <2>2, Zenon
  <2>4. \A x, y \in 0..8 : x >= y => 1 + x >= 1 + y
    OBVIOUS
  <2>5. 1 + Rings!Max(S) >= 1 + n
    BY <2>2, <2>3, <2>4, Zenon
  <2> QED
    BY <1>10, <2>5, Zenon
<1>12. /\ 0 \in S
       /\ rsum % 2 = 1 => 1 \in S
       /\ rsum % 4 = 3 => 2 \in S
  <2>1. 2^0 = 1 /\ 2^1 = 2 /\ 2^2 = 4
    OBVIOUS
  <2>2. rsum % 1 = 0
    BY <1>8
  <2>3. Rings!Low(rsum, 0) = 2^0 - 1
    BY <2>1, <2>2 DEF Rings!Low
  <2>4. rsum % 2 = 1 => Rings!Low(rsum, 1) = 2^1 - 1
    BY <2>1 DEF Rings!Low
  <2>5. rsum % 4 = 3 => Rings!Low(rsum, 2) = 2^2 - 1
    BY <2>1 DEF Rings!Low
  <2>6. 0 \in 0..8 /\ 1 \in 0..8 /\ 2 \in 0..8
    OBVIOUS
  <2>7. \A n \in 0..8 : Rings!Low(rsum, n) = 2^n - 1 => n \in S
    BY <1>9, Zenon
  <2>8. 0 \in S
    BY <2>3, <2>6, <2>7, Zenon
  <2>9. rsum % 2 = 1 => 1 \in S
    BY <2>4, <2>6, <2>7, Zenon
  <2>10. rsum % 4 = 3 => 2 \in S
    BY <2>5, <2>6, <2>7, Zenon
  <2> QED
    BY <2>8, <2>9, <2>10
<1>13. ASSUME NEW n \in 0..2, Rings!OnSplitWithBits(Rings!blobBits + 1 + n)
       PROVE  Rings!OnSplit /\ Rings!Bits >= Rings!blobBits + n
  <2>1. 2^1 = 2 /\ 2^2 = 4 /\ 2^3 = 8 /\ 2^4 = 16
    OBVIOUS
  <2>2. n = 0 \/ n = 1 \/ n = 2
    OBVIOUS
  <2>3. s2 % 2 = 1 /\ n \in S
    <3>1. CASE n = 0
      <4>1. s2 % 4 = 3
        BY <1>13, <2>1, <3>1 DEF Rings!OnSplitWithBits, Rings!Low
      <4> QED
        BY <1>6, <1>12, <3>1, <4>1
    <3>2. CASE n = 1
      <4>1. s2 % 8 = 7
        BY <1>13, <2>1, <3>2 DEF Rings!OnSplitWithBits, Rings!Low
      <4> QED
        BY <1>6, <1>7, <1>12, <3>2, <4>1
    <3>3. CASE n = 2
      <4>1. s2 % 16 = 15
        BY <1>13, <2>1, <3>3 DEF Rings!OnSplitWithBits, Rings!Low
      <4> QED
        BY <1>6, <1>7, <1>12, <3>3, <4>1
    <3> QED
      BY <2>2, <3>1, <3>2, <3>3
  <2>4. Rings!OnSplit
    BY <2>1, <2>3 DEF Rings!OnSplit, Rings!OnSplitWithBits, Rings!Low
  <2> QED
    BY <1>11, <2>3, <2>4
<1> QED
  BY <1>4, <1>5, <1>13 DEF Rings!RollExact

\* Every step of either ring keeps what it is meant to hold.
LEMMA RingStep == RingInv /\ [Rings!Next]_windowVars => RingInv'
<1> SUFFICES ASSUME RingInv, [Rings!Next]_windowVars PROVE RingInv'
  OBVIOUS
<1>1. ASSUME NEW n \in 0..(MaxWritten - Len(written)),
             Rings!Write([k \in 1..n |-> Len(written) + k])
      PROVE  RingInv'
  <2>1. ring = "saver" /\ ring' = ring
    BY <1>1 DEF Rings!Write
  <2>2. SaverInv
    BY <2>1 DEF RingInv
  <2>3. [k \in 1..n |-> Len(written) + k] \in Seq(Int)
    <3>1. Len(written) \in Nat
      BY <2>2, LenProperties DEF SaverInv
    <3>2. n \in Nat
      OBVIOUS
    <3>3. [k \in 1..n |-> Len(written) + k] \in [1..n -> Int]
      BY <3>1, <3>2
    <3> QED
      BY <3>2, <3>3, SeqDef
  <2>4. SaverInv'
    BY <1>1, <2>2, <2>3, SaverWrite
  <2> QED
    BY <2>1, <2>4 DEF RingInv
<1>2. ASSUME NEW ch \in {0, 1, 255}, Rings!Roll(ch)
      PROVE  RingInv'
  <2>1. ring = "rollsum" /\ ring' = ring
    BY <1>2 DEF Rings!Roll
  <2>2. RollInv
    BY <2>1 DEF RingInv
  <2>3. ch \in 0..255
    OBVIOUS
  <2>4. RollInv'
    BY <1>2, <2>2, <2>3, RollStep
  <2> QED
    BY <2>1, <2>4 DEF RingInv
<1>3. ASSUME UNCHANGED windowVars PROVE RingInv'
  <2>1. SaverInv => SaverInv'
    BY <1>3 DEF windowVars, SaverInv, Age
  <2>2. RollInv => RollInv'
    BY <1>3 DEF windowVars, RollInv, Rings!Newest
  <2>3. ring' = ring
    BY <1>3 DEF windowVars
  <2> QED
    BY <2>1, <2>2, <2>3 DEF RingInv
<1> QED
  BY <1>1, <1>2, <1>3 DEF Rings!Next

\* A ring is empty at first.
LEMMA RingInitInv == Rings!Init => RingInv
<1> SUFFICES ASSUME Rings!Init PROVE RingInv
  OBVIOUS
<1> USE DEF Rings!uint32, Rings!Word, Rings!windowSize, Rings!charOffset
<1>1. written = <<>> /\ prefix = <<>> /\ suffix = <<>> /\ suffixOff = 0 /\ skipped = 0
  BY DEF Rings!Init
<1>2. Len(<<>>) = 0 /\ <<>> \in Seq(Int) /\ <<>> \in Seq(0..255)
  BY EmptySeq
<1>3. ring = "saver" => SaverInv
  <2> SUFFICES ASSUME ring = "saver" PROVE SaverInv
    OBVIOUS
  <2>1. N \in Nat
    BY DEF Rings!Init
  <2> QED
    BY <1>1, <1>2, <2>1 DEF SaverInv
<1>4. RollInv
  <2>1. \A k \in 1..4 : Rings!Newest(k) = 0
    BY <1>1, <1>2 DEF Rings!Newest
  <2>2. window = [k \in 0..3 |-> 0] /\ wofs = 0 /\ s1 = 124 /\ s2 = 116
    BY DEF Rings!Init, Rings!New
  <2>3. \A k \in 1..4 : window[(wofs + 4 - k) % 4] = 0
    BY <2>2
  <2>4. /\ Rings!Newest(1) = 0 /\ Rings!Newest(2) = 0 /\ Rings!Newest(3) = 0 /\ Rings!Newest(4) = 0
    BY <2>1
  <2> QED
    BY <1>1, <1>2, <2>1, <2>2, <2>3, <2>4 DEF RollInv
<1>5. ring \in {"saver", "rollsum"}
  BY DEF Rings!Init
<1> QED
  BY <1>3, <1>4, <1>5 DEF RingInv

\* In every behaviour that exercises the rings.
LEMMA RingInvHolds == AllSpec => [](part = "ring" => RingInv)
<1>1. AllInit => (part = "ring" => RingInv)
  BY RingInitInv DEF AllInit
<1>2. (part = "ring" => RingInv) /\ [AllNext]_allVars => (part = "ring" => RingInv)'
  <2> SUFFICES ASSUME part = "ring" => RingInv, [AllNext]_allVars, part' = "ring"
               PROVE  RingInv'
    OBVIOUS
  <2>1. part = "ring" /\ [Rings!Next]_windowVars
    BY DEF AllNext, allVars
  <2> QED
    BY <2>1, RingStep
<1> QED
  BY <1>1, <1>2, PTL DEF AllSpec

\* For every N and every sizes of the Writes a PrefixSuffixSaver gives back the
\* first and the last N bytes of its stream and counts the others, and RollSum's
\* sums are those of the last bytes of its stream alone.
THEOREM RingsExactHolds == AllSpec => []RingsExact
<1>1. (part = "ring" => RingInv) => RingsExact
  <2>1. ring # "saver" => Rings!SaverExact
    BY DEF Rings!SaverExact
  <2>2. ring # "rollsum" => Rings!RollExact
    BY DEF Rings!RollExact
  <2> QED
    BY <2>1, <2>2, SaverInvExact, RollInvExact DEF RingInv, RingsExact
<1> QED
  BY <1>1, RingInvHolds, PTL

-----------------------------------------------------------------------------
(* FlattenSeq, of the cells of a body.                                     *)

\* A set of natural numbers that is not empty has a least element: what
\* induction amounts to here.
LEMMA LeastNumber ==
  ASSUME NEW T \in SUBSET Nat, T # {}
  PROVE  \E n \in T : \A k \in T : n <= k
<1> DEFINE LT == OpToRel(<, Nat)
<1>1. IsWellFoundedOn(LT, Nat)
  BY NatLessThanWellFounded
<1> HIDE DEF LT
<1>2. PICK n \in T : \A k \in T : ~(<<k, n>> \in LT)
  BY <1>1, WFMin
<1>3. \A k \in T : k < n => <<k, n>> \in LT
  BY DEF LT, OpToRel
<1>4. n \in Nat /\ \A k \in T : k \in Nat
  OBVIOUS
<1>5. \A k \in T : ~(k < n)
  BY <1>2, <1>3
<1>6. \A i, j \in Nat : ~(j < i) => i <= j
  OBVIOUS
<1> QED
  BY <1>4, <1>5, <1>6

\* What FlattenSeq's function is, for the first k cells.
Flattens(ss, f, k) ==
  f = [i \in 1..k |-> IF i = 1 THEN ss[i] ELSE f[i - 1] \o ss[i]]

\* There is one.
LEMMA FlattensExists ==
  ASSUME NEW ss, NEW k \in Nat
  PROVE  \E f : Flattens(ss, f, k)
<1> DEFINE T == {j \in Nat : ~\E f : Flattens(ss, f, j)}
<1>1. SUFFICES T = {}
  OBVIOUS
<1>2. SUFFICES ASSUME T # {} PROVE FALSE
  OBVIOUS
<1>3. PICK n \in T : \A j \in T : n <= j
  BY <1>2, LeastNumber
<1>4. n \in Nat /\ ~\E f : Flattens(ss, f, n)
  BY <1>3
<1>5. n # 0
  <2>1. 1..0 = {}
    OBVIOUS
  <2>2. PICK f : f = [i \in {} |-> i]
    OBVIOUS
  <2>3. f = [i \in {} |-> IF i = 1 THEN ss[i] ELSE f[i - 1] \o ss[i]]
    BY <2>2
  <2> QED
    BY <1>4, <2>1, <2>3 DEF Flattens
<1>6. n - 1 \in Nat /\ ~(n <= n - 1)
  BY <1>4, <1>5
<1>7. PICK f : Flattens(ss, f, n - 1)
  BY <1>3, <1>6
<1>8. PICK g : g = [i \in 1..n |-> IF i = n THEN (IF i = 1 THEN ss[i] ELSE f[i - 1] \o ss[i]) ELSE f[i]]
  OBVIOUS
<1>9. \A i \in 1..n : i = n \/ i \in 1..(n - 1)
  BY <1>4
<1>10. \A i \in 1..n : i # 1 => i - 1 \in 1..(n - 1) /\ i - 1 \in 1..n /\ i - 1 # n
  BY <1>4
<1>11. \A i \in 1..(n - 1) : f[i] = IF i = 1 THEN ss[i] ELSE f[i - 1] \o ss[i]
  BY <1>7, Zenon DEF Flattens
<1>12. \A i \in 1..n : i # 1 => g[i - 1] = f[i - 1]
  BY <1>8, <1>10, Zenon
<1>13. ASSUME NEW i \in 1..n PROVE g[i] = IF i = 1 THEN ss[i] ELSE g[i - 1] \o ss[i]
  <2>1. g[i] = IF i = 1 THEN ss[i] ELSE f[i - 1] \o ss[i]
    <3>1. CASE i = n
      BY <1>8, <3>1, Zenon
    <3>2. CASE i # n
      <4>1. i \in 1..(n - 1)
        BY <1>9, <3>2
      <4>2. g[i] = f[i]
        BY <1>8, <3>2, Zenon
      <4> QED
        BY <1>11, <4>1, <4>2
    <3> QED
      BY <3>1, <3>2
  <2> QED
    BY <1>12, <2>1
<1>14. g = [i \in 1..n |-> IF i = 1 THEN ss[i] ELSE g[i - 1] \o ss[i]]
  <2>1. g = [i \in 1..n |-> g[i]]
    BY <1>8, Zenon
  <2> QED
    BY <1>13, <2>1, Zenon
<1> QED
  BY <1>4, <1>14 DEF Flattens

\* FlattenSeq is its last value.
LEMMA FlattenIs ==
  ASSUME NEW ss, Len(ss) \in Nat \ {0}
  PROVE  \E f : Flattens(ss, f, Len(ss)) /\ FlattenSeq(ss) = f[Len(ss)]
<1>1. FlattenSeq(ss) = (CHOOSE f : Flattens(ss, f, Len(ss)))[Len(ss)]
  <2>1. Len(ss) # 0
    OBVIOUS
  <2> QED
    BY <2>1, Zenon DEF FlattenSeq, Flattens
<1>2. Flattens(ss, CHOOSE f : Flattens(ss, f, Len(ss)), Len(ss))
  BY FlattensExists, Zenon
<1> QED
  BY <1>1, <1>2, Zenon

\* Two such functions agree as far as their arguments do.
LEMMA FlattensSame ==
  ASSUME NEW ss, NEW tt, NEW f, NEW g, NEW k \in Nat, NEW l \in Nat, k <= l,
         Flattens(ss, f, k), Flattens(tt, g, l), \A i \in 1..k : ss[i] = tt[i]
  PROVE  \A i \in 1..k : f[i] = g[i]
<1> DEFINE T == {i \in 1..k : f[i] # g[i]}
<1>1. SUFFICES ASSUME T # {} PROVE FALSE
  OBVIOUS
<1>2. PICK n \in T : \A j \in T : n <= j
  <2>1. T \in SUBSET Nat
    OBVIOUS
  <2> QED
    BY <1>1, <2>1, LeastNumber
<1>3. n \in 1..k /\ n \in 1..l /\ f[n] # g[n]
  BY <1>2
<1>4. /\ f[n] = IF n = 1 THEN ss[n] ELSE f[n - 1] \o ss[n]
      /\ g[n] = IF n = 1 THEN tt[n] ELSE g[n - 1] \o tt[n]
  BY <1>3, Zenon DEF Flattens
<1>5. n # 1 => n - 1 \in 1..k /\ ~(n <= n - 1)
  BY <1>3
<1>6. n # 1 => f[n - 1] = g[n - 1]
  BY <1>2, <1>5
<1> QED
  BY <1>3, <1>4, <1>6

\* The bytes of no cells, of one more cell, and their type.
LEMMA FlattenEmpty == FlattenSeq(<<>>) = <<>>
  BY DEF FlattenSeq

\* One more sequence to flatten.
LEMMA FlattenAppend ==
  ASSUME NEW V, NEW ss \in Seq(Seq(V)), NEW c \in Seq(V)
  PROVE  FlattenSeq(Append(ss, c)) = FlattenSeq(ss) \o c
<1> DEFINE tt == Append(ss, c)
<1>1. PICK n \in Nat : n = Len(ss)
  BY LenProperties
<1>2. Len(tt) = n + 1 /\ tt[n + 1] = c /\ \A i \in 1..n : ss[i] = tt[i]
  BY <1>1, AppendProperties
<1> HIDE DEF tt
<1>3. PICK g : Flattens(tt, g, n + 1) /\ FlattenSeq(tt) = g[n + 1]
  <2>1. Len(tt) \in Nat \ {0}
    BY <1>2
  <2> QED
    BY <1>2, <2>1, FlattenIs
<1>4. n + 1 \in 1..(n + 1) /\ (n + 1) - 1 = n /\ n <= n + 1 /\ n + 1 \in Nat
  OBVIOUS
<1>5. g[n + 1] = IF n + 1 = 1 THEN tt[n + 1] ELSE g[(n + 1) - 1] \o tt[n + 1]
  BY <1>3, <1>4, Zenon DEF Flattens
<1>6. CASE n = 0
  <2>1. ss = <<>>
    BY <1>1, <1>6, EmptySeq
  <2>2. FlattenSeq(ss) \o c = c
    BY <2>1, FlattenEmpty, ConcatEmptySeq
  <2> QED
    BY <1>2, <1>3, <1>5, <1>6, <2>2 DEF tt
<1>7. CASE n # 0
  <2>1. PICK f : Flattens(ss, f, n) /\ FlattenSeq(ss) = f[n]
    BY <1>1, <1>7, FlattenIs
  <2>2. \A i \in 1..n : f[i] = g[i]
    BY <1>2, <1>3, <1>4, <2>1, FlattensSame
  <2>3. f[n] = g[n]
    BY <1>7, <2>2
  <2> QED
    BY <1>2, <1>3, <1>4, <1>5, <1>7, <2>1, <2>3 DEF tt
<1> QED
  BY <1>6, <1>7

\* The bytes of two sequences of cells are those of the first and then those of
\* the second.
LEMMA FlattenConcat ==
  ASSUME NEW V, NEW ss \in Seq(Seq(V)), NEW tt \in Seq(Seq(V))
  PROVE  /\ FlattenSeq(ss) \in Seq(V)
         /\ FlattenSeq(tt) \in Seq(V)
         /\ FlattenSeq(ss \o tt) = FlattenSeq(ss) \o FlattenSeq(tt)
<1> DEFINE Good(uu) == /\ FlattenSeq(uu) \in Seq(V)
                       /\ \A vv \in Seq(Seq(V)) : FlattenSeq(vv) \in Seq(V) =>
                            FlattenSeq(vv \o uu) = FlattenSeq(vv) \o FlattenSeq(uu)
<1>1. Good(<<>>)
  <2>1. \A vv \in Seq(Seq(V)) : vv \o <<>> = vv
    BY ConcatEmptySeq
  <2>2. \A v \in Seq(V) : v \o <<>> = v
    BY ConcatEmptySeq
  <2> QED
    BY <2>1, <2>2, FlattenEmpty, EmptySeq
<1>2. ASSUME NEW uu \in Seq(Seq(V)), NEW c \in Seq(V), Good(uu)
      PROVE  Good(Append(uu, c))
  <2>1. FlattenSeq(Append(uu, c)) = FlattenSeq(uu) \o c
    BY FlattenAppend
  <2>2. FlattenSeq(uu) \o c \in Seq(V)
    BY <1>2, ConcatProperties
  <2>3. ASSUME NEW vv \in Seq(Seq(V)), FlattenSeq(vv) \in Seq(V)
        PROVE  FlattenSeq(vv \o Append(uu, c)) = FlattenSeq(vv) \o FlattenSeq(Append(uu, c))
    <3>1. vv \o Append(uu, c) = Append(vv \o uu, c)
      <4>1. Append(uu, c) = uu \o <<c>> /\ <<c>> \in Seq(Seq(V))
        BY AppendIsConcat
      <4>2. vv \o uu \in Seq(Seq(V))
        BY ConcatProperties
      <4>3. Append(vv \o uu, c) = (vv \o uu) \o <<c>>
        BY <4>2, AppendIsConcat
      <4>4. \A ww \in Seq(Seq(V)) : (vv \o uu) \o ww = vv \o (uu \o ww)
        BY ConcatAssociative, SMTT(60)
      <4> QED
        BY <4>1, <4>3, <4>4, Zenon
    <3>2. vv \o uu \in Seq(Seq(V))
      BY ConcatProperties
    <3>3. FlattenSeq(Append(vv \o uu, c)) = FlattenSeq(vv \o uu) \o c
      BY <3>2, FlattenAppend
    <3>4. FlattenSeq(vv \o uu) = FlattenSeq(vv) \o FlattenSeq(uu)
      BY <1>2, <2>3
    <3>5. (FlattenSeq(vv) \o FlattenSeq(uu)) \o c = FlattenSeq(vv) \o (FlattenSeq(uu) \o c)
      BY <1>2, <2>3, ConcatAssociative, SMTT(60)
    <3> QED
      BY <2>1, <3>1, <3>3, <3>4, <3>5
  <2> QED
    BY <2>1, <2>2, <2>3
<1> HIDE DEF Good
<1>3. ASSUME NEW uu \in Seq(Seq(V)) PROVE Good(uu)
  <2> DEFINE T == {k \in Nat : \E vv \in Seq(Seq(V)) : Len(vv) = k /\ ~Good(vv)}
  <2>1. SUFFICES T = {}
    <3>1. Len(uu) \in Nat
      BY LenProperties
    <3> QED
      BY <3>1
  <2>2. SUFFICES ASSUME T # {} PROVE FALSE
    OBVIOUS
  <2>3. PICK n \in T : \A k \in T : n <= k
    BY <2>2, LeastNumber
  <2>4. PICK vv \in Seq(Seq(V)) : Len(vv) = n /\ ~Good(vv)
    BY <2>3
  <2>5. vv # <<>>
    BY <1>1, <2>4
  <2>6. PICK w \in Seq(Seq(V)), c \in Seq(V) : vv = Append(w, c)
    BY <2>5, SequenceEmptyOrAppend
  <2>7. Len(w) \in Nat /\ n = Len(w) + 1
    BY <2>4, <2>6, AppendProperties, LenProperties
  <2>8. ~(n <= Len(w))
    BY <2>7
  <2>9. Len(w) \notin T
    BY <2>3, <2>8
  <2>10. Good(w)
    BY <2>7, <2>9
  <2> QED
    BY <1>2, <2>4, <2>6, <2>10
<1> QED
  BY <1>3 DEF Good
-----------------------------------------------------------------------------
(* ZipRead.                                                                *)

\* What cells are made of, and the errors. (The literals are strings, too, but
\* no backend knows.)
Cells ==
  Seq(STRING \cup {"file header", "end of deflated data", "data descriptor signature", "other data"})
Errors ==
  STRING \cup {"nil", "EOF", "unexpected EOF", "closed", "ErrFormat", "ErrChecksum", "header too long",
               "Read after Close"}

\* A handle.
HandleState ==
  [rd : {"new", "failed", "idle", "body", "inflate", "sum"}, cl : {"idle", "raw", "body"},
   raw : Seq(Cells), open : BOOLEAN, left : Nat, fr : FlateReader \cup {None}, mu : BOOLEAN,
   err : Errors, got : Cells, out : Cells, pend : [p : Cells, err : Errors], closes : Nat]

\* The number of cells of an entry's body, and what its raw stream has after the
\* local header.
BodyLen(e) == Len(Body!Body(e))
Rest(e) ==
  LET raw == Body!Raw(e, Body!readSize(e))
  IN SubSeq(raw, Body!fileHeaderLen + e.localLen + 1, Len(raw))

\* The data of the first c cells of its body, of which the last may be the end
\* of the deflated data.
Delivered(e, c) ==
  FlattenSeq(SubSeq(Body!Inflated(e), 1, IF c <= Len(e.cells) THEN c ELSE Len(e.cells)))

\* What a handle's goroutines know of it, whatever becomes of its stream.
Handling(e, s) ==
  /\ s.rd \in {"new", "failed"} =>
       s.cl = "idle" /\ s.closes = 0 /\ s.fr = None /\ ~s.open /\ s.got = <<>> /\ s.out = <<>>
  /\ s.rd = "new" => s.err = "nil"
  /\ s.rd \in {"body", "inflate", "sum"} => s.err = "nil"
  /\ s.rd # "sum" => s.pend = [p |-> <<>>, err |-> "nil"]
  /\ s.rd = "inflate" <=> s.mu
  /\ s.mu => s.fr # None
  /\ s.fr # None => e.method = "deflate"
  /\ s.err # "nil" => ~s.open
  /\ s.cl = "body" => ~s.open
  /\ s.closes = 0 => s.cl = "idle"
  /\ s.closes > 0 /\ s.cl = "idle" => ~s.open /\ s.fr = None

\* What was read was returned, as long as there is no error; and io.EOF came
\* after data with the right CRC.
Returned(e, s) ==
  s.rd # "failed" /\ s.err \in {"nil", "EOF"} =>
    /\ s.out = s.got
    /\ s.err = "EOF" /\ (e.crc # <<>> \/ e.hasDesc) => s.out = e.data

\* A whole stream of which c cells of the body are read.
Progress(e, s, c) ==
  /\ s.left = BodyLen(e) - c
  /\ s.raw = SubSeq(Rest(e), c + 1, Len(Rest(e)))
  /\ s.got \o s.pend.p = Delivered(e, c)
  /\ s.err = "EOF" \/ s.pend.err = "EOF" => c = BodyLen(e)
  /\ e.method = "deflate" /\ c = BodyLen(e) => s.err = "EOF" \/ s.pend.err = "EOF"

ReadsOn(e, s) ==
  /\ e.localLen <= e.varLen + Body!openReadSlop
  /\ s.err \in {"nil", "EOF"} /\ s.pend.err \in {"nil", "EOF"}
  /\ s.err = "nil" => s.open
  /\ e.method = "deflate" <=> s.fr # None
  /\ \E c \in 0..BodyLen(e) : Progress(e, s, c)

\* Nothing is lost of a whole stream until the handle is closed.
WholeStream(e, s) ==
  Body!Intact(e) /\ s.closes = 0 =>
    /\ s.rd = "failed" /\ e.localLen <= e.varLen + Body!openReadSlop => s.err = "nil"
    /\ s.rd \notin {"new", "failed"} => ReadsOn(e, s)

\* A flate reader is in the pool once, or has one owner.
Owners ==
  /\ fpool \in Seq(FlateReader)
  /\ \A i, j \in DOMAIN fpool : fpool[i] = fpool[j] => i = j
  /\ \A h \in Handle : hd[h].fr # None =>
       hd[h].fr \notin Range(fpool) /\ \A g \in Handle \ {h} : hd[g].fr # hd[h].fr

\* The inductive invariant of ZipRead. That io.EOF is heard only after the whole
\* data needs to know where in the stream the reader is, many reads before.
HandleInv(e, s) == Handling(e, s) /\ Returned(e, s) /\ WholeStream(e, s)

ZipInv ==
  /\ hd \in [Handle -> HandleState]
  /\ \A h \in Handle : Body!WellFormed(entry[h])
  /\ \A h \in Handle : HandleInv(entry[h], hd[h])
  /\ Owners

\* The helpers are the same ones in the instance and here.
LEMMA SameHelpers ==
  /\ \A ss : Body!FlattenSeq(ss) = FlattenSeq(ss)
  /\ \A f : Body!Range(f) = Range(f)
  /\ \A S : Body!Min(S) = Min(S)
  /\ \A s, i : Body!RemoveAt(s, i) = RemoveAt(s, i)
  /\ \A s, t : Body!IsPrefix(s, t) = IsPrefix(s, t)
<1>1. \A ss : Body!FlattenSeq(ss) = FlattenSeq(ss)
  BY Zenon DEF Body!FlattenSeq, FlattenSeq
<1>2. \A f : Body!Range(f) = Range(f)
  BY DEF Body!Range, Range
<1>3. \A S : Body!Min(S) = Min(S)
  BY Zenon DEF Body!Min, Min
<1>4. \A s, i : Body!RemoveAt(s, i) = RemoveAt(s, i)
  BY DEF Body!RemoveAt, RemoveAt
<1>5. \A s, t : Body!IsPrefix(s, t) = IsPrefix(s, t)
  BY DEF Body!IsPrefix, IsPrefix
<1> QED
  BY <1>1, <1>2, <1>3, <1>4, <1>5

\* Cells that were written down.
LEMMA Constants ==
  /\ Body!FileHeader \in Cells /\ Body!Fin \in Cells /\ Body!DescSig \in Cells /\ Body!Bad \in Cells
  /\ <<Body!FileHeader>> \in Seq(Cells) /\ <<Body!Fin>> \in Seq(Cells) /\ <<Body!DescSig>> \in Seq(Cells)
  /\ Len(<<Body!FileHeader>>) = 1 /\ Len(<<Body!Fin>>) = 1 /\ Len(<<Body!DescSig>>) = 1
  /\ <<Body!FileHeader>>[1] = Body!FileHeader /\ <<Body!Fin>>[1] = Body!Fin
  /\ <<Body!DescSig>>[1] = Body!DescSig
<1>1. Body!FileHeader \in Cells /\ Body!Fin \in Cells /\ Body!DescSig \in Cells /\ Body!Bad \in Cells
  <2>1. \A S : \A c \in S : <<c>> \in Seq(S)
    OBVIOUS
  <2> QED
    BY <2>1, Zenon DEF Body!FileHeader, Body!Fin, Body!DescSig, Body!Bad, Cells
<1>2. \A c \in Cells : <<c>> \in Seq(Cells) /\ Len(<<c>>) = 1 /\ <<c>>[1] = c
  OBVIOUS
<1> QED
  BY <1>1, <1>2

\* The body of an entry: its cells, and the end of deflated data.
LEMMA BodyOK ==
  ASSUME NEW e, Body!WellFormed(e)
  PROVE  /\ e.cells \in Seq(Cells) /\ Len(e.cells) \in Nat
         /\ Body!Body(e) \in Seq(Cells)
         /\ BodyLen(e) = Len(e.cells) + (IF e.method = "deflate" THEN 1 ELSE 0)
         /\ \A i \in 1..Len(e.cells) : Body!Body(e)[i] = e.cells[i]
         /\ e.method = "deflate" => Body!Body(e)[Len(e.cells) + 1] = Body!Fin
<1>1. e.cells \in Seq(Cells)
  <2>1. Seq(STRING) \subseteq Cells
    BY SeqMonotonic DEF Cells
  <2>2. e.cells \in Seq(Seq(STRING))
    BY DEF Body!WellFormed
  <2> QED
    BY <2>1, <2>2, SeqMonotonic
<1>2. Len(e.cells) \in Nat
  BY <1>1, LenProperties
<1>3. CASE e.method = "deflate"
  <2>1. Body!Body(e) = e.cells \o <<Body!Fin>>
    BY <1>3 DEF Body!Body
  <2>2. /\ e.cells \o <<Body!Fin>> \in Seq(Cells)
        /\ Len(e.cells \o <<Body!Fin>>) = Len(e.cells) + 1
        /\ \A i \in 1..(Len(e.cells) + 1) : (e.cells \o <<Body!Fin>>)[i] =
             IF i <= Len(e.cells) THEN e.cells[i] ELSE <<Body!Fin>>[i - Len(e.cells)]
    BY <1>1, Constants, ConcatProperties
  <2> HIDE DEF Cells
  <2>3. /\ \A i \in 1..Len(e.cells) : i \in 1..(Len(e.cells) + 1) /\ i <= Len(e.cells)
        /\ Len(e.cells) + 1 \in 1..(Len(e.cells) + 1) /\ ~(Len(e.cells) + 1 <= Len(e.cells))
        /\ Len(e.cells) + 1 - Len(e.cells) = 1
    BY <1>2
  <2> QED
    BY <1>1, <1>2, <1>3, <2>1, <2>2, <2>3, Constants DEF BodyLen
<1>4. CASE e.method # "deflate"
  <2>1. Body!Body(e) = e.cells
    BY <1>1, <1>4, ConcatEmptySeq DEF Body!Body
  <2> QED
    BY <1>1, <1>2, <1>4, <2>1 DEF BodyLen
<1> QED
  BY <1>3, <1>4

\* The data descriptor.
Desc(e) ==
  IF e.hasDesc
  THEN (IF e.hasSig THEN <<Body!DescSig>> ELSE <<>>) \o <<e.data, Body!Bad, Body!Bad>>
  ELSE <<>>

\* The cells of a descriptor.
LEMMA DescOK ==
  ASSUME NEW e, Body!WellFormed(e)
  PROVE  /\ Desc(e) \in Seq(Cells) /\ e.data \in Cells
         /\ Len(Desc(e)) = IF e.hasDesc THEN (IF e.hasSig THEN 4 ELSE 3) ELSE 0
         /\ e.hasDesc /\ e.hasSig => Desc(e)[1] = Body!DescSig /\ Desc(e)[2] = e.data
         /\ e.hasDesc /\ ~e.hasSig => Desc(e)[1] = e.data
<1>1. e.data \in Cells
  <2>1. Body!Inflated(e) \in Seq(Cells)
    <3>1. e.cells \in Seq(Cells)
      BY BodyOK
    <3>2. Len(e.cells) \in Nat /\ DOMAIN e.cells = 1..Len(e.cells)
      BY <3>1, LenProperties
    <3>3. \A i \in DOMAIN e.cells : e.cells[i] \in Cells
      BY <3>1, <3>2, ElementOfSeq
    <3>4. \A c \in Cells : c \o c \in Cells
      BY ConcatProperties DEF Cells
    <3> HIDE DEF Cells
    <3> QED
      BY <3>2, <3>3, <3>4 DEF Body!Inflated
  <2>2. \A ss \in Seq(Cells) : FlattenSeq(ss) \in Cells
    BY FlattenConcat DEF Cells
  <2>3. e.data = FlattenSeq(Body!Inflated(e))
    BY SameHelpers, Zenon DEF Body!WellFormed
  <2> QED
    BY <2>1, <2>2, <2>3
<1>2. e.hasDesc \in BOOLEAN /\ e.hasSig \in BOOLEAN
  BY DEF Body!WellFormed
<1>3. \A a, b, c \in Cells :
        /\ <<a, b, c>> \in Seq(Cells) /\ Len(<<a, b, c>>) = 3 /\ <<a, b, c>>[1] = a
        /\ <<>> \o <<a, b, c>> = <<a, b, c>>
  OBVIOUS
<1>4. \A a, b, c \in Cells, d \in Cells :
        /\ <<d>> \o <<a, b, c>> \in Seq(Cells) /\ Len(<<d>> \o <<a, b, c>>) = 4
        /\ (<<d>> \o <<a, b, c>>)[1] = d /\ (<<d>> \o <<a, b, c>>)[2] = a
  OBVIOUS
<1>5. <<>> \in Seq(Cells) /\ Len(<<>>) = 0
  BY EmptySeq
<1> HIDE DEF Cells
<1>6. CASE e.hasDesc /\ e.hasSig
  <2>1. Desc(e) = <<Body!DescSig>> \o <<e.data, Body!Bad, Body!Bad>>
    BY <1>6 DEF Desc
  <2> QED
    BY <1>1, <1>4, <1>6, <2>1, Constants
<1>7. CASE e.hasDesc /\ ~e.hasSig
  <2>1. Desc(e) = <<>> \o <<e.data, Body!Bad, Body!Bad>>
    BY <1>7 DEF Desc
  <2> QED
    BY <1>1, <1>3, <1>7, <2>1, Constants
<1>8. CASE ~e.hasDesc
  BY <1>1, <1>5, <1>8 DEF Desc
<1> QED
  BY <1>2, <1>6, <1>7, <1>8

\* z is five sequences one after the other, of which we know three.
Laid(S, z, a, b, c, d, t) ==
  /\ z \in Seq(S)
  /\ Len(z) = Len(a) + Len(b) + Len(c) + Len(d) + Len(t)
  /\ \A i \in 1..Len(a) : z[i] = a[i]
  /\ \A i \in 1..Len(c) : z[Len(a) + Len(b) + i] = c[i]
  /\ \A i \in 1..Len(d) : z[Len(a) + Len(b) + Len(c) + i] = d[i]

\* Five sequences in a row.
LEMMA Concat5 ==
  ASSUME NEW S, NEW a \in Seq(S), NEW b \in Seq(S), NEW c \in Seq(S), NEW d \in Seq(S), NEW t \in Seq(S)
  PROVE  Laid(S, a \o b \o c \o d \o t, a, b, c, d, t)
<1>1. PICK la \in Nat, lb \in Nat, lc \in Nat, ld \in Nat, lt \in Nat :
        la = Len(a) /\ lb = Len(b) /\ lc = Len(c) /\ ld = Len(d) /\ lt = Len(t)
  BY LenProperties
<1>2. PICK u : u = a \o b
  OBVIOUS
<1>3. /\ u \in Seq(S) /\ Len(u) = la + lb
      /\ \A i \in 1..(la + lb) : u[i] = IF i <= la THEN a[i] ELSE b[i - la]
  BY <1>1, <1>2, ConcatProperties
<1>4. PICK v : v = u \o c
  OBVIOUS
<1>5. /\ v \in Seq(S) /\ Len(v) = la + lb + lc
      /\ \A i \in 1..(la + lb + lc) : v[i] = IF i <= la + lb THEN u[i] ELSE c[i - (la + lb)]
  <2>1. PICK k \in Nat : k = la + lb
    OBVIOUS
  <2>2. u \in Seq(S) /\ Len(u) = k
    BY <1>3, <2>1
  <2>3. /\ v \in Seq(S) /\ Len(v) = k + lc
        /\ \A i \in 1..(k + lc) : v[i] = IF i <= k THEN u[i] ELSE c[i - k]
    BY <1>1, <1>4, <2>2, ConcatProperties
  <2> QED
    BY <2>1, <2>3
<1>6. PICK w : w = v \o d
  OBVIOUS
<1>7. /\ w \in Seq(S) /\ Len(w) = la + lb + lc + ld
      /\ \A i \in 1..(la + lb + lc + ld) : w[i] = IF i <= la + lb + lc THEN v[i] ELSE d[i - (la + lb + lc)]
  <2>1. PICK k \in Nat : k = la + lb + lc
    OBVIOUS
  <2>2. v \in Seq(S) /\ Len(v) = k
    BY <1>5, <2>1
  <2>3. /\ w \in Seq(S) /\ Len(w) = k + ld
        /\ \A i \in 1..(k + ld) : w[i] = IF i <= k THEN v[i] ELSE d[i - k]
    BY <1>1, <1>6, <2>2, ConcatProperties
  <2> QED
    BY <2>1, <2>3
<1>8. PICK s : s = w \o t
  OBVIOUS
<1>9. /\ s \in Seq(S) /\ Len(s) = la + lb + lc + ld + lt
      /\ \A i \in 1..(la + lb + lc + ld + lt) : s[i] = IF i <= la + lb + lc + ld THEN w[i] ELSE t[i - (la + lb + lc + ld)]
  <2>1. PICK lw \in Nat : lw = la + lb + lc + ld
    OBVIOUS
  <2>2. /\ s \in Seq(S) /\ Len(s) = lw + lt
        /\ \A i \in 1..(lw + lt) : s[i] = IF i <= lw THEN w[i] ELSE t[i - lw]
    <3>1. w \in Seq(S) /\ Len(w) = lw
      BY <1>7, <2>1
    <3> QED
      BY <1>1, <1>8, <3>1, ConcatProperties
  <2> QED
    BY <2>1, <2>2
<1>10. \A i \in 1..la : s[i] = a[i]
  <2> SUFFICES ASSUME NEW i \in 1..la PROVE s[i] = a[i]
    OBVIOUS
  <2>1. /\ i \in 1..(la + lb) /\ i \in 1..(la + lb + lc) /\ i \in 1..(la + lb + lc + ld)
        /\ i \in 1..(la + lb + lc + ld + lt) /\ i <= la /\ i <= la + lb /\ i <= la + lb + lc /\ i <= la + lb + lc + ld
    OBVIOUS
  <2> QED
    BY <1>3, <1>5, <1>7, <1>9, <2>1
<1>11. \A i \in 1..lc : s[la + lb + i] = c[i]
  <2> SUFFICES ASSUME NEW i \in 1..lc PROVE s[la + lb + i] = c[i]
    OBVIOUS
  <2>1. PICK j \in Nat : j = la + lb + i
    OBVIOUS
  <2>2. /\ j \in 1..(la + lb + lc) /\ j \in 1..(la + lb + lc + ld) /\ j \in 1..(la + lb + lc + ld + lt)
        /\ ~(j <= la + lb) /\ j <= la + lb + lc /\ j <= la + lb + lc + ld /\ j - (la + lb) = i
    BY <2>1
  <2> QED
    BY <1>5, <1>7, <1>9, <2>1, <2>2
<1>12. \A i \in 1..ld : s[la + lb + lc + i] = d[i]
  <2> SUFFICES ASSUME NEW i \in 1..ld PROVE s[la + lb + lc + i] = d[i]
    OBVIOUS
  <2>1. PICK j \in Nat : j = la + lb + lc + i
    OBVIOUS
  <2>2. /\ j \in 1..(la + lb + lc + ld) /\ j \in 1..(la + lb + lc + ld + lt)
        /\ ~(j <= la + lb + lc) /\ j <= la + lb + lc + ld /\ j - (la + lb + lc) = i
    BY <2>1
  <2> QED
    BY <1>7, <1>9, <2>1, <2>2
<1>13. s = a \o b \o c \o d \o t
  BY <1>2, <1>4, <1>6, <1>8
<1> QED
  BY <1>1, <1>9, <1>10, <1>11, <1>12, <1>13 DEF Laid

\* Where in the raw stream things are.
LEMMA StreamOK ==
  ASSUME NEW e, Body!WellFormed(e)
  PROVE  LET st == Body!Stream(e) IN
         /\ st \in Seq(Cells)
         /\ Len(st) = 1 + e.localLen + BodyLen(e) + Len(Desc(e)) + 8
         /\ st[1] = Body!FileHeader
         /\ \A i \in 1..BodyLen(e) : st[1 + e.localLen + i] = Body!Body(e)[i]
         /\ \A i \in 1..Len(Desc(e)) : st[1 + e.localLen + BodyLen(e) + i] = Desc(e)[i]
<1> DEFINE b == [i \in 1..e.localLen |-> Body!Bad]
           t == [i \in 1..8 |-> Body!Bad]
<1>1. e.localLen \in Nat
  BY DEF Body!WellFormed
<1>2. b \in Seq(Cells) /\ Len(b) = e.localLen /\ t \in Seq(Cells) /\ Len(t) = 8
  BY <1>1, Constants
<1>3. <<Body!FileHeader>> \in Seq(Cells) /\ Len(<<Body!FileHeader>>) = 1 /\ <<Body!FileHeader>>[1] = Body!FileHeader
  BY Constants
<1>4. Body!Body(e) \in Seq(Cells) /\ BodyLen(e) = Len(Body!Body(e))
  BY BodyOK DEF BodyLen
<1>5. Desc(e) \in Seq(Cells)
  BY DescOK
<1>6. Body!Stream(e) = <<Body!FileHeader>> \o b \o Body!Body(e) \o Desc(e) \o t
  BY Zenon DEF Body!Stream, Desc
<1> HIDE DEF b, t, Cells
<1>7. PICK a : a = <<Body!FileHeader>>
  OBVIOUS
<1>8. a \in Seq(Cells) /\ Len(a) = 1 /\ a[1] = Body!FileHeader
  BY <1>3, <1>7
<1>9. PICK st : st = a \o b \o Body!Body(e) \o Desc(e) \o t
  OBVIOUS
<1>10. /\ st \in Seq(Cells)
       /\ Len(st) = Len(a) + Len(b) + Len(Body!Body(e)) + Len(Desc(e)) + Len(t)
       /\ \A i \in 1..Len(a) : st[i] = a[i]
       /\ \A i \in 1..Len(Body!Body(e)) : st[Len(a) + Len(b) + i] = Body!Body(e)[i]
       /\ \A i \in 1..Len(Desc(e)) : st[Len(a) + Len(b) + Len(Body!Body(e)) + i] = Desc(e)[i]
  <2>1. /\ a \in Seq(Cells) /\ b \in Seq(Cells) /\ Body!Body(e) \in Seq(Cells)
        /\ Desc(e) \in Seq(Cells) /\ t \in Seq(Cells)
    BY <1>2, <1>4, <1>5, <1>8
  <2>2. PICK c, d : c = Body!Body(e) /\ d = Desc(e)
    OBVIOUS
  <2>3. a \in Seq(Cells) /\ b \in Seq(Cells) /\ c \in Seq(Cells) /\ d \in Seq(Cells) /\ t \in Seq(Cells)
    BY <2>1, <2>2
  <2>4. Laid(Cells, a \o b \o c \o d \o t, a, b, c, d, t)
    BY <2>3, Concat5, Zenon
  <2> QED
    BY <1>9, <2>2, <2>4, Zenon DEF Laid
<1>11. st = Body!Stream(e)
  BY <1>6, <1>7, <1>9
<1>12. 1 \in 1..1
  OBVIOUS
<1> QED
  BY <1>2, <1>4, <1>8, <1>10, <1>11, <1>12

\* The smallest of two or three.
LEMMA SmallestOf ==
  ASSUME NEW a \in Nat, NEW b \in Nat, NEW c \in Nat
  PROVE  /\ Min({a, b}) \in Nat /\ Min({a, b}) <= a /\ Min({a, b}) <= b /\ Min({a, b}) \in {a, b}
         /\ LET m == Min({a, b, c}) IN m \in Nat /\ m <= a /\ m <= b /\ m <= c /\ m \in {a, b, c}
<1>1. \E m \in {a, b} : \A y \in {a, b} : m <= y
  OBVIOUS
<1>2. \E m \in {a, b, c} : \A y \in {a, b, c} : m <= y
  OBVIOUS
<1>3. Min({a, b}) \in {a, b} /\ \A y \in {a, b} : Min({a, b}) <= y
  BY <1>1, Zenon DEF Min
<1>4. Min({a, b, c}) \in {a, b, c} /\ \A y \in {a, b, c} : Min({a, b, c}) <= y
  BY <1>2, Zenon DEF Min
<1> QED
  BY <1>3, <1>4

\* The raw stream is made of cells, and is what was written if it is intact.
LEMMA RawOK ==
  ASSUME NEW e, Body!WellFormed(e), NEW n \in Nat
  PROVE  /\ Body!Raw(e, n) \in Seq(Cells)
         /\ Body!Intact(e) =>
              \E m \in 0..Len(Body!Stream(e)) :
                /\ m = IF n <= Len(Body!Stream(e)) THEN n ELSE Len(Body!Stream(e))
                /\ Body!Raw(e, n) = SubSeq(Body!Stream(e), 1, m)
<1>1. PICK st \in Seq(Cells) : st = Body!Stream(e)
  BY StreamOK
<1>2. PICK l \in Nat : l = Len(st)
  BY LenProperties
<1>3. e.cut \in Nat /\ e.spoilt \in Nat
  BY DEF Body!WellFormed
<1>4. PICK m : m = Min({n, e.cut, l})
  OBVIOUS
<1>5. m \in Nat /\ m <= n /\ m <= e.cut /\ m <= l /\ m \in {n, e.cut, l}
  BY <1>3, <1>4, SmallestOf
<1>6. PICK s : s = SubSeq(st, 1, m)
  OBVIOUS
<1>7. s \in Seq(Cells) /\ Len(s) = m /\ DOMAIN s = 1..m
  <2>1. \A i \in 1..m : st[i] \in Cells
    BY <1>2, <1>5, ElementOfSeq
  <2>2. s \in Seq(Cells) /\ Len(s) = IF 1 <= m THEN m - 1 + 1 ELSE 0
    BY <1>5, <1>6, <2>1, SubSeqProperties
  <2> QED
    BY <1>5, <2>2, LenProperties
<1>8. Body!Raw(e, n) = IF e.spoilt \in DOMAIN s THEN [s EXCEPT ![e.spoilt] = Body!Bad] ELSE s
  <2>1. Min({n, e.cut, l}) = Body!Min({n, e.cut, Len(Body!Stream(e))})
    BY <1>1, <1>2, SameHelpers
  <2> QED
    BY <1>1, <1>4, <1>6, <2>1, Zenon DEF Body!Raw
<1>9. Body!Raw(e, n) \in Seq(Cells)
  BY <1>7, <1>8, ExceptSeq, Constants
<1>10. ASSUME Body!Intact(e)
       PROVE  /\ m \in 0..l /\ m = (IF n <= l THEN n ELSE l)
              /\ Body!Raw(e, n) = SubSeq(st, 1, m)
  <2>1. e.spoilt = 0 /\ e.cut >= l
    BY <1>1, <1>2, <1>10 DEF Body!Intact
  <2>2. e.spoilt \notin 1..m
    BY <2>1, <1>5
  <2>3. Body!Raw(e, n) = s
    BY <1>7, <1>8, <2>2
  <2>4. m \in 0..l /\ m = (IF n <= l THEN n ELSE l)
    BY <1>3, <1>5, <2>1
  <2> QED
    BY <1>6, <2>3, <2>4
<1> QED
  BY <1>1, <1>2, <1>9, <1>10

\* The size OpenWithReader asks for.
LEMMA ReadSizeOK ==
  ASSUME NEW e, Body!WellFormed(e)
  PROVE  /\ Body!readSize(e) \in Nat
         /\ Body!readSize(e) = BodyLen(e) + (IF e.hasDesc THEN 4 ELSE 0) + 2 + e.varLen
         /\ BodyLen(e) \in Nat /\ e.varLen \in Nat /\ e.localLen \in Nat
<1>1. BodyLen(e) \in Nat
  BY BodyOK, LenProperties DEF BodyLen
<1>2. e.varLen \in Nat /\ e.localLen \in Nat
  BY DEF Body!WellFormed
<1> QED
  BY <1>1, <1>2 DEF Body!readSize, Body!dataDescriptorLen, Body!fileHeaderLen, Body!openReadSlop, BodyLen

\* That size is enough: OpenWithReader gets past the local header, and the rest
\* has the body and the whole data descriptor.
LEMMA RestOK ==
  ASSUME NEW e, Body!WellFormed(e), Body!Intact(e), e.localLen <= e.varLen + 1
  PROVE  /\ Body!skipHeader(e, Body!Raw(e, Body!readSize(e))) = "nil"
         /\ Rest(e) \in Seq(Cells)
         /\ Len(Rest(e)) >= BodyLen(e) + Len(Desc(e))
         /\ \A i \in 1..BodyLen(e) : Rest(e)[i] = Body!Body(e)[i]
         /\ \A i \in 1..Len(Desc(e)) : Rest(e)[BodyLen(e) + i] = Desc(e)[i]
<1>1. PICK st \in Seq(Cells) : st = Body!Stream(e)
  BY StreamOK
<1>2. PICK b \in Nat, d \in Nat, v \in Nat, h \in Nat :
        b = BodyLen(e) /\ d = Len(Desc(e)) /\ v = e.varLen /\ h = e.localLen
  BY ReadSizeOK, DescOK
<1>3. /\ Len(st) = 1 + h + b + d + 8 /\ st[1] = Body!FileHeader
      /\ \A i \in 1..b : st[1 + h + i] = Body!Body(e)[i]
      /\ \A i \in 1..d : st[1 + h + b + i] = Desc(e)[i]
  BY <1>1, <1>2, StreamOK
<1>4. PICK n \in Nat : n = Body!readSize(e)
  BY ReadSizeOK
<1>5. n = b + (IF e.hasDesc THEN 4 ELSE 0) + 2 + v /\ h <= v + 1 /\ d <= (IF e.hasDesc THEN 4 ELSE 0)
  <2>1. n = b + (IF e.hasDesc THEN 4 ELSE 0) + 2 + v
    BY <1>2, <1>4, ReadSizeOK
  <2>2. d = IF e.hasDesc THEN (IF e.hasSig THEN 4 ELSE 3) ELSE 0
    BY <1>2, DescOK
  <2>3. d <= (IF e.hasDesc THEN 4 ELSE 0)
    BY <2>2
  <2> QED
    BY <1>2, <2>1, <2>3
<1> DEFINE raw == Body!Raw(e, n)
<1>6. PICK m \in Nat :
        /\ raw = SubSeq(st, 1, m)
        /\ m <= Len(st) /\ m = IF n <= Len(st) THEN n ELSE Len(st)
  <2>1. \E m \in 0..Len(st) : m = (IF n <= Len(st) THEN n ELSE Len(st)) /\ Body!Raw(e, n) = SubSeq(st, 1, m)
    BY <1>1, <1>4, RawOK, Zenon
  <2>2. Len(st) \in Nat
    BY LenProperties
  <2>3. PICK m \in 0..Len(st) : m = (IF n <= Len(st) THEN n ELSE Len(st)) /\ Body!Raw(e, n) = SubSeq(st, 1, m)
    BY <2>1, Zenon
  <2>4. m \in Nat /\ m <= Len(st)
    BY <2>2
  <2> QED
    BY <2>3, <2>4, Zenon
<1> HIDE DEF raw
<1>7. m >= 1 + h + b + d
  BY <1>3, <1>5, <1>6
<1>8. /\ raw \in Seq(Cells) /\ Len(raw) = m
      /\ \A i \in 1..m : raw[i] = st[i]
  <2>1. \A i \in 1..m : st[i] \in Cells
    BY <1>3, <1>6, ElementOfSeq
  <2>2. /\ SubSeq(st, 1, m) \in Seq(Cells)
        /\ Len(SubSeq(st, 1, m)) = IF 1 <= m THEN m - 1 + 1 ELSE 0
        /\ \A i \in 1..(m - 1 + 1) : SubSeq(st, 1, m)[i] = st[1 + i - 1]
    BY <2>1, <1>6, SubSeqProperties
  <2> QED
    BY <1>6, <2>2
<1>9. Body!skipHeader(e, raw) = "nil"
  <2>1. raw # <<>> /\ raw[1] = Body!FileHeader /\ ~(Len(raw) < 1 + h) /\ ~(h > v + 1)
    <3>1. 1 \in 1..m
      BY <1>7
    <3>2. raw # <<>>
      BY <1>7, <1>8, EmptySeq
    <3> QED
      BY <1>3, <1>5, <1>7, <1>8, <3>1, <3>2
  <2> QED
    BY <1>2, <2>1 DEF Body!skipHeader, Body!fileHeaderLen, Body!openReadSlop
<1>10. PICK rest : rest = SubSeq(raw, h + 2, m)
  OBVIOUS
<1>11. rest = Rest(e)
  <2>1. Rest(e) = SubSeq(raw, 1 + h + 1, Len(raw))
    BY <1>2, <1>4 DEF raw, Rest, Body!fileHeaderLen
  <2>2. 1 + h + 1 = h + 2
    OBVIOUS
  <2> QED
    BY <1>8, <1>10, <2>1, <2>2
<1>12. /\ rest \in Seq(Cells) /\ Len(rest) = m - h - 1
       /\ \A i \in 1..(m - h - 1) : rest[i] = raw[h + 1 + i]
  <2>1. \A i \in (h + 2)..m : raw[i] \in Cells
    BY <1>8, ElementOfSeq
  <2>2. /\ SubSeq(raw, h + 2, m) \in Seq(Cells)
        /\ Len(SubSeq(raw, h + 2, m)) = IF h + 2 <= m THEN m - (h + 2) + 1 ELSE 0
        /\ \A i \in 1..(m - (h + 2) + 1) : SubSeq(raw, h + 2, m)[i] = raw[h + 2 + i - 1]
    BY <2>1, SubSeqProperties
  <2>3. m - (h + 2) + 1 = m - h - 1 /\ (~(h + 2 <= m) => m - h - 1 = 0) /\ \A i \in 1..m : h + 2 + i - 1 = h + 1 + i
    BY <1>7
  <2>4. \A i \in 1..(m - h - 1) : i \in 1..m
    OBVIOUS
  <2> QED
    BY <1>10, <2>2, <2>3, <2>4
<1>13. \A i \in 1..b : rest[i] = Body!Body(e)[i]
  <2> SUFFICES ASSUME NEW i \in 1..b PROVE rest[i] = Body!Body(e)[i]
    OBVIOUS
  <2>1. i \in 1..(m - h - 1) /\ h + 1 + i \in 1..m /\ h + 1 + i = 1 + h + i
    BY <1>7
  <2> QED
    BY <1>3, <1>8, <1>12, <2>1
<1>14. \A i \in 1..d : rest[b + i] = Desc(e)[i]
  <2> SUFFICES ASSUME NEW i \in 1..d PROVE rest[b + i] = Desc(e)[i]
    OBVIOUS
  <2>1. PICK j \in Nat : j = b + i
    OBVIOUS
  <2>2. j \in 1..(m - h - 1) /\ h + 1 + j \in 1..m /\ h + 1 + j = 1 + h + b + i
    BY <1>7, <2>1
  <2> QED
    BY <1>3, <1>8, <1>12, <2>1, <2>2
<1>15. Len(rest) >= b + d
  BY <1>7, <1>12
<1> QED
  BY <1>2, <1>4, <1>9, <1>11, <1>12, <1>13, <1>14, <1>15 DEF raw

\* A sequence is a prefix of itself with another behind it.
LEMMA PrefixOfConcat ==
  ASSUME NEW V, NEW s \in Seq(V), NEW u \in Seq(V)
  PROVE  IsPrefix(s, s \o u) /\ Len(s) <= Len(s \o u)
<1>1. PICK l \in Nat, k \in Nat : l = Len(s) /\ k = Len(u)
  BY LenProperties
<1>2. PICK t : t = s \o u
  OBVIOUS
<1>3. /\ t \in Seq(V) /\ Len(t) = l + k
      /\ \A i \in 1..(l + k) : t[i] = IF i <= l THEN s[i] ELSE u[i - l]
  BY <1>1, <1>2, ConcatProperties
<1>4. \A i \in 1..l : t[i] = s[i] /\ s[i] \in V /\ t[i] \in V
  <2>1. \A i \in 1..l : i \in 1..(l + k) /\ i <= l
    OBVIOUS
  <2> QED
    BY <1>1, <1>3, <2>1, ElementOfSeq
<1>5. PICK p, q : p = SubSeq(s, 1, l) /\ q = SubSeq(t, 1, l)
  OBVIOUS
<1>6. /\ p \in Seq(V) /\ Len(p) = IF 1 <= l THEN l - 1 + 1 ELSE 0
      /\ \A i \in 1..(l - 1 + 1) : p[i] = s[1 + i - 1]
  BY <1>4, <1>5, SubSeqProperties
<1>7. /\ q \in Seq(V) /\ Len(q) = IF 1 <= l THEN l - 1 + 1 ELSE 0
      /\ \A i \in 1..(l - 1 + 1) : q[i] = t[1 + i - 1]
  BY <1>4, <1>5, SubSeqProperties
<1>8. Len(p) = l /\ Len(q) = l /\ \A i \in 1..l : p[i] = s[i] /\ q[i] = t[i]
  BY <1>6, <1>7
<1>9. p = q
  BY <1>4, <1>6, <1>7, <1>8, SeqEqual
<1> QED
  BY <1>1, <1>2, <1>3, <1>5, <1>9 DEF IsPrefix

\* What the cells of a body stand for.
LEMMA InflatedOK ==
  ASSUME NEW e, Body!WellFormed(e)
  PROVE  /\ Body!Inflated(e) \in Seq(Cells)
         /\ Len(Body!Inflated(e)) = Len(e.cells)
         /\ e.data = FlattenSeq(Body!Inflated(e))
         /\ e.method = "store" => Body!Inflated(e) = e.cells
         /\ e.method # "store" =>
              \A i \in 1..Len(e.cells) : Body!Inflated(e)[i] = e.cells[i] \o e.cells[i]
<1>1. PICK cs \in Seq(Cells) : cs = e.cells
  BY BodyOK
<1>2. Len(cs) \in Nat /\ DOMAIN cs = 1..Len(cs)
  BY LenProperties
<1>3. \A i \in 1..Len(cs) : cs[i] \in Cells
  BY ElementOfSeq
<1>4. \A c \in Cells : c \o c \in Cells
  BY ConcatProperties DEF Cells
<1>5. Body!Inflated(e) = [i \in 1..Len(cs) |-> IF e.method = "store" THEN cs[i] ELSE cs[i] \o cs[i]]
  BY <1>1, <1>2 DEF Body!Inflated
<1>6. Body!Inflated(e) \in Seq(Cells) /\ Len(Body!Inflated(e)) = Len(cs)
  <2> HIDE DEF Cells
  <2> QED
    BY <1>2, <1>3, <1>4, <1>5
<1>7. e.data = FlattenSeq(Body!Inflated(e))
  BY SameHelpers, Zenon DEF Body!WellFormed
<1>8. e.method = "store" => Body!Inflated(e) = cs
  <2>1. e.method = "store" => \A i \in 1..Len(cs) : Body!Inflated(e)[i] = cs[i]
    BY <1>5, Zenon
  <2> QED
    BY <1>6, <2>1, SeqEqual
<1>9. e.method # "store" => \A i \in 1..Len(cs) : Body!Inflated(e)[i] = cs[i] \o cs[i]
  BY <1>5, Zenon
<1> QED
  BY <1>1, <1>6, <1>7, <1>8, <1>9

\* The bytes of the first n cells of xs are those of the first c and of the
\* others.
LEMMA FlattenPart ==
  ASSUME NEW xs \in Seq(Cells), NEW c \in 0..Len(xs), NEW n \in c..Len(xs)
  PROVE  /\ SubSeq(xs, 1, c) \in Seq(Cells) /\ SubSeq(xs, c + 1, n) \in Seq(Cells)
         /\ FlattenSeq(SubSeq(xs, 1, c)) \in Cells
         /\ FlattenSeq(SubSeq(xs, c + 1, n)) \in Cells
         /\ FlattenSeq(SubSeq(xs, 1, n)) = FlattenSeq(SubSeq(xs, 1, c)) \o FlattenSeq(SubSeq(xs, c + 1, n))
<1>1. PICK l \in Nat : l = Len(xs)
  BY LenProperties
<1>2. c \in 0..l /\ n \in c..l /\ c \in Nat /\ n \in Nat
  BY <1>1
<1>3. SubSeq(xs, 1, c) \in Seq(Cells) /\ SubSeq(xs, c + 1, n) \in Seq(Cells)
  <2>1. \A i \in 1..l : xs[i] \in Cells
    BY <1>1, ElementOfSeq
  <2>2. (\A i \in 1..c : xs[i] \in Cells) /\ (\A i \in (c + 1)..n : xs[i] \in Cells)
    BY <1>2, <2>1
  <2> QED
    BY <1>2, <2>2, SubSeqProperties
<1>4. SubSeq(xs, 1, c) \o SubSeq(xs, c + 1, n) = SubSeq(xs, 1, n)
  <2>1. 1 \in 1..(Len(xs) + 1) /\ c \in (1 - 1)..Len(xs) /\ n \in c..Len(xs)
    BY <1>1, <1>2
  <2> QED
    BY <2>1, ConcatAdjacentSubSeq
<1>5. \A ss, tt \in Seq(Cells) :
        /\ FlattenSeq(ss) \in Cells /\ FlattenSeq(tt) \in Cells
        /\ FlattenSeq(ss \o tt) = FlattenSeq(ss) \o FlattenSeq(tt)
  BY FlattenConcat DEF Cells
<1> QED
  BY <1>3, <1>4, <1>5, Zenon

\* Delivered grows with the cells that are read, to all of the data.
LEMMA DeliveredOK ==
  ASSUME NEW e, Body!WellFormed(e)
  PROVE  /\ Delivered(e, 0) = <<>>
         /\ \A c \in Nat : /\ Delivered(e, c) \in Cells
                           /\ IsPrefix(Delivered(e, c), e.data) /\ Len(Delivered(e, c)) <= Len(e.data)
                           /\ c >= Len(e.cells) => Delivered(e, c) = e.data
<1>1. PICK xs \in Seq(Cells) : xs = Body!Inflated(e)
  BY InflatedOK
<1>2. PICK l \in Nat : l = Len(xs)
  BY LenProperties
<1>3. l = Len(e.cells) /\ e.data = FlattenSeq(xs)
  BY <1>1, <1>2, InflatedOK
<1>4. \A c \in Nat : Delivered(e, c) = FlattenSeq(SubSeq(xs, 1, IF c <= l THEN c ELSE l))
  BY <1>1, <1>3 DEF Delivered
<1>5. Delivered(e, 0) = <<>>
  <2>1. SubSeq(xs, 1, 0) = <<>>
    BY SubSeqEmpty
  <2>2. 0 \in Nat /\ 0 <= l
    OBVIOUS
  <2> QED
    BY <1>4, <2>1, <2>2, FlattenEmpty
<1>6. SubSeq(xs, 1, l) = xs
  BY <1>2, SubSeqFull
<1>7. ASSUME NEW c \in Nat
      PROVE  /\ Delivered(e, c) \in Cells
             /\ IsPrefix(Delivered(e, c), e.data) /\ Len(Delivered(e, c)) <= Len(e.data)
             /\ c >= l => Delivered(e, c) = e.data
  <2>1. PICK k \in 0..l : k = IF c <= l THEN c ELSE l
    OBVIOUS
  <2>2. Delivered(e, c) = FlattenSeq(SubSeq(xs, 1, k))
    BY <1>4, <2>1
  <2>3. PICK s, u : s = FlattenSeq(SubSeq(xs, 1, k)) /\ u = FlattenSeq(SubSeq(xs, k + 1, l))
    OBVIOUS
  <2>4. k \in 0..Len(xs) /\ l \in k..Len(xs)
    BY <1>2, <2>1
  <2>5. s \in Cells /\ u \in Cells /\ FlattenSeq(SubSeq(xs, 1, l)) = s \o u
    BY <2>3, <2>4, FlattenPart, Zenon
  <2>6. e.data = s \o u
    BY <1>3, <1>6, <2>5
  <2>7. IsPrefix(s, s \o u) /\ Len(s) <= Len(s \o u)
    BY <2>5, PrefixOfConcat DEF Cells
  <2>8. c >= l => k = l
    BY <2>1
  <2>9. c >= l => Delivered(e, c) = e.data
    BY <1>3, <1>6, <2>2, <2>8
  <2> QED
    BY <2>2, <2>3, <2>5, <2>6, <2>7, <2>9
<1> QED
  BY <1>3, <1>5, <1>7

\* A read of n stored cells.
LEMMA StoreDelivers ==
  ASSUME NEW e, Body!WellFormed(e), e.method = "store",
         NEW c \in Nat, NEW n \in Nat, c + n <= Len(e.cells)
  PROVE  Delivered(e, c + n) = Delivered(e, c) \o FlattenSeq(SubSeq(e.cells, c + 1, c + n))
<1>1. PICK xs \in Seq(Cells) : xs = e.cells
  BY BodyOK
<1>2. PICK l \in Nat : l = Len(xs)
  BY LenProperties
<1>3. Body!Inflated(e) = xs
  BY <1>1, InflatedOK
<1>4. \A k \in Nat : k <= l => Delivered(e, k) = FlattenSeq(SubSeq(xs, 1, k))
  BY <1>1, <1>2, <1>3 DEF Delivered
<1>5. c \in 0..Len(xs) /\ c + n \in c..Len(xs) /\ c + n \in Nat /\ c <= l /\ c + n <= l
  BY <1>1, <1>2
<1> QED
  BY <1>1, <1>4, <1>5, FlattenPart

\* A read of one deflated cell, and of their end.
LEMMA FlateDelivers ==
  ASSUME NEW e, Body!WellFormed(e), e.method = "deflate", NEW c \in Nat, c <= Len(e.cells)
  PROVE  Delivered(e, c + 1) = IF c = Len(e.cells) THEN Delivered(e, c)
                               ELSE Delivered(e, c) \o (e.cells[c + 1] \o e.cells[c + 1])
<1>1. PICK xs \in Seq(Cells) : xs = Body!Inflated(e)
  BY InflatedOK
<1>2. PICK l \in Nat : l = Len(xs)
  BY LenProperties
<1>3. l = Len(e.cells) /\ \A i \in 1..l : xs[i] = e.cells[i] \o e.cells[i]
  BY <1>1, <1>2, InflatedOK
<1>4. \A k \in Nat : Delivered(e, k) = FlattenSeq(SubSeq(xs, 1, IF k <= l THEN k ELSE l))
  BY <1>1, <1>3 DEF Delivered
<1>5. CASE c = l
  <2>1. c + 1 \in Nat /\ ~(c + 1 <= l) /\ c <= l
    BY <1>5
  <2> QED
    BY <1>3, <1>4, <1>5, <2>1
<1>6. CASE c # l
  <2>1. c + 1 \in Nat /\ c + 1 <= l /\ c <= l /\ c \in 0..Len(xs) /\ c + 1 \in c..Len(xs) /\ c + 1 \in 1..l
    BY <1>2, <1>3, <1>6
  <2>2. FlattenSeq(SubSeq(xs, 1, c + 1)) = FlattenSeq(SubSeq(xs, 1, c)) \o FlattenSeq(SubSeq(xs, c + 1, c + 1))
    BY <2>1, FlattenPart
  <2>3. xs[c + 1] \in Cells
    BY <1>2, <2>1, ElementOfSeq
  <2>4. SubSeq(xs, c + 1, c + 1) = Append(<<>>, xs[c + 1])
    <3>1. \A i \in (c + 1)..(c + 1) : xs[i] \in Cells
      BY <2>1, <2>3
    <3>2. PICK q : q = SubSeq(xs, c + 1, c + 1)
      OBVIOUS
    <3>3. /\ q \in Seq(Cells) /\ Len(q) = (IF c + 1 <= c + 1 THEN c + 1 - (c + 1) + 1 ELSE 0)
          /\ \A i \in 1..(c + 1 - (c + 1) + 1) : q[i] = xs[c + 1 + i - 1]
      BY <2>1, <3>1, <3>2, SubSeqProperties
    <3>4. Len(q) = 1 /\ q[1] = xs[c + 1]
      BY <2>1, <3>3
    <3>5. PICK t : t = Append(<<>>, xs[c + 1])
      OBVIOUS
    <3>6. t \in Seq(Cells) /\ Len(t) = 1 /\ t[1] = xs[c + 1]
      BY <2>3, <3>5, AppendProperties, EmptySeq
    <3>7. \A i \in 1..1 : i = 1
      OBVIOUS
    <3> QED
      BY <3>2, <3>3, <3>4, <3>5, <3>6, <3>7, SeqEqual
  <2>5. FlattenSeq(SubSeq(xs, c + 1, c + 1)) = xs[c + 1]
    <3>1. FlattenSeq(Append(<<>>, xs[c + 1])) = FlattenSeq(<<>>) \o xs[c + 1]
      <4>1. <<>> \in Seq(Cells)
        BY EmptySeq
      <4> QED
        BY <2>3, <4>1, FlattenAppend DEF Cells
    <3>2. <<>> \o xs[c + 1] = xs[c + 1]
      BY <2>3, ConcatEmptySeq DEF Cells
    <3> QED
      BY <2>4, <3>1, <3>2, FlattenEmpty
  <2> QED
    BY <1>3, <1>4, <1>6, <2>1, <2>2, <2>5
<1> QED
  BY <1>5, <1>6

\* One step of one handle, which leaves the entries alone.
LEMMA HandleStep ==
  ASSUME ZipInv, NEW h \in Handle, entry' = entry, NEW t \in HandleState,
         hd' = [hd EXCEPT ![h] = t], HandleInv(entry[h], t), Owners'
  PROVE  ZipInv'
<1>1. hd \in [Handle -> HandleState] /\ \A g \in Handle : Body!WellFormed(entry[g]) /\ HandleInv(entry[g], hd[g])
  BY DEF ZipInv
<1>2. hd' \in [Handle -> HandleState]
  BY <1>1
<1>3. \A g \in Handle : HandleInv(entry'[g], hd'[g])
  BY <1>1
<1>4. \A g \in Handle : Body!WellFormed(entry'[g])
  BY <1>1
<1>5. ZipInv' = (/\ hd' \in [Handle -> HandleState]
                 /\ \A g \in Handle : Body!WellFormed(entry'[g])
                 /\ \A g \in Handle : HandleInv(entry'[g], hd'[g])
                 /\ Owners')
  BY DEF ZipInv, HandleInv, Handling, Returned, WholeStream, ReadsOn, Progress
<1> QED
  BY <1>2, <1>3, <1>4, <1>5

\* A step that leaves the flate readers where they are.
LEMMA OwnersKept ==
  ASSUME ZipInv, NEW h \in Handle, NEW t \in HandleState, hd' = [hd EXCEPT ![h] = t],
         t.fr = hd[h].fr, fpool' = fpool
  PROVE  Owners'
<1>1. hd \in [Handle -> HandleState] /\ Owners
  BY DEF ZipInv
<1>2. \A g \in Handle : hd'[g].fr = hd[g].fr
  BY <1>1
<1> QED
  BY <1>1, <1>2 DEF Owners

\* What the goroutines of a handle know does not depend on rd, cl and mu alone.
SameStream(s, t) ==
  /\ t.raw = s.raw /\ t.left = s.left /\ t.got = s.got /\ t.out = s.out /\ t.pend = s.pend
  /\ t.err = s.err /\ t.open = s.open /\ t.fr = s.fr /\ t.closes = s.closes

\* Steps that leave the stream alone.
LEMMA Unmoved ==
  ASSUME NEW e, NEW s, NEW t, SameStream(s, t), s.rd \notin {"new", "failed"}, t.rd \notin {"new", "failed"},
         Returned(e, s), WholeStream(e, s)
  PROVE  Returned(e, t) /\ WholeStream(e, t)
<1>1. Returned(e, t)
  BY DEF Returned, SameStream
<1>2. ReadsOn(e, s) => ReadsOn(e, t)
  BY DEF ReadsOn, Progress, SameStream
<1>3. WholeStream(e, t)
  BY <1>2 DEF WholeStream, SameStream
<1> QED
  BY <1>1, <1>3

\* A step of a handle, after which it has the flate reader fr.
Kept(e, t, fr) == t \in HandleState /\ HandleInv(e, t) /\ t.fr = fr

\* Read begins.
LEMMA ReadCallKeeps ==
  ASSUME NEW e, NEW s \in HandleState, HandleInv(e, s), s.rd = "idle", s.err = "nil",
         NEW t, t = [s EXCEPT !.rd = "body"]
  PROVE  Kept(e, t, s.fr)
<1>1. /\ t \in HandleState /\ t.rd = "body" /\ t.cl = s.cl /\ t.mu = s.mu /\ SameStream(s, t)
  BY DEF HandleState, SameStream
<1>2. Handling(e, t)
  BY <1>1 DEF HandleInv, Handling, SameStream
<1>3. Returned(e, t) /\ WholeStream(e, t)
  BY <1>1, Unmoved DEF HandleInv
<1> QED
  BY <1>1, <1>2, <1>3 DEF HandleInv, SameStream, Kept

\* pooledFlateReader.Read takes mu.
LEMMA FlateLockKeeps ==
  ASSUME NEW e, NEW s \in HandleState, HandleInv(e, s), s.rd = "body", ~s.mu, s.fr # None,
         NEW t, t = [s EXCEPT !.rd = "inflate", !.mu = TRUE]
  PROVE  Kept(e, t, s.fr)
<1>1. /\ t \in HandleState /\ t.rd = "inflate" /\ t.cl = s.cl /\ t.mu = TRUE /\ SameStream(s, t)
  BY DEF HandleState, SameStream
<1>2. Handling(e, t)
  BY <1>1 DEF HandleInv, Handling, SameStream
<1>3. Returned(e, t) /\ WholeStream(e, t)
  BY <1>1, Unmoved DEF HandleInv
<1> QED
  BY <1>1, <1>2, <1>3 DEF HandleInv, SameStream, Kept

\* The error of a Read after Close.
LEMMA FlateLockClosedKeeps ==
  ASSUME NEW e, NEW s \in HandleState, HandleInv(e, s), s.rd = "body", ~s.mu, s.fr = None, e.method = "deflate",
         NEW t, t = [s EXCEPT !.rd = "sum", !.pend = [p |-> <<>>, err |-> "Read after Close"]]
  PROVE  Kept(e, t, s.fr)
<1>1. [p |-> <<>>, err |-> "Read after Close"] \in [p : Cells, err : Errors]
  <2>1. <<>> \in Cells
    BY EmptySeq DEF Cells
  <2>2. "Read after Close" \in Errors
    BY DEF Errors
  <2> QED
    BY <2>1, <2>2
<1>2. /\ t \in HandleState /\ t.rd = "sum" /\ t.cl = s.cl /\ t.mu = s.mu
      /\ t.raw = s.raw /\ t.left = s.left /\ t.got = s.got /\ t.out = s.out
      /\ t.err = s.err /\ t.open = s.open /\ t.fr = s.fr /\ t.closes = s.closes
  BY <1>1 DEF HandleState
<1>3. Handling(e, t)
  BY <1>2 DEF HandleInv, Handling
<1>4. Returned(e, t)
  BY <1>2 DEF HandleInv, Returned
<1>5. WholeStream(e, t)
  BY <1>2 DEF HandleInv, WholeStream, ReadsOn
<1> QED
  BY <1>2, <1>3, <1>4, <1>5 DEF HandleInv, Kept

\* A step of Close, after which nothing is promised of the stream.
LEMMA CloseKeeps ==
  ASSUME NEW e, NEW s \in HandleState, HandleInv(e, s), NEW t \in HandleState,
         t.closes > 0, t.rd = s.rd, s.rd \notin {"new", "failed"},
         t.got = s.got, t.out = s.out, t.err = s.err, Handling(e, t)
  PROVE  HandleInv(e, t)
<1>1. Returned(e, t)
  BY DEF HandleInv, Returned
<1>2. WholeStream(e, t)
  BY DEF WholeStream, HandleState
<1> QED
  BY <1>1, <1>2 DEF HandleInv

\* Close drains the raw reader.
LEMMA CloseDrainKeeps ==
  ASSUME NEW e, NEW s \in HandleState, HandleInv(e, s), s.rd \notin {"new", "failed"}, s.cl = "idle",
         NEW n \in {0, 1},
         NEW t, t = [s EXCEPT !.cl = "raw", !.closes = s.closes + 1, !.raw = SubSeq(s.raw, n + 1, Len(s.raw))]
  PROVE  Kept(e, t, s.fr)
<1>1. s.raw \in Seq(Cells) /\ s.closes \in Nat /\ s.closes + 1 \in Nat /\ s.closes + 1 > 0
  BY DEF HandleState
<1>2. SubSeq(s.raw, n + 1, Len(s.raw)) \in Seq(Cells)
  <2>1. Len(s.raw) \in Nat /\ \A i \in (n + 1)..Len(s.raw) : s.raw[i] \in Cells
    BY <1>1, LenProperties, ElementOfSeq
  <2> QED
    BY <2>1, SubSeqProperties
<1>3. /\ t \in HandleState /\ t.rd = s.rd /\ t.cl = "raw" /\ t.mu = s.mu /\ t.pend = s.pend
      /\ t.got = s.got /\ t.out = s.out /\ t.closes = s.closes + 1
      /\ t.err = s.err /\ t.open = s.open /\ t.fr = s.fr
  BY <1>1, <1>2 DEF HandleState
<1>4. Handling(e, t)
  BY <1>1, <1>3 DEF HandleInv, Handling
<1> QED
  BY <1>1, <1>3, <1>4, CloseKeeps DEF Kept

\* Close closes the raw reader.
LEMMA CloseRawKeeps ==
  ASSUME NEW e, NEW s \in HandleState, HandleInv(e, s), s.cl = "raw",
         NEW t, t = [s EXCEPT !.cl = "body", !.open = FALSE]
  PROVE  Kept(e, t, s.fr)
<1>1. s.closes \in Nat /\ s.closes # 0 /\ s.rd \notin {"new", "failed"}
  BY DEF HandleState, HandleInv, Handling
<1>2. /\ t \in HandleState /\ t.rd = s.rd /\ t.cl = "body" /\ t.mu = s.mu /\ t.pend = s.pend
      /\ t.got = s.got /\ t.out = s.out /\ t.closes = s.closes
      /\ t.err = s.err /\ t.open = FALSE /\ t.fr = s.fr
  BY DEF HandleState
<1>3. Handling(e, t)
  BY <1>1, <1>2 DEF HandleInv, Handling
<1>4. t.closes > 0
  BY <1>1, <1>2
<1> QED
  BY <1>1, <1>2, <1>3, <1>4, CloseKeeps DEF Kept

\* Close closes the body.
LEMMA CloseBodyKeeps ==
  ASSUME NEW e, NEW s \in HandleState, HandleInv(e, s), s.cl = "body",
         NEW t, \/ t = [s EXCEPT !.cl = "idle", !.fr = None] /\ ~s.mu
                \/ t = [s EXCEPT !.cl = "idle"] /\ e.method # "deflate"
  PROVE  Kept(e, t, None)
<1>1. s.closes \in Nat /\ s.closes # 0 /\ s.rd \notin {"new", "failed"}
  BY DEF HandleState, HandleInv, Handling
<1>2. /\ t \in HandleState /\ t.rd = s.rd /\ t.cl = "idle" /\ t.mu = s.mu /\ t.pend = s.pend
      /\ t.got = s.got /\ t.out = s.out /\ t.closes = s.closes
      /\ t.err = s.err /\ t.open = s.open
  BY ZenonT(90) DEF HandleState
<1>3. t.fr = None /\ (s.mu => t.fr # None)
  <2>1. CASE t = [s EXCEPT !.cl = "idle", !.fr = None] /\ ~s.mu
    BY <2>1 DEF HandleState
  <2>2. CASE t = [s EXCEPT !.cl = "idle"] /\ e.method # "deflate"
    <3>1. s.fr = None /\ t.fr = s.fr /\ ~s.mu
      BY <2>2 DEF HandleState, HandleInv, Handling
    <3> QED
      BY <3>1
  <2> QED
    BY <2>1, <2>2
<1>4. Handling(e, t)
  BY <1>1, <1>2, <1>3 DEF HandleInv, Handling
<1>5. t.closes > 0
  BY <1>1, <1>2
<1> QED
  BY <1>1, <1>2, <1>3, <1>4, <1>5, CloseKeeps DEF Kept

\* What a Read of the body's raw stream returned: n cells and the error x.
Outcome(e, s, n, x) ==
  \/ s.left = 0 /\ n = 0 /\ x = "EOF"
  \/ s.left # 0 /\ ~s.open /\ n = 0 /\ x = "closed"
  \/ s.left # 0 /\ s.open /\ 1 <= n /\ x = "nil"
  \/ s.left # 0 /\ s.open /\ n = Len(s.raw) /\ x = e.tail

\* A Read of the raw reader has such an outcome.
LEMMA RawReadOK ==
  ASSUME NEW h \in Handle, hd[h] \in HandleState, Body!WellFormed(entry[h]),
         NEW k \in 1..hd[h].left, NEW res1 \in Body!RawRead(h, k)
  PROVE  /\ res1.n \in Nat /\ res1.n <= k /\ res1.n <= Len(hd[h].raw) /\ res1.err \in Errors
         /\ Outcome(entry[h], hd[h], res1.n, res1.err)
<1>1. PICK all \in Nat : all = Len(hd[h].raw)
  BY LenProperties DEF HandleState
<1>2. k \in Nat /\ hd[h].left # 0
  BY DEF HandleState
<1>3. "closed" \in Errors /\ "nil" \in Errors /\ entry[h].tail \in Errors
  BY DEF Errors, Body!WellFormed
<1>4. PICK m : m = Body!Min({k, Len(hd[h].raw)})
  OBVIOUS
<1>5. m \in Nat /\ m <= k /\ m <= all
  BY <1>1, <1>2, <1>4, SmallestOf, SameHelpers
<1>6. CASE ~hd[h].open
  <2>1. res1 = [n |-> 0, err |-> "closed"]
    BY <1>6 DEF Body!RawRead
  <2> QED
    BY <1>1, <1>2, <1>3, <1>6, <2>1 DEF Outcome
<1>7. CASE hd[h].open
  <2>1. res1 \in [n : 1..m, err : {"nil"}] \/ (k >= all /\ res1 = [n |-> all, err |-> entry[h].tail])
    BY <1>1, <1>4, <1>7 DEF Body!RawRead
  <2>2. CASE res1 \in [n : 1..m, err : {"nil"}]
    <3>1. res1.n \in 1..m /\ res1.err = "nil"
      BY <2>2
    <3>2. res1.n \in Nat /\ 1 <= res1.n /\ res1.n <= k /\ res1.n <= all
      BY <1>2, <1>5, <3>1
    <3> QED
      BY <1>1, <1>2, <1>3, <1>7, <3>1, <3>2 DEF Outcome
  <2>3. CASE k >= all /\ res1 = [n |-> all, err |-> entry[h].tail]
    <3>1. res1.n = all /\ res1.err = entry[h].tail
      BY <2>3
    <3>2. all <= k
      BY <1>2, <2>3
    <3> QED
      BY <1>1, <1>2, <1>3, <1>7, <3>1, <3>2 DEF Outcome
  <2> QED
    BY <2>1, <2>2, <2>3
<1> QED
  BY <1>6, <1>7

\* The rest of a sequence.
LEMMA RestOf ==
  ASSUME NEW V, NEW s \in Seq(V), NEW c \in 0..Len(s), NEW q, q = SubSeq(s, c + 1, Len(s))
  PROVE  q \in Seq(V) /\ Len(q) = Len(s) - c /\ \A i \in 1..(Len(s) - c) : q[i] = s[c + i]
<1>1. PICK l \in Nat : l = Len(s)
  BY LenProperties
<1>2. c \in Nat /\ c <= l
  BY <1>1
<1>3. \A i \in 1..l : s[i] \in V
  BY <1>1, ElementOfSeq
<1>4. \A i \in (c + 1)..l : s[i] \in V
  BY <1>2, <1>3
<1>5. /\ q \in Seq(V) /\ Len(q) = (IF c + 1 <= l THEN l - (c + 1) + 1 ELSE 0)
      /\ \A i \in 1..(l - (c + 1) + 1) : q[i] = s[c + 1 + i - 1]
  BY <1>1, <1>2, <1>4, SubSeqProperties
<1>6. l - (c + 1) + 1 = l - c /\ (~(c + 1 <= l) => l - c = 0) /\ \A i \in 1..l : c + 1 + i - 1 = c + i
  BY <1>2
<1>7. \A i \in 1..(l - c) : i \in 1..l
  BY <1>2
<1> QED
  BY <1>1, <1>5, <1>6, <1>7

\* What is left of what is left.
LEMMA RestOfRest ==
  ASSUME NEW V, NEW s \in Seq(V), NEW c \in 0..Len(s), NEW q, q = SubSeq(s, c + 1, Len(s)), NEW n \in 0..(Len(s) - c)
  PROVE  /\ SubSeq(q, n + 1, Len(q)) = SubSeq(s, c + n + 1, Len(s))
         /\ SubSeq(q, n + 1, Len(q)) \in Seq(V)
<1>1. PICK l \in Nat : l = Len(s)
  BY LenProperties
<1>2. PICK d \in Nat : d = c + n
  BY <1>1
<1>3. PICK m \in Nat : m = l - c
  BY <1>1
<1>4. /\ c \in Nat /\ n \in Nat /\ n <= m /\ d <= l /\ m - n = l - d
      /\ \A i \in 1..(m - n) : n + i \in 1..m /\ c + (n + i) = d + i
  BY <1>1, <1>2, <1>3
<1>5. q \in Seq(V) /\ Len(q) = m /\ \A i \in 1..m : q[i] = s[c + i]
  BY <1>1, <1>3, RestOf
<1>6. PICK u, v : u = SubSeq(q, n + 1, Len(q)) /\ v = SubSeq(s, d + 1, Len(s))
  OBVIOUS
<1>7. u \in Seq(V) /\ Len(u) = m - n /\ \A i \in 1..(m - n) : u[i] = q[n + i]
  <2>1. n \in 0..Len(q)
    BY <1>4, <1>5
  <2> QED
    BY <1>5, <1>6, <2>1, RestOf, SMTT(60)
<1>8. v \in Seq(V) /\ Len(v) = l - d /\ \A i \in 1..(l - d) : v[i] = s[d + i]
  <2>1. d \in 0..Len(s)
    BY <1>1, <1>4
  <2> QED
    BY <1>1, <1>6, <2>1, RestOf
<1>9. \A i \in 1..(m - n) : u[i] = v[i]
  <2> SUFFICES ASSUME NEW i \in 1..(m - n) PROVE u[i] = v[i]
    OBVIOUS
  <2>1. n + i \in 1..m /\ c + (n + i) = d + i /\ i \in 1..(l - d)
    BY <1>4
  <2>2. u[i] = q[n + i] /\ q[n + i] = s[c + (n + i)] /\ v[i] = s[d + i]
    BY <1>5, <1>7, <1>8, <2>1
  <2> QED
    BY <2>1, <2>2
<1>10. u = v
  BY <1>4, <1>7, <1>8, <1>9, SeqEqual
<1>11. v = SubSeq(s, c + n + 1, Len(s))
  BY <1>2, <1>6
<1> QED
  BY <1>6, <1>7, <1>10, <1>11

\* A reader of a whole stream that has read c cells of the body: what it reads
\* next is the body.
LEMMA ProgressOK ==
  ASSUME NEW e, Body!WellFormed(e), Body!Intact(e), NEW s \in HandleState, ReadsOn(e, s),
         NEW c \in 0..BodyLen(e), Progress(e, s, c), NEW n \in Nat, n <= s.left
  PROVE  /\ c \in Nat /\ BodyLen(e) \in Nat /\ c + n <= BodyLen(e) /\ s.left = BodyLen(e) - c
         /\ Len(s.raw) \in Nat /\ s.left <= Len(s.raw)
         /\ \A i \in 1..s.left : s.raw[i] = Body!Body(e)[c + i]
         /\ SubSeq(s.raw, n + 1, Len(s.raw)) = SubSeq(Rest(e), c + n + 1, Len(Rest(e)))
<1>1. PICK b \in Nat, d \in Nat : b = BodyLen(e) /\ d = Len(Desc(e))
  BY ReadSizeOK, DescOK, LenProperties
<1>2. e.localLen <= e.varLen + 1
  BY DEF ReadsOn, Body!openReadSlop
<1>3. PICK rest \in Seq(Cells) : rest = Rest(e)
  BY <1>2, RestOK
<1>4. PICK l \in Nat : l = Len(rest)
  BY LenProperties
<1>5. l >= b + d /\ \A i \in 1..b : rest[i] = Body!Body(e)[i]
  BY <1>1, <1>2, <1>3, <1>4, RestOK
<1>6. c \in 0..b /\ s.left = b - c /\ s.raw = SubSeq(rest, c + 1, Len(rest))
  BY <1>1, <1>3 DEF Progress
<1>7. c \in 0..Len(rest) /\ n \in 0..(Len(rest) - c) /\ c + n <= b /\ c \in Nat
  BY <1>4, <1>5, <1>6
<1>8. /\ Len(s.raw) = l - c
      /\ \A i \in 1..(l - c) : s.raw[i] = rest[c + i]
      /\ SubSeq(s.raw, n + 1, Len(s.raw)) = SubSeq(rest, c + n + 1, Len(rest))
  <2>1. PICK q : q = s.raw
    OBVIOUS
  <2>2. q = SubSeq(rest, c + 1, Len(rest))
    BY <1>6, <2>1
  <2>3. Len(q) = Len(rest) - c /\ \A i \in 1..(Len(rest) - c) : q[i] = rest[c + i]
    BY <1>7, <2>2, RestOf
  <2>4. SubSeq(q, n + 1, Len(q)) = SubSeq(rest, c + n + 1, Len(rest))
    BY <1>7, <2>2, RestOfRest
  <2> QED
    BY <1>4, <2>1, <2>3, <2>4
<1>9. \A i \in 1..(b - c) : s.raw[i] = Body!Body(e)[c + i]
  <2> SUFFICES ASSUME NEW i \in 1..(b - c) PROVE s.raw[i] = Body!Body(e)[c + i]
    OBVIOUS
  <2>1. i \in 1..(l - c) /\ c + i \in 1..b
    BY <1>5, <1>7
  <2> QED
    BY <1>5, <1>8, <2>1
<1>10. Len(s.raw) \in Nat /\ s.left <= Len(s.raw)
  BY <1>5, <1>6, <1>7, <1>8
<1> QED
  BY <1>1, <1>3, <1>6, <1>7, <1>8, <1>9, <1>10

\* A read of n cells of the raw stream, of which p and the error x are made.
ReadTo(s, n, p, x, t) ==
  /\ t.raw = SubSeq(s.raw, n + 1, Len(s.raw)) /\ t.left = s.left - n
  /\ t.rd = "sum" /\ ~t.mu /\ t.pend = [p |-> p, err |-> x]
  /\ t.cl = s.cl /\ t.open = s.open /\ t.fr = s.fr /\ t.err = s.err
  /\ t.got = s.got /\ t.out = s.out /\ t.closes = s.closes

\* Such a read leaves a handle.
LEMMA ReadToTyped ==
  ASSUME NEW s \in HandleState, NEW n \in Nat, n <= s.left, n <= Len(s.raw), NEW p \in Cells, NEW x \in Errors,
         NEW t, \/ t = [s EXCEPT !.raw = SubSeq(s.raw, n + 1, Len(s.raw)), !.left = s.left - n,
                                 !.rd = "sum", !.mu = FALSE, !.pend = [p |-> p, err |-> x]]
                \/ ~s.mu /\ t = [s EXCEPT !.raw = SubSeq(s.raw, n + 1, Len(s.raw)), !.left = s.left - n,
                                 !.rd = "sum", !.pend = [p |-> p, err |-> x]]
  PROVE  t \in HandleState /\ ReadTo(s, n, p, x, t)
<1>1. s.raw \in Seq(Cells) /\ s.left \in Nat /\ s.left - n \in Nat
  BY DEF HandleState
<1>2. SubSeq(s.raw, n + 1, Len(s.raw)) \in Seq(Cells)
  <2>1. n \in 0..Len(s.raw)
    BY <1>1, LenProperties
  <2> QED
    BY <1>1, <2>1, RestOf
<1>3. [p |-> p, err |-> x] \in [p : Cells, err : Errors]
  OBVIOUS
<1>4. PICK raw \in Seq(Cells), left \in Nat, pend \in [p : Cells, err : Errors] :
        raw = SubSeq(s.raw, n + 1, Len(s.raw)) /\ left = s.left - n /\ pend = [p |-> p, err |-> x]
  BY <1>1, <1>2, <1>3
<1>5. CASE t = [s EXCEPT !.raw = raw, !.left = left, !.rd = "sum", !.mu = FALSE, !.pend = pend]
  BY <1>4, <1>5 DEF HandleState, ReadTo
<1>6. CASE ~s.mu /\ t = [s EXCEPT !.raw = raw, !.left = left, !.rd = "sum", !.pend = pend]
  BY <1>4, <1>6 DEF HandleState, ReadTo
<1> QED
  BY <1>4, <1>5, <1>6

\* What it made is what the body of a whole stream has next.
ReadsBody(e, s, n, p, x) ==
  \A c \in 0..BodyLen(e) :
    Body!Intact(e) /\ ReadsOn(e, s) /\ Progress(e, s, c) =>
      /\ x \in {"nil", "EOF"} /\ Delivered(e, c + n) = Delivered(e, c) \o p
      /\ x = "EOF" => c + n = BodyLen(e)
      /\ e.method = "deflate" /\ c + n = BodyLen(e) => x = "EOF"

\* Such a read of the body is a step of the invariant.
LEMMA ReadToKeeps ==
  ASSUME NEW e, Body!WellFormed(e), NEW s \in HandleState, HandleInv(e, s), s.rd \in {"body", "inflate"},
         NEW n \in Nat, n <= s.left, NEW p \in Cells, NEW x \in Errors,
         NEW t \in HandleState, ReadTo(s, n, p, x, t), ReadsBody(e, s, n, p, x)
  PROVE  HandleInv(e, t)
<1>1. Handling(e, t)
  BY DEF HandleInv, Handling, ReadTo
<1>2. Returned(e, t)
  BY DEF HandleInv, Returned, ReadTo
<1>3. ASSUME Body!Intact(e), s.closes = 0 PROVE ReadsOn(e, t)
  <2>1. ReadsOn(e, s) /\ s.err = "nil" /\ s.pend = [p |-> <<>>, err |-> "nil"]
    BY <1>3 DEF HandleInv, WholeStream, Handling
  <2>2. PICK c \in 0..BodyLen(e) : Progress(e, s, c)
    BY <2>1 DEF ReadsOn
  <2>3. /\ x \in {"nil", "EOF"} /\ Delivered(e, c + n) = Delivered(e, c) \o p
        /\ x = "EOF" => c + n = BodyLen(e)
        /\ e.method = "deflate" /\ c + n = BodyLen(e) => x = "EOF"
    BY <1>3, <2>1, <2>2 DEF ReadsBody
  <2>4. /\ c \in Nat /\ BodyLen(e) \in Nat /\ c + n <= BodyLen(e) /\ s.left = BodyLen(e) - c
        /\ SubSeq(s.raw, n + 1, Len(s.raw)) = SubSeq(Rest(e), c + n + 1, Len(Rest(e)))
    BY <1>3, <2>1, <2>2, ProgressOK
  <2>5. s.got = Delivered(e, c)
    <3>1. s.got \o <<>> = Delivered(e, c)
      BY <2>1, <2>2 DEF Progress
    <3>2. s.got \o <<>> = s.got
      BY ConcatEmptySeq DEF HandleState, Cells
    <3> QED
      BY <3>1, <3>2
  <2>6. Progress(e, t, c + n)
    <3>1. t.pend.p = p /\ t.pend.err = x
      BY DEF ReadTo
    <3>2. t.left = BodyLen(e) - (c + n)
      BY <2>4 DEF ReadTo
    <3> QED
      BY <2>1, <2>3, <2>4, <2>5, <3>1, <3>2 DEF Progress, ReadTo
  <2>7. c + n \in 0..BodyLen(e)
    BY <2>4
  <2>8. t.pend.err = x
    BY DEF ReadTo
  <2> QED
    BY <2>1, <2>3, <2>6, <2>7, <2>8 DEF ReadsOn, ReadTo
<1>4. WholeStream(e, t)
  BY <1>3 DEF WholeStream, ReadTo
<1> QED
  BY <1>1, <1>2, <1>4 DEF HandleInv

\* A read of a stored body.
LEMMA StoreReadKeeps ==
  ASSUME NEW e, Body!WellFormed(e), NEW s \in HandleState, HandleInv(e, s), s.rd = "body", e.method = "store",
         NEW n \in Nat, n <= s.left, n <= Len(s.raw), NEW x \in Errors, Outcome(e, s, n, x),
         NEW t, t = [s EXCEPT !.raw = SubSeq(s.raw, n + 1, Len(s.raw)), !.left = s.left - n,
                              !.rd = "sum", !.pend = [p |-> FlattenSeq(SubSeq(s.raw, 1, n)), err |-> x]]
  PROVE  Kept(e, t, s.fr)
<1>1. PICK p : p = FlattenSeq(SubSeq(s.raw, 1, n))
  OBVIOUS
<1>2. s.raw \in Seq(Cells) /\ Len(s.raw) \in Nat /\ n \in 0..Len(s.raw) /\ s.left \in Nat /\ ~s.mu
  BY LenProperties DEF HandleState, HandleInv, Handling
<1>3. p \in Cells /\ SubSeq(s.raw, 1, n) \in Seq(Cells)
  BY <1>1, <1>2, FlattenPart
<1>4. t \in HandleState /\ ReadTo(s, n, p, x, t)
  BY <1>1, <1>2, <1>3, ReadToTyped
<1>5. ASSUME NEW c \in 0..BodyLen(e), Body!Intact(e), ReadsOn(e, s), Progress(e, s, c)
      PROVE  /\ x \in {"nil", "EOF"} /\ Delivered(e, c + n) = Delivered(e, c) \o p
             /\ x = "EOF" => c + n = BodyLen(e)
             /\ e.method = "deflate" /\ c + n = BodyLen(e) => x = "EOF"
  <2>1. /\ c \in Nat /\ BodyLen(e) \in Nat /\ c + n <= BodyLen(e) /\ s.left = BodyLen(e) - c
        /\ s.left <= Len(s.raw)
        /\ \A i \in 1..s.left : s.raw[i] = Body!Body(e)[c + i]
    BY <1>5, ProgressOK
  <2>2. PICK l \in Nat : l = Len(e.cells)
    BY BodyOK
  <2>3. e.cells \in Seq(Cells) /\ BodyLen(e) = l /\ \A i \in 1..l : Body!Body(e)[i] = e.cells[i]
    <3>1. BodyLen(e) = l + 0
      BY <2>2, BodyOK
    <3>2. e.cells \in Seq(Cells) /\ \A i \in 1..l : Body!Body(e)[i] = e.cells[i]
      BY <2>2, BodyOK
    <3> QED
      BY <3>1, <3>2
  <2>4. SubSeq(s.raw, 1, n) = SubSeq(e.cells, c + 1, c + n)
    <3>1. PICK u, v : u = SubSeq(s.raw, 1, n) /\ v = SubSeq(e.cells, c + 1, c + n)
      OBVIOUS
    <3>2. \A i \in 1..n : s.raw[i] \in Cells
      BY <1>2, ElementOfSeq
    <3>3. u \in Seq(Cells) /\ Len(u) = (IF 1 <= n THEN n - 1 + 1 ELSE 0) /\ \A i \in 1..(n - 1 + 1) : u[i] = s.raw[1 + i - 1]
      BY <1>2, <3>1, <3>2, SubSeqProperties, SMTT(60)
    <3>4. \A i \in (c + 1)..(c + n) : e.cells[i] \in Cells
      <4>1. \A i \in (c + 1)..(c + n) : i \in 1..l
        BY <2>1, <2>3
      <4> QED
        BY <2>2, <2>3, <4>1, ElementOfSeq
    <3>5. PICK cn \in Nat : cn = c + n
      BY <2>1
    <3>6. /\ v \in Seq(Cells) /\ Len(v) = (IF c + 1 <= cn THEN cn - (c + 1) + 1 ELSE 0)
          /\ \A i \in 1..(cn - (c + 1) + 1) : v[i] = e.cells[c + 1 + i - 1]
      <4>1. \A i \in (c + 1)..cn : e.cells[i] \in Cells
        BY <3>4, <3>5
      <4>2. v = SubSeq(e.cells, c + 1, cn) /\ c + 1 \in Nat
        BY <2>1, <3>1, <3>5
      <4>3. PICK c1 \in Nat : c1 = c + 1
        BY <4>2
      <4> QED
        BY <2>3, <3>5, <4>1, <4>2, <4>3, SubSeqProperties, SMTT(60)
    <3>7. Len(u) = n /\ Len(v) = n
      BY <2>1, <3>3, <3>5, <3>6
    <3>8. ASSUME NEW i \in 1..n PROVE u[i] = v[i]
      <4>1. /\ i \in 1..(n - 1 + 1) /\ 1 + i - 1 = i /\ i \in 1..(cn - (c + 1) + 1) /\ c + 1 + i - 1 = c + i
            /\ i \in 1..s.left /\ c + i \in 1..l
        <5>1. c \in Nat /\ cn = c + n /\ n <= s.left /\ s.left = l - c /\ l \in Nat /\ c + n <= l
          BY <2>1, <2>3, <3>5
        <5> QED
          BY <5>1, SMTT(60)
      <4>2. u[i] = s.raw[i] /\ v[i] = e.cells[c + i]
        BY <3>3, <3>6, <4>1
      <4> QED
        BY <2>1, <2>3, <4>1, <4>2
    <3> QED
      BY <3>1, <3>3, <3>6, <3>7, <3>8, SeqEqual
  <2>5. Delivered(e, c + n) = Delivered(e, c) \o p
    <3>1. c \in Nat /\ c + n <= Len(e.cells)
      BY <2>1, <2>2, <2>3
    <3>2. Delivered(e, c + n) = Delivered(e, c) \o FlattenSeq(SubSeq(e.cells, c + 1, c + n))
      BY <3>1, StoreDelivers
    <3> QED
      BY <1>1, <2>4, <3>2
  <2>6. s.open /\ e.tail = "EOF"
    BY <1>5 DEF ReadsOn, Body!Intact, HandleInv, Handling
  <2>7. x \in {"nil", "EOF"} /\ (x = "EOF" => c + n = BodyLen(e))
    BY <1>2, <2>1, <2>6 DEF Outcome
  <2> QED
    BY <2>5, <2>7
<1>6. HandleInv(e, t)
  <2>1. ReadsBody(e, s, n, p, x)
    BY <1>5 DEF ReadsBody
  <2> QED
    BY <1>3, <1>4, <2>1, ReadToKeeps
<1> QED
  BY <1>4, <1>6 DEF ReadTo, Kept

\* A read of a cell of a deflated body.
LEMMA FlateReadKeeps ==
  ASSUME NEW e, Body!WellFormed(e), NEW s \in HandleState, HandleInv(e, s), s.rd = "inflate",
         NEW n \in Nat, n <= 1, n <= s.left, n <= Len(s.raw), NEW x, Outcome(e, s, n, x),
         NEW p \in Cells, NEW err \in Errors,
         n = 1 /\ s.raw[1] = Body!Fin => p = <<>> /\ err = "EOF",
         n = 1 /\ s.raw[1] # Body!Fin => p = s.raw[1] \o s.raw[1] /\ err = "nil",
         NEW t, t = [s EXCEPT !.raw = SubSeq(s.raw, n + 1, Len(s.raw)), !.left = s.left - n,
                              !.rd = "sum", !.mu = FALSE, !.pend = [p |-> p, err |-> err]]
  PROVE  Kept(e, t, s.fr)
<1>1. s.raw \in Seq(Cells) /\ Len(s.raw) \in Nat /\ n \in 0..Len(s.raw) /\ s.left \in Nat
  BY LenProperties DEF HandleState
<1>2. e.method = "deflate" /\ s.err = "nil" /\ s.pend = [p |-> <<>>, err |-> "nil"]
  BY DEF HandleInv, Handling
<1>4. t \in HandleState /\ ReadTo(s, n, p, err, t)
  BY <1>1, ReadToTyped
<1>5. ASSUME NEW c \in 0..BodyLen(e), Body!Intact(e), ReadsOn(e, s), Progress(e, s, c)
      PROVE  /\ err \in {"nil", "EOF"} /\ Delivered(e, c + n) = Delivered(e, c) \o p
             /\ err = "EOF" => c + n = BodyLen(e)
             /\ e.method = "deflate" /\ c + n = BodyLen(e) => err = "EOF"
  <2>1. /\ c \in Nat /\ BodyLen(e) \in Nat /\ c + n <= BodyLen(e) /\ s.left = BodyLen(e) - c
        /\ s.left <= Len(s.raw)
        /\ \A i \in 1..s.left : s.raw[i] = Body!Body(e)[c + i]
    BY <1>1, <1>5, ProgressOK
  <2>2. PICK l \in Nat : l = Len(e.cells)
    BY BodyOK
  <2>3. BodyLen(e) = l + 1 /\ Body!Body(e)[l + 1] = Body!Fin /\ \A i \in 1..l : Body!Body(e)[i] = e.cells[i]
    BY <1>2, <2>2, BodyOK
  <2>4. c # BodyLen(e)
    <3>1. s.pend.err = "nil"
      BY <1>2
    <3> QED
      BY <1>2, <1>5, <3>1 DEF Progress
  <2>5. s.left # 0 /\ 1 \in 1..s.left /\ c <= l
    BY <1>1, <2>1, <2>3, <2>4
  <2>6. s.open
    BY <1>2, <1>5 DEF ReadsOn
  <2>7. n = 1
    BY <1>1, <2>1, <2>5, <2>6 DEF Outcome
  <2>8. s.raw[1] = Body!Body(e)[c + 1]
    BY <2>1, <2>5
  <2>9. Delivered(e, c) \in Cells /\ Delivered(e, c) \o <<>> = Delivered(e, c)
    BY <2>1, DeliveredOK, ConcatEmptySeq DEF Cells
  <2>10. CASE c = l
    <3>1. s.raw[1] = Body!Fin
      BY <2>3, <2>8, <2>10
    <3>2. p = <<>> /\ err = "EOF"
      BY <2>7, <3>1
    <3>3. Delivered(e, c + 1) = Delivered(e, c)
      <4>1. c \in Nat /\ c = Len(e.cells) /\ c <= Len(e.cells)
        BY <2>1, <2>2, <2>10
      <4> QED
        BY <1>2, <4>1, FlateDelivers
    <3> QED
      BY <2>3, <2>7, <2>9, <2>10, <3>2, <3>3
  <2>11. CASE c # l
    <3>1. c + 1 \in 1..l
      BY <2>1, <2>5, <2>11
    <3>2. s.raw[1] = e.cells[c + 1]
      BY <2>3, <2>8, <3>1
    <3>3. e.cells[c + 1] # Body!Fin
      <4>1. e.cells \in Seq(Seq(STRING)) /\ Body!Fin \notin Range(e.cells)
        BY SameHelpers DEF Body!WellFormed
      <4>2. c + 1 \in DOMAIN e.cells
        BY <2>2, <3>1, <4>1
      <4> QED
        BY <4>1, <4>2 DEF Range
    <3>4. p = e.cells[c + 1] \o e.cells[c + 1] /\ err = "nil"
      BY <2>7, <3>2, <3>3
    <3>5. Delivered(e, c + 1) = Delivered(e, c) \o (e.cells[c + 1] \o e.cells[c + 1])
      <4>1. c \in Nat /\ c # Len(e.cells) /\ c <= Len(e.cells)
        BY <2>1, <2>2, <2>5, <2>11
      <4> QED
        BY <1>2, <4>1, FlateDelivers
    <3>6. c + 1 # BodyLen(e)
      BY <2>1, <2>3, <2>11
    <3> QED
      BY <2>7, <3>4, <3>5, <3>6
  <2> QED
    BY <2>10, <2>11
<1>6. HandleInv(e, t)
  <2>1. ReadsBody(e, s, n, p, err)
    BY <1>5 DEF ReadsBody
  <2> QED
    BY <1>4, <2>1, ReadToKeeps
<1> QED
  BY <1>4, <1>6 DEF ReadTo, Kept

\* readDataDescriptor never returns io.EOF.
LEMMA DescriptorErr ==
  ASSUME NEW h \in Handle, Body!WellFormed(entry[h])
  PROVE  Body!readDataDescriptor(h) \in Errors /\ Body!readDataDescriptor(h) # "EOF"
<1>1. PICK tail : tail = IF hd[h].open THEN entry[h].tail ELSE "closed"
  OBVIOUS
<1>2. entry[h].tail \in Errors /\ "closed" \in Errors /\ "unexpected EOF" \in Errors /\ "ErrChecksum" \in Errors /\ "nil" \in Errors
  BY DEF Errors, Body!WellFormed
<1>3. tail \in Errors
  BY <1>1, <1>2
<1>4. \/ Body!readDataDescriptor(h) = IF tail = "EOF" THEN "unexpected EOF" ELSE tail
      \/ Body!readDataDescriptor(h) \in {"ErrChecksum", "nil"}
  BY <1>1, Zenon DEF Body!readDataDescriptor
<1> QED
  BY <1>2, <1>3, <1>4

\* What sumErr makes of x.
Summed(e, desc, x, all, err) ==
  /\ err \in Errors
  /\ err = "EOF" => /\ x = "EOF" /\ Len(all) = Len(e.data)
                    /\ e.hasDesc \/ e.crc # <<>> => all = e.crc
  /\ err = "nil" => x = "nil" /\ Len(all) <= Len(e.data)
  /\ Len(all) <= Len(e.data) /\ x # "EOF" => err = x
  /\ Len(all) = Len(e.data) /\ x = "EOF" /\ (e.hasDesc => desc = "nil") /\ (e.hasDesc \/ e.crc # <<>> => all = e.crc) =>
       err = "EOF"

\* sumErr does it.
LEMMA SumErrOK ==
  ASSUME NEW h \in Handle, Body!WellFormed(entry[h]), NEW x \in Errors, NEW all \in Cells
  PROVE  Summed(entry[h], Body!readDataDescriptor(h), x, all, Body!sumErr(h, x, all))
<1>1. PICK desc \in Errors : desc = Body!readDataDescriptor(h) /\ desc # "EOF"
  BY DescriptorErr
<1>2. PICK m \in Nat, d \in Nat : m = Len(all) /\ d = Len(entry[h].data)
  BY LenProperties, DescOK DEF Cells
<1>3. PICK err : err = Body!sumErr(h, x, all)
  OBVIOUS
<1>4. "ErrFormat" \in Errors /\ "unexpected EOF" \in Errors /\ "ErrChecksum" \in Errors /\ "EOF" \in Errors
  BY DEF Errors
<1>5. CASE m > d
  <2>2. ~(m <= d) /\ m # d /\ ~(m < d)
    BY <1>5
  <2>1. err = "ErrFormat"
    BY <1>2, <1>3, <1>5, <2>2 DEF Body!sumErr
  <2> QED
    BY <1>1, <1>2, <1>3, <1>4, <2>1, <2>2 DEF Summed
<1>6. CASE m <= d /\ x # "EOF"
  <2>1. ~(m > d)
    BY <1>6
  <2>2. err = x
    BY <1>2, <1>3, <1>6, <2>1 DEF Body!sumErr
  <2> QED
    BY <1>1, <1>2, <1>3, <1>6, <2>2 DEF Summed
<1>7. CASE m < d /\ x = "EOF"
  <2>1. ~(m > d) /\ m <= d /\ m # d
    BY <1>7
  <2>2. err = "unexpected EOF"
    BY <1>2, <1>3, <1>7, <2>1 DEF Body!sumErr
  <2> QED
    BY <1>1, <1>2, <1>3, <1>4, <1>7, <2>1, <2>2 DEF Summed
<1>8. CASE m = d /\ x = "EOF"
  <2>1. ~(m > d) /\ ~(m < d)
    BY <1>8
  <2>2. err = IF entry[h].hasDesc /\ desc # "nil" THEN desc
              ELSE IF (entry[h].hasDesc \/ entry[h].crc # <<>>) /\ all # entry[h].crc THEN "ErrChecksum"
              ELSE "EOF"
    BY <1>1, <1>2, <1>3, <1>8, <2>1 DEF Body!sumErr
  <2>3. entry[h].hasDesc \in BOOLEAN /\ m <= d
    BY <1>8 DEF Body!WellFormed
  <2>4. CASE entry[h].hasDesc /\ desc # "nil"
    BY <1>1, <1>2, <1>3, <1>8, <2>2, <2>3, <2>4 DEF Summed
  <2>5. CASE ~(entry[h].hasDesc /\ desc # "nil") /\ (entry[h].hasDesc \/ entry[h].crc # <<>>) /\ all # entry[h].crc
    BY <1>1, <1>2, <1>3, <1>4, <1>8, <2>2, <2>3, <2>5 DEF Summed
  <2>6. CASE ~(entry[h].hasDesc /\ desc # "nil") /\ ~((entry[h].hasDesc \/ entry[h].crc # <<>>) /\ all # entry[h].crc)
    BY <1>1, <1>2, <1>3, <1>4, <1>8, <2>2, <2>3, <2>6 DEF Summed
  <2> QED
    BY <2>4, <2>5, <2>6
<1> QED
  BY <1>2, <1>5, <1>6, <1>7, <1>8

\* The descriptor of a whole stream, when the body is read.
LEMMA DescriptorRead ==
  ASSUME NEW h \in Handle, Body!WellFormed(entry[h]), Body!Intact(entry[h]), hd[h] \in HandleState,
         ReadsOn(entry[h], hd[h]), Progress(entry[h], hd[h], BodyLen(entry[h])), hd[h].open, entry[h].hasDesc
  PROVE  Body!readDataDescriptor(h) = "nil"
<1>1. PICK e, raw : e = entry[h] /\ raw = hd[h].raw
  OBVIOUS
<1>2. PICK b \in Nat, d \in Nat : b = BodyLen(e) /\ d = Len(Desc(e))
  BY <1>1, ReadSizeOK, DescOK, LenProperties
<1>3. e.localLen <= e.varLen + 1
  BY <1>1 DEF ReadsOn, Body!openReadSlop
<1>4. PICK rest \in Seq(Cells) : rest = Rest(e)
  BY <1>1, <1>3, RestOK
<1>5. PICK l \in Nat : l = Len(rest)
  BY LenProperties
<1>6. l >= b + d /\ \A i \in 1..d : rest[b + i] = Desc(e)[i]
  BY <1>1, <1>2, <1>3, <1>4, <1>5, RestOK
<1>7. raw = SubSeq(rest, b + 1, Len(rest)) /\ b \in 0..Len(rest)
  BY <1>1, <1>2, <1>4, <1>5, <1>6 DEF Progress
<1>8. Len(raw) = l - b /\ \A i \in 1..(l - b) : raw[i] = rest[b + i]
  BY <1>5, <1>7, RestOf
<1>9. \A i \in 1..d : raw[i] = Desc(e)[i]
  <2>1. \A i \in 1..d : i \in 1..(l - b)
    BY <1>6
  <2> QED
    BY <1>6, <1>8, <2>1
<1>10. e.crc = e.data /\ e.data # Body!DescSig /\ e.hasSig \in BOOLEAN
  BY <1>1 DEF Body!WellFormed
<1>11. Len(raw) >= d /\ raw \in Seq(Cells)
  BY <1>1, <1>6, <1>8 DEF HandleState
<1>12. PICK sig \in {0, 1} : sig = IF raw # <<>> /\ raw[1] = Body!DescSig THEN 1 ELSE 0
  OBVIOUS
<1>13. d >= 3 /\ raw # <<>>
  <2>1. d = IF e.hasSig THEN 4 ELSE 3
    BY <1>1, <1>2, DescOK
  <2> QED
    BY <1>11, <2>1, EmptySeq
<1>14. ~(Len(raw) < sig + 3) /\ raw[sig + 1] = e.crc
  <2>1. CASE e.hasSig
    <3>1. d = 4 /\ Desc(e)[1] = Body!DescSig /\ Desc(e)[2] = e.data
      BY <1>1, <1>2, <2>1, DescOK
    <3>2. 1 \in 1..d /\ 2 \in 1..d
      BY <3>1
    <3>3. raw[1] = Body!DescSig /\ raw[2] = e.data
      BY <1>9, <3>1, <3>2
    <3>4. sig = 1
      BY <1>12, <1>13, <3>3
    <3> QED
      BY <1>8, <1>10, <1>11, <3>1, <3>3, <3>4
  <2>2. CASE ~e.hasSig
    <3>1. d = 3 /\ Desc(e)[1] = e.data
      BY <1>1, <1>2, <2>2, DescOK
    <3>2. 1 \in 1..d
      BY <3>1
    <3>3. raw[1] = e.data
      BY <1>9, <3>1, <3>2
    <3>4. sig = 0
      BY <1>10, <1>12, <3>3
    <3> QED
      BY <1>8, <1>10, <1>11, <3>1, <3>3, <3>4
  <2> QED
    BY <2>1, <2>2
<1> QED
  BY <1>1, <1>12, <1>14 DEF Body!readDataDescriptor

\* What Read returned so far, when it returns.
Out(e, s, all) ==
  IF \/ Len(all) > Len(e.data)
     \/ s.pend.err = "EOF" /\ Len(all) # Len(e.data)
  THEN s.out ELSE s.out \o s.pend.p

\* Read returns.
LEMMA ReadReturnKeeps ==
  ASSUME NEW e, Body!WellFormed(e), NEW s \in HandleState, HandleInv(e, s), s.rd = "sum", NEW desc,
         NEW all, all = s.got \o s.pend.p, NEW err, Summed(e, desc, s.pend.err, all, err),
         NEW out, out = Out(e, s, all),
         Body!Intact(e) /\ ReadsOn(e, s) /\ Progress(e, s, BodyLen(e)) /\ s.open /\ e.hasDesc => desc = "nil",
         NEW t, t = [s EXCEPT !.rd = "idle", !.got = all, !.out = out, !.pend = [p |-> <<>>, err |-> "nil"],
                              !.err = err, !.open = s.open /\ err = "nil"]
  PROVE  Kept(e, t, s.fr)
<1>1. s.got \in Cells /\ s.out \in Cells /\ s.pend.p \in Cells /\ s.pend.err \in Errors
  BY DEF HandleState
<1>2. all \in Cells /\ s.out \o s.pend.p \in Cells /\ out \in Cells /\ err \in Errors
  <2>1. all \in Cells /\ s.out \o s.pend.p \in Cells
    BY <1>1, ConcatProperties DEF Cells
  <2> QED
    BY <1>1, <2>1 DEF Summed, Out
<1>3. [p |-> <<>>, err |-> "nil"] \in [p : Cells, err : Errors]
  <2>1. <<>> \in Cells /\ "nil" \in Errors
    BY EmptySeq DEF Cells, Errors
  <2> QED
    BY <2>1
<1>4. PICK open \in BOOLEAN, pend \in [p : Cells, err : Errors] :
        open = (s.open /\ err = "nil") /\ pend = [p |-> <<>>, err |-> "nil"]
  BY <1>3
<1>5. t = [s EXCEPT !.rd = "idle", !.got = all, !.out = out, !.pend = pend, !.err = err, !.open = open]
  BY <1>4
<1>6. /\ t \in HandleState /\ t.rd = "idle" /\ t.got = all /\ t.out = out /\ t.pend = pend /\ t.err = err
      /\ t.open = open /\ t.cl = s.cl /\ t.raw = s.raw /\ t.left = s.left /\ t.fr = s.fr /\ t.mu = s.mu
      /\ t.closes = s.closes
  BY <1>2, <1>5, ZenonT(90) DEF HandleState
<1>7. Handling(e, t)
  BY <1>4, <1>6 DEF HandleInv, Handling
<1>8. PICK m \in Nat, d \in Nat : m = Len(all) /\ d = Len(e.data)
  BY <1>2, LenProperties, DescOK DEF Cells
<1>9. err \in {"nil", "EOF"} => out = s.out \o s.pend.p
  <2>1. CASE err = "nil"
    <3>1. s.pend.err = "nil" /\ m <= d
      BY <1>8, <2>1 DEF Summed
    <3>2. ~(m > d)
      BY <3>1
    <3> QED
      BY <1>8, <3>1, <3>2 DEF Out
  <2>2. CASE err = "EOF"
    <3>1. m = d
      BY <1>8, <2>2 DEF Summed
    <3>2. ~(m > d)
      BY <3>1
    <3> QED
      BY <1>8, <3>1, <3>2 DEF Out
  <2> QED
    BY <2>1, <2>2
<1>10. Returned(e, t)
  <2>1. s.err = "nil" /\ s.out = s.got
    BY DEF HandleInv, Handling, Returned
  <2>2. err \in {"nil", "EOF"} => out = all
    BY <1>9, <2>1
  <2>3. err = "EOF" /\ (e.crc # <<>> \/ e.hasDesc) => all = e.data
    BY DEF Summed, Body!WellFormed
  <2>4. t.out = out /\ t.got = all /\ t.err = err
    BY <1>6
  <2>5. err \in {"nil", "EOF"} => t.out = t.got
    BY <2>2, <2>4
  <2>6. err = "EOF" => err \in {"nil", "EOF"}
    OBVIOUS
  <2>7. err = "EOF" /\ (e.crc # <<>> \/ e.hasDesc) => t.out = e.data
    BY <2>2, <2>3, <2>4, <2>6, Zenon
  <2> QED
    BY <2>4, <2>5, <2>7, Zenon DEF Returned
<1>11. ASSUME Body!Intact(e), s.closes = 0 PROVE ReadsOn(e, t)
  <2>1. ReadsOn(e, s) /\ s.err = "nil" /\ s.open
    BY <1>11 DEF HandleInv, WholeStream, Handling, ReadsOn
  <2>2. PICK c \in 0..BodyLen(e) : Progress(e, s, c)
    BY <2>1 DEF ReadsOn
  <2>3. BodyLen(e) \in Nat /\ c \in Nat
    BY ReadSizeOK
  <2>4. all = Delivered(e, c) /\ m <= d
    <3>1. all = Delivered(e, c)
      BY <2>2 DEF Progress
    <3> QED
      BY <1>8, <2>3, <3>1, DeliveredOK
  <2>5. s.pend.err \in {"nil", "EOF"}
    BY <2>1 DEF ReadsOn
  <2>6. err = s.pend.err
    <3>1. CASE s.pend.err = "nil"
      BY <1>8, <2>4, <3>1 DEF Summed
    <3>2. CASE s.pend.err = "EOF"
      <4>1. c = BodyLen(e)
        BY <2>2, <3>2 DEF Progress
      <4>2. c >= Len(e.cells)
        <5>1. PICK k \in Nat : k = Len(e.cells)
          BY BodyOK
        <5>2. BodyLen(e) = k + 1 \/ BodyLen(e) = k + 0
          BY <5>1, BodyOK
        <5> QED
          BY <4>1, <5>1, <5>2
      <4>3. all = e.data
        BY <2>3, <2>4, <4>2, DeliveredOK
      <4>4. e.hasDesc => desc = "nil"
        BY <1>11, <2>1, <2>2, <4>1
      <4>5. e.hasDesc \/ e.crc # <<>> => all = e.crc
        BY <4>3 DEF Body!WellFormed
      <4> QED
        BY <3>2, <4>3, <4>4, <4>5 DEF Summed
    <3> QED
      BY <2>5, <3>1, <3>2
  <2>7. Progress(e, t, c)
    <3>1. all \o <<>> = all
      BY <1>2, ConcatEmptySeq DEF Cells
    <3>2. pend.p = <<>> /\ pend.err = "nil"
      BY <1>4
    <3> QED
      BY <1>6, <2>1, <2>2, <2>4, <2>6, <3>1, <3>2 DEF Progress
  <2>8. pend.err = "nil"
    BY <1>4
  <2> QED
    BY <1>4, <1>6, <2>1, <2>5, <2>6, <2>7, <2>8 DEF ReadsOn
<1>12. WholeStream(e, t)
  BY <1>6, <1>11 DEF WholeStream
<1> QED
  BY <1>6, <1>7, <1>10, <1>12 DEF HandleInv, Kept

\* OpenWithReader fails before it has read.
LEMMA OpenFailsKeeps ==
  ASSUME NEW e, NEW s \in HandleState, HandleInv(e, s), s.rd = "new", NEW t, t = [s EXCEPT !.rd = "failed"]
  PROVE  Kept(e, t, s.fr)
<1>1. /\ t \in HandleState /\ t.rd = "failed" /\ t.cl = s.cl /\ t.mu = s.mu /\ SameStream(s, t)
  BY DEF HandleState, SameStream
<1>2. Handling(e, t) /\ Returned(e, t) /\ WholeStream(e, t)
  BY <1>1 DEF HandleInv, Handling, SameStream, Returned, WholeStream
<1> QED
  BY <1>1, <1>2 DEF HandleInv, SameStream, Kept

\* The errors of skipHeader, and that a header too long is one.
LEMMA SkipHeaderOK ==
  ASSUME NEW e, Body!WellFormed(e), NEW raw \in Seq(Cells)
  PROVE  /\ Body!skipHeader(e, raw) \in Errors
         /\ Body!skipHeader(e, raw) = "nil" => e.localLen <= e.varLen + Body!openReadSlop
<1>1. e.tail \in Errors /\ e.tail # "nil"
  BY DEF Errors, Body!WellFormed
<1>2. {"ErrFormat", "header too long", "nil"} \in SUBSET Errors
  BY DEF Errors
<1>3. \/ Body!skipHeader(e, raw) \in {e.tail, "ErrFormat"}
      \/ Body!skipHeader(e, raw) = IF Len(raw) < Body!fileHeaderLen + e.localLen THEN e.tail
                                   ELSE IF e.localLen > e.varLen + Body!openReadSlop THEN "header too long" ELSE "nil"
  <2>1. CASE raw = <<>>
    BY <2>1 DEF Body!skipHeader
  <2>2. CASE raw # <<>> /\ raw[1] # Body!FileHeader
    BY <2>2 DEF Body!skipHeader
  <2>3. CASE raw # <<>> /\ raw[1] = Body!FileHeader
    BY <2>3 DEF Body!skipHeader
  <2> QED
    BY <2>1, <2>2, <2>3
<1>4. e.localLen > e.varLen + Body!openReadSlop \/ e.localLen <= e.varLen + Body!openReadSlop
  BY ReadSizeOK DEF Body!openReadSlop
<1>5. \/ Body!skipHeader(e, raw) \in {e.tail, "ErrFormat", "header too long"}
      \/ Body!skipHeader(e, raw) = "nil" /\ ~(e.localLen > e.varLen + Body!openReadSlop)
  BY <1>3, Zenon
<1>6. PICK err : err = Body!skipHeader(e, raw)
  OBVIOUS
<1>7. CASE err \in {e.tail, "ErrFormat", "header too long"}
  <2>1. err \in Errors /\ err # "nil"
    BY <1>1, <1>2, <1>7
  <2> QED
    BY <1>6, <2>1
<1>8. CASE err = "nil" /\ ~(e.localLen > e.varLen + Body!openReadSlop)
  <2>1. err \in Errors
    BY <1>2, <1>8
  <2> QED
    BY <1>4, <1>6, <1>8, <2>1
<1> QED
  BY <1>5, <1>6, <1>7, <1>8

\* It fails in skipHeader.
LEMMA OpenErrKeeps ==
  ASSUME NEW e, Body!WellFormed(e), NEW s \in HandleState, HandleInv(e, s), s.rd = "new",
         NEW err, err = Body!skipHeader(e, Body!Raw(e, Body!readSize(e))), err # "nil",
         NEW t, t = [s EXCEPT !.rd = "failed", !.err = err]
  PROVE  Kept(e, t, s.fr)
<1>1. err \in Errors
  BY ReadSizeOK, RawOK, SkipHeaderOK
<1>2. /\ t \in HandleState /\ t.rd = "failed" /\ t.cl = s.cl /\ t.mu = s.mu /\ t.err = err
      /\ t.closes = s.closes /\ t.fr = s.fr /\ t.open = s.open /\ t.got = s.got /\ t.out = s.out /\ t.pend = s.pend
  BY <1>1 DEF HandleState
<1>3. Handling(e, t) /\ Returned(e, t)
  BY <1>2 DEF HandleInv, Handling, Returned
<1>4. ~(Body!Intact(e) /\ e.localLen <= e.varLen + Body!openReadSlop)
  BY RestOK DEF Body!openReadSlop
<1>5. WholeStream(e, t)
  BY <1>2, <1>4 DEF WholeStream
<1> QED
  BY <1>2, <1>3, <1>5 DEF HandleInv, Kept

\* It returns a checksumReader.
LEMMA OpenKeeps ==
  ASSUME NEW e, Body!WellFormed(e), NEW s \in HandleState, HandleInv(e, s), s.rd = "new",
         Body!skipHeader(e, Body!Raw(e, Body!readSize(e))) = "nil",
         NEW fr \in FlateReader \cup {None}, e.method = "deflate" <=> fr # None,
         NEW t, t = [s EXCEPT !.rd = "idle", !.open = TRUE, !.left = Len(Body!Body(e)), !.raw = Rest(e), !.fr = fr]
  PROVE  Kept(e, t, fr)
<1>1. PICK b \in Nat : b = Len(Body!Body(e)) /\ b = BodyLen(e)
  BY ReadSizeOK DEF BodyLen
<1>2. PICK raw \in Seq(Cells) : raw = Body!Raw(e, Body!readSize(e))
  BY ReadSizeOK, RawOK
<1>3. e.localLen \in Nat /\ e.localLen <= e.varLen + Body!openReadSlop
  BY <1>2, ReadSizeOK, SkipHeaderOK
<1>4. PICK rest : rest = Rest(e)
  OBVIOUS
<1>5. rest \in Seq(Cells)
  <2>1. PICK l \in Nat, k \in Nat : l = Len(raw) /\ k = 1 + e.localLen + 1
    BY <1>3, LenProperties
  <2>2. \A i \in k..l : raw[i] \in Cells
    <3>1. \A i \in k..l : i \in 1..l
      BY <1>3, <2>1
    <3> QED
      BY <2>1, <3>1, ElementOfSeq
  <2>3. SubSeq(raw, k, l) \in Seq(Cells)
    BY <2>1, <2>2, SubSeqProperties
  <2>4. rest = SubSeq(raw, k, l)
    BY <1>2, <1>4, <2>1 DEF Rest, Body!fileHeaderLen
  <2> QED
    BY <2>3, <2>4
<1>6. t = [s EXCEPT !.rd = "idle", !.open = TRUE, !.left = b, !.raw = rest, !.fr = fr]
  BY <1>1, <1>4
<1>7. /\ t \in HandleState /\ t.rd = "idle" /\ t.cl = s.cl /\ t.mu = s.mu /\ t.err = s.err /\ t.fr = fr
      /\ t.closes = s.closes /\ t.open = TRUE /\ t.got = s.got /\ t.out = s.out /\ t.pend = s.pend
      /\ t.left = b /\ t.raw = rest
  BY <1>5, <1>6, ZenonT(90) DEF HandleState
<1>8. s.err = "nil" /\ s.got = <<>> /\ s.pend = [p |-> <<>>, err |-> "nil"]
  BY DEF HandleInv, Handling
<1>9. Handling(e, t) /\ Returned(e, t)
  BY <1>7, <1>8 DEF HandleInv, Handling, Returned
<1>10. Progress(e, t, 0)
  <2>1. t.pend.p = <<>> /\ t.pend.err = "nil"
    BY <1>7, <1>8
  <2>2. t.got \o t.pend.p = Delivered(e, 0)
    <3>1. <<>> \in Seq(Cells)
      BY EmptySeq
    <3>2. <<>> \o <<>> = <<>>
      BY <3>1, ConcatEmptySeq
    <3> QED
      BY <1>7, <1>8, <2>1, <3>2, DeliveredOK
  <2>3. t.raw = SubSeq(Rest(e), 0 + 1, Len(Rest(e)))
    <3>1. SubSeq(rest, 1, Len(rest)) = rest
      BY <1>5, SubSeqFull
    <3> QED
      BY <1>4, <1>7, <3>1
  <2>4. t.left = BodyLen(e) - 0
    BY <1>1, <1>7
  <2>5. e.method = "deflate" => 0 # BodyLen(e)
    <3>1. PICK k \in Nat : k = Len(e.cells)
      BY BodyOK
    <3>2. e.method = "deflate" => BodyLen(e) = k + 1
      BY <3>1, BodyOK
    <3> QED
      BY <3>1, <3>2
  <2> QED
    BY <1>7, <1>8, <2>1, <2>2, <2>3, <2>4, <2>5 DEF Progress
<1>11. ReadsOn(e, t)
  <2>1. 0 \in 0..BodyLen(e)
    BY <1>1
  <2>2. t.pend.err = "nil" /\ t.err = "nil"
    BY <1>7, <1>8
  <2> QED
    BY <1>3, <1>7, <1>10, <2>1, <2>2 DEF ReadsOn
<1>12. WholeStream(e, t)
  BY <1>7, <1>11 DEF WholeStream
<1> QED
  BY <1>7, <1>9, <1>12 DEF HandleInv, Kept

\* flateReaderPool.Get takes a reader out of the pool.
LEMMA RemoveAtOK ==
  ASSUME NEW V, NEW s \in Seq(V), NEW i \in 1..Len(s), NEW q, q = RemoveAt(s, i)
  PROVE  /\ q \in Seq(V) /\ Len(q) = Len(s) - 1
         /\ \A j \in 1..Len(q) : q[j] = s[IF j < i THEN j ELSE j + 1]
<1>1. PICK l \in Nat : l = Len(s)
  BY LenProperties
<1>2. \A j \in 1..l : s[j] \in V
  BY <1>1, ElementOfSeq
<1>3. PICK u, v : u = SubSeq(s, 1, i - 1) /\ v = SubSeq(s, i + 1, l)
  OBVIOUS
<1>4. PICK k \in Nat, n \in Nat : k = i - 1 /\ n = l - i
  <2>1. i - 1 \in Nat /\ l - i \in Nat
    BY <1>1
  <2> QED
    BY <2>1
<1>5. u \in Seq(V) /\ Len(u) = k /\ \A j \in 1..k : u[j] = s[j]
  <2>1. \A j \in 1..(i - 1) : s[j] \in V
    BY <1>1, <1>2
  <2>2. /\ u \in Seq(V) /\ Len(u) = (IF 1 <= i - 1 THEN i - 1 - 1 + 1 ELSE 0)
        /\ \A j \in 1..(i - 1 - 1 + 1) : u[j] = s[1 + j - 1]
    BY <1>1, <1>3, <2>1, SubSeqProperties
  <2>3. \A j \in 1..k : j \in 1..(i - 1 - 1 + 1) /\ 1 + j - 1 = j
    BY <1>1, <1>4
  <2>4. Len(u) = k
    BY <1>1, <1>4, <2>2
  <2> QED
    BY <2>2, <2>3, <2>4
<1>6. v \in Seq(V) /\ Len(v) = n /\ \A j \in 1..n : v[j] = s[i + j]
  <2>1. \A j \in (i + 1)..l : s[j] \in V
    BY <1>1, <1>2
  <2>2. /\ v \in Seq(V) /\ Len(v) = (IF i + 1 <= l THEN l - (i + 1) + 1 ELSE 0)
        /\ \A j \in 1..(l - (i + 1) + 1) : v[j] = s[i + 1 + j - 1]
    BY <1>1, <1>3, <2>1, SubSeqProperties
  <2>3. \A j \in 1..n : j \in 1..(l - (i + 1) + 1) /\ i + 1 + j - 1 = i + j
    BY <1>1, <1>4
  <2>4. Len(v) = n
    BY <1>1, <1>4, <2>2
  <2> QED
    BY <2>2, <2>3, <2>4
<1>7. q = u \o v
  BY <1>1, <1>3 DEF RemoveAt
<1>8. /\ q \in Seq(V) /\ Len(q) = k + n
      /\ \A j \in 1..(k + n) : q[j] = IF j <= k THEN u[j] ELSE v[j - k]
  <2>1. /\ q \in Seq(V) /\ Len(q) = Len(u) + Len(v)
        /\ \A j \in 1..(Len(u) + Len(v)) : q[j] = IF j <= Len(u) THEN u[j] ELSE v[j - Len(u)]
    <3>1. u \in Seq(V) /\ v \in Seq(V)
      BY <1>5, <1>6
    <3> QED
      BY <1>7, <3>1, ConcatProperties
  <2> QED
    BY <1>5, <1>6, <2>1
<1>9. ASSUME NEW j \in 1..(k + n) PROVE q[j] = s[IF j < i THEN j ELSE j + 1]
  <2>1. CASE j <= k
    <3>1. j < i /\ j \in 1..k
      BY <1>1, <1>4, <2>1
    <3> QED
      BY <1>5, <1>8, <2>1, <3>1
  <2>2. CASE ~(j <= k)
    <3>1. ~(j < i) /\ j - k \in 1..n /\ i + (j - k) = j + 1
      BY <1>1, <1>4, <2>2
    <3>2. q[j] = v[j - k] /\ v[j - k] = s[i + (j - k)]
      BY <1>6, <1>8, <2>2, <3>1
    <3> QED
      BY <3>1, <3>2
  <2> QED
    BY <2>1, <2>2
<1>10. k + n = l - 1
  BY <1>1, <1>4
<1> QED
  BY <1>1, <1>8, <1>9, <1>10

\* A flate reader taken out of the pool has one owner.
LEMMA OwnersGet ==
  ASSUME ZipInv, NEW h \in Handle, NEW t \in HandleState, hd' = [hd EXCEPT ![h] = t],
         NEW i \in DOMAIN fpool, t.fr = fpool[i], fpool' = RemoveAt(fpool, i)
  PROVE  Owners'
<1>1. hd \in [Handle -> HandleState] /\ Owners
  BY DEF ZipInv
<1>2. PICK l \in Nat : l = Len(fpool) /\ DOMAIN fpool = 1..l /\ fpool \in Seq(FlateReader)
  BY <1>1, LenProperties DEF Owners
<1>3. PICK q : q = fpool'
  OBVIOUS
<1>4. q \in Seq(FlateReader) /\ Len(q) = l - 1 /\ \A j \in 1..Len(q) : q[j] = fpool[IF j < i THEN j ELSE j + 1]
  BY <1>2, <1>3, RemoveAtOK
<1>5. DOMAIN q = 1..(l - 1)
  BY <1>4, LenProperties
<1>6. ASSUME NEW j \in DOMAIN q
      PROVE  \E k \in DOMAIN fpool : q[j] = fpool[k] /\ k # i /\ k = IF j < i THEN j ELSE j + 1
  <2>1. PICK k : k = IF j < i THEN j ELSE j + 1
    OBVIOUS
  <2>2. k \in 1..l /\ k # i
    BY <1>2, <1>5, <2>1
  <2>3. q[j] = fpool[k]
    BY <1>4, <1>5, <2>1
  <2> QED
    BY <1>2, <2>1, <2>2, <2>3
<1>7. \A j \in DOMAIN q : q[j] \in Range(fpool) /\ q[j] # t.fr
  BY <1>1, <1>6 DEF Owners, Range
<1>8. ASSUME NEW j \in DOMAIN q, NEW m \in DOMAIN q, q[j] = q[m] PROVE j = m
  <2>1. PICK k1 \in DOMAIN fpool : q[j] = fpool[k1] /\ k1 = IF j < i THEN j ELSE j + 1
    BY <1>6
  <2>2. PICK k2 \in DOMAIN fpool : q[m] = fpool[k2] /\ k2 = IF m < i THEN m ELSE m + 1
    BY <1>6
  <2>3. k1 = k2
    BY <1>1, <1>8, <2>1, <2>2 DEF Owners
  <2> QED
    BY <1>2, <1>5, <2>1, <2>2, <2>3
<1>9. t.fr \in Range(fpool)
  BY DEF Range
<1>10. ASSUME NEW g \in Handle, hd'[g].fr # None
       PROVE  hd'[g].fr \notin Range(q) /\ \A f \in Handle \ {g} : hd'[f].fr # hd'[g].fr
  <2>1. \A f \in Handle : hd'[f] = IF f = h THEN t ELSE hd[f]
    BY <1>1
  <2>2. \A f \in Handle : hd[f].fr # None => hd[f].fr \notin Range(fpool)
    BY <1>1 DEF Owners
  <2>3. Range(q) \subseteq Range(fpool) \ {t.fr}
    BY <1>7 DEF Range
  <2>4. t.fr \in FlateReader /\ t.fr # None
    BY <1>2, ElementOfSeq, FlateReaderAssumption
  <2>5. CASE g = h
    BY <1>9, <2>1, <2>2, <2>3, <2>4, <2>5
  <2>6. CASE g # h
    BY <1>1, <1>9, <1>10, <2>1, <2>2, <2>3, <2>6 DEF Owners
  <2> QED
    BY <2>5, <2>6
<1> QED
  BY <1>3, <1>4, <1>8, <1>10 DEF Owners

\* It makes one.
LEMMA OwnersFresh ==
  ASSUME ZipInv, NEW h \in Handle, NEW t \in HandleState, hd' = [hd EXCEPT ![h] = t],
         t.fr \notin Range(fpool) \cup {hd[g].fr : g \in Handle}, fpool' = fpool
  PROVE  Owners'
<1>1. hd \in [Handle -> HandleState] /\ Owners
  BY DEF ZipInv
<1>2. \A f \in Handle : hd'[f] = IF f = h THEN t ELSE hd[f]
  BY <1>1
<1>3. ASSUME NEW g \in Handle, hd'[g].fr # None
      PROVE  hd'[g].fr \notin Range(fpool) /\ \A f \in Handle \ {g} : hd'[f].fr # hd'[g].fr
  <2>1. CASE g = h
    BY <1>2, <2>1
  <2>2. CASE g # h
    BY <1>1, <1>2, <1>3, <2>2 DEF Owners
  <2> QED
    BY <2>1, <2>2
<1> QED
  BY <1>1, <1>3 DEF Owners

\* pooledFlateReader.Close gives its reader back.
LEMMA OwnersPut ==
  ASSUME ZipInv, NEW h \in Handle, NEW t \in HandleState, hd' = [hd EXCEPT ![h] = t],
         t.fr = None, hd[h].fr # None, fpool' = Append(fpool, hd[h].fr)
  PROVE  Owners'
<1>1. hd \in [Handle -> HandleState] /\ Owners
  BY DEF ZipInv
<1>2. PICK x \in FlateReader : x = hd[h].fr
  BY <1>1 DEF HandleState
<1>3. PICK l \in Nat : l = Len(fpool) /\ DOMAIN fpool = 1..l /\ fpool \in Seq(FlateReader)
  BY <1>1, LenProperties DEF Owners
<1>4. PICK q : q = fpool'
  OBVIOUS
<1>5. q = Append(fpool, x)
  BY <1>2, <1>4
<1>6. q \in Seq(FlateReader) /\ Len(q) = l + 1 /\ q[l + 1] = x /\ \A i \in 1..l : q[i] = fpool[i]
  BY <1>3, <1>5, AppendProperties
<1>7. DOMAIN q = 1..(l + 1)
  BY <1>6, LenProperties
<1>8. x \notin Range(fpool) /\ \A g \in Handle \ {h} : hd[g].fr # x
  BY <1>1, <1>2 DEF Owners
<1>9. \A i \in DOMAIN q : (i \in DOMAIN fpool /\ q[i] = fpool[i] /\ q[i] # x) \/ (i = l + 1 /\ q[i] = x)
  <2>1. \A i \in DOMAIN q : i \in 1..l \/ i = l + 1
    BY <1>7
  <2> QED
    BY <1>3, <1>6, <1>8, <2>1 DEF Range
<1>10. \A i, j \in DOMAIN q : q[i] = q[j] => i = j
  BY <1>1, <1>9 DEF Owners
<1>11. Range(q) \subseteq Range(fpool) \cup {x}
  BY <1>9 DEF Range
<1>12. \A f \in Handle : hd'[f] = IF f = h THEN t ELSE hd[f]
  BY <1>1
<1>13. ASSUME NEW g \in Handle, hd'[g].fr # None
       PROVE  hd'[g].fr \notin Range(q) /\ \A f \in Handle \ {g} : hd'[f].fr # hd'[g].fr
  <2>1. g # h /\ hd'[g].fr = hd[g].fr
    BY <1>12, <1>13
  <2>2. hd[g].fr # x /\ hd[g].fr \notin Range(fpool)
    BY <1>1, <1>8, <1>12, <1>13, <2>1 DEF Owners
  <2>3. \A f \in Handle \ {g} : hd'[f].fr # hd[g].fr
    BY <1>1, <1>12, <1>13, <2>1 DEF Owners
  <2> QED
    BY <1>11, <2>1, <2>2, <2>3
<1> QED
  BY <1>4, <1>6, <1>10, <1>13 DEF Owners

\* A prefix, element by element.
LEMMA PrefixElements ==
  ASSUME NEW V, NEW s \in Seq(V), NEW d \in Seq(V)
  PROVE  IsPrefix(s, d) <=> Len(s) <= Len(d) /\ \A i \in 1..Len(s) : s[i] = d[i]
<1>1. PICK l \in Nat, m \in Nat : l = Len(s) /\ m = Len(d)
  BY LenProperties
<1>2. ASSUME NEW w \in Seq(V), l <= Len(w)
      PROVE  /\ SubSeq(w, 1, l) \in Seq(V) /\ Len(SubSeq(w, 1, l)) = l
             /\ \A i \in 1..l : SubSeq(w, 1, l)[i] = w[i]
  <2>0. PICK n \in Nat : n = Len(w)
    BY LenProperties
  <2>1. PICK q : q = SubSeq(w, 1, l)
    OBVIOUS
  <2>2. \A i \in 1..l : i \in 1..n
    BY <1>2, <2>0
  <2>3. \A i \in 1..l : w[i] \in V
    BY <2>0, <2>2, ElementOfSeq
  <2>4. /\ q \in Seq(V) /\ Len(q) = (IF 1 <= l THEN l - 1 + 1 ELSE 0)
        /\ \A i \in 1..(l - 1 + 1) : q[i] = w[1 + i - 1]
    BY <2>1, <2>3, SubSeqProperties
  <2>5. \A i \in 1..l : i \in 1..(l - 1 + 1) /\ 1 + i - 1 = i
    OBVIOUS
  <2>6. Len(q) = l
    BY <2>4
  <2> QED
    BY <2>1, <2>4, <2>5, <2>6
<1>3. IsPrefix(s, d) <=> l <= m /\ SubSeq(s, 1, l) = SubSeq(d, 1, l)
  BY <1>1 DEF IsPrefix
<1>4. ASSUME l <= m, SubSeq(s, 1, l) = SubSeq(d, 1, l), NEW i \in 1..l PROVE s[i] = d[i]
  <2>1. SubSeq(s, 1, l)[i] = s[i] /\ SubSeq(d, 1, l)[i] = d[i]
    BY <1>1, <1>2, <1>4
  <2> QED
    BY <1>4, <2>1
<1>5. ASSUME l <= m, \A i \in 1..l : s[i] = d[i] PROVE SubSeq(s, 1, l) = SubSeq(d, 1, l)
  <2>1. PICK p, q : p = SubSeq(s, 1, l) /\ q = SubSeq(d, 1, l)
    OBVIOUS
  <2>2. p \in Seq(V) /\ Len(p) = l /\ \A i \in 1..l : p[i] = s[i]
    BY <1>1, <1>2, <2>1
  <2>3. q \in Seq(V) /\ Len(q) = l /\ \A i \in 1..l : q[i] = d[i]
    BY <1>1, <1>2, <1>5, <2>1
  <2>4. p = q
    BY <1>5, <2>2, <2>3, SeqEqual
  <2> QED
    BY <2>1, <2>4
<1> QED
  BY <1>1, <1>3, <1>4, <1>5

\* A shorter prefix.
LEMMA PrefixOfPrefix ==
  ASSUME NEW V, NEW s \in Seq(V), NEW u \in Seq(V), NEW d \in Seq(V), IsPrefix(s \o u, d)
  PROVE  IsPrefix(s, d)
<1>1. PICK l \in Nat, k \in Nat, m \in Nat : l = Len(s) /\ k = Len(u) /\ m = Len(d)
  BY LenProperties
<1>2. PICK t : t = s \o u
  OBVIOUS
<1>3. t \in Seq(V) /\ Len(t) = l + k /\ \A i \in 1..(l + k) : t[i] = IF i <= l THEN s[i] ELSE u[i - l]
  BY <1>1, <1>2, ConcatProperties
<1>4. l + k <= m /\ \A i \in 1..(l + k) : t[i] = d[i]
  <2>1. IsPrefix(t, d) /\ t \in Seq(V) /\ Len(t) = l + k
    BY <1>2, <1>3
  <2>2. Len(t) <= Len(d) /\ \A i \in 1..Len(t) : t[i] = d[i]
    BY <2>1, PrefixElements
  <2> QED
    BY <1>1, <2>1, <2>2
<1>5. l <= m
  BY <1>4
<1>6. \A i \in 1..l : s[i] = d[i]
  <2>1. \A i \in 1..l : i \in 1..(l + k) /\ i <= l
    OBVIOUS
  <2> QED
    BY <1>3, <1>4, <2>1
<1> QED
  BY <1>1, <1>5, <1>6, PrefixElements

\* Every step keeps the invariant.
LEMMA ZipStep == ZipInv /\ [Body!Next]_zipVars => ZipInv'
<1> SUFFICES ASSUME ZipInv, [Body!Next]_zipVars PROVE ZipInv'
  OBVIOUS
<1> USE DEF Body!zipVars
<1>1. hd \in [Handle -> HandleState]
  BY DEF ZipInv
<1>2. \A h \in Handle : hd[h] \in HandleState /\ Body!WellFormed(entry[h]) /\ HandleInv(entry[h], hd[h])
  BY DEF ZipInv
<1>3. ASSUME NEW h \in Handle, Body!Open(h) PROVE ZipInv'
  <2>1. PICK e, s, raw : e = entry[h] /\ s = hd[h] /\ raw = Body!Raw(e, Body!readSize(e))
    OBVIOUS
  <2>2. s \in HandleState /\ Body!WellFormed(e) /\ HandleInv(e, s)
    BY <1>2, <2>1
  <2>3. s.rd = "new" /\ entry' = entry
    BY <1>3, <2>1 DEF Body!Open
  <2>4. CASE hd' = [hd EXCEPT ![h].rd = "failed"] /\ fpool' = fpool
    <3>1. PICK t : t = [s EXCEPT !.rd = "failed"]
      OBVIOUS
    <3>2. hd' = [hd EXCEPT ![h] = t]
      BY <2>1, <2>4, <3>1
    <3>3. Kept(e, t, s.fr)
      BY <2>2, <2>3, <3>1, OpenFailsKeeps
    <3>4. Owners'
      BY <2>1, <2>4, <3>2, <3>3, OwnersKept DEF Kept
    <3> QED
      BY <2>1, <2>3, <3>2, <3>3, <3>4, HandleStep DEF Kept
  <2>5. CASE /\ e.method # "other" /\ Body!skipHeader(e, raw) # "nil"
             /\ hd' = [hd EXCEPT ![h].rd = "failed", ![h].err = Body!skipHeader(e, raw)] /\ fpool' = fpool
    <3>1. PICK err, t : err = Body!skipHeader(e, raw) /\ t = [s EXCEPT !.rd = "failed", !.err = err]
      OBVIOUS
    <3>2. hd' = [hd EXCEPT ![h] = t]
      BY <2>1, <2>5, <3>1
    <3>3. Kept(e, t, s.fr)
      <4>1. err = Body!skipHeader(e, Body!Raw(e, Body!readSize(e))) /\ err # "nil"
        BY <2>1, <2>5, <3>1
      <4> QED
        BY <2>2, <2>3, <3>1, <4>1, OpenErrKeeps
    <3>4. Owners'
      BY <2>1, <2>5, <3>2, <3>3, OwnersKept DEF Kept
    <3> QED
      BY <2>1, <2>3, <3>2, <3>3, <3>4, HandleStep DEF Kept
  <2>6. CASE /\ e.method # "other" /\ Body!skipHeader(e, raw) = "nil"
             /\ \E fr \in FlateReader \cup {None} :
                  hd' = [hd EXCEPT ![h].rd = "idle", ![h].open = TRUE, ![h].left = Len(Body!Body(e)),
                                   ![h].raw = SubSeq(raw, Body!fileHeaderLen + e.localLen + 1, Len(raw)),
                                   ![h].fr = fr]
             /\ IF e.method = "deflate" THEN Body!GetFlateReader(h) ELSE hd'[h].fr = None /\ fpool' = fpool
    <3>1. PICK fr \in FlateReader \cup {None} :
            hd' = [hd EXCEPT ![h].rd = "idle", ![h].open = TRUE, ![h].left = Len(Body!Body(e)),
                             ![h].raw = SubSeq(raw, Body!fileHeaderLen + e.localLen + 1, Len(raw)),
                             ![h].fr = fr]
      BY <2>6
    <3>2. PICK t : t = [s EXCEPT !.rd = "idle", !.open = TRUE, !.left = Len(Body!Body(e)), !.raw = Rest(e), !.fr = fr]
      OBVIOUS
    <3>3. SubSeq(raw, Body!fileHeaderLen + e.localLen + 1, Len(raw)) = Rest(e)
      BY <2>1 DEF Rest
    <3>4. hd' = [hd EXCEPT ![h] = t]
      BY <2>1, <3>1, <3>2, <3>3
    <3>5. hd'[h].fr = fr
      <4>1. hd'[h] = t
        BY <1>1, <3>4
      <4> QED
        BY <2>2, <3>2, <4>1 DEF HandleState
    <3>6. \/ \E i \in DOMAIN fpool : e.method = "deflate" /\ fpool' = RemoveAt(fpool, i) /\ fr = fpool[i]
          \/ /\ e.method = "deflate" /\ fr \in FlateReader /\ fr \notin Range(fpool) \cup {hd[g].fr : g \in Handle}
             /\ fpool' = fpool
          \/ e.method # "deflate" /\ fr = None /\ fpool' = fpool
      BY <2>6, <3>5, SameHelpers DEF Body!GetFlateReader
    <3>7. e.method = "deflate" <=> fr # None
      <4>1. fpool \in Seq(FlateReader)
        BY DEF ZipInv, Owners
      <4>2. \A i \in DOMAIN fpool : fpool[i] \in FlateReader
        BY <4>1
      <4> QED
        BY <3>6, <4>2, FlateReaderAssumption
    <3>8. Kept(e, t, fr)
      <4>1. Body!skipHeader(e, Body!Raw(e, Body!readSize(e))) = "nil"
        BY <2>1, <2>6
      <4> QED
        BY <2>2, <2>3, <3>2, <3>7, <4>1, OpenKeeps
    <3>9. Owners'
      <4>1. CASE \E i \in DOMAIN fpool : e.method = "deflate" /\ fpool' = RemoveAt(fpool, i) /\ fr = fpool[i]
        BY <3>4, <3>8, <4>1, OwnersGet DEF Kept
      <4>2. CASE fr \notin Range(fpool) \cup {hd[g].fr : g \in Handle} /\ fpool' = fpool
        BY <3>4, <3>8, <4>2, OwnersFresh DEF Kept
      <4>3. CASE fr = None /\ fpool' = fpool
        <5>1. s.fr = None
          BY <2>2, <2>3 DEF HandleInv, Handling
        <5> QED
          BY <2>1, <3>4, <3>8, <4>3, <5>1, OwnersKept DEF Kept
      <4> QED
        BY <3>6, <4>1, <4>2, <4>3
    <3> QED
      BY <2>1, <2>3, <3>4, <3>8, <3>9, HandleStep DEF Kept
  <2> QED
    BY <1>3, <2>1, <2>4, <2>5, <2>6, Zenon DEF Body!Open
<1>4. ASSUME NEW h \in Handle, NEW t, hd' = [hd EXCEPT ![h] = t], entry' = entry, fpool' = fpool,
             Kept(entry[h], t, hd[h].fr)
      PROVE  ZipInv'
  BY <1>4, OwnersKept, HandleStep DEF Kept
<1>5. ASSUME NEW h \in Handle, Body!ReadCall(h) PROVE ZipInv'
  <2>1. PICK t : t = [hd[h] EXCEPT !.rd = "body"]
    OBVIOUS
  <2>2. hd[h].rd = "idle" /\ hd[h].err = "nil" /\ hd' = [hd EXCEPT ![h] = t] /\ entry' = entry /\ fpool' = fpool
    BY <1>5, <2>1 DEF Body!ReadCall
  <2>3. Kept(entry[h], t, hd[h].fr)
    BY <1>2, <2>1, <2>2, ReadCallKeeps
  <2> QED
    BY <1>4, <2>2, <2>3
<1>6. ASSUME NEW h \in Handle, Body!StoreRead(h) PROVE ZipInv'
  <2>1. PICK e, s : e = entry[h] /\ s = hd[h]
    OBVIOUS
  <2>2. s \in HandleState /\ Body!WellFormed(e) /\ HandleInv(e, s) /\ s.left \in Nat /\ Len(s.raw) \in Nat
    BY <1>2, <2>1, LenProperties DEF HandleState
  <2>3. PICK res1 \in IF s.left = 0 THEN {[n |-> 0, err |-> "EOF"]}
                      ELSE UNION {Body!RawRead(h, k) : k \in 1..s.left} :
          hd' = [hd EXCEPT ![h] =
                  [Body!Consume(h, res1.n) EXCEPT !.rd = "sum",
                     !.pend = [p |-> Body!FlattenSeq(SubSeq(s.raw, 1, res1.n)), err |-> res1.err]]]
    BY <1>6, <2>1 DEF Body!StoreRead
  <2>4. PICK n, x : n = res1.n /\ x = res1.err
    OBVIOUS
  <2>5. n \in Nat /\ n <= s.left /\ n <= Len(s.raw) /\ x \in Errors /\ Outcome(e, s, n, x)
    <3>1. CASE s.left = 0
      <4>1. res1 = [n |-> 0, err |-> "EOF"]
        BY <2>3, <3>1
      <4>2. n = 0 /\ x = "EOF"
        BY <2>4, <4>1
      <4>3. "EOF" \in Errors
        BY DEF Errors
      <4> QED
        BY <2>2, <3>1, <4>2, <4>3 DEF Outcome
    <3>2. CASE s.left # 0
      <4>1. PICK k \in 1..s.left : res1 \in Body!RawRead(h, k)
        BY <2>3, <3>2
      <4>2. /\ res1.n \in Nat /\ res1.n <= k /\ res1.n <= Len(s.raw) /\ res1.err \in Errors
            /\ Outcome(e, s, res1.n, res1.err)
        BY <1>2, <2>1, <4>1, RawReadOK
      <4>3. n <= s.left
        BY <2>2, <2>4, <4>2
      <4> QED
        BY <2>4, <4>2, <4>3
    <3> QED
      BY <3>1, <3>2
  <2>6. PICK t : t = [s EXCEPT !.raw = SubSeq(s.raw, n + 1, Len(s.raw)), !.left = s.left - n,
                               !.rd = "sum", !.pend = [p |-> FlattenSeq(SubSeq(s.raw, 1, n)), err |-> x]]
    OBVIOUS
  <2>7. hd' = [hd EXCEPT ![h] = t]
    BY <2>1, <2>3, <2>4, <2>6, SameHelpers DEF Body!Consume
  <2>8. s.rd = "body" /\ e.method = "store" /\ entry' = entry /\ fpool' = fpool
    BY <1>6, <2>1 DEF Body!StoreRead
  <2>9. Kept(e, t, s.fr)
    BY <2>2, <2>5, <2>6, <2>8, StoreReadKeeps
  <2> QED
    BY <1>4, <2>1, <2>7, <2>8, <2>9
<1>7. ASSUME NEW h \in Handle, Body!FlateLock(h) PROVE ZipInv'
  <2>1. PICK e, s : e = entry[h] /\ s = hd[h]
    OBVIOUS
  <2>2. s \in HandleState /\ Body!WellFormed(e) /\ HandleInv(e, s)
    BY <1>2, <2>1
  <2>3. s.rd = "body" /\ e.method = "deflate" /\ ~s.mu /\ entry' = entry /\ fpool' = fpool
    BY <1>7, <2>1 DEF Body!FlateLock
  <2>4. CASE s.fr = None
    <3>1. PICK t : t = [s EXCEPT !.rd = "sum", !.pend = [p |-> <<>>, err |-> "Read after Close"]]
      OBVIOUS
    <3>2. hd' = [hd EXCEPT ![h] = t]
      BY <1>7, <2>1, <2>4, <3>1 DEF Body!FlateLock
    <3>3. Kept(e, t, s.fr)
      BY <2>2, <2>3, <2>4, <3>1, FlateLockClosedKeeps
    <3> QED
      BY <1>4, <2>1, <2>3, <3>2, <3>3
  <2>5. CASE s.fr # None
    <3>1. PICK t : t = [s EXCEPT !.rd = "inflate", !.mu = TRUE]
      OBVIOUS
    <3>2. hd' = [hd EXCEPT ![h] = t]
      BY <1>7, <2>1, <2>5, <3>1 DEF Body!FlateLock
    <3>3. Kept(e, t, s.fr)
      BY <2>2, <2>3, <2>5, <3>1, FlateLockKeeps
    <3> QED
      BY <1>4, <2>1, <2>3, <3>2, <3>3
  <2> QED
    BY <2>4, <2>5
<1>8. ASSUME NEW h \in Handle, Body!FlateRead(h) PROVE ZipInv'
  <2> DEFINE e == entry[h]
             s == hd[h]
  <2>2. s \in HandleState /\ Body!WellFormed(e) /\ HandleInv(e, s) /\ s.left \in Nat /\ Len(s.raw) \in Nat
    BY <1>2, LenProperties DEF HandleState
  <2>3. PICK res1 \in IF s.left = 0 THEN {[n |-> 0, err |-> "EOF"]} ELSE Body!RawRead(h, 1) :
          hd' = [hd EXCEPT ![h] =
                  [Body!Consume(h, res1.n) EXCEPT !.rd = "sum", !.mu = FALSE,
                     !.pend = CASE res1.n = 0 -> [p |-> <<>>, err |-> IF res1.err = "EOF" THEN "unexpected EOF" ELSE res1.err]
                                [] res1.n = 1 /\ s.raw[1] = Body!Fin -> [p |-> <<>>, err |-> "EOF"]
                                [] res1.n = 1 /\ s.raw[1] # Body!Fin -> [p |-> s.raw[1] \o s.raw[1], err |-> "nil"]]]
    BY <1>8 DEF Body!FlateRead
  <2> DEFINE n == res1.n
             x == res1.err
  <2>5. n \in Nat /\ n <= 1 /\ n <= s.left /\ n <= Len(s.raw) /\ x \in Errors /\ Outcome(e, s, n, x)
    <3>1. CASE s.left = 0
      <4>1. res1 = [n |-> 0, err |-> "EOF"]
        BY <2>3, <3>1
      <4>2. n = 0 /\ x = "EOF"
        BY <4>1
      <4>3. "EOF" \in Errors
        BY DEF Errors
      <4> QED
        BY <2>2, <3>1, <4>2, <4>3 DEF Outcome
    <3>2. CASE s.left # 0
      <4>1. res1 \in Body!RawRead(h, 1) /\ 1 \in 1..hd[h].left
        BY <2>2, <2>3, <3>2
      <4>2. /\ res1.n \in Nat /\ res1.n <= 1 /\ res1.n <= Len(s.raw) /\ res1.err \in Errors
            /\ Outcome(e, s, res1.n, res1.err)
        BY <1>2, <4>1, RawReadOK
      <4>3. n <= s.left
        BY <2>2, <3>2, <4>2
      <4> QED
        BY <4>2, <4>3
    <3> QED
      BY <3>1, <3>2
  <2>6. PICK y : y = CASE n = 0 -> [p |-> <<>>, err |-> IF x = "EOF" THEN "unexpected EOF" ELSE x]
                       [] n = 1 /\ s.raw[1] = Body!Fin -> [p |-> <<>>, err |-> "EOF"]
                       [] n = 1 /\ s.raw[1] # Body!Fin -> [p |-> s.raw[1] \o s.raw[1], err |-> "nil"]
    OBVIOUS
  <2>7. PICK p \in Cells, err \in Errors :
          /\ y = [p |-> p, err |-> err]
          /\ n = 1 /\ s.raw[1] = Body!Fin => p = <<>> /\ err = "EOF"
          /\ n = 1 /\ s.raw[1] # Body!Fin => p = s.raw[1] \o s.raw[1] /\ err = "nil"
    <3>1. <<>> \in Cells /\ "unexpected EOF" \in Errors /\ "EOF" \in Errors /\ "nil" \in Errors
      BY EmptySeq DEF Cells, Errors
    <3>2. CASE n = 0
      <4>1. PICK err \in Errors : err = IF x = "EOF" THEN "unexpected EOF" ELSE x
        BY <2>5, <3>1
      <4>2. n # 1
        BY <3>2
      <4>3. y = [p |-> <<>>, err |-> err]
        BY <2>6, <3>2, <4>1, <4>2, Zenon
      <4> QED
        BY <3>1, <4>2, <4>3
    <3>3. CASE n = 1 /\ s.raw[1] = Body!Fin
      <4>1. n # 0
        BY <3>3
      <4>2. y = [p |-> <<>>, err |-> "EOF"]
        BY <2>6, <3>3, <4>1, Zenon
      <4> QED
        BY <3>1, <3>3, <4>2
    <3>4. CASE n = 1 /\ s.raw[1] # Body!Fin
      <4>1. s.raw \in Seq(Cells) /\ 1 \in 1..Len(s.raw) /\ n # 0
        BY <2>2, <2>5, <3>4 DEF HandleState
      <4>2. s.raw[1] \in Cells
        BY <4>1, ElementOfSeq
      <4>3. s.raw[1] \o s.raw[1] \in Cells
        BY <4>2, ConcatProperties DEF Cells
      <4>4. y = [p |-> s.raw[1] \o s.raw[1], err |-> "nil"]
        BY <2>6, <3>4, <4>1, Zenon
      <4> QED
        BY <3>1, <3>4, <4>3, <4>4
    <3>5. n = 0 \/ n = 1
      BY <2>5
    <3> QED
      BY <3>2, <3>3, <3>4, <3>5
  <2>8. PICK t : t = [s EXCEPT !.raw = SubSeq(s.raw, n + 1, Len(s.raw)), !.left = s.left - n,
                               !.rd = "sum", !.mu = FALSE, !.pend = [p |-> p, err |-> err]]
    OBVIOUS
  <2>9. hd' = [hd EXCEPT ![h] = t]
    <3>1. hd' = [hd EXCEPT ![h] = [Body!Consume(h, n) EXCEPT !.rd = "sum", !.mu = FALSE, !.pend = y]]
      BY <2>3, <2>6, Zenon
    <3>2. hd' = [hd EXCEPT ![h] = [Body!Consume(h, n) EXCEPT !.rd = "sum", !.mu = FALSE, !.pend = [p |-> p, err |-> err]]]
      BY <2>7, <3>1, Zenon
    <3> QED
      BY <2>8, <3>2 DEF Body!Consume
  <2>10. s.rd = "inflate" /\ entry' = entry /\ fpool' = fpool
    BY <1>8 DEF Body!FlateRead
  <2>11. Kept(e, t, s.fr)
    BY <2>2, <2>5, <2>7, <2>8, <2>10, FlateReadKeeps
  <2> QED
    BY <1>4, <2>9, <2>10, <2>11
<1>9. ASSUME NEW h \in Handle, Body!ReadReturn(h) PROVE ZipInv'
  <2>1. PICK e, s, desc : e = entry[h] /\ s = hd[h] /\ desc = Body!readDataDescriptor(h)
    OBVIOUS
  <2>2. s \in HandleState /\ Body!WellFormed(e) /\ HandleInv(e, s)
    BY <1>2, <2>1
  <2>3. PICK all, err : all = s.got \o s.pend.p /\ err = Body!sumErr(h, s.pend.err, all)
    OBVIOUS
  <2>4. PICK out : out = Out(e, s, all)
    OBVIOUS
  <2>5. PICK t : t = [s EXCEPT !.rd = "idle", !.got = all, !.out = out, !.pend = [p |-> <<>>, err |-> "nil"],
                               !.err = err, !.open = s.open /\ err = "nil"]
    OBVIOUS
  <2>6. hd' = [hd EXCEPT ![h] = t]
    BY <1>9, <2>1, <2>3, <2>4, <2>5 DEF Body!ReadReturn, Out
  <2>7. s.rd = "sum" /\ entry' = entry /\ fpool' = fpool
    BY <1>9, <2>1 DEF Body!ReadReturn
  <2>8. Summed(e, desc, s.pend.err, all, err)
    <3>1. s.got \in Cells /\ s.pend.p \in Cells /\ s.pend.err \in Errors
      BY <2>2 DEF HandleState
    <3>2. all \in Cells
      BY <2>3, <3>1, ConcatProperties DEF Cells
    <3> QED
      BY <2>1, <2>2, <2>3, <3>1, <3>2, SumErrOK
  <2>9. Body!Intact(e) /\ ReadsOn(e, s) /\ Progress(e, s, BodyLen(e)) /\ s.open /\ e.hasDesc => desc = "nil"
    BY <2>1, <2>2, DescriptorRead
  <2>10. Kept(e, t, s.fr)
    BY <2>2, <2>3, <2>4, <2>5, <2>7, <2>8, <2>9, ReadReturnKeeps
  <2> QED
    BY <1>4, <2>1, <2>6, <2>7, <2>10
<1>10. ASSUME NEW h \in Handle, Body!CloseDrain(h) PROVE ZipInv'
  <2>1. PICK n \in {0, 1} : n = IF hd[h].open THEN Body!openReadSlop ELSE 0
    BY DEF Body!openReadSlop
  <2>2. PICK t : t = [hd[h] EXCEPT !.cl = "raw", !.closes = hd[h].closes + 1,
                                   !.raw = SubSeq(hd[h].raw, n + 1, Len(hd[h].raw))]
    OBVIOUS
  <2>3. hd' = [hd EXCEPT ![h] = t]
    BY <1>10, <2>1, <2>2 DEF Body!CloseDrain
  <2>4. hd[h].rd \notin {"new", "failed"} /\ hd[h].cl = "idle" /\ entry' = entry /\ fpool' = fpool
    BY <1>10 DEF Body!CloseDrain
  <2>5. Kept(entry[h], t, hd[h].fr)
    BY <1>2, <2>2, <2>4, CloseDrainKeeps
  <2> QED
    BY <1>4, <2>3, <2>4, <2>5
<1>11. ASSUME NEW h \in Handle, Body!CloseRaw(h) PROVE ZipInv'
  <2>1. PICK t : t = [hd[h] EXCEPT !.cl = "body", !.open = FALSE]
    OBVIOUS
  <2>2. hd[h].cl = "raw" /\ hd' = [hd EXCEPT ![h] = t] /\ entry' = entry /\ fpool' = fpool
    BY <1>11, <2>1 DEF Body!CloseRaw
  <2>3. Kept(entry[h], t, hd[h].fr)
    BY <1>2, <2>1, <2>2, CloseRawKeeps
  <2> QED
    BY <1>4, <2>2, <2>3
<1>12. ASSUME NEW h \in Handle, Body!CloseBody(h) PROVE ZipInv'
  <2>1. hd[h].cl = "body" /\ entry' = entry
    BY <1>12 DEF Body!CloseBody
  <2>2. CASE entry[h].method = "deflate"
    <3>1. PICK t : t = [hd[h] EXCEPT !.cl = "idle", !.fr = None]
      OBVIOUS
    <3>2. /\ ~hd[h].mu /\ hd' = [hd EXCEPT ![h] = t]
          /\ fpool' = IF hd[h].fr = None THEN fpool ELSE Append(fpool, hd[h].fr)
      BY <1>12, <2>2, <3>1 DEF Body!CloseBody, Body!FlateClose
    <3>3. Kept(entry[h], t, None)
      BY <1>2, <2>1, <3>1, <3>2, CloseBodyKeeps
    <3>4. Owners'
      <4>1. CASE hd[h].fr = None
        BY <3>2, <3>3, <4>1, OwnersKept DEF Kept
      <4>2. CASE hd[h].fr # None
        BY <3>2, <3>3, <4>2, OwnersPut DEF Kept
      <4> QED
        BY <4>1, <4>2
    <3> QED
      BY <2>1, <3>2, <3>3, <3>4, HandleStep DEF Kept
  <2>3. CASE entry[h].method # "deflate"
    <3>1. PICK t : t = [hd[h] EXCEPT !.cl = "idle"]
      OBVIOUS
    <3>2. hd' = [hd EXCEPT ![h] = t] /\ fpool' = fpool
      BY <1>12, <2>3, <3>1 DEF Body!CloseBody
    <3>3. Kept(entry[h], t, None)
      BY <1>2, <2>1, <2>3, <3>1, CloseBodyKeeps
    <3>4. hd[h].fr = None
      BY <1>2, <2>3 DEF HandleInv, Handling
    <3> QED
      BY <1>4, <2>1, <3>2, <3>3, <3>4
  <2> QED
    BY <2>2, <2>3
<1>13. ASSUME UNCHANGED zipVars PROVE ZipInv'
  <2>1. hd' = hd /\ entry' = entry /\ fpool' = fpool
    BY <1>13 DEF zipVars
  <2>2. Owners'
    BY <2>1 DEF ZipInv, Owners
  <2>3. hd' \in [Handle -> HandleState] /\ \A g \in Handle : Body!WellFormed(entry'[g]) /\ HandleInv(entry'[g], hd'[g])
    BY <1>1, <1>2, <2>1
  <2>4. ZipInv' = (/\ hd' \in [Handle -> HandleState]
                   /\ \A g \in Handle : Body!WellFormed(entry'[g])
                   /\ \A g \in Handle : HandleInv(entry'[g], hd'[g])
                   /\ Owners')
    BY DEF ZipInv, HandleInv, Handling, Returned, WholeStream, ReadsOn, Progress
  <2> QED
    BY <2>2, <2>3, <2>4
<1> QED
  BY <1>3, <1>5, <1>6, <1>7, <1>8, <1>9, <1>10, <1>11, <1>12, <1>13 DEF Body!Next

\* No handle is open at first.
LEMMA ZipInitInv == Body!Init => ZipInv
<1> SUFFICES ASSUME Body!Init PROVE ZipInv
  OBVIOUS
<1>1. entry \in Entry /\ fpool = <<>>
  BY DEF Body!Init
<1>2. PICK s : s = [rd |-> "new", cl |-> "idle", raw |-> <<>>, open |-> FALSE, left |-> 0, fr |-> None,
                    mu |-> FALSE, err |-> "nil", got |-> <<>>, out |-> <<>>, pend |-> [p |-> <<>>, err |-> "nil"],
                    closes |-> 0]
  OBVIOUS
<1>3. hd = [h \in Handle |-> s]
  BY <1>2 DEF Body!Init
<1>4. s \in HandleState
  <2>1. <<>> \in Cells /\ "nil" \in Errors /\ <<>> \in Seq(Cells)
    BY EmptySeq DEF Cells, Errors
  <2>2. [p |-> <<>>, err |-> "nil"] \in [p : Cells, err : Errors]
    BY <2>1
  <2> QED
    BY <1>2, <2>1, <2>2 DEF HandleState
<1>5. \A e : HandleInv(e, s)
  BY <1>2 DEF HandleInv, Handling, Returned, WholeStream
<1>6. Owners
  <2>1. fpool \in Seq(FlateReader) /\ DOMAIN fpool = {}
    BY <1>1, EmptySeq
  <2> QED
    BY <1>2, <1>3, <2>1 DEF Owners
<1>7. \A h \in Handle : Body!WellFormed(entry[h])
  BY <1>1, EntryAssumption
<1> QED
  BY <1>3, <1>4, <1>5, <1>6, <1>7 DEF ZipInv

\* In every behaviour that exercises the handles.
LEMMA ZipInvHolds == AllSpec => [](part = "body" => ZipInv)
<1>1. AllInit => (part = "body" => ZipInv)
  BY ZipInitInv DEF AllInit
<1>2. (part = "body" => ZipInv) /\ [AllNext]_allVars => (part = "body" => ZipInv)'
  <2> SUFFICES ASSUME part = "body" => ZipInv, [AllNext]_allVars, part' = "body"
               PROVE  ZipInv'
    OBVIOUS
  <2>1. part = "body" /\ [Body!Next]_zipVars
    BY DEF AllNext, allVars
  <2> QED
    BY <2>1, ZipStep
<1> QED
  BY <1>1, <1>2, PTL DEF AllSpec

\* For all entries, streams, pool and numbers of handles and Closes: the caller
\* of Read hears io.EOF only after exactly the data that was written, and no
\* other error of a whole stream; a flate reader has one owner.
THEOREM EntriesSoundHolds == AllSpec => []EntriesSound
<1>1. ASSUME ZipInv PROVE Body!BodyExact /\ Body!HandlesSound
  <2>1. \A h \in Handle : hd[h] \in HandleState /\ Body!WellFormed(entry[h]) /\ HandleInv(entry[h], hd[h])
    BY <1>1 DEF ZipInv
  <2>2. ASSUME NEW h \in Handle, NEW e, NEW s, e = entry[h], s = hd[h]
        PROVE  /\ s.rd # "failed" /\ s.err = "EOF" /\ (e.crc # <<>> \/ e.hasDesc \/ (Body!Intact(e) /\ s.closes = 0)) => s.out = e.data
               /\ Body!Intact(e) /\ s.closes = 0 /\ e.localLen <= e.varLen + Body!openReadSlop =>
                    s.err \in {"nil", "EOF"} /\ Body!IsPrefix(s.out, e.data)
    <3>1. s \in HandleState /\ Body!WellFormed(e) /\ Handling(e, s) /\ Returned(e, s) /\ WholeStream(e, s)
      BY <2>1, <2>2 DEF HandleInv
    <3>2. ASSUME Body!Intact(e), s.closes = 0, s.rd \notin {"new", "failed"}
          PROVE  s.err \in {"nil", "EOF"} /\ IsPrefix(s.out, e.data) /\ (s.err = "EOF" => s.out = e.data)
      <4>1. ReadsOn(e, s)
        BY <3>1, <3>2 DEF WholeStream
      <4>2. PICK c \in 0..BodyLen(e) : Progress(e, s, c)
        BY <4>1 DEF ReadsOn
      <4>3. s.err \in {"nil", "EOF"} /\ s.out = s.got
        BY <3>1, <3>2, <4>1 DEF ReadsOn, Returned
      <4>4. c \in Nat /\ BodyLen(e) \in Nat
        BY <3>1, ReadSizeOK
      <4>5. IsPrefix(s.got \o s.pend.p, e.data)
        BY <3>1, <4>2, <4>4, DeliveredOK DEF Progress
      <4>6. IsPrefix(s.got, e.data)
        <5>1. s.got \in Cells /\ s.pend.p \in Cells /\ e.data \in Cells
          BY <3>1, DescOK DEF HandleState
        <5> QED
          BY <4>5, <5>1, PrefixOfPrefix DEF Cells
      <4>7. s.err = "EOF" => s.got = e.data
        <5> SUFFICES ASSUME s.err = "EOF" PROVE s.got = e.data
          OBVIOUS
        <5>1. s.pend = [p |-> <<>>, err |-> "nil"]
          BY <3>1 DEF Handling
        <5>2. s.got \o <<>> = s.got
          BY <3>1, ConcatEmptySeq DEF HandleState, Cells
        <5>3. s.got = Delivered(e, BodyLen(e))
          BY <4>2, <5>1, <5>2 DEF Progress
        <5>4. BodyLen(e) >= Len(e.cells)
          <6>1. PICK k \in Nat : k = Len(e.cells)
            BY <3>1, BodyOK
          <6>2. BodyLen(e) = k + 1 \/ BodyLen(e) = k + 0
            BY <3>1, <6>1, BodyOK
          <6> QED
            BY <6>1, <6>2
        <5> QED
          BY <3>1, <4>4, <5>3, <5>4, DeliveredOK
      <4> QED
        BY <4>3, <4>6, <4>7
    <3>3. ASSUME Body!Intact(e), s.closes = 0, s.rd \in {"new", "failed"}, e.localLen <= e.varLen + Body!openReadSlop
          PROVE  s.err = "nil" /\ IsPrefix(s.out, e.data)
      <4>1. s.err = "nil" /\ s.out = <<>>
        BY <3>1, <3>3 DEF Handling, WholeStream
      <4>2. <<>> = Delivered(e, 0) /\ IsPrefix(Delivered(e, 0), e.data)
        BY <3>1, DeliveredOK
      <4> QED
        BY <4>1, <4>2
    <3>4. s.rd = "new" => s.err = "nil"
      BY <3>1 DEF Handling
    <3>5. s.rd # "failed" /\ s.err = "EOF" /\ (e.crc # <<>> \/ e.hasDesc) => s.out = e.data
      BY <3>1 DEF Returned
    <3>6. s.rd # "failed" /\ s.err = "EOF" /\ (Body!Intact(e) /\ s.closes = 0) => s.out = e.data
      BY <3>2, <3>4
    <3>7. Body!IsPrefix(s.out, e.data) = IsPrefix(s.out, e.data)
      BY SameHelpers
    <3> QED
      BY <3>2, <3>3, <3>5, <3>6, <3>7, Zenon
  <2>3. Body!BodyExact
    BY <2>2 DEF Body!BodyExact
  <2>4. Body!HandlesSound
    <3>1. \A h \in Handle : Handling(entry[h], hd[h])
      BY <2>1 DEF HandleInv
    <3>2. Owners
      BY <1>1 DEF ZipInv
    <3> QED
      BY <3>1, <3>2, SameHelpers DEF Body!HandlesSound, Handling, Owners
  <2> QED
    BY <2>3, <2>4
<1>2. (part = "body" => ZipInv) => EntriesSound
  BY <1>1 DEF EntriesSound
<1> QED
  BY <1>2, ZipInvHolds, PTL
=============================================================================
