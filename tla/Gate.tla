-------------------------------- MODULE Gate --------------------------------
(***************************************************************************)
(* syncutil.Gate: a buffered channel of Max slots.                         *)
(*                                                                         *)
(* The channel is external: a send into a full channel queues the          *)
(* goroutine, and a receive hands the slot to the first one in the queue.  *)
(***************************************************************************)
EXTENDS Integers, Sequences

CONSTANTS
  Proc,   \* goroutines
  Max     \* NewGate's argument

VARIABLES
  len,    \* number of elements in Gate.c
  sendq,  \* goroutines blocked in Start, in order
  pc      \* "idle", "blocked", "running", or "panicked" in Done

vars == <<len, sendq, pc>>

Init ==
  /\ len = 0
  /\ sendq = <<>>
  /\ pc = [p \in Proc |-> "idle"]

-----------------------------------------------------------------------------
(* Slips the properties below must catch; no specification uses them.      *)

\* The channel has one slot too many.
StartOffByOne(p) ==
  /\ pc[p] = "idle"
  /\ len <= Max
  /\ len' = len + 1
  /\ pc' = [pc EXCEPT ![p] = "running"]
  /\ UNCHANGED sendq

-----------------------------------------------------------------------------
\* Start: the channel has room.
Start(p) ==
  /\ pc[p] = "idle"
  /\ len < Max
  /\ len' = len + 1
  /\ pc' = [pc EXCEPT ![p] = "running"]
  /\ UNCHANGED sendq

\* Start: it is full.
StartBlocks(p) ==
  /\ pc[p] = "idle"
  /\ len = Max
  /\ sendq' = Append(sendq, p)
  /\ pc' = [pc EXCEPT ![p] = "blocked"]
  /\ UNCHANGED len

\* Done: nobody is blocked. The receive of an empty channel would panic.
Done(p) ==
  /\ pc[p] = "running"
  /\ sendq = <<>>
  /\ IF len > 0
     THEN len' = len - 1 /\ pc' = [pc EXCEPT ![p] = "idle"]
     ELSE UNCHANGED len /\ pc' = [pc EXCEPT ![p] = "panicked"]
  /\ UNCHANGED sendq

\* Done: the receive takes the slot of the first blocked goroutine's element.
DonePass(p) ==
  /\ pc[p] = "running"
  /\ sendq # <<>>
  /\ sendq' = Tail(sendq)
  /\ pc' = [pc EXCEPT ![p] = "idle", ![Head(sendq)] = "running"]
  /\ UNCHANGED len

Next ==
  \E p \in Proc : Start(p) \/ StartBlocks(p) \/ Done(p) \/ DonePass(p)

Spec == Init /\ [][Next]_vars

-----------------------------------------------------------------------------
\* Every variable has its type.
TypeOK ==
  /\ len \in 0..Max
  /\ sendq \in Seq(Proc)
  /\ pc \in [Proc -> {"idle", "blocked", "running", "panicked"}]

\* A caller that pairs Start with Done never meets the empty channel that
\* panics with "Done called more than Start".
NoPanic ==
  \A p \in Proc : pc[p] # "panicked" /\ (pc[p] = "running" => len > 0)

\* A Start blocks only while the gate is full: no slot stays unused while
\* somebody waits for one.
BlockedMeansFull == sendq # <<>> => len = Max

Phase ==
  [p \in Proc |-> CASE pc[p] = "blocked" -> "waiting"
                    [] pc[p] = "running" -> "using"
                    [] OTHER -> "idle"]
Units == [p \in Proc |-> IF pc[p] \in {"blocked", "running"} THEN 1 ELSE 0]

Abs == INSTANCE Semaphore WITH
         Size <- Max, avail <- Max - len, phase <- Phase, units <- Units

\* "A Gate limits concurrency": it is a semaphore of Max units of which every
\* operation takes one.
ImplementsSemaphore == Abs!FairSpec

\* The safety part of ImplementsSemaphore.
ImplementsSafely == Abs!Spec
=============================================================================
