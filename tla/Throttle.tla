------------------------------ MODULE Throttle ------------------------------
(***************************************************************************)
(* net/throttle: one throttled conn, with the goroutines that call Write,  *)
(* the writeLoop goroutine, and a goroutine that calls Close.              *)
(*                                                                         *)
(* The wrapped net.Conn is external: its Write takes the whole chunk, or   *)
(* some of it with an error, and nothing once it was closed. Time is the   *)
(* number of seconds writeLoop has slept for the current request.          *)
(***************************************************************************)
EXTENDS Integers, FiniteSetsExt, Sequences

CONSTANTS
  Writer,      \* goroutines that call Write
  Cap,         \* capacity of wchan (1024 in the code)
  unitSize,    \* chunk size (1400 in the code)
  Lens,        \* the lengths of p that Write is called with
  UpKBps, DownKBps,   \* Listener.Up.KBps and Listener.Down.KBps
  None

ASSUME CapAssumption == Cap \in Nat \ {0}
ASSUME SizeAssumption == unitSize \in Nat \ {0} /\ Lens \subseteq Nat
ASSUME RateAssumption == UpKBps \in Nat /\ DownKBps \in Nat
ASSUME NoneAssumption == None \notin Writer

VARIABLES
  pc,          \* Write: "idle", "send", "result"
  len,         \* Write: len(p)
  resc,        \* Write: the result channel; None or [n, err]
  ret,         \* what the last Write returned; None before
  written,     \* history: the bytes of p that reached the Conn
  wchan,       \* queued requests
  wchanOpen, connOpen,   \* close state of wchan and Conn
  loop,        \* writeLoop: "recv", "write", "exit"
  req,         \* writeLoop: whose request it works on
  rem,         \* writeLoop: len(req.p)
  res,         \* writeLoop: res
  slept        \* writeLoop: seconds slept for this request

writerVars == <<pc, len, ret>>
closeVars == <<wchanOpen, connOpen>>
loopVars == <<loop, req, rem, res, slept>>
vars == <<pc, len, resc, ret, written, wchan, wchanOpen, connOpen, loop, req,
          rem, res, slept>>

NErr(n, err) == [n |-> n, err |-> err]

Init ==
  /\ pc = [w \in Writer |-> "idle"]
  /\ len = [w \in Writer |-> 0]
  /\ resc = [w \in Writer |-> None]
  /\ ret = [w \in Writer |-> None]
  /\ written = [w \in Writer |-> 0]
  /\ wchan = <<>>
  /\ wchanOpen = TRUE /\ connOpen = TRUE
  /\ loop = "recv" /\ req = None /\ rem = 0 /\ res = NErr(0, FALSE) /\ slept = 0

\* Rate.byteTime in seconds: the conversion to time.Duration drops the
\* fraction before it multiplies by time.Second.
byteTime(n, KBps) == IF KBps = 0 THEN 0 ELSE n \div (1024 * KBps)

-----------------------------------------------------------------------------
(* Slips the properties below must catch; no specification uses them.      *)

\* The panic of the send is not recovered, so Write never returns.
SendClosedHangs(w) ==
  /\ pc[w] = "send"
  /\ ~wchanOpen
  /\ UNCHANGED vars

\* Close returns the error of Conn.Close before it closes wchan.
CloseChanSkipped ==
  /\ ~connOpen /\ wchanOpen
  /\ UNCHANGED vars

\* res.n is set instead of increased.
LoopWriteLastN ==
  /\ loop = "write"
  /\ rem > 0 /\ ~res.err
  /\ LET chunk == Min({rem, unitSize}) IN
       \E n \in {0, 1, chunk} \cap 0..chunk :
         /\ connOpen \/ n = 0
         /\ written' = [written EXCEPT ![req] = @ + n]
         /\ res' = NErr(n, ~connOpen \/ n < chunk)
         /\ rem' = rem - n
         /\ slept' = slept + byteTime(chunk, UpKBps)
  /\ UNCHANGED <<writerVars, resc, wchan, closeVars, loop, req>>

-----------------------------------------------------------------------------
\* Write is called and makes its request.
WriteCall(w, l) ==
  /\ pc[w] = "idle"
  /\ len' = [len EXCEPT ![w] = l]
  /\ resc' = [resc EXCEPT ![w] = None]
  /\ written' = [written EXCEPT ![w] = 0]
  /\ ret' = [ret EXCEPT ![w] = None]
  /\ pc' = [pc EXCEPT ![w] = "send"]
  /\ UNCHANGED <<wchan, closeVars, loopVars>>

\* The send on wchan, once there is room.
Send(w) ==
  /\ pc[w] = "send"
  /\ wchanOpen
  /\ Len(wchan) < Cap
  /\ wchan' = Append(wchan, w)
  /\ pc' = [pc EXCEPT ![w] = "result"]
  /\ UNCHANGED <<len, ret, resc, written, closeVars, loopVars>>

\* The send panics, also one that was blocked when wchan was closed; Write
\* recovers.
SendClosed(w) ==
  /\ pc[w] = "send"
  /\ ~wchanOpen
  /\ ret' = [ret EXCEPT ![w] = NErr(0, TRUE)]
  /\ pc' = [pc EXCEPT ![w] = "idle"]
  /\ UNCHANGED <<len, resc, written, wchan, closeVars, loopVars>>

\* res := <-resc, and Write returns it.
WriteReturn(w) ==
  /\ pc[w] = "result"
  /\ resc[w] # None
  /\ ret' = [ret EXCEPT ![w] = resc[w]]
  /\ pc' = [pc EXCEPT ![w] = "idle"]
  /\ UNCHANGED <<len, resc, written, wchan, closeVars, loopVars>>

\* writeLoop takes a request (closed channels are drained first) and sleeps
\* out its latency.
LoopRecv ==
  /\ loop = "recv"
  /\ wchan # <<>>
  /\ req' = Head(wchan)
  /\ wchan' = Tail(wchan)
  /\ rem' = len[Head(wchan)]
  /\ res' = NErr(0, FALSE)
  /\ slept' = 0
  /\ loop' = "write"
  /\ UNCHANGED <<writerVars, resc, written, closeVars>>

\* One turn of the inner loop: Conn.Write of a chunk, and a pause.
LoopWrite ==
  /\ loop = "write"
  /\ rem > 0 /\ ~res.err
  /\ LET chunk == Min({rem, unitSize}) IN
       \E n \in {0, 1, chunk} \cap 0..chunk :
         /\ connOpen \/ n = 0
         /\ written' = [written EXCEPT ![req] = @ + n]
         /\ res' = NErr(res.n + n, ~connOpen \/ n < chunk)
         /\ rem' = rem - n
         /\ slept' = slept + byteTime(chunk, UpKBps)
  /\ UNCHANGED <<writerVars, resc, wchan, closeVars, loop, req>>

\* req.resc <- res
LoopReply ==
  /\ loop = "write"
  /\ rem = 0 \/ res.err
  /\ resc' = [resc EXCEPT ![req] = res]
  /\ loop' = "recv"
  /\ req' = None
  /\ UNCHANGED <<writerVars, written, wchan, closeVars, rem, res, slept>>

\* The range over wchan ends.
LoopExit ==
  /\ loop = "recv"
  /\ ~wchanOpen /\ wchan = <<>>
  /\ loop' = "exit"
  /\ UNCHANGED <<writerVars, resc, written, wchan, closeVars, req, rem, res, slept>>

\* Close: Conn.Close, inside closeOnce.
CloseConn ==
  /\ connOpen
  /\ connOpen' = FALSE
  /\ UNCHANGED <<writerVars, resc, written, wchan, wchanOpen, loopVars>>

\* Close: close(c.wchan).
CloseChan ==
  /\ ~connOpen /\ wchanOpen
  /\ wchanOpen' = FALSE
  /\ UNCHANGED <<writerVars, resc, written, wchan, connOpen, loopVars>>

WriteProgress(w) == Send(w) \/ SendClosed(w) \/ WriteReturn(w)
LoopProgress == LoopRecv \/ LoopWrite \/ LoopReply \/ LoopExit

Next ==
  \/ \E w \in Writer :
       \/ \E l \in Lens : WriteCall(w, l)
       \/ WriteProgress(w)
  \/ LoopProgress
  \/ CloseConn \/ CloseChan

Spec == Init /\ [][Next]_vars

\* Conn.Write returns, the goroutines are scheduled. A channel serves blocked
\* senders in order, so one that finds room again and again gets it: SF.
FairSpec ==
  /\ Spec
  /\ WF_vars(LoopProgress)
  /\ WF_vars(CloseChan)
  /\ \A w \in Writer : SF_vars(WriteProgress(w))

-----------------------------------------------------------------------------
Result == [n : Nat, err : BOOLEAN]

\* Every variable has its type.
TypeOK ==
  /\ pc \in [Writer -> {"idle", "send", "result"}]
  /\ len \in [Writer -> Lens \cup {0}]
  /\ resc \in [Writer -> Result \cup {None}]
  /\ ret \in [Writer -> Result \cup {None}]
  /\ written \in [Writer -> Nat]
  /\ \A w \in Writer : written[w] <= len[w]
  /\ wchan \in Seq(Writer) /\ Len(wchan) <= Cap
  /\ wchanOpen \in BOOLEAN /\ connOpen \in BOOLEAN
  /\ loop \in {"recv", "write", "exit"}
  /\ req \in Writer \cup {None}
  /\ rem \in Nat /\ res \in Result /\ slept \in Nat

\* A Write reports exactly the bytes that reached the Conn, when it is
\* refused, cut short by a Close or served after one, too.
ReportsWritten == \A w \in Writer : ret[w] # None => ret[w].n = written[w]

\* io.Writer's contract: a short count comes with an error.
ShortMeansError ==
  \A w \in Writer : ret[w] # None /\ ret[w].n < len[w] => ret[w].err

\* Write keeps io.Writer's contract in every race with Close and other writers:
\* it reports the bytes that reached the Conn, and fewer only with an error.
WriterContract == TypeOK /\ ReportsWritten /\ ShortMeansError

\* Every Write returns, however it races with Close: queued requests are
\* answered by the draining loop, and blocked sends are refused.
WriteReturns == \A w \in Writer : pc[w] # "idle" ~> pc[w] = "idle"

\* After Close the writeLoop goroutine ends.
LoopEnds == ~connOpen ~> loop = "exit"

\* Close strands nobody: neither a Write that races with it nor the loop.
NobodyStranded == WriteReturns /\ LoopEnds

\* "byteTime returns the time required for n bytes": a request that was
\* written in full has been throttled to KBps, give or take a second.
RateLimited ==
  loop = "write" /\ rem = 0 /\ ~res.err /\ UpKBps # 0 =>
    (slept + 1) * 1024 * UpKBps >= res.n

\* "Down Rate // server Writes to Client": it is Listener.Down that limits
\* what Write sends, give or take a second.
DownLimitsWrites ==
  loop = "write" /\ rem = 0 /\ ~res.err /\ DownKBps # 0 =>
    (slept + 1) * 1024 * DownKBps >= res.n
=============================================================================
