--------------------------- MODULE ServiceProofs ----------------------------
(***************************************************************************)
(* What holds of net/throttle, cloud/cloudlaunch and jsonconfig for every  *)
(* value of the constants.                                                 *)
(***************************************************************************)
EXTENDS Throttle, CloudLaunch, JsonInclude, JsonObj,
        FiniteSetTheorems, SequenceTheorems, TLAPS

-----------------------------------------------------------------------------
(* net/throttle                                                            *)

Queued(w) == \E i \in 1..Len(wchan) : wchan[i] = w

\* A request is queued once, or worked on, while its Write waits for an answer
\* that it does not have yet.
OneRequest ==
  /\ \A i, j \in 1..Len(wchan) : wchan[i] = wchan[j] => i = j
  /\ \A w \in Writer : Queued(w) \/ req = w => pc[w] = "result" /\ resc[w] = None
  /\ \A w \in Writer : pc[w] = "send" => resc[w] = None
  /\ req \in Writer => ~Queued(req)

\* Nothing is written for a request before the loop takes it.
Untouched == \A w \in Writer : pc[w] = "send" \/ Queued(w) => written[w] = 0

\* What the loop knows of the request it works on.
Working ==
  /\ loop = "write" <=> req \in Writer
  /\ loop = "write" => res.n = written[req] /\ rem + res.n = len[req]

\* What an answer says.
Truthful(w, r) == r.n = written[w] /\ (r.n < len[w] => r.err)

Answers == \A w \in Writer :
  /\ resc[w] # None => Truthful(w, resc[w])
  /\ ret[w] # None => Truthful(w, ret[w])
  /\ pc[w] # "idle" => ret[w] = None

Inv == TypeOK /\ OneRequest /\ Untouched /\ Working /\ Answers

\* The chunk that writeLoop gives to Conn.Write.
LEMMA ChunkBounds ==
  ASSUME NEW r \in Nat PROVE Min({r, unitSize}) \in 0..r
<1> USE SizeAssumption
<1>1. \E x \in {r, unitSize} : \A y \in {r, unitSize} : x <= y
  <2>1. CASE r <= unitSize
    BY <2>1
  <2>2. CASE unitSize <= r
    BY <2>2
  <2>3. QED
    BY <2>1, <2>2
<1>2. QED
  BY <1>1 DEF Min

\* Rate.byteTime is a number of seconds.
LEMMA ByteTimeType == ASSUME NEW n \in Nat, NEW k \in Nat PROVE byteTime(n, k) \in Nat
<1>1. CASE k = 0
  BY <1>1 DEF byteTime
<1>2. CASE k # 0
  <2>1. 1024 * k \in Nat /\ 1024 * k > 0
    BY <1>2
  <2> DEFINE m == 1024 * k
  <2> HIDE DEF m
  <2>2. m \in Nat /\ m > 0 /\ byteTime(n, k) = n \div m
    BY <1>2, <2>1 DEF byteTime, m
  <2>3. n \div m \in Nat
    BY <2>2
  <2>4. QED
    BY <2>2, <2>3
<1>3. QED
  BY <1>1, <1>2

\* The inductive invariant of Write, writeLoop and Close.
LEMMA InvHolds == Spec => []Inv
<1> USE CapAssumption, SizeAssumption, RateAssumption, NoneAssumption
<1>1. Init => Inv
  BY DEF Init, Inv, TypeOK, OneRequest, Untouched, Working, Answers, Queued, Result, NErr
<1>2. Inv /\ [Next]_vars => Inv'
  <2> SUFFICES ASSUME Inv, [Next]_vars PROVE Inv'
    OBVIOUS
  <2> USE DEF Inv, TypeOK, OneRequest, Untouched, Working, Answers, Truthful, Queued,
              Result, NErr, writerVars, closeVars, loopVars
  <2>1. CASE UNCHANGED vars
    BY <2>1 DEF vars
  <2>2. ASSUME NEW w \in Writer, NEW l \in Lens, WriteCall(w, l) PROVE Inv'
    BY <2>2 DEF WriteCall
  <2>3. ASSUME NEW w \in Writer, Send(w) PROVE Inv'
    <3>1. wchan' \in Seq(Writer) /\ Len(wchan') = Len(wchan) + 1
          /\ wchan'[Len(wchan) + 1] = w
          /\ \A i \in 1..Len(wchan) : wchan'[i] = wchan[i]
      BY <2>3 DEF Send
    <3>2. ~Queued(w) /\ req # w /\ resc[w] = None
      BY <2>3 DEF Send
    <3>3. TypeOK' /\ Working'
      BY <2>3, <3>1, <3>2 DEF Send
    <3>4. OneRequest'
      BY <2>3, <3>1, <3>2 DEF Send
    <3>5. Untouched' /\ Answers'
      BY <2>3, <3>1, <3>2 DEF Send
    <3>6. QED
      BY <3>3, <3>4, <3>5
  <2>4. ASSUME NEW w \in Writer, SendClosed(w) PROVE Inv'
    BY <2>4 DEF SendClosed
  <2>5. ASSUME NEW w \in Writer, WriteReturn(w) PROVE Inv'
    BY <2>5 DEF WriteReturn
  <2>6. CASE LoopRecv
    <3> DEFINE w == wchan[1]
    <3>1. /\ w \in Writer /\ Head(wchan) = w /\ Queued(w)
          /\ wchan' \in Seq(Writer) /\ Len(wchan') = Len(wchan) - 1
          /\ \A i \in 1..Len(wchan') : wchan'[i] = wchan[i + 1] /\ i + 1 \in 1..Len(wchan)
      BY <2>6 DEF LoopRecv
    <3>2. TypeOK' /\ Working'
      BY <2>6, <3>1, SMTT(60) DEF LoopRecv
    <3>3. ASSUME NEW i \in 1..Len(wchan') PROVE wchan'[i] # w
      <4>1. i + 1 \in 1..Len(wchan) /\ 1 \in 1..Len(wchan) /\ i + 1 # 1
        BY <3>1, SMTT(60)
      <4>2. wchan[i + 1] # wchan[1]
        BY <4>1
      <4>3. QED
        BY <3>1, <4>2
    <3>4. OneRequest'
      BY <2>6, <3>1, <3>3 DEF LoopRecv
    <3>5. Untouched' /\ Answers'
      BY <2>6, <3>1 DEF LoopRecv
    <3>6. QED
      BY <3>2, <3>4, <3>5
  <2>7. CASE LoopWrite
    <3> DEFINE chunk == Min({rem, unitSize})
    <3>0. chunk \in 0..rem
      BY ChunkBounds
    <3>1. chunk \in Nat /\ byteTime(chunk, UpKBps) \in Nat
      <4> HIDE DEF chunk
      <4>1. chunk \in Nat
        BY <3>0
      <4>2. QED
        BY <4>1, ByteTimeType
    <3>2. PICK n \in 0..chunk :
            /\ written' = [written EXCEPT ![req] = @ + n]
            /\ res' = NErr(res.n + n, ~connOpen \/ n < chunk)
            /\ rem' = rem - n
            /\ slept' = slept + byteTime(chunk, UpKBps)
      BY <2>7 DEF LoopWrite
    <3> HIDE DEF chunk
    <3>3. n \in 0..rem /\ req \in Writer /\ pc[req] = "result" /\ resc[req] = None
          /\ ret[req] = None /\ ~Queued(req)
      BY <2>7, <3>0, <3>1, <3>2 DEF LoopWrite
    <3>4. TypeOK' /\ Working'
      <4>1. /\ res' \in Result /\ rem' \in Nat /\ slept' \in Nat
            /\ res'.n = res.n + n /\ rem' = rem - n
        BY <3>1, <3>2, <3>3
      <4>2. /\ written' \in [Writer -> Nat] /\ written'[req] = written[req] + n
            /\ \A w \in Writer \ {req} : written'[w] = written[w]
        BY <3>2, <3>3
      <4>3. Working'
        BY <2>7, <4>1, <4>2, <3>3 DEF LoopWrite
      <4>4. written[req] + n <= len[req] /\ len[req] \in Nat
        BY <2>7, <3>3 DEF LoopWrite
      <4>5. \A w \in Writer : written'[w] <= len[w]
        BY <4>2, <4>4, ZenonT(60)
      <4>6. QED
        BY <2>7, <4>1, <4>2, <4>3, <4>5 DEF LoopWrite
    <3>5. OneRequest'
      BY <2>7 DEF LoopWrite
    <3>6. Untouched' /\ Answers'
      BY <2>7, <3>2, <3>3 DEF LoopWrite
    <3>7. QED
      BY <3>4, <3>5, <3>6
  <2>8. CASE LoopReply
    <3>1. req \in Writer /\ Truthful(req, res) /\ ~Queued(req)
      BY <2>8 DEF LoopReply
    <3>2. TypeOK' /\ Working' /\ Untouched'
      BY <2>8, <3>1 DEF LoopReply
    <3>3. OneRequest'
      BY <2>8, <3>1 DEF LoopReply
    <3>4. Answers'
      BY <2>8, <3>1 DEF LoopReply
    <3>5. QED
      BY <3>2, <3>3, <3>4
  <2>9. CASE LoopExit
    BY <2>9 DEF LoopExit
  <2>10. CASE CloseConn
    BY <2>10, ZenonT(60) DEF CloseConn
  <2>11. CASE CloseChan
    BY <2>11, ZenonT(60) DEF CloseChan
  <2>12. QED
    BY <2>1, <2>2, <2>3, <2>4, <2>5, <2>6, <2>7, <2>8, <2>9, <2>10, <2>11
       DEF Next, WriteProgress, LoopProgress
<1>3. QED
  BY <1>1, <1>2, PTL DEF Spec

\* Write keeps io.Writer's contract in every race with Close and other writers.
THEOREM WriterContractHolds == FairSpec => []WriterContract
<1>1. Inv => WriterContract
  BY DEF Inv, Answers, Truthful, WriterContract, ReportsWritten, ShortMeansError
<1>2. QED
  BY <1>1, InvHolds, PTL DEF FairSpec

-----------------------------------------------------------------------------
(* cloud/cloudlaunch                                                       *)

\* At most one operation runs, the one that creates the instance; one that is
\* done has created it.
OperationsSound ==
  /\ \A d \in Deployer : operation[d] = "running" => instance = "creating"
  /\ \A d, e \in Deployer : operation[d] = "running" /\ operation[e] = "running" => d = e
  /\ \A d \in Deployer : operation[d] = "done" => instance = "exists"

\* A deployer looks for an instance after it has uploaded a binary.
Uploaded ==
  /\ \A d \in Deployer : phase[d] # "idle" => object # 0
  /\ instance # "none" => object # 0

\* What restartLoop has seen is no older than what runs.
SeesUpdates ==
  /\ binary <= object
  /\ svc = "run" /\ lastEtag # 0 => binary <= lastEtag /\ lastEtag <= object

LaunchInv == LaunchTypeOK /\ CreatedIsUp /\ OperationsSound /\ Uploaded /\ SeesUpdates

\* The inductive invariant of the deployers, of Compute Engine and of the
\* service.
LEMMA LaunchInvHolds == LaunchSpec => []LaunchInv
<1> USE MaxUploadsAssumption
<1>1. LaunchInit => LaunchInv
  <2> SUFFICES ASSUME LaunchInit PROVE LaunchInv
    OBVIOUS
  <2>1. LaunchTypeOK
    <3>1. crashed \in BOOLEAN
      BY Zenon DEF LaunchInit
    <3>2. object \in 0..MaxUploads /\ binary \in 0..MaxUploads /\ lastEtag \in 0..MaxUploads
      BY DEF LaunchInit
    <3>3. /\ phase \in [Deployer -> {"idle", "lookup", "insert", "poll"}]
          /\ outcome \in [Deployer -> {"none", "exists", "created", "fatal"}]
          /\ operation \in [Deployer -> {"none", "running", "done", "failed"}]
          /\ instance \in {"none", "creating", "exists"} /\ svc \in {"down", "pre", "run"}
      BY DEF LaunchInit
    <3> QED
      BY <3>1, <3>2, <3>3, Zenon DEF LaunchTypeOK
  <2>2. CreatedIsUp /\ OperationsSound /\ Uploaded /\ SeesUpdates
    BY DEF LaunchInit, CreatedIsUp, OperationsSound, Uploaded, SeesUpdates
  <2> QED
    BY <2>1, <2>2 DEF LaunchInv
<1>2. LaunchInv /\ [LaunchNext]_launchVars => LaunchInv'
  <2> SUFFICES ASSUME LaunchInv, [LaunchNext]_launchVars PROVE LaunchInv'
    OBVIOUS
  <2> USE DEF LaunchInv, LaunchTypeOK, CreatedIsUp, OperationsSound, Uploaded, SeesUpdates,
              Goto, Exit, deployVars, cloudVars, svcVars
  <2>1. ASSUME UNCHANGED launchVars PROVE LaunchInv'
    BY <2>1 DEF launchVars
  <2>2. ASSUME NEW d \in Deployer, Upload(d) PROVE LaunchInv'
    BY <2>2 DEF Upload
  <2>3. ASSUME NEW d \in Deployer, Fatal(d) PROVE LaunchInv'
    BY <2>3 DEF Fatal
  <2>4. ASSUME NEW d \in Deployer, LookupExists(d) PROVE LaunchInv'
    BY <2>4 DEF LookupExists
  <2>5. ASSUME NEW d \in Deployer, LookupMissing(d) PROVE LaunchInv'
    BY <2>5 DEF LookupMissing
  <2>6. ASSUME NEW d \in Deployer, Insert(d) PROVE LaunchInv'
    BY <2>6 DEF Insert
  <2>7. ASSUME NEW d \in Deployer, InsertConflict(d) PROVE LaunchInv'
    BY <2>7 DEF InsertConflict
  <2>8. ASSUME NEW d \in Deployer, PollDone(d) PROVE LaunchInv'
    BY <2>8 DEF PollDone
  <2>9. ASSUME NEW d \in Deployer, PollFailed(d) PROVE LaunchInv'
    BY <2>9 DEF PollFailed
  <2>10. ASSUME NEW d \in Deployer, Created(d) PROVE LaunchInv'
    BY <2>10 DEF Created
  <2>11. ASSUME NEW d \in Deployer, CreationFails(d) PROVE LaunchInv'
    BY <2>11 DEF CreationFails
  <2>12. CASE ExecStartPre
    BY <2>12 DEF ExecStartPre
  <2>13. CASE ExecStart
    <3>1. crashed' \in BOOLEAN
      BY <2>13, Zenon DEF ExecStart
    <3> QED
      BY <2>13, <3>1 DEF ExecStart
  <2>14. CASE HeadFirst \/ HeadAgain
    <3>1. CASE HeadFirst
      BY <3>1 DEF HeadFirst
    <3>2. CASE HeadAgain /\ object # lastEtag
      BY <3>2 DEF HeadAgain
    <3>3. CASE HeadAgain /\ object = lastEtag
      <4>1. UNCHANGED launchVars
        BY <3>3 DEF HeadAgain, launchVars
      <4> QED
        BY <2>1, <4>1
    <3> QED
      BY <2>14, <3>1, <3>2, <3>3
  <2>15. CASE Crash
    BY <2>15 DEF Crash
  <2> QED
    BY <2>1, <2>2, <2>3, <2>4, <2>5, <2>6, <2>7, <2>8, <2>9, <2>10, <2>11, <2>12, <2>13, <2>14, <2>15
       DEF LaunchNext, Deploying
<1> QED
  BY <1>1, <1>2, PTL DEF LaunchSpec

\* Deployers that race for the instance, or fail half-way, report success only
\* for an instance that is up and has a binary to download.
THEOREM DeploysSoundHolds == LaunchSpec => []DeploysSound
<1>1. LaunchInv => DeploysSound
  BY DEF LaunchInv, DeploysSound
<1> QED
  BY <1>1, LaunchInvHolds, PTL

\* restartLoop ends the process only for a binary that differs from the one
\* that runs.
THEOREM RestartIsUsefulHolds == LaunchSpec => RestartIsUseful
<1>1. LaunchInv /\ [LaunchNext]_launchVars =>
        [svc = "run" /\ svc' = "down" /\ ~crashed' => binary # object]_launchVars
  <2> SUFFICES ASSUME LaunchInv, LaunchNext, svc = "run", svc' = "down", ~crashed'
               PROVE  binary # object
    OBVIOUS
  <2>1. HeadAgain /\ object # lastEtag
    BY DEF LaunchNext, Deploying, Upload, Fatal, LookupExists, LookupMissing, Insert, InsertConflict,
           PollDone, PollFailed, Created, CreationFails, ExecStartPre, ExecStart, HeadFirst,
           HeadAgain, Crash, Goto, Exit, svcVars
  <2> QED
    BY <2>1 DEF LaunchInv, LaunchTypeOK, SeesUpdates, HeadAgain
<1> QED
  BY <1>1, LaunchInvHolds, PTL DEF LaunchSpec, RestartIsUseful

-----------------------------------------------------------------------------
(* jsonconfig.ConfigParser: the include recursion                          *)

\* A call: the document and the includes still to expand.
Calls == [doc : Doc, todo : SUBSET File]

\* The calls have documents and includes still to expand; the includes are
\* files.
FramesTyped ==
  /\ includes \in [Doc -> SUBSET File]
  /\ frames \in Seq(Calls)
  /\ root \in Doc

\* Only the outermost document may have no path; no document is being read
\* inside itself, and each file that is being read is in touchedFiles.
FramesSound ==
  /\ \A i \in 2..Len(frames) : frames[i].doc # Anon
  /\ \A i, j \in 1..Len(frames) : frames[i].doc = frames[j].doc => i = j
  /\ \A i \in 1..Len(frames) : frames[i].doc \in touched \cup {Anon}
  /\ frames # <<>> => frames[1].doc = root
  /\ status \in {"fail", "value"} => result \in {"cycle", "error"}

\* The files of D are read to the end: they include no others and none
\* includes itself, and of the documents that are being read each include is
\* still to be expanded, in D, or the one that is being read now.
ReadToEnd(D) ==
  /\ Closed(D)
  /\ \A g \in D : g \notin Reached(g)
  /\ \A i \in 1..Len(frames) : frames[i].doc \notin D
  /\ \A i \in 1..Len(frames) : \A g \in includes[frames[i].doc] \ frames[i].todo :
       g \in D \/ (i < Len(frames) /\ g = frames[i + 1].doc)

\* There is such a set of files among the touched ones while a call goes on.
Progress == status = "run" => \E D \in SUBSET touched : ReadToEnd(D)

IncludeInv ==
  /\ FramesTyped /\ IncludeTypeOK /\ StackIsCalls
  /\ FramesSound /\ Progress /\ OkIsWhole

\* A function on 1..n is a sequence of length n.
LEMMA FunctionIsSeq ==
  ASSUME NEW S, NEW n \in Nat, NEW f \in [1..n -> S]
  PROVE  f \in Seq(S) /\ Len(f) = n
OBVIOUS

\* What Front does to a sequence that is not empty.
LEMMA FrontOf ==
  ASSUME NEW S, NEW s \in Seq(S), s # <<>>
  PROVE  /\ Front(s) \in Seq(S)
         /\ Len(Front(s)) = Len(s) - 1
         /\ \A i \in 1..(Len(s) - 1) : Front(s)[i] = s[i]
<1>1. PICK n \in Nat : n = Len(s) - 1
  OBVIOUS
<1>2. \A i \in 1..n : s[i] \in S
  BY <1>1
<1>3. /\ SubSeq(s, 1, n) \in Seq(S)
      /\ Len(SubSeq(s, 1, n)) = IF 1 <= n THEN n - 1 + 1 ELSE 0
      /\ \A i \in 1..(n - 1 + 1) : SubSeq(s, 1, n)[i] = s[1 + i - 1]
  <2> HIDE <1>1
  <2> QED
    BY <1>2, SubSeqProperties
<1>4. (IF 1 <= n THEN n - 1 + 1 ELSE 0) = n /\ n - 1 + 1 = n
  OBVIOUS
<1>5. \A i \in 1..n : 1 + i - 1 = i
  OBVIOUS
<1> QED
  BY <1>1, <1>3, <1>4, <1>5, Zenon DEF Front

\* A call that returns takes its frame and its path away, and leaves the
\* parser's bookkeeping as it was for its caller.
LEMMA PopKeeps ==
  ASSUME IncludeInv, frames # <<>>, PopsOf(Top.doc), frames' = Front(frames),
         UNCHANGED <<includes, made, touched, root>>,
         status' \in {"idle", "run", "fail"}, 
         result' \in {"none", "ok", "cycle", "error", "panic"},
         status' = "idle" <=> Len(frames) = 1,
         status' = "fail" => result' \in {"cycle", "error"}
  PROVE  FramesTyped' /\ IncludeTypeOK' /\ StackIsCalls' /\ FramesSound'
<1>0. Len(frames) \in Nat \ {0}
  BY DEF FramesTyped, IncludeInv
<1>1. /\ Front(frames) \in Seq(Calls)
      /\ Len(Front(frames)) = Len(frames) - 1
      /\ \A i \in 1..(Len(frames) - 1) : Front(frames)[i] = frames[i]
  BY FrontOf DEF FramesTyped, IncludeInv
<1>2. FramesTyped'
  BY <1>1 DEF FramesTyped, IncludeInv
<1>3. FramesSound'
  BY <1>0, <1>1 DEF FramesSound, IncludeInv
<1>4. StackIsCalls' /\ stack' \in Seq(File)
  <2>0. stack \in Seq(File)
    BY DEF IncludeTypeOK, IncludeInv
  <2>1. CASE frames[1].doc = Anon
    <3>1. Len(stack) = Len(frames) - 1 /\ \A i \in 1..Len(stack) : stack[i] = frames[i + 1].doc
      BY <2>1 DEF StackIsCalls, IncludeInv
    <3>2. CASE Len(frames) = 1
      BY <1>1, <2>0, <2>1, <3>1, <3>2 DEF PopsOf, Top, StackIsCalls, IncludeInv
    <3>3. CASE Len(frames) > 1
      <4>1. Top.doc # Anon /\ stack # <<>>
        BY <1>0, <2>0, <3>1, <3>3 DEF Top, FramesSound, IncludeInv
      <4>2. /\ stack' \in Seq(File) /\ Len(stack') = Len(stack) - 1
            /\ \A i \in 1..(Len(stack) - 1) : stack'[i] = stack[i]
        BY <2>0, <4>1, FrontOf DEF PopsOf
      <4>3. frames' # <<>> /\ frames'[1].doc = Anon
        BY <1>0, <1>1, <2>1, <3>3
      <4>4. Len(stack') = Len(frames') - 1
        BY <1>0, <1>1, <3>1, <4>2
      <4>5. \A i \in 1..Len(stack') : stack'[i] = frames'[i + 1].doc
        BY <1>0, <1>1, <2>0, <3>1, <4>2
      <4> QED
        BY <4>2, <4>3, <4>4, <4>5 DEF StackIsCalls, IncludeInv
    <3>4. Len(frames) = 1 \/ Len(frames) > 1
      <4>1. \A n \in Nat \ {0} : n = 1 \/ n > 1
        OBVIOUS
      <4> QED
        BY <1>0, <4>1, Zenon
    <3> QED
      BY <3>2, <3>3, <3>4
  <2>2. CASE frames[1].doc # Anon
    <3>1. Len(stack) = Len(frames) /\ \A i \in 1..Len(stack) : stack[i] = frames[i].doc
      BY <2>2 DEF StackIsCalls, IncludeInv
    <3>2. Top.doc # Anon /\ stack # <<>>
      BY <1>0, <2>0, <2>2, <3>1 DEF Top, FramesSound, IncludeInv
    <3>3. /\ stack' \in Seq(File) /\ Len(stack') = Len(stack) - 1
          /\ \A i \in 1..(Len(stack) - 1) : stack'[i] = stack[i]
      BY <2>0, <3>2, FrontOf DEF PopsOf
    <3> QED
      BY <1>0, <1>1, <2>0, <2>2, <3>1, <3>3 DEF StackIsCalls, IncludeInv
  <2> QED
    BY <2>1, <2>2
<1>5. IncludeTypeOK'
  <2>1. made' \in BOOLEAN /\ touched' \subseteq File
    BY Zenon DEF IncludeTypeOK, IncludeInv
  <2>2. \A i \in 1..Len(frames') :
          frames'[i].doc \in Doc /\ frames'[i].todo \subseteq includes'[frames'[i].doc]
    BY <1>0, <1>1 DEF IncludeTypeOK, IncludeInv
  <2>3. status' = "idle" <=> frames' = <<>>
    BY <1>0, <1>1
  <2> QED
    BY <1>4, <2>1, <2>2, <2>3, Zenon DEF IncludeTypeOK, IncludeInv
<1> QED
  BY <1>2, <1>3, <1>4, <1>5

\* A call of the API starts with one frame, that of its document.
LEMMA StartKeeps ==
  ASSUME IncludeInv, status = "idle", NEW d \in Doc, root' = d, frames' = <<Frame(d)>>,
         stack' = (IF d = Anon THEN stack ELSE Append(stack, d)),
         includes' = includes, made' \in BOOLEAN, touched' \subseteq File,
         d \in touched' \cup {Anon}, status' = "run", result' = result
  PROVE  IncludeInv'
<1>1. /\ Frame(d) \in Calls
      /\ Frame(d).doc = d /\ Frame(d).todo = includes[d]
  BY DEF FramesTyped, Frame, Calls, IncludeInv
<1>2. /\ frames' \in Seq(Calls)
      /\ Len(frames') = 1 /\ frames'[1] = Frame(d) /\ frames' # <<>>
  BY <1>1
<1>3. frames = <<>> /\ stack = <<>>
  BY DEF IncludeTypeOK, StackIsCalls, IncludeInv
<1>4. FramesTyped'
  BY <1>2 DEF FramesTyped, IncludeInv
<1>5. StackIsCalls' /\ stack' \in Seq(File)
  <2>1. CASE d = Anon
    BY <1>1, <1>2, <1>3, <2>1 DEF StackIsCalls, IncludeInv
  <2>2. CASE d # Anon
    <3>1. stack' = <<d>> /\ d \in File
      BY <1>3, <2>2 DEF Doc
    <3>2. stack' \in Seq(File) /\ Len(stack') = 1 /\ stack'[1] = d
      <4>1. \A f \in File : <<f>> \in Seq(File) /\ Len(<<f>>) = 1 /\ <<f>>[1] = f
        OBVIOUS
      <4> QED
        BY <3>1, <4>1, Zenon
    <3> QED
      BY <1>1, <1>2, <2>2, <3>2 DEF StackIsCalls, IncludeInv
  <2> QED
    BY <2>1, <2>2
<1>6. IncludeTypeOK'
  <2>1. \A i \in 1..Len(frames') :
          frames'[i].doc \in Doc /\ frames'[i].todo \subseteq includes'[frames'[i].doc]
    BY <1>1, <1>2
  <2>2. status' \in {"idle", "run", "fail", "value"}
    OBVIOUS
  <2>3. result' \in {"none", "ok", "cycle", "error", "panic"}
    BY DEF IncludeTypeOK, IncludeInv
  <2> QED
    BY <1>2, <1>5, <2>1, <2>2, <2>3, Zenon DEF IncludeTypeOK, IncludeInv
<1>7. FramesSound'
  BY <1>1, <1>2 DEF FramesSound, IncludeInv
<1>8. Progress'
  <2>1. ReadToEnd({})'
    BY <1>1, <1>2 DEF ReadToEnd, Closed
  <2> QED
    BY <2>1 DEF Progress, IncludeInv
<1> QED
  BY <1>4, <1>5, <1>6, <1>7, <1>8 DEF OkIsWhole, IncludeInv

\* A file that no document has touched yet becomes the innermost one.
LEMMA ExpandKeeps ==
  ASSUME IncludeInv, NEW f \in File, ExpandFile(f)
  PROVE  IncludeInv'
<1> DEFINE n == Len(frames)
           g == [frames EXCEPT ![n].todo = @ \ {f}]
<1>0. n \in Nat \ {0} /\ frames \in Seq(Calls)
  BY DEF FramesTyped, IncludeTypeOK, ExpandFile, IncludeInv
<1>1. /\ Frame(f) \in Calls
      /\ Frame(f).doc = f /\ Frame(f).todo = includes[f]
  BY DEF FramesTyped, Frame, Calls, Doc, IncludeInv
<1>2. /\ g \in Seq(Calls) /\ Len(g) = n
      /\ \A i \in 1..n : g[i].doc = frames[i].doc
      /\ \A i \in 1..n : i # n => g[i].todo = frames[i].todo
      /\ g[n].todo = frames[n].todo \ {f}
  <2>1. n \in 1..n /\ DOMAIN frames = 1..n
    BY <1>0
  <2> HIDE DEF n
  <2>2. /\ frames[n] \in Calls
        /\ \A i \in 1..n : frames[i] \in Calls
    BY <1>0, <2>1, ElementOfSeq DEF n
  <2>3. g[n] = [frames[n] EXCEPT !.todo = frames[n].todo \ {f}]
    BY <2>1
  <2>4. \A i \in 1..n : i # n => g[i] = frames[i]
    BY <2>1
  <2>5. g \in [1..n -> Calls]
    <3>1. g[n] \in Calls
      BY <2>2, <2>3 DEF Calls
    <3> QED
      BY <2>1, <2>2, <2>4, <3>1
  <2>6. g \in Seq(Calls) /\ Len(g) = n
    BY <1>0, <2>5, FunctionIsSeq DEF n
  <2> QED
    BY <2>2, <2>3, <2>4, <2>6
<1> HIDE DEF g
<1>3. frames' = Append(g, Frame(f)) /\ Len(frames') = n + 1
  BY <1>2 DEF ExpandFile, g
<1>4. /\ frames' \in Seq(Calls) /\ frames' # <<>>
      /\ \A i \in 1..n : frames'[i] = g[i]
      /\ frames'[n + 1] = Frame(f)
  BY <1>0, <1>1, <1>2, <1>3
<1>5. /\ touched' = touched \cup {f} /\ f \notin touched /\ f \in frames[n].todo
      /\ stack' = Append(stack, f) /\ status = "run"
      /\ UNCHANGED <<includes, made, status, result, root>>
  BY DEF ExpandFile, Top
<1> HIDE DEF n
<1>6. FramesTyped'
  BY <1>4, <1>5 DEF FramesTyped, IncludeInv
<1>7. stack \in Seq(File) /\ f # Anon
  BY AnonAssumption DEF IncludeTypeOK, IncludeInv
<1>8. /\ stack' \in Seq(File) /\ Len(stack') = Len(stack) + 1
      /\ \A i \in 1..Len(stack) : stack'[i] = stack[i]
      /\ stack'[Len(stack) + 1] = f
  BY <1>5, <1>7
<1>9. StackIsCalls'
  <2>1. frames'[1].doc = frames[1].doc /\ frames # <<>>
    BY <1>0, <1>2, <1>4 DEF n
  <2>2. CASE frames[1].doc = Anon
    <3>1. Len(stack) = n - 1 /\ \A i \in 1..Len(stack) : stack[i] = frames[i + 1].doc
      BY <2>1, <2>2 DEF StackIsCalls, n, IncludeInv
    <3>2. Len(stack') = Len(frames') - 1
      BY <1>0, <1>3, <1>8, <3>1
    <3>3. \A i \in 1..Len(stack') : stack'[i] = frames'[i + 1].doc
      BY <1>0, <1>1, <1>2, <1>3, <1>4, <1>8, <3>1
    <3> QED
      BY <1>4, <2>1, <2>2, <3>2, <3>3 DEF StackIsCalls, IncludeInv
  <2>3. CASE frames[1].doc # Anon
    <3>1. Len(stack) = n /\ \A i \in 1..Len(stack) : stack[i] = frames[i].doc
      BY <2>1, <2>3 DEF StackIsCalls, n, IncludeInv
    <3>2. Len(stack') = Len(frames')
      BY <1>0, <1>3, <1>8, <3>1
    <3>3. \A i \in 1..Len(stack') : stack'[i] = frames'[i].doc
      BY <1>0, <1>1, <1>2, <1>3, <1>4, <1>8, <3>1
    <3> QED
      BY <1>0, <1>3, <1>8, <2>1, <2>3, <3>2, <3>3 DEF StackIsCalls, IncludeInv
  <2> QED
    BY <2>2, <2>3
<1>10. IncludeTypeOK'
  <2>1. \A i \in 1..Len(frames') :
          frames'[i].doc \in Doc /\ frames'[i].todo \subseteq includes'[frames'[i].doc]
    <3>1. \A i \in 1..n : frames[i].doc \in Doc /\ frames[i].todo \subseteq includes[frames[i].doc]
      BY DEF IncludeTypeOK, n, IncludeInv
    <3>2. \A i \in 1..n : g[i].todo \subseteq frames[i].todo
      BY <1>0, <1>2
    <3>3. \A i \in 1..n :
            frames'[i].doc \in Doc /\ frames'[i].todo \subseteq includes[frames'[i].doc]
      BY <1>2, <1>4, <3>1, <3>2
    <3>4. frames'[n + 1].doc \in Doc /\ frames'[n + 1].todo \subseteq includes[frames'[n + 1].doc]
      BY <1>1, <1>4 DEF Doc
    <3>5. \A i \in 1..Len(frames') : i \in 1..n \/ i = n + 1
      BY <1>0, <1>3
    <3> QED
      BY <1>5, <3>3, <3>4, <3>5
  <2>2. touched' \subseteq File /\ made' \in BOOLEAN
    BY <1>5, Zenon DEF IncludeTypeOK, IncludeInv
  <2>3. /\ status' \in {"idle", "run", "fail", "value"}
        /\ result' \in {"none", "ok", "cycle", "error", "panic"}
    BY <1>5, Zenon DEF IncludeTypeOK, IncludeInv
  <2>4. status' = "idle" <=> frames' = <<>>
    BY <1>4, <1>5
  <2> QED
    BY <1>8, <2>1, <2>2, <2>3, <2>4, Zenon DEF IncludeTypeOK, IncludeInv
<1>11. FramesSound'
  <2>1. /\ \A i \in 1..n : frames'[i].doc = frames[i].doc
        /\ \A i \in 1..n : frames[i].doc # f
        /\ frames'[n + 1].doc = f
    BY <1>1, <1>2, <1>4, <1>5, <1>7 DEF FramesSound, n, IncludeInv
  <2>2. \A i \in 1..Len(frames') : i \in 1..n \/ i = n + 1
    BY <1>0, <1>3
  <2>3. \A i \in 2..Len(frames') : frames'[i].doc # Anon
    BY <1>0, <1>3, <1>7, <2>1 DEF FramesSound, n, IncludeInv
  <2>4. \A i, j \in 1..Len(frames') : frames'[i].doc = frames'[j].doc => i = j
    <3> SUFFICES ASSUME NEW i \in 1..Len(frames'), NEW j \in 1..Len(frames'),
                        frames'[i].doc = frames'[j].doc
                 PROVE  i = j
      OBVIOUS
    <3>1. \A k, l \in 1..n : frames[k].doc = frames[l].doc => k = l
      BY DEF FramesSound, n, IncludeInv
    <3> QED
      BY <2>1, <2>2, <3>1
  <2>5. \A i \in 1..Len(frames') : frames'[i].doc \in touched' \cup {Anon}
    BY <1>5, <2>1, <2>2 DEF FramesSound, n, IncludeInv
  <2>6. frames'[1].doc = root'
    BY <1>0, <1>5, <2>1 DEF FramesSound, n, IncludeInv
  <2> QED
    BY <1>5, <2>3, <2>4, <2>5, <2>6 DEF FramesSound, IncludeInv
<1>12. Progress'
  <2>1. PICK D \in SUBSET touched : ReadToEnd(D)
    BY <1>5 DEF Progress, IncludeInv
  <2>2. Closed(D)' /\ \A h \in D : h \notin Reached(h)'
    BY <1>5, <2>1 DEF ReadToEnd, Closed, Reached
  <2>3. \A i \in 1..Len(frames') : frames'[i].doc \notin D
    <3>1. \A i \in 1..n : frames[i].doc \notin D
      BY <2>1 DEF ReadToEnd, n
    <3>2. \A i \in 1..Len(frames') : i \in 1..n \/ i = n + 1
      BY <1>0, <1>3
    <3> QED
      BY <1>1, <1>2, <1>4, <1>5, <3>1, <3>2
  <2>4. ASSUME NEW i \in 1..Len(frames'), NEW h \in includes'[frames'[i].doc] \ frames'[i].todo
        PROVE  h \in D \/ (i < Len(frames') /\ h = frames'[i + 1].doc)
    <3>1. CASE i = n + 1
      BY <1>1, <1>4, <1>5, <3>1
    <3>2. CASE i = n
      <4>1. h = f \/ h \in includes[frames[n].doc] \ frames[n].todo
        BY <1>0, <1>2, <1>4, <1>5, <2>4, <3>2
      <4>2. h = f \/ h \in D
        BY <1>0, <2>1, <4>1 DEF ReadToEnd, n
      <4> QED
        BY <1>0, <1>1, <1>3, <1>4, <3>2, <4>2
    <3>3. CASE i < n
      <4>1. i \in 1..n /\ i + 1 \in 1..n
        BY <1>0, <3>3
      <4>2. h \in includes[frames[i].doc] \ frames[i].todo
        BY <1>0, <1>2, <1>4, <1>5, <2>4, <3>3, <4>1
      <4>3. h \in D \/ h = frames[i + 1].doc
        BY <1>0, <2>1, <4>1, <4>2 DEF ReadToEnd, n
      <4> QED
        BY <1>0, <1>2, <1>3, <1>4, <3>3, <4>1, <4>3
    <3> QED
      BY <1>0, <1>3, <3>1, <3>2, <3>3
  <2>5. D \in SUBSET touched'
    BY <1>5
  <2>6. ReadToEnd(D)'
    BY <2>2, <2>3, <2>4 DEF ReadToEnd
  <2> QED
    BY <2>5, <2>6 DEF Progress, IncludeInv
<1>13. OkIsWhole'
  BY <1>5 DEF OkIsWhole, IncludeInv
<1> QED
  BY <1>6, <1>9, <1>10, <1>11, <1>12, <1>13 DEF IncludeInv

\* A document that is read to the end joins the files that are.
LEMMA ReturnKeeps ==
  ASSUME IncludeInv, Return
  PROVE  IncludeInv'
<1> DEFINE n == Len(frames)
<1>0. n \in Nat \ {0} /\ frames # <<>> /\ frames \in Seq(Calls)
  BY DEF FramesTyped, IncludeTypeOK, Return, IncludeInv
<1>1. /\ status = "run" /\ frames[n].todo = {} /\ frames' = Front(frames)
      /\ PopsOf(Top.doc) /\ UNCHANGED <<includes, made, touched, root>>
  BY DEF Return, Top
<1>2. /\ Len(frames') = n - 1
      /\ \A i \in 1..(n - 1) : frames'[i] = frames[i]
  BY <1>0, <1>1, FrontOf
<1>3. PICK D \in SUBSET touched : ReadToEnd(D)
  BY <1>1 DEF Progress, IncludeInv
<1>4. PICK d \in Doc : d = frames[n].doc /\ includes[d] \subseteq D /\ d \notin D
  <2>1. n \in 1..n /\ frames[n] \in Calls
    BY <1>0, ElementOfSeq
  <2>2. frames[n].doc \in Doc /\ frames[n].doc \notin D
    BY <1>3, <2>1 DEF ReadToEnd, Calls
  <2>3. \A g \in includes[frames[n].doc] \ frames[n].todo : g \in D
    BY <1>0, <1>3, <2>1 DEF ReadToEnd
  <2> QED
    BY <1>1, <2>2, <2>3
<1>5. Closed(D) /\ (\A h \in D : h \notin Reached(h)) /\ D \subseteq File
  BY <1>3 DEF ReadToEnd, IncludeTypeOK, IncludeInv
<1>6. Reached(d) \subseteq D
  BY <1>4, <1>5, Zenon DEF Reached
<1>7. CASE n = 1
  <2>1. status' = "idle" /\ result' = "ok" /\ root' = d /\ includes' = includes
    BY <1>0, <1>1, <1>4, <1>7 DEF Return, FramesSound, IncludeInv
  <2>2. FramesTyped' /\ IncludeTypeOK' /\ StackIsCalls' /\ FramesSound'
    BY <1>0, <1>1, <1>7, <2>1, PopKeeps
  <2>3. OkIsWhole'
    <3>1. \A h : Reached(h)' = Reached(h)
      BY <2>1 DEF Reached, Closed
    <3> QED
      BY <1>1, <1>3, <1>5, <1>6, <2>1, <3>1 DEF OkIsWhole, IncludeInv
  <2> QED
    BY <2>1, <2>2, <2>3 DEF Progress, IncludeInv
<1>8. CASE n > 1
  <2>1. UNCHANGED <<status, result>>
    <3>0. \A k \in Nat \ {0} : k > 1 => k # 1
      OBVIOUS
    <3>1. Len(frames) # 1
      BY <1>0, <1>8, <3>0, Zenon
    <3> QED
      BY <3>1, Zenon DEF Return
  <2>2. FramesTyped' /\ IncludeTypeOK' /\ StackIsCalls' /\ FramesSound'
    <3>1. /\ status' \in {"idle", "run", "fail"} /\ status' = "run"
          /\ result' \in {"none", "ok", "cycle", "error", "panic"}
          /\ Len(frames) # 1
      BY <1>0, <1>1, <1>8, <2>1 DEF IncludeTypeOK, IncludeInv
    <3> QED
      BY <1>0, <1>1, <3>1, PopKeeps
  <2>3. d \in touched
    BY <1>0, <1>4, <1>8 DEF FramesSound, IncludeInv
  <2>4. ReadToEnd(D \cup {d})'
    <3>1. \A h : Reached(h)' = Reached(h)
      BY <1>1 DEF Reached, Closed
    <3>2. Closed(D \cup {d})'
      BY <1>1, <1>4, <1>5 DEF Closed
    <3>3. \A h \in D \cup {d} : h \notin Reached(h)'
      BY <1>4, <1>5, <1>6, <3>1
    <3>4. \A i \in 1..Len(frames') : frames'[i].doc \notin D \cup {d}
      BY <1>0, <1>2, <1>3, <1>4, <1>8 DEF ReadToEnd, FramesSound, IncludeInv
    <3>5. ASSUME NEW i \in 1..Len(frames'), NEW h \in includes'[frames'[i].doc] \ frames'[i].todo
          PROVE  h \in D \cup {d} \/ (i < Len(frames') /\ h = frames'[i + 1].doc)
      <4>1. i \in 1..n /\ i < n /\ h \in includes[frames[i].doc] \ frames[i].todo
        BY <1>0, <1>1, <1>2, <1>8, <3>5
      <4>2. h \in D \/ h = frames[i + 1].doc
        BY <1>3, <4>1 DEF ReadToEnd
      <4> QED
        BY <1>0, <1>2, <1>4, <4>1, <4>2
    <3> QED
      BY <3>2, <3>3, <3>4, <3>5 DEF ReadToEnd
  <2>5. Progress'
    BY <1>1, <2>3, <2>4 DEF Progress, IncludeInv
  <2>6. OkIsWhole'
    BY <1>1, <2>1 DEF OkIsWhole, IncludeInv
  <2> QED
    BY <2>2, <2>5, <2>6 DEF IncludeInv
<1> QED
  BY <1>0, <1>7, <1>8

\* The inductive invariant of the include recursion.
LEMMA IncludeInvHolds == IncludeSpec => []IncludeInv
<1>1. IncludeInit => IncludeInv
  <2> SUFFICES ASSUME IncludeInit PROVE IncludeInv
    OBVIOUS
  <2>1. made \in BOOLEAN
    BY Zenon DEF IncludeInit
  <2>2. FramesTyped
    BY DEF IncludeInit, FramesTyped, Doc
  <2>3. IncludeTypeOK
    BY <2>1 DEF IncludeInit, IncludeTypeOK
  <2>4. StackIsCalls /\ FramesSound /\ Progress /\ OkIsWhole
    BY DEF IncludeInit, StackIsCalls, FramesSound, Progress, OkIsWhole
  <2> QED
    BY <2>2, <2>3, <2>4 DEF IncludeInv
<1>2. IncludeInv /\ [IncludeNext]_includeVars => IncludeInv'
  <2> SUFFICES ASSUME IncludeInv, [IncludeNext]_includeVars PROVE IncludeInv'
    OBVIOUS
  <2>1. CASE UNCHANGED includeVars
    <3>1. \A D : ReadToEnd(D)' = ReadToEnd(D)
      BY <2>1 DEF includeVars, ReadToEnd, Closed, Reached
    <3> QED
      BY <2>1, <3>1 DEF includeVars, IncludeInv, FramesTyped, IncludeTypeOK, StackIsCalls,
                        FramesSound, Progress, OkIsWhole, Reached, Closed
  <2>2. ASSUME NEW f \in File, ReadFile(f) PROVE IncludeInv'
    BY <2>2, StartKeeps, AnonAssumption DEF ReadFile, Begin, Doc
  <2>3. ASSUME NEW f \in File, ReadFileFails(f) PROVE IncludeInv'
    BY <2>3 DEF ReadFileFails, Begin, IncludeInv, FramesTyped, IncludeTypeOK, StackIsCalls,
                FramesSound, Progress, OkIsWhole, Doc
  <2>4. CASE ReadFileHook
    BY <2>4, StartKeeps DEF ReadFileHook, Begin, Doc
  <2>5. CASE CheckTypes
    BY <2>5, StartKeeps DEF CheckTypes, Begin, Doc, IncludeInv, IncludeTypeOK
  <2>6. ASSUME NEW f \in File, ExpandFile(f) PROVE IncludeInv'
    BY <2>6, ExpandKeeps
  <2>7. CASE WrapPanics \/ \E f \in File : ExpandFileNilMap(f)
    <3>1. /\ frames' = <<>> /\ stack' = <<>> /\ status' = "idle" /\ result' = "panic"
          /\ UNCHANGED <<includes, made, touched, root>>
      BY <2>7 DEF WrapPanics, ExpandFileNilMap, Panics
    <3> QED
      BY <3>1 DEF IncludeInv, FramesTyped, IncludeTypeOK, StackIsCalls, FramesSound, Progress, OkIsWhole
  <2>8. CASE ValueError \/ \E f \in File : ExpandTouched(f) \/ OpenFails(f)
    <3>1. /\ status = "run" /\ status' \in {"fail", "value"} /\ result' \in {"cycle", "error"}
          /\ touched \subseteq touched' /\ touched' \subseteq File
          /\ UNCHANGED <<includes, made, stack, frames, root>>
      BY <2>8 DEF ValueError, ExpandTouched, OpenFails, IncludeInv, IncludeTypeOK
    <3> QED
      BY <3>1 DEF IncludeInv, FramesTyped, IncludeTypeOK, StackIsCalls, FramesSound, Progress, OkIsWhole
  <2>9. CASE Return
    BY <2>9, ReturnKeeps
  <2>10. CASE Wrap \/ ReturnError
    <3>1. /\ status \in {"fail", "value"} /\ PopsOf(Top.doc) /\ frames' = Front(frames)
          /\ status' = (IF Len(frames) = 1 THEN "idle" ELSE "fail")
          /\ UNCHANGED <<includes, made, touched, result, root>>
      BY <2>10 DEF Wrap, ReturnError
    <3>2. frames # <<>> /\ result' \in {"cycle", "error"}
      BY <3>1 DEF IncludeInv, IncludeTypeOK, FramesSound
    <3>3. FramesTyped' /\ IncludeTypeOK' /\ StackIsCalls' /\ FramesSound'
      BY <3>1, <3>2, PopKeeps
    <3> QED
      BY <3>1, <3>2, <3>3 DEF IncludeInv, Progress, OkIsWhole
  <2> QED
    BY <2>1, <2>2, <2>3, <2>4, <2>5, <2>6, <2>7, <2>8, <2>9, <2>10 DEF IncludeNext, Expand
<1> QED
  BY <1>1, <1>2, PTL DEF IncludeSpec

\* For every set of files and every way they include one another, whatever
\* fails and in whatever order: includeStack is the chain of files being read
\* and empty for the next call, no file is read inside itself, and a call that
\* succeeds has read all that its document includes, none of which includes
\* itself.
THEOREM IncludesExactHolds == IncludeSpec => []IncludesExact
<1>1. IncludeInv => IncludesExact
  <2> SUFFICES ASSUME IncludeInv PROVE IncludesExact
    OBVIOUS
  <2>1. NoFileInItself
    <3> SUFFICES ASSUME NEW i \in 1..Len(stack), NEW j \in 1..Len(stack), stack[i] = stack[j]
                 PROVE  i = j
      BY DEF NoFileInItself
    <3>1. stack \in Seq(File) /\ Len(frames) \in Nat
      BY DEF IncludeInv, IncludeTypeOK, FramesTyped
    <3>2. PICK p \in {0, 1} : Len(stack) = Len(frames) - p
                            /\ \A k \in 1..Len(stack) : stack[k] = frames[k + p].doc
      BY DEF IncludeInv, StackIsCalls
    <3>3. i + p \in 1..Len(frames) /\ j + p \in 1..Len(frames)
      BY <3>1, <3>2
    <3>4. frames[i + p].doc = frames[j + p].doc
      BY <3>2
    <3>5. i + p = j + p
      BY <3>3, <3>4 DEF IncludeInv, FramesSound
    <3> QED
      BY <3>1, <3>2, <3>5
  <2> QED
    BY <2>1 DEF IncludeInv, IncludesExact
<1> QED
  BY <1>1, IncludeInvHolds, PTL

-----------------------------------------------------------------------------
(* jsonconfig.Obj: the accessors and Validate                              *)

\* The accessor calls a program can make, and what "_errors" can hold.
Asks == (DOMAIN Accepts) \X Key \X BOOLEAN
Reports == Asks \cup ({"unknown"} \X Key)

\* The bookkeeping the proofs need in addition: "_knownkeys" are the keys
\* asked for, and a Validate that has returned nil has found nothing.
Bookkeeping ==
  /\ asked \subseteq Asks
  /\ errs \in Seq(Reports)
  /\ unread \subseteq Key
  /\ known = {c[2] : c \in asked}
  /\ valid = "nil" => errs = <<>> /\ UnknownKeys = {}

ObjInv == ObjTypeOK /\ Bookkeeping /\ ReportsExactly

\* SetToSeq lists a finite set.
LEMMA SetToSeqLists ==
  ASSUME NEW S, IsFiniteSet(S)
  PROVE  SetToSeq(S) \in Seq(S) /\ ToSet(SetToSeq(S)) = S
<1>1. PICK n \in Nat : n = Cardinality(S) /\ ExistsBijection(1..n, S)
  BY FS_CardinalityType
<1>2. \E f \in [1..n -> S] : IsInjective(f)
  BY <1>1 DEF ExistsBijection, Bijection, Injection
<1>3. PICK f \in [1..n -> S] : f = SetToSeq(S) /\ IsInjective(f)
  BY <1>1, <1>2 DEF SetToSeq
<1>4. IsFiniteSet(1..n) /\ Cardinality(1..n) = n
  BY FS_Interval
<1>5. f \in Surjection(1..n, S)
  BY <1>1, <1>3, <1>4, FS_Injection DEF Injection
<1>6. f \in Seq(S) /\ DOMAIN f = 1..n
  BY FunctionIsSeq
<1> QED
  BY <1>3, <1>5, <1>6 DEF Surjection, ToSet

\* What is in a sequence that another is appended to.
LEMMA ToSetConcat ==
  ASSUME NEW S, NEW s \in Seq(S), NEW t \in Seq(S)
  PROVE  ToSet(s \o t) = ToSet(s) \cup ToSet(t)
<1>1. /\ s \o t \in Seq(S) /\ Len(s \o t) = Len(s) + Len(t)
      /\ \A i \in 1..(Len(s) + Len(t)) : (s \o t)[i] = IF i <= Len(s) THEN s[i] ELSE t[i - Len(s)]
  BY ConcatProperties
<1>2. Len(s) \in Nat /\ Len(t) \in Nat
  OBVIOUS
<1>3. DOMAIN s = 1..Len(s) /\ DOMAIN t = 1..Len(t) /\ DOMAIN (s \o t) = 1..(Len(s) + Len(t))
  BY <1>1
<1>4. ASSUME NEW x \in ToSet(s \o t) PROVE x \in ToSet(s) \cup ToSet(t)
  <2>1. PICK i \in 1..(Len(s) + Len(t)) : x = (s \o t)[i]
    BY <1>3 DEF ToSet
  <2>2. CASE i <= Len(s)
    <3>1. i \in 1..Len(s) /\ x = s[i]
      BY <1>1, <1>2, <2>1, <2>2
    <3> QED
      BY <1>3, <3>1 DEF ToSet
  <2>3. CASE ~(i <= Len(s))
    <3>1. i - Len(s) \in 1..Len(t) /\ x = t[i - Len(s)]
      BY <1>1, <1>2, <2>1, <2>3
    <3> QED
      BY <1>3, <3>1 DEF ToSet
  <2> QED
    BY <2>2, <2>3
<1>5. ASSUME NEW x \in ToSet(s) PROVE x \in ToSet(s \o t)
  <2>1. PICK i \in 1..Len(s) : x = s[i]
    BY <1>3 DEF ToSet
  <2>2. i \in 1..(Len(s) + Len(t)) /\ x = (s \o t)[i]
    BY <1>1, <1>2, <2>1
  <2> QED
    BY <1>3, <2>2 DEF ToSet
<1>6. ASSUME NEW x \in ToSet(t) PROVE x \in ToSet(s \o t)
  <2>1. PICK i \in 1..Len(t) : x = t[i]
    BY <1>3 DEF ToSet
  <2>2. i + Len(s) \in 1..(Len(s) + Len(t)) /\ ~(i + Len(s) <= Len(s)) /\ (i + Len(s)) - Len(s) = i
    BY <1>2
  <2>3. x = (s \o t)[i + Len(s)]
    BY <1>1, <2>1, <2>2
  <2> QED
    BY <1>3, <2>2, <2>3 DEF ToSet
<1> QED
  BY <1>4, <1>5, <1>6

\* What a list of recorded errors has at its places.
LEMMA ReportsTyped ==
  ASSUME NEW s \in Seq(Reports)
  PROVE  \A i \in 1..Len(s) :
           \/ s[i] \in (DOMAIN Accepts) \X Key \X BOOLEAN
           \/ s[i] \in {"unknown"} \X Key
BY ElementOfSeq DEF Reports, Asks

\* A call has failed when there was nothing it could use.
LEMMA CallFails ==
  ASSUME NEW a \in DOMAIN Accepts, NEW k \in Key, NEW required \in BOOLEAN
  PROVE  LET c == <<a, k, required>>
         IN (IF obj[c[2]] = Absent THEN c[3] ELSE obj[c[2]] \notin Accepts[c[1]])
              <=> ~Usable(a, k, required)
<1>1. "absent" \notin Accepts[a]
  BY DEF Accepts
<1>2. <<a, k, required>>[1] = a /\ <<a, k, required>>[2] = k /\ <<a, k, required>>[3] = required
  OBVIOUS
<1>3. CASE obj[k] = Absent
  BY <1>1, <1>2, <1>3, Zenon DEF Usable, Absent
<1>4. CASE obj[k] # Absent
  BY <1>2, <1>4, Zenon DEF Usable
<1> QED
  BY <1>3, <1>4

\* An accessor records its key, and the call if it has failed.
LEMMA GetKeeps ==
  ASSUME ObjInv, NEW a \in DOMAIN Accepts, NEW k \in Key, NEW required \in BOOLEAN,
         Get(a, k, required)
  PROVE  ObjInv'
<1>1. PICK c \in Asks : c = <<a, k, required>>
  BY Zenon DEF Asks
<1>2. /\ known' = known \cup {k} /\ asked' = asked \cup {c}
      /\ valid' = "none" /\ UNCHANGED <<obj, panicked, unread>>
  BY <1>1, Zenon DEF Get, noteKnownKey
<1>3. c[2] = k
  BY <1>1
<1>4. Failed' = IF Usable(a, k, required) THEN Failed ELSE Failed \cup {c}
  <2>1. (IF obj[c[2]] = Absent THEN c[3] ELSE obj[c[2]] \notin Accepts[c[1]]) <=> ~Usable(a, k, required)
    BY <1>1, CallFails, ZenonT(60)
  <2>2. Failed' = {b \in asked \cup {c} :
                     IF obj[b[2]] = Absent THEN b[3] ELSE obj[b[2]] \notin Accepts[b[1]]}
    BY <1>2 DEF Failed
  <2> QED
    BY <2>1, <2>2, Zenon DEF Failed
<1>5. /\ errs' \in Seq(Reports)
      /\ ToSet(errs') = ToSet(errs) \cup (IF Usable(a, k, required) THEN {} ELSE {c})
  <2>1. errs \in Seq(Reports)
    BY DEF ObjInv, Bookkeeping
  <2>2. CASE Usable(a, k, required)
    BY <2>1, <2>2 DEF Get
  <2>3. CASE ~Usable(a, k, required)
    <3>1. errs' = errs \o <<c>>
      BY <1>1, <2>3 DEF Get, appendError
    <3>2. c \in Reports
      BY DEF Reports
    <3>3. <<c>> \in Seq(Reports) /\ ToSet(<<c>>) = {c}
      BY <3>2 DEF ToSet
    <3>4. errs \o <<c>> \in Seq(Reports) /\ ToSet(errs \o <<c>>) = ToSet(errs) \cup ToSet(<<c>>)
      <4>1. errs \o <<c>> \in Seq(Reports)
        BY <2>1, <3>3
      <4>2. ToSet(errs \o <<c>>) = ToSet(errs) \cup ToSet(<<c>>)
        BY <2>1, <3>3, ToSetConcat, ZenonT(60)
      <4> QED
        BY <4>1, <4>2
    <3> QED
      BY <2>3, <3>1, <3>3, <3>4, Zenon
  <2> QED
    BY <2>2, <2>3
<1>6. ReportsExactly'
  BY <1>2, <1>4, <1>5 DEF ReportsExactly, ObjInv
<1>7. Bookkeeping'
  <2>1. known' = {b[2] : b \in asked'}
    BY <1>2, <1>3, Zenon DEF ObjInv, Bookkeeping
  <2> QED
    BY <1>2, <1>5, <2>1 DEF ObjInv, Bookkeeping
<1>8. ObjTypeOK'
  <2>1. panicked' \in BOOLEAN
    BY <1>2, Zenon DEF ObjInv, ObjTypeOK
  <2>2. known' \subseteq Key /\ valid' \in {"none", "nil", "err"}
    BY <1>2 DEF ObjInv, ObjTypeOK
  <2> QED
    BY <1>5, <2>1, <2>2, ReportsTyped, Zenon DEF ObjTypeOK
<1> QED
  BY <1>6, <1>7, <1>8 DEF ObjInv

\* Validate reports the keys that nobody asked for.
LEMMA ValidateKeeps ==
  ASSUME ObjInv, Validate
  PROVE  ObjInv'
<1> DEFINE U == {<<"unknown", k>> : k \in UnknownKeys}
<1>1. /\ errs' = errs \o SetToSeq(U) /\ valid' = (IF errs' = <<>> THEN "nil" ELSE "err")
      /\ unread' = unread \cup {k \in Key : obj[k] # Absent /\ \A c \in asked : c[2] # k}
      /\ UNCHANGED <<obj, known, panicked, asked>>
  BY DEF Validate, appendError
<1>2. {k \in Key : obj[k] # Absent /\ \A c \in asked : c[2] # k} = UnknownKeys
  BY DEF UnknownKeys, ObjInv, Bookkeeping
<1>3. IsFiniteSet(U)
  <2>1. IsFiniteSet(UnknownKeys)
    BY KeyAssumption, FS_Subset DEF UnknownKeys
  <2>2. PICK f \in [UnknownKeys -> U] : \A k \in UnknownKeys : f[k] = <<"unknown", k>>
    <3>1. [k \in UnknownKeys |-> <<"unknown", k>>] \in [UnknownKeys -> U]
      OBVIOUS
    <3> QED
      BY <3>1
  <2>3. f \in Surjection(UnknownKeys, U)
    BY <2>2 DEF Surjection
  <2> QED
    BY <2>1, <2>3, FS_Surjection
<1>4. U \subseteq Reports
  BY DEF UnknownKeys, Reports
<1> HIDE DEF U
<1>5. SetToSeq(U) \in Seq(Reports) /\ ToSet(SetToSeq(U)) = U /\ errs \in Seq(Reports)
  BY <1>3, <1>4, SetToSeqLists, SeqMonotonic DEF ObjInv, Bookkeeping
<1>6. errs' \in Seq(Reports) /\ ToSet(errs') = ToSet(errs) \cup U
  BY <1>1, <1>5, ConcatProperties, ToSetConcat
<1>7. ReportsExactly'
  <2>1. Failed' = Failed
    BY <1>1 DEF Failed
  <2>2. {<<"unknown", k>> : k \in unread'} = {<<"unknown", k>> : k \in unread} \cup U
    BY <1>1, <1>2, Zenon DEF U
  <2> QED
    BY <1>6, <2>1, <2>2, Zenon DEF ReportsExactly, ObjInv
<1>8. Bookkeeping'
  <2>1. valid' = "nil" => errs' = <<>> /\ UnknownKeys' = {}
    <3> SUFFICES ASSUME valid' = "nil" PROVE errs' = <<>> /\ UnknownKeys' = {}
      OBVIOUS
    <3>1. errs' = <<>>
      BY <1>1
    <3>2. ToSet(errs') = {}
      BY <3>1 DEF ToSet
    <3>3. UnknownKeys = {}
      BY <1>6, <3>2 DEF U
    <3> QED
      BY <1>1, <3>1, <3>3 DEF UnknownKeys
  <2>2. unread' \subseteq Key
    BY <1>1, <1>2 DEF UnknownKeys, ObjInv, Bookkeeping
  <2> QED
    BY <1>1, <1>6, <2>1, <2>2 DEF ObjInv, Bookkeeping
<1>9. ObjTypeOK'
  <2>1. panicked' \in BOOLEAN /\ known' \subseteq Key
    BY <1>1, Zenon DEF ObjInv, ObjTypeOK
  <2>2. valid' \in {"none", "nil", "err"}
    BY <1>1
  <2> QED
    BY <1>6, <2>1, <2>2, ReportsTyped, Zenon DEF ObjTypeOK
<1> QED
  BY <1>7, <1>8, <1>9 DEF ObjInv

\* The inductive invariant of the accessors and Validate.
LEMMA ObjInvHolds == ObjSpec => []ObjInv
<1>1. ObjInit => ObjInv
  <2> SUFFICES ASSUME ObjInit PROVE ObjInv
    OBVIOUS
  <2>1. panicked \in BOOLEAN /\ valid \in {"none", "nil", "err"} /\ known \subseteq Key
    BY Zenon DEF ObjInit
  <2>2. errs \in Seq(Reports) /\ ToSet(errs) = {}
    BY DEF ObjInit, ToSet
  <2>3. ReportsExactly
    BY <2>2 DEF ObjInit, ReportsExactly, Failed
  <2>4. Bookkeeping
    BY <2>2 DEF ObjInit, Bookkeeping
  <2> QED
    BY <2>1, <2>2, <2>3, <2>4, ReportsTyped, Zenon DEF ObjInv, ObjTypeOK
<1>2. ObjInv /\ [ObjNext]_objVars => ObjInv'
  <2> SUFFICES ASSUME ObjInv, [ObjNext]_objVars PROVE ObjInv'
    OBVIOUS
  <2>1. CASE UNCHANGED objVars \/ KnownKeysTaken \/ ErrorsTaken
    <3>1. panicked' \in BOOLEAN /\ UNCHANGED <<obj, known, errs, asked, unread, valid>>
      BY <2>1, Zenon DEF objVars, KnownKeysTaken, ErrorsTaken, ObjInv, ObjTypeOK
    <3>2. Failed' = Failed /\ UnknownKeys' = UnknownKeys
      BY <3>1 DEF Failed, UnknownKeys
    <3>3. ObjTypeOK'
      BY <3>1, Zenon DEF ObjInv, ObjTypeOK
    <3>4. Bookkeeping' /\ ReportsExactly'
      BY <3>1, <3>2 DEF ObjInv, Bookkeeping, ReportsExactly
    <3> QED
      BY <3>3, <3>4 DEF ObjInv
  <2>2. ASSUME NEW a \in DOMAIN Accepts, NEW k \in Key, NEW required \in BOOLEAN,
               Get(a, k, required)
        PROVE  ObjInv'
    BY <2>2, GetKeeps
  <2>3. CASE Validate
    BY <2>3, ValidateKeeps
  <2> QED
    BY <2>1, <2>2, <2>3, Zenon DEF ObjNext
<1> QED
  BY <1>1, <1>2, PTL DEF ObjSpec

\* For every object and every sequence of calls, Validate reports every failed
\* accessor call and every key it found unread and invents nothing, and one
\* that returns nil vouches for the whole object.
THEOREM ValidateExactHolds == ObjSpec => []ValidateExact
<1>1. ObjInv => ValidateExact
  <2> SUFFICES ASSUME ObjInv PROVE ValidateExact
    OBVIOUS
  <2>1. NilMeansClean
    <3> SUFFICES ASSUME valid = "nil"
                 PROVE  Failed = {} /\ \A k \in Key : obj[k] = Absent \/ \E c \in asked : c[2] = k
      BY DEF NilMeansClean
    <3>1. errs = <<>> /\ UnknownKeys = {}
      BY DEF ObjInv, Bookkeeping
    <3>2. ToSet(errs) = {}
      BY <3>1 DEF ToSet
    <3>3. Failed = {}
      BY <3>2 DEF ObjInv, ReportsExactly
    <3>4. \A k \in Key : obj[k] = Absent \/ \E c \in asked : c[2] = k
      BY <3>1 DEF UnknownKeys, ObjInv, Bookkeeping
    <3> QED
      BY <3>3, <3>4
  <2> QED
    BY <2>1 DEF ObjInv, ValidateExact
<1> QED
  BY <1>1, ObjInvHolds, PTL
=============================================================================
