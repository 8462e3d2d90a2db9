------------------------------ MODULE Readers -------------------------------
(***************************************************************************)
(* readerutil: a fakeSeeker or a bufReaderAt over a stats reader, over an  *)
(* io.Reader that returns as much as it likes of what it is asked for, and *)
(* fails when it likes; Size of the seeker; and a multiRA over parts that  *)
(* end in the ways io.ReaderAt allows.                                     *)
(***************************************************************************)
EXTENDS Integers, SequencesExt

CONSTANTS
  Content,   \* what the underlying reader may deliver in the end: sequences
  MaxOff     \* the largest offset and length that a client asks for

VARIABLES
  kind,      \* the reader at the top: "seeker", "buffer" or "multi"
  parts,     \* multiRA: the bytes of each part, and when it reports io.EOF
  content,   \* what the underlying reader delivers
  size,      \* the size that NewFakeSeeker was told
  rpos,      \* how much of it was delivered
  count,     \* the expvar.Int of the stats reader
  fakePos, realPos,   \* fakeSeeker
  buf,       \* bufReaderAt
  res        \* the last call and what it returned

readerVars == <<kind, parts, content, size, rpos, count, fakePos, realPos, buf, res>>

nil == "nil"
EOF == "EOF"
ErrUnexpectedEOF == "unexpected EOF"
Broken == "connection lost"

\* s[from:to], cut off at the end of s.
Slice(s, from, to) == SubSeq(s, from + 1, to)

Result(call, off, want, p, err) ==
  [call |-> call, off |-> off, want |-> want, p |-> p, err |-> err]

\* Parts for a multiRA: a ZeroSizeReaderAt has no end; a bytes.Reader reports
\* io.EOF to who reads from its end, and others with their last byte already.
Part == [data : {<<>>, <<0>>}, ends : {"never"}]
        \cup [data : {<<>>, <<1>>, <<2, 3>>}, ends : {"after"}]
        \cup [data : {<<2, 3>>}, ends : {"with"}]

Init ==
  /\ kind \in {"seeker", "buffer", "multi"}
  /\ parts \in IF kind = "multi" THEN SeqOf(Part, 3) ELSE {<<>>}
  /\ IF kind = "multi" THEN content = FlattenSeq([i \in DOMAIN parts |-> parts[i].data])
     ELSE content \in Content
  /\ size \in IF kind = "seeker" THEN 0..(Len(content) + 1) ELSE {0}
  /\ rpos = 0 /\ count = 0 /\ fakePos = 0 /\ realPos = 0 /\ buf = <<>>
  /\ res = Result("New", 0, 0, <<>>, nil)

-----------------------------------------------------------------------------
(* Slips the properties below must catch; no specification uses them.      *)

\* A Read advances the fake position only.
seekerReadUncounted(n) == fakePos' = fakePos + n /\ UNCHANGED realPos

-----------------------------------------------------------------------------
\* What the underlying reader may do when asked for at most k > 0 bytes.
BaseRead(k) ==
  {[n |-> n, err |-> nil] : n \in 1..Min({k, Len(content) - rpos})}
  \cup {[n |-> 0, err |-> IF rpos = Len(content) THEN EOF ELSE Broken]}

\* io.ReadFull of k > 0 bytes: all, or what came before the end or an error.
ReadFull(k) ==
  LET avail == Len(content) - rpos IN
  IF k <= avail THEN {[n |-> k, err |-> nil]} \cup {[n |-> n, err |-> Broken] : n \in 0..(k - 1)}
  ELSE {[n |-> n, err |-> Broken] : n \in 0..avail}
       \cup {[n |-> avail, err |-> IF avail = 0 THEN EOF ELSE ErrUnexpectedEOF]}

\* varStatReader.Read, varStatReadSeeker.Read, CountingReader.Read.
Counted(n) == count' = count + n /\ rpos' = rpos + n

seekerReadN(n) == fakePos' = fakePos + n /\ realPos' = realPos + n

\* fakeSeeker.Seek: whence is the position that the offset is from.
SeekTo(newo, off) ==
  /\ IF newo < 0 THEN UNCHANGED fakePos ELSE fakePos' = newo
  /\ res' = Result("Seek", off, newo, <<>>, IF newo < 0 THEN "negative seek" ELSE nil)
  /\ UNCHANGED <<kind, parts, content, size, rpos, count, realPos, buf>>

Seek(off) ==
  /\ kind = "seeker"
  /\ \E from \in {0, fakePos, size} : from + off <= MaxOff /\ SeekTo(from + off, off)

\* fakeSeeker.Read.
SeekerRead(k) ==
  /\ kind = "seeker"
  /\ \/ /\ fakePos # realPos
        /\ res' = Result("Read", fakePos, k, <<>>, "fake seek offset")
        /\ UNCHANGED <<rpos, count, fakePos, realPos>>
     \/ /\ fakePos = realPos
        /\ \E r \in BaseRead(k) :
             /\ res' = Result("Read", fakePos, k, Slice(content, rpos, rpos + r.n), r.err)
             /\ Counted(r.n)
             /\ seekerReadN(r.n)
  /\ UNCHANGED <<kind, parts, content, size, buf>>

\* Size of an io.Seeker: it seeks to the end and back.
Size ==
  /\ kind = "seeker"
  /\ LET pos == fakePos IN
     /\ res' = Result("Size", pos, size - pos, <<>>, nil)
     /\ fakePos' = pos
  /\ UNCHANGED <<kind, parts, content, size, rpos, count, realPos, buf>>

\* bufReaderAt.ReadAt of want bytes.
BufReadAt(off, want) ==
  LET need == off + want - Len(buf) IN
  /\ kind = "buffer"
  /\ \E r \in IF need > 0 THEN ReadFull(need) ELSE {[n |-> 0, err |-> nil]} :
       /\ buf' = buf \o Slice(content, rpos, rpos + r.n)
       /\ LET p == IF Len(buf') >= off THEN Slice(buf', off, Min({off + want, Len(buf')})) ELSE <<>>
          IN res' = Result("ReadAt", off, want, p, IF Len(p) = want THEN nil ELSE r.err)
       /\ Counted(r.n)
  /\ UNCHANGED <<kind, parts, content, size, fakePos, realPos>>

\* The off of part i in a multiRA, and its Size.
partOff(i) == Len(FlattenSeq([j \in 1..(i - 1) |-> parts[j].data]))

\* ReadAt of a part, for n bytes that it has.
partReadErr(part, skip, n) ==
  IF \/ part.ends = "after" /\ skip >= Len(part.data)
     \/ part.ends = "with" /\ skip + n = Len(part.data)
  THEN EOF ELSE nil

\* The loop of multiRA.ReadAt from part i on: what it reads and its error.
readParts(first, skip0, want0) ==
  LET from[i \in Nat, skip \in Nat, want \in Nat] ==
        IF i > Len(parts) \/ want = 0
        THEN [p |-> <<>>, err |-> IF want = 0 THEN nil ELSE ErrUnexpectedEOF]
        ELSE LET n == Min({want, Len(parts[i].data) - skip})
                 rest == from[i + 1, 0, want - n]
             IN IF partReadErr(parts[i], skip, n) # nil THEN [p |-> <<>>, err |-> EOF]
                ELSE [p |-> Slice(parts[i].data, skip, skip + n) \o rest.p, err |-> rest.err]
  IN from[first, skip0, want0]

\* multiRA.ReadAt; the sort.Search finds the first part with bytes to read.
MultiReadAt(off, want) ==
  /\ kind = "multi"
  /\ LET i == Min({j \in DOMAIN parts : partOff(j + 1) > off} \cup {Len(parts) + 1})
         r == readParts(i, off - partOff(i), want)
     IN res' = Result("ReadAt", off, want, r.p, r.err)
  /\ UNCHANGED <<kind, parts, content, size, rpos, count, fakePos, realPos, buf>>

Next ==
  \/ \E off \in (-MaxOff)..MaxOff : Seek(off)
  \/ \E k \in 1..MaxOff : SeekerRead(k)
  \/ Size
  \/ \E off \in 0..MaxOff, want \in 0..MaxOff : off + want <= MaxOff /\ (BufReadAt(off, want) \/ MultiReadAt(off, want))

-----------------------------------------------------------------------------
\* Whatever the order of seeks, reads, size queries and failures: a Read or
\* ReadAt returns the bytes of the stream at the offset that the client
\* believes in, or fails; fewer bytes than asked for come with an error; the
\* statistics count every byte of the stream once; and a multiRA reads all
\* that is there, unless a part is empty or reports its end early.
ReadersExact ==
  /\ res.call \in {"Read", "ReadAt"} => res.p = Slice(content, res.off, res.off + Len(res.p))
  /\ res.call = "ReadAt" => (res.err = nil <=> Len(res.p) = res.want)
  /\ res.call = "Size" => res.want = size - res.off /\ fakePos = res.off
  /\ count = rpos
  /\ kind = "seeker" => realPos = rpos
  /\ kind = "buffer" => buf = Slice(content, 0, rpos)
  /\ res.call = "ReadAt" /\ (\A i \in DOMAIN parts :
         parts[i].ends = "never" \/ (parts[i].ends = "after" /\ parts[i].data # <<>>)) =>
       (kind = "multi" => Len(res.p) = Max({0, Min({res.want, Len(content) - res.off})}))
=============================================================================
