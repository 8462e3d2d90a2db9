----------------------------- MODULE BmffReader -----------------------------
(***************************************************************************)
(* bmff.Reader of media/heif/bmff/bmff.go: ReadBox over a buffered reader  *)
(* of an input that may be seekable, and a client that reads as much as it *)
(* likes of each box before it asks for the next one.                      *)
(*                                                                         *)
(* The underlying reader has delivered src cells; the last buffered of     *)
(* them are still in the bufio.Reader, which reads ahead as far as it      *)
(* likes. A seek may set src beyond the end of the input.                  *)
(***************************************************************************)
EXTENDS Bmff

CONSTANTS
  Input,     \* the inputs: sequences of cells
  BufSize    \* the size of the bufio.Reader's buffer

ASSUME InputAssumption == Input \subseteq Seq(Nat) /\ BufSize \in Nat \ {0}

VARIABLES
  input,     \* the bytes of the underlying reader
  seeker,    \* "none", "works" or "fails" (a pipe: Seek returns an error)
  src,       \* the underlying reader's offset
  buffered,  \* r.br.Buffered()
  pos,       \* r.pos
  last,      \* r.lastBox: its body's limit lr.N
  noMore,    \* r.noMoreBoxes
  out,       \* the boxes ReadBox has returned, and where each body starts
  ret,       \* the error of the last ReadBox
  pc         \* in the client, in ReadBox before the header, or the client has got an error

vars == <<input, seeker, src, buffered, pos, last, noMore, out, ret, pc>>

None == [kind |-> "none", n |-> 0]
Limited(k) == [kind |-> "limited", n |-> k]   \* an io.LimitedReader of N = k
ToEnd == [kind |-> "end", n |-> 0]            \* r.br itself

\* The offset of the next byte that r.br delivers.
at == src - buffered

Avail == IF at < Len(input) THEN Len(input) - at ELSE 0
Least(i, j) == IF i < j THEN i ELSE j

\* r.br delivers k bytes: from its buffer if that holds them, else it asks the
\* underlying reader, which fills part of the buffer.
Deliver(k) ==
  \/ k <= buffered /\ buffered' = buffered - k /\ UNCHANGED src
  \/ /\ k > buffered
     /\ \E b \in 0..Least(BufSize, Avail - k) : buffered' = b /\ src' = at + k + b

Init ==
  /\ input \in Input
  /\ seeker \in {"none", "works", "fails"}
  /\ src = 0 /\ buffered = 0 /\ pos = 0
  /\ last = None /\ noMore = FALSE
  /\ out = <<>> /\ ret = nil /\ pc = "client"

-----------------------------------------------------------------------------
(* Slips the properties below must catch; no specification uses them.      *)

\* The seek forgets that the underlying reader is ahead of the buffer.
SkipSeekUnbuffered ==
  /\ pc = "client" /\ ~noMore /\ last.kind = "limited"
  /\ seeker = "works" /\ last.n > buffered
  /\ src' = src + last.n /\ buffered' = 0
  /\ last' = Limited(0) /\ pc' = "header"
  /\ UNCHANGED <<input, seeker, pos, noMore, out, ret>>

\* A box of size 0 is not remembered as the last one.
ReadHeaderMore ==
  LET h == Header(Drop(input, at))
  IN /\ pc = "header" /\ h.err = nil
     /\ Deliver(h.headerSize)
     /\ last' = Limited(h.remain)
     /\ pos' = pos + h.size
     /\ out' = Append(out, [typ |-> h.typ, size |-> h.size, offset |-> pos,
                            headerSize |-> h.headerSize, start |-> at + h.headerSize])
     /\ ret' = nil /\ pc' = "client"
     /\ UNCHANGED <<input, seeker, noMore>>

-----------------------------------------------------------------------------
(* ReadBox. *)

\* A box of size 0 was the last one.
NoMoreBoxes ==
  /\ pc = "client" /\ noMore
  /\ ret' = "EOF" /\ pc' = "done"
  /\ UNCHANGED <<input, seeker, src, buffered, pos, last, noMore, out>>

\* The first call has no box to skip.
FirstBox ==
  /\ pc = "client" /\ ~noMore /\ last.kind = "none"
  /\ pc' = "header"
  /\ UNCHANGED <<input, seeker, src, buffered, pos, last, noMore, out, ret>>

\* skipRest seeks over what the buffer does not hold of the last box, and
\* forgets the buffer. Seeking beyond the end of the input is no error.
SkipSeek ==
  /\ pc = "client" /\ ~noMore /\ last.kind = "limited"
  /\ seeker = "works" /\ last.n > buffered
  /\ src' = src + (last.n - buffered) /\ buffered' = 0
  /\ last' = Limited(0) /\ pc' = "header"
  /\ UNCHANGED <<input, seeker, pos, noMore, out, ret>>

\* skipRest reads the rest of the last box, as far as the input has it: without
\* a seeker, if Seek fails, or if the buffer holds the rest.
SkipCopy ==
  /\ pc = "client" /\ ~noMore /\ last.kind = "limited"
  /\ seeker # "works" \/ last.n <= buffered
  /\ \E k \in {Least(last.n, Avail)} : Deliver(k) /\ last' = Limited(last.n - k)
  /\ pc' = "header"
  /\ UNCHANGED <<input, seeker, pos, noMore, out, ret>>

\* The underlying reader returns an error to skipRest or to a read of the header.
ReadFails ==
  /\ \/ pc = "client" /\ ~noMore /\ last.kind = "limited"
        /\ seeker # "works" /\ last.n > buffered
     \/ pc = "header" /\ (buffered < 8 \/ buffered < Consumed(Drop(input, at)))
  /\ ret' = "read error" /\ pc' = "done"
  /\ UNCHANGED <<input, seeker, src, buffered, pos, last, noMore, out>>

\* The header is read: ReadBox returns the box.
ReadHeader ==
  LET h == Header(Drop(input, at))
  IN /\ pc = "header" /\ h.err = nil
     /\ Deliver(h.headerSize)
     /\ noMore' = h.toEnd
     /\ last' = IF h.toEnd THEN ToEnd ELSE Limited(h.remain)
     /\ pos' = IF h.toEnd THEN pos ELSE pos + h.size
     /\ out' = Append(out, [typ |-> h.typ, size |-> h.size, offset |-> pos,
                            headerSize |-> h.headerSize, start |-> at + h.headerSize])
     /\ ret' = nil /\ pc' = "client"
     /\ UNCHANGED <<input, seeker>>

\* The header is cut short or wrong: ReadBox returns the error.
HeaderFails ==
  LET h == Header(Drop(input, at))
  IN /\ pc = "header" /\ h.err # nil
     /\ Deliver(Consumed(Drop(input, at)))
     /\ ret' = h.err /\ pc' = "done"
     /\ UNCHANGED <<input, seeker, pos, last, noMore, out>>

\* The client, or a parser and its buffer, reads k bytes of the last box's Body.
ReadBody(k) ==
  /\ pc = "client" /\ last.kind # "none"
  /\ k \in 1..(IF last.kind = "limited" THEN Least(last.n, Avail) ELSE Avail)
  /\ Deliver(k)
  /\ last' = IF last.kind = "limited" THEN Limited(last.n - k) ELSE last
  /\ UNCHANGED <<input, seeker, pos, noMore, out, ret, pc>>

\* The callers in this repository stop at the first error.
Done == pc = "done" /\ UNCHANGED vars

Next ==
  \/ NoMoreBoxes \/ FirstBox \/ SkipSeek \/ SkipCopy \/ ReadFails \/ ReadHeader \/ HeaderFails
  \/ \E k \in 1..Len(input) : ReadBody(k)
  \/ Done

Spec == Init /\ [][Next]_vars

-----------------------------------------------------------------------------
\* The variables have their types; in particular lr.N is never negative.
TypeOK ==
  /\ input \in Seq(Nat) /\ seeker \in {"none", "works", "fails"}
  /\ src \in Nat /\ buffered \in 0..BufSize /\ pos \in Nat
  /\ last \in [kind : {"none", "limited", "end"}, n : Nat]
  /\ noMore \in BOOLEAN /\ pc \in {"client", "header", "done"}

\* r.pos is the offset of the next header: the bytes consumed and the bytes
\* left of the last box, however much of it was read, buffered or seeked over
\* (Reader.pos, bmff.go:56).
PosExact == pc # "done" /\ ~noMore => at >= 0 /\ pos = at + last.n

\* Every box's Offset is where its header was read, so that its body starts
\* HeaderSize bytes further on (Box.Offset, bmff.go:84-90).
OffsetExact == \A i \in 1..Len(out) : out[i].start = out[i].offset + out[i].headerSize

\* The box that ReadBox returned, as Boxes lists it.
Listed(i) == [typ |-> out[i].typ, size |-> out[i].size, offset |-> out[i].offset,
              headerSize |-> out[i].headerSize]
WithoutBody(b) == [typ |-> b.typ, size |-> b.size, offset |-> b.offset, headerSize |-> b.headerSize]

\* ReadBox returns the boxes that the input is made of, in order, and then
\* io.EOF or the first error in their headers: whatever the client read of each
\* box, and whether the rest was seeked over, read, or cut off.
BoxesExact ==
  LET all == Boxes(input)
  IN /\ Len(out) <= Len(all.boxes)
     /\ \A i \in 1..Len(out) : Listed(i) = WithoutBody(all.boxes[i])
     /\ pc = "done" /\ ret # "read error" =>
          Len(out) = Len(all.boxes) /\ ret = (IF all.err = nil THEN "EOF" ELSE all.err)
=============================================================================
