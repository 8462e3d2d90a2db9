------------------------------ MODULE ZipRead -------------------------------
(***************************************************************************)
(* ziputil.OpenWithReader and the checksumReader it returns, with the pool *)
(* of flate readers that all handles share. Each handle has a goroutine    *)
(* that calls Read and one that calls Close.                               *)
(*                                                                         *)
(* A raw stream is a sequence of cells, each a sequence of bytes. The raw  *)
(* reader, flate and the CRC are external: a raw reader returns as much as *)
(* it likes of what it is asked for, its end with the last cells or after  *)
(* them; a cell of a deflated body stands for its bytes twice, and Fin for *)
(* the end; the CRC tells all data apart and is 0, <<>>, for none.         *)
(***************************************************************************)
EXTENDS Integers, SequencesExt

CONSTANTS
  Handle, FlateReader, None,
  Entry,       \* the entries, with their streams, that the handles may open
  MaxClose     \* how often a handle is closed

VARIABLES
  entry,   \* the entry and the stream behind each handle
  hd,      \* the checksumReader and its goroutines
  fpool    \* flateReaderPool

zipVars == <<entry, hd, fpool>>

fileHeaderLen == 1
openReadSlop == 1
FileHeader == <<"file header">>
Fin == <<"end of deflated data">>
DescSig == <<"data descriptor signature">>
Bad == <<"other data">>

dataDescriptorLen == 4

\* The body of an entry.
Body(e) == e.cells \o (IF e.method = "deflate" THEN <<Fin>> ELSE <<>>)

\* The raw stream of an entry: its local header, whose variable part has
\* localLen cells, its body and its descriptor, and what comes next in the file.
Stream(e) ==
  <<FileHeader>> \o [i \in 1..e.localLen |-> Bad] \o Body(e)
  \o (IF e.hasDesc THEN (IF e.hasSig THEN <<DescSig>> ELSE <<>>) \o <<e.data, Bad, Bad>> ELSE <<>>)
  \o [i \in 1..8 |-> Bad]

\* As getRawReader delivers it.
Raw(e, readSize) ==
  LET s == SubSeq(Stream(e), 1, Min({readSize, e.cut, Len(Stream(e))}))
  IN IF e.spoilt \in DOMAIN s THEN [s EXCEPT ![e.spoilt] = Bad] ELSE s

\* The data of each cell of the body.
Inflated(e) == [i \in DOMAIN e.cells |-> IF e.method = "store" THEN e.cells[i] ELSE e.cells[i] \o e.cells[i]]

\* An entry and its stream as an archiver writes them and a raw reader hands
\* them over: a directory may have no CRC, 0, if there is no descriptor; and
\* nobody can tell a CRC that looks like a descriptor's signature from one.
WellFormed(e) ==
  /\ e.method \in {"store", "deflate", "other"}
  /\ e.cells \in Seq(Seq(STRING)) /\ Fin \notin Range(e.cells)
  /\ e.data = FlattenSeq(Inflated(e)) /\ e.data # DescSig
  /\ e.crc = e.data \/ (e.crc = <<>> /\ ~e.hasDesc)
  /\ e.hasDesc \in BOOLEAN /\ e.hasSig \in BOOLEAN
  /\ e.varLen \in Nat /\ e.localLen \in Nat
  /\ e.cut \in Nat /\ e.spoilt \in Nat
  /\ e.tail \in STRING \ {"nil"}

Init ==
  /\ entry \in Entry
  /\ hd = [h \in Handle |->
       [rd |-> "new", cl |-> "idle", raw |-> <<>>, open |-> FALSE, left |-> 0, fr |-> None,
        mu |-> FALSE, err |-> "nil", got |-> <<>>, out |-> <<>>, pend |-> [p |-> <<>>, err |-> "nil"],
        closes |-> 0]]
  /\ fpool = <<>>

-----------------------------------------------------------------------------
(* Slips the properties below must catch; no specification uses them.      *)

\* The size asked for leaves the data descriptor out.
readSizeNoDesc(e) == Len(Body(e)) + fileHeaderLen + e.varLen + openReadSlop

\* Close leaves fr as it is.
FlateCloseKeepsFr(h) ==
  /\ ~hd[h].mu
  /\ hd' = [hd EXCEPT ![h].cl = "idle"]
  /\ fpool' = IF hd[h].fr = None THEN fpool ELSE Append(fpool, hd[h].fr)

-----------------------------------------------------------------------------
\* The size OpenWithReader asks for.
readSize(e) ==
  Len(Body(e)) + (IF e.hasDesc THEN dataDescriptorLen ELSE 0)
  + fileHeaderLen + e.varLen + openReadSlop

\* skipHeader, and the check of what it skipped.
skipHeader(e, raw) ==
  CASE raw = <<>> -> e.tail
    [] raw # <<>> /\ raw[1] # FileHeader -> "ErrFormat"
    [] OTHER ->
         IF Len(raw) < fileHeaderLen + e.localLen THEN e.tail
         ELSE IF e.localLen > e.varLen + openReadSlop THEN "header too long" ELSE "nil"

\* newFlateReader: Get may find a reader, and may find none. Reset clears it.
GetFlateReader(h) ==
  \/ \E i \in DOMAIN fpool :
       fpool' = RemoveAt(fpool, i) /\ hd'[h].fr = fpool[i]
  \/ /\ hd'[h].fr \in FlateReader \ (Range(fpool) \cup {hd[g].fr : g \in Handle})
     /\ UNCHANGED fpool

\* OpenWithReader: it may not have the method, and getRawReader may fail.
Open(h) ==
  LET e == entry[h]
      raw == Raw(e, readSize(e))
      err == skipHeader(e, raw)
  IN /\ hd[h].rd = "new"
     /\ \/ hd' = [hd EXCEPT ![h].rd = "failed"] /\ UNCHANGED fpool
        \/ /\ e.method # "other" /\ err # "nil"
           /\ hd' = [hd EXCEPT ![h].rd = "failed", ![h].err = err]
           /\ UNCHANGED fpool
        \/ /\ e.method # "other" /\ err = "nil"
           /\ \E fr \in FlateReader \cup {None} :
                hd' = [hd EXCEPT ![h].rd = "idle", ![h].open = TRUE, ![h].left = Len(Body(e)),
                                 ![h].raw = SubSeq(raw, fileHeaderLen + e.localLen + 1, Len(raw)),
                                 ![h].fr = fr]
           /\ IF e.method = "deflate" THEN GetFlateReader(h) ELSE hd'[h].fr = None /\ UNCHANGED fpool
     /\ UNCHANGED entry

\* What a Read of at most k > 0 cells of the raw reader may return.
RawRead(h, k) ==
  LET all == Len(hd[h].raw) IN
  IF ~hd[h].open THEN {[n |-> 0, err |-> "closed"]}
  ELSE [n : 1..Min({k, all}), err : {"nil"}]
       \cup (IF k >= all THEN {[n |-> all, err |-> entry[h].tail]} ELSE {})

Consume(h, n) == [hd[h] EXCEPT !.raw = SubSeq(@, n + 1, Len(@)), !.left = @ - n]

\* checksumReader.Read is called; it goes on unless an error is set.
ReadCall(h) ==
  /\ hd[h].rd = "idle"
  /\ hd[h].err = "nil"
  /\ hd' = [hd EXCEPT ![h].rd = "body"]
  /\ UNCHANGED <<entry, fpool>>

\* Read of a stored body, through the LimitReader.
StoreRead(h) ==
  /\ hd[h].rd = "body" /\ entry[h].method = "store"
  /\ \E r \in IF hd[h].left = 0 THEN {[n |-> 0, err |-> "EOF"]}
              ELSE UNION {RawRead(h, k) : k \in 1..hd[h].left} :
       hd' = [hd EXCEPT ![h] =
                [Consume(h, r.n) EXCEPT !.rd = "sum", !.pend = [p |-> FlattenSeq(SubSeq(hd[h].raw, 1, r.n)), err |-> r.err]]]
  /\ UNCHANGED <<entry, fpool>>

\* pooledFlateReader.Read takes mu.
FlateLock(h) ==
  /\ hd[h].rd = "body" /\ entry[h].method = "deflate"
  /\ ~hd[h].mu
  /\ hd' = [hd EXCEPT ![h] =
       IF @.fr = None THEN [@ EXCEPT !.rd = "sum", !.pend = [p |-> <<>>, err |-> "Read after Close"]]
       ELSE [@ EXCEPT !.rd = "inflate", !.mu = TRUE]]
  /\ UNCHANGED <<entry, fpool>>

\* It reads a cell, inflates it and gives mu back.
FlateRead(h) ==
  /\ hd[h].rd = "inflate"
  /\ \E r \in IF hd[h].left = 0 THEN {[n |-> 0, err |-> "EOF"]} ELSE RawRead(h, 1) :
       LET cell == hd[h].raw[1] IN
       hd' = [hd EXCEPT ![h] =
                [Consume(h, r.n) EXCEPT !.rd = "sum", !.mu = FALSE,
                   !.pend = CASE r.n = 0 -> [p |-> <<>>, err |-> IF r.err = "EOF" THEN "unexpected EOF" ELSE r.err]
                              [] r.n = 1 /\ cell = Fin -> [p |-> <<>>, err |-> "EOF"]
                              [] r.n = 1 /\ cell # Fin -> [p |-> cell \o cell, err |-> "nil"]]]
  /\ UNCHANGED <<entry, fpool>>

\* readDataDescriptor, with what the body left of the raw stream.
readDataDescriptor(h) ==
  LET raw == hd[h].raw
      sig == IF raw # <<>> /\ raw[1] = DescSig THEN 1 ELSE 0
      tail == IF hd[h].open THEN entry[h].tail ELSE "closed"
  IN IF ~hd[h].open \/ Len(raw) < sig + 3
     THEN IF tail = "EOF" THEN "unexpected EOF" ELSE tail
     ELSE IF raw[sig + 1] # entry[h].crc THEN "ErrChecksum" ELSE "nil"

\* What Read makes of err, with all that was read so far.
sumErr(h, err, all) ==
  CASE Len(all) > Len(entry[h].data) -> "ErrFormat"
    [] Len(all) <= Len(entry[h].data) /\ err # "EOF" -> err
    [] Len(all) < Len(entry[h].data) /\ err = "EOF" -> "unexpected EOF"
    [] OTHER ->
         IF entry[h].hasDesc /\ readDataDescriptor(h) # "nil" THEN readDataDescriptor(h)
         ELSE IF (entry[h].hasDesc \/ entry[h].crc # <<>>) /\ all # entry[h].crc THEN "ErrChecksum"
         ELSE "EOF"

\* The rest of checksumReader.Read; setErr closes the raw reader.
ReadReturn(h) ==
  LET s == hd[h]
      all == s.got \o s.pend.p
      err == sumErr(h, s.pend.err, all)
      none == \/ Len(all) > Len(entry[h].data)
              \/ s.pend.err = "EOF" /\ Len(all) # Len(entry[h].data)
  IN /\ s.rd = "sum"
     /\ hd' = [hd EXCEPT ![h] = [s EXCEPT
                 !.rd = "idle", !.got = all, !.out = IF none THEN @ ELSE @ \o s.pend.p,
                 !.pend = [p |-> <<>>, err |-> "nil"],
                 !.err = err, !.open = @ /\ err = "nil"]]
     /\ UNCHANGED <<entry, fpool>>

-----------------------------------------------------------------------------
\* Close drains up to openReadSlop cells, as fast as they come, closes the raw
\* reader, and then the body.
CloseDrain(h) ==
  /\ hd[h].rd \notin {"new", "failed"} /\ hd[h].cl = "idle" /\ hd[h].closes < MaxClose
  /\ LET n == IF hd[h].open THEN openReadSlop ELSE 0 IN
     hd' = [hd EXCEPT ![h].cl = "raw", ![h].closes = @ + 1, ![h].raw = SubSeq(@, n + 1, Len(@))]
  /\ UNCHANGED <<entry, fpool>>

CloseRaw(h) ==
  /\ hd[h].cl = "raw"
  /\ hd' = [hd EXCEPT ![h].cl = "body", ![h].open = FALSE]
  /\ UNCHANGED <<entry, fpool>>

\* pooledFlateReader.Close, once it has mu; io.NopCloser.
FlateClose(h) ==
  /\ ~hd[h].mu
  /\ hd' = [hd EXCEPT ![h].cl = "idle", ![h].fr = None]
  /\ fpool' = IF hd[h].fr = None THEN fpool ELSE Append(fpool, hd[h].fr)

CloseBody(h) ==
  /\ hd[h].cl = "body"
  /\ IF entry[h].method = "deflate" THEN FlateClose(h)
     ELSE hd' = [hd EXCEPT ![h].cl = "idle"] /\ UNCHANGED fpool
  /\ UNCHANGED entry

Next ==
  \E h \in Handle :
    \/ Open(h)
    \/ ReadCall(h) \/ StoreRead(h) \/ FlateLock(h) \/ FlateRead(h) \/ ReadReturn(h)
    \/ CloseDrain(h) \/ CloseRaw(h) \/ CloseBody(h)

-----------------------------------------------------------------------------
\* The entry's stream is as it was written, as far as it was asked for.
Intact(e) == e.spoilt = 0 /\ e.cut >= Len(Stream(e)) /\ e.tail = "EOF"

\* The caller of Read hears io.EOF only after exactly the data that was
\* written, whatever was lost, spoilt or drained by a racing Close (for entries
\* with a CRC, and whole ones if nobody closes); and for a whole stream with
\* local headers within the slop it hears nothing else until it closes.
BodyExact ==
  \A h \in Handle :
    LET e == entry[h] s == hd[h] IN
    /\ s.rd # "failed" /\ s.err = "EOF" /\ (e.crc # <<>> \/ e.hasDesc \/ (Intact(e) /\ s.closes = 0)) => s.out = e.data
    /\ Intact(e) /\ s.closes = 0 /\ e.localLen <= e.varLen + openReadSlop =>
         s.err \in {"nil", "EOF"} /\ IsPrefix(s.out, e.data)

\* A flate reader is in the pool once or belongs to one handle, also while
\* handles are closed twice or during a Read; and the raw reader is closed
\* after any error and after Close.
HandlesSound ==
  /\ \A i, j \in DOMAIN fpool : fpool[i] = fpool[j] => i = j
  /\ \A h \in Handle :
       /\ hd[h].fr # None => hd[h].fr \notin Range(fpool) /\ \A g \in Handle \ {h} : hd[g].fr # hd[h].fr
       /\ hd[h].mu => hd[h].fr # None
       /\ hd[h].err # "nil" => ~hd[h].open
       /\ hd[h].closes > 0 /\ hd[h].cl = "idle" => ~hd[h].open /\ hd[h].fr = None
=============================================================================
