------------------------------- MODULE ZipToc -------------------------------
(***************************************************************************)
(* ziputil's table of contents: a client asks for footers of a remote zip  *)
(* file until ZipTOCSize is content, fetches as much as it said and calls  *)
(* ParseTOC.                                                               *)
(*                                                                         *)
(* A file is its size and the records in it by their offsets. What is not  *)
(* in the footer reads as zeros, so that a record is seen if the footer    *)
(* starts at or before it. Lengths and the limits of integers are scaled.  *)
(***************************************************************************)
EXTENDS Integers, SequencesExt

CONSTANT
  Archive   \* the files, with what ParseTOC should return (means), whether they
            \* are valid, whether a comment looks like an end record (ambiguous),
            \* whether the directory ends where the end records start (exact),
            \* and the length from there on (endsLen)

VARIABLES
  zip,       \* the file
  footer,    \* the length of the last footer that was asked for
  tocSize,   \* ZipTOCSize's answer, or -1 for "not ok"
  toc        \* ParseTOC's answer

tocVars == <<zip, footer, tocSize, toc>>

directoryHeaderLen == 4
directoryEndLen == 3
directory64LocLen == 2
directory64EndLen == 4
uint16max == 7
uint32max == 40
maxInt64 == 99
\* readDirectoryEnd looks in 1 KiB, then in 65 KiB: a record and any comment.
Blocks == <<5, 11>>

\* The conversion of a uint64 or a sum to int64.
int64(n) == ((n + maxInt64 + 1) % (2 * (maxInt64 + 1))) - (maxInt64 + 1)

ErrFormat == "zip: not a valid zip file"
NoZone == "UTC"

Init == zip \in Archive /\ footer = 0 /\ tocSize = -1 /\ toc = <<>>

-----------------------------------------------------------------------------
(* Slips the properties below must catch; no specification uses them.      *)

\* The zip64 records are not looked for when only the offset is maxed out.
maybe64CountsOnly(d) == d.recs = uint16max

-----------------------------------------------------------------------------
\* A read at off: the record there, if it is one of this kind in the last k
\* bytes of file f.
Sees(f, k, off, sig) ==
  off >= f.size - k /\ off \in DOMAIN f.at /\ f.at[off].sig = sig

\* Where the last directoryEnd is in the last n bytes; -1 if it is not there,
\* or its comment does not fit.
findSignatureInBlock(f, k, n) ==
  LET found == {off \in DOMAIN f.at : Sees(f, k, off, "end") /\ off >= f.size - n}
  IN IF found = {} \/ Max(found) + directoryEndLen + f.at[Max(found)].comment > f.size
     THEN -1 ELSE Max(found)

findDirectory64End(f, k, endOff) ==
  LET off == endOff - directory64LocLen IN
  IF Sees(f, k, off, "loc64") /\ f.at[off].disk = 0 /\ f.at[off].disks = 1
  THEN int64(f.at[off].pos) ELSE -1

\* "These values mean that the file can be a zip64 file"
maybe64(d) == d.recs = uint16max \/ d.size = uint16max \/ d.off = uint32max

\* The extra fields of a header update h, the header and what it still needs.
\* Fields of too few bytes have no vals; one that is longer than what is left
\* ends the search.
parseExtra(h, field) ==
  CASE h.stop \/ h.err # "nil" -> h
    [] ~field.fits -> [h EXCEPT !.stop = TRUE]
    [] field.tag = "zip64" ->
         LET given(i) == field.vals[Len(SelectSeq(SubSeq(h.need, 1, i), LAMBDA n : n))]
             wanted == Len(SelectSeq(h.need, LAMBDA n : n))
         IN IF Len(field.vals) < wanted THEN [h EXCEPT !.err = ErrFormat]
            ELSE [h EXCEPT !.sizes = [i \in 1..3 |-> IF h.need[i] THEN given(i) ELSE @[i]],
                           !.need = <<FALSE, FALSE, FALSE>>]
    [] field.tag = "time" ->
         IF field.vals = <<>> THEN h ELSE [h EXCEPT !.modified = field.vals]
    [] OTHER -> h

\* Legacy times have a resolution of two seconds; zones are rounded to offsetAlias.
offsetAlias == 6
minOffset == -12
maxOffset == 18
Round(d) ==
  LET a == IF d < 0 THEN -d ELSE d
      r == a - (a % offsetAlias) + (IF 2 * (a % offsetAlias) < offsetAlias THEN 0 ELSE offsetAlias)
  IN IF d < 0 THEN -r ELSE r
timeZone(d) == IF Round(d) \in minOffset..maxOffset THEN Round(d) ELSE 0

Modified(dos, modified) ==
  CASE modified = <<>> -> <<dos, NoZone>>
    [] modified # <<>> /\ dos = 0 -> <<modified[1], NoZone>>
    [] OTHER -> <<modified[1], timeZone(dos - modified[1])>>

\* detectUTF8 of Name and Comment, by the most telling character in them.
detectUTF8(chars) == [valid |-> chars # "invalid", require |-> chars = "wide"]

NonUTF8(chars, utf8Flag) ==
  \/ ~detectUTF8(chars).valid
  \/ detectUTF8(chars).require /\ ~utf8Flag

\* The record's fields sizes are UncompressedSize, CompressedSize and the
\* header's offset, in the order of the zip64 field.
unparsed(rec) ==
  [sizes |-> rec.sizes, need |-> [i \in 1..3 |-> rec.sizes[i] = uint32max],
   modified |-> <<>>, stop |-> FALSE, err |-> "nil"]

\* The FileHeader of a record whose extra fields gave h.
fileHeader(rec, h) ==
  [err |-> IF h.need[2] \/ h.need[3] THEN ErrFormat ELSE h.err,
   file |-> [name |-> rec.name, usize |-> h.sizes[1], csize |-> h.sizes[2], off |-> int64(h.sizes[3]),
             modified |-> Modified(rec.dos, h.modified), nonUTF8 |-> NonUTF8(rec.chars, rec.utf8Flag)],
   len |-> directoryHeaderLen + rec.varLen]

readDirectoryHeader(f, k, off) ==
  IF off >= f.size THEN [err |-> "EOF"]
  ELSE IF off + directoryHeaderLen > f.size THEN [err |-> "unexpected EOF"]
  ELSE IF ~Sees(f, k, off, "dir") THEN [err |-> ErrFormat]
  ELSE IF off + directoryHeaderLen + f.at[off].varLen > f.size
  THEN [err |-> IF off + directoryHeaderLen = f.size THEN "EOF" ELSE "unexpected EOF"]
  ELSE fileHeader(f.at[off], FoldLeft(parseExtra, unparsed(f.at[off]), f.at[off].extra))

\* The first two thirds of readDirectoryEnd: where a directoryEnd is ...
directoryEndOffset(f, k) ==
  LET first == findSignatureInBlock(f, k, Blocks[1])
  IN IF first >= 0 \/ Blocks[1] >= f.size THEN first ELSE findSignatureInBlock(f, k, Blocks[2])

\* The zip64 one at pos, of a file with that comment.
readDirectory64End(f, k, pos, comment) ==
  IF pos + directory64EndLen > f.size THEN [err |-> "unexpected EOF"]
  ELSE IF ~Sees(f, k, pos, "end64") THEN [err |-> ErrFormat]
  ELSE [err |-> "nil", at |-> pos, d |-> f.at[pos], comment |-> comment]

\* ... and what is in it, or at pos in the zip64 one that it leads to.
directoryEnd(f, k, endOff, pos) ==
  IF endOff < 0 THEN [err |-> ErrFormat]
  ELSE IF maybe64(f.at[endOff]) /\ pos >= 0
  THEN readDirectory64End(f, k, pos, f.at[endOff].comment)
  ELSE [err |-> "nil", at |-> endOff, d |-> f.at[endOff], comment |-> f.at[endOff].comment]

\* The last third: baseOffset, which is 0 if a header is found from there.
withBase(f, k, e) ==
  LET base == int64(e.at - e.d.size - e.d.off)
      start == int64(base + e.d.off)
  IN IF e.err # "nil" THEN e
     ELSE IF e.d.size > maxInt64 \/ e.d.off > maxInt64 THEN [err |-> ErrFormat]
     ELSE IF start < 0 \/ start >= f.size THEN [err |-> ErrFormat]
     ELSE [err |-> "nil", d |-> e.d, comment |-> e.comment,
           base |-> IF base > 0 /\ readDirectoryHeader(f, k, e.d.off).err = "nil" THEN 0 ELSE base]

readDirectoryEndFrom(f, k, endOff) ==
  withBase(f, k, directoryEnd(f, k, endOff, findDirectory64End(f, k, endOff)))

\* readDirectoryEnd of the last k bytes of f.
readDirectoryEnd(f, k) == readDirectoryEndFrom(f, k, directoryEndOffset(f, k))

\* ZipTOCSize, with -1 for "not ok".
tocSizeOf(f, e) ==
  LET n == f.size - (e.base + e.d.off)
  IN IF e.err # "nil" THEN -1 ELSE IF n < 0 \/ n > f.size THEN -1 ELSE n
ZipTOCSize(f, k) == IF f.size < k THEN -1 ELSE tocSizeOf(f, readDirectoryEnd(f, k))

\* The loop of ParseTOC: the headers from off on, up to what is none.
readHeaders(f, k, off, base) ==
  LET from[o \in Int] ==
        LET h == readDirectoryHeader(f, k, o) IN
        IF h.err \in {ErrFormat, "unexpected EOF"} THEN [err |-> "nil", files |-> <<>>]
        ELSE IF h.err # "nil" THEN [err |-> h.err, files |-> <<>>]
        ELSE [from[o + h.len] EXCEPT !.files = <<[h.file EXCEPT !.off = int64(@ + base)]>> \o @]
  IN from[off]

\* The rest of ParseTOC, with the headers that were read: "only compare 16 bits".
countChecked(e, read) ==
  IF read.err # "nil" THEN [err |-> read.err]
  ELSE IF (Len(read.files) - e.d.recs) % (uint16max + 1) # 0
  THEN [err |-> "wrong number of directory entries"]
  ELSE [err |-> "nil", files |-> read.files, base |-> e.base, comment |-> e.comment]

parseFrom(f, k, e) ==
  IF e.err # "nil" THEN [err |-> e.err]
  ELSE countChecked(e, readHeaders(f, k, e.base + e.d.off, e.base))

ParseTOC(f, k) ==
  IF f.size < k THEN [err |-> "invalid arguments to ParseTOC"]
  ELSE parseFrom(f, k, readDirectoryEnd(f, k))

-----------------------------------------------------------------------------
\* A client with no answer yet tries a larger footer.
AskFooter(k) ==
  /\ toc = <<>> /\ tocSize = -1
  /\ k > footer
  /\ footer' = k
  /\ tocSize' = ZipTOCSize(zip, k)
  /\ UNCHANGED <<zip, toc>>

\* It fetches what ZipTOCSize said, or everything, and parses it.
Parse ==
  /\ toc = <<>>
  /\ footer # 0
  /\ tocSize # -1 \/ footer = zip.size
  /\ toc' = ParseTOC(zip, IF tocSize = -1 THEN zip.size ELSE tocSize)
  /\ UNCHANGED <<zip, footer, tocSize>>

Next == (\E k \in 1..zip.size : AskFooter(k)) \/ Parse

-----------------------------------------------------------------------------
\* From whatever footers and in whatever order, no answer is wrong: ParseTOC
\* reports the files, their offsets in the file and the comment as they were
\* meant, or an error; and it reports them for a valid file, from as much as
\* ZipTOCSize said if the end records were in the footer, which it is content
\* with then.
TocAsMeant ==
  /\ toc # <<>> /\ toc.err = "nil" /\ ~zip.ambiguous => toc.files = zip.means.files
  /\ zip.valid => ParseTOC(zip, zip.size) = zip.means
  /\ zip.valid /\ zip.exact /\ footer >= zip.endsLen =>
       tocSize # -1 /\ (toc # <<>> => toc.err = "nil")
  /\ tocSize <= zip.size

\* "When the footer is found, the function reports ok=true and the total suffix
\* size needed to read the zip's table of contents."
SuffixSuffices == zip.valid /\ toc # <<>> => toc.err = "nil"
=============================================================================
