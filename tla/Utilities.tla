----------------------------- MODULE Utilities ------------------------------
(***************************************************************************)
(* The packages that stand alone, for TLC: those that read, write and      *)
(* rewrite streams of bytes (readerutil, ziputil's table of contents and   *)
(* its readers of a file, bytereplacer, writerutil and rollsum), the lock  *)
(* tracker of syncdebug, and oauthutil's tokens in a file of wkfs. They    *)
(* share no state, so that a behaviour exercises one, chosen at first.     *)
(* This module makes what they are given: zip files as an archiver writes  *)
(* and a disk spoils them, streams that are cut off or spoilt, and pairs   *)
(* to replace.                                                             *)
(***************************************************************************)
EXTENDS ZipToc

CONSTANTS
  Content, MaxOff,                              \* Readers
  Handle, FlateReader, None, Entry, MaxClose,   \* ZipRead
  Job, Byte,                                    \* ByteReplacer
  Proc, Recursive,                              \* RWMutexTracker
  MaxN, MaxWritten,                             \* Window
  Client, MaxIssued, MaxSize                    \* TokenCache

ASSUME ProcAssumption == IsFiniteSet(Proc) /\ None \notin Proc

VARIABLES
  part,
  kind, parts, content, size, rpos, count, fakePos, realPos, buf, res,   \* Readers
  entry, hd, fpool,                                                      \* ZipRead
  job, r, array, slen, turn, dst, dlen, grown, at,                       \* ByteReplacer
  pc, depth, writer, nread, nwaitr, nwaitw, nhaver, nhavew, holder, holdr, warned, late, handed,
  fatal,                                                                 \* RWMutexTracker
  ring, written, N, prefix, suffix, suffixOff, skipped, s1, s2, window, wofs,  \* Window
  fsys, file, issued, expired, cl, shared, torn                          \* TokenCache

readerVars == <<kind, parts, content, size, rpos, count, fakePos, realPos, buf, res>>
zipVars == <<entry, hd, fpool>>
replaceVars == <<job, r, array, slen, turn, dst, dlen, grown, at>>
windowVars == <<ring, written, N, prefix, suffix, suffixOff, skipped, s1, s2, window, wofs>>
trackerVars == <<pc, depth, writer, nread, nwaitr, nwaitw, nhaver, nhavew, holder, holdr, warned, late,
                 handed, fatal>>
cacheVars == <<fsys, file, issued, expired, cl, shared, torn>>
allVars == <<part, readerVars, tocVars, zipVars, replaceVars, windowVars, trackerVars, cacheVars>>

Util == INSTANCE Readers
Body == INSTANCE ZipRead
Replacer == INSTANCE ByteReplacer
Rings == INSTANCE Window
Tracker == INSTANCE RWMutexTracker
Cache == INSTANCE TokenCache

ASSUME FlateReaderAssumption == None \notin FlateReader
ASSUME EntryAssumption == \A es \in Entry : \A h \in Handle : Body!WellFormed(es[h])

-----------------------------------------------------------------------------
(* Zip files. An entry of an archive has the values its writer means, the  *)
(* numbers of those of its three sizes that went to a zip64 field, its     *)
(* other extra fields, and what is in its header of the time and the name. *)

Huge == 150   \* a uint64 that is no int64

TimeField(vals) == [tag |-> "time", fits |-> TRUE, vals |-> vals]

Plain ==
  [usize |-> 3, csize |-> 2, in64 |-> {}, extra |-> <<>>, dos |-> 20, modified |-> <<20, "UTC">>,
   chars |-> "ascii", utf8Flag |-> FALSE, nonUTF8 |-> FALSE, valid |-> TRUE]

\* Written in a zone 12 s east at time 41, with a legacy time of 52.
Large ==
  [Plain EXCEPT !.usize = 50, !.csize = 45, !.in64 = {1, 2, 3}, !.extra = <<TimeField(<<41>>)>>,
                !.dos = 52, !.modified = <<41, 12>>, !.chars = "wide", !.utf8Flag = TRUE]

\* Far into a large file; an extra field that does not fit comes last.
Far ==
  [Plain EXCEPT !.in64 = {3}, !.extra = <<TimeField(<<41>>), [TimeField(<<3>>) EXCEPT !.fits = FALSE]>>,
                !.dos = 34, !.modified = <<41, -6>>, !.chars = "invalid", !.nonUTF8 = TRUE]

\* "uncompressed size 2^32-1 could plausibly happen in an old zip32 file".
Largest32 ==
  [Plain EXCEPT !.usize = uint32max, !.extra = <<TimeField(<<>>), TimeField(<<41>>)>>, !.dos = 0,
                !.modified = <<41, "UTC">>, !.chars = "wide", !.nonUTF8 = TRUE]

\* A compressed size that large needs the zip64 field.
Lacks64 == [Plain EXCEPT !.csize = uint32max, !.valid = FALSE]

Sum(seq) == FoldLeft(LAMBDA a, b : a + b, 0, seq)

\* The file of a layout: prefix cells, two cells for each entry, the headers,
\* gap cells, the end records (zip64 ones too, if not "no") and the comment.
\* Offsets count from the archive's start, or from the file's if adjusted.
ZipFile(l, es) ==
  LET n == Len(es)
      org == IF l.adjusted THEN l.prefix ELSE 0
      sizes(i) == <<es[i].usize, es[i].csize, org + 2 * (i - 1)>>
      in64(i) == SelectSeq(<<1, 2, 3>>, LAMBDA j : j \in es[i].in64)
      field64(i) == [tag |-> "zip64", fits |-> TRUE, vals |-> [j \in DOMAIN in64(i) |-> sizes(i)[in64(i)[j]]]]
      extra(i) == (IF es[i].in64 = {} THEN <<>> ELSE <<field64(i)>>) \o es[i].extra
      varLen(i) == 1 + 2 * Len(extra(i))
      header(i) == l.prefix + 2 * n + Sum([j \in 1..(i - 1) |-> directoryHeaderLen + varLen(j)])
      dir(i) == [sig |-> "dir", name |-> i, extra |-> extra(i), varLen |-> varLen(i), dos |-> es[i].dos,
                 chars |-> es[i].chars, utf8Flag |-> es[i].utf8Flag,
                 sizes |-> [j \in 1..3 |-> IF j \in es[i].in64 THEN uint32max ELSE sizes(i)[j]]]
      ends == header(n + 1) + l.gap
      is64 == l.zip64 # "no"
      end == ends + (IF is64 THEN directory64EndLen + directory64LocLen ELSE 0)
      total == end + directoryEndLen + l.comment
      recs == n + (CASE l.damage = "count" -> 1 [] l.damage = "count mod 8" -> 8 [] OTHER -> 0)
      dirSize == header(n + 1) - header(1) - (IF l.damage = "size" THEN 1 ELSE 0)
      dirOff == org + 2 * n
      end64 == [sig |-> "end64", recs |-> recs, size |-> IF l.damage = "huge size" THEN Huge ELSE dirSize,
                off |-> IF l.damage = "huge offset" THEN Huge ELSE dirOff]
      loc64 == [sig |-> "loc64", disk |-> 0, disks |-> IF l.damage = "disks" THEN 2 ELSE 1,
                pos |-> CASE l.damage = "position" -> total [] l.damage = "huge position" -> Huge
                          [] OTHER -> ends - l.prefix + org]
      endRec == [sig |-> "end", recs |-> IF l.zip64 = "all" THEN 7 ELSE recs % 8,
                 size |-> IF l.zip64 = "all" THEN uint32max ELSE dirSize,
                 off |-> IF is64 THEN uint32max ELSE dirOff, comment |-> l.comment]
      inComment == [sig |-> "end", recs |-> 0, size |-> 0, off |-> 0,
                    comment |-> IF l.lookalike = "fits" THEN 3 ELSE 5]
      at64 == IF is64 THEN (end - directory64LocLen) :> loc64 ELSE <<>>
      atEnd64 == IF is64 /\ l.damage # "no end64" THEN ends :> end64 ELSE <<>>
      atComment == IF l.lookalike = "no" THEN <<>> ELSE (total - 6) :> inComment
  IN [size |-> total,
      at |-> [o \in {header(i) : i \in 1..n} |-> dir(CHOOSE i \in 1..n : header(i) = o)]
             @@ (end :> endRec) @@ at64 @@ atEnd64 @@ atComment,
      ambiguous |-> l.lookalike = "fits",
      exact |-> l.gap = 0,
      endsLen |-> total - ends,
      valid |-> /\ \A i \in 1..n : es[i].valid
                /\ l.lookalike = "no" /\ l.damage = "no"
                /\ l.gap > 0 => n > 0 /\ org = l.prefix
                /\ is64 => org = l.prefix,
      means |-> [err |-> "nil", base |-> l.prefix - org, comment |-> l.comment,
                 files |-> [i \in 1..n |->
                   [name |-> i, usize |-> es[i].usize, csize |-> es[i].csize, off |-> l.prefix + 2 * (i - 1),
                    modified |-> es[i].modified, nonUTF8 |-> es[i].nonUTF8]]]]

Simple ==
  [prefix |-> 0, adjusted |-> FALSE, gap |-> 0, zip64 |-> "no", comment |-> 0, lookalike |-> "no", damage |-> "no"]

Layouts ==
  {l \in [prefix : {0, 1}, adjusted : BOOLEAN, gap : {0, 2}, zip64 : {"no", "all", "offset"},
          comment : {0, 7}, lookalike : {"no", "fits", "cut"}, damage : {"no"}] :
     (l.adjusted => l.prefix > 0) /\ (l.lookalike # "no" => l.comment = 7)}

Damages ==
  [prefix : {0, 1}, adjusted : {FALSE}, gap : {0}, zip64 : {"no", "all", "offset"}, comment : {0},
   lookalike : {"no"},
   damage : {"count", "count mod 8", "size", "disks", "position", "huge position", "no end64",
             "huge size", "huge offset"}]

Archives ==
  {ZipFile(Simple, es) : es \in SeqOf({Plain, Large, Far, Largest32, Lacks64}, 2)}
  \cup {ZipFile(l, es) : l \in Layouts, es \in {<<>>, <<Plain>>, <<Far, Plain>>}}
  \cup {ZipFile(l, <<Plain, Plain>>) : l \in Damages}

-----------------------------------------------------------------------------
(* Streams of the entries of a zip file, cut off or spoilt.                *)

Whole ==
  [method |-> "deflate", cells |-> <<<<"a">>>>, data |-> <<"a", "a">>, crc |-> <<"a", "a">>,
   hasDesc |-> FALSE, hasSig |-> FALSE, varLen |-> 1, localLen |-> 1, cut |-> 20, spoilt |-> 0,
   tail |-> "EOF"]
Unsupported == [Whole EXCEPT !.method = "other"]
Stored == [Whole EXCEPT !.method = "store", !.cells = <<<<"a">>, <<"b">>>>, !.data = <<"a", "b">>, !.crc = <<"a", "b">>]
Nothing == [Whole EXCEPT !.cells = <<>>, !.data = <<>>, !.crc = <<>>]

Described(e) ==
  {e, [e EXCEPT !.crc = <<>>], [e EXCEPT !.hasDesc = TRUE], [e EXCEPT !.hasDesc = TRUE, !.hasSig = TRUE]}

Handed(e) ==
  {[e EXCEPT !.localLen = n] : n \in 0..3}
  \cup {[e EXCEPT !.cut = n, !.tail = err] : n \in 0..8, err \in {"EOF", "broken"}}
  \cup {[e EXCEPT !.spoilt = n] : n \in 1..8}

\* One handle with every stream, and two that share flate readers.
Entries ==
  {[h \in Handle |-> IF h = CHOOSE g \in Handle : TRUE THEN e ELSE Unsupported] :
     e \in UNION {Handed(d) : d \in UNION {Described(x) : x \in {Whole, Stored, Nothing}}}}
  \cup {[h \in Handle |-> Whole]}

-----------------------------------------------------------------------------
(* Bytes to replace: any two pairs of short ones, and longer ones that the *)
(* trie splits in every way.                                               *)

Subjects ==
  {<<>>, <<1>>, <<1, 2>>, <<3, 1>>, <<2, 1, 1>>, <<1, 1, 2>>, <<1, 1, 1>>, <<1, 1, 1, 2>>, <<1, 2, 2, 1, 1>>}

Jobs ==
  [pairs : SeqOf([old : SeqOf({1, 2}, 2), new : {<<>>, <<1>>, <<2, 2>>}], 2), s : Subjects, room : 0..2]
  \cup [pairs : [1..3 -> [old : {<<1>>, <<1, 1>>, <<2, 1>>, <<1, 1, 1>>, <<1, 1, 2>>, <<1, 2, 2>>},
                          new : {<<2, 1>>}]], s : Subjects, room : {1}]

Contents == {<<>>, <<1>>, <<1, 2, 3>>}

-----------------------------------------------------------------------------
\* A part that is left alone has no state.
AllInit ==
  /\ part \in {"reader", "toc", "body", "replace", "ring", "tracker", "cache"}
  /\ IF part = "reader" THEN Util!Init
     ELSE /\ kind = None /\ parts = None /\ content = None /\ size = None /\ rpos = None
          /\ count = None /\ fakePos = None /\ realPos = None /\ buf = None /\ res = None
  /\ IF part = "toc" THEN Init ELSE zip = None /\ footer = None /\ tocSize = None /\ toc = None
  /\ IF part = "body" THEN Body!Init ELSE entry = None /\ hd = None /\ fpool = None
  /\ IF part = "replace" THEN Replacer!Init
     ELSE /\ job = None /\ r = None /\ array = None /\ slen = None /\ turn = None /\ dst = None
          /\ dlen = None /\ grown = None /\ at = None
  /\ IF part = "ring" THEN Rings!Init
     ELSE /\ ring = None /\ written = None /\ N = None /\ prefix = None /\ suffix = None
          /\ suffixOff = None /\ skipped = None /\ s1 = None /\ s2 = None /\ window = None /\ wofs = None
  /\ IF part = "tracker" THEN Tracker!Init
     ELSE /\ pc = None /\ depth = None /\ writer = None /\ nread = None /\ nwaitr = None
          /\ nwaitw = None /\ nhaver = None /\ nhavew = None /\ holder = None /\ holdr = None
          /\ warned = None /\ late = None /\ handed = None /\ fatal = None
  /\ IF part = "cache" THEN Cache!Init
     ELSE /\ fsys = None /\ file = None /\ issued = None /\ expired = None /\ cl = None
          /\ shared = None /\ torn = None

AllNext ==
  \/ /\ part = "reader" /\ Util!Next
     /\ UNCHANGED <<part, tocVars, zipVars, replaceVars, windowVars, trackerVars, cacheVars>>
  \/ /\ part = "toc" /\ Next
     /\ UNCHANGED <<part, readerVars, zipVars, replaceVars, windowVars, trackerVars, cacheVars>>
  \/ /\ part = "body" /\ Body!Next
     /\ UNCHANGED <<part, readerVars, tocVars, replaceVars, windowVars, trackerVars, cacheVars>>
  \/ /\ part = "replace" /\ Replacer!Next
     /\ UNCHANGED <<part, readerVars, tocVars, zipVars, windowVars, trackerVars, cacheVars>>
  \/ /\ part = "ring" /\ Rings!Next
     /\ UNCHANGED <<part, readerVars, tocVars, zipVars, replaceVars, trackerVars, cacheVars>>
  \/ /\ part = "tracker" /\ Tracker!Next
     /\ UNCHANGED <<part, readerVars, tocVars, zipVars, replaceVars, windowVars, cacheVars>>
  \/ /\ part = "cache" /\ Cache!Next
     /\ UNCHANGED <<part, readerVars, tocVars, zipVars, replaceVars, windowVars, trackerVars>>

AllSpec == AllInit /\ [][AllNext]_allVars

Symmetry == Permutations(Proc) \cup Permutations(Client)

-----------------------------------------------------------------------------
\* readerutil's readers return the bytes at the offset the client believes in,
\* and fewer than asked for only with an error, whatever the order of its
\* seeks, reads and failures (Readers).
ReadersExact == part = "reader" => Util!ReadersExact

\* ParseTOC returns the files a zip file's writer meant, or an error, from
\* whatever footer; and no error for a valid file, from the suffix ZipTOCSize
\* asked for after it saw the end records (ZipToc).
TocExact == part = "toc" => TocAsMeant

\* "When the footer is found, the function reports ok=true and the total suffix
\* size needed to read the zip's table of contents" (ZipTOCSize).
FooterSuffices == part = "toc" => SuffixSuffices

\* A handle's reader hears io.EOF only after the data that was written, through
\* loss, damage and a racing Close, and hears it for every whole stream; flate
\* readers have one owner and raw readers are closed, however Read and one or
\* two Closes of the handles interleave (ZipRead).
EntriesSound == part = "body" => Body!BodyExact /\ Body!HandlesSound

\* Replace returns what the pairs say, though it overwrites what it reads
\* (ByteReplacer).
ReplaceExact == part = "replace" => Replacer!ReplaceExact

\* PrefixSuffixSaver and RollSum know the last bytes of a stream, however it
\* came in and however often their rings and sums wrapped (Window).
RingsExact == part = "ring" => Rings!SaverExact /\ Rings!RollExact

\* RWMutexTracker's counters and holders agree with the mutex, wherever the
\* goroutines are in Lock, Unlock, RLock and RUnlock, the set of readers and
\* what is fatal as long as each releases its own (RWMutexTracker).
TrackerExact == part = "tracker" => Tracker!TrackerExact

\* RLock reports a read-write-read deadlock, unless the writer comes between
\* its check and mu.RLock (RWMutexTracker).
DeadlockReported == part = "tracker" => Tracker!DeadlockReported

\* Token returns no expired token and none made of two, however processes that
\* share a CacheFile read, write and die, as far as its file system can keep
\* that (TokenCache).
TokensSound == [][part = "cache" => Cache!TokensSound]_allVars
=============================================================================
