------------------------------- MODULE Window -------------------------------
(***************************************************************************)
(* Two ring buffers over a stream of bytes: writerutil.PrefixSuffixSaver,  *)
(* which keeps both ends of it, and rollsum.RollSum, a checksum of its last *)
(* bytes. Sizes and the width of words are scaled.                         *)
(***************************************************************************)
EXTENDS Integers, SequencesExt

CONSTANTS
  MaxN,        \* the largest N of a PrefixSuffixSaver
  MaxWritten   \* the longest stream

VARIABLES
  ring,      \* "saver" or "rollsum"
  written,   \* history: the stream
  N, prefix, suffix, suffixOff, skipped,   \* PrefixSuffixSaver
  s1, s2, window, wofs                     \* RollSum

saverVars == <<prefix, suffix, suffixOff, skipped>>
rollVars == <<s1, s2, window, wofs>>
windowVars == <<ring, written, N, saverVars, rollVars>>

windowSize == 4
charOffset == 31
blobBits == 1
Word == 2^8   \* uint32
Half == 2^4   \* the 16 bits of each sum in a digest

uint32(n) == n % Word

\* rollsum.New
New ==
  /\ s1 = uint32(windowSize * charOffset)
  /\ s2 = uint32(windowSize * (windowSize - 1) * charOffset)
  /\ window = [k \in 0..(windowSize - 1) |-> 0]
  /\ wofs = 0

Init ==
  /\ ring \in {"saver", "rollsum"}
  /\ written = <<>>
  /\ N \in IF ring = "saver" THEN 0..MaxN ELSE {0}
  /\ prefix = <<>> /\ suffix = <<>> /\ suffixOff = 0 /\ skipped = 0
  /\ New

-----------------------------------------------------------------------------
(* Slips the properties below must catch; no specification uses them.      *)

\* The bytes of a Write that are too many for the suffix are not counted.
skippedOverwritten(overage, n) == skipped + n

-----------------------------------------------------------------------------
\* fill: dst with as many of p as it has room for, and the rest of p.
fill(dst, p) ==
  LET n == Max({0, Min({Len(p), N - Len(dst)})})
  IN [dst |-> dst \o SubSeq(p, 1, n), rest |-> SubSeq(p, n + 1, Len(p))]

skippedAfter(overage, n) == skipped + overage + n

\* PrefixSuffixSaver.Write
Write(p) ==
  LET first == fill(prefix, p)
      overage == Max({0, Len(first.rest) - N})
      last == fill(suffix, SubSeq(first.rest, overage + 1, Len(first.rest)))
      n == Len(last.rest)
  IN /\ ring = "saver"
     /\ prefix' = first.dst
     /\ suffix' = [k \in DOMAIN last.dst |->
                     LET back == (k - 1 - suffixOff + N) % N
                     IN IF back < n THEN last.rest[back + 1] ELSE last.dst[k]]
     /\ suffixOff' = IF N = 0 THEN 0 ELSE (suffixOff + n) % N
     /\ skipped' = skippedAfter(overage, n)
     /\ written' = written \o p
     /\ UNCHANGED <<ring, N, rollVars>>

Omitting(n) == <<"... omitting n bytes ...", n>>

\* PrefixSuffixSaver.Bytes
Bytes ==
  IF suffix = <<>> THEN prefix
  ELSE IF skipped = 0 THEN prefix \o suffix
  ELSE prefix \o Omitting(skipped) \o SubSeq(suffix, suffixOff + 1, Len(suffix))
       \o SubSeq(suffix, 1, suffixOff)

-----------------------------------------------------------------------------
\* RollSum.Roll, with add.
Roll(ch) ==
  /\ ring = "rollsum"
  /\ s1' = uint32(s1 + ch - window[wofs])
  /\ s2' = uint32(s2 + s1' - windowSize * (window[wofs] + charOffset))
  /\ window' = [window EXCEPT ![wofs] = ch]
  /\ wofs' = (wofs + 1) % windowSize
  /\ written' = Append(written, ch)
  /\ UNCHANGED <<ring, N, saverVars>>

\* x with its n low bits only.
Low(x, n) == x % (2^n)

OnSplitWithBits(n) == Low(s2, n) = 2^n - 1
OnSplit == OnSplitWithBits(blobBits)

\* s1 << 16 | s2 & 0xffff
Digest == uint32(s1 * Half) + (s2 % Half)

\* blobBits and the trailing ones of the digest above blobBits + 1 bits.
Bits ==
  LET rsum == Digest \div 2^(blobBits + 1)
  IN blobBits + Max({n \in 0..8 : Low(rsum, n) = 2^n - 1})

Next ==
  \/ \E n \in 0..(MaxWritten - Len(written)) : Write([k \in 1..n |-> Len(written) + k])
  \/ Len(written) < MaxWritten /\ \E ch \in {0, 1, 255} : Roll(ch)

-----------------------------------------------------------------------------
\* "retains the first N bytes and the last N bytes written to it", whatever
\* the sizes of the Writes, and counts the others: a stream of up to 2N bytes
\* comes back whole. (An N of 0 keeps nothing.)
SaverExact ==
  ring = "saver" =>
    Bytes = IF N = 0 THEN <<>>
            ELSE IF Len(written) <= 2 * N THEN written
            ELSE SubSeq(written, 1, N) \o Omitting(Len(written) - 2 * N)
                 \o SubSeq(written, Len(written) - N + 1, Len(written))

\* The last windowSize bytes, the newest first, as if zeros had come before.
Newest(k) == IF k <= Len(written) THEN written[Len(written) - k + 1] ELSE 0

\* The sum of f over 1..windowSize.
Over(f(_)) == f(1) + f(2) + f(3) + f(4)

\* The sums are those of the last windowSize bytes, each with charOffset and in
\* s2 weighted by its age, modulo the width of a word, however long the stream
\* and however often they wrapped: where a stream is split depends on nothing
\* earlier. More bits of a split give it more Bits.
RollExact ==
  ring = "rollsum" =>
    /\ s1 = uint32(Over(LAMBDA k : Newest(k) + charOffset))
    /\ LET start == windowSize * (windowSize - 1) - Over(LAMBDA k : k)
       IN s2 = uint32(start * charOffset + Over(LAMBDA k : k * (Newest(k) + charOffset)))
    /\ \A n \in 0..2 : OnSplitWithBits(blobBits + 1 + n) => OnSplit /\ Bits >= blobBits + n
=============================================================================
