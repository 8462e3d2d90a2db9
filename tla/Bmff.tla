-------------------------------- MODULE Bmff --------------------------------
(***************************************************************************)
(* The layout of an ISO base media file as media/heif/bmff/bmff.go reads   *)
(* it: box headers, and the boxes a stretch of input is made of.           *)
(*                                                                         *)
(* The input is a sequence of cells, one per byte, so that every size and  *)
(* offset of the code keeps its unit. A number of w bytes has its value in *)
(* the last of its w cells and 0 in the others; a number with another cell *)
(* set is larger than all that the code compares it with, and stands for   *)
(* MaxUint64. The limits of the integer types are scaled down.             *)
(***************************************************************************)
EXTENDS Integers, Sequences

CONSTANT MaxInt64   \* math.MaxInt64, scaled down; above the length of every input

ASSUME MaxInt64Assumption == MaxInt64 \in Nat \ {0}

MaxUint64 == 2 * MaxInt64 + 1

\* binary.BigEndian.UintN of the cells of a number.
Uint(cells) ==
  IF \A i \in 1..(Len(cells) - 1) : cells[i] = 0 THEN cells[Len(cells)] ELSE MaxUint64

\* A four-character code: its cells are not 0.
FourCC(k) == <<k, k, k, k>>

\* The cells of s after the first k, and the first k of them.
Drop(s, k) == SubSeq(s, k + 1, Len(s))
Take(s, k) == SubSeq(s, 1, k)

nil == "nil"   \* the nil error

-----------------------------------------------------------------------------
(* Reader.ReadBox, from the header's first byte on.                        *)

\* The header at the beginning of s: the error if there is none, or the box's
\* type, size and header size; toEnd if the box has size 0 and so extends to
\* the end of the input, else remain is the size of its body. io.ReadFull
\* says EOF if the input ends before the first byte of a field, and
\* ErrUnexpectedEOF within a field.
Header(s) ==
  LET size32 == Uint(SubSeq(s, 1, 4))
      large == size32 = 1
      hdr == IF large THEN 16 ELSE 8
      size == IF large THEN Uint(SubSeq(s, 9, 16)) ELSE size32
      toEnd == size32 = 0
      remain == IF toEnd THEN 0 ELSE size - hdr
      err == IF Len(s) < 8 THEN IF Len(s) \in {0, 4} THEN "EOF" ELSE "UnexpectedEOF"
             ELSE IF Len(s) < hdr THEN IF Len(s) = 8 THEN "EOF" ELSE "UnexpectedEOF"
             ELSE IF large /\ size > MaxInt64 THEN "unexpectedly large box"
             ELSE IF remain < 0 THEN "negative size remains"
             ELSE nil
  IN IF err # nil
     THEN [err |-> err, typ |-> <<>>, size |-> 0, headerSize |-> 0, toEnd |-> FALSE, remain |-> 0]
     ELSE [err |-> nil, typ |-> SubSeq(s, 5, 8), size |-> size, headerSize |-> hdr,
           toEnd |-> toEnd, remain |-> remain]

\* The cells that ReadBox consumed when it returned this error for the header.
Consumed(s) ==
  IF Len(s) < 8 THEN Len(s)
  ELSE IF Uint(SubSeq(s, 1, 4)) # 1 THEN 8
  ELSE IF Len(s) < 16 THEN Len(s) ELSE 16

-----------------------------------------------------------------------------
(* bufReader.parseAppendBoxes and box.readBody.                            *)

\* Where the box with header h at offset p of s ends: it may be cut short by
\* the end of the input.
BoxEnd(s, h, p) == IF h.toEnd \/ p + h.size > Len(s) THEN Len(s) ELSE p + h.size

\* That box, with its body read to memory.
BoxAt(s, h, p) ==
  [typ |-> h.typ, size |-> h.size, offset |-> p, headerSize |-> h.headerSize,
   body |-> SubSeq(s, p + h.headerSize + 1, BoxEnd(s, h, p))]

NoBoxes == [err |-> nil, boxes |-> <<>>]
Before(b, r) == [r EXCEPT !.boxes = <<b>> \o @]

\* The boxes of s from offset p on, where the header is h and from[q] are those
\* from a later offset q on. The end of the input ends the list; a box of size
\* 0 is the last one.
BoxesAt(s, h, p, from) ==
  IF h.err = "EOF" THEN NoBoxes
  ELSE IF h.err # nil THEN [NoBoxes EXCEPT !.err = h.err]
  ELSE Before(BoxAt(s, h, p), IF h.toEnd THEN NoBoxes ELSE from[BoxEnd(s, h, p)])

BoxesFrom(s) ==
  LET from[p \in 0..Len(s)] == BoxesAt(s, Header(Drop(s, p)), p, from)
  IN from

\* The boxes that s is made of.
Boxes(s) == BoxesFrom(s)[0]
=============================================================================
