---------------------------- MODULE MCBmffReader ----------------------------
(***************************************************************************)
(* BmffReader for TLC: inputs of up to two whole boxes and a last one of   *)
(* any kind, cut off at any point.                                         *)
(***************************************************************************)
EXTENDS BmffReader

CONSTANT MaxBody   \* the largest body

Body == {[i \in 1..k |-> 0] : k \in 0..MaxBody}

WithSize(size, body) == <<0, 0, 0, size>> \o FourCC(101) \o body
WithSize64(size, body) == <<0, 0, 0, 1>> \o FourCC(102) \o <<0, 0, 0, 0, 0, 0, 0, size>> \o body

\* A box whose size says where it ends.
Whole == {WithSize(8 + Len(b), b) : b \in Body} \cup {WithSize64(16 + Len(b), b) : b \in Body}

\* Whole boxes, boxes to the end of the file, boxes with too small a size and
\* boxes of more than 2^63 bytes.
LastBox ==
  Whole \cup {WithSize(0, b) : b \in Body} \cup {WithSize(7, <<>>)}
        \cup {WithSize64(k, <<>>) : k \in {0, 15, MaxInt64 + 1}}

MCInput ==
  {a \o b \o c : a \in Whole \cup {<<>>}, b \in Whole \cup {<<>>},
                c \in UNION {{Take(s, k) : k \in 0..Len(s)} : s \in LastBox}}
=============================================================================
