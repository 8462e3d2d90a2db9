---------------------------- MODULE ByteReplacer ----------------------------
(***************************************************************************)
(* Package bytereplacer: New builds a table or a trie, and Replace rewrites *)
(* a slice in its own array, as long as that has room. A step of Replace is *)
(* one turn of its loop: it reads what is left of s and writes what comes   *)
(* out to the same array, so that what it reads may be what it has written. *)
(***************************************************************************)
EXTENDS Integers, SequencesExt

CONSTANTS
  Job,    \* what may be asked for: the old, new pairs, s and the room behind it
  Byte    \* the bytes there are

VARIABLES
  job,       \* [pairs, s, room]
  r,         \* the genericReplacer's trie, <<>> before New
  array,     \* the array of s; its length is cap(s)
  slen,      \* len(s)
  turn,      \* [i, last, prevMatchEmpty]
  dst,       \* the array of dst, if that is another one, up to its length
  dlen,      \* len(dst)
  grown,
  at         \* "new", "loop", "done"

replaceVars == <<job, r, array, slen, turn, dst, dlen, grown, at>>

Filler == 0   \* what is behind s in its array

Init ==
  /\ job \in Job
  /\ r = <<>>
  /\ array = job.s \o [k \in 1..job.room |-> Filler]
  /\ slen = Len(job.s)
  /\ turn = [i |-> 0, last |-> 0, prevMatchEmpty |-> FALSE]
  /\ dst = <<>> /\ dlen = 0 /\ grown = FALSE
  /\ at = "new"

-----------------------------------------------------------------------------
(* Slips the properties below must catch; no specification uses them.      *)

\* The replacement is written before what follows has moved back.
insertedFirst(a, n, val, keylen) ==
  LET b == [k \in DOMAIN a |-> IF k \in (n + 1)..(n + Len(val)) THEN val[k - n] ELSE a[k]]
      to == turn.i + Len(val)
  IN [k \in DOMAIN b |-> IF k \in (to + 1)..(to + slen - turn.i - keylen)
                         THEN b[k - Len(val) + keylen] ELSE b[k]]

-----------------------------------------------------------------------------
\* mapping and tableSize of a genericReplacer.
keyBytes == UNION {Range(job.pairs[k].old) : k \in DOMAIN job.pairs}
tableSize == Cardinality(keyBytes)
mapping(b) ==
  IF b \in keyBytes THEN Cardinality({c \in keyBytes : c < b}) ELSE tableSize

\* A trie is a function from the places of its trieNodes, the mapped bytes that
\* lead there: the next node is at the end of the prefix, and those of a table
\* are one byte further.
Node == [value |-> <<>>, priority |-> 0, prefix |-> <<>>, hasTable |-> FALSE]

commonPrefix(p, q) == Max({n \in 0..Min({Len(p), Len(q)}) : SubSeq(p, 1, n) = SubSeq(q, 1, n)})
From(p, n) == SubSeq(p, n + 1, Len(p))
mapped(p) == [k \in DOMAIN p |-> mapping(p[k])]

\* trieNode.add, up to the next call of itself, for a key that is not empty: the
\* trie with the node that call is for, and what is left of the key. The key
\* follows the prefix, which may be split after n bytes, or a table.
addStep(w) ==
  LET t == w.trie[w.place]
      n == commonPrefix(t.prefix, w.key)
      makesTable == t.prefix # <<>> /\ n = 0
      isTable == t.hasTable \/ makesTable
      k == IF n > 0 THEN n ELSE IF isTable THEN 1 ELSE Len(w.key)
      to(p) == w.place \o mapped(p)
      node == [t EXCEPT !.hasTable = isTable, !.prefix = IF isTable THEN <<>> ELSE SubSeq(w.key, 1, k)]
      cutAt == IF n > 0 THEN n ELSE 1
      rest == IF t.prefix = <<>> THEN <<>>
              ELSE to(SubSeq(t.prefix, 1, cutAt)) :> [Node EXCEPT !.prefix = From(t.prefix, cutAt)]
      next == to(SubSeq(w.key, 1, k))
  IN [trie |-> (w.place :> node) @@ w.trie @@ rest @@ (next :> Node), place |-> next, key |-> From(w.key, k)]

\* trieNode.add from the root: the trie with key added.
add(trie, key, val, priority) ==
  LET w == FoldLeft(LAMBDA v, b : IF v.key = <<>> THEN v ELSE addStep(v),
                    [trie |-> trie, place |-> <<>>, key |-> key], key)
  IN IF w.trie[w.place].priority = 0
     THEN [w.trie EXCEPT ![w.place].value = val, ![w.place].priority = priority]
     ELSE w.trie

\* The node after t of trie that leads on to q, as a set.
nextPlace(trie, place, q) ==
  LET t == trie[place] IN
  IF q = <<>> THEN {}
  ELSE IF t.hasTable THEN {place \o <<mapping(q[1])>>} \cap DOMAIN trie
  ELSE IF t.prefix # <<>> /\ IsPrefix(t.prefix, q) THEN {place \o mapped(t.prefix)} ELSE {}

\* genericReplacer.lookup of q: the node of highest priority on the way down the
\* trie, which is as long as the place it leads to.
lookup(trie, q, ignoreRoot) ==
  LET visit(best, place) ==
        IF trie[place].priority > best.priority /\ ~(ignoreRoot /\ place = <<>>)
        THEN [priority |-> trie[place].priority, val |-> trie[place].value, keylen |-> Len(place)]
        ELSE best
      down[place \in DOMAIN trie, best \in [priority : Nat, val : Seq(Byte), keylen : Nat]] ==
        LET next == nextPlace(trie, place, From(q, Len(place)))
        IN IF next = {} THEN visit(best, place)
           ELSE down[CHOOSE p \in next : TRUE, visit(best, place)]
  IN down[<<>>, [priority |-> 0, val |-> <<>>, keylen |-> 0]]

allBytes == \A k \in DOMAIN job.pairs : Len(job.pairs[k].old) = 1 /\ Len(job.pairs[k].new) = 1

\* byteReplacer: "The first occurrence of old->new map takes precedence".
byteTable ==
  [b \in Byte |->
     LET ks == {k \in DOMAIN job.pairs : job.pairs[k].old = <<b>>}
     IN IF ks = {} THEN b ELSE job.pairs[Min(ks)].new[1]]

\* The root with the pairs added, the first with the highest priority.
makeGenericReplacer ==
  FoldLeftDomain(LAMBDA t, k :
      add(t, job.pairs[k].old, job.pairs[k].new, 2 * (Len(job.pairs) - k + 1)),
    <<>> :> [Node EXCEPT !.hasTable = TRUE], job.pairs)

New ==
  /\ at = "new"
  /\ at' = "loop"
  /\ r' = IF allBytes THEN <<>> ELSE makeGenericReplacer
  /\ UNCHANGED <<job, array, slen, turn, dst, dlen, grown>>

-----------------------------------------------------------------------------
\* byteReplacer.Replace
ReplaceBytes ==
  /\ at = "loop" /\ allBytes
  /\ array' = [k \in DOMAIN array |-> IF k <= slen THEN byteTable[array[k]] ELSE array[k]]
  /\ dlen' = slen
  /\ at' = "done"
  /\ UNCHANGED <<job, r, slen, turn, dst, grown>>

\* The array a with the bytes p from offset n on.
Put(a, n, p) == [k \in DOMAIN a |-> IF k \in (n + 1)..(n + Len(p)) THEN p[k - n] ELSE a[k]]

s == SubSeq(array, 1, slen)
i == turn.i

\* dst = append(dst, p...), while dst shares the array of s, and after.
AppendDst(p) ==
  /\ dlen' = dlen + Len(p)
  /\ IF grown THEN dst' = dst \o p /\ UNCHANGED array ELSE array' = Put(array, dlen, p) /\ UNCHANGED dst

found == lookup(r, From(s, i), turn.prevMatchEmpty)

\* "Fast path: s[i] is not a prefix of any pattern."
fastPath ==
  /\ i # slen /\ r[<<>>].priority = 0
  /\ <<mapping(s[i + 1])>> \notin DOMAIN r

Skip ==
  /\ at = "loop" /\ ~allBytes
  /\ i <= slen
  /\ \/ fastPath /\ turn' = [turn EXCEPT !.i = @ + 1]
     \/ /\ ~fastPath /\ found.priority = 0
        /\ turn' = [turn EXCEPT !.i = @ + 1, !.prevMatchEmpty = FALSE]
  /\ UNCHANGED <<job, r, array, slen, dst, dlen, grown, at>>

\* A replacement fits into the array, with so many more bytes.
fits(diff) == diff <= Len(array) - slen

\* A match whose replacement is shorter, or goes to a dst of its own.
Shrink ==
  /\ grown \/ Len(found.val) < found.keylen
  /\ AppendDst(SubSeq(s, turn.last + 1, i) \o found.val)
  /\ turn' = [i |-> i + found.keylen, last |-> i + found.keylen, prevMatchEmpty |-> found.keylen = 0]
  /\ UNCHANGED <<slen, grown>>

\* The array a after what follows the key has moved back for val, and val is
\* at n: dst may be behind s.
inserted(a, n, val, keylen) ==
  Put(Put(a, i + Len(val), SubSeq(a, i + keylen + 1, slen)), n, val)

\* A match whose replacement is as long or longer, and fits.
GrowInPlace ==
  LET val == found.val
      diff == Len(val) - found.keylen
      n == dlen + i - turn.last
  IN /\ ~grown /\ diff >= 0 /\ fits(diff)
     /\ array' = inserted(Put(array, dlen, SubSeq(s, turn.last + 1, i)), n, val, found.keylen)
     /\ dlen' = n + Len(val)
     /\ slen' = slen + diff
     /\ turn' = [i |-> i + Len(val), last |-> i + Len(val), prevMatchEmpty |-> found.keylen = 0]
     /\ UNCHANGED <<dst, grown>>

\* One that does not: dst gets an array of its own.
GrowOut ==
  LET before == Put(array, dlen, SubSeq(s, turn.last + 1, i))
      out == SubSeq(before, 1, dlen + i - turn.last) \o found.val
      diff == Len(found.val) - found.keylen
  IN /\ ~grown /\ diff >= 0 /\ ~fits(diff)
     /\ array' = before
     /\ dst' = out /\ dlen' = Len(out)
     /\ grown' = TRUE
     /\ turn' = [i |-> i + found.keylen, last |-> i + found.keylen, prevMatchEmpty |-> found.keylen = 0]
     /\ UNCHANGED slen

Match ==
  /\ at = "loop" /\ ~allBytes
  /\ i <= slen
  /\ ~fastPath /\ found.priority # 0
  /\ Shrink \/ GrowInPlace \/ GrowOut
  /\ UNCHANGED <<job, r, at>>

\* The rest of s is added, and dst returned.
Return ==
  /\ at = "loop" /\ ~allBytes
  /\ i > slen
  /\ AppendDst(From(s, turn.last))
  /\ at' = "done"
  /\ UNCHANGED <<job, r, slen, turn, grown>>

Next == New \/ ReplaceBytes \/ Skip \/ Match \/ Return

-----------------------------------------------------------------------------
\* What Replace should return, with from[k] from offset k on: "Replacements are performed
\* in order, without overlapping matches", the first pair that matches wins,
\* and an empty old does not match twice in one place.
Replaced ==
  LET fit(k, afterEmpty) ==
        {p \in DOMAIN job.pairs : /\ IsPrefix(job.pairs[p].old, From(job.s, k))
                                  /\ ~(afterEmpty /\ job.pairs[p].old = <<>>)}
      from[k \in Nat, afterEmpty \in BOOLEAN] ==
        IF fit(k, afterEmpty) # {}
        THEN LET pair == job.pairs[Min(fit(k, afterEmpty))]
             IN pair.new \o from[k + Len(pair.old), pair.old = <<>>]
        ELSE IF k < Len(job.s) THEN <<job.s[k + 1]>> \o from[k + 1, FALSE] ELSE <<>>
  IN from[0, FALSE]

\* Replace returns what should come out, though it writes to the array it
\* reads from and searches a trie that was split as keys came in; what it
\* writes never passes what it has yet to read, and it needs no other array
\* when no replacement is longer than what it replaces.
ReplaceExact ==
  /\ at = "done" => (IF grown THEN dst ELSE SubSeq(array, 1, dlen)) = Replaced
  /\ at = "loop" /\ ~grown => dlen <= i
  /\ grown => \E k \in DOMAIN job.pairs : Len(job.pairs[k].new) > Len(job.pairs[k].old)
=============================================================================
