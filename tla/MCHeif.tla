------------------------------- MODULE MCHeif -------------------------------
(***************************************************************************)
(* Heif for TLC: HEIF files in the versions and with the irregularities    *)
(* that the code provides for. The writer follows the box layouts of       *)
(* ISO/IEC 14496-12, not the code.                                         *)
(***************************************************************************)
EXTENDS Heif

HvcC == FourCC(150)    \* a property that the code has no parser for
Brand == FourCC(151)
Other == FourCC(152)

Full(version, flags) == <<version, 0, 0, flags>>

\* ispe of 3 x 2, and irot by a quarter turn
PropBox == << <<HvcC, <<9, 9>>>>, <<Ispe, Full(0, 0) \o Number(4, 3) \o Number(4, 2)>>, <<Irot, <<5>>>> >>

Assoc(e, i) == [essential |-> e, index |-> i]

\* The associations: of image 1 and thumbnail 2, in one box; with indexes that
\* are not valid; in a second box that counts for item 2 only; for no item.
AssocBoxes(kind) ==
  LET one == [itemID |-> 1, associations |-> <<Assoc(TRUE, 1), Assoc(FALSE, 2), Assoc(TRUE, 3)>>]
      bad == [itemID |-> 1, associations |-> <<Assoc(TRUE, 0), Assoc(FALSE, 2), Assoc(TRUE, 4)>>]
      two == [itemID |-> 2, associations |-> <<Assoc(FALSE, 2)>>]
      turn == [itemID |-> 1, associations |-> <<Assoc(TRUE, 3)>>]
      Entries(s) == [kind |-> Ipma, entries |-> s]
  IN CASE kind = "one" -> <<Entries(<<one, two>>)>>
       [] kind = "bad" -> <<Entries(<<bad, two>>)>>
       [] kind = "two" -> <<Entries(<<one>>), Entries(<<turn, two>>)>>
       [] kind = "no" -> <<Entries(<<>>)>>

\* The valid indexes, the essential flags and the dimensions of items 1 and 2.
Expect(kind, id) ==
  CASE kind = "no" \/ id \notin {1, 2} -> [props |-> <<>>, essential |-> <<>>, dims |-> <<0, 0>>]
    [] id = 2 -> [props |-> <<2>>, essential |-> <<FALSE>>, dims |-> <<3, 2>>]
    [] kind = "bad" -> [props |-> <<2>>, essential |-> <<FALSE>>, dims |-> <<3, 2>>]
    [] OTHER -> [props |-> <<1, 2, 3>>, essential |-> <<TRUE, FALSE, TRUE>>, dims |-> <<2, 3>>]

\* The items of a file.
RawItems(kind, parts, firstType, exif) ==
  << [id |-> 1, typ |-> firstType, parts |-> parts],
     [id |-> 2, typ |-> Hvc1, parts |-> << <<5>> >>],
     [id |-> 3, typ |-> Exif, parts |-> exif] >>

\* Where extent j of item i starts in the data.
Start(items, i, j) ==
  Len(FlattenSeq([k \in 1..(i - 1) |-> FlattenSeq(items[k].parts)]))
  + Len(FlattenSeq(SubSeq(items[i].parts, 1, j - 1)))

\* The location entries, with the data at off. Version 0 has no base offset. An
\* item is in the file, in idat or elsewhere, at an offset from the beginning of
\* that, or has no entry; in the file it may have no extents, one whose offset
\* overflows, by one, or is beyond every file, or one that means the rest.
Locs(version, where, items, off) ==
  LET base == IF version = 0 THEN 0 ELSE off
      Entry(i) ==
        LET w == where[i]
            start == off + Start(items, i, 1)
        IN [itemID |-> items[i].id,
            constructionMethod |-> IF w = "idat" THEN 1 ELSE 0,
            dataReferenceIndex |-> IF w = "elsewhere" THEN 1 ELSE 0,
            baseOffset |-> CASE w = "wrap" -> MaxUint64
                             [] w \in {"idat", "elsewhere"} -> 0
                             [] OTHER -> base,
            extents |->
              CASE w = "empty" -> <<>>
                [] w = "wrap" -> << [offset |-> start, length |-> Len(items[i].parts[1])] >>
                [] w = "far" -> << [offset |-> MaxInt64, length |-> Len(items[i].parts[1])] >>
                [] w = "zero" -> << [offset |-> start - base, length |-> 0] >>
                [] OTHER -> [j \in DOMAIN items[i].parts |->
                               [offset |-> (IF w = "file" THEN off - base ELSE 0) + Start(items, i, j),
                                length |-> Len(items[i].parts[j])]]]
      Located(i) == where[i] # "nowhere"
      ids == SelectSeq([i \in DOMAIN items |-> i], Located)
  IN [k \in DOMAIN ids |-> Entry(ids[k])]

WriteIloc(version, locs) ==
  LET os == IF version = 2 THEN 8 ELSE 4
      xs == IF version = 2 THEN 4 ELSE 0
      bs == IF version = 0 THEN 0 ELSE os
      is == IF version = 2 THEN 4 ELSE 2
      Extent(e) == Number(xs, 0) \o Number(os, e.offset) \o Number(os, e.length)
      Entry(e) == Number(is, e.itemID)
                  \o (IF version = 0 THEN <<>> ELSE Number(2, e.constructionMethod))
                  \o Number(2, e.dataReferenceIndex) \o Number(bs, e.baseOffset)
                  \o Number(2, Len(e.extents))
                  \o FlattenSeq([i \in DOMAIN e.extents |-> Extent(e.extents[i])])
  IN box(Iloc, Full(version, 0) \o <<16 * os + os, 16 * bs + xs>> \o Number(is, Len(locs))
               \o FlattenSeq([i \in DOMAIN locs |-> Entry(locs[i])]))

WriteIpma(version, ipma) ==
  LET One(a) == (IF version = 1 THEN <<IF a.essential THEN 128 ELSE 0, a.index>>
                 ELSE <<IF a.essential THEN 128 + a.index ELSE a.index>>)
      Entry(e) == Number(IF version = 0 THEN 2 ELSE 4, e.itemID) \o <<Len(e.associations)>>
                  \o FlattenSeq([i \in DOMAIN e.associations |-> One(e.associations[i])])
  IN box(Ipma, Full(version, version) \o Number(4, Len(ipma.entries))
               \o FlattenSeq([i \in DOMAIN ipma.entries |-> Entry(ipma.entries[i])]))

WriteIref(version, refs) ==
  LET w == IF version = 0 THEN 2 ELSE 4
      Ref(r) == box(r.typ, Number(w, r.fromItemID) \o Number(2, Len(r.toItemIDs))
                           \o FlattenSeq([i \in DOMAIN r.toItemIDs |-> Number(w, r.toItemIDs[i])]))
  IN box(Iref, Full(version, 0) \o FlattenSeq([i \in DOMAIN refs |-> Ref(refs[i])]))

WriteInfe(it) == box(Infe, Full(2, 0) \o Number(2, it.id) \o Number(2, 0) \o it.typ
                             \o (IF it.typ = Mime THEN <<0, 7, 0>> ELSE <<0>>))

\* Boxes that getMeta parses and does not use.
Others ==
  LET dref == Full(0, 0) \o Number(4, 1) \o box(Other, <<7>>)
      value == Number(4, 1) \o Number(4, 2) \o <<6, 7>>
      Child(typ, body) == [typ |-> typ, size |-> 8 + Len(body), offset |-> 0, headerSize |-> 8,
                           body |-> body]
  IN << [typ |-> Dinf, body |-> box(Dref, dref), says |-> [kind |-> Dinf, children |-> <<Child(Dref, dref)>>]],
        [typ |-> Dref, body |-> dref,
         says |-> [kind |-> Dref, entryCount |-> 1, children |-> <<Child(Other, <<7>>)>>]],
        [typ |-> Mvhd, body |-> Full(0, 0) \o Number(4, 1) \o Number(4, 2) \o Number(4, 3) \o Number(4, 4),
         says |-> [kind |-> Mvhd, creationTime |-> 1, modificationTime |-> 2, timeScale |-> 3, duration |-> 4]],
        [typ |-> Mvhd, body |-> Full(1, 0) \o Number(8, 1) \o Number(8, 2) \o Number(4, 3) \o Number(8, 4),
         says |-> [kind |-> Mvhd, creationTime |-> 1, modificationTime |-> 2, timeScale |-> 3, duration |-> 4]],
        [typ |-> Keys, body |-> Full(0, 0) \o Number(4, 2) \o Number(4, 10) \o Other \o <<4, 5>>
                                \o Number(4, 8) \o Brand,
         says |-> [kind |-> Keys, keys |-> << [namespace |-> Other, name |-> <<4, 5>>],
                                            [namespace |-> Brand, name |-> <<>>] >>]],
        [typ |-> Ilst, body |-> box(<<0, 0, 0, 2>>, box(Other, <<1>>) \o box(Data, value)),
         says |-> [kind |-> Ilst,
                   items |-> << [keyIndex |-> 2,
                                 data |-> << [kind |-> Data, dataType |-> 1, locale |-> 2,
                                              value |-> <<6, 7>>] >>] >>]] >>

\* The meta box, with a hdlr that QuickTime may start with, and behind it a box
\* of a type that the code does not know, or boxes that getMeta does not use.
WriteMeta(version, items, locs, assoc, refs, quickTime, others) ==
  LET v1 == IF version = 0 THEN 0 ELSE 1
      hdlr == box(Hdlr, Number(8, 0) \o Pict \o Number(12, 0) \o (IF quickTime THEN <<>> ELSE <<0>>))
      pitm == box(Pitm, Full(v1, 0) \o Number(IF v1 = 0 THEN 2 ELSE 4, 1))
      iinf == box(Iinf, Full(0, 0) \o Number(2, Len(items))
                        \o FlattenSeq([i \in DOMAIN items |-> WriteInfe(items[i])]))
      ipco == box(Ipco, FlattenSeq([i \in DOMAIN PropBox |-> box(PropBox[i][1], PropBox[i][2])]))
      iprp == box(Iprp, ipco \o FlattenSeq([i \in DOMAIN assoc |-> WriteIpma(v1, assoc[i])]))
  IN box(Meta, (IF quickTime THEN <<>> ELSE Full(0, 0)) \o hdlr
               \o (IF others = <<>> THEN box(Other, <<0>>)
                   ELSE FlattenSeq([i \in DOMAIN others |-> box(others[i].typ, others[i].body)]))
               \o pitm \o iinf \o WriteIloc(version, locs) \o iprp \o WriteIref(v1, refs))

\* A file and what it was written from.
Write(version, where, kind, parts, firstType, exif, odd) ==
  LET others == IF odd = "others" THEN Others ELSE <<>>
      quickTime == odd = "QuickTime"
      raw == RawItems(kind, parts, firstType, exif)
      assoc == AssocBoxes(kind)
      refs == << [typ |-> Thmb, fromItemID |-> 2, toItemIDs |-> <<1>>],
                 [typ |-> Thmb, fromItemID |-> IF odd = "dangling" THEN 4 ELSE 1, toItemIDs |-> <<3, 2>>],
                 [typ |-> Other, fromItemID |-> 3, toItemIDs |-> <<1>>] >>
      ftyp == box(Ftyp, Brand \o Number(4, 0) \o Mif1 \o <<1, 1>>)
      meta0 == WriteMeta(version, raw, Locs(version, where, raw, 100), assoc, refs, quickTime, others)
      off == Len(ftyp) + Len(meta0) + 8
      locs == Locs(version, where, raw, off)
      LocOf(i) == LET Is(e) == e.itemID = raw[i].id
                      l == SelectSeq(locs, Is)
                  IN IF l = <<>> THEN [extents |-> <<>>] ELSE l[1]
      Item(i) == [id |-> raw[i].id, typ |-> raw[i].typ, parts |-> raw[i].parts, loc |-> LocOf(i),
                  stored |-> where[i] = "file",
                  props |-> Expect(kind, raw[i].id).props,
                  essential |-> Expect(kind, raw[i].id).essential,
                  dims |-> Expect(kind, raw[i].id).dims]
      data == FlattenSeq([i \in DOMAIN raw |-> FlattenSeq(raw[i].parts)])
  IN [desc |-> [brand |-> Brand, primary |-> 1, items |-> [i \in DOMAIN raw |-> Item(i)],
                locs |-> locs, props |-> PropBox, assoc |-> assoc, refs |-> refs,
                others |-> others],
      bytes |-> ftyp \o WriteMeta(version, raw, locs, assoc, refs, quickTime, others) \o box(Mdat, data),
      whole |-> TRUE]

Image1 == << <<7, 8>> >>
Image2 == << <<7, 8>>, <<9>> >>
ImageLong == << <<7, 8, 9>>, <<7, 8>> >>    \* more than MaxItemDataSize
Exif1 == << <<0, 0, 0, 0, 6, 7>> >>

InFile == <<"file", "file", "file">>

\* How the first item or the EXIF item is stored, in the versions that can say so.
StorageFile ==
  {Write(v, [InFile EXCEPT ![i] = w], "one", Image1, Hvc1, Exif1, "none") :
     v \in 1..2, i \in {1, 3},
     w \in {"file", "idat", "elsewhere", "nowhere", "empty", "wrap", "far", "zero"}}

\* Associations, extents, types, references and QuickTime's meta box.
VariedFile ==
  {Write(v, InFile, kind, image[1], image[2], Exif1, odd) :
     v \in 0..2, kind \in {"one", "bad", "two", "no"}, odd \in {"none", "dangling", "QuickTime", "others"},
     image \in {<<Image1, Hvc1>>, <<Image2, Hvc1>>, <<ImageLong, Hvc1>>, <<Image1, Grid>>, <<Image1, Mime>>}}

\* EXIF items of the wrong size, or in two extents.
ExifFile ==
  {Write(0, InFile, "one", Image1, Hvc1, exif, "none") :
     exif \in {<< <<1, 2, 3>> >>, << <<1, 2, 3, 4>> >>, << [i \in 1..9 |-> i] >>, << <<1, 2, 3, 4>>, <<5>> >>}}

\* A file cut off anywhere.
CutFile ==
  UNION {{[file EXCEPT !.bytes = Take(@, k), !.whole = FALSE] : k \in 0..(Len(file.bytes) - 1)} :
           file \in {Write(0, InFile, "two", Image2, Hvc1, Exif1, "others"),
                     Write(2, InFile, "two", Image2, Hvc1, Exif1, "none")}}

MCFile == StorageFile \cup VariedFile \cup ExifFile \cup CutFile

PropOf(i, e) == [box |-> box(PropBox[i][1], PropBox[i][2]), essential |-> e]

\* Arguments of EncodeImage: a brand that is not four bytes, a property that is
\* not a box, data that is empty, or too long for 32-bit offsets.
MCImage ==
  {[brand |-> Brand, itemType |-> Hvc1, props |-> p, data |-> d] :
     p \in {<<>>, <<PropOf(2, FALSE), PropOf(1, TRUE)>>}, d \in {<<>>, <<7, 8, 9>>}}
  \cup {[brand |-> <<1>>, itemType |-> Hvc1, props |-> <<>>, data |-> <<7>>],
        [brand |-> Brand, itemType |-> Hvc1, data |-> <<7>>,
         props |-> <<[box |-> Number(4, 9) \o HvcC, essential |-> FALSE]>>],
        [brand |-> Brand, itemType |-> Hvc1, props |-> <<>>, data |-> [i \in 1..MaxUint32 |-> 7]]}
=============================================================================
