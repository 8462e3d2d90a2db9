----------------------------- MODULE BmffParse ------------------------------
(***************************************************************************)
(* The box parsers of media/heif/bmff (bmff.go and quicktime.go): what     *)
(* Parse makes of the body of a box. The sticky error of bufReader makes a *)
(* parser fail as a whole if one of its reads fails, so a parser is        *)
(* a function of the body that returns an error or a value.                *)
(***************************************************************************)
EXTENDS Bmff

\* The four-character codes that the parsers know. No file ends a string with
\* them, and none of their bytes is 0.
Data == FourCC(101)
Dinf == FourCC(102)
Dref == FourCC(103)
Ftyp == FourCC(104)
Hdlr == FourCC(105)
Iinf == FourCC(106)
Ilst == FourCC(107)
Infe == FourCC(108)
Iloc == FourCC(109)
Ipco == FourCC(110)
Ipma == FourCC(111)
Iprp == FourCC(112)
Iref == FourCC(113)
Irot == FourCC(114)
Ispe == FourCC(115)
Keys == FourCC(116)
Meta == FourCC(117)
Mvhd == FourCC(118)
Pitm == FourCC(119)

\* Item types that infe treats on their own.
Mime == FourCC(130)
Uri == FourCC(131)

Fail(e) == [err |-> e]
Ok(v) == [err |-> nil, v |-> v]

\* What is done with a result, unless it is an error.
Then(r, Op(_)) == IF r.err # nil THEN Fail(r.err) ELSE Op(r)

-----------------------------------------------------------------------------
(* bufReader: reads that return the value and what is left to read.        *)

\* A slip no specification uses: the error of a short read is not remembered.
fieldsForgets(s, ws) ==
  LET upTo[i \in 0..Len(ws)] ==
        IF i = 0 THEN [err |-> nil, v |-> <<>>, rest |-> s]
        ELSE LET p == upTo[i - 1]
                 w == ws[i]
             IN IF w = 0 \/ Len(p.rest) < w THEN [p EXCEPT !.v = Append(@, 0)]
                ELSE [p EXCEPT !.v = Append(@, Uint(Take(p.rest, w))), !.rest = Drop(@, w)]
  IN upTo[Len(ws)]

\* Big-endian numbers of ws[1], ws[2], ... bytes. A number of 0 bytes is 0.
fields(s, ws) ==
  LET upTo[i \in 0..Len(ws)] ==
        IF i = 0 THEN [err |-> nil, v |-> <<>>, rest |-> s]
        ELSE LET p == upTo[i - 1]
                 w == ws[i]
             IN IF p.err # nil THEN p
                ELSE IF w = 0 THEN [p EXCEPT !.v = Append(@, 0)]
                ELSE IF Len(p.rest) < w THEN [p EXCEPT !.err = "EOF"]
                ELSE IF w \notin {1, 2, 4, 8} THEN [p EXCEPT !.err = "invalid uintn read size"]
                ELSE [p EXCEPT !.v = Append(@, Uint(Take(p.rest, w))), !.rest = Drop(@, w)]
  IN upTo[Len(ws)]

\* n values, each read by One, as long as no read fails.
repeat(n, s, One(_)) ==
  LET Add(p, q) == [p EXCEPT !.v = Append(@, q.v), !.rest = q.rest]
      upTo[i \in 0..n] ==
        IF i = 0 THEN [err |-> nil, v |-> <<>>, rest |-> s]
        ELSE Then(upTo[i - 1], LAMBDA p : Then(One(p.rest), LAMBDA q : Add(p, q)))
  IN upTo[n]

\* A string up to the 0 that ends it, which is read too.
readString(s) ==
  IF \A i \in 1..Len(s) : s[i] # 0 THEN Fail("EOF")
  ELSE LET end == CHOOSE i \in 1..Len(s) : s[i] = 0 /\ \A j \in 1..(i - 1) : s[j] # 0
       IN [err |-> nil, v |-> Take(s, end - 1), rest |-> Drop(s, end)]

\* readFullBox: the version and the flags.
readFullBox(s) ==
  IF Len(s) < 4 THEN Fail("failed to read 4 bytes of FullBox")
  ELSE [err |-> nil, version |-> s[1], flags |-> Uint(<<0, s[2], s[3], s[4]>>), rest |-> Drop(s, 4)]

-----------------------------------------------------------------------------
(* Parsers of a body without boxes that are parsed in turn: of the body s, *)
(* or of what readFullBox returned for it.                                 *)

parseFileTypeBox(s) ==
  IF Len(s) < 8 THEN Fail("EOF")
  ELSE Ok([kind |-> Ftyp, majorBrand |-> Take(s, 4), minorVersion |-> SubSeq(s, 5, 8),
           compatible |-> [i \in 1..((Len(s) - 8) \div 4) |-> SubSeq(s, 4 * i + 5, 4 * i + 8)]])

\* A QuickTime meta box starts with its hdlr child, without version and flags.
parseMetaBox(s) ==
  LET quickTime == Len(s) >= 8 /\ SubSeq(s, 5, 8) = Hdlr
      Children(r) == Then(Boxes(r.rest), LAMBDA c :
                       Ok([kind |-> Meta, quickTime |-> quickTime, children |-> c.boxes]))
  IN Then(IF quickTime THEN [err |-> nil, rest |-> s] ELSE readFullBox(s), Children)

\* What follows the name of an infe: for mime the content type and an optional
\* content encoding, for uri the type.
infeStrings(typ, s) ==
  LET Encoding(ct) == IF ct.rest = <<>> THEN Ok(<<ct.v, <<>>, <<>>>>)
                      ELSE Then(readString(ct.rest), LAMBDA ce : Ok(<<ct.v, ce.v, <<>>>>))
  IN IF typ = Mime THEN Then(readString(s), Encoding)
     ELSE IF typ = Uri THEN Then(readString(s), LAMBDA u : Ok(<< <<>>, <<>>, u.v >>))
     ELSE Ok(<< <<>>, <<>>, <<>> >>)

\* The item type is peeked at and not discarded, so the name starts with it.
parseItemInfoEntry(fb) ==
  LET Entry(ids, typ, name, more) ==
        Ok([kind |-> Infe, itemID |-> ids.v[1], itemType |-> typ, name |-> name.v,
            contentType |-> more.v[1], contentEncoding |-> more.v[2], itemURIType |-> more.v[3]])
      Named(ids, typ) ==
        Then(readString(ids.rest), LAMBDA name :
          Then(infeStrings(typ, name.rest), LAMBDA more : Entry(ids, typ, name, more)))
  IN IF fb.version # 2 THEN Fail("only version 2 is supported")
     ELSE Then(fields(fb.rest, <<2, 2>>), LAMBDA ids :
            IF Len(ids.rest) < 4 THEN Fail("EOF") ELSE Named(ids, Take(ids.rest, 4)))

parseItemPropertyContainerBox(s) ==
  Then(Boxes(s), LAMBDA c : Ok([kind |-> Ipco, properties |-> c.boxes]))

\* Version 0 has 16-bit item ids, the lowest flag 15-bit indexes.
parseItemPropertyAssociation(fb) ==
  LET wide == fb.flags % 2 = 1
      Index(v) == IF wide THEN 256 * (v[1] % 128) + v[2] ELSE v[1] % 128
      One(t) == Then(fields(t, IF wide THEN <<1, 1>> ELSE <<1>>), LAMBDA f :
                  [f EXCEPT !.v = [essential |-> f.v[1] >= 128, index |-> Index(f.v)]])
      Entry(t) == Then(fields(t, <<IF fb.version < 1 THEN 2 ELSE 4, 1>>), LAMBDA h :
                    Then(repeat(h.v[2], h.rest, One), LAMBDA a :
                      [a EXCEPT !.v = [itemID |-> h.v[1], associations |-> a.v]]))
  IN Then(fields(fb.rest, <<4>>), LAMBDA n :
       Then(repeat(n.v[1], n.rest, Entry), LAMBDA entries :
         Ok([kind |-> Ipma, entries |-> entries.v])))

parseImageSpatialExtentsProperty(fb) ==
  Then(fields(fb.rest, <<4, 4>>), LAMBDA f : Ok([kind |-> Ispe, width |-> f.v[1], height |-> f.v[2]]))

\* The widths of the numbers are in the box itself. Versions 1 and 2 have a
\* construction method and extent indexes, version 2 has 32-bit item ids.
parseItemLocationBox(fb) ==
  LET sizes == Take(fb.rest, 2)
      indexSize == IF fb.version > 0 THEN sizes[2] % 16 ELSE 0
      idSize == IF fb.version < 2 THEN 2 ELSE 4
      methodSize == IF fb.version > 0 THEN 2 ELSE 0
      Extent(t) == Then(fields(t, <<indexSize, sizes[1] \div 16, sizes[1] % 16>>), LAMBDA f :
                     [f EXCEPT !.v = [offset |-> f.v[2], length |-> f.v[3]]])
      Entry(t) == Then(fields(t, <<idSize, methodSize, 2, sizes[2] \div 16, 2>>), LAMBDA h :
                    Then(repeat(h.v[5], h.rest, Extent), LAMBDA x :
                      [x EXCEPT !.v = [itemID |-> h.v[1], constructionMethod |-> h.v[2] % 16,
                                       dataReferenceIndex |-> h.v[3], baseOffset |-> h.v[4],
                                       extents |-> x.v]]))
  IN IF Len(fb.rest) < 4 THEN Fail("EOF")
     ELSE Then(fields(Drop(fb.rest, 2), <<idSize>>), LAMBDA count :
            Then(repeat(count.v[1], count.rest, Entry), LAMBDA items :
              Ok([kind |-> Iloc, items |-> items.v])))

\* QuickTime may leave out the name or the 0 that ends it.
parseHandlerBox(fb) ==
  LET rest == Drop(fb.rest, 20)
  IN IF Len(fb.rest) < 20 THEN Fail("EOF")
     ELSE Ok([kind |-> Hdlr, handlerType |-> SubSeq(fb.rest, 5, 8),
              name |-> IF readString(rest).err # nil THEN rest ELSE readString(rest).v])

parseDataInformationBox(s) ==
  Then(Boxes(s), LAMBDA c : Ok([kind |-> Dinf, children |-> c.boxes]))

parseDataReferenceBox(fb) ==
  Then(fields(fb.rest, <<4>>), LAMBDA n :
    Then(Boxes(n.rest), LAMBDA c : Ok([kind |-> Dref, entryCount |-> n.v[1], children |-> c.boxes])))

parsePrimaryItemBox(fb) ==
  Then(fields(fb.rest, <<IF fb.version = 0 THEN 2 ELSE 4>>), LAMBDA id :
    Ok([kind |-> Pitm, itemID |-> id.v[1]]))

\* The values of results, unless one of them is an error.
allOk(rs, e) ==
  IF \E i \in DOMAIN rs : rs[i].err # nil THEN Fail(e) ELSE Ok([i \in DOMAIN rs |-> rs[i].v])

\* Every child box is a reference, whatever its type.
parseItemReferenceBox(fb) ==
  LET w == IF fb.version = 0 THEN 2 ELSE 4
      Id(t) == Then(fields(t, <<w>>), LAMBDA f : [f EXCEPT !.v = f.v[1]])
      Ref(b) == Then(fields(b.body, <<w, 2>>), LAMBDA h :
                  Then(repeat(h.v[2], h.rest, Id), LAMBDA to :
                    Ok([typ |-> b.typ, fromItemID |-> h.v[1], toItemIDs |-> to.v])))
      Refs(c) == allOk([i \in DOMAIN c.boxes |-> Ref(c.boxes[i])], "error parsing item reference")
  IN Then(Then(Boxes(fb.rest), Refs), LAMBDA r : Ok([kind |-> Iref, references |-> r.v]))

parseImageRotation(s) ==
  IF s = <<>> THEN Fail("EOF") ELSE Ok([kind |-> Irot, angle |-> s[1] % 4])

-----------------------------------------------------------------------------
(* quicktime.go *)

parseMovieHeaderBox(fb) ==
  IF fb.version \notin {0, 1} THEN Fail("unsupported mvhd version")
  ELSE Then(fields(fb.rest, IF fb.version = 0 THEN <<4, 4, 4, 4>> ELSE <<8, 8, 4, 8>>), LAMBDA f :
         Ok([kind |-> Mvhd, creationTime |-> f.v[1], modificationTime |-> f.v[2],
             timeScale |-> f.v[3], duration |-> f.v[4]]))

parseKeysBox(fb) ==
  LET Entry(t, size) ==
        IF size < 8 THEN Fail("invalid keys entry size")
        ELSE IF Len(t) < size THEN Fail("UnexpectedEOF")
        ELSE [err |-> nil, rest |-> Drop(t, size),
              v |-> [namespace |-> SubSeq(t, 5, 8), name |-> SubSeq(t, 9, size)]]
      Key(t) == Then(fields(t, <<4>>), LAMBDA f : Entry(t, f.v[1]))
  IN Then(fields(fb.rest, <<4>>), LAMBDA n :
       Then(repeat(n.v[1], n.rest, Key), LAMBDA keys : Ok([kind |-> Keys, keys |-> keys.v])))

parseDataBox(s) ==
  IF Len(s) < 8 THEN Fail("short data box")
  ELSE Ok([kind |-> Data, dataType |-> Uint(Take(s, 4)), locale |-> Uint(SubSeq(s, 5, 8)),
           value |-> Drop(s, 8)])

\* Every child is an item, whose type is the number of its key; only the data
\* boxes in it count.
parseItemListBox(s) ==
  LET IsData(b) == b.typ = Data
      Values(boxes) == allOk([i \in DOMAIN boxes |-> parseDataBox(boxes[i].body)], "short data box")
      Item(c) == Then(Then(Boxes(c.body), LAMBDA r : Values(SelectSeq(r.boxes, IsData))), LAMBDA vs :
                   Ok([keyIndex |-> Uint(c.typ), data |-> vs.v]))
      Items(c) == allOk([i \in DOMAIN c.boxes |-> Item(c.boxes[i])], "error in ilst item")
  IN Then(Then(Boxes(s), Items), LAMBDA r : Ok([kind |-> Ilst, items |-> r.v]))

-----------------------------------------------------------------------------
(* box.Parse, and the parsers that call it for their children.             *)

\* Parse(b) of a box with its body in memory.
RECURSIVE Parse(_)

\* The infe boxes among the children count, but every child must parse.
parseItemInfoBox(fb) ==
  LET IsInfe(v) == v.kind = Infe
      Infos(c) == allOk([i \in DOMAIN c.boxes |-> Parse(c.boxes[i])], "error parsing ItemInfoEntry")
  IN Then(fields(fb.rest, <<2>>), LAMBDA n :
       Then(Then(Boxes(n.rest), Infos), LAMBDA vs :
         Ok([kind |-> Iinf, count |-> n.v[1], itemInfos |-> SelectSeq(vs.v, IsInfe)])))

\* The property container, and then association boxes only.
parseItemPropertiesBox(s) ==
  LET Parsed(c) ==
        IF Len(c.boxes) < 2 THEN Fail("expect at least 2 boxes in children")
        ELSE allOk([i \in DOMAIN c.boxes |-> Parse(c.boxes[i])], "failed to parse child")
      Properties(r) ==
        IF r.v[1].kind # Ipco \/ \E i \in 2..Len(r.v) : r.v[i].kind # Ipma
        THEN Fail("unexpected type of child")
        ELSE Ok([kind |-> Iprp, properties |-> r.v[1].properties, associations |-> Tail(r.v)])
  IN Then(Then(Boxes(s), Parsed), Properties)

\* The parsers of full boxes, which read the version and the flags first.
parseFullBox(typ, fb) ==
  CASE typ = Dref -> parseDataReferenceBox(fb)
    [] typ = Hdlr -> parseHandlerBox(fb)
    [] typ = Iinf -> parseItemInfoBox(fb)
    [] typ = Infe -> parseItemInfoEntry(fb)
    [] typ = Iloc -> parseItemLocationBox(fb)
    [] typ = Ipma -> parseItemPropertyAssociation(fb)
    [] typ = Iref -> parseItemReferenceBox(fb)
    [] typ = Ispe -> parseImageSpatialExtentsProperty(fb)
    [] typ = Keys -> parseKeysBox(fb)
    [] typ = Mvhd -> parseMovieHeaderBox(fb)
    [] typ = Pitm -> parsePrimaryItemBox(fb)

Parse(b) ==
  CASE b.typ \in {Dref, Hdlr, Iinf, Infe, Iloc, Ipma, Iref, Ispe, Keys, Mvhd, Pitm} ->
         Then(readFullBox(b.body), LAMBDA fb : parseFullBox(b.typ, fb))
    [] b.typ = Data -> parseDataBox(b.body)
    [] b.typ = Dinf -> parseDataInformationBox(b.body)
    [] b.typ = Ftyp -> parseFileTypeBox(b.body)
    [] b.typ = Ilst -> parseItemListBox(b.body)
    [] b.typ = Ipco -> parseItemPropertyContainerBox(b.body)
    [] b.typ = Iprp -> parseItemPropertiesBox(b.body)
    [] b.typ = Irot -> parseImageRotation(b.body)
    [] b.typ = Meta -> parseMetaBox(b.body)
    [] OTHER -> Fail("ErrUnknownBox")
=============================================================================
