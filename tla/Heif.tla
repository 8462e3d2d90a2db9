-------------------------------- MODULE Heif --------------------------------
(***************************************************************************)
(* heif.File of media/heif/heif.go: the metadata that getMeta reads from   *)
(* the boxes, the items that a client asks for, their data, and the files  *)
(* that StandaloneHEIF and EncodeImage write. A File is used by one        *)
(* goroutine at a time ("Methods on File should not be called              *)
(* concurrently"), so a call is one step.                                  *)
(*                                                                         *)
(* An optional value, a pointer that may be nil, is a sequence of at most  *)
(* one element.                                                            *)
(***************************************************************************)
EXTENDS BmffParse, SequencesExt

CONSTANTS
  MaxUint32,         \* math.MaxUint32, scaled down; above the length of every file
  MaxItemDataSize,   \* 64 << 20, scaled down
  MaxEXIFSize,       \* EXIF's maxSize, 20 << 10, scaled down
  File,              \* the files: what they were written from, and their bytes
  ID,                \* the item ids a client asks for
  Image              \* the arguments of EncodeImage: brand, itemType, props, data

VARIABLES
  f,         \* the file that f.ra reads
  metaErr,   \* f.metaErr
  meta,      \* f.meta
  item,      \* an item that the client has got
  res        \* the last call and what it returned

vars == <<f, metaErr, meta, item, res>>

Hvc1 == FourCC(140)   \* a coded image
Exif == FourCC(141)
Grid == FourCC(142)   \* a derived image: grid, iden or iovl
Thmb == FourCC(143)
Mif1 == FourCC(144)
Pict == FourCC(145)
Mdat == FourCC(146)

-----------------------------------------------------------------------------
(* getMeta *)

\* Reader.ReadAndParseBox of the box at the beginning of s, and what follows it.
ReadAndParseBox(s, typ) ==
  LET End(h) == IF h.toEnd \/ h.size > Len(s) THEN Len(s) ELSE h.size
      Body(h) == SubSeq(s, h.headerSize + 1, End(h))
      Parsed(h) == Then(Parse([typ |-> typ, body |-> Body(h)]), LAMBDA p :
                     [err |-> nil, v |-> p.v, rest |-> Drop(s, End(h))])
  IN Then(Header(s), LAMBDA h :
       IF h.typ # typ THEN Fail("got another box type") ELSE Parsed(h))

\* The last of the parsed boxes of a kind.
LastOf(vs, kind) ==
  LET Is(v) == v.kind = kind
      all == SelectSeq(vs, Is)
  IN IF all = <<>> THEN <<>> ELSE <<Last(all)>>

\* What getMeta makes of the bytes: the first box is ftyp, the second is meta,
\* and the children of meta are parsed unless their type is unknown.
readMeta(s) ==
  LET Known(p) == p.err # "ErrUnknownBox"
      Children(boxes) ==
        allOk(SelectSeq([i \in DOMAIN boxes |-> Parse(boxes[i])], Known), "error in child of meta")
      Gather(ft, vs) ==
        Ok([fileType |-> ft, handler |-> LastOf(vs, Hdlr), primaryItem |-> LastOf(vs, Pitm),
            itemInfo |-> LastOf(vs, Iinf), properties |-> LastOf(vs, Iprp),
            itemLocation |-> LastOf(vs, Iloc), itemReference |-> LastOf(vs, Iref)])
  IN Then(ReadAndParseBox(s, Ftyp), LAMBDA ft :
       Then(ReadAndParseBox(ft.rest, Meta), LAMBDA mb :
         Then(Children(mb.v.children), LAMBDA c : Gather(ft.v, c.v))))

\* The lists of a metadata box that may be missing.
itemInfos(m) == IF m.itemInfo = <<>> THEN <<>> ELSE m.itemInfo[1].itemInfos
itemLocations(m) == IF m.itemLocation = <<>> THEN <<>> ELSE m.itemLocation[1].items
allProps(m) == IF m.properties = <<>> THEN <<>> ELSE m.properties[1].properties
references(m) == IF m.itemReference = <<>> THEN <<>> ELSE m.itemReference[1].references

EXIFItemID(m) ==
  LET Is(ife) == ife.itemType = Exif
      all == SelectSeq(itemInfos(m), Is)
  IN IF all = <<>> THEN 0 ELSE all[1].itemID

-----------------------------------------------------------------------------
(* Items *)

\* A slip no specification uses: an index beyond the container is not dropped.
propertyAssociationsAll(m, id) ==
  LET Valid(a) == a.index # 0
      Of(ipa) == FlattenSeq([i \in DOMAIN ipa.entries |->
                   IF ipa.entries[i].itemID = id THEN SelectSeq(ipa.entries[i].associations, Valid)
                   ELSE <<>>])
      boxes == IF m.properties = <<>> THEN <<>> ELSE m.properties[1].associations
      Some(s) == s # <<>>
      found == SelectSeq([i \in DOMAIN boxes |-> Of(boxes[i])], Some)
  IN IF found = <<>> THEN <<>> ELSE found[1]

\* The associations of an item in the first association box that has valid
\* ones, without the ones whose index is 0 or beyond the container.
propertyAssociations(m, id) ==
  LET Valid(a) == a.index # 0 /\ a.index <= Len(allProps(m))
      Of(ipa) == FlattenSeq([i \in DOMAIN ipa.entries |->
                   IF ipa.entries[i].itemID = id THEN SelectSeq(ipa.entries[i].associations, Valid)
                   ELSE <<>>])
      boxes == IF m.properties = <<>> THEN <<>> ELSE m.properties[1].associations
      Some(s) == s # <<>>
      found == SelectSeq([i \in DOMAIN boxes |-> Of(boxes[i])], Some)
  IN IF found = <<>> THEN <<>> ELSE found[1]

\* ItemByID. An index out of range would be a panic.
itemByID(m, id) ==
  LET Is(e) == e.itemID = id
      locs == SelectSeq(itemLocations(m), Is)
      infos == SelectSeq(itemInfos(m), Is)
      asses == propertyAssociations(m, id)
  IN IF infos = <<>> THEN Fail("ErrUnknownItem")
     ELSE IF \E i \in DOMAIN asses : asses[i].index \notin 1..Len(allProps(m)) THEN Fail("panic")
     ELSE Ok([id |-> id, info |-> Last(infos),
              location |-> IF locs = <<>> THEN <<>> ELSE <<Last(locs)>>,
              properties |-> [i \in DOMAIN asses |-> allProps(m)[asses[i].index]]])

\* The parsed properties of a kind: a property that does not parse stays a box.
ofKind(it, kind) ==
  LET Is(r) == r.err = nil /\ r.v.kind = kind
  IN SelectSeq([i \in DOMAIN it.properties |-> Parse(it.properties[i])], Is)

\* <<width, height>>, or <<0, 0>> if not ok.
SpatialExtents(it) ==
  LET Extents(all) == IF all = <<>> THEN <<0, 0>> ELSE <<all[1].v.width, all[1].v.height>>
  IN Extents(ofKind(it, Ispe))

Rotations(it) ==
  LET Angle(all) == IF all = <<>> THEN 0 ELSE all[1].v.angle IN Angle(ofKind(it, Irot))

VisualDimensions(it) ==
  LET turned[i \in 0..3] == IF i = 0 THEN SpatialExtents(it) ELSE <<turned[i - 1][2], turned[i - 1][1]>>
  IN turned[Rotations(it)]

-----------------------------------------------------------------------------
(* Data and EXIF *)

\* f.ra.ReadAt of n bytes at off: it fails unless it gets all of them.
readAt(s, off, n) ==
  IF off > MaxInt64 \/ off + n > Len(s) THEN Fail("EOF") ELSE Ok(SubSeq(s, off + 1, off + n))

\* A slip no specification uses: a sum that overflows is not noticed.
extentOffsetWraps(base, offset) == Ok((base + offset) % (MaxUint64 + 1))

\* Where an extent starts: the sum of uint64s must not overflow, and fit an int64.
extentOffset(base, offset) ==
  LET off == (base + offset) % (MaxUint64 + 1)
  IN IF off < base \/ off > MaxInt64 THEN Fail("invalid extent offset") ELSE Ok(off)

\* Item.Data: the lengths of the extents are added up before anything is read.
dataOf(s, it) ==
  LET loc == it.location[1]
      n == Len(loc.extents)
      total[i \in 0..n] == IF i = 0 THEN 0 ELSE total[i - 1] + loc.extents[i].length
      LengthOK(i) == loc.extents[i].length \in 1..(MaxItemDataSize - total[i - 1])
      upTo[i \in 0..n] ==
        IF i = 0 THEN Ok(<<>>)
        ELSE LET p == upTo[i - 1]
                 off == extentOffset(loc.baseOffset, loc.extents[i].offset)
                 r == readAt(s, off.v, loc.extents[i].length)
             IN IF p.err # nil THEN p
                ELSE IF off.err # nil THEN off
                ELSE IF r.err # nil THEN r
                ELSE Ok(p.v \o r.v)
  IN IF it.location = <<>> THEN Fail("no location")
     ELSE IF loc.constructionMethod # 0 \/ loc.dataReferenceIndex # 0
          THEN Fail("unsupported construction method")
     ELSE IF n = 0 THEN Fail("no extents")
     ELSE IF \E i \in 1..n : (\A j \in 1..(i - 1) : LengthOK(j)) /\ ~LengthOK(i)
          THEN Fail("unsupported extent length")
     ELSE upTo[n]

\* File.EXIF: the one extent of the EXIF item, without its first 4 bytes. Of the
\* location only the extent is looked at, and the offset may overflow.
exifOf(s, m) ==
  LET it == itemByID(m, EXIFItemID(m))
      loc == it.v.location[1]
      e == loc.extents[1]
  IN IF EXIFItemID(m) = 0 THEN Fail("ErrNoEXIF")
     ELSE IF it.err # nil THEN Fail(it.err)
     ELSE IF it.v.location = <<>> THEN Fail("didn't say where")
     ELSE IF Len(loc.extents) # 1 THEN Fail("expected 1 EXIF section")
     ELSE IF e.length > MaxEXIFSize THEN Fail("exceeds threshold")
     ELSE IF e.length < 4 THEN Fail("too small")
     ELSE readAt(s, (loc.baseOffset + e.offset + 4) % (MaxUint64 + 1), e.length - 4)

\* File.Thumbnails: the items that have a thmb reference to it.
thumbnails(m, it) ==
  LET Is(ref) == ref.typ = Thmb /\ \E i \in DOMAIN ref.toItemIDs : ref.toItemIDs[i] = it.id
      refs == SelectSeq(references(m), Is)
      all == [i \in DOMAIN refs |-> itemByID(m, refs[i].fromItemID)]
  IN IF \E i \in DOMAIN all : all[i].err # nil THEN Fail("ErrUnknownItem")
     ELSE Ok([i \in DOMAIN all |-> all[i].v])

-----------------------------------------------------------------------------
(* EncodeImage and StandaloneHEIF *)

\* binary.BigEndian.AppendUintN: v in w bytes.
Number(w, v) == [i \in 1..w |-> IF i = w THEN v ELSE 0]

box(typ, body) == Number(4, (8 + Len(body)) % (MaxUint32 + 1)) \o typ \o body

\* A slip no specification uses: the data is located without the header of mdat.
dataOffsetNoHeader(meta0, ftyp) == Len(ftyp) + Len(meta0)

\* Where EncodeImage puts the data: after ftyp, meta, whose length does not
\* depend on the offset in it, and the header of mdat.
dataOffset(meta0, ftyp) == Len(ftyp) + Len(meta0) + 8

\* The meta box of EncodeImage's file, locating the data at off.
buildMeta(off, itemType, props, data) ==
  LET ipco == FlattenSeq([i \in DOMAIN props |-> props[i].box])
      ipma == [i \in DOMAIN props |-> IF props[i].essential THEN 128 + i ELSE i]
      hdlr == Number(8, 0) \o Pict \o Number(13, 0)
      infe == <<2, 0, 0, 0>> \o Number(2, 1) \o Number(2, 0) \o itemType \o <<0>>
      iinf == Number(4, 0) \o Number(2, 1) \o box(Infe, infe)
      assoc == Number(4, 0) \o Number(4, 1) \o Number(2, 1) \o <<Len(ipma)>> \o ipma
      iloc == Number(4, 0) \o <<68, 0>> \o Number(2, 1) \o Number(2, 1) \o Number(2, 0)
              \o Number(2, 1) \o Number(4, off) \o Number(4, Len(data))
  IN box(Meta, Number(4, 0) \o box(Hdlr, hdlr) \o box(Pitm, Number(4, 0) \o Number(2, 1))
               \o box(Iinf, iinf) \o box(Iloc, iloc)
               \o box(Iprp, box(Ipco, ipco) \o box(Ipma, assoc)))

EncodeImage(brand, itemType, props, data) ==
  LET ftyp == box(Ftyp, brand \o Number(4, 0) \o Mif1 \o brand)
      off == dataOffset(buildMeta(0, itemType, props, data), ftyp)
  IN IF Len(brand) # 4 \/ Len(itemType) # 4 THEN Fail("invalid brand or item type")
     ELSE IF Len(props) > 127 THEN Fail("too many item properties")
     ELSE IF \E i \in DOMAIN props : Len(props[i].box) < 8 \/ Uint(Take(props[i].box, 4)) # Len(props[i].box)
          THEN Fail("item property isn't a box")
     ELSE IF off + Len(data) > MaxUint32 THEN Fail("image data is too large")
     ELSE Ok(ftyp \o buildMeta(off, itemType, props, data) \o box(Mdat, data))

\* The properties of an item, each made a box of its own again.
copiedProps(m, id) ==
  LET asses == propertyAssociations(m, id)
  IN [i \in DOMAIN asses |->
        [box |-> box(allProps(m)[asses[i].index].typ, allProps(m)[asses[i].index].body),
         essential |-> asses[i].essential]]

standaloneHEIF(s, m, it) ==
  LET data == dataOf(s, it)
  IN IF it.info.itemType \in {Grid, Exif, Mime, Uri} THEN Fail("can't make standalone HEIF")
     ELSE IF data.err # nil THEN Fail(data.err)
     ELSE EncodeImage(m.fileType.majorBrand, it.info.itemType, copiedProps(m, it.id), data.v)

-----------------------------------------------------------------------------
(* The calls of a client *)

Result(call, arg, r) ==
  [call |-> call, arg |-> arg, err |-> r.err, v |-> IF r.err = nil THEN <<r.v>> ELSE <<>>]

Init ==
  /\ f \in File
  /\ metaErr = nil /\ meta = <<>> /\ item = <<>>
  /\ res = Result("Open", 0, Fail("no call yet"))

\* setMetaErr keeps an error only if there is one already.
setMetaErr(err) == metaErr' = IF metaErr # nil THEN err ELSE metaErr

\* getMeta, and then the rest of the call.
Call(call, arg, Op(_)) ==
  \E g \in {IF metaErr # nil THEN Fail(metaErr)
            ELSE IF meta # <<>> THEN Ok(meta[1]) ELSE readMeta(f.bytes)} :
     /\ \/ g.err = nil /\ meta' = <<g.v>> /\ UNCHANGED metaErr
        \/ g.err # nil /\ setMetaErr(g.err) /\ UNCHANGED meta
     /\ res' = Result(call, arg, IF g.err # nil THEN g ELSE Op(g.v))
     /\ UNCHANGED f

KeepItem == item' = IF res'.err = nil THEN res'.v ELSE item

PrimaryItem ==
  /\ Call("PrimaryItem", 0, LAMBDA m : IF m.primaryItem = <<>> THEN Fail("lacks primary item box")
                                       ELSE itemByID(m, m.primaryItem[1].itemID))
  /\ KeepItem

ItemByID(id) == Call("ItemByID", id, LAMBDA m : itemByID(m, id)) /\ KeepItem

\* The client goes on with one of the thumbnails.
Thumbnails ==
  /\ item # <<>>
  /\ Call("Thumbnails", item[1].id, LAMBDA m : thumbnails(m, item[1]))
  /\ \/ UNCHANGED item
     \/ res'.err = nil /\ \E i \in DOMAIN res'.v[1] : item' = <<res'.v[1][i]>>

EXIF == Call("EXIF", 0, LAMBDA m : exifOf(f.bytes, m)) /\ UNCHANGED item

ItemData ==
  /\ item # <<>>
  /\ res' = Result("Data", item[1].id, dataOf(f.bytes, item[1]))
  /\ UNCHANGED <<f, metaErr, meta, item>>

StandaloneHEIF ==
  /\ item # <<>>
  /\ Call("StandaloneHEIF", item[1].id, LAMBDA m : standaloneHEIF(f.bytes, m, item[1]))
  /\ UNCHANGED item

\* EncodeImage is independent of the file.
Encode(img) ==
  /\ res' = Result("EncodeImage", img, EncodeImage(img.brand, img.itemType, img.props, img.data))
  /\ UNCHANGED <<f, metaErr, meta, item>>

\* f.ra returns an error to a call that reads the file.
ReadAtFails ==
  /\ IF meta = <<>> THEN setMetaErr("read error") ELSE UNCHANGED metaErr
  /\ res' = Result("ReadAt", 0, Fail("read error"))
  /\ UNCHANGED <<f, meta, item>>

Next ==
  \/ PrimaryItem \/ Thumbnails \/ EXIF \/ ItemData \/ StandaloneHEIF \/ ReadAtFails
  \/ \E id \in ID : ItemByID(id)
  \/ \E img \in Image : Encode(img)

Spec == Init /\ [][Next]_vars

-----------------------------------------------------------------------------
(* What a file was written from: f.desc has the brand, the primary item's  *)
(* id, the items (id, type, location entry, the extents' bytes, the        *)
(* indexes of their valid properties and the dimensions they are shown     *)
(* at), the property boxes, the associations, the references, and other    *)
(* boxes in meta with what they say.                                       *)

Described(id) == CHOOSE i \in DOMAIN f.desc.items : f.desc.items[i].id = id
Payload(id) == FlattenSeq(f.desc.items[Described(id)].parts)

\* The lists of the metadata, as the description has them.
InfoList(m) == [i \in DOMAIN itemInfos(m) |-> <<itemInfos(m)[i].itemID, itemInfos(m)[i].itemType>>]
DescInfoList == [i \in DOMAIN f.desc.items |-> <<f.desc.items[i].id, f.desc.items[i].typ>>]
PropList(m) == [i \in DOMAIN allProps(m) |-> <<allProps(m)[i].typ, allProps(m)[i].body>>]

\* getMeta reads from a whole file exactly what it was written from, in every
\* version of the boxes: bmff.go's parsers of pitm, iinf, iloc, iprp and iref,
\* and the ones of boxes that getMeta parses and does not use.
MetaExact ==
  meta # <<>> /\ f.whole =>
    LET m == meta[1]
    IN /\ m.fileType.majorBrand = f.desc.brand
       /\ m.primaryItem[1].itemID = f.desc.primary
       /\ InfoList(m) = DescInfoList
       /\ itemLocations(m) = f.desc.locs
       /\ PropList(m) = f.desc.props
       /\ m.properties[1].associations = f.desc.assoc
       /\ references(m) = f.desc.refs
       /\ \A i \in DOMAIN f.desc.others : Parse(f.desc.others[i]).v = f.desc.others[i].says

\* From a file that ends early getMeta may get less, but never anything else
\* than what the whole file says: readBody and ReadBox take a short body or
\* header for the end of the input.
NothingInvented ==
  meta # <<>> =>
    LET m == meta[1]
    IN /\ m.primaryItem # <<>> => m.primaryItem[1].itemID = f.desc.primary
       /\ IsPrefix(InfoList(m), DescInfoList)
       /\ itemLocations(m) \in {<<>>, f.desc.locs}
       /\ m.properties # <<>> =>
            PropList(m) = f.desc.props /\ IsPrefix(m.properties[1].associations, f.desc.assoc)
       /\ IsPrefix(references(m), f.desc.refs)

\* An item of a whole file has its type, its location, its valid properties in
\* order and so its dimensions; its thumbnails are the items that refer to it.
\* No call panics (heif.go:497).
ItemExact ==
  /\ res.err # "panic"
  /\ f.whole /\ res.call \in {"PrimaryItem", "ItemByID"} /\ res.err = nil =>
       LET it == res.v[1]
           d == f.desc.items[Described(it.id)]
       IN /\ it.info.itemType = d.typ
          /\ \A i \in DOMAIN it.location : it.location[i].extents = d.loc.extents
          /\ [i \in DOMAIN it.properties |-> it.properties[i].typ]
               = [i \in DOMAIN d.props |-> f.desc.props[d.props[i]][1]]
          /\ VisualDimensions(it) = d.dims
  /\ f.whole /\ res.call = "Thumbnails" /\ res.err = nil =>
       LET To(r) == r.typ = Thmb /\ \E i \in DOMAIN r.toItemIDs : r.toItemIDs[i] = res.arg
           refs == SelectSeq(f.desc.refs, To)
       IN [i \in DOMAIN res.v[1] |-> res.v[1][i].id] = [i \in DOMAIN refs |-> refs[i].fromItemID]

\* What a client learns from a whole file about its metadata and its items is
\* what the file was written from.
WholeFileExact == MetaExact /\ ItemExact

\* The location entry says that the item is in the file itself, at an offset
\* that does not overflow. EXIF does not look.
InFileItself(loc) ==
  /\ loc.constructionMethod = 0 /\ loc.dataReferenceIndex = 0
  /\ \A i \in DOMAIN loc.extents : loc.baseOffset + loc.extents[i].offset <= MaxUint64

\* EXIF returns the item's bytes without the offset at their beginning.
ReturnsEXIF == res.v[1] = Drop(Payload(EXIFItemID(meta[1])), 4)

\* Data returns the bytes that were written for the item or an error: never
\* other bytes of the file, whatever the storage, the extents, the base offset
\* and the end of the file. It succeeds for an item in a whole file that it
\* supports (heif.go:174-177). The same holds of EXIF, but only for an item in
\* the file itself at an offset that does not overflow.
DataExact ==
  /\ res.call = "Data" /\ res.err = nil =>
       res.v[1] = Payload(res.arg) /\ Len(res.v[1]) <= MaxItemDataSize
  /\ f.whole /\ res.call = "Data" /\ f.desc.items[Described(res.arg)].stored
       /\ Len(Payload(res.arg)) <= MaxItemDataSize => res.err = nil
  /\ res.call = "EXIF" /\ meta # <<>> =>
       LET exifs == {i \in DOMAIN f.desc.items : f.desc.items[i].typ = Exif}
       IN \A i \in exifs :
            LET d == f.desc.items[i]
            IN /\ res.err = nil /\ InFileItself(d.loc) => ReturnsEXIF
               /\ f.whole /\ d.stored /\ Len(d.parts) = 1 /\ Len(d.parts[1]) \in 4..MaxEXIFSize
                    => res.err = nil

\* What a client is told of a file - the metadata, the items, their data and,
\* if it is in the file itself, their EXIF - is what the file was written from,
\* or an error: of a file that ends early perhaps less, of any file never
\* anything else.
FileExact == WholeFileExact /\ NothingInvented /\ DataExact

\* "EXIF returns the raw EXIF data from the file": wherever the item is. The
\* code reads the file at the item's offset, with construction method 1 or
\* another data reference too, and at an offset that overflows.
EXIFExact == res.call = "EXIF" /\ res.err = nil => ReturnsEXIF

\* The file that was written, read again, has one item: the primary item, of the
\* same type, with the same properties and data.
ReadsBack(bytes, brand, itemType, props, data) ==
  \E g \in {readMeta(bytes)} :
    LET m == g.v
        it == itemByID(m, m.primaryItem[1].itemID)
    IN /\ g.err = nil
       /\ m.fileType.majorBrand = brand
       /\ Len(itemInfos(m)) = 1 /\ EXIFItemID(m) = 0 /\ references(m) = <<>>
       /\ it.err = nil /\ it.v.info.itemType = itemType
       /\ copiedProps(m, it.v.id) = props
       /\ data # <<>> /\ Len(data) <= MaxItemDataSize => dataOf(bytes, it.v) = Ok(data)

\* StandaloneHEIF and EncodeImage write files that read back: the offset in iloc
\* is right although it is in the box whose length it depends on
\* (heif.go:239-246, 302-306).
RoundTrip ==
  /\ res.call = "StandaloneHEIF" /\ res.err = nil =>
       LET d == f.desc.items[Described(res.arg)]
       IN ReadsBack(res.v[1], f.desc.brand, d.typ, copiedProps(meta[1], res.arg), Payload(res.arg))
          /\ [i \in DOMAIN copiedProps(meta[1], res.arg) |-> copiedProps(meta[1], res.arg)[i].essential]
               = d.essential
  /\ res.call = "EncodeImage" /\ res.err = nil =>
       ReadsBack(res.v[1], res.arg.brand, res.arg.itemType, res.arg.props, res.arg.data)

\* What File's comment says of metaErr, "Populated lazily, by getMeta": an error
\* of getMeta is kept. The code does not do that.
MetaErrKept == res.call = "ReadAt" /\ meta = <<>> => metaErr # nil
=============================================================================
