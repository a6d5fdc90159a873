--------------------------- MODULE AvrcpBrowseWire ---------------------------
(***************************************************************************)
(* The AVRCP browsing wire format, written from the protocol layout and     *)
(* not from the controller's code: how a peer target encodes the responses *)
(* the controller decodes, what each response means, and how a target      *)
(* reads the commands the controller assembles.  It is the reference the   *)
(* properties of MC_AvrcpCtBrowse compare the code model against.          *)
(*                                                                         *)
(* Common header [PduId:1][ParameterLength:2]; multi-octet fields most     *)
(* significant octet first; text [CharacterSetId:2][Length:2][bytes].      *)
(***************************************************************************)
EXTENDS Naturals, Sequences, SequencesExt

CONSTANTS
    PduSbp, PduCp, PduGfi, PduGia, PduGtnoi,    \* PDU ids
    PlayerTag, FolderTag, ElementTag,          \* item type tags
    AttrCountNone,                             \* "no attributes" count
    PlayableReserved                           \* playable of a non-folder item

RECURSIVE Shift(_, _)
Shift(v, k) == IF k = 0 THEN v ELSE Shift(v \div 256, k - 1)

\* v as n octets, most significant first
BE(n, v) == [i \in 1..n |-> Shift(v, n - i) % 256]

\* the number n octets at 0-based offset off of b spell
Field(b, off, n) == FoldLeft(LAMBDA acc, o : acc * 256 + o, 0, SubSeq(b, off + 1, off + n))

Concat(seqs) == FlattenSeq(seqs)

Frame(pdu, body) == BE(1, pdu) \o BE(2, Len(body)) \o body
Text(charset, s) == BE(2, charset) \o BE(2, Len(s)) \o s
AttrValue(a) == BE(4, a.id) \o Text(a.charset, a.value)

-----------------------------------------------------------------------------
(* Responses as a target sends them.                                       *)
SbpResponse(r) ==
    Frame(PduSbp, BE(1, r.status) \o BE(2, r.uidCounter) \o BE(4, r.numOfItems)
                  \o BE(2, r.charset) \o BE(1, Len(r.names))
                  \o Concat([i \in 1..Len(r.names) |-> BE(2, Len(r.names[i])) \o r.names[i]]))

CpResponse(r) == Frame(PduCp, BE(1, r.status) \o BE(4, r.numOfItems))

GtnoiResponse(r) ==
    Frame(PduGtnoi, BE(1, r.status) \o BE(2, r.uidCounter) \o BE(4, r.numOfItems))

ItemTag(it) == CASE it.kind = "player"  -> PlayerTag
                 [] it.kind = "folder"  -> FolderTag
                 [] it.kind = "element" -> ElementTag
                 [] it.kind = "unknown" -> it.tag

ItemBody(it) ==
    CASE it.kind = "player" ->
           BE(2, it.id) \o BE(1, it.majorType) \o BE(4, it.subType) \o BE(1, it.playStatus)
           \o it.features \o Text(it.charset, it.name)
      [] it.kind = "folder" ->
           BE(8, it.id) \o BE(1, it.type) \o BE(1, it.playable) \o Text(it.charset, it.name)
      [] it.kind = "element" ->
           BE(8, it.id) \o BE(1, it.type) \o Text(it.charset, it.name)
           \o BE(1, Len(it.attrs)) \o Concat([i \in 1..Len(it.attrs) |-> AttrValue(it.attrs[i])])
      [] it.kind = "unknown" -> it.body

\* every item is [ItemType:1][ItemLength:2][item body]
Item(it) == BE(1, ItemTag(it)) \o BE(2, Len(ItemBody(it))) \o ItemBody(it)

GfiResponse(r) ==
    Frame(PduGfi, BE(1, r.status) \o BE(2, r.uidCounter) \o BE(2, Len(r.items))
                  \o Concat([i \in 1..Len(r.items) |-> Item(r.items[i])]))

GiaResponse(r) ==
    Frame(PduGia, BE(1, r.status) \o BE(1, Len(r.attrs))
                  \o Concat([i \in 1..Len(r.attrs) |-> AttrValue(r.attrs[i])]))

-----------------------------------------------------------------------------
(* What a response means: the fields a decoder must deliver.  Items of an  *)
(* unknown type are skipped by their declared length.                     *)
Ids(attrs) == [i \in 1..Len(attrs) |-> attrs[i].id]
Values(attrs) == [i \in 1..Len(attrs) |-> attrs[i].value]

PlayerEntry(it) ==
    [itemType |-> PlayerTag, playerId |-> it.id, majorType |-> it.majorType,
     subType |-> it.subType, playStatus |-> it.playStatus, features |-> it.features,
     name |-> it.name]

ElementEntry(it) ==
    [itemType |-> ItemTag(it), uid |-> it.id, type |-> it.type,
     playable |-> IF it.kind = "folder" THEN it.playable ELSE PlayableReserved,
     name |-> it.name,
     attributes |-> IF it.kind = "element" THEN Ids(it.attrs) ELSE <<>>,
     values |-> IF it.kind = "element" THEN Values(it.attrs) ELSE <<>>]

SbpMeaning(r) ==
    [status |-> r.status, uidCounter |-> r.uidCounter, numOfItems |-> r.numOfItems,
     folderDepth |-> Len(r.names), folderNames |-> r.names]

CpMeaning(r) == [status |-> r.status, numOfItems |-> r.numOfItems]

GtnoiMeaning(r) == [status |-> r.status, uidCounter |-> r.uidCounter, numOfItems |-> r.numOfItems]

GfiMeaning(r) ==
    LET players  == SelectSeq(r.items, LAMBDA it : it.kind = "player")
        elements == SelectSeq(r.items, LAMBDA it : it.kind \in {"folder", "element"})
    IN [status |-> r.status, uidCounter |-> r.uidCounter, numOfItems |-> Len(r.items),
        mpItems |-> [i \in 1..Len(players) |-> PlayerEntry(players[i])],
        meItems |-> [i \in 1..Len(elements) |-> ElementEntry(elements[i])]]

GiaMeaning(r) ==
    [status |-> r.status, numOfAttributes |-> Len(r.attrs),
     attributes |-> Ids(r.attrs), values |-> Values(r.attrs)]

\* the character sets a response carries
Charsets(kind, r) ==
    CASE kind = "SBP" -> {r.charset}
      [] kind = "GFI" ->
           UNION {{it.charset} \cup {a.charset : a \in ToSet(it.attrs)} :
                  it \in {r.items[i] : i \in {j \in 1..Len(r.items) : r.items[j].kind # "unknown"}}}
      [] kind = "GIA" -> {a.charset : a \in ToSet(r.attrs)}
      [] OTHER -> {}

-----------------------------------------------------------------------------
(* Commands as a target reads them.                                        *)
SbpCommandFields(b) == Field(b, 3, 2)

CpCommandFields(b) ==
    [uidCounter |-> Field(b, 3, 2), direction |-> Field(b, 5, 1), folderUid |-> Field(b, 6, 8)]

GfiCommandFields(b) ==
    LET c == Field(b, 12, 1)
        n == IF c = AttrCountNone THEN 0 ELSE c
    IN [scope |-> Field(b, 3, 1), startItem |-> Field(b, 4, 4), endItem |-> Field(b, 8, 4),
        attributes |-> [i \in 1..n |-> Field(b, 13 + 4 * (i - 1), 4)]]

GiaCommandFields(b) ==
    [scope |-> Field(b, 3, 1), uid |-> Field(b, 4, 8), uidCounter |-> Field(b, 12, 2),
     attributes |-> [i \in 1..Field(b, 14, 1) |-> Field(b, 15 + 4 * (i - 1), 4)]]

GtnoiCommandFields(b) == Field(b, 3, 1)

====
