--------------------------- MODULE MC_AvrcpCtBrowse ---------------------------
(***************************************************************************)
(* Checks the browse packet codec against the wire format.  The inbound    *)
(* packets are every response a target can build from a few field values  *)
(* (names, items and attributes of each kind, UTF-8 and another character  *)
(* set), together with every strict prefix of each: the truncated packets  *)
(* a short read or a lying peer hands the decoder.                         *)
(***************************************************************************)
EXTENDS AvrcpCtBrowse, TLC

Wire == INSTANCE AvrcpBrowseWire WITH
    PduSbp <- AVRC_CT_PDU_ID_SET_BROWSED_PLAYER, PduCp <- AVRC_CT_PDU_ID_CHANGE_PATH,
    PduGfi <- AVRC_CT_PDU_ID_GET_FOLDER_ITEMS, PduGia <- AVRC_CT_PDU_ID_GET_ITEM_ATTRIBUTES,
    PduGtnoi <- AVRC_CT_PDU_ID_GET_TOTAL_NUMBER_OF_ITEMS,
    PlayerTag <- AVRC_MEDIA_TYPE_MEDIA_PLAYER_ITEM, FolderTag <- AVRC_MEDIA_TYPE_FOLDER_ITEM,
    ElementTag <- AVRC_MEDIA_TYPE_MEDIA_ELEMENT_ITEM, AttrCountNone <- AVRC_ATTRIBUTE_COUNT_NO,
    PlayableReserved <- AVRC_MEDIA_FOLDER_PLAYABLE_RESERVED

-----------------------------------------------------------------------------
(* Field values.                                                           *)
OtherCharset == 3                       \* US-ASCII
CharsetChoices == {AVRC_MEDIA_CHARACTER_SET_UTF8, OtherCharset}
Names == {<<>>, <<72, 105>>}

\* sequences of length 0..n over S
UpTo(S, n) == UNION {[1..k -> S] : k \in 0..n}

\* an item record with every field the wire module may look at
Player(cs) ==
    [kind |-> "player", id |-> 7, majorType |-> 1, subType |-> 1, playStatus |-> 1,
     features |-> [i \in 1..AVRC_CT_GFI_VALID_FEATURE_OCTETS |-> IF i = 8 THEN 4 ELSE 0],
     charset |-> cs, name |-> <<72, 105>>, attrs |-> <<>>]
Folder(cs) ==
    [kind |-> "folder", id |-> 9, type |-> 1, playable |-> 1, charset |-> cs,
     name |-> <<65>>, attrs |-> <<>>]
Element(attrs) ==
    [kind |-> "element", id |-> 5, type |-> 0, charset |-> AVRC_MEDIA_CHARACTER_SET_UTF8,
     name |-> <<66>>, attrs |-> attrs]
Unknown == [kind |-> "unknown", tag |-> 9, body |-> <<1, 2, 3>>]

AttrChoices == {[id |-> 1, charset |-> cs, value |-> <<67>>] : cs \in CharsetChoices}

KnownItems ==
    {Player(cs) : cs \in CharsetChoices} \cup {Folder(cs) : cs \in CharsetChoices}
    \cup {Element(a) : a \in UpTo(AttrChoices, 1)}

\* the response of the GetFolderItems test: two players, a folder, an element
MixedList == <<Player(AVRC_MEDIA_CHARACTER_SET_UTF8), Player(AVRC_MEDIA_CHARACTER_SET_UTF8),
               Folder(AVRC_MEDIA_CHARACTER_SET_UTF8), Element(<<>>)>>

\* a response as sent (whole), and each strict prefix of it
Inbound(peers, Enc(_)) ==
    UNION {{[whole |-> p = Enc(r), peer |-> r, bytes |-> p] : p \in Prefixes(Enc(r))}
           : r \in peers}

MC_SbpResponses ==
    Inbound([status : {4}, uidCounter : {258}, numOfItems : {3}, charset : CharsetChoices,
             names : UpTo(Names, 2)], Wire!SbpResponse)
MC_CpResponses ==
    Inbound([status : {4}, numOfItems : {0, 16909060}], Wire!CpResponse)
MC_GtnoiResponses ==
    Inbound([status : {4}, uidCounter : {258}, numOfItems : {0, 16909060}], Wire!GtnoiResponse)
MC_GfiResponses ==
    Inbound([status : {4}, uidCounter : {258}, items : UpTo(KnownItems, 2) \cup {MixedList}],
            Wire!GfiResponse)
MC_GfiResponsesWithUnknown ==
    Inbound([status : {4}, uidCounter : {258},
             items : {<<Unknown>>, <<Unknown, Folder(AVRC_MEDIA_CHARACTER_SET_UTF8)>>}],
            Wire!GfiResponse)
MC_GiaResponses ==
    Inbound([status : {4}, attrs : UpTo(AttrChoices \cup {[id |-> 2, charset |->
             AVRC_MEDIA_CHARACTER_SET_UTF8, value |-> <<>>]}, 2)], Wire!GiaResponse)

MC_SbpCommands == {0, 258}
MC_CpCommands == [uidCounter : {258}, direction : {0, 1}, folderUid : {5, 16909060}]
MC_GfiCommands == [scope : {1}, startItem : {0}, endItem : {9},
                   attributes : {<<>>, <<1>>, <<1, 7>>}]
MC_GiaCommands == [scope : {3}, uid : {5}, uidCounter : {258},
                   attributes : {<<>>, <<1>>, <<1, 2>>}]
MC_GtnoiCommands == {0, 3}

-----------------------------------------------------------------------------
(* Properties.                                                             *)
IsResponse == packet # NoPacket /\ packet.dir = "rsp"
FromPeer == IsResponse /\ packet.in.whole

Meaning(kind, r) ==
    CASE kind = "SBP" -> Wire!SbpMeaning(r) [] kind = "CP" -> Wire!CpMeaning(r)
      [] kind = "GFI" -> Wire!GfiMeaning(r) [] kind = "GIA" -> Wire!GiaMeaning(r)
      [] kind = "GTNOI" -> Wire!GtnoiMeaning(r)

CommandFields(kind, b) ==
    CASE kind = "SBP" -> Wire!SbpCommandFields(b) [] kind = "CP" -> Wire!CpCommandFields(b)
      [] kind = "GFI" -> Wire!GfiCommandFields(b) [] kind = "GIA" -> Wire!GiaCommandFields(b)
      [] kind = "GTNOI" -> Wire!GtnoiCommandFields(b)

PduOf(kind) ==
    CASE kind = "SBP" -> AVRC_CT_PDU_ID_SET_BROWSED_PLAYER
      [] kind = "CP" -> AVRC_CT_PDU_ID_CHANGE_PATH
      [] kind = "GFI" -> AVRC_CT_PDU_ID_GET_FOLDER_ITEMS
      [] kind = "GIA" -> AVRC_CT_PDU_ID_GET_ITEM_ATTRIBUTES
      [] kind = "GTNOI" -> AVRC_CT_PDU_ID_GET_TOTAL_NUMBER_OF_ITEMS

\* the minimum response size of each PDU in avrcp_ct_browse.h
MinResponse(kind) ==
    CASE kind = "SBP" -> AVRC_CT_SBP_MIN_RSP_FRAME_SIZE
      [] kind = "CP" -> AVRC_CT_CP_FIXED_RSP_FRAME_SIZE
      [] kind = "GFI" -> AVRC_CT_GFI_MIN_RSP_FRAME_SIZE
      [] kind = "GIA" -> AVRC_CT_GIA_MIN_RSP_FRAME_SIZE
      [] kind = "GTNOI" -> AVRC_CT_GTNOI_FIXED_RSP_FRAME_SIZE

(* Every command AssemblePacket builds fills exactly the frame PacketMalloc *)
(* allocated, carries its PDU id and a parameter length equal to the bytes *)
(* after the header, and a target reading it by the protocol layout gets  *)
(* back the parameters the command object was constructed with.          *)
AssembledCommandReadsBack ==
    (packet # NoPacket /\ packet.dir = "cmd" /\ packet.out # NoPacket) =>
        LET b == packet.out.bytes
        IN /\ Len(b) = packet.out.size
           /\ Wire!Field(b, 0, 1) = PduOf(packet.kind)
           /\ Wire!Field(b, 1, 2) = Len(b) - 3
           /\ CommandFields(packet.kind, b) = packet.in

(* DisassemblePacket of a complete response delivers what the target       *)
(* encoded: header fields, folder names, the player and the folder/element *)
(* items each in encounter order with their attributes and values.         *)
ResponseFieldsMatchPeer ==
    FromPeer =>
        LET m == Meaning(packet.kind, packet.in.peer)
        IN \A f \in DOMAIN m : f \in DOMAIN packet.out /\ packet.out[f] = m[f]

(* A response carrying a character set other than UTF-8 in any text field  *)
(* is reported invalid by DisassemblePacket (the strict validation rule).  *)
CharsetPolicyEnforced ==
    (FromPeer /\ \E cs \in Wire!Charsets(packet.kind, packet.in.peer) :
                     cs # AVRC_MEDIA_CHARACTER_SET_UTF8)
        => ~packet.out.valid

(* A response DisassemblePacket reports valid was read within its payload: *)
(* a packet that ends inside a field it declares is never accepted.        *)
TruncatedResponseRejected ==
    (IsResponse /\ packet.out.valid) => packet.out.reach <= Len(packet.in.bytes)

(* A response shorter than its PDU's minimum size is rejected before any   *)
(* field is read from it.                                                  *)
ShortResponseRejected ==
    (IsResponse /\ Len(packet.in.bytes) < MinResponse(packet.kind)) => packet.out.reach = 0

====
