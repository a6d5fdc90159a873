---------------------------- MODULE AvrcpCtBrowse ----------------------------
(***************************************************************************)
(* The AVRCP controller's browse packet codec (avrcp_ct/avrcp_ct_browse.   *)
(* cpp): for SetBrowsedPlayer (Sbp), ChangePath (Cp), GetFolderItems       *)
(* (Gfi), GetItemAttributes (Gia) and GetTotalNumberOfItems (Gtnoi), the   *)
(* AssemblePacket of a command and the DisassemblePacket of a response.    *)
(*                                                                         *)
(* A packet is a sequence of byte values.  The decoders follow the code's  *)
(* offset arithmetic step by step: each PopOctetsN reads N bytes at the     *)
(* current offset, and each result records `reach', one past the last byte *)
(* the decode read.  The code reads through a raw pointer without bounds   *)
(* checks, so a read past the payload is undefined; its value is taken as  *)
(* 0 here and every property that looks at decoded values is stated only   *)
(* for decodes with reach <= the payload size.                             *)
(*                                                                         *)
(* The state machine is the packet object's life: a constructor builds one *)
(* (from parameters, assembling a command, or from an inbound packet,      *)
(* disassembling a response) and the destructor frees it.                  *)
(***************************************************************************)
EXTENDS Naturals, Sequences, SequencesExt

CONSTANTS
    \* AVRC_CT_PDU_ID_*
    AVRC_CT_PDU_ID_SET_BROWSED_PLAYER, AVRC_CT_PDU_ID_CHANGE_PATH,
    AVRC_CT_PDU_ID_GET_FOLDER_ITEMS, AVRC_CT_PDU_ID_GET_ITEM_ATTRIBUTES,
    AVRC_CT_PDU_ID_GET_TOTAL_NUMBER_OF_ITEMS,
    \* frame sizes and parameter lengths of avrcp_ct_browse.h
    AVRC_CT_SBP_FIXED_CMD_FRAME_SIZE, AVRC_CT_SBP_FIXED_CMD_PARAMETER_LENGTH,
    AVRC_CT_SBP_MIN_RSP_FRAME_SIZE,
    AVRC_CT_CP_FIXED_CMD_FRAME_SIZE, AVRC_CT_CP_FIXED_CMD_PARAMETER_LENGTH,
    AVRC_CT_CP_FIXED_RSP_FRAME_SIZE,
    AVRC_CT_GFI_MIN_CMD_FRAME_SIZE, AVRC_CT_GFI_FIXED_CMD_PARAMETER_LENGTH,
    AVRC_CT_GFI_ATTRIBUTE_ID_SIZE, AVRC_CT_GFI_MIN_RSP_FRAME_SIZE,
    AVRC_CT_GFI_VALID_FEATURE_OCTETS,
    AVRC_CT_GIA_MIN_CMD_FRAME_SIZE, AVRC_CT_GIA_FIXED_CMD_PARAMETER_LENGTH,
    AVRC_CT_GIA_ATTRIBUTE_ID_SIZE, AVRC_CT_GIA_MIN_RSP_FRAME_SIZE,
    AVRC_CT_GTNOI_FIXED_CMD_FRAME_SIZE, AVRC_CT_GTNOI_FIXED_CMD_PARAMETER_LENGTH,
    AVRC_CT_GTNOI_FIXED_RSP_FRAME_SIZE,
    \* protocol values
    AVRC_MEDIA_CHARACTER_SET_UTF8, AVRC_ATTRIBUTE_COUNT_NO, AVRC_ES_CODE_INVALID,
    AVRC_MEDIA_TYPE_MEDIA_PLAYER_ITEM, AVRC_MEDIA_TYPE_FOLDER_ITEM,
    AVRC_MEDIA_TYPE_MEDIA_ELEMENT_ITEM, AVRC_MEDIA_FOLDER_PLAYABLE_RESERVED,
    \* inputs: the commands the profile asks for and the packets the peer sends
    SbpCommands, CpCommands, GfiCommands, GiaCommands, GtnoiCommands,
    SbpResponses, CpResponses, GfiResponses, GiaResponses, GtnoiResponses

Bytes == 0..255

-----------------------------------------------------------------------------
(* Octet primitives.  PushOctetsN writes v most significant byte first;    *)
(* PopOctetsN reads N bytes at a 0-based offset the same way.              *)
RECURSIVE PushOctets(_, _)
\* Mutant: the value is not cut to one octet per position.
PushOctets_noMask(n, v) ==
    IF n = 0 THEN <<>> ELSE PushOctets(n - 1, v \div 256) \o <<v>>

PushOctets(n, v) ==
    IF n = 0 THEN <<>> ELSE PushOctets(n - 1, v \div 256) \o <<v % 256>>

\* The byte at 0-based offset i; a read past the payload yields 0.
ByteAt(buf, i) == IF i < Len(buf) THEN buf[i + 1] ELSE 0

RECURSIVE PopOctets(_, _, _)
PopOctets(buf, off, n) ==
    IF n = 0 THEN 0 ELSE PopOctets(buf, off, n - 1) * 256 + ByteAt(buf, off + n - 1)

\* n successive PopOctets1 reads from off
PopBytes(buf, off, n) == [j \in 1..n |-> ByteAt(buf, off + j - 1)]

\* new char[len + 1] filled and NUL-terminated, then taken as a C string by
\* std::string / push_back: the text ends at the first NUL byte.
CString(s) ==
    LET z == SelectInSeq(s, LAMBDA c : c = 0)
    IN IF z = 0 THEN s ELSE SubSeq(s, 1, z - 1)

MaxOf(a, b) == IF a >= b THEN a ELSE b

-----------------------------------------------------------------------------
(* SetBrowsedPlayer.                                                       *)
SbpAssemblePacket(playerId) ==
    [size  |-> AVRC_CT_SBP_FIXED_CMD_FRAME_SIZE,
     bytes |-> PushOctets(1, AVRC_CT_PDU_ID_SET_BROWSED_PLAYER)
               \o PushOctets(2, AVRC_CT_SBP_FIXED_CMD_PARAMETER_LENGTH)
               \o PushOctets(2, playerId)]

\* DisassemblePacketName: folderDepth times [NameLength:2][name bytes].
\* It sets isValid_ = false on entry and isValid_ = true on return.
RECURSIVE SbpDisassemblePacketName(_, _, _)
SbpDisassemblePacketName(buf, off, depth) ==
    IF depth = 0
      THEN [names |-> <<>>, off |-> off, valid |-> TRUE]
      ELSE LET len  == PopOctets(buf, off, 2)
               rest == SbpDisassemblePacketName(buf, off + 2 + len, depth - 1)
           IN [rest EXCEPT !.names = <<CString(PopBytes(buf, off + 2, len))>> \o @]

\* The fields of a response packet object that no decode has filled in.
NotDecoded(pdu) ==
    [valid |-> FALSE, reach |-> 0, pduId |-> pdu, status |-> AVRC_ES_CODE_INVALID]

\* DisassemblePacket: isValid_ = false; a packet shorter than the minimum
\* response is rejected; otherwise the fixed fields are read in order, a
\* character set other than UTF-8 sets isValid_ = false, and the folder
\* names are read by DisassemblePacketName, whose isValid_ = true is the
\* result: the character set (bytes 10-11) never reaches it.
SbpDisassemblePacket(buf) ==
    IF Len(buf) < AVRC_CT_SBP_MIN_RSP_FRAME_SIZE
      THEN NotDecoded(AVRC_CT_PDU_ID_SET_BROWSED_PLAYER)
      ELSE LET depth == PopOctets(buf, 12, 1)
               nm    == SbpDisassemblePacketName(buf, 13, depth)
           IN [valid |-> nm.valid, reach |-> nm.off,
               pduId |-> PopOctets(buf, 0, 1), status |-> PopOctets(buf, 3, 1),
               uidCounter |-> PopOctets(buf, 4, 2), numOfItems |-> PopOctets(buf, 6, 4),
               folderDepth |-> depth, folderNames |-> nm.names]

-----------------------------------------------------------------------------
(* ChangePath.                                                             *)
CpAssemblePacket(cmd) ==
    [size  |-> AVRC_CT_CP_FIXED_CMD_FRAME_SIZE,
     bytes |-> PushOctets(1, AVRC_CT_PDU_ID_CHANGE_PATH)
               \o PushOctets(2, AVRC_CT_CP_FIXED_CMD_PARAMETER_LENGTH)
               \o PushOctets(2, cmd.uidCounter) \o PushOctets(1, cmd.direction)
               \o PushOctets(8, cmd.folderUid)]

CpDisassemblePacket(buf) ==
    IF Len(buf) < AVRC_CT_CP_FIXED_RSP_FRAME_SIZE
      THEN NotDecoded(AVRC_CT_PDU_ID_CHANGE_PATH)
      ELSE [valid |-> TRUE, reach |-> 8,
            pduId |-> PopOctets(buf, 0, 1), status |-> PopOctets(buf, 3, 1),
            numOfItems |-> PopOctets(buf, 4, 4)]

-----------------------------------------------------------------------------
(* GetTotalNumberOfItems.                                                  *)
GtnoiAssemblePacket(scope) ==
    [size  |-> AVRC_CT_GTNOI_FIXED_CMD_FRAME_SIZE,
     bytes |-> PushOctets(1, AVRC_CT_PDU_ID_GET_TOTAL_NUMBER_OF_ITEMS)
               \o PushOctets(2, AVRC_CT_GTNOI_FIXED_CMD_PARAMETER_LENGTH)
               \o PushOctets(1, scope)]

GtnoiDisassemblePacket(buf) ==
    IF Len(buf) < AVRC_CT_GTNOI_FIXED_RSP_FRAME_SIZE
      THEN NotDecoded(AVRC_CT_PDU_ID_GET_TOTAL_NUMBER_OF_ITEMS)
      ELSE [valid |-> TRUE, reach |-> 10,
            pduId |-> PopOctets(buf, 0, 1), status |-> PopOctets(buf, 3, 1),
            uidCounter |-> PopOctets(buf, 4, 2), numOfItems |-> PopOctets(buf, 6, 4)]

-----------------------------------------------------------------------------
(* GetFolderItems.                                                         *)

\* attributeCount_ on the wire: AVRC_ATTRIBUTE_COUNT_NO for an empty list.
GfiAttributeCount(attributes) ==
    IF Len(attributes) = 0 THEN AVRC_ATTRIBUTE_COUNT_NO ELSE Len(attributes)

\* Mutant: parameterLength_ without the attribute ids.
GfiAssemblePacket_fixedParamLen(cmd) ==
    [size  |-> AVRC_CT_GFI_MIN_CMD_FRAME_SIZE
                 + Len(cmd.attributes) * AVRC_CT_GFI_ATTRIBUTE_ID_SIZE,
     bytes |-> PushOctets(1, AVRC_CT_PDU_ID_GET_FOLDER_ITEMS)
               \o PushOctets(2, AVRC_CT_GFI_FIXED_CMD_PARAMETER_LENGTH)
               \o PushOctets(1, cmd.scope) \o PushOctets(4, cmd.startItem)
               \o PushOctets(4, cmd.endItem)
               \o PushOctets(1, GfiAttributeCount(cmd.attributes))
               \o FlattenSeq([i \in 1..Len(cmd.attributes) |-> PushOctets(4, cmd.attributes[i])])]

GfiAssemblePacket(cmd) ==
    [size  |-> AVRC_CT_GFI_MIN_CMD_FRAME_SIZE
                 + Len(cmd.attributes) * AVRC_CT_GFI_ATTRIBUTE_ID_SIZE,
     bytes |-> PushOctets(1, AVRC_CT_PDU_ID_GET_FOLDER_ITEMS)
               \o PushOctets(2, AVRC_CT_GFI_FIXED_CMD_PARAMETER_LENGTH
                                + Len(cmd.attributes) * AVRC_CT_GFI_ATTRIBUTE_ID_SIZE)
               \o PushOctets(1, cmd.scope) \o PushOctets(4, cmd.startItem)
               \o PushOctets(4, cmd.endItem)
               \o PushOctets(1, GfiAttributeCount(cmd.attributes))
               \o FlattenSeq([i \in 1..Len(cmd.attributes) |-> PushOctets(4, cmd.attributes[i])])]

\* DisassembleMpParameterName / DisassembleMeParameterName:
\* [NameLength:2][name bytes]; isValid_ = false on entry, true on return.
GfiParameterName(buf, off) ==
    LET len == PopOctets(buf, off, 2)
    IN [name |-> CString(PopBytes(buf, off + 2, len)), off |-> off + 2 + len]

\* DisassembleMpParameter: one media player item at off.  isValid_ = true,
\* a non-UTF-8 character set sets it false, and the name sets it true.
GfiMpParameter(buf, off) ==
    LET F  == AVRC_CT_GFI_VALID_FEATURE_OCTETS
        nm == GfiParameterName(buf, off + 13 + F)
    IN [valid |-> TRUE, off |-> nm.off,
        item |-> [itemType |-> PopOctets(buf, off, 1), playerId |-> PopOctets(buf, off + 3, 2),
                  majorType |-> PopOctets(buf, off + 5, 1), subType |-> PopOctets(buf, off + 6, 4),
                  playStatus |-> PopOctets(buf, off + 10, 1),
                  features |-> PopBytes(buf, off + 11, F), name |-> nm.name]]

\* The attribute loop of DisassembleMeParameterAttributesAndValues: k times
\* [AttributeId:4][CharacterSetId:2][ValueLength:2][value bytes].
RECURSIVE GfiAttributesAndValues(_, _, _)
GfiAttributesAndValues(buf, off, k) ==
    IF k = 0
      THEN [attributes |-> <<>>, values |-> <<>>, off |-> off]
      ELSE LET len  == PopOctets(buf, off + 6, 2)
               rest == GfiAttributesAndValues(buf, off + 8 + len, k - 1)
           IN [rest EXCEPT !.attributes = <<PopOctets(buf, off, 4)>> \o @,
                           !.values = <<CString(PopBytes(buf, off + 8, len))>> \o @]

\* Mutant: the playable octet is read for every item type.
GfiMeParameter_alwaysPlayable(buf, off) ==
    LET itemType == PopOctets(buf, off, 1)
        nm == GfiParameterName(buf, off + 15)
        av == IF itemType = AVRC_MEDIA_TYPE_MEDIA_ELEMENT_ITEM
                THEN GfiAttributesAndValues(buf, nm.off + 1, PopOctets(buf, nm.off, 1))
                ELSE [attributes |-> <<>>, values |-> <<>>, off |-> nm.off]
    IN [valid |-> TRUE, off |-> av.off,
        item |-> [itemType |-> itemType, uid |-> PopOctets(buf, off + 3, 8),
                  type |-> PopOctets(buf, off + 11, 1), playable |-> PopOctets(buf, off + 12, 1),
                  name |-> nm.name, attributes |-> av.attributes, values |-> av.values]]

\* DisassembleMeParameter: one folder or media element item at off.  The
\* playable octet is read for a folder item only, the attribute list for a
\* media element item only; the last isValid_ assignment, made by
\* DisassembleMeParameterAttributesAndValues, is true.
GfiMeParameter(buf, off) ==
    LET itemType == PopOctets(buf, off, 1)
        isFolder == itemType = AVRC_MEDIA_TYPE_FOLDER_ITEM
        o1 == IF isFolder THEN off + 13 ELSE off + 12
        nm == GfiParameterName(buf, o1 + 2)
        av == IF itemType = AVRC_MEDIA_TYPE_MEDIA_ELEMENT_ITEM
                THEN GfiAttributesAndValues(buf, nm.off + 1, PopOctets(buf, nm.off, 1))
                ELSE [attributes |-> <<>>, values |-> <<>>, off |-> nm.off]
    IN [valid |-> TRUE, off |-> av.off,
        item |-> [itemType |-> itemType, uid |-> PopOctets(buf, off + 3, 8),
                  type |-> PopOctets(buf, off + 11, 1),
                  playable |-> IF isFolder THEN PopOctets(buf, off + 12, 1)
                                           ELSE AVRC_MEDIA_FOLDER_PLAYABLE_RESERVED,
                  name |-> nm.name, attributes |-> av.attributes, values |-> av.values]]

\* The item loop of DisassemblePacket: k more items from off.  The type
\* octet is peeked without advancing the offset; an unknown type is
\* skipped without advancing it either.
RECURSIVE GfiItems(_, _, _, _)
GfiItems(buf, off, k, valid) ==
    IF k = 0
      THEN [mpItems |-> <<>>, meItems |-> <<>>, off |-> off, reach |-> off, valid |-> valid]
      ELSE LET t  == PopOctets(buf, off, 1)
               mp == t = AVRC_MEDIA_TYPE_MEDIA_PLAYER_ITEM
               me == t \in {AVRC_MEDIA_TYPE_FOLDER_ITEM, AVRC_MEDIA_TYPE_MEDIA_ELEMENT_ITEM}
               d  == IF mp THEN GfiMpParameter(buf, off)
                     ELSE IF me THEN GfiMeParameter(buf, off)
                     ELSE [valid |-> valid, off |-> off]
               rest == GfiItems(buf, d.off, k - 1, d.valid)
           IN [rest EXCEPT !.mpItems = IF mp THEN <<d.item>> \o @ ELSE @,
                           !.meItems = IF me THEN <<d.item>> \o @ ELSE @,
                           !.reach = MaxOf(off + 1, @)]

\* DisassemblePacket: the size test uses AVRC_CT_GIA_MIN_RSP_FRAME_SIZE.
GfiDisassemblePacket(buf) ==
    IF Len(buf) < AVRC_CT_GIA_MIN_RSP_FRAME_SIZE
      THEN NotDecoded(AVRC_CT_PDU_ID_GET_FOLDER_ITEMS)
      ELSE LET n  == PopOctets(buf, 6, 2)
               it == GfiItems(buf, 8, n, FALSE)
           IN [valid |-> it.valid, reach |-> MaxOf(8, it.reach),
               pduId |-> PopOctets(buf, 0, 1), status |-> PopOctets(buf, 3, 1),
               uidCounter |-> PopOctets(buf, 4, 2), numOfItems |-> n,
               mpItems |-> it.mpItems, meItems |-> it.meItems]

-----------------------------------------------------------------------------
(* GetItemAttributes.                                                      *)
GiaAssemblePacket(cmd) ==
    [size  |-> AVRC_CT_GIA_MIN_CMD_FRAME_SIZE
                 + Len(cmd.attributes) * AVRC_CT_GIA_ATTRIBUTE_ID_SIZE,
     bytes |-> PushOctets(1, AVRC_CT_PDU_ID_GET_ITEM_ATTRIBUTES)
               \o PushOctets(2, AVRC_CT_GIA_FIXED_CMD_PARAMETER_LENGTH
                                + Len(cmd.attributes) * AVRC_CT_GIA_ATTRIBUTE_ID_SIZE)
               \o PushOctets(1, cmd.scope) \o PushOctets(8, cmd.uid)
               \o PushOctets(2, cmd.uidCounter) \o PushOctets(1, Len(cmd.attributes))
               \o FlattenSeq([i \in 1..Len(cmd.attributes) |-> PushOctets(4, cmd.attributes[i])])]

\* The attribute loop of DisassemblePacket: k times [AttributeId:4]
\* [CharacterSetId:2], a non-UTF-8 set making isValid_ false, then
\* DisassemblePacketName's [ValueLength:2][value bytes], which sets
\* isValid_ = false on entry and true on return.
RECURSIVE GiaAttributes(_, _, _, _)
GiaAttributes(buf, off, k, valid) ==
    IF k = 0
      THEN [attributes |-> <<>>, values |-> <<>>, off |-> off, valid |-> valid]
      ELSE LET len  == PopOctets(buf, off + 6, 2)
               rest == GiaAttributes(buf, off + 8 + len, k - 1, TRUE)
           IN [rest EXCEPT !.attributes = <<PopOctets(buf, off, 4)>> \o @,
                           !.values = <<CString(PopBytes(buf, off + 8, len))>> \o @]

GiaDisassemblePacket(buf) ==
    IF Len(buf) < AVRC_CT_GIA_MIN_RSP_FRAME_SIZE
      THEN NotDecoded(AVRC_CT_PDU_ID_GET_ITEM_ATTRIBUTES)
      ELSE LET n  == PopOctets(buf, 4, 1)
               at == GiaAttributes(buf, 5, n, FALSE)
           IN [valid |-> at.valid, reach |-> at.off,
               pduId |-> PopOctets(buf, 0, 1), status |-> PopOctets(buf, 3, 1),
               numOfAttributes |-> n, attributes |-> at.attributes, values |-> at.values]

-----------------------------------------------------------------------------
(* The packet object.  A command object is constructed from the caller's  *)
(* parameters and assembled by AssemblePacket; a response object is       *)
(* constructed from an inbound packet, its constructor running            *)
(* DisassemblePacket.  The destructor frees the object and its pkt_.      *)
Kinds == {"SBP", "CP", "GFI", "GIA", "GTNOI"}

Commands(kind) ==
    CASE kind = "SBP" -> SbpCommands [] kind = "CP" -> CpCommands
      [] kind = "GFI" -> GfiCommands [] kind = "GIA" -> GiaCommands
      [] kind = "GTNOI" -> GtnoiCommands

\* Each inbound packet is a record whose .bytes field is the payload.
Responses(kind) ==
    CASE kind = "SBP" -> SbpResponses [] kind = "CP" -> CpResponses
      [] kind = "GFI" -> GfiResponses [] kind = "GIA" -> GiaResponses
      [] kind = "GTNOI" -> GtnoiResponses

\* the virtual AssemblePacket of each command class
AssemblePacketOf(kind, cmd) ==
    CASE kind = "SBP" -> SbpAssemblePacket(cmd) [] kind = "CP" -> CpAssemblePacket(cmd)
      [] kind = "GFI" -> GfiAssemblePacket(cmd) [] kind = "GIA" -> GiaAssemblePacket(cmd)
      [] kind = "GTNOI" -> GtnoiAssemblePacket(cmd)

\* the virtual DisassemblePacket of each response class
DisassemblePacketOf(kind, buf) ==
    CASE kind = "SBP" -> SbpDisassemblePacket(buf) [] kind = "CP" -> CpDisassemblePacket(buf)
      [] kind = "GFI" -> GfiDisassemblePacket(buf) [] kind = "GIA" -> GiaDisassemblePacket(buf)
      [] kind = "GTNOI" -> GtnoiDisassemblePacket(buf)

NoPacket == [kind |-> "none"]

VARIABLE packet   \* the live packet object, or NoPacket

Init == packet = NoPacket

\* AvrcCt<Kind>Packet(params): the command fields are stored, pkt_ is null.
ConstructCommand(kind, cmd) ==
    /\ packet = NoPacket
    /\ packet' = [kind |-> kind, dir |-> "cmd", in |-> cmd, out |-> NoPacket]

\* AssemblePacket: PacketMalloc a frame and push the fields into it.
AssemblePacket ==
    /\ packet.kind # "none" /\ packet.dir = "cmd" /\ packet.out = NoPacket
    /\ packet' = [packet EXCEPT !.out = AssemblePacketOf(packet.kind, packet.in)]

\* AvrcCt<Kind>Packet(Packet *pkt): the constructor runs DisassemblePacket.
ConstructFromPacket(kind, rsp) ==
    /\ packet = NoPacket
    /\ packet' = [kind |-> kind, dir |-> "rsp", in |-> rsp,
                   out |-> DisassemblePacketOf(kind, rsp.bytes)]

\* ~AvrcCtBrowsePacket: PacketFree(pkt_) if any; the object is gone.
DestroyPacket ==
    /\ packet # NoPacket
    /\ packet' = NoPacket

Next ==
    \/ \E k \in Kinds : \E c \in Commands(k) : ConstructCommand(k, c)
    \/ AssemblePacket
    \/ \E k \in Kinds : \E r \in Responses(k) : ConstructFromPacket(k, r)
    \/ DestroyPacket

Spec == Init /\ [][Next]_packet

TypeOK ==
    \/ packet = NoPacket
    \/ /\ packet.kind \in Kinds
       /\ packet.dir = "cmd" => packet.out = NoPacket
                               \/ /\ packet.out.size \in Nat
                                  /\ packet.out.bytes \in Seq(Bytes)
       /\ packet.dir = "rsp" => /\ packet.in.bytes \in Seq(Bytes)
                               /\ packet.out.valid \in BOOLEAN
                               /\ packet.out.reach \in Nat

====
