CONSTANTS
    AVRC_CT_PDU_ID_SET_BROWSED_PLAYER = 112
    AVRC_CT_PDU_ID_CHANGE_PATH = 114
    AVRC_CT_PDU_ID_GET_FOLDER_ITEMS = 113
    AVRC_CT_PDU_ID_GET_ITEM_ATTRIBUTES = 115
    AVRC_CT_PDU_ID_GET_TOTAL_NUMBER_OF_ITEMS = 117
    AVRC_CT_SBP_FIXED_CMD_FRAME_SIZE = 5
    AVRC_CT_SBP_FIXED_CMD_PARAMETER_LENGTH = 2
    AVRC_CT_SBP_MIN_RSP_FRAME_SIZE = 13
    AVRC_CT_CP_FIXED_CMD_FRAME_SIZE = 14
    AVRC_CT_CP_FIXED_CMD_PARAMETER_LENGTH = 11
    AVRC_CT_CP_FIXED_RSP_FRAME_SIZE = 8
    AVRC_CT_GFI_MIN_CMD_FRAME_SIZE = 13
    AVRC_CT_GFI_FIXED_CMD_PARAMETER_LENGTH = 10
    AVRC_CT_GFI_ATTRIBUTE_ID_SIZE = 4
    AVRC_CT_GFI_MIN_RSP_FRAME_SIZE = 8
    AVRC_CT_GFI_VALID_FEATURE_OCTETS = 16
    AVRC_CT_GIA_MIN_CMD_FRAME_SIZE = 15
    AVRC_CT_GIA_FIXED_CMD_PARAMETER_LENGTH = 12
    AVRC_CT_GIA_ATTRIBUTE_ID_SIZE = 4
    AVRC_CT_GIA_MIN_RSP_FRAME_SIZE = 5
    AVRC_CT_GTNOI_FIXED_CMD_FRAME_SIZE = 4
    AVRC_CT_GTNOI_FIXED_CMD_PARAMETER_LENGTH = 1
    AVRC_CT_GTNOI_FIXED_RSP_FRAME_SIZE = 10
    AVRC_MEDIA_CHARACTER_SET_UTF8 = 106
    AVRC_ATTRIBUTE_COUNT_NO = 255
    AVRC_ES_CODE_INVALID = 255
    AVRC_MEDIA_TYPE_MEDIA_PLAYER_ITEM = 1
    AVRC_MEDIA_TYPE_FOLDER_ITEM = 2
    AVRC_MEDIA_TYPE_MEDIA_ELEMENT_ITEM = 3
    AVRC_MEDIA_FOLDER_PLAYABLE_RESERVED = 2
    SbpCommands <- MC_SbpCommands
    CpCommands <- MC_CpCommands
    GfiCommands <- MC_GfiCommands
    GiaCommands <- MC_GiaCommands
    GtnoiCommands <- MC_GtnoiCommands
    SbpResponses <- MC_SbpResponses
    CpResponses <- MC_CpResponses
    GfiResponses <- MC_GfiResponses
    GiaResponses <- MC_GiaResponses
    GtnoiResponses <- MC_GtnoiResponses
SPECIFICATION Spec
INVARIANT TypeOK
INVARIANT AssembledCommandReadsBack
INVARIANT ResponseFieldsMatchPeer
