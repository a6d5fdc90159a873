CONSTANTS
    Writers <- MC_Writers
    SbcIndices <- MC_SbcIndices
    AacIndices <- MC_AacIndices
    OtherIndices <- MC_OtherIndices
    Buffers <- MC_Buffers
    MaxSwaps = 3
    MaxChunks = 1
    MaxQueue = 3
    NULL = NULL
SPECIFICATION Spec
PROPERTY SwapNeverDropsAcceptedPcm
