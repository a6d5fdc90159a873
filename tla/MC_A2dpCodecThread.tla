------------------------- MODULE MC_A2dpCodecThread -------------------------
(* Model-checking instance of A2dpCodecThread: one caller thread, one      *)
(* SBC, one AAC and one unknown codec index, one inbound frame payload.    *)
EXTENDS A2dpCodecThread, TLC

MC_Writers == {"w1"}
MC_SbcIndices == {"idxSbc"}
MC_AacIndices == {"idxAac"}
MC_OtherIndices == {"idxVendor"}
MC_Buffers == {"b1"}
=============================================================================
