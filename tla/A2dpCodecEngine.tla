--------------------------- MODULE A2dpCodecEngine ---------------------------
(***************************************************************************)
(* What the A2DP codec engine promises the profile code, without threads,  *)
(* objects or buffers: tasks posted while the engine runs are processed    *)
(* one at a time in the order they were posted; an encoder swap            *)
(* (PCM_ENCODED) carrying a config makes the active encoder the codec that *)
(* config selects (none for an index the engine does not know); every     *)
(* other task, a swap with a null config included, leaves it as it is.    *)
(* The decoder is left out: the spec promises that a decoder swap never    *)
(* replaces a live decoder, which the code does not keep (A2dpCodecThread's*)
(* DecoderSwapPreservesDecoder), so this specification says nothing of it. *)
(* A2dpCodecThread implements this specification under the mapping        *)
(* A2dpCodecThread!Engine.                                                 *)
(***************************************************************************)
EXTENDS Sequences

CONSTANTS
    SbcIndices, AacIndices, OtherIndices,   \* codec indices by family
    NULL

VARIABLES
    queue,      \* tasks posted and not yet processed: [what, config]
    running,    \* the engine accepts tasks
    encCodec    \* codec family of the active encoder, or NULL

absVars == <<queue, running, encCodec>>

CodecIndices == SbcIndices \cup AacIndices \cup OtherIndices

Kinds == {"RECONFIGURE", "PCM_PUSH", "FRAME_READY", "PCM_ENCODED", "FRAME_DECODED"}

Family(i) == IF i \in SbcIndices THEN "SBC" ELSE IF i \in AacIndices THEN "AAC" ELSE NULL

\* the encoder a task leaves in place of cur
AfterTask(t, cur) == IF t.what = "PCM_ENCODED" /\ t.config # NULL THEN Family(t.config) ELSE cur

Init ==
    /\ queue = <<>>
    /\ running = FALSE
    /\ encCodec = NULL

Start == ~running /\ running' = TRUE /\ UNCHANGED <<queue, encCodec>>

Stop == running /\ running' = FALSE /\ UNCHANGED <<queue, encCodec>>

Post(t) ==
    /\ running
    /\ queue' = Append(queue, t)
    /\ UNCHANGED <<running, encCodec>>

Process ==
    /\ queue # <<>>
    /\ encCodec' = AfterTask(Head(queue), encCodec)
    /\ queue' = Tail(queue)
    /\ UNCHANGED running

Next ==
    \/ Start \/ Stop \/ Process
    \/ \E w \in Kinds, c \in CodecIndices \cup {NULL} : Post([what |-> w, config |-> c])

\* every posted task is eventually processed
Spec == Init /\ [][Next]_absVars /\ WF_absVars(Process)

====
