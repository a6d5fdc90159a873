--------------------------- MODULE A2dpCodecThread ---------------------------
(***************************************************************************)
(* The A2DP codec dispatch engine (gavdp/a2dp_codec_thread.cpp).           *)
(*                                                                         *)
(* One dispatcher thread runs the tasks posted by PostMessage in FIFO      *)
(* order; each task is ProcessMessage(msg, ...) under g_codecMutex.  The   *)
(* tasks own the active encoder_ and decoder_.  Caller threads run         *)
(* WriteFrame and GetRenderPosition concurrently; these read encoder_      *)
(* WITHOUT the mutex, so each is split into the steps the code performs:   *)
(* test encoder_ != nullptr, load encoder_ for the call, use the object.   *)
(* The encoder swap (A2DP_PCM_ENCODED) is split likewise: the old encoder  *)
(* is released and deleted before SourceEncode installs the new one.      *)
(*                                                                         *)
(* Encoders and decoders are objects with identities so that a deleted     *)
(* object can be told apart from a live one.  PCM handed to an encoder by  *)
(* SetPcmData is a chunk id held in that object's buffer until SendFrames  *)
(* sends it.  Inbound frame payloads are buffer ids that the task must     *)
(* free.                                                                   *)
(***************************************************************************)
EXTENDS Naturals, Sequences, FiniteSets

CONSTANTS
    Writers,      \* caller threads of WriteFrame / GetRenderPosition
    SbcIndices,   \* A2DP_{SOURCE,SINK}_CODEC_INDEX_SBC
    AacIndices,   \* A2DP_{SOURCE,SINK}_CODEC_INDEX_AAC
    OtherIndices, \* codec indices SourceEncode/SinkDecode do not know
    Buffers,      \* inbound frame payloads (msg.arg2_) of A2DP_FRAME_READY
    MaxSwaps,     \* bound on encoder/decoder swap tasks posted
    MaxChunks,    \* bound on PCM chunks ever handed to WriteFrame
    MaxQueue,     \* bound on pending dispatcher tasks
    NULL

ASSUME /\ SbcIndices \cap AacIndices = {}
       /\ OtherIndices \cap (SbcIndices \cup AacIndices) = {}
       /\ MaxSwaps \in Nat /\ MaxChunks \in Nat /\ MaxQueue \in Nat \ {0}

CodecIndices == SbcIndices \cup AacIndices \cup OtherIndices
\* Each swap task constructs at most one object.
ObjIds == 1..MaxSwaps
Chunks == 1..MaxChunks

\* msg.what_ values handled by ProcessMessage
Kinds == {"RECONFIGURE", "PCM_PUSH", "FRAME_READY", "PCM_ENCODED", "FRAME_DECODED"}

\* A task carries msg.what_, the config's codec index (NULL for a null
\* config pointer) and msg.arg2_ (NULL for a null payload).
Tasks == [what : Kinds, config : CodecIndices \cup {NULL}, payload : Buffers \cup {NULL}]

\* The codec family an index selects, or NULL for the switch's default.
CodecOf(i) == IF i \in SbcIndices THEN "SBC"
              ELSE IF i \in AacIndices THEN "AAC"
              ELSE NULL

Objects == [id : ObjIds, codec : {"SBC", "AAC"}]

VARIABLES
    queue,      \* dispatcher_ task queue
    running,    \* dispatcher_ initialized (threadInit)
    wstep,      \* "idle" or "releasing": a PCM_ENCODED task between delete and SourceEncode
    encoder,    \* encoder_: NULL or an object
    decoder,    \* decoder_: NULL or an object
    live,       \* ids of constructed and not yet deleted objects
    nextObj,    \* next object id
    pcmBuf,     \* pcmBuf[o]: chunks held by object o, not yet sent
    sent,       \* chunks sent by SendFrames
    nextChunk,  \* next chunk id
    freed,      \* freed[b]: times payload b was freed
    posted,     \* payloads posted with A2DP_FRAME_READY
    decoded,    \* <<payload, decoder object>> pairs passed to DecodePacket
    swaps,      \* swap tasks posted so far (bounded by MaxSwaps)
    lastEncPosted,\* history: codec index of the last accepted PCM_ENCODED task with a config
    pc,         \* pc[w]: step of caller thread w
    ptr         \* ptr[w]: the encoder_ value loaded by w for its call

vars == <<queue, running, wstep, encoder, decoder, live, nextObj, pcmBuf, sent,
          nextChunk, freed, posted, decoded, swaps, lastEncPosted, pc, ptr>>

engine == <<encoder, decoder, live, nextObj, pcmBuf, sent, nextChunk, freed, decoded>>

-----------------------------------------------------------------------------
(* Construction of a new encoder/decoder object of a codec family.         *)
NewObject(codec) == [id |-> nextObj, codec |-> codec]

\* Mutant: a task jumps ahead of the tasks already pending.
PostMessage_front(t) ==
    IF running THEN queue' = <<t>> \o queue ELSE queue' = queue

(* PostMessage: dispatcher_->PostTask(bind(ProcessMessage, ...)); returns  *)
(* true.  A stopped dispatcher takes no new task.                          *)
PostMessage(t) ==
    IF running THEN queue' = Append(queue, t) ELSE queue' = queue

Init ==
    /\ queue = <<>>
    /\ running = FALSE
    /\ wstep = "idle"
    /\ encoder = NULL
    /\ decoder = NULL
    /\ live = {}
    /\ nextObj = 1
    /\ pcmBuf = [o \in ObjIds |-> {}]
    /\ sent = {}
    /\ nextChunk = 1
    /\ freed = [b \in Buffers |-> 0]
    /\ posted = {}
    /\ decoded = {}
    /\ swaps = 0
    /\ lastEncPosted = NULL
    /\ pc = [w \in Writers |-> "idle"]
    /\ ptr = [w \in Writers |-> NULL]

-----------------------------------------------------------------------------
(* StartA2dpCodecThread / StopA2dpCodecThread.                             *)
StartA2dpCodecThread ==
    /\ ~running
    /\ running' = TRUE
    /\ UNCHANGED <<queue, wstep, engine, posted, swaps, lastEncPosted, pc, ptr>>

StopA2dpCodecThread ==
    /\ running
    /\ running' = FALSE
    /\ UNCHANGED <<queue, wstep, engine, posted, swaps, lastEncPosted, pc, ptr>>

(* Profile code posting tasks through PostMessage.                         *)
PostReconfigure ==
    /\ Len(queue) < MaxQueue
    /\ PostMessage([what |-> "RECONFIGURE", config |-> NULL, payload |-> NULL])
    /\ UNCHANGED <<running, wstep, engine, posted, swaps, lastEncPosted, pc, ptr>>

PostEncoderSwap(i) ==
    /\ Len(queue) < MaxQueue
    /\ swaps < MaxSwaps
    /\ PostMessage([what |-> "PCM_ENCODED", config |-> i, payload |-> NULL])
    /\ swaps' = swaps + 1
    /\ lastEncPosted' = IF running /\ i # NULL THEN i ELSE lastEncPosted
    /\ UNCHANGED <<running, wstep, engine, posted, pc, ptr>>

PostDecoderSwap(i) ==
    /\ Len(queue) < MaxQueue
    /\ swaps < MaxSwaps
    /\ PostMessage([what |-> "FRAME_DECODED", config |-> i, payload |-> NULL])
    /\ swaps' = swaps + 1
    /\ UNCHANGED <<running, wstep, engine, posted, lastEncPosted, pc, ptr>>

\* A payload reaches ProcessMessage only when the dispatcher took the task.
PostFrameReady(b) ==
    /\ Len(queue) < MaxQueue
    /\ b = NULL \/ b \notin posted
    /\ running
    /\ PostMessage([what |-> "FRAME_READY", config |-> NULL, payload |-> b])
    /\ posted' = IF b = NULL THEN posted ELSE posted \cup {b}
    /\ UNCHANGED <<running, wstep, engine, swaps, lastEncPosted, pc, ptr>>

-----------------------------------------------------------------------------
(* The dispatcher thread: ProcessMessage(Head(queue)).                     *)
Pop == queue' = Tail(queue)

\* A2DP_AUDIO_RECONFIGURE: encoder_->UpdateEncoderParam() if any.
Reconfigure ==
    /\ wstep = "idle" /\ queue # <<>>
    /\ Head(queue).what = "RECONFIGURE"
    /\ Pop
    /\ UNCHANGED <<running, wstep, engine, posted, swaps, lastEncPosted, pc, ptr>>

\* A2DP_PCM_PUSH: encoder_->SendFrames() drains the encoder's PCM.
PcmPush ==
    /\ wstep = "idle" /\ queue # <<>>
    /\ Head(queue).what = "PCM_PUSH"
    /\ Pop
    /\ IF encoder # NULL
         THEN /\ sent' = sent \cup pcmBuf[encoder.id]
              /\ pcmBuf' = [pcmBuf EXCEPT ![encoder.id] = {}]
         ELSE UNCHANGED <<sent, pcmBuf>>
    /\ UNCHANGED <<running, wstep, encoder, decoder, live, nextObj, nextChunk,
                   freed, decoded, posted, swaps, lastEncPosted, pc, ptr>>

\* Mutant: the payload is freed only on the path that decoded it.
FrameReady_freeIfDecoded ==
    /\ wstep = "idle" /\ queue # <<>>
    /\ Head(queue).what = "FRAME_READY"
    /\ Pop
    /\ LET b == Head(queue).payload IN
         /\ decoded' = IF b # NULL /\ decoder # NULL
                         THEN decoded \cup {<<b, decoder>>} ELSE decoded
         /\ freed' = IF b # NULL /\ decoder # NULL THEN [freed EXCEPT ![b] = @ + 1] ELSE freed
    /\ UNCHANGED <<running, wstep, encoder, decoder, live, nextObj, pcmBuf, sent,
                   nextChunk, posted, swaps, lastEncPosted, pc, ptr>>

\* A2DP_FRAME_READY: decode if both payload and decoder_, then free payload.
FrameReady ==
    /\ wstep = "idle" /\ queue # <<>>
    /\ Head(queue).what = "FRAME_READY"
    /\ Pop
    /\ LET b == Head(queue).payload IN
         /\ decoded' = IF b # NULL /\ decoder # NULL
                         THEN decoded \cup {<<b, decoder>>} ELSE decoded
         /\ freed' = IF b # NULL THEN [freed EXCEPT ![b] = @ + 1] ELSE freed
    /\ UNCHANGED <<running, wstep, encoder, decoder, live, nextObj, pcmBuf, sent,
                   nextChunk, posted, swaps, lastEncPosted, pc, ptr>>

\* Mutant: encoder_.release() without the delete.
EncoderRelease_noDelete ==
    /\ wstep = "idle" /\ queue # <<>>
    /\ Head(queue).what = "PCM_ENCODED"
    /\ IF Head(queue).config = NULL
         THEN /\ Pop
              /\ UNCHANGED <<wstep, encoder, live>>
         ELSE /\ wstep' = "releasing"
              /\ encoder' = NULL
              /\ UNCHANGED <<queue, live>>
    /\ UNCHANGED <<running, decoder, nextObj, pcmBuf, sent, nextChunk, freed,
                   decoded, posted, swaps, lastEncPosted, pc, ptr>>

\* Mutant: the old encoder is deleted before the null-config return.
EncoderRelease_deleteFirst ==
    /\ wstep = "idle" /\ queue # <<>>
    /\ Head(queue).what = "PCM_ENCODED"
    /\ encoder' = NULL
    /\ live' = IF encoder # NULL THEN live \ {encoder.id} ELSE live
    /\ IF Head(queue).config = NULL
         THEN /\ Pop
              /\ UNCHANGED wstep
         ELSE /\ wstep' = "releasing"
              /\ UNCHANGED queue
    /\ UNCHANGED <<running, decoder, nextObj, pcmBuf, sent, nextChunk, freed,
                   decoded, posted, swaps, lastEncPosted, pc, ptr>>

\* A2DP_PCM_ENCODED, first half: a null config returns; otherwise
\* encoder_.release() and delete the old encoder.
EncoderRelease ==
    /\ wstep = "idle" /\ queue # <<>>
    /\ Head(queue).what = "PCM_ENCODED"
    /\ IF Head(queue).config = NULL
         THEN /\ Pop
              /\ UNCHANGED <<wstep, encoder, live>>
         ELSE /\ wstep' = "releasing"
              /\ encoder' = NULL
              /\ live' = IF encoder # NULL THEN live \ {encoder.id} ELSE live
              /\ UNCHANGED queue
    /\ UNCHANGED <<running, decoder, nextObj, pcmBuf, sent, nextChunk, freed,
                   decoded, posted, swaps, lastEncPosted, pc, ptr>>

\* Mutant: the switch's default case falls through to construction.
SourceEncode_noDefault ==
    /\ wstep = "releasing"
    /\ encoder' = NewObject(CodecOf(Head(queue).config))
    /\ live' = live \cup {nextObj}
    /\ nextObj' = nextObj + 1
    /\ wstep' = "idle"
    /\ Pop
    /\ UNCHANGED <<running, decoder, pcmBuf, sent, nextChunk, freed, decoded,
                   posted, swaps, lastEncPosted, pc, ptr>>

\* A2DP_PCM_ENCODED, second half: SourceEncode constructs the encoder of
\* the config's codec, or none for an unknown index.
SourceEncode ==
    /\ wstep = "releasing"
    /\ LET c == CodecOf(Head(queue).config) IN
         IF c # NULL
           THEN /\ encoder' = NewObject(c)
                /\ live' = live \cup {nextObj}
                /\ nextObj' = nextObj + 1
           ELSE UNCHANGED <<encoder, live, nextObj>>
    /\ wstep' = "idle"
    /\ Pop
    /\ UNCHANGED <<running, decoder, pcmBuf, sent, nextChunk, freed, decoded,
                   posted, swaps, lastEncPosted, pc, ptr>>

\* A2DP_FRAME_DECODED: a null config returns; otherwise decoder_ is
\* released and deleted and SinkDecode constructs one if decoder_ is null.
FrameDecoded ==
    /\ wstep = "idle" /\ queue # <<>>
    /\ Head(queue).what = "FRAME_DECODED"
    /\ Pop
    /\ LET i == Head(queue).config
           c == CodecOf(i)
           afterDelete == IF decoder # NULL THEN live \ {decoder.id} ELSE live
       IN IF i = NULL
            THEN UNCHANGED <<decoder, live, nextObj>>
          ELSE IF c # NULL
            THEN /\ decoder' = NewObject(c)
                 /\ live' = afterDelete \cup {nextObj}
                 /\ nextObj' = nextObj + 1
          ELSE /\ decoder' = NULL
               /\ live' = afterDelete
               /\ UNCHANGED nextObj
    /\ UNCHANGED <<running, wstep, encoder, pcmBuf, sent, nextChunk, freed,
                   decoded, posted, swaps, lastEncPosted, pc, ptr>>

-----------------------------------------------------------------------------
(* Caller threads.  WriteFrame(data, size):                                *)
(*   if (encoder_ != nullptr) {                         -- WriteFrameCheck *)
(*     if (!encoder_->SetPcmData(data, size)) ...       -- Load, SetPcm    *)
(*     PostMessage(A2DP_PCM_PUSH); return true; }                          *)
(*   return false;                                                         *)
WriteFrameCheck(w) ==
    /\ pc[w] = "idle"
    /\ pc' = [pc EXCEPT ![w] = IF encoder # NULL THEN "wf_checked" ELSE "idle"]
    /\ UNCHANGED <<queue, running, wstep, engine, posted, swaps, lastEncPosted, ptr>>

\* encoder_ is read a second time for the call.
WriteFrameLoad(w) ==
    /\ pc[w] = "wf_checked"
    /\ pc' = [pc EXCEPT ![w] = "wf_loaded"]
    /\ ptr' = [ptr EXCEPT ![w] = encoder]
    /\ UNCHANGED <<queue, running, wstep, engine, posted, swaps, lastEncPosted>>

\* SetPcmData copies the chunk into the loaded object's buffer; it may
\* refuse it (buffer full), in which case WriteFrame returns false.  A call
\* through a null or deleted object is undefined behaviour: the chunk lands
\* nowhere that SendFrames will reach.
WriteFrameSetPcm(w) ==
    /\ pc[w] = "wf_loaded"
    /\ pc' = [pc EXCEPT ![w] = "idle"]
    /\ ptr' = [ptr EXCEPT ![w] = NULL]
    /\ \/ /\ ptr[w] # NULL
          /\ nextChunk <= MaxChunks /\ Len(queue) < MaxQueue
          /\ pcmBuf' = [pcmBuf EXCEPT ![ptr[w].id] = @ \cup {nextChunk}]
          /\ nextChunk' = nextChunk + 1
          /\ PostMessage([what |-> "PCM_PUSH", config |-> NULL, payload |-> NULL])
       \/ /\ UNCHANGED <<pcmBuf, nextChunk, queue>>
    /\ UNCHANGED <<running, wstep, encoder, decoder, live, nextObj, sent, freed,
                   decoded, posted, swaps, lastEncPosted>>

(* GetRenderPosition: if (encoder_ != nullptr) encoder_->GetRenderPosition *)
GetRenderPositionCheck(w) ==
    /\ pc[w] = "idle"
    /\ encoder # NULL
    /\ pc' = [pc EXCEPT ![w] = "rp_checked"]
    /\ UNCHANGED <<queue, running, wstep, engine, posted, swaps, lastEncPosted, ptr>>

GetRenderPositionLoad(w) ==
    /\ pc[w] = "rp_checked"
    /\ pc' = [pc EXCEPT ![w] = "rp_loaded"]
    /\ ptr' = [ptr EXCEPT ![w] = encoder]
    /\ UNCHANGED <<queue, running, wstep, engine, posted, swaps, lastEncPosted>>

\* The encoder's telemetry is read; no engine state changes.
GetRenderPositionRead(w) ==
    /\ pc[w] = "rp_loaded"
    /\ pc' = [pc EXCEPT ![w] = "idle"]
    /\ ptr' = [ptr EXCEPT ![w] = NULL]
    /\ UNCHANGED <<queue, running, wstep, engine, posted, swaps, lastEncPosted>>

-----------------------------------------------------------------------------
Dispatch ==
    \/ Reconfigure \/ PcmPush \/ FrameReady
    \/ EncoderRelease \/ SourceEncode \/ FrameDecoded

Caller(w) ==
    \/ WriteFrameCheck(w) \/ WriteFrameLoad(w) \/ WriteFrameSetPcm(w)
    \/ GetRenderPositionCheck(w) \/ GetRenderPositionLoad(w) \/ GetRenderPositionRead(w)

Profile ==
    \/ StartA2dpCodecThread \/ StopA2dpCodecThread
    \/ PostReconfigure
    \/ \E i \in CodecIndices \cup {NULL} : PostEncoderSwap(i) \/ PostDecoderSwap(i)
    \/ \E b \in Buffers \cup {NULL} : PostFrameReady(b)

Next == Dispatch \/ (\E w \in Writers : Caller(w)) \/ Profile

\* The dispatcher is a dedicated thread: it keeps running queued tasks.
\* Caller threads finish a call they have started.
Fairness ==
    /\ WF_vars(Dispatch)
    /\ \A w \in Writers : WF_vars(WriteFrameLoad(w) \/ WriteFrameSetPcm(w)
                                  \/ GetRenderPositionLoad(w) \/ GetRenderPositionRead(w))

Spec == Init /\ [][Next]_vars /\ Fairness

-----------------------------------------------------------------------------
TypeOK ==
    /\ queue \in Seq(Tasks) /\ Len(queue) <= MaxQueue
    /\ running \in BOOLEAN
    /\ wstep \in {"idle", "releasing"}
    /\ encoder \in Objects \cup {NULL}
    /\ decoder \in Objects \cup {NULL}
    /\ live \subseteq ObjIds
    /\ nextObj \in 1..MaxSwaps + 1
    /\ swaps \in 0..MaxSwaps
    /\ pcmBuf \in [ObjIds -> SUBSET Chunks]
    /\ sent \subseteq Chunks
    /\ nextChunk \in 1..MaxChunks + 1
    /\ freed \in [Buffers -> Nat]
    /\ posted \subseteq Buffers
    /\ decoded \subseteq (Buffers \X Objects)
    /\ lastEncPosted \in CodecIndices \cup {NULL}
    /\ pc \in [Writers -> {"idle", "wf_checked", "wf_loaded", "rp_checked", "rp_loaded"}]
    /\ ptr \in [Writers -> Objects \cup {NULL}]

-----------------------------------------------------------------------------
(* Safety.                                                                 *)

(* Every encoder or decoder object the engine constructed and has not      *)
(* deleted is the one encoder_ or decoder_ points to: the swap tasks of    *)
(* ProcessMessage delete the object they replace, so repeated swaps never  *)
(* leak a codec.                                                           *)
NoLeakedCodecObject ==
    live = {o.id : o \in {encoder, decoder} \ {NULL}}

(* Once the dispatcher has run every pending task, encoder_ is the encoder *)
(* of the codec selected by the last encoder swap the caller posted (none  *)
(* if that index is unknown): tasks posted by PostMessage run in order.    *)
EncoderFollowsLastPostedSwap ==
    (queue = <<>> /\ wstep = "idle") =>
        IF CodecOf(lastEncPosted) = NULL
          THEN encoder = NULL
          ELSE encoder # NULL /\ encoder.codec = CodecOf(lastEncPosted)

(* WriteFrame and GetRenderPosition never call into an encoder that is     *)
(* null or already deleted by an A2DP_PCM_ENCODED task: the unlocked reads *)
(* of encoder_ are safe against the dispatcher thread.                     *)
NoCallThroughFreedEncoder ==
    \A w \in Writers :
        pc[w] \in {"wf_loaded", "rp_loaded"} => ptr[w] # NULL /\ ptr[w].id \in live

(* An encoder swap never deletes an encoder that still holds PCM which    *)
(* WriteFrame accepted and SendFrames has not sent (the spec: codecs are   *)
(* switched "without losing in-flight audio frames").                      *)
SwapNeverDropsAcceptedPcm ==
    [][\A o \in live \ live' : pcmBuf[o] = {}]_<<live, pcmBuf>>

(* A decoder swap never replaces a live decoder (the spec: A2DP_FRAME_     *)
(* DECODED "constructs ... only if none exists yet").                      *)
DecoderSwapPreservesDecoder ==
    [][decoder # NULL => decoder' = decoder]_decoder

(* Refinement: the engine implements A2dpCodecEngine.  A task the         *)
(* dispatcher has popped is gone from the abstract queue; a PCM_ENCODED    *)
(* task between its delete and SourceEncode has already made the abstract *)
(* encoder the codec of its config, so SourceEncode is a stuttering step.  *)
(* The unlocked WriteFrame / GetRenderPosition reads are stuttering steps; *)
(* the PCM_PUSH that WriteFrame posts is an abstract Post.                 *)
AbstractTask(t) == [what |-> t.what, config |-> t.config]

ObjCodec(o) == IF o = NULL THEN NULL ELSE o.codec

Engine == INSTANCE A2dpCodecEngine WITH
    queue <- LET q == IF wstep = "releasing" THEN Tail(queue) ELSE queue
             IN [k \in 1..Len(q) |-> AbstractTask(q[k])],
    encCodec <- IF wstep = "releasing" THEN CodecOf(Head(queue).config) ELSE ObjCodec(encoder)

(* Every behaviour of the engine, its caller threads and its two-step      *)
(* encoder swap included, is a behaviour of A2dpCodecEngine: tasks take    *)
(* effect in the order posted, each encoder swap with a config installs    *)
(* the codec of that config and no other task changes the encoder (so the *)
(* release/delete of lines 105-107 never runs for a null config), and     *)
(* every posted task is eventually processed.                             *)
ImplementsEngine == Engine!Spec

(* Liveness: every payload posted with A2DP_FRAME_READY is eventually      *)
(* freed by ProcessMessage, whether or not a decoder is active.            *)
PostedFrameEventuallyFreed ==
    \A b \in Buffers : b \in posted ~> freed[b] > 0

=============================================================================
