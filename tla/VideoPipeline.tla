--------------------------- MODULE VideoPipeline ----------------------------
(***************************************************************************)
(* The way of a camera buffer through the firmware: the MIPI-CSI driver,   *)
(* video_capture_task, cap_queue and video_encode_task (task_video.cpp)    *)
(* with hal_vcap_* and hal_h264_*, and back to the driver.                 *)
(*                                                                         *)
(* An action is one ioctl, one queue call or the local code between two of *)
(* them.  Only descriptors travel, so a buffer is its index.  Any ioctl    *)
(* whose kind is in Faults may fail, each time it is called; what the code *)
(* does then is the subject.  The drivers are esp_video's and are modelled *)
(* from what app_config.h and the HAL say of them: the CSI driver always   *)
(* has one buffer under DMA, and with nothing else queued it fills that    *)
(* one again (app_config.h:32); the encoder is synchronous and has one     *)
(* input slot (app_config.h:48, hal_h264_encoder.c:137).                   *)
(***************************************************************************)
EXTENDS Integers, Sequences, FiniteSets, Functions

CONSTANTS
    BufNum,            \* CAP_BUF_COUNT
    OutBufNum,         \* ENC_OUT_BUF_COUNT
    Faults             \* the ioctls that may fail

FaultKinds == {
    "cap_dqbuf",       \* VIDIOC_DQBUF on the camera fails with a frame waiting
    "cap_qbuf",        \* VIDIOC_QBUF gives no camera buffer back
    "in_qbuf",         \* the encoder takes no input
    "out_dqbuf",       \* no bitstream before VIDEO_DQBUF_TIMEOUT_MS
    "in_dqbuf",        \* the input slot is not given up
    "bad_frame",       \* V4L2_BUF_FLAG_ERROR, or an empty bitstream
    "out_qbuf"}        \* VIDIOC_QBUF takes no bitstream buffer back

ASSUME BufAssumption == BufNum \in Nat /\ BufNum >= 3
ASSUME OutBufAssumption == OutBufNum \in Nat \ {0}
ASSUME FaultAssumption == Faults \subseteq FaultKinds

\* Mutant: a queue one shorter than the buffers allow.
VIDEO_QUEUE_LEN_Short == BufNum - 3

VIDEO_QUEUE_LEN == BufNum - 2

Buf == 0 .. BufNum - 1
NULL == -1

VARIABLES
    dma,               \* CSI driver: the buffer being filled
    drv_queue,         \* CSI driver: empty buffers queued behind it
    drv_done,          \* CSI driver: filled buffers not yet dequeued
    capPc, capBuf,     \* video_capture_task and its `frame`
    cap_queue,         \* descriptors on their way to the encode task
    encPc, encBuf,     \* video_encode_task and its `frame`
    encoded,           \* its `encoded == ESP_OK`
    in_slot,           \* encoder: the frame its input slot points at
    out_queued,        \* encoder: bitstream buffers it holds
    leaked,            \* camera buffers a failed QBUF left with nobody
    out_leaked,        \* the number of bitstream buffers lost the same way
    stuck              \* history: a DQBUF of the input slot has failed

driver == <<dma, drv_queue, drv_done>>
capture == <<capPc, capBuf>>
encode == <<encPc, encBuf, encoded>>
encoder == <<in_slot, out_queued, out_leaked, stuck>>
vars == <<driver, capture, cap_queue, encode, encoder, leaked>>

MayFail(kind) == kind \in Faults

\* hal_vcap_open() maps and queues the buffers in order; STREAMON takes the first.
Init ==
    /\ dma = 0
    /\ drv_queue = [i \in 1 .. BufNum - 1 |-> i]
    /\ drv_done = <<>>
    /\ capPc = "acquire" /\ capBuf = NULL
    /\ cap_queue = <<>>
    /\ encPc = "receive" /\ encBuf = NULL /\ encoded = FALSE
    /\ in_slot = NULL /\ out_queued = OutBufNum
    /\ leaked = {} /\ out_leaked = 0 /\ stuck = FALSE

-----------------------------------------------------------------------------
(* The CSI driver, at the end of a frame: csi_video_on_get_new_trans() and *)
(* csi_video_on_trans_finished().                                          *)

FrameDone ==
    /\ drv_queue # <<>>
    /\ dma' = Head(drv_queue)
    /\ drv_queue' = Tail(drv_queue)
    /\ drv_done' = Append(drv_done, dma)
    /\ UNCHANGED <<capture, cap_queue, encode, encoder, leaked>>

\* Nothing queued: the DMA fills the same buffer again, its frame is gone.
SilentDrop == drv_queue = <<>> /\ UNCHANGED vars

-----------------------------------------------------------------------------
(* hal_vcap_release(): the result is not looked at by either caller.       *)

Requeue(b) ==
    \/ drv_queue' = Append(drv_queue, b) /\ UNCHANGED leaked
    \/ MayFail("cap_qbuf") /\ leaked' = leaked \cup {b} /\ UNCHANGED drv_queue

(* hal_h264_release()                                                      *)

RequeueOutput ==
    \/ out_queued' = out_queued + 1 /\ UNCHANGED out_leaked
    \/ MayFail("out_qbuf") /\ out_leaked' = out_leaked + 1 /\ UNCHANGED out_queued

-----------------------------------------------------------------------------
(* video_capture_task                                                      *)

CapAcquire ==
    /\ capPc = "acquire" /\ drv_done # <<>>
    /\ capBuf' = Head(drv_done)
    /\ drv_done' = Tail(drv_done)
    /\ capPc' = "pace"
    /\ UNCHANGED <<dma, drv_queue, cap_queue, encode, encoder, leaked>>

CapAcquireFails ==
    /\ capPc = "acquire"
    /\ drv_done = <<>> \/ MayFail("cap_dqbuf")
    /\ capPc' = "backoff"
    /\ UNCHANGED <<driver, capBuf, cap_queue, encode, encoder, leaked>>

\* vTaskDelay(pdMS_TO_TICKS(10))
CapRetry ==
    /\ capPc = "backoff"
    /\ capPc' = "acquire"
    /\ UNCHANGED <<driver, capBuf, cap_queue, encode, encoder, leaked>>

\* on_frame_grid() decides by the clock; FrameGrid models how.
CapPace ==
    /\ capPc = "pace"
    /\ capPc' \in {"send", "drop"}
    /\ UNCHANGED <<driver, capBuf, cap_queue, encode, encoder, leaked>>

\* Mutant: no `continue` after the frame is queued; it is handed back as well.
CapSend_FallThrough ==
    /\ capPc = "send"
    /\ capPc' = "drop" /\ UNCHANGED capBuf
    /\ cap_queue' = IF Len(cap_queue) < VIDEO_QUEUE_LEN
                    THEN Append(cap_queue, capBuf) ELSE cap_queue
    /\ UNCHANGED <<driver, encode, encoder, leaked>>

\* xQueueSend() with no wait: a full queue drops the frame.
CapSend ==
    /\ capPc = "send"
    /\ IF Len(cap_queue) < VIDEO_QUEUE_LEN
       THEN /\ cap_queue' = Append(cap_queue, capBuf)
            /\ capPc' = "acquire" /\ capBuf' = NULL
       ELSE capPc' = "drop" /\ UNCHANGED <<capBuf, cap_queue>>
    /\ UNCHANGED <<driver, encode, encoder, leaked>>

\* Mutant: a dropped frame's buffer is not queued again (DATAFLOW.md:63).
CapDrop_Leak ==
    /\ capPc = "drop"
    /\ capPc' = "acquire" /\ capBuf' = NULL
    /\ UNCHANGED <<driver, cap_queue, encode, encoder, leaked>>

CapDrop ==
    /\ capPc = "drop"
    /\ Requeue(capBuf)
    /\ capPc' = "acquire" /\ capBuf' = NULL
    /\ UNCHANGED <<dma, drv_done, cap_queue, encode, encoder>>

-----------------------------------------------------------------------------
(* video_encode_task; the detector and the overlay work on the frame it    *)
(* holds and are part of EncReceive's step to "qbuf".                      *)

EncReceive ==
    /\ encPc = "receive" /\ cap_queue # <<>>
    /\ encBuf' = Head(cap_queue)
    /\ cap_queue' = Tail(cap_queue)
    /\ encPc' = "qbuf"
    /\ UNCHANGED <<driver, capture, encoded, encoder, leaked>>

\* hal_h264_encode() returns: `encoded` is its result, the buffer goes back next.
EncodeReturns(ok) == encoded' = ok /\ encPc' = "giveback"

\* QBUF of input slot 0 is rejected while the slot is still queued.
EncQueueInput ==
    /\ encPc = "qbuf"
    /\ \/ /\ in_slot = NULL
          /\ in_slot' = encBuf
          /\ encPc' = "dqbuf" /\ UNCHANGED encoded
       \/ /\ in_slot # NULL \/ MayFail("in_qbuf")
          /\ EncodeReturns(FALSE)
          /\ UNCHANGED in_slot
    /\ UNCHANGED <<driver, capture, cap_queue, encBuf, out_queued, out_leaked, stuck, leaked>>

\* DQBUF of the bitstream runs the encode; it needs a bitstream buffer.
EncDequeueOutput ==
    /\ encPc = "dqbuf"
    /\ \/ /\ out_queued > 0
          /\ out_queued' = out_queued - 1
          /\ encPc' = "reclaim"
       \/ /\ out_queued = 0 \/ MayFail("out_dqbuf")
          /\ encPc' = "unqueue"
          /\ UNCHANGED out_queued
    /\ UNCHANGED <<driver, capture, cap_queue, encBuf, encoded, in_slot, out_leaked, stuck, leaked>>

DequeueInput ==
    \/ in_slot' = NULL /\ UNCHANGED stuck
    \/ MayFail("in_dqbuf") /\ stuck' = TRUE /\ UNCHANGED in_slot

\* Mutant: no bitstream, and the input slot is left queued.
EncUnqueueInput_Skipped ==
    /\ encPc = "unqueue"
    /\ EncodeReturns(FALSE)
    /\ UNCHANGED <<driver, capture, cap_queue, encBuf, encoder, leaked>>

\* No bitstream: take the input slot back, or leave it stuck.
EncUnqueueInput ==
    /\ encPc = "unqueue"
    /\ DequeueInput
    /\ EncodeReturns(FALSE)
    /\ UNCHANGED <<driver, capture, cap_queue, encBuf, out_queued, out_leaked, leaked>>

\* A bitstream is there: take the input slot back before anything else.
EncReclaimInput ==
    /\ encPc = "reclaim"
    /\ DequeueInput
    /\ \/ in_slot' = NULL /\ EncodeReturns(TRUE)
       \/ /\ in_slot' # NULL \/ MayFail("bad_frame")
          /\ encPc' = "reject" /\ UNCHANGED encoded
    /\ UNCHANGED <<driver, capture, cap_queue, encBuf, out_queued, out_leaked, leaked>>

\* Mutant: the error paths return without hal_h264_release().
EncReject_NoRelease ==
    /\ encPc = "reject"
    /\ EncodeReturns(FALSE)
    /\ UNCHANGED <<driver, capture, cap_queue, encBuf, encoder, leaked>>

\* Error paths that hold a bitstream buffer release it before they return.
EncReject ==
    /\ encPc = "reject"
    /\ RequeueOutput
    /\ EncodeReturns(FALSE)
    /\ UNCHANGED <<driver, capture, cap_queue, encBuf, in_slot, stuck, leaked>>

\* Mutant: the bitstream is sent and released whether or not there is one.
EncGiveBack_AlwaysSends ==
    /\ encPc = "giveback"
    /\ Requeue(encBuf)
    /\ encBuf' = NULL
    /\ encPc' = "send"
    /\ UNCHANGED <<dma, drv_done, capture, cap_queue, encoded, encoder>>

\* Mutant: the capture buffer is handed back only after a successful encode.
EncGiveBack_IfEncoded ==
    /\ encPc = "giveback"
    /\ IF encoded THEN Requeue(encBuf) ELSE UNCHANGED <<drv_queue, leaked>>
    /\ encBuf' = NULL
    /\ encPc' = IF encoded THEN "send" ELSE "receive"
    /\ UNCHANGED <<dma, drv_done, capture, cap_queue, encoded, encoder>>

EncGiveBack ==
    /\ encPc = "giveback"
    /\ Requeue(encBuf)
    /\ encBuf' = NULL
    /\ encPc' = IF encoded THEN "send" ELSE "receive"
    /\ UNCHANGED <<dma, drv_done, capture, cap_queue, encoded, encoder>>

\* webrtc_send_video(), whatever it answers, then hal_h264_release().
EncSend ==
    /\ encPc = "send"
    /\ RequeueOutput
    /\ encPc' = "receive"
    /\ UNCHANGED <<driver, capture, cap_queue, encBuf, encoded, in_slot, stuck, leaked>>

-----------------------------------------------------------------------------
Driver == FrameDone \/ SilentDrop
Capture == CapAcquire \/ CapAcquireFails \/ CapRetry \/ CapPace \/ CapSend \/ CapDrop
Encode ==
    \/ EncReceive \/ EncQueueInput \/ EncDequeueOutput \/ EncUnqueueInput
    \/ EncReclaimInput \/ EncReject \/ EncGiveBack \/ EncSend
Next == Driver \/ Capture \/ Encode

\* Every call of the two tasks returns: DQBUF has a timeout, the queue send does not
\* wait, and the receive waits only for the capture task.
Fairness == WF_vars(Capture) /\ WF_vars(Encode)

Spec == Init /\ [][Next]_vars /\ Fairness

-----------------------------------------------------------------------------
(* Properties                                                              *)

Holding(pcs, pc, b) == b # NULL <=> pc \in pcs

\* The variables stay in their types; a task holds a frame exactly where its code has one.
TypeOK ==
    /\ dma \in Buf
    /\ drv_queue \in Seq(Buf) /\ drv_done \in Seq(Buf) /\ cap_queue \in Seq(Buf)
    /\ capPc \in {"acquire", "backoff", "pace", "send", "drop"}
    /\ capBuf \in Buf \cup {NULL}
    /\ Holding({"pace", "send", "drop"}, capPc, capBuf)
    /\ encPc \in {"receive", "qbuf", "dqbuf", "unqueue", "reclaim", "reject", "giveback", "send"}
    /\ encBuf \in Buf \cup {NULL}
    /\ Holding({"qbuf", "dqbuf", "unqueue", "reclaim", "reject", "giveback"}, encPc, encBuf)
    /\ encoded \in BOOLEAN
    /\ in_slot \in Buf \cup {NULL}
    /\ out_queued \in 0 .. OutBufNum /\ out_leaked \in 0 .. OutBufNum
    /\ leaked \subseteq Buf /\ stuck \in BOOLEAN

One(b) == IF b = NULL THEN 0 ELSE 1

AppHolds == One(capBuf) + Len(cap_queue) + One(encBuf)

\* No path drops a buffer or returns it twice: driver, application and failed QBUFs
\* account for all CAP_BUF_COUNT buffers ("leaking it would starve the capture device",
\* task_video.cpp:118).
BuffersConserved ==
    1 + Len(drv_queue) + Len(drv_done) + AppHolds + Cardinality(leaked) = BufNum

InDriver == {dma} \cup Range(drv_queue) \cup Range(drv_done)
InApp == Range(cap_queue) \cup ({capBuf, encBuf} \ {NULL})

\* What the driver may write is never in the application's hands, and the two tasks and
\* the queue never have the same frame (the overlay draws into it in place).
NoSharedBuffer ==
    /\ InDriver \cap InApp = {} /\ leaked \cap (InDriver \cup InApp) = {}
    /\ IsInjective(drv_queue) /\ IsInjective(drv_done) /\ IsInjective(cap_queue)
    /\ Range(drv_queue) \cap Range(drv_done) = {}
    /\ dma \notin Range(drv_queue) \cup Range(drv_done)
    /\ {capBuf, encBuf} \cap Range(cap_queue) = {}
    /\ capBuf = encBuf => capBuf = NULL

\* The queue is full only while the encode task has given its frame back: stat_cap_drop
\* counts frames lost while one is being sent, and none while one is in PPA, overlay or
\* encode; those are lost inside the driver ("cap_drop stays 0 while cap falls",
\* app_config.h:38).  DATAFLOW.md:488 and task_video.cpp:117 read the counter otherwise.
DropsOnlyDuringSend ==
    capPc = "send" /\ Len(cap_queue) = VIDEO_QUEUE_LEN => encBuf = NULL

\* Every error path of hal_h264_encode() leaves the encoder ready for the next frame, and
\* no bitstream buffer is missing that a failed QBUF did not take: only an input slot that
\* was not given up stays queued (hal_h264_encoder.c:137, 152).
EncoderReadyForFrame ==
    encPc = "receive" =>
        /\ in_slot = NULL \/ stuck
        /\ out_queued + out_leaked = OutBufNum

\* hal_h264_encode() has dequeued its input slot when the frame goes back to the camera
\* (task_video.cpp:193): as long as that DQBUF does not fail, the encoder never points at
\* a frame the driver may overwrite.
EncoderReadsHeldFrame == in_slot # NULL /\ ~stuck => in_slot = encBuf

\* Whatever fails, a frame in the application's hands goes back to the driver, or is lost
\* by the QBUF that would give it back and by nothing else.
FramesComeBack == \A b \in Buf : b \in InApp ~> b \in InDriver \cup leaked

\* app_config.h:25: a queue of CAP_BUF_COUNT - 2 leaves the driver a buffer to go to, so
\* a frame is not dropped inside the driver while the capture task waits for one.
NoSilentDropWhileWaiting ==
    capPc = "acquire" /\ drv_done = <<>> => drv_queue # <<>>
=============================================================================
