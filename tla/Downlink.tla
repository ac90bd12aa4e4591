------------------------------ MODULE Downlink ------------------------------
(***************************************************************************)
(* Audio from the peer: on_audio_track() on the peer task, the jitter      *)
(* buffer, and task_speaker.  The buffer is a FreeRTOS stream buffer:      *)
(* external, and atomic in each of its calls.  A byte is <<p, k>>, byte k  *)
(* of payload p; payloads are numbered modulo 2.                           *)
(***************************************************************************)
EXTENDS Integers, Sequences

CONSTANTS
    JitterBytes,   \* AUDIO_SPK_JITTER_BYTES
    Chunk,         \* AUDIO_SAMPLES_PER_PACKET: read size and trigger level
    PayloadLens,   \* lengths of the payloads that arrive; the remote chooses its ptime
    MaxDropped     \* bound of the drop counter in the model

ASSUME DownlinkAssumption ==
    /\ JitterBytes \in Nat /\ Chunk \in 1 .. JitterBytes
    /\ PayloadLens \subseteq Nat \ {0}
    /\ MaxDropped \in Nat

VARIABLES
    jitter,        \* contents of s_jitter, <<>> before it is created
    spkPc,         \* "none", "create", "tone", "receive", "blocked", "woken", "write",
                   \* "report", "deleted"
    chunk,         \* what task_speaker has read and not yet written to the codec
    last,          \* history: the byte the codec was given last, <<>> before the first
    payload,       \* number of the next payload
    dropped,       \* s_dropped
    reported       \* of task_speaker's loop

downlink == <<jitter, spkPc, chunk, last, payload, dropped, reported>>

DownlinkInit ==
    /\ jitter = <<>>
    /\ spkPc = "none"
    /\ chunk = <<>> /\ last = <<>>
    /\ payload = 0
    /\ dropped = 0 /\ reported = 0

-----------------------------------------------------------------------------
(* The peer task: speaker_submit_g711a()                                   *)

\* s_jitter is NULL before the task has created it, and for ever if it could not.
NoBuffer == spkPc \in {"none", "create", "deleted"}

Lesser(m, n) == IF m < n THEN m ELSE n

\* Mutant: the buffer takes every payload whole.
Fits_All(n) == n

\* The bytes of a payload there is room for.
Fits(n) == Lesser(n, JitterBytes - Len(jitter))

Bytes(n) == [k \in 1 .. n |-> <<payload, k - 1>>]

\* Mutant: what does not fit is cut off at the front.
Kept_Back(n) == SubSeq(Bytes(n), n - Fits(n) + 1, n)

\* A stream buffer takes the part of the payload that fits.
Kept(n) == SubSeq(Bytes(n), 1, Fits(n))

\* Mutant: the reader is woken when the buffer stops being empty with a whole chunk.
Wakes_OnlyFirst(n) == spkPc = "blocked" /\ jitter = <<>> /\ Fits(n) >= Chunk

\* xStreamBufferSend() wakes a waiting reader at the trigger level, not before.
Wakes(n) == spkPc = "blocked" /\ Len(jitter) + Fits(n) >= Chunk

Submit(n) ==
    /\ ~NoBuffer
    /\ dropped + n - Fits(n) <= MaxDropped
    /\ jitter' = jitter \o Kept(n)
    /\ dropped' = dropped + n - Fits(n)
    /\ payload' = 1 - payload
    /\ spkPc' = IF Wakes(n) THEN "woken" ELSE spkPc
    /\ UNCHANGED <<chunk, last, reported>>

-----------------------------------------------------------------------------
(* task_speaker                                                            *)

\* xTaskCreatePinnedToCore(); app_main() does not look at the result.
SpeakerStart == spkPc' = "create" /\ UNCHANGED <<jitter, chunk, last, payload, dropped, reported>>

Becomes(to) == spkPc' = to /\ UNCHANGED <<jitter, chunk, last, payload, dropped, reported>>

\* The buffer exists before the tone begins, so payloads can pile up behind it.
SpkCreate == spkPc = "create" /\ (Becomes("tone") \/ Becomes("deleted"))

SpkTone == spkPc = "tone" /\ Becomes("receive")

\* xStreamBufferReceive() takes what there is, or waits for the trigger level.
SpkReceive ==
    /\ spkPc \in {"receive", "woken"}
    /\ IF jitter = <<>>
       THEN spkPc' = "blocked" /\ UNCHANGED <<jitter, chunk>>
       ELSE LET got == Lesser(Len(jitter), Chunk)
            IN  /\ chunk' = SubSeq(jitter, 1, got)
                /\ jitter' = SubSeq(jitter, got + 1, Len(jitter))
                /\ spkPc' = "write"
    /\ UNCHANGED <<last, payload, dropped, reported>>

\* esp_codec_dev_write(); a failure is logged and the samples are gone.
SpkWrite ==
    /\ spkPc = "write"
    /\ last' = chunk[Len(chunk)]
    /\ chunk' = <<>>
    /\ spkPc' = "report"
    /\ UNCHANGED <<jitter, payload, dropped, reported>>

\* At most one report per second: due or not, as the clock has it.
SpkReport ==
    /\ spkPc = "report"
    /\ \/ reported' = dropped
       \/ UNCHANGED reported
    /\ spkPc' = "receive"
    /\ UNCHANGED <<jitter, chunk, last, payload, dropped>>

Speaker == SpkCreate \/ SpkTone \/ SpkReceive \/ SpkWrite \/ SpkReport

-----------------------------------------------------------------------------
Byte == (0 .. 1) \X (0 .. JitterBytes + Chunk)

DownlinkTypeOK ==
    /\ jitter \in Seq(Byte) /\ Len(jitter) <= JitterBytes
    /\ spkPc \in {"none", "create", "tone", "receive", "blocked", "woken", "write",
                  "report", "deleted"}
    /\ chunk \in Seq(Byte) /\ Len(chunk) <= Chunk
    /\ last \in Byte \cup {<<>>}
    /\ payload \in {0, 1}
    /\ dropped \in 0 .. MaxDropped
    /\ reported \in 0 .. dropped

Follows(b, c) == c[2] = 0 \/ c = <<b[1], b[2] + 1>>

\* Audio on its way to the codec, the byte played last in front of it.
OnItsWay == (IF last = <<>> THEN <<>> ELSE <<last>>) \o chunk \o jitter

\* The codec gets the bytes in order, and all that an overflow cuts out is the end of a
\* payload: every byte follows the one before it or begins a payload (task_speaker.cpp:40).
OnlyTailsMissing ==
    \A i \in 1 .. Len(OnItsWay) - 1 : Follows(OnItsWay[i], OnItsWay[i + 1])

\* No wake-up is lost between the submit and the wait: once a chunk is in the buffer,
\* task_speaker reads, whatever the sizes of the payloads it came in.
ChunkIsPlayed == Len(jitter) >= Chunk ~> spkPc = "write"
=============================================================================
