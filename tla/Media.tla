------------------------------- MODULE Media --------------------------------
(***************************************************************************)
(* The media path around the rings: the two senders, task_audio and        *)
(* video_encode_task with its keyframe request, the gate of webrtc_send(), *)
(* the pass of the peer loop that drains both rings, and the connection,   *)
(* which task_webrtc makes and may have to destroy again.                  *)
(*                                                                         *)
(* A ring is the queue MediaRing shows it to be.  The flags the tasks      *)
(* share, s_keyframe_requested, s_state and s_pc, are read and written     *)
(* without a lock, each access a step.  A frame in a ring is "early" when  *)
(* it was there before the peer loop's pass began.                         *)
(***************************************************************************)
EXTENDS Integers, Sequences, Functions

CONSTANTS
    AudioLen, VideoLen     \* the frames the two rings have room for

ASSUME AudioAssumption == AudioLen \in Nat \ {0}
ASSUME VideoAssumption == VideoLen \in Nat \ {0}

VARIABLES
    startPc,       \* task_webrtc: "create", "task", "loop", "deleted"
    s_pc,          \* "null", "made", or the pointer to a destroyed connection
    completed,     \* s_state = PEER_CONNECTION_COMPLETED
    keyframe,      \* s_keyframe_requested
    encPc,         \* video_encode_task
    requested,     \* webrtc_take_keyframe_request()'s local
    no_force_idr,  \* the encoder has no force-key-frame control
    micPc,         \* task_audio
    peerPc,        \* peer_connection_loop(), "none" before the task exists
    audio, video,  \* the rings
    straggled,     \* history: frames sent since the stream stopped, by sender
    unserved       \* history: a request is yet to reach hal_h264_force_idr()

start == <<startPc, s_pc>>
flags == <<completed, keyframe>>
encode == <<encPc, requested, no_force_idr>>
rings == <<audio, video>>
history == <<straggled, unserved>>
vars == <<start, flags, encode, micPc, peerPc, rings, history>>

Sender == {"audio", "video"}

\* Without a codec, or without memory, task_audio deletes itself.
Init ==
    /\ startPc = "create" /\ s_pc = "null"
    /\ completed = FALSE /\ keyframe = FALSE
    /\ encPc = "wait" /\ requested = FALSE /\ no_force_idr = FALSE
    /\ micPc \in {"read", "none"}
    /\ peerPc = "none"
    /\ audio = <<>> /\ video = <<>>
    /\ straggled = [s \in Sender |-> 0] /\ unserved = FALSE

-----------------------------------------------------------------------------
(* task_webrtc                                                             *)

CreateConnection ==
    /\ startPc = "create"
    /\ \/ s_pc' = "made" /\ startPc' = "task"
       \/ startPc' = "deleted" /\ UNCHANGED s_pc
    /\ UNCHANGED <<flags, encode, micPc, peerPc, rings, history>>

\* No peer task: the connection is destroyed, s_pc is not reset.
CreatePeerTask ==
    /\ startPc = "task"
    /\ \/ startPc' = "loop" /\ peerPc' = "pass" /\ UNCHANGED s_pc
       \/ startPc' = "deleted" /\ s_pc' = "destroyed" /\ UNCHANGED peerPc
    /\ UNCHANGED <<flags, encode, micPc, rings, history>>

\* A browser's "close" is processed by the signaling loop.
SignalingCloses ==
    /\ startPc = "loop"
    /\ completed' = FALSE
    /\ UNCHANGED <<start, keyframe, encode, micPc, peerPc, rings, history>>

-----------------------------------------------------------------------------
(* webrtc_send(): the gate, and then the push into the sender's ring.      *)

\* Mutant: the gate trusts the pointer.
Streaming_PcOnly == s_pc # "null"

\* webrtc_is_streaming()
Streaming == s_pc # "null" /\ completed

\* Mutant: no look at the room.
Stored_NoRoom(ring, length) == Append(ring, "late")

Stored(ring, length) == IF Len(ring) < length THEN Append(ring, "late") ELSE ring

\* How many frames a sender has pushed since the stream stopped, counted up to 2.
Counted(sender) ==
    IF completed THEN straggled
    ELSE [straggled EXCEPT ![sender] = IF @ = 2 THEN 2 ELSE @ + 1]

-----------------------------------------------------------------------------
(* video_encode_task                                                       *)

EncReceive ==
    /\ encPc = "wait"
    /\ encPc' = "take"
    /\ UNCHANGED <<start, flags, requested, no_force_idr, micPc, peerPc, rings, history>>

\* Mutant: the flag is cleared before it is read.
EncReadRequest_Cleared ==
    /\ encPc = "take"
    /\ requested' = FALSE /\ keyframe' = FALSE
    /\ encPc' = "clear"
    /\ UNCHANGED <<start, completed, no_force_idr, micPc, peerPc, rings, history>>

EncReadRequest ==
    /\ encPc = "take"
    /\ requested' = keyframe
    /\ encPc' = "clear"
    /\ UNCHANGED <<start, flags, no_force_idr, micPc, peerPc, rings, history>>

EncClearRequest ==
    /\ encPc = "clear"
    /\ keyframe' = FALSE
    /\ encPc' = IF requested THEN "force" ELSE "encode"
    /\ UNCHANGED <<start, completed, requested, no_force_idr, micPc, peerPc, rings, history>>

\* hal_h264_force_idr(): a driver that refuses the control is not asked again.
EncForceIdr ==
    /\ encPc = "force"
    /\ no_force_idr' \in {no_force_idr, TRUE}
    /\ unserved' = FALSE
    /\ encPc' = "encode"
    /\ UNCHANGED <<start, flags, requested, micPc, peerPc, rings, straggled>>

\* hal_h264_encode(): a bitstream to send, or none.
EncEncode ==
    /\ encPc = "encode"
    /\ encPc' \in {"gate", "wait"}
    /\ UNCHANGED <<start, flags, requested, no_force_idr, micPc, peerPc, rings, history>>

EncGate ==
    /\ encPc = "gate"
    /\ encPc' = IF Streaming THEN "push" ELSE "wait"
    /\ UNCHANGED <<start, flags, requested, no_force_idr, micPc, peerPc, rings, history>>

EncPush ==
    /\ encPc = "push"
    /\ video' = Stored(video, VideoLen)
    /\ straggled' = Counted("video")
    /\ encPc' = "wait"
    /\ UNCHANGED <<start, flags, requested, no_force_idr, micPc, peerPc, audio, unserved>>

Encode ==
    \/ EncReceive \/ EncReadRequest \/ EncClearRequest \/ EncForceIdr
    \/ EncEncode \/ EncGate \/ EncPush

-----------------------------------------------------------------------------
(* task_audio                                                              *)

\* esp_codec_dev_read(); an error is logged and waited out.
MicRead ==
    /\ micPc = "read"
    /\ micPc' \in {"gate", "delay"}
    /\ UNCHANGED <<start, flags, encode, peerPc, rings, history>>

MicDelay ==
    /\ micPc = "delay"
    /\ micPc' = "read"
    /\ UNCHANGED <<start, flags, encode, peerPc, rings, history>>

MicGate ==
    /\ micPc = "gate"
    /\ micPc' = IF Streaming THEN "push" ELSE "read"
    /\ UNCHANGED <<start, flags, encode, peerPc, rings, history>>

\* What webrtc_send_audio() returns is not looked at.
MicPush ==
    /\ micPc = "push"
    /\ audio' = Stored(audio, AudioLen)
    /\ straggled' = Counted("audio")
    /\ micPc' = "read"
    /\ UNCHANGED <<start, flags, encode, peerPc, video, unserved>>

Mic == MicRead \/ MicDelay \/ MicGate \/ MicPush

-----------------------------------------------------------------------------
(* peer_connection_loop()                                                  *)

AllEarly(ring) == [i \in DOMAIN ring |-> "early"]

\* The state is looked at once per pass: a pass in COMPLETED drains both rings.
PeerPass ==
    /\ peerPc = "pass" /\ completed
    /\ peerPc' = "audio"
    /\ audio' = AllEarly(audio) /\ video' = AllEarly(video)
    /\ UNCHANGED <<start, flags, encode, micPc, history>>

\* ICE and DTLS come to their end, and s_state to PEER_CONNECTION_COMPLETED.
PeerCompletes ==
    /\ peerPc = "pass" /\ ~completed
    /\ completed' = TRUE
    /\ straggled' = [s \in Sender |-> 0]
    /\ UNCHANGED <<start, keyframe, encode, micPc, peerPc, rings, unserved>>

\* One frame of the ring goes through the RTP encoder.
PeerSendsAudio ==
    /\ peerPc = "audio" /\ audio # <<>>
    /\ audio' = Tail(audio)
    /\ UNCHANGED <<start, flags, encode, micPc, peerPc, video, history>>

\* Mutant: one audio frame per pass, as before the patch (libpeer patch:595).
PeerAudioDone_AfterOne ==
    /\ peerPc = "audio"
    /\ peerPc' = "video"
    /\ UNCHANGED <<start, flags, encode, micPc, rings, history>>

PeerAudioDone ==
    /\ peerPc = "audio" /\ audio = <<>>
    /\ peerPc' = "video"
    /\ UNCHANGED <<start, flags, encode, micPc, rings, history>>

PeerSendsVideo ==
    /\ peerPc = "video" /\ video # <<>>
    /\ video' = Tail(video)
    /\ UNCHANGED <<start, flags, encode, micPc, peerPc, audio, history>>

PeerVideoDone ==
    /\ peerPc = "video" /\ video = <<>>
    /\ peerPc' = "receive"
    /\ UNCHANGED <<start, flags, encode, micPc, rings, history>>

\* The rest of the pass receives: a PLI asks for a key frame, or the peer is gone.  A
\* request that comes between the read and the clear is lost (DATAFLOW.md:528).
PeerReceives ==
    /\ peerPc = "receive"
    /\ \/ UNCHANGED <<flags, unserved>>
       \/ completed' = FALSE /\ UNCHANGED <<keyframe, unserved>>
       \/ /\ keyframe' = TRUE
          /\ unserved' = (unserved \/ encPc # "clear" \/ requested)
          /\ UNCHANGED completed
    /\ peerPc' = "pass"
    /\ UNCHANGED <<start, encode, micPc, rings, straggled>>

Peer ==
    \/ PeerPass \/ PeerCompletes \/ PeerSendsAudio \/ PeerAudioDone
    \/ PeerSendsVideo \/ PeerVideoDone \/ PeerReceives

-----------------------------------------------------------------------------
Webrtc == CreateConnection \/ CreatePeerTask \/ SignalingCloses
Next == Webrtc \/ Encode \/ Mic \/ Peer

Spec == Init /\ [][Next]_vars

-----------------------------------------------------------------------------
(* Properties                                                              *)

\* The variables stay in their types, and no ring holds more than it has room for.
TypeOK ==
    /\ startPc \in {"create", "task", "loop", "deleted"}
    /\ s_pc \in {"null", "made", "destroyed"}
    /\ completed \in BOOLEAN /\ keyframe \in BOOLEAN
    /\ encPc \in {"wait", "take", "clear", "force", "encode", "gate", "push"}
    /\ requested \in BOOLEAN /\ no_force_idr \in BOOLEAN
    /\ micPc \in {"read", "delay", "gate", "push", "none"}
    /\ peerPc \in {"none", "pass", "audio", "video", "receive"}
    /\ audio \in Seq({"early", "late"}) /\ Len(audio) <= AudioLen
    /\ video \in Seq({"early", "late"}) /\ Len(video) <= VideoLen
    /\ straggled \in [Sender -> 0 .. 2] /\ unserved \in BOOLEAN

\* No video goes out before the audio that was waiting when the pass began: audio waits
\* for one pass, never for a burst of video and then another pass (libpeer patch:586,
\* libpeer_config.h "bounds the gap to a single pass").
AudioWaitsOnePass == peerPc \in {"video", "receive"} => "early" \notin Range(audio)

\* The gate is read and the frame pushed without a lock: a sender gets at most one frame
\* into a stream that has stopped, and none into a connection that was destroyed, though
\* s_pc still points at it (task_webrtc.cpp:155).
OnlyAStraggler ==
    /\ \A s \in Sender : straggled[s] <= 1
    /\ encPc = "push" \/ micPc = "push" => s_pc = "made"

\* A key frame request outside the read-then-clear window is kept until the encode task
\* has tried to force an IDR for it, whatever the state does meanwhile.
RequestKept == unserved => keyframe \/ encPc = "force" \/ (encPc = "clear" /\ requested)
=============================================================================
