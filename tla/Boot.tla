-------------------------------- MODULE Boot --------------------------------
(***************************************************************************)
(* app_main(): the network, the camera, the codec, and then the tasks; and *)
(* what it starts and leaves running that nothing else models: the network *)
(* events of Netif and the audio downlink of Downlink.                     *)
(***************************************************************************)
EXTENDS Netif, Downlink

VARIABLES
    bootPc,        \* "netif", "wait_ip", "video", "audio", "webrtc", "running"
    peers          \* the peer task exists and can bring a peer's audio

vars == <<netif, downlink, bootPc, peers>>

Init ==
    /\ NetifInit
    /\ DownlinkInit
    /\ bootPc = "netif"
    /\ peers = FALSE

At(from, to) == bootPc = from /\ bootPc' = to

BootNetif == At("netif", "wait_ip") /\ NetifStart /\ UNCHANGED <<downlink, peers>>

\* xEventGroupWaitBits() without a timeout.
BootGotIp == At("wait_ip", "video") /\ got_ip /\ UNCHANGED <<netif, downlink, peers>>

BootVideo == At("video", "audio") /\ UNCHANGED <<netif, downlink, peers>>

\* ESP_ERROR_CHECK: an error in the network or the camera restarts the device.
BootAborts ==
    /\ bootPc \in {"netif", "video"}
    /\ bootPc' = "netif"
    /\ station' = "off" /\ events' = <<>> /\ s_retry_num' = 0
    /\ got_ip' = FALSE /\ refused' = FALSE
    /\ UNCHANGED <<downlink, peers>>

\* The codec comes up and task_speaker is created, or the device runs without audio.
BootAudio ==
    /\ At("audio", "webrtc")
    /\ SpeakerStart \/ UNCHANGED downlink
    /\ UNCHANGED <<netif, peers>>

\* task_webrtc, which can fail to make its connection or its peer task.
BootWebrtc ==
    /\ At("webrtc", "running")
    /\ peers' \in BOOLEAN
    /\ UNCHANGED <<netif, downlink>>

AudioTrack ==
    /\ peers
    /\ \E n \in PayloadLens : Submit(n)
    /\ UNCHANGED <<netif, bootPc, peers>>

Network == (Driver \/ EventTask) /\ UNCHANGED <<downlink, bootPc, peers>>
Playback == Speaker /\ UNCHANGED <<netif, bootPc, peers>>

AppMain == BootNetif \/ BootGotIp \/ BootVideo \/ BootAborts \/ BootAudio \/ BootWebrtc
Next == AppMain \/ AudioTrack \/ Network \/ Playback

\* task_speaker waits for nothing but the buffer; a codec write returns at 8 kHz.
Fairness == WF_vars(Playback)

Spec == Init /\ [][Next]_vars /\ Fairness

-----------------------------------------------------------------------------
\* The variables of boot, network and downlink stay in their types: the buffer within
\* its size, the reported drops within the counted ones.
TypeOK ==
    /\ NetifTypeOK
    /\ DownlinkTypeOK
    /\ bootPc \in {"netif", "wait_ip", "video", "audio", "webrtc", "running"}
    /\ peers \in BOOLEAN
=============================================================================
