---------------------------- MODULE MediaProofs -----------------------------
(***************************************************************************)
(* What the media path promises, for rings of every size.                  *)
(***************************************************************************)
EXTENDS Media, SequenceTheorems, TLAPS

\* The peer task exists when task_webrtc has come to its loop, and only then is there a
\* connection that may be used or be up.
Started ==
    /\ peerPc # "none" => startPc = "loop"
    /\ startPc \in {"task", "loop"} => s_pc = "made"
    /\ completed => startPc = "loop"
    /\ encPc = "push" \/ micPc = "push" => startPc = "loop"

\* A sender that has pushed into a stopped stream is past the gate no more.
Straggling ==
    /\ completed => \A s \in Sender : straggled[s] = 0
    /\ straggled["video"] # 0 => straggled["video"] = 1 /\ encPc # "push"
    /\ straggled["audio"] # 0 => straggled["audio"] = 1 /\ micPc # "push"

\* A request that is yet to be served is in the flag, or has been read.
Kept ==
    unserved =>
        \/ keyframe /\ encPc # "clear"
        \/ encPc = "force"
        \/ encPc = "clear" /\ requested

MediaInv == TypeOK /\ AudioWaitsOnePass /\ Started /\ Straggling /\ Kept

-----------------------------------------------------------------------------
(* The rings                                                               *)

Ring(length) == {r \in Seq({"early", "late"}) : Len(r) <= length}

\* A push keeps a ring within its room, and nothing that is pushed is early.
LEMMA StoredInRing ==
    ASSUME NEW length \in Nat, NEW ring \in Ring(length)
    PROVE  /\ Stored(ring, length) \in Ring(length)
           /\ "early" \notin Range(ring) => "early" \notin Range(Stored(ring, length))
  <1>1. CASE Len(ring) < length
    <2> DEFINE pushed == Append(ring, "late")
    <2>1. /\ Stored(ring, length) = pushed
          /\ pushed \in Seq({"early", "late"}) /\ Len(pushed) = Len(ring) + 1
          /\ \A i \in 1 .. Len(pushed) : pushed[i] = "late" \/ (i \in 1 .. Len(ring) /\ pushed[i] = ring[i])
      BY <1>1 DEF Stored, Ring
    <2>2. Stored(ring, length) \in Ring(length)
      BY <1>1, <2>1 DEF Ring
    <2>3. DOMAIN pushed = 1 .. Len(pushed) /\ DOMAIN ring = 1 .. Len(ring)
      BY <2>1 DEF Ring
    <2> HIDE DEF pushed
    <2>4. ASSUME "early" \in Range(pushed) PROVE "early" \in Range(ring)
      <3>1. PICK i \in 1 .. Len(pushed) : pushed[i] = "early"
        BY <2>3, <2>4 DEF Range
      <3> QED
        BY <2>1, <2>3, <3>1 DEF Range
    <2> QED
      BY <2>1, <2>2, <2>4
  <1>2. CASE ~(Len(ring) < length)
    BY <1>2 DEF Stored
  <1> QED
    BY <1>1, <1>2

\* The drain and the beginning of a pass keep a ring within its room.
LEMMA DrainedRing ==
    ASSUME NEW length \in Nat, NEW ring \in Ring(length)
    PROVE  /\ AllEarly(ring) \in Ring(length)
           /\ ring # <<>> => Tail(ring) \in Ring(length)
  BY DEF Ring, AllEarly

\* TypeOK says of the rings that they are within their room.
LEMMA Rings ==
    TypeOK => audio \in Ring(AudioLen) /\ video \in Ring(VideoLen)
  BY DEF TypeOK, Ring

-----------------------------------------------------------------------------
(* The steps                                                               *)

\* MediaInv holds at boot.
LEMMA InitMedia == Init => MediaInv
  <1> SUFFICES ASSUME Init PROVE MediaInv
    OBVIOUS
  <1>1. TypeOK
    <2>1. /\ audio \in Seq({"early", "late"}) /\ Len(audio) <= AudioLen
          /\ video \in Seq({"early", "late"}) /\ Len(video) <= VideoLen
      BY AudioAssumption, VideoAssumption DEF Init
    <2>2. straggled \in [Sender -> 0 .. 2]
      BY DEF Init
    <2>3. /\ completed \in BOOLEAN /\ keyframe \in BOOLEAN /\ unserved \in BOOLEAN
          /\ requested \in BOOLEAN /\ no_force_idr \in BOOLEAN
      BY DEF Init
    <2> QED
      BY <2>1, <2>2, <2>3 DEF Init, TypeOK
  <1>2. AudioWaitsOnePass /\ Kept
    BY DEF Init, AudioWaitsOnePass, Kept
  <1>3. Started /\ Straggling
    BY DEF Init, Started, Straggling, Sender
  <1> QED
    BY <1>1, <1>2, <1>3 DEF MediaInv

\* task_webrtc's steps keep MediaInv: the connection is up only once the loop runs.
LEMMA WebrtcMedia == MediaInv /\ Webrtc => MediaInv'
  <1> SUFFICES ASSUME MediaInv, Webrtc PROVE MediaInv'
    OBVIOUS
  <1> USE DEF MediaInv
  <1> USE DEF flags, encode, rings, history, start
  <1>1. CASE CreateConnection
    <2>1. TypeOK'
      BY <1>1 DEF CreateConnection, TypeOK
    <2>2. AudioWaitsOnePass' /\ Kept' /\ Straggling'
      BY <1>1 DEF CreateConnection, AudioWaitsOnePass, Kept, Straggling
    <2>3. Started'
      BY <1>1 DEF CreateConnection, Started
    <2> QED
      BY <2>1, <2>2, <2>3
  <1>2. CASE CreatePeerTask
    <2>1. TypeOK'
      BY <1>2 DEF CreatePeerTask, TypeOK
    <2>2. Kept' /\ Straggling'
      BY <1>2 DEF CreatePeerTask, Kept, Straggling
    <2>3. AudioWaitsOnePass'
      BY <1>2 DEF CreatePeerTask, AudioWaitsOnePass
    <2>4. Started'
      BY <1>2 DEF CreatePeerTask, Started
    <2> QED
      BY <2>1, <2>2, <2>3, <2>4
  <1>3. CASE SignalingCloses
    <2>1. TypeOK'
      <3>1. completed' \in BOOLEAN
        BY <1>3 DEF SignalingCloses
      <3> QED
        BY <1>3, <3>1 DEF SignalingCloses, TypeOK
    <2>2. AudioWaitsOnePass' /\ Kept' /\ Started'
      BY <1>3 DEF SignalingCloses, AudioWaitsOnePass, Kept, Started
    <2>3. Straggling'
      BY <1>3 DEF SignalingCloses, Straggling
    <2> QED
      BY <2>1, <2>2, <2>3
  <1> QED
    BY <1>1, <1>2, <1>3 DEF Webrtc

\* The encode task keeps MediaInv.
LEMMA EncodeMedia == MediaInv /\ Encode => MediaInv'
  <1> SUFFICES ASSUME MediaInv, Encode PROVE MediaInv'
    OBVIOUS
  <1> USE DEF MediaInv
  <1> USE DEF flags, encode, rings, history, start
  <1>1. CASE EncReceive
    <2>1. TypeOK'
      BY <1>1 DEF EncReceive, TypeOK
    <2>2. AudioWaitsOnePass'
      BY <1>1 DEF EncReceive, AudioWaitsOnePass
    <2>3. Started'
      BY <1>1 DEF EncReceive, Started
    <2>4. Straggling'
      BY <1>1 DEF EncReceive, Straggling
    <2>5. Kept'
      BY <1>1 DEF EncReceive, Kept
    <2> QED
      BY <2>1, <2>2, <2>3, <2>4, <2>5
  <1>2. CASE EncReadRequest
    <2>1. TypeOK'
      BY <1>2 DEF EncReadRequest, TypeOK
    <2>2. AudioWaitsOnePass'
      BY <1>2 DEF EncReadRequest, AudioWaitsOnePass
    <2>3. Started'
      BY <1>2 DEF EncReadRequest, Started
    <2>4. Straggling'
      BY <1>2 DEF EncReadRequest, Straggling
    <2>5. Kept'
      BY <1>2 DEF EncReadRequest, Kept
    <2> QED
      BY <2>1, <2>2, <2>3, <2>4, <2>5
  <1>3. CASE EncClearRequest
    <2>1. TypeOK'
      <3>1. keyframe' \in BOOLEAN
        BY <1>3 DEF EncClearRequest
      <3> QED
        BY <1>3, <3>1 DEF EncClearRequest, TypeOK
    <2>2. AudioWaitsOnePass'
      BY <1>3 DEF EncClearRequest, AudioWaitsOnePass
    <2>3. Started'
      BY <1>3 DEF EncClearRequest, Started
    <2>4. Straggling'
      BY <1>3 DEF EncClearRequest, Straggling
    <2>5. Kept'
      BY <1>3 DEF EncClearRequest, Kept
    <2> QED
      BY <2>1, <2>2, <2>3, <2>4, <2>5
  <1>4. CASE EncForceIdr
    <2>1. TypeOK'
      <3>1. no_force_idr' \in BOOLEAN /\ unserved' \in BOOLEAN
        BY <1>4 DEF EncForceIdr, TypeOK
      <3> QED
        BY <1>4, <3>1 DEF EncForceIdr, TypeOK
    <2>2. AudioWaitsOnePass'
      BY <1>4 DEF EncForceIdr, AudioWaitsOnePass
    <2>3. Started'
      BY <1>4 DEF EncForceIdr, Started
    <2>4. Straggling'
      BY <1>4 DEF EncForceIdr, Straggling
    <2>5. Kept'
      BY <1>4 DEF EncForceIdr, Kept
    <2> QED
      BY <2>1, <2>2, <2>3, <2>4, <2>5
  <1>5. CASE EncEncode
    <2>1. TypeOK'
      BY <1>5 DEF EncEncode, TypeOK
    <2>2. AudioWaitsOnePass'
      BY <1>5 DEF EncEncode, AudioWaitsOnePass
    <2>3. Started'
      BY <1>5 DEF EncEncode, Started
    <2>4. Straggling'
      BY <1>5 DEF EncEncode, Straggling
    <2>5. Kept'
      BY <1>5 DEF EncEncode, Kept
    <2> QED
      BY <2>1, <2>2, <2>3, <2>4, <2>5
  <1>6. CASE EncGate
    <2>1. TypeOK'
      BY <1>6 DEF EncGate, TypeOK
    <2>2. AudioWaitsOnePass'
      BY <1>6 DEF EncGate, AudioWaitsOnePass
    <2>3. Started'
      BY <1>6 DEF EncGate, Started, Streaming
    <2>4. Straggling'
      BY <1>6 DEF EncGate, Straggling, Streaming, Sender
    <2>5. Kept'
      BY <1>6 DEF EncGate, Kept
    <2> QED
      BY <2>1, <2>2, <2>3, <2>4, <2>5
  <1>7. CASE EncPush
    <2>1. video' \in Ring(VideoLen)
      BY <1>7, Rings, StoredInRing, AudioAssumption, VideoAssumption DEF EncPush
    <2>2. TypeOK'
      BY <1>7, <2>1 DEF EncPush, TypeOK, Ring, Counted, Sender
    <2>3. AudioWaitsOnePass'
      BY <1>7 DEF EncPush, AudioWaitsOnePass
    <2>4. Started'
      BY <1>7 DEF EncPush, Started
    <2>5. Straggling'
      BY <1>7 DEF EncPush, Straggling, Counted, Sender, TypeOK
    <2>6. Kept'
      BY <1>7 DEF EncPush, Kept
    <2> QED
      BY <2>2, <2>3, <2>4, <2>5, <2>6
  <1> QED
    BY <1>1, <1>2, <1>3, <1>4, <1>5, <1>6, <1>7 DEF Encode

\* task_audio keeps MediaInv.
LEMMA MicMedia == MediaInv /\ Mic => MediaInv'
  <1> SUFFICES ASSUME MediaInv, Mic PROVE MediaInv'
    OBVIOUS
  <1> USE DEF MediaInv
  <1> USE DEF flags, encode, rings, history, start
  <1>1. CASE MicRead
    <2>1. TypeOK'
      BY <1>1 DEF MicRead, TypeOK
    <2>2. AudioWaitsOnePass'
      BY <1>1 DEF MicRead, AudioWaitsOnePass
    <2>3. Started'
      BY <1>1 DEF MicRead, Started
    <2>4. Straggling'
      BY <1>1 DEF MicRead, Straggling
    <2>5. Kept'
      BY <1>1 DEF MicRead, Kept
    <2> QED
      BY <2>1, <2>2, <2>3, <2>4, <2>5
  <1>2. CASE MicDelay
    <2>1. TypeOK'
      BY <1>2 DEF MicDelay, TypeOK
    <2>2. AudioWaitsOnePass'
      BY <1>2 DEF MicDelay, AudioWaitsOnePass
    <2>3. Started'
      BY <1>2 DEF MicDelay, Started
    <2>4. Straggling'
      BY <1>2 DEF MicDelay, Straggling
    <2>5. Kept'
      BY <1>2 DEF MicDelay, Kept
    <2> QED
      BY <2>1, <2>2, <2>3, <2>4, <2>5
  <1>3. CASE MicGate
    <2>1. TypeOK'
      BY <1>3 DEF MicGate, TypeOK
    <2>2. AudioWaitsOnePass'
      BY <1>3 DEF MicGate, AudioWaitsOnePass
    <2>3. Started'
      BY <1>3 DEF MicGate, Started, Streaming
    <2>4. Straggling'
      BY <1>3 DEF MicGate, Straggling, Streaming, Sender
    <2>5. Kept'
      BY <1>3 DEF MicGate, Kept
    <2> QED
      BY <2>1, <2>2, <2>3, <2>4, <2>5
  <1>4. CASE MicPush
    <2>1. audio' \in Ring(AudioLen)
      BY <1>4, Rings, StoredInRing, AudioAssumption, VideoAssumption DEF MicPush
    <2>2. TypeOK'
      BY <1>4, <2>1 DEF MicPush, TypeOK, Ring, Counted, Sender
    <2>3. AudioWaitsOnePass'
      BY <1>4, Rings, StoredInRing, AudioAssumption DEF MicPush, AudioWaitsOnePass
    <2>4. Started'
      BY <1>4 DEF MicPush, Started
    <2>5. Straggling'
      BY <1>4 DEF MicPush, Straggling, Counted, Sender, TypeOK
    <2>6. Kept'
      BY <1>4 DEF MicPush, Kept
    <2> QED
      BY <2>2, <2>3, <2>4, <2>5, <2>6
  <1> QED
    BY <1>1, <1>2, <1>3, <1>4 DEF Mic

\* The peer loop keeps MediaInv.
LEMMA PeerMedia == MediaInv /\ Peer => MediaInv'
  <1> SUFFICES ASSUME MediaInv, Peer PROVE MediaInv'
    OBVIOUS
  <1> USE DEF MediaInv
  <1> USE DEF flags, encode, rings, history, start
  <1>1. CASE PeerPass
    <2>1. audio' \in Ring(AudioLen) /\ video' \in Ring(VideoLen)
      BY <1>1, Rings, DrainedRing, AudioAssumption, VideoAssumption DEF PeerPass
    <2>2. TypeOK'
      BY <1>1, <2>1 DEF PeerPass, TypeOK, Ring
    <2>3. AudioWaitsOnePass'
      BY <1>1 DEF PeerPass, AudioWaitsOnePass
    <2>4. Started'
      BY <1>1 DEF PeerPass, Started
    <2>5. Straggling'
      BY <1>1 DEF PeerPass, Straggling
    <2>6. Kept'
      BY <1>1 DEF PeerPass, Kept
    <2> QED
      BY <2>2, <2>3, <2>4, <2>5, <2>6
  <1>2. CASE PeerCompletes
    <2>1. TypeOK'
      BY <1>2 DEF PeerCompletes, TypeOK, Sender
    <2>2. AudioWaitsOnePass'
      BY <1>2 DEF PeerCompletes, AudioWaitsOnePass
    <2>3. Started'
      BY <1>2 DEF PeerCompletes, Started
    <2>4. Straggling'
      BY <1>2 DEF PeerCompletes, Straggling, Sender
    <2>5. Kept'
      BY <1>2 DEF PeerCompletes, Kept
    <2> QED
      BY <2>1, <2>2, <2>3, <2>4, <2>5
  <1>3. CASE PeerSendsAudio
    <2>1. audio' \in Ring(AudioLen)
      BY <1>3, Rings, DrainedRing, AudioAssumption, VideoAssumption DEF PeerSendsAudio
    <2>2. TypeOK'
      BY <1>3, <2>1 DEF PeerSendsAudio, TypeOK, Ring
    <2>3. AudioWaitsOnePass'
      BY <1>3 DEF PeerSendsAudio, AudioWaitsOnePass
    <2>4. Started'
      BY <1>3 DEF PeerSendsAudio, Started
    <2>5. Straggling'
      BY <1>3 DEF PeerSendsAudio, Straggling
    <2>6. Kept'
      BY <1>3 DEF PeerSendsAudio, Kept
    <2> QED
      BY <2>2, <2>3, <2>4, <2>5, <2>6
  <1>4. CASE PeerAudioDone
    <2>1. TypeOK'
      BY <1>4 DEF PeerAudioDone, TypeOK
    <2>2. AudioWaitsOnePass'
      BY <1>4 DEF PeerAudioDone, AudioWaitsOnePass, Range
    <2>3. Started'
      BY <1>4 DEF PeerAudioDone, Started
    <2>4. Straggling'
      BY <1>4 DEF PeerAudioDone, Straggling
    <2>5. Kept'
      BY <1>4 DEF PeerAudioDone, Kept
    <2> QED
      BY <2>1, <2>2, <2>3, <2>4, <2>5
  <1>5. CASE PeerSendsVideo
    <2>1. video' \in Ring(VideoLen)
      BY <1>5, Rings, DrainedRing, AudioAssumption, VideoAssumption DEF PeerSendsVideo
    <2>2. TypeOK'
      BY <1>5, <2>1 DEF PeerSendsVideo, TypeOK, Ring
    <2>3. AudioWaitsOnePass'
      BY <1>5 DEF PeerSendsVideo, AudioWaitsOnePass
    <2>4. Started'
      BY <1>5 DEF PeerSendsVideo, Started
    <2>5. Straggling'
      BY <1>5 DEF PeerSendsVideo, Straggling
    <2>6. Kept'
      BY <1>5 DEF PeerSendsVideo, Kept
    <2> QED
      BY <2>2, <2>3, <2>4, <2>5, <2>6
  <1>6. CASE PeerVideoDone
    <2>1. TypeOK'
      BY <1>6 DEF PeerVideoDone, TypeOK
    <2>2. AudioWaitsOnePass'
      BY <1>6 DEF PeerVideoDone, AudioWaitsOnePass
    <2>3. Started'
      BY <1>6 DEF PeerVideoDone, Started
    <2>4. Straggling'
      BY <1>6 DEF PeerVideoDone, Straggling
    <2>5. Kept'
      BY <1>6 DEF PeerVideoDone, Kept
    <2> QED
      BY <2>1, <2>2, <2>3, <2>4, <2>5
  <1>7. CASE PeerReceives
    <2>1. TypeOK'
      <3>1. completed' \in BOOLEAN /\ keyframe' \in BOOLEAN
        BY <1>7 DEF PeerReceives, TypeOK
      <3>2. unserved' \in BOOLEAN
        BY <1>7, Zenon DEF PeerReceives, TypeOK
      <3> QED
        BY <1>7, <3>1, <3>2 DEF PeerReceives, TypeOK
    <2>2. AudioWaitsOnePass'
      BY <1>7 DEF PeerReceives, AudioWaitsOnePass
    <2>3. Started'
      BY <1>7 DEF PeerReceives, Started
    <2>4. Straggling'
      BY <1>7 DEF PeerReceives, Straggling
    <2>5. Kept'
      BY <1>7 DEF PeerReceives, Kept
    <2> QED
      BY <2>1, <2>2, <2>3, <2>4, <2>5
  <1> QED
    BY <1>1, <1>2, <1>3, <1>4, <1>5, <1>6, <1>7 DEF Peer

-----------------------------------------------------------------------------
(* The theorems                                                            *)

\* MediaInv is an invariant, whatever the sizes of the rings.
THEOREM MediaInvariant == Spec => []MediaInv
  <1>1. ASSUME MediaInv, [Next]_vars PROVE MediaInv'
    <2>1. CASE Next
      BY <1>1, <2>1, WebrtcMedia, EncodeMedia, MicMedia, PeerMedia DEF Next
    <2>2. CASE UNCHANGED vars
      <3> USE DEF vars, flags, encode, rings, history, start
      <3>1. TypeOK' /\ AudioWaitsOnePass'
        BY <1>1, <2>2 DEF MediaInv, TypeOK, AudioWaitsOnePass
      <3>2. Started' /\ Straggling' /\ Kept'
        BY <1>1, <2>2 DEF MediaInv, Started, Straggling, Kept
      <3> QED
        BY <3>1, <3>2 DEF MediaInv
    <2> QED
      BY <1>1, <2>1, <2>2
  <1> QED
    BY <1>1, InitMedia, PTL DEF Spec

\* The rings stay within their room, and every flag and task in its type.
THEOREM MediaTypes == Spec => []TypeOK
  <1>1. MediaInv => TypeOK
    BY DEF MediaInv
  <1> QED
    BY <1>1, MediaInvariant, PTL

\* Audio that was waiting when a pass of peer_connection_loop() began goes out before any
\* video does.
THEOREM AudioFirst == Spec => []AudioWaitsOnePass
  <1>1. MediaInv => AudioWaitsOnePass
    BY DEF MediaInv
  <1> QED
    BY <1>1, MediaInvariant, PTL

\* webrtc_send()'s gate lets at most one frame of each sender into a stopped stream and
\* none into a destroyed connection.
THEOREM GateHolds == Spec => []OnlyAStraggler
  <1>1. MediaInv => OnlyAStraggler
    <2> SUFFICES ASSUME MediaInv PROVE OnlyAStraggler
      OBVIOUS
    <2>1. \A s \in Sender : straggled[s] <= 1
      BY DEF MediaInv, TypeOK, Straggling, Sender
    <2>2. encPc = "push" \/ micPc = "push" => s_pc = "made"
      BY DEF MediaInv, Started
    <2> QED
      BY <2>1, <2>2 DEF OnlyAStraggler
  <1> QED
    BY <1>1, MediaInvariant, PTL

\* Outside its read-then-clear window webrtc_take_keyframe_request() loses no request.
THEOREM NoRequestLost == Spec => []RequestKept
  <1>1. MediaInv => RequestKept
    BY DEF MediaInv, Kept, RequestKept
  <1> QED
    BY <1>1, MediaInvariant, PTL
=============================================================================
