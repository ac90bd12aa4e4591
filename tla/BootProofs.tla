----------------------------- MODULE BootProofs -----------------------------
(***************************************************************************)
(* What boot leaves running, for any number of retries and any sizes of    *)
(* the jitter buffer, the chunk and the payloads: the station that keeps   *)
(* trying, and the audio that loses only the ends of payloads.             *)
(***************************************************************************)
EXTENDS Boot, ListLemmas, TLAPS

\* task_speaker has a chunk in its hand from the read to the codec write.
Held == chunk # <<>> <=> spkPc = "write"

\* app_main() creates it once, behind all that can restart the device.
Unstarted == bootPc \notin {"webrtc", "running"} => spkPc = "none"

-----------------------------------------------------------------------------
(* Network start                                                           *)

NetifInv == NetifTypeOK /\ KeepsTrying

\* Taking an event leaves every other one pending.
LEMMA EventTaken ==
    ASSUME NetifTypeOK, NEW event, Handles(event)
    PROVE  /\ events' \in Seq({"start", "disconnected", "got_ip"})
           /\ \A other : other # event /\ Pending(other) => Pending(other)'
  <1>1. events \in Seq({"start", "disconnected", "got_ip"}) /\ events # <<>>
        /\ Head(events) = event /\ events' = Tail(events)
    BY DEF Handles, NetifTypeOK
  <1>2. /\ events' \in Seq({"start", "disconnected", "got_ip"})
        /\ event = events[1] /\ DOMAIN events' = 1 .. Len(events) - 1
        /\ \A i \in 1 .. Len(events) - 1 : events'[i] = events[i + 1]
        /\ DOMAIN events = 1 .. Len(events) /\ Len(events) \in Nat
    BY <1>1
  <1>3. ASSUME NEW other, other # event, Pending(other) PROVE Pending(other)'
    <2>1. PICK i \in 1 .. Len(events) : events[i] = other
      BY <1>2, <1>3 DEF Pending
    <2>2. i # 1 /\ i - 1 \in 1 .. Len(events) - 1 /\ (i - 1) + 1 = i
      BY <1>2, <1>3, <2>1
    <2>3. i - 1 \in DOMAIN events' /\ events'[i - 1] = other
      BY <1>2, <2>1, <2>2
    <2> QED
      BY <2>3 DEF Pending
  <1> QED
    BY <1>2, <1>3

\* An event that is posted is pending.
LEMMA EventPosted ==
    ASSUME NetifTypeOK, NEW event \in {"start", "disconnected", "got_ip"},
           events' = Append(events, event)
    PROVE  events' \in Seq({"start", "disconnected", "got_ip"}) /\ Pending(event)'
  <1>1. /\ events' \in Seq({"start", "disconnected", "got_ip"})
        /\ Len(events) + 1 \in DOMAIN events' /\ events'[Len(events) + 1] = event
    BY DEF NetifTypeOK
  <1> QED
    BY <1>1 DEF Pending

\* An idle station has an event on its way, whatever the driver does.
LEMMA DriverTries == ASSUME NetifInv, Driver \/ NetifStart PROVE NetifInv'
  <1> USE DEF NetifInv
  <1>1. CASE NetifStart
    <2>1. /\ events' = Append(events, "start") /\ UNCHANGED <<s_retry_num, got_ip, refused>>
          /\ station' = "idle"
      BY <1>1 DEF NetifStart
    <2>2. events' \in Seq({"start", "disconnected", "got_ip"}) /\ Pending("start")'
      BY <2>1, EventPosted
    <2> QED
      BY <2>1, <2>2 DEF NetifTypeOK, KeepsTrying
  <1>2. CASE Associate
    BY <1>2 DEF Associate, NetifTypeOK, KeepsTrying
  <1>3. CASE Disconnect
    <2>1. /\ events' = Append(events, "disconnected") /\ UNCHANGED <<s_retry_num, got_ip, refused>>
          /\ station' = "idle"
      BY <1>3 DEF Disconnect
    <2>2. events' \in Seq({"start", "disconnected", "got_ip"}) /\ Pending("disconnected")'
      BY <2>1, EventPosted
    <2> QED
      BY <2>1, <2>2 DEF NetifTypeOK, KeepsTrying
  <1>4. CASE Lease
    <2>1. /\ events' = Append(events, "got_ip") /\ UNCHANGED <<s_retry_num, got_ip, refused>>
          /\ station' = "online"
      BY <1>4 DEF Lease
    <2>2. events' \in Seq({"start", "disconnected", "got_ip"})
      BY <2>1, EventPosted
    <2> QED
      BY <2>1, <2>2 DEF NetifTypeOK, KeepsTrying
  <1> QED
    BY <1>1, <1>2, <1>3, <1>4 DEF Driver

\* A call of esp_wifi_connect() connects, or is the refusal of an idle station.
LEMMA Connected ==
    ASSUME NetifTypeOK, Connect
    PROVE  /\ station' \in {"off", "idle", "connecting", "associated", "online"}
           /\ refused' \in BOOLEAN
           /\ station' = "idle" => refused'
  BY Zenon DEF Connect, NetifTypeOK

\* The handlers take that event only to call it, or with the last retry behind them.
LEMMA HandlerTries == ASSUME NetifInv, EventTask PROVE NetifInv'
  <1> USE DEF NetifInv
  <1>1. CASE OnStart
    <2>1. Connect /\ UNCHANGED <<s_retry_num, got_ip>>
          /\ events' \in Seq({"start", "disconnected", "got_ip"})
      BY <1>1, EventTaken DEF OnStart
    <2> QED
      BY <2>1, Connected DEF NetifTypeOK, KeepsTrying
  <1>2. CASE OnDisconnected
    <2>1. got_ip' = got_ip /\ events' \in Seq({"start", "disconnected", "got_ip"})
      BY <1>2, EventTaken DEF OnDisconnected
    <2>2. s_retry_num \in 0 .. WIFI_MAX_RETRY /\ WIFI_MAX_RETRY \in Nat
      BY NetifAssumption DEF NetifTypeOK
    <2>3. CASE s_retry_num < WIFI_MAX_RETRY
      <3>1. s_retry_num' = s_retry_num + 1 /\ Connect
        BY <1>2, <2>3 DEF OnDisconnected
      <3> QED
        BY <2>1, <2>2, <2>3, <3>1, Connected DEF NetifTypeOK, KeepsTrying
    <2>4. CASE ~(s_retry_num < WIFI_MAX_RETRY)
      <3>1. UNCHANGED <<s_retry_num, station, refused>> /\ s_retry_num = WIFI_MAX_RETRY
        BY <1>2, <2>2, <2>4 DEF OnDisconnected
      <3> QED
        BY <2>1, <3>1 DEF NetifTypeOK, KeepsTrying
    <2> QED
      BY <2>3, <2>4
  <1>3. CASE OnGotIp
    <2>1. /\ got_ip' = TRUE /\ UNCHANGED <<station, s_retry_num, refused>> /\ Handles("got_ip")
      BY <1>3 DEF OnGotIp
    <2>2. /\ events' \in Seq({"start", "disconnected", "got_ip"})
          /\ Pending("start") => Pending("start")'
          /\ Pending("disconnected") => Pending("disconnected")'
      BY <2>1, EventTaken
    <2> QED
      BY <2>1, <2>2 DEF NetifTypeOK, KeepsTrying
  <1> QED
    BY <1>1, <1>2, <1>3 DEF EventTask

-----------------------------------------------------------------------------
(* The audio downlink                                                      *)

DownlinkInv == DownlinkTypeOK /\ Held /\ OnlyTailsMissing

Chain(s) == \A i \in 1 .. Len(s) - 1 : Follows(s[i], s[i + 1])

Played == IF last = <<>> THEN <<>> ELSE <<last>>

\* The parts of what is on its way are lists of bytes.
LEMMA Parts ==
    ASSUME DownlinkTypeOK
    PROVE  /\ Played \in Seq(Byte) /\ chunk \in Seq(Byte) /\ jitter \in Seq(Byte)
           /\ Played \o chunk \in Seq(Byte) /\ OnItsWay \in Seq(Byte)
           /\ OnItsWay = (Played \o chunk) \o jitter
  <1>1. chunk \in Seq(Byte) /\ jitter \in Seq(Byte)
    BY DEF DownlinkTypeOK
  <1>2. Played \in Seq(Byte)
    <2>1. CASE last = <<>>
      <3>1. Played = <<>>
        BY <2>1 DEF Played
      <3> QED
        BY <3>1
    <2>2. CASE last # <<>>
      <3>1. Played = <<last>> /\ last \in Byte
        BY <2>2 DEF Played, DownlinkTypeOK
      <3> QED
        BY <3>1
    <2> QED
      BY <2>1, <2>2
  <1>3. OnItsWay = (Played \o chunk) \o jitter
    BY DEF OnItsWay, Played
  <1>4. Played \o chunk \in Seq(Byte)
    BY <1>1, <1>2, ConcatProperties
  <1>5. (Played \o chunk) \o jitter \in Seq(Byte)
    BY <1>1, <1>4, ConcatProperties
  <1> QED
    BY <1>1, <1>2, <1>3, <1>4, <1>5

\* A list that begins a payload can stand behind any other.
LEMMA Joined ==
    ASSUME NEW s \in Seq(Byte), NEW t \in Seq(Byte), Chain(s), Chain(t),
           t # <<>> => t[1][2] = 0
    PROVE  Chain(s \o t)
  <1> DEFINE u == s \o t
  <1>1. /\ Len(u) = Len(s) + Len(t) /\ Len(s) \in Nat /\ Len(t) \in Nat
        /\ \A i \in 1 .. Len(s) : u[i] = s[i]
        /\ \A i \in 1 .. Len(t) : u[Len(s) + i] = t[i]
    OBVIOUS
  <1> SUFFICES ASSUME NEW i \in 1 .. Len(u) - 1 PROVE Follows(u[i], u[i + 1])
    BY DEF Chain
  <1> HIDE DEF u
  <1>2. CASE i < Len(s)
    <2>1. i \in 1 .. Len(s) - 1 /\ i \in 1 .. Len(s) /\ i + 1 \in 1 .. Len(s)
      BY <1>1, <1>2
    <2> QED
      BY <1>1, <2>1 DEF Chain
  <1>3. CASE i = Len(s)
    <2>1. 1 \in 1 .. Len(t) /\ t # <<>>
      BY <1>1, <1>3
    <2>2. u[i + 1] = t[1]
      BY <1>1, <1>3, <2>1
    <2> QED
      BY <2>1, <2>2 DEF Follows
  <1>4. CASE i > Len(s)
    <2> DEFINE j == i - Len(s)
    <2>1. /\ j \in 1 .. Len(t) - 1 /\ j \in 1 .. Len(t) /\ j + 1 \in 1 .. Len(t)
          /\ i = Len(s) + j /\ i + 1 = Len(s) + (j + 1)
      BY <1>1, <1>4
    <2> HIDE DEF j
    <2>2. u[i] = t[j] /\ u[i + 1] = t[j + 1]
      BY <1>1, <2>1
    <2> QED
      BY <2>1, <2>2 DEF Chain
  <1> QED
    BY <1>1, <1>2, <1>3, <1>4

\* What is kept of a payload is its beginning, without a gap.
LEMMA KeptIsPrefix ==
    ASSUME DownlinkTypeOK, NEW n \in PayloadLens
    PROVE  /\ Fits(n) \in 0 .. n /\ Len(jitter) + Fits(n) <= JitterBytes
           /\ Kept(n) \in Seq(Byte) /\ Len(Kept(n)) = Fits(n)
           /\ Chain(Kept(n))
           /\ Kept(n) # <<>> => Kept(n)[1][2] = 0
  <1>1. /\ n \in Nat \ {0} /\ JitterBytes \in Nat /\ Chunk \in Nat
        /\ Len(jitter) \in Nat /\ Len(jitter) <= JitterBytes /\ payload \in 0 .. 1
    BY DownlinkAssumption DEF DownlinkTypeOK
  <1>2. /\ Fits(n) \in 0 .. n /\ Len(jitter) + Fits(n) <= JitterBytes
        /\ Fits(n) <= JitterBytes /\ Fits(n) <= n
    BY <1>1 DEF Fits, Lesser
  <1> DEFINE m == Fits(n)
             kept == Kept(n)
  <1>3. kept = [k \in 1 .. m |-> <<payload, k - 1>>]
    <2> DEFINE bytes == Bytes(n)
               s == [k \in 1 .. m |-> <<payload, k - 1>>]
    <2>1. \A k \in 1 .. n : <<payload, k - 1>> \in (0 .. 1) \X Nat
      BY <1>1
    <2>2. /\ bytes \in Seq((0 .. 1) \X Nat) /\ Len(bytes) = n
          /\ \A k \in 1 .. n : bytes[k] = <<payload, k - 1>>
      BY <1>1, <2>1 DEF Bytes
    <2>3. kept = SubSeq(bytes, 1, m)
      BY DEF Kept
    <2> HIDE DEF bytes, m
    <2>4. /\ kept \in Seq((0 .. 1) \X Nat) /\ Len(kept) = m
          /\ \A k \in 1 .. m : kept[k] = bytes[k]
      BY <1>1, <1>2, <2>2, <2>3 DEF m
    <2>5. \A k \in 1 .. m : k \in 1 .. n
      BY <1>1, <1>2 DEF m
    <2>6. s \in Seq((0 .. 1) \X Nat) /\ Len(s) = m /\ m \in Nat
      BY <1>2, <2>1, <2>5 DEF m
    <2>7. kept = s
      <3>1. \A k \in 1 .. m : kept[k] = s[k]
        BY <2>2, <2>4, <2>5
      <3> HIDE DEF kept, s
      <3> QED
        BY <2>4, <2>6, <3>1, SeqEqual
    <2> QED
      BY <2>7
  <1> HIDE DEF kept, m
  <1>4. \A k \in 1 .. m : <<payload, k - 1>> \in Byte
    BY <1>1, <1>2 DEF Byte, m
  <1>5. kept \in Seq(Byte) /\ Len(kept) = m
    BY <1>2, <1>3, <1>4 DEF m
  <1>6. Chain(kept)
    <2> SUFFICES ASSUME NEW i \in 1 .. Len(kept) - 1 PROVE Follows(kept[i], kept[i + 1])
      BY DEF Chain
    <2>1. i \in 1 .. m /\ i + 1 \in 1 .. m /\ (i + 1) - 1 = (i - 1) + 1
      BY <1>2, <1>5 DEF m
    <2>2. kept[i] = <<payload, i - 1>> /\ kept[i + 1] = <<payload, (i - 1) + 1>>
      BY <1>3, <2>1
    <2> QED
      BY <2>2 DEF Follows
  <1>7. kept # <<>> => kept[1][2] = 0
    <2> SUFFICES ASSUME kept # <<>> PROVE kept[1][2] = 0
      OBVIOUS
    <2>1. 1 \in 1 .. m
      BY <1>2, <1>5 DEF m
    <2>2. kept[1] = <<payload, 0>>
      BY <1>3, <2>1
    <2> QED
      BY <2>2
  <1> QED
    BY <1>2, <1>5, <1>6, <1>7 DEF kept, m

\* What a payload adds is its beginning.
LEMMA SubmitKeepsOrder == ASSUME DownlinkInv, NEW n \in PayloadLens, Submit(n) PROVE DownlinkInv'
  <1> USE DEF DownlinkInv
  <1>1. /\ jitter' = jitter \o Kept(n) /\ dropped' = dropped + n - Fits(n)
        /\ dropped' <= MaxDropped
        /\ payload' = 1 - payload /\ UNCHANGED <<chunk, last, reported>>
        /\ spkPc' = spkPc \/ (spkPc = "blocked" /\ spkPc' = "woken")
    BY DEF Submit, Wakes
  <1>2. /\ Fits(n) \in 0 .. n /\ Len(jitter) + Fits(n) <= JitterBytes
        /\ Kept(n) \in Seq(Byte) /\ Len(Kept(n)) = Fits(n)
        /\ Chain(Kept(n))
        /\ Kept(n) # <<>> => Kept(n)[1][2] = 0
    BY KeptIsPrefix
  <1>3. jitter' \in Seq(Byte) /\ Len(jitter') <= JitterBytes
    <2>1. jitter \in Seq(Byte)
      BY DEF DownlinkTypeOK
    <2>2. jitter' \in Seq(Byte) /\ Len(jitter') = Len(jitter) + Len(Kept(n))
      BY <1>1, <1>2, <2>1, ConcatProperties
    <2> QED
      BY <1>2, <2>2
  <1>4. dropped' \in 0 .. MaxDropped /\ reported' \in 0 .. dropped'
    <2>1. n \in Nat /\ MaxDropped \in Nat
      BY DownlinkAssumption
    <2>2. dropped \in 0 .. MaxDropped /\ reported \in 0 .. dropped
      BY DEF DownlinkTypeOK
    <2> QED
      BY <1>1, <1>2, <2>1, <2>2
  <1>5. DownlinkTypeOK' /\ Held'
    BY <1>1, <1>3, <1>4 DEF DownlinkTypeOK, Held
  <1>6. OnlyTailsMissing'
    <2>1. /\ OnItsWay = (Played \o chunk) \o jitter /\ OnItsWay' = (Played \o chunk) \o jitter'
          /\ Played \o chunk \in Seq(Byte) /\ jitter \in Seq(Byte) /\ OnItsWay \in Seq(Byte)
      BY <1>1, Parts DEF OnItsWay, Played
    <2>2. OnItsWay' = OnItsWay \o Kept(n)
      <3> DEFINE front == Played \o chunk
                 kept == Kept(n)
      <3>1. front \in Seq(Byte) /\ jitter \in Seq(Byte) /\ kept \in Seq(Byte)
        BY <1>2, <2>1
      <3> HIDE DEF front, kept
      <3>2. (front \o jitter) \o kept = front \o (jitter \o kept)
        BY <3>1, ConcatAssociative
      <3> QED
        BY <1>1, <2>1, <3>2 DEF front, kept
    <2>3. Chain(OnItsWay)
      BY DEF OnlyTailsMissing, Chain
    <2>4. Chain(OnItsWay \o Kept(n))
      BY <1>2, <2>1, <2>3, Joined
    <2> QED
      BY <2>2, <2>4 DEF OnlyTailsMissing, Chain
  <1> QED
    BY <1>5, <1>6

\* The read moves bytes from the buffer to the hand, in their order.
LEMMA ReceiveKeepsOrder == ASSUME DownlinkInv, SpkReceive PROVE DownlinkInv'
  <1> USE DEF DownlinkInv
  <1>1. /\ spkPc \in {"receive", "woken"} /\ UNCHANGED <<last, payload, dropped, reported>>
        /\ chunk = <<>> /\ jitter \in Seq(Byte) /\ Len(jitter) <= JitterBytes
    BY DEF SpkReceive, Held, DownlinkTypeOK
  <1>2. CASE jitter = <<>>
    <2>1. spkPc' = "blocked" /\ UNCHANGED <<jitter, chunk>>
      BY <1>2 DEF SpkReceive
    <2> QED
      BY <1>1, <2>1 DEF DownlinkTypeOK, Held, OnlyTailsMissing, OnItsWay
  <1>3. CASE jitter # <<>>
    <2> DEFINE got == Lesser(Len(jitter), Chunk)
    <2>1. /\ chunk' = SubSeq(jitter, 1, got)
          /\ jitter' = SubSeq(jitter, got + 1, Len(jitter)) /\ spkPc' = "write"
      BY <1>3 DEF SpkReceive
    <2>2. got \in 1 .. Len(jitter) /\ got <= Chunk /\ Len(jitter) \in Nat
      BY <1>1, <1>3, DownlinkAssumption DEF Lesser
    <2> HIDE DEF got
    <2>3. /\ chunk' \in Seq(Byte) /\ Len(chunk') = got
          /\ jitter' \in Seq(Byte) /\ Len(jitter') = Len(jitter) - got
          /\ chunk' \o jitter' = jitter
      <3>1. /\ chunk' \in Seq(Byte) /\ Len(chunk') = got
            /\ \A i \in 1 .. got : chunk'[i] = jitter[i]
        BY <1>1, <2>1, <2>2
      <3>2. /\ jitter' \in Seq(Byte) /\ Len(jitter') = Len(jitter) - got
            /\ \A i \in 1 .. Len(jitter) - got : jitter'[i] = jitter[got + i]
        BY <1>1, <2>1, <2>2
      <3> DEFINE whole == chunk' \o jitter'
      <3>3. whole \in Seq(Byte) /\ Len(whole) = Len(jitter)
        BY <2>2, <3>1, <3>2
      <3>4. /\ \A i \in 1 .. got : whole[i] = chunk'[i]
            /\ \A i \in 1 .. Len(jitter) - got : whole[got + i] = jitter'[i]
        BY <2>2, <3>1, <3>2
      <3> HIDE DEF whole
      <3>5. ASSUME NEW i \in 1 .. Len(jitter) PROVE whole[i] = jitter[i]
        <4>1. CASE i <= got
          BY <2>2, <3>1, <3>4, <4>1
        <4>2. CASE i > got
          <5>1. i - got \in 1 .. Len(jitter) - got /\ got + (i - got) = i
            BY <2>2, <4>2
          <5>2. whole[got + (i - got)] = jitter[got + (i - got)]
            BY <3>2, <3>4, <5>1
          <5> QED
            BY <5>1, <5>2
        <4> QED
          BY <2>2, <4>1, <4>2
      <3>6. whole = jitter
        BY <1>1, <3>3, <3>5, SeqEqual
      <3> QED
        BY <3>1, <3>2, <3>6 DEF whole
    <2>4. DownlinkTypeOK' /\ Held'
      <3>1. chunk' # <<>> /\ Len(chunk') <= Chunk /\ Len(jitter') <= JitterBytes
        BY <1>1, <2>2, <2>3, DownlinkAssumption
      <3> QED
        BY <1>1, <2>1, <2>3, <3>1 DEF DownlinkTypeOK, Held
    <2>5. OnItsWay' = OnItsWay
      <3>1. Played \in Seq(Byte) /\ Played' = Played
        BY <1>1, Parts DEF Played
      <3>2. OnItsWay = (Played \o <<>>) \o jitter /\ OnItsWay' = (Played \o chunk') \o jitter'
        BY <1>1, <3>1 DEF OnItsWay, Played
      <3>3. (Played \o chunk') \o jitter' = Played \o jitter
        <4> DEFINE played == Played
                   taken == chunk'
                   rest == jitter'
        <4>1. played \in Seq(Byte) /\ taken \in Seq(Byte) /\ rest \in Seq(Byte)
          BY <2>3, <3>1
        <4> HIDE DEF played, taken, rest
        <4>2. (played \o taken) \o rest = played \o (taken \o rest)
          BY <4>1, ConcatAssociative
        <4> QED
          BY <2>3, <4>2 DEF played, taken, rest
      <3>4. Played \o <<>> = Played
        BY <3>1, ConcatEmptySeq
      <3> QED
        BY <3>2, <3>3, <3>4
    <2> QED
      BY <2>4, <2>5 DEF OnlyTailsMissing
  <1> QED
    BY <1>2, <1>3

\* The codec gets the oldest bytes.
LEMMA WriteKeepsOrder == ASSUME DownlinkInv, SpkWrite PROVE DownlinkInv'
  <1> USE DEF DownlinkInv
  <1>1. /\ spkPc = "write" /\ last' = chunk[Len(chunk)] /\ chunk' = <<>> /\ spkPc' = "report"
        /\ UNCHANGED <<jitter, payload, dropped, reported>>
    BY DEF SpkWrite
  <1>2. /\ chunk \in Seq(Byte) /\ chunk # <<>> /\ jitter \in Seq(Byte)
        /\ Played \in Seq(Byte) /\ OnItsWay = (Played \o chunk) \o jitter
    BY <1>1, Parts DEF Held
  <1>3. Len(chunk) \in 1 .. Len(chunk) /\ last' \in Byte
    BY <1>1, <1>2
  <1>4. last' # <<>>
    BY <1>3 DEF Byte
  <1>5. DownlinkTypeOK' /\ Held'
    <2>1. chunk' \in Seq(Byte) /\ Len(chunk') <= Chunk
      BY <1>1, DownlinkAssumption
    <2> QED
      BY <1>1, <1>3, <2>1 DEF DownlinkTypeOK, Held
  <1> DEFINE front == Played \o chunk
             m == Len(front)
  <1>6. /\ front \in Seq(Byte) /\ m \in Nat \ {0} /\ front[m] = last'
    <2>1. /\ front \in Seq(Byte) /\ Len(front) = Len(Played) + Len(chunk)
          /\ Len(Played) \in Nat /\ Len(chunk) \in Nat
          /\ \A i \in 1 .. Len(chunk) : front[Len(Played) + i] = chunk[i]
      BY <1>2
    <2> QED
      BY <1>1, <1>3, <2>1
  <1> HIDE DEF front
  <1>7. /\ Len(OnItsWay) = m + Len(jitter) /\ Len(jitter) \in Nat
        /\ OnItsWay[m] = last'
        /\ \A i \in 1 .. Len(jitter) : OnItsWay[m + i] = jitter[i]
    <2>1. OnItsWay = front \o jitter
      BY <1>2 DEF front
    <2> QED
      BY <1>2, <1>6, <2>1
  <1>8. /\ Len(OnItsWay') = 1 + Len(jitter)
        /\ OnItsWay'[1] = last'
        /\ \A i \in 1 .. Len(jitter) : OnItsWay'[1 + i] = jitter[i]
    <2> DEFINE byte == last'
    <2>1. OnItsWay' = (<<byte>> \o <<>>) \o jitter
      BY <1>1, <1>4 DEF OnItsWay
    <2> HIDE DEF byte
    <2>2. byte \in Byte
      BY <1>3 DEF byte
    <2>3. <<byte>> \o <<>> = <<byte>>
      OBVIOUS
    <2>4. /\ Len(<<byte>> \o jitter) = 1 + Len(jitter)
          /\ (<<byte>> \o jitter)[1] = byte
          /\ \A i \in 1 .. Len(jitter) : (<<byte>> \o jitter)[1 + i] = jitter[i]
      BY <1>2, <2>2
    <2> QED
      BY <2>1, <2>3, <2>4 DEF byte
  <1>9. OnlyTailsMissing'
    <2> SUFFICES ASSUME NEW i \in 1 .. Len(OnItsWay') - 1
                 PROVE  Follows(OnItsWay'[i], OnItsWay'[i + 1])
      BY DEF OnlyTailsMissing, Follows
    <2> DEFINE k == m + i - 1
    <2>1. /\ i \in 1 .. Len(jitter) /\ k \in 1 .. Len(OnItsWay) - 1 /\ k + 1 = m + i
          /\ i + 1 = 1 + i
      BY <1>6, <1>7, <1>8
    <2>2. OnItsWay'[i + 1] = OnItsWay[k + 1]
      BY <1>7, <1>8, <2>1
    <2>3. OnItsWay'[i] = OnItsWay[k]
      <3>1. CASE i = 1
        BY <1>6, <1>7, <1>8, <3>1
      <3>2. CASE i # 1
        <4>1. i - 1 \in 1 .. Len(jitter) /\ k = m + (i - 1) /\ i = 1 + (i - 1)
          BY <1>6, <2>1, <3>2
        <4>2. OnItsWay'[1 + (i - 1)] = OnItsWay[m + (i - 1)]
          BY <1>7, <1>8, <4>1
        <4> QED
          BY <4>1, <4>2
      <3> QED
        BY <3>1, <3>2
    <2> HIDE DEF k
    <2>4. Follows(OnItsWay[k], OnItsWay[k + 1])
      BY <2>1 DEF OnlyTailsMissing
    <2> QED
      BY <2>2, <2>3, <2>4
  <1> QED
    BY <1>5, <1>9

\* The other steps of task_speaker, and its creation, move no byte.
LEMMA SpeakerKeepsOrder ==
    ASSUME DownlinkInv,
           SpkCreate \/ SpkTone \/ SpkReport \/ (SpeakerStart /\ spkPc = "none")
    PROVE  DownlinkInv'
  <1>1. /\ UNCHANGED <<jitter, chunk, last, payload, dropped>>
        /\ spkPc # "write" /\ spkPc' # "write"
        /\ reported' \in {reported, dropped}
        /\ spkPc' \in {"tone", "deleted", "receive", "create"}
    BY DEF SpkCreate, SpkTone, SpkReport, SpeakerStart, Becomes
  <1>2. reported' \in 0 .. dropped
    BY <1>1 DEF DownlinkInv, DownlinkTypeOK
  <1> QED
    BY <1>1, <1>2 DEF DownlinkInv, DownlinkTypeOK, Held, OnlyTailsMissing, OnItsWay

\* A step that leaves the downlink alone.
LEMMA DownlinkStays == UNCHANGED downlink => (DownlinkInv => DownlinkInv') /\ spkPc' = spkPc
  <1> SUFFICES ASSUME UNCHANGED downlink
               PROVE  (DownlinkInv => DownlinkInv') /\ spkPc' = spkPc
    OBVIOUS
  <1>1. UNCHANGED <<jitter, spkPc, chunk, last, payload, dropped, reported>>
    BY DEF downlink
  <1>2. OnItsWay' = OnItsWay
    BY <1>1 DEF OnItsWay
  <1>3. OnlyTailsMissing => OnlyTailsMissing'
    BY <1>2 DEF OnlyTailsMissing, Follows
  <1>4. DownlinkTypeOK /\ Held => DownlinkTypeOK' /\ Held'
    BY <1>1 DEF DownlinkTypeOK, Held
  <1> QED
    BY <1>1, <1>3, <1>4 DEF DownlinkInv

\* A step that leaves the network alone.
LEMMA NetifStays == UNCHANGED netif => (NetifInv => NetifInv')
  BY DEF netif, NetifInv, NetifTypeOK, KeepsTrying, Pending

-----------------------------------------------------------------------------
(* Both, as app_main() starts them                                         *)

BootInv == TypeOK /\ NetifInv /\ DownlinkInv /\ Unstarted

\* BootInv holds at power-on.
LEMMA InitBoot == Init => BootInv
  <1> SUFFICES ASSUME Init PROVE BootInv
    OBVIOUS
  <1>1. NetifInv
    <2>1. /\ events \in Seq({"start", "disconnected", "got_ip"})
          /\ 0 \in 0 .. WIFI_MAX_RETRY
      BY NetifAssumption DEF Init, NetifInit
    <2> QED
      BY <2>1 DEF Init, NetifInit, NetifInv, NetifTypeOK, KeepsTrying
  <1>2. jitter = <<>> /\ chunk = <<>> /\ last = <<>>
    BY DEF Init, DownlinkInit
  <1>3. jitter \in Seq(Byte) /\ Len(jitter) <= JitterBytes /\ chunk \in Seq(Byte) /\ Len(chunk) <= Chunk
    BY <1>2, DownlinkAssumption
  <1>4. DownlinkTypeOK /\ Held
    BY <1>2, <1>3, DownlinkAssumption DEF Init, DownlinkInit, DownlinkTypeOK, Held
  <1>5. Len(OnItsWay) = 0
    BY <1>2 DEF OnItsWay
  <1>6. OnlyTailsMissing
    <2>1. \A i \in 1 .. 0 - 1 : FALSE
      OBVIOUS
    <2> QED
      BY <1>5, <2>1 DEF OnlyTailsMissing
  <1> QED
    BY <1>1, <1>4, <1>6
       DEF Init, DownlinkInit, BootInv, NetifInv, DownlinkInv, TypeOK, Unstarted

\* Every step keeps it: those of app_main(), of the network, of the peer and of task_speaker.
LEMMA NextBoot == BootInv /\ [Next]_vars => BootInv'
  <1> SUFFICES ASSUME BootInv, [Next]_vars PROVE BootInv'
    OBVIOUS
  <1>0. /\ bootPc \in {"netif", "wait_ip", "video", "audio", "webrtc", "running"}
        /\ peers \in BOOLEAN /\ NetifInv /\ DownlinkInv
        /\ bootPc \notin {"webrtc", "running"} => spkPc = "none"
    BY DEF BootInv, TypeOK, Unstarted
  <1>1. CASE BootNetif
    <2>1. /\ bootPc = "netif" /\ bootPc' = "wait_ip" /\ peers' = peers
          /\ NetifStart /\ UNCHANGED downlink
      BY <1>1 DEF BootNetif, At
    <2>2. NetifInv' /\ DownlinkInv' /\ spkPc' = spkPc
      BY <1>0, <2>1, DriverTries, DownlinkStays
    <2> QED
      BY <1>0, <2>1, <2>2 DEF BootInv, TypeOK, Unstarted, NetifInv, DownlinkInv
  <1>2. CASE BootGotIp \/ BootVideo
    <2>1. /\ bootPc \in {"wait_ip", "video"} /\ bootPc' \in {"video", "audio"} /\ peers' = peers
          /\ UNCHANGED netif /\ UNCHANGED downlink
      BY <1>2 DEF BootGotIp, BootVideo, At
    <2>2. NetifInv' /\ DownlinkInv' /\ spkPc' = spkPc
      BY <1>0, <2>1, NetifStays, DownlinkStays
    <2> QED
      BY <1>0, <2>1, <2>2 DEF BootInv, TypeOK, Unstarted, NetifInv, DownlinkInv
  <1>3. CASE BootAborts
    <2>1. /\ bootPc \in {"netif", "video"} /\ bootPc' = "netif" /\ peers' = peers
          /\ UNCHANGED downlink
      BY <1>3 DEF BootAborts
    <2>2. NetifInv'
      <3>0. got_ip' \in BOOLEAN /\ refused' \in BOOLEAN
        BY <1>3, Zenon DEF BootAborts
      <3>1. /\ station' = "off" /\ s_retry_num' = 0
            /\ events' \in Seq({"start", "disconnected", "got_ip"})
            /\ 0 \in 0 .. WIFI_MAX_RETRY
        BY <1>3, NetifAssumption DEF BootAborts
      <3> QED
        BY <3>0, <3>1 DEF NetifInv, NetifTypeOK, KeepsTrying
    <2>3. DownlinkInv' /\ spkPc' = spkPc
      BY <1>0, <2>1, DownlinkStays
    <2> QED
      BY <1>0, <2>1, <2>2, <2>3 DEF BootInv, TypeOK, Unstarted, NetifInv, DownlinkInv
  <1>4. CASE BootAudio
    <2>1. /\ bootPc = "audio" /\ bootPc' = "webrtc" /\ peers' = peers /\ UNCHANGED netif
          /\ SpeakerStart \/ UNCHANGED downlink
      BY <1>4 DEF BootAudio, At
    <2>2. NetifInv' /\ DownlinkInv'
      BY <1>0, <2>1, NetifStays, DownlinkStays, SpeakerKeepsOrder
    <2> QED
      BY <2>1, <2>2, <1>0 DEF BootInv, TypeOK, Unstarted, NetifInv, DownlinkInv
  <1>5. CASE BootWebrtc
    <2>1. /\ bootPc' = "running" /\ peers' \in BOOLEAN /\ UNCHANGED netif /\ UNCHANGED downlink
      BY <1>5 DEF BootWebrtc, At
    <2>2. NetifInv' /\ DownlinkInv'
      BY <1>0, <2>1, NetifStays, DownlinkStays
    <2> QED
      BY <2>1, <2>2 DEF BootInv, TypeOK, Unstarted, NetifInv, DownlinkInv
  <1>6. CASE AudioTrack
    <2>1. PICK n \in PayloadLens : Submit(n) /\ UNCHANGED <<netif, bootPc, peers>>
      BY <1>6 DEF AudioTrack
    <2>2. DownlinkInv' /\ NetifInv'
      BY <1>0, <2>1, SubmitKeepsOrder, NetifStays
    <2>3. bootPc \in {"webrtc", "running"}
      BY <1>0, <2>1 DEF Submit, NoBuffer
    <2> QED
      BY <1>0, <2>1, <2>2, <2>3 DEF BootInv, TypeOK, Unstarted, NetifInv, DownlinkInv
  <1>7. CASE Network
    <2>1. (Driver \/ EventTask) /\ UNCHANGED <<downlink, bootPc, peers>>
      BY <1>7 DEF Network
    <2>2. DownlinkInv' /\ NetifInv' /\ spkPc' = spkPc
      BY <1>0, <2>1, DriverTries, HandlerTries, DownlinkStays
    <2> QED
      BY <1>0, <2>1, <2>2 DEF BootInv, TypeOK, Unstarted, NetifInv, DownlinkInv
  <1>8. CASE Playback
    <2>1. Speaker /\ UNCHANGED <<netif, bootPc, peers>>
      BY <1>8 DEF Playback
    <2>2. DownlinkInv' /\ NetifInv'
      BY <1>0, <2>1, SpeakerKeepsOrder, ReceiveKeepsOrder, WriteKeepsOrder, NetifStays DEF Speaker
    <2>3. bootPc \in {"webrtc", "running"}
      BY <1>0, <2>1
         DEF Speaker, SpkCreate, SpkTone, SpkReceive, SpkWrite, SpkReport
    <2> QED
      BY <1>0, <2>1, <2>2, <2>3 DEF BootInv, TypeOK, Unstarted, NetifInv, DownlinkInv
  <1>9. CASE UNCHANGED vars
    <2>1. UNCHANGED <<bootPc, peers>> /\ UNCHANGED netif /\ UNCHANGED downlink
      BY <1>9 DEF vars
    <2>2. NetifInv' /\ DownlinkInv' /\ spkPc' = spkPc
      BY <1>0, <2>1, NetifStays, DownlinkStays
    <2> QED
      BY <1>0, <2>1, <2>2 DEF BootInv, TypeOK, Unstarted, NetifInv, DownlinkInv
  <1> QED
    BY <1>1, <1>2, <1>3, <1>4, <1>5, <1>6, <1>7, <1>8, <1>9 DEF Next, AppMain

\* The inductive invariant of what boot starts, restarts included.
THEOREM BootInvariant == Spec => []BootInv
  BY InitBoot, NextBoot, PTL DEF Spec

\* The variables stay in their types: the jitter buffer within its size.
THEOREM BootTypes == Spec => []TypeOK
  BY BootInvariant, PTL DEF BootInv

\* An idle station with retries left, and no esp_wifi_connect() refused, has the event on
\* its way that connects it (hal_netif.c's handlers), however the events queue up.
THEOREM StationKeepsTrying == Spec => []KeepsTrying
  BY BootInvariant, PTL DEF BootInv, NetifInv

\* All that an overflow of the jitter buffer cuts out is the end of a payload, for any sizes
\* of buffer, chunk and payloads (task_speaker.cpp).
THEOREM LosesOnlyTails == Spec => []OnlyTailsMissing
  BY BootInvariant, PTL DEF BootInv, DownlinkInv
=============================================================================
