------------------------------ MODULE MediaRing ------------------------------
(***************************************************************************)
(* One outgoing media stream: webrtc_send() on the sending task, the ring  *)
(* of libpeer's buffer.c as the patch leaves it, and the drain of          *)
(* peer_connection_loop().                                                 *)
(*                                                                         *)
(* The two sides run without a lock.  Between two barriers the memory      *)
(* system may order a side's accesses as it likes, so a push stores its    *)
(* bytes, and the drain loads them, in any order; a barrier is the guard   *)
(* that none is left.  A cell of memory is <<"length", n, j>>, byte j of a *)
(* length prefix, or <<"payload", id, k>>, byte k of frame id.             *)
(*                                                                         *)
(* rb->data is the cells 0 .. Size - 1.  A prefix at the end of it can     *)
(* reach some cells further; they are not the ring's, and AccessInBlock    *)
(* speaks of them.  What the other properties say rests on nobody else     *)
(* writing them between the store and the load.                            *)
(*                                                                         *)
(* Of buffer.c the repository has the lines the patch touches; the room    *)
(* check and the offsets between them are external.                        *)
(***************************************************************************)
EXTENDS Integers, Sequences

CONSTANTS
    Size,          \* rb->size
    Word,          \* bytes of the length prefix and of its alignment, 4 in the code
    Lens,          \* the payload lengths that are sent
    Ids            \* frames are numbered modulo this; bounds what is told apart

ASSUME RingAssumption ==
    /\ Word \in Nat \ {0}
    /\ Size \in Nat \ {0}
    /\ Lens \subseteq Nat \ {0}
    /\ Ids \in Nat \ {0}

VARIABLES
    streaming,     \* s_state = PEER_CONNECTION_COMPLETED
    mem,           \* rb->data, and behind it the cells of other allocations
    head, tail,    \* rb->head, rb->tail
    sendPc,        \* sending task: "gate", "room", "wrap", "store"
    frame,         \* the frame it is sending, as <<id, length>>; length 0: none
    unstored,      \* the cells its push has yet to store
    peerPc,        \* peer loop: "pass", "peek", "size", "encode"
    unloaded,      \* the cells of the frame at the head it has yet to load
    loaded,        \* what it has loaded, as <<offset, cell>>
    queued,        \* history: the frames published and not yet popped
    marks,         \* history: where the entry of each of them was begun, then tail
    out,           \* history: the frame popped last
    skewed         \* history: a frame whose length is no multiple of Word has wrapped

ring == <<mem, head, tail>>
sender == <<sendPc, frame, unstored>>
peer == <<peerPc, unloaded, loaded>>
history == <<queued, marks, out, skewed>>
vars == <<streaming, ring, sender, peer, history>>

Frame == (0 .. Ids - 1) \X Lens
FrameId(f) == f[1]
Length(f) == f[2]

-----------------------------------------------------------------------------
(* Where an entry lies                                                     *)

\* ALIGN32
Align(n) == ((n + Word - 1) \div Word) * Word

\* Mutant: an entry is not padded.
EntryLen_Unpadded(n) == n + Word

\* The payload, its length prefix, and the padding.
EntryLen(n) == Align(n + Word)

EntryEnd(at, n) == (at + EntryLen(n)) % Size

\* An entry that does not fit behind its prefix has its payload at offset 0.
Wraps(at, n) == EntryEnd(at, n) < at

PayloadAt(at, n) == IF Wraps(at, n) THEN 0 ELSE at + Word

\* Where the next entry begins.
After(at, n) == IF Wraps(at, n) THEN n ELSE EntryEnd(at, n)

PrefixCells(at) == at .. at + Word - 1
PayloadCells(at, n) == PayloadAt(at, n) .. PayloadAt(at, n) + n - 1

\* What the cells of entry f at offset at hold once it is written.
Image(at, f) ==
    [c \in PrefixCells(at) \cup PayloadCells(at, Length(f)) |->
        IF c \in PayloadCells(at, Length(f))
        THEN <<"payload", FrameId(f), c - PayloadAt(at, Length(f))>>
        ELSE <<"length", Length(f), c - at>>]

FreeSpace == (Size + head - tail - 1) % Size

\* buffer_new() allocates this and no more.
Block == 0 .. Size - 1

-----------------------------------------------------------------------------
Blank == <<"blank", 0, 0>>

Init ==
    /\ streaming = FALSE
    /\ mem = [c \in 0 .. Size + Word - 2 |-> Blank]
    /\ head = 0 /\ tail = 0
    /\ sendPc = "gate" /\ frame = <<0, 0>> /\ unstored = {}
    /\ peerPc = "pass" /\ unloaded = {} /\ loaded = {}
    /\ queued = <<>> /\ marks = <<0>> /\ out = <<>> /\ skewed = FALSE

\* on_ice_state_change(): from the peer loop, or from the signaling task that starts
\* the next offer.
IceStateChange ==
    /\ streaming' = ~streaming
    /\ UNCHANGED <<ring, sender, peer, history>>

-----------------------------------------------------------------------------
(* The sending task: webrtc_send() and buffer_push_tail()                  *)

\* The frame is done with; an accepted one uses up its number.
Accepted == frame' = <<(FrameId(frame) + 1) % Ids, 0>>
Refused == frame' = <<FrameId(frame), 0>>

\* The state is looked at here and not again.
SendGate ==
    /\ sendPc = "gate"
    /\ streaming
    /\ \E n \in Lens : frame' = <<FrameId(frame), n>>
    /\ sendPc' = "room"
    /\ UNCHANGED <<streaming, ring, unstored, peer, history>>

\* "no enough space": the frame is dropped.
PushRoom ==
    /\ sendPc = "room"
    /\ IF EntryLen(Length(frame)) > FreeSpace
       THEN sendPc' = "gate" /\ Refused
       ELSE sendPc' = "wrap" /\ UNCHANGED frame
    /\ UNCHANGED <<streaming, ring, unstored, peer, history>>

\* Mutant: the room at offset 0 is not checked.
FitsAtStart_Assumed == TRUE

\* Mutant: the remainder the wrap wastes is taken off the room at offset 0 as well.
FitsAtStart_Wasted == head >= EntryLen(Length(frame)) + (Size - tail)

\* head is read a second time.
FitsAtStart == head >= EntryLen(Length(frame))

PushWrap ==
    /\ sendPc = "wrap"
    /\ IF Wraps(tail, Length(frame)) /\ ~FitsAtStart
       THEN sendPc' = "gate" /\ Refused /\ UNCHANGED unstored
       ELSE /\ sendPc' = "store" /\ UNCHANGED frame
            /\ unstored' = DOMAIN Image(tail, frame)
    /\ UNCHANGED <<streaming, ring, peer, history>>

PushStore ==
    /\ sendPc = "store"
    /\ \E c \in unstored :
          /\ mem' = [mem EXCEPT ![c] = Image(tail, frame)[c]]
          /\ unstored' = unstored \ {c}
    /\ UNCHANGED <<streaming, head, tail, sendPc, frame, peer, history>>

\* The entry exists from here on: the store of tail.
Publish ==
    /\ tail' = After(tail, Length(frame))
    /\ sendPc' = "gate" /\ unstored' = {}
    /\ queued' = Append(queued, frame) /\ marks' = Append(marks, tail')
    /\ skewed' = (skewed \/ (Wraps(tail, Length(frame)) /\ Align(Length(frame)) # Length(frame)))
    /\ Accepted
    /\ UNCHANGED <<streaming, mem, head, peer, out>>

\* Mutant: tail is stored without the barrier.
PushPublish_NoBarrier == sendPc = "store" /\ Publish

PushPublish ==
    /\ sendPc = "store" /\ unstored = {}       \* __sync_synchronize()
    /\ Publish

-----------------------------------------------------------------------------
(* The peer task: peer_connection_loop() in PEER_CONNECTION_COMPLETED      *)

PeerPass ==
    /\ peerPc = "pass"
    /\ streaming
    /\ peerPc' = "peek"
    /\ UNCHANGED <<streaming, ring, sender, unloaded, loaded, history>>

\* buffer_peak_head(): NULL ends the drain; the state is not looked at before that.
Peek ==
    /\ peerPc = "peek"
    /\ peerPc' = IF head = tail THEN "pass" ELSE "size"
    /\ UNCHANGED <<streaming, ring, sender, unloaded, loaded, history>>

HoldsLength(at, n) == \A j \in 0 .. Word - 1 : mem[at + j] = <<"length", n, j>>

\* The length an entry's prefix reads as; 0 stands for one that was never written whole.
StoredLength(at) ==
    IF \E n \in Lens : HoldsLength(at, n)
    THEN CHOOSE n \in Lens : HoldsLength(at, n)
    ELSE 0

\* Behind the barrier of buffer_peak_head().
PeekSize ==
    /\ peerPc = "size"
    /\ unloaded' = PayloadCells(head, StoredLength(head))
    /\ loaded' = {}
    /\ peerPc' = "encode"
    /\ UNCHANGED <<streaming, ring, sender, history>>

\* rtp_encoder_encode() reads the payload in place.
Load ==
    /\ peerPc = "encode"
    /\ \E c \in unloaded :
          /\ unloaded' = unloaded \ {c}
          /\ loaded' = loaded \cup {<<c - PayloadAt(head, StoredLength(head)), mem[c]>>}
    /\ UNCHANGED <<streaming, ring, sender, peerPc, history>>

Payload(f) == {<<k, <<"payload", FrameId(f), k>>>> : k \in 0 .. Length(f) - 1}

\* The frame that went out, <<>> when the bytes are of no one frame.
Encoded ==
    IF \E f \in Frame : loaded = Payload(f)
    THEN CHOOSE f \in Frame : loaded = Payload(f)
    ELSE <<>>

\* buffer_pop_head(): the store of head, and the next look at the ring.
Pop ==
    /\ head' = After(head, StoredLength(head))
    /\ out' = Encoded
    /\ queued' = Tail(queued) /\ marks' = Tail(marks)
    /\ peerPc' = "peek" /\ unloaded' = {} /\ loaded' = {}
    /\ UNCHANGED <<streaming, mem, tail, sender, skewed>>

\* Mutant: the frame is encoded and stays at the head.
PopHead_Forgotten ==
    /\ peerPc = "encode" /\ unloaded = {}
    /\ peerPc' = "peek" /\ loaded' = {}
    /\ UNCHANGED <<streaming, ring, sender, unloaded, history>>

PopHead ==
    /\ peerPc = "encode" /\ unloaded = {}      \* __sync_synchronize()
    /\ Pop

-----------------------------------------------------------------------------
Send == SendGate \/ PushRoom \/ PushWrap \/ PushStore \/ PushPublish
Drain == PeerPass \/ Peek \/ PeekSize \/ Load \/ PopHead
Next == IceStateChange \/ Send \/ Drain

\* The peer task has the highest priority of all (app_config.h:333) and only sleeps
\* between two passes; it never waits for a sender.
Fairness == WF_vars(Drain)

Spec == Init /\ [][Next]_vars /\ Fairness

-----------------------------------------------------------------------------
(* Properties                                                              *)

Cell == {Blank}
    \cup ({"length"} \X Lens \X (0 .. Word - 1))
    \cup {<<"payload", FrameId(f), k>> : f \in Frame, k \in 0 .. Size - 1}

\* The variables stay in their types, both offsets within the ring.
TypeOK ==
    /\ streaming \in BOOLEAN
    /\ DOMAIN mem = 0 .. Size + Word - 2
    /\ \A c \in DOMAIN mem : mem[c] \in Cell
    /\ head \in 0 .. Size - 1 /\ tail \in 0 .. Size - 1
    /\ sendPc \in {"gate", "room", "wrap", "store"}
    /\ frame \in (0 .. Ids - 1) \X (Lens \cup {0})
    /\ unstored \subseteq DOMAIN mem
    /\ peerPc \in {"pass", "peek", "size", "encode"}
    /\ unloaded \subseteq 0 .. Size - 1
    /\ queued \in Seq(Frame) /\ marks \in Seq(0 .. Size - 1)
    /\ skewed \in BOOLEAN

\* "Each entry also carries a 4-byte length prefix, 4-byte aligned" (libpeer_config.h:45):
\* then what either side stores or loads, the prefix included, lies in the block.
AccessInBlock ==
    /\ sendPc = "store" => DOMAIN Image(tail, frame) \subseteq Block
    /\ peerPc = "size" => PrefixCells(head) \subseteq Block
    /\ unloaded \subseteq Block

\* An access leaves the block only after a frame whose length is no multiple of the word
\* has wrapped (libpeer patch:265 stores the bare length as the new tail): never with
\* the audio ring's frames, whose lengths are, whatever lies where and however the two
\* sides run against each other.
InBlockUntilSkewed == Align(Size) = Size /\ ~skewed => AccessInBlock

\* From head to tail the ring holds the queued frames, one behind the other, each whole with
\* its prefix: no store of the sender touches an entry the peer task may be reading (libpeer
\* patch:245), and the peer task finds the next entry where the sender began it.
HoldsQueued ==
    /\ Len(marks) = Len(queued) + 1
    /\ marks[1] = head /\ marks[Len(marks)] = tail
    /\ \A i \in 1 .. Len(queued) :
          LET image == Image(marks[i], queued[i])
          IN  /\ marks[i + 1] = After(marks[i], Length(queued[i]))
              /\ \A c \in DOMAIN image : mem[c] = image[c]

\* The video ring is 2 * 150 * 1024 bytes, as it "must fit one or two IDR frame"
\* (libpeer_config.h:53): an empty ring takes a frame whose entry is up to half of it,
\* wherever head and tail are.
EmptyTakesHalf ==
    (head = tail /\ 2 * EntryLen(Length(frame)) <= Size) =>
        /\ sendPc = "room" => EntryLen(Length(frame)) <= FreeSpace
        /\ sendPc = "wrap" /\ Wraps(tail, Length(frame)) => FitsAtStart

Queue == INSTANCE FrameQueue WITH queue <- queued, out <- out

\* The ring without a lock is a queue: what is accepted comes out whole, in order, once.
InOrderOnce == Queue!Spec

HeadIs(id) == queued # <<>> /\ FrameId(Head(queued)) = id

\* While the connection stays up the frame at the head goes out: a sender that keeps the
\* ring full cannot hold the peer loop at one frame.
HeadGoesOut == \A id \in 0 .. Ids - 1 : HeadIs(id) ~> (~HeadIs(id) \/ ~streaming)
=============================================================================
