--------------------------- MODULE MediaRingProofs ---------------------------
(***************************************************************************)
(* For every size of the ring and of the prefix and every set of frame     *)
(* lengths: the ring is a queue, an empty one takes any frame whose entry  *)
(* is up to half of it, and the block is not left before a frame of an odd *)
(* length has wrapped.                                                     *)
(***************************************************************************)
EXTENDS MediaRing, TLAPS

\* A number below the modulus is its own remainder.
LEMMA SmallRemainder ==
    ASSUME NEW n \in Nat \ {0}, NEW a \in 0 .. n - 1
    PROVE  a % n = a
  OBVIOUS

\* The alignment takes nothing off an entry: its prefix and its payload fit in it.
LEMMA EntryHoldsFrame ==
    ASSUME NEW n \in Nat
    PROVE  EntryLen(n) \in Nat /\ n + Word <= EntryLen(n)
  <1> DEFINE q == (n + Word + Word - 1) \div Word
  <1>1. Word \in Nat \ {0} /\ n + Word + Word - 1 \in Nat
    BY RingAssumption
  <1>2. q \in Nat /\ n + Word + Word - 1 < (q + 1) * Word
    BY <1>1, Z3
  <1> HIDE DEF q
  <1>3. (q + 1) * Word = q * Word + Word /\ q * Word \in Nat
    BY <1>1, <1>2, Z3
  <1>4. q * Word >= n + Word
    BY <1>1, <1>2, <1>3
  <1> QED
    BY <1>3, <1>4 DEF EntryLen, Align, q

\* One turn around the ring.
LEMMA Remainder ==
    ASSUME NEW s \in Nat \ {0}, NEW a \in 0 .. s - 1, NEW e \in 0 .. s - 1
    PROVE  (a + e) % s = IF a + e < s THEN a + e ELSE a + e - s
  <1>1. CASE a + e < s
    BY <1>1, SmallRemainder
  <1>2. CASE a + e >= s
    <2> DEFINE x == a + e
    <2>1. x \in Nat /\ s <= x /\ x < 2 * s
      BY <1>2
    <2> HIDE DEF x
    <2>2. x % s = x - s
      BY <2>1, Z3
    <2> QED
      BY <1>2, <2>2 DEF x
  <1> QED
    BY <1>1, <1>2

\* What Wraps, After and PayloadAt say of an entry that is smaller than the ring.
LEMMA Passing ==
    ASSUME NEW at \in 0 .. Size - 1, NEW n \in Lens, EntryLen(n) < Size
    PROVE  /\ n \in Nat \ {0} /\ EntryLen(n) \in Nat /\ n + Word <= EntryLen(n)
           /\ Wraps(at, n) <=> at + EntryLen(n) >= Size
           /\ Wraps(at, n) => After(at, n) = n /\ PayloadAt(at, n) = 0
           /\ ~Wraps(at, n) => After(at, n) = at + EntryLen(n) /\ PayloadAt(at, n) = at + Word
           /\ After(at, n) \in 0 .. Size - 1
  <1>1. Size \in Nat \ {0} /\ Word \in Nat \ {0} /\ n \in Nat \ {0}
    BY RingAssumption
  <1>2. EntryLen(n) \in Nat /\ n + Word <= EntryLen(n)
    BY <1>1, EntryHoldsFrame
  <1>3. EntryEnd(at, n) = IF at + EntryLen(n) < Size THEN at + EntryLen(n)
                                                     ELSE at + EntryLen(n) - Size
    <2>1. EntryLen(n) \in 0 .. Size - 1
      BY <1>1, <1>2
    <2> QED
      BY <1>1, <2>1, Remainder DEF EntryEnd
  <1>4. Wraps(at, n) <=> at + EntryLen(n) >= Size
    BY <1>1, <1>2, <1>3 DEF Wraps
  <1> QED
    BY <1>1, <1>2, <1>3, <1>4 DEF After, PayloadAt

\* Twice an entry length that fits a size is room for one of them, and more.
LEMMA HalfFits ==
    ASSUME NEW e \in Nat, NEW s \in Nat \ {0}, 2 * e <= s
    PROVE  e <= s - 1
  OBVIOUS

\* buffer_push_tail() on an empty ring, at both of its checks and wherever the two offsets
\* are: a frame whose entry is up to half of the ring is not refused.
LEMMA EmptyRingTakesHalf == TypeOK => EmptyTakesHalf
  <1> SUFFICES ASSUME TypeOK, head = tail, 2 * EntryLen(Length(frame)) <= Size
               PROVE  /\ sendPc = "room" => EntryLen(Length(frame)) <= FreeSpace
                      /\ sendPc = "wrap" /\ Wraps(tail, Length(frame)) => FitsAtStart
    BY DEF EmptyTakesHalf
  <1> DEFINE e == EntryLen(Length(frame))
  <1>1. Size \in Nat \ {0} /\ head \in 0 .. Size - 1
    BY RingAssumption DEF TypeOK
  <1>2. Length(frame) \in Nat
    <2>1. frame \in (0 .. Ids - 1) \X (Lens \cup {0})
      BY DEF TypeOK
    <2>2. frame[2] \in Lens \cup {0}
      BY <2>1
    <2>3. Lens \cup {0} \subseteq Nat
      BY RingAssumption
    <2> QED
      BY <2>2, <2>3 DEF Length
  <1>3. e \in Nat /\ 2 * e <= Size
    BY <1>2, EntryHoldsFrame
  <1> HIDE DEF e
  <1>4. e <= FreeSpace
    <2>1. Size + head - tail - 1 = Size - 1
      BY <1>1
    <2>2. (Size - 1) % Size = Size - 1
      BY <1>1, SmallRemainder
    <2> QED
      BY <1>1, <1>3, <2>1, <2>2, HalfFits DEF FreeSpace
  <1>5. ASSUME (tail + e) % Size < tail
        PROVE  head >= e
    <2>1. CASE tail + e < Size
      <3>1. (tail + e) % Size = tail + e
        BY <1>1, <1>3, <2>1, SmallRemainder
      <3> QED
        BY <1>1, <1>3, <1>5, <3>1
    <2>2. CASE tail + e >= Size
      BY <1>1, <1>3, <2>2
    <2> QED
      BY <1>1, <1>3, <2>1, <2>2
  <1>6. Wraps(tail, Length(frame)) => FitsAtStart
    BY <1>5 DEF Wraps, EntryEnd, FitsAtStart, e
  <1> QED
    BY <1>4, <1>6 DEF e

\* An offset of the ring stays one when an entry that fits is passed, wrapped or not.
LEMMA NextOffsetInRing ==
    ASSUME NEW at \in 0 .. Size - 1, NEW n \in Lens, EntryLen(n) < Size
    PROVE  After(at, n) \in 0 .. Size - 1
  BY Passing

-----------------------------------------------------------------------------
(* The inductive invariant                                                 *)

\* How far an offset lies behind another one, around the end, and how far behind head.
Around(from, x) == IF x >= from THEN x - from ELSE x + Size - from
Pos(x) == Around(head, x)

\* The queued entries follow one another from head to tail without going round; one that
\* wraps has its payload in front of head, its prefix behind it.
Ordered ==
    /\ \A i, j \in 1 .. Len(marks) : i < j => Pos(marks[i]) < Pos(marks[j])
    /\ \A i \in 1 .. Len(queued) :
          /\ EntryLen(Length(queued[i])) < Size
          /\ Wraps(marks[i], Length(queued[i])) =>
                Length(queued[i]) < head /\ head <= marks[i]

\* The room the sender has found stays, however far the peer task pops meanwhile.
RoomKept ==
    /\ sendPc # "gate" => frame \in Frame
    /\ sendPc \in {"wrap", "store"} => EntryLen(Length(frame)) + Pos(tail) < Size
    /\ sendPc = "store" /\ Wraps(tail, Length(frame)) =>
          EntryLen(Length(frame)) <= head /\ head <= tail

\* The cells of the entry behind tail that are not to be stored any more have been.
Stored ==
    sendPc = "store" =>
        LET image == Image(tail, frame)
        IN  /\ unstored \subseteq DOMAIN image
            /\ \A c \in DOMAIN image \ unstored : mem[c] = image[c]

\* What the load of cell c of frame f gives when the payload begins at offset at.
LoadOf(at, f, c) == <<c - at, <<"payload", FrameId(f), c - at>>>>

\* The peer task reads the frame at the head, and has loaded what it need not load any more.
Loaded ==
    /\ peerPc \in {"size", "encode"} => queued # <<>>
    /\ peerPc = "encode" =>
          LET f == queued[1]
              at == PayloadAt(head, Length(f))
              cells == PayloadCells(head, Length(f))
          IN  unloaded \subseteq cells /\ loaded = {LoadOf(at, f, c) : c \in cells \ unloaded}

RingInv == TypeOK /\ HoldsQueued /\ Ordered /\ RoomKept /\ Stored /\ Loaded

\* A cell the peer task may read: between head and tail, or reached by a prefix at the end
\* when the queue goes round.
Used(c) == IF c < Size THEN Pos(c) < Pos(tail) ELSE tail < head

-----------------------------------------------------------------------------
(* Where the entries lie                                                   *)

\* A frame is an id and a length.
LEMMA FrameParts ==
    ASSUME NEW f \in Frame
    PROVE  FrameId(f) \in 0 .. Ids - 1 /\ Length(f) \in Lens /\ f = <<FrameId(f), Length(f)>>
  BY DEF Frame, FrameId, Length

\* Where an offset lies behind head.
LEMMA PosInRing ==
    ASSUME TypeOK, NEW x \in 0 .. Size - 1
    PROVE  /\ Pos(x) \in 0 .. Size - 1
           /\ x >= head => Pos(x) = x - head
           /\ x < head => Pos(x) = x + Size - head
  BY RingAssumption DEF TypeOK, Pos, Around

\* A queued entry: where it begins, where it ends, and that it is not behind tail.
LEMMA QueuedEntry ==
    ASSUME TypeOK, HoldsQueued, Ordered, NEW i \in 1 .. Len(queued)
    PROVE  /\ queued[i] \in Frame /\ Length(queued[i]) \in Lens
           /\ marks[i] \in 0 .. Size - 1 /\ marks[i + 1] \in 0 .. Size - 1
           /\ Pos(marks[i]) < Pos(marks[i + 1]) /\ Pos(marks[i + 1]) <= Pos(tail)
           /\ marks[i + 1] = After(marks[i], Length(queued[i]))
           /\ EntryLen(Length(queued[i])) < Size
           /\ Wraps(marks[i], Length(queued[i])) => Length(queued[i]) < head /\ head <= marks[i]
  <1>1. /\ queued \in Seq(Frame) /\ marks \in Seq(0 .. Size - 1)
        /\ Len(marks) = Len(queued) + 1 /\ marks[Len(marks)] = tail
        /\ head \in 0 .. Size - 1 /\ tail \in 0 .. Size - 1 /\ Size \in Nat \ {0}
    BY RingAssumption DEF TypeOK, HoldsQueued
  <1>2. i \in 1 .. Len(marks) /\ i + 1 \in 1 .. Len(marks) /\ i < i + 1
    BY <1>1
  <1>3. /\ queued[i] \in Frame /\ Length(queued[i]) \in Lens
        /\ marks[i] \in 0 .. Size - 1 /\ marks[i + 1] \in 0 .. Size - 1
    <2>1. queued[i] \in Frame
      BY <1>1
    <2>2. Length(queued[i]) \in Lens
      BY <2>1, FrameParts
    <2>3. marks[i] \in 0 .. Size - 1 /\ marks[i + 1] \in 0 .. Size - 1
      BY <1>1, <1>2
    <2> QED
      BY <2>1, <2>2, <2>3
  <1>4. Pos(marks[i]) < Pos(marks[i + 1])
    BY <1>2 DEF Ordered
  <1>5. Pos(marks[i + 1]) <= Pos(tail)
    <2>1. Pos(tail) \in 0 .. Size - 1 /\ Pos(marks[i + 1]) \in 0 .. Size - 1
      BY <1>1, <1>3, PosInRing
    <2>2. CASE i + 1 = Len(marks)
      <3>1. marks[i + 1] = tail
        BY <1>1, <2>2
      <3> QED
        BY <2>1, <3>1
    <2>3. CASE i + 1 # Len(marks)
      <3>1. Len(marks) \in 1 .. Len(marks) /\ i + 1 < Len(marks)
        BY <1>1, <1>2, <2>3
      <3>2. Pos(marks[i + 1]) < Pos(tail)
        BY <1>1, <1>2, <3>1 DEF Ordered
      <3> QED
        BY <2>1, <3>2
    <2> QED
      BY <2>2, <2>3
  <1>6. /\ marks[i + 1] = After(marks[i], Length(queued[i]))
        /\ EntryLen(Length(queued[i])) < Size
        /\ Wraps(marks[i], Length(queued[i])) => Length(queued[i]) < head /\ head <= marks[i]
    BY DEF HoldsQueued, Ordered
  <1> QED
    BY <1>3, <1>4, <1>5, <1>6

\* The cells of an image.
LEMMA ImageCells ==
    ASSUME NEW at, NEW f
    PROVE  DOMAIN Image(at, f) = PrefixCells(at) \cup PayloadCells(at, Length(f))
  BY DEF Image

\* Every cell of a queued entry is a used one.
LEMMA QueuedCellsUsed ==
    ASSUME TypeOK, HoldsQueued, Ordered, NEW i \in 1 .. Len(queued),
           NEW c \in DOMAIN Image(marks[i], queued[i])
    PROVE  Used(c)
  <1> DEFINE a == marks[i]
             n == Length(queued[i])
             b == marks[i + 1]
  <1>1. /\ n \in Lens /\ a \in 0 .. Size - 1 /\ b \in 0 .. Size - 1
        /\ Pos(a) < Pos(b) /\ Pos(b) <= Pos(tail) /\ b = After(a, n) /\ EntryLen(n) < Size
        /\ Wraps(a, n) => n < head /\ head <= a
    BY QueuedEntry
  <1>2. /\ head \in 0 .. Size - 1 /\ tail \in 0 .. Size - 1
        /\ Size \in Nat \ {0} /\ Word \in Nat \ {0}
    BY RingAssumption DEF TypeOK
  <1>3. c \in PrefixCells(a) \cup PayloadCells(a, n)
    BY ImageCells
  <1> HIDE DEF a, b, n
  <1>4. /\ n \in Nat \ {0} /\ EntryLen(n) \in Nat /\ n + Word <= EntryLen(n)
        /\ Wraps(a, n) <=> a + EntryLen(n) >= Size
        /\ Wraps(a, n) => After(a, n) = n /\ PayloadAt(a, n) = 0
        /\ ~Wraps(a, n) => After(a, n) = a + EntryLen(n) /\ PayloadAt(a, n) = a + Word
    BY <1>1, Passing
  <1>5. CASE Wraps(a, n)
    <2>1. b = n /\ n < head /\ head <= a /\ tail < head /\ n <= tail
      BY <1>1, <1>2, <1>4, <1>5 DEF Pos, Around
    <2>2. c \in a .. a + Word - 1 \/ c \in 0 .. n - 1
      BY <1>2, <1>3, <1>4, <1>5 DEF PrefixCells, PayloadCells
    <2> QED
      BY <1>1, <1>2, <1>4, <2>1, <2>2 DEF Used, Pos, Around
  <1>6. CASE ~Wraps(a, n)
    <2>1. b = a + EntryLen(n) /\ a + EntryLen(n) < Size
      BY <1>1, <1>2, <1>4, <1>6
    <2>2. c \in a .. b - 1 /\ c \in 0 .. Size - 1
      BY <1>1, <1>2, <1>3, <1>4, <1>6, <2>1 DEF PrefixCells, PayloadCells
    <2>3. a < head => b < head
      <3>1. Pos(a) < Pos(b) /\ a \in 0 .. Size - 1 /\ b \in 0 .. Size - 1
        BY <1>1
      <3>2. EntryLen(n) \in Nat /\ EntryLen(n) < Size
        BY <1>1, <1>4
      <3> QED
        BY <1>2, <2>1, <3>1, <3>2 DEF Pos, Around
    <2>4. Pos(c) < Pos(b)
      <3>1. a \in 0 .. Size - 1 /\ b \in 0 .. Size - 1
        BY <1>1
      <3> QED
        BY <1>2, <2>2, <2>3, <3>1 DEF Pos, Around
    <2>5. Pos(c) < Pos(tail)
      <3>1. Pos(tail) \in 0 .. Size - 1 /\ Pos(b) \in 0 .. Size - 1 /\ Pos(c) \in 0 .. Size - 1
        BY <1>1, <1>2, <2>2, PosInRing
      <3> QED
        BY <1>1, <2>4, <3>1
    <2> QED
      BY <1>2, <2>2, <2>5 DEF Used
  <1> QED
    BY <1>5, <1>6

\* No cell of the entry that is being stored is a used one.
LEMMA StoredCellsUnused ==
    ASSUME TypeOK, RoomKept, sendPc = "store", NEW c \in DOMAIN Image(tail, frame)
    PROVE  ~Used(c) /\ c \in 0 .. Size + Word - 2
  <1> DEFINE n == Length(frame)
  <1>1. /\ n \in Lens /\ EntryLen(n) + Pos(tail) < Size
        /\ Wraps(tail, n) => EntryLen(n) <= head /\ head <= tail
    BY FrameParts DEF RoomKept
  <1>2. /\ head \in 0 .. Size - 1 /\ tail \in 0 .. Size - 1
        /\ Size \in Nat \ {0} /\ Word \in Nat \ {0}
    BY RingAssumption DEF TypeOK
  <1>3. c \in PrefixCells(tail) \cup PayloadCells(tail, n)
    BY ImageCells
  <1> HIDE DEF n
  <1>4. n \in Nat /\ EntryLen(n) \in Nat
    BY <1>1, RingAssumption, EntryHoldsFrame
  <1>5. EntryLen(n) < Size
    BY <1>1, <1>2, <1>4 DEF Pos, Around
  <1>6. /\ n \in Nat \ {0} /\ n + Word <= EntryLen(n)
        /\ Wraps(tail, n) <=> tail + EntryLen(n) >= Size
        /\ Wraps(tail, n) => PayloadAt(tail, n) = 0
        /\ ~Wraps(tail, n) => PayloadAt(tail, n) = tail + Word
    BY <1>1, <1>2, <1>5, Passing
  <1>7. CASE Wraps(tail, n)
    <2>1. c \in tail .. tail + Word - 1 \/ c \in 0 .. n - 1
      BY <1>2, <1>3, <1>6, <1>7 DEF PrefixCells, PayloadCells
    <2> QED
      BY <1>1, <1>2, <1>4, <1>5, <1>6, <1>7, <2>1 DEF Used, Pos, Around
  <1>8. CASE ~Wraps(tail, n)
    <2>1. c \in tail .. tail + EntryLen(n) - 1
      BY <1>2, <1>3, <1>4, <1>6, <1>8 DEF PrefixCells, PayloadCells
    <2> QED
      BY <1>1, <1>2, <1>4, <1>5, <1>6, <1>8, <2>1 DEF Used, Pos, Around
  <1> QED
    BY <1>7, <1>8

\* The prefix of an entry does not lie over its payload; the payload is in the block, the
\* prefix may reach over its end.
LEMMA ImageParts ==
    ASSUME NEW at \in 0 .. Size - 1, NEW f \in Frame, EntryLen(Length(f)) < Size,
           Wraps(at, Length(f)) => Length(f) <= at
    PROVE  /\ PrefixCells(at) \cap PayloadCells(at, Length(f)) = {}
           /\ PayloadCells(at, Length(f)) \subseteq 0 .. Size - 1
           /\ PrefixCells(at) \subseteq 0 .. Size + Word - 2
           /\ \A c \in PrefixCells(at) : Image(at, f)[c] = <<"length", Length(f), c - at>>
           /\ \A c \in PayloadCells(at, Length(f)) :
                 Image(at, f)[c] = <<"payload", FrameId(f), c - PayloadAt(at, Length(f))>>
  <1> DEFINE n == Length(f)
  <1>1. Size \in Nat \ {0} /\ Word \in Nat \ {0}
    BY RingAssumption
  <1>2. /\ n \in Nat \ {0} /\ EntryLen(n) \in Nat /\ n + Word <= EntryLen(n)
        /\ EntryLen(n) < Size
        /\ Wraps(at, n) => n <= at
        /\ Wraps(at, n) <=> at + EntryLen(n) >= Size
        /\ Wraps(at, n) => PayloadAt(at, n) = 0
        /\ ~Wraps(at, n) => PayloadAt(at, n) = at + Word
    BY FrameParts, Passing
  <1> HIDE DEF n
  <1> DEFINE p == PayloadAt(at, n)
  <1>3. /\ p \in Nat /\ p + n <= Size
        /\ p >= at + Word \/ p + n <= at
    BY <1>1, <1>2
  <1> HIDE DEF p
  <1>p. PrefixCells(at) = at .. at + Word - 1 /\ PayloadCells(at, n) = p .. p + n - 1
    BY DEF PrefixCells, PayloadCells, p
  <1>n. n \in Nat
    BY <1>2
  <1>4. PrefixCells(at) \cap PayloadCells(at, n) = {} /\ PayloadCells(at, n) \subseteq 0 .. Size - 1
    BY <1>1, <1>3, <1>p, <1>n
  <1>5. PrefixCells(at) \subseteq 0 .. Size + Word - 2
    BY <1>1 DEF PrefixCells
  <1> QED
    BY <1>4, <1>5 DEF Image, n

\* The prefix at head reads as the length of the frame that was queued there.
LEMMA HeadLength ==
    ASSUME TypeOK, HoldsQueued, Ordered, queued # <<>>
    PROVE  /\ 1 \in 1 .. Len(queued) /\ queued[1] \in Frame /\ marks[1] = head
           /\ StoredLength(head) = Length(queued[1])
           /\ \A c \in PayloadCells(head, Length(queued[1])) :
                 mem[c] = <<"payload", FrameId(queued[1]), c - PayloadAt(head, Length(queued[1]))>>
           /\ PayloadCells(head, Length(queued[1])) \subseteq 0 .. Size - 1
  <1> DEFINE f == queued[1]
  <1>1. 1 \in 1 .. Len(queued) /\ marks[1] = head /\ head \in 0 .. Size - 1
    BY DEF TypeOK, HoldsQueued
  <1>2. /\ f \in Frame /\ EntryLen(Length(f)) < Size
        /\ Wraps(head, Length(f)) => Length(f) < head
    BY <1>1, QueuedEntry
  <1>3. \A c \in DOMAIN Image(head, f) : mem[c] = Image(head, f)[c]
    BY <1>1 DEF HoldsQueued
  <1> HIDE DEF f
  <1>4. /\ Length(f) \in Lens /\ Length(f) \in Nat /\ Word \in Nat \ {0} /\ Size \in Nat \ {0}
    BY <1>2, FrameParts, RingAssumption
  <1>5. /\ \A c \in PrefixCells(head) : Image(head, f)[c] = <<"length", Length(f), c - head>>
        /\ \A c \in PayloadCells(head, Length(f)) :
              Image(head, f)[c] = <<"payload", FrameId(f), c - PayloadAt(head, Length(f))>>
        /\ PayloadCells(head, Length(f)) \subseteq 0 .. Size - 1
    BY <1>1, <1>2, <1>4, ImageParts
  <1>6. DOMAIN Image(head, f) = PrefixCells(head) \cup PayloadCells(head, Length(f))
    BY ImageCells
  <1>7. \A c \in PrefixCells(head) : mem[c] = <<"length", Length(f), c - head>>
    BY <1>3, <1>5, <1>6
  <1>8. HoldsLength(head, Length(f))
    <2> SUFFICES ASSUME NEW j \in 0 .. Word - 1
                 PROVE  mem[head + j] = <<"length", Length(f), j>>
      BY DEF HoldsLength
    <2>1. head + j \in PrefixCells(head) /\ (head + j) - head = j
      BY <1>1, <1>4 DEF PrefixCells
    <2> QED
      BY <1>7, <2>1
  <1>9. \A n \in Lens : HoldsLength(head, n) => n = Length(f)
    <2> SUFFICES ASSUME NEW n \in Lens, HoldsLength(head, n) PROVE n = Length(f)
      OBVIOUS
    <2>1. 0 \in 0 .. Word - 1
      BY <1>4
    <2>2. mem[head + 0] = <<"length", n, 0>> /\ mem[head + 0] = <<"length", Length(f), 0>>
      BY <1>8, <2>1 DEF HoldsLength
    <2> QED
      BY <2>2
  <1>10. StoredLength(head) = Length(f)
    BY <1>4, <1>8, <1>9 DEF StoredLength
  <1> QED
    BY <1>1, <1>2, <1>3, <1>5, <1>6, <1>10 DEF f

-----------------------------------------------------------------------------
(* What a step leaves alone                                                *)

\* A step that neither stores into the ring nor moves its offsets.
LEMMA RingStays ==
    ASSUME HoldsQueued, Ordered, UNCHANGED <<mem, head, tail, queued, marks>>
    PROVE  HoldsQueued' /\ Ordered'
  BY DEF HoldsQueued, Ordered, Pos, Around

\* A step that concerns the sender's push in no way.
LEMMA SenderStays ==
    ASSUME RoomKept, Stored, UNCHANGED <<mem, head, tail, sendPc, frame, unstored>>
    PROVE  RoomKept' /\ Stored'
  BY DEF RoomKept, Stored, Pos, Around, FitsAtStart

\* A step that concerns the peer task's reading in no way.
LEMMA PeerStays ==
    ASSUME Loaded, UNCHANGED <<head, peerPc, unloaded, loaded, queued>>
    PROVE  Loaded'
  BY DEF Loaded

-----------------------------------------------------------------------------
(* The steps                                                               *)

\* The ring is empty and nobody is at it.
LEMMA InitRing == Init => RingInv
  <1> SUFFICES ASSUME Init PROVE RingInv
    OBVIOUS
  <1>1. Size \in Nat \ {0} /\ Word \in Nat \ {0} /\ Ids \in Nat \ {0}
    BY RingAssumption
  <1>2. /\ queued = <<>> /\ marks = <<0>> /\ head = 0 /\ tail = 0
        /\ mem = [c \in 0 .. Size + Word - 2 |-> Blank]
        /\ sendPc = "gate" /\ frame = <<0, 0>> /\ unstored = {}
        /\ peerPc = "pass" /\ unloaded = {} /\ streaming = FALSE
    BY DEF Init
  <1>b. skewed \in BOOLEAN
    BY Zenon DEF Init
  <1>3. TypeOK
    <2>1. 0 \in 0 .. Size - 1 /\ 0 \in 0 .. Ids - 1
      BY <1>1
    <2>2. \A c \in DOMAIN mem : mem[c] \in Cell
      BY <1>2 DEF Cell
    <2>3. frame \in (0 .. Ids - 1) \X (Lens \cup {0})
      BY <1>2, <2>1
    <2>4. queued \in Seq(Frame) /\ marks \in Seq(0 .. Size - 1)
      BY <1>2, <2>1
    <2> QED
      BY <1>2, <1>b, <2>1, <2>2, <2>3, <2>4 DEF TypeOK
  <1>4. HoldsQueued
    BY <1>2 DEF HoldsQueued
  <1>5. Ordered
    BY <1>2 DEF Ordered
  <1>6. RoomKept /\ Stored /\ Loaded
    BY <1>2 DEF RoomKept, Stored, Loaded
  <1> QED
    BY <1>3, <1>4, <1>5, <1>6 DEF RingInv

\* The connection comes up or goes down.
LEMMA IceStateChangeRing == RingInv /\ IceStateChange => RingInv'
  <1> SUFFICES ASSUME RingInv, IceStateChange PROVE RingInv'
    OBVIOUS
  <1>1. /\ UNCHANGED <<mem, head, tail, sendPc, frame, unstored, peerPc, unloaded, loaded,
                       queued, marks, skewed>>
        /\ streaming' = ~streaming
    BY DEF IceStateChange, ring, sender, peer, history
  <1>2. TypeOK'
    <2>1. streaming' \in BOOLEAN
      BY <1>1
    <2> QED
      BY <1>1, <2>1 DEF RingInv, TypeOK
  <1> QED
    BY <1>1, <1>2, RingStays, SenderStays, PeerStays DEF RingInv

\* A frame to send, while the connection is up.
LEMMA SendGateRing == RingInv /\ SendGate => RingInv'
  <1> SUFFICES ASSUME RingInv, SendGate PROVE RingInv'
    OBVIOUS
  <1>1. /\ UNCHANGED <<streaming, mem, head, tail, unstored, peerPc, unloaded, loaded, queued,
                       marks, skewed>>
        /\ sendPc' = "room"
    BY DEF SendGate, ring, peer, history
  <1>2. PICK n \in Lens : frame' = <<FrameId(frame), n>>
    BY DEF SendGate
  <1>3. frame' \in Frame /\ frame' \in (0 .. Ids - 1) \X (Lens \cup {0})
    BY <1>2 DEF RingInv, TypeOK, Frame, FrameId
  <1>4. TypeOK'
    BY <1>1, <1>3 DEF RingInv, TypeOK
  <1>5. RoomKept' /\ Stored'
    BY <1>1, <1>3 DEF RoomKept, Stored
  <1> QED
    BY <1>1, <1>4, <1>5, RingStays, PeerStays DEF RingInv

\* What buffer_push_tail() takes for free is what lies between tail and head.
LEMMA FreeIsBehindTail == TypeOK => FreeSpace = Size - 1 - Pos(tail)
  <1> SUFFICES ASSUME TypeOK PROVE FreeSpace = Size - 1 - Pos(tail)
    OBVIOUS
  <1>1. head \in 0 .. Size - 1 /\ tail \in 0 .. Size - 1 /\ Size \in Nat \ {0}
    BY RingAssumption DEF TypeOK
  <1>2. CASE tail >= head
    <2>1. Size + head - tail - 1 \in 0 .. Size - 1
      BY <1>1, <1>2
    <2>2. FreeSpace = Size + head - tail - 1
      BY <1>1, <2>1, SmallRemainder DEF FreeSpace
    <2> QED
      BY <1>1, <1>2, <2>2 DEF Pos, Around
  <1>3. CASE tail < head
    <2> DEFINE a == Size - 1
               e == head - tail
    <2>1. /\ a \in 0 .. Size - 1 /\ e \in 0 .. Size - 1 /\ a + e >= Size
          /\ Size + head - tail - 1 = a + e
          /\ a + e - Size = head - tail - 1
      BY <1>1, <1>3
    <2> HIDE DEF a, e
    <2>2. (a + e) % Size = IF a + e < Size THEN a + e ELSE a + e - Size
      <3>1. Size \in Nat \ {0} /\ a \in 0 .. Size - 1 /\ e \in 0 .. Size - 1
        BY <1>1, <2>1
      <3> QED
        BY <3>1, Remainder
    <2>3. FreeSpace = head - tail - 1
      BY <1>1, <2>1, <2>2 DEF FreeSpace
    <2> QED
      BY <1>1, <1>3, <2>3 DEF Pos, Around
  <1> QED
    BY <1>1, <1>2, <1>3

\* Too little room refuses the frame, enough of it is kept.
LEMMA PushRoomRing == RingInv /\ PushRoom => RingInv'
  <1> SUFFICES ASSUME RingInv, PushRoom PROVE RingInv'
    OBVIOUS
  <1>1. /\ UNCHANGED <<streaming, mem, head, tail, unstored, peerPc, unloaded, loaded, queued,
                       marks, skewed>>
        /\ sendPc = "room"
    BY DEF PushRoom, ring, peer, history
  <1>2. frame \in Frame
    BY <1>1 DEF RingInv, RoomKept
  <1>3. CASE sendPc' = "gate" /\ Refused
    <2>1. frame' \in (0 .. Ids - 1) \X (Lens \cup {0})
      BY <1>2, <1>3, FrameParts DEF Refused
    <2>2. TypeOK'
      BY <1>1, <1>3, <2>1 DEF RingInv, TypeOK
    <2>3. RoomKept' /\ Stored'
      BY <1>3 DEF RoomKept, Stored
    <2> QED
      BY <1>1, <2>2, <2>3, RingStays, PeerStays DEF RingInv
  <1>4. CASE ~(EntryLen(Length(frame)) > FreeSpace) /\ sendPc' = "wrap" /\ UNCHANGED frame
    <2>1. TypeOK'
      BY <1>1, <1>4 DEF RingInv, TypeOK
    <2>2. EntryLen(Length(frame)) + Pos(tail) < Size
      <3>1. EntryLen(Length(frame)) \in Nat
        BY <1>2, FrameParts, EntryHoldsFrame, RingAssumption
      <3>2. Pos(tail) \in 0 .. Size - 1 /\ Size \in Nat
        BY PosInRing, RingAssumption DEF RingInv, TypeOK
      <3>3. FreeSpace = Size - 1 - Pos(tail)
        BY FreeIsBehindTail DEF RingInv
      <3> QED
        BY <1>4, <3>1, <3>2, <3>3
    <2>3. RoomKept' /\ Stored'
      BY <1>1, <1>2, <1>4, <2>2 DEF RoomKept, Stored, Pos, Around
    <2> QED
      BY <1>1, <2>1, <2>3, RingStays, PeerStays DEF RingInv
  <1> QED
    BY <1>3, <1>4 DEF PushRoom

\* An entry that would wrap needs the room in front of head; from here its cells are free.
LEMMA PushWrapRing == RingInv /\ PushWrap => RingInv'
  <1> SUFFICES ASSUME RingInv, PushWrap PROVE RingInv'
    OBVIOUS
  <1>1. /\ UNCHANGED <<streaming, mem, head, tail, peerPc, unloaded, loaded, queued, marks, skewed>>
        /\ sendPc = "wrap"
    BY DEF PushWrap, ring, peer, history
  <1>2. frame \in Frame /\ EntryLen(Length(frame)) + Pos(tail) < Size
    BY <1>1 DEF RingInv, RoomKept
  <1>3. CASE sendPc' = "gate" /\ Refused /\ UNCHANGED unstored
    <2>1. frame' \in (0 .. Ids - 1) \X (Lens \cup {0})
      BY <1>2, <1>3, FrameParts DEF Refused
    <2>2. TypeOK'
      BY <1>1, <1>3, <2>1 DEF RingInv, TypeOK
    <2>3. RoomKept' /\ Stored'
      BY <1>3 DEF RoomKept, Stored
    <2> QED
      BY <1>1, <2>2, <2>3, RingStays, PeerStays DEF RingInv
  <1>4. CASE /\ ~(Wraps(tail, Length(frame)) /\ ~FitsAtStart)
             /\ sendPc' = "store" /\ UNCHANGED frame
             /\ unstored' = DOMAIN Image(tail, frame)
    <2> DEFINE e == EntryLen(Length(frame))
    <2>1. /\ head \in 0 .. Size - 1 /\ tail \in 0 .. Size - 1 /\ Size \in Nat \ {0}
          /\ Word \in Nat \ {0} /\ Length(frame) \in Lens /\ Length(frame) \in Nat
      BY <1>2, FrameParts, RingAssumption DEF RingInv, TypeOK
    <2>2. e \in Nat /\ Length(frame) + Word <= e
      BY <2>1, EntryHoldsFrame
    <2>3. e < Size
      <3>1. Pos(tail) \in 0 .. Size - 1
        BY <2>1, PosInRing DEF RingInv
      <3> QED
        BY <1>2, <2>1, <2>2, <3>1
    <2>4. Wraps(tail, Length(frame)) => e <= head /\ head <= tail
      <3>1. Wraps(tail, Length(frame)) <=> tail + e >= Size
        BY <2>1, <2>3, Passing
      <3>2. tail < head => tail + e < Size
        BY <1>2, <2>1, <2>2 DEF Pos, Around
      <3> QED
        BY <1>4, <2>1, <2>2, <3>1, <3>2 DEF FitsAtStart
    <2>5. /\ DOMAIN Image(tail, frame) = PrefixCells(tail) \cup PayloadCells(tail, Length(frame))
          /\ PayloadCells(tail, Length(frame)) \subseteq 0 .. Size - 1
          /\ PrefixCells(tail) \subseteq 0 .. Size + Word - 2
      <3>1. Wraps(tail, Length(frame)) => Length(frame) <= tail
        BY <2>1, <2>2, <2>4
      <3> QED
        BY <1>2, <2>1, <2>3, <3>1, ImageCells, ImageParts
    <2>6. unstored' \subseteq 0 .. Size + Word - 2
      <3>1. 0 .. Size - 1 \subseteq 0 .. Size + Word - 2
        BY <2>1
      <3> QED
        BY <1>4, <2>5, <3>1
    <2>7. TypeOK'
      BY <1>1, <1>4, <2>6 DEF RingInv, TypeOK
    <2>8. RoomKept'
      BY <1>1, <1>2, <1>4, <2>4 DEF RoomKept, Pos, Around, FitsAtStart
    <2>9. Stored'
      BY <1>1, <1>4 DEF Stored
    <2> QED
      BY <1>1, <2>7, <2>8, <2>9, RingStays, PeerStays DEF RingInv
  <1> QED
    BY <1>3, <1>4 DEF PushWrap

\* A byte of a prefix is a cell.
LEMMA LengthCell ==
    ASSUME NEW n \in Lens, NEW j \in 0 .. Word - 1
    PROVE  <<"length", n, j>> \in Cell
  <1>1. <<"length", n, j>> \in {"length"} \X Lens \X (0 .. Word - 1)
    OBVIOUS
  <1> QED
    BY <1>1 DEF Cell

\* A byte of a payload is one.
LEMMA PayloadCell ==
    ASSUME NEW f \in Frame, NEW k \in 0 .. Size - 1
    PROVE  <<"payload", FrameId(f), k>> \in Cell
  BY DEF Cell

\* A store of the sender reaches no cell of a queued entry.
LEMMA PushStoreRing == RingInv /\ PushStore => RingInv'
  <1> SUFFICES ASSUME RingInv, PushStore PROVE RingInv'
    OBVIOUS
  <1>1. /\ UNCHANGED <<streaming, head, tail, sendPc, frame, peerPc, unloaded, loaded, queued,
                       marks, skewed>>
        /\ sendPc = "store"
    BY DEF PushStore, peer, history
  <1> DEFINE image == Image(tail, frame)
  <1>2. PICK c \in unstored : /\ mem' = [mem EXCEPT ![c] = image[c]]
                              /\ unstored' = unstored \ {c}
    BY DEF PushStore
  <1>3. TypeOK /\ HoldsQueued /\ Ordered /\ RoomKept /\ Stored /\ Loaded
    BY DEF RingInv
  <1>4. /\ unstored \subseteq DOMAIN image
        /\ \A d \in DOMAIN image \ unstored : mem[d] = image[d]
    BY <1>1, <1>3 DEF Stored
  <1>5. c \in DOMAIN image /\ ~Used(c) /\ c \in DOMAIN mem
    BY <1>1, <1>2, <1>3, <1>4, StoredCellsUnused DEF TypeOK
  <1>6. /\ DOMAIN mem' = DOMAIN mem /\ mem'[c] = image[c]
        /\ \A d \in DOMAIN mem : d # c => mem'[d] = mem[d]
    BY <1>2, <1>5
  <1>7. image[c] \in Cell
    <2>1. /\ frame \in Frame /\ EntryLen(Length(frame)) + Pos(tail) < Size
          /\ Wraps(tail, Length(frame)) => EntryLen(Length(frame)) <= head /\ head <= tail
      BY <1>1, <1>3 DEF RoomKept
    <2>2. /\ head \in 0 .. Size - 1 /\ tail \in 0 .. Size - 1 /\ Size \in Nat \ {0}
          /\ Word \in Nat \ {0} /\ Length(frame) \in Lens /\ Length(frame) \in Nat
          /\ Pos(tail) \in 0 .. Size - 1
      BY <1>3, <2>1, FrameParts, PosInRing, RingAssumption DEF TypeOK
    <2>3. EntryLen(Length(frame)) \in Nat /\ Length(frame) + Word <= EntryLen(Length(frame))
      BY <2>2, EntryHoldsFrame
    <2>4. /\ EntryLen(Length(frame)) < Size
          /\ Wraps(tail, Length(frame)) => Length(frame) <= tail
      BY <2>1, <2>2, <2>3
    <2>5. /\ \A d \in PrefixCells(tail) : image[d] = <<"length", Length(frame), d - tail>>
          /\ \A d \in PayloadCells(tail, Length(frame)) :
                image[d] = <<"payload", FrameId(frame), d - PayloadAt(tail, Length(frame))>>
      BY <2>1, <2>2, <2>4, ImageParts
    <2>6. CASE c \in PrefixCells(tail)
      <3>1. c - tail \in 0 .. Word - 1
        BY <2>2, <2>6 DEF PrefixCells
      <3> QED
        BY <2>1, <2>2, <2>5, <2>6, <3>1, LengthCell
    <2>7. CASE c \in PayloadCells(tail, Length(frame))
      <3>1. PayloadAt(tail, Length(frame)) \in Int
        BY <2>2 DEF PayloadAt
      <3>2. c - PayloadAt(tail, Length(frame)) \in 0 .. Length(frame) - 1
        BY <2>2, <2>7, <3>1 DEF PayloadCells
      <3>3. c - PayloadAt(tail, Length(frame)) \in 0 .. Size - 1
        BY <2>2, <2>3, <2>4, <3>2
      <3> QED
        BY <2>1, <2>2, <2>5, <2>7, <3>3, PayloadCell
    <2> QED
      BY <1>5, <2>6, <2>7, ImageCells
  <1> HIDE DEF image
  <1>8. TypeOK'
    <2>1. \A d \in DOMAIN mem' : mem'[d] \in Cell
      BY <1>3, <1>6, <1>7 DEF TypeOK
    <2> QED
      BY <1>1, <1>2, <1>3, <1>6, <2>1 DEF TypeOK
  <1>9. HoldsQueued'
    <2>1. \A i \in 1 .. Len(queued) : \A d \in DOMAIN Image(marks[i], queued[i]) : Used(d)
      BY <1>3, QueuedCellsUsed
    <2>2. \A i \in 1 .. Len(queued) : \A d \in DOMAIN Image(marks[i], queued[i]) :
             mem'[d] = mem[d]
      BY <1>2, <1>5, <2>1
    <2> QED
      BY <1>1, <1>3, <2>2 DEF HoldsQueued
  <1>10. Ordered' /\ RoomKept'
    BY <1>1, <1>3 DEF Ordered, RoomKept, Pos, Around
  <1>11. Stored'
    <2>1. \A d \in DOMAIN image \ (unstored \ {c}) : mem'[d] = image[d]
      BY <1>2, <1>4, <1>6
    <2>2. Image(tail, frame)' = image
      BY <1>1 DEF image
    <2> QED
      BY <1>1, <1>2, <1>4, <2>1, <2>2 DEF Stored, image
  <1> QED
    BY <1>1, <1>3, <1>8, <1>9, <1>10, <1>11, PeerStays DEF RingInv

\* A step of the peer task that only moves it to its next look at the ring.
LEMMA PeerPassRing == RingInv /\ PeerPass => RingInv'
  <1> SUFFICES ASSUME RingInv, PeerPass PROVE RingInv'
    OBVIOUS
  <1>1. /\ UNCHANGED <<streaming, mem, head, tail, sendPc, frame, unstored, unloaded, queued,
                       marks, skewed>>
        /\ peerPc' = "peek"
    BY DEF PeerPass, ring, sender, history
  <1>2. TypeOK' /\ Loaded'
    BY <1>1 DEF RingInv, TypeOK, Loaded
  <1> QED
    BY <1>1, <1>2, RingStays, SenderStays DEF RingInv

\* A frame is found exactly when one is queued.
LEMMA PeekRing == RingInv /\ Peek => RingInv'
  <1> SUFFICES ASSUME RingInv, Peek PROVE RingInv'
    OBVIOUS
  <1>1. /\ UNCHANGED <<streaming, mem, head, tail, sendPc, frame, unstored, unloaded, queued,
                       marks, skewed>>
        /\ peerPc' = IF head = tail THEN "pass" ELSE "size"
    BY DEF Peek, ring, sender, history
  <1>2. head # tail => queued # <<>>
    BY DEF RingInv, HoldsQueued
  <1>3. TypeOK'
    BY <1>1 DEF RingInv, TypeOK
  <1>4. Loaded'
    BY <1>1, <1>2 DEF Loaded
  <1> QED
    BY <1>1, <1>3, <1>4, RingStays, SenderStays DEF RingInv

\* The prefix is read: the payload behind it is yet to be loaded.
LEMMA PeekSizeRing == RingInv /\ PeekSize => RingInv'
  <1> SUFFICES ASSUME RingInv, PeekSize PROVE RingInv'
    OBVIOUS
  <1>1. /\ UNCHANGED <<streaming, mem, head, tail, sendPc, frame, unstored, queued, marks, skewed>>
        /\ peerPc = "size" /\ peerPc' = "encode" /\ loaded' = {}
        /\ unloaded' = PayloadCells(head, StoredLength(head))
    BY DEF PeekSize, ring, sender, history
  <1>2. queued # <<>>
    BY <1>1 DEF RingInv, Loaded
  <1>3. /\ StoredLength(head) = Length(queued[1])
        /\ PayloadCells(head, Length(queued[1])) \subseteq 0 .. Size - 1
    BY <1>2, HeadLength DEF RingInv
  <1>4. TypeOK'
    BY <1>1, <1>3 DEF RingInv, TypeOK
  <1>5. Loaded'
    BY <1>1, <1>2, <1>3 DEF Loaded
  <1> QED
    BY <1>1, <1>4, <1>5, RingStays, SenderStays DEF RingInv

\* What is loaded is the byte of the frame at the head.
LEMMA LoadRing == RingInv /\ Load => RingInv'
  <1> SUFFICES ASSUME RingInv, Load PROVE RingInv'
    OBVIOUS
  <1>1. /\ UNCHANGED <<streaming, mem, head, tail, sendPc, frame, unstored, peerPc, queued, marks,
                       skewed>>
        /\ peerPc = "encode"
    BY DEF Load, ring, sender, history
  <1>2. PICK c \in unloaded :
           /\ unloaded' = unloaded \ {c}
           /\ loaded' = loaded \cup {<<c - PayloadAt(head, StoredLength(head)), mem[c]>>}
    BY DEF Load
  <1>3. queued # <<>>
    BY <1>1 DEF RingInv, Loaded
  <1> DEFINE f == queued[1]
             at == PayloadAt(head, Length(f))
             cells == PayloadCells(head, Length(f))
  <1>4. unloaded \subseteq cells /\ loaded = {LoadOf(at, f, d) : d \in cells \ unloaded}
    BY <1>1 DEF RingInv, Loaded
  <1>5. /\ StoredLength(head) = Length(f)
        /\ \A d \in cells : mem[d] = <<"payload", FrameId(f), d - at>>
    BY <1>3, HeadLength DEF RingInv
  <1> HIDE DEF f, at, cells
  <1>6. <<c - PayloadAt(head, StoredLength(head)), mem[c]>> = LoadOf(at, f, c)
    BY <1>2, <1>4, <1>5 DEF LoadOf, at
  <1>7. loaded' = {LoadOf(at, f, d) : d \in cells \ unloaded'}
    BY <1>2, <1>4, <1>6
  <1>8. TypeOK'
    BY <1>1, <1>2 DEF RingInv, TypeOK
  <1>9. Loaded'
    <2>1. unloaded' \subseteq cells
      BY <1>2, <1>4
    <2> QED
      BY <1>1, <1>3, <1>7, <2>1 DEF Loaded, LoadOf, f, at, cells
  <1> QED
    BY <1>1, <1>8, <1>9, RingStays, SenderStays DEF RingInv

\* The entry is whole when tail passes it.
LEMMA PushPublishRing == RingInv /\ PushPublish => RingInv'
  <1> SUFFICES ASSUME RingInv, PushPublish PROVE RingInv'
    OBVIOUS
  <1> DEFINE n == Length(frame)
             k == Len(queued)
  <1>1. /\ UNCHANGED <<streaming, mem, head, peerPc, unloaded, loaded>>
        /\ sendPc = "store" /\ unstored = {} /\ sendPc' = "gate" /\ unstored' = {}
        /\ tail' = After(tail, n) /\ queued' = Append(queued, frame)
        /\ marks' = Append(marks, tail') /\ Accepted
    BY DEF PushPublish, Publish, peer
  <1>b. skewed' \in BOOLEAN
    BY Zenon DEF PushPublish, Publish
  <1>2. /\ TypeOK /\ HoldsQueued /\ Ordered /\ Loaded
        /\ frame \in Frame /\ EntryLen(n) + Pos(tail) < Size
        /\ Wraps(tail, n) => EntryLen(n) <= head /\ head <= tail
        /\ \A c \in DOMAIN Image(tail, frame) : mem[c] = Image(tail, frame)[c]
    BY <1>1 DEF RingInv, RoomKept, Stored
  <1>3. /\ head \in 0 .. Size - 1 /\ tail \in 0 .. Size - 1 /\ Size \in Nat \ {0}
        /\ Word \in Nat \ {0} /\ n \in Lens /\ n \in Nat \ {0} /\ Ids \in Nat \ {0}
        /\ Pos(tail) \in 0 .. Size - 1
    BY <1>2, FrameParts, PosInRing, RingAssumption DEF TypeOK
  <1> HIDE DEF n
  <1>4. EntryLen(n) \in Nat /\ n + Word <= EntryLen(n) /\ EntryLen(n) < Size
    BY <1>2, <1>3, EntryHoldsFrame
  <1>5. /\ Wraps(tail, n) <=> tail + EntryLen(n) >= Size
        /\ Wraps(tail, n) => tail' = n
        /\ ~Wraps(tail, n) => tail' = tail + EntryLen(n)
        /\ tail' \in 0 .. Size - 1
    BY <1>1, <1>3, <1>4, Passing
  <1>6. Pos(tail) < Pos(tail')
    <2>1. CASE Wraps(tail, n)
      <3>1. tail' = n /\ n < head /\ head <= tail
        BY <1>2, <1>3, <1>4, <1>5, <2>1
      <3> QED
        BY <1>3, <3>1 DEF Pos, Around
    <2>2. CASE ~Wraps(tail, n)
      <3>1. tail' = tail + EntryLen(n) /\ EntryLen(n) > 0 /\ tail + EntryLen(n) < Size
        BY <1>3, <1>4, <1>5, <2>2
      <3>2. tail < head => tail' < head
        BY <1>2, <1>3, <1>4, <3>1 DEF Pos, Around
      <3> QED
        BY <1>3, <1>4, <3>1, <3>2 DEF Pos, Around
    <2> QED
      BY <2>1, <2>2
  <1>7. /\ k \in Nat /\ Len(marks) = k + 1 /\ marks[k + 1] = tail /\ marks[1] = head
        /\ queued \in Seq(Frame) /\ marks \in Seq(0 .. Size - 1)
    BY <1>2 DEF TypeOK, HoldsQueued
  <1>8. /\ queued' \in Seq(Frame) /\ Len(queued') = k + 1
        /\ marks' \in Seq(0 .. Size - 1) /\ Len(marks') = k + 2
        /\ \A i \in 1 .. k : queued'[i] = queued[i]
        /\ queued'[k + 1] = frame
        /\ \A i \in 1 .. k + 1 : marks'[i] = marks[i]
        /\ marks'[k + 2] = tail'
    BY <1>1, <1>2, <1>5, <1>7
  <1> HIDE DEF k
  <1>9. frame' \in (0 .. Ids - 1) \X (Lens \cup {0})
    <2>1. FrameId(frame) \in 0 .. Ids - 1
      BY <1>2, FrameParts
    <2>2. (FrameId(frame) + 1) % Ids \in 0 .. Ids - 1
      BY <1>3, <2>1
    <2> QED
      BY <1>1, <2>2 DEF Accepted
  <1>10. TypeOK'
    BY <1>1, <1>b, <1>2, <1>5, <1>8, <1>9 DEF TypeOK
  <1>11. HoldsQueued'
    <2>1. ASSUME NEW i \in 1 .. k + 1
          PROVE  /\ marks'[i + 1] = After(marks'[i], Length(queued'[i]))
                 /\ \A c \in DOMAIN Image(marks'[i], queued'[i]) :
                       mem'[c] = Image(marks'[i], queued'[i])[c]
      <3>1. CASE i \in 1 .. k
        <4>1. /\ i \in 1 .. Len(queued) /\ i \in 1 .. k + 1 /\ i + 1 \in 1 .. k + 1
          BY <1>7, <3>1 DEF k
        <4>2. /\ queued'[i] = queued[i] /\ marks'[i] = marks[i] /\ marks'[i + 1] = marks[i + 1]
          BY <1>8, <3>1, <4>1
        <4> QED
          BY <1>1, <1>2, <4>1, <4>2 DEF HoldsQueued
      <3>2. CASE i = k + 1
        <4>1. /\ queued'[i] = frame /\ marks'[i] = tail /\ marks'[i + 1] = tail'
          BY <1>7, <1>8, <3>2
        <4> QED
          BY <1>1, <1>2, <4>1 DEF n
      <3> QED
        BY <1>7, <3>1, <3>2
    <2>2. /\ Len(marks') = Len(queued') + 1
          /\ marks'[1] = head' /\ marks'[Len(marks')] = tail'
      BY <1>1, <1>7, <1>8
    <2> QED
      BY <1>8, <2>1, <2>2 DEF HoldsQueued
  <1>12. Ordered'
    <2>1. \A x : Pos(x)' = Pos(x)
      BY <1>1 DEF Pos, Around
    <2>2. ASSUME NEW i \in 1 .. k + 2, NEW j \in 1 .. k + 2, i < j
          PROVE  Pos(marks'[i]) < Pos(marks'[j])
      <3>1. i \in 1 .. k + 1 /\ marks'[i] = marks[i] /\ marks[i] \in 0 .. Size - 1
        <4>1. i \in 1 .. k + 1 /\ k \in Nat
          BY <1>7, <2>2
        <4>2. marks[i] \in 0 .. Size - 1
          BY <1>3, <1>7, <4>1
        <4> QED
          BY <1>8, <4>1, <4>2
      <3>2. CASE j \in 1 .. k + 1
        <4>1. marks'[j] = marks[j] /\ i \in 1 .. Len(marks) /\ j \in 1 .. Len(marks)
          BY <1>7, <1>8, <3>1, <3>2
        <4>2. Pos(marks[i]) < Pos(marks[j])
          BY <1>2, <2>2, <4>1 DEF Ordered
        <4> QED
          BY <3>1, <4>1, <4>2
      <3>3. CASE j = k + 2
        <4>1. Pos(marks[i]) <= Pos(tail)
          <5>1. CASE i = k + 1
            BY <1>3, <1>7, <5>1
          <5>2. CASE i # k + 1
            <6>1. i < k + 1 /\ k + 1 \in 1 .. Len(marks) /\ i \in 1 .. Len(marks)
              BY <1>7, <3>1, <5>2
            <6>2. Pos(marks[i]) < Pos(tail)
              BY <1>2, <1>7, <6>1 DEF Ordered
            <6>3. Pos(marks[i]) \in 0 .. Size - 1
              BY <1>2, <3>1, PosInRing
            <6> QED
              BY <1>3, <6>2, <6>3
          <5> QED
            BY <5>1, <5>2
        <4>2. Pos(marks[i]) \in 0 .. Size - 1 /\ Pos(tail') \in 0 .. Size - 1
          BY <1>2, <1>5, <3>1, PosInRing
        <4> QED
          BY <1>3, <1>6, <1>8, <3>1, <3>3, <4>1, <4>2
      <3> QED
        BY <1>7, <3>2, <3>3
    <2>3. ASSUME NEW i \in 1 .. k + 1
          PROVE  /\ EntryLen(Length(queued'[i])) < Size
                 /\ Wraps(marks'[i], Length(queued'[i])) =>
                       Length(queued'[i]) < head' /\ head' <= marks'[i]
      <3>1. CASE i \in 1 .. k
        <4>1. /\ i \in 1 .. Len(queued) /\ i \in 1 .. k + 1
          BY <1>7, <3>1 DEF k
        <4>2. queued'[i] = queued[i] /\ marks'[i] = marks[i]
          BY <1>8, <3>1, <4>1
        <4> QED
          BY <1>1, <1>2, <4>1, <4>2 DEF Ordered
      <3>2. CASE i = k + 1
        <4>1. queued'[i] = frame /\ marks'[i] = tail
          BY <1>7, <1>8, <3>2
        <4> QED
          BY <1>1, <1>2, <1>3, <1>4, <4>1 DEF n
      <3> QED
        BY <1>7, <3>1, <3>2
    <2> QED
      BY <1>8, <2>1, <2>2, <2>3 DEF Ordered
  <1>13. RoomKept' /\ Stored'
    BY <1>1 DEF RoomKept, Stored
  <1>14. Loaded'
    <2>1. queued # <<>> => queued' # <<>> /\ queued'[1] = queued[1]
      BY <1>1, <1>2, <1>7
    <2>2. CASE peerPc \in {"size", "encode"}
      <3>1. queued # <<>> /\ queued' # <<>> /\ queued'[1] = queued[1]
        BY <1>2, <2>1, <2>2 DEF Loaded
      <3>2. /\ peerPc' = peerPc /\ head' = head /\ unloaded' = unloaded /\ loaded' = loaded
        BY <1>1
      <3> QED
        BY <1>2, <3>1, <3>2 DEF Loaded
    <2>3. CASE peerPc \notin {"size", "encode"}
      BY <1>1, <2>3 DEF Loaded
    <2> QED
      BY <2>2, <2>3
  <1> QED
    BY <1>10, <1>11, <1>12, <1>13, <1>14 DEF RingInv

\* Seen from a later offset, one that is no nearer is nearer by as much.
LEMMA Nearer ==
    ASSUME TypeOK, NEW h \in 0 .. Size - 1, NEW x \in 0 .. Size - 1, Pos(h) <= Pos(x)
    PROVE  Around(h, x) = Pos(x) - Pos(h)
  BY RingAssumption DEF TypeOK, Pos, Around

\* buffer_pop_head() leads to where the sender began the next entry.
LEMMA PopHeadRing == RingInv /\ PopHead => RingInv'
  <1> SUFFICES ASSUME RingInv, PopHead PROVE RingInv'
    OBVIOUS
  <1> DEFINE k == Len(queued)
             n == Length(queued[1])
  <1>1. /\ UNCHANGED <<streaming, mem, tail, sendPc, frame, unstored, skewed>>
        /\ peerPc = "encode" /\ peerPc' = "peek" /\ unloaded' = {} /\ loaded' = {}
        /\ head' = After(head, StoredLength(head))
        /\ queued' = Tail(queued) /\ marks' = Tail(marks)
    BY DEF PopHead, Pop, sender
  <1>2. TypeOK /\ HoldsQueued /\ Ordered /\ RoomKept /\ Stored /\ queued # <<>>
    BY <1>1 DEF RingInv, Loaded
  <1>3. /\ head \in 0 .. Size - 1 /\ tail \in 0 .. Size - 1 /\ Size \in Nat \ {0}
        /\ Pos(tail) \in 0 .. Size - 1
        /\ queued \in Seq(Frame) /\ marks \in Seq(0 .. Size - 1)
    BY <1>2, PosInRing, RingAssumption DEF TypeOK
  <1>4. /\ 1 \in 1 .. k /\ k \in Nat /\ Len(marks) = k + 1
        /\ marks[1] = head /\ marks[k + 1] = tail
        /\ queued' \in Seq(Frame) /\ Len(queued') = k - 1
        /\ marks' \in Seq(0 .. Size - 1) /\ Len(marks') = k
        /\ \A i \in 1 .. k - 1 : queued'[i] = queued[i + 1]
        /\ \A i \in 1 .. k : marks'[i] = marks[i + 1]
    BY <1>1, <1>2, <1>3 DEF HoldsQueued
  <1>5. /\ head' = marks[2] /\ head' \in 0 .. Size - 1 /\ head' = After(head, n)
        /\ n \in Lens /\ EntryLen(n) < Size
        /\ Wraps(head, n) => n < head
        /\ 0 < Pos(head') /\ Pos(head') <= Pos(tail)
    <2>1. StoredLength(head) = n
      BY <1>2, HeadLength
    <2>2. /\ n \in Lens /\ marks[2] \in 0 .. Size - 1 /\ Pos(head) < Pos(marks[2])
          /\ Pos(marks[2]) <= Pos(tail) /\ marks[2] = After(head, n)
          /\ EntryLen(n) < Size
          /\ Wraps(head, n) => n < head
      <3> DEFINE first == 1
      <3>1. first \in 1 .. Len(queued)
        BY <1>4
      <3> HIDE DEF first
      <3>2. /\ Length(queued[first]) \in Lens /\ marks[first + 1] \in 0 .. Size - 1
            /\ Pos(marks[first]) < Pos(marks[first + 1])
            /\ Pos(marks[first + 1]) <= Pos(tail)
            /\ marks[first + 1] = After(marks[first], Length(queued[first]))
            /\ EntryLen(Length(queued[first])) < Size
            /\ Wraps(marks[first], Length(queued[first])) => Length(queued[first]) < head
        BY <1>2, <3>1, QueuedEntry
      <3>3. first = 1 /\ first + 1 = 2
        BY DEF first
      <3> QED
        BY <1>4, <3>2, <3>3
    <2>3. Pos(head) = 0
      BY <1>3 DEF Pos, Around
    <2> QED
      BY <1>1, <2>1, <2>2, <2>3
  <1> HIDE DEF n, k
  <1>6. /\ n \in Nat \ {0} /\ EntryLen(n) \in Nat
        /\ Wraps(head, n) <=> head + EntryLen(n) >= Size
        /\ Wraps(head, n) => head' = n
        /\ ~Wraps(head, n) => head' = head + EntryLen(n)
    BY <1>3, <1>5, Passing
  <1>7. ASSUME NEW i \in 1 .. k
        PROVE  /\ i + 1 \in 1 .. k + 1 /\ marks[i + 1] \in 0 .. Size - 1
               /\ marks'[i] = marks[i + 1]
               /\ Pos(head') <= Pos(marks[i + 1]) /\ Pos(marks[i + 1]) \in 0 .. Size - 1
               /\ Around(head', marks'[i]) = Pos(marks[i + 1]) - Pos(head')
    <2>1. i + 1 \in 1 .. k + 1 /\ 2 \in 1 .. k + 1
      BY <1>4
    <2>2. marks[i + 1] \in 0 .. Size - 1
      <3>1. i + 1 \in 1 .. Len(marks)
        BY <1>4, <2>1
      <3> QED
        BY <1>3, <3>1
    <2>3. Pos(marks[i + 1]) \in 0 .. Size - 1 /\ Pos(head') \in 0 .. Size - 1
      BY <1>2, <1>5, <2>2, PosInRing
    <2>4. Pos(head') <= Pos(marks[i + 1])
      <3>1. CASE i = 1
        <4>1. marks[i + 1] = head'
          <5>1. i + 1 = 2
            BY <3>1
          <5> QED
            BY <1>5, <5>1
        <4> QED
          BY <2>3, <4>1
      <3>2. CASE i # 1
        <4>1. 2 < i + 1
          BY <1>4, <3>2
        <4>2. Pos(marks[2]) < Pos(marks[i + 1])
          BY <1>2, <1>4, <2>1, <4>1 DEF Ordered
        <4> QED
          BY <1>5, <2>3, <4>2
      <3> QED
        BY <3>1, <3>2
    <2>5. marks'[i] = marks[i + 1]
      BY <1>4
    <2>6. Around(head', marks[i + 1]) = Pos(marks[i + 1]) - Pos(head')
      BY <1>2, <1>5, <2>2, <2>4, Nearer
    <2> QED
      BY <2>1, <2>2, <2>3, <2>4, <2>5, <2>6
  <1>8. Around(head', tail) = Pos(tail) - Pos(head')
    BY <1>2, <1>3, <1>5, Nearer
  <1>9. TypeOK'
    BY <1>1, <1>2, <1>4, <1>5 DEF TypeOK
  <1>10. HoldsQueued'
    <2>1. ASSUME NEW i \in 1 .. k - 1
          PROVE  /\ marks'[i + 1] = After(marks'[i], Length(queued'[i]))
                 /\ \A c \in DOMAIN Image(marks'[i], queued'[i]) :
                       mem'[c] = Image(marks'[i], queued'[i])[c]
      <3>1. i + 1 \in 1 .. Len(queued) /\ i \in 1 .. k /\ i + 1 \in 1 .. k
        BY <1>4 DEF k
      <3>2. /\ queued'[i] = queued[i + 1] /\ marks'[i] = marks[i + 1]
            /\ marks'[i + 1] = marks[(i + 1) + 1]
        BY <1>4, <3>1
      <3> QED
        BY <1>1, <1>2, <3>1, <3>2 DEF HoldsQueued
    <2>2. /\ Len(marks') = Len(queued') + 1
          /\ marks'[1] = head' /\ marks'[Len(marks')] = tail'
      <3>1. 1 \in 1 .. k /\ k \in 1 .. k /\ 1 + 1 = 2
        BY <1>4
      <3>2. marks'[1] = head'
        BY <1>5, <1>7, <3>1
      <3>3. marks'[k] = tail'
        BY <1>1, <1>4, <3>1
      <3>4. Len(marks') = k /\ Len(queued') + 1 = k
        BY <1>4
      <3> QED
        BY <3>2, <3>3, <3>4
    <2> QED
      BY <1>4, <2>1, <2>2 DEF HoldsQueued
  <1>11. Ordered'
    <2>1. ASSUME NEW i \in 1 .. k, NEW j \in 1 .. k, i < j
          PROVE  Around(head', marks'[i]) < Around(head', marks'[j])
      <3>1. Pos(marks[i + 1]) < Pos(marks[j + 1])
        BY <1>2, <1>4, <1>7, <2>1 DEF Ordered
      <3>2. Pos(head') \in 0 .. Size - 1
        BY <1>2, <1>5, PosInRing
      <3> QED
        BY <1>3, <1>7, <3>1, <3>2
    <2>2. ASSUME NEW i \in 1 .. k - 1
          PROVE  /\ EntryLen(Length(queued'[i])) < Size
                 /\ Wraps(marks'[i], Length(queued'[i])) =>
                       Length(queued'[i]) < head' /\ head' <= marks'[i]
      <3>1. i + 1 \in 1 .. Len(queued) /\ i \in 1 .. k
        BY <1>4 DEF k
      <3>2. queued'[i] = queued[i + 1] /\ marks'[i] = marks[i + 1]
        BY <1>4, <3>1
      <3> DEFINE m == Length(queued[i + 1])
                 a == marks[i + 1]
      <3>3. /\ EntryLen(m) < Size
            /\ Wraps(a, m) => m < head /\ head <= a
        BY <1>2, <3>1 DEF Ordered
      <3>4. m \in Nat /\ a \in 0 .. Size - 1 /\ Pos(head') <= Pos(a)
        BY <1>2, <1>7, <3>1, QueuedEntry, RingAssumption
      <3> HIDE DEF m, a
      <3>5. ASSUME Wraps(a, m)
            PROVE  m < head' /\ head' <= a
        <4>1. m < head /\ head <= a
          BY <3>3, <3>5
        <4>2. head <= head'
          BY <1>3, <1>5, <3>4, <4>1 DEF Pos, Around
        <4> QED
          BY <1>3, <1>5, <3>4, <4>1, <4>2 DEF Pos, Around
      <3> QED
        BY <3>2, <3>3, <3>5 DEF m, a
    <2> QED
      BY <1>4, <2>1, <2>2 DEF Ordered, Pos, Around
  <1>12. RoomKept'
    <2>1. CASE sendPc \in {"wrap", "store"}
      <3> DEFINE e == EntryLen(Length(frame))
      <3>1. /\ frame \in Frame /\ e + Pos(tail) < Size
            /\ sendPc = "store" /\ Wraps(tail, Length(frame)) => e <= head /\ head <= tail
        BY <1>2, <2>1 DEF RoomKept
      <3>2. e \in Nat
        BY <3>1, FrameParts, EntryHoldsFrame, RingAssumption
      <3> HIDE DEF e
      <3>3. e + Around(head', tail) < Size
        <4>1. Pos(head') \in 0 .. Size - 1
          BY <1>2, <1>5, PosInRing
        <4> QED
          BY <1>3, <1>8, <3>1, <3>2, <4>1
      <3>4. head <= tail => head <= head' /\ head' <= tail
        BY <1>3, <1>5 DEF Pos, Around
      <3>5. sendPc = "store" /\ Wraps(tail, Length(frame)) => e <= head' /\ head' <= tail
        BY <1>3, <1>5, <3>1, <3>2, <3>4
      <3> QED
        BY <1>1, <3>1, <3>3, <3>5 DEF RoomKept, Pos, Around, e
    <2>2. CASE sendPc \notin {"wrap", "store"}
      BY <1>1, <1>2, <2>2 DEF RoomKept
    <2> QED
      BY <2>1, <2>2
  <1>13. Stored' /\ Loaded'
    BY <1>1, <1>2 DEF Stored, Loaded
  <1> QED
    BY <1>9, <1>10, <1>11, <1>12, <1>13 DEF RingInv

-----------------------------------------------------------------------------
(* The theorems                                                            *)

\* RingInv is an invariant: for every size of the ring and of the prefix, every set of frame
\* lengths, and every order of the stores and loads between two barriers.
THEOREM RingInvariant == Spec => []RingInv
  <1>1. RingInv /\ [Next]_vars => RingInv'
    <2> SUFFICES ASSUME RingInv, [Next]_vars PROVE RingInv'
      OBVIOUS
    <2>1. CASE Send
      BY <2>1, SendGateRing, PushRoomRing, PushWrapRing, PushStoreRing, PushPublishRing DEF Send
    <2>2. CASE Drain
      BY <2>2, PeerPassRing, PeekRing, PeekSizeRing, LoadRing, PopHeadRing DEF Drain
    <2>3. CASE UNCHANGED vars
      <3>1. UNCHANGED <<streaming, mem, head, tail, sendPc, frame, unstored, peerPc, unloaded,
                        loaded, queued, marks, skewed>>
        BY <2>3 DEF vars, ring, sender, peer, history
      <3>2. TypeOK'
        BY <3>1 DEF RingInv, TypeOK
      <3> QED
        BY <3>1, <3>2, RingStays, SenderStays, PeerStays DEF RingInv
    <2> QED
      BY <2>1, <2>2, <2>3, IceStateChangeRing DEF Next
  <1> QED
    BY <1>1, InitRing, PTL DEF Spec

\* From head to tail the ring holds the queued frames, each whole, and no store of the sender
\* touches one of them.
THEOREM RingHoldsQueued == Spec => []HoldsQueued
  BY RingInvariant, PTL DEF RingInv

\* Whatever the sizes, an empty ring refuses no frame whose entry is up to half of it.
THEOREM RingTakesHalf == Spec => []EmptyTakesHalf
  <1>1. RingInv => EmptyTakesHalf
    BY EmptyRingTakesHalf DEF RingInv
  <1> QED
    BY <1>1, RingInvariant, PTL

-----------------------------------------------------------------------------
(* The ring is a queue                                                     *)

\* A payload tells its frame.
LEMMA PayloadTells ==
    ASSUME NEW f \in Frame, NEW g \in Frame, Payload(f) = Payload(g)
    PROVE  f = g
  <1>1. /\ Length(f) \in Nat \ {0} /\ Length(g) \in Nat \ {0}
        /\ f = <<FrameId(f), Length(f)>> /\ g = <<FrameId(g), Length(g)>>
    BY FrameParts, RingAssumption
  <1>2. ASSUME NEW a \in Frame, NEW b \in Frame, Payload(a) = Payload(b),
               Length(a) \in Nat \ {0}, Length(b) \in Nat \ {0}
        PROVE  FrameId(a) = FrameId(b) /\ Length(a) <= Length(b)
    <2> DEFINE last == Length(a) - 1
    <2>1. last \in 0 .. Length(a) - 1
      BY <1>2
    <2> HIDE DEF last
    <2>2. <<last, <<"payload", FrameId(a), last>>>> \in Payload(b)
      BY <1>2, <2>1 DEF Payload
    <2>3. PICK k \in 0 .. Length(b) - 1 :
             <<last, <<"payload", FrameId(a), last>>>> = <<k, <<"payload", FrameId(b), k>>>>
      BY <2>2 DEF Payload
    <2>4. last = k /\ FrameId(a) = FrameId(b)
      BY <2>3
    <2>5. last = Length(a) - 1
      BY DEF last
    <2> QED
      BY <1>2, <2>3, <2>4, <2>5
  <1>3. FrameId(f) = FrameId(g) /\ Length(f) <= Length(g) /\ Length(g) <= Length(f)
    BY <1>1, <1>2
  <1> QED
    BY <1>1, <1>3

\* When every byte is loaded, the frame at the head has been encoded.
LEMMA HeadEncoded ==
    ASSUME RingInv, peerPc = "encode", unloaded = {}
    PROVE  queued # <<>> /\ Encoded = Head(queued)
  <1> DEFINE f == queued[1]
             at == PayloadAt(head, Length(f))
  <1>1. queued # <<>> /\ Head(queued) = f
    BY DEF RingInv, Loaded, TypeOK
  <1>2. loaded = {LoadOf(at, f, c) : c \in PayloadCells(head, Length(f))}
    BY DEF RingInv, Loaded
  <1>3. f \in Frame /\ head \in 0 .. Size - 1
    BY <1>1, HeadLength DEF RingInv, TypeOK
  <1> HIDE DEF f
  <1>4. Length(f) \in Nat /\ at \in Int
    <2>1. Length(f) \in Lens /\ Length(f) \in Nat
      BY <1>3, FrameParts, RingAssumption
    <2>2. head \in Int /\ Word \in Int
      BY <1>3, RingAssumption
    <2> QED
      BY <2>1, <2>2 DEF PayloadAt
  <1>5. PayloadCells(head, Length(f)) = at .. at + Length(f) - 1
    BY DEF PayloadCells
  <1> HIDE DEF at
  <1>6. loaded = Payload(f)
    <2>1. ASSUME NEW e \in loaded PROVE e \in Payload(f)
      <3>1. PICK c \in at .. at + Length(f) - 1 : e = LoadOf(at, f, c)
        BY <1>2, <1>5
      <3>2. c - at \in 0 .. Length(f) - 1
        BY <1>4, <3>1
      <3> QED
        BY <3>1, <3>2 DEF LoadOf, Payload
    <2>2. ASSUME NEW e \in Payload(f) PROVE e \in loaded
      <3>1. PICK k \in 0 .. Length(f) - 1 : e = <<k, <<"payload", FrameId(f), k>>>>
        BY DEF Payload
      <3>2. at + k \in at .. at + Length(f) - 1 /\ (at + k) - at = k
        BY <1>4, <3>1
      <3>3. e = LoadOf(at, f, at + k)
        BY <3>1, <3>2 DEF LoadOf
      <3> QED
        BY <1>2, <1>5, <3>2, <3>3
    <2> QED
      BY <2>1, <2>2
  <1>7. \A g \in Frame : loaded = Payload(g) => g = f
    BY <1>3, <1>6, PayloadTells
  <1>8. Encoded = f
    BY <1>3, <1>6, <1>7 DEF Encoded
  <1> QED
    BY <1>1, <1>8

\* The ring without a lock implements FrameQueue: tail's store is the put, head's the take, and
\* no other step of either side shows.
THEOREM RingIsQueue == Spec => InOrderOnce
  <1>1. Init => Queue!Init
    BY DEF Init, Queue!Init
  <1>2. RingInv /\ [Next]_vars => [Queue!Next]_Queue!vars
    <2> SUFFICES ASSUME RingInv, [Next]_vars PROVE [Queue!Next]_Queue!vars
      OBVIOUS
    <2>1. CASE PushPublish
      <3>1. frame \in Frame
        BY <2>1 DEF RingInv, RoomKept, PushPublish
      <3>2. queued' = Append(queued, frame) /\ out' = out
        BY <2>1 DEF PushPublish, Publish
      <3> QED
        BY <3>1, <3>2 DEF Queue!Next, Queue!Put
    <2>2. CASE PopHead
      <3>1. queued # <<>> /\ Encoded = Head(queued)
        BY <2>2, HeadEncoded DEF PopHead
      <3>2. queued' = Tail(queued) /\ out' = Encoded
        BY <2>2 DEF PopHead, Pop
      <3> QED
        BY <3>1, <3>2 DEF Queue!Next, Queue!Take
    <2>3. CASE \/ IceStateChange \/ SendGate \/ PushRoom \/ PushWrap \/ PushStore
               \/ PeerPass \/ Peek \/ PeekSize \/ Load \/ UNCHANGED vars
      <3>1. UNCHANGED <<queued, out>>
        BY <2>3 DEF IceStateChange, SendGate, PushRoom, PushWrap, PushStore, PeerPass, Peek,
           PeekSize, Load, vars, history
      <3> QED
        BY <3>1 DEF Queue!vars
    <2> QED
      BY <2>1, <2>2, <2>3 DEF Next, Send, Drain
  <1> QED
    BY <1>1, <1>2, RingInvariant, PTL DEF Spec, InOrderOnce, Queue!Spec

-----------------------------------------------------------------------------
(* The block                                                               *)

\* A multiple of the word.
Aligned(x) == \E k \in Nat : x = k * Word

\* Until a frame that is none has wrapped, every entry begins at one.
AlignedMarks ==
    Align(Size) = Size /\ ~skewed => \A i \in 1 .. Len(marks) : Aligned(marks[i])

\* Multiples of the word add up to one.
LEMMA AlignedSum ==
    ASSUME NEW a, NEW b, Aligned(a), Aligned(b)
    PROVE  Aligned(a + b)
  <1>1. Word \in Nat
    BY RingAssumption
  <1>2. PICK k \in Nat : a = k * Word
    BY DEF Aligned
  <1>3. PICK m \in Nat : b = m * Word
    BY DEF Aligned
  <1>4. a + b = (k + m) * Word /\ k + m \in Nat
    BY <1>1, <1>2, <1>3, Z3
  <1> QED
    BY <1>4 DEF Aligned

\* Behind a multiple below an aligned size a whole word has room.
LEMMA AlignedRoom ==
    ASSUME NEW a \in Nat, NEW s \in Nat, Aligned(a), Aligned(s), a < s
    PROVE  a + Word <= s
  <1>1. Word \in Nat \ {0}
    BY RingAssumption
  <1>2. PICK k \in Nat : a = k * Word
    BY DEF Aligned
  <1>3. PICK m \in Nat : s = m * Word
    BY DEF Aligned
  <1>4. k < m
    BY <1>1, <1>2, <1>3, Z3
  <1>5. (k + 1) * Word <= m * Word
    BY <1>1, <1>4, Z3
  <1>6. (k + 1) * Word = k * Word + Word
    BY <1>1, Z3
  <1> QED
    BY <1>1, <1>2, <1>3, <1>5, <1>6

\* ALIGN32 gives a multiple.
LEMMA AlignAligns ==
    ASSUME NEW n \in Nat
    PROVE  Aligned(Align(n))
  <1>1. Word \in Nat \ {0} /\ n + Word - 1 \in Nat
    BY RingAssumption
  <1>2. (n + Word - 1) \div Word \in Nat
    BY <1>1, Z3
  <1> QED
    BY <1>2 DEF Aligned, Align

\* The entry behind an aligned one begins at a multiple unless an odd frame wraps.
LEMMA AfterAligned ==
    ASSUME NEW at \in 0 .. Size - 1, NEW n \in Lens, EntryLen(n) < Size, Aligned(at),
           Wraps(at, n) => Align(n) = n
    PROVE  Aligned(After(at, n))
  <1>1. n \in Nat /\ n + Word \in Nat
    BY RingAssumption
  <1>2. Wraps(at, n) => After(at, n) = n
    BY Passing
  <1>3. ~Wraps(at, n) => After(at, n) = at + EntryLen(n)
    BY Passing
  <1>4. Aligned(EntryLen(n))
    BY <1>1, AlignAligns DEF EntryLen
  <1>5. Aligned(at + EntryLen(n))
    BY <1>4, AlignedSum
  <1>6. Aligned(Align(n))
    BY <1>1, AlignAligns
  <1> QED
    BY <1>2, <1>3, <1>5, <1>6

\* The store of tail keeps it.
LEMMA PushPublishAligned == RingInv /\ AlignedMarks /\ PushPublish => AlignedMarks'
  <1> SUFFICES ASSUME RingInv, AlignedMarks, PushPublish, Align(Size) = Size, ~skewed',
                      NEW i \in 1 .. Len(marks')
               PROVE  Aligned(marks'[i])
    BY DEF AlignedMarks
  <1>1. marks' = Append(marks, tail') /\ tail' = After(tail, Length(frame)) /\ sendPc = "store"
    BY DEF PushPublish, Publish
  <1>2. ~skewed /\ ~(Wraps(tail, Length(frame)) /\ Align(Length(frame)) # Length(frame))
    BY Zenon DEF PushPublish, Publish
  <1>3. /\ marks \in Seq(0 .. Size - 1) /\ tail \in 0 .. Size - 1
        /\ Len(marks) = Len(queued) + 1 /\ marks[Len(marks)] = tail /\ Len(queued) \in Nat
    BY DEF RingInv, TypeOK, HoldsQueued
  <1>4. /\ frame \in Frame /\ EntryLen(Length(frame)) + Pos(tail) < Size
    BY <1>1 DEF RingInv, RoomKept
  <1>5. Length(frame) \in Lens /\ EntryLen(Length(frame)) < Size
    <2>1. Length(frame) \in Lens /\ Length(frame) \in Nat
      BY <1>4, FrameParts, RingAssumption
    <2>2. EntryLen(Length(frame)) \in Nat
      BY <2>1, EntryHoldsFrame
    <2>3. Pos(tail) \in 0 .. Size - 1 /\ Size \in Nat
      BY <1>3, PosInRing, RingAssumption DEF RingInv
    <2> QED
      BY <1>4, <2>1, <2>2, <2>3
  <1>6. \A j \in 1 .. Len(marks) : Aligned(marks[j])
    BY <1>2 DEF AlignedMarks
  <1>7. Aligned(tail)
    BY <1>3, <1>6
  <1>8. Aligned(tail')
    BY <1>1, <1>2, <1>3, <1>5, <1>7, AfterAligned
  <1> QED
    <2>1. CASE i \in 1 .. Len(marks)
      BY <1>1, <1>3, <1>6, <2>1
    <2>2. CASE i = Len(marks) + 1
      BY <1>1, <1>3, <1>8, <2>2
    <2> QED
      BY <1>1, <1>3, <2>1, <2>2

\* A frame of any length leaves the ring without disturbing it.
LEMMA PopHeadAligned == RingInv /\ AlignedMarks /\ PopHead => AlignedMarks'
  <1> SUFFICES ASSUME RingInv, AlignedMarks, PopHead, Align(Size) = Size, ~skewed',
                      NEW i \in 1 .. Len(marks')
               PROVE  Aligned(marks'[i])
    BY DEF AlignedMarks
  <1>1. marks' = Tail(marks) /\ UNCHANGED skewed
    BY DEF PopHead, Pop
  <1>2. marks \in Seq(0 .. Size - 1) /\ Len(marks) = Len(queued) + 1 /\ Len(queued) \in Nat
    BY DEF RingInv, TypeOK, HoldsQueued
  <1>3. i + 1 \in 1 .. Len(marks) /\ marks'[i] = marks[i + 1]
    BY <1>1, <1>2
  <1>4. ~skewed
    BY <1>1, Zenon
  <1> QED
    BY <1>3, <1>4 DEF AlignedMarks

\* Where every entry begins at a multiple, every access is in the block.
LEMMA AlignedInBlock == RingInv /\ AlignedMarks => InBlockUntilSkewed
  <1> SUFFICES ASSUME RingInv, AlignedMarks, Align(Size) = Size, ~skewed
               PROVE  AccessInBlock
    BY DEF InBlockUntilSkewed
  <1>1. /\ Size \in Nat \ {0} /\ Word \in Nat \ {0}
        /\ head \in 0 .. Size - 1 /\ tail \in 0 .. Size - 1
        /\ Len(marks) = Len(queued) + 1 /\ Len(queued) \in Nat
        /\ marks[1] = head /\ marks[Len(marks)] = tail
        /\ unloaded \subseteq Block
    BY RingAssumption DEF RingInv, TypeOK, HoldsQueued, Block
  <1>2. Aligned(head) /\ Aligned(tail)
    <2>1. 1 \in 1 .. Len(marks) /\ Len(marks) \in 1 .. Len(marks)
      BY <1>1
    <2> QED
      BY <1>1, <2>1 DEF AlignedMarks
  <1>3. Aligned(Size)
    BY <1>1, AlignAligns
  <1>4. PrefixCells(head) \subseteq Block /\ PrefixCells(tail) \subseteq Block
    <2>1. head + Word <= Size /\ tail + Word <= Size
      BY <1>1, <1>2, <1>3, AlignedRoom
    <2> QED
      BY <1>1, <2>1 DEF PrefixCells, Block
  <1>5. ASSUME sendPc = "store"
        PROVE  DOMAIN Image(tail, frame) \subseteq Block
    <2>1. /\ frame \in Frame /\ EntryLen(Length(frame)) + Pos(tail) < Size
          /\ Wraps(tail, Length(frame)) => EntryLen(Length(frame)) <= head /\ head <= tail
      BY <1>5 DEF RingInv, RoomKept
    <2>2. Length(frame) \in Nat /\ Pos(tail) \in 0 .. Size - 1
      BY <1>1, <2>1, FrameParts, PosInRing, RingAssumption DEF RingInv
    <2>3. EntryLen(Length(frame)) \in Nat /\ Length(frame) + Word <= EntryLen(Length(frame))
      BY <2>2, EntryHoldsFrame
    <2>4. /\ EntryLen(Length(frame)) < Size
          /\ Wraps(tail, Length(frame)) => Length(frame) <= tail
      BY <1>1, <2>1, <2>2, <2>3
    <2>5. PayloadCells(tail, Length(frame)) \subseteq 0 .. Size - 1
      BY <1>1, <2>1, <2>4, ImageParts
    <2> QED
      BY <1>4, <2>5, ImageCells DEF Block
  <1> QED
    BY <1>1, <1>4, <1>5 DEF AccessInBlock

\* Until a frame whose length is no multiple of the word has wrapped, neither side stores or
\* loads outside of the block buffer_new() allocates.
THEOREM RingInBlock == Spec => []InBlockUntilSkewed
  <1>1. Init => AlignedMarks
    <2> SUFFICES ASSUME Init, NEW i \in 1 .. Len(marks) PROVE Aligned(marks[i])
      BY DEF AlignedMarks
    <2>1. marks[i] = 0 * Word
      BY RingAssumption DEF Init
    <2> QED
      BY <2>1 DEF Aligned
  <1>2. RingInv /\ AlignedMarks /\ [Next]_vars => AlignedMarks'
    <2> SUFFICES ASSUME RingInv, AlignedMarks, [Next]_vars PROVE AlignedMarks'
      OBVIOUS
    <2>1. CASE \/ IceStateChange \/ SendGate \/ PushRoom \/ PushWrap \/ PushStore
               \/ PeerPass \/ Peek \/ PeekSize \/ Load \/ UNCHANGED vars
      <3>1. UNCHANGED <<marks, skewed>>
        BY <2>1 DEF IceStateChange, SendGate, PushRoom, PushWrap, PushStore, PeerPass, Peek,
           PeekSize, Load, vars, history
      <3> QED
        BY <3>1 DEF AlignedMarks
    <2> QED
      BY <2>1, PushPublishAligned, PopHeadAligned DEF Next, Send, Drain
  <1> QED
    BY <1>1, <1>2, RingInvariant, AlignedInBlock, PTL DEF Spec
=============================================================================
