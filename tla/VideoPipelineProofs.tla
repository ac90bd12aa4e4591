------------------------ MODULE VideoPipelineProofs -------------------------
(***************************************************************************)
(* No camera buffer is lost or in two places, and the encoder is ready and *)
(* points at no foreign frame, for any number of buffers, any set of       *)
(* ioctls that fail, and every time they do; and the rate bounds of        *)
(* on_frame_grid(), which the capture task asks about every frame, for any *)
(* interval, any longest gap between frames and any uptime.                *)
(***************************************************************************)
EXTENDS VideoPipeline, FrameGrid, ListLemmas, FiniteSetTheorems, TLAPS

\* The bitstream buffer that the encode task has dequeued and not yet released.
OutHeld ==
    IF encPc \in {"reclaim", "reject", "send"} \/ (encPc = "giveback" /\ encoded)
    THEN 1 ELSE 0

\* Every bitstream buffer is in the encoder, with the task or lost to a failed QBUF.
OutputsConserved == out_queued + out_leaked + OutHeld = OutBufNum

\* Between its QBUF and its DQBUF the input slot points at the frame of this call.
SlotInCall ==
    in_slot # NULL => stuck \/ (encPc \in {"dqbuf", "unqueue", "reclaim"} /\ in_slot = encBuf)

PipelineInv ==
    TypeOK /\ NoSharedBuffer /\ BuffersConserved /\ OutputsConserved /\ SlotInCall

-----------------------------------------------------------------------------
(* Places and counts                                                       *)

\* NULL is no buffer.
LEMMA NullIsNoBuffer == NULL \notin Buf
  BY DEF NULL, Buf

\* The buffers are finitely many, and so are the leaked ones.
LEMMA LeakedCount ==
    ASSUME NEW S \in SUBSET Buf, NEW b \in Buf
    PROVE  /\ Cardinality(S) \in Nat
           /\ b \notin S => Cardinality(S \cup {b}) = Cardinality(S) + 1
  <1>1. IsFiniteSet(Buf)
    BY FS_Interval, BufAssumption DEF Buf
  <1>2. IsFiniteSet(S)
    BY <1>1, FS_Subset
  <1> QED
    BY <1>2, FS_CardinalityType, FS_AddElement

\* The numbers BuffersConserved adds up.
LEMMA Counts ==
    ASSUME TypeOK
    PROVE  /\ Len(drv_queue) \in Nat /\ Len(drv_done) \in Nat /\ Len(cap_queue) \in Nat
           /\ One(capBuf) \in 0 .. 1 /\ One(encBuf) \in 0 .. 1
           /\ Cardinality(leaked) \in Nat
           /\ AppHolds \in Nat
  <1>1. 0 \in Buf
    BY BufAssumption DEF Buf
  <1>2. Cardinality(leaked) \in Nat
    BY <1>1, LeakedCount DEF TypeOK
  <1>3. Len(drv_queue) \in Nat /\ Len(drv_done) \in Nat /\ Len(cap_queue) \in Nat
    BY DEF TypeOK
  <1>4. One(capBuf) \in 0 .. 1 /\ One(encBuf) \in 0 .. 1
    BY DEF One
  <1> QED
    BY <1>2, <1>3, <1>4 DEF AppHolds

\* A list's head leaves it, for a list of different buffers.
LEMMA Taken ==
    ASSUME NEW list \in Seq(Buf), IsInjective(list), list # <<>>
    PROVE  /\ Head(list) \in Buf /\ Head(list) # NULL /\ Tail(list) \in Seq(Buf)
           /\ Len(Tail(list)) = Len(list) - 1 /\ Len(list) \in Nat
           /\ \A b : b \in Range(Tail(list)) <=> b \in Range(list) /\ b # Head(list)
           /\ Head(list) \in Range(list) /\ IsInjective(Tail(list))
  BY HeadRemoved, NullIsNoBuffer

\* A buffer that is not on a list joins it.
LEMMA Joined ==
    ASSUME NEW list \in Seq(Buf), IsInjective(list), NEW b \in Buf, b \notin Range(list)
    PROVE  /\ Append(list, b) \in Seq(Buf) /\ IsInjective(Append(list, b))
           /\ Len(Append(list, b)) = Len(list) + 1 /\ Len(list) \in Nat
           /\ \A x : x \in Range(Append(list, b)) <=> x \in Range(list) \/ x = b
  BY TailInserted

\* NoSharedBuffer, buffer by buffer.
Alone ==
    /\ IsInjective(drv_queue) /\ IsInjective(drv_done) /\ IsInjective(cap_queue)
    /\ \A b \in Buf :
          /\ b = dma => b \notin Range(drv_queue) /\ b \notin Range(drv_done)
          /\ b = dma \/ b \in Range(drv_queue) \/ b \in Range(drv_done) =>
                b \notin Range(cap_queue) /\ b # capBuf /\ b # encBuf /\ b \notin leaked
          /\ ~(b \in Range(drv_queue) /\ b \in Range(drv_done))
          /\ b \in Range(cap_queue) => b # capBuf /\ b # encBuf /\ b \notin leaked
          /\ b = capBuf => b # encBuf /\ b \notin leaked
          /\ b = encBuf => b \notin leaked

LEMMA SharedIsAlone == TypeOK => (NoSharedBuffer <=> Alone)
  <1> SUFFICES ASSUME TypeOK PROVE NoSharedBuffer <=> Alone
    OBVIOUS
  <1>1. /\ Range(drv_queue) \subseteq Buf /\ Range(drv_done) \subseteq Buf
        /\ Range(cap_queue) \subseteq Buf /\ leaked \subseteq Buf
        /\ dma \in Buf /\ capBuf \in Buf \cup {NULL} /\ encBuf \in Buf \cup {NULL}
    BY Elements DEF TypeOK
  <1>2. NoSharedBuffer => Alone
    BY <1>1, NullIsNoBuffer DEF NoSharedBuffer, InDriver, InApp, Alone
  <1>3. Alone => NoSharedBuffer
    BY <1>1, NullIsNoBuffer DEF NoSharedBuffer, InDriver, InApp, Alone
  <1> QED
    BY <1>2, <1>3

\* The same in the state after a step.
LEMMA SharedIsAloneNext == TypeOK' => (NoSharedBuffer' <=> Alone')
  BY SharedIsAlone, PTL

-----------------------------------------------------------------------------
(* The steps                                                               *)

\* At STREAMON the driver has every buffer, once.
LEMMA InitPipeline == Init => PipelineInv
  <1> SUFFICES ASSUME Init PROVE PipelineInv
    OBVIOUS
  <1>1. /\ drv_queue \in Seq(Buf) /\ Len(drv_queue) = BufNum - 1
        /\ \A i \in 1 .. BufNum - 1 : drv_queue[i] = i
    BY BufAssumption DEF Init, Buf
  <1>2. IsInjective(drv_queue) /\ 0 \notin Range(drv_queue)
    BY <1>1, BufAssumption, Elements
  <1>3. /\ Range(drv_done) = {} /\ Range(cap_queue) = {} /\ leaked = {}
        /\ IsInjective(drv_done) /\ IsInjective(cap_queue)
        /\ Len(drv_done) = 0 /\ Len(cap_queue) = 0
    BY NoElements DEF Init
  <1>4. TypeOK
    <2>1. dma \in Buf /\ drv_done \in Seq(Buf) /\ cap_queue \in Seq(Buf)
      BY BufAssumption DEF Init, Buf
    <2>2. out_queued \in 0 .. OutBufNum /\ out_leaked \in 0 .. OutBufNum
      BY OutBufAssumption DEF Init
    <2>3. encoded \in BOOLEAN /\ stuck \in BOOLEAN
      BY DEF Init
    <2> QED
      BY <1>1, <1>3, <2>1, <2>2, <2>3 DEF Init, TypeOK, Holding
  <1>5. Alone
    BY <1>2, <1>3, NullIsNoBuffer DEF Init, Alone
  <1>6. BuffersConserved
    BY <1>1, <1>3, BufAssumption, FS_EmptySet DEF Init, BuffersConserved, AppHolds, One
  <1>7. OutputsConserved /\ SlotInCall
    BY OutBufAssumption DEF Init, OutputsConserved, OutHeld, SlotInCall
  <1> QED
    BY <1>4, <1>5, <1>6, <1>7, SharedIsAlone DEF PipelineInv

\* A step that moves no camera buffer.
LEMMA BuffersStay ==
    ASSUME PipelineInv,
           UNCHANGED <<dma, drv_queue, drv_done, capBuf, cap_queue, encBuf, leaked>>
    PROVE  NoSharedBuffer' /\ BuffersConserved'
  BY DEF PipelineInv, NoSharedBuffer, InDriver, InApp, BuffersConserved, AppHolds

\* The driver and the capture task do not touch the encoder or the encode task's call.
LEMMA CallStays ==
    ASSUME PipelineInv, UNCHANGED <<encode, encoder>>
    PROVE  OutputsConserved' /\ SlotInCall'
  BY DEF PipelineInv, OutputsConserved, OutHeld, SlotInCall, encode, encoder

\* A frame is complete: the driver fills the next buffer.
LEMMA FrameDonePipeline == PipelineInv /\ FrameDone => PipelineInv'
  <1> SUFFICES ASSUME PipelineInv, FrameDone PROVE PipelineInv'
    OBVIOUS
  <1>1. TypeOK /\ Alone /\ BuffersConserved
    BY SharedIsAlone DEF PipelineInv
  <1>2. drv_queue \in Seq(Buf) /\ drv_done \in Seq(Buf) /\ dma \in Buf
    BY <1>1 DEF TypeOK
  <1>3. /\ drv_queue # <<>> /\ dma' = Head(drv_queue) /\ drv_queue' = Tail(drv_queue)
        /\ drv_done' = Append(drv_done, dma)
        /\ UNCHANGED <<capPc, capBuf, cap_queue, encPc, encBuf, encoded, in_slot, out_queued,
                       out_leaked, stuck, leaked>>
    BY DEF FrameDone, capture, encode, encoder
  <1>4. /\ IsInjective(drv_queue) /\ IsInjective(drv_done) /\ dma \notin Range(drv_done)
    BY <1>1, <1>2 DEF Alone
  <1>5. /\ dma' \in Buf /\ drv_queue' \in Seq(Buf) /\ Len(drv_queue') = Len(drv_queue) - 1
        /\ \A b : b \in Range(drv_queue') <=> b \in Range(drv_queue) /\ b # dma'
        /\ dma' \in Range(drv_queue) /\ IsInjective(drv_queue')
    BY <1>2, <1>3, <1>4, Taken
  <1>6. /\ drv_done' \in Seq(Buf) /\ Len(drv_done') = Len(drv_done) + 1
        /\ \A b : b \in Range(drv_done') <=> b \in Range(drv_done) \/ b = dma
        /\ IsInjective(drv_done')
    BY <1>2, <1>3, <1>4, Joined
  <1>7. TypeOK'
    BY <1>1, <1>3, <1>5, <1>6 DEF TypeOK
  <1>8. Alone'
    BY <1>1, <1>2, <1>3, <1>5, <1>6 DEF Alone
  <1>9. BuffersConserved'
    <2>1. AppHolds' = AppHolds
      BY <1>3 DEF AppHolds
    <2> QED
      BY <1>1, <1>3, <1>5, <1>6, <2>1, Counts DEF BuffersConserved
  <1>10. OutputsConserved' /\ SlotInCall'
    BY <1>3, CallStays DEF encode, encoder
  <1> QED
    BY <1>7, <1>8, <1>9, <1>10, SharedIsAloneNext DEF PipelineInv

\* hal_vcap_release() of a buffer nobody else has: it is queued, or lost by the QBUF.
LEMMA Requeued ==
    ASSUME TypeOK, Alone, NEW b \in Buf, Requeue(b),
           b \notin Range(drv_queue), b \notin leaked
    PROVE  /\ drv_queue' \in Seq(Buf) /\ leaked' \subseteq Buf
           /\ IsInjective(drv_queue')
           /\ \A x \in Buf :
                 /\ x \in Range(drv_queue) => x \in Range(drv_queue')
                 /\ x \in leaked => x \in leaked'
                 /\ x \in Range(drv_queue') => x \in Range(drv_queue) \/ x = b
                 /\ x \in leaked' => x \in leaked \/ x = b
                 /\ x = b => ~(x \in Range(drv_queue') /\ x \in leaked')
           /\ Len(drv_queue') \in Nat /\ Cardinality(leaked') \in Nat
           /\ Len(drv_queue') + Cardinality(leaked') = Len(drv_queue) + Cardinality(leaked) + 1
  <1>1. /\ drv_queue \in Seq(Buf) /\ IsInjective(drv_queue) /\ leaked \in SUBSET Buf
        /\ Len(drv_queue) \in Nat /\ Cardinality(leaked) \in Nat
    BY Counts DEF TypeOK, Alone
  <1>2. CASE drv_queue' = Append(drv_queue, b) /\ leaked' = leaked
    <2>1. /\ drv_queue' \in Seq(Buf) /\ IsInjective(drv_queue')
          /\ Len(drv_queue') = Len(drv_queue) + 1
          /\ \A x : x \in Range(drv_queue') <=> x \in Range(drv_queue) \/ x = b
      BY <1>1, <1>2, Joined
    <2> QED
      BY <1>1, <1>2, <2>1
  <1>3. CASE leaked' = leaked \cup {b} /\ drv_queue' = drv_queue
    <2>1. Cardinality(leaked') = Cardinality(leaked) + 1
      BY <1>1, <1>3, LeakedCount
    <2> QED
      BY <1>1, <1>3, <2>1
  <1> QED
    BY <1>2, <1>3 DEF Requeue

-----------------------------------------------------------------------------
(* The capture task                                                        *)

\* The task takes the oldest frame from the driver.
LEMMA CapAcquirePipeline == PipelineInv /\ CapAcquire => PipelineInv'
  <1> SUFFICES ASSUME PipelineInv, CapAcquire PROVE PipelineInv'
    OBVIOUS
  <1>1. TypeOK /\ Alone /\ BuffersConserved
    BY SharedIsAlone DEF PipelineInv
  <1>2. /\ capPc = "acquire" /\ capPc' = "pace" /\ drv_done # <<>>
        /\ capBuf' = Head(drv_done) /\ drv_done' = Tail(drv_done)
        /\ UNCHANGED <<dma, drv_queue, cap_queue, encPc, encBuf, encoded, in_slot, out_queued,
                       out_leaked, stuck, leaked>>
    BY DEF CapAcquire, encode, encoder
  <1>3. capBuf = NULL
    BY <1>1, <1>2 DEF TypeOK, Holding
  <1>4. drv_done \in Seq(Buf) /\ IsInjective(drv_done)
    BY <1>1 DEF TypeOK, Alone
  <1>5. /\ capBuf' \in Buf /\ capBuf' # NULL /\ drv_done' \in Seq(Buf)
        /\ Len(drv_done') = Len(drv_done) - 1
        /\ \A b : b \in Range(drv_done') <=> b \in Range(drv_done) /\ b # capBuf'
        /\ capBuf' \in Range(drv_done) /\ IsInjective(drv_done')
    BY <1>2, <1>4, Taken
  <1>6. TypeOK'
    BY <1>1, <1>2, <1>5 DEF TypeOK, Holding
  <1>7. Alone'
    BY <1>1, <1>2, <1>5 DEF Alone
  <1>8. BuffersConserved'
    <2>1. One(capBuf) = 0 /\ One(capBuf') = 1 /\ One(encBuf') = One(encBuf)
      BY <1>2, <1>3, <1>5 DEF One
    <2> QED
      BY <1>1, <1>2, <1>5, <2>1, Counts DEF BuffersConserved, AppHolds
  <1>9. OutputsConserved' /\ SlotInCall'
    BY <1>2, CallStays DEF encode, encoder
  <1> QED
    BY <1>6, <1>7, <1>8, <1>9, SharedIsAloneNext DEF PipelineInv

\* The frame goes into cap_queue, or stays with the task that will drop it.
LEMMA CapSendPipeline == PipelineInv /\ CapSend => PipelineInv'
  <1> SUFFICES ASSUME PipelineInv, CapSend PROVE PipelineInv'
    OBVIOUS
  <1>1. TypeOK /\ Alone /\ BuffersConserved
    BY SharedIsAlone DEF PipelineInv
  <1>2. /\ capPc = "send"
        /\ UNCHANGED <<dma, drv_queue, drv_done, encPc, encBuf, encoded, in_slot, out_queued,
                       out_leaked, stuck, leaked>>
    BY DEF CapSend, driver, encode, encoder
  <1>3. OutputsConserved' /\ SlotInCall'
    BY <1>2, CallStays DEF encode, encoder
  <1>4. CASE capPc' = "drop" /\ UNCHANGED <<capBuf, cap_queue>>
    <2>1. TypeOK'
      BY <1>1, <1>2, <1>4 DEF TypeOK, Holding
    <2> QED
      BY <1>2, <1>3, <1>4, <2>1, BuffersStay DEF PipelineInv
  <1>5. CASE /\ cap_queue' = Append(cap_queue, capBuf)
             /\ capPc' = "acquire" /\ capBuf' = NULL
    <2>1. capBuf \in Buf /\ capBuf # NULL
      BY <1>1, <1>2 DEF TypeOK, Holding
    <2>2. cap_queue \in Seq(Buf) /\ IsInjective(cap_queue) /\ capBuf \notin Range(cap_queue)
      BY <1>1, <2>1 DEF TypeOK, Alone
    <2>3. /\ cap_queue' \in Seq(Buf) /\ IsInjective(cap_queue')
          /\ Len(cap_queue') = Len(cap_queue) + 1
          /\ \A b : b \in Range(cap_queue') <=> b \in Range(cap_queue) \/ b = capBuf
      BY <1>5, <2>1, <2>2, Joined
    <2>4. TypeOK'
      BY <1>1, <1>2, <1>5, <2>3 DEF TypeOK, Holding
    <2>5. Alone'
      BY <1>1, <1>2, <1>5, <2>1, <2>3, NullIsNoBuffer DEF Alone
    <2>6. BuffersConserved'
      <3>1. One(capBuf) = 1 /\ One(capBuf') = 0 /\ One(encBuf') = One(encBuf)
        BY <1>2, <1>5, <2>1 DEF One
      <3> QED
        BY <1>1, <1>2, <2>3, <3>1, Counts DEF BuffersConserved, AppHolds
    <2> QED
      BY <1>3, <2>4, <2>5, <2>6, SharedIsAloneNext DEF PipelineInv
  <1> QED
    BY <1>4, <1>5 DEF CapSend

\* A dropped frame's buffer goes back to the driver.
LEMMA CapDropPipeline == PipelineInv /\ CapDrop => PipelineInv'
  <1> SUFFICES ASSUME PipelineInv, CapDrop PROVE PipelineInv'
    OBVIOUS
  <1>1. TypeOK /\ Alone /\ BuffersConserved
    BY SharedIsAlone DEF PipelineInv
  <1>2. /\ capPc = "drop" /\ capPc' = "acquire" /\ capBuf' = NULL /\ Requeue(capBuf)
        /\ UNCHANGED <<dma, drv_done, cap_queue, encPc, encBuf, encoded, in_slot, out_queued,
                       out_leaked, stuck>>
    BY DEF CapDrop, encode, encoder
  <1>3. capBuf \in Buf /\ capBuf # NULL
    BY <1>1, <1>2 DEF TypeOK, Holding
  <1>4. capBuf \notin Range(drv_queue) /\ capBuf \notin leaked
    BY <1>1, <1>3 DEF Alone
  <1>5. /\ drv_queue' \in Seq(Buf) /\ leaked' \subseteq Buf /\ IsInjective(drv_queue')
        /\ \A x \in Buf :
              /\ x \in Range(drv_queue) => x \in Range(drv_queue')
              /\ x \in leaked => x \in leaked'
              /\ x \in Range(drv_queue') => x \in Range(drv_queue) \/ x = capBuf
              /\ x \in leaked' => x \in leaked \/ x = capBuf
              /\ x = capBuf => ~(x \in Range(drv_queue') /\ x \in leaked')
        /\ Len(drv_queue') \in Nat /\ Cardinality(leaked') \in Nat
        /\ Len(drv_queue') + Cardinality(leaked') = Len(drv_queue) + Cardinality(leaked) + 1
    BY <1>1, <1>2, <1>3, <1>4, Requeued
  <1>6. TypeOK'
    BY <1>1, <1>2, <1>5 DEF TypeOK, Holding
  <1>7. Alone'
    BY <1>1, <1>2, <1>3, <1>5, NullIsNoBuffer DEF Alone
  <1>8. BuffersConserved'
    <2>1. One(capBuf) = 1 /\ One(capBuf') = 0 /\ One(encBuf') = One(encBuf)
      BY <1>2, <1>3 DEF One
    <2>2. AppHolds \in Nat /\ AppHolds' = AppHolds - 1
      BY <1>1, <1>2, <2>1, Counts DEF AppHolds
    <2>3. /\ Len(drv_queue') \in Nat /\ Cardinality(leaked') \in Nat
          /\ Len(drv_queue') + Cardinality(leaked') = Len(drv_queue) + Cardinality(leaked) + 1
          /\ drv_done' = drv_done
      BY <1>2, <1>5
    <2>4. 1 + Len(drv_queue) + Len(drv_done) + AppHolds + Cardinality(leaked) = BufNum
      BY <1>1 DEF BuffersConserved
    <2>5. 1 + Len(drv_queue') + Len(drv_done) + (AppHolds - 1) + Cardinality(leaked') = BufNum
      BY <1>1, <2>2, <2>3, <2>4, BufAssumption, Counts
    <2> QED
      BY <2>2, <2>3, <2>5 DEF BuffersConserved
  <1>9. OutputsConserved' /\ SlotInCall'
    BY <1>2, CallStays DEF encode, encoder
  <1> QED
    BY <1>6, <1>7, <1>8, <1>9, SharedIsAloneNext DEF PipelineInv

\* The steps of the capture task that only move its program counter.
LEMMA CapWaitsPipeline ==
    PipelineInv /\ (CapAcquireFails \/ CapRetry \/ CapPace) => PipelineInv'
  <1> SUFFICES ASSUME PipelineInv, CapAcquireFails \/ CapRetry \/ CapPace PROVE PipelineInv'
    OBVIOUS
  <1>1. UNCHANGED <<dma, drv_queue, drv_done, capBuf, cap_queue, encPc, encBuf, encoded, in_slot,
                    out_queued, out_leaked, stuck, leaked>>
    BY DEF CapAcquireFails, CapRetry, CapPace, driver, encode, encoder
  <1>2. \/ capPc \in {"acquire", "backoff"} /\ capPc' \in {"acquire", "backoff"}
        \/ capPc = "pace" /\ capPc' \in {"send", "drop"}
    BY DEF CapAcquireFails, CapRetry, CapPace
  <1>3. TypeOK'
    BY <1>1, <1>2 DEF PipelineInv, TypeOK, Holding
  <1> QED
    BY <1>1, <1>3, BuffersStay, CallStays DEF PipelineInv, encode, encoder

-----------------------------------------------------------------------------
(* The encode task                                                         *)

\* The task takes the oldest frame from cap_queue.
LEMMA EncReceivePipeline == PipelineInv /\ EncReceive => PipelineInv'
  <1> SUFFICES ASSUME PipelineInv, EncReceive PROVE PipelineInv'
    OBVIOUS
  <1>1. TypeOK /\ Alone /\ BuffersConserved
    BY SharedIsAlone DEF PipelineInv
  <1>2. /\ encPc = "receive" /\ encPc' = "qbuf" /\ cap_queue # <<>>
        /\ encBuf' = Head(cap_queue) /\ cap_queue' = Tail(cap_queue)
        /\ UNCHANGED <<dma, drv_queue, drv_done, capPc, capBuf, encoded, in_slot, out_queued,
                       out_leaked, stuck, leaked>>
    BY DEF EncReceive, driver, capture, encoder
  <1>3. encBuf = NULL
    BY <1>1, <1>2 DEF TypeOK, Holding
  <1>4. cap_queue \in Seq(Buf) /\ IsInjective(cap_queue)
    BY <1>1 DEF TypeOK, Alone
  <1>5. /\ encBuf' \in Buf /\ encBuf' # NULL /\ cap_queue' \in Seq(Buf)
        /\ Len(cap_queue') = Len(cap_queue) - 1
        /\ \A b : b \in Range(cap_queue') <=> b \in Range(cap_queue) /\ b # encBuf'
        /\ encBuf' \in Range(cap_queue) /\ IsInjective(cap_queue')
    BY <1>2, <1>4, Taken
  <1>6. TypeOK'
    BY <1>1, <1>2, <1>5 DEF TypeOK, Holding
  <1>7. Alone'
    BY <1>1, <1>2, <1>5 DEF Alone
  <1>8. BuffersConserved'
    <2>1. One(encBuf) = 0 /\ One(encBuf') = 1 /\ One(capBuf') = One(capBuf)
      BY <1>2, <1>3, <1>5 DEF One
    <2>2. AppHolds' = AppHolds
      BY <1>1, <1>2, <1>5, <2>1, Counts DEF AppHolds
    <2> QED
      BY <1>1, <1>2, <2>2 DEF BuffersConserved
  <1>9. OutputsConserved'
    BY <1>2 DEF PipelineInv, OutputsConserved, OutHeld
  <1>10. SlotInCall'
    BY <1>2 DEF PipelineInv, SlotInCall
  <1> QED
    BY <1>6, <1>7, <1>8, <1>9, <1>10, SharedIsAloneNext DEF PipelineInv

\* The frame goes back to the camera, whatever hal_h264_encode() answered.
LEMMA EncGiveBackPipeline == PipelineInv /\ EncGiveBack => PipelineInv'
  <1> SUFFICES ASSUME PipelineInv, EncGiveBack PROVE PipelineInv'
    OBVIOUS
  <1>1. TypeOK /\ Alone /\ BuffersConserved
    BY SharedIsAlone DEF PipelineInv
  <1>2. /\ encPc = "giveback" /\ encPc' = (IF encoded THEN "send" ELSE "receive")
        /\ encBuf' = NULL /\ Requeue(encBuf)
        /\ UNCHANGED <<dma, drv_done, capPc, capBuf, cap_queue, encoded, in_slot, out_queued,
                       out_leaked, stuck>>
    BY DEF EncGiveBack, capture, encoder
  <1>3. encBuf \in Buf /\ encBuf # NULL
    BY <1>1, <1>2 DEF TypeOK, Holding
  <1>4. encBuf \notin Range(drv_queue) /\ encBuf \notin leaked
    BY <1>1, <1>3 DEF Alone
  <1>5. /\ drv_queue' \in Seq(Buf) /\ leaked' \subseteq Buf /\ IsInjective(drv_queue')
        /\ \A x \in Buf :
              /\ x \in Range(drv_queue) => x \in Range(drv_queue')
              /\ x \in leaked => x \in leaked'
              /\ x \in Range(drv_queue') => x \in Range(drv_queue) \/ x = encBuf
              /\ x \in leaked' => x \in leaked \/ x = encBuf
              /\ x = encBuf => ~(x \in Range(drv_queue') /\ x \in leaked')
        /\ Len(drv_queue') \in Nat /\ Cardinality(leaked') \in Nat
        /\ Len(drv_queue') + Cardinality(leaked') = Len(drv_queue) + Cardinality(leaked) + 1
    BY <1>1, <1>2, <1>3, <1>4, Requeued
  <1>6. TypeOK'
    BY <1>1, <1>2, <1>5 DEF TypeOK, Holding
  <1>7. Alone'
    BY <1>1, <1>2, <1>3, <1>5, NullIsNoBuffer DEF Alone
  <1>8. BuffersConserved'
    <2>1. One(encBuf) = 1 /\ One(encBuf') = 0 /\ One(capBuf') = One(capBuf)
      BY <1>2, <1>3 DEF One
    <2>2. AppHolds \in Nat /\ AppHolds' = AppHolds - 1
      BY <1>1, <1>2, <2>1, Counts DEF AppHolds
    <2>3. /\ Len(drv_queue') \in Nat /\ Cardinality(leaked') \in Nat
          /\ Len(drv_queue') + Cardinality(leaked') = Len(drv_queue) + Cardinality(leaked) + 1
          /\ drv_done' = drv_done
      BY <1>2, <1>5
    <2>4. 1 + Len(drv_queue) + Len(drv_done) + AppHolds + Cardinality(leaked) = BufNum
      BY <1>1 DEF BuffersConserved
    <2>5. 1 + Len(drv_queue') + Len(drv_done) + (AppHolds - 1) + Cardinality(leaked') = BufNum
      BY <1>1, <2>2, <2>3, <2>4, BufAssumption, Counts
    <2> QED
      BY <2>2, <2>3, <2>5 DEF BuffersConserved
  <1>9. OutputsConserved'
    BY <1>2 DEF PipelineInv, OutputsConserved, OutHeld
  <1>10. SlotInCall'
    BY <1>2 DEF PipelineInv, SlotInCall
  <1> QED
    BY <1>6, <1>7, <1>8, <1>9, <1>10, SharedIsAloneNext DEF PipelineInv

\* A step inside hal_h264_encode() or hal_h264_release(): the task keeps its frame, and
\* the encoder's accounts stay right.
LEMMA CallPipeline ==
    ASSUME PipelineInv,
           UNCHANGED <<dma, drv_queue, drv_done, capPc, capBuf, cap_queue, encBuf, leaked>>,
           Holding({"qbuf", "dqbuf", "unqueue", "reclaim", "reject", "giveback"}, encPc', encBuf),
           encPc' \in {"receive", "qbuf", "dqbuf", "unqueue", "reclaim", "reject",
                       "giveback", "send"},
           encoded' \in BOOLEAN, stuck' \in BOOLEAN, in_slot' \in {NULL, in_slot, encBuf},
           out_queued' \in Nat, out_leaked' \in Nat, OutputsConserved', SlotInCall'
    PROVE  PipelineInv'
  <1>1. out_queued' \in 0 .. OutBufNum /\ out_leaked' \in 0 .. OutBufNum
    <2>1. OutHeld' \in 0 .. 1
      BY DEF OutHeld
    <2>2. out_queued' + out_leaked' + OutHeld' = OutBufNum
      BY DEF OutputsConserved
    <2>3. ASSUME NEW queued \in Nat, NEW lost \in Nat, NEW held \in 0 .. 1,
                 queued + lost + held = OutBufNum
          PROVE  queued \in 0 .. OutBufNum /\ lost \in 0 .. OutBufNum
      BY <2>3, OutBufAssumption
    <2> QED
      BY <2>1, <2>2, <2>3
  <1>2. TypeOK'
    BY <1>1 DEF PipelineInv, TypeOK, Holding
  <1> QED
    BY <1>2, BuffersStay DEF PipelineInv

\* The input slot is filled, or the QBUF is refused and the call is over.
LEMMA EncQueueInputPipeline == PipelineInv /\ EncQueueInput => PipelineInv'
  <1> SUFFICES ASSUME PipelineInv, EncQueueInput PROVE PipelineInv'
    OBVIOUS
  <1>1. /\ encPc = "qbuf"
        /\ UNCHANGED <<dma, drv_queue, drv_done, capPc, capBuf, cap_queue, encBuf, out_queued,
                       out_leaked, stuck, leaked>>
        /\ \/ in_slot = NULL /\ in_slot' = encBuf /\ encPc' = "dqbuf" /\ encoded' = encoded
           \/ in_slot' = in_slot /\ encPc' = "giveback" /\ encoded' = FALSE
    BY DEF EncQueueInput, EncodeReturns, driver, capture
  <1>2. /\ encBuf # NULL /\ encoded \in BOOLEAN /\ stuck \in BOOLEAN
        /\ out_queued \in Nat /\ out_leaked \in Nat
    BY <1>1 DEF PipelineInv, TypeOK, Holding
  <1>3. OutputsConserved'
    BY <1>1 DEF PipelineInv, OutputsConserved, OutHeld
  <1>4. SlotInCall'
    BY <1>1 DEF PipelineInv, SlotInCall
  <1> QED
    BY <1>1, <1>2, <1>3, <1>4, CallPipeline DEF Holding

\* A bitstream buffer is taken, or none comes in time.
LEMMA EncDequeueOutputPipeline == PipelineInv /\ EncDequeueOutput => PipelineInv'
  <1> SUFFICES ASSUME PipelineInv, EncDequeueOutput PROVE PipelineInv'
    OBVIOUS
  <1>1. /\ encPc = "dqbuf"
        /\ UNCHANGED <<dma, drv_queue, drv_done, capPc, capBuf, cap_queue, encBuf, encoded,
                       in_slot, out_leaked, stuck, leaked>>
        /\ \/ out_queued > 0 /\ out_queued' = out_queued - 1 /\ encPc' = "reclaim"
           \/ out_queued' = out_queued /\ encPc' = "unqueue"
    BY DEF EncDequeueOutput, driver, capture
  <1>2. /\ encBuf # NULL /\ encoded \in BOOLEAN /\ stuck \in BOOLEAN
        /\ out_queued \in Nat /\ out_leaked \in Nat
    BY <1>1 DEF PipelineInv, TypeOK, Holding
  <1>3. OutputsConserved' /\ out_queued' \in Nat
    BY <1>1, <1>2, OutBufAssumption DEF PipelineInv, OutputsConserved, OutHeld
  <1>4. SlotInCall'
    BY <1>1 DEF PipelineInv, SlotInCall
  <1> QED
    BY <1>1, <1>2, <1>3, <1>4, CallPipeline DEF Holding

\* No bitstream: the input slot is taken back, or stays stuck.
LEMMA EncUnqueueInputPipeline == PipelineInv /\ EncUnqueueInput => PipelineInv'
  <1> SUFFICES ASSUME PipelineInv, EncUnqueueInput PROVE PipelineInv'
    OBVIOUS
  <1>1. /\ encPc = "unqueue" /\ encPc' = "giveback" /\ encoded' = FALSE
        /\ UNCHANGED <<dma, drv_queue, drv_done, capPc, capBuf, cap_queue, encBuf, out_queued,
                       out_leaked, leaked>>
        /\ \/ in_slot' = NULL /\ stuck' = stuck
           \/ in_slot' = in_slot /\ stuck' = TRUE
    BY DEF EncUnqueueInput, EncodeReturns, DequeueInput, driver, capture
  <1>2. encBuf # NULL /\ out_queued \in Nat /\ out_leaked \in Nat /\ stuck \in BOOLEAN
    BY <1>1 DEF PipelineInv, TypeOK, Holding
  <1>t. stuck' \in BOOLEAN
    BY <1>1, <1>2
  <1>3. OutputsConserved'
    BY <1>1 DEF PipelineInv, OutputsConserved, OutHeld
  <1>4. SlotInCall'
    BY <1>1 DEF PipelineInv, SlotInCall
  <1> QED
    BY <1>1, <1>2, <1>3, <1>4, <1>t, CallPipeline DEF Holding

\* A bitstream is there: the input slot is taken back and the bitstream looked at.
LEMMA EncReclaimInputPipeline == PipelineInv /\ EncReclaimInput => PipelineInv'
  <1> SUFFICES ASSUME PipelineInv, EncReclaimInput PROVE PipelineInv'
    OBVIOUS
  <1>1. /\ encPc = "reclaim"
        /\ UNCHANGED <<dma, drv_queue, drv_done, capPc, capBuf, cap_queue, encBuf, out_queued,
                       out_leaked, leaked>>
        /\ \/ in_slot' = NULL /\ stuck' = stuck
           \/ in_slot' = in_slot /\ stuck' = TRUE
        /\ \/ encPc' = "giveback" /\ encoded' = TRUE
           \/ encPc' = "reject" /\ encoded' = encoded
    BY DEF EncReclaimInput, EncodeReturns, DequeueInput, driver, capture
  <1>2. /\ encBuf # NULL /\ encoded \in BOOLEAN /\ stuck \in BOOLEAN
        /\ out_queued \in Nat /\ out_leaked \in Nat
    BY <1>1 DEF PipelineInv, TypeOK, Holding
  <1>t. encoded' \in BOOLEAN /\ stuck' \in BOOLEAN
    BY <1>1, <1>2
  <1>3. OutputsConserved'
    BY <1>1 DEF PipelineInv, OutputsConserved, OutHeld
  <1>4. SlotInCall'
    BY <1>1 DEF PipelineInv, SlotInCall
  <1> QED
    BY <1>1, <1>2, <1>3, <1>4, <1>t, CallPipeline DEF Holding

\* hal_h264_release(): the bitstream buffer goes back, or is lost by the QBUF.
LEMMA OutputRequeued ==
    ASSUME PipelineInv, RequeueOutput, OutHeld = 1, OutHeld' = 0
    PROVE  out_queued' \in Nat /\ out_leaked' \in Nat /\ OutputsConserved'
  BY DEF PipelineInv, TypeOK, RequeueOutput, OutputsConserved

\* An error with a bitstream buffer in hand gives the buffer back.
LEMMA EncRejectPipeline == PipelineInv /\ EncReject => PipelineInv'
  <1> SUFFICES ASSUME PipelineInv, EncReject PROVE PipelineInv'
    OBVIOUS
  <1>1. /\ encPc = "reject" /\ encPc' = "giveback" /\ encoded' = FALSE /\ RequeueOutput
        /\ UNCHANGED <<dma, drv_queue, drv_done, capPc, capBuf, cap_queue, encBuf, in_slot,
                       stuck, leaked>>
    BY DEF EncReject, EncodeReturns, driver, capture
  <1>2. encBuf # NULL /\ stuck \in BOOLEAN
    BY <1>1 DEF PipelineInv, TypeOK, Holding
  <1>3. OutHeld = 1 /\ OutHeld' = 0
    BY <1>1 DEF OutHeld
  <1>4. SlotInCall'
    BY <1>1 DEF PipelineInv, SlotInCall
  <1> QED
    BY <1>1, <1>2, <1>3, <1>4, OutputRequeued, CallPipeline DEF Holding

\* The bitstream is sent and its buffer goes back.
LEMMA EncSendPipeline == PipelineInv /\ EncSend => PipelineInv'
  <1> SUFFICES ASSUME PipelineInv, EncSend PROVE PipelineInv'
    OBVIOUS
  <1>1. /\ encPc = "send" /\ encPc' = "receive" /\ RequeueOutput
        /\ UNCHANGED <<dma, drv_queue, drv_done, capPc, capBuf, cap_queue, encBuf, encoded,
                       in_slot, stuck, leaked>>
    BY DEF EncSend, driver, capture
  <1>2. encBuf = NULL /\ encoded \in BOOLEAN /\ stuck \in BOOLEAN
    BY <1>1 DEF PipelineInv, TypeOK, Holding
  <1>3. OutHeld = 1 /\ OutHeld' = 0
    BY <1>1 DEF OutHeld
  <1>4. SlotInCall'
    BY <1>1 DEF PipelineInv, SlotInCall
  <1> QED
    BY <1>1, <1>2, <1>3, <1>4, OutputRequeued, CallPipeline DEF Holding

-----------------------------------------------------------------------------
(* The theorems                                                            *)

\* The invariant holds in every reachable state.
THEOREM PipelineInvariant == Spec => []PipelineInv
  <1>1. PipelineInv /\ [Next]_vars => PipelineInv'
    <2> SUFFICES ASSUME PipelineInv, [Next]_vars PROVE PipelineInv'
      OBVIOUS
    <2>1. CASE SilentDrop \/ UNCHANGED vars
      <3>1. /\ UNCHANGED <<dma, drv_queue, drv_done, capPc, capBuf, cap_queue, encPc, encBuf,
                           encoded, in_slot, out_queued, out_leaked, stuck, leaked>>
        BY <2>1 DEF SilentDrop, vars, driver, capture, encode, encoder
      <3>2. TypeOK'
        BY <3>1 DEF PipelineInv, TypeOK, Holding
      <3> QED
        BY <3>1, <3>2, BuffersStay, CallStays DEF PipelineInv, encode, encoder
    <2>2. CASE FrameDone
      BY <2>2, FrameDonePipeline
    <2>3. CASE Capture
      BY <2>3, CapAcquirePipeline, CapSendPipeline, CapDropPipeline, CapWaitsPipeline DEF Capture
    <2>4. CASE Encode
      BY <2>4, EncReceivePipeline, EncQueueInputPipeline, EncDequeueOutputPipeline,
         EncUnqueueInputPipeline, EncReclaimInputPipeline, EncRejectPipeline,
         EncGiveBackPipeline, EncSendPipeline DEF Encode
    <2> QED
      BY <2>1, <2>2, <2>3, <2>4 DEF Next, Driver
  <1> QED
    BY <1>1, InitPipeline, PTL DEF Spec

\* Every variable has its type, and a task holds a frame exactly where its code has one.
THEOREM PipelineTypes == Spec => []TypeOK
  BY PipelineInvariant, PTL DEF PipelineInv

\* No path of the capture or the encode task loses a camera buffer or returns one twice.
THEOREM NoBufferLost == Spec => []BuffersConserved
  BY PipelineInvariant, PTL DEF PipelineInv

\* No buffer is with the driver and the application, or in two hands of the application.
THEOREM NoBufferShared == Spec => []NoSharedBuffer
  BY PipelineInvariant, PTL DEF PipelineInv

\* CAP_BUF_COUNT - 2 places are too many to fill while the encode task has a frame: with
\* the driver's buffer and the capture task's none is left for a full queue.
THEOREM DropsOnlyWhileSending == Spec => []DropsOnlyDuringSend
  <1>1. PipelineInv => DropsOnlyDuringSend
    <2> SUFFICES ASSUME PipelineInv, capPc = "send", Len(cap_queue) = VIDEO_QUEUE_LEN
                 PROVE  encBuf = NULL
      BY DEF DropsOnlyDuringSend
    <2>1. TypeOK /\ BuffersConserved
      BY DEF PipelineInv
    <2>2. One(capBuf) = 1
      BY <2>1 DEF TypeOK, Holding, One
    <2>3. One(encBuf) = 0
      BY <2>1, <2>2, Counts, BufAssumption DEF BuffersConserved, AppHolds, VIDEO_QUEUE_LEN
    <2> QED
      BY <2>3 DEF One
  <1> QED
    BY <1>1, PipelineInvariant, PTL

\* Between two frames the input slot is free unless its DQBUF has failed, and every
\* bitstream buffer is with the encoder unless its QBUF has failed.
THEOREM EncoderReady == Spec => []EncoderReadyForFrame
  <1>1. PipelineInv => EncoderReadyForFrame
    BY DEF PipelineInv, TypeOK, OutputsConserved, OutHeld, SlotInCall, EncoderReadyForFrame
  <1> QED
    BY <1>1, PipelineInvariant, PTL

\* The encoder never points at a frame the task has given back, unless the DQBUF of its
\* input slot has failed.
THEOREM EncoderReadsHeld == Spec => []EncoderReadsHeldFrame
  <1>1. PipelineInv => EncoderReadsHeldFrame
    BY DEF PipelineInv, SlotInCall, EncoderReadsHeldFrame
  <1> QED
    BY <1>1, PipelineInvariant, PTL

-----------------------------------------------------------------------------
(* Frame pacing                                                            *)

\* The grid point waited for is in the future, by at most one interval.
PointAhead ==
    started =>
        /\ last <= now /\ now < next_us
        /\ next_us <= last + Interval

\* Each passed frame has moved the grid by an interval or more...
GridMoved == started => next_us > mark + passes * Interval

\* ...and by exactly one, when no frame was a whole interval late.
GridKept ==
    started /\ gap <= Interval =>
        /\ next_us = grid0 + passes * Interval
        /\ passes > 0 =>
              /\ last >= next_us - Interval
              /\ last < next_us - Interval + gap

GridInv == GridTypeOK /\ PointAhead /\ GridMoved /\ GridKept

LEMMA OneMore == ASSUME NEW n \in Nat, NEW i \in Nat
                 PROVE  /\ n * i \in Nat
                        /\ (n + 1) * i = n * i + i
                        /\ (n - 1) * i = n * i - i
  OBVIOUS

\* A passed frame moves the grid by an interval or more, to a point after the frame.
LEMMA AdvanceMoves ==
    ASSUME GridTypeOK, NEW t \in Nat, t >= next_us
    PROVE  /\ Advance(t) \in Nat
           /\ Advance(t) > t /\ Advance(t) <= t + Interval
           /\ Advance(t) >= next_us + Interval
  BY IntervalAssumption DEF GridTypeOK, Advance

\* The longest gap stays one: it covers the gap to t and never shrinks.
LEMMA LongestGap ==
    ASSUME GridTypeOK, NEW t \in Nat, t >= now, t <= now + MaxGap
    PROVE  /\ Longest(t) \in 0 .. MaxGap
           /\ Longest(t) >= gap /\ t - now <= Longest(t)
  BY GapAssumption DEF GridTypeOK, Longest

\* GridInv holds at boot.
LEMMA InitGrid == GridInit => GridInv
  <1> SUFFICES ASSUME GridInit PROVE GridInv
    OBVIOUS
  <1>1. GridTypeOK
    <2>1. gap \in 0 .. MaxGap
      BY GapAssumption DEF GridInit
    <2> QED
      BY <2>1 DEF GridInit, GridTypeOK
  <1>2. ~started
    BY Zenon DEF GridInit
  <1> QED
    BY <1>1, <1>2 DEF GridInv, PointAhead, GridMoved, GridKept

\* A frame that passes keeps GridInv, whether it extends the window or opens one.
LEMMA PassedGrid ==
    ASSUME GridInv, NEW t \in Nat, t >= now, t <= now + MaxGap, now' = t, Passed(t)
    PROVE  GridInv'
  <1> USE DEF GridInv
  <1>1. /\ t >= next_us /\ next_us' = Advance(t)
        /\ started' = TRUE /\ last' = t
    BY DEF Passed
  <1>2. /\ Advance(t) \in Nat
        /\ Advance(t) > t /\ Advance(t) <= t + Interval
        /\ Advance(t) >= next_us + Interval
    BY <1>1, AdvanceMoves
  <1>3. PointAhead'
    BY <1>1, <1>2 DEF PointAhead
  <1>4. CASE started /\ passes' = passes + 1 /\ gap' = Longest(t) /\ UNCHANGED <<mark, grid0>>
    <2>1. GridTypeOK'
      BY <1>1, <1>2, <1>4, LongestGap DEF GridTypeOK
    <2>2. passes * Interval \in Nat /\ (passes + 1) * Interval = passes * Interval + Interval
      BY OneMore, IntervalAssumption DEF GridTypeOK
    <2>3. GridMoved'
      BY <1>1, <1>2, <1>4, <2>2, IntervalAssumption DEF GridMoved, GridTypeOK
    <2>4. GridKept'
      <3> SUFFICES ASSUME gap' <= Interval
                   PROVE  /\ next_us' = grid0' + passes' * Interval
                          /\ last' >= next_us' - Interval
                          /\ last' < next_us' - Interval + gap'
        BY DEF GridKept
      <3>0. gap' \in Nat /\ gap' >= gap /\ t - now <= gap'
        BY <1>4, LongestGap
      <3>1. next_us = grid0 + passes * Interval /\ now < next_us
        BY <1>4, <3>0, IntervalAssumption, GapAssumption DEF GridKept, PointAhead, GridTypeOK
      <3>2. t < next_us + gap' /\ t < next_us + Interval
        <4>1. t \in Nat /\ now \in Nat /\ next_us \in Nat /\ Interval \in Nat
          BY IntervalAssumption DEF GridTypeOK
        <4> QED
          BY <3>0, <3>1, <4>1
      <3>3. next_us' = next_us + Interval
        BY <1>1, <3>2, IntervalAssumption DEF Advance, GridTypeOK
      <3> QED
        BY <1>1, <1>4, <2>2, <3>0, <3>1, <3>2, <3>3, IntervalAssumption DEF GridTypeOK
    <2> QED
      BY <1>3, <2>1, <2>3, <2>4
  <1>5. CASE mark' = t /\ grid0' = Advance(t) /\ passes' = 0 /\ gap' = 0
    <2>1. passes' * Interval = 0
      BY <1>5, IntervalAssumption
    <2> QED
      BY <1>1, <1>2, <1>3, <1>5, <2>1, GapAssumption DEF GridTypeOK, GridMoved, GridKept
  <1> QED
    BY <1>4, <1>5 DEF Passed

\* A call keeps GridInv; a dropped frame only moves the clock, up to the grid point.
LEMMA CallGrid == GridInv /\ Call => GridInv'
  <1> SUFFICES ASSUME GridInv, Call PROVE GridInv'
    OBVIOUS
  <1>1. PICK t \in now .. now + MaxGap : now' = t /\ (Passed(t) \/ Dropped(t))
    BY DEF Call
  <1>2. t \in Nat /\ t >= now /\ t <= now + MaxGap
    BY <1>1, GapAssumption DEF GridInv, GridTypeOK
  <1>3. CASE Passed(t)
    BY <1>1, <1>2, <1>3, PassedGrid
  <1>4. CASE Dropped(t)
    <2>1. gap' \in 0 .. MaxGap /\ gap' >= gap
      BY <1>2, <1>4, LongestGap DEF Dropped, GridInv
    <2> QED
      BY <1>1, <1>2, <1>4, <2>1, IntervalAssumption, GapAssumption
       DEF Dropped, window, GridInv, GridTypeOK, PointAhead, GridMoved, GridKept
  <1> QED
    BY <1>1, <1>3, <1>4

\* GridInv is an invariant of the filter.
THEOREM GridInvariant == GridSpec => []GridInv
  <1>1. GridInv /\ [GridNext]_gridVars => GridInv'
    <2> SUFFICES ASSUME GridInv, [GridNext]_gridVars PROVE GridInv'
      OBVIOUS
    <2>1. CASE Call
      BY <2>1, CallGrid
    <2>2. CASE Reboot
      <3>1. GridTypeOK'
        <4>1. gap' \in 0 .. MaxGap
          BY <2>2, GapAssumption DEF Reboot
        <4> QED
          BY <2>2, <4>1 DEF Reboot, GridTypeOK
      <3>2. ~started'
        BY <2>2, Zenon DEF Reboot
      <3> QED
        BY <3>1, <3>2 DEF GridInv, PointAhead, GridMoved, GridKept
    <2>3. CASE UNCHANGED gridVars
      BY <2>3 DEF gridVars, window, GridInv, GridTypeOK, PointAhead, GridMoved, GridKept
    <2> QED
      BY <2>1, <2>2, <2>3 DEF GridNext
  <1> QED
    BY InitGrid, <1>1, PTL DEF GridSpec

\* The filter never passes a burst: n + 1 frames take more than n - 1 intervals,
\* whatever times the frames come at (task_video.cpp:78).
THEOREM BurstBounded == GridSpec => []NoBurst
  <1>1. GridInv => NoBurst
    <2> SUFFICES ASSUME GridInv, started PROVE last - mark > (passes - 1) * Interval
      BY DEF NoBurst
    <2>1. passes * Interval \in Nat /\ (passes - 1) * Interval = passes * Interval - Interval
      BY OneMore, IntervalAssumption DEF GridInv, GridTypeOK
    <2> QED
      BY <2>1, IntervalAssumption DEF GridInv, GridTypeOK, PointAhead, GridMoved
  <1> QED
    BY GridInvariant, <1>1, PTL

\* With frames at most an interval apart, the n-th passed frame is at the n-th grid point
\* to within one gap: the delivered rate is exactly one frame per interval.
THEOREM RateExact == GridSpec => []NoDrift
  <1>1. GridInv => NoDrift
    <2> SUFFICES ASSUME GridInv, started, passes > 0, gap <= Interval
                 PROVE  LET point == grid0 + (passes - 1) * Interval IN
                        point <= last /\ last < point + gap
      BY DEF NoDrift
    <2>1. passes * Interval \in Nat /\ (passes - 1) * Interval = passes * Interval - Interval
      BY OneMore, IntervalAssumption DEF GridInv, GridTypeOK
    <2> QED
      BY <2>1, IntervalAssumption, GapAssumption DEF GridInv, GridTypeOK, GridKept
  <1> QED
    BY GridInvariant, <1>1, PTL

\* A frame that comes a whole interval after the last passed one is not dropped.
THEOREM NeverStarved == GridSpec => []NoGap
  <1>1. GridInv => NoGap
    BY IntervalAssumption DEF GridInv, GridTypeOK, PointAhead, NoGap
  <1> QED
    BY GridInvariant, <1>1, PTL
=============================================================================
