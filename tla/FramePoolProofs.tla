-------------------------- MODULE FramePoolProofs ---------------------------
(***************************************************************************)
(* The ownership discipline of the frame pool and its semaphore, for any   *)
(* number of buffers: the inductive invariant PoolInv, the invariants that *)
(* follow from it, and the refinement of FrameHandoff.                     *)
(***************************************************************************)
EXTENDS FramePool, ListLemmas, TLAPS

\* Before ped_start() has made a pool there is nothing on its lists and no one in it.
Dormant ==
    ~PoolExists =>
        /\ free_list = <<>> /\ ready_list = <<>>
        /\ encPc = "loop" /\ detPc = "recv"

One(e) == IF e = NULL THEN 0 ELSE 1

\* What NothingLost says, counted: it bounds the ready list, and so the semaphore.
Counted == PoolExists => Len(free_list) + Len(ready_list) + One(encElem) + One(detElem) = ElemNum

PoolInv == TypeOK /\ Dormant /\ OnePlace /\ TokenPerReadyFrame /\ Counted

-----------------------------------------------------------------------------

\* The counts in Counted are numbers.
LEMMA Lengths ==
    ASSUME TypeOK
    PROVE  /\ Len(free_list) \in Nat /\ Len(ready_list) \in Nat
           /\ One(encElem) \in 0 .. 1 /\ One(detElem) \in 0 .. 1
  BY DEF TypeOK, One

\* frame_pool_new() queues every element once.
LEMMA NewFreeListFull ==
    /\ NewFreeList \in Seq(Elem) /\ Len(NewFreeList) = ElemNum
    /\ IsInjective(NewFreeList) /\ Range(NewFreeList) = Elem
  <1>1. NewFreeList \in Seq(Elem) /\ Len(NewFreeList) = ElemNum
    BY ElemNumAssumption DEF NewFreeList, Elem
  <1>2. \A i \in 1 .. ElemNum : NewFreeList[i] = ElemNum - i
    BY DEF NewFreeList
  <1>3. IsInjective(NewFreeList)
    BY <1>1, <1>2, ElemNumAssumption, Elements
  <1>4. ASSUME NEW e \in Elem
        PROVE  e \in Range(NewFreeList)
    <2>1. ElemNum - e \in 1 .. ElemNum /\ NewFreeList[ElemNum - e] = e
      BY <1>2, ElemNumAssumption DEF Elem
    <2> QED
      BY <1>1, <2>1, Elements
  <1>5. Range(NewFreeList) \subseteq Elem
    BY <1>1, Elements
  <1> QED
    BY <1>1, <1>3, <1>4, <1>5

\* Nothing is in the pool at boot.
LEMMA InitPool == Init => PoolInv
  <1> SUFFICES ASSUME Init PROVE PoolInv
    OBVIOUS
  <1>1. TypeOK
    BY ElemNumAssumption, FeedAssumption, AheadAssumption DEF Init, TypeOK, Elem, NULL
  <1>2. Range(free_list) = {} /\ Range(ready_list) = {}
        /\ IsInjective(free_list) /\ IsInjective(ready_list)
    BY NoElements DEF Init
  <1>3. Held = {} /\ ~PoolExists
    BY DEF Init, Held, PoolExists
  <1>4. OnePlace
    BY <1>2, <1>3 DEF OnePlace, NoDuplicates, PlacesDisjoint, FlagAgrees, NothingLost, Init
  <1>5. TokenPerReadyFrame
    BY DEF Init, TokenPerReadyFrame, InFlight
  <1> QED
    BY <1>1, <1>3, <1>4, <1>5 DEF PoolInv, Dormant, Counted, Init

-----------------------------------------------------------------------------
(* One lemma per action.                                                   *)

\* ped_start() makes the pool with every buffer free, or makes none.
LEMMA StartPool == ASSUME PoolInv, Start PROVE PoolInv'
  <1> USE DEF PoolInv
  <1>1. PICK result \in StartResults : PedStart(result)
    BY DEF Start
  <1>2. /\ feed = "off" /\ feed' = result /\ ~PoolExists
        /\ free_list' = IF result = "no_pool" THEN <<>> ELSE NewFreeList
        /\ ready_list = <<>> /\ encElem = NULL /\ detElem = NULL
        /\ encPc = "loop" /\ detPc = "recv"
        /\ UNCHANGED <<ready_list, checked_out, ready_sem, frame_no, encPc, encElem,
                       detPc, detElem, ahead>>
    BY <1>1 DEF PedStart, enc, det, PoolExists, Dormant, TypeOK
  <1>3. TypeOK'
    <2>1. free_list' \in Seq(Elem)
      BY <1>2, NewFreeListFull
    <2> QED
      BY <1>2, <2>1 DEF TypeOK, StartResults
  <1>4. IsInjective(free_list') /\ Range(free_list') \subseteq Elem
    BY <1>2, NewFreeListFull, NoElements
  <1>5. Held = {} /\ Held' = {} /\ Range(ready_list') = {} /\ IsInjective(ready_list')
    BY <1>2, NoElements DEF Held
  <1>6. PoolExists' => Range(free_list') = Elem /\ Len(free_list') = ElemNum
    BY <1>2, NewFreeListFull DEF PoolExists
  <1>7. OnePlace'
    BY <1>2, <1>4, <1>5, <1>6
       DEF OnePlace, NoDuplicates, PlacesDisjoint, FlagAgrees, NothingLost
  <1>8. TokenPerReadyFrame'
    BY <1>2 DEF TokenPerReadyFrame
  <1>9. Dormant'
    BY <1>2 DEF Dormant, PoolExists, StartResults
  <1>10. Counted'
    <2>1. Len(ready_list') = 0 /\ One(encElem') = 0 /\ One(detElem') = 0
      BY <1>2, NoElements DEF One
    <2> QED
      BY <1>6, <2>1, ElemNumAssumption DEF Counted
  <1> QED
    BY <1>3, <1>7, <1>8, <1>9, <1>10

\* A frame that is not fed only moves the frame counter.
LEMMA SkipPool == ASSUME PoolInv, FeedSkip PROVE PoolInv'
  <1>1. TypeOK'
    BY FeedAssumption DEF PoolInv, FeedSkip, NextFrame, TypeOK, pool, det
  <1>2. UNCHANGED <<feed, free_list, ready_list, checked_out, ready_sem, encPc, encElem,
                    detPc, detElem>>
    BY DEF FeedSkip, pool, det
  <1> QED
    BY <1>1, <1>2 DEF PoolInv, Dormant, OnePlace, NoDuplicates, PlacesDisjoint, FlagAgrees,
       NothingLost, TokenPerReadyFrame, Counted, One, Held, PoolExists

\* A buffer that leaves the head of the free list was there alone.
LEMMA AcquirePool == ASSUME PoolInv, FeedAcquire PROVE PoolInv'
  <1> USE DEF PoolInv
  <1> DEFINE e == Head(free_list)
  <1>1. /\ feed # "off" /\ encPc = "loop" /\ encElem = NULL /\ free_list # <<>>
        /\ free_list' = Tail(free_list) /\ checked_out' = [checked_out EXCEPT ![e] = TRUE]
        /\ encElem' = e /\ encPc' = "filling"
        /\ UNCHANGED <<feed, ready_list, ready_sem, detPc, detElem, ahead>>
    BY DEF FeedAcquire, PopFree, det, TypeOK
  <1>2. /\ e \in Elem /\ Tail(free_list) \in Seq(Elem)
        /\ Len(free_list') = Len(free_list) - 1
        /\ Range(free_list) = {e} \cup Range(free_list')
        /\ e \notin Range(free_list') /\ IsInjective(free_list')
    BY <1>1, HeadRemoved DEF TypeOK, OnePlace, NoDuplicates
  <1>3. e # NULL
    BY <1>2, ElemNumAssumption DEF Elem, NULL
  <1>4. TypeOK'
    <2>1. frame_no' \in 0 .. FeedEveryN - 1
      BY FeedAssumption DEF FeedAcquire, NextFrame, TypeOK
    <2> QED
      BY <1>1, <1>2, <1>3, <2>1 DEF TypeOK
  <1>5. Held' = Held \cup {e} /\ e \notin Held /\ detElem # e
    BY <1>1, <1>2, <1>3 DEF Held, OnePlace, PlacesDisjoint
  <1>6. OnePlace'
    <2>1. NoDuplicates' /\ PlacesDisjoint'
      BY <1>1, <1>2, <1>3, <1>5 DEF OnePlace, NoDuplicates, PlacesDisjoint
    <2>2. FlagAgrees'
      BY <1>1, <1>2, <1>5 DEF OnePlace, FlagAgrees, TypeOK
    <2>3. NothingLost'
      BY <1>1, <1>2, <1>5 DEF OnePlace, NothingLost, PoolExists
    <2> QED
      BY <2>1, <2>2, <2>3 DEF OnePlace
  <1>7. TokenPerReadyFrame'
    BY <1>1 DEF TokenPerReadyFrame, InFlight
  <1>8. PoolExists
    BY <1>1 DEF Dormant
  <1>9. Dormant'
    BY <1>1, <1>8 DEF Dormant, PoolExists
  <1>10. Counted'
    <2>1. One(encElem) = 0 /\ One(encElem') = 1 /\ One(detElem') = One(detElem)
      BY <1>1, <1>3 DEF One
    <2> QED
      BY <1>1, <1>2, <1>8, <2>1, Lengths DEF Counted
  <1> QED
    BY <1>4, <1>6, <1>7, <1>9, <1>10

\* list_push() never refuses what a task holds; the buffer joins the free list.
LEMMA PushedFree ==
    ASSUME PoolInv, NEW e \in Held, PushFree(e)
    PROVE  /\ e \in Elem /\ e # NULL
           /\ checked_out' = [checked_out EXCEPT ![e] = FALSE]
           /\ free_list' \in Seq(Elem) /\ IsInjective(free_list')
           /\ Len(free_list') = Len(free_list) + 1
           /\ Range(free_list') = {e} \cup Range(free_list)
           /\ e \notin Range(ready_list) /\ UNCHANGED ready_list
  <1>1. e \in Elem /\ e # NULL
    BY DEF PoolInv, TypeOK, Held
  <1>2. checked_out[e] /\ e \notin Range(free_list) /\ e \notin Range(ready_list)
    BY <1>1 DEF PoolInv, OnePlace, FlagAgrees, PlacesDisjoint
  <1>3. /\ checked_out' = [checked_out EXCEPT ![e] = FALSE]
        /\ free_list' = <<e>> \o free_list /\ UNCHANGED ready_list
    BY <1>2 DEF PushFree, Push
  <1> QED
    BY <1>1, <1>2, <1>3, HeadInserted DEF PoolInv, TypeOK, OnePlace, NoDuplicates

\* A discarded frame's buffer is free again.
LEMMA DiscardPool == ASSUME PoolInv, FeedDiscard PROVE PoolInv'
  <1> USE DEF PoolInv
  <1> DEFINE e == encElem
  <1>1. /\ encPc = "filling" /\ PushFree(e) /\ e # NULL /\ e \in Held
        /\ encPc' = "loop" /\ encElem' = NULL
        /\ UNCHANGED <<feed, ready_sem, frame_no, detPc, detElem, ahead>>
    BY DEF FeedDiscard, det, TypeOK, Held
  <1>2. /\ e \in Elem
        /\ checked_out' = [checked_out EXCEPT ![e] = FALSE]
        /\ free_list' \in Seq(Elem) /\ IsInjective(free_list')
        /\ Len(free_list') = Len(free_list) + 1
        /\ Range(free_list') = {e} \cup Range(free_list)
        /\ e \notin Range(ready_list) /\ UNCHANGED ready_list
    BY <1>1, PushedFree
  <1>3. detElem # e /\ Held' = Held \ {e} /\ Held = Held' \cup {e}
    BY <1>1 DEF Held, OnePlace, PlacesDisjoint
  <1>4. TypeOK'
    BY <1>1, <1>2 DEF TypeOK
  <1>5. OnePlace'
    <2>1. NoDuplicates' /\ PlacesDisjoint'
      BY <1>1, <1>2, <1>3 DEF OnePlace, NoDuplicates, PlacesDisjoint
    <2>2. FlagAgrees'
      BY <1>1, <1>2, <1>3 DEF OnePlace, FlagAgrees, TypeOK
    <2>3. NothingLost'
      BY <1>1, <1>2, <1>3 DEF OnePlace, NothingLost, PoolExists
    <2> QED
      BY <2>1, <2>2, <2>3 DEF OnePlace
  <1>6. TokenPerReadyFrame'
    BY <1>1, <1>2 DEF TokenPerReadyFrame, InFlight
  <1>7. PoolExists /\ PoolExists'
    BY <1>1 DEF Dormant, PoolExists
  <1>8. Counted'
    <2>1. One(encElem) = 1 /\ One(encElem') = 0 /\ One(detElem') = One(detElem)
      BY <1>1 DEF One
    <2> QED
      BY <1>2, <1>7, <2>1, Lengths DEF Counted
  <1> QED
    BY <1>4, <1>5, <1>6, <1>7, <1>8 DEF Dormant

\* A finished inference's buffer is free again.
LEMMA ReleasePool == ASSUME PoolInv, DetectRelease PROVE PoolInv'
  <1> USE DEF PoolInv
  <1> DEFINE e == detElem
  <1>1. /\ detPc = "infer" /\ PushFree(e) /\ e # NULL /\ e \in Held
        /\ detPc' = "delay" /\ detElem' = NULL
        /\ UNCHANGED <<feed, ready_sem, frame_no, encPc, encElem, ahead>>
    BY DEF DetectRelease, enc, TypeOK, Held
  <1>2. /\ e \in Elem
        /\ checked_out' = [checked_out EXCEPT ![e] = FALSE]
        /\ free_list' \in Seq(Elem) /\ IsInjective(free_list')
        /\ Len(free_list') = Len(free_list) + 1
        /\ Range(free_list') = {e} \cup Range(free_list)
        /\ e \notin Range(ready_list) /\ UNCHANGED ready_list
    BY <1>1, PushedFree
  <1>3. encElem # e /\ Held' = Held \ {e} /\ Held = Held' \cup {e}
    BY <1>1 DEF Held, OnePlace, PlacesDisjoint
  <1>4. TypeOK'
    BY <1>1, <1>2 DEF TypeOK
  <1>5. OnePlace'
    <2>1. NoDuplicates' /\ PlacesDisjoint'
      BY <1>1, <1>2, <1>3 DEF OnePlace, NoDuplicates, PlacesDisjoint
    <2>2. FlagAgrees'
      BY <1>1, <1>2, <1>3 DEF OnePlace, FlagAgrees, TypeOK
    <2>3. NothingLost'
      BY <1>1, <1>2, <1>3 DEF OnePlace, NothingLost, PoolExists
    <2> QED
      BY <2>1, <2>2, <2>3 DEF OnePlace
  <1>6. TokenPerReadyFrame'
    BY <1>1, <1>2 DEF TokenPerReadyFrame, InFlight
  <1>7. PoolExists /\ PoolExists'
    BY <1>1 DEF Dormant, PoolExists
  <1>8. Counted'
    <2>1. One(detElem) = 1 /\ One(detElem') = 0 /\ One(encElem') = One(encElem)
      BY <1>1 DEF One
    <2> QED
      BY <1>2, <1>7, <2>1, Lengths DEF Counted
  <1> QED
    BY <1>4, <1>5, <1>6, <1>7, <1>8 DEF Dormant

\* Publishing is not refused; the token for the frame is then still to be given.
LEMMA PublishPool == ASSUME PoolInv, FeedPublish PROVE PoolInv'
  <1> USE DEF PoolInv
  <1> DEFINE e == encElem
  <1>1. encPc = "filling" /\ e # NULL /\ e \in Elem /\ e \in Held
    BY DEF FeedPublish, TypeOK, Held
  <1>2. checked_out[e] /\ e \notin Range(free_list) /\ e \notin Range(ready_list)
    BY <1>1 DEF OnePlace, FlagAgrees, PlacesDisjoint
  <1>3. /\ checked_out' = [checked_out EXCEPT ![e] = FALSE]
        /\ ready_list' = <<e>> \o ready_list
        /\ encPc' = "give" /\ encElem' = NULL
        /\ UNCHANGED <<feed, free_list, ready_sem, frame_no, detPc, detElem>>
    BY <1>2 DEF FeedPublish, Push, det
  <1>4. /\ ready_list' \in Seq(Elem) /\ IsInjective(ready_list')
        /\ Len(ready_list') = Len(ready_list) + 1
        /\ Range(ready_list') = {e} \cup Range(ready_list)
    BY <1>1, <1>2, <1>3, HeadInserted DEF TypeOK, OnePlace, NoDuplicates
  <1>5. detElem # e /\ Held' = Held \ {e} /\ Held = Held' \cup {e}
    BY <1>1, <1>3 DEF Held, OnePlace, PlacesDisjoint
  <1>6. TypeOK'
    <2>1. ahead' \in [Elem -> 0 .. MaxAhead]
      <3>1. ahead' = [x \in Elem |-> IF x = encElem THEN 0 ELSE Saturated(ahead[x])]
        BY <1>2 DEF FeedPublish
      <3>2. \A x \in Elem : Saturated(ahead[x]) \in 0 .. MaxAhead
        BY AheadAssumption DEF Saturated, TypeOK
      <3> QED
        BY <3>1, <3>2, AheadAssumption
    <2> QED
      BY <1>1, <1>3, <1>4, <2>1 DEF TypeOK
  <1>7. OnePlace'
    <2>1. NoDuplicates' /\ PlacesDisjoint'
      BY <1>1, <1>2, <1>3, <1>4, <1>5 DEF OnePlace, NoDuplicates, PlacesDisjoint
    <2>2. FlagAgrees'
      BY <1>1, <1>3, <1>5 DEF OnePlace, FlagAgrees, TypeOK
    <2>3. NothingLost'
      BY <1>1, <1>3, <1>4, <1>5 DEF OnePlace, NothingLost, PoolExists
    <2> QED
      BY <2>1, <2>2, <2>3 DEF OnePlace
  <1>8. TokenPerReadyFrame'
    BY <1>1, <1>3, <1>4, Lengths DEF TokenPerReadyFrame, InFlight, TypeOK
  <1>9. PoolExists /\ PoolExists'
    BY <1>1, <1>3 DEF Dormant, PoolExists
  <1>10. Counted'
    <2>1. One(encElem) = 1 /\ One(encElem') = 0 /\ One(detElem') = One(detElem)
      BY <1>1, <1>3 DEF One
    <2> QED
      BY <1>3, <1>4, <1>9, <2>1, Lengths DEF Counted
  <1> QED
    BY <1>6, <1>7, <1>8, <1>9, <1>10 DEF Dormant

\* A ready frame whose token is still to be given leaves room for it in the semaphore.
LEMMA RoomForToken == PoolInv => GiveNeverRefused
  <1> SUFFICES ASSUME PoolInv, encPc = "give" PROVE ready_sem < ElemNum
    BY DEF GiveNeverRefused
  <1>1. PoolExists
    BY DEF PoolInv, Dormant
  <1>2. Len(ready_list) <= ElemNum
    BY <1>1, Lengths DEF PoolInv, Counted
  <1>3. Len(ready_list) >= ready_sem + 1
    BY Lengths DEF PoolInv, TokenPerReadyFrame, InFlight, TypeOK
  <1> QED
    BY <1>2, <1>3, Lengths, ElemNumAssumption DEF PoolInv, TypeOK

\* The semaphore calls and the yield move no buffer.
LEMMA TokenPool ==
    ASSUME PoolInv, FeedGive \/ DetectTake \/ DetectYield
    PROVE  PoolInv'
  <1> USE DEF PoolInv
  <1>1. /\ UNCHANGED <<feed, free_list, ready_list, checked_out, frame_no, encElem,
                        detElem, ahead>>
        /\ PoolExists
    BY DEF FeedGive, DetectTake, DetectYield, pool, enc, det, PoolExists, Dormant
  <1>2. Held' = Held /\ PoolExists'
    BY <1>1 DEF Held, PoolExists
  <1>3. TypeOK' /\ TokenPerReadyFrame'
    <2>1. CASE FeedGive
      <3>1. encPc = "give" /\ ready_sem' = ready_sem + 1 /\ encPc' = "loop" /\ detPc' = detPc
        BY <2>1, RoomForToken, ElemNumAssumption
           DEF FeedGive, GiveSem, GiveNeverRefused, TypeOK, det
      <3>2. ready_sem' \in 0 .. ElemNum
        BY <3>1, RoomForToken, ElemNumAssumption DEF GiveNeverRefused, TypeOK
      <3> QED
        BY <1>1, <3>1, <3>2 DEF TypeOK, TokenPerReadyFrame, InFlight
    <2>2. CASE DetectTake
      <3>1. /\ detPc = "recv" /\ ready_sem > 0 /\ ready_sem' = ready_sem - 1
            /\ detPc' = "pop" /\ encPc' = encPc
        BY <2>2 DEF DetectTake, enc
      <3>2. ready_sem' \in 0 .. ElemNum
        BY <3>1, ElemNumAssumption DEF TypeOK
      <3> QED
        BY <1>1, <3>1, <3>2 DEF TypeOK, TokenPerReadyFrame, InFlight
    <2>3. CASE DetectYield
      BY <1>1, <2>3 DEF DetectYield, enc, TypeOK, TokenPerReadyFrame, InFlight
    <2> QED
      BY <2>1, <2>2, <2>3
  <1>4. OnePlace' /\ Counted' /\ Dormant'
    BY <1>1, <1>2 DEF OnePlace, NoDuplicates, PlacesDisjoint, FlagAgrees, NothingLost,
       Counted, One, Dormant
  <1> QED
    BY <1>3, <1>4

\* detect_task with a token in hand finds the ready list non-empty.
LEMMA TokenMeansFrame == ASSUME PoolInv, detPc = "pop" PROVE ready_list # <<>>
  <1>1. Len(ready_list) >= 1
    BY Lengths DEF PoolInv, TokenPerReadyFrame, InFlight, TypeOK
  <1> QED
    BY <1>1, NoElements

\* A buffer that leaves the head of the ready list was there alone.
LEMMA PopPool == ASSUME PoolInv, DetectPop PROVE PoolInv'
  <1> USE DEF PoolInv
  <1> DEFINE e == Head(ready_list)
  <1>1. /\ detPc = "pop" /\ detElem = NULL /\ ready_list # <<>>
        /\ ready_list' = Tail(ready_list) /\ checked_out' = [checked_out EXCEPT ![e] = TRUE]
        /\ detElem' = e /\ detPc' = "infer"
        /\ UNCHANGED <<feed, free_list, ready_sem, frame_no, encPc, encElem, ahead>>
    BY TokenMeansFrame DEF DetectPop, enc, TypeOK
  <1>2. /\ e \in Elem /\ Tail(ready_list) \in Seq(Elem)
        /\ Len(ready_list') = Len(ready_list) - 1
        /\ Range(ready_list) = {e} \cup Range(ready_list')
        /\ e \notin Range(ready_list') /\ IsInjective(ready_list')
    BY <1>1, HeadRemoved DEF TypeOK, OnePlace, NoDuplicates
  <1>3. e # NULL
    BY <1>2, ElemNumAssumption DEF Elem, NULL
  <1>4. TypeOK'
    BY <1>1, <1>2, <1>3 DEF TypeOK
  <1>5. Held' = Held \cup {e} /\ e \notin Held /\ encElem # e
    BY <1>1, <1>2, <1>3 DEF Held, OnePlace, PlacesDisjoint
  <1>6. OnePlace'
    <2>1. NoDuplicates' /\ PlacesDisjoint'
      BY <1>1, <1>2, <1>3, <1>5 DEF OnePlace, NoDuplicates, PlacesDisjoint
    <2>2. FlagAgrees'
      BY <1>1, <1>2, <1>5 DEF OnePlace, FlagAgrees, TypeOK
    <2>3. NothingLost'
      BY <1>1, <1>2, <1>5 DEF OnePlace, NothingLost, PoolExists
    <2> QED
      BY <2>1, <2>2, <2>3 DEF OnePlace
  <1>7. TokenPerReadyFrame'
    BY <1>1, <1>2, Lengths DEF TokenPerReadyFrame, InFlight, TypeOK
  <1>8. PoolExists /\ PoolExists'
    BY <1>1 DEF Dormant, PoolExists
  <1>9. Counted'
    <2>1. One(detElem) = 0 /\ One(detElem') = 1 /\ One(encElem') = One(encElem)
      BY <1>1, <1>3 DEF One
    <2> QED
      BY <1>1, <1>2, <1>8, <2>1, Lengths DEF Counted
  <1> QED
    BY <1>4, <1>6, <1>7, <1>8, <1>9 DEF Dormant

-----------------------------------------------------------------------------

\* PoolInv is inductive.
THEOREM PoolInvariant == Spec => []PoolInv
  <1>1. PoolInv /\ [Next]_vars => PoolInv'
    <2> SUFFICES ASSUME PoolInv, [Next]_vars PROVE PoolInv'
      OBVIOUS
    <2>1. CASE Start
      BY <2>1, StartPool
    <2>2. CASE FeedSkip
      BY <2>2, SkipPool
    <2>3. CASE FeedAcquire
      BY <2>3, AcquirePool
    <2>4. CASE FeedDiscard
      BY <2>4, DiscardPool
    <2>5. CASE FeedPublish
      BY <2>5, PublishPool
    <2>6. CASE FeedGive \/ DetectTake \/ DetectYield
      BY <2>6, TokenPool
    <2>7. CASE DetectPop
      BY <2>7, PopPool
    <2>8. CASE DetectRelease
      BY <2>8, ReleasePool
    <2>9. CASE UNCHANGED vars
      BY <2>9 DEF vars, pool, enc, det, PoolInv, TypeOK, Dormant, OnePlace, NoDuplicates,
         PlacesDisjoint, FlagAgrees, NothingLost, TokenPerReadyFrame, Counted, One, InFlight,
         Held, PoolExists
    <2> QED
      BY <2>1, <2>2, <2>3, <2>4, <2>5, <2>6, <2>7, <2>8, <2>9 DEF Next, Feed, Detect
  <1> QED
    BY InitPool, <1>1, PTL DEF Spec

\* The variables stay in their types: a task holds a buffer exactly where its code does.
THEOREM PoolTypes == Spec => []TypeOK
  BY PoolInvariant, PTL DEF PoolInv

\* Every element is in exactly one of three places (frame_pool.hpp:12), for every pool
\* size and every interleaving of the two tasks' critical sections.
THEOREM OneOwner == Spec => []OnePlace
  BY PoolInvariant, PTL DEF PoolInv

\* The semaphore and the ready list agree up to the half-done calls, although
\* frame_pool_submit() gives the token after it has dropped the lock.
THEOREM SemaphoreAgrees == Spec => []TokenPerReadyFrame
  BY PoolInvariant, PTL DEF PoolInv

\* xSemaphoreGive() in frame_pool_submit() never finds the semaphore full.
THEOREM NoTokenLost == Spec => []GiveNeverRefused
  BY PoolInvariant, RoomForToken, PTL

-----------------------------------------------------------------------------
(* The frame pool keeps the ownership cycle of FrameHandoff, for any       *)
(* number of buffers: every step of FramePool is a step of one buffer      *)
(* round the cycle, the creation of the pool, or no step.                  *)

OwnerMap == [e \in Elem |-> Owner(e)]

Places ==
    \A e \in Elem :
        /\ Owner(e) = "free" <=> e \in Range(free_list)
        /\ Owner(e) = "ready" <=> e \in Range(ready_list)
        /\ Owner(e) = "producer" <=> e = encElem
        /\ Owner(e) = "consumer" <=> e = detElem
        /\ Owner(e) = "nobody" <=> ~PoolExists
        /\ Owner(e) \in {"free", "ready", "producer", "consumer", "nobody"}

\* The owner of a buffer is the one place it is in.
LEMMA OwnerIsPlace == PoolInv => Places
  <1> SUFFICES ASSUME PoolInv, NEW e \in Elem
               PROVE  /\ Owner(e) = "free" <=> e \in Range(free_list)
                      /\ Owner(e) = "ready" <=> e \in Range(ready_list)
                      /\ Owner(e) = "producer" <=> e = encElem
                      /\ Owner(e) = "consumer" <=> e = detElem
                      /\ Owner(e) = "nobody" <=> ~PoolExists
                      /\ Owner(e) \in {"free", "ready", "producer", "consumer", "nobody"}
    BY DEF Places
  <1>1. e # NULL
    BY ElemNumAssumption DEF Elem, NULL
  <1>2. /\ ~(e \in Range(free_list) /\ e \in Range(ready_list))
        /\ e = encElem => e \notin Range(free_list) /\ e \notin Range(ready_list) /\ e # detElem
        /\ e = detElem => e \notin Range(free_list) /\ e \notin Range(ready_list)
    BY <1>1 DEF PoolInv, OnePlace, PlacesDisjoint, Held
  <1>3. ~PoolExists => /\ e \notin Range(free_list) /\ e \notin Range(ready_list)
                       /\ e # encElem /\ e # detElem
    BY <1>1, NoElements DEF PoolInv, Dormant, TypeOK
  <1>4. PoolExists => \/ e \in Range(free_list) \/ e \in Range(ready_list)
                      \/ e = encElem \/ e = detElem
    BY DEF PoolInv, OnePlace, NothingLost, Held
  <1> QED
    BY <1>2, <1>3, <1>4 DEF Owner

\* Only a task that ped_start() created ever leaves its wait.
Served == detPc # "recv" => feed = "running"

\* x is in the same place before and after a step.
Stays(x) ==
    /\ x \in Range(free_list)' <=> x \in Range(free_list)
    /\ x \in Range(ready_list)' <=> x \in Range(ready_list)
    /\ x = encElem' <=> x = encElem
    /\ x = detElem' <=> x = detElem

\* A step that changes the place of one buffer moves it once round the cycle.
LEMMA OneMoves ==
    ASSUME Places, Places', feed' = feed, NEW e \in Elem, NEW from, NEW to,
           Owner(e) = from, Owner(e)' = to, \A x \in Elem : x # e => Stays(x)
    PROVE  Handoff!Move(e, from, to)
  <1>1. \A x \in Elem : x # e => Owner(x)' = Owner(x)
    <2> SUFFICES ASSUME NEW x \in Elem, x # e PROVE Owner(x)' = Owner(x)
      OBVIOUS
    <2>1. Stays(x) /\ (PoolExists' <=> PoolExists)
      BY DEF PoolExists
    <2> QED
      BY <2>1 DEF Places, Stays
  <1>2. OwnerMap' = [OwnerMap EXCEPT ![e] = to]
    BY <1>1 DEF OwnerMap
  <1>3. OwnerMap[e] = from
    BY DEF OwnerMap
  <1> QED
    BY <1>2, <1>3 DEF Handoff!Move, OwnerMap

\* A step that changes no place stutters.
LEMMA NoneMoves ==
    ASSUME Places, Places', feed' = feed, \A x \in Elem : Stays(x)
    PROVE  UNCHANGED Handoff!vars
  <1>1. \A x \in Elem : Owner(x)' = Owner(x)
    <2>1. PoolExists' <=> PoolExists
      BY DEF PoolExists
    <2> QED
      BY <2>1 DEF Places, Stays
  <1> QED
    BY <1>1 DEF Handoff!vars

\* Nobody is held by a side whose register is NULL.
LEMMA EmptyHands ==
    ASSUME Places, NULL \notin Elem
    PROVE  /\ encElem = NULL => Handoff!HeldBy("producer") = {}
           /\ detElem = NULL => Handoff!HeldBy("consumer") = {}
  BY DEF Places, Handoff!HeldBy

\* The pool's initial state is the cycle's.
LEMMA HandoffInit == Init => Handoff!Init
  <1> SUFFICES ASSUME Init PROVE Handoff!Init
    OBVIOUS
  <1>1. PoolInv /\ feed = "off"
    BY InitPool DEF Init
  <1>2. Places /\ ~PoolExists
    BY <1>1, OwnerIsPlace DEF PoolExists
  <1>3. \A e \in Elem : Owner(e) = "nobody"
    BY <1>2 DEF Places
  <1> QED
    BY <1>1, <1>3 DEF Handoff!Init

-----------------------------------------------------------------------------
(* One lemma per kind of step.                                             *)

\* ped_start() is the creation of the pool, or nothing.
LEMMA StartStep ==
    ASSUME PoolInv, PoolInv', Places, Places', Start
    PROVE  Handoff!Create \/ UNCHANGED Handoff!vars
  <1>1. PICK result \in StartResults : feed = "off" /\ feed' = result
    BY DEF Start, PedStart
  <1>2. \A e \in Elem : Owner(e) = "nobody"
    BY <1>1 DEF Places, PoolExists
  <1>3. CASE result = "no_pool"
    <2>1. \A e \in Elem : Owner(e)' = "nobody"
      BY <1>1, <1>3 DEF Places, PoolExists
    <2>2. (feed' = "running") = (feed = "running")
      BY <1>1, <1>3
    <2> QED
      BY <1>2, <2>1, <2>2 DEF Handoff!vars
  <1>4. CASE result # "no_pool"
    <2>1. PoolExists' /\ ~PoolExists
      BY <1>1, <1>4 DEF PoolExists, StartResults
    <2>2. free_list' = NewFreeList
      BY <1>1, <1>4 DEF Start, PedStart
    <2>3. \A e \in Elem : Owner(e)' = "free"
      BY <2>2, NewFreeListFull DEF Places
    <2>4. Handoff!HeldBy("nobody") = Elem
      BY <1>2 DEF Handoff!HeldBy
    <2>5. ~(feed = "running") /\ (feed' = "running") \in BOOLEAN
      BY <1>1
    <2> QED
      BY <2>3, <2>4, <2>5 DEF Handoff!Create
  <1> QED
    BY <1>3, <1>4

\* Each step of video_enc's feed moves its buffer or none.
LEMMA FeedStep ==
    ASSUME PoolInv, PoolInv', Places, Places', Feed, NULL \notin Elem
    PROVE  Handoff!Next \/ UNCHANGED Handoff!vars
  <1>1. CASE FeedAcquire
    <2>0. /\ feed' = feed /\ encElem = NULL /\ encElem' = Head(free_list)
          /\ free_list # <<>> /\ free_list' = Tail(free_list)
          /\ UNCHANGED <<ready_list, detElem>>
      BY <1>1 DEF FeedAcquire, PopFree, det, PoolInv, TypeOK
    <2>1. PICK e \in Elem : e = Head(free_list)
      BY <2>0, HeadRemoved DEF PoolInv, TypeOK
    <2>2. /\ Range(free_list) = {e} \cup Range(free_list') /\ e \notin Range(free_list')
          /\ encElem' = e
      BY <2>0, <2>1, HeadRemoved DEF PoolInv, TypeOK, OnePlace, NoDuplicates
    <2>3. \A x \in Elem : x # e => Stays(x)
      BY <2>0, <2>2 DEF Stays
    <2>4. Owner(e) = "free" /\ Owner(e)' = "producer"
      BY <2>1, <2>2 DEF Places
    <2>5. Handoff!HeldBy("producer") = {}
      BY <2>0, EmptyHands
    <2>6. Handoff!Move(e, "free", "producer")
      BY <2>0, <2>3, <2>4, OneMoves
    <2> QED
      BY <2>5, <2>6 DEF Handoff!Next, Handoff!Acquire
  <1>2. CASE FeedDiscard
    <2>0. /\ feed' = feed /\ encElem \in Held /\ PushFree(encElem) /\ encElem' = NULL
          /\ UNCHANGED detElem
      BY <1>2 DEF FeedDiscard, det, PoolInv, TypeOK, Held
    <2>1. PICK e \in Elem : e = encElem
      BY <2>0, PushedFree
    <2>2. /\ Range(free_list') = {e} \cup Range(free_list)
          /\ UNCHANGED ready_list
      BY <2>0, <2>1, PushedFree
    <2>3. \A x \in Elem : x # e => Stays(x)
      BY <2>0, <2>1, <2>2 DEF Stays
    <2>4. Owner(e) = "producer" /\ Owner(e)' = "free"
      BY <2>1, <2>2 DEF Places
    <2>5. Handoff!Move(e, "producer", "free")
      BY <2>0, <2>3, <2>4, OneMoves
    <2> QED
      BY <2>5 DEF Handoff!Next, Handoff!Discard
  <1>3. CASE FeedPublish
    <2>0. /\ feed' = feed /\ encElem \in Elem /\ encElem \in Held /\ encElem' = NULL
          /\ UNCHANGED <<free_list, detElem>>
      BY <1>3 DEF FeedPublish, det, PoolInv, TypeOK, Held
    <2>1. PICK e \in Elem : e = encElem
      BY <2>0
    <2>2. checked_out[e]
      BY <2>0, <2>1 DEF PoolInv, OnePlace, FlagAgrees
    <2>3. ready_list' = <<e>> \o ready_list
      BY <1>3, <2>1, <2>2 DEF FeedPublish, Push
    <2>4. Range(ready_list') = {e} \cup Range(ready_list)
      BY <2>3, HeadInserted DEF PoolInv, TypeOK
    <2>5. \A x \in Elem : x # e => Stays(x)
      BY <2>0, <2>1, <2>4 DEF Stays
    <2>6. Owner(e) = "producer" /\ Owner(e)' = "ready"
      BY <2>1, <2>4 DEF Places
    <2>7. Handoff!Move(e, "producer", "ready")
      BY <2>0, <2>5, <2>6, OneMoves
    <2> QED
      BY <2>7 DEF Handoff!Next, Handoff!Submit
  <1>4. CASE FeedSkip \/ FeedGive
    <2>1. feed' = feed /\ UNCHANGED <<free_list, ready_list, encElem, detElem>>
      BY <1>4 DEF FeedSkip, FeedGive, pool, det
    <2>2. \A x \in Elem : Stays(x)
      BY <2>1 DEF Stays
    <2> QED
      BY <2>1, <2>2, NoneMoves
  <1> QED
    BY <1>1, <1>2, <1>3, <1>4 DEF Feed

\* Each step of detect_task moves its buffer or none.
LEMMA DetectStep ==
    ASSUME PoolInv, PoolInv', Places, Places', Detect, NULL \notin Elem,
           Served
    PROVE  Handoff!Next \/ UNCHANGED Handoff!vars
  <1>1. CASE DetectPop
    <2>0. /\ feed' = feed /\ feed = "running" /\ detElem = NULL
          /\ detElem' = Head(ready_list)
          /\ ready_list # <<>> /\ ready_list' = Tail(ready_list)
          /\ UNCHANGED <<free_list, encElem>>
      BY <1>1, TokenMeansFrame DEF DetectPop, enc, PoolInv, TypeOK, Served
    <2>1. PICK e \in Elem : e = Head(ready_list)
      BY <2>0, HeadRemoved DEF PoolInv, TypeOK
    <2>2. /\ Range(ready_list) = {e} \cup Range(ready_list') /\ e \notin Range(ready_list')
          /\ detElem' = e
      BY <2>0, <2>1, HeadRemoved DEF PoolInv, TypeOK, OnePlace, NoDuplicates
    <2>3. \A x \in Elem : x # e => Stays(x)
      BY <2>0, <2>2 DEF Stays
    <2>4. Owner(e) = "ready" /\ Owner(e)' = "consumer"
      BY <2>1, <2>2 DEF Places
    <2>5. Handoff!HeldBy("consumer") = {}
      BY <2>0, EmptyHands
    <2>6. Handoff!Move(e, "ready", "consumer")
      BY <2>0, <2>3, <2>4, OneMoves
    <2> QED
      BY <2>0, <2>5, <2>6 DEF Handoff!Next, Handoff!Receive
  <1>2. CASE DetectRelease
    <2>0. /\ feed' = feed /\ detElem \in Held /\ PushFree(detElem) /\ detElem' = NULL
          /\ UNCHANGED encElem
      BY <1>2 DEF DetectRelease, enc, PoolInv, TypeOK, Held
    <2>1. PICK e \in Elem : e = detElem
      BY <2>0, PushedFree
    <2>2. /\ Range(free_list') = {e} \cup Range(free_list)
          /\ UNCHANGED ready_list
      BY <2>0, <2>1, PushedFree
    <2>3. \A x \in Elem : x # e => Stays(x)
      BY <2>0, <2>1, <2>2 DEF Stays
    <2>4. Owner(e) = "consumer" /\ Owner(e)' = "free"
      BY <2>1, <2>2 DEF Places
    <2>5. Handoff!Move(e, "consumer", "free")
      BY <2>0, <2>3, <2>4, OneMoves
    <2> QED
      BY <2>5 DEF Handoff!Next, Handoff!Release
  <1>3. CASE DetectTake \/ DetectYield
    <2>1. feed' = feed /\ UNCHANGED <<free_list, ready_list, encElem, detElem>>
      BY <1>3 DEF DetectTake, DetectYield, pool, enc
    <2>2. \A x \in Elem : Stays(x)
      BY <2>1 DEF Stays
    <2> QED
      BY <2>1, <2>2, NoneMoves
  <1> QED
    BY <1>1, <1>2, <1>3 DEF Detect

-----------------------------------------------------------------------------

\* detect_task takes steps only when ped_start() got as far as creating it.
LEMMA ServedAlways == Spec => []Served
  <1>1. Init => Served
    BY DEF Init, Served
  <1>2. Served /\ [Next]_vars => Served'
    BY DEF Served, Next, vars, enc, det, Start, PedStart, Feed, FeedSkip, FeedAcquire,
       FeedDiscard, FeedPublish, FeedGive, Detect, DetectTake, DetectPop, DetectRelease,
       DetectYield
  <1> QED
    BY <1>1, <1>2, PTL DEF Spec

\* The lists, flags and semaphore calls of frame_pool.cpp implement the ownership cycle
\* of frame_pool.hpp:12, for every pool size: a buffer has one owner, and goes from free
\* to the encoder's side, to ready or back, to the detector, and to free.
THEOREM PoolKeepsCycle == Spec => OwnershipCycle
  <1>1. NULL \notin Elem
    BY ElemNumAssumption DEF Elem, NULL
  <1>2. Init => Handoff!Init
    BY HandoffInit
  <1>3. /\ PoolInv /\ PoolInv' /\ Places /\ Places' /\ Served /\ [Next]_vars
        => [Handoff!Next]_(Handoff!vars)
    <2> SUFFICES ASSUME PoolInv, PoolInv', Places, Places', Served, [Next]_vars
                 PROVE  Handoff!Next \/ UNCHANGED Handoff!vars
      OBVIOUS
    <2>1. CASE Start
      BY <2>1, StartStep DEF Handoff!Next
    <2>2. CASE Feed
      BY <1>1, <2>2, FeedStep
    <2>3. CASE Detect
      BY <1>1, <2>3, DetectStep
    <2>4. CASE UNCHANGED vars
      <3>1. feed' = feed /\ \A x \in Elem : Stays(x)
        BY <2>4 DEF vars, pool, enc, det, Stays
      <3> QED
        BY <3>1, NoneMoves
    <2> QED
      BY <2>1, <2>2, <2>3, <2>4 DEF Next
  <1> QED
    BY <1>2, <1>3, OwnerIsPlace, PoolInvariant, ServedAlways, PTL
       DEF Spec, OwnershipCycle, Handoff!Spec
=============================================================================
