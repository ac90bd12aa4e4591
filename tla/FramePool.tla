----------------------------- MODULE FramePool ------------------------------
(***************************************************************************)
(* The detector's frame pool (main/core/frame_pool.cpp) with the two tasks *)
(* that use it: video_enc, through feed_detector() in task_video.cpp and   *)
(* the detector_pedestrian interface, and detect_task in task_detect.cpp.  *)
(* The tasks run on different cores, so any step of one can fall between   *)
(* two steps of the other.                                                 *)
(*                                                                         *)
(* An action is one critical section of the pool's spinlock or one         *)
(* semaphore call.  frame_pool_submit() is therefore two steps (push under *)
(* the lock, then give), and so is frame_pool_recv() (take, then pop).     *)
(***************************************************************************)
EXTENDS Integers, Sequences, Functions

CONSTANTS
    ElemNum,           \* DET_FEED_ELEMENTS, buffers in the pool
    FeedEveryN,        \* DET_FEED_EVERY_N, encoded frames per fed frame
    MaxAhead           \* bound: the history variable `ahead` saturates here

ASSUME ElemNumAssumption == ElemNum \in Nat \ {0}
ASSUME FeedAssumption == FeedEveryN \in Nat \ {0}
ASSUME AheadAssumption == MaxAhead \in Nat

Elem == 0 .. ElemNum - 1
NULL == -1

VARIABLES
    feed,              \* how far ped_start() got
    free_list,         \* SLIST, head first
    ready_list,        \* SLIST, head first
    checked_out,       \* the flag of each element
    ready_sem,         \* count of the counting semaphore
    frame_no,          \* feed_detector()'s static counter, modulo FeedEveryN
    encPc, encElem,    \* video_enc: where it is in feed_detector(), in.token
    detPc, detElem,    \* detect_task: where it is in its loop, elem
    ahead              \* history: frames submitted since each buffer's frame was

pool == <<free_list, ready_list, checked_out>>
enc == <<frame_no, encPc, encElem>>
det == <<detPc, detElem>>
vars == <<feed, pool, ready_sem, enc, det, ahead>>

-----------------------------------------------------------------------------
(* frame_pool.cpp                                                          *)

Push(list, e) == <<e>> \o list

\* list_push() refuses an element that is not checked out.
PushFree(e) ==
    IF checked_out[e]
    THEN /\ checked_out' = [checked_out EXCEPT ![e] = FALSE]
         /\ free_list' = Push(free_list, e)
         /\ UNCHANGED ready_list
    ELSE UNCHANGED pool

\* frame_pool_new(): the elements are pushed in index order, so the last is the head.
NewFreeList == [i \in 1 .. ElemNum |-> ElemNum - i]

\* frame_pool_acquire() on a non-empty free list.
PopFree ==
    /\ free_list # <<>>
    /\ free_list' = Tail(free_list)
    /\ checked_out' = [checked_out EXCEPT ![Head(free_list)] = TRUE]
    /\ UNCHANGED ready_list

\* Mutant: a binary semaphore in place of the counting one.
GiveSem_Binary == ready_sem' = 1

\* xSemaphoreGive() on a counting semaphore of ElemNum; the result is ignored.
GiveSem == ready_sem' = IF ready_sem < ElemNum THEN ready_sem + 1 ELSE ready_sem

-----------------------------------------------------------------------------
(* ped_start(): each step can run out of memory, and what an earlier step  *)
(* made stays. task_video() goes on without a detector in every case.      *)

StartResults == {"no_pool", "no_mutex", "no_model", "no_task", "running"}

Init ==
    /\ feed = "off"
    /\ free_list = <<>> /\ ready_list = <<>>
    /\ checked_out = [e \in Elem |-> FALSE]
    /\ ready_sem = 0
    /\ frame_no = 0
    /\ encPc = "loop" /\ encElem = NULL
    /\ detPc = "recv" /\ detElem = NULL
    /\ ahead = [e \in Elem |-> 0]

\* A frame_pool_new() that fails part way deletes what it made and leaves s_feed NULL.
PedStart(result) ==
    /\ feed = "off"
    /\ feed' = result
    /\ free_list' = IF result = "no_pool" THEN <<>> ELSE NewFreeList
    /\ UNCHANGED <<ready_list, checked_out, ready_sem, enc, det, ahead>>

-----------------------------------------------------------------------------
(* video_enc: feed_detector(), once per encoded frame                      *)

FeedTurn == frame_no = 0
NextFrame == frame_no' = (frame_no + 1) % FeedEveryN

\* Not this frame's turn, or the detector holds every buffer: keep encoding.
FeedSkip ==
    /\ feed # "off" /\ encPc = "loop"
    /\ ~FeedTurn \/ free_list = <<>>
    /\ NextFrame
    /\ UNCHANGED <<feed, pool, ready_sem, encPc, encElem, det, ahead>>

FeedAcquire ==
    /\ feed # "off" /\ encPc = "loop"
    /\ FeedTurn
    /\ NextFrame
    /\ PopFree
    /\ encElem' = Head(free_list)
    /\ encPc' = "filling"
    /\ UNCHANGED <<feed, ready_sem, det, ahead>>

\* Mutant: the PPA failure returns without ped_discard().
FeedDiscard_Forgotten ==
    /\ encPc = "filling"
    /\ encPc' = "loop" /\ encElem' = NULL
    /\ UNCHANGED <<feed, pool, ready_sem, frame_no, det, ahead>>

\* The PPA failed: ped_discard() puts the buffer back unused.
FeedDiscard ==
    /\ encPc = "filling"
    /\ PushFree(encElem)
    /\ encPc' = "loop" /\ encElem' = NULL
    /\ UNCHANGED <<feed, ready_sem, frame_no, det, ahead>>

Saturated(n) == IF n < MaxAhead THEN n + 1 ELSE n

\* First half of frame_pool_submit(): list_push() onto the ready list.
FeedPublish ==
    /\ encPc = "filling"
    /\ IF checked_out[encElem]
       THEN /\ checked_out' = [checked_out EXCEPT ![encElem] = FALSE]
            /\ ready_list' = Push(ready_list, encElem)
            /\ encPc' = "give"
            /\ ahead' = [e \in Elem |-> IF e = encElem THEN 0 ELSE Saturated(ahead[e])]
       ELSE encPc' = "loop" /\ UNCHANGED <<checked_out, ready_list, ahead>>
    /\ encElem' = NULL
    /\ UNCHANGED <<feed, free_list, ready_sem, frame_no, det>>

\* Second half: the lock is already dropped when the semaphore is given.
FeedGive ==
    /\ encPc = "give"
    /\ GiveSem
    /\ encPc' = "loop"
    /\ UNCHANGED <<feed, pool, frame_no, encElem, det, ahead>>

-----------------------------------------------------------------------------
(* detect_task                                                             *)

\* Mutant: the token is looked at and left in the semaphore.
DetectTake_Peek ==
    /\ feed = "running"
    /\ detPc = "recv" /\ ready_sem > 0
    /\ detPc' = "pop"
    /\ UNCHANGED <<feed, pool, ready_sem, enc, detElem, ahead>>

DetectTake ==
    /\ feed = "running"
    /\ detPc = "recv" /\ ready_sem > 0
    /\ ready_sem' = ready_sem - 1
    /\ detPc' = "pop"
    /\ UNCHANGED <<feed, pool, enc, detElem, ahead>>

\* list_pop(); a NULL sends the task round its loop again with the token spent.
DetectPop ==
    /\ detPc = "pop"
    /\ IF ready_list = <<>>
       THEN detPc' = "recv" /\ UNCHANGED <<pool, detElem>>
       ELSE /\ ready_list' = Tail(ready_list)
            /\ checked_out' = [checked_out EXCEPT ![Head(ready_list)] = TRUE]
            /\ detElem' = Head(ready_list)
            /\ detPc' = "infer"
            /\ UNCHANGED free_list
    /\ UNCHANGED <<feed, ready_sem, enc, ahead>>

\* Mutant: the buffer is not released after the inference.
DetectRelease_Forgotten ==
    /\ detPc = "infer"
    /\ detElem' = NULL
    /\ detPc' = "delay"
    /\ UNCHANGED <<feed, pool, ready_sem, enc, ahead>>

\* s_detect->run() has read the buffer; frame_pool_release() gives it back.
DetectRelease ==
    /\ detPc = "infer"
    /\ PushFree(detElem)
    /\ detElem' = NULL
    /\ detPc' = "delay"
    /\ UNCHANGED <<feed, ready_sem, enc, ahead>>

\* vTaskDelay(1)
DetectYield ==
    /\ detPc = "delay"
    /\ detPc' = "recv"
    /\ UNCHANGED <<feed, pool, ready_sem, enc, detElem, ahead>>

-----------------------------------------------------------------------------
Start == \E result \in StartResults : PedStart(result)
Feed == FeedSkip \/ FeedAcquire \/ FeedDiscard \/ FeedPublish \/ FeedGive
Detect == DetectTake \/ DetectPop \/ DetectRelease \/ DetectYield
Next == Start \/ Feed \/ Detect

\* detect_task never blocks except on the semaphore; video_enc is not preempted
\* for ever between the push and the give (core 0 has headroom, app_config.h:360).
Fairness == WF_vars(Detect) /\ WF_vars(FeedGive)

Spec == Init /\ [][Next]_vars /\ Fairness

-----------------------------------------------------------------------------
(* Properties                                                              *)

\* The variables stay in their types; a task holds a buffer exactly where its code does.
TypeOK ==
    /\ feed \in StartResults \cup {"off"}
    /\ free_list \in Seq(Elem) /\ ready_list \in Seq(Elem)
    /\ checked_out \in [Elem -> BOOLEAN]
    /\ ready_sem \in 0 .. ElemNum
    /\ frame_no \in 0 .. FeedEveryN - 1
    /\ encPc \in {"loop", "filling", "give"}
    /\ encElem \in Elem \cup {NULL} /\ (encElem # NULL <=> encPc = "filling")
    /\ detPc \in {"recv", "pop", "infer", "delay"}
    /\ detElem \in Elem \cup {NULL} /\ (detElem # NULL <=> detPc = "infer")
    /\ ahead \in [Elem -> 0 .. MaxAhead]

PoolExists == feed \notin {"off", "no_pool"}
Held == {encElem, detElem} \ {NULL}

NoDuplicates == IsInjective(free_list) /\ IsInjective(ready_list)
PlacesDisjoint ==
    /\ Range(free_list) \cap Range(ready_list) = {}
    /\ Held \cap (Range(free_list) \cup Range(ready_list)) = {}
    /\ encElem = detElem => encElem = NULL
FlagAgrees == \A e \in Elem : checked_out[e] <=> e \in Held
NothingLost == PoolExists => Elem = Range(free_list) \cup Range(ready_list) \cup Held

\* Every element is in exactly one of three places (frame_pool.hpp:12): on one of the
\* lists, once, or checked out by one task, and its flag says so. So the PPA never
\* writes a buffer the detector reads, and list_push() never refuses.
OnePlace == NoDuplicates /\ PlacesDisjoint /\ FlagAgrees /\ NothingLost

InFlight(pc, at) == IF pc = at THEN 1 ELSE 0

\* The semaphore counts the ready list up to the half-done submit and the half-done
\* recv. So detect_task never pops an empty list with its token spent.
TokenPerReadyFrame ==
    Len(ready_list) = ready_sem + InFlight(encPc, "give") + InFlight(detPc, "pop")

\* xSemaphoreGive() fails on a full semaphore and frame_pool_submit() ignores that: a
\* frame whose token is refused is never received. The count is never full then.
GiveNeverRefused == encPc = "give" => ready_sem < ElemNum

\* A submitted frame wakes the detector: some ready frame is run.
ReadyFrameIsRun == feed = "running" /\ ready_list # <<>> ~> detPc = "infer"

\* With a running detector, feed_detector() does not find the pool empty for ever.
FreeComesBack == feed = "running" /\ free_list = <<>> ~> free_list # <<>>

Owner(e) ==
    CASE e \in Range(free_list) -> "free"
      [] e \in Range(ready_list) -> "ready"
      [] e = encElem -> "producer"
      [] e = detElem -> "consumer"
      [] OTHER -> "nobody"

Handoff == INSTANCE FrameHandoff WITH
    owner <- [e \in Elem |-> Owner(e)],
    serving <- (feed = "running")

\* The lists, flags and semaphore implement the ownership cycle of frame_pool.hpp:12.
OwnershipCycle == Handoff!Spec

\* app_config.h:179: two buffers let the camera be at most one frame ahead of the one
\* the detector works on.
AtMostOneFrameAhead == detPc = "infer" => ahead[detElem] <= 1
=============================================================================
