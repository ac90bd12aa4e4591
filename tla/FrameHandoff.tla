---------------------------- MODULE FrameHandoff ----------------------------
(***************************************************************************)
(* What a frame pool promises: every buffer has one owner at a time, and   *)
(* ownership moves round one cycle                                         *)
(*                                                                         *)
(*      free -> producer -> ready -> consumer -> free                      *)
(*                 |                                                       *)
(*                 +--> free           (the frame is discarded)            *)
(*                                                                         *)
(* with at most one buffer in the hands of each side.  This is the         *)
(* contract in the header comment of main/core/frame_pool.hpp; FramePool   *)
(* is the code that has to keep it.                                        *)
(***************************************************************************)

CONSTANT Elem          \* the buffers of the pool

VARIABLES
    owner,             \* who may touch each buffer
    serving            \* TRUE once a consumer task exists

vars == <<owner, serving>>

Owners == {"nobody", "free", "producer", "ready", "consumer"}

\* Every buffer has one owner.
TypeOK == owner \in [Elem -> Owners] /\ serving \in BOOLEAN

Init == owner = [e \in Elem |-> "nobody"] /\ serving = FALSE

Move(e, from, to) ==
    /\ owner[e] = from
    /\ owner' = [owner EXCEPT ![e] = to]
    /\ UNCHANGED serving

HeldBy(who) == {e \in Elem : owner[e] = who}

\* The pool comes into being with every buffer free, with or without a consumer.
Create ==
    /\ HeldBy("nobody") = Elem
    /\ ~serving
    /\ owner' = [e \in Elem |-> "free"]
    /\ serving' \in BOOLEAN

Acquire(e) == HeldBy("producer") = {} /\ Move(e, "free", "producer")
Discard(e) == Move(e, "producer", "free")
Submit(e) == Move(e, "producer", "ready")
Receive(e) == serving /\ HeldBy("consumer") = {} /\ Move(e, "ready", "consumer")
Release(e) == Move(e, "consumer", "free")

Next ==
    \/ Create
    \/ \E e \in Elem :
          Acquire(e) \/ Discard(e) \/ Submit(e) \/ Receive(e) \/ Release(e)

Spec == Init /\ [][Next]_vars
=============================================================================
