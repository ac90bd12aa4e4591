----------------------------- MODULE FrameQueue -----------------------------
(***************************************************************************)
(* What a media ring promises its two sides: the frames that were accepted *)
(* come out whole, once each, in the order they were accepted.             *)
(***************************************************************************)
EXTENDS Sequences

CONSTANT Frame         \* the frames that can be sent

VARIABLES
    queue,             \* the frames accepted and not yet taken
    out                \* the frame taken last, <<>> before the first

vars == <<queue, out>>

Init == queue = <<>> /\ out = <<>>

Put(f) == queue' = Append(queue, f) /\ UNCHANGED out

Take ==
    /\ queue # <<>>
    /\ out' = Head(queue)
    /\ queue' = Tail(queue)

Next == (\E f \in Frame : Put(f)) \/ Take

Spec == Init /\ [][Next]_vars
=============================================================================
