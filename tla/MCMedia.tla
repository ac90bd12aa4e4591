------------------------------- MODULE MCMedia ------------------------------
(* A small instance of Media for TLC: see the cfg file.  The codec between *)
(* the microphone and the ring is a function; TLC evaluates what is said   *)
(* of it here, over all bytes and samples.                                 *)
EXTENDS Media

Codec == INSTANCE G711

ASSUME CodecAssumption ==
    /\ Codec!BytesAreStable
    /\ Codec!ErrorIsHalfAStep
    /\ Codec!CurveIsMonotone
=============================================================================
