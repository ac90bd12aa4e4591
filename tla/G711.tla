-------------------------------- MODULE G711 --------------------------------
(***************************************************************************)
(* The A-law codec, core/g711.c: what task_audio makes of each sample of   *)
(* the microphone and task_speaker of each byte of the browser.            *)
(***************************************************************************)
EXTENDS Integers

Sample == -32768 .. 32767
Byte == 0 .. 255

Bit(b, k) == (b \div 2 ^ k) % 2

\* b ^ 0x55, which inverts every other bit.
EvenBitsInverted(b) == b + (1 - 2 * Bit(b, 0)) + 4 * (1 - 2 * Bit(b, 2))
                         + 16 * (1 - 2 * Bit(b, 4)) + 64 * (1 - 2 * Bit(b, 6))

-----------------------------------------------------------------------------
(* g711a_encode()                                                          *)

\* The one's complement of a negative sample, so that -32768 has a magnitude as well.
Magnitude(sample) == (IF sample < 0 THEN -sample - 1 ELSE sample) \div 8

seg_end == [seg \in 0 .. 7 |-> 2 ^ (seg + 5) - 1]

\* The first segment whose end is not below pcm.
Segment(pcm) ==
    CHOOSE seg \in 0 .. 7 : pcm <= seg_end[seg] /\ (seg > 0 => pcm > seg_end[seg - 1])

Mantissa(pcm, seg) == (pcm \div (IF seg < 2 THEN 2 ELSE 2 ^ seg)) % 16

\* The mask's top bit, 0xD5 against 0x55, is the sign.
Encode(sample) ==
    LET pcm == Magnitude(sample)
        aval == IF pcm > seg_end[7] THEN 127
                ELSE 16 * Segment(pcm) + Mantissa(pcm, Segment(pcm))
    IN  EvenBitsInverted(aval) + (IF sample >= 0 THEN 128 ELSE 0)

-----------------------------------------------------------------------------
(* g711a_decode()                                                          *)

\* The middle of the interval the mantissa stands for.
Level(seg, mantissa) ==
    IF seg = 0 THEN 16 * mantissa + 8
    ELSE (16 * mantissa + 264) * 2 ^ (seg - 1)

Decode(byte) ==
    LET code == EvenBitsInverted(byte)
        t == Level((code \div 16) % 8, code % 16)
    IN  IF code >= 128 THEN t ELSE -t

-----------------------------------------------------------------------------
(* What the codec promises, for every byte and every sample                *)

Heard(sample) == Decode(Encode(sample))

\* The width of a quantisation interval in a segment, on the 16-bit scale.
Step(seg) == IF seg < 2 THEN 16 ELSE 2 ^ (seg + 3)

\* The codec is stable: a byte that is decoded and encoded again is itself, so no level
\* is out of its own interval and no two bytes mean the same level.
BytesAreStable == \A byte \in Byte : Encode(Decode(byte)) = byte

\* Every sample, the most negative one and the ends of the segments included, is heard
\* within half an interval, and none is clipped.
ErrorIsHalfAStep ==
    \A sample \in Sample :
        LET half == Step(Segment(Magnitude(sample))) \div 2
        IN  Heard(sample) - sample \in -half .. half

\* A louder sample is never heard softer, and the two halves of the range are mirrored.
CurveIsMonotone ==
    \A sample \in Sample \ {32767} :
        /\ Heard(sample) <= Heard(sample + 1)
        /\ Heard(-sample - 1) = -Heard(sample)
=============================================================================
