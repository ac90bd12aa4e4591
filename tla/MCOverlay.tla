----------------------------- MODULE MCOverlay ------------------------------
(* Small instances of Overlay for TLC: see the cfg files.                  *)
EXTENDS Overlay

Box(xa, ya, xb, yb) == [x1 |-> xa, y1 |-> ya, x2 |-> xb, y2 |-> yb]

\* On a frame of 16 x 16 at scale 2: two boxes one above the other, the first over the
\* frame's corner, whose bands are four ranges; and one over the opposite corner, with its
\* corners swapped, whose bands abut each other and take in both bands of the second.
Boxes == {Box(-1, -1, 4, 3), Box(1, 4, 6, 7), Box(9, 8, 5, 5)}
=============================================================================
