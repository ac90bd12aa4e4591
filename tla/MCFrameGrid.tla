---------------------------- MODULE MCFrameGrid -----------------------------
(* Small instances of FrameGrid for TLC: see the cfg files.                *)
EXTENDS FrameGrid
=============================================================================
