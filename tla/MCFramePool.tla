---------------------------- MODULE MCFramePool -----------------------------
(* Small instances of FramePool for TLC: see the cfg files.                *)
EXTENDS FramePool
=============================================================================
