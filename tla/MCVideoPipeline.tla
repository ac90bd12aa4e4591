-------------------------- MODULE MCVideoPipeline ---------------------------
(* Small instances of VideoPipeline for TLC: see the cfg files.            *)
EXTENDS VideoPipeline
=============================================================================
