----------------------------- MODULE MCSignaling ----------------------------
(* Small instances of Signaling for TLC: see the cfg files.                *)
EXTENDS Signaling

StunAndTurn == <<"stun", "turn">>
NoServers == <<>>
=============================================================================
