----------------------------- MODULE MCMediaRing -----------------------------
EXTENDS MediaRing
=============================================================================
