------------------------- MODULE MCCommandLifecycle -------------------------
EXTENDS CommandLifecycle

CONSTANTS p1, p2

OnePeer == <<p1>>
TwoPeers == <<p1, p2>>
=============================================================================
