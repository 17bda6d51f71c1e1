------------------------- MODULE MCSessionLifetime -------------------------
EXTENDS SessionLifetime
=============================================================================
