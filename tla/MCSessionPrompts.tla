-------------------------- MODULE MCSessionPrompts --------------------------
EXTENDS SessionPrompts
=============================================================================
