--------------------------- MODULE MCEventDelivery ---------------------------
\* One session and one browser: the order in which its stream, transcripts,
\* acknowledgements and requests arrive is left open.
EXTENDS EventDelivery
=============================================================================
