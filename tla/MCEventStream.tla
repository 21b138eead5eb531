--------------------------- MODULE MCEventStream ---------------------------
EXTENDS EventStream
=============================================================================
