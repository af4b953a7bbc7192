--------------------------- MODULE MCSocketEvents ---------------------------
EXTENDS SocketEvents
=============================================================================
