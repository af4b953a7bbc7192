--------------------------- MODULE MCEngineServer ---------------------------
(* Two sessions and three requests: a handshake, and polls that may overlap, *)
(* an upgrade or a POST of its session, beside another session.               *)
EXTENDS EngineServer
=============================================================================
