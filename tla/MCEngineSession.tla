-------------------------- MODULE MCEngineSession ---------------------------
(* A protocol-abiding client with one WebSocket to upgrade to, and messages  *)
(* in both directions before, during and after the upgrade.                  *)
EXTENDS EngineSession
=============================================================================
