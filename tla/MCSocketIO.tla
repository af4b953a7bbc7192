----------------------------- MODULE MCSocketIO -----------------------------
(* One client, a static and a dynamic namespace, and up to three sockets:    *)
(* enough to reconnect to a namespace while another is being joined.         *)
EXTENDS SocketIO
=============================================================================
