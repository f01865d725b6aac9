------------------------- MODULE MCWebSocketManager -------------------------
(* Instances of WebSocketManager for TLC.                                   *)
EXTENDS WebSocketManager
=============================================================================
