-------------------------- MODULE MC_WebSocketPush --------------------------
(***************************************************************************)
(* WebSocketPush for TLC: three connections, three updates.                *)
(***************************************************************************)
EXTENDS WebSocketPush
=============================================================================
