-------------------------- MODULE MC_EntityMirror --------------------------
(***************************************************************************)
(* EntityMirror for TLC: an entity that can be written, and one of a       *)
(* domain that has no objects but whose events come on the same websocket. *)
(***************************************************************************)
EXTENDS EntityMirror, TLC

CONSTANTS media, level, a, b

MCList == <<media, level>>
MCDomain == media :> "other" @@ level :> "input_number"
MCTarget == [w \in Writes |-> <<"analogValue", 0>>]
=============================================================================
