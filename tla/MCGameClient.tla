------------------------------ MODULE MCGameClient ------------------------------
(* Instances of GameClient for TLC. *)
EXTENDS GameClient

CONSTANTS origin, here
=============================================================================
