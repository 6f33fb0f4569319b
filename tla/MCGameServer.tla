------------------------------ MODULE MCGameServer ------------------------------
(* Clients are alike, and so are slots. *)
EXTENDS GameServer, TLC

Symmetry == Permutations(Slots)
=============================================================================
