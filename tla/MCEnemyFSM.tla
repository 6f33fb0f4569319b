------------------------------- MODULE MCEnemyFSM -------------------------------
(* Instances of EnemyFSM for TLC. *)
EXTENDS EnemyFSM

\* The floor the enemies stand on, and what is below.
UnderGround == -2
=============================================================================
