--------------------------------- MODULE MCTeemo ---------------------------------
(* Instances of Teemo for TLC. *)
EXTENDS Teemo, TLC

CONSTANTS here, there, north, south, me, him

\* Neither two places nor two facings differ in anything.
MCSymmetry == Permutations({here, there}) \cup Permutations({north, south})
=============================================================================
