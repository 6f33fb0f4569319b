--------------------------- MODULE MCIocpNetServer ---------------------------
(* Instances of IocpNetServer for TLC. *)
EXTENDS IocpNetServer, TLC

\* Sockets, buffers and workers are only compared for equality.
Symmetry == Permutations(Sockets) \cup Permutations(Buffers) \cup Permutations(Workers)

=============================================================================
