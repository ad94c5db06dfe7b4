--------------------------- MODULE MCMkdirChain ---------------------------
(* Writers that may be exchanged, for TLC. *)
EXTENDS MkdirChain, TLC

Interchangeable == Permutations(Writers)

=============================================================================
