--------------------------- MODULE MCConnections ---------------------------
(* Connections on a small instance.                                        *)
EXTENDS Connections

CONSTANTS w1, w2

Symmetry == Permutations(Cgis)
=============================================================================
