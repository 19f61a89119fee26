-------------------------------- MODULE MCHal --------------------------------
(* Model values for Hal. *)
EXTENDS Hal, TLC

CONSTANTS a, b

Symmetry == Permutations(Node)

=============================================================================
