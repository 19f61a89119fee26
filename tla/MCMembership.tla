---------------------------- MODULE MCMembership -----------------------------
(* Membership for TLC. *)
EXTENDS Membership, TLC

CONSTANTS a, b, c

Symmetry == Permutations(Node \ {Me})

=============================================================================
