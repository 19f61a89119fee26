----------------------------- MODULE MCPeerTable -----------------------------
(* PeerTable for TLC. *)
EXTENDS PeerTable, TLC

CONSTANTS me, a, b, x, y

MCNode == {me, a, b}
MCAddr == {x, y}
\* Two too weak and two strong, of opposite signs; both pairs round when averaged.
MCSignals == {-87, -86, -1, 2}
MinRssi == -85

\* Addresses are interchangeable.
Symmetry == Permutations(MCAddr) \cup Permutations(MCNode)

=============================================================================
