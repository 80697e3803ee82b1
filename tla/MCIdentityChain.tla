--------------------------- MODULE MCIdentityChain ---------------------------
(* Instance of IdentityChain for TLC.                                      *)
EXTENDS IdentityChain, TLC

CONSTANTS p1, p2, e1, e2

MCPeers     == {p1, p2}
MCEndpoints == {e1, e2}

Symmetry == Permutations(MCPeers) \cup Permutations(MCEndpoints)

=============================================================================
