--------------------------- MODULE MCUserAuthority ---------------------------
(* Instance of UserAuthority for TLC.                                      *)
EXTENDS UserAuthority, TLC

CONSTANTS p1, p2, e1, e2, d1, d2, m1, m2, r1, r2

MCPeers     == {p1}
MCEndpoints == {e1, e2}
MCDigests   == {d1, d2}
MCManagement == {m1, m2}
MCRecovery  == {r1, r2}
MCFounding  == [management |-> m1, recovery |-> r1]

Symmetry == Permutations(MCEndpoints) \cup Permutations(MCDigests)

=============================================================================
