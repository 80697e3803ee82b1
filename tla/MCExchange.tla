------------------------------ MODULE MCExchange ------------------------------
(* Instance of Exchange for TLC.                                           *)
EXTENDS Exchange, TLC

CONSTANTS s, a, b, x, y, k1, k2, k3, r1, r2

MCOthers  == {a, b}
MCCodes   == {12, 13}
MCResults == {x, y}
MCRoutes  == {r1, r2}
MCPackets == {k1, k2, k3}

Symmetry == Permutations(MCOthers) \cup Permutations(MCRoutes) \cup Permutations(MCPackets)

=============================================================================
