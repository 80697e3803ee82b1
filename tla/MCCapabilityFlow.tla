--------------------------- MODULE MCCapabilityFlow ---------------------------
(* Instance of CapabilityFlow for TLC.                                     *)
EXTENDS CapabilityFlow, TLC

CONSTANTS s1, s2, x, y, z, o1, o2, e1, e2, r1, r2, m1, m2, ga, gb

MCSessions  == {s1, s2}
MCRoots     == {x, y, z}
MCObservers == {o1, o2}
MCEndpoints == {e1, e2}
MCRoutes    == {r1, r2}
MCMessages  == {m1, m2}
MCRoles     == {ga, gb}

\* Two bundles of the first epoch; one that follows either, and one that
\* recovers from the first of them.
MCBundles == {"a1", "b1", "a2", "r2"}

MCContent ==
  [b \in MCBundles |->
    [epoch |-> IF b \in {"a1", "b1"} THEN 1 ELSE 2,
     versions |-> [role \in MCRoles |-> IF b = "a2" /\ role = ga THEN 2 ELSE 1],
     recovery |-> IF b = "r2" THEN "compromiseRecovery" ELSE "none",
     predecessor |-> IF b = "r2" THEN "a1" ELSE NoBundle,
     expires |-> IF b = "b1" THEN 1 ELSE 2]]

Symmetry == Permutations(MCSessions) \cup Permutations(MCRoots) \cup Permutations(MCRoutes)
            \cup Permutations(MCMessages)

=============================================================================
