------------------------------ MODULE Governance ------------------------------
(***************************************************************************)
(* The adoption of governance bundles: src/src/governance.rs.  The module  *)
(* has no state of its own in the code; evaluate_candidate is the operator *)
(* Verdict, and Adopted the state that a commit yields.                    *)
(*                                                                         *)
(* A candidate is the bundle a digest stands for, with the evidence that   *)
(* came with it: who authorized it, in which role and under which root,    *)
(* and who observed it.  `sound` stands for the seven facts the caller has *)
(* established of it (active roots only, canonical digest, consistent      *)
(* distribution, scope of the signatures, no split view, local admission,  *)
(* advisory abuse reports).                                                *)
(***************************************************************************)
EXTENDS Naturals, FiniteSets

CONSTANTS
  GovernanceRoles,    \* Role: seven of them
  MaxInteger,         \* MAX_SAFE_INTEGER (2^53 - 1)
  MaxSignatures,      \* MAX_SIGNATURES_PER_ROLE (64)
  MaxObservations,    \* MAX_OBSERVATIONS (16)
  NoBundle            \* the absent digest of the first state

-----------------------------------------------------------------------------
(* Who has to authorize a bundle: validate_role_threshold                  *)

InRole(role, authorizations) == {a \in authorizations : a.role = role}

RootsOf(authorizations) == {a.root : a \in authorizations}

\* Fault: four keys are enough, under whatever root.
RoleThresholdFault(role, authorizations) ==
  Cardinality(InRole(role, authorizations)) \in 4..MaxSignatures

\* Four signers, two of them under one root and two under another.
RoleThreshold(role, authorizations) ==
  LET matching == InRole(role, authorizations) IN
  /\ Cardinality(matching) \in 4..MaxSignatures
  /\ Cardinality(RootsOf(matching)) >= 2
  /\ \E r, q \in RootsOf(matching) :
       /\ r # q
       /\ Cardinality({a \in matching : a.root = r}) >= 2
       /\ Cardinality({a \in matching : a.root = q}) >= 2

-----------------------------------------------------------------------------
(* What becomes of a candidate: evaluate_candidate                         *)

\* The versions a state or bundle of this epoch must have, one for each role;
\* there are none before the first bundle.
Versions(epoch, versions) ==
  /\ epoch = 0 <=> DOMAIN versions = {}
  /\ epoch > 0 => DOMAIN versions = GovernanceRoles
  /\ \A role \in DOMAIN versions : versions[role] \in 1..MaxInteger

WithinBounds(current, c, now) ==
  /\ {current.epoch, c.epoch, c.expires, now} \subseteq 0..MaxInteger
  /\ Versions(current.epoch, current.versions)
  /\ DOMAIN c.versions = GovernanceRoles
  /\ \A role \in GovernanceRoles : c.versions[role] \in 1..MaxInteger
  /\ Cardinality(c.authorizations) <= Cardinality(GovernanceRoles) * MaxSignatures
  /\ Cardinality(c.observations) <= MaxObservations

\* A recovery names the bundle it recovers from; other bundles name none.
Acceptable(current, c, now) ==
  /\ c.epoch # 0
  /\ current.epoch = 0 <=> current.digest = NoBundle
  /\ c.recovery = "none" <=> c.predecessor = NoBundle
  /\ c.recovery # "none" => c.predecessor = current.digest
  /\ c.network = current.network
  /\ c.sound
  /\ c.expires > now

VersionOf(current, role) ==
  IF role \in DOMAIN current.versions THEN current.versions[role] ELSE 0

Authorized(current, c) ==
  \A role \in GovernanceRoles :
    /\ RoleThreshold(role, c.authorizations)
    /\ c.versions[role] >= VersionOf(current, role)

\* At least two observers, each with a statement of its own, all of this bundle.
Observed(c) ==
  /\ Cardinality(c.observations) >= 2
  /\ Cardinality({o.observer : o \in c.observations}) = Cardinality(c.observations)
  /\ Cardinality({o.statement : o \in c.observations}) = Cardinality(c.observations)
  /\ \A o \in c.observations : o.version = c.epoch /\ o.digest = c.digest

\* Fault: a bundle of the present epoch is adopted like one of the next.
AgainFault(current, c) == "commit"

\* A bundle of the epoch of the current one is that bundle, or in conflict.
Again(current, c) ==
  IF c.digest = current.digest /\ c.versions = current.versions THEN "replay" ELSE "Conflict"

Verdict(current, c, now) ==
  CASE ~WithinBounds(current, c, now) -> "BoundExceeded"
    [] WithinBounds(current, c, now)
       /\ ~(Acceptable(current, c, now) /\ Authorized(current, c) /\ Observed(c))
         -> "InvalidTransition"
    [] OTHER ->
         IF c.epoch = current.epoch THEN Again(current, c)
         ELSE IF c.epoch = current.epoch + 1 THEN "commit"
         ELSE "InvalidTransition"

Adopted(c) ==
  [network |-> c.network, epoch |-> c.epoch, digest |-> c.digest, versions |-> c.versions]

=============================================================================
