-------------------------------- MODULE Group --------------------------------
(***************************************************************************)
(* Groups: their members, the projections of a message to each of them and *)
(* the results of those: src/src/group.rs.                                 *)
(*                                                                         *)
(* A group state is [epoch, previous, members], where members maps the     *)
(* endpoints in the group to their roles.  There is one group, and each of *)
(* its states is built on the last: the digest of a state is its epoch.    *)
(***************************************************************************)
EXTENDS Naturals, FiniteSets

CONSTANTS
  MaxMembers,      \* MAX_GROUP_MEMBERS and MAX_GROUP_PROJECTIONS (64)
  MaxGroupEpoch,   \* 2^53 - 1
  MaxResultCode,   \* 12, the largest failure code of a result
  NoDigest,        \* the absent previous digest of a first state
  NoCode           \* an absent failure code

Roles == {"member", "stateAuthority"}

Authorities(members) == {e \in DOMAIN members : members[e] = "stateAuthority"}

\* Fault: a group need not have anybody left who can change it.
ValidGroupFault(g) ==
  /\ DOMAIN g.members # {}
  /\ Cardinality(DOMAIN g.members) <= MaxMembers
  /\ g.epoch <= MaxGroupEpoch
  /\ g.epoch = 0 <=> g.previous = NoDigest

\* GroupState::validate
ValidGroup(g) ==
  /\ DOMAIN g.members # {}
  /\ Cardinality(DOMAIN g.members) <= MaxMembers
  /\ g.epoch <= MaxGroupEpoch
  /\ g.epoch = 0 <=> g.previous = NoDigest
  /\ Authorities(g.members) # {}

\* A GroupOperation is [kind, endpoint, role]; a removal's role is not looked at.
Applicable(members, op) ==
  CASE op.kind = "add"        -> op.endpoint \notin DOMAIN members
    [] op.kind = "remove"     -> op.endpoint \in DOMAIN members
    [] op.kind = "changeRole" -> op.endpoint \in DOMAIN members /\ members[op.endpoint] # op.role

Operated(members, op) ==
  IF op.kind = "remove"
  THEN [e \in DOMAIN members \ {op.endpoint} |-> members[e]]
  ELSE [e \in DOMAIN members \cup {op.endpoint} |-> IF e = op.endpoint THEN op.role ELSE members[e]]

\* GroupState::digest
Digest(g) == g.epoch

NextGroup(g, op) ==
  [epoch |-> g.epoch + 1, previous |-> Digest(g), members |-> Operated(g.members, op)]

\* GroupState::apply_transition, when it does not fail; it yields NextGroup.
MayTransition(g, author, op) ==
  /\ ValidGroup(g)
  /\ author \in Authorities(g.members)
  /\ op.kind = "add" => Cardinality(DOMAIN g.members) # MaxMembers
  /\ Applicable(g.members, op)
  /\ ValidGroup(NextGroup(g, op))

\* GroupState::projections: to whom a member's message goes.  MayProject is
\* when it does not fail.
MayProject(g, sender) == ValidGroup(g) /\ sender \in DOMAIN g.members

Recipients(g, sender) == DOMAIN g.members \ {sender}

-----------------------------------------------------------------------------
(* Results                                                                 *)

\* What aggregate_results asks of one GroupResult.
ResultShape(r) ==
  /\ r.failure # NoCode <=> r.outcome \in {"rejected", "failed"}
  /\ r.failure # NoCode => r.failure <= MaxResultCode
  /\ r.outcome = "pending" => r.authority = "none"
  /\ r.outcome = "delivered" => r.authority = "endpointConfirmation"

\* aggregate_results, when it does not fail, of the results that have come in
\* (a function on recipients: they are sorted, unique and match a projection).
MayAggregate(recipients, results) ==
  /\ recipients # {} /\ Cardinality(recipients) <= MaxMembers
  /\ DOMAIN results # {} /\ DOMAIN results \subseteq recipients
  /\ \A m \in DOMAIN results : ResultShape(results[m])

With(results, outcome) == Cardinality({m \in DOMAIN results : results[m].outcome = outcome})

\* Fault: a recipient without a result is not pending.
PendingFault(recipients, results) == With(results, "pending")

\* Recipients without a result are pending with those whose result says so.
Pending(recipients, results) ==
  Cardinality(recipients) - Cardinality(DOMAIN results) + With(results, "pending")

Aggregate(recipients, results) ==
  IF With(results, "delivered") = Cardinality(recipients)
  THEN "complete"
  ELSE IF With(results, "delivered") = 0 /\ Pending(recipients, results) = 0
  THEN "failed"
  ELSE "partial"

=============================================================================
