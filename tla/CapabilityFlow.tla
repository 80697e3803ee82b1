---------------------------- MODULE CapabilityFlow ----------------------------
(***************************************************************************)
(* The capability flow of an established session: what                     *)
(* apply_complete_capability_flow (src/src/endpoint/mod.rs) makes of the   *)
(* governance, identity, reliable and group reducers.                      *)
(*                                                                         *)
(* Each session has a CapabilityRuntime.  A flow runs all the reducers and *)
(* then commits their results together, with the protected packet and the  *)
(* projections as pending items, or fails and commits nothing; module      *)
(* Endpoint says how the commit itself can go.  Sessions learn of bundles  *)
(* in any order, late and again; the roots that authorize bundles back one *)
(* bundle to an epoch.                                                     *)
(***************************************************************************)
EXTENDS Sequences, Governance, Group, Reliable

CONSTANTS
  Sessions,
  Roots,             \* the roots of the network
  KeysOfRoot,        \* keys of each of them
  Observers,
  Bundles,           \* digests of the bundles that are about
  Content,           \* what each stands for: epoch, versions, recovery, ...
  Network,
  Endpoints,         \* who may be in a group
  Founder,           \* the first member of each group
  Routes,
  Messages,
  Statuses,          \* HTTP status codes
  MaxIdentityEpoch,  \* MAX_EPOCH of the identity chain
  MaxNow,            \* bound of the instance: the clock
  NoMessage

ASSUME FlowAssumption ==
  /\ Founder \in Endpoints /\ Endpoints # {Founder}
  /\ MaxMembers \in Nat \ {0, 1} /\ MaxGroupEpoch \in Nat
  /\ NoDigest \notin Nat /\ MaxInteger \in Nat
  /\ GovernanceRoles # {}
  /\ Network # NoBundle /\ NoBundle \notin Bundles
  /\ NoMessage \notin Messages
  /\ \A b \in Bundles : Content[b].epoch \in Nat \ {0}

\* There are so few roots, at most three, that any two pairs of them share one.
ASSUME RootsAssumption ==
  \A q, r, t, u \in Roots : q # r /\ t # u => {q, r} \cap {t, u} # {}

VARIABLES
  backed,      \* which bundle each root backs in each epoch
  governance,  \* GovernanceState of each session
  identity,    \* the epoch of the ChainTip, 0 without one
  link,        \* ReliableState
  group,       \* GroupState
  last,        \* last_message_id
  outcome,     \* last_transport_outcome
  inFlight,    \* whether a packet of the session is pending
  now,
  adopted      \* history: the bundles each session has adopted

runtime == <<governance, identity, link, group, last, outcome>>
vars == <<backed, runtime, inFlight, now, adopted>>

-----------------------------------------------------------------------------
(* Evidence                                                                *)

Epochs == {Content[b].epoch : b \in Bundles}

Backers(b) == {r \in Roots : backed[r][Content[b].epoch] = b}

\* The signatures of the first n keys of each of these roots, in each of these roles.
SignaturesOf(roots, n, roles) == [root : roots, key : 1..n, role : roles]

StatementsOf(b, observers) ==
  {[observer |-> o, version |-> Content[b].epoch, digest |-> b, statement |-> o] : o \in observers}

\* All roles, or all but one.
RoleSets == {GovernanceRoles} \cup {GovernanceRoles \ {role} : role \in GovernanceRoles}

\* The authorizations and observations that can come with a bundle: some of
\* its backers sign with some of their keys.
Evidence(b) ==
  [authorizations : {SignaturesOf(roots, n, roles) :
                       roots \in SUBSET Backers(b), n \in {1, 2, KeysOfRoot}, roles \in RoleSets},
   observations : {StatementsOf(b, observers) : observers \in SUBSET Observers}]

Candidate(b, evidence) ==
  [network |-> Network, epoch |-> Content[b].epoch, digest |-> b,
   versions |-> Content[b].versions, expires |-> Content[b].expires,
   recovery |-> Content[b].recovery, predecessor |-> Content[b].predecessor,
   sound |-> TRUE,
   authorizations |-> evidence.authorizations, observations |-> evidence.observations]

\* The best evidence there can be for a bundle.
Full(b) ==
  Candidate(b,
    [authorizations |-> SignaturesOf(Backers(b), KeysOfRoot, GovernanceRoles),
     observations |-> StatementsOf(b, Observers)])

-----------------------------------------------------------------------------
(* The flow                                                                *)

\* classify_status; a status that is in none of the classes is an error.
Classes ==
  [accepted |-> 200..202, rejected |-> {400, 404, 406, 409, 413},
   transient |-> {429, 500, 503}, ambiguous |-> {504}]

\* What can become of a bundle at a session, with one evidence or another.
Verdicts(s, b) == {Verdict(governance[s], Candidate(b, evidence), now) : evidence \in Evidence(b)}

\* The bundle is adopted, or known already.
Govern(s, b) ==
  LET verdicts == Verdicts(s, b) IN
  \/ /\ "commit" \in verdicts
     /\ governance' = [governance EXCEPT ![s] = Adopted(Full(b))]
     /\ adopted' = [adopted EXCEPT ![s] = Append(@, b)]
  \/ /\ "replay" \in verdicts
     /\ UNCHANGED <<governance, adopted>>

\* The identity of the endpoint advances with every flow; module IdentityChain
\* has the records that validate_successor compares.
Advance(s) ==
  /\ identity[s] < MaxIdentityEpoch
  /\ identity' = [identity EXCEPT ![s] = @ + 1]

\* The message is protected in a packet of its own, which no packet so far
\* equals: it is named by the flow's number.
Transmission(s, route) ==
  LET packet == link[s].transitions + 1 IN
  /\ MayRetry(link[s], "pending", route, packet)
  /\ link' = [link EXCEPT ![s] = Retried(@, route, packet)]

\* The group changes, and the flow's message goes to it as it is then.
Regroup(s, author, op) ==
  /\ MayTransition(group[s], author, op)
  /\ MayProject(NextGroup(group[s], op), author)
  /\ group' = [group EXCEPT ![s] = NextGroup(@, op)]

Operations == [kind : {"add", "changeRole"}, endpoint : Endpoints, role : Roles]
              \cup [kind : {"remove"}, endpoint : Endpoints, role : {"member"}]

\* apply_complete_capability_flow, at a session whose pipeline is free, of a
\* message that is not the last one again.  The confirmation and the transport
\* request that a flow must carry leave nothing behind: the finality that comes
\* of the first is dropped, the second is only looked at.
Flow(s) ==
  /\ ~inFlight[s]
  /\ Advance(s)
  /\ \E route \in Routes : Transmission(s, route)
  /\ \E b \in Bundles : Govern(s, b)
  /\ \E message \in Messages \ {last[s]} : last' = [last EXCEPT ![s] = message]
  /\ \E author \in Endpoints, op \in Operations : Regroup(s, author, op)
  /\ \E class \in DOMAIN Classes, status \in Statuses :
       status \in Classes[class] /\ outcome' = [outcome EXCEPT ![s] = class]
  /\ inFlight' = [inFlight EXCEPT ![s] = TRUE]
  /\ UNCHANGED <<backed, now>>

\* The packet has been handed over and settled.
Settle(s) ==
  /\ inFlight[s]
  /\ inFlight' = [inFlight EXCEPT ![s] = FALSE]
  /\ UNCHANGED <<backed, runtime, now, adopted>>

Tick ==
  /\ now < MaxNow
  /\ now' = now + 1
  /\ UNCHANGED <<backed, runtime, inFlight, adopted>>

Init ==
  /\ backed \in [Roots -> {f \in [Epochs -> Bundles] : \A e \in Epochs : Content[f[e]].epoch = e}]
  /\ governance = [s \in Sessions |-> [network |-> Network, epoch |-> 0, digest |-> NoBundle,
                                       versions |-> [role \in {} |-> 0]]]
  /\ identity = [s \in Sessions |-> 0]
  /\ link \in [Sessions -> [route : Routes, packet : {0}, retries : {0}, migrations : {0},
                            transitions : {0}]]
  /\ group = [s \in Sessions |-> [epoch |-> 0, previous |-> NoDigest,
                                  members |-> [e \in {Founder} |-> "stateAuthority"]]]
  /\ last = [s \in Sessions |-> NoMessage]
  /\ outcome = [s \in Sessions |-> "none"]
  /\ inFlight = [s \in Sessions |-> FALSE]
  /\ now = 0
  /\ adopted = [s \in Sessions |-> <<>>]

Next == Tick \/ \E s \in Sessions : Flow(s) \/ Settle(s)

Spec == Init /\ [][Next]_vars

-----------------------------------------------------------------------------
(* Properties                                                              *)

\* Sessions never adopt different bundles in one epoch, whatever bundles are
\* about, in whatever order they learn of them and whoever signs: with three
\* roots, any two sets of signers that suffice have a root in common.
AgreeOnBundles ==
  \A s, t \in Sessions : \A k \in 1..Len(adopted[s]) :
    k <= Len(adopted[t]) => adopted[s][k] = adopted[t][k]

\* A bundle is adopted once, however often and late it comes again, and one that
\* comes again while it is in force is known for what it is: unless it has
\* expired, or was adopted to recover from the bundle before it.
ReplaysHarmless ==
  \A s \in Sessions : \A k \in 1..Len(adopted[s]) :
    LET b == adopted[s][k]
        verdict == Verdict(governance[s], Full(b), now)
    IN /\ verdict \notin {"commit", "Conflict"}
       /\ (k = Len(adopted[s]) /\ Content[b].recovery = "none" /\ Content[b].expires > now)
            => verdict = "replay"

\* No sequence of flows leaves a group that no flow can change: one of those
\* who may change it can make a change after which it is still a member, so
\* that its message can be projected.
GroupSteerable ==
  \A s \in Sessions :
    group[s].epoch < MaxGroupEpoch =>
      \E author \in Endpoints, op \in Operations :
        /\ MayTransition(group[s], author, op)
        /\ MayProject(NextGroup(group[s], op), author)

\* The variables that the invariants are about hold values of their types.
TypeOK ==
  /\ backed \in [Roots -> [Epochs -> Bundles]]
  /\ adopted \in [Sessions -> Seq(Bundles)]
  /\ DOMAIN governance = Sessions
  /\ DOMAIN group = Sessions

\* A session has adopted one bundle for each epoch, each of them backed by two
\* roots.
Backed ==
  \A s \in Sessions :
    /\ governance[s].epoch = Len(adopted[s])
    /\ \A k \in 1..Len(adopted[s]) :
         /\ Content[adopted[s][k]].epoch = k
         /\ \E q, r \in Backers(adopted[s][k]) : q # r

\* A group is always one that GroupState::validate accepts.
GroupsValid ==
  \A s \in Sessions :
    /\ ValidGroup(group[s])
    /\ group[s].epoch \in Nat
    /\ DOMAIN group[s].members \subseteq Endpoints /\ IsFiniteSet(DOMAIN group[s].members)

\* The inductive invariant.
IInv == TypeOK /\ Backed /\ GroupsValid

\* What a session is governed by is the bundle it adopted last.
Governed ==
  \A s \in Sessions :
    LET n == Len(adopted[s])  g == governance[s] IN
    /\ g.network = Network
    /\ n = 0 => g.digest = NoBundle /\ DOMAIN g.versions = {}
    /\ n > 0 => g.digest = adopted[s][n] /\ g.versions = Content[adopted[s][n]].versions

\* There is enough evidence for a bundle, and it is one that can be adopted.
Warrant(b) ==
  LET content == Content[b] IN
  /\ {content.epoch, content.expires} \subseteq 0..MaxInteger
  /\ DOMAIN content.versions = GovernanceRoles
  /\ \A role \in GovernanceRoles : content.versions[role] \in 1..MaxInteger
  /\ content.recovery = "none" <=> content.predecessor = NoBundle
  /\ \E evidence \in Evidence(b) :
       /\ \A role \in GovernanceRoles : RoleThreshold(role, evidence.authorizations)
       /\ Observed(Candidate(b, evidence))

\* Every bundle that was adopted is such a one.
Warranted ==
  \A b \in Bundles :
    (\E s \in Sessions : \E k \in 1..Len(adopted[s]) : adopted[s][k] = b) => Warrant(b)

\* The inductive invariant of adoption.
GInv == IInv /\ now \in Nat /\ Governed /\ Warranted

\* All the evidence there can be for a bundle is within the bounds of a candidate.
EvidenceFits ==
  /\ IsFiniteSet(Roots) /\ IsFiniteSet(Observers) /\ IsFiniteSet(GovernanceRoles)
  /\ KeysOfRoot \in Nat \ {0, 1} /\ MaxSignatures \in Nat /\ MaxObservations \in Nat
  /\ Cardinality(Roots) * KeysOfRoot <= MaxSignatures
  /\ Cardinality(Observers) <= MaxObservations

=============================================================================
