------------------------- MODULE CapabilityFlowProofs -------------------------
(***************************************************************************)
(* Proofs about CapabilityFlow, for every value of its constants: any      *)
(* number of sessions, bundles, keys, endpoints and flows.                 *)
(*                                                                         *)
(* A bundle that is adopted is backed by two roots, each root backs one    *)
(* bundle to an epoch, and any two pairs of roots share one: so the bundle *)
(* of an epoch is the same everywhere.  A group keeps somebody who can     *)
(* change it, because every change validates the group it leads to.        *)
(*                                                                         *)
(* A session is governed by the bundle it adopted last, and that bundle    *)
(* came with evidence that sufficed: all the evidence there is suffices    *)
(* too, so that a bundle that comes again is known for what it is.         *)
(***************************************************************************)
EXTENDS CapabilityFlow, FiniteSetTheorems, TLAPS

-----------------------------------------------------------------------------
(* Bundles                                                                 *)

\* A role's threshold takes authorizations under two roots.
LEMMA ThresholdTakesTwoRoots ==
  ASSUME NEW role, NEW authorizations, RoleThreshold(role, authorizations)
  PROVE  \E a, b \in authorizations : a.root # b.root
  <1>1. PICK q, r \in RootsOf(InRole(role, authorizations)) : q # r
    BY DEF RoleThreshold
  <1>2. /\ \E a \in authorizations : q = a.root
        /\ \E b \in authorizations : r = b.root
    BY DEF RootsOf, InRole
  <1>. QED
    BY <1>1, <1>2

\* A bundle is adopted for the next epoch, and two roots back it.
LEMMA AdoptionIsBacked ==
  ASSUME NEW s \in Sessions, NEW b \in Bundles, "commit" \in Verdicts(s, b)
  PROVE  /\ Content[b].epoch = governance[s].epoch + 1
         /\ \E q, r \in Backers(b) : q # r
  <1>1. PICK evidence \in Evidence(b) :
          Verdict(governance[s], Candidate(b, evidence), now) = "commit"
    BY DEF Verdicts
  <1>. DEFINE c == Candidate(b, evidence)
  <1>2. c.epoch = Content[b].epoch /\ c.authorizations = evidence.authorizations
    BY DEF Candidate
  <1>3. WithinBounds(governance[s], c, now) /\ Authorized(governance[s], c)
        /\ c.epoch = governance[s].epoch + 1
    <2>. HIDE DEF c
    <2>. QED
      BY <1>1 DEF c, Verdict, Again
  <1>4. PICK role \in GovernanceRoles : RoleThreshold(role, evidence.authorizations)
    <2>. HIDE DEF c
    <2>. QED
      BY <1>2, <1>3, FlowAssumption DEF Authorized
  <1>5. PICK x, y \in evidence.authorizations : x.root # y.root
    BY <1>4, ThresholdTakesTwoRoots
  <1>6. \A a \in evidence.authorizations : a.root \in Backers(b)
    <2>1. PICK roots \in SUBSET Backers(b), n \in {1, 2, KeysOfRoot}, roles \in RoleSets :
            evidence.authorizations = SignaturesOf(roots, n, roles)
      BY DEF Evidence
    <2>. QED
      BY <2>1 DEF SignaturesOf
  <1>. QED
    BY <1>2, <1>3, <1>5, <1>6

-----------------------------------------------------------------------------
(* Groups                                                                  *)

\* The members of the group after an operation of an endpoint.
LEMMA OperatedMembers ==
  ASSUME NEW members, NEW op \in Operations, IsFiniteSet(DOMAIN members),
         DOMAIN members \subseteq Endpoints
  PROVE  /\ IsFiniteSet(DOMAIN Operated(members, op))
         /\ DOMAIN Operated(members, op) \subseteq Endpoints
  <1>1. op.endpoint \in Endpoints
    BY DEF Operations
  <1>2. /\ IsFiniteSet(DOMAIN members \cup {op.endpoint})
        /\ IsFiniteSet(DOMAIN members \ {op.endpoint})
    BY FS_AddElement, FS_RemoveElement
  <1>3. CASE op.kind = "remove"
    BY <1>1, <1>2, <1>3 DEF Operated
  <1>4. CASE op.kind # "remove"
    BY <1>1, <1>2, <1>4 DEF Operated
  <1>. QED
    BY <1>3, <1>4

-----------------------------------------------------------------------------
(* The invariant                                                           *)

LEMMA InitInvariant == Init => IInv
  <1>. SUFFICES ASSUME Init
                PROVE  IInv
    OBVIOUS
  <1>1. \A s \in Sessions : adopted[s] = <<>> /\ governance[s].epoch = 0
    BY DEF Init
  <1>2. TypeOK
    BY DEF Init, TypeOK
  <1>3. Backed
    BY <1>1 DEF Backed
  <1>4. GroupsValid
    <2>1. ASSUME NEW s \in Sessions
          PROVE  /\ ValidGroup(group[s])
                 /\ group[s].epoch \in Nat
                 /\ DOMAIN group[s].members \subseteq Endpoints
                 /\ IsFiniteSet(DOMAIN group[s].members)
      <3>1. /\ group[s].epoch = 0 /\ group[s].previous = NoDigest
            /\ group[s].members = [e \in {Founder} |-> "stateAuthority"]
        BY DEF Init
      <3>2. IsFiniteSet({Founder}) /\ Cardinality({Founder}) = 1
        BY FS_Singleton
      <3>3. Founder \in Authorities(group[s].members)
        BY <3>1 DEF Authorities
      <3>4. DOMAIN group[s].members = {Founder}
        BY <3>1
      <3>. QED
        BY <3>1, <3>2, <3>3, <3>4, FlowAssumption DEF ValidGroup
    <2>. QED
      BY <2>1 DEF GroupsValid
  <1>. QED
    BY <1>2, <1>3, <1>4 DEF IInv

LEMMA FlowStep ==
  ASSUME IInv, NEW s \in Sessions, Flow(s)
  PROVE  IInv'
  <1>1. backed' = backed
    BY DEF Flow
  <1>2. PICK b \in Bundles : Govern(s, b)
    BY DEF Flow
  <1>3. PICK author \in Endpoints, op \in Operations : Regroup(s, author, op)
    BY DEF Flow
  <1>4. TypeOK'
    <2>1. adopted' \in [Sessions -> Seq(Bundles)] /\ DOMAIN governance' = Sessions
      <3>1. adopted \in [Sessions -> Seq(Bundles)] /\ DOMAIN governance = Sessions
        BY DEF IInv, TypeOK
      <3>2. Append(adopted[s], b) \in Seq(Bundles)
        BY <3>1
      <3>. QED
        BY <1>2, <3>1, <3>2 DEF Govern
    <2>2. DOMAIN group' = Sessions
      BY <1>3 DEF IInv, TypeOK, Regroup
    <2>. QED
      BY <1>1, <2>1, <2>2 DEF IInv, TypeOK
  <1>5. Backed'
    <2>1. CASE UNCHANGED <<governance, adopted>>
      BY <1>1, <2>1 DEF IInv, Backed, Backers
    <2>2. CASE /\ "commit" \in Verdicts(s, b)
               /\ governance' = [governance EXCEPT ![s] = Adopted(Full(b))]
               /\ adopted' = [adopted EXCEPT ![s] = Append(@, b)]
      <3>1. Adopted(Full(b)).epoch = Content[b].epoch
        BY DEF Adopted, Full, Candidate
      <3>2. /\ Content[b].epoch = governance[s].epoch + 1
            /\ \E q, r \in Backers(b) : q # r
        BY <2>2, AdoptionIsBacked
      <3>3. adopted[s] \in Seq(Bundles) /\ governance[s].epoch = Len(adopted[s])
        BY DEF IInv, TypeOK, Backed
      <3>4. /\ adopted'[s] = Append(adopted[s], b) /\ governance'[s] = Adopted(Full(b))
            /\ \A t \in Sessions \ {s} : adopted'[t] = adopted[t] /\ governance'[t] = governance[t]
        BY <2>2 DEF IInv, TypeOK
      <3>5. \A c : Backers(c)' = Backers(c)
        BY <1>1 DEF Backers
      <3>6. ASSUME NEW t \in Sessions
            PROVE  /\ governance'[t].epoch = Len(adopted'[t])
                   /\ \A k \in 1..Len(adopted'[t]) :
                        /\ Content[adopted'[t][k]].epoch = k
                        /\ \E q, r \in Backers(adopted'[t][k]) : q # r
        <4>1. CASE t # s
          BY <3>4, <4>1 DEF IInv, Backed
        <4>2. CASE t = s
          <5>1. Len(adopted'[s]) = Len(adopted[s]) + 1
            BY <3>3, <3>4
          <5>2. ASSUME NEW k \in 1..Len(adopted'[s])
                PROVE  /\ Content[adopted'[s][k]].epoch = k
                       /\ \E q, r \in Backers(adopted'[s][k]) : q # r
            <6>1. CASE k = Len(adopted[s]) + 1
              BY <3>2, <3>3, <3>4, <6>1
            <6>2. CASE k \in 1..Len(adopted[s])
              <7>1. adopted'[s][k] = adopted[s][k]
                BY <3>3, <3>4, <6>2
              <7>. QED
                BY <6>2, <7>1 DEF IInv, Backed
            <6>. QED
              BY <3>3, <5>1, <5>2, <6>1, <6>2
          <5>. QED
            BY <3>1, <3>2, <3>3, <3>4, <4>2, <5>1, <5>2
        <4>. QED
          BY <4>1, <4>2
      <3>. QED
        BY <3>5, <3>6 DEF Backed
    <2>. QED
      BY <1>2, <2>1, <2>2 DEF Govern
  <1>6. GroupsValid'
    <2>. DEFINE g == NextGroup(group[s], op)
    <2>1. /\ group'[s] = g
          /\ \A t \in Sessions \ {s} : group'[t] = group[t]
      BY <1>3 DEF Regroup, IInv, TypeOK
    <2>2. ValidGroup(g)
      BY <1>3 DEF Regroup, MayProject
    <2>3. /\ g.epoch = group[s].epoch + 1
          /\ g.members = Operated(group[s].members, op)
      BY DEF NextGroup
    <2>4. /\ IsFiniteSet(DOMAIN g.members) /\ DOMAIN g.members \subseteq Endpoints
      BY <2>3, OperatedMembers DEF IInv, GroupsValid
    <2>5. g.epoch \in Nat
      BY <2>3 DEF IInv, GroupsValid
    <2>. HIDE DEF g
    <2>. QED
      BY <2>1, <2>2, <2>4, <2>5 DEF IInv, GroupsValid
  <1>. QED
    BY <1>4, <1>5, <1>6 DEF IInv

LEMMA NextInvariant == IInv /\ [Next]_vars => IInv'
  <1>. SUFFICES ASSUME IInv, [Next]_vars
                PROVE  IInv'
    OBVIOUS
  <1>1. ASSUME UNCHANGED <<backed, governance, group, adopted>>
        PROVE  IInv'
    BY <1>1 DEF IInv, TypeOK, Backed, Backers, GroupsValid
  <1>2. CASE UNCHANGED vars
    BY <1>1, <1>2 DEF vars, runtime
  <1>3. CASE Tick
    BY <1>1, <1>3 DEF Tick, runtime
  <1>4. ASSUME NEW s \in Sessions, Settle(s)
        PROVE  IInv'
    BY <1>1, <1>4 DEF Settle, runtime
  <1>. QED
    BY <1>2, <1>3, <1>4, FlowStep DEF Next

\* IInv holds in every reachable state.
THEOREM Invariance == Spec => []IInv
  BY InitInvariant, NextInvariant, PTL DEF Spec

-----------------------------------------------------------------------------
(* The theorems                                                            *)

\* Sessions that see bundles in different orders, late and again, never adopt
\* different bundles in one epoch (evaluate_candidate, validate_role_threshold).
THEOREM SessionsAgreeOnBundles == Spec => []AgreeOnBundles
  <1>1. IInv => AgreeOnBundles
    <2>. SUFFICES ASSUME IInv, NEW s \in Sessions, NEW t \in Sessions,
                         NEW k \in 1..Len(adopted[s]), k <= Len(adopted[t])
                  PROVE  adopted[s][k] = adopted[t][k]
      BY DEF AgreeOnBundles
    <2>1. adopted[s] \in Seq(Bundles) /\ adopted[t] \in Seq(Bundles)
      BY DEF IInv, TypeOK
    <2>2. k \in 1..Len(adopted[t])
      BY <2>1
    <2>3. PICK q, r \in Backers(adopted[s][k]) : q # r
      BY DEF IInv, Backed
    <2>4. PICK u, v \in Backers(adopted[t][k]) : u # v
      BY <2>2 DEF IInv, Backed
    <2>5. {q, r} \subseteq Roots /\ {u, v} \subseteq Roots
      BY DEF Backers
    <2>6. PICK w \in {q, r} : w \in {u, v}
      BY <2>3, <2>4, <2>5, RootsAssumption
    <2>7. /\ backed[w][Content[adopted[s][k]].epoch] = adopted[s][k]
          /\ backed[w][Content[adopted[t][k]].epoch] = adopted[t][k]
      BY <2>6 DEF Backers
    <2>8. Content[adopted[s][k]].epoch = k /\ Content[adopted[t][k]].epoch = k
      BY <2>2 DEF IInv, Backed
    <2>. QED
      BY <2>7, <2>8
  <1>. QED
    BY <1>1, Invariance, PTL

\* Whatever flows do to a group, somebody can still change it, and stay
\* (GroupState::validate, apply_transition).
THEOREM GroupsStaySteerable == Spec => []GroupSteerable
  <1>1. IInv => GroupSteerable
    <2>. SUFFICES ASSUME IInv, NEW s \in Sessions, group[s].epoch < MaxGroupEpoch
                  PROVE  \E author \in Endpoints, op \in Operations :
                           /\ MayTransition(group[s], author, op)
                           /\ MayProject(NextGroup(group[s], op), author)
      BY DEF GroupSteerable
    <2>. DEFINE g == group[s]
                members == g.members
    <2>1. /\ ValidGroup(g) /\ g.epoch \in Nat
          /\ DOMAIN members \subseteq Endpoints /\ IsFiniteSet(DOMAIN members)
      BY DEF IInv, GroupsValid
    <2>2. PICK author \in DOMAIN members : members[author] = "stateAuthority"
      BY <2>1 DEF ValidGroup, Authorities
    <2>3. PICK other \in Endpoints : other # author
      BY FlowAssumption, <2>1, <2>2
    <2>4. author \in Authorities(members)
      BY <2>2 DEF Authorities
    <2>5. Cardinality(DOMAIN members) \in Nat /\ Cardinality(DOMAIN members) <= MaxMembers
      BY <2>1, FS_CardinalityType DEF ValidGroup
    <2>6. ASSUME NEW op \in Operations,
                 op.kind = "add" => Cardinality(DOMAIN members) # MaxMembers,
                 Applicable(members, op),
                 author \in DOMAIN Operated(members, op),
                 Operated(members, op)[author] = "stateAuthority",
                 Cardinality(DOMAIN Operated(members, op)) <= MaxMembers
          PROVE  /\ MayTransition(g, author, op)
                 /\ MayProject(NextGroup(g, op), author)
      <3>. DEFINE h == NextGroup(g, op)
      <3>1. /\ h.epoch = g.epoch + 1 /\ h.previous = g.epoch
            /\ h.members = Operated(members, op)
        BY DEF NextGroup, Digest
      <3>2. author \in Authorities(h.members)
        BY <2>6, <3>1 DEF Authorities
      <3>3. h.epoch <= MaxGroupEpoch /\ h.epoch # 0 /\ h.previous # NoDigest
        BY <2>1, <3>1, FlowAssumption
      <3>4. ValidGroup(h) /\ author \in DOMAIN h.members
        <4>. HIDE DEF h
        <4>. QED
          BY <2>6, <3>1, <3>2, <3>3 DEF ValidGroup
      <3>. QED
        BY <2>1, <2>4, <2>6, <3>4 DEF MayTransition, MayProject
    <2>7. CASE other \in DOMAIN members
      <3>. DEFINE op == [kind |-> "remove", endpoint |-> other, role |-> "member"]
      <3>1. op \in Operations /\ op.kind = "remove" /\ op.endpoint = other
        BY DEF Operations
      <3>2. Operated(members, op) = [e \in DOMAIN members \ {other} |-> members[e]]
        BY <3>1 DEF Operated
      <3>3. /\ author \in DOMAIN Operated(members, op)
            /\ Operated(members, op)[author] = "stateAuthority"
        BY <2>2, <2>3, <3>2
      <3>4. Cardinality(DOMAIN Operated(members, op)) <= MaxMembers
        <4>1. Cardinality(DOMAIN members \ {other}) = Cardinality(DOMAIN members) - 1
          BY <2>1, <2>7, FS_RemoveElement
        <4>2. DOMAIN Operated(members, op) = DOMAIN members \ {other}
          BY <3>2
        <4>. QED
          BY <2>5, <4>1, <4>2, FlowAssumption
      <3>5. Applicable(members, op)
        BY <2>7, <3>1 DEF Applicable
      <3>. HIDE DEF op
      <3>. QED
        BY <2>1, <2>2, <2>6, <3>1, <3>3, <3>4, <3>5
    <2>8. CASE Cardinality(DOMAIN members) = MaxMembers /\ other \notin DOMAIN members
      <3>1. PICK third \in DOMAIN members : third # author
        <4>1. Cardinality({author}) = 1
          BY FS_Singleton
        <4>2. DOMAIN members # {author}
          BY <2>8, <4>1, FlowAssumption
        <4>. QED
          BY <2>2, <4>2
      <3>. DEFINE op == [kind |-> "remove", endpoint |-> third, role |-> "member"]
      <3>2. op \in Operations /\ op.kind = "remove" /\ op.endpoint = third
        BY <2>1, <3>1 DEF Operations
      <3>3. Operated(members, op) = [e \in DOMAIN members \ {third} |-> members[e]]
        BY <3>2 DEF Operated
      <3>4. /\ author \in DOMAIN Operated(members, op)
            /\ Operated(members, op)[author] = "stateAuthority"
        BY <2>2, <3>1, <3>3
      <3>5. Cardinality(DOMAIN Operated(members, op)) <= MaxMembers
        <4>1. Cardinality(DOMAIN members \ {third}) = Cardinality(DOMAIN members) - 1
          BY <2>1, <3>1, FS_RemoveElement
        <4>2. DOMAIN Operated(members, op) = DOMAIN members \ {third}
          BY <3>3
        <4>. QED
          BY <2>5, <4>1, <4>2, FlowAssumption
      <3>6. Applicable(members, op)
        BY <3>1, <3>2 DEF Applicable
      <3>. HIDE DEF op
      <3>. QED
        BY <2>1, <2>2, <2>6, <3>2, <3>4, <3>5, <3>6
    <2>9. CASE Cardinality(DOMAIN members) # MaxMembers /\ other \notin DOMAIN members
      <3>. DEFINE op == [kind |-> "add", endpoint |-> other, role |-> "member"]
      <3>1. op \in Operations /\ op.kind = "add" /\ op.endpoint = other /\ op.role = "member"
        BY DEF Operations, Roles
      <3>2. /\ DOMAIN Operated(members, op) = DOMAIN members \cup {other}
            /\ \A e \in DOMAIN members : e # other => Operated(members, op)[e] = members[e]
        BY <3>1 DEF Operated
      <3>3. /\ author \in DOMAIN Operated(members, op)
            /\ Operated(members, op)[author] = "stateAuthority"
        BY <2>2, <2>3, <3>2
      <3>4. Cardinality(DOMAIN Operated(members, op)) <= MaxMembers
        <4>1. Cardinality(DOMAIN members \cup {other}) = Cardinality(DOMAIN members) + 1
          BY <2>1, <2>9, FS_AddElement
        <4>. QED
          BY <2>5, <2>9, <3>2, <4>1, FlowAssumption
      <3>5. Applicable(members, op)
        BY <2>9, <3>1 DEF Applicable
      <3>. HIDE DEF op
      <3>. QED
        BY <2>1, <2>2, <2>6, <2>9, <3>1, <3>3, <3>4, <3>5
    <2>. QED
      BY <2>7, <2>8, <2>9
  <1>. QED
    BY <1>1, Invariance, PTL


-----------------------------------------------------------------------------
(* Replays                                                                 *)

\* There are at most so many signatures as roots, keys and roles allow.
LEMMA SignaturesAreFew ==
  ASSUME NEW roots, IsFiniteSet(roots), NEW n \in Nat, NEW roles, IsFiniteSet(roles)
  PROVE  /\ IsFiniteSet(SignaturesOf(roots, n, roles))
         /\ Cardinality(SignaturesOf(roots, n, roles)) <=
              (Cardinality(roots) * n) * Cardinality(roles)
  <1>. DEFINE A == SignaturesOf(roots, n, roles)
              K == 1..n
              P == roots \X K
              T == P \X roles
              f == [a \in A |-> <<<<a.root, a.key>>, a.role>>]
  <1>1. IsFiniteSet(K) /\ Cardinality(K) = n
    <2>1. IsFiniteSet(1..n) /\ Cardinality(1..n) = IF 1 > n THEN 0 ELSE n - 1 + 1
      BY FS_Interval
    <2>. QED
      BY <2>1
  <1>2. f \in Injection(A, T)
    <2>1. ASSUME NEW a \in A
          PROVE  /\ a = [root |-> a.root, key |-> a.key, role |-> a.role]
                 /\ a.root \in roots /\ a.key \in K /\ a.role \in roles
      BY DEF SignaturesOf
    <2>2. f \in [A -> T]
      BY <2>1
    <2>3. ASSUME NEW a \in A, NEW c \in A, f[a] = f[c]
          PROVE  a = c
      <3>1. a.root = c.root /\ a.key = c.key /\ a.role = c.role
        BY <2>3
      <3>. QED
        BY <2>1, <3>1
    <2>. QED
      BY <2>2, <2>3 DEF Injection, IsInjective
  <1>. HIDE DEF A, K, f
  <1>3. IsFiniteSet(P) /\ Cardinality(P) = Cardinality(roots) * n
    <2>1. IsFiniteSet(P) /\ Cardinality(P) = Cardinality(roots) * Cardinality(K)
      BY <1>1, FS_Product
    <2>. QED
      BY <1>1, <2>1
  <1>. HIDE DEF P
  <1>4. IsFiniteSet(T) /\ Cardinality(T) = Cardinality(P) * Cardinality(roles)
    BY <1>3, FS_Product
  <1>. HIDE DEF T
  <1>5. IsFiniteSet(A) /\ Cardinality(A) <= Cardinality(T)
    BY <1>2, <1>4, FS_Injection
  <1>. QED
    BY <1>3, <1>4, <1>5 DEF A

\* More signatures still make a threshold, within the bounds.
LEMMA MoreSignatures ==
  ASSUME NEW role, NEW few, NEW many, few \subseteq many, RoleThreshold(role, few),
         IsFiniteSet(InRole(role, many)), Cardinality(InRole(role, many)) <= MaxSignatures,
         IsFiniteSet(RootsOf(InRole(role, many))), MaxSignatures \in Nat
  PROVE  RoleThreshold(role, many)
  <1>. DEFINE M == InRole(role, few)
              N == InRole(role, many)
              At(r, S) == {a \in S : a.root = r}
  <1>1. M \subseteq N
    BY DEF InRole
  <1>2. PICK r, q \in RootsOf(M) :
          r # q /\ Cardinality(At(r, M)) >= 2 /\ Cardinality(At(q, M)) >= 2
    BY DEF RoleThreshold
  <1>3. Cardinality(M) \in 4..MaxSignatures
    BY DEF RoleThreshold
  <1>4. ASSUME NEW t
        PROVE  IsFiniteSet(At(t, N)) /\ Cardinality(At(t, M)) <= Cardinality(At(t, N))
    <2>1. At(t, N) \in SUBSET N /\ At(t, M) \in SUBSET At(t, N)
      BY <1>1
    <2>2. IsFiniteSet(At(t, N))
      BY <2>1, FS_Subset
    <2>. HIDE DEF At
    <2>. QED
      BY <2>1, <2>2, FS_Subset
  <1>5. Cardinality(M) <= Cardinality(N) /\ Cardinality(N) \in Nat
    BY <1>1, FS_Subset, FS_CardinalityType
  <1>6. r \in RootsOf(N) /\ q \in RootsOf(N)
    BY <1>1, <1>2 DEF RootsOf
  <1>7. Cardinality(RootsOf(N)) >= 2
    <2>1. {r, q} \in SUBSET RootsOf(N)
      BY <1>6
    <2>2. Cardinality({r, q}) = 2
      <3>1. IsFiniteSet({r}) /\ Cardinality({r}) = 1
        BY FS_Singleton
      <3>2. Cardinality({r} \cup {q}) = Cardinality({r}) + 1
        BY <1>2, <3>1, FS_AddElement
      <3>3. {r} \cup {q} = {r, q}
        OBVIOUS
      <3>. QED
        BY <3>1, <3>2, <3>3
    <2>3. Cardinality(RootsOf(N)) \in Nat
      BY FS_CardinalityType
    <2>. QED
      BY <2>1, <2>2, <2>3, FS_Subset
  <1>8. \A t : /\ Cardinality(At(t, M)) <= Cardinality(At(t, N))
               /\ Cardinality(At(t, N)) \in Nat
    <2>1. ASSUME NEW t
          PROVE  Cardinality(At(t, N)) \in Nat
      <3>1. IsFiniteSet(At(t, N))
        BY <1>4
      <3>. HIDE DEF At
      <3>. QED
        BY <3>1, FS_CardinalityType
    <2>. QED
      BY <1>4, <2>1
  <1>9. /\ Cardinality(At(r, N)) >= 2 /\ Cardinality(At(q, N)) >= 2
    <2>1. \A t : Cardinality(At(t, M)) \in Nat
      <3>1. ASSUME NEW t
            PROVE  Cardinality(At(t, M)) \in Nat
        <4>1. IsFiniteSet(At(t, N)) /\ At(t, M) \in SUBSET At(t, N)
          BY <1>1, <1>4
        <4>. HIDE DEF At
        <4>2. IsFiniteSet(At(t, M))
          BY <4>1, FS_Subset
        <4>. QED
          BY <4>2, FS_CardinalityType
      <3>. QED
        BY <3>1
    <2>. HIDE DEF At
    <2>. QED
      BY <1>2, <1>8, <2>1
  <1>10. Cardinality(N) \in 4..MaxSignatures
    BY <1>3, <1>5
  <1>. QED
    BY <1>2, <1>6, <1>7, <1>9, <1>10 DEF RoleThreshold


\* If some evidence for a bundle makes a role's threshold, all of it does.
LEMMA FullThreshold ==
  ASSUME EvidenceFits, NEW b, NEW role \in GovernanceRoles, NEW evidence \in Evidence(b),
         RoleThreshold(role, evidence.authorizations)
  PROVE  RoleThreshold(role, Full(b).authorizations)
  <1>. DEFINE many == Full(b).authorizations
              few == evidence.authorizations
              roots == Backers(b)
  <1>1. /\ many = SignaturesOf(roots, KeysOfRoot, GovernanceRoles)
        /\ InRole(role, many) = SignaturesOf(roots, KeysOfRoot, {role})
    BY DEF Full, Candidate, SignaturesOf, InRole
  <1>2. few \subseteq many
    <2>1. PICK some \in SUBSET roots, n \in {1, 2, KeysOfRoot}, roles \in RoleSets :
            few = SignaturesOf(some, n, roles)
      BY DEF Evidence
    <2>2. roles \subseteq GovernanceRoles
      BY DEF RoleSets
    <2>3. 1..n \subseteq 1..KeysOfRoot
      BY DEF EvidenceFits
    <2>. QED
      BY <1>1, <2>1, <2>2, <2>3 DEF SignaturesOf
  <1>3. IsFiniteSet(roots) /\ Cardinality(roots) <= Cardinality(Roots)
        /\ Cardinality(roots) \in Nat /\ Cardinality(Roots) \in Nat
    <2>1. roots \in SUBSET Roots
      BY DEF Backers
    <2>. HIDE DEF roots
    <2>. QED
      BY <2>1, FS_Subset, FS_CardinalityType DEF EvidenceFits
  <1>4. IsFiniteSet({role}) /\ Cardinality({role}) = 1
    BY FS_Singleton
  <1>5. /\ IsFiniteSet(InRole(role, many))
        /\ Cardinality(InRole(role, many)) <= (Cardinality(roots) * KeysOfRoot) * 1
    <2>. HIDE DEF roots
    <2>. QED
      BY <1>1, <1>3, <1>4, SignaturesAreFew DEF EvidenceFits
  <1>6. Cardinality(roots) * KeysOfRoot <= Cardinality(Roots) * KeysOfRoot
    <2>. DEFINE c == Cardinality(roots)
                d == Cardinality(Roots)
    <2>. HIDE DEF c, d
    <2>1. c \in Nat /\ d \in Nat /\ c <= d /\ KeysOfRoot \in Nat
      BY <1>3 DEF c, d, EvidenceFits
    <2>2. c * KeysOfRoot <= d * KeysOfRoot
      BY ONLY <2>1
    <2>. QED
      BY <2>2 DEF c, d
  <1>7. Cardinality(InRole(role, many)) <= MaxSignatures
    <2>1. Cardinality(InRole(role, many)) \in Nat
      BY <1>5, FS_CardinalityType
    <2>. HIDE DEF roots, many
    <2>. QED
      BY <1>3, <1>5, <1>6, <2>1 DEF EvidenceFits
  <1>8. IsFiniteSet(RootsOf(InRole(role, many)))
    <2>1. RootsOf(InRole(role, many)) \in SUBSET roots
      <3>1. \A a \in InRole(role, many) : a.root \in roots
        <4>1. \A a \in SignaturesOf(roots, KeysOfRoot, {role}) : a.root \in roots
          <5>. HIDE DEF roots
          <5>. QED
            BY DEF SignaturesOf
        <4>. HIDE DEF roots, many
        <4>. QED
          BY <1>1, <4>1
      <3>. HIDE DEF roots, many
      <3>. QED
        BY <3>1 DEF RootsOf
    <2>. HIDE DEF roots
    <2>. QED
      BY <1>3, <2>1, FS_Subset
  <1>9. MaxSignatures \in Nat
    BY DEF EvidenceFits
  <1>. HIDE DEF many, few
  <1>10. RoleThreshold(role, few)
    BY DEF few
  <1>11. RoleThreshold(role, many)
    BY ONLY <1>2, <1>5, <1>7, <1>8, <1>9, <1>10, MoreSignatures
  <1>. QED
    BY <1>11 DEF many

\* All the evidence there can be for a bundle is within the bounds of a candidate.
LEMMA FullWithinBounds ==
  ASSUME EvidenceFits, NEW b
  PROVE  /\ Cardinality(Full(b).authorizations) <= Cardinality(GovernanceRoles) * MaxSignatures
         /\ IsFiniteSet(Full(b).observations)
         /\ Cardinality(Full(b).observations) = Cardinality(Observers)
  <1>. DEFINE many == Full(b).authorizations
              O == Full(b).observations
              roots == Backers(b)
              g == [o \in O |-> o.observer]
  <1>1. many = SignaturesOf(roots, KeysOfRoot, GovernanceRoles)
    BY DEF Full, Candidate
  <1>2. IsFiniteSet(roots) /\ Cardinality(roots) <= Cardinality(Roots)
        /\ Cardinality(roots) \in Nat /\ Cardinality(Roots) \in Nat
    <2>1. roots \in SUBSET Roots
      BY DEF Backers
    <2>. HIDE DEF roots
    <2>. QED
      BY <2>1, FS_Subset, FS_CardinalityType DEF EvidenceFits
  <1>3. IsFiniteSet(many) /\ Cardinality(many) <=
          (Cardinality(roots) * KeysOfRoot) * Cardinality(GovernanceRoles)
    <2>. HIDE DEF roots
    <2>. QED
      BY <1>1, <1>2, SignaturesAreFew DEF EvidenceFits
  <1>4. Cardinality(many) <= Cardinality(GovernanceRoles) * MaxSignatures
    <2>. DEFINE c == Cardinality(roots)
                d == Cardinality(Roots)
                n == Cardinality(GovernanceRoles)
                m == Cardinality(many)
    <2>1. n \in Nat /\ m \in Nat
      BY <1>3, FS_CardinalityType DEF EvidenceFits
    <2>2. /\ c \in Nat /\ d \in Nat /\ c <= d /\ KeysOfRoot \in Nat /\ d * KeysOfRoot <= MaxSignatures
          /\ m <= (c * KeysOfRoot) * n /\ MaxSignatures \in Nat
      BY <1>2, <1>3 DEF EvidenceFits
    <2>. HIDE DEF c, d, n, m
    <2>3. c * KeysOfRoot <= d * KeysOfRoot /\ c * KeysOfRoot \in Nat /\ d * KeysOfRoot \in Nat
      BY ONLY <2>2
    <2>4. c * KeysOfRoot <= MaxSignatures
      BY <2>2, <2>3
    <2>5. (c * KeysOfRoot) * n <= n * MaxSignatures
      <3>. DEFINE e == c * KeysOfRoot
      <3>1. e \in Nat /\ e <= MaxSignatures
        BY <2>3, <2>4
      <3>. HIDE DEF e
      <3>2. e * n <= n * MaxSignatures
        BY ONLY <2>1, <2>2, <3>1
      <3>. QED
        BY <3>2 DEF e
    <2>6. (c * KeysOfRoot) * n \in Nat /\ n * MaxSignatures \in Nat
      BY <2>1, <2>2, <2>3
    <2>7. m <= n * MaxSignatures
      BY <2>1, <2>2, <2>5, <2>6
    <2>. QED
      BY <2>7 DEF m, n
  <1>5. O = {[observer |-> o, version |-> Content[b].epoch, digest |-> b, statement |-> o] :
               o \in Observers}
    BY DEF Full, Candidate, StatementsOf
  <1>6. g \in Injection(O, Observers) /\ g \in Surjection(O, Observers)
    <2>1. g \in [O -> Observers]
      BY <1>5
    <2>2. ASSUME NEW o \in O, NEW u \in O, g[o] = g[u]
          PROVE  o = u
      BY <1>5, <2>2
    <2>3. ASSUME NEW w \in Observers
          PROVE  \E o \in O : g[o] = w
      <3>. DEFINE o == [observer |-> w, version |-> Content[b].epoch, digest |-> b, statement |-> w]
      <3>1. o \in O /\ o.observer = w
        BY <1>5
      <3>. HIDE DEF o, O
      <3>. QED
        BY <3>1
    <2>. HIDE DEF g, O
    <2>. QED
      BY <2>1, <2>2, <2>3 DEF Injection, Surjection, IsInjective
  <1>7. IsFiniteSet(O) /\ Cardinality(O) = Cardinality(Observers)
    <2>. HIDE DEF g, O
    <2>. QED
      BY <1>6, FS_Injection DEF EvidenceFits
  <1>. QED
    BY <1>4, <1>7

\* The statements of some observers are each their own, and of all of them.
LEMMA ObserversOf ==
  ASSUME NEW b, NEW observers
  PROVE  LET O == StatementsOf(b, observers) IN
         {o.observer : o \in O} = observers /\ {o.statement : o \in O} = observers
  <1>. DEFINE O == StatementsOf(b, observers)
  <1>1. \A o \in O : o.observer \in observers /\ o.statement \in observers
    BY DEF StatementsOf
  <1>2. ASSUME NEW w \in observers
        PROVE  \E o \in O : o.observer = w /\ o.statement = w
    <2>. DEFINE o == [observer |-> w, version |-> Content[b].epoch, digest |-> b, statement |-> w]
    <2>1. o \in O /\ o.observer = w /\ o.statement = w
      BY DEF StatementsOf
    <2>. HIDE DEF o, O
    <2>. QED
      BY <2>1
  <1>. HIDE DEF O
  <1>3. {o.observer : o \in O} = observers /\ {o.statement : o \in O} = observers
    BY <1>1, <1>2
  <1>. QED
    BY <1>3 DEF O

\* If some observers of a bundle suffice, all of them do.
LEMMA FullObserved ==
  ASSUME EvidenceFits, NEW b, NEW evidence \in Evidence(b), Observed(Candidate(b, evidence))
  PROVE  Observed(Full(b))
  <1>. DEFINE c == Full(b)
              O == c.observations
              few == evidence.observations
  <1>1. PICK some \in SUBSET Observers : few = StatementsOf(b, some)
    BY DEF Evidence
  <1>2. /\ O = StatementsOf(b, Observers)
        /\ c.epoch = Content[b].epoch /\ c.digest = b
    BY DEF Full, Candidate
  <1>3. {o.observer : o \in O} = Observers /\ {o.statement : o \in O} = Observers
    BY <1>2, ObserversOf
  <1>4. IsFiniteSet(O) /\ Cardinality(O) = Cardinality(Observers)
    BY FullWithinBounds
  <1>5. Cardinality(Observers) >= 2
    <2>1. {o.observer : o \in few} = some
      BY <1>1, ObserversOf
    <2>2. /\ Cardinality(few) >= 2
          /\ Cardinality({o.observer : o \in few}) = Cardinality(few)
      BY DEF Observed, Candidate
    <2>3. Cardinality(some) >= 2
      BY <2>1, <2>2
    <2>4. IsFiniteSet(Observers) /\ some \in SUBSET Observers
      BY <1>1 DEF EvidenceFits
    <2>5. Cardinality(some) <= Cardinality(Observers) /\ IsFiniteSet(some)
      BY <2>4, FS_Subset
    <2>6. Cardinality(some) \in Nat /\ Cardinality(Observers) \in Nat
      BY <2>4, <2>5, FS_CardinalityType
    <2>. QED
      BY <2>3, <2>5, <2>6
  <1>6. \A o \in O : o.version = c.epoch /\ o.digest = c.digest
    BY <1>2 DEF StatementsOf
  <1>7. /\ Cardinality(O) >= 2
        /\ Cardinality({o.observer : o \in O}) = Cardinality(O)
        /\ Cardinality({o.statement : o \in O}) = Cardinality(O)
    <2>. HIDE DEF O
    <2>. QED
      BY <1>3, <1>4, <1>5
  <1>. HIDE DEF c
  <1>8. Observed(c)
    BY <1>6, <1>7 DEF Observed
  <1>. QED
    BY <1>8 DEF c

\* What a commit establishes of the bundle that is adopted.
LEMMA AdoptionIsWarranted ==
  ASSUME NEW s \in Sessions, NEW b \in Bundles, "commit" \in Verdicts(s, b)
  PROVE  Warrant(b)
  <1>1. PICK evidence \in Evidence(b) :
          Verdict(governance[s], Candidate(b, evidence), now) = "commit"
    BY DEF Verdicts
  <1>. DEFINE c == Candidate(b, evidence)
  <1>2. /\ c.epoch = Content[b].epoch /\ c.expires = Content[b].expires
        /\ c.versions = Content[b].versions /\ c.recovery = Content[b].recovery
        /\ c.predecessor = Content[b].predecessor /\ c.authorizations = evidence.authorizations
    BY DEF Candidate
  <1>3. /\ WithinBounds(governance[s], c, now) /\ Acceptable(governance[s], c, now)
        /\ Authorized(governance[s], c) /\ Observed(c)
    <2>. HIDE DEF c
    <2>. QED
      BY <1>1 DEF c, Verdict, Again
  <1>. HIDE DEF c
  <1>4. /\ {c.epoch, c.expires} \subseteq 0..MaxInteger
        /\ DOMAIN c.versions = GovernanceRoles
        /\ \A role \in GovernanceRoles : c.versions[role] \in 1..MaxInteger
    BY <1>3 DEF WithinBounds
  <1>5. c.recovery = "none" <=> c.predecessor = NoBundle
    BY <1>3 DEF Acceptable
  <1>6. \A role \in GovernanceRoles : RoleThreshold(role, evidence.authorizations)
    BY <1>2, <1>3 DEF Authorized
  <1>. QED
    BY <1>2, <1>3, <1>4, <1>5, <1>6 DEF c, Warrant


LEMMA InitGoverned == Init => GInv
  <1>. SUFFICES ASSUME Init
                PROVE  GInv
    OBVIOUS
  <1>1. IInv
    BY InitInvariant
  <1>2. now \in Nat
    BY DEF Init
  <1>3. \A s \in Sessions : Len(adopted[s]) = 0
    BY DEF Init
  <1>4. \A s \in Sessions : /\ governance[s].network = Network /\ governance[s].digest = NoBundle
                            /\ DOMAIN governance[s].versions = {}
    <2>. SUFFICES ASSUME NEW s \in Sessions
                  PROVE  /\ governance[s].network = Network /\ governance[s].digest = NoBundle
                         /\ DOMAIN governance[s].versions = {}
      OBVIOUS
    <2>. DEFINE none == [role \in {} |-> 0]
    <2>1. DOMAIN none = {}
      OBVIOUS
    <2>. HIDE DEF none
    <2>2. governance[s] = [network |-> Network, epoch |-> 0, digest |-> NoBundle, versions |-> none]
      BY DEF Init, none
    <2>. QED
      BY <2>1, <2>2
  <1>5. Governed
    BY <1>3, <1>4 DEF Governed
  <1>6. Warranted
    BY <1>3 DEF Warranted
  <1>. QED
    BY <1>1, <1>2, <1>5, <1>6 DEF GInv

\* A flow leaves a session governed by what it adopted last.
LEMMA FlowGoverned ==
  ASSUME GInv, NEW s \in Sessions, Flow(s)
  PROVE  GInv'
  <1>1. backed' = backed /\ now' = now /\ now \in Nat
    BY DEF Flow, GInv
  <1>2. IInv'
    BY FlowStep DEF GInv
  <1>3. \A b : Warrant(b) => Warrant(b)'
    <2>1. \A b : Evidence(b)' = Evidence(b)
      BY <1>1 DEF Evidence, Backers
    <2>. QED
      BY <2>1 DEF Warrant
  <1>4. PICK b \in Bundles : Govern(s, b)
    BY DEF Flow
  <1>5. CASE UNCHANGED <<governance, adopted>>
    <2>1. Governed'
      BY <1>5 DEF GInv, Governed
    <2>2. Warranted'
      BY <1>3, <1>5 DEF GInv, Warranted
    <2>. QED
      BY <1>1, <1>2, <2>1, <2>2 DEF GInv
  <1>6. CASE /\ "commit" \in Verdicts(s, b)
             /\ governance' = [governance EXCEPT ![s] = Adopted(Full(b))]
             /\ adopted' = [adopted EXCEPT ![s] = Append(@, b)]
    <2>1. adopted[s] \in Seq(Bundles)
      BY DEF GInv, IInv, TypeOK
    <2>2. /\ adopted'[s] = Append(adopted[s], b) /\ governance'[s] = Adopted(Full(b))
          /\ \A t \in Sessions \ {s} : adopted'[t] = adopted[t] /\ governance'[t] = governance[t]
      BY <1>6 DEF GInv, IInv, TypeOK
    <2>3. /\ Adopted(Full(b)).network = Network /\ Adopted(Full(b)).digest = b
          /\ Adopted(Full(b)).versions = Content[b].versions
      BY DEF Adopted, Full, Candidate
    <2>4. /\ Len(adopted'[s]) = Len(adopted[s]) + 1
          /\ adopted'[s][Len(adopted'[s])] = b
          /\ \A k \in 1..Len(adopted[s]) : adopted'[s][k] = adopted[s][k]
      BY <2>1, <2>2
    <2>5. Governed'
      <3>1. ASSUME NEW t \in Sessions
            PROVE  LET n == Len(adopted'[t])  g == governance'[t] IN
                   /\ g.network = Network
                   /\ n = 0 => g.digest = NoBundle /\ DOMAIN g.versions = {}
                   /\ n > 0 => /\ g.digest = adopted'[t][n]
                               /\ g.versions = Content[adopted'[t][n]].versions
        <4>1. CASE t = s
          <5>1. Len(adopted[s]) \in Nat
            BY <2>1
          <5>2. Len(adopted'[s]) # 0
            BY <2>4, <5>1
          <5>. QED
            BY <2>2, <2>3, <2>4, <4>1, <5>2
        <4>2. CASE t # s
          BY <2>2, <4>2 DEF GInv, Governed
        <4>. QED
          BY <4>1, <4>2
      <3>. QED
        BY <3>1 DEF Governed
    <2>6. Warranted'
      <3>1. ASSUME NEW t \in Sessions, NEW k \in 1..Len(adopted'[t]),
                   adopted'[t][k] # b
            PROVE  k \in 1..Len(adopted[t]) /\ adopted'[t][k] = adopted[t][k]
        <4>1. CASE t = s
          <5>1. Len(adopted[s]) \in Nat
            BY <2>1
          <5>2. k \in 1..(Len(adopted[s]) + 1) /\ k # Len(adopted[s]) + 1
            BY <2>4, <3>1, <4>1
          <5>3. k \in 1..Len(adopted[s])
            BY <5>1, <5>2
          <5>. QED
            BY <2>4, <4>1, <5>3
        <4>2. CASE t # s
          BY <2>2, <3>1, <4>2
        <4>. QED
          BY <4>1, <4>2
      <3>2. ASSUME NEW c \in Bundles, NEW t \in Sessions, NEW k \in 1..Len(adopted'[t]),
                   adopted'[t][k] = c
            PROVE  Warrant(c)'
        <4>1. CASE c = b
          BY <1>3, <1>6, <4>1, AdoptionIsWarranted
        <4>2. CASE c # b
          <5>1. k \in 1..Len(adopted[t]) /\ adopted[t][k] = c
            BY <3>1, <3>2, <4>2
          <5>2. Warrant(c)
            BY <5>1 DEF GInv, Warranted
          <5>. QED
            BY <1>3, <5>2
        <4>. QED
          BY <4>1, <4>2
      <3>. QED
        BY <3>2 DEF Warranted
    <2>. QED
      BY <1>1, <1>2, <2>5, <2>6 DEF GInv
  <1>. QED
    BY <1>4, <1>5, <1>6 DEF Govern

LEMMA NextGoverned == GInv /\ [Next]_vars => GInv'
  <1>. SUFFICES ASSUME GInv, [Next]_vars
                PROVE  GInv'
    OBVIOUS
  <1>1. ASSUME UNCHANGED <<backed, governance, group, adopted>>, now' \in Nat
        PROVE  GInv'
    <2>1. IInv'
      BY NextInvariant DEF GInv
    <2>2. Governed'
      BY <1>1 DEF GInv, Governed
    <2>3. Warranted'
      <3>1. \A b : Evidence(b)' = Evidence(b)
        BY <1>1 DEF Evidence, Backers
      <3>2. \A b : Warrant(b) => Warrant(b)'
        BY <3>1 DEF Warrant
      <3>. QED
        BY <1>1, <3>2 DEF GInv, Warranted
    <2>. QED
      BY <1>1, <2>1, <2>2, <2>3 DEF GInv
  <1>2. CASE UNCHANGED vars
    BY <1>1, <1>2 DEF vars, runtime, GInv
  <1>3. CASE Tick
    BY <1>1, <1>3 DEF Tick, runtime, GInv
  <1>4. ASSUME NEW s \in Sessions, Settle(s)
        PROVE  GInv'
    BY <1>1, <1>4 DEF Settle, runtime, GInv
  <1>. QED
    BY <1>2, <1>3, <1>4, FlowGoverned DEF Next

\* GInv holds in every reachable state: a session is governed by the bundle it
\* adopted last, and whatever it adopted was warranted (GovernanceState).
THEOREM GovernedByLast == Spec => []GInv
  BY InitGoverned, NextGoverned, PTL DEF Spec

\* A bundle that comes again is never adopted again and never taken for another,
\* and while it is in force it is recognized (evaluate_candidate).
THEOREM ReplaysAreHarmless ==
  ASSUME EvidenceFits
  PROVE  Spec => []ReplaysHarmless
  <1>1. GInv => ReplaysHarmless
    <2>. SUFFICES ASSUME GInv, NEW s \in Sessions, NEW k \in 1..Len(adopted[s])
                  PROVE  LET b == adopted[s][k]
                             verdict == Verdict(governance[s], Full(b), now)
                         IN /\ verdict \notin {"commit", "Conflict"}
                            /\ (k = Len(adopted[s]) /\ Content[b].recovery = "none"
                                /\ Content[b].expires > now) => verdict = "replay"
      BY DEF ReplaysHarmless
    <2>. DEFINE b == adopted[s][k]
                n == Len(adopted[s])
                g == governance[s]
                c == Full(b)
                v == Content[b].versions
    <2>1. n \in Nat /\ b \in Bundles /\ g.epoch = n /\ Content[b].epoch = k
      <3>1. adopted[s] \in Seq(Bundles)
        BY DEF GInv, IInv, TypeOK
      <3>2. n \in Nat /\ b \in Bundles
        BY <3>1
      <3>. QED
        BY <3>2 DEF GInv, IInv, Backed
    <2>2. /\ c.epoch = k /\ c.digest = b /\ c.network = Network /\ c.sound
          /\ c.versions = v /\ c.expires = Content[b].expires
          /\ c.recovery = Content[b].recovery /\ c.predecessor = Content[b].predecessor
      BY <2>1 DEF Full, Candidate
    <2>3. g.network = Network /\ (k = n => g.digest = b /\ g.versions = v)
      BY <2>1 DEF GInv, Governed
    <2>4. k \in Nat /\ k >= 1 /\ k <= n
      BY <2>1
    <2>5. Warrant(b)
      BY <2>1 DEF GInv, Warranted
    <2>. HIDE DEF b, n, g, c, v
    <2>6. Verdict(g, c, now) \notin {"commit", "Conflict"}
      <3>1. c.epoch # g.epoch + 1
        BY <2>1, <2>2, <2>4
      <3>2. c.epoch = g.epoch => Again(g, c) = "replay"
        BY <2>1, <2>2, <2>3 DEF Again
      <3>. QED
        BY <3>1, <3>2 DEF Verdict
    <2>7. ASSUME k = n, Content[b].recovery = "none", Content[b].expires > now
          PROVE  Verdict(g, c, now) = "replay"
      <3>1. /\ {k, Content[b].expires} \subseteq 0..MaxInteger
            /\ DOMAIN v = GovernanceRoles
            /\ \A role \in GovernanceRoles : v[role] \in 1..MaxInteger
            /\ Content[b].recovery = "none" <=> Content[b].predecessor = NoBundle
        BY <2>1, <2>5 DEF Warrant, b, v
      <3>2. PICK evidence \in Evidence(b) :
              /\ \A role \in GovernanceRoles : RoleThreshold(role, evidence.authorizations)
              /\ Observed(Candidate(b, evidence))
        BY <2>5 DEF Warrant
      <3>3. now \in 0..MaxInteger
        BY <2>7, <3>1, FlowAssumption DEF GInv
      <3>4. /\ Cardinality(c.authorizations) <= Cardinality(GovernanceRoles) * MaxSignatures
            /\ Cardinality(c.observations) <= MaxObservations
        BY FullWithinBounds DEF c, EvidenceFits
      <3>5. WithinBounds(g, c, now)
        <4>1. Versions(g.epoch, g.versions)
          BY <2>1, <2>3, <2>4, <2>7, <3>1, FlowAssumption DEF Versions
        <4>2. {g.epoch, c.epoch, c.expires, now} \subseteq 0..MaxInteger
          BY <2>1, <2>2, <2>7, <3>1, <3>3
        <4>. QED
          BY <2>2, <3>1, <3>4, <4>1, <4>2 DEF WithinBounds
      <3>6. Acceptable(g, c, now)
        BY <2>1, <2>2, <2>3, <2>4, <2>7, <3>1, FlowAssumption DEF Acceptable
      <3>7. Authorized(g, c)
        <4>1. ASSUME NEW role \in GovernanceRoles
              PROVE  /\ RoleThreshold(role, c.authorizations)
                     /\ c.versions[role] >= VersionOf(g, role)
          <5>1. RoleThreshold(role, c.authorizations)
            BY <3>2, FullThreshold DEF c
          <5>2. v[role] \in Nat /\ VersionOf(g, role) = v[role]
            BY <2>3, <2>7, <3>1 DEF VersionOf
          <5>. QED
            BY <2>2, <5>1, <5>2
        <4>. QED
          BY <4>1 DEF Authorized
      <3>8. Observed(c)
        BY <3>2, FullObserved DEF c
      <3>9. c.epoch = g.epoch /\ Again(g, c) = "replay"
        BY <2>1, <2>2, <2>3, <2>7 DEF Again
      <3>. QED
        BY <3>5, <3>6, <3>7, <3>8, <3>9 DEF Verdict
    <2>. QED
      BY <2>6, <2>7 DEF b, n, g, c
  <1>. QED
    BY <1>1, GovernedByLast, PTL

=============================================================================
