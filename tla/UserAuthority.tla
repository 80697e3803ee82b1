---------------------------- MODULE UserAuthority ----------------------------
(***************************************************************************)
(* The authority state of one user: src/src/identity.rs.                   *)
(*                                                                         *)
(* A user's writers publish snapshots of the user's devices and of the two *)
(* key pairs that govern them.  Each snapshot names its predecessor by     *)
(* digest and is signed with keys of that predecessor, so that two writers *)
(* who do not know of each other make a tree.  Peers follow one branch of  *)
(* it: from protected payloads, or several epochs at a time by catch-up,   *)
(* with snapshots late, repeated, out of order and of the other branch.    *)
(*                                                                         *)
(* A digest is the place of the snapshot in `published`; a signature is    *)
(* the key pair it was made with; a device's possession proof is the       *)
(* authority epoch its keys signed for.                                    *)
(***************************************************************************)
EXTENDS Naturals, Sequences, FiniteSets

CONSTANTS
  Peers,            \* endpoints that follow this user
  Endpoints,        \* endpoint_identity_ref of the user's possible devices
  IdentityDigests,  \* identity_state_digest: which keys a device has
  ManagementKeys,   \* pairs of an Ed25519 and an ML-DSA-65 authority key,
  RecoveryKeys,     \* and those for recovery: their purpose keeps them apart
  Founding,         \* the key pairs the user_identity_ref is derived from
  MaxEpoch,         \* MAX_SAFE_INTEGER (2^53 - 1)
  MaxDevices,       \* 16 devices to a roster
  MaxCatchUp,       \* MAX_CHAIN_RECORDS (64) snapshots to a catch-up
  MaxPublished,     \* bound of the instance: snapshots the writers publish
  None              \* absent revokedAuthorityEpoch, or no accepted state

ASSUME KeysAssumption ==
  /\ ManagementKeys \cap RecoveryKeys = {}
  /\ Founding \in [management : ManagementKeys, recovery : RecoveryKeys]

ASSUME LimitAssumption ==
  /\ MaxEpoch \in Nat
  /\ MaxDevices \in Nat
  /\ MaxCatchUp \in Nat
  /\ MaxPublished \in Nat
  /\ None \notin Nat

-----------------------------------------------------------------------------
(* Data                                                                    *)

\* An authorized device: only a revoked one has a revokedAuthorityEpoch.
Device ==
  [digest : IdentityDigests, status : {"active"},
   admitted : 0..MaxEpoch, revoked : {None}, possession : 0..MaxEpoch]
  \cup [digest : IdentityDigests, status : {"revoked"},
        admitted : 0..MaxEpoch, revoked : 0..MaxEpoch, possession : 0..MaxEpoch]

Roster == UNION {[E -> Device] : E \in SUBSET Endpoints}

\* Key pairs that are well-formed: validate_authority_keys.
KeyPairs == ManagementKeys \cup RecoveryKeys

\* The two replaceable key pairs; `proof` holds the names of those for which
\* the record carries replacement signatures, {} when it carries no proof.
Replaceable == {"management", "recovery"}

\* A userAuthorityState record; `previous` is a digest, None without one.
Snapshot ==
  [kind : {"genesis"} \cup Replaceable, epoch : 0..MaxEpoch, previous : Nat \cup {None},
   management : ManagementKeys, recovery : RecoveryKeys, devices : Roster,
   proof : SUBSET Replaceable, signer : KeyPairs]

VARIABLES
  published,  \* the snapshots the user's writers have signed, by digest
  lineage,    \* history: lineage[i] is i and all predecessors of i
  accepted    \* the digest of the AcceptedUserAuthority of each peer, or None

vars == <<published, lineage, accepted>>

-----------------------------------------------------------------------------
(* What a record must be by itself: validate_user_authority_record         *)

DeviceShape(d, epoch) ==
  /\ d.admitted <= epoch
  /\ d.status = "active" <=> d.revoked = None
  /\ d.status = "revoked" => d.admitted <= d.revoked /\ d.revoked <= epoch

WellFormed(s) ==
  /\ s.epoch <= MaxEpoch
  /\ s.epoch = 0 <=> s.kind = "genesis"
  /\ s.epoch = 0 <=> s.previous = None
  /\ DOMAIN s.devices # {}
  /\ Cardinality(DOMAIN s.devices) <= MaxDevices
  /\ \A e \in DOMAIN s.devices : DeviceShape(s.devices[e], s.epoch)

-----------------------------------------------------------------------------
(* What it must be after its predecessor: validate_user_authority_state    *)

\* The fields of an authorized device that its own authority cannot rewrite.
Keeps(prior, next) ==
  /\ next.digest = prior.digest
  /\ next.admitted = prior.admitted
  /\ next.possession = prior.possession

\* Fault: every revoked device must have been revoked in this very epoch.
DeviceTransitionFault(prior, next, epoch) ==
  \/ next.status = "revoked" /\ Keeps(prior, next) /\ next.revoked = epoch
  \/ next.status = "active" /\ Keeps(prior, next)
  \/ next.status = "active" /\ next.digest # prior.digest /\ next.admitted = epoch

\* The loop of validate_roster_transition over devices of both rosters.
DeviceTransition(prior, next, epoch) ==
  IF prior.status = "revoked"
  THEN next = prior
  ELSE \/ next.status = "revoked" /\ Keeps(prior, next) /\ next.revoked = epoch
       \/ next.status = "active" /\ Keeps(prior, next)
       \/ next.status = "active" /\ next.digest # prior.digest /\ next.admitted = epoch

RosterTransition(prior, next, epoch) ==
  /\ \A e \in DOMAIN prior \ DOMAIN next : prior[e].status = "revoked"
  /\ \A e \in DOMAIN prior \cap DOMAIN next : DeviceTransition(prior[e], next[e], epoch)
  /\ \A e \in DOMAIN next \ DOMAIN prior :
       next[e].status = "active" /\ next[e].admitted = epoch

\* A device the predecessor lists under the same keys proves nothing anew.
Unchanged(prior, next, e) == e \in DOMAIN prior /\ prior[e].digest = next[e].digest

\* The keys of device d have signed for this authority epoch, this endpoint and
\* this identity state: the input of verify_signature_pair for a possession proof.
PossessedAt(d, epoch) == d.possession = epoch

\* Fault: a proof once given for these keys is good for every later epoch.
PossessionFault(prior, next, epoch) ==
  \A e \in DOMAIN next : Unchanged(prior, next, e) \/ next[e].possession <= epoch

\* Every other device has signed for this very epoch.
Possession(prior, next, epoch) ==
  \A e \in DOMAIN next : Unchanged(prior, next, e) \/ PossessedAt(next[e], epoch)

\* verify_signature_pair: both signatures of the record are by these keys.
SignedWith(s, keys) == s.signer = keys

\* What the user_identity_ref is derived from.
IdentityRef(s) == [management |-> s.management, recovery |-> s.recovery]

\* verify_replacement_possession: signatures of exactly the new key pairs.
Replaced(p, s) == {keys \in Replaceable : s[keys] # p[keys]}

\* Who signs, and which key pairs may change: the recovery keys only by a
\* recovery, and a recovery changes something.
KeyTransition(p, s) ==
  /\ SignedWith(s, p[s.kind])
  /\ s.kind = "management" => s.recovery = p.recovery
  /\ s.kind = "recovery" => Replaced(p, s) # {}
  /\ s.proof = Replaced(p, s)

ValidGenesis(s) ==
  /\ s.kind = "genesis"
  /\ IdentityRef(s) = Founding
  /\ SignedWith(s, s.management)
  /\ s.proof = {}
  /\ \A e \in DOMAIN s.devices :
       /\ s.devices[e].status = "active"
       /\ s.devices[e].admitted = 0
       /\ PossessedAt(s.devices[e], 0)

\* Fault: the digest of the predecessor is not compared.
ValidSuccessorFault(s, i, p) ==
  /\ s.kind \in Replaceable
  /\ s.epoch = p.epoch + 1
  /\ RosterTransition(p.devices, s.devices, s.epoch)
  /\ Possession(p.devices, s.devices, s.epoch)
  /\ KeyTransition(p, s)

\* After the snapshot p, whose digest is i.
ValidSuccessor(s, i, p) ==
  /\ s.kind \in Replaceable
  /\ s.epoch = p.epoch + 1
  /\ s.previous = i
  /\ RosterTransition(p.devices, s.devices, s.epoch)
  /\ Possession(p.devices, s.devices, s.epoch)
  /\ KeyTransition(p, s)

\* s is accepted by whoever has accepted the snapshot i, or none (None).
Valid(s, i) ==
  /\ WellFormed(s)
  /\ IF i = None THEN ValidGenesis(s) ELSE ValidSuccessor(s, i, published[i])

-----------------------------------------------------------------------------
(* The writers                                                             *)

\* The input space of the instance: rosters that differ from the predecessor's
\* in one device, whose numbers are of this epoch, the last or the device's own.
Stamps(prior, e, epoch) ==
  {epoch, epoch - 1} \cup (IF e \in DOMAIN prior THEN {prior[e].admitted} ELSE {})

EditedDevices(prior, e, epoch) ==
  [digest : IdentityDigests, status : {"active", "revoked"},
   admitted : Stamps(prior, e, epoch), revoked : {epoch, epoch - 1, None},
   possession : Stamps(prior, e, epoch)]

Without(prior, e) == [x \in DOMAIN prior \ {e} |-> prior[x]]

WithDevice(prior, e, d) == [x \in DOMAIN prior \cup {e} |-> IF x = e THEN d ELSE prior[x]]

EditedRosters(prior, epoch) ==
  {prior}
  \cup {Without(prior, e) : e \in DOMAIN prior}
  \cup UNION {{WithDevice(prior, e, d) : d \in EditedDevices(prior, e, epoch)} : e \in Endpoints}

\* Either the keys differ, in any way, or one device does, and then the
\* management keys too if it is a recovery.
Drafts(i) ==
  LET p == published[i]
      Keyed == [management : ManagementKeys, recovery : RecoveryKeys, devices : {p.devices},
                proof : SUBSET Replaceable, signer : KeyPairs]
      Edited(keys, proof) == [management : keys, recovery : {p.recovery},
                              devices : EditedRosters(p.devices, p.epoch + 1),
                              proof : {proof}, signer : {p.management, p.recovery}]
      OfKind(kind, drafts) ==
        {[kind |-> kind, epoch |-> p.epoch + 1, previous |-> i,
          management |-> d.management, recovery |-> d.recovery, devices |-> d.devices,
          proof |-> d.proof, signer |-> d.signer] : d \in drafts}
  IN OfKind("management", Keyed \cup Edited({p.management}, {}))
     \cup OfKind("recovery", Keyed \cup Edited(ManagementKeys \ {p.management}, {"management"}))

Add(s, ancestors) ==
  /\ \A i \in 1..Len(published) : published[i] # s
  /\ published' = Append(published, s)
  /\ lineage' = Append(lineage, ancestors \cup {Len(published) + 1})
  /\ UNCHANGED accepted

\* A writer of the user extends any snapshot it knows, perhaps not the last.
Publish ==
  /\ Len(published) < MaxPublished
  /\ \E i \in 1..Len(published) :
       \E s \in Drafts(i) : Valid(s, i) /\ Add(s, lineage[i])

-----------------------------------------------------------------------------
(* The peers                                                               *)

\* admit_protected_authority_payload: a snapshot, presented by one of the
\* devices it authorizes over an authenticated session bound to its digest.
AdmitPayload(p) ==
  /\ \E i \in 1..Len(published) :
       /\ accepted[p] = i \/ Valid(published[i], accepted[p])
       /\ \E e \in DOMAIN published[i].devices : published[i].devices[e].status = "active"
       /\ accepted' = [accepted EXCEPT ![p] = i]
  /\ UNCHANGED <<published, lineage>>

\* apply_user_authority_catch_up: each snapshot is valid after the one before it,
\* the first after what was accepted, and no two of them are siblings.  One that
\* is not refuses them all.
CatchUp(i, snapshots) ==
  /\ Valid(published[snapshots[1]], i)
  /\ \A k \in 2..Len(snapshots) : Valid(published[snapshots[k]], snapshots[k - 1])
  /\ \A j, k \in 1..Len(snapshots) :
       published[snapshots[j]].previous = published[snapshots[k]].previous
         => snapshots[j] = snapshots[k]

ApplyCatchUp(p) ==
  /\ \E n \in 1..MaxCatchUp : \E snapshots \in [1..n -> 1..Len(published)] :
       /\ CatchUp(accepted[p], snapshots)
       /\ accepted' = [accepted EXCEPT ![p] = snapshots[n]]
  /\ UNCHANGED <<published, lineage>>

-----------------------------------------------------------------------------
(* The specification                                                       *)

FoundingRosters ==
  UNION {[S -> [digest : IdentityDigests, status : {"active"}, admitted : {0},
                revoked : {None}, possession : {0}]] : S \in SUBSET Endpoints}

\* A first snapshot; nothing but its devices tells two of them apart.
Found ==
  /\ Len(published) < MaxPublished
  /\ \E devices \in FoundingRosters :
       LET s == [kind |-> "genesis", epoch |-> 0, previous |-> None,
                 management |-> Founding.management, recovery |-> Founding.recovery,
                 devices |-> devices, proof |-> {}, signer |-> Founding.management]
       IN Valid(s, None) /\ Add(s, {})

Init ==
  /\ published = <<>>
  /\ lineage = <<>>
  /\ accepted = [p \in Peers |-> None]

Next == Found \/ Publish \/ \E p \in Peers : AdmitPayload(p) \/ ApplyCatchUp(p)

Spec == Init /\ [][Next]_vars

-----------------------------------------------------------------------------
(* Properties                                                              *)

\* Every variable holds a value of its type.
TypeOK ==
  /\ published \in Seq(Snapshot)
  /\ lineage \in Seq(SUBSET Nat)
  /\ Len(lineage) = Len(published)
  /\ accepted \in [Peers -> {None} \cup 1..Len(published)]

\* A snapshot is a genesis or was valid after an earlier one, and its lineage
\* is that one's and itself: whoever accepts it accepts what was published.
Rooted(i) == lineage[i] = {i} /\ published[i].previous = None /\ Valid(published[i], None)

Extends(i, j) ==
  /\ lineage[i] = lineage[j] \cup {i}
  /\ published[i].previous = j
  /\ Valid(published[i], j)

Tree == \A i \in 1..Len(published) : Rooted(i) \/ \E j \in 1..(i - 1) : Extends(i, j)

\* Epochs grow along a branch.
Ordered ==
  \A i \in 1..Len(published) :
    /\ i \in lineage[i]
    /\ \A j \in lineage[i] : /\ j \in 1..i
                             /\ published[j].epoch <= published[i].epoch

\* A device that is authorized has been authorized, with the keys it has now,
\* in every epoch of this branch since the one it was admitted in, and its keys
\* proved their possession for that epoch: no sequence of roster transitions
\* dates a device back, slips new keys under an old admission, or brings a
\* revoked or dropped device back on the strength of an earlier proof.
AdmittedSince ==
  \A i \in 1..Len(published) : \A e \in DOMAIN published[i].devices :
    LET d == published[i].devices[e] IN
    d.status = "active" =>
      /\ d.possession = d.admitted
      /\ \A j \in lineage[i] :
           published[j].epoch >= d.admitted =>
             e \in DOMAIN published[j].devices /\ published[j].devices[e] = d

\* A peer never leaves the branch it is on, however the payloads and catch-ups
\* of two branches reach it: what it accepted stays a predecessor.
StaysOnBranch ==
  [][\A p \in Peers : accepted[p] # None => accepted[p] \in lineage'[accepted'[p]]]_vars

\* No sequence of legal snapshots ends where the recovery keys are of no use:
\* new management keys can be put in force, with the devices as they are.
RecoverableAlways ==
  \A i \in 1..Len(published) : \A keys \in ManagementKeys \ {published[i].management} :
    published[i].epoch < MaxEpoch =>
      Valid([published[i] EXCEPT !.kind = "recovery", !.epoch = @ + 1, !.previous = i,
                                 !.management = keys, !.proof = {"management"},
                                 !.signer = published[i].recovery], i)

\* The inductive invariant.
IInv == TypeOK /\ Tree /\ Ordered /\ AdmittedSince

=============================================================================
