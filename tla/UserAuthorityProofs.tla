------------------------- MODULE UserAuthorityProofs -------------------------
(***************************************************************************)
(* Proofs about UserAuthority, for every value of its constants.           *)
(*                                                                         *)
(* IInv is inductive.  Only the writers' steps disturb it, and they add    *)
(* one snapshot: LEMMA AddStep shows what it keeps, from the fact that a   *)
(* valid snapshot treats each device in one of two ways (LEMMA Proven).    *)
(***************************************************************************)
EXTENDS UserAuthority, SequenceTheorems, LeastNumber

-----------------------------------------------------------------------------
(* One snapshot after another                                              *)

\* A device authorized after its predecessor is listed there as it is now, or
\* is admitted, with a proof, in this epoch.
LEMMA Proven ==
  ASSUME NEW p \in Snapshot, NEW s \in Snapshot, NEW i,
         ValidSuccessor(s, i, p),
         NEW e \in DOMAIN s.devices, s.devices[e].status = "active"
  PROVE  \/ e \in DOMAIN p.devices /\ p.devices[e] = s.devices[e]
         \/ s.devices[e].admitted = s.epoch /\ s.devices[e].possession = s.epoch
  <1>. DEFINE d == s.devices[e]
              c == p.devices[e]
  <1>1. d \in Device /\ (e \in DOMAIN p.devices => c \in Device)
    BY DEF Snapshot, Roster
  <1>2. CASE Unchanged(p.devices, s.devices, e)
    <2>1. e \in DOMAIN p.devices /\ c.digest = d.digest /\ DeviceTransition(c, d, s.epoch)
      BY <1>2 DEF Unchanged, ValidSuccessor, RosterTransition
    <2>2. c.status # "revoked" => Keeps(c, d) /\ c.status = "active"
      BY <1>1, <2>1 DEF DeviceTransition, Device
    <2>3. c.status = "active" /\ Keeps(c, d) => c = d
      BY <1>1, <2>1 DEF Device, Keeps
    <2>4. c.status = "revoked" => c = d
      BY <2>1 DEF DeviceTransition
    <2>. QED
      BY <2>1, <2>2, <2>3, <2>4
  <1>3. CASE ~Unchanged(p.devices, s.devices, e)
    <2>1. d.possession = s.epoch
      BY <1>3 DEF ValidSuccessor, Possession, PossessedAt
    <2>2. CASE e \in DOMAIN p.devices
      <3>1. c.digest # d.digest /\ DeviceTransition(c, d, s.epoch)
        BY <1>3, <2>2 DEF Unchanged, ValidSuccessor, RosterTransition
      <3>2. d.admitted = s.epoch
        BY <3>1 DEF DeviceTransition, Keeps
      <3>. QED
        BY <2>1, <3>2
    <2>3. CASE e \notin DOMAIN p.devices
      BY <2>1, <2>3 DEF ValidSuccessor, RosterTransition
    <2>. QED
      BY <2>2, <2>3
  <1>. QED
    BY <1>2, <1>3

\* What a valid snapshot and its predecessor have in common.
LEMMA Follows ==
  ASSUME TypeOK, NEW s, NEW i \in 1..Len(published), Valid(s, i)
  PROVE  /\ s.previous = i
         /\ s.epoch = published[i].epoch + 1
         /\ ValidSuccessor(s, i, published[i])
         /\ WellFormed(s)
         /\ published[i] \in Snapshot
  BY LimitAssumption DEF Valid, ValidSuccessor, TypeOK

-----------------------------------------------------------------------------
(* The writers' steps                                                      *)

\* A snapshot that is valid at its place in the tree keeps the invariant.
LEMMA AddStep ==
  ASSUME IInv, NEW s \in Snapshot, NEW ancestors, Add(s, ancestors),
         \/ ancestors = {} /\ Valid(s, None)
         \/ \E i \in 1..Len(published) : ancestors = lineage[i] /\ Valid(s, i)
  PROVE  IInv'
  <1>. USE DEF IInv
  <1>n. PICK n \in Nat : n = Len(published)
    BY DEF TypeOK
  <1>1. /\ Len(published) = n /\ Len(published') = n + 1 /\ Len(lineage') = n + 1
        /\ published' \in Seq(Snapshot)
        /\ \A i \in 1..n : published'[i] = published[i] /\ lineage'[i] = lineage[i]
        /\ published'[n + 1] = s /\ lineage'[n + 1] = ancestors \cup {n + 1}
    BY <1>n DEF Add, TypeOK
  <1>2. ancestors \subseteq 1..n /\ ancestors \subseteq Nat
    BY <1>1 DEF Ordered
  <1>e. s.epoch \in Nat /\ \A i \in 1..n : published[i] \in Snapshot /\ published[i].epoch \in Nat
    <2>1. \A t \in Snapshot : t.epoch \in Nat
      BY LimitAssumption DEF Snapshot
    <2>2. \A i \in 1..n : published[i] \in Snapshot
      BY <1>1, ElementOfSeq DEF TypeOK
    <2>. QED
      BY <2>1, <2>2
  <1>3. TypeOK'
    <2>1. lineage' \in Seq(SUBSET Nat)
      <3>1. ancestors \cup {n + 1} \in SUBSET Nat
        BY <1>2
      <3>. QED
        BY <1>1, <3>1, AppendProperties DEF Add, TypeOK
    <2>. QED
      BY <1>1, <2>1 DEF Add, TypeOK
  <1>4. \A i \in 1..(n + 1) : i = n + 1 \/ i \in 1..n
    BY <1>1
  <1>5. Tree'
    <2>1. ASSUME NEW i \in 1..n
          PROVE  (Rooted(i) \/ \E j \in 1..(i - 1) : Extends(i, j))'
      <3>1. CASE Rooted(i)
        <4>1. Rooted(i)'
          BY <1>1, <3>1, LimitAssumption DEF Rooted, Valid
        <4>. QED
          BY <4>1
      <3>2. ASSUME NEW j \in 1..(i - 1), Extends(i, j)
            PROVE  Extends(i, j)'
        <4>1. j \in 1..n /\ j # None
          BY <1>1, LimitAssumption
        <4>. QED
          BY <1>1, <3>2, <4>1 DEF Extends, Valid
      <3>3. Rooted(i) \/ \E j \in 1..(i - 1) : Extends(i, j)
        BY <1>1 DEF Tree
      <3>. QED
        BY <3>1, <3>2, <3>3
    <2>2. (Rooted(n + 1) \/ \E j \in 1..n : Extends(n + 1, j))'
      <3>1. CASE ancestors = {} /\ Valid(s, None)
        <4>1. s.previous = None
          BY <3>1, LimitAssumption DEF Valid, WellFormed, ValidGenesis
        <4>2. Rooted(n + 1)'
          BY <1>1, <3>1, <4>1 DEF Rooted, Valid
        <4>. QED
          BY <4>2
      <3>2. ASSUME NEW i \in 1..n, ancestors = lineage[i], Valid(s, i)
            PROVE  Extends(n + 1, i)'
        <4>1. s.previous = i /\ i # None
          BY <3>2, <1>1, Follows, LimitAssumption
        <4>. QED
          BY <1>1, <3>2, <4>1 DEF Extends, Valid
      <3>. QED
        BY <3>1, <3>2, <1>1
    <2>. QED
      BY <1>1, <1>4, <2>1, <2>2 DEF Tree
  <1>6. \A j \in ancestors : published[j].epoch < s.epoch
    <2>1. ASSUME NEW i \in 1..n, ancestors = lineage[i], Valid(s, i), NEW j \in ancestors
          PROVE  published[j].epoch < s.epoch
      <3>1. published[j].epoch <= published[i].epoch /\ j \in 1..n
        BY <1>1, <2>1 DEF Ordered
      <3>2. published[j].epoch \in Nat /\ published[i].epoch \in Nat
        BY <1>e, <2>1, <3>1
      <3>3. s.epoch = published[i].epoch + 1
        BY <1>1, <2>1, Follows
      <3>. QED
        BY <1>e, <2>1, <3>1, <3>2, <3>3
    <2>. QED
      BY <1>1, <2>1
  <1>7. Ordered'
    <2>1. ASSUME NEW i \in 1..n
          PROVE  /\ i \in lineage'[i]
                 /\ \A j \in lineage'[i] : j \in 1..i /\ published'[j].epoch <= published'[i].epoch
      BY <1>1 DEF Ordered
    <2>2. /\ n + 1 \in lineage'[n + 1]
          /\ \A j \in lineage'[n + 1] : /\ j \in 1..(n + 1)
                                        /\ published'[j].epoch <= published'[n + 1].epoch
      <3>1. ASSUME NEW j \in ancestors
            PROVE  j \in 1..(n + 1) /\ published'[j].epoch <= s.epoch
        <4>1. published[j].epoch < s.epoch /\ published[j].epoch \in Nat /\ s.epoch \in Nat
          BY <1>2, <1>6, <1>e
        <4>. QED
          BY <1>1, <1>2, <4>1
      <3>2. s.epoch <= s.epoch
        BY <1>e
      <3>. QED
        BY <1>1, <3>1, <3>2
    <2>. QED
      BY <1>1, <1>4, <2>1, <2>2 DEF Ordered
  <1>8. AdmittedSince'
    <2>1. ASSUME NEW i \in 1..n, NEW e \in DOMAIN published'[i].devices,
                 published'[i].devices[e].status = "active"
          PROVE  LET d == published'[i].devices[e] IN
                 /\ d.possession = d.admitted
                 /\ \A j \in lineage'[i] :
                      published'[j].epoch >= d.admitted =>
                        e \in DOMAIN published'[j].devices /\ published'[j].devices[e] = d
      <3>1. \A j \in lineage[i] : j \in 1..n
        BY <1>1 DEF Ordered
      <3>. QED
        BY <1>1, <2>1, <3>1 DEF AdmittedSince
    <2>2. ASSUME NEW e \in DOMAIN s.devices, s.devices[e].status = "active"
          PROVE  LET d == s.devices[e] IN
                 /\ d.possession = d.admitted
                 /\ \A j \in lineage'[n + 1] :
                      published'[j].epoch >= d.admitted =>
                        e \in DOMAIN published'[j].devices /\ published'[j].devices[e] = d
      <3>1. CASE ancestors = {} /\ Valid(s, None)
        BY <1>1, <2>2, <3>1, LimitAssumption DEF Valid, ValidGenesis, PossessedAt
      <3>2. ASSUME NEW i \in 1..n, ancestors = lineage[i], Valid(s, i)
            PROVE  LET d == s.devices[e] IN
                   /\ d.possession = d.admitted
                   /\ \A j \in lineage[i] :
                        published[j].epoch >= d.admitted =>
                          e \in DOMAIN published[j].devices /\ published[j].devices[e] = d
        <4>. DEFINE p == published[i]
        <4>1. /\ p \in Snapshot /\ ValidSuccessor(s, i, p)
              /\ \A j \in lineage[i] : published[j].epoch < s.epoch /\ published[j].epoch \in Nat
              /\ s.epoch \in Nat
          BY <1>1, <1>2, <1>6, <1>e, <3>2, Follows
        <4>2. CASE e \in DOMAIN p.devices /\ p.devices[e] = s.devices[e]
          BY <1>1, <2>2, <4>2 DEF AdmittedSince
        <4>3. CASE s.devices[e].admitted = s.epoch /\ s.devices[e].possession = s.epoch
          BY <4>1, <4>3
        <4>. HIDE DEF p
        <4>. QED
          BY <2>2, <4>1, <4>2, <4>3, Proven
      <3>3. CASE \E i \in 1..n : ancestors = lineage[i] /\ Valid(s, i)
        <4>1. PICK i \in 1..n : ancestors = lineage[i] /\ Valid(s, i)
          BY <3>3
        <4>2. \A j \in ancestors : published'[j] = published[j]
          BY <1>1, <1>2
        <4>3. published'[n + 1] = s /\ lineage'[n + 1] = ancestors \cup {n + 1}
          BY <1>1
        <4>4. LET d == s.devices[e] IN
              /\ d.possession = d.admitted
              /\ \A j \in ancestors :
                   published[j].epoch >= d.admitted =>
                     e \in DOMAIN published[j].devices /\ published[j].devices[e] = d
          BY <3>2, <4>1
        <4>5. ASSUME NEW j \in lineage'[n + 1], published'[j].epoch >= s.devices[e].admitted
              PROVE  e \in DOMAIN published'[j].devices /\ published'[j].devices[e] = s.devices[e]
          <5>1. CASE j \in ancestors
            BY <4>2, <4>4, <4>5, <5>1
          <5>2. CASE j = n + 1
            BY <2>2, <4>3, <5>2
          <5>. QED
            BY <4>3, <5>1, <5>2
        <4>. QED
          BY <4>4, <4>5
      <3>. QED
        BY <1>n, <3>1, <3>3
    <2>. QED
      BY <1>1, <1>4, <2>1, <2>2 DEF AdmittedSince
  <1>. QED
    BY <1>3, <1>5, <1>7, <1>8

\* A device drafted with numbers of this epoch, the last or its own has the form
\* of a device, if it is one by the rules for its numbers.
LEMMA DeviceDrafted ==
  ASSUME NEW prior \in Roster, NEW epoch \in 1..MaxEpoch, NEW e \in Endpoints,
         NEW d \in EditedDevices(prior, e, epoch),
         DeviceShape(d, epoch)
  PROVE  d \in Device
  <1>1. epoch \in 0..MaxEpoch /\ epoch - 1 \in 0..MaxEpoch /\ None \notin 0..MaxEpoch
    BY LimitAssumption
  <1>2. e \in DOMAIN prior => prior[e].admitted \in 0..MaxEpoch
    BY DEF Roster, Device
  <1>3. Stamps(prior, e, epoch) \subseteq 0..MaxEpoch
    BY <1>1, <1>2 DEF Stamps
  <1>4. d.status = "active" => d.revoked = None
    BY DEF DeviceShape
  <1>5. d.status = "revoked" => d.revoked \in 0..MaxEpoch
    BY <1>1 DEF DeviceShape, EditedDevices
  <1>. QED
    BY <1>3, <1>4, <1>5 DEF Device, EditedDevices

\* Edits make rosters of rosters.
LEMMA RosterEdited ==
  ASSUME NEW prior \in Roster, NEW epoch \in 1..MaxEpoch,
         NEW roster \in EditedRosters(prior, epoch),
         \A e \in DOMAIN roster : DeviceShape(roster[e], epoch)
  PROVE  roster \in Roster
  <1>1. DOMAIN prior \subseteq Endpoints /\ \A e \in DOMAIN prior : prior[e] \in Device
    BY DEF Roster
  <1>2. ASSUME NEW e \in DOMAIN prior, roster = Without(prior, e)
        PROVE  roster \in Roster
    <2>1. roster \in [DOMAIN prior \ {e} -> Device]
      BY <1>1, <1>2 DEF Without
    <2>. QED
      BY <1>1, <2>1 DEF Roster
  <1>3. ASSUME NEW e \in Endpoints, NEW d \in EditedDevices(prior, e, epoch),
               roster = WithDevice(prior, e, d)
        PROVE  roster \in Roster
    <2>1. e \in DOMAIN roster /\ roster[e] = d
      BY <1>3 DEF WithDevice
    <2>2. d \in Device
      BY <2>1, DeviceDrafted
    <2>3. roster \in [DOMAIN prior \cup {e} -> Device]
      BY <1>1, <1>3, <2>2 DEF WithDevice
    <2>4. DOMAIN prior \cup {e} \in SUBSET Endpoints
      BY <1>1
    <2>. QED
      BY <2>3, <2>4 DEF Roster
  <1>4. \/ roster = prior
        \/ \E e \in DOMAIN prior : roster = Without(prior, e)
        \/ \E e \in Endpoints : \E d \in EditedDevices(prior, e, epoch) :
             roster = WithDevice(prior, e, d)
    BY Zenon DEF EditedRosters
  <1>. QED
    BY <1>2, <1>3, <1>4

\* What a writer drafts after snapshot i, and is valid there, is a snapshot.
LEMMA DraftsTyped ==
  ASSUME IInv, NEW i \in 1..Len(published), NEW s \in Drafts(i), Valid(s, i)
  PROVE  s \in Snapshot
  <1>. DEFINE p == published[i]
  <1>1. p \in Snapshot
    BY ElementOfSeq DEF IInv, TypeOK
  <1>2. s.epoch = p.epoch + 1 /\ p.epoch \in Nat /\ s.epoch \in 1..MaxEpoch
    <2>1. s.epoch = p.epoch + 1 /\ s.epoch <= MaxEpoch /\ p.epoch \in Nat
      BY <1>1, Follows, LimitAssumption DEF IInv, WellFormed, Snapshot
    <2>. QED
      BY <2>1, LimitAssumption
  <1>3. p.devices \in Roster /\ i \in Nat
    BY <1>1 DEF Snapshot
  <1>4. /\ s = [kind |-> s.kind, epoch |-> s.epoch, previous |-> i,
               management |-> s.management, recovery |-> s.recovery, devices |-> s.devices,
               proof |-> s.proof, signer |-> s.signer]
        /\ s.kind \in Replaceable
        /\ s.management \in ManagementKeys /\ s.recovery \in RecoveryKeys
        /\ s.proof \subseteq Replaceable /\ s.signer \in KeyPairs
        /\ s.devices \in {p.devices} \cup EditedRosters(p.devices, p.epoch + 1)
    <2>1. p.management \in ManagementKeys /\ p.recovery \in RecoveryKeys
      BY <1>1 DEF Snapshot
    <2>. QED
      BY <1>2, <2>1 DEF Drafts, Replaceable, KeyPairs
  <1>5. s.devices \in Roster
    <2>1. \A e \in DOMAIN s.devices : DeviceShape(s.devices[e], s.epoch)
      BY Follows DEF IInv, WellFormed
    <2>. QED
      BY <1>2, <1>3, <1>4, <2>1, RosterEdited
  <1>. QED
    BY <1>2, <1>3, <1>4, <1>5 DEF Snapshot

-----------------------------------------------------------------------------
(* The peers' steps                                                        *)

\* A step that publishes nothing keeps the invariant.
LEMMA PeerStep ==
  ASSUME IInv, UNCHANGED <<published, lineage>>,
         accepted' \in [Peers -> {None} \cup 1..Len(published)]
  PROVE  IInv'
  BY DEF IInv, TypeOK, Tree, Rooted, Extends, Valid, Ordered, AdmittedSince

\* Whoever takes a snapshot that is valid after an earlier one stays on its branch.
LEMMA ValidOnBranch ==
  ASSUME IInv, NEW i \in 1..Len(published), NEW j \in 1..Len(published),
         Valid(published[j], i)
  PROVE  lineage[j] = lineage[i] \cup {j}
  <1>1. published[j].previous = i /\ i # None
    BY Follows, LimitAssumption DEF IInv
  <1>2. ~Rooted(j)
    BY <1>1 DEF Rooted
  <1>3. PICK k \in 1..(j - 1) : Extends(j, k)
    BY <1>2 DEF IInv, Tree
  <1>. QED
    BY <1>1, <1>3 DEF Extends

\* Through a catch-up, whatever its length, by induction over its snapshots.
LEMMA CatchUpOnBranch ==
  ASSUME IInv, NEW i \in 1..Len(published), NEW n \in Nat \ {0},
         NEW snapshots \in [1..n -> 1..Len(published)], CatchUp(i, snapshots)
  PROVE  i \in lineage[snapshots[n]]
  <1>. DEFINE S == {k \in 1..n : i \in lineage[snapshots[k]]}
  <1>0. Len(snapshots) = n /\ \A k \in 1..n : snapshots[k] \in 1..Len(published)
    BY LenProperties
  <1>1. 1 \in S
    <2>1. lineage[snapshots[1]] = lineage[i] \cup {snapshots[1]}
      <3>1. 1 \in 1..n /\ snapshots[1] \in 1..Len(published)
        BY <1>0
      <3>. QED
        BY <3>1, ValidOnBranch DEF CatchUp
    <2>. QED
      BY <2>1 DEF IInv, Ordered
  <1>2. ASSUME NEW k \in 1..(n - 1), k \in S
        PROVE  k + 1 \in S
    <2>1. k + 1 \in 2..n /\ k \in 1..n /\ (k + 1) - 1 = k
      OBVIOUS
    <2>2. Valid(published[snapshots[k + 1]], snapshots[k])
      BY <1>0, <2>1 DEF CatchUp
    <2>3. lineage[snapshots[k + 1]] = lineage[snapshots[k]] \cup {snapshots[k + 1]}
      BY <1>0, <2>1, <2>2, ValidOnBranch
    <2>. QED
      BY <1>2, <2>1, <2>3
  <1>3. 1..n \subseteq S
    <2>. HIDE DEF S
    <2>. QED
      BY <1>1, <1>2, StepByStep
  <1>. QED
    BY <1>3

-----------------------------------------------------------------------------
(* The theorems                                                            *)

LEMMA InitInvariant == Init => IInv
  BY DEF Init, IInv, TypeOK, Tree, Ordered, AdmittedSince

LEMMA NextInvariant == IInv /\ [Next]_vars => IInv'
  <1>. SUFFICES ASSUME IInv, [Next]_vars
                PROVE  IInv'
    OBVIOUS
  <1>1. CASE Found
    <2>1. PICK devices \in FoundingRosters :
            LET s == [kind |-> "genesis", epoch |-> 0, previous |-> None,
                      management |-> Founding.management, recovery |-> Founding.recovery,
                      devices |-> devices, proof |-> {}, signer |-> Founding.management]
            IN Valid(s, None) /\ Add(s, {})
      BY <1>1 DEF Found
    <2>. DEFINE s == [kind |-> "genesis", epoch |-> 0, previous |-> None,
                      management |-> Founding.management, recovery |-> Founding.recovery,
                      devices |-> devices, proof |-> {}, signer |-> Founding.management]
    <2>2. devices \in Roster
      BY LimitAssumption DEF FoundingRosters, Roster, Device
    <2>3. s \in Snapshot
      BY <2>2, LimitAssumption, KeysAssumption DEF Snapshot, KeyPairs
    <2>4. Valid(s, None) /\ Add(s, {})
      BY <2>1
    <2>. HIDE DEF s
    <2>. QED
      BY <2>3, <2>4, AddStep
  <1>2. CASE Publish
    <2>1. PICK i \in 1..Len(published) :
            \E s \in Drafts(i) : Valid(s, i) /\ Add(s, lineage[i])
      BY <1>2 DEF Publish
    <2>2. PICK s \in Drafts(i) : Valid(s, i) /\ Add(s, lineage[i])
      BY <2>1
    <2>3. s \in Snapshot
      BY <2>2, DraftsTyped
    <2>. QED
      BY <2>2, <2>3, AddStep
  <1>3. ASSUME NEW p \in Peers, AdmitPayload(p)
        PROVE  IInv'
    BY <1>3, PeerStep DEF AdmitPayload, IInv, TypeOK
  <1>4. ASSUME NEW p \in Peers, ApplyCatchUp(p)
        PROVE  IInv'
    <2>1. PICK n \in 1..MaxCatchUp : \E snapshots \in [1..n -> 1..Len(published)] :
            accepted' = [accepted EXCEPT ![p] = snapshots[n]]
      BY <1>4 DEF ApplyCatchUp
    <2>c. PICK snapshots \in [1..n -> 1..Len(published)] :
            accepted' = [accepted EXCEPT ![p] = snapshots[n]]
      BY <2>1
    <2>2. snapshots[n] \in 1..Len(published)
      BY LimitAssumption
    <2>. QED
      BY <1>4, <2>c, <2>2, PeerStep DEF ApplyCatchUp, IInv, TypeOK
  <1>5. CASE UNCHANGED vars
    BY <1>5, PeerStep DEF vars, IInv, TypeOK
  <1>. QED
    BY <1>1, <1>2, <1>3, <1>4, <1>5 DEF Next

\* IInv holds in every reachable state: of the tree of snapshots that any number
\* of writers publish, and of what any number of peers have accepted of it.
THEOREM Invariance == Spec => []IInv
  BY InitInvariant, NextInvariant, PTL DEF Spec

\* Every variable holds a value of its type; a peer has accepted nothing that no
\* writer published (validate_user_authority_state and its two callers).
THEOREM TypeCorrect == Spec => []TypeOK
  <1>1. IInv => TypeOK
    BY DEF IInv
  <1>. QED
    BY <1>1, Invariance, PTL

\* A device that is authorized has been, under the keys it has, in every epoch of
\* the branch since its admission, and proved its keys then: no sequence of roster
\* transitions (validate_roster_transition) dates back or revives an admission.
THEOREM AdmittedHonestly == Spec => []AdmittedSince
  <1>1. IInv => AdmittedSince
    BY DEF IInv
  <1>. QED
    BY <1>1, Invariance, PTL

\* The recovery keys can always put new management keys in force with the devices
\* as they are: the transition rule accepts every roster as its own successor.
THEOREM RecoverableFromAnywhere == Spec => []RecoverableAlways
  <1>1. IInv => RecoverableAlways
    <2>. SUFFICES ASSUME IInv, NEW i \in 1..Len(published),
                         NEW keys \in ManagementKeys \ {published[i].management},
                         published[i].epoch < MaxEpoch
                  PROVE  Valid([published[i] EXCEPT !.kind = "recovery", !.epoch = @ + 1,
                                  !.previous = i, !.management = keys,
                                  !.proof = {"management"},
                                  !.signer = published[i].recovery], i)
      BY DEF RecoverableAlways
    <2>. DEFINE p == published[i]
                s == [p EXCEPT !.kind = "recovery", !.epoch = @ + 1, !.previous = i,
                               !.management = keys, !.proof = {"management"},
                               !.signer = p.recovery]
    <2>1. p \in Snapshot
      BY ElementOfSeq DEF IInv, TypeOK
    <2>2. WellFormed(p) /\ i # None /\ p.epoch \in Nat
      BY <2>1, LimitAssumption DEF IInv, Tree, Rooted, Extends, Valid, Snapshot
    <2>3. /\ s.kind = "recovery" /\ s.epoch = p.epoch + 1 /\ s.previous = i
          /\ s.management = keys /\ s.recovery = p.recovery /\ s.devices = p.devices
          /\ s.proof = {"management"} /\ s.signer = p.recovery
      BY <2>1 DEF Snapshot
    <2>4. /\ s.recovery = p.recovery /\ s["recovery"] = p["recovery"]
          /\ s["management"] # p["management"]
      BY <2>3
    <2>. HIDE DEF s
    <2>5. WellFormed(s)
      <3>1. ASSUME NEW e \in DOMAIN s.devices
            PROVE  DeviceShape(s.devices[e], s.epoch)
        <4>1. DeviceShape(p.devices[e], p.epoch) /\ p.devices[e] \in Device
          BY <2>1, <2>2, <2>3 DEF WellFormed, Snapshot, Roster
        <4>. QED
          BY <2>2, <2>3, <4>1, LimitAssumption DEF DeviceShape, Device
      <3>2. s.epoch <= MaxEpoch /\ s.epoch # 0
        BY <2>2, <2>3, LimitAssumption DEF WellFormed
      <3>. QED
        BY <2>2, <2>3, <3>1, <3>2 DEF WellFormed
    <2>6. \A e \in DOMAIN p.devices : DeviceTransition(p.devices[e], p.devices[e], s.epoch)
      BY <2>1 DEF DeviceTransition, Keeps, Snapshot, Roster, Device
    <2>7. RosterTransition(p.devices, s.devices, s.epoch)
      BY <2>3, <2>6 DEF RosterTransition
    <2>8. Possession(p.devices, s.devices, s.epoch)
      BY <2>3 DEF Possession, Unchanged
    <2>9. Replaced(p, s) = {"management"}
      BY <2>4 DEF Replaced, Replaceable
    <2>10. KeyTransition(p, s)
      BY <2>3, <2>9 DEF KeyTransition, SignedWith
    <2>11. ValidSuccessor(s, i, p)
      BY <2>3, <2>7, <2>8, <2>10 DEF ValidSuccessor, Replaceable
    <2>12. Valid(s, i)
      BY <2>2, <2>5, <2>11 DEF Valid
    <2>. QED
      BY <2>12 DEF s
  <1>. QED
    BY <1>1, Invariance, PTL

\* A peer never leaves the branch it is on, whatever payloads
\* (admit_protected_authority_payload) and catch-ups of any length
\* (apply_user_authority_catch_up) reach it.
THEOREM StaysOnItsBranch == Spec => StaysOnBranch
  <1>1. ASSUME IInv, Next, NEW p \in Peers, accepted[p] # None
        PROVE  accepted[p] \in lineage'[accepted'[p]]
    <2>1. /\ accepted[p] \in 1..Len(published) /\ accepted[p] \in lineage[accepted[p]]
          /\ accepted[p] \in Nat /\ accepted[p] <= Len(lineage)
      BY <1>1 DEF IInv, TypeOK, Ordered
    <2>2. ASSUME NEW s, NEW ancestors, Add(s, ancestors), ancestors \in SUBSET Nat
          PROVE  accepted[p] \in lineage'[accepted'[p]]
      <3>1. lineage \in Seq(SUBSET Nat) /\ ancestors \cup {Len(published) + 1} \in SUBSET Nat
        <4>1. Len(published) + 1 \in Nat
          BY <1>1 DEF IInv, TypeOK
        <4>. QED
          BY <1>1, <2>2, <4>1 DEF IInv, TypeOK
      <3>2. lineage'[accepted[p]] = lineage[accepted[p]] /\ accepted' = accepted
        BY <2>1, <2>2, <3>1, AppendProperties DEF Add
      <3>. QED
        BY <2>1, <3>2
    <2>3. CASE Found
      BY <2>2, <2>3 DEF Found
    <2>4. CASE Publish
      <3>1. \A i \in 1..Len(published) : lineage[i] \in SUBSET Nat
        BY <1>1, ElementOfSeq DEF IInv, TypeOK
      <3>. QED
        BY <2>2, <2>4, <3>1 DEF Publish
    <2>5. ASSUME NEW q \in Peers, AdmitPayload(q)
          PROVE  accepted[p] \in lineage'[accepted'[p]]
      <3>1. PICK i \in 1..Len(published) :
              /\ accepted[q] = i \/ Valid(published[i], accepted[q])
              /\ accepted' = [accepted EXCEPT ![q] = i]
        BY <2>5 DEF AdmitPayload
      <3>2. lineage' = lineage /\ accepted'[p] = IF p = q THEN i ELSE accepted[p]
        BY <1>1, <2>5, <3>1 DEF AdmitPayload, IInv, TypeOK
      <3>3. CASE p = q /\ Valid(published[i], accepted[p])
        <4>1. lineage[i] = lineage[accepted[p]] \cup {i}
          BY <1>1, <2>1, <3>3, ValidOnBranch
        <4>. QED
          BY <2>1, <3>2, <3>3, <4>1
      <3>. QED
        BY <2>1, <3>1, <3>2, <3>3
    <2>6. ASSUME NEW q \in Peers, ApplyCatchUp(q)
          PROVE  accepted[p] \in lineage'[accepted'[p]]
      <3>0. PICK n \in 1..MaxCatchUp : \E snapshots \in [1..n -> 1..Len(published)] :
              CatchUp(accepted[q], snapshots) /\ accepted' = [accepted EXCEPT ![q] = snapshots[n]]
        BY <2>6 DEF ApplyCatchUp
      <3>1. PICK snapshots \in [1..n -> 1..Len(published)] :
              CatchUp(accepted[q], snapshots) /\ accepted' = [accepted EXCEPT ![q] = snapshots[n]]
        BY <3>0
      <3>2. lineage' = lineage /\ accepted'[p] = IF p = q THEN snapshots[n] ELSE accepted[p]
        BY <1>1, <2>6, <3>1 DEF ApplyCatchUp, IInv, TypeOK
      <3>3. n \in Nat \ {0}
        BY LimitAssumption
      <3>4. CASE p = q
        BY <1>1, <2>1, <3>1, <3>2, <3>3, <3>4, CatchUpOnBranch
      <3>. QED
        BY <2>1, <3>2, <3>4
    <2>. QED
      BY <1>1, <2>3, <2>4, <2>5, <2>6 DEF Next
  <1>2. IInv /\ [Next]_vars =>
          [\A p \in Peers : accepted[p] # None => accepted[p] \in lineage'[accepted'[p]]]_vars
    BY <1>1
  <1>. QED
    BY <1>2, Invariance, PTL DEF Spec, StaysOnBranch

=============================================================================
