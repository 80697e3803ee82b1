# LicoArc-Rust in TLA+

Models, model checks and machine-checked proofs for the Rust implementation of
LicoArc: the pairwise conversation of an `Endpoint` over its caller's durable
backend, the double ratchet that protects its records, and the reducers that
decide what a user's devices, a chain of identity records, a governance bundle,
a group and a message become. Paths of the form `src/src/...` name the
repository's files; line numbers are those of the commit the models were
written from.

    tlc -workers 2 -config Records.cfg MCEndpoint     # a model-checking run
    tlapm EndpointProofs.tla                          # one module's proofs

`PROJECT.json` is the index: components, runs, the source lines behind every
definition (`map`), the hazards the properties are aimed at, the mutants that
show each property can fail, and the theorems. An operator whose name ends in
`Fault` is not part of a specification: it is a plausible bug in the definition
next to it, kept to show which property would notice.

## 1. Inventory

### The parts and their state

| component | source | state it keeps | what changes it |
|---|---|---|---|
| **Endpoint** | `endpoint/mod.rs` | none of its own: `EndpointState` (a `Phase`) lives in the caller's store | the nine committing operations, and `dispatch_pending` / `release_pending_plaintext` |
| **State and custody boundary** | `state/mod.rs` | the caller's: a `Revision`, the snapshot, the pending set; a lifecycle per private handle | `compare_and_swap`, `settle`, staging and `abort_*` |
| **Pairwise protection** | `protection/mod.rs` | `RatchetState`: root, two chains, `pn`/`ns`/`nr`, skipped keys; `HybridSecrets` during the handshake | `send`, `bootstrap_responder`, `receive` (with `receive_dh_transition`): pure functions of the old state, committed by the Endpoint |
| **Reliable exchange** | `reliable.rs` | `FinalityState`, `ReliableState`: confirmation finality, retries, migrations | confirmation and retry reducers |
| **Governance** | `governance.rs` | current epoch, record and its digest | `evaluate_candidate` |
| **Group** | `group.rs` | `GroupState`: members, roles, epoch | `apply_transition`, projections, result aggregation |
| **Identity / user authority** | `identity.rs` | `AcceptedUserAuthority`: snapshot and digest; `ChainTip` of an endpoint's chain | `validate_user_authority_state`, payload admission, catch-up; `validate_successor`, `validate_epoch_sequence` |
| **Messaging** | `messaging.rs` | `ReceiveState` of an attachment | `validate_successor` of updates; message and chunk shape |
| **Transport** | `transport.rs` | none; a flow keeps the class of a status | `classify_status` |
| **Artifact, encoding, provider, security, error** | | none (immutable after construction) | - |
| **Conformance** | `conformance.rs`, `conformance/executor.rs` | a test driver's | - |

### How they interact

All durable state sits behind one trait, `AtomicState<EndpointState>`, whose
implementation the caller supplies together with the key custody. An `Endpoint`
holds no cache of it. A committing operation

1. **loads** the versioned snapshot, validates its arguments against it, calls
   the ratchet or the reducers, and builds one `Commit`: the next snapshot, the
   whole next pending set, and the private handles to adopt and to delete
   (`commit_replacing_pending`, `endpoint/mod.rs:1294-1336`);
2. **swaps**: `compare_and_swap(expected, commit)`, one old-or-new transition;
3. if the swap reports an error, **loads again** and classifies what it sees:
   its own commit (Ok), the untouched base (terminal error), or anything else
   (retryable error). `accept_first_packet` turns a `Conflict` into the terminal
   `PrekeyConsumed`.

The handles an operation needs were *staged* by its caller. A terminal error
aborts them; a retryable error leaves them with the caller. What an operation
produces (packets, application effects, plaintexts) is never returned: it is
committed as a pending item, handed to its boundary later by
`dispatch_pending` or `release_pending_plaintext`, and settled, by a further
revisioned step, only after the boundary reported success.

The reducers (`reliable.rs`, `governance.rs`, `group.rs`, `identity.rs`,
`messaging.rs`) are pure functions from a state and an input to the next state
or an error. Only `apply_complete_capability_flow` composes them inside the
crate; everybody else who uses them, and the order in which inputs reach them,
is the caller's.

### What is hard here

* Several holders of one store: any number of commits can fall between a load
  and the swap planned from it, and between a failed swap and the load that
  classifies it.
* A swap that reports failure may have been applied. Success, terminal failure
  and "unknown" have different owners for the staged private keys.
* A commit carries the whole pending list, so a stale plan could revive settled
  work or drop unsettled work.
* A process can stop between any two of these steps.
* Records arrive lost, late, repeated, out of order or reflected, across ratchet
  turns; each must open exactly once, and the state must forget what it used.
* Reducers that keep no history: a snapshot, a record, a bundle or a
  confirmation that is late, repeated, of another branch or of another message
  is told from a good one by what the last state says, and by nothing else.
* Rules about one transition (a roster, a group, a bundle) that are meant to
  hold of every sequence of them.
* Bounds: 256 active prekeys, 16 pending items, 256 skipped keys per record and
  1024 in all, `u32::MAX` records to a chain, revision 2^53 - 1.

### What makes each part correct

* *Endpoint and boundary*: the custody owns exactly the handles the snapshot
  refers to; a caller that heard Ok is never contradicted and one that heard a
  terminal error has not committed; one answer to each handshake; no pending
  work lost or revived; no message key or encapsulation entropy used twice;
  deletion final.
* *Ratchet*: agreement on the chains under any delivery order, each record
  opened once, each message key used once, forward secrecy, refusals only by the
  skip bounds and without damage.
* *Reliable and Messaging*: what a sender believes of a recipient is what that
  recipient decided, however its confirmations arrive, and not before the
  content is there; a route keeps its packet until the exchange migrates.
* *Group*: somebody can always change it; an aggregate reported as final stands.
* *Governance*: sessions do not adopt different bundles in one epoch; a bundle
  that comes again does no harm.
* *User authority*: a device is authorized only since it proved its keys; a
  follower stays on one branch; recovery remains possible. *Identity chains*:
  followers that diverge can prove a fork; the two continuity checks agree.

## 2. The modules

| module | models | role |
|---|---|---|
| `Endpoint` | `endpoint/mod.rs`, the boundary of `state/mod.rs`, the counters of `protection/mod.rs` | one party, several processes over one backend |
| `Conversation` | what callers may rely on | the abstract specification: one process, no failure |
| `EndpointRefinement` | | the refinement mapping from `Endpoint` to `Conversation`, and the invariant `RInv` that its proof needs |
| `Ratchet` | `protection/mod.rs` | both parties' `RatchetState` and all records between them |
| `UserAuthority` | `identity.rs`: user authority snapshots | writers that make a tree of snapshots, peers that follow it |
| `IdentityChain` | `identity.rs`: identity, affiliation and route records | endpoints that sign, peers that follow |
| `Reliable`, `Group`, `Messaging` | `reliable.rs`, `group.rs`, `messaging.rs` | the reducers, as operators without state |
| `Exchange` | the three at work on one message | a sender, its recipients and an attachment |
| `Governance` | `governance.rs` | the candidate reducer, as operators |
| `CapabilityFlow` | `apply_complete_capability_flow`, with `Governance`, `Group`, `Reliable` and `transport.rs`'s `classify_status` | the flows of several sessions |
| `MCEndpoint`, `MCUserAuthority`, `MCIdentityChain`, `MCExchange`, `MCCapabilityFlow` | | instances for TLC |
| `EndpointProofs`, `EndpointRefinementProofs`, `RatchetProofs`, `UserAuthorityProofs`, `IdentityChainProofs`, `ExchangeProofs`, `CapabilityFlowProofs` | | theorems |
| `LeastNumber` | | induction over numbers, for the proofs about chains |

### Endpoint

**State.** `rev`, `phase`, `pending` are the durable `Versioned<EndpointState>`.
`custody` gives each private handle its fate: `free`, `staged`, `adopted`,
`deleted` or `aborted`. `pc[p]` says where process `p` is: `closed`, returned
from a call (`open`, `ok`, `retry`, `fail`), or inside one (`planned`,
`recover`, `deliver`, `settle`). `plan[p]` is the commit or delivery it works
on. `held[p]` are the staged handles its caller kept after a retryable error.
`delivered`, `answered`, `strayAborts` and the field `landed` of a plan are
history: no action reads `delivered` and `answered` except to say what an
honest peer can have received (`Arriving`, `InboundPackets`).

**Actions.** Each committing operation is one action that loads, validates and
plans (`AdmitPrekey`, `AcceptFirstPacket`, `CreateFirstPacket`,
`VerifySessionAccept`, `SendRecord` and `SendFirstRecord` for its responder
variant with a fresh key, `ReceiveRecord`, `BootstrapCapabilities`,
`ApplyCapabilityFlow`, `DeleteSession`). It ends in `Prepare` (a commit is
planned), `Reply` (answered from the snapshot) or `Refuse` (a terminal error
before the commit). Load and planning are one step because nothing reads the
store in between; everything after is separate:

| code | actions |
|---|---|
| the swap returns `Ok(successor)` | `CasCommits` |
| the swap returns `Err`, applied / not applied | `CasUncertain` / `CasRejects` |
| the swap returns another revision, applied or not | `CasMisreports` |
| the load after an error, by what it observes | `RecoverCommitted`, `RecoverRejected`, `RecoverUncertain`, `RecoverLoadFails` |
| `drive_pending`, `release_plaintext` | `Dispatch`, `DeliverSucceeds`, `DeliverFails`, `SettleApplies`, `SettleFails` |
| the constructors; the process stops | `Open`; `Crash` |

The backend is the caller's, so it is modelled from the contract in the trait's
comments: it applies a commit completely or not at all, only at the expected
revision and only if each adopted handle is staged and each deleted one adopted.
It may report any error, whether it applied the commit or not.

**Abstractions.** Signatures, transcripts, MACs, validity times, provider and
load failures are verdicts: each operation may always end in `Refuse`. A commit
is planned only when the code's own structural guards hold. A pair's bundle is
its sequence number and two handles; a packet is the handle and number of its
message key and its body; an inbound record is its coordinate (`dh`, `n`) and
`pn`, from an honest peer whose turns follow this party's (`Arriving`). That a
record which passes these guards also decrypts is what `Ratchet` establishes
without assuming it. Different flows have different effects, and two items with
the same content are the same item, as their digest-valued ids have it.
`dispatch_pending` loads twice and requires the same revision; the model takes
the second load's view, and a difference is a `Refuse`. `pending_items`,
`retry_record` and `restart` only read, and are not actions. `capabilities` is
reduced to the number of flows and the last message id: the five reducers behind
a flow answer with a verdict, and `MaxFlows` is the migration bound each new
packet uses up.

### Conversation

`Conversation` has no processes, revisions, plans, handles' fates or recovery:
only the stage of the conversation, the bundles on offer, the one first packet,
the entropy spent, what waits in the outbox, what boundaries have taken, and what
callers were told. Its steps are whole operations (`Publish`, `Accept`, `Create`,
`Complete`, `Produce`, `Hand`, `Settle`, `Delete`) and `Tell`, by which a caller
learns later, by a retry or a recovery, what holds now. `EndpointRefinement` maps
the durable state of `Endpoint` and its history to it. A call's step in the
abstract is its applied swap: loads, refusals, rejected swaps and crashes
stutter; a swap that is applied and reported as an error is a step whose caller
is told by a later `Tell`, or never.

### Ratchet

`st[p]` is the `RatchetState` of party `p`, `keys[p]` counts its fresh private
keys, `sent` and `opened` are all records sealed and opened so far. A record's
`body` tells the plaintexts of a party apart, so that a message key used twice
shows as two records. A key is
symbolic: a root or a chain is the sequence of Diffie-Hellman steps that derived
it, each with the shared secret (the two public keys) and the direction its
domain separates. Nothing says that the parties agree: a record opens exactly if
the receiver computes the chain it was sealed under. The carrier is the set
`sent`: any record may be presented to either party, any number of times, in any
order, or never. The actions are `Send`, `SendFirst` (`bootstrap_responder` and
the send), and the three ways of `receive`: `ReceiveSkipped`, `ReceiveOnChain`,
`ReceiveTransition`. A receive that fails returns an error and leaves the
caller's state as it was, so it is a stuttering step. Chain keys are not
advanced symbol by symbol: `ns` and `nr` say how far each chain has been
ratcheted, and `Derives` counts a chain key only for numbers it has not passed.
The handshake's hybrid derivation is abstracted to the shared first root.

### UserAuthority

`published` holds the snapshots that the user's writers have signed, and
`accepted[p]` the one a peer has accepted; `lineage` is history. A digest is the
place of a snapshot in `published`, a signature the key pair it was made with,
and a possession proof the authority epoch the device's keys signed for (the
endpoint and the identity state it also signs for are the device's own). With
that, `WellFormed` is `validate_user_authority_record`, `ValidGenesis` and
`ValidSuccessor` are `validate_user_authority_state`, and `RosterTransition`,
`Possession` and `KeyTransition` its parts. `AdmitPayload` is
`admit_protected_authority_payload` and `ApplyCatchUp`
`apply_user_authority_catch_up`, which takes all of its snapshots or none. The
writers (`Found`, `Publish`) are not in `src/`: they sign whatever a peer could
accept after some snapshot, not only after the last, so that two writers who do
not know of each other fork the tree. `Drafts` bounds what they try: a snapshot
differs from its predecessor in one device, or in the keys, in every way.

### IdentityChain

`records` are the records endpoints have signed, `history[p]` what a peer has
accepted; its last record is the code's `ChainTip`. `WellFormed` is
`validate_definition_record` for the three kinds of chains, `Successor`
is `validate_successor` with its four outcomes, and `EpochSequence` is
`validate_epoch_sequence` of a whole chain. Endpoints (`Sign`) may sign two
records in one place, leave gaps, and name any record as the predecessor. The
checks recompute no digest, in the code and in the model: that a digest belongs
to its record is for the caller to establish.

### Reliable, Group, Messaging and Exchange

A function that may fail is a pair of operators, the condition and the result:
`MayConfirm`/`Confirmed` are `apply_endpoint_confirmation`,
`MayRetry`/`Retried` are `ReliableState::retry`, `MayTransition`/`NextGroup` are
`GroupState::apply_transition`, `MayProject`/`Recipients` are `projections`,
`MayAggregate`/`Aggregate` are `aggregate_results`, and `ReceiveSuccessor` is
`ReceiveState::validate_successor`. A sorted list without repetition is a set,
and a receive state's ranges are the set of chunks they cover (`RunStarts` gives
their number back). There is one group, so that a state's digest is its epoch.

`Exchange` follows one message: to the members of a group, to one correspondent
with an attachment, or to one without. A recipient decides once or twice
(`Accept`, `Refuse`, `Complete`); what it has ever confirmed is in
`confirmations`, with strays of an earlier message, and the sender may take any
of them for any recipient at any time (`Confirm`), or give a member up
(`GiveUp`). Chunks and receive states travel the same way (`Transmit`, `Store`,
`Progress`, `Recover`, `Abandon`, `Take`), and `Retry` is the retransmission.
Who calls the reducers when is the caller's choice and is external to `src/`;
what the calls accept is the code's.

### Governance and CapabilityFlow

`Verdict` is `evaluate_candidate`: a commit, a replay, or one of three errors.
`sound` stands for the seven facts the caller has established of a candidate
and the code takes as booleans.

`CapabilityFlow` gives each session its `CapabilityRuntime` and makes
`apply_complete_capability_flow` one action, `Flow`: the identity advances, the
message is protected anew and transmitted (`Transmission`), a bundle is adopted
or recognized (`Govern`), the group changes and the message is projected to it
(`Regroup`), and the class of the transport status is kept. If one of them
refuses, nothing changes. How the commit itself may go is `Endpoint`'s
matter; here a session has one packet in flight (`inFlight`) until `Settle`.
What the outside does is: `backed` fixes which bundle each root backs in each
epoch, so that a root backs one bundle to an epoch; `Evidence` is what can come
with a bundle, from too few signatures to all; the clock moves by `Tick`.

## 3. What is checked

| run | instance | states | question |
|---|---|---|---|
| `prekeys` | 2 responder processes, 2 pair numbers, 3 + 3 handles, 2 initiators, crashes, misreports | 193k | Do racing publications, competing first packets and deletions keep handles and snapshot coherent, and stays what callers were told true? |
| `opening` | 2 initiator processes, 2 handles, 2 entropy handles, no crash | 309k | One first packet whose entropy is spent; no staged handle orphaned. |
| `records` | 2 responder processes on a session, 3 inbound records of 2 epochs, crashes, deletion | 946k | No message key reused, nothing in flight lost or revived; the inductive invariant `RInv` holds. |
| `flows` | 2 initiator processes on a session, 2 bodies, crashes, deletion | 95k | Is each flow's effect accounted for; is deletion final? |
| `ratchet` | 2 fresh keys each, 3 records to a chain, bounds that do not bind | 88k | Agreement, single opening, single sealing, forward secrecy. |
| `ratchet_bounds` | the same with skip bounds 1 and 2 | 41k | Only a bound refuses; kept keys are bounded and useful. |
| `authority` | 4 snapshots, 2 endpoints, 2 + 2 key pairs, 1 peer | 282k | Are devices authorized only since they proved their keys; does a peer stay on its branch; is recovery always possible? |
| `chains` | 4 records, 2 endpoints, 2 peers, three kinds of chains | 2.6M | Can diverging peers prove a fork; do the two continuity checks agree? |
| `exchange` | 2 recipients or 1 with 3 chunks, 3 packets | 286k | Does the sender believe only what was decided, and only with the content? |
| `flow` | 2 sessions, 3 roots, 4 bundles of 2 epochs | 42k | Do sessions agree on bundles; is each group left steerable? |
| `restart` | 1 process, crash | violation | See "Findings". |
| `stray_abort` | 2 responder processes, no crash, no misreport | violation | See "Findings". |

The properties, with the code behaviour each is about, are stated above their
definitions. In outline:

* `HandleCoherence`: the adopted prekey and ratchet handles are exactly those
  the durable snapshot refers to. It is what the one-commit design is for.
* `PrekeysDisjoint`: active pairs share no number and no handle, so that
  accepting one can delete all others in one list of mutations.
* `AnswersDurable`, `AnswersAgree`: the durable state never contradicts an Ok,
  and no two Oks contradict each other.
* `EntropySpent`: a first packet that a caller may send has used up its entropy.
* `StagedAccounted`: without crashes no staged key is orphaned.
* `MessageKeyOnce`, `SentBacked`, `ReceivedBacked`: a message key
  seals one plaintext; no number is spent without a packet that is pending or was sent; no receiving key is gone
  without a plaintext that is pending or was released.
* `NoSilentLoss`, `NoResurrection` (step properties): an item leaves the pending
  set only after its boundary took it or with the session; nothing delivered
  ever re-enters it.
* `Implements`, `StepsImplement`: `Endpoint` implements `Conversation`, from the
  empty store (`prekeys`, `opening`) and from an established session (`records`,
  `flows`). That at most one packet and one plaintext wait is part of it. It is the strongest of the
  properties of `Endpoint`, and the others say which part of it matters where.
* `EffectsAccounted`: every applied flow's effect is pending or applied.
* `TerminalMeansUncommitted`, `HighWaterMonotone`, `DeletionFinal` (step
  properties).
* `OutstandingOpens`: a record sealed and not yet opened can be opened now,
  whatever happened to the others, if no skip bound stands in the way;
  `RefusedOnlyByBounds` removes that condition: nothing else refuses it.
* `OpensOnce`, `SealsOnce`, `ForwardSecrecy`, `RootsAgree`, `NeverRewinds`,
  `SkippedOutstanding` for the ratchet.
* `AdmittedSince`: a device that is active has been in every snapshot of its
  branch since its admission, with the same keys, and proved them for that
  epoch. `RecoverableAlways`: after every snapshot a recovery is valid that puts
  other management keys in force. `StaysOnBranch` (a step property): what a peer
  had accepted is a predecessor of what it accepts.
* `ForkAccountable`: where the histories of two peers differ, the endpoint signed
  two records with one number and one predecessor. `ChecksAgree`: a history
  built record by record passes the check of the whole, and the two refuse the
  same next records as conflicts, as far as 64 records reach.
* `DecisionsTruthful`: what the sender believes of a recipient, and each result
  on an endpoint's authority, is what that endpoint decided.
  `FinalityNeedsContent`: with an attachment, no decision counts before the
  content is complete at the recipient. `PacketsBounded`: one protection of the
  message and one for each migration. `AggregateFinal` (a step property): an
  aggregate with nobody pending, or no longer partial, never changes.
* `AgreeOnBundles`: sessions adopt the same bundle in each epoch.
  `ReplaysHarmless`: a bundle adopted before is never adopted again, and while it
  is in force it is recognized, unless it expired or is a recovery (which names
  the bundle before it and so is refused). `GroupSteerable`: some authority can
  always change the group and still project to it.
* `RInv` in `records` is the inductive invariant of `EndpointRefinementProofs`; it
  contains `IInv`, that of `EndpointProofs`. Those of the other modules (`JInv` of
  `Ratchet`, `GInv` of `CapabilityFlow` and each `IInv`) were checked the same way
  before they were proved; a theorem says more than such a run, and no run
  repeats them.

**Bounds, and why they are enough.** Two processes suffice for the races: what
one process can observe of the others is the shared store, and one other process
can run any number of calls between its steps; repeated calls are free up to
`MaxRevision` (3 to 8 commits and settlements after the initial state). Handles
are numerous enough for one operation more than may succeed, so that a losing
call still has fresh handles to lose. Two pair numbers give an unchosen pair to
delete and a pair number to repeat. Three inbound records give an order to
invert, a gap to skip and a ratchet turn with an unfinished old chain. In
`Endpoint` the code's bounds appear as small constants, and an operation at its
bound is refused and the process continues: the pending bound and the migration
bound bind in `flows`, the record counter in `records` and `flows`, the largest
revision everywhere. The bound on
active pairs never refuses by itself (no unused pair number is left by then),
and the skip bounds bind in `ratchet_bounds` only. In `Ratchet`
two fresh keys to a party allow up to four turns, enough for records of three
different chains to be outstanding at once, and three records to a chain allow a
gap in the middle. The large instances use symmetry over interchangeable
processes, handles, initiators and bodies; `XHandles` and the rest occur in no
`CHOOSE`, and no temporal property other than step properties is checked under
symmetry.

For the reducers: *authority*. Peers share nothing but `published`, and no
property compares two, so one suffices. Four snapshots allow a fork with a
catch-up of two on either side, and a device that is admitted, revoked, dropped
and admitted again; epochs up to 4 leave room for one more snapshot after the
last. Two key pairs of each purpose allow every replacement. *chains*. Four
records give two branches of one endpoint, or a branch and a record of another
endpoint, to two peers; records run up to number 3, and chains checked at
once up to 3. *exchange*. Three chunks allow a gap in the middle, which is more
than the one run of missing chunks the instance permits; updates up to 4 and
rounds up to 2 allow a recovery and a stale report of the first round; the codes
12 and 13 lie on both sides of the bound of a result; two retries and two
migrations make both bounds bind (their sum bounds the transitions, in the code
by 48 of 256).
*flow*. Two bundles compete in the first epoch (one of them expires when the
clock has moved), two in the second, of which one recovers from a first; four
keys to a root and evidence by one, two or four of them give signer sets above and
below each threshold; status 204 is in no class and is refused. Two roles stand
for seven: each is checked alike, and `RoleSets` leaves one out. Two members are
the least group in which an authority can be lost.

**Deadlock** is not checked: every bounded instance stops at its largest
revision with its processes closed or out of handles, and a real conversation
may stop too. The bounded instances of the reducers stop when all snapshots or
records are signed, a message is decided, or no migration is left for a flow. A conversation that cannot continue is not an error of this code;
where it is contrary to a document (`SessionReopens`) it is a property.

**Fairness** is used in one run. `FairSpec` has weak fairness of `Proceed(p)`, the rest of a
call that has loaded its snapshot (it is straight-line code without waiting),
and of `Open(p)`, a supervisor that keeps trying to open the store. No fairness
is assumed of calls, of the carrier or of crashes. The other specifications
state none, and no liveness is claimed of them: the code retries nothing by
itself.

### Findings

* `restart`: `docs/STATUS.md:23-25` lists *restart* among what Endpoints
  implement. The only constructors accept `ResponderReady` and `InitiatorNew`
  (`endpoint/mod.rs:413-432`, `664`); after a crash during or after the
  handshake no `Endpoint` can be built over the session's own store. `restart`
  itself compares two revisions on an `Endpoint` that is still held.
* `stray_abort`: `abort_*` is "for a definitely uncommitted tentative object"
  (`state/mod.rs:205`). If a swap is applied but reported as an error and the
  load after it fails too, the caller rightly keeps its handles; its next call
  with them is refused (the pair number is used) and that refusal aborts them
  although the durable snapshot owns them. Nothing is lost if the custody
  ignores aborts of adopted objects, which is how the model's `Abort` and the
  test custody in `tests/endpoint_flows.rs` behave; `StagedAccounted` and
  `HandleCoherence` rely on it.

## 4. What is proved

The theorems hold for every value of the constants that satisfies the
assumptions named in the modules: in particular for any number of processes,
handles, records, snapshots, recipients, sessions, and any bounds.

| module | theorem | states |
|---|---|---|
| `EndpointProofs` | `Invariance` | `Spec => []IInv` |
| | `TypeCorrect` | `Spec => []TypeOK` |
| | `HandlesCoherent` | `Spec => []HandleCoherence` |
| | `PrekeysStayDisjoint` | `Spec => []PrekeysDisjoint` |
| | `TerminalIsUncommitted` | `Spec => TerminalMeansUncommitted` |
| | `HighWaterNeverFalls` | `Spec => HighWaterMonotone` |
| | `DeletedForEver` | `Spec => DeletionFinal` |
| `EndpointRefinementProofs` | `StateAndHistoryInStep` | `Spec => []RInv` |
| | `AnswersStayTrue` | `Spec => []AnswersDurable` |
| | `AnswersNeverDiffer` | `Spec => []AnswersAgree` |
| | `EntropyIsSpent` | `Spec => []EntropySpent` |
| | `MessageKeysSealOnce` | `Spec => []MessageKeyOnce` |
| | `EveryNumberSent` | `Spec => []SentBacked` |
| | `EveryRecordReceived` | `Spec => []ReceivedBacked` |
| | `EveryEffectAccounted` | `Spec => []EffectsAccounted` |
| | `NothingLostSilently` | `Spec => NoSilentLoss` |
| | `NothingComesBack` | `Spec => NoResurrection` |
| | `StagedAreAccounted` | `Spec => []StagedAccounted`, if no process crashes |
| | `EndpointImplementsConversation` | `Spec => Implements` |
| | `StepsOfConversation` | `Spec => StepsImplement` |
| | `SessionsInStep` | `SessionSpec => [](RInv /\ MessageKeyOnce)`, if `MaxRevision >= 2` and `MaxSeq >= 1` |
| | `SessionsConverse` | `SessionSpec => NoSilentLoss /\ NoResurrection /\ DeletionFinal /\ StepsImplement`, likewise |
| `RatchetProofs` | `TypeCorrect` | `Spec => []TypeOK` |
| | `EveryKeySealsOnce` | `Spec => []SealsOnce` |
| | `TheRatchetNeverRewinds` | `Spec => NeverRewinds` |
| | `KeptKeysBounded` | `Spec => []SkippedBounded` |
| | `JointInvariance` | `Spec => []JInv` |
| | `RecordsOpenOnce` | `Spec => []OpensOnce` |
| | `KeptKeysAwaitRecords` | `Spec => []SkippedOutstanding` |
| | `RootsNeverFork` | `Spec => []RootsAgree` |
| | `SealedKeysAreGone` | `Spec => []ForwardSecrecy` |
| | `OnlyBoundsRefuse` | `Spec => []RefusedOnlyByBounds` |
| | `AllElseOpens` | `Spec => []OutstandingOpens`, if the skip bounds have room for all records of one party |
| `UserAuthorityProofs` | `Invariance` | `Spec => []IInv` |
| | `AdmittedHonestly` | `Spec => []AdmittedSince` |
| | `RecoverableFromAnywhere` | `Spec => []RecoverableAlways` |
| | `StaysOnItsBranch` | `Spec => StaysOnBranch` |
| `IdentityChainProofs` | `Invariance` | `Spec => []IInv` |
| | `ForksAreProvable` | `Spec => []ForkAccountable` |
| | `ChecksAlwaysAgree` | `Spec => []ChecksAgree` |
| `ExchangeProofs` | `Invariance` | `Spec => []IInv` |
| | `BelievesOnlyDecisions` | `Spec => []DecisionsTruthful` |
| | `DecidedWithContent` | `Spec => []FinalityNeedsContent` |
| | `PacketForEachMigration` | `Spec => []PacketsBounded` |
| | `AggregateStands` | `Spec => AggregateFinal` |
| `CapabilityFlowProofs` | `Invariance` | `Spec => []IInv` |
| | `SessionsAgreeOnBundles` | `Spec => []AgreeOnBundles` |
| | `GroupsStaySteerable` | `Spec => []GroupSteerable` |
| | `GovernedByLast` | `Spec => []GInv` |
| | `ReplaysAreHarmless` | `Spec => []ReplaysHarmless`, if `EvidenceFits` |

**Endpoint.** `TypeOK` and `HandleCoherence` are not inductive: a process may
hold a plan, and the durable state it will replace is no longer the one it was
made from. `IInv` adds what makes a plan harmless:

* `PlanSound`, a fact about the plan alone: the handles of its next snapshot are
  those of its base, less what it deletes, plus what it adopts. Each operation
  establishes it once, from the snapshot it has loaded, and nothing changes a
  plan but the swap's `landed`.
* `SnapshotCoherent`, which ties it to the store: a plan's revision is not in
  the future; at the plan's revision the store still *is* its base, because
  every change of the store advances the revision; and a swap that was applied
  is visible at the next revision or has been overtaken. The first two make
  `Apply` preserve `HandleCoherence`; the third makes the classification after
  an error sound (`TerminalMeansUncommitted`): a terminal error needs either the
  base revision or, for `PrekeyConsumed`, the successor revision with another
  content, and both exclude that the plan landed.
* `PhaseShape`, `PairsDisjoint` of the durable phase, and an empty pending set
  after deletion.

The proof has one lemma for each operation (what `PlanSound` requires of its
`Prepare`), one for each step of the commit protocol, and shared lemmas for the
shapes `Prepare`, `Refuse`, `Reply` and for steps that touch neither store nor
plans; `NextInvariant` puts them together. The step properties follow from
`IInv` and from `DurableStep`: a step leaves the durable state alone, settles an
item, or applies a sound plan at its own base.

**EndpointRefinement.** `IInv` knows the handles; `RInv` adds what a plan intends
and what was produced.

* `PlansMade`: each plan is one of a few shapes, the operation it was made for with
  its guards at the base. Plans are rigid records, so that a shape is established
  once, by `Prepare`, and read again when the plan lands. A plan that lands does
  so at its own base (`IInv`), hence what held at the base holds in the store.
* `Ever` are the items that are pending, were delivered, or are being delivered.
  `KeysSpent` and `KeysApart` (each packet ever sealed has a key that is behind the
  sending chain or deleted, and no two share one) carry `MessageKeyOnce`;
  `OpenedBelow` and `EffectsBelow` say the same of plaintexts and effects;
  `Fetched` ties a delivery under way to the items.
* `AnswersDurable`, `AnswersAgree`, `EntropySpent`, `SentBacked`, `ReceivedBacked`
  and `EffectsAccounted` are parts of `RInv`: a call that answers from a snapshot
  it has loaded relies on what earlier calls were told.

The proof sorts all actions into five kinds (`StepKinds`): a caller is told what
holds, or nothing that matters changes (`Tells`); a call fetches an item
(`Fetches`); a plan lands (`Lands`); an item is handed over (`Hands`) or settled
(`Settles`). One set of lemmas says for each shape
of plan that it lands as a step of `Conversation` and keeps each part of `RInv`; the
refinement (`Init` maps to `Init`, each step to a step or a stutter) and the step
properties `NoSilentLoss` and `NoResurrection` follow kind by kind.
`StagedAccounted` holds only if no process crashes: a crashed caller forgets its
handles. The theorem says so in its hypothesis, as the run does by its `Faults`.
`Spec` starts from an empty store. The runs `records` and `flows` spare themselves
the handshake and start from an established session (`SessionSpec`);
`SessionStarts` shows that such a state satisfies `RInv`, so that what they check is
proved of that specification too (`SessionsInStep`, `SessionsConverse`). It needs
two revisions and one pair number to exist, which they do up to 2^53 - 1.

**Ratchet.** That a message key seals once needs more than counters: the other
party, or the same party after a turn, might come to an old chain again.
`SealedBehind` says why not. A party seals under the chain its root ends with,
roots only grow, and a chain that is not the first ends in a step of its own
party (`OwnChain`). So a record's chain is the present root and its number is
below `ns`, or it is shorter than the root and never the sending chain again;
and chains of the two parties differ in their last step. `NeverRewinds` needs
typing only.

The other properties relate both parties' states, all records and all openings,
and need `JInv` = `IInv`, `Turns`, `Numbered` and `Received` together:

* `Turns`: a party that has k keys has a root of `Reach(p, k)` steps, and has
  answered the peer's key `Answers(p, k)`. Each turn takes a receiving and a sending
  step, and the two parties take them alternately, so that the length of a chain
  tells whose it is and of which key. Either both roots are in step, or one party
  is one turn ahead by a step that the other computes alike, with the two
  public keys exchanged. `RootsAgree` follows.
* `Numbered`: the records of one key are of one chain, numbered from 0 without a
  gap, up to `ns` for the present key and up to `pn` for the one before. So a key and
  a number name one record, and a record's `pn` tells a receiver exactly
  how many there were of the previous key.
* `Received`: a receiver has passed a number exactly if the record was opened or
  its key is kept, and every kept key is that of a record which was sent and not
  opened. `OpensOnce`, `SkippedOutstanding` and `ForwardSecrecy` follow.

A record that was neither opened nor kept is ahead of the receiver, on its
present chain or on the next (`Outstanding`), and then everything but the skip
bounds lets it in: `RefusedOnlyByBounds`. `OutstandingOpens` needs bounds that do not
bind, `MaxCounter <= MaxSkip` and `(MaxKeys + 1) * MaxCounter <= MaxSkipped`: by `Room`
the kept keys and the gap to be skipped are different places in the table
of all keys and numbers, which has no more than that. The instance `ratchet`
satisfies both; with the code's 256 and 1024 against 2^32 records to a chain the
bounds do bind, which is what `RefusedOnlyByBounds` is for. `NoneAssumption` (the absent
chain is not a chain) is the only further assumption: in the code it is an
`Option`.

**UserAuthority.** `Tree` says that each snapshot was valid after the one it
names, and `Ordered` that epochs do not fall along a branch. From one snapshot
to a valid next, an active device is either the same record as before or it is
admitted in this very epoch with a proof for it; nothing else passes
`RosterTransition` and `Possession` together. `AdmittedSince` follows, because
no snapshot of the branch has a later epoch. A peer moves to a snapshot that is
valid after the one it has, or over several such; `Tree` makes that an extension
of the same lineage (a valid snapshot names one predecessor). Recovery is always
possible because `Valid` of a snapshot leaves its roster acceptable to itself.

**IdentityChain.** A history is `Linked`: record k has number k, the endpoint of
the first, and names record k - 1. Given two histories that differ at a place,
`LeastNumber` gives the first such place; the two records there have the number
and the predecessor in common. For a linked history every check of
`validate_epoch_sequence` passes, and appending one record breaks it at most at
the end, where the two checks look at the same two records.

**Exchange.** `ConfirmationsTruthful` (each confirmation of this message stands
for a decision of its sender that is still true, or was extended) carries
`DecisionsTruthful` through `Confirm`; `CompleteIsLast` (a complete receipt is
the last, and of all chunks) carries `FinalityNeedsContent`. `AggregateFinal`
follows because a recorded result is never replaced: nobody pending means that
no result can be added.

**CapabilityFlow.** `Backed`: every adopted bundle has two different backers,
since each role needs two roots, and its place in `adopted` is its epoch. Two
bundles of one epoch then have pairs of backers that share a root
(`RootsAssumption`, which holds of three roots), and a root backs one bundle to
an epoch. `GroupsValid` leaves an authority in each group; it can add someone,
or change or remove another member, and remain.

`ReplaysHarmless` needs `GInv`: `Governed` (digest and versions of a session's state are
those of the bundle it adopted last) and `Warranted` (each adopted bundle came
with some evidence that sufficed). The property is about a replay with all the
evidence there is; more authorizations and observers still suffice
(`MoreSignatures`, `ObserversOf`) as long as they fit the bounds of a candidate:
`EvidenceFits` asks for no more keys at all roots together than signatures are
taken for a role (64), no more observers than observations (16), and two keys to
a root at least, without which no role could ever be authorized.

`LeastNumber` proves, from the well-foundedness of the finite subsets of `Nat`
under strict inclusion, that a set of numbers has a least element. It takes the
place of the library's induction theorems, whose operator parameters the
installed provers cannot instantiate.

**Model-checked only**: the two violations of the runs `restart` and `stray_abort`,
which a proof cannot show. Every property of the passing runs is stated by a
theorem. **Out of the prover's reach**, and left to TLC: liveness under
fairness and `ENABLED` (only `restart` states any), and what a recursively defined
function computes for every input.

## 5. What is not modelled, and why

* *Signatures, transcripts, certificates, validity times, CBOR, digests*: pure
  computations on one call's arguments. In `Endpoint` their verdicts are
  nondeterministic; in the other modules a signature is its key, a digest the
  place or the name of what it is of.
* *HybridSecrets*: one derivation, shared by both parties; its result is the
  ratchet's first root.
* *Artifact admission, encoding, provider, security accounting*: no state that
  changes; one pass over their input.
* *Transport*: the validation of requests and control records is stateless; only
  `classify_status` leaves something behind in a flow.
* *Parts of `identity.rs`* (first contacts, discovery inputs, transparency
  bundles, station descriptors), *of `reliable.rs`* (the shape of intents,
  snapshots and events, helpers on names) and *of `messaging.rs`* (the CBOR maps):
  they check or convert one value and change nothing.
* *Conformance registry and executor*: a test driver.
* *Hazards without a property* are listed with their reasons in `PROJECT.json`: a
  delivery that was started before a deletion, gaps that no later record can
  close, capability messages older than the last, receipts at their bounds of
  updates and ranges, confirmations whose failure code no group result can have,
  flows whose status says rejected. For each the code makes
  no promise that a property could state.
* *A malicious store* that rolls back or misreports its content: the code makes
  no claim (`docs/STATUS.md`, "malicious-store rollback detection ... remain
  unclaimed").
* *At-most-once delivery*: a delivery that succeeds and fails to settle is
  delivered again by design (`state/mod.rs:514-517`); the model keeps the set of
  what was delivered, not how often.
* *Coalescing of identical requests*: two processes that plan the same commit
  from the same snapshot both report Ok for the one that is applied; nothing in
  the repository says whether they may, and the models allow it.

## 6. Plan

Done: all modules of section 2, their instances, and the theorems of section 4.
What is left:

1. **`Handshake`**: an initiator's and a responder's `Endpoint` exchanging first
   packet and accept over a lossy carrier, with retries and crashes on both
   sides: at most one session for each pair, and both hold the same one. Its
   safety rests on `AnswersDurable` and `EntropySpent` of both sides, which are
   proved.
2. **The receiving side of `Endpoint` and `Ratchet` together**: that the coordinates
   `Endpoint` keeps are those of the records that `Ratchet` keeps keys for.
