------------------------------- MODULE Endpoint -------------------------------
(***************************************************************************)
(* One party of a LicoArc conversation: the Endpoint of                    *)
(* src/src/endpoint/mod.rs over the caller's coupled AtomicState/KeyCustody *)
(* backend of src/src/state/mod.rs.                                        *)
(*                                                                         *)
(* Several processes (threads, or a restarted program) hold an Endpoint    *)
(* over the SAME backend.  An operation is three separate steps:           *)
(*                                                                         *)
(*   1. load the snapshot, validate against it and plan the one commit;    *)
(*   2. compare-and-swap snapshot, pending set and handle mutations;       *)
(*   3. if the swap reported an error, load again and classify.            *)
(*                                                                         *)
(* Every other process may run between two of those steps, the backend may *)
(* fail at each of them (with or without having applied the swap), and the *)
(* process may crash.  Cryptography is symbolic: a key is the handle or    *)
(* the epoch number that stands for it.                                    *)
(***************************************************************************)
EXTENDS Naturals, FiniteSets

CONSTANTS
  Procs,        \* processes that hold an Endpoint over the one backend
  Role,         \* "Initiator" or "Responder": the type parameter R
  Calls,        \* the operations the callers of this instance invoke
  Faults,       \* "crash": a process may stop; "misreport": a swap may answer
                \* with a revision that is not the successor
  XHandles,     \* X25519 private handles the custody can stage
  KHandles,     \* ML-KEM-768 private handles the custody can stage
  EHandles,     \* one-time encapsulation-entropy handles
  Initiators,   \* remote initiators that may answer a published bundle
  Bodies,       \* plaintexts and capability messages
  Records,      \* inbound protected records [dh, pn, n] of an honest peer
  MaxSeq,       \* largest pair_sequence a caller asks for
  MaxActive,    \* MAX_ACTIVE_PREKEY_PAIRS (256)
  MaxPending,   \* bound of the pending set of one commit (16)
  MaxSkip,      \* MAX_SKIP_PER_RECORD (256)
  MaxSkipped,   \* MAX_SKIPPED_KEYS (1024)
  MaxCounter,   \* largest record number (u32::MAX)
  MaxFlows,     \* MAX_MIGRATIONS (16): each flow takes a new packet, hence route
  MaxRevision,  \* MAX_SAFE_INTEGER (2^53 - 1)
  None          \* Option::None

ASSUME RoleAssumption == Role \in {"Initiator", "Responder"}

ASSUME HandleAssumption ==
  /\ XHandles \cap KHandles = {}
  /\ XHandles \cap EHandles = {}
  /\ KHandles \cap EHandles = {}

ASSUME RecordAssumption == Records \subseteq [dh : Nat, pn : Nat, n : Nat]

ASSUME BoundAssumption ==
  /\ MaxSeq \in Nat
  /\ MaxActive \in Nat
  /\ MaxPending \in Nat
  /\ MaxSkip \in Nat
  /\ MaxSkipped \in Nat
  /\ MaxCounter \in Nat
  /\ MaxFlows \in Nat
  /\ MaxRevision \in Nat

-----------------------------------------------------------------------------
(* Data                                                                    *)

Handles == XHandles \cup KHandles \cup EHandles

\* ActivePrekey, keyed by its bundle's pair_sequence.
Prekey == [seq : 1..MaxSeq, x : XHandles, k : KHandles]

\* A first packet as the responder sees it, and as the initiator builds it.
InboundFirst  == [prekey : Prekey, from : Initiators]
OutboundFirst == [x : XHandles, e : EHandles]

\* RatchetState: x stands for local_private/local_public, dh numbers for the
\* peer's public keys, and a skipped key for its coordinate (dh, n).
Session == [x : XHandles, sending : BOOLEAN, pn : Nat, ns : Nat,
            peer : Nat, receiving : BOOLEAN, nr : Nat,
            skipped : SUBSET (Nat \X Nat)]

ASSUME NoneAssumption == None \notin Session

Kinds == {"InitiatorNew", "InitiatorAwaiting", "ResponderReady",
          "Established", "Deleted"}

\* Phase: `high` is (prekey_)high_water, with 0 for None; `packet` is the
\* stored first packet of an awaiting initiator and the replay digest of an
\* established responder; caps = 0 is capabilities None, caps = 1 + k is a
\* runtime that has applied k flows; `last` is last_message_id.
Phase == [kind : Kinds, high : Nat, active : SUBSET Prekey,
          packet : InboundFirst \cup OutboundFirst \cup {None},
          session : Session \cup {None},
          caps : Nat, last : Bodies \cup {None}]

\* PendingItem with its PendingKind; the id is the digest of the content.
PacketItem    == [kind : {"Packet"}, x : XHandles, n : Nat, body : Bodies]
EffectItem    == [kind : {"Effect"}, flow : Nat]
PlaintextItem == [kind : {"Plaintext"}, record : Records]
Item == PacketItem \cup EffectItem \cup PlaintextItem

\* What a caller can be told with Ok: a bundle to publish, a SessionAccept
\* (it is a function of the first packet) or a first packet to send.
Answer == [type : {"Bundle"}, val : Prekey]
     \cup [type : {"Accept"}, val : InboundFirst]
     \cup [type : {"First"}, val : OutboundFirst]

\* The operations that commit.
Operations == {"admit_prekey", "accept_first_packet", "create_first_packet",
               "verify_session_accept", "send_record", "receive_record",
               "bootstrap_capabilities", "apply_complete_capability_flow",
               "delete_session"}

Fates == {"free", "staged", "adopted", "deleted", "aborted"}

\* A Commit together with the snapshot it was planned from, the staged handles
\* the caller passed in, and (history) whether the swap was applied.
Plan == [op : Operations, rev : 0..(MaxRevision - 1), phase : Phase, pending : SUBSET Item,
         next : Phase, work : SUBSET Item,
         adopt : SUBSET Handles, delete : SUBSET Handles,
         given : SUBSET Handles, answer : Answer \cup {None},
         landed : BOOLEAN]

\* A pending item in the hands of drive_pending or release_plaintext.
Delivery == [rev : 0..MaxRevision, item : Item]

Returned == {"open", "ok", "retry", "fail"}
Busy     == {"planned", "recover", "deliver", "settle"}

VARIABLES
  rev, phase, pending,   \* the durable Versioned<EndpointState>
  custody,               \* lifecycle of every handle in the caller's custody
  pc,                    \* where each process is
  plan,                  \* the commit or delivery a busy process works on
  held,                  \* handles a caller kept after a retryable error
  delivered,             \* history: items a boundary has accepted
  answered,              \* history: what callers have been told with Ok
  strayAborts            \* history: handles aborted after they were committed

store == <<rev, phase, pending>>
vars  == <<rev, phase, pending, custody, pc, plan, held, delivered, answered,
           strayAborts>>

-----------------------------------------------------------------------------
(* Helpers                                                                 *)

\* The handles a snapshot refers to; the backend must hold exactly these.
Owned(ph) == {a.x : a \in ph.active} \cup {a.k : a \in ph.active}
             \cup (IF ph.session = None THEN {} ELSE {ph.session.x})

\* A caller takes a handle its custody has just staged, or one it kept.
Offered(p, kindOf) == {h \in kindOf : custody[h] = "free"} \cup (held[p] \cap kindOf)

Stage(c, S) == [h \in Handles |-> IF h \in S /\ c[h] = "free" THEN "staged" ELSE c[h]]

\* KeyCustody::abort_*: only a staged object becomes unreachable.
Abort(c, S) == [h \in Handles |-> IF h \in S /\ c[h] = "staged" THEN "aborted" ELSE c[h]]

\* Fault: the backend applies the adoptions of a commit and not its deletions.
MutateFault(c, pl) == [h \in Handles |-> IF h \in pl.adopt THEN "adopted" ELSE c[h]]

\* compare_and_swap: all handle adoptions and deletions of one commit.
Mutate(c, pl) == [h \in Handles |-> IF h \in pl.delete THEN "deleted"
                                    ELSE IF h \in pl.adopt THEN "adopted" ELSE c[h]]

Deleted == phase.kind = "Deleted"
Live    == ~Deleted

\* Fault: the one-packet-in-flight check is missing.
HasPacketFault == FALSE

HasPacket    == \E i \in pending : i.kind = "Packet"
HasPlaintext == \E i \in pending : i.kind = "Plaintext"

\* Fault: the pending set is replaced by the new items instead of extended.
CarryingFault(new) == new

\* commit_with_pending_and_mutations: what is pending stays pending.
Carrying(new) == pending \cup new

EmptyPhase(kind) == [kind |-> kind, high |-> 0, active |-> {}, packet |-> None,
                     session |-> None, caps |-> 0, last |-> None]

\* EndpointState::initiator and EndpointState::responder.
InitialPhase == EmptyPhase(IF Role = "Initiator" THEN "InitiatorNew" ELSE "ResponderReady")

\* RatchetState::responder and RatchetState::initiator.
NewSession(x, initiator) ==
  [x |-> x, sending |-> initiator, pn |-> 0, ns |-> 0, peer |-> 0,
   receiving |-> ~initiator, nr |-> 0, skipped |-> {}]

Calling(p, op) == pc[p] \in Returned /\ op \in Calls

-----------------------------------------------------------------------------
(* The shared shape of an operation                                        *)

\* Any error before the commit is attempted: the staged arguments are aborted.
Refuse(p, given) ==
  /\ pc' = [pc EXCEPT ![p] = "fail"]
  /\ custody' = Abort(Stage(custody, given), given)
  /\ strayAborts' = strayAborts \cup {h \in given : custody[h] \in {"adopted", "deleted"}}
  /\ held' = [held EXCEPT ![p] = @ \ given]
  /\ UNCHANGED <<store, plan, delivered, answered>>

\* Fault: a call that needs no commit leaves its staged argument behind.
ReplyFault(p, given, answer) ==
  /\ pc' = [pc EXCEPT ![p] = "ok"]
  /\ custody' = Stage(custody, given)
  /\ held' = [held EXCEPT ![p] = @ \ given]
  /\ answered' = answered \cup answer
  /\ UNCHANGED <<store, plan, delivered, strayAborts>>

\* A call that answers from the snapshot without a commit.
Reply(p, given, answer) ==
  /\ pc' = [pc EXCEPT ![p] = "ok"]
  /\ custody' = Abort(Stage(custody, given), given)
  /\ strayAborts' = strayAborts \cup {h \in given : custody[h] \in {"adopted", "deleted"}}
  /\ held' = [held EXCEPT ![p] = @ \ given]
  /\ answered' = answered \cup answer
  /\ UNCHANGED <<store, plan, delivered>>

\* The validated commit of one operation, planned from the snapshot just
\* loaded.  `spare` is a staged argument the commit does not use.
Prepare(p, op, given, spare, next, adopt, delete, work, answer) ==
  /\ rev < MaxRevision
  /\ Cardinality(work) <= MaxPending
  /\ \A h \in given : custody[h] \in {"free", "staged"}
  /\ pc' = [pc EXCEPT ![p] = "planned"]
  /\ plan' = [plan EXCEPT ![p] =
       [op |-> op, rev |-> rev, phase |-> phase, pending |-> pending,
        next |-> next, work |-> work, adopt |-> adopt, delete |-> delete,
        given |-> given, answer |-> answer, landed |-> FALSE]]
  /\ custody' = Abort(Stage(custody, given \cup spare), spare)
  /\ strayAborts' = strayAborts \cup {h \in spare : custody[h] \in {"adopted", "deleted"}}
  /\ held' = [held EXCEPT ![p] = @ \ (given \cup spare)]
  /\ UNCHANGED <<store, delivered, answered>>

-----------------------------------------------------------------------------
(* Opening and crashing                                                    *)

\* Endpoint::responder and Endpoint::initiator: the only constructors.
Open(p) ==
  /\ pc[p] = "closed"
  /\ phase.kind = (IF Role = "Initiator" THEN "InitiatorNew" ELSE "ResponderReady")
  /\ pc' = [pc EXCEPT ![p] = "open"]
  /\ UNCHANGED <<store, custody, plan, held, delivered, answered, strayAborts>>

\* A process stops between two steps: what is durable stays, the rest is gone.
Crash(p) ==
  /\ "crash" \in Faults
  /\ pc[p] # "closed"
  /\ pc' = [pc EXCEPT ![p] = "closed"]
  /\ plan' = [plan EXCEPT ![p] = None]
  /\ held' = [held EXCEPT ![p] = {}]
  /\ UNCHANGED <<store, custody, delivered, answered, strayAborts>>

-----------------------------------------------------------------------------
(* The responder before the handshake                                      *)

\* Fault: the high water itself is admitted again.
MayAdmitFault(seq) == seq >= phase.high /\ Cardinality(phase.active) < MaxActive

MayAdmit(seq) == seq > phase.high /\ Cardinality(phase.active) < MaxActive

AdmitPrekey(p) ==
  /\ Calling(p, "admit_prekey")
  /\ \E seq \in 1..MaxSeq, x \in Offered(p, XHandles), k \in Offered(p, KHandles) :
       \/ LET bundle == [seq |-> seq, x |-> x, k |-> k] IN
          /\ phase.kind = "ResponderReady"
          /\ MayAdmit(seq)
          /\ Prepare(p, "admit_prekey", {x, k}, {},
                     [phase EXCEPT !.high = seq, !.active = @ \cup {bundle}],
                     {x, k}, {}, pending, [type |-> "Bundle", val |-> bundle])
       \/ Refuse(p, {x, k})

\* Remote initiators answer bundles the responder's callers have published.
InboundPackets ==
  [prekey : {a.val : a \in {b \in answered : b.type = "Bundle"}}, from : Initiators]

\* Fault: the pairs that were not chosen keep their X25519 half.
ConsumedByFault(prekey) == {a.k : a \in phase.active}

\* Accepting one pair deletes every ML-KEM half and every other X25519 half.
ConsumedBy(prekey) ==
  {a.k : a \in phase.active} \cup {a.x : a \in phase.active \ {prekey}}

AcceptFirstPacket(p) ==
  /\ Calling(p, "accept_first_packet")
  /\ \E packet \in InboundPackets :
       \/ /\ phase.kind = "Established"
          /\ phase.packet = packet
          /\ Reply(p, {}, {[type |-> "Accept", val |-> packet]})
       \/ /\ phase.kind = "ResponderReady"
          /\ packet.prekey \in phase.active
          /\ packet.prekey.seq <= phase.high
          /\ Prepare(p, "accept_first_packet", {}, {},
                     [phase EXCEPT !.kind = "Established", !.active = {},
                                   !.packet = packet,
                                   !.session = NewSession(packet.prekey.x, FALSE)],
                     {}, ConsumedBy(packet.prekey), pending,
                     [type |-> "Accept", val |-> packet])
       \/ Refuse(p, {})

-----------------------------------------------------------------------------
(* The initiator before the handshake completes                            *)

CreateFirstPacket(p) ==
  /\ Calling(p, "create_first_packet")
  /\ \E x \in Offered(p, XHandles), e \in EHandles :
       \/ /\ phase.kind = "InitiatorAwaiting"
          /\ Reply(p, {x}, {[type |-> "First", val |-> phase.packet]})
       \/ LET packet == [x |-> x, e |-> e] IN
          /\ phase.kind = "InitiatorNew"
          /\ custody[e] = "adopted"
          /\ Prepare(p, "create_first_packet", {x}, {},
                     [phase EXCEPT !.kind = "InitiatorAwaiting", !.packet = packet,
                                   !.session = NewSession(x, TRUE)],
                     {x}, {e}, pending, [type |-> "First", val |-> packet])
       \/ Refuse(p, {x})

VerifySessionAccept(p) ==
  /\ Calling(p, "verify_session_accept")
  /\ \/ /\ phase.kind = "InitiatorAwaiting"
        /\ Prepare(p, "verify_session_accept", {}, {},
                   [phase EXCEPT !.kind = "Established", !.packet = None],
                   {}, {}, pending, None)
     \/ Refuse(p, {})

-----------------------------------------------------------------------------
(* The established session                                                 *)

\* Fault: the record number is not advanced.
AfterSendFault(s) == s

\* RatchetState::send: one record under the next message key of the chain.
Sealed(s, body) == [kind |-> "Packet", x |-> s.x, n |-> s.ns, body |-> body]
AfterSend(s)    == [s EXCEPT !.ns = @ + 1]

\* RatchetState::bootstrap_responder: the responder's first sending chain.
Bootstrapped(s, x) == [s EXCEPT !.x = x, !.sending = TRUE]

SendRecord(p) ==
  /\ Calling(p, "send_record")
  /\ \E body \in Bodies :
       \/ /\ phase.kind = "Established"
          /\ ~HasPacket
          /\ phase.session.sending
          /\ phase.session.ns < MaxCounter
          /\ Prepare(p, "send_record", {}, {},
                     [phase EXCEPT !.session = AfterSend(@)], {}, {},
                     Carrying({Sealed(phase.session, body)}), None)
       \/ Refuse(p, {})

\* send_record with a staged handle for a responder that cannot send yet.
SendFirstRecord(p) ==
  /\ Calling(p, "send_record")
  /\ \E body \in Bodies, x \in Offered(p, XHandles) :
       \/ /\ phase.kind = "Established"
          /\ ~HasPacket
          /\ ~phase.session.sending
          /\ Role = "Responder"
          /\ LET s == Bootstrapped(phase.session, x) IN
             /\ s.ns < MaxCounter
             /\ Prepare(p, "send_record", {x}, {},
                        [phase EXCEPT !.session = AfterSend(s)],
                        {x}, {phase.session.x},
                        Carrying({Sealed(s, body)}), None)
       \/ Refuse(p, {x})

\* The honest peer starts its epoch d only after this party's records of d
\* (the initiator: d - 1) local keys have reached it.
Arriving(record) ==
  LET keysSent == {i.x : i \in {j \in delivered : j.kind = "Packet"}}
  IN record.dh <= Cardinality(keysSent) + (IF Role = "Initiator" THEN 1 ELSE 0)

Coordinate(record) == <<record.dh, record.n>>
Skipping(dh, from, to) == {<<dh, i>> : i \in from..(to - 1)}

\* RatchetState::receive on a chain that has reached number s.nr.
OnChain(s, record) ==
  /\ s.receiving
  /\ record.n >= s.nr
  /\ record.n - s.nr <= MaxSkip
  /\ Cardinality(s.skipped) + (record.n - s.nr) <= MaxSkipped
  /\ record.n < MaxCounter

\* Fault: the keys of the records that were jumped over are not kept.
AfterReceiveFault(s, record) == [s EXCEPT !.nr = record.n + 1]

AfterReceive(s, record) ==
  [s EXCEPT !.skipped = @ \cup Skipping(record.dh, s.nr, record.n),
            !.nr = record.n + 1]

\* RatchetState::receive_dh_transition.
MayTransition(s, record) ==
  /\ record.pn >= s.nr
  /\ record.pn - s.nr <= MaxSkip
  /\ Cardinality(s.skipped) + (record.pn - s.nr) <= MaxSkipped
  /\ record.pn > s.nr => s.receiving
AfterTransition(s, record, x) ==
  [s EXCEPT !.x = x, !.sending = TRUE, !.receiving = TRUE, !.peer = record.dh,
            !.pn = s.ns, !.ns = 0, !.nr = 0,
            !.skipped = @ \cup Skipping(s.peer, s.nr, record.pn)]

\* Fault: a skipped key is opened and kept.
AfterSkippedFault(s, record) == s

AfterSkipped(s, record) == [s EXCEPT !.skipped = @ \ {Coordinate(record)}]

\* receive_record; `fresh` is the optional staged handle (at most one).
ReceiveRecord(p) ==
  /\ Calling(p, "receive_record")
  /\ \E record \in Records, fresh \in {{}} \cup {{x} : x \in Offered(p, XHandles)} :
       LET s == phase.session
           item == [kind |-> "Plaintext", record |-> record]
           Keep(next) == Prepare(p, "receive_record", {}, fresh,
                                 [phase EXCEPT !.session = next],
                                 {}, {}, Carrying({item}), None)
       IN
       /\ Arriving(record)
       /\ \/ /\ phase.kind = "Established"
             /\ ~HasPlaintext
             /\ \/ /\ Coordinate(record) \in s.skipped
                   /\ Keep(AfterSkipped(s, record))
                \/ /\ Coordinate(record) \notin s.skipped
                   /\ record.dh = s.peer
                   /\ OnChain(s, record)
                   /\ Keep(AfterReceive(s, record))
                \/ /\ record.dh > s.peer
                   /\ MayTransition(s, record)
                   /\ \E x \in fresh :
                        LET t == AfterTransition(s, record, x) IN
                        /\ OnChain(t, record)
                        /\ Prepare(p, "receive_record", fresh, {},
                                   [phase EXCEPT !.session = AfterReceive(t, record)],
                                   {x}, {s.x}, Carrying({item}), None)
          \/ Refuse(p, fresh)

BootstrapCapabilities(p) ==
  /\ Calling(p, "bootstrap_capabilities")
  /\ \/ /\ phase.kind = "Established"
        /\ phase.caps = 0
        /\ Prepare(p, "bootstrap_capabilities", {}, {}, [phase EXCEPT !.caps = 1],
                   {}, {}, pending, None)
     \/ Refuse(p, {})

\* Fault: the effect of a flow is left out of its commit.
FlowItemsFault(body) == {Sealed(phase.session, body)}

\* The protected packet and the application effect of one flow.
FlowItems(body) == {Sealed(phase.session, body), [kind |-> "Effect", flow |-> phase.caps]}

\* apply_complete_capability_flow; the reducers' own verdicts are a Refuse.
ApplyCapabilityFlow(p) ==
  /\ Calling(p, "apply_complete_capability_flow")
  /\ \E body \in Bodies :
       \/ /\ phase.kind = "Established"
          /\ phase.caps > 0
          /\ ~HasPacket
          /\ phase.last # body
          /\ phase.session.sending
          /\ phase.session.ns < MaxCounter
          /\ phase.caps <= MaxFlows
          /\ Prepare(p, "apply_complete_capability_flow", {}, {},
                     [phase EXCEPT !.session = AfterSend(@), !.caps = @ + 1, !.last = body],
                     {}, {},
                     Carrying(FlowItems(body)), None)
       \/ Refuse(p, {})

\* Fault: deletion forgets the prekey high water.
TombstoneFault == EmptyPhase("Deleted")

Tombstone == [EmptyPhase("Deleted") EXCEPT !.high = phase.high]

DeleteSession(p) ==
  /\ Calling(p, "delete_session")
  /\ \/ /\ Live
        /\ Prepare(p, "delete_session", {}, {},
                   Tombstone, {}, Owned(phase), {}, None)
     \/ Refuse(p, {})

-----------------------------------------------------------------------------
(* Committing: commit_replacing_pending over AtomicState::compare_and_swap *)

\* Fault: the revision is not compared.
ApplicableFault(pl) ==
  /\ \A h \in pl.adopt : custody[h] = "staged"
  /\ \A h \in pl.delete : custody[h] = "adopted"

\* The backend's own validation of revision and handle lifecycles.
Applicable(pl) ==
  /\ rev = pl.rev
  /\ \A h \in pl.adopt : custody[h] = "staged"
  /\ \A h \in pl.delete : custody[h] = "adopted"

Apply(pl) ==
  /\ rev' = rev + 1
  /\ phase' = pl.next
  /\ pending' = pl.work
  /\ custody' = Mutate(custody, pl)

\* Ok(successor).
CasCommits(p) ==
  /\ pc[p] = "planned"
  /\ Applicable(plan[p])
  /\ Apply(plan[p])
  /\ pc' = [pc EXCEPT ![p] = "ok"]
  /\ plan' = [plan EXCEPT ![p] = None]
  /\ answered' = answered \cup ({plan[p].answer} \ {None})
  /\ UNCHANGED <<held, delivered, strayAborts>>

\* Err(_) from a swap the backend nevertheless applied.
CasUncertain(p) ==
  /\ pc[p] = "planned"
  /\ Applicable(plan[p])
  /\ Apply(plan[p])
  /\ pc' = [pc EXCEPT ![p] = "recover"]
  /\ plan' = [plan EXCEPT ![p].landed = TRUE]
  /\ UNCHANGED <<held, delivered, answered, strayAborts>>

\* Err(_) and nothing applied: a conflict, an invalid mutation or a fault.
CasRejects(p) ==
  /\ pc[p] = "planned"
  /\ pc' = [pc EXCEPT ![p] = "recover"]
  /\ UNCHANGED <<store, custody, plan, held, delivered, answered, strayAborts>>

\* Fault: any commit at the successor revision is taken for this call's own.
ObservesPlanFault(pl) == rev = pl.rev + 1

\* Fault: every other observation is taken for a definite rejection.
ObservesBaseFault(pl) == TRUE

\* What commit_replacing_pending makes of the snapshot it loads after an error.
ObservesPlan(pl) == rev = pl.rev + 1 /\ phase = pl.next /\ pending = pl.work
ObservesBase(pl) == rev = pl.rev /\ phase = pl.phase /\ pending = pl.pending

\* accept_first_packet turns a Conflict into a terminal PrekeyConsumed.
LosesPrekey(pl) == pl.op = "accept_first_packet" /\ rev = pl.rev + 1

RecoverCommitted(p) ==
  /\ pc[p] = "recover"
  /\ ObservesPlan(plan[p])
  /\ pc' = [pc EXCEPT ![p] = "ok"]
  /\ plan' = [plan EXCEPT ![p] = None]
  /\ answered' = answered \cup ({plan[p].answer} \ {None})
  /\ UNCHANGED <<store, custody, held, delivered, strayAborts>>

\* A terminal error: the staged arguments are aborted.
RecoverRejected(p) ==
  /\ pc[p] = "recover"
  /\ ~ObservesPlan(plan[p])
  /\ ObservesBase(plan[p]) \/ LosesPrekey(plan[p])
  /\ pc' = [pc EXCEPT ![p] = "fail"]
  /\ plan' = [plan EXCEPT ![p] = None]
  /\ custody' = Abort(custody, plan[p].given)
  /\ strayAborts' = strayAborts
       \cup {h \in plan[p].given : custody[h] \in {"adopted", "deleted"}}
  /\ UNCHANGED <<store, held, delivered, answered>>

\* A retryable error: the caller keeps its staged arguments.
StayUncertain(p) ==
  /\ pc' = [pc EXCEPT ![p] = "retry"]
  /\ plan' = [plan EXCEPT ![p] = None]
  /\ held' = [held EXCEPT ![p] = @ \cup plan[p].given]
  /\ UNCHANGED <<delivered, answered, strayAborts>>

\* Ok(_) with a revision that is not the successor, applied or not.
CasMisreports(p) ==
  /\ "misreport" \in Faults
  /\ pc[p] = "planned"
  /\ \/ Applicable(plan[p]) /\ Apply(plan[p])
     \/ UNCHANGED <<store, custody>>
  /\ StayUncertain(p)

RecoverUncertain(p) ==
  /\ pc[p] = "recover"
  /\ ~ObservesPlan(plan[p])
  /\ ~ObservesBase(plan[p])
  /\ ~LosesPrekey(plan[p])
  /\ StayUncertain(p)
  /\ UNCHANGED <<store, custody>>

RecoverLoadFails(p) ==
  /\ pc[p] = "recover"
  /\ StayUncertain(p)
  /\ UNCHANGED <<store, custody>>

-----------------------------------------------------------------------------
(* Delivering: drive_pending and release_plaintext                         *)

\* Load, find the item by id, load again at the same revision.
Dispatch(p) ==
  /\ Calling(p, "dispatch_pending")
  /\ \/ /\ Live
        /\ \E i \in pending :
             /\ pc' = [pc EXCEPT ![p] = "deliver"]
             /\ plan' = [plan EXCEPT ![p] = [rev |-> rev, item |-> i]]
        /\ UNCHANGED <<store, custody, held, delivered, answered, strayAborts>>
     \/ Refuse(p, {})

\* carrier.send, effects.apply or receiver.release succeeds.
DeliverSucceeds(p) ==
  /\ pc[p] = "deliver"
  /\ pc' = [pc EXCEPT ![p] = "settle"]
  /\ delivered' = delivered \cup {plan[p].item}
  /\ UNCHANGED <<store, custody, plan, held, answered, strayAborts>>

\* The boundary reports an error, having acted or not.
DeliverFails(p) ==
  /\ pc[p] = "deliver"
  /\ pc' = [pc EXCEPT ![p] = "fail"]
  /\ plan' = [plan EXCEPT ![p] = None]
  /\ delivered' \in {delivered, delivered \cup {plan[p].item}}
  /\ UNCHANGED <<store, custody, held, answered, strayAborts>>

\* AtomicState::settle removes exactly this item and advances once.
SettleApplies(p) ==
  /\ pc[p] = "settle"
  /\ rev = plan[p].rev
  /\ plan[p].item \in pending
  /\ rev < MaxRevision
  /\ rev' = rev + 1
  /\ pending' = pending \ {plan[p].item}
  /\ \E answer \in {"ok", "fail"} : pc' = [pc EXCEPT ![p] = answer]
  /\ plan' = [plan EXCEPT ![p] = None]
  /\ UNCHANGED <<phase, custody, held, delivered, answered, strayAborts>>

SettleFails(p) ==
  /\ pc[p] = "settle"
  /\ pc' = [pc EXCEPT ![p] = "fail"]
  /\ plan' = [plan EXCEPT ![p] = None]
  /\ UNCHANGED <<store, custody, held, delivered, answered, strayAborts>>

-----------------------------------------------------------------------------
(* The specification                                                       *)

Init ==
  /\ rev = 0
  /\ phase = InitialPhase
  /\ pending = {}
  /\ custody = [h \in Handles |-> IF h \in EHandles THEN "adopted" ELSE "free"]
  /\ pc = [p \in Procs |-> "closed"]
  /\ plan = [p \in Procs |-> None]
  /\ held = [p \in Procs |-> {}]
  /\ delivered = {}
  /\ answered = {}
  /\ strayAborts = {}

Call(p) ==
  \/ AdmitPrekey(p)
  \/ AcceptFirstPacket(p)
  \/ CreateFirstPacket(p)
  \/ VerifySessionAccept(p)
  \/ SendRecord(p)
  \/ SendFirstRecord(p)
  \/ ReceiveRecord(p)
  \/ BootstrapCapabilities(p)
  \/ ApplyCapabilityFlow(p)
  \/ DeleteSession(p)
  \/ Dispatch(p)

\* The rest of a call, once it has loaded its snapshot.
Proceed(p) ==
  \/ CasCommits(p)
  \/ CasUncertain(p)
  \/ CasRejects(p)
  \/ CasMisreports(p)
  \/ RecoverCommitted(p)
  \/ RecoverRejected(p)
  \/ RecoverUncertain(p)
  \/ RecoverLoadFails(p)
  \/ DeliverSucceeds(p)
  \/ DeliverFails(p)
  \/ SettleApplies(p)
  \/ SettleFails(p)

Next == \E p \in Procs : Open(p) \/ Crash(p) \/ Call(p) \/ Proceed(p)

Spec == Init /\ [][Next]_vars

-----------------------------------------------------------------------------
(* Invariants                                                              *)

\* Every variable holds a value of its type.
TypeOK ==
  /\ rev \in 0..MaxRevision
  /\ phase \in Phase
  /\ pending \subseteq Item
  /\ custody \in [Handles -> Fates]
  /\ pc \in [Procs -> {"closed"} \cup Returned \cup Busy]
  /\ plan \in [Procs -> Plan \cup Delivery \cup {None}]
  /\ \A p \in Procs :
       /\ pc[p] \in {"planned", "recover"} => plan[p] \in Plan
       /\ pc[p] \in {"deliver", "settle"} => plan[p] \in Delivery
       /\ pc[p] \notin Busy => plan[p] = None
  /\ held \in [Procs -> SUBSET Handles]
  /\ delivered \subseteq Item
  /\ answered \subseteq Answer
  /\ strayAborts \subseteq Handles

\* The custody holds exactly the prekey and ratchet handles the durable
\* snapshot refers to: no commit, lost or stale or uncertain, leaks an adopted
\* handle or leaves the snapshot with a handle that is gone.
HandleCoherence ==
  \A h \in XHandles \cup KHandles : custody[h] = "adopted" <=> h \in Owned(phase)

\* No two active prekeys share a sequence number or a private handle, so that
\* accepting one first packet can delete every other pair in the same commit.
PrekeysDisjoint ==
  \A a, b \in phase.active :
    a.seq = b.seq \/ a.x = b.x \/ a.k = b.k => a = b

\* What a caller was told with Ok stays true of the durable state, whatever the
\* other processes commit: a published bundle can be answered until the
\* handshake, and the one accepted or created first packet is the stored one.
AnswersDurable ==
  \A a \in answered :
    /\ a.type = "Bundle" =>
         /\ a.val.seq <= phase.high
         /\ phase.kind = "ResponderReady" => a.val \in phase.active
    /\ a.type = "Accept" =>
         /\ phase.kind \in {"Established", "Deleted"}
         /\ phase.kind = "Established" => phase.packet = a.val
    /\ a.type = "First" =>
         /\ phase.kind \in {"InitiatorAwaiting", "Established", "Deleted"}
         /\ phase.kind = "InitiatorAwaiting" => phase.packet = a.val

\* Two callers are never told different things: one SessionAccept, one first
\* packet, and one bundle for each pair_sequence, under every race and retry.
AnswersAgree ==
  \A a, b \in answered :
    /\ a.type = b.type
    /\ a.type = "Bundle" => a.val.seq = b.val.seq
    => a = b

\* The entropy behind every first packet a caller may send is gone, so no
\* second encapsulation can repeat it.
EntropySpent ==
  /\ \A a \in answered : a.type = "First" => custody[a.val.e] = "deleted"
  /\ phase.kind = "InitiatorAwaiting" => custody[phase.packet.e] = "deleted"

\* One message key of the sending chain seals one plaintext: two packets that
\* are durable or were handed to the carrier never share (dh, n).
MessageKeyOnce ==
  \A i, j \in {k \in pending \cup delivered : k.kind = "Packet"} :
    i.x = j.x /\ i.n = j.n => i = j

\* A record number is spent only on a packet that is still pending or reached the
\* carrier: no lost, stale or uncertain send leaves a hole in the chain that
\* the peer's skip bound would have to absorb.
SentBacked ==
  phase.kind = "Established" =>
    \A n \in 0..(phase.session.ns - 1) :
      \E i \in pending \cup delivered :
        i.kind = "Packet" /\ i.x = phase.session.x /\ i.n = n

\* The key of an inbound record is gone only if its plaintext is still pending or
\* was released: receiving never destroys a message.
ReceivedBacked ==
  phase.kind = "Established" =>
    \A n \in 0..(phase.session.nr - 1) :
      \/ <<phase.session.peer, n>> \in phase.session.skipped
      \/ \E i \in pending \cup delivered :
           i.kind = "Plaintext" /\ Coordinate(i.record) = <<phase.session.peer, n>>

\* Every applied capability flow has its effect pending or applied.
EffectsAccounted ==
  phase.kind = "Established" =>
    \A f \in 1..(phase.caps - 1) :
      [kind |-> "Effect", flow |-> f] \in pending \cup delivered

\* Without crashes, a staged handle is always in some caller's or some call's
\* hands: every refusal, loss and reply aborts what it does not hand back.
StagedAccounted ==
  \A h \in Handles : custody[h] = "staged" =>
    \E p \in Procs : \/ h \in held[p]
                     \/ pc[p] \in {"planned", "recover"} /\ h \in plan[p].given

-----------------------------------------------------------------------------
(* The inductive invariant behind the proofs                               *)

\* Which parts of a phase are inhabited in which state of the conversation.
PhaseShape(ph) ==
  /\ ph.kind \in {"InitiatorAwaiting", "Established"} <=> ph.session # None
  /\ ph.active # {} => ph.kind = "ResponderReady"
  /\ \A a \in ph.active : a.seq <= ph.high
  /\ ph.kind = "InitiatorAwaiting" => ph.packet \in OutboundFirst

PairsDisjoint(active) ==
  \A a, b \in active : a.seq = b.seq \/ a.x = b.x \/ a.k = b.k => a = b

\* A plan accounts for every handle its next snapshot gains or gives up; it
\* never starts from a deleted session, and its high water is no lower.
PlanSound(pl) ==
  /\ PhaseShape(pl.next)
  /\ Owned(pl.next) = (Owned(pl.phase) \ pl.delete) \cup pl.adopt
  /\ pl.adopt \cap pl.delete = {}
  /\ PairsDisjoint(pl.phase.active) /\ pl.adopt \cap Owned(pl.phase) = {}
       => PairsDisjoint(pl.next.active)
  /\ pl.phase.kind # "Deleted" /\ (pl.next.kind = "Deleted" => pl.work = {})
  /\ pl.phase.high <= pl.next.high

\* A snapshot is the durable state, or the durable revision has moved past it;
\* and a swap that was applied is still visible or has been overtaken.
SnapshotCoherent(pl) ==
  /\ pl.rev <= rev
  /\ pl.rev = rev => phase = pl.phase /\ pending = pl.pending /\ ~pl.landed
  /\ pl.landed /\ rev = pl.rev + 1 => phase = pl.next /\ pending = pl.work

Planning(p) == pc[p] \in {"planned", "recover"}

\* Inductive: TypeOK and HandleCoherence alone are not, for a process may hold
\* a plan whose mutations or snapshot would contradict them.
IInv ==
  /\ TypeOK
  /\ HandleCoherence
  /\ PhaseShape(phase)
  /\ PairsDisjoint(phase.active)
  /\ Deleted => pending = {}
  /\ \A p \in Procs : Planning(p) => PlanSound(plan[p]) /\ SnapshotCoherent(plan[p])

-----------------------------------------------------------------------------
(* Action properties                                                       *)

\* A pending item leaves the durable set only after its boundary took it, or
\* with the whole session: a commit planned from a stale snapshot loses none.
NoSilentLoss ==
  [][\A i \in pending \ pending' : i \in delivered \/ phase'.kind = "Deleted"]_vars

\* An item that enters the durable set is new: no stale or repeated commit
\* brings settled work back, and no inbound record is released twice by way of
\* a second receive.
NoResurrection ==
  [][\A i \in pending' \ pending : i \notin delivered]_vars

\* A call that reports a terminal error after its swap has not committed.
TerminalMeansUncommitted ==
  [][\A p \in Procs : pc[p] = "recover" /\ pc'[p] = "fail" => ~plan[p].landed]_vars

\* The prekey high water survives the handshake and the deletion.
HighWaterMonotone == [][phase'.high >= phase.high]_vars

\* Deletion is final: no call in flight revives the session or its output.
DeletionFinal == [][Deleted => UNCHANGED <<phase, pending>>]_vars

-----------------------------------------------------------------------------
(* What the documentation says and the code does not do                    *)

\* KeyCustody: abort is for "a definitely uncommitted tentative object".
AbortsOnlyUncommitted == strayAborts = {}

\* STATUS.md: Endpoints implement restart.  A process that keeps trying to open
\* the store of a live session eventually holds an Endpoint again.
SessionReopens ==
  \A p \in Procs : pc[p] = "closed" ~> (pc[p] # "closed" \/ Deleted)

\* A running process continues the call it is in and keeps trying to open.
Fairness == \A p \in Procs : WF_vars(Proceed(p)) /\ WF_vars(Open(p))
FairSpec == Spec /\ Fairness

=============================================================================
