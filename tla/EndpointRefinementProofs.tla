------------------------ MODULE EndpointRefinementProofs ------------------------
(***************************************************************************)
(* Proofs that Endpoint implements Conversation, and of the invariants the *)
(* implementation rests on, for every value of the constants.              *)
(*                                                                         *)
(* RInv is inductive.  A step of Endpoint is seen by its callers and by    *)
(* the boundaries in one of five ways (LEMMA StepKinds): it tells callers  *)
(* what holds now (or nothing at all), fetches an item, lands a commit,    *)
(* hands an item over, or settles one.                                     *)
(***************************************************************************)
EXTENDS EndpointRefinement, EndpointProofs

-----------------------------------------------------------------------------
(* The kinds of steps                                                      *)

\* What a caller is told of the state as it is.
Holds(a) ==
  \/ a.type = "Bundle" /\ a.val \in phase.active
  \/ a.type = "Accept" /\ phase.kind = "Established" /\ a.val = phase.packet
  \/ a.type = "First" /\ phase.kind = "InitiatorAwaiting" /\ a.val = phase.packet

\* Staging and aborting touch no handle that was committed.
CustodyRests ==
  \A h \in Handles : /\ custody'[h] = "adopted" <=> custody[h] = "adopted"
                     /\ custody'[h] = "deleted" <=> custody[h] = "deleted"

DeliveryRests(q) == Delivering(q)' => Delivering(q) /\ pc'[q] = pc[q] /\ plan'[q] = plan[q]

Tells ==
  /\ UNCHANGED <<store, delivered>> /\ CustodyRests
  /\ \A q \in Procs : DeliveryRests(q)
  /\ answered \subseteq answered' /\ answered' \subseteq Answer
  /\ \A a \in answered' \ answered : Holds(a)

Fetches(p) ==
  /\ UNCHANGED <<store, custody, delivered, answered>> /\ ~Deleted
  /\ pc'[p] = "deliver" /\ plan'[p].item \in pending
  /\ \A q \in Procs : q # p => DeliveryRests(q)

Lands(p) ==
  /\ pc[p] = "planned" /\ Applicable(plan[p]) /\ Apply(plan[p])
  /\ \A q \in Procs : DeliveryRests(q)
  /\ answered' \in {answered, answered \cup ({plan[p].answer} \ {None})}
  /\ UNCHANGED delivered

Hands(p) ==
  /\ pc[p] = "deliver" /\ delivered' = delivered \cup {plan[p].item}
  /\ Delivering(p)' => pc'[p] = "settle" /\ plan'[p] = plan[p]
  /\ \A q \in Procs : q # p => DeliveryRests(q)
  /\ UNCHANGED <<store, custody, answered>>

Settles(p) ==
  /\ pc[p] = "settle" /\ plan[p].item \in pending
  /\ pending' = pending \ {plan[p].item}
  /\ \A q \in Procs : DeliveryRests(q)
  /\ UNCHANGED <<phase, custody, delivered, answered>>

\* Staging and aborting leave the committed handles as they are.
LEMMA CustodyDeleted ==
  ASSUME NEW c \in [Handles -> Fates], NEW S, NEW T, NEW h \in Handles
  PROVE  /\ Abort(Stage(c, S), T)[h] = "deleted" <=> c[h] = "deleted"
         /\ Abort(c, T)[h] = "deleted" <=> c[h] = "deleted"
  BY DEF Abort, Stage, Fates

\* The three ways a call goes on from its snapshot, none of which the callers
\* of other processes can see.
LEMMA ShapeKinds ==
  ASSUME IInv, NEW q \in Procs, pc[q] \in Returned
  PROVE  /\ \A given : Refuse(q, given) => Tells
         /\ \A given : \A a \in Answer : Holds(a) /\ Reply(q, given, {a}) => Tells
         /\ \A op, given, spare, next, adopt, delete, work, answer :
              Prepare(q, op, given, spare, next, adopt, delete, work, answer) => Tells
  <1>1. custody \in [Handles -> Fates] /\ pc \in [Procs -> {"closed"} \cup Returned \cup Busy]
        /\ plan \in [Procs -> Plan \cup Delivery \cup {None}] /\ answered \subseteq Answer
    BY DEF IInv, TypeOK
  <1>2. ASSUME NEW given, Refuse(q, given)
        PROVE  Tells
    <2>1. CustodyRests
      BY <1>1, <1>2, CustodyQuiet, CustodyDeleted DEF Refuse, CustodyRests
    <2>2. \A r \in Procs : DeliveryRests(r)
      BY <1>1, <1>2 DEF Refuse, DeliveryRests, Delivering
    <2>. QED
      BY <1>1, <1>2, <2>1, <2>2 DEF Tells, Refuse
  <1>3. ASSUME NEW given, NEW a \in Answer, Holds(a), Reply(q, given, {a})
        PROVE  Tells
    <2>1. CustodyRests
      BY <1>1, <1>3, CustodyQuiet, CustodyDeleted DEF Reply, CustodyRests
    <2>2. \A r \in Procs : DeliveryRests(r)
      BY <1>1, <1>3 DEF Reply, DeliveryRests, Delivering
    <2>. QED
      BY <1>1, <1>3, <2>1, <2>2 DEF Tells, Reply
  <1>4. ASSUME NEW op, NEW given, NEW spare, NEW next, NEW adopt, NEW delete,
               NEW work, NEW answer,
               Prepare(q, op, given, spare, next, adopt, delete, work, answer)
        PROVE  Tells
    <2>1. CustodyRests
      BY <1>1, <1>4, CustodyQuiet, CustodyDeleted DEF Prepare, CustodyRests
    <2>2. pc' = [pc EXCEPT ![q] = "planned"] /\ \A r \in Procs : r # q => plan'[r] = plan[r]
      BY <1>1, <1>4 DEF Prepare
    <2>3. \A r \in Procs : DeliveryRests(r)
      BY <1>1, <2>2 DEF DeliveryRests, Delivering
    <2>4. UNCHANGED <<store, delivered, answered>>
      BY <1>4 DEF Prepare
    <2>. QED
      BY <1>1, <2>1, <2>3, <2>4 DEF Tells
  <1>. QED
    BY <1>2, <1>3, <1>4

LEMMA CallKinds ==
  ASSUME IInv, NEW q \in Procs, Call(q)
  PROVE  Tells \/ Fetches(q)
  <1>1. pc[q] \in Returned
    BY CallMovesCaller
  <1>2. /\ \A given : Refuse(q, given) => Tells
        /\ \A given : \A a \in Answer : Holds(a) /\ Reply(q, given, {a}) => Tells
        /\ \A op, given, spare, next, adopt, delete, work, answer :
             Prepare(q, op, given, spare, next, adopt, delete, work, answer) => Tells
    BY <1>1, ShapeKinds
  <1>3. CASE AdmitPrekey(q)
    BY <1>2, <1>3 DEF AdmitPrekey
  <1>4. CASE AcceptFirstPacket(q)
    <2>1. PICK packet \in InboundPackets :
            \/ /\ phase.kind = "Established" /\ phase.packet = packet
               /\ Reply(q, {}, {[type |-> "Accept", val |-> packet]})
            \/ \E next : Prepare(q, "accept_first_packet", {}, {}, next, {},
                           ConsumedBy(packet.prekey), pending, [type |-> "Accept", val |-> packet])
            \/ Refuse(q, {})
      BY <1>4 DEF AcceptFirstPacket
    <2>2. packet \in InboundFirst
      BY DEF IInv, TypeOK, InboundPackets, InboundFirst, Answer
    <2>3. [type |-> "Accept", val |-> packet] \in Answer
      BY <2>2 DEF Answer
    <2>4. phase.kind = "Established" /\ phase.packet = packet
            => Holds([type |-> "Accept", val |-> packet])
      BY DEF Holds
    <2>. QED
      BY <1>2, <2>1, <2>3, <2>4
  <1>5. CASE CreateFirstPacket(q)
    <2>1. PICK x \in Offered(q, XHandles), e \in EHandles :
            \/ /\ phase.kind = "InitiatorAwaiting"
               /\ Reply(q, {x}, {[type |-> "First", val |-> phase.packet]})
            \/ \E next : Prepare(q, "create_first_packet", {x}, {}, next, {x}, {e},
                           pending, [type |-> "First", val |-> [x |-> x, e |-> e]])
            \/ Refuse(q, {x})
      BY <1>5 DEF CreateFirstPacket
    <2>2. phase.kind = "InitiatorAwaiting" => phase.packet \in OutboundFirst
      BY DEF IInv, PhaseShape
    <2>3. phase.kind = "InitiatorAwaiting" =>
            /\ [type |-> "First", val |-> phase.packet] \in Answer
            /\ Holds([type |-> "First", val |-> phase.packet])
      BY <2>2 DEF Answer, Holds
    <2>. QED
      BY <1>2, <2>1, <2>3
  <1>6. CASE VerifySessionAccept(q)
    BY <1>2, <1>6 DEF VerifySessionAccept
  <1>7. CASE SendRecord(q)
    BY <1>2, <1>7 DEF SendRecord
  <1>8. CASE SendFirstRecord(q)
    BY <1>2, <1>8 DEF SendFirstRecord
  <1>9. CASE ReceiveRecord(q)
    BY <1>2, <1>9 DEF ReceiveRecord
  <1>10. CASE BootstrapCapabilities(q)
    BY <1>2, <1>10 DEF BootstrapCapabilities
  <1>11. CASE ApplyCapabilityFlow(q)
    BY <1>2, <1>11 DEF ApplyCapabilityFlow
  <1>12. CASE DeleteSession(q)
    BY <1>2, <1>12 DEF DeleteSession
  <1>13. CASE Dispatch(q)
    <2>1. CASE Refuse(q, {})
      BY <1>2, <2>1
    <2>2. ASSUME Live, NEW i \in pending,
                 pc' = [pc EXCEPT ![q] = "deliver"],
                 plan' = [plan EXCEPT ![q] = [rev |-> rev, item |-> i]],
                 UNCHANGED <<store, custody, held, delivered, answered, strayAborts>>
          PROVE  Fetches(q)
      <3>1. pc'[q] = "deliver" /\ plan'[q] = [rev |-> rev, item |-> i]
            /\ \A r \in Procs : r # q => pc'[r] = pc[r] /\ plan'[r] = plan[r]
        BY <2>2 DEF IInv, TypeOK
      <3>. QED
        BY <2>2, <3>1 DEF Fetches, DeliveryRests, Delivering, Live
    <2>. QED
      BY <1>13, <2>1, <2>2 DEF Dispatch
  <1>. QED
    BY <1>3, <1>4, <1>5, <1>6, <1>7, <1>8, <1>9, <1>10, <1>11, <1>12, <1>13 DEF Call

\* A commit that is visible makes its answer true.
LEMMA AnswerHolds ==
  ASSUME NEW pl \in Plan, Planned(pl), phase = pl.next, pl.answer # None
  PROVE  Holds(pl.answer)
  <1>1. pl.phase \in Phase
    BY DEF Plan
  <1>2. CASE Publishes(pl)
    BY <1>1, <1>2 DEF Publishes, Commits, Holds, Phase
  <1>3. CASE Accepts(pl)
    BY <1>1, <1>3 DEF Accepts, Commits, Holds, Phase
  <1>4. CASE Creates(pl)
    BY <1>1, <1>4 DEF Creates, Commits, Holds, Phase
  <1>5. CASE Completes(pl) \/ Deletes(pl) \/ Bootstraps(pl)
    BY <1>5 DEF Completes, Deletes, Bootstraps, Commits
  <1>6. CASE Sends(pl) \/ SendsFirst(pl) \/ Flows(pl)
    BY <1>6 DEF Sends, SendsFirst, Flows, Commits
  <1>7. CASE Receives(pl)
    BY <1>7 DEF Receives, OpensKept, OpensOnChain, OpensNextChain, Releases, Commits
  <1>. QED
    BY <1>2, <1>3, <1>4, <1>5, <1>6, <1>7 DEF Planned, Converses

\* A swap that is applied, whatever its caller hears of it.
LEMMA LandKinds ==
  ASSUME IInv, NEW q \in Procs, pc[q] = "planned", Applicable(plan[q]), Apply(plan[q]),
         NEW r \in Returned \cup {"recover"}, pc' = [pc EXCEPT ![q] = r],
         \A u \in Procs : u # q => plan'[u] = plan[u],
         answered' \in {answered, answered \cup ({plan[q].answer} \ {None})},
         UNCHANGED delivered
  PROVE  Lands(q)
  BY DEF Lands, DeliveryRests, Delivering, IInv, TypeOK, Returned

LEMMA ProceedKinds ==
  ASSUME IInv, PlansMade, NEW q \in Procs, Proceed(q)
  PROVE  Tells \/ Lands(q) \/ Hands(q) \/ Settles(q)
  <1>1. /\ custody \in [Handles -> Fates] /\ answered \subseteq Answer
        /\ pc \in [Procs -> {"closed"} \cup Returned \cup Busy]
        /\ plan \in [Procs -> Plan \cup Delivery \cup {None}]
    BY DEF IInv, TypeOK
  <1>2. ASSUME UNCHANGED <<store, custody, delivered, answered>>,
               NEW r \in Returned \cup {"recover"}, pc' = [pc EXCEPT ![q] = r],
               \A u \in Procs : u # q => plan'[u] = plan[u]
        PROVE  Tells
    <2>1. \A u \in Procs : DeliveryRests(u)
      BY <1>1, <1>2 DEF DeliveryRests, Delivering, Returned
    <2>. QED
      BY <1>1, <1>2, <2>1 DEF Tells, CustodyRests
  <1>3. CASE CasCommits(q)
    BY <1>1, <1>3, LandKinds DEF CasCommits, Returned
  <1>4. CASE CasUncertain(q)
    BY <1>1, <1>4, LandKinds DEF CasUncertain
  <1>5. CASE CasRejects(q)
    BY <1>1, <1>2, <1>5 DEF CasRejects
  <1>6. CASE CasMisreports(q)
    BY <1>1, <1>2, <1>6, LandKinds DEF CasMisreports, StayUncertain, Returned
  <1>7. CASE RecoverCommitted(q)
    <2>1. plan[q] \in Plan /\ Planned(plan[q]) /\ plan[q].answer \in Answer \cup {None}
      BY <1>7 DEF RecoverCommitted, IInv, TypeOK, PlansMade, Planning, Plan
    <2>2. \A a \in answered' \ answered : a \in Answer /\ Holds(a)
      BY <1>7, <2>1, AnswerHolds DEF RecoverCommitted, ObservesPlan
    <2>3. \A u \in Procs : DeliveryRests(u)
      BY <1>1, <1>7 DEF RecoverCommitted, DeliveryRests, Delivering
    <2>. QED
      BY <1>1, <1>7, <2>2, <2>3 DEF RecoverCommitted, Tells, CustodyRests
  <1>8. CASE RecoverRejected(q)
    <2>1. CustodyRests
      BY <1>1, <1>8, CustodyQuiet, CustodyDeleted DEF RecoverRejected, CustodyRests
    <2>2. \A u \in Procs : DeliveryRests(u)
      BY <1>1, <1>8 DEF RecoverRejected, DeliveryRests, Delivering
    <2>. QED
      BY <1>1, <1>8, <2>1, <2>2 DEF RecoverRejected, Tells
  <1>9. CASE RecoverUncertain(q) \/ RecoverLoadFails(q)
    BY <1>1, <1>2, <1>9 DEF RecoverUncertain, RecoverLoadFails, StayUncertain, Returned
  <1>10. CASE DeliverSucceeds(q)
    BY <1>1, <1>10 DEF DeliverSucceeds, Hands, DeliveryRests, Delivering
  <1>11. CASE DeliverFails(q)
    <2>1. \A u \in Procs : DeliveryRests(u)
      BY <1>1, <1>11 DEF DeliverFails, DeliveryRests, Delivering
    <2>2. ~Delivering(q)'
      BY <1>1, <1>11 DEF DeliverFails, Delivering
    <2>3. CASE delivered' = delivered
      BY <1>1, <1>11, <2>1, <2>3 DEF DeliverFails, Tells, CustodyRests
    <2>4. CASE delivered' = delivered \cup {plan[q].item}
      BY <1>1, <1>11, <2>1, <2>2, <2>4 DEF DeliverFails, Hands
    <2>. QED
      BY <1>11, <2>3, <2>4 DEF DeliverFails
  <1>12. CASE SettleApplies(q)
    <2>1. \A u \in Procs : DeliveryRests(u)
      BY <1>1, <1>12 DEF SettleApplies, DeliveryRests, Delivering
    <2>. QED
      BY <1>12, <2>1 DEF SettleApplies, Settles
  <1>13. CASE SettleFails(q)
    BY <1>1, <1>2, <1>13 DEF SettleFails, Returned
  <1>. QED
    BY <1>3, <1>4, <1>5, <1>6, <1>7, <1>8, <1>9, <1>10, <1>11, <1>12, <1>13 DEF Proceed

\* What any step of Endpoint is to those who wait for it.
LEMMA StepKinds ==
  ASSUME IInv, PlansMade, [Next]_vars
  PROVE  \/ Tells
         \/ \E p \in Procs : Fetches(p) \/ Lands(p) \/ Hands(p) \/ Settles(p)
  <1>1. CASE UNCHANGED vars
    BY <1>1 DEF vars, store, Tells, CustodyRests, DeliveryRests, Delivering, IInv, TypeOK
  <1>2. ASSUME NEW q \in Procs, Open(q) \/ Crash(q)
        PROVE  Tells
    <2>1. pc \in [Procs -> {"closed"} \cup Returned \cup Busy] /\ answered \subseteq Answer
          /\ plan \in [Procs -> Plan \cup Delivery \cup {None}]
      BY DEF IInv, TypeOK
    <2>2. /\ pc' = [pc EXCEPT ![q] = "open"] \/ pc' = [pc EXCEPT ![q] = "closed"]
          /\ \A u \in Procs : u # q => plan'[u] = plan[u]
          /\ UNCHANGED <<store, custody, delivered, answered>>
      BY <1>2, <2>1 DEF Open, Crash
    <2>3. \A u \in Procs : DeliveryRests(u)
      BY <2>1, <2>2 DEF DeliveryRests, Delivering
    <2>. QED
      BY <2>1, <2>2, <2>3 DEF Tells, CustodyRests
  <1>3. ASSUME NEW q \in Procs, Call(q)
        PROVE  Tells \/ Fetches(q)
    BY <1>3, CallKinds
  <1>4. ASSUME NEW q \in Procs, Proceed(q)
        PROVE  Tells \/ Lands(q) \/ Hands(q) \/ Settles(q)
    BY <1>4, ProceedKinds
  <1>. QED
    BY <1>1, <1>2, <1>3, <1>4 DEF Next

-----------------------------------------------------------------------------
(* Every plan is the commit of one operation                               *)

\* What a process that prepared a commit holds, and no other way is there to
\* come to hold one.
LEMMA Prepared ==
  ASSUME IInv, NEW p \in Procs, NEW op, NEW adopt, NEW spare, NEW next, NEW delete,
         NEW work, NEW answer,
         Prepare(p, op, adopt, spare, next, adopt, delete, work, answer)
  PROVE  /\ Commits(plan'[p], next, work, adopt, delete, answer)
         /\ plan'[p].phase = phase /\ plan'[p].pending = pending
  BY DEF Prepare, Commits, IInv, TypeOK

LEMMA RefusalPlansNothing ==
  ASSUME IInv, NEW p \in Procs, NEW given, Refuse(p, given)
  PROVE  ~Planning(p)'
  BY DEF Refuse, Planning, IInv, TypeOK

LEMMA ReplyPlansNothing ==
  ASSUME IInv, NEW p \in Procs, NEW given, NEW answer, Reply(p, given, answer)
  PROVE  ~Planning(p)'
  BY DEF Reply, Planning, IInv, TypeOK

LEMMA AdmitPrekeyPlans ==
  ASSUME IInv, NEW p \in Procs, AdmitPrekey(p), Planning(p)'
  PROVE  Planned(plan'[p])
  <1>1. PICK seq \in 1..MaxSeq, x \in Offered(p, XHandles), k \in Offered(p, KHandles) :
          LET bundle == [seq |-> seq, x |-> x, k |-> k] IN
          \/ /\ phase.kind = "ResponderReady"
             /\ MayAdmit(seq)
             /\ Prepare(p, "admit_prekey", {x, k}, {},
                        [phase EXCEPT !.high = seq, !.active = @ \cup {bundle}],
                        {x, k}, {}, pending, [type |-> "Bundle", val |-> bundle])
          \/ Refuse(p, {x, k})
    BY DEF AdmitPrekey
  <1>. DEFINE bundle == [seq |-> seq, x |-> x, k |-> k]
  <1>2. bundle \in Prekey /\ bundle.seq = seq /\ bundle.x = x /\ bundle.k = k
    BY DEF Offered, Prekey
  <1>. HIDE DEF bundle
  <1>3. /\ phase.kind = "ResponderReady" /\ bundle.seq > phase.high
        /\ Prepare(p, "admit_prekey", {bundle.x, bundle.k}, {},
                   [phase EXCEPT !.high = bundle.seq, !.active = @ \cup {bundle}],
                   {bundle.x, bundle.k}, {}, pending, [type |-> "Bundle", val |-> bundle])
    BY <1>1, <1>2, RefusalPlansNothing DEF MayAdmit, bundle
  <1>4. /\ Commits(plan'[p], [phase EXCEPT !.high = bundle.seq, !.active = @ \cup {bundle}],
                   pending, {bundle.x, bundle.k}, {}, [type |-> "Bundle", val |-> bundle])
        /\ plan'[p].phase = phase /\ plan'[p].pending = pending
    BY <1>3, Prepared
  <1>5. Publishes(plan'[p])
    BY <1>2, <1>3, <1>4 DEF Publishes
  <1>. QED
    BY <1>5 DEF Planned

LEMMA AcceptFirstPacketPlans ==
  ASSUME IInv, NEW p \in Procs, AcceptFirstPacket(p), Planning(p)'
  PROVE  Planned(plan'[p])
  <1>1. PICK packet \in InboundPackets :
          /\ phase.kind = "ResponderReady" /\ packet.prekey \in phase.active
          /\ Prepare(p, "accept_first_packet", {}, {},
                     [phase EXCEPT !.kind = "Established", !.active = {},
                                   !.packet = packet,
                                   !.session = NewSession(packet.prekey.x, FALSE)],
                     {}, ConsumedBy(packet.prekey), pending,
                     [type |-> "Accept", val |-> packet])
    BY RefusalPlansNothing, ReplyPlansNothing DEF AcceptFirstPacket
  <1>2. packet \in InboundFirst
    BY DEF IInv, TypeOK, InboundPackets, InboundFirst, Answer
  <1>3. ConsumedBy(packet.prekey) \subseteq Owned(phase)
    BY DEF ConsumedBy, Owned
  <1>4. /\ Commits(plan'[p], [phase EXCEPT !.kind = "Established", !.active = {},
                                          !.packet = packet,
                                          !.session = NewSession(packet.prekey.x, FALSE)],
                   pending, {}, ConsumedBy(packet.prekey),
                   [type |-> "Accept", val |-> packet])
        /\ plan'[p].phase = phase /\ plan'[p].pending = pending
    BY <1>1, Prepared
  <1>5. plan'[p].delete = ConsumedBy(packet.prekey)
    BY <1>4 DEF Commits
  <1>6. Accepts(plan'[p])
    BY <1>1, <1>2, <1>3, <1>4, <1>5 DEF Accepts
  <1>. QED
    BY <1>6 DEF Planned

LEMMA CreateFirstPacketPlans ==
  ASSUME IInv, NEW p \in Procs, CreateFirstPacket(p), Planning(p)'
  PROVE  Planned(plan'[p])
  <1>1. PICK x \in Offered(p, XHandles), e \in EHandles :
          /\ phase.kind = "InitiatorNew"
          /\ Prepare(p, "create_first_packet", {x}, {},
                     [phase EXCEPT !.kind = "InitiatorAwaiting",
                                   !.packet = [x |-> x, e |-> e],
                                   !.session = NewSession(x, TRUE)],
                     {x}, {e}, pending, [type |-> "First", val |-> [x |-> x, e |-> e]])
    BY RefusalPlansNothing, ReplyPlansNothing DEF CreateFirstPacket
  <1>. DEFINE packet == [x |-> x, e |-> e]
  <1>2. packet \in OutboundFirst /\ packet.x = x /\ packet.e = e
    BY DEF Offered, OutboundFirst
  <1>. HIDE DEF packet
  <1>3. /\ phase.kind = "InitiatorNew"
        /\ Prepare(p, "create_first_packet", {packet.x}, {},
                   [phase EXCEPT !.kind = "InitiatorAwaiting", !.packet = packet,
                                 !.session = NewSession(packet.x, TRUE)],
                   {packet.x}, {packet.e}, pending, [type |-> "First", val |-> packet])
    BY <1>1, <1>2 DEF packet
  <1>4. /\ Commits(plan'[p], [phase EXCEPT !.kind = "InitiatorAwaiting", !.packet = packet,
                                          !.session = NewSession(packet.x, TRUE)],
                   pending, {packet.x}, {packet.e}, [type |-> "First", val |-> packet])
        /\ plan'[p].phase = phase /\ plan'[p].pending = pending
    BY <1>3, Prepared
  <1>5. Creates(plan'[p])
    BY <1>2, <1>3, <1>4 DEF Creates
  <1>. QED
    BY <1>5 DEF Planned

LEMMA VerifySessionAcceptPlans ==
  ASSUME IInv, NEW p \in Procs, VerifySessionAccept(p), Planning(p)'
  PROVE  Planned(plan'[p])
  <1>1. /\ phase.kind = "InitiatorAwaiting"
        /\ Prepare(p, "verify_session_accept", {}, {},
                   [phase EXCEPT !.kind = "Established", !.packet = None],
                   {}, {}, pending, None)
    BY RefusalPlansNothing DEF VerifySessionAccept
  <1>. QED
    BY <1>1, Prepared DEF Completes, Planned

LEMMA SendRecordPlans ==
  ASSUME IInv, NEW p \in Procs, SendRecord(p), Planning(p)'
  PROVE  Planned(plan'[p])
  <1>1. PICK body \in Bodies :
          /\ phase.kind = "Established" /\ ~HasPacket /\ phase.session.sending
          /\ Prepare(p, "send_record", {}, {}, [phase EXCEPT !.session = AfterSend(@)],
                     {}, {}, Carrying({Sealed(phase.session, body)}), None)
    BY RefusalPlansNothing DEF SendRecord
  <1>2. Sends(plan'[p]) /\ plan'[p].phase = phase
    BY <1>1, Prepared DEF Sends, HasPacket, Lacks, Carrying
  <1>. QED
    BY <1>1, <1>2 DEF Planned, Converses

LEMMA SendFirstRecordPlans ==
  ASSUME IInv, NEW p \in Procs, SendFirstRecord(p), Planning(p)'
  PROVE  Planned(plan'[p])
  <1>1. PICK body \in Bodies, x \in Offered(p, XHandles) :
          LET s == Bootstrapped(phase.session, x) IN
          /\ phase.kind = "Established" /\ ~HasPacket /\ ~phase.session.sending
          /\ Prepare(p, "send_record", {x}, {}, [phase EXCEPT !.session = AfterSend(s)],
                     {x}, {phase.session.x}, Carrying({Sealed(s, body)}), None)
    BY RefusalPlansNothing DEF SendFirstRecord
  <1>2. x \in XHandles
    BY DEF Offered
  <1>3. SendsFirst(plan'[p]) /\ plan'[p].phase = phase
    BY <1>1, <1>2, Prepared DEF SendsFirst, HasPacket, Lacks, Carrying
  <1>. QED
    BY <1>1, <1>3 DEF Planned, Converses

LEMMA ReceiveRecordPlans ==
  ASSUME IInv, NEW p \in Procs, ReceiveRecord(p), Planning(p)'
  PROVE  Planned(plan'[p])
  <1>. DEFINE Next1(t) == [phase EXCEPT !.session = t]
              Item1(record) == [kind |-> "Plaintext", record |-> record]
              Work(record) == Carrying({Item1(record)})
              s == phase.session
              Then(record, x) == AfterReceive(AfterTransition(s, record, x), record)
  <1>1. PICK record \in Records, fresh \in {{}} \cup {{x} : x \in Offered(p, XHandles)} :
          /\ phase.kind = "Established" /\ ~HasPlaintext
          /\ \/ /\ Coordinate(record) \in s.skipped
                /\ Prepare(p, "receive_record", {}, fresh, Next1(AfterSkipped(s, record)),
                           {}, {}, Work(record), None)
             \/ /\ Coordinate(record) \notin s.skipped
                /\ record.dh = s.peer /\ OnChain(s, record)
                /\ Prepare(p, "receive_record", {}, fresh, Next1(AfterReceive(s, record)),
                           {}, {}, Work(record), None)
             \/ /\ record.dh > s.peer /\ MayTransition(s, record)
                /\ \E x \in fresh :
                     Prepare(p, "receive_record", fresh, {}, Next1(Then(record, x)),
                             {x}, {s.x}, Work(record), None)
    BY RefusalPlansNothing DEF ReceiveRecord
  <1>2. Lacks(pending, "Plaintext") /\ Work(record) = pending \cup {Item1(record)}
    BY <1>1 DEF Lacks, HasPlaintext, Carrying
  <1>. HIDE DEF Work
  <1>3. CASE /\ Coordinate(record) \in s.skipped
             /\ Prepare(p, "receive_record", {}, fresh, Next1(AfterSkipped(s, record)),
                        {}, {}, Work(record), None)
    <2>1. /\ Commits(plan'[p], Next1(AfterSkipped(s, record)), Work(record), {}, {}, None)
          /\ plan'[p].phase = phase /\ plan'[p].pending = pending
      BY <1>3, Prepared
    <2>2. OpensKept(plan'[p], record)
      BY <1>2, <1>3, <2>1 DEF OpensKept, Releases
    <2>. QED
      BY <1>1, <1>2, <2>1, <2>2 DEF Receives, Planned, Converses
  <1>4. CASE /\ Coordinate(record) \notin s.skipped
             /\ record.dh = s.peer /\ OnChain(s, record)
             /\ Prepare(p, "receive_record", {}, fresh, Next1(AfterReceive(s, record)),
                        {}, {}, Work(record), None)
    <2>1. /\ Commits(plan'[p], Next1(AfterReceive(s, record)), Work(record), {}, {}, None)
          /\ plan'[p].phase = phase /\ plan'[p].pending = pending
      BY <1>4, Prepared
    <2>2. record.n >= s.nr
      BY <1>4 DEF OnChain
    <2>3. OpensOnChain(plan'[p], record)
      BY <1>2, <1>4, <2>1, <2>2 DEF OpensOnChain, Releases
    <2>. QED
      BY <1>1, <1>2, <2>1, <2>3 DEF Receives, Planned, Converses
  <1>5. ASSUME record.dh > s.peer, MayTransition(s, record), NEW x \in fresh,
               Prepare(p, "receive_record", fresh, {}, Next1(Then(record, x)),
                       {x}, {s.x}, Work(record), None)
        PROVE  Planned(plan'[p])
    <2>1. fresh = {x} /\ x \in XHandles
      BY DEF Offered
    <2>2. Prepare(p, "receive_record", {x}, {}, Next1(Then(record, x)),
                  {x}, {s.x}, Work(record), None)
      BY <1>5, <2>1
    <2>3. /\ Commits(plan'[p], Next1(Then(record, x)), Work(record), {x}, {s.x}, None)
          /\ plan'[p].phase = phase /\ plan'[p].pending = pending
      BY <2>2, Prepared
    <2>4. record.pn >= s.nr
      BY <1>5 DEF MayTransition
    <2>5. OpensNextChain(plan'[p], record)
      BY <1>2, <1>5, <2>1, <2>3, <2>4 DEF OpensNextChain, Releases
    <2>. QED
      BY <1>1, <1>2, <2>3, <2>5 DEF Receives, Planned, Converses
  <1>. QED
    BY <1>1, <1>3, <1>4, <1>5

LEMMA BootstrapCapabilitiesPlans ==
  ASSUME IInv, NEW p \in Procs, BootstrapCapabilities(p), Planning(p)'
  PROVE  Planned(plan'[p])
  <1>1. /\ phase.kind = "Established" /\ phase.caps = 0
        /\ Prepare(p, "bootstrap_capabilities", {}, {}, [phase EXCEPT !.caps = 1],
                   {}, {}, pending, None)
    BY RefusalPlansNothing DEF BootstrapCapabilities
  <1>2. Bootstraps(plan'[p]) /\ plan'[p].phase = phase
    BY <1>1, Prepared DEF Bootstraps
  <1>. QED
    BY <1>1, <1>2 DEF Planned, Converses

LEMMA ApplyCapabilityFlowPlans ==
  ASSUME IInv, NEW p \in Procs, ApplyCapabilityFlow(p), Planning(p)'
  PROVE  Planned(plan'[p])
  <1>1. PICK body \in Bodies :
          /\ phase.kind = "Established" /\ phase.caps > 0 /\ ~HasPacket
          /\ phase.session.sending
          /\ Prepare(p, "apply_complete_capability_flow", {}, {},
                     [phase EXCEPT !.session = AfterSend(@), !.caps = @ + 1, !.last = body],
                     {}, {}, Carrying(FlowItems(body)), None)
    BY RefusalPlansNothing DEF ApplyCapabilityFlow
  <1>2. Flows(plan'[p]) /\ plan'[p].phase = phase
    BY <1>1, Prepared DEF Flows, HasPacket, Lacks, Carrying, FlowItems
  <1>. QED
    BY <1>1, <1>2 DEF Planned, Converses

LEMMA DeleteSessionPlans ==
  ASSUME IInv, NEW p \in Procs, DeleteSession(p), Planning(p)'
  PROVE  Planned(plan'[p])
  <1>1. /\ Live
        /\ Prepare(p, "delete_session", {}, {}, Tombstone, {}, Owned(phase), {}, None)
    BY RefusalPlansNothing DEF DeleteSession
  <1>2. Deletes(plan'[p])
    BY <1>1, Prepared DEF Deletes, Tombstone, Live, Deleted
  <1>. QED
    BY <1>2 DEF Planned

LEMMA CallPlans ==
  ASSUME IInv, NEW p \in Procs, Call(p), Planning(p)'
  PROVE  Planned(plan'[p])
  <1>1. CASE Dispatch(p)
    BY <1>1, RefusalPlansNothing DEF Dispatch, Planning, IInv, TypeOK
  <1>. QED
    BY <1>1, AdmitPrekeyPlans, AcceptFirstPacketPlans, CreateFirstPacketPlans,
       VerifySessionAcceptPlans, SendRecordPlans, SendFirstRecordPlans, ReceiveRecordPlans,
       BootstrapCapabilitiesPlans, ApplyCapabilityFlowPlans, DeleteSessionPlans
    DEF Call

\* That its swap was applied changes nothing a plan says.
LEMMA LandedPlanned ==
  ASSUME NEW pl \in Plan, Planned(pl)
  PROVE  Planned([pl EXCEPT !.landed = TRUE])
  <1>. DEFINE mine == [pl EXCEPT !.landed = TRUE]
  <1>1. /\ mine.phase = pl.phase /\ mine.pending = pl.pending
        /\ mine.next = pl.next /\ mine.work = pl.work
        /\ mine.adopt = pl.adopt /\ mine.delete = pl.delete
        /\ mine.given = pl.given /\ mine.answer = pl.answer
    BY DEF Plan
  <1>. HIDE DEF mine
  <1>2. ASSUME NEW next, NEW work, NEW adopt, NEW delete, NEW answer,
               Commits(pl, next, work, adopt, delete, answer)
        PROVE  Commits(mine, next, work, adopt, delete, answer)
    BY <1>1, <1>2 DEF Commits
  <1>3. CASE Publishes(pl)
    <2>1. Publishes(mine)
      BY <1>1, <1>2, <1>3 DEF Publishes
    <2>. QED
      BY <2>1 DEF Planned, mine
  <1>4. CASE Accepts(pl)
    <2>1. Accepts(mine)
      BY <1>1, <1>2, <1>4 DEF Accepts
    <2>. QED
      BY <2>1 DEF Planned, mine
  <1>5. CASE Creates(pl)
    <2>1. Creates(mine)
      BY <1>1, <1>2, <1>5 DEF Creates
    <2>. QED
      BY <2>1 DEF Planned, mine
  <1>6. CASE Completes(pl)
    <2>1. Completes(mine)
      BY <1>1, <1>2, <1>6 DEF Completes
    <2>. QED
      BY <2>1 DEF Planned, mine
  <1>7. CASE Converses(pl)
    <2>1. Sends(pl) => Sends(mine)
      BY <1>1, <1>2 DEF Sends
    <2>2. SendsFirst(pl) => SendsFirst(mine)
      BY <1>1, <1>2 DEF SendsFirst
    <2>3. Flows(pl) => Flows(mine)
      BY <1>1, <1>2 DEF Flows
    <2>4. ASSUME NEW record \in Records
          PROVE  /\ OpensKept(pl, record) => OpensKept(mine, record)
                 /\ OpensOnChain(pl, record) => OpensOnChain(mine, record)
                 /\ OpensNextChain(pl, record) => OpensNextChain(mine, record)
      <3>1. OpensKept(pl, record) => OpensKept(mine, record)
        BY <1>1, <1>2 DEF OpensKept, Releases
      <3>2. OpensOnChain(pl, record) => OpensOnChain(mine, record)
        BY <1>1, <1>2 DEF OpensOnChain, Releases
      <3>3. OpensNextChain(pl, record) => OpensNextChain(mine, record)
        BY <1>1, <1>2 DEF OpensNextChain, Releases
      <3>. QED
        BY <3>1, <3>2, <3>3
    <2>5. Receives(pl) => Receives(mine)
      BY <1>1, <2>4 DEF Receives
    <2>6. Bootstraps(pl) => Bootstraps(mine)
      BY <1>1, <1>2 DEF Bootstraps
    <2>7. Converses(mine)
      BY <1>1, <1>7, <2>1, <2>2, <2>3, <2>5, <2>6 DEF Converses
    <2>. QED
      BY <2>7 DEF Planned, mine
  <1>8. CASE Deletes(pl)
    <2>1. Deletes(mine)
      BY <1>1, <1>2, <1>8 DEF Deletes
    <2>. QED
      BY <2>1 DEF Planned, mine
  <1>. QED
    BY <1>3, <1>4, <1>5, <1>6, <1>7, <1>8 DEF Planned

\* A call leaves the plans of all other processes alone.
LEMMA CallKeepsOthers ==
  ASSUME IInv, NEW q \in Procs, Call(q), NEW p \in Procs, p # q
  PROVE  plan'[p] = plan[p]
  <1>1. plan \in [Procs -> Plan \cup Delivery \cup {None}]
    BY DEF IInv, TypeOK
  <1>2. /\ \A given : Refuse(q, given) => plan'[p] = plan[p]
        /\ \A given, answer : Reply(q, given, answer) => plan'[p] = plan[p]
        /\ \A op, given, spare, next, adopt, delete, work, answer :
             Prepare(q, op, given, spare, next, adopt, delete, work, answer)
               => plan'[p] = plan[p]
    BY <1>1 DEF Refuse, Reply, Prepare
  <1>3. CASE AdmitPrekey(q)
    BY <1>2, <1>3 DEF AdmitPrekey
  <1>4. CASE AcceptFirstPacket(q)
    BY <1>2, <1>4 DEF AcceptFirstPacket
  <1>5. CASE CreateFirstPacket(q)
    BY <1>2, <1>5 DEF CreateFirstPacket
  <1>6. CASE VerifySessionAccept(q) \/ SendRecord(q)
    BY <1>2, <1>6 DEF VerifySessionAccept, SendRecord
  <1>7. CASE SendFirstRecord(q)
    BY <1>2, <1>7 DEF SendFirstRecord
  <1>8. CASE ReceiveRecord(q)
    BY <1>2, <1>8 DEF ReceiveRecord
  <1>9. CASE BootstrapCapabilities(q) \/ ApplyCapabilityFlow(q) \/ DeleteSession(q)
    BY <1>2, <1>9 DEF BootstrapCapabilities, ApplyCapabilityFlow, DeleteSession
  <1>10. CASE Dispatch(q)
    BY <1>1, <1>2, <1>10 DEF Dispatch
  <1>. QED
    BY <1>3, <1>4, <1>5, <1>6, <1>7, <1>8, <1>9, <1>10 DEF Call

\* A call under way keeps its plan to the end, but for marking it as landed.
LEMMA ProceedPlans ==
  ASSUME IInv, NEW q \in Procs, Proceed(q), NEW p \in Procs, Planning(p)'
  PROVE  /\ Planning(p)
         /\ plan'[p] = plan[p] \/ plan'[p] = [plan[p] EXCEPT !.landed = TRUE]
  <1>1. /\ pc \in [Procs -> {"closed"} \cup Returned \cup Busy]
        /\ plan \in [Procs -> Plan \cup Delivery \cup {None}]
    BY DEF IInv, TypeOK
  <1>2. ASSUME NEW r \in Returned, pc' = [pc EXCEPT ![q] = r],
               plan' = [plan EXCEPT ![q] = None]
        PROVE  Planning(p) /\ plan'[p] = plan[p]
    BY <1>1, <1>2 DEF Planning, Returned
  <1>3. CASE CasCommits(q)
    BY <1>2, <1>3 DEF CasCommits, Returned
  <1>4. CASE CasUncertain(q)
    BY <1>1, <1>4 DEF CasUncertain, Planning
  <1>5. CASE CasRejects(q)
    BY <1>1, <1>5 DEF CasRejects, Planning
  <1>6. CASE CasMisreports(q) \/ RecoverUncertain(q) \/ RecoverLoadFails(q)
    BY <1>2, <1>6 DEF CasMisreports, RecoverUncertain, RecoverLoadFails, StayUncertain, Returned
  <1>7. CASE RecoverCommitted(q) \/ RecoverRejected(q)
    BY <1>2, <1>7 DEF RecoverCommitted, RecoverRejected, Returned
  <1>8. CASE DeliverSucceeds(q)
    BY <1>1, <1>8 DEF DeliverSucceeds, Planning
  <1>9. CASE DeliverFails(q) \/ SettleApplies(q) \/ SettleFails(q)
    BY <1>2, <1>9 DEF DeliverFails, SettleApplies, SettleFails, Returned
  <1>. QED
    BY <1>3, <1>4, <1>5, <1>6, <1>7, <1>8, <1>9 DEF Proceed

LEMMA PlansMadeStep ==
  ASSUME IInv, PlansMade, [Next]_vars
  PROVE  PlansMade'
  <1>1. SUFFICES ASSUME NEW p \in Procs, Planning(p)'
                 PROVE  Planned(plan'[p])
    BY DEF PlansMade, Planned, Publishes, Accepts, Creates, Completes, Converses, Deletes,
       Sends, SendsFirst, Flows, Receives, Bootstraps, OpensKept, OpensOnChain,
       OpensNextChain, Releases, Commits
  <1>2. ASSUME Planning(p), plan'[p] = plan[p]
        PROVE  Planned(plan'[p])
    BY <1>2 DEF PlansMade
  <1>3. CASE UNCHANGED vars
    BY <1>1, <1>2, <1>3 DEF vars, Planning
  <1>4. ASSUME NEW q \in Procs, Open(q) \/ Crash(q)
        PROVE  Planned(plan'[p])
    BY <1>1, <1>2, <1>4 DEF Open, Crash, Planning, IInv, TypeOK
  <1>5. ASSUME NEW q \in Procs, Call(q)
        PROVE  Planned(plan'[p])
    <2>1. CASE q = p
      BY <1>1, <1>5, <2>1, CallPlans
    <2>2. CASE q # p
      <3>1. pc'[p] = pc[p]
        BY <1>5, <2>2, CallMovesCaller DEF CallMoves, IInv, TypeOK
      <3>2. plan'[p] = plan[p]
        BY <1>5, <2>2, CallKeepsOthers
      <3>. QED
        BY <1>1, <1>2, <3>1, <3>2 DEF Planning
    <2>. QED
      BY <2>1, <2>2
  <1>6. ASSUME NEW q \in Procs, Proceed(q)
        PROVE  Planned(plan'[p])
    <2>1. Planning(p) /\ (plan'[p] = plan[p] \/ plan'[p] = [plan[p] EXCEPT !.landed = TRUE])
      BY <1>1, <1>6, ProceedPlans
    <2>2. plan[p] \in Plan /\ Planned(plan[p])
      BY <2>1 DEF PlansMade, Planning, IInv, TypeOK
    <2>. QED
      BY <2>1, <2>2, LandedPlanned
  <1>. QED
    BY <1>3, <1>4, <1>5, <1>6 DEF Next

-----------------------------------------------------------------------------
(* What a landed commit does to the durable state                          *)

Moves(kind, high, active, packet, session, caps) ==
  /\ phase'.kind = kind /\ phase'.high = high /\ phase'.active = active
  /\ phase'.packet = packet /\ phase'.session = session /\ phase'.caps = caps

Swaps(adopt, delete) ==
  /\ \A h \in adopt : custody[h] = "staged"
  /\ \A h \in delete : custody[h] = "adopted"
  /\ \A h \in Handles : custody'[h] = IF h \in delete THEN "deleted"
                                      ELSE IF h \in adopt THEN "adopted" ELSE custody[h]

MayTell(answer) == answered' \in {answered, answered \cup {answer}}

LandsPublish(bundle) ==
  /\ phase.kind = "ResponderReady" /\ bundle.seq > phase.high
  /\ Moves(phase.kind, bundle.seq, phase.active \cup {bundle},
           phase.packet, phase.session, phase.caps)
  /\ pending' = pending /\ Swaps({bundle.x, bundle.k}, {})
  /\ MayTell([type |-> "Bundle", val |-> bundle])

LandsAccept(packet) ==
  /\ phase.kind = "ResponderReady" /\ packet.prekey \in phase.active
  /\ Moves("Established", phase.high, {}, packet,
           NewSession(packet.prekey.x, FALSE), phase.caps)
  /\ pending' = pending /\ \E delete \in SUBSET Owned(phase) : Swaps({}, delete)
  /\ MayTell([type |-> "Accept", val |-> packet])

LandsCreate(packet) ==
  /\ phase.kind = "InitiatorNew"
  /\ Moves("InitiatorAwaiting", phase.high, phase.active, packet,
           NewSession(packet.x, TRUE), phase.caps)
  /\ pending' = pending /\ Swaps({packet.x}, {packet.e})
  /\ MayTell([type |-> "First", val |-> packet])

LandsComplete ==
  /\ phase.kind = "InitiatorAwaiting"
  /\ Moves("Established", phase.high, phase.active, None, phase.session, phase.caps)
  /\ pending' = pending /\ Swaps({}, {}) /\ answered' = answered

\* The established session moves on to `session`; nothing else of it changes.
Continues(session, caps) ==
  /\ phase.kind = "Established"
  /\ Moves(phase.kind, phase.high, phase.active, phase.packet, session, caps)
  /\ answered' = answered

\* The effects of sealing a record: none, or the one of the flow it belongs to.
Effects == {[kind |-> "Effect", flow |-> phase.caps]}

LandsSeal(body, x) ==
  /\ Lacks(pending, "Packet")
  /\ \/ x = phase.session.x /\ phase.session.sending /\ Swaps({}, {})
     \/ ~phase.session.sending /\ Swaps({x}, {phase.session.x})
  /\ LET packet  == [kind |-> "Packet", x |-> x, n |-> phase.session.ns, body |-> body]
         session == [phase.session EXCEPT !.x = x, !.sending = TRUE, !.ns = @ + 1]
     IN \/ Continues(session, phase.caps) /\ pending' = pending \cup {packet}
        \/ /\ Continues(session, phase.caps + 1) /\ phase.caps > 0
           /\ pending' = pending \cup ({packet} \cup Effects)

LandsOpen(record) ==
  /\ Lacks(pending, "Plaintext")
  /\ pending' = pending \cup {[kind |-> "Plaintext", record |-> record]}
  /\ LET s == phase.session IN
     \/ /\ Coordinate(record) \in s.skipped
        /\ Continues(AfterSkipped(s, record), phase.caps) /\ Swaps({}, {})
     \/ /\ Coordinate(record) \notin s.skipped /\ record.dh = s.peer /\ record.n >= s.nr
        /\ Continues(AfterReceive(s, record), phase.caps) /\ Swaps({}, {})
     \/ /\ record.dh > s.peer /\ record.pn >= s.nr
        /\ \E x \in XHandles :
             /\ Continues(AfterReceive(AfterTransition(s, record, x), record), phase.caps)
             /\ Swaps({x}, {s.x})

LandsBootstrap ==
  /\ phase.caps = 0 /\ Continues(phase.session, 1)
  /\ pending' = pending /\ Swaps({}, {})

LandsDelete ==
  /\ phase.kind # "Deleted"
  /\ Moves("Deleted", phase.high, {}, None, None, 0)
  /\ pending' = {} /\ Swaps({}, Owned(phase)) /\ answered' = answered

LandsEarly ==
  \/ \E bundle \in Prekey : LandsPublish(bundle)
  \/ \E packet \in InboundFirst : LandsAccept(packet)
  \/ \E packet \in OutboundFirst : LandsCreate(packet)
  \/ LandsComplete

LandsLate ==
  \/ \E body \in Bodies, x \in XHandles : LandsSeal(body, x)
  \/ \E record \in Records : LandsOpen(record)
  \/ LandsBootstrap

\* The plan that lands was made from the state it replaces.
LEMMA LandingPlan ==
  ASSUME IInv, PlansMade, NEW p \in Procs, Lands(p)
  PROVE  /\ plan[p] \in Plan /\ Planned(plan[p])
         /\ plan[p].phase = phase /\ plan[p].pending = pending
         /\ phase' = plan[p].next /\ pending' = plan[p].work
         /\ Swaps(plan[p].adopt, plan[p].delete)
         /\ answered' \in {answered, answered \cup ({plan[p].answer} \ {None})}
         /\ phase \in Phase
  <1>1. Planning(p) /\ plan[p] \in Plan /\ phase \in Phase
    BY DEF Lands, Planning, IInv, TypeOK
  <1>2. Planned(plan[p]) /\ SnapshotCoherent(plan[p])
    BY <1>1 DEF PlansMade, IInv
  <1>3. plan[p].phase = phase /\ plan[p].pending = pending
    BY <1>2 DEF SnapshotCoherent, Lands, Applicable
  <1>4. Swaps(plan[p].adopt, plan[p].delete)
    BY DEF Lands, Applicable, Apply, Mutate, Swaps
  <1>. QED
    BY <1>1, <1>2, <1>3, <1>4 DEF Lands, Apply

LEMMA LandingEarly ==
  ASSUME IInv, PlansMade, NEW p \in Procs, Lands(p),
         ~Converses(plan[p]), ~Deletes(plan[p])
  PROVE  LandsEarly
  <1>. DEFINE pl == plan[p]
  <1>1. /\ pl \in Plan /\ Planned(pl) /\ pl.phase = phase /\ pl.pending = pending
        /\ phase' = pl.next /\ pending' = pl.work /\ Swaps(pl.adopt, pl.delete)
        /\ answered' \in {answered, answered \cup ({pl.answer} \ {None})}
        /\ phase \in Phase
    BY LandingPlan
  <1>2. ASSUME NEW next, NEW work, NEW adopt, NEW delete, NEW answer,
               Commits(pl, next, work, adopt, delete, answer)
        PROVE  /\ phase' = next /\ pending' = work /\ Swaps(adopt, delete)
               /\ answered' \in {answered, answered \cup ({answer} \ {None})}
    BY <1>1, <1>2 DEF Commits
  <1>. HIDE DEF pl
  <1>3. CASE Publishes(pl)
    <2>1. PICK bundle \in Prekey :
            /\ bundle.seq > pl.phase.high
            /\ Commits(pl, [pl.phase EXCEPT !.high = bundle.seq, !.active = @ \cup {bundle}],
                       pl.pending, {bundle.x, bundle.k}, {}, [type |-> "Bundle", val |-> bundle])
      BY <1>3 DEF Publishes
    <2>2. /\ phase' = [phase EXCEPT !.high = bundle.seq, !.active = @ \cup {bundle}]
          /\ pending' = pending /\ Swaps({bundle.x, bundle.k}, {})
          /\ MayTell([type |-> "Bundle", val |-> bundle])
      BY <1>1, <1>2, <2>1 DEF MayTell
    <2>3. Moves(phase.kind, bundle.seq, phase.active \cup {bundle},
                phase.packet, phase.session, phase.caps)
      BY <1>1, <2>2 DEF Moves, Phase
    <2>4. LandsPublish(bundle)
      BY <1>1, <1>3, <2>1, <2>2, <2>3 DEF Publishes, LandsPublish
    <2>. QED
      BY <2>4 DEF LandsEarly
  <1>4. CASE Accepts(pl)
    <2>1. PICK packet \in InboundFirst :
            /\ packet.prekey \in pl.phase.active
            /\ Commits(pl, [pl.phase EXCEPT !.kind = "Established", !.active = {},
                                            !.packet = packet,
                                            !.session = NewSession(packet.prekey.x, FALSE)],
                       pl.pending, {}, pl.delete, [type |-> "Accept", val |-> packet])
      BY <1>4 DEF Accepts
    <2>2. /\ phase' = [phase EXCEPT !.kind = "Established", !.active = {},
                                    !.packet = packet,
                                    !.session = NewSession(packet.prekey.x, FALSE)]
          /\ pending' = pending /\ Swaps({}, pl.delete)
          /\ MayTell([type |-> "Accept", val |-> packet])
      BY <1>1, <1>2, <2>1 DEF MayTell
    <2>3. Moves("Established", phase.high, {}, packet,
                NewSession(packet.prekey.x, FALSE), phase.caps)
      BY <1>1, <2>2 DEF Moves, Phase
    <2>4. LandsAccept(packet)
      BY <1>1, <1>4, <2>1, <2>2, <2>3 DEF Accepts, LandsAccept
    <2>. QED
      BY <2>4 DEF LandsEarly
  <1>5. CASE Creates(pl)
    <2>1. PICK packet \in OutboundFirst :
            Commits(pl, [pl.phase EXCEPT !.kind = "InitiatorAwaiting", !.packet = packet,
                                         !.session = NewSession(packet.x, TRUE)],
                    pl.pending, {packet.x}, {packet.e}, [type |-> "First", val |-> packet])
      BY <1>5 DEF Creates
    <2>2. /\ phase' = [phase EXCEPT !.kind = "InitiatorAwaiting", !.packet = packet,
                                    !.session = NewSession(packet.x, TRUE)]
          /\ pending' = pending /\ Swaps({packet.x}, {packet.e})
          /\ MayTell([type |-> "First", val |-> packet])
      BY <1>1, <1>2, <2>1 DEF MayTell
    <2>3. Moves("InitiatorAwaiting", phase.high, phase.active, packet,
                NewSession(packet.x, TRUE), phase.caps)
      BY <1>1, <2>2 DEF Moves, Phase
    <2>4. LandsCreate(packet)
      BY <1>1, <1>5, <2>2, <2>3 DEF Creates, LandsCreate
    <2>. QED
      BY <2>4 DEF LandsEarly
  <1>6. CASE Completes(pl)
    <2>1. /\ phase' = [phase EXCEPT !.kind = "Established", !.packet = None]
          /\ pending' = pending /\ Swaps({}, {}) /\ answered' = answered
      BY <1>1, <1>2, <1>6 DEF Completes
    <2>2. Moves("Established", phase.high, phase.active, None, phase.session, phase.caps)
      BY <1>1, <2>1 DEF Moves, Phase
    <2>3. LandsComplete
      BY <1>1, <1>6, <2>1, <2>2 DEF Completes, LandsComplete
    <2>. QED
      BY <2>3 DEF LandsEarly
  <1>. QED
    BY <1>1, <1>3, <1>4, <1>5, <1>6 DEF Planned, pl

LEMMA LandingDelete ==
  ASSUME IInv, PlansMade, NEW p \in Procs, Lands(p), Deletes(plan[p])
  PROVE  LandsDelete
  <1>1. /\ plan[p].phase = phase /\ phase' = plan[p].next /\ pending' = plan[p].work
        /\ Swaps(plan[p].adopt, plan[p].delete)
        /\ answered' \in {answered, answered \cup ({plan[p].answer} \ {None})}
    BY LandingPlan
  <1>2. /\ phase' = [EmptyPhase("Deleted") EXCEPT !.high = phase.high]
        /\ pending' = {} /\ Swaps({}, Owned(phase)) /\ answered' = answered
        /\ phase.kind # "Deleted"
    BY <1>1 DEF Deletes, Commits
  <1>. QED
    BY <1>2 DEF LandsDelete, Moves, EmptyPhase

LEMMA LandingLate ==
  ASSUME IInv, PlansMade, NEW p \in Procs, Lands(p), Converses(plan[p])
  PROVE  LandsLate
  <1>. DEFINE pl == plan[p]
              s  == phase.session
  <1>1. /\ pl \in Plan /\ pl.phase = phase /\ pl.pending = pending
        /\ phase' = pl.next /\ pending' = pl.work /\ Swaps(pl.adopt, pl.delete)
        /\ answered' \in {answered, answered \cup ({pl.answer} \ {None})}
        /\ phase \in Phase
    BY LandingPlan
  <1>2. ASSUME NEW next, NEW work, NEW adopt, NEW delete,
               Commits(pl, next, work, adopt, delete, None)
        PROVE  /\ phase' = next /\ pending' = work /\ Swaps(adopt, delete)
               /\ answered' = answered
    BY <1>1, <1>2 DEF Commits
  <1>3. phase.kind = "Established" /\ s \in Session /\ s.x \in XHandles
    BY <1>1, EstablishedShape DEF Converses
  <1>4. ASSUME NEW session, phase' = [phase EXCEPT !.session = session], answered' = answered
        PROVE  Continues(session, phase.caps)
    BY <1>1, <1>3, <1>4 DEF Continues, Moves, Phase
  <1>5. ASSUME NEW record, NEW next, NEW adopt, NEW delete,
               Releases(pl, record, next, adopt, delete)
        PROVE  /\ Continues(next, phase.caps) /\ Swaps(adopt, delete)
               /\ pending' = pending \cup {[kind |-> "Plaintext", record |-> record]}
    <2>1. /\ phase' = [phase EXCEPT !.session = next] /\ Swaps(adopt, delete)
          /\ pending' = pending \cup {[kind |-> "Plaintext", record |-> record]}
          /\ answered' = answered
      BY <1>1, <1>2, <1>5 DEF Releases
    <2>. QED
      BY <1>4, <2>1
  <1>. HIDE DEF pl
  <1>6. CASE Sends(pl)
    <2>1. PICK body \in Bodies :
            Commits(pl, [pl.phase EXCEPT !.session = AfterSend(@)],
                    pl.pending \cup {Sealed(pl.phase.session, body)}, {}, {}, None)
      BY <1>6 DEF Sends
    <2>2. /\ phase' = [phase EXCEPT !.session = AfterSend(@)]
          /\ pending' = pending \cup {Sealed(s, body)}
          /\ Swaps({}, {}) /\ answered' = answered
      BY <1>1, <1>2, <2>1
    <2>3. Continues(AfterSend(s), phase.caps)
      BY <1>4, <2>2
    <2>4. s.sending /\ Lacks(pending, "Packet")
      BY <1>1, <1>6 DEF Sends
    <2>5. AfterSend(s) = [s EXCEPT !.x = s.x, !.sending = TRUE, !.ns = @ + 1]
      BY <1>3, <2>4 DEF AfterSend, Session
    <2>6. Sealed(s, body) = [kind |-> "Packet", x |-> s.x, n |-> s.ns, body |-> body]
      BY DEF Sealed
    <2>7. LandsSeal(body, s.x)
      BY <2>2, <2>3, <2>4, <2>5, <2>6 DEF LandsSeal
    <2>. QED
      BY <1>3, <2>7 DEF LandsLate
  <1>7. CASE SendsFirst(pl)
    <2>1. PICK body \in Bodies, x \in XHandles :
            Commits(pl, [pl.phase EXCEPT !.session = AfterSend(Bootstrapped(pl.phase.session, x))],
                    pl.pending \cup {Sealed(Bootstrapped(pl.phase.session, x), body)},
                    {x}, {pl.phase.session.x}, None)
      BY <1>7 DEF SendsFirst
    <2>2. /\ phase' = [phase EXCEPT !.session = AfterSend(Bootstrapped(s, x))]
          /\ pending' = pending \cup {Sealed(Bootstrapped(s, x), body)}
          /\ Swaps({x}, {s.x}) /\ answered' = answered
      BY <1>1, <1>2, <2>1
    <2>3. Continues(AfterSend(Bootstrapped(s, x)), phase.caps)
      BY <1>4, <2>2
    <2>4. ~s.sending /\ Lacks(pending, "Packet")
      BY <1>1, <1>7 DEF SendsFirst
    <2>5. AfterSend(Bootstrapped(s, x)) = [s EXCEPT !.x = x, !.sending = TRUE, !.ns = @ + 1]
      BY <1>3 DEF AfterSend, Bootstrapped, Session
    <2>6. Sealed(Bootstrapped(s, x), body)
            = [kind |-> "Packet", x |-> x, n |-> s.ns, body |-> body]
      BY <1>3 DEF Sealed, Bootstrapped, Session
    <2>7. LandsSeal(body, x)
      BY <2>2, <2>3, <2>4, <2>5, <2>6 DEF LandsSeal
    <2>. QED
      BY <2>7 DEF LandsLate
  <1>8. CASE Flows(pl)
    <2>1. PICK body \in Bodies :
            Commits(pl, [pl.phase EXCEPT !.session = AfterSend(@), !.caps = @ + 1, !.last = body],
                    pl.pending \cup {Sealed(pl.phase.session, body),
                                     [kind |-> "Effect", flow |-> pl.phase.caps]},
                    {}, {}, None)
      BY <1>8 DEF Flows
    <2>2. /\ phase' = [phase EXCEPT !.session = AfterSend(@), !.caps = @ + 1, !.last = body]
          /\ pending' = pending \cup {Sealed(s, body), [kind |-> "Effect", flow |-> phase.caps]}
          /\ Swaps({}, {}) /\ answered' = answered
      BY <1>1, <1>2, <2>1
    <2>3. Continues(AfterSend(s), phase.caps + 1)
      BY <1>1, <1>3, <2>2 DEF Continues, Moves, Phase
    <2>4. s.sending /\ Lacks(pending, "Packet") /\ phase.caps > 0
      BY <1>1, <1>8 DEF Flows
    <2>5. AfterSend(s) = [s EXCEPT !.x = s.x, !.sending = TRUE, !.ns = @ + 1]
      BY <1>3, <2>4 DEF AfterSend, Session
    <2>6. Sealed(s, body) = [kind |-> "Packet", x |-> s.x, n |-> s.ns, body |-> body]
      BY DEF Sealed
    <2>7. pending' = pending \cup ({Sealed(s, body)} \cup Effects)
      BY <2>2 DEF Effects
    <2>8. LandsSeal(body, s.x)
      BY <2>2, <2>3, <2>4, <2>5, <2>6, <2>7 DEF LandsSeal
    <2>. QED
      BY <1>3, <2>8 DEF LandsLate
  <1>9. CASE Receives(pl)
    <2>1. PICK record \in Records :
            OpensKept(pl, record) \/ OpensOnChain(pl, record) \/ OpensNextChain(pl, record)
      BY <1>9 DEF Receives
    <2>2. Lacks(pending, "Plaintext")
      BY <1>1, <1>9 DEF Receives
    <2>3. CASE OpensKept(pl, record)
      <3>1. /\ Coordinate(record) \in s.skipped
            /\ Releases(pl, record, AfterSkipped(s, record), {}, {})
        BY <1>1, <2>3 DEF OpensKept
      <3>2. LandsOpen(record)
        BY <1>5, <2>2, <3>1 DEF LandsOpen
      <3>. QED
        BY <3>2 DEF LandsLate
    <2>4. CASE OpensOnChain(pl, record)
      <3>1. /\ Coordinate(record) \notin s.skipped /\ record.dh = s.peer /\ record.n >= s.nr
            /\ Releases(pl, record, AfterReceive(s, record), {}, {})
        BY <1>1, <2>4 DEF OpensOnChain
      <3>2. LandsOpen(record)
        BY <1>5, <2>2, <3>1 DEF LandsOpen
      <3>. QED
        BY <3>2 DEF LandsLate
    <2>5. CASE OpensNextChain(pl, record)
      <3>1. /\ record.dh > s.peer /\ record.pn >= s.nr
            /\ \E x \in XHandles :
                 Releases(pl, record, AfterReceive(AfterTransition(s, record, x), record),
                          {x}, {s.x})
        BY <1>1, <2>5 DEF OpensNextChain
      <3>2. LandsOpen(record)
        BY <1>5, <2>2, <3>1 DEF LandsOpen
      <3>. QED
        BY <3>2 DEF LandsLate
    <2>. QED
      BY <2>1, <2>3, <2>4, <2>5
  <1>10. CASE Bootstraps(pl)
    <2>1. /\ phase' = [phase EXCEPT !.caps = 1] /\ pending' = pending
          /\ Swaps({}, {}) /\ answered' = answered /\ phase.caps = 0
      BY <1>1, <1>2, <1>10 DEF Bootstraps
    <2>2. Continues(s, 1)
      BY <1>1, <1>3, <2>1 DEF Continues, Moves, Phase
    <2>3. LandsBootstrap
      BY <2>1, <2>2 DEF LandsBootstrap
    <2>. QED
      BY <2>3 DEF LandsLate
  <1>. QED
    BY <1>6, <1>7, <1>8, <1>9, <1>10 DEF Converses, pl

LEMMA Landing ==
  ASSUME IInv, PlansMade, NEW p \in Procs, Lands(p)
  PROVE  LandsEarly \/ LandsLate \/ LandsDelete
  BY LandingEarly, LandingLate, LandingDelete

-----------------------------------------------------------------------------
(* Steps that land no commit                                               *)

\* The conversation rests: whatever moves is on its way to its boundary, and
\* whoever is told something is told what holds.
Rests ==
  /\ phase' = phase /\ CustodyRests
  /\ Ever' \subseteq Ever /\ pending' \subseteq pending
  /\ pending \cup delivered \subseteq pending' \cup delivered'
  /\ answered \subseteq answered'
  /\ \A a \in answered' \ answered : a \in Answer /\ Holds(a)

LEMMA EverOnRest ==
  ASSUME \A q \in Procs : Delivering(q)' => plan'[q].item \in Ever,
         pending' \subseteq Ever, delivered' \subseteq Ever
  PROVE  Ever' \subseteq Ever
  BY DEF Ever

LEMMA InFlight ==
  ASSUME NEW q \in Procs, DeliveryRests(q)
  PROVE  Delivering(q)' => plan'[q].item \in Ever
  BY DEF DeliveryRests, Ever

LEMMA RestOrLand ==
  ASSUME IInv, PlansMade, Fetched, [Next]_vars
  PROVE  Rests \/ \E p \in Procs : Lands(p)
  <1>1. CASE Tells
    <2>1. Ever' \subseteq Ever
      BY <1>1, InFlight, EverOnRest DEF Tells, store, Ever
    <2>. QED
      BY <1>1, <2>1 DEF Tells, Rests, store
  <1>2. ASSUME NEW p \in Procs, Fetches(p)
        PROVE  Rests
    <2>1. plan'[p].item \in Ever
      BY <1>2 DEF Fetches, Ever
    <2>2. \A q \in Procs : Delivering(q)' => plan'[q].item \in Ever
      BY <1>2, <2>1, InFlight DEF Fetches
    <2>3. Ever' \subseteq Ever
      BY <1>2, <2>2, EverOnRest DEF Fetches, store, Ever
    <2>. QED
      BY <1>2, <2>3 DEF Fetches, Rests, CustodyRests, store
  <1>3. ASSUME NEW p \in Procs, Hands(p)
        PROVE  Rests
    <2>1. plan[p].item \in Ever
      BY <1>3 DEF Hands, Ever, Delivering
    <2>2. \A q \in Procs : Delivering(q)' => plan'[q].item \in Ever
      BY <1>3, <2>1, InFlight DEF Hands
    <2>3. Ever' \subseteq Ever
      BY <1>3, <2>1, <2>2, EverOnRest DEF Hands, store, Ever
    <2>. QED
      BY <1>3, <2>3 DEF Hands, Rests, CustodyRests, store
  <1>4. ASSUME NEW p \in Procs, Settles(p)
        PROVE  Rests
    <2>1. Ever' \subseteq Ever
      BY <1>4, InFlight, EverOnRest DEF Settles, Ever
    <2>2. plan[p].item \in delivered
      BY <1>4 DEF Settles, Fetched
    <2>. QED
      BY <1>4, <2>1, <2>2 DEF Settles, Rests, CustodyRests
  <1>. QED
    BY <1>1, <1>2, <1>3, <1>4, StepKinds

LEMMA EverOnLanding ==
  ASSUME NEW p \in Procs, Lands(p)
  PROVE  Ever' \subseteq Ever \cup pending' /\ delivered' = delivered
  <1>1. \A q \in Procs : Delivering(q)' => plan'[q].item \in Ever
    BY InFlight DEF Lands
  <1>. QED
    BY <1>1 DEF Lands, Ever

\* Before the session, a landed commit produces nothing; afterwards nothing
\* pending is lost but with the session.
LEMMA PendingOnLanding ==
  ASSUME IInv, Unopened, LandsEarly \/ LandsLate \/ LandsDelete
  PROVE  /\ ~Deleted
         /\ pending \subseteq pending' \/ (phase'.kind = "Deleted" /\ pending' = {})
         /\ LandsEarly => pending' = {} /\ Ever = {} /\ pending = {}
  <1>1. CASE LandsEarly
    <2>1. phase.kind \in {"ResponderReady", "InitiatorNew", "InitiatorAwaiting"}
          /\ pending' = pending
      BY <1>1 DEF LandsEarly, LandsPublish, LandsAccept, LandsCreate, LandsComplete
    <2>2. Ever = {} /\ pending = {}
      BY <2>1 DEF Unopened, Ever
    <2>. QED
      BY <2>1, <2>2 DEF Deleted
  <1>2. CASE LandsLate
    <2>1. phase.kind = "Established" /\ pending \subseteq pending'
      BY <1>2 DEF LandsLate, LandsSeal, LandsOpen, LandsBootstrap, Continues
    <2>2. ~LandsEarly
      BY <2>1 DEF LandsEarly, LandsPublish, LandsAccept, LandsCreate, LandsComplete
    <2>. QED
      BY <2>1, <2>2 DEF Deleted
  <1>3. CASE LandsDelete
    <2>1. ~Deleted /\ phase'.kind = "Deleted" /\ pending' = {}
      BY <1>3 DEF LandsDelete, Moves, Deleted
    <2>2. ~LandsEarly
      BY <2>1 DEF LandsEarly, LandsPublish, LandsAccept, LandsCreate, LandsComplete, Moves,
         Deleted
    <2>. QED
      BY <2>1, <2>2
  <1>. QED
    BY <1>1, <1>2, <1>3

LEMMA UnopenedStep ==
  ASSUME IInv, PlansMade, Fetched, Unopened, [Next]_vars
  PROVE  Unopened'
  <1>1. CASE Rests
    BY <1>1 DEF Rests, Unopened
  <1>2. ASSUME NEW p \in Procs, Lands(p)
        PROVE  Unopened'
    <2>1. LandsEarly \/ LandsLate \/ LandsDelete
      BY <1>2, Landing
    <2>2. CASE LandsEarly
      <3>1. Ever' = {}
        BY <1>2, <2>2, PendingOnLanding, EverOnLanding
      <3>2. CASE \E bundle \in Prekey : LandsPublish(bundle)
        BY <3>1, <3>2 DEF LandsPublish, Moves, Unopened
      <3>3. CASE \E packet \in InboundFirst : LandsAccept(packet)
        BY <3>1, <3>3 DEF LandsAccept, Moves, Unopened
      <3>4. CASE \E packet \in OutboundFirst : LandsCreate(packet)
        <4>1. PICK packet \in OutboundFirst : LandsCreate(packet)
          BY <3>4
        <4>2. /\ phase'.kind = "InitiatorAwaiting" /\ phase'.caps = phase.caps
              /\ phase.kind = "InitiatorNew" /\ phase'.session = NewSession(packet.x, TRUE)
          BY <4>1 DEF LandsCreate, Moves
        <4>3. Role = "Initiator" /\ phase'.caps = 0
          BY <4>2 DEF Unopened
        <4>4. /\ phase'.session.ns = 0 /\ phase'.session.nr = 0
              /\ phase'.session.skipped = {}
          BY <4>2 DEF NewSession
        <4>. QED
          BY <3>1, <4>2, <4>3, <4>4 DEF Unopened
      <3>5. CASE LandsComplete
        BY <3>5 DEF LandsComplete, Moves, Unopened
      <3>. QED
        BY <2>2, <3>2, <3>3, <3>4, <3>5 DEF LandsEarly
    <2>3. CASE LandsLate
      <3>1. phase'.kind = "Established"
        BY <2>3 DEF LandsLate, LandsSeal, LandsOpen, LandsBootstrap, Continues, Moves
      <3>. QED
        BY <3>1 DEF Unopened
    <2>4. CASE LandsDelete
      BY <2>4 DEF LandsDelete, Moves, Unopened
    <2>. QED
      BY <2>1, <2>2, <2>3, <2>4
  <1>. QED
    BY <1>1, <1>2, RestOrLand

LEMMA FetchedStep ==
  ASSUME IInv, PlansMade, Fetched, Unopened, [Next]_vars
  PROVE  Fetched'
  <1>1. SUFFICES ASSUME NEW q \in Procs
                 PROVE  /\ pc'[q] = "deliver" =>
                             plan'[q].item \in pending' \cup delivered' \/ Deleted'
                        /\ pc'[q] = "settle" => plan'[q].item \in delivered'
    BY DEF Fetched
  <1>2. ASSUME DeliveryRests(q), pending \cup delivered \subseteq pending' \cup delivered' \/ Deleted',
               delivered \subseteq delivered', Deleted => Deleted'
        PROVE  /\ pc'[q] = "deliver" =>
                    plan'[q].item \in pending' \cup delivered' \/ Deleted'
               /\ pc'[q] = "settle" => plan'[q].item \in delivered'
    BY <1>2 DEF Fetched, DeliveryRests, Delivering
  <1>3. CASE Tells
    BY <1>2, <1>3 DEF Tells, store, Deleted
  <1>4. ASSUME NEW p \in Procs, Fetches(p)
        PROVE  /\ pc'[q] = "deliver" =>
                    plan'[q].item \in pending' \cup delivered' \/ Deleted'
               /\ pc'[q] = "settle" => plan'[q].item \in delivered'
    BY <1>2, <1>4 DEF Fetches, store, Deleted
  <1>5. ASSUME NEW p \in Procs, Hands(p)
        PROVE  /\ pc'[q] = "deliver" =>
                    plan'[q].item \in pending' \cup delivered' \/ Deleted'
               /\ pc'[q] = "settle" => plan'[q].item \in delivered'
    BY <1>2, <1>5 DEF Hands, store, Deleted, Delivering
  <1>6. ASSUME NEW p \in Procs, Settles(p)
        PROVE  /\ pc'[q] = "deliver" =>
                    plan'[q].item \in pending' \cup delivered' \/ Deleted'
               /\ pc'[q] = "settle" => plan'[q].item \in delivered'
    <2>1. plan[p].item \in delivered
      BY <1>6 DEF Settles, Fetched
    <2>. QED
      BY <1>2, <1>6, <2>1 DEF Settles, Deleted
  <1>7. ASSUME NEW p \in Procs, Lands(p)
        PROVE  /\ pc'[q] = "deliver" =>
                    plan'[q].item \in pending' \cup delivered' \/ Deleted'
               /\ pc'[q] = "settle" => plan'[q].item \in delivered'
    <2>1. ~Deleted /\ (pending \subseteq pending' \/ phase'.kind = "Deleted")
      BY <1>7, Landing, PendingOnLanding
    <2>. QED
      BY <1>2, <1>7, <2>1 DEF Lands, Deleted
  <1>. QED
    BY <1>3, <1>4, <1>5, <1>6, <1>7, StepKinds

-----------------------------------------------------------------------------
(* What callers have been told                                             *)

\* The two readings of an answer, of any phase: it is true, and it stays true.
HoldsIn(ph, a) ==
  \/ a.type = "Bundle" /\ a.val \in ph.active
  \/ a.type = "Accept" /\ ph.kind = "Established" /\ a.val = ph.packet
  \/ a.type = "First" /\ ph.kind = "InitiatorAwaiting" /\ a.val = ph.packet

DurableIn(ph, a) ==
  /\ a.type = "Bundle" =>
       /\ a.val.seq <= ph.high
       /\ ph.kind = "ResponderReady" => a.val \in ph.active
  /\ a.type = "Accept" =>
       /\ ph.kind \in {"Established", "Deleted"}
       /\ ph.kind = "Established" => ph.packet = a.val
  /\ a.type = "First" =>
       /\ ph.kind \in {"InitiatorAwaiting", "Established", "Deleted"}
       /\ ph.kind = "InitiatorAwaiting" => ph.packet = a.val

LEMMA HeldStays ==
  ASSUME NEW ph, PhaseShape(ph), NEW a, HoldsIn(ph, a)
  PROVE  DurableIn(ph, a)
  BY DEF PhaseShape, HoldsIn, DurableIn

\* Whoever is told what holds hears what everybody else has heard.
LEMMA HeldAgrees ==
  ASSUME NEW ph, PhaseShape(ph), PairsDisjoint(ph.active),
         NEW a \in Answer, HoldsIn(ph, a), NEW b \in Answer, DurableIn(ph, b),
         a.type = b.type, a.type = "Bundle" => a.val.seq = b.val.seq
  PROVE  a = b
  <1>1. a.val = b.val
    BY DEF HoldsIn, DurableIn, PhaseShape, PairsDisjoint
  <1>2. \A c \in Answer : c = [type |-> c.type, val |-> c.val]
    BY DEF Answer
  <1>. QED
    BY <1>1, <1>2

\* A landed commit leaves every earlier answer true.
LEMMA DurableOnLanding ==
  ASSUME IInv, LandsEarly \/ LandsLate \/ LandsDelete, NEW a, DurableIn(phase, a)
  PROVE  DurableIn(phase', a)
  <1>1. CASE \E bundle \in Prekey : LandsPublish(bundle)
    <2>1. PICK bundle \in Prekey : LandsPublish(bundle)
      BY <1>1
    <2>2. /\ phase.kind = "ResponderReady" /\ phase'.kind = "ResponderReady"
          /\ phase'.active = phase.active \cup {bundle}
          /\ phase'.high = bundle.seq /\ bundle.seq > phase.high
      BY <2>1 DEF LandsPublish, Moves
    <2>3. a.type = "Bundle" => a.val \in phase.active /\ a.val.seq <= phase.high
      BY <2>2 DEF DurableIn
    <2>4. \A c \in phase.active : c.seq \in Nat
      BY DEF IInv, TypeOK, Phase, Prekey
    <2>5. phase.high \in Nat /\ bundle.seq \in Nat
      BY DEF IInv, TypeOK, Phase, Prekey
    <2>6. a.type = "Bundle" => a.val.seq <= phase'.high
      BY <2>2, <2>3, <2>4, <2>5
    <2>. QED
      BY <2>2, <2>3, <2>6 DEF DurableIn
  <1>2. CASE \E packet \in InboundFirst : LandsAccept(packet)
    BY <1>2 DEF LandsAccept, Moves, DurableIn
  <1>3. CASE \E packet \in OutboundFirst : LandsCreate(packet)
    BY <1>3 DEF LandsCreate, Moves, DurableIn
  <1>4. CASE LandsComplete
    BY <1>4 DEF LandsComplete, Moves, DurableIn
  <1>5. CASE LandsLate
    <2>1. /\ phase'.kind = phase.kind /\ phase'.high = phase.high
          /\ phase'.active = phase.active /\ phase'.packet = phase.packet
      BY <1>5 DEF LandsLate, LandsSeal, LandsOpen, LandsBootstrap, Continues, Moves
    <2>. QED
      BY <2>1 DEF DurableIn
  <1>6. CASE LandsDelete
    BY <1>6 DEF LandsDelete, Moves, DurableIn
  <1>. QED
    BY <1>1, <1>2, <1>3, <1>4, <1>5, <1>6 DEF LandsEarly

\* What a landed commit lets its caller hear is true from then on.
LEMMA HeardOnLanding ==
  ASSUME LandsEarly \/ LandsLate \/ LandsDelete
  PROVE  /\ answered \subseteq answered'
         /\ \A a \in answered' \ answered : HoldsIn(phase', a)
  <1>1. CASE \E bundle \in Prekey : LandsPublish(bundle)
    BY <1>1 DEF LandsPublish, Moves, MayTell, HoldsIn
  <1>2. CASE \E packet \in InboundFirst : LandsAccept(packet)
    BY <1>2 DEF LandsAccept, Moves, MayTell, HoldsIn
  <1>3. CASE \E packet \in OutboundFirst : LandsCreate(packet)
    BY <1>3 DEF LandsCreate, Moves, MayTell, HoldsIn
  <1>4. CASE LandsComplete \/ LandsDelete
    BY <1>4 DEF LandsComplete, LandsDelete
  <1>5. CASE LandsLate
    BY <1>5 DEF LandsLate, LandsSeal, LandsOpen, LandsBootstrap, Continues
  <1>. QED
    BY <1>1, <1>2, <1>3, <1>4, <1>5 DEF LandsEarly

\* Every step tells callers what holds after it, and breaks no earlier answer.
LEMMA AnswersMove ==
  ASSUME IInv, PlansMade, Fetched, AnswersDurable, [Next]_vars
  PROVE  /\ answered \subseteq answered'
         /\ \A a \in answered' \ answered : HoldsIn(phase', a)
         /\ \A a \in answered : DurableIn(phase', a)
  <1>1. \A a \in answered : DurableIn(phase, a)
    BY DEF AnswersDurable, DurableIn
  <1>2. CASE Rests
    BY <1>1, <1>2 DEF Rests, Holds, HoldsIn
  <1>3. ASSUME NEW p \in Procs, Lands(p)
        PROVE  /\ answered \subseteq answered'
               /\ \A a \in answered' \ answered : HoldsIn(phase', a)
               /\ \A a \in answered : DurableIn(phase', a)
    BY <1>1, <1>3, Landing, HeardOnLanding, DurableOnLanding
  <1>. QED
    BY <1>2, <1>3, RestOrLand

LEMMA AnswersStep ==
  ASSUME IInv, IInv', PlansMade, Fetched, AnswersDurable, AnswersAgree, [Next]_vars
  PROVE  AnswersDurable' /\ AnswersAgree'
  <1>1. /\ answered \subseteq answered'
        /\ \A a \in answered' \ answered : HoldsIn(phase', a)
        /\ \A a \in answered : DurableIn(phase', a)
    BY AnswersMove
  <1>2. /\ PhaseShape(phase') /\ PairsDisjoint(phase'.active)
        /\ answered' \subseteq Answer
    BY DEF IInv, TypeOK, PhaseShape, PairsDisjoint
  <1>3. \A a \in answered' : DurableIn(phase', a)
    BY <1>1, <1>2, HeldStays
  <1>4. ASSUME NEW a \in answered', NEW b \in answered', a.type = b.type,
               a.type = "Bundle" => a.val.seq = b.val.seq
        PROVE  a = b
    <2>1. CASE a \in answered /\ b \in answered
      BY <1>4, <2>1 DEF AnswersAgree
    <2>2. CASE a \notin answered
      BY <1>1, <1>2, <1>3, <1>4, <2>2, HeldAgrees
    <2>3. CASE b \notin answered
      <3>1. b.type = "Bundle" => b.val.seq = a.val.seq
        BY <1>4
      <3>. QED
        BY <1>1, <1>2, <1>3, <1>4, <2>3, <3>1, HeldAgrees
    <2>. QED
      BY <2>1, <2>2, <2>3
  <1>5. AnswersDurable'
    BY <1>3 DEF AnswersDurable, DurableIn
  <1>6. AnswersAgree'
    BY <1>4 DEF AnswersAgree
  <1>. QED
    BY <1>5, <1>6

\* A handle that is gone is gone for ever.
LEMMA DeletedStays ==
  ASSUME IInv, PlansMade, Fetched, [Next]_vars, NEW h \in Handles, custody[h] = "deleted"
  PROVE  custody'[h] = "deleted"
  <1>1. CASE Rests
    BY <1>1 DEF Rests, CustodyRests
  <1>2. ASSUME NEW p \in Procs, Lands(p)
        PROVE  custody'[h] = "deleted"
    BY <1>2, LandingPlan DEF Swaps
  <1>. QED
    BY <1>1, <1>2, RestOrLand

LEMMA EntropyStep ==
  ASSUME IInv, IInv', PlansMade, Fetched, AnswersDurable, EntropySpent, [Next]_vars
  PROVE  EntropySpent'
  <1>1. phase'.kind = "InitiatorAwaiting" =>
          phase'.packet \in OutboundFirst /\ custody'[phase'.packet.e] = "deleted"
    <2>1. SUFFICES ASSUME phase'.kind = "InitiatorAwaiting"
                   PROVE  custody'[phase'.packet.e] = "deleted"
      BY DEF IInv, PhaseShape
    <2>2. CASE Rests
      <3>1. phase' = phase /\ phase.packet \in OutboundFirst
        BY <2>1, <2>2 DEF Rests, IInv, PhaseShape
      <3>2. phase.packet.e \in Handles /\ custody[phase.packet.e] = "deleted"
        BY <2>1, <3>1 DEF OutboundFirst, Handles, EntropySpent
      <3>. QED
        BY <3>1, <3>2, DeletedStays
    <2>3. ASSUME NEW p \in Procs, Lands(p)
          PROVE  custody'[phase'.packet.e] = "deleted"
      <3>1. LandsEarly \/ LandsLate \/ LandsDelete
        BY <2>3, Landing
      <3>2. ~LandsLate /\ ~LandsDelete
        BY <2>1 DEF LandsLate, LandsSeal, LandsOpen, LandsBootstrap, Continues, LandsDelete,
           Moves
      <3>3. PICK packet \in OutboundFirst : LandsCreate(packet)
        BY <2>1, <3>1, <3>2 DEF LandsEarly, LandsPublish, LandsAccept, LandsComplete, Moves
      <3>4. packet.e \in Handles /\ phase'.packet = packet
        BY <3>3 DEF OutboundFirst, Handles, LandsCreate, Moves
      <3>. QED
        BY <3>3, <3>4 DEF LandsCreate, Swaps
    <2>. QED
      BY <2>2, <2>3, RestOrLand
  <1>2. ASSUME NEW a \in answered', a.type = "First"
        PROVE  custody'[a.val.e] = "deleted"
    <2>1. a \in Answer
      BY DEF IInv, TypeOK
    <2>2. a.val.e \in Handles
      BY <1>2, <2>1 DEF Answer, OutboundFirst, Handles
    <2>3. CASE a \in answered
      BY <1>2, <2>2, <2>3, DeletedStays DEF EntropySpent
    <2>4. CASE a \notin answered
      <3>1. HoldsIn(phase', a)
        BY <2>4, AnswersMove
      <3>. QED
        BY <1>1, <1>2, <3>1 DEF HoldsIn
    <2>. QED
      BY <2>3, <2>4
  <1>. QED
    BY <1>1, <1>2 DEF EntropySpent

-----------------------------------------------------------------------------
(* What was produced                                                       *)

LEMMA ItemFields ==
  ASSUME NEW i \in Item
  PROVE  /\ i.kind \in {"Packet", "Effect", "Plaintext"}
         /\ i.kind = "Packet" => i.x \in XHandles /\ i.x \in Handles /\ i.n \in Nat
         /\ i.kind = "Effect" => i.flow \in Nat /\ i = [kind |-> "Effect", flow |-> i.flow]
         /\ i.kind = "Plaintext" => /\ i.record \in Records /\ i.record.dh \in Nat
                                    /\ i.record.n \in Nat
  BY RecordAssumption DEF Item, PacketItem, EffectItem, PlaintextItem, Handles

LEMMA EverTypes ==
  ASSUME IInv
  PROVE  Ever \subseteq Item
  BY DEF IInv, TypeOK, Ever, Delivering, Delivery

\* The first session state of a party has sent, received and applied nothing.
LEMMA OpensFresh ==
  ASSUME IInv, Unopened, LandsEarly, phase'.kind = "Established"
  PROVE  /\ phase'.session.ns = 0 /\ phase'.session.nr = 0
         /\ phase'.session.skipped = {} /\ phase'.caps = 0
  <1>1. ~(\E bundle \in Prekey : LandsPublish(bundle))
    BY DEF LandsPublish, Moves
  <1>2. ~(\E packet \in OutboundFirst : LandsCreate(packet))
    BY DEF LandsCreate, Moves
  <1>3. CASE \E packet \in InboundFirst : LandsAccept(packet)
    BY <1>3 DEF LandsAccept, Moves, Unopened, NewSession
  <1>4. CASE LandsComplete
    BY <1>4 DEF LandsComplete, Moves, Unopened
  <1>. QED
    BY <1>1, <1>2, <1>3, <1>4 DEF LandsEarly

SealedItem(body, x) == [kind |-> "Packet", x |-> x, n |-> phase.session.ns, body |-> body]

\* The parts of a session that has sealed a record.
LEMMA SealParts ==
  ASSUME IInv, NEW body \in Bodies, NEW x \in XHandles, LandsSeal(body, x)
  PROVE  /\ phase.kind = "Established" /\ phase'.kind = "Established"
         /\ phase.session \in Session /\ phase.session.x \in XHandles
         /\ custody[phase.session.x] = "adopted"
         /\ phase'.session.x = x /\ phase'.session.sending
         /\ phase.session.ns \in Nat /\ phase'.session.ns = phase.session.ns + 1
         /\ phase'.session.peer = phase.session.peer
         /\ phase'.session.nr = phase.session.nr
         /\ phase'.session.skipped = phase.session.skipped
         /\ phase.caps \in Nat /\ phase'.caps \in {phase.caps, phase.caps + 1}
         /\ \/ phase'.caps = phase.caps
               /\ pending' = pending \cup {SealedItem(body, x)}
            \/ phase'.caps = phase.caps + 1 /\ phase.caps > 0
               /\ pending' = pending \cup {SealedItem(body, x)} \cup Effects
         /\ \/ x = phase.session.x
            \/ /\ ~phase.session.sending /\ custody[x] = "staged"
               /\ custody'[phase.session.x] = "deleted"
  <1>. DEFINE s    == phase.session
              next == [s EXCEPT !.x = x, !.sending = TRUE, !.ns = @ + 1]
  <1>1. phase.kind = "Established"
    BY DEF LandsSeal, Continues
  <1>2. /\ s \in Session /\ s.x \in XHandles /\ s.x \in Handles /\ custody[s.x] = "adopted"
        /\ phase.caps \in Nat
    BY <1>1, EstablishedShape DEF Handles, Phase
  <1>3. /\ next.x = x /\ next.sending /\ next.ns = s.ns + 1 /\ s.ns \in Nat
        /\ next.peer = s.peer /\ next.nr = s.nr /\ next.skipped = s.skipped
    BY <1>2 DEF Session
  <1>. HIDE DEF next
  <1>4. /\ phase'.session = next /\ phase'.kind = "Established"
        /\ \/ phase'.caps = phase.caps /\ pending' = pending \cup {SealedItem(body, x)}
           \/ /\ phase'.caps = phase.caps + 1 /\ phase.caps > 0
              /\ pending' = pending \cup {SealedItem(body, x)} \cup Effects
    BY <1>1 DEF LandsSeal, Continues, Moves, SealedItem, next
  <1>5. \/ x = s.x
        \/ ~s.sending /\ custody[x] = "staged" /\ custody'[s.x] = "deleted"
    BY <1>2 DEF LandsSeal, Swaps
  <1>. QED
    BY <1>1, <1>2, <1>3, <1>4, <1>5

\* The three ways a received record moves the receiving chains.
Kept(record) ==
  /\ Coordinate(record) \in phase.session.skipped
  /\ phase'.session.peer = phase.session.peer /\ phase'.session.nr = phase.session.nr
  /\ phase'.session.skipped = phase.session.skipped \ {Coordinate(record)}

OnThisChain(record) ==
  /\ Coordinate(record) \notin phase.session.skipped
  /\ record.dh = phase.session.peer /\ record.n >= phase.session.nr
  /\ phase'.session.peer = phase.session.peer /\ phase'.session.nr = record.n + 1
  /\ phase'.session.skipped = phase.session.skipped
       \cup Skipping(record.dh, phase.session.nr, record.n)

OnNextChain(record) ==
  /\ record.dh > phase.session.peer /\ record.pn >= phase.session.nr
  /\ phase'.session.peer = record.dh /\ phase'.session.nr = record.n + 1
  /\ phase'.session.skipped = phase.session.skipped
       \cup Skipping(phase.session.peer, phase.session.nr, record.pn)
       \cup Skipping(record.dh, 0, record.n)

\* The parts of a session that has opened a record.
LEMMA OpenParts ==
  ASSUME IInv, NEW record \in Records, LandsOpen(record)
  PROVE  /\ phase.kind = "Established" /\ phase'.kind = "Established"
         /\ phase.session \in Session /\ phase.session.x \in XHandles
         /\ phase'.caps = phase.caps
         /\ pending' = pending \cup {[kind |-> "Plaintext", record |-> record]}
         /\ \/ /\ phase'.session.x = phase.session.x
               /\ phase'.session.ns = phase.session.ns
               /\ phase'.session.sending = phase.session.sending
               /\ Kept(record) \/ OnThisChain(record)
            \/ /\ phase'.session.sending /\ phase'.session.ns = 0
               /\ custody'[phase.session.x] = "deleted"
               /\ OnNextChain(record)
  <1>. DEFINE s == phase.session
  <1>1. phase.kind = "Established"
    BY DEF LandsOpen, Continues
  <1>2. s \in Session /\ s.x \in XHandles /\ s.x \in Handles
    BY <1>1, EstablishedShape DEF Handles
  <1>3. \A next : Continues(next, phase.caps) =>
          phase'.kind = "Established" /\ phase'.session = next /\ phase'.caps = phase.caps
    BY <1>1 DEF Continues, Moves
  <1>4. CASE /\ Coordinate(record) \in s.skipped
             /\ Continues(AfterSkipped(s, record), phase.caps)
    <2>1. /\ AfterSkipped(s, record).x = s.x /\ AfterSkipped(s, record).ns = s.ns
          /\ AfterSkipped(s, record).sending = s.sending
          /\ AfterSkipped(s, record).peer = s.peer /\ AfterSkipped(s, record).nr = s.nr
          /\ AfterSkipped(s, record).skipped = s.skipped \ {Coordinate(record)}
      BY <1>2 DEF AfterSkipped, Session
    <2>. QED
      BY <1>1, <1>2, <1>3, <1>4, <2>1 DEF LandsOpen, Kept
  <1>5. CASE /\ Coordinate(record) \notin s.skipped /\ record.dh = s.peer /\ record.n >= s.nr
             /\ Continues(AfterReceive(s, record), phase.caps)
    <2>1. /\ AfterReceive(s, record).x = s.x /\ AfterReceive(s, record).ns = s.ns
          /\ AfterReceive(s, record).sending = s.sending
          /\ AfterReceive(s, record).peer = s.peer /\ AfterReceive(s, record).nr = record.n + 1
          /\ AfterReceive(s, record).skipped
               = s.skipped \cup Skipping(record.dh, s.nr, record.n)
      BY <1>2 DEF AfterReceive, Session
    <2>. QED
      BY <1>1, <1>2, <1>3, <1>5, <2>1 DEF LandsOpen, OnThisChain
  <1>6. ASSUME record.dh > s.peer, record.pn >= s.nr, NEW x \in XHandles,
               Continues(AfterReceive(AfterTransition(s, record, x), record), phase.caps),
               Swaps({x}, {s.x})
        PROVE  /\ phase'.kind = "Established" /\ phase'.caps = phase.caps
               /\ phase'.session.sending /\ phase'.session.ns = 0
               /\ custody'[s.x] = "deleted" /\ OnNextChain(record)
    <2>. DEFINE t == AfterTransition(s, record, x)
    <2>1. /\ t \in Session /\ t.sending /\ t.ns = 0 /\ t.nr = 0 /\ t.peer = record.dh
          /\ t.skipped = s.skipped \cup Skipping(s.peer, s.nr, record.pn)
      <3>1. t \in Session
        BY <1>2, ReceivingTypes
      <3>. QED
        BY <1>2, <3>1 DEF AfterTransition, Session
    <2>. HIDE DEF t
    <2>2. /\ AfterReceive(t, record).sending /\ AfterReceive(t, record).ns = 0
          /\ AfterReceive(t, record).peer = record.dh
          /\ AfterReceive(t, record).nr = record.n + 1
          /\ AfterReceive(t, record).skipped
               = t.skipped \cup Skipping(record.dh, t.nr, record.n)
      BY <2>1 DEF AfterReceive, Session
    <2>3. phase'.session = AfterReceive(t, record)
      BY <1>3, <1>6 DEF t
    <2>4. custody'[s.x] = "deleted"
      BY <1>2, <1>6 DEF Swaps
    <2>5. OnNextChain(record)
      BY <1>6, <2>1, <2>2, <2>3 DEF OnNextChain
    <2>. QED
      BY <1>3, <1>6, <2>2, <2>3, <2>4, <2>5
  <1>. QED
    BY <1>1, <1>2, <1>4, <1>5, <1>6 DEF LandsOpen

-----------------------------------------------------------------------------
(* The sending side                                                        *)

Spent(i) ==
  \/ custody[i.x] = "deleted"
  \/ phase.kind = "Established" /\ i.x = phase.session.x /\ i.n < phase.session.ns

\* The key of the record being sealed has sealed nothing yet.
LEMMA SealsAnew ==
  ASSUME IInv, KeysSpent, NEW body \in Bodies, NEW x \in XHandles, LandsSeal(body, x),
         NEW i \in Ever, i.kind = "Packet", i.x = x
  PROVE  i.n # phase.session.ns
  <1>1. Spent(i) /\ i.n \in Nat
    BY EverTypes, ItemFields DEF KeysSpent, Spent
  <1>2. custody[x] \in {"adopted", "staged"}
    BY SealParts
  <1>. QED
    BY <1>1, <1>2, SealParts DEF Spent

\* What is in Ever after a landing was there before, or has just become pending.
LEMMA SealsOne ==
  ASSUME IInv, NEW p \in Procs, Lands(p),
         NEW body \in Bodies, NEW x \in XHandles, LandsSeal(body, x), NEW i \in Ever'
  PROVE  /\ i.kind = "Packet" => i \in Ever \/ i = SealedItem(body, x)
         /\ i.kind = "Plaintext" => i \in Ever
         /\ i.kind = "Effect" => \/ i \in Ever
                                 \/ i.flow = phase.caps /\ phase'.caps = phase.caps + 1
  <1>1. i \in Ever \/ i \in pending'
    BY EverOnLanding
  <1>2. i \in pending' => \/ i \in pending \/ i = SealedItem(body, x)
                          \/ i \in Effects /\ phase'.caps = phase.caps + 1
    BY SealParts
  <1>. QED
    BY <1>1, <1>2 DEF Ever, SealedItem, Effects

LEMMA OpensOne ==
  ASSUME IInv, NEW p \in Procs, Lands(p),
         NEW record \in Records, LandsOpen(record), NEW i \in Ever'
  PROVE  i \in Ever \/ i = [kind |-> "Plaintext", record |-> record]
  BY EverOnLanding, OpenParts DEF Ever

LEMMA KeysSpentStep ==
  ASSUME IInv, PlansMade, Fetched, Unopened, KeysSpent, [Next]_vars
  PROVE  KeysSpent'
  <1>1. SUFFICES ASSUME NEW i \in Ever', i.kind = "Packet"
                 PROVE  \/ custody'[i.x] = "deleted"
                        \/ /\ phase'.kind = "Established" /\ i.x = phase'.session.x
                           /\ i.n < phase'.session.ns
    BY DEF KeysSpent
  <1>2. ASSUME i \in Ever
        PROVE  /\ Spent(i) /\ i.x \in Handles /\ i.n \in Nat
               /\ custody[i.x] = "deleted" => custody'[i.x] = "deleted"
    BY <1>1, <1>2, EverTypes, ItemFields, DeletedStays DEF KeysSpent, Spent
  <1>3. CASE Rests
    BY <1>1, <1>2, <1>3 DEF Rests, Spent
  <1>4. ASSUME NEW p \in Procs, Lands(p)
        PROVE  \/ custody'[i.x] = "deleted"
               \/ /\ phase'.kind = "Established" /\ i.x = phase'.session.x
                  /\ i.n < phase'.session.ns
    <2>1. LandsEarly \/ LandsLate \/ LandsDelete
      BY <1>4, Landing
    <2>2. CASE LandsEarly
      BY <1>4, <2>2, PendingOnLanding, EverOnLanding
    <2>3. ASSUME NEW body \in Bodies, NEW x \in XHandles, LandsSeal(body, x)
          PROVE  \/ custody'[i.x] = "deleted"
                 \/ /\ phase'.kind = "Established" /\ i.x = phase'.session.x
                    /\ i.n < phase'.session.ns
      <3>1. CASE i \in Ever
        BY <1>2, <2>3, <3>1, SealParts DEF Spent
      <3>2. CASE i \notin Ever
        <4>1. i.x = x /\ i.n = phase.session.ns
          BY <1>1, <1>4, <2>3, <3>2, SealsOne DEF SealedItem
        <4>. QED
          BY <2>3, <4>1, SealParts
      <3>. QED
        BY <3>1, <3>2
    <2>4. ASSUME NEW record \in Records, LandsOpen(record)
          PROVE  \/ custody'[i.x] = "deleted"
                 \/ /\ phase'.kind = "Established" /\ i.x = phase'.session.x
                    /\ i.n < phase'.session.ns
      <3>1. i \in Ever
        BY <1>1, <1>4, <2>4, OpensOne
      <3>. QED
        BY <1>2, <2>4, <3>1, OpenParts DEF Spent
    <2>5. CASE LandsBootstrap
      <3>1. i \in Ever
        BY <1>4, <2>5, EverOnLanding DEF LandsBootstrap, Ever
      <3>. QED
        BY <1>2, <2>5, <3>1 DEF Spent, LandsBootstrap, Continues, Moves
    <2>6. CASE LandsDelete
      <3>1. i \in Ever
        BY <1>4, <2>6, EverOnLanding DEF LandsDelete
      <3>2. CASE phase.kind = "Established"
        <4>1. custody'[phase.session.x] = "deleted"
          BY <2>6, <3>2, EstablishedShape DEF LandsDelete, Swaps, Handles
        <4>. QED
          BY <1>2, <3>1, <4>1 DEF Spent
      <3>. QED
        BY <1>2, <3>1, <3>2 DEF Spent
    <2>. QED
      BY <2>1, <2>2, <2>3, <2>4, <2>5, <2>6 DEF LandsLate
  <1>. QED
    BY <1>3, <1>4, RestOrLand

LEMMA KeysApartStep ==
  ASSUME IInv, PlansMade, Fetched, Unopened, KeysSpent, KeysApart, [Next]_vars
  PROVE  KeysApart'
  <1>1. SUFFICES ASSUME NEW i \in Ever', NEW j \in Ever', i.kind = "Packet", j.kind = "Packet",
                        i.x = j.x, i.n = j.n
                 PROVE  i = j
    BY DEF KeysApart
  <1>2. i \in Ever /\ j \in Ever => i = j
    BY <1>1 DEF KeysApart
  <1>3. CASE Rests
    BY <1>2, <1>3 DEF Rests
  <1>4. ASSUME NEW p \in Procs, Lands(p)
        PROVE  i = j
    <2>1. LandsEarly \/ LandsLate \/ LandsDelete
      BY <1>4, Landing
    <2>2. CASE LandsEarly
      BY <1>4, <2>2, PendingOnLanding, EverOnLanding
    <2>3. ASSUME NEW body \in Bodies, NEW x \in XHandles, LandsSeal(body, x)
          PROVE  i = j
      <3>1. /\ i \in Ever \/ i = SealedItem(body, x)
            /\ j \in Ever \/ j = SealedItem(body, x)
        BY <1>1, <1>4, <2>3, SealsOne
      <3>2. ASSUME NEW k \in Ever, k.kind = "Packet"
            PROVE  ~(k.x = x /\ k.n = phase.session.ns)
        BY <2>3, <3>2, SealsAnew
      <3>3. SealedItem(body, x).x = x /\ SealedItem(body, x).n = phase.session.ns
        BY DEF SealedItem
      <3>. QED
        BY <1>1, <1>2, <3>1, <3>2, <3>3
    <2>4. ASSUME NEW record \in Records, LandsOpen(record)
          PROVE  i = j
      BY <1>1, <1>2, <1>4, <2>4, OpensOne
    <2>5. CASE LandsBootstrap
      BY <1>2, <1>4, <2>5, EverOnLanding DEF LandsBootstrap, Ever
    <2>6. CASE LandsDelete
      BY <1>2, <1>4, <2>6, EverOnLanding DEF LandsDelete
    <2>. QED
      BY <2>1, <2>2, <2>3, <2>4, <2>5, <2>6 DEF LandsLate
  <1>. QED
    BY <1>3, <1>4, RestOrLand

\* Every number the sending chain has passed has its packet.
LEMMA SendingStep ==
  ASSUME IInv, PlansMade, Fetched, Unopened, SendingFresh, SentBacked, [Next]_vars
  PROVE  SendingFresh' /\ SentBacked'
  <1>. DEFINE Backs(n, x) == \E i \in pending \cup delivered :
                               i.kind = "Packet" /\ i.x = x /\ i.n = n
  <1>1. CASE Rests
    <2>1. phase' = phase /\ pending \cup delivered \subseteq pending' \cup delivered'
      BY <1>1 DEF Rests
    <2>. QED
      BY <2>1 DEF SendingFresh, SentBacked
  <1>2. ASSUME NEW p \in Procs, Lands(p)
        PROVE  SendingFresh' /\ SentBacked'
    <2>1. (LandsEarly \/ LandsLate \/ LandsDelete) /\ delivered' = delivered
      BY <1>2, Landing, EverOnLanding
    <2>2. CASE LandsEarly
      BY <2>2, OpensFresh DEF SendingFresh, SentBacked
    <2>3. ASSUME NEW body \in Bodies, NEW x \in XHandles, LandsSeal(body, x)
          PROVE  SendingFresh' /\ SentBacked'
      <3>1. SendingFresh'
        BY <2>3, SealParts DEF SendingFresh
      <3>2. ASSUME NEW n \in 0..(phase'.session.ns - 1)
            PROVE  \E i \in pending' \cup delivered' :
                     i.kind = "Packet" /\ i.x = phase'.session.x /\ i.n = n
        <4>1. CASE n = phase.session.ns
          <5>1. SealedItem(body, x) \in pending'
            BY <2>3, SealParts
          <5>. QED
            BY <2>3, <4>1, <5>1, SealParts DEF SealedItem
        <4>2. CASE n # phase.session.ns
          <5>1. n \in 0..(phase.session.ns - 1) /\ phase.kind = "Established"
            BY <2>3, <3>2, <4>2, SealParts
          <5>2. x = phase.session.x
            BY <2>3, <5>1, SealParts DEF SendingFresh
          <5>3. pending \subseteq pending'
            BY <2>3, SealParts
          <5>4. Backs(n, x)
            BY <5>1, <5>2 DEF SentBacked
          <5>. QED
            BY <2>1, <2>3, <5>3, <5>4, SealParts
        <4>. QED
          BY <4>1, <4>2
      <3>3. SentBacked'
        BY <3>2 DEF SentBacked
      <3>. QED
        BY <3>1, <3>3
    <2>4. ASSUME NEW record \in Records, LandsOpen(record)
          PROVE  SendingFresh' /\ SentBacked'
      <3>1. phase.kind = "Established" /\ pending \subseteq pending'
        BY <2>4, OpenParts
      <3>2. CASE /\ phase'.session.x = phase.session.x
                 /\ phase'.session.ns = phase.session.ns
                 /\ phase'.session.sending = phase.session.sending
        BY <2>1, <3>1, <3>2 DEF SendingFresh, SentBacked
      <3>3. CASE phase'.session.sending /\ phase'.session.ns = 0
        BY <3>3 DEF SendingFresh, SentBacked
      <3>. QED
        BY <2>4, <3>2, <3>3, OpenParts
    <2>5. CASE LandsBootstrap
      <3>1. /\ phase.kind = "Established" /\ phase'.session = phase.session
            /\ pending' = pending
        BY <2>5 DEF LandsBootstrap, Continues, Moves
      <3>. QED
        BY <2>1, <3>1 DEF SendingFresh, SentBacked
    <2>6. CASE LandsDelete
      BY <2>6 DEF LandsDelete, Moves, SendingFresh, SentBacked
    <2>. QED
      BY <2>1, <2>2, <2>3, <2>4, <2>5, <2>6 DEF LandsLate
  <1>. QED
    BY <1>1, <1>2, RestOrLand

-----------------------------------------------------------------------------
(* The receiving side                                                      *)

LEMMA SkippingMember ==
  ASSUME NEW dh, NEW from \in Nat, NEW to \in Nat, NEW c \in Nat \X Nat
  PROVE  c \in Skipping(dh, from, to) <=> c[1] = dh /\ from <= c[2] /\ c[2] < to
  BY DEF Skipping

\* The coordinates that are kept after a record was opened: none of a number
\* that had been reached and was not kept, none of the record itself, and all
\* of them behind the chain.
LEMMA OpenedCoordinates ==
  ASSUME IInv, OpenedBelow, NEW record \in Records, LandsOpen(record),
         NEW c \in Nat \X Nat
  PROVE  /\ c \in phase'.session.skipped =>
              c # Coordinate(record) /\ Reached(phase'.session, c[1], c[2])
         /\ Reached(phase'.session, record.dh, record.n)
         /\ Reached(phase.session, c[1], c[2]) =>
              /\ Reached(phase'.session, c[1], c[2])
              /\ c \in phase'.session.skipped => c \in phase.session.skipped
  <1>. DEFINE s == phase.session
              t == phase'.session
  <1>1. /\ phase.kind = "Established" /\ s.peer \in Nat /\ s.nr \in Nat
        /\ s.skipped \subseteq Nat \X Nat
    BY OpenParts DEF Session
  <1>2. /\ record.dh \in Nat /\ record.pn \in Nat /\ record.n \in Nat
        /\ c[1] \in Nat /\ c[2] \in Nat /\ c = <<c[1], c[2]>>
        /\ Coordinate(record) \in Nat \X Nat
        /\ Coordinate(record)[1] = record.dh /\ Coordinate(record)[2] = record.n
    BY RecordAssumption DEF Coordinate
  <1>3. /\ c \in s.skipped => Reached(s, c[1], c[2])
        /\ Coordinate(record) \in s.skipped => Reached(s, record.dh, record.n)
    BY <1>1, <1>2 DEF OpenedBelow
  <1>4. Kept(record) \/ OnThisChain(record) \/ OnNextChain(record)
    BY OpenParts
  <1>5. \A dh, from \in Nat, to \in Nat :
          c \in Skipping(dh, from, to) <=> c[1] = dh /\ from <= c[2] /\ c[2] < to
    BY SkippingMember
  <1>6. CASE Kept(record)
    BY <1>3, <1>6 DEF Kept, Reached
  <1>7. CASE OnThisChain(record)
    <2>1. t.peer = s.peer /\ record.dh = s.peer /\ t.nr = record.n + 1 /\ record.n >= s.nr
      BY <1>7 DEF OnThisChain
    <2>2. c \in t.skipped => \/ c \in s.skipped /\ c # Coordinate(record)
                             \/ c[1] = s.peer /\ s.nr <= c[2] /\ c[2] < record.n
      BY <1>1, <1>2, <1>5, <1>7 DEF OnThisChain
    <2>. QED
      BY <1>1, <1>2, <1>3, <2>1, <2>2 DEF Reached
  <1>8. CASE OnNextChain(record)
    <2>1. t.peer = record.dh /\ record.dh > s.peer /\ t.nr = record.n + 1
      BY <1>8 DEF OnNextChain
    <2>2. c \in t.skipped => \/ c \in s.skipped
                             \/ c[1] = s.peer /\ s.nr <= c[2] /\ c[2] < record.pn
                             \/ c[1] = record.dh /\ c[2] < record.n
      BY <1>1, <1>2, <1>5, <1>8 DEF OnNextChain
    <2>. QED
      BY <1>1, <1>2, <1>3, <2>1, <2>2 DEF Reached
  <1>. QED
    BY <1>4, <1>6, <1>7, <1>8

LEMMA OpeningStep ==
  ASSUME IInv, IInv', PlansMade, Fetched, Unopened, OpenedBelow, [Next]_vars
  PROVE  OpenedBelow'
  <1>1. CASE Rests
    BY <1>1 DEF Rests, OpenedBelow
  <1>2. ASSUME NEW p \in Procs, Lands(p)
        PROVE  OpenedBelow'
    <2>1. LandsEarly \/ LandsLate \/ LandsDelete
      BY <1>2, Landing
    <2>2. CASE LandsEarly
      <3>1. Ever' = {}
        BY <1>2, <2>2, PendingOnLanding, EverOnLanding
      <3>. QED
        BY <2>2, <3>1, OpensFresh DEF OpenedBelow
    <2>3. ASSUME phase.kind = "Established", phase'.session.peer = phase.session.peer,
                 phase'.session.nr = phase.session.nr,
                 phase'.session.skipped = phase.session.skipped,
                 \A i \in Ever' : i.kind = "Plaintext" => i \in Ever
          PROVE  OpenedBelow'
      BY <2>3 DEF OpenedBelow, Reached
    <2>4. ASSUME NEW body \in Bodies, NEW x \in XHandles, LandsSeal(body, x)
          PROVE  OpenedBelow'
      BY <1>2, <2>3, <2>4, SealParts, SealsOne
    <2>5. ASSUME NEW record \in Records, LandsOpen(record)
          PROVE  OpenedBelow'
      <3>1. phase.kind = "Established" /\ phase'.session.skipped \subseteq Nat \X Nat
        <4>1. phase.kind = "Established" /\ phase'.kind = "Established"
          BY <2>5, OpenParts
        <4>2. phase' \in Phase /\ PhaseShape(phase')
          BY DEF IInv, TypeOK, PhaseShape
        <4>3. phase'.session \in Session
          BY <4>1, <4>2 DEF PhaseShape, Phase
        <4>. QED
          BY <4>1, <4>3 DEF Session
      <3>2. ASSUME NEW i \in Ever', i.kind = "Plaintext"
            PROVE  /\ Reached(phase'.session, i.record.dh, i.record.n)
                   /\ Coordinate(i.record) \notin phase'.session.skipped
        <4>1. CASE i.record = record
          BY <2>5, <4>1, OpenedCoordinates, RecordAssumption DEF Coordinate
        <4>2. CASE i.record # record
          <5>1. i \in Ever
            BY <1>2, <2>5, <4>2, OpensOne
          <5>2. /\ i.record.dh \in Nat /\ i.record.n \in Nat
                /\ Coordinate(i.record) \in Nat \X Nat
                /\ Coordinate(i.record)[1] = i.record.dh
                /\ Coordinate(i.record)[2] = i.record.n
            BY <3>2, <5>1, EverTypes, ItemFields DEF Coordinate
          <5>3. /\ Reached(phase.session, i.record.dh, i.record.n)
                /\ Coordinate(i.record) \notin phase.session.skipped
            BY <3>1, <3>2, <5>1 DEF OpenedBelow
          <5>. QED
            BY <2>5, <5>2, <5>3, OpenedCoordinates
        <4>. QED
          BY <4>1, <4>2
      <3>3. \A c \in phase'.session.skipped : Reached(phase'.session, c[1], c[2])
        BY <2>5, <3>1, OpenedCoordinates
      <3>. QED
        BY <3>2, <3>3 DEF OpenedBelow
    <2>6. CASE LandsBootstrap
      <3>1. /\ phase.kind = "Established" /\ phase'.session = phase.session
            /\ pending' = pending
        BY <2>6 DEF LandsBootstrap, Continues, Moves
      <3>2. Ever' \subseteq Ever
        BY <1>2, <3>1, EverOnLanding DEF Ever
      <3>. QED
        BY <2>3, <3>1, <3>2
    <2>7. CASE LandsDelete
      BY <2>7 DEF LandsDelete, Moves, OpenedBelow
    <2>. QED
      BY <2>1, <2>2, <2>4, <2>5, <2>6, <2>7 DEF LandsLate
  <1>. QED
    BY <1>1, <1>2, RestOrLand

\* Every number the receiving chain has passed has its key or its plaintext.
LEMMA ReceivedStep ==
  ASSUME IInv, PlansMade, Fetched, Unopened, ReceivedBacked, [Next]_vars
  PROVE  ReceivedBacked'
  <1>. DEFINE Backed(d, n) == \/ <<d, n>> \in phase.session.skipped
                              \/ \E i \in pending \cup delivered :
                                   i.kind = "Plaintext" /\ Coordinate(i.record) = <<d, n>>
  <1>1. CASE Rests
    <2>1. phase' = phase /\ pending \cup delivered \subseteq pending' \cup delivered'
      BY <1>1 DEF Rests
    <2>. QED
      BY <2>1 DEF ReceivedBacked
  <1>2. ASSUME NEW p \in Procs, Lands(p)
        PROVE  ReceivedBacked'
    <2>1. (LandsEarly \/ LandsLate \/ LandsDelete) /\ delivered' = delivered
      BY <1>2, Landing, EverOnLanding
    <2>2. CASE LandsEarly
      BY <2>2, OpensFresh DEF ReceivedBacked
    <2>3. ASSUME phase.kind = "Established", phase'.session.peer = phase.session.peer,
                 phase'.session.nr = phase.session.nr,
                 phase'.session.skipped = phase.session.skipped, pending \subseteq pending'
          PROVE  ReceivedBacked'
      BY <2>1, <2>3 DEF ReceivedBacked
    <2>4. ASSUME NEW body \in Bodies, NEW x \in XHandles, LandsSeal(body, x)
          PROVE  ReceivedBacked'
      BY <2>3, <2>4, SealParts
    <2>5. ASSUME NEW record \in Records, LandsOpen(record)
          PROVE  ReceivedBacked'
      <3>. DEFINE item == [kind |-> "Plaintext", record |-> record]
      <3>1. /\ phase.kind = "Established" /\ pending \subseteq pending' /\ item \in pending'
            /\ phase.session.peer \in Nat /\ phase.session.nr \in Nat
            /\ record.dh \in Nat /\ record.pn \in Nat /\ record.n \in Nat
        BY <2>5, OpenParts, RecordAssumption DEF Session
      <3>2. item.kind = "Plaintext" /\ Coordinate(item.record) = <<record.dh, record.n>>
        BY DEF Coordinate
      <3>3. SUFFICES ASSUME NEW n \in 0..(phase'.session.nr - 1), n # record.n
                                                  \/ phase'.session.peer # record.dh
                     PROVE  \/ <<phase'.session.peer, n>> \in phase'.session.skipped
                            \/ \E i \in pending' \cup delivered' :
                                 /\ i.kind = "Plaintext"
                                 /\ Coordinate(i.record) = <<phase'.session.peer, n>>
        BY <3>1, <3>2 DEF ReceivedBacked
      <3>4. ASSUME n \in 0..(phase.session.nr - 1)
            PROVE  Backed(phase.session.peer, n)
        BY <3>1, <3>4 DEF ReceivedBacked
      <3>5. CASE Kept(record)
        <4>1. Backed(phase.session.peer, n)
          BY <3>4, <3>5 DEF Kept
        <4>2. Coordinate(record) # <<phase.session.peer, n>>
          BY <3>3, <3>5 DEF Kept, Coordinate
        <4>. QED
          BY <2>1, <3>1, <3>5, <4>1, <4>2 DEF Kept
      <3>6. CASE OnThisChain(record)
        <4>1. CASE n \in 0..(phase.session.nr - 1)
          BY <2>1, <3>1, <3>4, <3>6, <4>1 DEF OnThisChain
        <4>2. CASE n \notin 0..(phase.session.nr - 1)
          <5>1. n \in phase.session.nr..(record.n - 1)
            BY <3>1, <3>3, <3>6, <4>2 DEF OnThisChain
          <5>. QED
            BY <3>6, <5>1 DEF OnThisChain, Skipping
        <4>. QED
          BY <4>1, <4>2
      <3>7. CASE OnNextChain(record)
        <4>1. n \in 0..(record.n - 1)
          BY <3>1, <3>3, <3>7 DEF OnNextChain
        <4>. QED
          BY <3>7, <4>1 DEF OnNextChain, Skipping
      <3>. QED
        BY <2>5, <3>5, <3>6, <3>7, OpenParts
    <2>6. CASE LandsBootstrap
      <3>1. /\ phase.kind = "Established" /\ phase'.session = phase.session
            /\ pending' = pending
        BY <2>6 DEF LandsBootstrap, Continues, Moves
      <3>. QED
        BY <2>3, <3>1
    <2>7. CASE LandsDelete
      BY <2>7 DEF LandsDelete, Moves, ReceivedBacked
    <2>. QED
      BY <2>1, <2>2, <2>4, <2>5, <2>6, <2>7 DEF LandsLate
  <1>. QED
    BY <1>1, <1>2, RestOrLand

\* Every flow that was applied has its effect, and no flow has two.
LEMMA EffectsStep ==
  ASSUME IInv, PlansMade, Fetched, Unopened, EffectsBelow, EffectsAccounted, [Next]_vars
  PROVE  EffectsBelow' /\ EffectsAccounted'
  <1>1. CASE Rests
    <2>1. /\ phase' = phase /\ pending \cup delivered \subseteq pending' \cup delivered'
          /\ Ever' \subseteq Ever
      BY <1>1 DEF Rests
    <2>. QED
      BY <2>1 DEF EffectsBelow, EffectsAccounted
  <1>2. ASSUME NEW p \in Procs, Lands(p)
        PROVE  EffectsBelow' /\ EffectsAccounted'
    <2>1. (LandsEarly \/ LandsLate \/ LandsDelete) /\ delivered' = delivered
      BY <1>2, Landing, EverOnLanding
    <2>2. CASE LandsEarly
      <3>1. Ever' = {}
        BY <1>2, <2>2, PendingOnLanding, EverOnLanding
      <3>. QED
        BY <2>2, <3>1, OpensFresh DEF EffectsBelow, EffectsAccounted
    <2>3. ASSUME phase.kind = "Established", phase'.caps = phase.caps \/ phase'.caps = 1,
                 phase.caps \in Nat, phase.caps = 0 \/ phase'.caps = phase.caps,
                 pending \subseteq pending',
                 \A i \in Ever' : i.kind = "Effect" => i \in Ever
          PROVE  EffectsBelow' /\ EffectsAccounted'
      <3>1. \A i \in Ever : i.kind = "Effect" => i.flow < phase.caps /\ i.flow \in Nat
        BY <2>3, EverTypes, ItemFields DEF EffectsBelow
      <3>2. EffectsBelow'
        BY <2>3, <3>1 DEF EffectsBelow
      <3>3. \A f \in 1..(phase'.caps - 1) : f \in 1..(phase.caps - 1)
        BY <2>3
      <3>. QED
        BY <2>1, <2>3, <3>2, <3>3 DEF EffectsAccounted
    <2>4. ASSUME NEW body \in Bodies, NEW x \in XHandles, LandsSeal(body, x)
          PROVE  EffectsBelow' /\ EffectsAccounted'
      <3>1. phase.kind = "Established" /\ phase.caps \in Nat /\ pending \subseteq pending'
        BY <2>4, SealParts
      <3>2. \A i \in Ever' : i.kind = "Effect" =>
              \/ i \in Ever
              \/ i.flow = phase.caps /\ phase'.caps = phase.caps + 1
        BY <1>2, <2>4, SealsOne
      <3>3. CASE phase'.caps = phase.caps
        BY <2>3, <3>1, <3>2, <3>3
      <3>4. CASE phase'.caps = phase.caps + 1
        <4>1. [kind |-> "Effect", flow |-> phase.caps] \in pending'
          BY <2>4, <3>1, <3>4, SealParts DEF Effects
        <4>2. \A i \in Ever : i.kind = "Effect" => i.flow < phase.caps /\ i.flow \in Nat
          BY <3>1, EverTypes, ItemFields DEF EffectsBelow
        <4>3. EffectsBelow'
          BY <3>1, <3>2, <3>4, <4>2 DEF EffectsBelow
        <4>4. \A f \in 1..(phase'.caps - 1) : f = phase.caps \/ f \in 1..(phase.caps - 1)
          BY <3>1, <3>4
        <4>. QED
          BY <2>1, <3>1, <4>1, <4>3, <4>4 DEF EffectsAccounted
      <3>. QED
        BY <2>4, <3>3, <3>4, SealParts
    <2>5. ASSUME NEW record \in Records, LandsOpen(record)
          PROVE  EffectsBelow' /\ EffectsAccounted'
      <3>1. \A i \in Ever' : i.kind = "Effect" => i \in Ever
        BY <1>2, <2>5, OpensOne
      <3>2. phase.caps \in Nat
        BY DEF IInv, TypeOK, Phase
      <3>. QED
        BY <2>3, <2>5, <3>1, <3>2, OpenParts
    <2>6. CASE LandsBootstrap
      <3>1. /\ phase.kind = "Established" /\ phase.caps = 0 /\ phase'.caps = 1
            /\ pending' = pending
        BY <2>6 DEF LandsBootstrap, Continues, Moves
      <3>2. Ever' \subseteq Ever
        BY <1>2, <3>1, EverOnLanding DEF Ever
      <3>. QED
        BY <2>3, <3>1, <3>2
    <2>7. CASE LandsDelete
      BY <2>7 DEF LandsDelete, Moves, EffectsBelow, EffectsAccounted
    <2>. QED
      BY <2>1, <2>2, <2>4, <2>5, <2>6, <2>7 DEF LandsLate
  <1>. QED
    BY <1>1, <1>2, RestOrLand

-----------------------------------------------------------------------------
(* The strengthened invariant                                              *)

LEMMA RInvInit == Init => RInv
  <1>1. SUFFICES ASSUME Init PROVE RInv
    OBVIOUS
  <1>2. IInv
    BY <1>1, InitInvariant
  <1>3. \A p \in Procs : ~Planning(p) /\ ~Delivering(p)
    BY <1>1 DEF Init, Planning, Delivering
  <1>4. /\ Ever = {} /\ pending = {} /\ delivered = {} /\ answered = {}
        /\ phase.kind \in {"InitiatorNew", "ResponderReady"} /\ phase.caps = 0
        /\ phase.kind = "InitiatorNew" <=> Role = "Initiator"
    BY <1>1, <1>3, RoleAssumption DEF Init, Ever, InitialPhase, EmptyPhase
  <1>5. PlansMade /\ Fetched
    BY <1>3 DEF PlansMade, Fetched, Delivering
  <1>6. Unopened
    BY <1>4, RoleAssumption DEF Unopened
  <1>7. AnswersDurable /\ AnswersAgree /\ EntropySpent
    BY <1>4 DEF AnswersDurable, AnswersAgree, EntropySpent
  <1>8. KeysSpent /\ KeysApart
    BY <1>4 DEF KeysSpent, KeysApart
  <1>9. /\ OpenedBelow /\ EffectsBelow /\ SendingFresh
        /\ SentBacked /\ ReceivedBacked /\ EffectsAccounted
    BY <1>4 DEF OpenedBelow, EffectsBelow, SendingFresh, SentBacked, ReceivedBacked,
       EffectsAccounted
  <1>. QED
    BY <1>2, <1>5, <1>6, <1>7, <1>8, <1>9 DEF RInv

LEMMA RInvStep == RInv /\ [Next]_vars => RInv'
  <1>1. SUFFICES ASSUME RInv, [Next]_vars PROVE RInv'
    OBVIOUS
  <1>2. IInv' /\ IInv
    BY <1>1, NextInvariant DEF RInv
  <1>3. PlansMade' /\ Unopened' /\ Fetched'
    BY <1>1, PlansMadeStep, UnopenedStep, FetchedStep DEF RInv
  <1>4. AnswersDurable' /\ AnswersAgree' /\ EntropySpent'
    BY <1>1, <1>2, AnswersStep, EntropyStep DEF RInv
  <1>5. KeysSpent' /\ KeysApart' /\ SendingFresh' /\ SentBacked'
    BY <1>1, KeysSpentStep, KeysApartStep, SendingStep DEF RInv
  <1>6. OpenedBelow' /\ ReceivedBacked' /\ EffectsBelow' /\ EffectsAccounted'
    BY <1>1, <1>2, OpeningStep, ReceivedStep, EffectsStep DEF RInv
  <1>. QED
    BY <1>2, <1>3, <1>4, <1>5, <1>6 DEF RInv

\* Every reachable state satisfies the strengthened invariant: what callers were
\* told and what was produced stay in step with the one durable state, whatever
\* the processes of the backend race, lose, repeat or recover.
THEOREM StateAndHistoryInStep == Spec => []RInv
  BY RInvInit, RInvStep, PTL DEF Spec

\* An answer of admit_prekey, accept_first_packet or create_first_packet stays
\* true of the durable state.
THEOREM AnswersStayTrue == Spec => []AnswersDurable
  <1>1. RInv => AnswersDurable
    BY DEF RInv
  <1>. QED
    BY <1>1, StateAndHistoryInStep, PTL

\* No two callers of the same operation are told different things.
THEOREM AnswersNeverDiffer == Spec => []AnswersAgree
  <1>1. RInv => AnswersAgree
    BY DEF RInv
  <1>. QED
    BY <1>1, StateAndHistoryInStep, PTL

\* The entropy of a first packet is destroyed by the commit that stores the packet,
\* before anybody can be told of it.
THEOREM EntropyIsSpent == Spec => []EntropySpent
  <1>1. RInv => EntropySpent
    BY DEF RInv
  <1>. QED
    BY <1>1, StateAndHistoryInStep, PTL

\* No two packets of a party, durable or handed over, are sealed with the same
\* message key.
THEOREM MessageKeysSealOnce == Spec => []MessageKeyOnce
  <1>1. RInv => MessageKeyOnce
    BY DEF RInv, KeysApart, MessageKeyOnce, Ever
  <1>. QED
    BY <1>1, StateAndHistoryInStep, PTL

\* The sending chain has no hole that no packet fills.
THEOREM EveryNumberSent == Spec => []SentBacked
  <1>1. RInv => SentBacked
    BY DEF RInv
  <1>. QED
    BY <1>1, StateAndHistoryInStep, PTL

\* Receiving destroys no key whose plaintext is not on its way to the reader.
THEOREM EveryRecordReceived == Spec => []ReceivedBacked
  <1>1. RInv => ReceivedBacked
    BY DEF RInv
  <1>. QED
    BY <1>1, StateAndHistoryInStep, PTL

\* Every applied capability flow has its effect pending or applied.
THEOREM EveryEffectAccounted == Spec => []EffectsAccounted
  <1>1. RInv => EffectsAccounted
    BY DEF RInv
  <1>. QED
    BY <1>1, StateAndHistoryInStep, PTL

-----------------------------------------------------------------------------
(* Nothing is lost, nothing comes back                                     *)

\* What a landed commit adds was never there before: its key, its coordinate or
\* its flow number is new.
LEMMA ProducesAnew ==
  ASSUME RInv, LandsLate, NEW i \in pending' \ pending
  PROVE  i \notin Ever
  <1>. USE DEF RInv
  <1>1. ASSUME NEW body \in Bodies, NEW x \in XHandles, LandsSeal(body, x)
        PROVE  i \notin Ever
    <2>1. i = SealedItem(body, x) \/ i = [kind |-> "Effect", flow |-> phase.caps]
      BY <1>1, SealParts DEF Effects
    <2>2. CASE i = SealedItem(body, x)
      <3>1. i.kind = "Packet" /\ i.x = x /\ i.n = phase.session.ns
        BY <2>2 DEF SealedItem
      <3>. QED
        BY <1>1, <3>1, SealsAnew
    <2>3. CASE i = [kind |-> "Effect", flow |-> phase.caps]
      <3>1. i.kind = "Effect" /\ i.flow = phase.caps /\ phase.caps \in Nat
            /\ phase.kind = "Established"
        BY <1>1, <2>3, SealParts
      <3>. QED
        BY <3>1 DEF EffectsBelow
    <2>. QED
      BY <2>1, <2>2, <2>3
  <1>2. ASSUME NEW record \in Records, LandsOpen(record)
        PROVE  i \notin Ever
    <2>1. i.kind = "Plaintext" /\ i.record = record
      BY <1>2, OpenParts
    <2>2. SUFFICES ASSUME i \in Ever PROVE FALSE
      OBVIOUS
    <2>3. /\ Reached(phase.session, record.dh, record.n)
          /\ Coordinate(record) \notin phase.session.skipped
      BY <1>2, <2>1, <2>2, OpenParts DEF OpenedBelow
    <2>4. phase.session.peer \in Nat /\ phase.session.nr \in Nat
          /\ record.dh \in Nat /\ record.n \in Nat
      BY <1>2, OpenParts, RecordAssumption DEF Session
    <2>5. Kept(record) \/ OnThisChain(record) \/ OnNextChain(record)
      BY <1>2, OpenParts
    <2>. QED
      BY <2>3, <2>4, <2>5 DEF Kept, OnThisChain, OnNextChain, Reached
  <1>3. ~LandsBootstrap
    BY DEF LandsBootstrap
  <1>. QED
    BY <1>1, <1>2, <1>3 DEF LandsLate

LEMMA LosesNothing ==
  RInv /\ [Next]_vars => [\A i \in pending \ pending' :
                             i \in delivered \/ phase'.kind = "Deleted"]_vars
  <1>1. ASSUME RInv, [Next]_vars, NEW i \in pending \ pending'
        PROVE  i \in delivered \/ phase'.kind = "Deleted"
    <2>1. CASE Tells
      BY <1>1, <2>1 DEF Tells, store
    <2>2. ASSUME NEW p \in Procs, Fetches(p) \/ Hands(p)
          PROVE  FALSE
      BY <1>1, <2>2 DEF Fetches, Hands, store
    <2>3. ASSUME NEW p \in Procs, Settles(p)
          PROVE  i \in delivered
      BY <1>1, <2>3 DEF Settles, RInv, Fetched
    <2>4. ASSUME NEW p \in Procs, Lands(p)
          PROVE  phase'.kind = "Deleted"
      BY <1>1, <2>4, Landing, PendingOnLanding DEF RInv
    <2>. QED
      BY <1>1, <2>1, <2>2, <2>3, <2>4, StepKinds DEF RInv
  <1>. QED
    BY <1>1

\* A pending item leaves the durable set only once its boundary took it, or with
\* the session: no stale commit of another process drops it.
THEOREM NothingLostSilently == Spec => NoSilentLoss
  BY LosesNothing, StateAndHistoryInStep, PTL DEF Spec, NoSilentLoss

LEMMA RevivesNothing ==
  RInv /\ [Next]_vars => [\A i \in pending' \ pending : i \notin delivered]_vars
  <1>1. ASSUME RInv, [Next]_vars, NEW i \in pending' \ pending
        PROVE  i \notin delivered
    <2>1. CASE Rests
      BY <1>1, <2>1 DEF Rests
    <2>2. ASSUME NEW p \in Procs, Lands(p)
          PROVE  i \notin delivered
      <3>1. LandsEarly \/ LandsLate \/ LandsDelete
        BY <1>1, <2>2, Landing DEF RInv
      <3>2. LandsLate
        BY <1>1, <3>1, PendingOnLanding DEF RInv, LandsDelete
      <3>. QED
        BY <1>1, <3>2, ProducesAnew DEF Ever
    <2>. QED
      BY <1>1, <2>1, <2>2, RestOrLand DEF RInv
  <1>. QED
    BY <1>1

\* No commit brings settled work back, and no record is released a second time by
\* a second receive.
THEOREM NothingComesBack == Spec => NoResurrection
  BY RevivesNothing, StateAndHistoryInStep, PTL DEF Spec, NoResurrection

-----------------------------------------------------------------------------
(* Staged handles, where no process crashes                                *)

\* In the hands of the caller of p, or of the call it is in.
InHand(p, h) == h \in held[p] \/ (Planning(p) /\ h \in plan[p].given)

\* A step of one process keeps every staged handle in somebody's hands if it
\* stages only what it takes in hand and lets go only of what is staged no more.
LEMMA AccountedStep ==
  ASSUME StagedAccounted, NEW q \in Procs,
         \A u \in Procs : u # q => held'[u] = held[u] /\ pc'[u] = pc[u] /\ plan'[u] = plan[u],
         \A h \in Handles : custody'[h] = "staged" =>
           InHand(q, h)' \/ (custody[h] = "staged" /\ ~InHand(q, h))
  PROVE  StagedAccounted'
  BY DEF StagedAccounted, InHand, Planning

LEMMA CallAccounts ==
  ASSUME IInv, StagedAccounted, NEW q \in Procs, Call(q)
  PROVE  StagedAccounted'
  <1>1. /\ custody \in [Handles -> Fates] /\ held \in [Procs -> SUBSET Handles]
        /\ pc \in [Procs -> {"closed"} \cup Returned \cup Busy]
        /\ plan \in [Procs -> Plan \cup Delivery \cup {None}]
    BY DEF IInv, TypeOK
  <1>2. pc[q] \in Returned
    BY CallMovesCaller
  <1>3. \A h : InHand(q, h) => h \in held[q]
    BY <1>2 DEF InHand, Planning, Returned
  <1>4. ASSUME NEW given, Refuse(q, given) \/ \E answer : Reply(q, given, answer)
        PROVE  StagedAccounted'
    <2>1. /\ \A u \in Procs : u # q =>
               held'[u] = held[u] /\ pc'[u] = pc[u] /\ plan'[u] = plan[u]
          /\ custody' = Abort(Stage(custody, given), given)
          /\ held'[q] = held[q] \ given
      BY <1>1, <1>4 DEF Refuse, Reply
    <2>2. \A h \in Handles : custody'[h] = "staged" => custody[h] = "staged" /\ h \notin given
      BY <1>1, <2>1 DEF Abort, Stage
    <2>3. \A h \in Handles : custody'[h] = "staged" =>
            InHand(q, h)' \/ (custody[h] = "staged" /\ ~InHand(q, h))
      BY <1>3, <2>1, <2>2 DEF InHand
    <2>. QED
      BY <2>1, <2>3, AccountedStep
  <1>5. ASSUME NEW op, NEW given, NEW spare, NEW next, NEW adopt, NEW delete,
               NEW work, NEW answer,
               Prepare(q, op, given, spare, next, adopt, delete, work, answer)
        PROVE  StagedAccounted'
    <2>1. /\ \A u \in Procs : u # q =>
               held'[u] = held[u] /\ pc'[u] = pc[u] /\ plan'[u] = plan[u]
          /\ custody' = Abort(Stage(custody, given \cup spare), spare)
          /\ held'[q] = held[q] \ (given \cup spare)
          /\ Planning(q)' /\ plan'[q].given = given
      BY <1>1, <1>5 DEF Prepare, Planning
    <2>2. \A h \in Handles : custody'[h] = "staged" =>
            h \in given \/ (custody[h] = "staged" /\ h \notin given \cup spare)
      BY <1>1, <2>1 DEF Abort, Stage
    <2>3. \A h \in Handles : custody'[h] = "staged" =>
            InHand(q, h)' \/ (custody[h] = "staged" /\ ~InHand(q, h))
      BY <1>3, <2>1, <2>2 DEF InHand
    <2>. QED
      BY <2>1, <2>3, AccountedStep
  <1>6. CASE AdmitPrekey(q)
    BY <1>4, <1>5, <1>6 DEF AdmitPrekey
  <1>7. CASE AcceptFirstPacket(q)
    BY <1>4, <1>5, <1>7 DEF AcceptFirstPacket
  <1>8. CASE CreateFirstPacket(q)
    BY <1>4, <1>5, <1>8 DEF CreateFirstPacket
  <1>9. CASE VerifySessionAccept(q) \/ SendRecord(q)
    BY <1>4, <1>5, <1>9 DEF VerifySessionAccept, SendRecord
  <1>10. CASE SendFirstRecord(q)
    BY <1>4, <1>5, <1>10 DEF SendFirstRecord
  <1>11. CASE ReceiveRecord(q)
    BY <1>4, <1>5, <1>11 DEF ReceiveRecord
  <1>12. CASE BootstrapCapabilities(q) \/ ApplyCapabilityFlow(q) \/ DeleteSession(q)
    BY <1>4, <1>5, <1>12 DEF BootstrapCapabilities, ApplyCapabilityFlow, DeleteSession
  <1>13. CASE Dispatch(q)
    <2>1. CASE Refuse(q, {})
      BY <1>4, <2>1
    <2>2. CASE ~Refuse(q, {})
      <3>1. /\ \A u \in Procs : u # q => pc'[u] = pc[u] /\ plan'[u] = plan[u]
            /\ held' = held /\ custody' = custody
        BY <1>1, <1>13, <2>2 DEF Dispatch
      <3>2. \A h \in Handles : InHand(q, h) => InHand(q, h)'
        BY <1>3, <3>1 DEF InHand
      <3>. QED
        BY <3>1, <3>2, AccountedStep
    <2>. QED
      BY <2>1, <2>2
  <1>. QED
    BY <1>6, <1>7, <1>8, <1>9, <1>10, <1>11, <1>12, <1>13 DEF Call

LEMMA ProceedAccounts ==
  ASSUME IInv, PlansMade, StagedAccounted, NEW q \in Procs, Proceed(q)
  PROVE  StagedAccounted'
  <1>1. /\ custody \in [Handles -> Fates] /\ held \in [Procs -> SUBSET Handles]
        /\ pc \in [Procs -> {"closed"} \cup Returned \cup Busy]
        /\ plan \in [Procs -> Plan \cup Delivery \cup {None}]
    BY DEF IInv, TypeOK
  <1>2. ASSUME Planning(q)
        PROVE  /\ plan[q] \in Plan /\ plan[q].given = plan[q].adopt
               /\ PlanSound(plan[q]) /\ plan[q].next \in Phase
    <2>1. plan[q] \in Plan /\ Planned(plan[q])
      BY <1>2 DEF IInv, TypeOK, Planning, PlansMade
    <2>2. plan[q].given = plan[q].adopt
      BY <2>1 DEF Planned, Publishes, Accepts, Creates, Completes, Converses, Deletes, Sends,
         SendsFirst, Flows, Receives, Bootstraps, OpensKept, OpensOnChain, OpensNextChain,
         Releases, Commits
    <2>. QED
      BY <1>2, <2>1, <2>2 DEF IInv, Plan
  <1>3. ASSUME Planning(q), Apply(plan[q])
        PROVE  \A h \in Handles : custody'[h] = "staged" =>
                 custody[h] = "staged" /\ h \notin plan[q].given
    BY <1>1, <1>2, <1>3 DEF Apply, Mutate
  <1>4. ASSUME held' = held, \A u \in Procs : u # q => pc'[u] = pc[u] /\ plan'[u] = plan[u],
               \A h \in Handles : custody'[h] = "staged" =>
                 /\ custody[h] = "staged"
                 /\ Planning(q) /\ h \in plan[q].given => InHand(q, h)'
        PROVE  StagedAccounted'
    <2>1. \A h \in Handles : h \in held[q] => InHand(q, h)'
      BY <1>4 DEF InHand
    <2>2. \A h \in Handles : custody'[h] = "staged" =>
            InHand(q, h)' \/ (custody[h] = "staged" /\ ~InHand(q, h))
      BY <1>4, <2>1 DEF InHand
    <2>. QED
      BY <1>4, <2>2, AccountedStep
  <1>5. CASE CasCommits(q)
    BY <1>1, <1>3, <1>4, <1>5 DEF CasCommits, Planning
  <1>6. CASE CasUncertain(q)
    BY <1>1, <1>3, <1>4, <1>6 DEF CasUncertain, Planning
  <1>7. CASE CasRejects(q)
    BY <1>1, <1>4, <1>7 DEF CasRejects, Planning, InHand
  <1>8. CASE CasMisreports(q) \/ RecoverUncertain(q) \/ RecoverLoadFails(q)
    <2>1. Planning(q) /\ StayUncertain(q) /\ (Apply(plan[q]) \/ custody' = custody)
      BY <1>8 DEF CasMisreports, RecoverUncertain, RecoverLoadFails, Planning
    <2>2. /\ \A u \in Procs : u # q =>
               held'[u] = held[u] /\ pc'[u] = pc[u] /\ plan'[u] = plan[u]
          /\ held'[q] = held[q] \cup plan[q].given
      BY <1>1, <2>1 DEF StayUncertain
    <2>3. \A h \in Handles : custody'[h] = "staged" => custody[h] = "staged"
      BY <1>3, <2>1
    <2>4. \A h \in Handles : InHand(q, h) => InHand(q, h)'
      BY <2>2 DEF InHand
    <2>. QED
      BY <2>2, <2>3, <2>4, AccountedStep
  <1>9. CASE RecoverCommitted(q)
    <2>1. Planning(q) /\ phase = plan[q].next /\ UNCHANGED <<custody, held>>
      BY <1>9 DEF RecoverCommitted, ObservesPlan, Planning
    <2>2. plan[q].given \subseteq Owned(phase) /\ phase \in Phase
      BY <1>2, <2>1 DEF PlanSound
    <2>3. \A h \in plan[q].given : custody[h] = "adopted"
      BY <2>2, OwnedHandles DEF IInv, HandleCoherence
    <2>. QED
      BY <1>1, <1>4, <1>9, <2>1, <2>3 DEF RecoverCommitted
  <1>10. CASE RecoverRejected(q)
    <2>1. \A h \in Handles : custody'[h] = "staged" =>
            custody[h] = "staged" /\ h \notin plan[q].given
      BY <1>1, <1>10 DEF RecoverRejected, Abort
    <2>. QED
      BY <1>1, <1>4, <1>10, <2>1 DEF RecoverRejected
  <1>11. CASE DeliverSucceeds(q) \/ DeliverFails(q) \/ SettleApplies(q) \/ SettleFails(q)
    <2>1. /\ \A u \in Procs : u # q => pc'[u] = pc[u] /\ plan'[u] = plan[u]
          /\ held' = held /\ custody' = custody /\ ~Planning(q)
      BY <1>1, <1>11 DEF DeliverSucceeds, DeliverFails, SettleApplies, SettleFails, Planning
    <2>. QED
      BY <1>4, <2>1
  <1>. QED
    BY <1>5, <1>6, <1>7, <1>8, <1>9, <1>10, <1>11 DEF Proceed

\* Where no process crashes, no staged handle is forgotten: every refusal, lost
\* swap, retry and reply aborts it or leaves it with its caller.
THEOREM StagedAreAccounted ==
  ASSUME "crash" \notin Faults
  PROVE  Spec => []StagedAccounted
  <1>1. Init => StagedAccounted
    BY DEF Init, StagedAccounted, Handles
  <1>2. ASSUME RInv, StagedAccounted, [Next]_vars
        PROVE  StagedAccounted'
    <2>1. CASE UNCHANGED vars
      BY <1>2, <2>1 DEF vars, StagedAccounted
    <2>2. ASSUME NEW q \in Procs, Open(q)
          PROVE  StagedAccounted'
      <3>1. /\ \A u \in Procs : u # q => pc'[u] = pc[u] /\ plan'[u] = plan[u]
            /\ held' = held /\ custody' = custody /\ ~Planning(q)
        BY <1>2, <2>2 DEF Open, Planning, RInv, IInv, TypeOK
      <3>2. \A h \in Handles : InHand(q, h) => InHand(q, h)'
        BY <3>1 DEF InHand
      <3>. QED
        BY <1>2, <3>1, <3>2, AccountedStep
    <2>3. ASSUME NEW q \in Procs, Crash(q)
          PROVE  FALSE
      BY <2>3 DEF Crash
    <2>4. ASSUME NEW q \in Procs, Call(q) \/ Proceed(q)
          PROVE  StagedAccounted'
      BY <1>2, <2>4, CallAccounts, ProceedAccounts DEF RInv
    <2>. QED
      BY <1>2, <2>1, <2>2, <2>3, <2>4 DEF Next
  <1>3. RInv /\ StagedAccounted /\ [Next]_vars => StagedAccounted'
    BY <1>2
  <1>. QED
    BY <1>1, <1>3, StateAndHistoryInStep, PTL DEF Spec

-----------------------------------------------------------------------------
(* Endpoint implements Conversation                                        *)

\* The stage a phase stands for.
LEMMA Stages ==
  ASSUME phase \in Phase
  PROVE  /\ StageOf = "new" <=> phase.kind \in {"InitiatorNew", "ResponderReady"}
         /\ StageOf = "awaiting" <=> phase.kind = "InitiatorAwaiting"
         /\ StageOf = "established" <=> phase.kind = "Established"
         /\ StageOf = "deleted" <=> phase.kind = "Deleted"
  BY DEF StageOf, Phase, Kinds

\* A commit that moves prekey and ratchet handles only touches no entropy.
LEMMA SpentKept ==
  ASSUME NEW adopt, NEW delete, Swaps(adopt, delete),
         adopt \cup delete \subseteq XHandles \cup KHandles
  PROVE  {e \in EHandles : custody'[e] = "deleted"} = {e \in EHandles : custody[e] = "deleted"}
  BY HandleAssumption DEF Swaps, Handles

LEMMA SpentRests ==
  ASSUME CustodyRests
  PROVE  {e \in EHandles : custody'[e] = "deleted"} = {e \in EHandles : custody[e] = "deleted"}
  BY DEF CustodyRests, Handles

LEMMA TellsMaps ==
  ASSUME RInv, Tells
  PROVE  Promised!Tell
  <1>1. /\ phase' = phase /\ pending' = pending /\ delivered' = delivered
        /\ StageOf' = StageOf
    BY DEF Tells, store, StageOf
  <1>2. {e \in EHandles : custody'[e] = "deleted"} = {e \in EHandles : custody[e] = "deleted"}
    BY SpentRests DEF Tells
  <1>3. phase \in Phase
    BY DEF RInv, IInv, TypeOK
  <1>4. \A a \in answered' \ answered : Promised!Holds(a)
    BY <1>3, Stages DEF Tells, Holds, Promised!Holds
  <1>5. answered \subseteq answered'
    BY DEF Tells
  <1>. QED
    BY <1>1, <1>2, <1>4, <1>5 DEF Promised!Tell

LEMMA PublishMaps ==
  ASSUME RInv, NEW bundle \in Prekey, LandsPublish(bundle), delivered' = delivered
  PROVE  Promised!Publish
  <1>1. /\ phase \in Phase /\ PhaseShape(phase) /\ HandleCoherence /\ Unopened
        /\ phase.kind = "ResponderReady"
    BY DEF RInv, IInv, TypeOK, LandsPublish
  <1>2. /\ phase'.kind = phase.kind /\ phase'.high = bundle.seq
        /\ phase'.active = phase.active \cup {bundle} /\ phase'.packet = phase.packet
        /\ pending' = pending /\ bundle.seq > phase.high
        /\ MayTell([type |-> "Bundle", val |-> bundle])
    BY DEF LandsPublish, Moves
  <1>3. Role = "Responder" /\ StageOf = "new" /\ StageOf' = StageOf
    BY <1>1, <1>2, Stages DEF Unopened, StageOf
  <1>4. bundle \notin phase.active
    <2>1. \A a \in phase.active : a.seq <= phase.high /\ a.seq \in Nat
      BY <1>1 DEF PhaseShape, Phase, Prekey
    <2>2. phase.high \in Nat
      BY <1>1 DEF Phase
    <2>. QED
      BY <1>2, <2>1, <2>2
  <1>5. \A other \in phase.active : other.x # bundle.x /\ other.k # bundle.k
    <2>1. custody[bundle.x] = "staged" /\ custody[bundle.k] = "staged"
      BY DEF LandsPublish, Swaps
    <2>2. ASSUME NEW other \in phase.active
          PROVE  custody[other.x] = "adopted" /\ custody[other.k] = "adopted"
      <3>1. /\ other.x \in Owned(phase) /\ other.k \in Owned(phase)
            /\ other.x \in XHandles /\ other.k \in KHandles
        BY <1>1 DEF Owned, Phase, Prekey
      <3>. QED
        BY <1>1, <3>1 DEF HandleCoherence
    <2>. QED
      BY <2>1, <2>2
  <1>6. {e \in EHandles : custody'[e] = "deleted"} = {e \in EHandles : custody[e] = "deleted"}
    BY SpentKept DEF LandsPublish, Prekey
  <1>7. answered' \in {answered, answered \cup {[type |-> "Bundle", val |-> bundle]}}
    BY <1>2 DEF MayTell
  <1>. QED
    BY <1>2, <1>3, <1>4, <1>5, <1>6, <1>7 DEF Promised!Publish, Promised!MayTell

LEMMA AcceptMaps ==
  ASSUME RInv, NEW packet \in InboundFirst, LandsAccept(packet), delivered' = delivered
  PROVE  Promised!Accept
  <1>1. phase \in Phase /\ Unopened /\ phase.kind = "ResponderReady"
    BY DEF RInv, IInv, TypeOK, LandsAccept
  <1>2. /\ phase'.kind = "Established" /\ phase'.high = phase.high /\ phase'.active = {}
        /\ phase'.packet = packet /\ packet.prekey \in phase.active /\ pending' = pending
        /\ MayTell([type |-> "Accept", val |-> packet])
    BY DEF LandsAccept, Moves
  <1>3. Role = "Responder" /\ StageOf = "new" /\ StageOf' = "established"
    BY <1>1, <1>2, Stages DEF Unopened, StageOf
  <1>4. {e \in EHandles : custody'[e] = "deleted"} = {e \in EHandles : custody[e] = "deleted"}
    BY <1>1, SpentKept, OwnedHandles DEF LandsAccept
  <1>. QED
    BY <1>2, <1>3, <1>4 DEF MayTell, Promised!Accept, Promised!MayTell

LEMMA CreateMaps ==
  ASSUME RInv, NEW packet \in OutboundFirst, LandsCreate(packet), delivered' = delivered
  PROVE  Promised!Create
  <1>1. phase \in Phase /\ Unopened /\ phase.kind = "InitiatorNew"
    BY DEF RInv, IInv, TypeOK, LandsCreate
  <1>2. /\ phase'.kind = "InitiatorAwaiting" /\ phase'.high = phase.high
        /\ phase'.active = phase.active /\ phase'.packet = packet /\ pending' = pending
        /\ MayTell([type |-> "First", val |-> packet])
        /\ Swaps({packet.x}, {packet.e})
    BY DEF LandsCreate, Moves
  <1>3. Role = "Initiator" /\ StageOf = "new" /\ StageOf' = "awaiting"
    BY <1>1, <1>2, Stages DEF Unopened, StageOf
  <1>4. packet.x \in XHandles /\ packet.e \in EHandles /\ custody[packet.e] = "adopted"
    BY <1>2 DEF OutboundFirst, Swaps
  <1>5. {e \in EHandles : custody'[e] = "deleted"}
          = {e \in EHandles : custody[e] = "deleted"} \cup {packet.e}
    BY <1>2, <1>4, HandleAssumption DEF Swaps, Handles
  <1>. QED
    BY <1>2, <1>3, <1>4, <1>5 DEF MayTell, Promised!Create, Promised!MayTell

LEMMA CompleteMaps ==
  ASSUME RInv, LandsComplete, delivered' = delivered
  PROVE  Promised!Complete
  <1>1. phase \in Phase /\ phase.kind = "InitiatorAwaiting"
    BY DEF RInv, IInv, TypeOK, LandsComplete
  <1>2. /\ phase'.kind = "Established" /\ phase'.high = phase.high
        /\ phase'.active = phase.active /\ phase'.packet = None /\ pending' = pending
        /\ answered' = answered /\ Swaps({}, {})
    BY DEF LandsComplete, Moves
  <1>3. StageOf = "awaiting" /\ StageOf' = "established"
    BY <1>1, <1>2, Stages DEF StageOf
  <1>4. {e \in EHandles : custody'[e] = "deleted"} = {e \in EHandles : custody[e] = "deleted"}
    BY <1>2, SpentKept
  <1>. QED
    BY <1>2, <1>3, <1>4 DEF Promised!Complete

LEMMA DeleteMaps ==
  ASSUME RInv, LandsDelete, delivered' = delivered
  PROVE  Promised!Delete
  <1>1. phase \in Phase /\ phase.kind # "Deleted"
    BY DEF RInv, IInv, TypeOK, LandsDelete
  <1>2. /\ phase'.kind = "Deleted" /\ phase'.high = phase.high
        /\ phase'.active = {} /\ phase'.packet = None /\ pending' = {}
        /\ answered' = answered /\ Swaps({}, Owned(phase))
    BY DEF LandsDelete, Moves
  <1>3. StageOf # "deleted" /\ StageOf' = "deleted"
    BY <1>1, <1>2, Stages DEF StageOf
  <1>4. {e \in EHandles : custody'[e] = "deleted"} = {e \in EHandles : custody[e] = "deleted"}
    BY <1>1, <1>2, SpentKept, OwnedHandles
  <1>. QED
    BY <1>2, <1>3, <1>4 DEF Promised!Delete

\* Continuing the session changes nothing of the conversation but its output.
LEMMA ContinuesMaps ==
  ASSUME phase \in Phase, NEW session, NEW caps, Continues(session, caps)
  PROVE  /\ StageOf = "established" /\ StageOf' = StageOf
         /\ phase'.high = phase.high /\ phase'.active = phase.active
         /\ phase'.packet = phase.packet /\ answered' = answered
  BY Stages DEF Continues, Moves, StageOf

LEMMA SealMaps ==
  ASSUME RInv, NEW body \in Bodies, NEW x \in XHandles, LandsSeal(body, x),
         delivered' = delivered
  PROVE  Promised!Produce
  <1>. DEFINE packet == SealedItem(body, x)
  <1>1. IInv /\ KeysSpent /\ phase \in Phase
    BY DEF RInv, IInv, TypeOK
  <1>2. /\ StageOf = "established" /\ StageOf' = StageOf
        /\ phase'.high = phase.high /\ phase'.active = phase.active
        /\ phase'.packet = phase.packet /\ answered' = answered
    BY <1>1, ContinuesMaps DEF LandsSeal
  <1>3. {e \in EHandles : custody'[e] = "deleted"} = {e \in EHandles : custody[e] = "deleted"}
    <2>1. phase.session.x \in XHandles
      BY <1>1, SealParts
    <2>. QED
      BY <2>1, SpentKept DEF LandsSeal
  <1>4. /\ packet.kind = "Packet" /\ packet.x = x /\ packet.n = phase.session.ns
        /\ pending \subseteq pending' /\ packet \in pending'
        /\ \A i \in pending' \ pending : i = packet \/ i.kind = "Effect"
    BY <1>1, SealParts DEF SealedItem, Effects
  <1>. HIDE DEF packet
  <1>5. Lacks(pending, "Packet")
    BY DEF LandsSeal
  <1>6. LandsLate
    BY DEF LandsLate
  <1>7. ASSUME NEW item \in pending' \ pending
        PROVE  /\ item \notin delivered
               /\ item.kind \in {"Packet", "Plaintext"} =>
                    {other \in pending' : other.kind = item.kind} = {item}
               /\ item.kind = "Packet" =>
                    \A other \in delivered :
                      other.kind = "Packet" => <<other.x, other.n>> # <<item.x, item.n>>
    <2>1. item \notin delivered
      BY <1>6, ProducesAnew DEF Ever
    <2>2. CASE item = packet
      <3>1. {other \in pending' : other.kind = item.kind} = {item}
        BY <1>4, <1>5, <2>2 DEF Lacks
      <3>2. \A other \in delivered :
              other.kind = "Packet" => ~(other.x = item.x /\ other.n = item.n)
        BY <1>1, <1>4, <2>2, SealsAnew DEF Ever
      <3>. QED
        BY <2>1, <3>1, <3>2
    <2>3. CASE item.kind = "Effect"
      BY <2>1, <2>3
    <2>. QED
      BY <1>4, <2>2, <2>3
  <1>. QED
    BY <1>2, <1>3, <1>4, <1>7 DEF Promised!Produce

LEMMA OpenMaps ==
  ASSUME RInv, NEW record \in Records, LandsOpen(record), delivered' = delivered
  PROVE  Promised!Produce
  <1>. DEFINE plaintext == [kind |-> "Plaintext", record |-> record]
  <1>1. IInv /\ phase \in Phase
    BY DEF RInv, IInv, TypeOK
  <1>2. /\ StageOf = "established" /\ StageOf' = StageOf
        /\ phase'.high = phase.high /\ phase'.active = phase.active
        /\ phase'.packet = phase.packet /\ answered' = answered
    BY <1>1, ContinuesMaps DEF LandsOpen
  <1>3. {e \in EHandles : custody'[e] = "deleted"} = {e \in EHandles : custody[e] = "deleted"}
    <2>1. phase.session.x \in XHandles
      BY <1>1, OpenParts
    <2>2. \A x \in XHandles : Swaps({x}, {phase.session.x}) =>
            {e \in EHandles : custody'[e] = "deleted"} = {e \in EHandles : custody[e] = "deleted"}
      BY <2>1, SpentKept
    <2>3. Swaps({}, {}) =>
            {e \in EHandles : custody'[e] = "deleted"} = {e \in EHandles : custody[e] = "deleted"}
      BY SpentKept
    <2>. QED
      BY <2>2, <2>3 DEF LandsOpen
  <1>4. plaintext.kind = "Plaintext" /\ pending' = pending \cup {plaintext}
        /\ Lacks(pending, "Plaintext") /\ LandsLate
    BY DEF LandsOpen, LandsLate
  <1>. HIDE DEF plaintext
  <1>5. ASSUME NEW item \in pending' \ pending
        PROVE  /\ item \notin delivered
               /\ item.kind \in {"Packet", "Plaintext"} =>
                    {other \in pending' : other.kind = item.kind} = {item}
               /\ item.kind = "Packet" =>
                    \A other \in delivered :
                      other.kind = "Packet" => <<other.x, other.n>> # <<item.x, item.n>>
    <2>1. item \notin delivered
      BY <1>4, ProducesAnew DEF Ever
    <2>2. {other \in pending' : other.kind = item.kind} = {item} /\ item.kind = "Plaintext"
      BY <1>4 DEF Lacks
    <2>. QED
      BY <2>1, <2>2
  <1>. QED
    BY <1>2, <1>3, <1>4, <1>5 DEF Promised!Produce

\* A landed commit is one operation of the conversation; that the session has
\* become capable of flows is nothing a caller of it can see.
LEMMA LandingMaps ==
  ASSUME RInv, NEW p \in Procs, Lands(p)
  PROVE  Promised!Next \/ UNCHANGED Promised!vars
  <1>1. IInv /\ PlansMade /\ phase \in Phase
    BY DEF RInv, IInv, TypeOK
  <1>2. (LandsEarly \/ LandsLate \/ LandsDelete) /\ delivered' = delivered
    BY <1>1, Landing, EverOnLanding
  <1>3. LandsEarly => Promised!Publish \/ Promised!Accept \/ Promised!Create \/ Promised!Complete
    BY <1>2, PublishMaps, AcceptMaps, CreateMaps, CompleteMaps DEF LandsEarly
  <1>4. LandsDelete => Promised!Delete
    BY <1>2, DeleteMaps
  <1>5. CASE LandsBootstrap
    <2>1. /\ StageOf' = StageOf /\ phase'.high = phase.high /\ phase'.active = phase.active
          /\ phase'.packet = phase.packet /\ answered' = answered
          /\ pending' = pending /\ Swaps({}, {})
      BY <1>1, <1>5, ContinuesMaps DEF LandsBootstrap
    <2>2. {e \in EHandles : custody'[e] = "deleted"} = {e \in EHandles : custody[e] = "deleted"}
      BY <2>1, SpentKept
    <2>. QED
      BY <1>2, <2>1, <2>2 DEF Promised!vars
  <1>6. LandsLate => Promised!Produce \/ LandsBootstrap
    BY <1>2, SealMaps, OpenMaps DEF LandsLate
  <1>. QED
    BY <1>2, <1>3, <1>4, <1>5, <1>6 DEF Promised!Next

LEMMA StepMaps ==
  ASSUME RInv, [Next]_vars
  PROVE  Promised!Next \/ UNCHANGED Promised!vars
  <1>1. IInv /\ PlansMade /\ Fetched /\ phase \in Phase
    BY DEF RInv, IInv, TypeOK
  <1>2. ASSUME phase' = phase
        PROVE  StageOf' = StageOf
    BY <1>2 DEF StageOf
  <1>3. CASE Tells
    BY <1>3, TellsMaps DEF Promised!Next
  <1>4. ASSUME NEW p \in Procs, Fetches(p)
        PROVE  UNCHANGED Promised!vars
    BY <1>2, <1>4 DEF Fetches, store, Promised!vars
  <1>5. ASSUME NEW p \in Procs, Lands(p)
        PROVE  Promised!Next \/ UNCHANGED Promised!vars
    BY <1>5, LandingMaps
  <1>6. ASSUME NEW p \in Procs, Hands(p)
        PROVE  Promised!Hand
    <2>1. plan[p].item \in pending \cup delivered \/ StageOf = "deleted"
      BY <1>1, <1>6, Stages DEF Hands, Fetched, Deleted
    <2>. QED
      BY <1>2, <1>6, <2>1 DEF Hands, store, Promised!Hand
  <1>7. ASSUME NEW p \in Procs, Settles(p)
        PROVE  Promised!Settle
    <2>1. plan[p].item \in pending \cap delivered
      BY <1>1, <1>7 DEF Settles, Fetched
    <2>. QED
      BY <1>2, <1>7, <2>1 DEF Settles, Promised!Settle
  <1>. QED
    BY <1>1, <1>3, <1>4, <1>5, <1>6, <1>7, StepKinds DEF Promised!Next

\* Whatever Endpoint's processes, races, failures and recoveries do, its callers
\* and the boundaries see a conversation that moves one whole operation at a time.
THEOREM EndpointImplementsConversation == Spec => Implements
  <1>1. Init => Promised!Init
    <2>1. SUFFICES ASSUME Init PROVE Promised!Init
      OBVIOUS
    <2>2. /\ phase = InitialPhase /\ pending = {} /\ delivered = {} /\ answered = {}
          /\ {e \in EHandles : custody[e] = "deleted"} = {}
      BY <2>1 DEF Init, Handles
    <2>3. StageOf = "new" /\ phase.high = 0 /\ phase.active = {} /\ phase.packet = None
      BY <2>2 DEF InitialPhase, EmptyPhase, StageOf
    <2>. QED
      BY <2>2, <2>3 DEF Promised!Init
  <1>2. RInv /\ [Next]_vars => [Promised!Next]_(Promised!vars)
    BY StepMaps
  <1>. QED
    BY <1>1, <1>2, StateAndHistoryInStep, PTL DEF Spec, Implements, Promised!Spec

\* The steps alone, which the runs that start from an established session check.
THEOREM StepsOfConversation == Spec => StepsImplement
  <1>1. RInv /\ [Next]_vars => [Promised!Next]_(Promised!vars)
    BY StepMaps
  <1>. QED
    BY <1>1, StateAndHistoryInStep, PTL DEF Spec, StepsImplement

-----------------------------------------------------------------------------
(* From an established session                                              *)

LEMMA SessionStarts ==
  ASSUME MaxRevision >= 2, MaxSeq >= 1, SessionInit
  PROVE  RInv
  <1>1. PICK x \in XHandles :
          /\ rev = 2 /\ pending = {} /\ delivered = {} /\ strayAborts = {}
          /\ pc = [p \in Procs |-> "open"]
          /\ plan = [p \in Procs |-> None]
          /\ held = [p \in Procs |-> {}]
          /\ \/ /\ Role = "Responder"
                /\ \E k \in KHandles, i \in Initiators :
                     LET bundle == [seq |-> 1, x |-> x, k |-> k]
                         packet == [prekey |-> bundle, from |-> i]
                     IN /\ phase = [EmptyPhase("Established") EXCEPT
                                      !.high = 1, !.packet = packet,
                                      !.session = NewSession(x, FALSE)]
                        /\ custody = [h \in Handles |-> CASE h = x -> "adopted"
                                                        [] h = k -> "deleted"
                                                        [] OTHER -> "free"]
                        /\ answered = {[type |-> "Bundle", val |-> bundle],
                                       [type |-> "Accept", val |-> packet]}
             \/ /\ Role = "Initiator"
                /\ \E e \in EHandles :
                     /\ phase = [EmptyPhase("Established") EXCEPT !.session = NewSession(x, TRUE)]
                     /\ custody = [h \in Handles |->
                                     CASE h = e -> "deleted"
                                     [] h \in {x} \cup (EHandles \ {e}) -> "adopted"
                                     [] OTHER -> "free"]
                     /\ answered = {[type |-> "First", val |-> [x |-> x, e |-> e]]}
    BY DEF SessionInit
  <1>2. \A p \in Procs : ~Planning(p) /\ ~Delivering(p)
    BY <1>1 DEF Planning, Delivering
  <1>3. /\ NewSession(x, TRUE) \in Session /\ NewSession(x, TRUE) # None
        /\ NewSession(x, FALSE) \in Session /\ NewSession(x, FALSE) # None
    <2>1. NewSession(x, TRUE) \in Session /\ NewSession(x, FALSE) \in Session
      BY DEF NewSession, Session
    <2>. QED
      BY <2>1, NoneAssumption
  <1>4. /\ phase.kind = "Established" /\ phase.active = {} /\ phase.caps = 0
        /\ \E initiator \in BOOLEAN : phase.session = NewSession(x, initiator)
        /\ phase.session # None
    BY <1>1, <1>3 DEF EmptyPhase
  <1>5. phase.session.x = x /\ phase.session.ns = 0 /\ phase.session.nr = 0
        /\ phase.session.skipped = {}
    BY <1>4 DEF NewSession
  <1>6. phase \in Phase /\ answered \subseteq Answer /\ custody \in [Handles -> Fates]
    <2>1. CASE Role = "Responder"
      <3>1. PICK k \in KHandles, i \in Initiators :
              /\ phase = [EmptyPhase("Established") EXCEPT
                            !.high = 1,
                            !.packet = [prekey |-> [seq |-> 1, x |-> x, k |-> k], from |-> i],
                            !.session = NewSession(x, FALSE)]
              /\ custody = [h \in Handles |-> CASE h = x -> "adopted" [] h = k -> "deleted"
                                              [] OTHER -> "free"]
              /\ answered = {[type |-> "Bundle", val |-> [seq |-> 1, x |-> x, k |-> k]],
                             [type |-> "Accept",
                              val |-> [prekey |-> [seq |-> 1, x |-> x, k |-> k], from |-> i]]}
        BY <1>1, <2>1
      <3>2. [seq |-> 1, x |-> x, k |-> k] \in Prekey
        BY BoundAssumption DEF Prekey
      <3>3. [prekey |-> [seq |-> 1, x |-> x, k |-> k], from |-> i] \in InboundFirst
        BY <3>2 DEF InboundFirst
      <3>4. phase \in Phase
        BY <1>3, <3>1, <3>3 DEF EmptyPhase, Phase, Kinds
      <3>. QED
        BY <3>1, <3>2, <3>3, <3>4 DEF Answer, Fates
    <2>2. CASE Role = "Initiator"
      <3>1. PICK e \in EHandles :
              /\ phase = [EmptyPhase("Established") EXCEPT !.session = NewSession(x, TRUE)]
              /\ custody = [h \in Handles |-> CASE h = e -> "deleted"
                                              [] h \in {x} \cup (EHandles \ {e}) -> "adopted"
                                              [] OTHER -> "free"]
              /\ answered = {[type |-> "First", val |-> [x |-> x, e |-> e]]}
        BY <1>1, <2>2
      <3>2. phase \in Phase
        BY <1>3, <3>1 DEF EmptyPhase, Phase, Kinds
      <3>3. answered \subseteq Answer
        BY <3>1 DEF Answer, OutboundFirst
      <3>. QED
        BY <3>1, <3>2, <3>3 DEF Fates
    <2>. QED
      BY <2>1, <2>2, RoleAssumption
  <1>7. \A h \in XHandles \cup KHandles : custody[h] = "adopted" <=> h = x
    BY <1>1, HandleAssumption DEF Handles
  <1>8. IInv
    <2>1. TypeOK
      <3>1. /\ rev = 2 /\ pending = {} /\ delivered = {} /\ strayAborts = {}
            /\ pc = [p \in Procs |-> "open"]
            /\ plan = [p \in Procs |-> None]
            /\ held = [p \in Procs |-> {}]
        BY <1>1
      <3>2. rev \in 0..MaxRevision
        BY <3>1, BoundAssumption
      <3>. QED
        BY <1>6, <3>1, <3>2 DEF TypeOK, Returned, Busy
    <2>2. Owned(phase) = {x}
      BY <1>4, <1>5 DEF Owned
    <2>3. HandleCoherence
      BY <1>7, <2>2 DEF HandleCoherence
    <2>4. PhaseShape(phase) /\ PairsDisjoint(phase.active) /\ ~Deleted
      BY <1>4 DEF PhaseShape, PairsDisjoint, Deleted
    <2>. QED
      BY <1>2, <2>1, <2>3, <2>4 DEF IInv
  <1>9. AnswersDurable /\ AnswersAgree /\ EntropySpent
    <2>1. CASE Role = "Responder"
      <3>1. PICK bundle, packet :
              /\ phase.high = 1 /\ bundle.seq = 1 /\ phase.packet = packet
              /\ answered = {[type |-> "Bundle", val |-> bundle],
                             [type |-> "Accept", val |-> packet]}
        BY <1>1, <2>1 DEF EmptyPhase
      <3>2. AnswersDurable /\ AnswersAgree
        BY <1>4, <3>1 DEF AnswersDurable, AnswersAgree
      <3>3. EntropySpent
        BY <1>4, <3>1 DEF EntropySpent
      <3>. QED
        BY <3>2, <3>3
    <2>2. CASE Role = "Initiator"
      <3>1. PICK e \in EHandles :
              /\ custody[e] = "deleted"
              /\ answered = {[type |-> "First", val |-> [x |-> x, e |-> e]]}
        <4>1. PICK e \in EHandles :
                /\ custody = [h \in Handles |-> CASE h = e -> "deleted"
                                                [] h \in {x} \cup (EHandles \ {e}) -> "adopted"
                                                [] OTHER -> "free"]
                /\ answered = {[type |-> "First", val |-> [x |-> x, e |-> e]]}
          BY <1>1, <2>2
        <4>2. e \in Handles /\ e \notin {x} \cup (EHandles \ {e})
          BY HandleAssumption DEF Handles
        <4>3. custody[e] = "deleted"
          BY <4>1, <4>2
        <4>. QED
          BY <4>1, <4>3
      <3>2. AnswersDurable /\ AnswersAgree
        BY <1>4, <3>1 DEF AnswersDurable, AnswersAgree
      <3>3. EntropySpent
        BY <1>4, <3>1 DEF EntropySpent
      <3>. QED
        BY <3>2, <3>3
    <2>. QED
      BY <2>1, <2>2, RoleAssumption
  <1>10. Ever = {}
    BY <1>1, <1>2 DEF Ever
  <1>11. PlansMade /\ Fetched /\ Unopened
    BY <1>1, <1>2, <1>4 DEF PlansMade, Fetched, Unopened
  <1>12. KeysSpent /\ KeysApart /\ OpenedBelow /\ EffectsBelow /\ SendingFresh
    BY <1>5, <1>10 DEF KeysSpent, KeysApart, OpenedBelow, EffectsBelow, SendingFresh
  <1>13. SentBacked /\ ReceivedBacked /\ EffectsAccounted
    BY <1>4, <1>5 DEF SentBacked, ReceivedBacked, EffectsAccounted
  <1>. QED
    BY <1>8, <1>9, <1>11, <1>12, <1>13 DEF RInv

\* The same holds of an Endpoint that is opened on a session under way.
THEOREM SessionsInStep ==
  ASSUME MaxRevision >= 2, MaxSeq >= 1
  PROVE  SessionSpec => [](RInv /\ MessageKeyOnce)
  <1>1. SessionInit => RInv
    BY SessionStarts
  <1>2. RInv => MessageKeyOnce
    BY DEF RInv, KeysApart, MessageKeyOnce, Ever
  <1>. QED
    BY <1>1, <1>2, RInvStep, PTL DEF SessionSpec

\* A session under way loses nothing, revives nothing, ends for good, and moves
\* as a Conversation does.
THEOREM SessionsConverse ==
  ASSUME MaxRevision >= 2, MaxSeq >= 1
  PROVE  SessionSpec => NoSilentLoss /\ NoResurrection /\ DeletionFinal /\ StepsImplement
  <1>1. SessionSpec => []RInv
    BY SessionsInStep, PTL
  <1>2. RInv /\ [Next]_vars => [Promised!Next]_(Promised!vars)
    BY StepMaps
  <1>3. RInv => IInv
    BY DEF RInv
  <1>4. SessionSpec => NoSilentLoss
    BY <1>1, LosesNothing, PTL DEF SessionSpec, NoSilentLoss
  <1>5. SessionSpec => NoResurrection
    BY <1>1, RevivesNothing, PTL DEF SessionSpec, NoResurrection
  <1>6. SessionSpec => DeletionFinal
    BY <1>1, <1>3, NothingAfterDeletion, PTL DEF SessionSpec, DeletionFinal
  <1>7. SessionSpec => StepsImplement
    BY <1>1, <1>2, PTL DEF SessionSpec, StepsImplement
  <1>. QED
    BY <1>4, <1>5, <1>6, <1>7

=============================================================================
