--------------------------- MODULE EndpointRefinement ---------------------------
(***************************************************************************)
(* Endpoint, with all its processes, races and recoveries, implements       *)
(* Conversation: a step of the conversation is the one swap or settlement   *)
(* that is applied, the boundary's acceptance, or the moment a caller hears *)
(* of it; loads, refusals, rejected swaps and crashes are stuttering steps. *)
(***************************************************************************)
EXTENDS Endpoint

StageOf ==
  CASE phase.kind \in {"InitiatorNew", "ResponderReady"} -> "new"
    [] phase.kind = "InitiatorAwaiting" -> "awaiting"
    [] phase.kind = "Established" -> "established"
    [] phase.kind = "Deleted" -> "deleted"

Promised == INSTANCE Conversation WITH
  stage  <- StageOf,
  top    <- phase.high,
  offers <- phase.active,
  first  <- phase.packet,
  spent  <- {e \in EHandles : custody[e] = "deleted"},
  outbox <- pending,
  handed <- delivered,
  told   <- answered

\* Endpoint implements Conversation: whatever other processes do between the
\* load, the swap and the recovery of commit_replacing_pending, callers see a
\* conversation that moves one whole operation at a time.
Implements == Promised!Spec

\* The same from a session that is already established.
StepsImplement == [][Promised!Next]_(Promised!vars)

-----------------------------------------------------------------------------
(* The commit of each operation, in terms of the plan that carries it       *)

\* Everything in a plan but the snapshot it was made from.
Commits(pl, next, work, adopt, delete, answer) ==
  /\ pl.next = next
  /\ pl.work = work
  /\ pl.adopt = adopt /\ pl.given = adopt
  /\ pl.delete = delete
  /\ pl.answer = answer

Lacks(items, kind) == \A i \in items : i.kind # kind

Publishes(pl) ==
  /\ pl.phase.kind = "ResponderReady"
  /\ \E bundle \in Prekey :
       /\ bundle.seq > pl.phase.high
       /\ Commits(pl, [pl.phase EXCEPT !.high = bundle.seq, !.active = @ \cup {bundle}],
                  pl.pending, {bundle.x, bundle.k}, {}, [type |-> "Bundle", val |-> bundle])

Accepts(pl) ==
  /\ pl.phase.kind = "ResponderReady"
  /\ pl.delete \subseteq Owned(pl.phase)
  /\ \E packet \in InboundFirst :
       /\ packet.prekey \in pl.phase.active
       /\ Commits(pl, [pl.phase EXCEPT !.kind = "Established", !.active = {},
                                       !.packet = packet,
                                       !.session = NewSession(packet.prekey.x, FALSE)],
                  pl.pending, {}, pl.delete, [type |-> "Accept", val |-> packet])

Creates(pl) ==
  /\ pl.phase.kind = "InitiatorNew"
  /\ \E packet \in OutboundFirst :
       Commits(pl, [pl.phase EXCEPT !.kind = "InitiatorAwaiting", !.packet = packet,
                                    !.session = NewSession(packet.x, TRUE)],
               pl.pending, {packet.x}, {packet.e}, [type |-> "First", val |-> packet])

Completes(pl) ==
  /\ pl.phase.kind = "InitiatorAwaiting"
  /\ Commits(pl, [pl.phase EXCEPT !.kind = "Established", !.packet = None],
             pl.pending, {}, {}, None)

Sends(pl) ==
  /\ Lacks(pl.pending, "Packet")
  /\ pl.phase.session.sending
  /\ \E body \in Bodies :
       Commits(pl, [pl.phase EXCEPT !.session = AfterSend(@)],
               pl.pending \cup {Sealed(pl.phase.session, body)}, {}, {}, None)

SendsFirst(pl) ==
  /\ Lacks(pl.pending, "Packet")
  /\ ~pl.phase.session.sending
  /\ \E body \in Bodies, x \in XHandles :
       LET s == Bootstrapped(pl.phase.session, x) IN
       Commits(pl, [pl.phase EXCEPT !.session = AfterSend(s)],
               pl.pending \cup {Sealed(s, body)}, {x}, {pl.phase.session.x}, None)

Flows(pl) ==
  /\ Lacks(pl.pending, "Packet")
  /\ pl.phase.session.sending
  /\ pl.phase.caps > 0
  /\ \E body \in Bodies :
       Commits(pl, [pl.phase EXCEPT !.session = AfterSend(@), !.caps = @ + 1, !.last = body],
               pl.pending \cup {Sealed(pl.phase.session, body),
                                [kind |-> "Effect", flow |-> pl.phase.caps]},
               {}, {}, None)

\* A record opens with a kept key, on the current chain, or on the next one.
Releases(pl, record, next, adopt, delete) ==
  Commits(pl, [pl.phase EXCEPT !.session = next],
          pl.pending \cup {[kind |-> "Plaintext", record |-> record]}, adopt, delete, None)

OpensKept(pl, record) ==
  /\ Coordinate(record) \in pl.phase.session.skipped
  /\ Releases(pl, record, AfterSkipped(pl.phase.session, record), {}, {})

OpensOnChain(pl, record) ==
  /\ Coordinate(record) \notin pl.phase.session.skipped
  /\ record.dh = pl.phase.session.peer
  /\ record.n >= pl.phase.session.nr
  /\ Releases(pl, record, AfterReceive(pl.phase.session, record), {}, {})

OpensNextChain(pl, record) ==
  /\ record.dh > pl.phase.session.peer
  /\ record.pn >= pl.phase.session.nr
  /\ \E x \in XHandles :
       Releases(pl, record,
                AfterReceive(AfterTransition(pl.phase.session, record, x), record),
                {x}, {pl.phase.session.x})

Receives(pl) ==
  /\ Lacks(pl.pending, "Plaintext")
  /\ \E record \in Records :
       OpensKept(pl, record) \/ OpensOnChain(pl, record) \/ OpensNextChain(pl, record)

Bootstraps(pl) ==
  /\ pl.phase.caps = 0
  /\ Commits(pl, [pl.phase EXCEPT !.caps = 1], pl.pending, {}, {}, None)

Deletes(pl) ==
  /\ pl.phase.kind # "Deleted"
  /\ Commits(pl, [EmptyPhase("Deleted") EXCEPT !.high = pl.phase.high], {},
             {}, Owned(pl.phase), None)

\* The operations of an established session.
Converses(pl) ==
  /\ pl.phase.kind = "Established"
  /\ Sends(pl) \/ SendsFirst(pl) \/ Flows(pl) \/ Receives(pl) \/ Bootstraps(pl)

Planned(pl) ==
  Publishes(pl) \/ Accepts(pl) \/ Creates(pl) \/ Completes(pl) \/ Converses(pl) \/ Deletes(pl)

PlansMade == \A p \in Procs : Planning(p) => Planned(plan[p])

-----------------------------------------------------------------------------
(* The inductive invariant behind the refinement                            *)

Delivering(p) == pc[p] \in {"deliver", "settle"}

\* What was ever produced: durable, taken by its boundary, or in a call's hands
\* on the way there.
Ever == pending \cup delivered \cup {plan[p].item : p \in {q \in Procs : Delivering(q)}}

\* Which party can be in which state, and what a new session has not done yet.
Unopened ==
  /\ phase.kind = "ResponderReady" => Role = "Responder"
  /\ phase.kind \in {"InitiatorNew", "InitiatorAwaiting"} => Role = "Initiator"
  /\ phase.kind \notin {"Established", "Deleted"} => Ever = {} /\ phase.caps = 0
  /\ phase.kind = "InitiatorAwaiting" =>
       /\ phase.session.ns = 0 /\ phase.session.nr = 0 /\ phase.session.skipped = {}

\* A call delivers what is pending, was delivered, or went with the session.
Fetched ==
  \A p \in Procs :
    /\ pc[p] = "deliver" => plan[p].item \in pending \cup delivered \/ Deleted
    /\ pc[p] = "settle" => plan[p].item \in delivered

\* The key of every packet ever sealed is behind the sending chain or was
\* deleted with its handle, and sealed one packet.
KeysSpent ==
  \A i \in Ever : i.kind = "Packet" =>
    \/ custody[i.x] = "deleted"
    \/ phase.kind = "Established" /\ i.x = phase.session.x /\ i.n < phase.session.ns

KeysApart ==
  \A i, j \in Ever : i.kind = "Packet" /\ j.kind = "Packet" /\ i.x = j.x /\ i.n = j.n => i = j

\* A coordinate the receiving chains have reached.
Reached(s, dh, n) == dh < s.peer \/ (dh = s.peer /\ n < s.nr)

\* The key of every plaintext ever released is behind the receiving chain and
\* no longer kept; every kept key is behind the chain too.
OpenedBelow ==
  phase.kind = "Established" =>
    /\ \A i \in Ever : i.kind = "Plaintext" =>
         /\ Reached(phase.session, i.record.dh, i.record.n)
         /\ Coordinate(i.record) \notin phase.session.skipped
    /\ \A c \in phase.session.skipped : Reached(phase.session, c[1], c[2])

EffectsBelow ==
  phase.kind = "Established" =>
    \A i \in Ever : i.kind = "Effect" => i.flow < phase.caps

\* A responder's first sending chain starts at zero.
SendingFresh ==
  phase.kind = "Established" /\ ~phase.session.sending => phase.session.ns = 0

\* Inductive together: what callers were told and what was produced stay in
\* step with the one durable state, whoever moved it.
RInv ==
  /\ IInv
  /\ PlansMade
  /\ Unopened
  /\ AnswersDurable /\ AnswersAgree /\ EntropySpent
  /\ Fetched /\ KeysSpent /\ KeysApart /\ OpenedBelow /\ EffectsBelow /\ SendingFresh
  /\ SentBacked /\ ReceivedBacked /\ EffectsAccounted

-----------------------------------------------------------------------------
(* From an established session                                              *)

\* The durable state a responder and an initiator reach with their handshake,
\* as AdmitPrekey/AcceptFirstPacket and CreateFirstPacket/VerifySessionAccept
\* leave it, with every process still holding its Endpoint.
SessionInit ==
  \E x \in XHandles :
    /\ rev = 2
    /\ pending = {}
    /\ pc = [p \in Procs |-> "open"]
    /\ plan = [p \in Procs |-> None]
    /\ held = [p \in Procs |-> {}]
    /\ delivered = {}
    /\ strayAborts = {}
    /\ \/ /\ Role = "Responder"
          /\ \E k \in KHandles, i \in Initiators :
               LET bundle == [seq |-> 1, x |-> x, k |-> k]
                   packet == [prekey |-> bundle, from |-> i]
               IN /\ phase = [EmptyPhase("Established") EXCEPT
                                !.high = 1, !.packet = packet,
                                !.session = NewSession(x, FALSE)]
                  /\ custody = [h \in Handles |-> CASE h = x -> "adopted" [] h = k -> "deleted"
                                                  [] OTHER -> "free"]
                  /\ answered = {[type |-> "Bundle", val |-> bundle],
                                 [type |-> "Accept", val |-> packet]}
       \/ /\ Role = "Initiator"
          /\ \E e \in EHandles :
               /\ phase = [EmptyPhase("Established") EXCEPT !.session = NewSession(x, TRUE)]
               /\ custody = [h \in Handles |-> CASE h = e -> "deleted"
                                               [] h \in {x} \cup (EHandles \ {e}) -> "adopted"
                                               [] OTHER -> "free"]
               /\ answered = {[type |-> "First", val |-> [x |-> x, e |-> e]]}

SessionSpec == SessionInit /\ [][Next]_vars

=============================================================================
