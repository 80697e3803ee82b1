------------------------------- MODULE Exchange -------------------------------
(***************************************************************************)
(* One message and what its sender comes to know of its fate: the reducers *)
(* of src/src/reliable.rs, messaging.rs and group.rs at work together.     *)
(*                                                                         *)
(* The message goes to the other members of a group, to one correspondent  *)
(* with an attachment, or to one correspondent without.  Each recipient    *)
(* decides, perhaps twice (accepted, then completed or failed), and        *)
(* confirms; confirmations, chunks and receive states arrive late, more    *)
(* than once and in any order, or never.  The reducers are pure: who calls *)
(* them, and when, is a choice of this module (actions of a caller).       *)
(***************************************************************************)
EXTENDS Reliable, Group, Messaging

CONSTANTS
  Sender,
  Others,       \* the other members of the group
  ChunkCount,   \* chunks of the attachment
  Codes,        \* failure codes that recipients and receivers give
  Results,      \* result digests that recipients confirm
  Expected,     \* the one the sender expects
  This,         \* the logical message id
  Another,      \* that of an earlier message
  Routes, Packets

ASSUME ExchangeAssumption ==
  /\ Sender \notin Others /\ IsFiniteSet(Others)
  /\ ChunkCount \in Nat \ {0}
  /\ Codes \subseteq Nat
  /\ Expected \in Results /\ None \notin Results \cup Nat
  /\ NoCode \notin Nat /\ NoFailure \notin Nat /\ NoDigest \notin Nat
  /\ This # Another

VARIABLES
  to,             \* the recipients: those of a group message, or just one
  attached,       \* whether the message has an attachment
  decision,       \* what each recipient has decided
  confirmations,  \* [session, record] of all confirmations ever sent
  finality,       \* the sender's FinalityState for each recipient
  results,        \* the sender's GroupResults, by recipient
  held,           \* the chunks the receiver has stored in this round
  receive,        \* the receiver's ReceiveState
  reports,        \* the receive states it has reported
  view,           \* the last of them that the sender took
  transmitted,    \* the chunks that the sender has ever transmitted
  link,           \* the sender's ReliableState for the message
  used            \* history: the packets the message was protected in

sender == <<finality, results, view>>
receiver == <<held, receive, reports>>
transmission == <<transmitted, link, used>>
vars == <<to, attached, decision, confirmations, sender, receiver, transmission>>

Chunks == 0..(ChunkCount - 1)

Grouped == to = Others /\ ~attached

-----------------------------------------------------------------------------
(* The recipients                                                          *)

Confirmation(stage, outcome, failure, result) ==
  [ids |-> {This}, stage |-> stage, outcome |-> outcome, failure |-> failure, result |-> result]

Confirms(e, c) ==
  /\ ConfirmationRecord(c)
  /\ confirmations' = confirmations \cup
       {[session |-> [sender |-> e, authenticated |-> TRUE, authorized |-> TRUE], record |-> c]}

Accept(e) ==
  /\ decision[e] = "undecided"
  /\ decision' = [decision EXCEPT ![e] = "accepted"]
  /\ Confirms(e, Confirmation("endpointAccepted", "succeeded", None, None))
  /\ UNCHANGED <<to, attached, sender, receiver, transmission>>

Refuse(e) ==
  /\ \E outcome \in {"rejected", "failed"}, code \in Codes :
       /\ decision[e] = "undecided" \/ (decision[e] = "accepted" /\ outcome = "failed")
       /\ decision' = [decision EXCEPT ![e] = outcome]
       /\ Confirms(e, Confirmation("endpointAccepted", outcome, code, None))
  /\ UNCHANGED <<to, attached, sender, receiver, transmission>>

Complete(e) ==
  /\ decision[e] = "accepted"
  /\ decision' = [decision EXCEPT ![e] = "completed"]
  /\ \E result \in Results :
       Confirms(e, Confirmation("effectCompleted", "succeeded", None, result))
  /\ UNCHANGED <<to, attached, sender, receiver, transmission>>

-----------------------------------------------------------------------------
(* The sender learns of the decisions                                      *)

\* The GroupResult that a finality stands for: what the endpoint has accepted
\* is delivered.
ResultOf(state, code) ==
  [outcome   |-> IF state \in {"accepted", "completed"} THEN "delivered" ELSE state,
   failure   |-> IF code = None THEN NoCode ELSE code,
   authority |-> "endpointConfirmation"]

OutcomeOf(e) == IF e \in DOMAIN results THEN results[e].outcome ELSE "pending"

\* The caller notes a result, unless the projection already has another or this one.
Recorded(e, r) ==
  IF Grouped /\ OutcomeSuccessor(OutcomeOf(e), r.outcome) /\ r.outcome # OutcomeOf(e)
  THEN [m \in DOMAIN results \cup {e} |-> IF m = e THEN r ELSE results[m]]
  ELSE results

\* A confirmation, tried for one of the recipients.  apply_member_confirmation
\* waits for no attachment.
Confirm(e) ==
  /\ \E c \in confirmations :
       /\ MayConfirm(finality[e], This, c.record, c.session, e, Expected,
                     Grouped \/ ~attached \/ view.outcome = "complete")
       /\ finality' = [finality EXCEPT ![e] = Confirmed(c.record)]
       /\ results' = Recorded(e, ResultOf(Confirmed(c.record), c.record.failure))
  /\ UNCHANGED <<to, attached, decision, confirmations, view, receiver, transmission>>

\* The sender waits no longer for a member: a failure on no endpoint's authority.
GiveUp(e) ==
  /\ Grouped
  /\ OutcomeOf(e) = "pending"
  /\ \E code \in Codes :
       results' = Recorded(e, [outcome |-> "failed", failure |-> code, authority |-> "none"])
  /\ UNCHANGED <<to, attached, decision, confirmations, finality, view, receiver, transmission>>

-----------------------------------------------------------------------------
(* The attachment                                                          *)

ChunkMessage(c) ==
  [kind |-> "streamChunk", content |-> "plain", related |-> TRUE, chunk |-> c,
   final |-> FALSE, of |-> TRUE, attachments |-> {}]

ReportMessage ==
  [kind |-> "event", content |-> "receiveState", related |-> TRUE, chunk |-> NoFailure,
   final |-> FALSE, of |-> FALSE, attachments |-> {}]

\* The sender transmits what the receiver last asked for.
Transmit ==
  /\ attached
  /\ view.outcome = "pending"
  /\ \E c \in view.missing :
       /\ ValidMessage(ChunkMessage(c))
       /\ transmitted' = transmitted \cup {c}
  /\ UNCHANGED <<to, attached, decision, confirmations, sender, receiver, link, used>>

\* A chunk arrives, perhaps one of an earlier round.
Store ==
  /\ receive.outcome = "pending"
  /\ \E c \in transmitted :
       /\ ValidChunk(ChunkCount, c)
       /\ held' = held \cup {c}
  /\ UNCHANGED <<to, attached, decision, confirmations, sender, receive, reports, transmission>>

Reports(next, verified) ==
  /\ next # receive
  /\ ReceiveSuccessor(receive, next, verified)
  /\ ValidMessage(ReportMessage)
  /\ receive' = next
  /\ reports' = reports \cup {next}
  /\ UNCHANGED <<to, attached, decision, confirmations, sender, transmission>>

\* The receiver commits what it holds; nothing missing means complete, and it
\* has then compared the content with the digest.
Progress ==
  /\ attached
  /\ LET missing == Chunks \ held IN
     Reports([receive EXCEPT !.missing = missing, !.update = @ + 1,
                !.outcome = IF missing = {} THEN "complete" ELSE "pending"], missing = {})
  /\ UNCHANGED held

\* The content was not what the digest says: everything is asked for again.
Recover ==
  /\ attached
  /\ held = Chunks
  /\ Reports([receive EXCEPT !.missing = Chunks, !.update = @ + 1, !.round = @ + 1], FALSE)
  /\ held' = {}

Abandon ==
  /\ attached
  /\ \E outcome \in {"cancelled", "failed"}, code \in Codes :
       Reports([receive EXCEPT !.update = @ + 1, !.outcome = outcome, !.failure = code], FALSE)
  /\ UNCHANGED held

\* The sender takes a report; what a receiver says it has verified it has.
Take ==
  /\ \E report \in reports :
       /\ ReceiveSuccessor(view, report, TRUE)
       /\ view' = report
  /\ UNCHANGED <<to, attached, decision, confirmations, finality, results, receiver, transmission>>

-----------------------------------------------------------------------------
(* Retransmission of a message without attachment                          *)

OutcomeOfFinality(f) ==
  CASE f = "pending" -> "pending"
    [] f = "accepted" -> "accepted"
    [] f = "completed" -> "effectCompleted"
    [] f \in {"rejected", "failed"} -> "failed"

Retry ==
  /\ ~Grouped /\ ~attached
  /\ \E e \in to, route \in Routes, packet \in Packets :
       /\ MayRetry(link, OutcomeOfFinality(finality[e]), route, packet)
       /\ link' = Retried(link, route, packet)
       /\ used' = used \cup {packet}
  /\ UNCHANGED <<to, attached, decision, confirmations, sender, receiver, transmitted>>

-----------------------------------------------------------------------------
(* The specification                                                       *)

TheGroup ==
  [epoch |-> 0, previous |-> NoDigest,
   members |-> [e \in Others \cup {Sender} |-> IF e = Sender THEN "stateAuthority" ELSE "member"]]

\* Confirmations of the earlier message are still under way.
Strays ==
  {[session |-> [sender |-> e, authenticated |-> TRUE, authorized |-> TRUE],
    record |-> [ids |-> {Another}, stage |-> "endpointAccepted", outcome |-> "succeeded",
                failure |-> None, result |-> None]] : e \in Others}

Init ==
  /\ \/ MayProject(TheGroup, Sender) /\ to = Recipients(TheGroup, Sender) /\ attached = FALSE
     \/ (\E e \in Others : to = {e}) /\ attached \in BOOLEAN
  /\ decision = [e \in to |-> "undecided"]
  /\ confirmations = {c \in Strays : c.session.sender \in to}
  /\ finality = [e \in to |-> "pending"]
  /\ results = [m \in {} |-> NoCode]
  /\ held = {} /\ transmitted = {}
  /\ receive = [missing |-> Chunks, update |-> 0, outcome |-> "pending",
                failure |-> NoFailure, round |-> 0]
  /\ reports = {receive}
  /\ view = receive
  /\ \E route \in Routes, packet \in Packets :
       /\ link = [route |-> route, packet |-> packet, retries |-> 0, migrations |-> 0,
                  transitions |-> 0]
       /\ used = {packet}

Next ==
  \/ \E e \in to : Accept(e) \/ Refuse(e) \/ Complete(e) \/ Confirm(e) \/ GiveUp(e)
  \/ Transmit \/ Store \/ Progress \/ Recover \/ Abandon \/ Take \/ Retry

Spec == Init /\ [][Next]_vars

-----------------------------------------------------------------------------
(* Properties                                                              *)

Decisions == {"undecided", "accepted", "completed", "rejected", "failed"}

ConfirmationRecords ==
  [ids : {{This}, {Another}}, stage : {"endpointAccepted", "effectCompleted"},
   outcome : {"succeeded", "rejected", "failed"},
   failure : Codes \cup {None}, result : Results \cup {None}]

Sessions == [sender : to, authenticated : {TRUE}, authorized : {TRUE}]

ResultRecords ==
  [outcome : {"delivered", "rejected", "failed"}, failure : Codes \cup {NoCode},
   authority : {"endpointConfirmation", "none"}]

ReceiveStates ==
  [missing : SUBSET Chunks, update : Nat, outcome : ReceiveOutcomes,
   failure : Codes \cup {NoFailure}, round : Nat]

\* Every variable holds a value of its type.
TypeOK ==
  /\ IsFiniteSet(to)
  /\ attached \in BOOLEAN
  /\ decision \in [to -> Decisions]
  /\ confirmations \subseteq [session : Sessions, record : ConfirmationRecords]
  /\ finality \in [to -> FinalityStates]
  /\ DOMAIN results \subseteq to /\ results \in [DOMAIN results -> ResultRecords]
  /\ held \subseteq Chunks /\ transmitted \subseteq Chunks
  /\ receive \in ReceiveStates /\ reports \subseteq ReceiveStates /\ view \in reports
  /\ link \in [route : Routes, packet : used, retries : Nat, migrations : Nat, transitions : Nat]
  /\ IsFiniteSet(used)

\* A finality is what its recipient decided, perhaps before it decided again.
Stands(f, d) ==
  /\ f = "accepted" => d \in {"accepted", "completed", "failed"}
  /\ f \in {"completed", "rejected", "failed"} => d = f

\* Every confirmation of this message stands for a decision of its sender.
ConfirmationsTruthful ==
  \A c \in confirmations :
    This \in c.record.ids => Stands(Confirmed(c.record), decision[c.session.sender])

\* A complete receipt is the last that was reported, and of all the content.
CompleteIsLast ==
  \A report \in reports : report.outcome = "complete" => report = receive /\ held = Chunks

\* Whatever the order, delay and repetition of the confirmations, those of other
\* endpoints and of other messages among them, the sender believes of a
\* recipient only what that recipient decided; and a result on an endpoint's
\* authority stands for a decision of that endpoint.
DecisionsTruthful ==
  \A e \in to :
    /\ Stands(finality[e], decision[e])
    /\ (e \in DOMAIN results /\ results[e].authority = "endpointConfirmation") =>
         Stands(IF results[e].outcome = "delivered" THEN "accepted" ELSE results[e].outcome,
                decision[e])

\* What the sender told its user of the whole group stands: an aggregate that
\* counts nobody as pending, or that is not partial, never changes, although
\* members answer after they were given up or fail after they accepted.
AggregateFinal ==
  [][(MayAggregate(to, results) /\ (Pending(to, results) = 0 \/ Aggregate(to, results) # "partial"))
       => (MayAggregate(to, results') /\ Aggregate(to, results') = Aggregate(to, results))]_vars

\* The sender takes no decision of the recipient for its message before the
\* recipient has the whole attachment, in the very round it completed.
FinalityNeedsContent ==
  (attached /\ \E e \in to : finality[e] # "pending") =>
    receive.outcome = "complete" /\ held = Chunks /\ view = receive

\* Retransmission costs no new protection of the message but one for each
\* migration, so that the attempts at one message take a bounded number of
\* message keys.
PacketsBounded == Cardinality(used) <= 1 + link.migrations

\* The inductive invariant.
IInv ==
  /\ TypeOK
  /\ ConfirmationsTruthful /\ DecisionsTruthful
  /\ CompleteIsLast /\ FinalityNeedsContent
  /\ PacketsBounded

=============================================================================
