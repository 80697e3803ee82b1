---------------------------- MODULE ExchangeProofs ----------------------------
(***************************************************************************)
(* Proofs about Exchange, for every value of its constants: any number of  *)
(* recipients, chunks and packets.                                         *)
(*                                                                         *)
(* IInv is inductive: confirmations stand for what their senders decided,  *)
(* whatever they decide next (LEMMA RecipientStep), the sender's beliefs   *)
(* are copies of them (LEMMA ConfirmStep), and a receipt ends with the     *)
(* report that says it is complete (LEMMA ReportStep).                     *)
(***************************************************************************)
EXTENDS Exchange, FiniteSetTheorems, TLAPS

-----------------------------------------------------------------------------
(* Recipients                                                              *)

\* A decision that contradicts nothing that stood for the last one, and its
\* confirmation.
LEMMA RecipientStep ==
  ASSUME IInv, NEW e \in to, NEW d \in Decisions, NEW c \in ConfirmationRecords,
         decision' = [decision EXCEPT ![e] = d], Confirms(e, c),
         UNCHANGED <<to, attached, sender, receiver, transmission>>,
         Stands(Confirmed(c), d),
         \A f \in FinalityStates : Stands(f, decision[e]) => Stands(f, d)
  PROVE  IInv'
  <1>. USE DEF IInv
  <1>1. /\ to' = to /\ attached' = attached /\ finality' = finality /\ results' = results
        /\ view' = view /\ held' = held /\ receive' = receive /\ reports' = reports
        /\ transmitted' = transmitted /\ link' = link /\ used' = used
    BY DEF sender, receiver, transmission
  <1>2. decision' \in [to -> Decisions] /\ \A m \in to : decision'[m] = IF m = e THEN d ELSE decision[m]
    BY DEF TypeOK
  <1>3. ASSUME NEW m \in to, NEW f \in FinalityStates, Stands(f, decision[m])
        PROVE  Stands(f, decision'[m])
    BY <1>2, <1>3
  <1>4. TypeOK'
    <2>1. [sender |-> e, authenticated |-> TRUE, authorized |-> TRUE] \in Sessions
      BY DEF Sessions
    <2>2. confirmations' \subseteq [session : Sessions, record : ConfirmationRecords]
      <3>. DEFINE t == [sender |-> e, authenticated |-> TRUE, authorized |-> TRUE]
      <3>1. confirmations' = confirmations \cup {[session |-> t, record |-> c]}
        BY DEF Confirms
      <3>2. confirmations \subseteq [session : Sessions, record : ConfirmationRecords]
        BY DEF TypeOK
      <3>3. t \in Sessions
        BY <2>1
      <3>. HIDE DEF t
      <3>. QED
        BY <3>1, <3>2, <3>3
    <2>. QED
      BY <1>1, <1>2, <2>2 DEF TypeOK, Sessions
  <1>5. ConfirmationsTruthful'
    <2>1. ASSUME NEW k \in confirmations, This \in k.record.ids
          PROVE  Stands(Confirmed(k.record), decision'[k.session.sender])
      <3>1. k.session.sender \in to /\ Confirmed(k.record) \in FinalityStates
        <4>1. k \in [session : Sessions, record : ConfirmationRecords]
          BY DEF TypeOK
        <4>. QED
          BY <4>1 DEF Sessions, ConfirmationRecords, Confirmed, FinalityStates
      <3>2. Stands(Confirmed(k.record), decision[k.session.sender])
        BY <2>1 DEF ConfirmationsTruthful
      <3>. QED
        BY <1>3, <3>1, <3>2
    <2>2. decision'[e] = d
      BY <1>2
    <2>. QED
      BY <2>1, <2>2 DEF ConfirmationsTruthful, Confirms
  <1>6. DecisionsTruthful'
    <2>1. ASSUME NEW m \in to
          PROVE  Stands(finality[m], decision'[m])
      <3>1. finality[m] \in FinalityStates /\ Stands(finality[m], decision[m])
        BY DEF TypeOK, DecisionsTruthful
      <3>. QED
        BY <1>3, <3>1
    <2>2. ASSUME NEW m \in to, m \in DOMAIN results, results[m].authority = "endpointConfirmation"
          PROVE  Stands(IF results[m].outcome = "delivered" THEN "accepted"
                        ELSE results[m].outcome, decision'[m])
      <3>. DEFINE f == IF results[m].outcome = "delivered" THEN "accepted" ELSE results[m].outcome
      <3>1. f \in FinalityStates
        <4>1. results[m] \in ResultRecords
          BY <2>2 DEF TypeOK
        <4>. QED
          BY <4>1 DEF ResultRecords, FinalityStates
      <3>2. Stands(f, decision[m])
        BY <2>2 DEF DecisionsTruthful
      <3>. HIDE DEF f
      <3>3. Stands(f, decision'[m])
        BY <1>3, <3>1, <3>2
      <3>. QED
        BY <3>3 DEF f
    <2>. QED
      BY <1>1, <2>1, <2>2 DEF DecisionsTruthful
  <1>7. (CompleteIsLast /\ FinalityNeedsContent /\ PacketsBounded)'
    BY <1>1 DEF CompleteIsLast, FinalityNeedsContent, PacketsBounded
  <1>. QED
    BY <1>4, <1>5, <1>6, <1>7

LEMMA AcceptStep ==
  ASSUME IInv, NEW e \in to, Accept(e)
  PROVE  IInv'
  <1>. DEFINE c == Confirmation("endpointAccepted", "succeeded", None, None)
  <1>1. c \in ConfirmationRecords /\ Confirmed(c) = "accepted"
    BY DEF Confirmation, ConfirmationRecords, Confirmed
  <1>2. /\ decision' = [decision EXCEPT ![e] = "accepted"] /\ Confirms(e, c)
        /\ decision[e] = "undecided"
        /\ UNCHANGED <<to, attached, sender, receiver, transmission>>
    BY DEF Accept
  <1>. HIDE DEF c
  <1>3. Stands(Confirmed(c), "accepted") /\ "accepted" \in Decisions
    BY <1>1 DEF Stands, Decisions
  <1>4. \A f \in FinalityStates : Stands(f, decision[e]) => Stands(f, "accepted")
    BY <1>2 DEF Stands, FinalityStates
  <1>. QED
    BY <1>1, <1>2, <1>3, <1>4, RecipientStep

LEMMA CompleteStep ==
  ASSUME IInv, NEW e \in to, Complete(e)
  PROVE  IInv'
  <1>1. PICK result \in Results :
          Confirms(e, Confirmation("effectCompleted", "succeeded", None, result))
    BY DEF Complete
  <1>. DEFINE c == Confirmation("effectCompleted", "succeeded", None, result)
  <1>2. c \in ConfirmationRecords /\ Confirmed(c) = "completed"
    BY DEF Confirmation, ConfirmationRecords, Confirmed
  <1>3. /\ decision' = [decision EXCEPT ![e] = "completed"] /\ Confirms(e, c)
        /\ decision[e] = "accepted"
        /\ UNCHANGED <<to, attached, sender, receiver, transmission>>
    BY <1>1 DEF Complete
  <1>. HIDE DEF c
  <1>4. Stands(Confirmed(c), "completed") /\ "completed" \in Decisions
    BY <1>2 DEF Stands, Decisions
  <1>5. \A f \in FinalityStates : Stands(f, decision[e]) => Stands(f, "completed")
    BY <1>3 DEF Stands, FinalityStates
  <1>. QED
    BY <1>2, <1>3, <1>4, <1>5, RecipientStep

LEMMA RefuseStep ==
  ASSUME IInv, NEW e \in to, Refuse(e)
  PROVE  IInv'
  <1>1. PICK outcome \in {"rejected", "failed"}, code \in Codes :
          /\ decision[e] = "undecided" \/ (decision[e] = "accepted" /\ outcome = "failed")
          /\ decision' = [decision EXCEPT ![e] = outcome]
          /\ Confirms(e, Confirmation("endpointAccepted", outcome, code, None))
    BY DEF Refuse
  <1>. DEFINE c == Confirmation("endpointAccepted", outcome, code, None)
  <1>2. c \in ConfirmationRecords /\ Confirmed(c) = outcome
    BY DEF Confirmation, ConfirmationRecords, Confirmed
  <1>3. Confirms(e, c) /\ UNCHANGED <<to, attached, sender, receiver, transmission>>
    BY <1>1 DEF Refuse
  <1>. HIDE DEF c
  <1>4. Stands(Confirmed(c), outcome) /\ outcome \in Decisions
    BY <1>2 DEF Stands, Decisions
  <1>5. \A f \in FinalityStates : Stands(f, decision[e]) => Stands(f, outcome)
    BY <1>1 DEF Stands, FinalityStates
  <1>. QED
    BY <1>1, <1>2, <1>3, <1>4, <1>5, RecipientStep

-----------------------------------------------------------------------------
(* The sender's beliefs                                                    *)

\* A result that the caller notes is one of a recipient of a group message.
LEMMA RecordedTyped ==
  ASSUME TypeOK, NEW e \in to, NEW r \in ResultRecords
  PROVE  /\ DOMAIN Recorded(e, r) \subseteq to
         /\ Recorded(e, r) \in [DOMAIN Recorded(e, r) -> ResultRecords]
         /\ \A m \in DOMAIN Recorded(e, r) :
              \/ m \in DOMAIN results /\ Recorded(e, r)[m] = results[m]
              \/ m = e /\ Recorded(e, r)[m] = r
  <1>1. results \in [DOMAIN results -> ResultRecords] /\ DOMAIN results \subseteq to
    BY DEF TypeOK
  <1>2. CASE Recorded(e, r) = results
    BY <1>1, <1>2
  <1>3. CASE Recorded(e, r) =
               [m \in DOMAIN results \cup {e} |-> IF m = e THEN r ELSE results[m]]
    BY <1>1, <1>3
  <1>. QED
    BY <1>2, <1>3 DEF Recorded

\* A confirmation that was taken was its recipient's, of this message.
LEMMA ConfirmStep ==
  ASSUME IInv, NEW e \in to, Confirm(e)
  PROVE  IInv'
  <1>. USE DEF IInv
  <1>1. PICK c \in confirmations :
          /\ MayConfirm(finality[e], This, c.record, c.session, e, Expected,
                        Grouped \/ ~attached \/ view.outcome = "complete")
          /\ finality' = [finality EXCEPT ![e] = Confirmed(c.record)]
          /\ results' = Recorded(e, ResultOf(Confirmed(c.record), c.record.failure))
    BY DEF Confirm
  <1>2. /\ to' = to /\ attached' = attached /\ decision' = decision
        /\ confirmations' = confirmations /\ view' = view /\ held' = held
        /\ receive' = receive /\ reports' = reports
        /\ transmitted' = transmitted /\ link' = link /\ used' = used
    BY DEF Confirm, receiver, transmission
  <1>. DEFINE f == Confirmed(c.record)
              r == ResultOf(f, c.record.failure)
  <1>3. c.record \in ConfirmationRecords
    BY DEF TypeOK
  <1>4. f \in {"accepted", "completed", "rejected", "failed"}
    BY <1>3 DEF ConfirmationRecords, Confirmed
  <1>5. r \in ResultRecords
    BY <1>3, <1>4 DEF ResultOf, ResultRecords, ConfirmationRecords
  <1>6. Stands(f, decision[e])
    BY <1>1 DEF MayConfirm, Session, ConfirmationsTruthful
  <1>7. Stands(IF r.outcome = "delivered" THEN "accepted" ELSE r.outcome, decision[e])
    BY <1>4, <1>6 DEF ResultOf, Stands
  <1>8. attached => view.outcome = "complete"
    BY <1>1 DEF MayConfirm, Grouped
  <1>. HIDE DEF r
  <1>9. finality' \in [to -> FinalityStates] /\ \A m \in to : finality'[m] = IF m = e THEN f ELSE finality[m]
    BY <1>1, <1>4 DEF TypeOK, FinalityStates
  <1>10. /\ DOMAIN results' \subseteq to /\ results' \in [DOMAIN results' -> ResultRecords]
         /\ \A m \in DOMAIN results' : \/ m \in DOMAIN results /\ results'[m] = results[m]
                                       \/ m = e /\ results'[m] = r
    BY <1>1, <1>5, RecordedTyped DEF r
  <1>. HIDE DEF f
  <1>11. TypeOK'
    BY <1>2, <1>9, <1>10 DEF TypeOK, Sessions
  <1>12. DecisionsTruthful'
    BY <1>2, <1>6, <1>7, <1>9, <1>10 DEF DecisionsTruthful
  <1>13. FinalityNeedsContent'
    BY <1>2, <1>8 DEF FinalityNeedsContent, CompleteIsLast, TypeOK
  <1>14. (ConfirmationsTruthful /\ CompleteIsLast /\ PacketsBounded)'
    BY <1>2 DEF ConfirmationsTruthful, CompleteIsLast, PacketsBounded
  <1>. QED
    BY <1>11, <1>12, <1>13, <1>14

LEMMA GiveUpStep ==
  ASSUME IInv, NEW e \in to, GiveUp(e)
  PROVE  IInv'
  <1>. USE DEF IInv
  <1>1. PICK code \in Codes :
          results' = Recorded(e, [outcome |-> "failed", failure |-> code, authority |-> "none"])
    BY DEF GiveUp
  <1>2. /\ to' = to /\ attached' = attached /\ decision' = decision /\ finality' = finality
        /\ confirmations' = confirmations /\ view' = view /\ held' = held
        /\ receive' = receive /\ reports' = reports
        /\ transmitted' = transmitted /\ link' = link /\ used' = used
    BY DEF GiveUp, receiver, transmission
  <1>. DEFINE r == [outcome |-> "failed", failure |-> code, authority |-> "none"]
  <1>3. r \in ResultRecords /\ r.authority = "none"
    BY DEF ResultRecords
  <1>. HIDE DEF r
  <1>4. /\ DOMAIN results' \subseteq to /\ results' \in [DOMAIN results' -> ResultRecords]
        /\ \A m \in DOMAIN results' : \/ m \in DOMAIN results /\ results'[m] = results[m]
                                      \/ m = e /\ results'[m] = r
    BY <1>1, <1>3, RecordedTyped DEF r
  <1>5. TypeOK'
    BY <1>2, <1>4 DEF TypeOK, Sessions
  <1>6. DecisionsTruthful'
    BY <1>2, <1>3, <1>4 DEF DecisionsTruthful
  <1>7. (ConfirmationsTruthful /\ CompleteIsLast /\ FinalityNeedsContent /\ PacketsBounded)'
    BY <1>2 DEF ConfirmationsTruthful, CompleteIsLast, FinalityNeedsContent, PacketsBounded
  <1>. QED
    BY <1>5, <1>6, <1>7

-----------------------------------------------------------------------------
(* The attachment                                                          *)

\* While the receiver's receipt is pending, no report is complete and nothing is
\* believed of the recipient of an attachment.
LEMMA PendingReceipt ==
  ASSUME IInv, receive.outcome = "pending"
  PROVE  /\ \A report \in reports : report.outcome # "complete"
         /\ attached => \A e \in to : finality[e] = "pending"
  BY DEF IInv, CompleteIsLast, FinalityNeedsContent

\* The counters of the receipt can be advanced.
LEMMA ReceiptTyped ==
  ASSUME TypeOK
  PROVE  receive \in ReceiveStates /\ receive.update + 1 \in Nat /\ receive.round + 1 \in Nat
  <1>1. receive \in ReceiveStates
    BY DEF TypeOK
  <1>2. receive.update \in Nat /\ receive.round \in Nat
    BY <1>1 DEF ReceiveStates
  <1>. QED
    BY <1>1, <1>2

\* A report that follows the last one, and is complete only with all the content.
LEMMA ReportStep ==
  ASSUME IInv, NEW next \in ReceiveStates, NEW verified, Reports(next, verified),
         held' \subseteq Chunks, next.outcome = "complete" => held' = Chunks
  PROVE  IInv'
  <1>. USE DEF IInv
  <1>1. /\ to' = to /\ attached' = attached /\ decision' = decision /\ finality' = finality
        /\ confirmations' = confirmations /\ view' = view /\ results' = results
        /\ transmitted' = transmitted /\ link' = link /\ used' = used
        /\ receive' = next /\ reports' = reports \cup {next}
    BY DEF Reports, sender, transmission
  <1>2. receive.outcome = "pending"
    BY DEF Reports, ReceiveSuccessor
  <1>3. TypeOK'
    BY <1>1 DEF TypeOK, Sessions
  <1>4. (CompleteIsLast /\ FinalityNeedsContent)'
    BY <1>1, <1>2, PendingReceipt DEF CompleteIsLast, FinalityNeedsContent
  <1>5. (ConfirmationsTruthful /\ DecisionsTruthful /\ PacketsBounded)'
    BY <1>1 DEF ConfirmationsTruthful, DecisionsTruthful, PacketsBounded
  <1>. QED
    BY <1>3, <1>4, <1>5

LEMMA ProgressStep ==
  ASSUME IInv, Progress
  PROVE  IInv'
  <1>. DEFINE missing == Chunks \ held
              next == [receive EXCEPT !.missing = missing, !.update = @ + 1,
                         !.outcome = IF missing = {} THEN "complete" ELSE "pending"]
  <1>1. Reports(next, missing = {}) /\ held' = held
    BY DEF Progress
  <1>2. held \subseteq Chunks /\ receive \in ReceiveStates
    BY DEF IInv, TypeOK
  <1>3. next \in ReceiveStates
    <2>0. receive \in ReceiveStates /\ receive.update + 1 \in Nat
      BY ReceiptTyped DEF IInv
    <2>1. missing \in SUBSET Chunks
      OBVIOUS
    <2>2. (IF missing = {} THEN "complete" ELSE "pending") \in ReceiveOutcomes
      BY DEF ReceiveOutcomes
    <2>. HIDE DEF missing
    <2>. QED
      BY <2>0, <2>1, <2>2 DEF ReceiveStates
  <1>4. next.outcome = "complete" => held = Chunks
    BY <1>2 DEF ReceiveStates
  <1>. HIDE DEF next, missing
  <1>. QED
    BY <1>1, <1>2, <1>3, <1>4, ReportStep

LEMMA RecoverStep ==
  ASSUME IInv, Recover
  PROVE  IInv'
  <1>. DEFINE next == [receive EXCEPT !.missing = Chunks, !.update = @ + 1, !.round = @ + 1]
  <1>1. Reports(next, FALSE) /\ held' = {}
    BY DEF Recover
  <1>2. receive \in ReceiveStates
    BY DEF IInv, TypeOK
  <1>3. next \in ReceiveStates /\ next.outcome = receive.outcome
    <2>0. /\ receive \in ReceiveStates /\ receive.update + 1 \in Nat
          /\ receive.round + 1 \in Nat
      BY ReceiptTyped DEF IInv
    <2>. QED
      BY <2>0 DEF ReceiveStates
  <1>. HIDE DEF next
  <1>4. next.outcome # "complete"
    BY <1>1, <1>3 DEF Reports, ReceiveSuccessor
  <1>. QED
    BY <1>1, <1>3, <1>4, ReportStep

LEMMA AbandonStep ==
  ASSUME IInv, Abandon
  PROVE  IInv'
  <1>1. PICK outcome \in {"cancelled", "failed"}, code \in Codes :
          Reports([receive EXCEPT !.update = @ + 1, !.outcome = outcome, !.failure = code], FALSE)
    BY DEF Abandon
  <1>. DEFINE next == [receive EXCEPT !.update = @ + 1, !.outcome = outcome, !.failure = code]
  <1>2. held' \subseteq Chunks /\ receive \in ReceiveStates
    BY DEF Abandon, IInv, TypeOK
  <1>3. next \in ReceiveStates /\ next.outcome # "complete"
    <2>0. receive \in ReceiveStates /\ receive.update + 1 \in Nat
      BY ReceiptTyped DEF IInv
    <2>1. outcome \in ReceiveOutcomes /\ code \in Codes \cup {NoFailure}
      BY DEF ReceiveOutcomes
    <2>. QED
      BY <2>0, <2>1 DEF ReceiveStates
  <1>4. Reports(next, FALSE)
    BY <1>1
  <1>. HIDE DEF next
  <1>. QED
    BY <1>2, <1>3, <1>4, ReportStep

LEMMA StoreStep ==
  ASSUME IInv, Store
  PROVE  IInv'
  <1>. USE DEF IInv
  <1>1. PICK c \in transmitted : held' = held \cup {c}
    BY DEF Store
  <1>2. /\ to' = to /\ attached' = attached /\ decision' = decision /\ finality' = finality
        /\ confirmations' = confirmations /\ view' = view /\ results' = results
        /\ receive' = receive /\ reports' = reports
        /\ transmitted' = transmitted /\ link' = link /\ used' = used
        /\ receive.outcome = "pending"
    BY DEF Store, sender, transmission
  <1>3. TypeOK'
    BY <1>1, <1>2 DEF TypeOK, Sessions
  <1>4. (CompleteIsLast /\ FinalityNeedsContent)'
    BY <1>2, PendingReceipt DEF CompleteIsLast, FinalityNeedsContent
  <1>5. (ConfirmationsTruthful /\ DecisionsTruthful /\ PacketsBounded)'
    BY <1>2 DEF ConfirmationsTruthful, DecisionsTruthful, PacketsBounded
  <1>. QED
    BY <1>3, <1>4, <1>5

LEMMA TransmitStep ==
  ASSUME IInv, Transmit
  PROVE  IInv'
  <1>. USE DEF IInv
  <1>1. PICK c \in view.missing : transmitted' = transmitted \cup {c}
    BY DEF Transmit
  <1>2. /\ to' = to /\ attached' = attached /\ decision' = decision /\ finality' = finality
        /\ confirmations' = confirmations /\ view' = view /\ results' = results
        /\ held' = held /\ receive' = receive /\ reports' = reports
        /\ link' = link /\ used' = used
    BY DEF Transmit, sender, receiver
  <1>3. c \in Chunks
    BY DEF TypeOK, ReceiveStates
  <1>4. TypeOK'
    BY <1>1, <1>2, <1>3 DEF TypeOK, Sessions
  <1>5. (CompleteIsLast /\ FinalityNeedsContent /\ ConfirmationsTruthful /\ DecisionsTruthful)'
    BY <1>2 DEF CompleteIsLast, FinalityNeedsContent, ConfirmationsTruthful, DecisionsTruthful
  <1>6. PacketsBounded'
    BY <1>2 DEF PacketsBounded
  <1>. QED
    BY <1>4, <1>5, <1>6

\* The sender that took the complete report takes no other.
LEMMA TakeStep ==
  ASSUME IInv, Take
  PROVE  IInv'
  <1>. USE DEF IInv
  <1>1. PICK report \in reports : ReceiveSuccessor(view, report, TRUE) /\ view' = report
    BY DEF Take
  <1>2. /\ to' = to /\ attached' = attached /\ decision' = decision /\ finality' = finality
        /\ confirmations' = confirmations /\ results' = results
        /\ held' = held /\ receive' = receive /\ reports' = reports
        /\ transmitted' = transmitted /\ link' = link /\ used' = used
    BY DEF Take, receiver, transmission
  <1>3. TypeOK'
    BY <1>1, <1>2 DEF TypeOK, Sessions
  <1>4. view.outcome = "complete" => report = view
    BY <1>1 DEF ReceiveSuccessor
  <1>5. FinalityNeedsContent'
    BY <1>1, <1>2, <1>4 DEF FinalityNeedsContent
  <1>6. (CompleteIsLast /\ ConfirmationsTruthful /\ DecisionsTruthful /\ PacketsBounded)'
    BY <1>2 DEF CompleteIsLast, ConfirmationsTruthful, DecisionsTruthful, PacketsBounded
  <1>. QED
    BY <1>3, <1>5, <1>6

-----------------------------------------------------------------------------
(* Retransmission                                                          *)

\* A packet more is a migration more.
LEMMA RetryStep ==
  ASSUME IInv, Retry
  PROVE  IInv'
  <1>. USE DEF IInv
  <1>1. PICK e \in to, route \in Routes, packet \in Packets :
          /\ MayRetry(link, OutcomeOfFinality(finality[e]), route, packet)
          /\ link' = Retried(link, route, packet)
          /\ used' = used \cup {packet}
    BY DEF Retry
  <1>2. /\ to' = to /\ attached' = attached /\ decision' = decision /\ finality' = finality
        /\ confirmations' = confirmations /\ view' = view /\ results' = results
        /\ held' = held /\ receive' = receive /\ reports' = reports
        /\ transmitted' = transmitted
    BY DEF Retry, sender, receiver
  <1>3. /\ link \in [route : Routes, packet : used, retries : Nat, migrations : Nat,
                     transitions : Nat]
        /\ IsFiniteSet(used) /\ Cardinality(used) <= 1 + link.migrations
    BY DEF TypeOK, PacketsBounded
  <1>4. /\ link' \in [route : Routes, packet : used', retries : Nat, migrations : Nat,
                      transitions : Nat]
        /\ link'.migrations = IF route = link.route THEN link.migrations ELSE link.migrations + 1
    <2>1. /\ link = [route |-> link.route, packet |-> link.packet, retries |-> link.retries,
                    migrations |-> link.migrations, transitions |-> link.transitions]
          /\ link.route \in Routes /\ link.retries \in Nat /\ link.migrations \in Nat
          /\ link.transitions \in Nat
      BY <1>3
    <2>2. CASE route = link.route
      <3>1. link' = [route |-> link.route, packet |-> packet, retries |-> link.retries + 1,
                     migrations |-> link.migrations, transitions |-> link.transitions + 1]
        BY <1>1, <2>1, <2>2 DEF Retried
      <3>. QED
        BY <1>1, <2>1, <2>2, <3>1
    <2>3. CASE route # link.route
      <3>1. link' = [route |-> route, packet |-> packet, retries |-> link.retries,
                     migrations |-> link.migrations + 1, transitions |-> link.transitions + 1]
        BY <1>1, <2>1, <2>3 DEF Retried
      <3>. QED
        BY <1>1, <2>1, <2>3, <3>1
    <2>. QED
      BY <2>2, <2>3
  <1>5. /\ IsFiniteSet(used') /\ Cardinality(used) \in Nat
        /\ Cardinality(used') = IF packet \in used THEN Cardinality(used) ELSE Cardinality(used) + 1
    BY <1>1, <1>3, FS_AddElement, FS_CardinalityType
  <1>6. route = link.route => packet \in used
    BY <1>1, <1>3 DEF MayRetry
  <1>7. PacketsBounded'
    BY <1>3, <1>4, <1>5, <1>6 DEF PacketsBounded
  <1>8. TypeOK'
    BY <1>2, <1>4, <1>5 DEF TypeOK, Sessions
  <1>9. (CompleteIsLast /\ FinalityNeedsContent /\ ConfirmationsTruthful /\ DecisionsTruthful)'
    BY <1>2 DEF CompleteIsLast, FinalityNeedsContent, ConfirmationsTruthful, DecisionsTruthful
  <1>. QED
    BY <1>7, <1>8, <1>9

-----------------------------------------------------------------------------
(* The theorems                                                            *)

LEMMA InitInvariant == Init => IInv
  <1>. SUFFICES ASSUME Init
                PROVE  IInv
    OBVIOUS
  <1>1. IsFiniteSet(to)
    <2>1. Recipients(TheGroup, Sender) = Others
      BY ExchangeAssumption DEF Recipients, TheGroup
    <2>2. to = Others \/ \E e \in Others : to = {e}
      BY <2>1 DEF Init
    <2>3. CASE to = Others
      BY <2>3, ExchangeAssumption
    <2>4. CASE \E e \in Others : to = {e}
      <3>1. PICK e \in Others : to = {e}
        BY <2>4
      <3>2. IsFiniteSet({e})
        BY FS_Singleton
      <3>. QED
        BY <3>1, <3>2
    <2>. QED
      BY <2>2, <2>3, <2>4
  <1>2. confirmations \subseteq [session : Sessions, record : ConfirmationRecords]
        /\ \A c \in confirmations : c.record.ids = {Another}
    <2>1. confirmations = {c \in Strays : c.session.sender \in to}
      BY DEF Init
    <2>2. ASSUME NEW c \in confirmations
          PROVE  /\ c \in [session : Sessions, record : ConfirmationRecords]
                 /\ c.record.ids = {Another}
      <3>. DEFINE stray == [ids |-> {Another}, stage |-> "endpointAccepted",
                            outcome |-> "succeeded", failure |-> None, result |-> None]
      <3>1. c \in Strays /\ c.session.sender \in to
        BY <2>1, <2>2
      <3>2. PICK e \in Others :
              c = [session |-> [sender |-> e, authenticated |-> TRUE, authorized |-> TRUE],
                   record |-> stray]
        BY <3>1 DEF Strays
      <3>3. stray \in ConfirmationRecords /\ stray.ids = {Another}
        BY DEF ConfirmationRecords
      <3>4. c.session = [sender |-> e, authenticated |-> TRUE, authorized |-> TRUE]
            /\ c.session.sender = e /\ c.record = stray
        BY <3>2
      <3>5. c.session \in Sessions
        BY <3>1, <3>4 DEF Sessions
      <3>. HIDE DEF stray
      <3>. QED
        BY <3>2, <3>3, <3>4, <3>5
    <2>. QED
      BY <2>2
  <1>3. PICK route \in Routes, packet \in Packets :
          /\ link = [route |-> route, packet |-> packet, retries |-> 0, migrations |-> 0,
                     transitions |-> 0]
          /\ used = {packet}
    BY DEF Init
  <1>4. IsFiniteSet(used) /\ Cardinality(used) = 1
    BY <1>3, FS_Singleton
  <1>5. receive \in ReceiveStates /\ receive.outcome = "pending"
    BY DEF Init, ReceiveStates, ReceiveOutcomes
  <1>6. decision \in [to -> Decisions] /\ finality \in [to -> FinalityStates]
    BY DEF Init, Decisions, FinalityStates
  <1>7. attached \in BOOLEAN
    BY DEF Init
  <1>8. DOMAIN results = {} /\ results \in [DOMAIN results -> ResultRecords]
    BY DEF Init
  <1>9. TypeOK
    BY <1>1, <1>2, <1>3, <1>4, <1>5, <1>6, <1>7, <1>8 DEF Init, TypeOK
  <1>10. ConfirmationsTruthful
    BY <1>2, ExchangeAssumption DEF ConfirmationsTruthful
  <1>11. DecisionsTruthful
    BY <1>8 DEF Init, DecisionsTruthful, Stands
  <1>12. CompleteIsLast /\ FinalityNeedsContent
    BY <1>5 DEF Init, CompleteIsLast, FinalityNeedsContent
  <1>13. PacketsBounded
    BY <1>3, <1>4 DEF PacketsBounded
  <1>. QED
    BY <1>9, <1>10, <1>11, <1>12, <1>13 DEF IInv

LEMMA NextInvariant == IInv /\ [Next]_vars => IInv'
  <1>. SUFFICES ASSUME IInv, [Next]_vars
                PROVE  IInv'
    OBVIOUS
  <1>1. CASE UNCHANGED vars
    BY <1>1 DEF vars, sender, receiver, transmission, IInv, TypeOK, Sessions,
                ConfirmationsTruthful, DecisionsTruthful, CompleteIsLast, FinalityNeedsContent,
                PacketsBounded
  <1>. QED
    BY <1>1, AcceptStep, RefuseStep, CompleteStep, ConfirmStep, GiveUpStep, TransmitStep,
       StoreStep, ProgressStep, RecoverStep, AbandonStep, TakeStep, RetryStep DEF Next

\* IInv holds in every reachable state.
THEOREM Invariance == Spec => []IInv
  BY InitInvariant, NextInvariant, PTL DEF Spec

\* The sender believes of a recipient only what it decided, whatever the order,
\* delay and repetition of confirmations (apply_endpoint_confirmation).
THEOREM BelievesOnlyDecisions == Spec => []DecisionsTruthful
  <1>1. IInv => DecisionsTruthful
    BY DEF IInv
  <1>. QED
    BY <1>1, Invariance, PTL

\* No decision is taken before the recipient has the whole attachment, of any
\* number of chunks and after any number of rounds (attachment_complete,
\* ReceiveState::validate_successor).
THEOREM DecidedWithContent == Spec => []FinalityNeedsContent
  <1>1. IInv => FinalityNeedsContent
    BY DEF IInv
  <1>. QED
    BY <1>1, Invariance, PTL

\* The message is protected once, and once more for each migration
\* (ReliableState::retry).
THEOREM PacketForEachMigration == Spec => []PacketsBounded
  <1>1. IInv => PacketsBounded
    BY DEF IInv
  <1>. QED
    BY <1>1, Invariance, PTL

\* A set of recipients with as many members as there are recipients is all of them.
LEMMA AllOfThem ==
  ASSUME NEW S, NEW T \in SUBSET S, IsFiniteSet(S), Cardinality(T) = Cardinality(S)
  PROVE  T = S
  BY FS_Subset

\* An aggregate that counts nobody as pending is of results of everybody.
LEMMA AggregateOfAll ==
  ASSUME TypeOK, Pending(to, results) = 0 \/ Aggregate(to, results) # "partial"
  PROVE  DOMAIN results = to
  <1>. DEFINE D == DOMAIN results
              C(outcome) == {m \in D : results[m].outcome = outcome}
  <1>1. D \subseteq to /\ IsFiniteSet(to) /\ IsFiniteSet(D)
    BY FS_Subset DEF TypeOK
  <1>2. C("pending") = {}
    BY DEF TypeOK, ResultRecords
  <1>3. With(results, "pending") = 0
    BY <1>2, FS_EmptySet DEF With
  <1>4. Cardinality(to) \in Nat /\ Cardinality(D) \in Nat
    BY <1>1, FS_CardinalityType
  <1>5. CASE Pending(to, results) = 0
    <2>1. Cardinality(D) = Cardinality(to)
      BY <1>3, <1>4, <1>5 DEF Pending
    <2>. QED
      BY <1>1, <2>1, AllOfThem
  <1>6. CASE With(results, "delivered") = Cardinality(to)
    <2>1. C("delivered") \subseteq to /\ Cardinality(C("delivered")) = Cardinality(to)
      BY <1>1, <1>6 DEF With
    <2>2. C("delivered") = to
      BY <1>1, <2>1, AllOfThem
    <2>. QED
      BY <1>1, <2>2
  <1>. QED
    BY <1>5, <1>6 DEF Aggregate

\* What was said of the whole group stands: once nobody is pending, no answer of
\* a member and no decision to give it up changes a result (aggregate_results,
\* validate_projection_outcome_successor).
THEOREM AggregateStands == Spec => AggregateFinal
  <1>1. ASSUME IInv, [Next]_vars, MayAggregate(to, results),
               Pending(to, results) = 0 \/ Aggregate(to, results) # "partial"
        PROVE  to' = to /\ results' = results
    <2>1. DOMAIN results = to /\ \A m \in to : results[m] \in ResultRecords
      BY <1>1, AggregateOfAll DEF IInv, TypeOK
    <2>2. \A m \in to : OutcomeOf(m) # "pending"
      BY <2>1 DEF OutcomeOf, ResultRecords
    <2>3. \A m \in to, r \in ResultRecords : Recorded(m, r) = results
      BY <2>2 DEF Recorded, OutcomeSuccessor
    <2>4. ASSUME NEW e \in to, Confirm(e)
          PROVE  to' = to /\ results' = results
      <3>1. PICK c \in confirmations :
              results' = Recorded(e, ResultOf(Confirmed(c.record), c.record.failure))
        BY <2>4 DEF Confirm
      <3>. DEFINE r == ResultOf(Confirmed(c.record), c.record.failure)
      <3>2. OutcomeSuccessor(OutcomeOf(e), r.outcome) => r.outcome = OutcomeOf(e)
        BY <2>2 DEF OutcomeSuccessor
      <3>. QED
        BY <2>4, <3>1, <3>2 DEF Recorded, Confirm
    <2>5. ASSUME NEW e \in to, GiveUp(e)
          PROVE  to' = to /\ results' = results
      BY <2>2, <2>5 DEF GiveUp
    <2>6. CASE UNCHANGED vars
      BY <2>6 DEF vars, sender
    <2>7. ASSUME NEW e \in to, Accept(e) \/ Refuse(e) \/ Complete(e)
          PROVE  to' = to /\ results' = results
      BY <2>7 DEF Accept, Refuse, Complete, sender
    <2>8. CASE Transmit \/ Store \/ Progress \/ Recover \/ Abandon \/ Take \/ Retry
      BY <2>8 DEF Transmit, Store, Progress, Recover, Abandon, Take, Retry, Reports, sender
    <2>. QED
      BY <1>1, <2>4, <2>5, <2>6, <2>7, <2>8 DEF Next
  <1>2. IInv /\ [Next]_vars =>
          [(MayAggregate(to, results) /\ (Pending(to, results) = 0 \/ Aggregate(to, results) # "partial"))
             => (MayAggregate(to, results') /\ Aggregate(to, results') = Aggregate(to, results))]_vars
    <2>. SUFFICES ASSUME IInv, [Next]_vars, MayAggregate(to, results),
                         Pending(to, results) = 0 \/ Aggregate(to, results) # "partial"
                  PROVE  MayAggregate(to, results') /\ Aggregate(to, results') = Aggregate(to, results)
      OBVIOUS
    <2>. QED
      BY <1>1
  <1>. QED
    BY <1>2, Invariance, PTL DEF Spec, AggregateFinal

=============================================================================
