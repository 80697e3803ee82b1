------------------------------- MODULE Reliable -------------------------------
(***************************************************************************)
(* Confirmations of what became of a message, and the counters of its      *)
(* transmissions: src/src/reliable.rs.  The module has no state of its own *)
(* in the code: each function maps a state and an input to the next state  *)
(* or to an error.  A function that can fail is a pair of operators here,  *)
(* the condition and the result.                                           *)
(***************************************************************************)
EXTENDS Naturals, FiniteSets

CONSTANTS
  MaxConfirmationIds,  \* MAX_CONFIRMATION_IDS (32)
  MaxConfirmedCode,    \* 13, the largest failure code of a confirmation
  MaxRetries,          \* MAX_RETRY_TRANSMISSIONS (32)
  MaxMigrations,       \* MAX_ROUTE_MIGRATIONS (16)
  MaxTransitions,      \* MAX_STATE_TRANSITIONS (256)
  None                 \* an absent failure code or result digest

FinalityStates == {"pending", "accepted", "completed", "rejected", "failed"}

-----------------------------------------------------------------------------
(* Confirmations                                                           *)

\* validate_confirmation_ids; a sorted list without repetition is a set.
ConfirmationIds(ids) == ids # {} /\ Cardinality(ids) <= MaxConfirmationIds

\* validate_confirmation_record: which confirmations can be written at all.
ConfirmationRecord(c) ==
  /\ ConfirmationIds(c.ids)
  /\ c.failure # None <=> c.outcome \in {"rejected", "failed"}
  /\ c.failure # None => c.failure <= MaxConfirmedCode
  /\ c.result # None <=> (c.stage = "effectCompleted" /\ c.outcome = "succeeded")

\* The finality that a confirmation stands for.
Confirmed(c) ==
  CASE c.outcome = "rejected" -> "rejected"
    [] c.outcome = "failed"   -> "failed"
    [] c.outcome = "succeeded" ->
         IF c.stage = "endpointAccepted" THEN "accepted" ELSE "completed"

Rank(finality) ==
  CASE finality = "pending"  -> 0
    [] finality = "accepted" -> 1
    [] OTHER                 -> 2

\* Fault: whoever is authorized in the group may confirm for everybody.
SessionFault(session, expected) == session.authenticated /\ session.authorized

\* An AuthorizedSession with the endpoint that is to confirm.
Session(session, expected) ==
  /\ session.authenticated
  /\ session.authorized
  /\ session.sender = expected

\* The result is confirmed with its effect, and is the one that was expected.
ResultConfirmed(c, expected) ==
  IF c.stage = "effectCompleted"
  THEN c.outcome = "succeeded" /\ expected # None /\ c.result = expected
  ELSE c.result = None

\* Fault: the content of the attachment is not waited for.
MayConfirmFault(finality, id, c, session, sender, expected, attachmentComplete) ==
  /\ ConfirmationIds(c.ids) /\ id \in c.ids
  /\ Session(session, sender)
  /\ c.failure # None <=> c.outcome \in {"rejected", "failed"}
  /\ c.failure # None => c.failure <= MaxConfirmedCode
  /\ ResultConfirmed(c, expected)
  /\ finality # Confirmed(c) => Rank(Confirmed(c)) > Rank(finality)

\* apply_endpoint_confirmation, when it does not fail; it yields Confirmed(c).
MayConfirm(finality, id, c, session, sender, expected, attachmentComplete) ==
  /\ ConfirmationIds(c.ids) /\ id \in c.ids
  /\ Session(session, sender)
  /\ c.failure # None <=> c.outcome \in {"rejected", "failed"}
  /\ c.failure # None => c.failure <= MaxConfirmedCode
  /\ ResultConfirmed(c, expected)
  /\ attachmentComplete
  /\ finality # Confirmed(c) => Rank(Confirmed(c)) > Rank(finality)

\* validate_projection_outcome_successor
OutcomeSuccessor(current, incoming) == current = "pending" \/ current = incoming

-----------------------------------------------------------------------------
(* Transmissions: ReliableState, with the outcome given apart               *)

WithinCounters(s) ==
  /\ s.retries <= MaxRetries
  /\ s.migrations <= MaxMigrations
  /\ s.transitions <= MaxTransitions

\* ReliableState::retry over a route; the route it has asks for the packet it has.
Retried(s, route, packet) ==
  IF route = s.route
  THEN [s EXCEPT !.packet = packet, !.retries = @ + 1, !.transitions = @ + 1]
  ELSE [s EXCEPT !.route = route, !.packet = packet,
                 !.migrations = @ + 1, !.transitions = @ + 1]

\* Fault: another packet may go over the route of the last one.
MayRetryFault(s, outcome, route, packet) ==
  /\ WithinCounters(s)
  /\ outcome \notin {"effectCompleted", "failed"}
  /\ WithinCounters(Retried(s, route, packet))

MayRetry(s, outcome, route, packet) ==
  /\ WithinCounters(s)
  /\ outcome \notin {"effectCompleted", "failed"}
  /\ route = s.route => packet = s.packet
  /\ WithinCounters(Retried(s, route, packet))

=============================================================================
