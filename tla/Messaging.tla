------------------------------ MODULE Messaging ------------------------------
(***************************************************************************)
(* Messages with attachments, and how their receipt is reported:           *)
(* src/src/messaging.rs.                                                   *)
(*                                                                         *)
(* A ReceiveState is [missing, update, outcome, failure, round], where     *)
(* missing is the set of chunks that its ranges cover.  The ranges of a    *)
(* set are its maximal runs, in ascending order and never touching.        *)
(***************************************************************************)
EXTENDS Naturals, FiniteSets

CONSTANTS
  MaxRuns,         \* MAX_REQUEST_RANGES (32)
  MaxChunks,       \* MAX_REQUESTED_CHUNKS and MAX_ATTACHMENT_CHUNKS (128)
  MaxUpdate,       \* MAX_STATE_UPDATE (64)
  MaxRound,        \* MAX_RECOVERY_ROUND (32)
  MaxReceiveCode,  \* 14, the largest failure code of a receive state
  NoFailure        \* an absent failure code

ReceiveOutcomes == {"pending", "complete", "cancelled", "failed"}

\* The first chunks of the runs of a set of chunks, one to a run.
RunStarts(chunks) == {c \in chunks : c = 0 \/ c - 1 \notin chunks}

\* ReceiveState::validate; decode ends with it.
ValidReceive(r) ==
  /\ Cardinality(RunStarts(r.missing)) <= MaxRuns
  /\ Cardinality(r.missing) <= MaxChunks
  /\ r.update <= MaxUpdate
  /\ r.round <= MaxRound
  /\ r.failure # NoFailure => r.failure <= MaxReceiveCode
  /\ r.failure # NoFailure <=> r.outcome \in {"cancelled", "failed"}
  /\ r.missing = {} <=> r.outcome = "complete"

\* ReceiveState::validate_successor: a later update of a receipt that is still
\* pending, or the same one again.
ReceiveSuccessor(r, next, verified) ==
  /\ ValidReceive(r) /\ ValidReceive(next)
  /\ next.round >= r.round
  /\ \/ next.update = r.update /\ next = r
     \/ /\ next.update > r.update
        /\ r.outcome = "pending"
        /\ next.outcome = "complete" => verified

\* validate_attachment_chunk, by chunks: there is one with this index, of the
\* length the geometry gives it.
ValidChunk(count, chunk) == count <= MaxChunks /\ chunk \in 0..(count - 1)

-----------------------------------------------------------------------------
(* What a message must be: Message::validate; encode begins and decode ends *)
(* with it                                                                 *)

Correlated == {"response", "error", "cancel", "streamChunk"}

\* A message is [kind, content, related, chunk, final, of, attachments]: its
\* content "receiveState" or "plain"; `related`, `final` and `of` say whether
\* relatesTo, chunkFinal and attachmentId are there; chunk is an index or
\* NoFailure; attachments are sizes in chunks by id.
ValidMessage(m) ==
  /\ m.related <=> \/ m.kind \in Correlated
                   \/ m.kind = "event" /\ m.content = "receiveState"
  /\ m.chunk # NoFailure <=> m.kind = "streamChunk"
  /\ m.kind # "streamChunk" => ~m.final /\ ~m.of
  /\ m.kind = "streamChunk" => (m.final # m.of)
  /\ m.content = "receiveState" => m.kind = "event" /\ m.attachments = {}

=============================================================================
