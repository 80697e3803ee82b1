------------------------------ MODULE Conversation ------------------------------
(***************************************************************************)
(* What the Endpoint of src/src/endpoint/mod.rs promises its callers: a     *)
(* conversation that moves in single steps, as if there were one process,  *)
(* no failure and no retry.  There are no revisions, plans, recoveries or  *)
(* key counters here; EndpointRefinement says how they implement it.       *)
(***************************************************************************)
EXTENDS Naturals, FiniteSets

CONSTANTS
  Role,   \* "Initiator" or "Responder"
  None    \* no first packet

VARIABLES
  stage,    \* "new", "awaiting" (initiator), "established" or "deleted"
  top,      \* the largest number of a published bundle, or 0
  offers,   \* the published bundles that can be answered
  first,    \* the one first packet, while it may have to be repeated
  spent,    \* encapsulation entropy that no first packet may use again
  outbox,   \* what waits for the carrier, the application or the reader
  handed,   \* what they have taken at least once
  told      \* what callers have been told

vars == <<stage, top, offers, first, spent, outbox, handed, told>>

Init ==
  /\ stage = "new"
  /\ top = 0
  /\ offers = {}
  /\ first = None
  /\ spent = {}
  /\ outbox = {}
  /\ handed = {}
  /\ told = {}

\* The caller whose step it was is told at once, or later, or never.
MayTell(answer) == told' \in {told, told \cup {answer}}

\* A bundle is published under a new number and with keys of its own.
Publish ==
  /\ Role = "Responder"
  /\ stage = "new"
  /\ \E bundle \in offers' \ offers :
       /\ offers' = offers \cup {bundle}
       /\ bundle.seq > top
       /\ \A other \in offers : other.x # bundle.x /\ other.k # bundle.k
       /\ top' = bundle.seq
       /\ MayTell([type |-> "Bundle", val |-> bundle])
  /\ UNCHANGED <<stage, first, spent, outbox, handed>>

\* The responder takes one first packet, for one of its offers; all others go.
Accept ==
  /\ Role = "Responder"
  /\ stage = "new"
  /\ stage' = "established"
  /\ first'.prekey \in offers
  /\ offers' = {}
  /\ MayTell([type |-> "Accept", val |-> first'])
  /\ UNCHANGED <<top, spent, outbox, handed>>

\* The initiator makes one first packet, with entropy nobody has used.
Create ==
  /\ Role = "Initiator"
  /\ stage = "new"
  /\ stage' = "awaiting"
  /\ first'.e \notin spent
  /\ spent' = spent \cup {first'.e}
  /\ MayTell([type |-> "First", val |-> first'])
  /\ UNCHANGED <<top, offers, outbox, handed>>

Complete ==
  /\ stage = "awaiting"
  /\ stage' = "established"
  /\ first' = None
  /\ UNCHANGED <<top, offers, spent, outbox, handed, told>>

\* What an operation produces was never there before, uses a message key of
\* its own, and joins at most one packet and one plaintext in flight.
Produce ==
  /\ stage = "established"
  /\ outbox \subseteq outbox'
  /\ \A item \in outbox' \ outbox :
       /\ item \notin handed
       /\ item.kind \in {"Packet", "Plaintext"} =>
            {other \in outbox' : other.kind = item.kind} = {item}
       /\ item.kind = "Packet" =>
            \A other \in handed :
              other.kind = "Packet" => <<other.x, other.n>> # <<item.x, item.n>>
  /\ UNCHANGED <<stage, top, offers, first, spent, handed, told>>

\* A boundary takes what waits for it.  An attempt that was under way when the
\* session was deleted may still succeed.
Hand ==
  /\ handed \subseteq handed'
  /\ \A item \in handed' \ handed : item \in outbox \/ stage = "deleted"
  /\ UNCHANGED <<stage, top, offers, first, spent, outbox, told>>

Settle ==
  /\ \E item \in outbox \cap handed : outbox' = outbox \ {item}
  /\ UNCHANGED <<stage, top, offers, first, spent, handed, told>>

Delete ==
  /\ stage # "deleted"
  /\ stage' = "deleted"
  /\ offers' = {}
  /\ first' = None
  /\ outbox' = {}
  /\ UNCHANGED <<top, spent, handed, told>>

\* A caller is told, by a retry or after an uncertain outcome, what holds now.
Holds(answer) ==
  \/ answer.type = "Bundle" /\ answer.val \in offers
  \/ answer.type = "Accept" /\ stage = "established" /\ answer.val = first
  \/ answer.type = "First" /\ stage = "awaiting" /\ answer.val = first

Tell ==
  /\ told \subseteq told'
  /\ \A answer \in told' \ told : Holds(answer)
  /\ UNCHANGED <<stage, top, offers, first, spent, outbox, handed>>

Next == Publish \/ Accept \/ Create \/ Complete \/ Produce \/ Hand \/ Settle \/ Delete \/ Tell

Spec == Init /\ [][Next]_vars

=============================================================================
