---------------------------- MODULE IdentityChain ----------------------------
(***************************************************************************)
(* The identity, affiliation and route chains of endpoints, and what a     *)
(* peer makes of their records: the rest of src/src/identity.rs.           *)
(*                                                                         *)
(* An endpoint signs records that name their predecessor by digest; it may *)
(* sign two with one predecessor, or a number out of order.  Peers receive *)
(* them late, repeated and in any order, check the form of each            *)
(* (validate_definition_record) and then whether it continues what they    *)
(* have accepted (validate_successor).  A whole chain can also be checked  *)
(* at once (validate_epoch_sequence).                                      *)
(*                                                                         *)
(* A digest is the place of a record in `records`.  The code recomputes    *)
(* none in these checks: that the digest presented with a record is the    *)
(* record's own is for the caller to establish, and assumed here.          *)
(***************************************************************************)
EXTENDS Naturals, Sequences, FiniteSets

CONSTANTS
  Peers,            \* who follow the chains
  Endpoints,        \* whose chains they are
  MaxEpoch,         \* MAX_EPOCH (2^53 - 1)
  MaxChainRecords,  \* MAX_CHAIN_RECORDS (64), of a chain checked at once
  MaxItems,         \* 4 keys, affiliations or routes to a record
  MaxRecords,       \* bound of the instance: records signed
  None              \* an absent digest

ASSUME BoundsAssumption ==
  /\ MaxEpoch \in Nat /\ MaxChainRecords \in Nat /\ MaxItems \in Nat /\ MaxRecords \in Nat
  /\ None \notin Nat

VARIABLES
  kind,     \* which chain this is
  records,  \* the records the endpoints have signed, by digest
  history   \* the records each peer has accepted; the last is its ChainTip

vars == <<kind, records, history>>

-----------------------------------------------------------------------------
(* The form of a record                                                    *)

ChainKinds == {"identity", "affiliation", "route"}

Transitions == {"genesis", "migration", "rotation", "revocation", "recovery"}

\* Lists that an identityUpdate may or may not carry.
Extras == {"revokedKeyDigests", "recoveryProof"}

\* The continuity proof is of the record's transition, and about its predecessor.
ContinuityProof(r) ==
  /\ r.proof.kind = r.transition
  /\ r.proof.predecessor = r.previous

IdentityUpdate(r) ==
  /\ \/ r.transition = "genesis" /\ r.epoch = 1 /\ r.previous = None /\ r.extras = {}
     \/ /\ r.epoch >= 2 /\ r.previous # None
        /\ \/ r.transition = "rotation"
           \/ r.transition = "revocation" /\ "revokedKeyDigests" \in r.extras
           \/ r.transition = "recovery" /\ "recoveryProof" \in r.extras
  /\ r.items \in 1..MaxItems
  /\ ContinuityProof(r)

\* Affiliations and routes: the first record, and no other, is the genesis.
FirstIsGenesis(r) ==
  /\ r.epoch = 1 <=> r.transition = "genesis"
  /\ r.epoch = 1 <=> r.previous = None

AffiliationUpdate(r) == FirstIsGenesis(r) /\ r.items \in 0..MaxItems

RouteUpdate(r) == FirstIsGenesis(r) /\ r.items \in 1..MaxItems

\* validate_definition_record, for the records of a chain.
WellFormed(r) ==
  /\ r.epoch \in 1..MaxEpoch
  /\ CASE kind = "identity"    -> IdentityUpdate(r)
       [] kind = "affiliation" -> AffiliationUpdate(r)
       [] kind = "route"       -> RouteUpdate(r)

-----------------------------------------------------------------------------
(* The continuity of a chain                                               *)

\* Fault: the record is taken by its number, whatever it says came before it.
SuccessorFault(h, i) ==
  LET next == records[i]
      tip  == records[h[Len(h)]]
  IN CASE \/ next.epoch \notin 1..MaxEpoch
          \/ h # <<>> /\ tip.epoch \notin 1..(MaxEpoch - 1)         -> "BoundExceeded"
       [] h = <<>> /\ next.epoch = 1 /\ next.previous = None        -> "Ok"
       [] h # <<>> /\ next.endpoint = tip.endpoint
                   /\ next.epoch = tip.epoch + 1                    -> "Ok"
       [] h # <<>> /\ next.epoch <= tip.epoch                       -> "Conflict"
       [] OTHER                                                     -> "InvalidTransition"

\* validate_successor: what becomes of record i after the history h.
Successor(h, i) ==
  LET next == records[i]
      tip  == records[h[Len(h)]]
  IN CASE \/ next.epoch \notin 1..MaxEpoch
          \/ h # <<>> /\ tip.epoch \notin 1..(MaxEpoch - 1)         -> "BoundExceeded"
       [] h = <<>> /\ next.epoch = 1 /\ next.previous = None        -> "Ok"
       [] h # <<>> /\ next.endpoint = tip.endpoint
                   /\ next.epoch = tip.epoch + 1
                   /\ next.previous = h[Len(h)]                     -> "Ok"
       [] h # <<>> /\ next.epoch <= tip.epoch                       -> "Conflict"
       [] OTHER                                                     -> "InvalidTransition"

\* Fault: a number lower than the one before it is a gap too.
BreakFault(h, k) ==
  CASE records[h[k]].epoch = records[h[k - 1]].epoch ->
         IF h[k] = h[k - 1] THEN "Replay" ELSE "Fork"
    [] OTHER -> "Gap"

\* How the record at k fails to follow the one before it.
Break(h, k) ==
  CASE records[h[k]].epoch = records[h[k - 1]].epoch ->
         IF h[k] = h[k - 1] THEN "Replay" ELSE "Fork"
    [] records[h[k]].epoch < records[h[k - 1]].epoch -> "Rollback"
    [] OTHER -> "Gap"

\* validate_epoch_sequence of the numbers and digests of a chain: the first
\* break in it.
EpochSequence(h) ==
  LET Breaks == {k \in 2..Len(h) : records[h[k]].epoch # records[h[k - 1]].epoch + 1}
  IN CASE \/ Len(h) > MaxChainRecords
          \/ \E k \in 1..Len(h) : records[h[k]].epoch > MaxEpoch -> "Bound"
       [] h = <<>> \/ records[h[1]].epoch # 1 -> "Rollback"
       [] OTHER -> IF Breaks = {} THEN "Ok"
                   ELSE Break(h, CHOOSE k \in Breaks : \A j \in Breaks : k <= j)

-----------------------------------------------------------------------------
(* Endpoints sign, peers follow                                            *)

Drafts(e) ==
  [endpoint : {e}, epoch : 1..(MaxEpoch + 1), previous : {None} \cup 1..Len(records),
   transition : Transitions,
   items : {0, MaxItems},
   extras : IF kind = "identity" THEN {{}, Extras} ELSE {{}},
   proof : IF kind = "identity"
           THEN [kind : Transitions, predecessor : {None} \cup 1..Len(records)]
           ELSE {None}]

Sign(e) ==
  /\ Len(records) < MaxRecords
  /\ \E r \in Drafts(e) :
       /\ WellFormed(r)
       /\ \A i \in 1..Len(records) : records[i] # r
       /\ records' = Append(records, r)
  /\ UNCHANGED <<kind, history>>

Accept(p) ==
  /\ \E i \in 1..Len(records) :
       /\ WellFormed(records[i])
       /\ Successor(history[p], i) = "Ok"
       /\ history' = [history EXCEPT ![p] = Append(@, i)]
  /\ UNCHANGED <<kind, records>>

Init ==
  /\ kind \in ChainKinds
  /\ records = <<>>
  /\ history = [p \in Peers |-> <<>>]

Next == (\E e \in Endpoints : Sign(e)) \/ (\E p \in Peers : Accept(p))

Spec == Init /\ [][Next]_vars

-----------------------------------------------------------------------------
(* Properties                                                              *)

Record ==
  [endpoint : Endpoints, epoch : 1..MaxEpoch, previous : {None} \cup Nat,
   transition : Transitions, items : {0, MaxItems}, extras : {{}, Extras},
   proof : {None} \cup [kind : Transitions, predecessor : {None} \cup Nat]]

\* Every variable holds a value of its type.
TypeOK ==
  /\ kind \in ChainKinds
  /\ records \in Seq(Record)
  /\ history \in [Peers -> Seq(1..Len(records))]

\* A history is one endpoint's, numbered from 1, each record after the one before.
Linked(h) ==
  \A k \in 1..Len(h) :
    /\ records[h[k]].epoch = k
    /\ records[h[k]].endpoint = records[h[1]].endpoint
    /\ records[h[k]].previous = IF k = 1 THEN None ELSE h[k - 1]

\* The inductive invariant.
IInv == TypeOK /\ \A p \in Peers : Linked(history[p])

\* Two peers with different histories of one endpoint, neither a beginning of
\* the other, prove that the endpoint signed two records in one place: there
\* are two different records with the same number and the same predecessor.
ForkAccountable ==
  \A p, q \in Peers : \A k \in 1..Len(history[p]) :
    (k <= Len(history[q]) /\ history[p][k] # history[q][k]
       /\ records[history[p][1]].endpoint = records[history[q][1]].endpoint)
      => \E i, j \in 1..Len(records) :
           /\ i # j
           /\ records[i].endpoint = records[j].endpoint
           /\ records[i].epoch = records[j].epoch
           /\ records[i].previous = records[j].previous

\* A peer that has followed a chain record by record would have accepted it as
\* a whole, and would have refused as a whole, for a replay, a fork or a
\* rollback, exactly what it refused as a conflict: the two checks of the
\* continuity agree, as far as a chain can be checked at once and can grow.
ChecksAgree ==
  \A p \in Peers : \A i \in 1..Len(records) :
    LET h == history[p]
        verdict == EpochSequence(Append(h, i))
    IN (h # <<>> /\ Len(h) < MaxChainRecords /\ records[h[Len(h)]].epoch < MaxEpoch) =>
         /\ EpochSequence(h) = "Ok"
         /\ Successor(h, i) = "Ok" => verdict = "Ok"
         /\ Successor(h, i) = "Conflict" <=> verdict \in {"Replay", "Fork", "Rollback"}

=============================================================================
