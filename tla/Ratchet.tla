-------------------------------- MODULE Ratchet --------------------------------
(***************************************************************************)
(* The double ratchet of src/src/protection/mod.rs: the RatchetState of     *)
(* both parties and every record that was ever sealed.                     *)
(*                                                                         *)
(* Keys are symbolic and nothing is assumed about agreement: a root or a   *)
(* chain is the sequence of Diffie-Hellman steps it was derived from, and  *)
(* a record opens exactly if the receiver derives the chain it was sealed  *)
(* under.  The carrier may lose, repeat, reorder and reflect records: any  *)
(* sealed record may be presented to either party at any time.             *)
(***************************************************************************)
EXTENDS Naturals, Sequences, FiniteSets, SequencesExt

CONSTANTS
  MaxSkip,      \* MAX_SKIP_PER_RECORD (256)
  MaxSkipped,   \* MAX_SKIPPED_KEYS (1024)
  MaxCounter,   \* largest record number of a chain (u32::MAX)
  MaxKeys,      \* fresh private keys each party draws in this instance
  None          \* Option::None

ASSUME RatchetAssumption ==
  /\ MaxSkip \in Nat
  /\ MaxSkipped \in Nat
  /\ MaxCounter \in Nat
  /\ MaxKeys \in Nat

-----------------------------------------------------------------------------
(* Keys, states and records                                                *)

\* Direction names the party that sends under a chain.
Direction == {"Initiator", "Responder"}
Peer(p) == CHOOSE q \in Direction : q # p

\* A private key and its public half: number 0 is the initiator's ephemeral
\* and the responder's prekey of the handshake.
Key == [owner : Direction, k : 0..MaxKeys]

\* dh_step: both outputs depend on the root, the shared secret and the
\* direction.  The step's root and chain are siblings with the same path.
Step == [shared : SUBSET Key, direction : Direction]
DhStep(root, private, public, direction) ==
  Append(root, [shared |-> {private, public}, direction |-> direction])

\* A protected record; `body` is its plaintext: the party's first, second, ...
Record == [from : Direction, dh : Key, pn : Nat, n : Nat, chain : Seq(Step), body : Nat]

\* A skipped map entry: its coordinate (dh, n), and the chain its key is from.
SkippedKey == [dh : Key, n : Nat, chain : Seq(Step)]

VARIABLES
  st,        \* the RatchetState of each party
  keys,      \* how many fresh private keys each party has drawn
  sent,      \* every record sealed so far
  opened     \* every record its receiver has opened

vars == <<st, keys, sent, opened>>

\* An Option<ChainKey> that is None holds no key.
ASSUME NoneAssumption == None \notin Seq(Step)

-----------------------------------------------------------------------------
(* RatchetState                                                            *)

\* initial_keys: the first root and the initiator's first chain are siblings.
Origin == <<>>

\* RatchetState::initiator and RatchetState::responder.
NewState(p) ==
  [root |-> Origin, local |-> [owner |-> p, k |-> 0],
   peer |-> [owner |-> Peer(p), k |-> 0],
   sending   |-> IF p = "Initiator" THEN Origin ELSE None,
   receiving |-> IF p = "Responder" THEN Origin ELSE None,
   pn |-> 0, ns |-> 0, nr |-> 0, skipped |-> {}]

Fresh(p) == [owner |-> p, k |-> keys[p] + 1]

\* bootstrap_responder.
Bootstrap(s, fresh) ==
  LET chain == DhStep(s.root, fresh, s.peer, "Responder")
  IN [s EXCEPT !.root = chain, !.local = fresh, !.sending = chain]

\* Fault: the number of the sealed record is not spent.
AfterSendFault(s) == [s EXCEPT !.ns = @]

\* RatchetState::send.
Sealed(p, s) == [from |-> p, dh |-> s.local, pn |-> s.pn, n |-> s.ns, chain |-> s.sending,
                 body |-> Cardinality({r \in sent : r.from = p})]
AfterSend(s) == [s EXCEPT !.ns = @ + 1]

\* The keys of numbers from..to-1 of a chain.
KeysOf(dh, chain, from, to) == {[dh |-> dh, n |-> i, chain |-> chain] : i \in from..(to - 1)}

\* HashMap::insert replaces a key with the same coordinate.
Insert(skipped, new) ==
  {k \in skipped : \A j \in new : <<j.dh, j.n>> # <<k.dh, k.n>>} \cup new

\* The skipped keys that record asks for: at most one.
Kept(s, record) == {k \in s.skipped : k.dh = record.dh /\ k.n = record.n}

\* Fault: only the gap is bounded, not the number of keys kept in all.
WithinSkipFault(s, from, to) == to - from <= MaxSkip

WithinSkip(s, from, to) ==
  /\ to - from <= MaxSkip
  /\ Cardinality(s.skipped) + (to - from) <= MaxSkipped

\* Fault: a number below the chain's is taken for a new one.
AdvancesFault(s, record) ==
  /\ WithinSkip(s, s.nr, record.n)
  /\ s.receiving # None
  /\ record.n < MaxCounter
  /\ s.receiving = record.chain

\* Fault: the keys that were jumped over are dropped.
AdvanceFault(s, record) == [s EXCEPT !.nr = record.n + 1]

\* The end of RatchetState::receive, on the receiving chain of s.
Advances(s, record) ==
  /\ record.n >= s.nr
  /\ WithinSkip(s, s.nr, record.n)
  /\ s.receiving # None
  /\ record.n < MaxCounter
  /\ s.receiving = record.chain
Advance(s, record) ==
  [s EXCEPT !.skipped = Insert(@, KeysOf(record.dh, s.receiving, s.nr, record.n)),
            !.nr = record.n + 1]

\* receive_dh_transition: the header's pn closes the old receiving chain.
Transitions(s, record) ==
  /\ record.pn >= s.nr
  /\ WithinSkip(s, s.nr, record.pn)
  /\ record.pn > s.nr => s.receiving # None

\* Fault: the rest of the old receiving chain is not kept.
TransitionFault(p, s, record, fresh) ==
  LET receiving == DhStep(s.root, s.local, record.dh, Peer(p))
      sending   == DhStep(receiving, fresh, record.dh, p)
  IN [s EXCEPT !.root = sending, !.local = fresh, !.peer = record.dh,
               !.sending = sending, !.receiving = receiving,
               !.pn = s.ns, !.ns = 0, !.nr = 0]

\* Fault: the sending step starts from the old root.
TransitionRootFault(p, s, record, fresh) ==
  LET sending == DhStep(s.root, fresh, record.dh, p)
  IN [s EXCEPT !.root = sending, !.local = fresh, !.peer = record.dh, !.sending = sending,
               !.receiving = DhStep(s.root, s.local, record.dh, Peer(p)),
               !.pn = s.ns, !.ns = 0, !.nr = 0]

Transition(p, s, record, fresh) ==
  LET receiving == DhStep(s.root, s.local, record.dh, Peer(p))
      sending   == DhStep(receiving, fresh, record.dh, p)
  IN [s EXCEPT !.root = sending, !.local = fresh, !.peer = record.dh,
               !.sending = sending, !.receiving = receiving,
               !.pn = s.ns, !.ns = 0, !.nr = 0,
               !.skipped = IF record.pn = s.nr THEN @
                           ELSE Insert(@, KeysOf(s.peer, s.receiving, s.nr, record.pn))]

\* RatchetState::receive, in the order of the code: a kept key decides alone.
FromSkipped(s, record) == \E k \in Kept(s, record) : k.chain = record.chain
OnChain(s, record)     == Kept(s, record) = {} /\ record.dh = s.peer /\ Advances(s, record)
OnNewChain(p, s, record) ==
  /\ Kept(s, record) = {}
  /\ record.dh # s.peer
  /\ Transitions(s, record)
  /\ Advances(Transition(p, s, record, Fresh(p)), record)

\* Fault: the key stays after its record was opened.
OpenSkippedFault(s, record) == s

OpenSkipped(s, record) == [s EXCEPT !.skipped = @ \ Kept(s, record)]

-----------------------------------------------------------------------------
(* Actions.  A receive that fails returns an error and the caller keeps the *)
(* old state: it is a stuttering step.                                      *)

Init ==
  /\ st = [p \in Direction |-> NewState(p)]
  /\ keys = [p \in Direction |-> 0]
  /\ sent = {}
  /\ opened = {}

\* RatchetState::send, whose result the Endpoint commits.
Send(p) ==
  /\ st[p].sending # None
  /\ st[p].ns < MaxCounter
  /\ sent' = sent \cup {Sealed(p, st[p])}
  /\ st' = [st EXCEPT ![p] = AfterSend(@)]
  /\ UNCHANGED <<keys, opened>>

\* The responder's first record, with the fresh key its caller staged.
SendFirst(p) ==
  /\ p = "Responder"
  /\ st[p].sending = None
  /\ st[p].ns < MaxCounter
  /\ keys[p] < MaxKeys
  /\ LET s == Bootstrap(st[p], Fresh(p)) IN
     /\ sent' = sent \cup {Sealed(p, s)}
     /\ st' = [st EXCEPT ![p] = AfterSend(s)]
  /\ keys' = [keys EXCEPT ![p] = @ + 1]
  /\ UNCHANGED opened

ReceiveSkipped(p, record) ==
  /\ FromSkipped(st[p], record)
  /\ st' = [st EXCEPT ![p] = OpenSkipped(@, record)]
  /\ opened' = opened \cup {record}
  /\ UNCHANGED <<keys, sent>>

ReceiveOnChain(p, record) ==
  /\ OnChain(st[p], record)
  /\ st' = [st EXCEPT ![p] = Advance(@, record)]
  /\ opened' = opened \cup {record}
  /\ UNCHANGED <<keys, sent>>

ReceiveTransition(p, record) ==
  /\ keys[p] < MaxKeys
  /\ OnNewChain(p, st[p], record)
  /\ st' = [st EXCEPT ![p] = Advance(Transition(p, @, record, Fresh(p)), record)]
  /\ keys' = [keys EXCEPT ![p] = @ + 1]
  /\ opened' = opened \cup {record}
  /\ UNCHANGED sent

Next ==
  \E p \in Direction :
    \/ Send(p)
    \/ SendFirst(p)
    \/ \E record \in sent :
         ReceiveSkipped(p, record) \/ ReceiveOnChain(p, record) \/ ReceiveTransition(p, record)

Spec == Init /\ [][Next]_vars

-----------------------------------------------------------------------------
(* Properties                                                              *)

\* Whether p would open record now, were a fresh key staged for it.
CanOpen(p, record) ==
  \/ FromSkipped(st[p], record)
  \/ OnChain(st[p], record)
  \/ OnNewChain(p, st[p], record)

\* However records are delayed, reordered, repeated or reflected, both parties
\* derive the same chains: what one sealed and the other has not opened yet,
\* the other can open now, as long as no skip bound stands in the way.
OutstandingOpens == \A record \in sent \ opened : CanOpen(Peer(record.from), record)

\* The skip bounds that may refuse an outstanding record: the gap in the
\* current chain, the rest of the old one, or the gap at the start of a new one.
BeyondBounds(p, record) ==
  LET s == st[p] IN
  IF record.dh = s.peer THEN ~WithinSkip(s, s.nr, record.n)
  ELSE \/ ~WithinSkip(s, s.nr, record.pn)
       \/ ~WithinSkip(Transition(p, s, record, Fresh(p)), 0, record.n)

\* Nothing but a skip bound refuses an outstanding record, whatever the bounds
\* made the receiver refuse before: no refusal damages the state.
RefusedOnlyByBounds ==
  \A record \in sent \ opened :
    LET p == Peer(record.from)
    IN CanOpen(p, record) \/ (Kept(st[p], record) = {} /\ BeyondBounds(p, record))

\* A record opens once, and only for the party it is meant for.
OpensOnce ==
  \A p \in Direction : \A record \in sent :
    record \in opened \/ record.from = p => ~CanOpen(p, record)

\* No message key (a chain and a number) seals two records.
SealsOnce ==
  \A a, b \in sent : a.chain = b.chain /\ a.n = b.n => a = b /\ a.from = b.from

\* The skipped keys stay within their bound, and each is the key of a record
\* that the peer may still deliver: none is left behind by an opened record,
\* and none belongs to a number the peer never used.
SkippedOutstanding ==
  \A p \in Direction :
    /\ Cardinality(st[p].skipped) <= MaxSkipped
    /\ \A k \in st[p].skipped :
         \E record \in sent \ opened :
           record.from = Peer(p) /\ record.dh = k.dh /\ record.n = k.n /\ record.chain = k.chain

\* What a party could still derive from its RatchetState: a kept key, the rest
\* of its chains, and every chain that a later step of its root leads to.
Derives(s, record) ==
  \/ \E k \in s.skipped : k.chain = record.chain /\ k.n = record.n
  \/ s.sending = record.chain /\ s.ns <= record.n
  \/ s.receiving = record.chain /\ s.nr <= record.n
  \/ IsStrictPrefix(s.root, record.chain)

\* Forward secrecy: neither the sender nor a receiver that has opened a record
\* still holds anything its key can be derived from.
ForwardSecrecy ==
  \A record \in sent :
    /\ ~Derives(st[record.from], record)
    /\ record \in opened => ~Derives(st[Peer(record.from)], record)

\* The two roots never fork: one is a prefix of the other, at most one turn
\* (a receiving and a sending step) ahead.
RootsAgree ==
  LET a == st["Initiator"].root
      b == st["Responder"].root
  IN (IsPrefix(a, b) \/ IsPrefix(b, a)) /\ Len(a) <= Len(b) + 2 /\ Len(b) <= Len(a) + 2

\* A receiving chain is never re-entered once the party has left it, and the
\* numbers of a chain only grow.
NeverRewinds ==
  [][\A p \in Direction :
       /\ IsPrefix(st[p].root, st'[p].root)
       /\ st[p].root = st'[p].root => /\ st'[p].ns >= st[p].ns
                                      /\ st'[p].nr >= st[p].nr]_vars

State ==
  [root : Seq(Step), local : Key, peer : Key,
   sending : Seq(Step) \cup {None}, receiving : Seq(Step) \cup {None},
   pn : Nat, ns : 0..MaxCounter, nr : 0..MaxCounter, skipped : SUBSET SkippedKey]

\* Every variable holds a value of its type.
TypeOK ==
  /\ st \in [Direction -> State]
  /\ keys \in [Direction -> 0..MaxKeys]
  /\ sent \subseteq Record /\ IsFiniteSet(sent)
  /\ opened \subseteq sent

\* Whose chain it is: the first is the initiator's, and every other ends in a
\* step of its party.
OwnChain(p, chain) ==
  IF chain = Origin THEN p = "Initiator" ELSE Last(chain).direction = p

\* A party seals under the chain that its root ends with.  It has sealed nothing
\* under a chain it has not reached, nor with a number it has not spent.
SealedBehind ==
  /\ \A p \in Direction :
       st[p].sending # None => st[p].sending = st[p].root /\ OwnChain(p, st[p].root)
  /\ \A record \in sent :
       LET s == st[record.from] IN
       /\ OwnChain(record.from, record.chain)
       /\ Len(record.chain) <= Len(s.root)
       /\ Len(record.chain) = Len(s.root) => record.chain = s.root /\ record.n < s.ns

SkippedBounded ==
  \A p \in Direction :
    IsFiniteSet(st[p].skipped) /\ Cardinality(st[p].skipped) <= MaxSkipped

\* The inductive invariant.
IInv == TypeOK /\ SealedBehind /\ SealsOnce /\ SkippedBounded

-----------------------------------------------------------------------------
(* The two parties together                                                *)

\* The length of the chain that p seals under with its k-th key: the initiator
\* takes the even steps of the path, the responder the odd ones.
Reach(p, k) == IF p = "Initiator" \/ k = 0 THEN 2 * k ELSE 2 * k - 1

\* The peer's key that p has answered with its k-th own key.
Answers(p, k) == IF p = "Initiator" \/ k = 0 THEN k ELSE k - 1

\* One path of steps: each party is at its place on it, and whoever is one key
\* behind its peer is one step behind it, a step that both can take.
Turns ==
  \A p \in Direction :
    LET q == Peer(p)  s == st[p]  u == st[q] IN
    /\ s.local = [owner |-> p, k |-> keys[p]]
    /\ s.peer = [owner |-> q, k |-> Answers(p, keys[p])]
    /\ keys[q] \in {s.peer.k, s.peer.k + 1}
    /\ Len(s.root) = Reach(p, keys[p])
    /\ s.sending = None <=> p = "Responder" /\ keys[p] = 0
    /\ s.receiving = None <=> p = "Initiator" /\ keys[p] = 0
    /\ s.receiving # None => Len(s.receiving) = Reach(q, s.peer.k)
    /\ s.receiving # None /\ s.peer = u.local => s.receiving = u.root
    /\ s.peer # u.local => u.root = DhStep(s.root, u.local, s.local, q)

Numbers(records, dh) == {r.n : r \in {x \in records : x.dh = dh}}

\* The records of one key are of one chain and bear the numbers 0, 1, 2, ...; the
\* previous chain ended where pn says.
Numbered ==
  /\ \A r \in sent :
       /\ r.dh.owner = r.from /\ r.dh.k <= keys[r.from] /\ r.n < MaxCounter
       /\ r.from = "Responder" => r.dh.k > 0
       /\ Len(r.chain) = Reach(r.from, r.dh.k)
       /\ r.dh = st[r.from].local => r.chain = st[r.from].root /\ r.pn = st[r.from].pn
       /\ r.dh = st[Peer(r.from)].peer => r.chain = st[Peer(r.from)].receiving
       /\ 0..r.n \subseteq Numbers(sent, r.dh)
       /\ Numbers(sent, [owner |-> r.from, k |-> r.dh.k - 1]) = 0..(r.pn - 1)
  /\ \A r, x \in sent : r.dh = x.dh => r.chain = x.chain /\ (r.n = x.n => r = x)
  /\ \A p \in Direction :
       /\ Numbers(sent, st[p].local) = 0..(st[p].ns - 1)
       /\ Numbers(sent, [owner |-> p, k |-> keys[p] - 1]) = 0..(st[p].pn - 1)

\* The receiver's chains have reached this number of that key.
Passed(s, dh, n) == dh.k < s.peer.k \/ (dh = s.peer /\ n < s.nr)

KeyOf(record) == [dh |-> record.dh, n |-> record.n, chain |-> record.chain]

\* What the chains of receiver p in state s have passed was opened or is kept, and
\* nothing else is.
ReceivedBy(p, s, records, done) ==
  /\ s.nr > 0 => s.nr - 1 \in Numbers(records, s.peer)
  /\ \A r \in records : r.from = Peer(p) =>
       (Passed(s, r.dh, r.n) <=> r \in done \/ KeyOf(r) \in s.skipped)
  /\ \A k \in s.skipped : \E r \in records \ done : r.from = Peer(p) /\ KeyOf(r) = k

Received == \A p \in Direction : ReceivedBy(p, st[p], sent, opened)

\* Inductive together.
JInv == IInv /\ Turns /\ Numbered /\ Received

=============================================================================
