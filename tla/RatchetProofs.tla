----------------------------- MODULE RatchetProofs -----------------------------
(***************************************************************************)
(* Proofs about Ratchet, for every value of its constants: any number of   *)
(* fresh keys, records and turns, and any skip bounds.                     *)
(*                                                                         *)
(* That no message key seals twice rests on three facts, SealedBehind: the *)
(* chain a party seals under is the one its root ends with, roots only get *)
(* longer, and a chain ends in a step of the party that seals under it.    *)
(*                                                                         *)
(* That the parties agree, that every record opens once and that the keys  *)
(* of opened records are gone is a fact about both states, all records and *)
(* all openings together, JInv: Turns says where the parties stand to each *)
(* other, Numbered under which chain and number each record was sealed,    *)
(* Received what a party has passed, kept and opened.                      *)
(***************************************************************************)
EXTENDS Ratchet, FiniteSetTheorems, SequenceTheorems, TLAPS

-----------------------------------------------------------------------------
(* Keys                                                                    *)

LEMMA PeerType ==
  ASSUME NEW p \in Direction
  PROVE  Peer(p) \in Direction
  BY DEF Peer, Direction

\* Paths that begin alike.
LEMMA PrefixPointwise ==
  ASSUME NEW a \in Seq(Step), NEW b \in Seq(Step)
  PROVE  IsPrefix(a, b) <=> Len(a) <= Len(b) /\ \A i \in 1..Len(a) : a[i] = b[i]
  <1>1. CASE Len(a) <= Len(b)
    <2>1. Len(a) \in Nat /\ Len(b) \in Nat
      OBVIOUS
    <2>2. /\ SubSeq(a, 1, Len(a)) \in Seq(Step) /\ Len(SubSeq(a, 1, Len(a))) = Len(a)
          /\ \A i \in 1..Len(a) : SubSeq(a, 1, Len(a))[i] = a[i]
      BY <2>1, SubSeqProperties
    <2>3. /\ SubSeq(b, 1, Len(a)) \in Seq(Step) /\ Len(SubSeq(b, 1, Len(a))) = Len(a)
          /\ \A i \in 1..Len(a) : SubSeq(b, 1, Len(a))[i] = b[i]
      BY <1>1, <2>1, SubSeqProperties
    <2>4. SubSeq(a, 1, Len(a)) = SubSeq(b, 1, Len(a)) <=> \A i \in 1..Len(a) : a[i] = b[i]
      <3>. DEFINE x == SubSeq(a, 1, Len(a))
                  y == SubSeq(b, 1, Len(a))
      <3>1. x = y => \A i \in 1..Len(a) : a[i] = b[i]
        BY <2>2, <2>3
      <3>2. (\A i \in 1..Len(a) : a[i] = b[i]) => x = y
        <4>. HIDE DEF x, y
        <4>. QED
          BY <2>2, <2>3, SeqEqual DEF x, y
      <3>. QED
        BY <3>1, <3>2
    <2>. QED
      BY <1>1, <2>4 DEF IsPrefix
  <1>2. CASE ~(Len(a) <= Len(b))
    BY <1>2 DEF IsPrefix
  <1>. QED
    BY <1>1, <1>2

LEMMA PrefixReflexive ==
  ASSUME NEW a \in Seq(Step)
  PROVE  IsPrefix(a, a)
  BY PrefixPointwise

LEMMA PrefixTransitive ==
  ASSUME NEW a \in Seq(Step), NEW b \in Seq(Step), NEW c \in Seq(Step),
         IsPrefix(a, b), IsPrefix(b, c)
  PROVE  IsPrefix(a, c)
  <1>1. /\ Len(a) <= Len(b) /\ \A i \in 1..Len(a) : a[i] = b[i]
        /\ Len(b) <= Len(c) /\ \A i \in 1..Len(b) : b[i] = c[i]
    BY PrefixPointwise
  <1>2. Len(a) <= Len(c) /\ \A i \in 1..Len(a) : a[i] = c[i]
    BY <1>1
  <1>. QED
    BY <1>2, PrefixPointwise

\* A step makes a longer path, which ends in it.
LEMMA DhStepType ==
  ASSUME NEW root \in Seq(Step), NEW private \in Key, NEW public \in Key,
         NEW direction \in Direction
  PROVE  /\ DhStep(root, private, public, direction) \in Seq(Step)
         /\ Len(DhStep(root, private, public, direction)) = Len(root) + 1
         /\ Last(DhStep(root, private, public, direction)).direction = direction
         /\ IsPrefix(root, DhStep(root, private, public, direction))
  <1>. DEFINE step == [shared |-> {private, public}, direction |-> direction]
  <1>1. step \in Step /\ step.direction = direction
    BY DEF Step
  <1>2. DhStep(root, private, public, direction) = Append(root, step)
    BY DEF DhStep
  <1>. HIDE DEF step
  <1>3. Append(root, step) \in Seq(Step) /\ Len(Append(root, step)) = Len(root) + 1
    BY <1>1
  <1>4. IsPrefix(root, Append(root, step))
    <2>1. \A i \in 1..Len(root) : Append(root, step)[i] = root[i]
      BY <1>1
    <2>2. Len(root) \in Nat
      OBVIOUS
    <2>3. PICK longer \in Seq(Step) : longer = Append(root, step)
      BY <1>3
    <2>4. Len(root) <= Len(longer) /\ \A i \in 1..Len(root) : root[i] = longer[i]
      BY <1>3, <2>1, <2>2, <2>3
    <2>5. IsPrefix(root, longer)
      BY <2>4, PrefixPointwise
    <2>. QED
      BY <2>3, <2>5
  <1>. QED
    BY <1>1, <1>2, <1>3, <1>4 DEF Last

\* A turn takes two steps.
LEMMA TurnType ==
  ASSUME NEW root \in Seq(Step), NEW a \in Key, NEW b \in Key, NEW c \in Key,
         NEW d \in Direction, NEW e \in Direction
  PROVE  /\ DhStep(root, a, b, d) \in Seq(Step)
         /\ DhStep(DhStep(root, a, b, d), c, b, e) \in Seq(Step)
         /\ Len(DhStep(DhStep(root, a, b, d), c, b, e)) = Len(root) + 2
         /\ Last(DhStep(DhStep(root, a, b, d), c, b, e)).direction = e
         /\ IsPrefix(root, DhStep(DhStep(root, a, b, d), c, b, e))
  <1>1. PICK half \in Seq(Step) :
          /\ half = DhStep(root, a, b, d) /\ Len(half) = Len(root) + 1
          /\ IsPrefix(root, half)
    BY DhStepType
  <1>2. PICK whole \in Seq(Step) :
          /\ whole = DhStep(half, c, b, e) /\ Len(whole) = Len(half) + 1
          /\ Last(whole).direction = e
          /\ IsPrefix(half, whole)
    BY DhStepType
  <1>3. IsPrefix(root, whole)
    BY <1>1, <1>2, PrefixTransitive
  <1>. QED
    BY <1>1, <1>2, <1>3

\* What a party draws is a key.
LEMMA FreshType ==
  ASSUME TypeOK, NEW p \in Direction, keys[p] < MaxKeys
  PROVE  Fresh(p) \in Key /\ keys[p] + 1 \in 0..MaxKeys
  <1>1. keys[p] \in 0..MaxKeys
    BY DEF TypeOK
  <1>2. keys[p] + 1 \in 0..MaxKeys
    BY <1>1, RatchetAssumption
  <1>. QED
    BY <1>2 DEF Fresh, Key

-----------------------------------------------------------------------------
(* Skipped keys                                                            *)

\* The keys of a gap are no more than the gap is wide.
LEMMA KeysOfGap ==
  ASSUME NEW dh \in Key, NEW chain \in Seq(Step), NEW from \in Nat, NEW to \in Nat, from <= to
  PROVE  /\ KeysOf(dh, chain, from, to) \subseteq SkippedKey
         /\ IsFiniteSet(KeysOf(dh, chain, from, to))
         /\ Cardinality(KeysOf(dh, chain, from, to)) <= to - from
  <1>. DEFINE I == from..(to - 1)
              K == KeysOf(dh, chain, from, to)
              f == [i \in I |-> [dh |-> dh, n |-> i, chain |-> chain]]
  <1>1. IsFiniteSet(I) /\ Cardinality(I) = to - from
    <2>1. IsFiniteSet(I) /\ Cardinality(I) = IF from > to - 1 THEN 0 ELSE (to - 1) - from + 1
      BY FS_Interval
    <2>. QED
      BY <2>1
  <1>2. f \in Surjection(I, K)
    BY DEF Surjection, KeysOf
  <1>3. IsFiniteSet(K) /\ Cardinality(K) <= Cardinality(I)
    <2>. HIDE DEF f, I, K
    <2>. QED
      BY <1>1, <1>2, FS_Surjection
  <1>4. K \subseteq SkippedKey
    BY DEF KeysOf, SkippedKey
  <1>. QED
    BY <1>1, <1>3, <1>4

\* A gap within the bounds keeps the set of kept keys within its bound.
LEMMA InsertGap ==
  ASSUME NEW s \in State, IsFiniteSet(s.skipped),
         NEW dh \in Key, NEW chain \in Seq(Step), NEW from \in Nat, NEW to \in Nat, from <= to,
         WithinSkip(s, from, to)
  PROVE  /\ Insert(s.skipped, KeysOf(dh, chain, from, to)) \subseteq SkippedKey
         /\ IsFiniteSet(Insert(s.skipped, KeysOf(dh, chain, from, to)))
         /\ Cardinality(Insert(s.skipped, KeysOf(dh, chain, from, to))) <= MaxSkipped
  <1>. DEFINE new == KeysOf(dh, chain, from, to)
              stay == {k \in s.skipped : \A j \in new : <<j.dh, j.n>> # <<k.dh, k.n>>}
  <1>1. /\ new \subseteq SkippedKey /\ IsFiniteSet(new) /\ Cardinality(new) <= to - from
    BY KeysOfGap
  <1>. HIDE DEF new
  <1>2. s.skipped \subseteq SkippedKey
    BY DEF State
  <1>3. stay \in SUBSET s.skipped
    OBVIOUS
  <1>4. IsFiniteSet(stay) /\ Cardinality(stay) <= Cardinality(s.skipped)
    BY <1>3, FS_Subset
  <1>5. Insert(s.skipped, new) = stay \cup new
    BY DEF Insert
  <1>. HIDE DEF stay
  <1>6. /\ IsFiniteSet(stay \cup new)
        /\ Cardinality(stay \cup new) = Cardinality(stay) + Cardinality(new) - Cardinality(stay \cap new)
    BY <1>1, <1>4, FS_Union
  <1>7. IsFiniteSet(stay \cap new)
    BY <1>4, FS_Intersection
  <1>8. /\ Cardinality(stay) \in Nat /\ Cardinality(new) \in Nat
        /\ Cardinality(stay \cap new) \in Nat /\ Cardinality(s.skipped) \in Nat
    BY <1>1, <1>4, <1>7, FS_CardinalityType
  <1>9. Cardinality(s.skipped) + (to - from) <= MaxSkipped
    BY DEF WithinSkip
  <1>10. Cardinality(stay \cup new) <= MaxSkipped
    BY <1>1, <1>4, <1>6, <1>8, <1>9, RatchetAssumption
  <1>. QED
    BY <1>1, <1>2, <1>3, <1>5, <1>6, <1>10 DEF new

-----------------------------------------------------------------------------
(* What the functions of RatchetState return                               *)

Bounded(s) == IsFiniteSet(s.skipped) /\ Cardinality(s.skipped) <= MaxSkipped

LEMMA AdvanceReturns ==
  ASSUME NEW s \in State, Bounded(s), NEW record \in Record, Advances(s, record)
  PROVE  /\ Advance(s, record) \in State /\ Bounded(Advance(s, record))
         /\ Advance(s, record).root = s.root
         /\ Advance(s, record).sending = s.sending
         /\ Advance(s, record).ns = s.ns
         /\ Advance(s, record).nr > s.nr
  <1>1. /\ s.receiving \in Seq(Step) /\ record.dh \in Key /\ record.n \in Nat /\ s.nr \in Nat
        /\ s.nr <= record.n /\ record.n < MaxCounter /\ WithinSkip(s, s.nr, record.n)
    BY DEF Advances, State, Record
  <1>. DEFINE skipped == Insert(s.skipped, KeysOf(record.dh, s.receiving, s.nr, record.n))
  <1>2. skipped \subseteq SkippedKey /\ IsFiniteSet(skipped) /\ Cardinality(skipped) <= MaxSkipped
    BY <1>1, InsertGap DEF Bounded
  <1>3. Advance(s, record) = [s EXCEPT !.skipped = skipped, !.nr = record.n + 1]
    BY DEF Advance
  <1>4. record.n + 1 \in 0..MaxCounter /\ record.n + 1 > s.nr
    BY <1>1, RatchetAssumption
  <1>. HIDE DEF skipped
  <1>. QED
    BY <1>2, <1>3, <1>4 DEF State, Bounded

LEMMA TransitionReturns ==
  ASSUME NEW s \in State, Bounded(s), NEW record \in Record, Transitions(s, record),
         NEW p \in Direction, NEW fresh \in Key
  PROVE  LET t == Transition(p, s, record, fresh) IN
         /\ t \in State /\ Bounded(t)
         /\ t.sending = t.root
         /\ Len(t.root) = Len(s.root) + 2
         /\ Last(t.root).direction = p
         /\ IsPrefix(s.root, t.root)
  <1>. DEFINE receiving == DhStep(s.root, s.local, record.dh, Peer(p))
              sending   == DhStep(receiving, fresh, record.dh, p)
              skipped   == IF record.pn = s.nr THEN s.skipped
                           ELSE Insert(s.skipped, KeysOf(s.peer, s.receiving, s.nr, record.pn))
  <1>1. /\ s.root \in Seq(Step) /\ s.local \in Key /\ s.peer \in Key /\ s.nr \in Nat
        /\ s.ns \in Nat /\ record.dh \in Key /\ record.pn \in Nat
    BY DEF State, Record
  <1>2. Peer(p) \in Direction
    BY PeerType
  <1>3. /\ receiving \in Seq(Step) /\ sending \in Seq(Step)
        /\ Len(sending) = Len(s.root) + 2
        /\ Last(sending).direction = p
        /\ IsPrefix(s.root, sending)
    <2>1. PICK root \in Seq(Step), a \in Key, b \in Key, d \in Direction :
            root = s.root /\ a = s.local /\ b = record.dh /\ d = Peer(p)
      BY <1>1, <1>2
    <2>2. /\ receiving = DhStep(root, a, b, d)
          /\ sending = DhStep(DhStep(root, a, b, d), fresh, b, p)
      BY <2>1
    <2>3. /\ DhStep(root, a, b, d) \in Seq(Step)
          /\ DhStep(DhStep(root, a, b, d), fresh, b, p) \in Seq(Step)
          /\ Len(DhStep(DhStep(root, a, b, d), fresh, b, p)) = Len(root) + 2
          /\ Last(DhStep(DhStep(root, a, b, d), fresh, b, p)).direction = p
          /\ IsPrefix(root, DhStep(DhStep(root, a, b, d), fresh, b, p))
      BY TurnType
    <2>. HIDE DEF receiving, sending
    <2>. QED
      BY <2>1, <2>2, <2>3
  <1>5. /\ skipped \subseteq SkippedKey /\ IsFiniteSet(skipped)
        /\ Cardinality(skipped) <= MaxSkipped
    <2>1. CASE record.pn = s.nr
      BY <2>1 DEF Bounded, State
    <2>2. CASE record.pn # s.nr
      <3>1. /\ s.nr <= record.pn /\ s.receiving \in Seq(Step)
            /\ WithinSkip(s, s.nr, record.pn)
        BY <1>1, <2>2 DEF Transitions, State
      <3>. QED
        BY <1>1, <2>2, <3>1, InsertGap DEF Bounded
    <2>. QED
      BY <2>1, <2>2
  <1>6. Transition(p, s, record, fresh) =
          [s EXCEPT !.root = sending, !.local = fresh, !.peer = record.dh,
                    !.sending = sending, !.receiving = receiving,
                    !.pn = s.ns, !.ns = 0, !.nr = 0, !.skipped = skipped]
    BY DEF Transition
  <1>7. 0 \in 0..MaxCounter
    BY RatchetAssumption
  <1>. DEFINE t == Transition(p, s, record, fresh)
  <1>. HIDE DEF skipped, receiving, sending
  <1>8. t \in State /\ t.root = sending /\ t.sending = sending /\ t.skipped = skipped
    BY <1>1, <1>3, <1>5, <1>6, <1>7 DEF State
  <1>. HIDE DEF t
  <1>9. Bounded(t)
    BY <1>5, <1>8 DEF Bounded
  <1>. QED
    BY <1>3, <1>8, <1>9 DEF t

-----------------------------------------------------------------------------
(* The two shapes of a step                                                *)

\* A party that receives keeps the chain it seals under, or leaves it.
LEMMA ReceiveShape ==
  ASSUME IInv, NEW p \in Direction, NEW t \in State, Bounded(t),
         st' = [st EXCEPT ![p] = t],
         keys' \in [Direction -> 0..MaxKeys], sent' = sent, opened' \subseteq sent,
         \/ t.root = st[p].root /\ t.sending = st[p].sending /\ t.ns = st[p].ns
         \/ /\ Len(t.root) > Len(st[p].root)
            /\ t.sending = t.root /\ Last(t.root).direction = p
  PROVE  IInv'
  <1>1. /\ st' \in [Direction -> State]
        /\ st'[p] = t /\ \A q \in Direction : q # p => st'[q] = st[q]
    BY DEF IInv, TypeOK
  <1>2. TypeOK'
    BY <1>1 DEF IInv, TypeOK
  <1>3. SkippedBounded'
    BY <1>1 DEF IInv, SkippedBounded, Bounded
  <1>4. SealsOnce'
    BY DEF IInv, SealsOnce
  <1>5. st[p].root \in Seq(Step) /\ t.root \in Seq(Step)
    BY DEF IInv, TypeOK, State
  <1>6. ASSUME NEW q \in Direction, st'[q].sending # None
        PROVE  st'[q].sending = st'[q].root /\ OwnChain(q, st'[q].root)
    <2>1. CASE q # p
      BY <1>1, <1>6, <2>1 DEF IInv, SealedBehind
    <2>2. CASE q = p /\ t.root = st[p].root /\ t.sending = st[p].sending
      BY <1>1, <1>6, <2>2 DEF IInv, SealedBehind
    <2>3. CASE /\ q = p /\ Len(t.root) > Len(st[p].root)
               /\ t.sending = t.root /\ Last(t.root).direction = p
      <3>1. t.root # Origin
        BY <1>5, <2>3 DEF Origin
      <3>. QED
        BY <1>1, <2>3, <3>1 DEF OwnChain
    <2>. QED
      BY <2>1, <2>2, <2>3
  <1>7. ASSUME NEW record \in sent
        PROVE  /\ OwnChain(record.from, record.chain)
               /\ Len(record.chain) <= Len(st'[record.from].root)
               /\ Len(record.chain) = Len(st'[record.from].root) =>
                    record.chain = st'[record.from].root /\ record.n < st'[record.from].ns
    <2>1. /\ OwnChain(record.from, record.chain)
          /\ Len(record.chain) <= Len(st[record.from].root)
          /\ Len(record.chain) = Len(st[record.from].root) =>
               record.chain = st[record.from].root /\ record.n < st[record.from].ns
      BY DEF IInv, SealedBehind
    <2>2. record.from \in Direction /\ record.chain \in Seq(Step)
      BY DEF IInv, TypeOK, Record
    <2>3. CASE record.from # p
      BY <1>1, <2>1, <2>2, <2>3
    <2>4. CASE record.from = p /\ t.root = st[p].root /\ t.ns = st[p].ns
      BY <1>1, <2>1, <2>4
    <2>5. CASE record.from = p /\ Len(t.root) > Len(st[p].root)
      BY <1>1, <1>5, <2>1, <2>2, <2>5
    <2>. QED
      BY <2>3, <2>4, <2>5
  <1>8. SealedBehind'
    BY <1>6, <1>7 DEF SealedBehind
  <1>. QED
    BY <1>2, <1>3, <1>4, <1>8 DEF IInv

\* A party seals under a chain of its own, with a number above all that it
\* has sealed under that chain.
LEMMA SendShape ==
  ASSUME IInv, NEW p \in Direction, NEW s \in State, Bounded(s),
         s.sending = s.root, OwnChain(p, s.root), s.ns < MaxCounter,
         \A record \in sent :
           record.from = p =>
             /\ Len(record.chain) <= Len(s.root)
             /\ Len(record.chain) = Len(s.root) => record.chain = s.root /\ record.n < s.ns,
         sent' = sent \cup {Sealed(p, s)}, st' = [st EXCEPT ![p] = AfterSend(s)],
         keys' \in [Direction -> 0..MaxKeys], opened' = opened
  PROVE  IInv'
  <1>. DEFINE new == Sealed(p, s)
  <1>1. /\ s.root \in Seq(Step) /\ s.local \in Key /\ s.pn \in Nat /\ s.ns \in Nat
        /\ s.ns + 1 \in 0..MaxCounter
    BY RatchetAssumption DEF State
  <1>2. /\ AfterSend(s) \in State /\ Bounded(AfterSend(s))
        /\ AfterSend(s).root = s.root /\ AfterSend(s).sending = s.sending
        /\ AfterSend(s).ns = s.ns + 1
    BY <1>1 DEF AfterSend, State, Bounded
  <1>3. new \in Record /\ new.from = p /\ new.chain = s.root /\ new.n = s.ns
    <2>. DEFINE body == Cardinality({r \in sent : r.from = p})
    <2>1. body \in Nat
      <3>1. IsFiniteSet({r \in sent : r.from = p})
        BY FS_Subset DEF IInv, TypeOK
      <3>. QED
        BY <3>1, FS_CardinalityType
    <2>2. new = [from |-> p, dh |-> s.local, pn |-> s.pn, n |-> s.ns, chain |-> s.sending,
                 body |-> body]
      BY DEF Sealed
    <2>. HIDE DEF new, body
    <2>. QED
      BY <1>1, <2>1, <2>2 DEF Record
  <1>. HIDE DEF new
  <1>4. /\ st'[p] = AfterSend(s) /\ \A q \in Direction : q # p => st'[q] = st[q]
        /\ st' \in [Direction -> State]
    BY <1>2 DEF IInv, TypeOK
  <1>5. sent' = sent \cup {new}
    BY DEF new
  <1>6. TypeOK'
    <2>1. IsFiniteSet(sent \cup {new})
      BY FS_AddElement DEF IInv, TypeOK
    <2>. QED
      BY <1>3, <1>4, <1>5, <2>1 DEF IInv, TypeOK
  <1>7. SkippedBounded'
    BY <1>2, <1>4 DEF IInv, SkippedBounded, Bounded
  <1>8. ASSUME NEW a \in sent, a.chain = new.chain, a.n = new.n
        PROVE  FALSE
    <2>1. a.from \in Direction /\ a.n \in Nat
      BY DEF IInv, TypeOK, Record
    <2>2. OwnChain(a.from, a.chain)
      BY DEF IInv, SealedBehind
    <2>3. a.from = p
      BY <1>3, <1>8, <2>1, <2>2 DEF OwnChain
    <2>. QED
      BY <1>1, <1>3, <1>8, <2>1, <2>3
  <1>9. SealsOnce'
    BY <1>5, <1>8 DEF IInv, SealsOnce
  <1>10. ASSUME NEW q \in Direction, st'[q].sending # None
         PROVE  st'[q].sending = st'[q].root /\ OwnChain(q, st'[q].root)
    BY <1>2, <1>4, <1>10 DEF IInv, SealedBehind
  <1>11. ASSUME NEW record \in sent'
         PROVE  /\ OwnChain(record.from, record.chain)
                /\ Len(record.chain) <= Len(st'[record.from].root)
                /\ Len(record.chain) = Len(st'[record.from].root) =>
                     record.chain = st'[record.from].root /\ record.n < st'[record.from].ns
    <2>1. CASE record = new
      BY <1>1, <1>2, <1>3, <1>4, <2>1
    <2>2. CASE record \in sent
      <3>1. /\ OwnChain(record.from, record.chain)
            /\ Len(record.chain) <= Len(st[record.from].root)
            /\ Len(record.chain) = Len(st[record.from].root) =>
                 record.chain = st[record.from].root /\ record.n < st[record.from].ns
        BY <2>2 DEF IInv, SealedBehind
      <3>2. record.from \in Direction /\ record.n \in Nat
        BY <2>2 DEF IInv, TypeOK, Record
      <3>3. CASE record.from # p
        BY <1>4, <3>1, <3>2, <3>3
      <3>4. CASE record.from = p
        BY <1>1, <1>2, <1>4, <2>2, <3>1, <3>2, <3>4
      <3>. QED
        BY <3>3, <3>4
    <2>. QED
      BY <1>5, <2>1, <2>2
  <1>12. SealedBehind'
    BY <1>10, <1>11 DEF SealedBehind
  <1>. QED
    BY <1>6, <1>7, <1>9, <1>12 DEF IInv

-----------------------------------------------------------------------------
(* The actions                                                             *)

LEMMA SendStep ==
  ASSUME IInv, NEW p \in Direction, Send(p)
  PROVE  IInv'
  <1>1. /\ st[p] \in State /\ Bounded(st[p])
        /\ keys' \in [Direction -> 0..MaxKeys] /\ opened' = opened
    BY DEF Send, IInv, TypeOK, SkippedBounded, Bounded
  <1>2. st' = [st EXCEPT ![p] = AfterSend(st[p])]
    BY DEF Send
  <1>3. st[p].sending = st[p].root /\ OwnChain(p, st[p].root)
    BY DEF Send, IInv, SealedBehind
  <1>4. \A record \in sent :
          record.from = p =>
            /\ Len(record.chain) <= Len(st[p].root)
            /\ Len(record.chain) = Len(st[p].root) => record.chain = st[p].root
                                                      /\ record.n < st[p].ns
    BY DEF IInv, SealedBehind
  <1>. QED
    BY <1>1, <1>2, <1>3, <1>4, SendShape DEF Send

\* Bootstrapping leaves everything but the chain to seal under as it is.
LEMMA BootstrapReturns ==
  ASSUME NEW s \in State, Bounded(s), NEW fresh \in Key
  PROVE  LET t == Bootstrap(s, fresh) IN
         /\ t \in State /\ Bounded(t)
         /\ t.sending = t.root /\ t.ns = s.ns
         /\ Len(t.root) = Len(s.root) + 1
         /\ Last(t.root).direction = "Responder"
         /\ IsPrefix(s.root, t.root)
  <1>. DEFINE chain == DhStep(s.root, fresh, s.peer, "Responder")
  <1>1. /\ chain \in Seq(Step) /\ Len(chain) = Len(s.root) + 1
        /\ Last(chain).direction = "Responder"
        /\ IsPrefix(s.root, chain)
    BY DhStepType DEF State, Direction
  <1>2. Bootstrap(s, fresh) = [s EXCEPT !.root = chain, !.local = fresh, !.sending = chain]
    BY DEF Bootstrap
  <1>. DEFINE t == Bootstrap(s, fresh)
  <1>. HIDE DEF chain
  <1>3. /\ t \in State /\ t.root = chain /\ t.sending = chain
        /\ t.ns = s.ns /\ t.skipped = s.skipped
    BY <1>1, <1>2 DEF State
  <1>. HIDE DEF t
  <1>4. Bounded(t)
    BY <1>3 DEF Bounded
  <1>. QED
    BY <1>1, <1>3, <1>4 DEF t

LEMMA SendFirstStep ==
  ASSUME IInv, NEW p \in Direction, SendFirst(p)
  PROVE  IInv'
  <1>. DEFINE s == Bootstrap(st[p], Fresh(p))
  <1>1. st[p] \in State /\ Bounded(st[p]) /\ st[p].root \in Seq(Step)
    BY DEF IInv, TypeOK, State, SkippedBounded, Bounded
  <1>2. Fresh(p) \in Key /\ keys[p] + 1 \in 0..MaxKeys
    BY FreshType DEF SendFirst, IInv
  <1>3. /\ s \in State /\ Bounded(s) /\ s.sending = s.root /\ s.ns = st[p].ns
        /\ Len(s.root) = Len(st[p].root) + 1 /\ Last(s.root).direction = "Responder"
    BY <1>1, <1>2, BootstrapReturns
  <1>4. /\ sent' = sent \cup {Sealed(p, s)} /\ s.ns < MaxCounter /\ p = "Responder"
        /\ st' = [st EXCEPT ![p] = AfterSend(s)] /\ opened' = opened
        /\ keys' = [keys EXCEPT ![p] = @ + 1]
    BY <1>3 DEF SendFirst
  <1>5. keys' \in [Direction -> 0..MaxKeys]
    BY <1>2, <1>4 DEF IInv, TypeOK
  <1>. HIDE DEF s
  <1>6. OwnChain(p, s.root)
    <2>1. s.root # Origin
      BY <1>1, <1>3 DEF Origin
    <2>. QED
      BY <1>3, <1>4, <2>1 DEF OwnChain
  <1>7. \A record \in sent :
          record.from = p =>
            /\ Len(record.chain) <= Len(s.root)
            /\ Len(record.chain) = Len(s.root) => record.chain = s.root /\ record.n < s.ns
    <2>1. ASSUME NEW record \in sent, record.from = p
          PROVE  Len(record.chain) < Len(s.root)
      <3>1. record.chain \in Seq(Step) /\ Len(record.chain) <= Len(st[p].root)
        BY <2>1 DEF IInv, TypeOK, Record, SealedBehind
      <3>. QED
        BY <1>1, <1>3, <3>1
    <2>2. s.root \in Seq(Step) /\ \A record \in sent : record.chain \in Seq(Step)
      BY <1>3 DEF State, IInv, TypeOK, Record
    <2>. QED
      BY <2>1, <2>2
  <1>. QED
    BY <1>3, <1>4, <1>5, <1>6, <1>7, SendShape

LEMMA ReceiveSkippedStep ==
  ASSUME IInv, NEW p \in Direction, NEW record \in sent, ReceiveSkipped(p, record)
  PROVE  IInv'
  <1>. DEFINE s == st[p]
              t == OpenSkipped(s, record)
  <1>1. s \in State /\ IsFiniteSet(s.skipped) /\ Cardinality(s.skipped) <= MaxSkipped
    BY DEF IInv, TypeOK, SkippedBounded
  <1>2. t = [s EXCEPT !.skipped = s.skipped \ Kept(s, record)]
    BY DEF OpenSkipped
  <1>3. /\ IsFiniteSet(s.skipped \ Kept(s, record))
        /\ Cardinality(s.skipped \ Kept(s, record)) <= Cardinality(s.skipped)
    BY <1>1, FS_Subset
  <1>4. Cardinality(s.skipped) \in Nat /\ Cardinality(s.skipped \ Kept(s, record)) \in Nat
    BY <1>1, <1>3, FS_CardinalityType
  <1>5. /\ t \in State /\ t.root = s.root /\ t.sending = s.sending /\ t.ns = s.ns
        /\ t.skipped = s.skipped \ Kept(s, record)
    BY <1>1, <1>2 DEF State
  <1>6. Bounded(t)
    BY <1>1, <1>3, <1>4, <1>5, RatchetAssumption DEF Bounded
  <1>7. /\ st' = [st EXCEPT ![p] = t] /\ keys' = keys /\ sent' = sent
        /\ opened' \subseteq sent
    BY DEF ReceiveSkipped, IInv, TypeOK
  <1>. HIDE DEF t
  <1>. QED
    BY <1>5, <1>6, <1>7, ReceiveShape DEF IInv, TypeOK

LEMMA ReceiveOnChainStep ==
  ASSUME IInv, NEW p \in Direction, NEW record \in sent, ReceiveOnChain(p, record)
  PROVE  IInv'
  <1>. DEFINE t == Advance(st[p], record)
  <1>1. st[p] \in State /\ Bounded(st[p]) /\ record \in Record
    BY DEF IInv, TypeOK, SkippedBounded, Bounded
  <1>2. Advances(st[p], record)
    BY DEF ReceiveOnChain, OnChain
  <1>3. /\ t \in State /\ Bounded(t)
        /\ t.root = st[p].root /\ t.sending = st[p].sending /\ t.ns = st[p].ns
    BY <1>1, <1>2, AdvanceReturns
  <1>4. /\ st' = [st EXCEPT ![p] = t] /\ keys' = keys /\ sent' = sent
        /\ opened' \subseteq sent
    BY DEF ReceiveOnChain, IInv, TypeOK
  <1>. HIDE DEF t
  <1>. QED
    BY <1>3, <1>4, ReceiveShape DEF IInv, TypeOK

LEMMA ReceiveTransitionStep ==
  ASSUME IInv, NEW p \in Direction, NEW record \in sent, ReceiveTransition(p, record)
  PROVE  IInv'
  <1>. DEFINE s == Transition(p, st[p], record, Fresh(p))
              t == Advance(s, record)
  <1>1. st[p] \in State /\ Bounded(st[p]) /\ record \in Record /\ st[p].root \in Seq(Step)
    BY DEF IInv, TypeOK, State, SkippedBounded, Bounded
  <1>2. Fresh(p) \in Key /\ keys[p] + 1 \in 0..MaxKeys
    BY FreshType DEF ReceiveTransition, IInv
  <1>3. Transitions(st[p], record) /\ Advances(s, record)
    BY DEF ReceiveTransition, OnNewChain
  <1>4. /\ s \in State /\ Bounded(s) /\ s.sending = s.root
        /\ Len(s.root) = Len(st[p].root) + 2 /\ Last(s.root).direction = p
    BY <1>1, <1>2, <1>3, TransitionReturns
  <1>5. st' = [st EXCEPT ![p] = t]
    BY DEF ReceiveTransition
  <1>. HIDE DEF s
  <1>6. t \in State /\ Bounded(t) /\ t.root = s.root /\ t.sending = s.sending
    BY <1>1, <1>3, <1>4, AdvanceReturns
  <1>7. /\ keys' \in [Direction -> 0..MaxKeys] /\ sent' = sent /\ opened' \subseteq sent
    BY <1>2 DEF ReceiveTransition, IInv, TypeOK
  <1>. HIDE DEF t
  <1>8. Len(t.root) > Len(st[p].root)
    BY <1>1, <1>4, <1>6 DEF State
  <1>. QED
    BY <1>4, <1>5, <1>6, <1>7, <1>8, ReceiveShape

-----------------------------------------------------------------------------
(* The theorems                                                            *)

LEMMA InitInvariant == Init => IInv
  <1>. SUFFICES ASSUME Init
                PROVE  IInv
    OBVIOUS
  <1>1. ASSUME NEW p \in Direction
        PROVE  /\ st[p] \in State
               /\ st[p].sending # None => st[p].sending = st[p].root /\ OwnChain(p, st[p].root)
               /\ st[p].skipped = {}
    <2>1. /\ [owner |-> p, k |-> 0] \in Key /\ [owner |-> Peer(p), k |-> 0] \in Key
          /\ <<>> \in Seq(Step) /\ 0 \in 0..MaxCounter
      BY PeerType, RatchetAssumption DEF Key
    <2>2. st[p] = NewState(p)
      BY DEF Init
    <2>3. st[p] \in State
      BY <2>1, <2>2 DEF NewState, State, Origin
    <2>. QED
      BY <2>2, <2>3 DEF NewState, OwnChain
  <1>2. TypeOK
    <2>1. keys \in [Direction -> 0..MaxKeys]
      BY RatchetAssumption DEF Init
    <2>2. sent = {} /\ opened = {} /\ IsFiniteSet({})
      BY FS_EmptySet DEF Init
    <2>3. st \in [Direction -> State]
      BY <1>1 DEF Init
    <2>. QED
      BY <2>1, <2>2, <2>3 DEF TypeOK
  <1>3. SealedBehind /\ SealsOnce
    BY <1>1 DEF Init, SealedBehind, SealsOnce
  <1>4. SkippedBounded
    BY <1>1, FS_EmptySet, RatchetAssumption DEF SkippedBounded
  <1>. QED
    BY <1>2, <1>3, <1>4 DEF IInv

LEMMA NextInvariant == IInv /\ [Next]_vars => IInv'
  <1>. SUFFICES ASSUME IInv, [Next]_vars
                PROVE  IInv'
    OBVIOUS
  <1>1. CASE UNCHANGED vars
    BY <1>1 DEF vars, IInv, TypeOK, SealedBehind, SealsOnce, SkippedBounded
  <1>. QED
    BY <1>1, SendStep, SendFirstStep, ReceiveSkippedStep, ReceiveOnChainStep,
       ReceiveTransitionStep DEF Next

\* IInv holds in every reachable state.
THEOREM Invariance == Spec => []IInv
  BY InitInvariant, NextInvariant, PTL DEF Spec

\* Every variable of the ratchet holds a value of its type (RatchetState).
THEOREM TypeCorrect == Spec => []TypeOK
  <1>1. IInv => TypeOK
    BY DEF IInv
  <1>. QED
    BY <1>1, Invariance, PTL

\* No message key seals two records, of one party or of two, over any number
\* of turns and in whatever order records arrive (RatchetState::send, receive).
THEOREM EveryKeySealsOnce == Spec => []SealsOnce
  <1>1. IInv => SealsOnce
    BY DEF IInv
  <1>. QED
    BY <1>1, Invariance, PTL

\* No sequence of gaps and turns makes a party keep more skipped keys than
\* MAX_SKIPPED_KEYS (ensure_skip_capacity).
THEOREM KeptKeysBounded == Spec => []SkippedBounded
  <1>1. IInv => SkippedBounded
    BY DEF IInv
  <1>. QED
    BY <1>1, Invariance, PTL

\* What NeverRewinds says of a step.
Onward ==
  \A q \in Direction :
    /\ IsPrefix(st[q].root, st'[q].root)
    /\ st[q].root = st'[q].root => st'[q].ns >= st[q].ns /\ st'[q].nr >= st[q].nr

\* A step of one party that keeps its root and lowers no counter, or continues
\* its root.
LEMMA OnwardShape ==
  ASSUME TypeOK, NEW p \in Direction, NEW t \in State, st' = [st EXCEPT ![p] = t],
         IsPrefix(st[p].root, t.root),
         t.root = st[p].root => t.ns >= st[p].ns /\ t.nr >= st[p].nr
  PROVE  Onward
  <1>. SUFFICES ASSUME NEW q \in Direction
                PROVE  /\ IsPrefix(st[q].root, st'[q].root)
                       /\ st[q].root = st'[q].root => st'[q].ns >= st[q].ns /\ st'[q].nr >= st[q].nr
    BY DEF Onward
  <1>1. /\ st[q] \in State /\ st[q].root \in Seq(Step) /\ st[q].ns \in Nat /\ st[q].nr \in Nat
    BY DEF TypeOK, State
  <1>2. st'[q] = IF q = p THEN t ELSE st[q]
    BY DEF TypeOK
  <1>3. IsPrefix(st[q].root, st[q].root)
    BY <1>1, PrefixReflexive
  <1>. QED
    BY <1>1, <1>2, <1>3

LEMMA OnwardSend ==
  ASSUME IInv, NEW p \in Direction, Send(p)
  PROVE  Onward
  <1>. DEFINE t == AfterSend(st[p])
  <1>1. st[p] \in State /\ st[p].ns \in Nat /\ st[p].nr \in Nat /\ st[p].ns + 1 \in 0..MaxCounter
    BY RatchetAssumption DEF IInv, TypeOK, State, Send
  <1>2. t \in State /\ t.root = st[p].root /\ t.ns = st[p].ns + 1 /\ t.nr = st[p].nr
    BY <1>1 DEF AfterSend, State
  <1>3. st' = [st EXCEPT ![p] = t]
    BY DEF Send
  <1>. HIDE DEF t
  <1>8. st[p].root \in Seq(Step)
    BY <1>1 DEF State
  <1>9. IsPrefix(st[p].root, t.root) /\ t.ns >= st[p].ns /\ t.nr >= st[p].nr
    BY <1>1, <1>2, <1>8, PrefixReflexive
  <1>. QED
    BY <1>1, <1>2, <1>3, <1>9, OnwardShape DEF IInv

LEMMA OnwardSendFirst ==
  ASSUME IInv, NEW p \in Direction, SendFirst(p)
  PROVE  Onward
  <1>. DEFINE s == Bootstrap(st[p], Fresh(p))
              t == AfterSend(s)
  <1>1. st[p] \in State /\ Bounded(st[p]) /\ Fresh(p) \in Key
    BY FreshType DEF SendFirst, IInv, TypeOK, SkippedBounded, Bounded
  <1>2. /\ s \in State /\ s.ns = st[p].ns /\ Len(s.root) = Len(st[p].root) + 1
        /\ IsPrefix(st[p].root, s.root)
    BY <1>1, BootstrapReturns
  <1>3. st' = [st EXCEPT ![p] = t] /\ st[p].ns < MaxCounter
    BY DEF SendFirst
  <1>. HIDE DEF s
  <1>4. s.ns + 1 \in 0..MaxCounter
    BY <1>2, <1>3, RatchetAssumption DEF State
  <1>5. t \in State /\ t.root = s.root
    BY <1>2, <1>4 DEF AfterSend, State
  <1>6. Len(st[p].root) \in Nat
    BY <1>1 DEF State
  <1>. HIDE DEF t
  <1>9. IsPrefix(st[p].root, t.root) /\ t.root # st[p].root
    BY <1>2, <1>5, <1>6
  <1>. QED
    BY <1>2, <1>3, <1>5, <1>6, <1>9, OnwardShape DEF IInv

LEMMA OnwardReceiveSkipped ==
  ASSUME IInv, NEW p \in Direction, NEW record \in sent, ReceiveSkipped(p, record)
  PROVE  Onward
  <1>. DEFINE t == OpenSkipped(st[p], record)
  <1>1. st[p] \in State /\ st[p].ns \in Nat /\ st[p].nr \in Nat
    BY DEF IInv, TypeOK, State
  <1>2. t \in State /\ t.root = st[p].root /\ t.ns = st[p].ns /\ t.nr = st[p].nr
    BY <1>1 DEF OpenSkipped, State
  <1>3. st' = [st EXCEPT ![p] = t]
    BY DEF ReceiveSkipped
  <1>. HIDE DEF t
  <1>8. st[p].root \in Seq(Step)
    BY <1>1 DEF State
  <1>9. IsPrefix(st[p].root, t.root) /\ t.ns >= st[p].ns /\ t.nr >= st[p].nr
    BY <1>1, <1>2, <1>8, PrefixReflexive
  <1>. QED
    BY <1>1, <1>2, <1>3, <1>9, OnwardShape DEF IInv

LEMMA OnwardReceiveOnChain ==
  ASSUME IInv, NEW p \in Direction, NEW record \in sent, ReceiveOnChain(p, record)
  PROVE  Onward
  <1>. DEFINE t == Advance(st[p], record)
  <1>1. /\ st[p] \in State /\ Bounded(st[p]) /\ record \in Record
        /\ st[p].ns \in Nat /\ st[p].nr \in Nat
    BY DEF IInv, TypeOK, State, SkippedBounded, Bounded
  <1>2. Advances(st[p], record)
    BY DEF ReceiveOnChain, OnChain
  <1>3. t \in State /\ t.root = st[p].root /\ t.ns = st[p].ns /\ t.nr > st[p].nr
    BY <1>1, <1>2, AdvanceReturns
  <1>4. st' = [st EXCEPT ![p] = t]
    BY DEF ReceiveOnChain
  <1>. HIDE DEF t
  <1>5. t.nr \in Nat
    BY <1>3 DEF State
  <1>8. st[p].root \in Seq(Step)
    BY <1>1 DEF State
  <1>9. IsPrefix(st[p].root, t.root) /\ t.ns >= st[p].ns /\ t.nr >= st[p].nr
    BY <1>1, <1>3, <1>8, PrefixReflexive, <1>5
  <1>. QED
    BY <1>1, <1>3, <1>4, <1>5, <1>9, OnwardShape DEF IInv

LEMMA OnwardReceiveTransition ==
  ASSUME IInv, NEW p \in Direction, NEW record \in sent, ReceiveTransition(p, record)
  PROVE  Onward
  <1>. DEFINE s == Transition(p, st[p], record, Fresh(p))
              t == Advance(s, record)
  <1>1. /\ st[p] \in State /\ Bounded(st[p]) /\ record \in Record /\ Fresh(p) \in Key
        /\ Len(st[p].root) \in Nat
    BY FreshType DEF ReceiveTransition, IInv, TypeOK, State, SkippedBounded, Bounded
  <1>2. Transitions(st[p], record) /\ Advances(s, record)
    BY DEF ReceiveTransition, OnNewChain
  <1>3. /\ s \in State /\ Bounded(s) /\ Len(s.root) = Len(st[p].root) + 2
        /\ IsPrefix(st[p].root, s.root)
    BY <1>1, <1>2, TransitionReturns
  <1>4. st' = [st EXCEPT ![p] = t]
    BY DEF ReceiveTransition
  <1>. HIDE DEF s
  <1>5. t \in State /\ t.root = s.root
    BY <1>1, <1>2, <1>3, AdvanceReturns
  <1>. HIDE DEF t
  <1>9. IsPrefix(st[p].root, t.root) /\ t.root # st[p].root
    BY <1>1, <1>3, <1>5
  <1>. QED
    BY <1>1, <1>3, <1>4, <1>5, <1>9, OnwardShape DEF IInv

\* A party never goes back: its root only gets longer, and in between no
\* counter falls (RatchetState::send, receive, receive_dh_transition).
THEOREM TheRatchetNeverRewinds == Spec => NeverRewinds
  <1>1. IInv /\ [Next]_vars => [Onward]_vars
    BY OnwardSend, OnwardSendFirst, OnwardReceiveSkipped, OnwardReceiveOnChain,
       OnwardReceiveTransition DEF Next
  <1>2. Onward => \A p \in Direction :
                    /\ IsPrefix(st[p].root, st'[p].root)
                    /\ st[p].root = st'[p].root => /\ st'[p].ns >= st[p].ns
                                                   /\ st'[p].nr >= st[p].nr
    BY DEF Onward
  <1>3. IInv /\ [Next]_vars =>
          [\A p \in Direction :
             /\ IsPrefix(st[p].root, st'[p].root)
             /\ st[p].root = st'[p].root => /\ st'[p].ns >= st[p].ns
                                            /\ st'[p].nr >= st[p].nr]_vars
    BY <1>1, <1>2
  <1>. QED
    BY <1>3, Invariance, PTL DEF Spec, NeverRewinds

-----------------------------------------------------------------------------
(* Where the two parties stand                                             *)

LEMMA TwoParties ==
  /\ Peer("Initiator") = "Responder" /\ Peer("Responder") = "Initiator"
  /\ \A p \in Direction :
       /\ Peer(p) \in Direction /\ Peer(p) # p /\ Peer(Peer(p)) = p
       /\ \A q \in Direction : q = p \/ q = Peer(p)
  <1>1. Peer("Initiator") = "Responder" /\ Peer("Responder") = "Initiator"
    BY DEF Peer, Direction
  <1>. QED
    BY <1>1 DEF Direction

LEMMA NumbersOf ==
  ASSUME NEW records, NEW dh, NEW n
  PROVE  n \in Numbers(records, dh) <=> \E r \in records : r.dh = dh /\ r.n = n
  BY DEF Numbers

\* The lengths of the chains that two parties seal under are told apart by
\* their parity, and a chain is longer the later its key.
LEMMA ReachOf ==
  ASSUME NEW p \in Direction, NEW k \in Nat
  PROVE  /\ Reach(p, k) \in Nat
         /\ p = "Initiator" => Reach(p, k) = 2 * k
         /\ p = "Responder" /\ k > 0 => Reach(p, k) = 2 * k - 1
         /\ p = "Responder" /\ k = 0 => Reach(p, k) = 0
  BY DEF Reach, Direction

\* A party is one key behind its peer or its peer is one key behind it, except
\* before the responder's first record.
LEMMA Places ==
  ASSUME TypeOK, Turns, NEW p \in Direction
  PROVE  LET q == Peer(p)  s == st[p]  u == st[q] IN
         /\ keys[p] \in Nat /\ keys[q] \in Nat /\ s.peer.k \in Nat /\ s.peer.owner = q
         /\ s.local.owner = p /\ s.local.k = keys[p]
         /\ keys[q] = s.peer.k \/ keys[q] = s.peer.k + 1
         /\ s.peer = u.local <=> keys[q] = s.peer.k
         /\ Len(s.root) = Reach(p, keys[p])
         /\ Reach(q, s.peer.k) <= Reach(p, keys[p])
         /\ keys[q] = s.peer.k + 1 =>
              /\ Reach(q, keys[q]) = Reach(p, keys[p]) + 1
              /\ Reach(p, keys[p] + 1) = Reach(p, keys[p]) + 2
              /\ u.peer = s.local /\ Answers(p, keys[p] + 1) = keys[q]
              /\ u.root = DhStep(s.root, u.local, s.local, q)
         /\ u.peer # s.local \/ keys[q] = s.peer.k + 1 \/ (keys[p] = 0 /\ keys[q] = 0)
  <1>. DEFINE q == Peer(p)
              s == st[p]
              u == st[q]
  <1>1. q \in Direction /\ Peer(q) = p
    BY TwoParties
  <1>2. keys[p] \in Nat /\ keys[q] \in Nat
    BY <1>1, RatchetAssumption DEF TypeOK
  <1>3. /\ s.local = [owner |-> p, k |-> keys[p]] /\ u.local = [owner |-> q, k |-> keys[q]]
        /\ s.peer = [owner |-> q, k |-> Answers(p, keys[p])]
        /\ u.peer = [owner |-> p, k |-> Answers(q, keys[q])]
        /\ keys[q] \in {Answers(p, keys[p]), Answers(p, keys[p]) + 1}
        /\ keys[p] \in {Answers(q, keys[q]), Answers(q, keys[q]) + 1}
        /\ Len(s.root) = Reach(p, keys[p])
        /\ s.peer # u.local => u.root = DhStep(s.root, u.local, s.local, q)
    BY <1>1 DEF Turns
  <1>4. \/ p = "Initiator" /\ q = "Responder"
        \/ p = "Responder" /\ q = "Initiator"
    BY TwoParties DEF Direction
  <1>. HIDE DEF q, s, u
  <1>5. /\ s.peer.k = Answers(p, keys[p]) /\ s.peer.owner = q /\ u.peer.k = Answers(q, keys[q])
        /\ s.local.owner = p /\ s.local.k = keys[p]
        /\ s.peer = u.local <=> keys[q] = Answers(p, keys[p])
        /\ u.peer = s.local <=> keys[p] = Answers(q, keys[q])
    BY <1>3
  <1>. DEFINE a == keys[p]
              b == keys[q]
  <1>6. a \in Nat /\ b \in Nat
    BY <1>2
  <1>. HIDE DEF a, b
  <1>7. b \in {Answers(p, a), Answers(p, a) + 1} /\ a \in {Answers(q, b), Answers(q, b) + 1}
    BY <1>3 DEF a, b
  <1>8. /\ Answers(p, a) \in Nat
        /\ b = Answers(p, a) \/ b = Answers(p, a) + 1
        /\ Reach(q, Answers(p, a)) <= Reach(p, a)
        /\ b = Answers(p, a) + 1 =>
             /\ Reach(q, b) = Reach(p, a) + 1 /\ Reach(p, a + 1) = Reach(p, a) + 2
             /\ a = Answers(q, b) /\ Answers(p, a + 1) = b
        /\ a # Answers(q, b) \/ b = Answers(p, a) + 1 \/ (a = 0 /\ b = 0)
    BY <1>4, <1>6, <1>7 DEF Answers, Reach
  <1>9. b = Answers(p, a) + 1 => u.root = DhStep(s.root, u.local, s.local, q)
    BY <1>3, <1>5, <1>6, <1>8 DEF b, a
  <1>. QED
    BY <1>2, <1>3, <1>5, <1>8, <1>9 DEF q, s, u, a, b

-----------------------------------------------------------------------------
(* The records of two parties that stand so                                *)

\* A record's chain is as long as the number of its key says.
LEMMA RecordPlace ==
  ASSUME TypeOK, Turns, Numbered, NEW r \in sent
  PROVE  /\ r.from \in Direction /\ r.dh \in Key /\ r.dh.owner = r.from /\ r.dh.k \in Nat
         /\ r.n \in Nat /\ r.n < MaxCounter /\ r.pn \in Nat /\ r.chain \in Seq(Step)
         /\ r.dh.k <= keys[r.from]
         /\ r.from = "Responder" => r.dh.k > 0
         /\ Len(r.chain) = Reach(r.from, r.dh.k)
         /\ r.dh = [owner |-> r.from, k |-> r.dh.k]
         /\ r.dh.k = keys[r.from] => /\ r.dh = st[r.from].local
                                     /\ r.chain = st[r.from].root /\ r.pn = st[r.from].pn
         /\ r.dh.k <= st[Peer(r.from)].peer.k + 1
         /\ r.dh.k = st[Peer(r.from)].peer.k =>
              r.dh = st[Peer(r.from)].peer /\ r.chain = st[Peer(r.from)].receiving
  <1>1. r \in Record
    BY DEF TypeOK
  <1>2. /\ r.from \in Direction /\ r.dh \in Key /\ r.n \in Nat /\ r.pn \in Nat
        /\ r.chain \in Seq(Step)
    BY <1>1 DEF Record
  <1>3. r.dh.k \in Nat /\ r.dh = [owner |-> r.dh.owner, k |-> r.dh.k]
    BY <1>2 DEF Key
  <1>4. /\ r.dh.owner = r.from /\ r.dh.k <= keys[r.from] /\ r.n < MaxCounter
        /\ r.from = "Responder" => r.dh.k > 0
        /\ Len(r.chain) = Reach(r.from, r.dh.k)
        /\ r.dh = st[r.from].local => r.chain = st[r.from].root /\ r.pn = st[r.from].pn
        /\ r.dh = st[Peer(r.from)].peer => r.chain = st[Peer(r.from)].receiving
    BY DEF Numbered
  <1>5. Peer(r.from) \in Direction /\ Peer(Peer(r.from)) = r.from
    BY <1>2, TwoParties
  <1>6. /\ st[r.from].local = [owner |-> r.from, k |-> keys[r.from]]
        /\ st[Peer(r.from)].peer = [owner |-> r.from, k |-> st[Peer(r.from)].peer.k]
    <2>1. st[r.from].local = [owner |-> r.from, k |-> keys[r.from]]
      BY <1>2 DEF Turns
    <2>2. st[Peer(r.from)].peer = [owner |-> r.from, k |-> Answers(Peer(r.from), keys[Peer(r.from)])]
      BY <1>5 DEF Turns
    <2>. QED
      BY <2>1, <2>2
  <1>7. /\ keys[r.from] \in Nat /\ st[Peer(r.from)].peer.k \in Nat
        /\ keys[r.from] <= st[Peer(r.from)].peer.k + 1
    <2>1. /\ keys[r.from] \in Nat /\ st[Peer(r.from)].peer.k \in Nat
          /\ \/ keys[r.from] = st[Peer(r.from)].peer.k
             \/ keys[r.from] = st[Peer(r.from)].peer.k + 1
      BY <1>5, Places
    <2>. QED
      BY <2>1
  <1>8. r.dh.k <= st[Peer(r.from)].peer.k + 1
    BY <1>3, <1>4, <1>7
  <1>. QED
    BY <1>2, <1>3, <1>4, <1>6, <1>8

\* A coordinate names one record, and a chain is of one key.
LEMMA OneRecord ==
  ASSUME Numbered, NEW r \in sent, NEW x \in sent, r.dh = x.dh
  PROVE  r.chain = x.chain /\ (r.n = x.n => r = x)
  BY DEF Numbered

LEMMA OneReach ==
  ASSUME NEW d \in Direction, NEW e \in Direction, NEW k \in Nat, NEW j \in Nat,
         d = "Responder" => k > 0, e = "Responder" => j > 0, Reach(d, k) = Reach(e, j)
  PROVE  d = e /\ k = j
  BY DEF Reach, Direction

LEMMA OneKey ==
  ASSUME TypeOK, Turns, Numbered, NEW r \in sent, NEW x \in sent, r.chain = x.chain
  PROVE  r.dh = x.dh /\ r.from = x.from
  <1>1. /\ r.from \in Direction /\ r.dh.k \in Nat
        /\ r.from = "Responder" => r.dh.k > 0
        /\ Len(r.chain) = Reach(r.from, r.dh.k) /\ r.dh = [owner |-> r.from, k |-> r.dh.k]
    BY RecordPlace
  <1>2. /\ x.from \in Direction /\ x.dh.k \in Nat
        /\ x.from = "Responder" => x.dh.k > 0
        /\ Len(x.chain) = Reach(x.from, x.dh.k) /\ x.dh = [owner |-> x.from, k |-> x.dh.k]
    BY RecordPlace
  <1>3. Reach(r.from, r.dh.k) = Reach(x.from, x.dh.k)
    BY <1>1, <1>2
  <1>4. r.from = x.from /\ r.dh.k = x.dh.k
    BY <1>1, <1>2, <1>3, OneReach
  <1>. QED
    BY <1>1, <1>2, <1>4

\* A kept key at a record's coordinate is that record's key, and waits for it.
LEMMA KeptKey ==
  ASSUME TypeOK, Turns, Numbered, Received, NEW p \in Direction, NEW record \in sent,
         NEW k \in Kept(st[p], record)
  PROVE  k = KeyOf(record) /\ record.from = Peer(p) /\ record \notin opened
  <1>1. k \in st[p].skipped /\ k.dh = record.dh /\ k.n = record.n
    BY DEF Kept
  <1>2. PICK r \in sent \ opened : r.from = Peer(p) /\ KeyOf(r) = k
    BY <1>1 DEF Received, ReceivedBy
  <1>3. r.dh = record.dh /\ r.n = record.n
    BY <1>1, <1>2 DEF KeyOf
  <1>4. r = record
    BY <1>2, <1>3, OneRecord
  <1>. QED
    BY <1>2, <1>4

\* A record's key is kept exactly if its coordinate is.
LEMMA KeptIs ==
  ASSUME TypeOK, Turns, Numbered, Received, NEW p \in Direction, NEW record \in sent
  PROVE  Kept(st[p], record) = IF KeyOf(record) \in st[p].skipped THEN {KeyOf(record)} ELSE {}
  <1>1. KeyOf(record) \in st[p].skipped => KeyOf(record) \in Kept(st[p], record)
    BY DEF Kept, KeyOf
  <1>2. \A k \in Kept(st[p], record) : k = KeyOf(record)
    BY KeptKey
  <1>3. Kept(st[p], record) \subseteq st[p].skipped
    BY DEF Kept
  <1>. QED
    BY <1>1, <1>2, <1>3

\* Every field of the state after a transition.
LEMMA TransitionIs ==
  ASSUME NEW p \in Direction, NEW s \in State, NEW record, NEW fresh
  PROVE  LET t == Transition(p, s, record, fresh)
             receiving == DhStep(s.root, s.local, record.dh, Peer(p)) IN
         /\ t.receiving = receiving
         /\ t.root = DhStep(receiving, fresh, record.dh, p) /\ t.sending = t.root
         /\ t.local = fresh /\ t.peer = record.dh
         /\ t.pn = s.ns /\ t.ns = 0 /\ t.nr = 0
         /\ t.skipped = IF record.pn = s.nr THEN s.skipped
                        ELSE Insert(s.skipped, KeysOf(s.peer, s.receiving, s.nr, record.pn))
  <1>. DEFINE receiving == DhStep(s.root, s.local, record.dh, Peer(p))
              sending   == DhStep(receiving, fresh, record.dh, p)
              skipped   == IF record.pn = s.nr THEN s.skipped
                           ELSE Insert(s.skipped, KeysOf(s.peer, s.receiving, s.nr, record.pn))
  <1>1. Transition(p, s, record, fresh) =
          [s EXCEPT !.root = sending, !.local = fresh, !.peer = record.dh,
                    !.sending = sending, !.receiving = receiving,
                    !.pn = s.ns, !.ns = 0, !.nr = 0, !.skipped = skipped]
    BY DEF Transition
  <1>. HIDE DEF receiving, sending, skipped
  <1>2. LET t == Transition(p, s, record, fresh) IN
         /\ t.receiving = receiving /\ t.root = sending /\ t.sending = sending
         /\ t.local = fresh /\ t.peer = record.dh
         /\ t.pn = s.ns /\ t.ns = 0 /\ t.nr = 0 /\ t.skipped = skipped
    BY <1>1 DEF State
  <1>. QED
    BY <1>2 DEF receiving, sending, skipped

\* Both sides of a step derive the same, whoever's private key it is.
LEMMA DhStepEitherSide ==
  ASSUME NEW root, NEW a, NEW b, NEW d
  PROVE  DhStep(root, a, b, d) = DhStep(root, b, a, d)
  <1>1. {a, b} = {b, a}
    OBVIOUS
  <1>. QED
    BY <1>1 DEF DhStep

\* A record on a new chain is the peer's, and of the one chain after the last.
LEMMA NextChain ==
  ASSUME IInv, Turns, Numbered, NEW p \in Direction, NEW record \in sent,
         OnNewChain(p, st[p], record)
  PROVE  LET q == Peer(p) IN
         /\ record.from = q /\ record.dh = st[q].local /\ record.dh.k = st[p].peer.k + 1
         /\ keys[q] = st[p].peer.k + 1
         /\ record.chain = st[q].root
         /\ record.chain = DhStep(st[p].root, st[p].local, record.dh, q)
  <1>. DEFINE q == Peer(p)
              t == Transition(p, st[p], record, Fresh(p))
  <1>1. st[p] \in State /\ TypeOK
    BY DEF IInv, TypeOK
  <1>2. q \in Direction /\ Peer(q) = p /\ Peer(p) = q
    BY TwoParties
  <1>3. t.receiving = record.chain
    BY DEF OnNewChain, Advances
  <1>4. record.chain = DhStep(st[p].root, st[p].local, record.dh, q)
    BY <1>1, <1>3, TransitionIs
  <1>5. Len(record.chain) = Len(st[p].root) + 1
    <2>1. /\ st[p].root \in Seq(Step) /\ st[p].local \in Key /\ record.dh \in Key
      BY <1>1, RecordPlace DEF State
    <2>. HIDE DEF q, t
    <2>2. Len(DhStep(st[p].root, st[p].local, record.dh, q)) = Len(st[p].root) + 1
      BY ONLY <1>2, <2>1, DhStepType
    <2>. QED
      BY <1>4, <2>2
  <1>. HIDE DEF t
  <1>6. /\ keys[p] \in Nat /\ keys[q] \in Nat /\ st[p].peer.k \in Nat
        /\ keys[q] = st[p].peer.k \/ keys[q] = st[p].peer.k + 1
        /\ Len(st[p].root) = Reach(p, keys[p])
        /\ Reach(q, st[p].peer.k) <= Reach(p, keys[p])
    BY <1>1, Places
  <1>7. /\ record.from \in Direction /\ record.dh.k \in Nat
        /\ record.dh.k <= keys[record.from]
        /\ record.from = "Responder" => record.dh.k > 0
        /\ Len(record.chain) = Reach(record.from, record.dh.k)
        /\ record.from = q => record.dh.k <= st[p].peer.k + 1
    BY <1>1, <1>2, RecordPlace
  <1>8. record.from = p \/ record.from = q
    BY <1>7, TwoParties
  <1>9. /\ record.from = q => record.dh.k = st[p].peer.k + 1
        /\ record.from # p
    <2>1. \A j, k \in Nat : j <= k => Reach(p, j) # Reach(p, k) + 1
      BY ReachOf DEF Direction, Reach
    <2>2. \A j, k \in Nat : j <= k => Reach(q, j) <= Reach(q, k)
      BY <1>2 DEF Direction, Reach
    <2>3. record.from # p
      BY <1>5, <1>6, <1>7, <2>1
    <2>4. record.from = q /\ record.dh.k <= st[p].peer.k => FALSE
      <3>. SUFFICES ASSUME record.from = q, record.dh.k <= st[p].peer.k
                    PROVE  FALSE
        OBVIOUS
      <3>1. Reach(q, record.dh.k) <= Reach(q, st[p].peer.k)
        BY <1>6, <1>7, <2>2
      <3>2. /\ Reach(q, record.dh.k) \in Nat /\ Reach(q, st[p].peer.k) \in Nat
            /\ Reach(p, keys[p]) \in Nat
        BY <1>2, <1>6, <1>7, ReachOf
      <3>. QED
        BY <1>5, <1>6, <1>7, <3>1, <3>2
    <2>. QED
      BY <1>6, <1>7, <2>3, <2>4
  <1>10. record.from = q /\ record.dh.k = st[p].peer.k + 1 /\ keys[q] = record.dh.k
    BY <1>6, <1>7, <1>8, <1>9
  <1>11. record.dh = st[q].local /\ record.chain = st[q].root
    BY <1>1, <1>10, RecordPlace
  <1>. QED
    BY <1>4, <1>10, <1>11

-----------------------------------------------------------------------------
(* The joint invariant: what was received                                  *)

\* Turns and numbers depend neither on what is kept nor on what is opened.
LEMMA SameChains ==
  ASSUME Turns, Numbered, TypeOK, keys' = keys, sent' = sent,
         \A p \in Direction :
           /\ st'[p].root = st[p].root /\ st'[p].local = st[p].local /\ st'[p].peer = st[p].peer
           /\ st'[p].sending = st[p].sending /\ st'[p].receiving = st[p].receiving
           /\ st'[p].pn = st[p].pn /\ st'[p].ns = st[p].ns
  PROVE  Turns' /\ Numbered'
  <1>1. \A p \in Direction : Peer(p) \in Direction
    BY TwoParties
  <1>2. \A r \in sent : r.from \in Direction /\ Peer(r.from) \in Direction
    BY <1>1 DEF TypeOK, Record
  <1>3. Turns'
    BY <1>1 DEF Turns
  <1>4. Numbered'
    BY <1>2 DEF Numbered
  <1>. QED
    BY <1>3, <1>4

\* What one party opens and keeps does not concern the other's records.
LEMMA OtherReceiver ==
  ASSUME NEW p \in Direction, NEW record, record.from = Peer(p), NEW q \in Direction, q # p,
         NEW s, NEW records, NEW done, ReceivedBy(q, s, records, done)
  PROVE  ReceivedBy(q, s, records, done \cup {record})
  <1>1. Peer(q) # Peer(p)
    BY TwoParties
  <1>2. \A r \in records : r.from = Peer(q) => r # record
    BY <1>1
  <1>. QED
    BY <1>2 DEF ReceivedBy

LEMMA ReceivedFrom ==
  ASSUME TypeOK, Received, NEW p \in Direction, NEW t, NEW record \in sent,
         record.from = Peer(p), st' = [st EXCEPT ![p] = t], sent' = sent,
         opened' = opened \cup {record}, ReceivedBy(p, t, sent, opened \cup {record})
  PROVE  Received'
  <1>1. st'[p] = t /\ \A q \in Direction : q # p => st'[q] = st[q]
    BY DEF TypeOK
  <1>2. ASSUME NEW q \in Direction, q # p
        PROVE  ReceivedBy(q, st[q], sent, opened \cup {record})
    BY <1>2, OtherReceiver DEF Received
  <1>3. \A q \in Direction : ReceivedBy(q, st'[q], sent', opened')
    BY <1>1, <1>2
  <1>. QED
    BY <1>3 DEF Received

LEMMA JointReceiveSkipped ==
  ASSUME JInv, NEW p \in Direction, NEW record \in sent, ReceiveSkipped(p, record)
  PROVE  (Turns /\ Numbered /\ Received)'
  <1>1. TypeOK /\ Turns /\ Numbered /\ Received /\ ReceivedBy(p, st[p], sent, opened)
    BY DEF JInv, IInv, Received
  <1>2. PICK k \in Kept(st[p], record) : TRUE
    BY DEF ReceiveSkipped, FromSkipped
  <1>3. record.from = Peer(p) /\ record \notin opened /\ k = KeyOf(record)
    BY <1>1, <1>2, KeptKey
  <1>4. k \in st[p].skipped
    BY <1>2 DEF Kept
  <1>5. Kept(st[p], record) = {KeyOf(record)}
    BY <1>1, <1>3, <1>4, KeptIs
  <1>. DEFINE t == OpenSkipped(st[p], record)
  <1>6. st[p] \in State
    BY <1>1 DEF TypeOK
  <1>7. /\ t.root = st[p].root /\ t.local = st[p].local /\ t.peer = st[p].peer
        /\ t.sending = st[p].sending /\ t.receiving = st[p].receiving
        /\ t.pn = st[p].pn /\ t.ns = st[p].ns /\ t.nr = st[p].nr
        /\ t.skipped = st[p].skipped \ {KeyOf(record)}
    BY <1>5, <1>6 DEF OpenSkipped, State
  <1>8. /\ st' = [st EXCEPT ![p] = t] /\ keys' = keys /\ sent' = sent
        /\ opened' = opened \cup {record}
    BY DEF ReceiveSkipped
  <1>. HIDE DEF t
  <1>9. st'[p] = t /\ \A q \in Direction : q # p => st'[q] = st[q]
    BY <1>1, <1>8 DEF TypeOK
  <1>10. Turns' /\ Numbered'
    BY <1>1, <1>7, <1>8, <1>9, SameChains
  <1>11. ReceivedBy(p, t, sent, opened \cup {record})
    <2>1. t.nr > 0 => t.nr - 1 \in Numbers(sent, t.peer)
      BY <1>1, <1>7 DEF ReceivedBy
    <2>2. ASSUME NEW r \in sent, r.from = Peer(p)
          PROVE  Passed(t, r.dh, r.n) <=> r \in opened \cup {record} \/ KeyOf(r) \in t.skipped
      <3>1. Passed(t, r.dh, r.n) <=> Passed(st[p], r.dh, r.n)
        BY <1>7 DEF Passed
      <3>2. Passed(st[p], r.dh, r.n) <=> r \in opened \/ KeyOf(r) \in st[p].skipped
        BY <1>1, <2>2 DEF ReceivedBy
      <3>3. KeyOf(r) = KeyOf(record) => r = record
        BY <1>1, OneRecord DEF KeyOf
      <3>. QED
        BY <1>3, <1>4, <1>7, <3>1, <3>2, <3>3
    <2>3. ASSUME NEW j \in t.skipped
          PROVE  \E r \in sent \ (opened \cup {record}) : r.from = Peer(p) /\ KeyOf(r) = j
      <3>1. j \in st[p].skipped /\ j # KeyOf(record)
        BY <1>7
      <3>2. PICK r \in sent \ opened : r.from = Peer(p) /\ KeyOf(r) = j
        BY <1>1, <3>1 DEF ReceivedBy
      <3>3. r # record
        BY <3>1, <3>2
      <3>. QED
        BY <3>2, <3>3
    <2>. QED
      BY <2>1, <2>2, <2>3 DEF ReceivedBy
  <1>. QED
    BY <1>1, <1>3, <1>8, <1>10, <1>11, ReceivedFrom

\* The keys of the gap before record, of the chain it is on: every number of it is
\* that of a sent record which is not opened.
LEMMA GapKeys ==
  ASSUME TypeOK, Turns, Numbered, NEW record \in sent, NEW from \in Nat, NEW to \in Nat,
         \A i \in from..(to - 1) : i \in Numbers(sent, record.dh)
  PROVE  /\ \A k \in KeysOf(record.dh, record.chain, from, to) :
              \E r \in sent : /\ r.from = record.from /\ r.dh = record.dh
                              /\ from <= r.n /\ r.n < to /\ KeyOf(r) = k
         /\ \A r \in sent : r.dh = record.dh /\ from <= r.n /\ r.n < to =>
              KeyOf(r) \in KeysOf(record.dh, record.chain, from, to)
  <1>1. ASSUME NEW k \in KeysOf(record.dh, record.chain, from, to)
        PROVE  \E r \in sent : /\ r.from = record.from /\ r.dh = record.dh
                               /\ from <= r.n /\ r.n < to /\ KeyOf(r) = k
    <2>1. PICK i \in from..(to - 1) : k = [dh |-> record.dh, n |-> i, chain |-> record.chain]
      BY DEF KeysOf
    <2>2. PICK r \in sent : r.dh = record.dh /\ r.n = i
      BY NumbersOf
    <2>3. r.chain = record.chain
      BY <2>2, OneRecord
    <2>4. r.from = record.from
      BY <2>2, RecordPlace
    <2>. QED
      BY <2>1, <2>2, <2>3, <2>4 DEF KeyOf
  <1>2. ASSUME NEW r \in sent, r.dh = record.dh, from <= r.n, r.n < to
        PROVE  KeyOf(r) \in KeysOf(record.dh, record.chain, from, to)
    <2>1. r.chain = record.chain /\ r.n \in Nat
      BY <1>2, OneRecord, RecordPlace
    <2>2. r.n \in from..(to - 1)
      BY <1>2, <2>1
    <2>. QED
      BY <1>2, <2>1, <2>2 DEF KeyOf, KeysOf
  <1>. QED
    BY <1>1, <1>2

\* What a receiver keeps after a gap whose records it has not passed: nothing is
\* replaced.
LEMMA InsertUnpassed ==
  ASSUME NEW p \in Direction, NEW s, NEW records, NEW done, ReceivedBy(p, s, records, done),
         NEW new, \A j \in new : ~Passed(s, j.dh, j.n)
  PROVE  Insert(s.skipped, new) = s.skipped \cup new
  <1>1. ASSUME NEW k \in s.skipped
        PROVE  Passed(s, k.dh, k.n)
    <2>1. PICK r \in records \ done : r.from = Peer(p) /\ KeyOf(r) = k
      BY DEF ReceivedBy
    <2>2. r.dh = k.dh /\ r.n = k.n
      BY <2>1 DEF KeyOf
    <2>. QED
      BY <2>1, <2>2 DEF ReceivedBy
  <1>2. \A k \in s.skipped : \A j \in new : <<j.dh, j.n>> # <<k.dh, k.n>>
    BY <1>1
  <1>. QED
    BY <1>2 DEF Insert

\* A chain that moves to a record's number, keeping the keys before it.
LEMMA AdvanceReceives ==
  ASSUME TypeOK, Turns, Numbered, NEW p \in Direction, NEW s \in State, NEW record \in sent,
         record.from = Peer(p), record.dh = s.peer, record.chain = s.receiving,
         s.nr <= record.n, ReceivedBy(p, s, sent, opened)
  PROVE  ReceivedBy(p, Advance(s, record), sent, opened \cup {record})
  <1>. DEFINE t == Advance(s, record)
              new == KeysOf(record.dh, record.chain, s.nr, record.n)
  <1>1. s.nr \in Nat /\ record.n \in Nat /\ 0..record.n \subseteq Numbers(sent, record.dh)
    <2>1. s.nr \in Nat
      BY DEF State
    <2>2. record.n \in Nat
      BY RecordPlace
    <2>3. 0..record.n \subseteq Numbers(sent, record.dh)
      BY DEF Numbered
    <2>. QED
      BY <2>1, <2>2, <2>3
  <1>2. /\ \A k \in new :
             \E r \in sent : /\ r.from = record.from /\ r.dh = record.dh
                             /\ s.nr <= r.n /\ r.n < record.n /\ KeyOf(r) = k
        /\ \A r \in sent : r.dh = record.dh /\ s.nr <= r.n /\ r.n < record.n => KeyOf(r) \in new
    <2>1. \A i \in s.nr..(record.n - 1) : i \in Numbers(sent, record.dh)
      BY <1>1
    <2>. QED
      BY <1>1, <2>1, GapKeys
  <1>. HIDE DEF new
  <1>3. \A r \in sent : r.n \in Nat /\ r.dh.k \in Nat
    BY RecordPlace
  <1>4. \A r \in sent : r.dh = record.dh /\ s.nr <= r.n => ~Passed(s, r.dh, r.n)
    BY <1>1, <1>3 DEF Passed
  <1>5. \A j \in new : ~Passed(s, j.dh, j.n)
    BY <1>2, <1>4 DEF KeyOf
  <1>6. t.nr = record.n + 1 /\ t.peer = s.peer /\ t.skipped = s.skipped \cup new
    <2>1. Insert(s.skipped, new) = s.skipped \cup new
      BY <1>5, InsertUnpassed
    <2>. QED
      BY <2>1 DEF Advance, State, new
  <1>. HIDE DEF t
  <1>7. \A r \in sent :
          Passed(t, r.dh, r.n) <=> \/ Passed(s, r.dh, r.n)
                                   \/ r.dh = record.dh /\ s.nr <= r.n /\ r.n <= record.n
    BY <1>1, <1>3, <1>6 DEF Passed
  <1>8. t.nr - 1 \in Numbers(sent, t.peer)
    BY <1>1, <1>6
  <1>9. ASSUME NEW r \in sent, r.from = Peer(p)
        PROVE  Passed(t, r.dh, r.n) <=> r \in opened \cup {record} \/ KeyOf(r) \in t.skipped
    <2>1. Passed(s, r.dh, r.n) <=> r \in opened \/ KeyOf(r) \in s.skipped
      BY <1>9 DEF ReceivedBy
    <2>2. r.dh = record.dh /\ r.n = record.n <=> r = record
      BY OneRecord
    <2>3. KeyOf(r) \in new <=> r.dh = record.dh /\ s.nr <= r.n /\ r.n < record.n
      <3>1. ASSUME KeyOf(r) \in new
            PROVE  r.dh = record.dh /\ s.nr <= r.n /\ r.n < record.n
        <4>1. PICK x \in sent : /\ x.dh = record.dh /\ s.nr <= x.n /\ x.n < record.n
                                /\ KeyOf(x) = KeyOf(r)
          BY <1>2, <3>1
        <4>. QED
          BY <4>1 DEF KeyOf
      <3>. QED
        BY <1>2, <3>1
    <2>4. Passed(t, r.dh, r.n) <=> \/ Passed(s, r.dh, r.n)
                                   \/ r.dh = record.dh /\ s.nr <= r.n /\ r.n < record.n
                                   \/ r = record
      BY <1>1, <1>3, <1>7, <2>2
    <2>. QED
      BY <1>6, <2>1, <2>3, <2>4
  <1>10. ASSUME NEW k \in t.skipped
         PROVE  \E r \in sent \ (opened \cup {record}) : r.from = Peer(p) /\ KeyOf(r) = k
    <2>1. record \notin opened /\ KeyOf(record) \notin s.skipped
      <3>1. ~Passed(s, record.dh, record.n)
        BY <1>4
      <3>. QED
        BY <3>1 DEF ReceivedBy
    <2>2. CASE k \in s.skipped
      <3>1. PICK r \in sent \ opened : r.from = Peer(p) /\ KeyOf(r) = k
        BY <2>2 DEF ReceivedBy
      <3>. QED
        BY <2>1, <2>2, <3>1
    <2>3. CASE k \in new
      <3>1. PICK r \in sent : /\ r.from = record.from /\ r.dh = record.dh
                              /\ s.nr <= r.n /\ r.n < record.n /\ KeyOf(r) = k
        BY <1>2, <2>3
      <3>2. r \notin opened
        BY <1>4, <3>1 DEF ReceivedBy
      <3>3. r # record
        BY <1>1, <3>1
      <3>. QED
        BY <3>1, <3>2, <3>3
    <2>. QED
      BY <1>6, <2>2, <2>3
  <1>. QED
    BY <1>8, <1>9, <1>10 DEF ReceivedBy, t

LEMMA JointReceiveOnChain ==
  ASSUME JInv, NEW p \in Direction, NEW record \in sent, ReceiveOnChain(p, record)
  PROVE  (Turns /\ Numbered /\ Received)'
  <1>1. TypeOK /\ Turns /\ Numbered /\ Received /\ ReceivedBy(p, st[p], sent, opened)
    BY DEF JInv, IInv, Received
  <1>. DEFINE t == Advance(st[p], record)
  <1>2. st[p] \in State
    BY <1>1 DEF TypeOK
  <1>3. /\ record.dh = st[p].peer /\ st[p].nr <= record.n /\ record.chain = st[p].receiving
        /\ st' = [st EXCEPT ![p] = t] /\ keys' = keys /\ sent' = sent
        /\ opened' = opened \cup {record}
    <2>1. record.n \in Nat
      BY <1>1, RecordPlace
    <2>2. st[p].nr \in Nat
      BY <1>2 DEF State
    <2>. QED
      BY <2>1, <2>2 DEF ReceiveOnChain, OnChain, Advances
  <1>4. record.from = Peer(p)
    <2>1. st[p].peer.owner = Peer(p)
      BY <1>1, Places
    <2>2. record.dh.owner = record.from
      BY <1>1, RecordPlace
    <2>. QED
      BY <1>3, <2>1, <2>2
  <1>5. /\ t.root = st[p].root /\ t.local = st[p].local /\ t.peer = st[p].peer
        /\ t.sending = st[p].sending /\ t.receiving = st[p].receiving
        /\ t.pn = st[p].pn /\ t.ns = st[p].ns
    BY <1>2 DEF Advance, State
  <1>6. ReceivedBy(p, t, sent, opened \cup {record})
    BY <1>1, <1>2, <1>3, <1>4, AdvanceReceives
  <1>. HIDE DEF t
  <1>7. st'[p] = t /\ \A q \in Direction : q # p => st'[q] = st[q]
    BY <1>1, <1>3 DEF TypeOK
  <1>8. Turns' /\ Numbered'
    BY <1>1, <1>3, <1>5, <1>7, SameChains
  <1>. QED
    BY <1>1, <1>3, <1>4, <1>6, <1>8, ReceivedFrom

\* A turn keeps what is left of the old receiving chain, as far as pn says.
LEMMA TransitionReceives ==
  ASSUME IInv, Turns, Numbered, NEW p \in Direction, NEW record \in sent, NEW fresh,
         ReceivedBy(p, st[p], sent, opened), Transitions(st[p], record),
         record.from = Peer(p), record.dh.k = st[p].peer.k + 1
  PROVE  ReceivedBy(p, Transition(p, st[p], record, fresh), sent, opened)
  <1>. DEFINE s == st[p]
              t == Transition(p, s, record, fresh)
              new == IF record.pn = s.nr THEN {} ELSE KeysOf(s.peer, s.receiving, s.nr, record.pn)
  <1>1. TypeOK /\ s \in State
    BY DEF IInv, TypeOK
  <1>2. s.nr \in Nat /\ s.peer \in Key
    BY <1>1 DEF State
  <1>3. record.pn \in Nat /\ record.dh = [owner |-> Peer(p), k |-> s.peer.k + 1]
    BY <1>1, RecordPlace
  <1>4. s.peer = [owner |-> Peer(p), k |-> s.peer.k] /\ s.peer.k \in Nat
    <2>1. s.peer.owner = Peer(p) /\ s.peer.k \in Nat
      BY <1>1, Places
    <2>. QED
      BY <1>2, <2>1 DEF Key
  <1>5. Numbers(sent, s.peer) = 0..(record.pn - 1)
    <2>1. Numbers(sent, [owner |-> record.from, k |-> record.dh.k - 1]) = 0..(record.pn - 1)
      BY DEF Numbered
    <2>2. record.dh.k - 1 = s.peer.k
      BY <1>4
    <2>. QED
      BY <1>4, <2>1, <2>2
  <1>6. s.nr <= record.pn
    BY <1>2, <1>3 DEF Transitions
  <1>. HIDE DEF s
  <1>7. /\ \A k \in new :
             \E r \in sent : /\ r.from = Peer(p) /\ r.dh = s.peer /\ s.nr <= r.n /\ KeyOf(r) = k
        /\ \A r \in sent : r.dh = s.peer /\ s.nr <= r.n => KeyOf(r) \in new
    <2>1. \A r \in sent : r.dh = s.peer => r.n \in Nat /\ r.n < record.pn
      <3>1. \A r \in sent : r.dh = s.peer => r.n \in 0..(record.pn - 1)
        BY <1>5, NumbersOf
      <3>. QED
        BY <1>3, <3>1
    <2>2. CASE record.pn = s.nr
      BY <1>2, <2>1, <2>2
    <2>3. CASE record.pn # s.nr
      <3>1. s.nr \in 0..(record.pn - 1)
        BY <1>2, <1>3, <1>6, <2>3
      <3>2. PICK x \in sent : x.dh = s.peer
        <4>1. s.nr \in Numbers(sent, s.peer)
          BY <1>5, <3>1
        <4>. QED
          BY <4>1, NumbersOf
      <3>3. x.from = Peer(p) /\ x.dh.k = s.peer.k
        <4>1. x.dh.owner = x.from
          BY <1>1, RecordPlace
        <4>. QED
          BY <1>4, <3>2, <4>1
      <3>4. x.chain = s.receiving
        <4>1. Peer(Peer(p)) = p
          BY TwoParties
        <4>. QED
          BY <1>1, <3>3, <4>1, RecordPlace DEF s
      <3>5. \A i \in s.nr..(record.pn - 1) : i \in Numbers(sent, x.dh)
        BY <1>2, <1>3, <1>5, <3>2
      <3>6. /\ \A k \in KeysOf(x.dh, x.chain, s.nr, record.pn) :
                 \E r \in sent : /\ r.from = x.from /\ r.dh = x.dh
                                 /\ s.nr <= r.n /\ r.n < record.pn /\ KeyOf(r) = k
            /\ \A r \in sent : r.dh = x.dh /\ s.nr <= r.n /\ r.n < record.pn =>
                 KeyOf(r) \in KeysOf(x.dh, x.chain, s.nr, record.pn)
        BY <1>1, <1>2, <1>3, <3>5, GapKeys
      <3>. QED
        BY <2>1, <2>3, <3>2, <3>3, <3>4, <3>6
    <2>. QED
      BY <2>2, <2>3
  <1>. HIDE DEF new
  <1>8. \A r \in sent : r.n \in Nat /\ r.dh.k \in Nat
    BY <1>1, RecordPlace
  <1>9. \A r \in sent : r.dh = s.peer /\ s.nr <= r.n => ~Passed(s, r.dh, r.n)
    BY <1>2, <1>4, <1>8 DEF Passed
  <1>10. \A j \in new : ~Passed(s, j.dh, j.n)
    BY <1>7, <1>9 DEF KeyOf
  <1>11. ReceivedBy(p, s, sent, opened)
    BY DEF s
  <1>12. t.nr = 0 /\ t.peer = record.dh /\ t.skipped = s.skipped \cup new
    <2>1. Insert(s.skipped, new) = s.skipped \cup new
      BY <1>10, <1>11, InsertUnpassed
    <2>2. /\ t.nr = 0 /\ t.peer = record.dh
          /\ t.skipped = IF record.pn = s.nr THEN s.skipped
                         ELSE Insert(s.skipped, KeysOf(s.peer, s.receiving, s.nr, record.pn))
      BY <1>1, TransitionIs
    <2>. QED
      BY <2>1, <2>2 DEF new
  <1>. HIDE DEF t
  <1>13. ASSUME NEW r \in sent, r.from = Peer(p)
         PROVE  Passed(t, r.dh, r.n) <=> r \in opened \/ KeyOf(r) \in t.skipped
    <2>1. Passed(s, r.dh, r.n) <=> r \in opened \/ KeyOf(r) \in s.skipped
      BY <1>11, <1>13 DEF ReceivedBy
    <2>2. KeyOf(r) \in new <=> r.dh = s.peer /\ s.nr <= r.n
      <3>1. ASSUME KeyOf(r) \in new
            PROVE  r.dh = s.peer /\ s.nr <= r.n
        <4>1. PICK x \in sent : x.dh = s.peer /\ s.nr <= x.n /\ KeyOf(x) = KeyOf(r)
          BY <1>7, <3>1
        <4>. QED
          BY <4>1 DEF KeyOf
      <3>. QED
        BY <1>7, <3>1
    <2>3. r.dh.k = s.peer.k => r.dh = s.peer
      BY <1>1, <1>4, <1>13, RecordPlace
    <2>4. Passed(t, r.dh, r.n) <=> r.dh.k < s.peer.k + 1
      BY <1>3, <1>4, <1>8, <1>12 DEF Passed
    <2>5. Passed(t, r.dh, r.n) <=> Passed(s, r.dh, r.n) \/ (r.dh = s.peer /\ s.nr <= r.n)
      BY <1>2, <1>4, <1>8, <2>3, <2>4 DEF Passed
    <2>. QED
      BY <1>12, <2>1, <2>2, <2>5
  <1>14. ASSUME NEW k \in t.skipped
         PROVE  \E r \in sent \ opened : r.from = Peer(p) /\ KeyOf(r) = k
    <2>1. CASE k \in s.skipped
      BY <1>11, <2>1 DEF ReceivedBy
    <2>2. CASE k \in new
      <3>1. PICK r \in sent : r.from = Peer(p) /\ r.dh = s.peer /\ s.nr <= r.n /\ KeyOf(r) = k
        BY <1>7, <2>2
      <3>2. r \notin opened
        BY <1>9, <1>11, <3>1 DEF ReceivedBy
      <3>. QED
        BY <3>1, <3>2
    <2>. QED
      BY <1>12, <2>1, <2>2
  <1>15. t.nr > 0 => t.nr - 1 \in Numbers(sent, t.peer)
    BY <1>12
  <1>16. ReceivedBy(p, t, sent, opened)
    BY <1>13, <1>14, <1>15 DEF ReceivedBy
  <1>. QED
    BY <1>16 DEF t, s

\* The turn of one party: where both stand afterwards.
LEMMA TurnPlaces ==
  ASSUME TypeOK, TypeOK', Turns, Numbered, NEW p \in Direction, NEW record \in sent,
         keys[Peer(p)] = st[p].peer.k + 1, record.dh = st[Peer(p)].local,
         record.chain = st[Peer(p)].root,
         keys' = [keys EXCEPT ![p] = @ + 1], st'[Peer(p)] = st[Peer(p)],
         st'[p].local = Fresh(p), st'[p].peer = record.dh, st'[p].receiving = record.chain,
         st'[p].root = DhStep(record.chain, Fresh(p), record.dh, p),
         st'[p].sending = st'[p].root
  PROVE  Turns'
  <1>. DEFINE q == Peer(p)
  <1>1. q \in Direction /\ Peer(q) = p /\ q # p /\ \A d \in Direction : d = p \/ d = q
    BY TwoParties
  <1>2. /\ keys[p] \in Nat /\ keys[q] \in Nat /\ st[p].peer.k \in Nat
        /\ Len(st[p].root) = Reach(p, keys[p])
        /\ Reach(q, keys[q]) = Reach(p, keys[p]) + 1
        /\ Reach(p, keys[p] + 1) = Reach(p, keys[p]) + 2
        /\ st[q].peer = st[p].local /\ Answers(p, keys[p] + 1) = keys[q]
        /\ st[p].local.owner = p /\ st[p].local.k = keys[p]
    BY Places
  <1>3. st[p].local = [owner |-> p, k |-> keys[p]] /\ st[q].local = [owner |-> q, k |-> keys[q]]
    BY <1>1 DEF Turns
  <1>4. /\ keys'[p] = keys[p] + 1 /\ keys'[q] = keys[q]
        /\ st'[p].local = [owner |-> p, k |-> keys[p] + 1]
    BY <1>1 DEF TypeOK, Fresh
  <1>5. /\ Len(st[q].root) = Reach(q, keys[q])
        /\ st[q].peer = [owner |-> p, k |-> Answers(q, keys[q])]
        /\ st[q].sending = None <=> q = "Responder" /\ keys[q] = 0
        /\ st[q].receiving = None <=> q = "Initiator" /\ keys[q] = 0
        /\ st[q].receiving # None => Len(st[q].receiving) = Reach(p, st[q].peer.k)
    BY <1>1 DEF Turns
  <1>6. record.chain \in Seq(Step) /\ record.dh \in Key
    BY RecordPlace
  <1>7. st'[p].root \in Seq(Step) /\ Len(st'[p].root) = Len(record.chain) + 1
    <2>1. st'[p].local \in Key
      BY DEF TypeOK, State
    <2>2. Fresh(p) \in Key
      BY <2>1
    <2>. QED
      BY <1>6, <2>2, DhStepType
  <1>8. Len(record.chain) \in Nat
    BY <1>6
  <1>. HIDE DEF q
  <1>9. /\ st'[p].peer = [owner |-> q, k |-> Answers(p, keys'[p])]
        /\ keys'[q] = st'[p].peer.k
        /\ st'[p].peer = st'[q].local
    <2>1. st'[p].peer = st[q].local /\ st'[q].local = st[q].local
      BY DEF q
    <2>2. st'[p].peer = [owner |-> q, k |-> keys[q]]
      BY <1>3, <2>1
    <2>3. Answers(p, keys'[p]) = keys[q]
      BY <1>2, <1>4
    <2>4. st'[p].peer.k = keys[q]
      BY <2>2
    <2>. QED
      BY <1>4, <2>1, <2>2, <2>3, <2>4
  <1>10. Len(st'[p].root) = Reach(p, keys'[p])
    <2>1. Len(record.chain) = Reach(q, keys[q])
      BY <1>5 DEF q
    <2>2. Reach(p, keys[p]) \in Nat
      BY <1>2
    <2>3. Len(st'[p].root) = Reach(p, keys[p] + 1)
      BY ONLY <1>2, <1>7, <2>1, <2>2
    <2>. QED
      BY ONLY <1>4, <2>3
  <1>11. /\ ~(st'[p].sending = None) /\ ~(st'[p].receiving = None)
         /\ keys'[p] # 0
    BY <1>2, <1>4, <1>6, <1>7, NoneAssumption
  <1>12. /\ Len(st'[p].receiving) = Reach(q, st'[p].peer.k)
         /\ st'[p].receiving = st'[q].root
    BY <1>2, <1>4, <1>5, <1>9 DEF q
  <1>13. /\ st'[q].peer.k = keys[p] /\ st'[q].peer # st'[p].local
         /\ keys'[p] \in {st'[q].peer.k, st'[q].peer.k + 1}
    BY <1>2, <1>4 DEF q
  <1>14. st'[p].root = DhStep(st'[q].root, st'[p].local, st'[q].local, p)
    BY DEF q
  <1>15. ASSUME NEW d \in Direction
         PROVE  LET e == Peer(d)  s == st'[d]  u == st'[e] IN
                /\ s.local = [owner |-> d, k |-> keys'[d]]
                /\ s.peer = [owner |-> e, k |-> Answers(d, keys'[d])]
                /\ keys'[e] \in {s.peer.k, s.peer.k + 1}
                /\ Len(s.root) = Reach(d, keys'[d])
                /\ s.sending = None <=> d = "Responder" /\ keys'[d] = 0
                /\ s.receiving = None <=> d = "Initiator" /\ keys'[d] = 0
                /\ s.receiving # None => Len(s.receiving) = Reach(e, s.peer.k)
                /\ s.receiving # None /\ s.peer = u.local => s.receiving = u.root
                /\ s.peer # u.local => u.root = DhStep(s.root, u.local, s.local, e)
    <2>1. CASE d = p
      <3>1. Peer(d) = q /\ d # q
        BY <1>1, <2>1 DEF q
      <3>. QED
        BY <1>4, <1>9, <1>10, <1>11, <1>12, <2>1, <3>1
    <2>2. CASE d = q
      <3>1. Peer(d) = p
        BY <1>1, <2>2
      <3>2. st'[d] = st[q] /\ keys'[d] = keys[q]
        BY <1>4, <2>2 DEF q
      <3>3. /\ st'[d].local = [owner |-> d, k |-> keys'[d]]
            /\ st'[d].peer = [owner |-> p, k |-> Answers(d, keys'[d])]
            /\ Len(st'[d].root) = Reach(d, keys'[d])
            /\ st'[d].sending = None <=> d = "Responder" /\ keys'[d] = 0
            /\ st'[d].receiving = None <=> d = "Initiator" /\ keys'[d] = 0
            /\ st'[d].receiving # None => Len(st'[d].receiving) = Reach(p, st'[d].peer.k)
        BY <1>3, <1>5, <2>2, <3>2
      <3>. QED
        BY <1>13, <1>14, <2>2, <3>1, <3>3
    <2>. QED
      BY <1>1, <2>1, <2>2
  <1>. QED
    BY <1>15 DEF Turns

\* A fresh key has sealed nothing yet.
LEMMA FreshUnused ==
  ASSUME TypeOK, Turns, Numbered, NEW p \in Direction
  PROVE  /\ \A r \in sent : r.dh # Fresh(p)
         /\ Numbers(sent, Fresh(p)) = {}
  <1>1. ASSUME NEW r \in sent, r.dh = Fresh(p)
        PROVE  FALSE
    <2>1. r.dh.owner = p /\ r.dh.k = keys[p] + 1
      BY <1>1 DEF Fresh
    <2>2. r.dh.owner = r.from /\ r.dh.k <= keys[r.from]
      BY RecordPlace
    <2>3. keys[p] \in Nat
      BY Places
    <2>. QED
      BY <2>1, <2>2, <2>3
  <1>. QED
    BY <1>1 DEF Numbers

LEMMA TurnNumbered ==
  ASSUME TypeOK, Turns, Numbered, NEW p \in Direction, NEW record \in sent, sent' = sent,
         keys' = [keys EXCEPT ![p] = @ + 1], st'[Peer(p)] = st[Peer(p)],
         st'[p].local = Fresh(p), st'[p].peer = record.dh, st'[p].receiving = record.chain,
         st'[p].pn = st[p].ns, st'[p].ns = 0
  PROVE  Numbered'
  <1>. DEFINE q == Peer(p)
  <1>1. q \in Direction /\ Peer(q) = p /\ q # p /\ \A d \in Direction : d = p \/ d = q
    BY TwoParties
  <1>2. keys[p] \in Nat /\ keys'[p] = keys[p] + 1 /\ keys'[q] = keys[q]
    BY <1>1, Places DEF TypeOK
  <1>3. ASSUME NEW r \in sent
        PROVE  /\ r.dh.owner = r.from /\ r.dh.k <= keys'[r.from] /\ r.n < MaxCounter
               /\ r.from = "Responder" => r.dh.k > 0
               /\ Len(r.chain) = Reach(r.from, r.dh.k)
               /\ r.dh = st'[r.from].local =>
                    r.chain = st'[r.from].root /\ r.pn = st'[r.from].pn
               /\ r.dh = st'[Peer(r.from)].peer => r.chain = st'[Peer(r.from)].receiving
               /\ 0..r.n \subseteq Numbers(sent, r.dh)
               /\ Numbers(sent, [owner |-> r.from, k |-> r.dh.k - 1]) = 0..(r.pn - 1)
    <2>1. /\ r.dh.owner = r.from /\ r.dh.k <= keys[r.from] /\ r.n < MaxCounter
          /\ r.from = "Responder" => r.dh.k > 0
          /\ Len(r.chain) = Reach(r.from, r.dh.k)
          /\ r.dh = st[r.from].local => r.chain = st[r.from].root /\ r.pn = st[r.from].pn
          /\ r.dh = st[Peer(r.from)].peer => r.chain = st[Peer(r.from)].receiving
          /\ 0..r.n \subseteq Numbers(sent, r.dh)
          /\ Numbers(sent, [owner |-> r.from, k |-> r.dh.k - 1]) = 0..(r.pn - 1)
      BY DEF Numbered
    <2>2. r.from \in Direction /\ r.dh.k \in Nat
      BY RecordPlace
    <2>3. r.dh # Fresh(p)
      BY FreshUnused
    <2>4. r.dh = record.dh => r.chain = record.chain
      BY OneRecord
    <2>5. CASE r.from = p
      BY <1>1, <1>2, <2>1, <2>2, <2>3, <2>5
    <2>6. CASE r.from = q
      BY <1>1, <1>2, <2>1, <2>2, <2>4, <2>6
    <2>. QED
      BY <1>1, <2>2, <2>5, <2>6
  <1>4. ASSUME NEW d \in Direction
        PROVE  /\ Numbers(sent, st'[d].local) = 0..(st'[d].ns - 1)
               /\ Numbers(sent, [owner |-> d, k |-> keys'[d] - 1]) = 0..(st'[d].pn - 1)
    <2>1. /\ Numbers(sent, st[d].local) = 0..(st[d].ns - 1)
          /\ Numbers(sent, [owner |-> d, k |-> keys[d] - 1]) = 0..(st[d].pn - 1)
      BY DEF Numbered
    <2>2. CASE d = p
      <3>1. Numbers(sent, Fresh(p)) = {} /\ 0..(0 - 1) = {}
        BY FreshUnused
      <3>2. [owner |-> p, k |-> keys'[p] - 1] = st[p].local
        <4>1. st[p].local = [owner |-> p, k |-> keys[p]]
          BY DEF Turns
        <4>. QED
          BY <1>2, <4>1
      <3>. QED
        BY <2>1, <2>2, <3>1, <3>2
    <2>3. CASE d = q
      BY <1>2, <2>1, <2>3
    <2>. QED
      BY <1>1, <2>2, <2>3
  <1>5. \A r, x \in sent : r.dh = x.dh => r.chain = x.chain /\ (r.n = x.n => r = x)
    BY OneRecord
  <1>. QED
    BY <1>3, <1>4, <1>5 DEF Numbered

LEMMA JointReceiveTransition ==
  ASSUME JInv, IInv', NEW p \in Direction, NEW record \in sent, ReceiveTransition(p, record)
  PROVE  (Turns /\ Numbered /\ Received)'
  <1>1. /\ TypeOK /\ IInv /\ Turns /\ Numbered /\ Received /\ TypeOK'
        /\ ReceivedBy(p, st[p], sent, opened)
    BY DEF JInv, IInv, Received
  <1>. DEFINE q == Peer(p)
              s == Transition(p, st[p], record, Fresh(p))
              t == Advance(s, record)
  <1>2. /\ keys[p] < MaxKeys /\ OnNewChain(p, st[p], record)
        /\ st' = [st EXCEPT ![p] = t] /\ keys' = [keys EXCEPT ![p] = @ + 1]
        /\ sent' = sent /\ opened' = opened \cup {record}
    BY DEF ReceiveTransition
  <1>3. /\ record.from = q /\ record.dh = st[q].local /\ record.dh.k = st[p].peer.k + 1
        /\ keys[q] = st[p].peer.k + 1 /\ record.chain = st[q].root
        /\ record.chain = DhStep(st[p].root, st[p].local, record.dh, q)
    BY <1>1, <1>2, NextChain
  <1>4. st[p] \in State /\ Bounded(st[p]) /\ record \in Record /\ Fresh(p) \in Key
    BY <1>1, <1>2, FreshType DEF IInv, TypeOK, SkippedBounded, Bounded
  <1>5. Transitions(st[p], record) /\ Advances(s, record)
    BY <1>2 DEF OnNewChain
  <1>6. s \in State
    BY <1>4, <1>5, TransitionReturns
  <1>7. /\ s.receiving = record.chain /\ s.local = Fresh(p) /\ s.peer = record.dh
        /\ s.root = DhStep(record.chain, Fresh(p), record.dh, p) /\ s.sending = s.root
        /\ s.pn = st[p].ns /\ s.ns = 0 /\ s.nr = 0
    BY <1>3, <1>4, TransitionIs
  <1>8. ReceivedBy(p, s, sent, opened)
    BY <1>1, <1>3, <1>4, <1>5, TransitionReceives
  <1>. HIDE DEF s
  <1>9. /\ t.receiving = record.chain /\ t.local = Fresh(p) /\ t.peer = record.dh
        /\ t.root = DhStep(record.chain, Fresh(p), record.dh, p) /\ t.sending = t.root
        /\ t.pn = st[p].ns /\ t.ns = 0
    BY <1>6, <1>7 DEF Advance, State
  <1>10. ReceivedBy(p, t, sent, opened \cup {record})
    <2>1. record.n \in Nat
      BY <1>1, RecordPlace
    <2>2. s.nr <= record.n
      BY <1>7, <2>1
    <2>. QED
      BY <1>1, <1>3, <1>6, <1>7, <1>8, <2>2, AdvanceReceives
  <1>. HIDE DEF t
  <1>11. st'[p] = t /\ st'[q] = st[q]
    BY <1>1, <1>2, TwoParties DEF TypeOK
  <1>12. Turns'
    BY <1>1, <1>2, <1>3, <1>9, <1>11, TurnPlaces
  <1>13. Numbered'
    BY <1>1, <1>2, <1>9, <1>11, TurnNumbered
  <1>14. Received'
    BY <1>1, <1>2, <1>3, <1>10, ReceivedFrom
  <1>. QED
    BY <1>12, <1>13, <1>14

-----------------------------------------------------------------------------
(* The joint invariant: what is sealed                                     *)

\* What a receiver has is not touched by a record it has not reached.
LEMMA ReceivedMore ==
  ASSUME opened \subseteq sent, NEW d \in Direction, NEW s, NEW t, NEW x,
         ReceivedBy(d, s, sent, opened),
         t.nr = s.nr, t.peer = s.peer, t.skipped = s.skipped,
         x.from = Peer(d) => ~Passed(s, x.dh, x.n),
         \A r \in sent : r.dh = x.dh => r.n # x.n
  PROVE  ReceivedBy(d, t, sent \cup {x}, opened)
  <1>1. \A dh, n : Passed(t, dh, n) <=> Passed(s, dh, n)
    BY DEF Passed
  <1>2. x \notin sent /\ x \notin opened
    OBVIOUS
  <1>3. KeyOf(x) \notin s.skipped
    <2>1. SUFFICES ASSUME KeyOf(x) \in s.skipped
                   PROVE  FALSE
      OBVIOUS
    <2>2. PICK r \in sent : KeyOf(r) = KeyOf(x)
      BY <2>1 DEF ReceivedBy
    <2>. QED
      BY <2>2 DEF KeyOf
  <1>4. t.nr > 0 => t.nr - 1 \in Numbers(sent \cup {x}, t.peer)
    BY DEF ReceivedBy, Numbers
  <1>5. ASSUME NEW r \in sent \cup {x}, r.from = Peer(d)
        PROVE  Passed(t, r.dh, r.n) <=> r \in opened \/ KeyOf(r) \in t.skipped
    <2>1. CASE r \in sent
      BY <1>1, <1>5, <2>1 DEF ReceivedBy
    <2>2. CASE r = x
      BY <1>1, <1>2, <1>3, <1>5, <2>2
    <2>. QED
      BY <2>1, <2>2
  <1>6. \A k \in t.skipped : \E r \in (sent \cup {x}) \ opened : r.from = Peer(d) /\ KeyOf(r) = k
    BY DEF ReceivedBy
  <1>. QED
    BY <1>4, <1>5, <1>6 DEF ReceivedBy

\* A record sealed with the next number of the sender's key.
LEMMA SealNumbered ==
  ASSUME TypeOK, Turns, Numbered, NEW p \in Direction, NEW x, sent' = sent \cup {x},
         st'[Peer(p)] = st[Peer(p)], keys'[Peer(p)] = keys[Peer(p)],
         keys'[p] \in Nat, keys[p] <= keys'[p], p = "Responder" => keys'[p] > 0,
         x.from = p, x.dh = [owner |-> p, k |-> keys'[p]], x.n \in Nat, x.n < MaxCounter,
         x.chain = st'[p].root, Len(x.chain) = Reach(p, keys'[p]), x.pn = st'[p].pn,
         st'[p].local = x.dh, st'[p].peer = st[p].peer, st'[p].receiving = st[p].receiving,
         st'[p].ns = x.n + 1,
         Numbers(sent, x.dh) = 0..(x.n - 1),
         Numbers(sent, [owner |-> p, k |-> keys'[p] - 1]) = 0..(x.pn - 1),
         x.dh = st[Peer(p)].peer => x.chain = st[Peer(p)].receiving,
         \A r \in sent : r.dh = x.dh => r.chain = x.chain /\ r.pn = x.pn
  PROVE  Numbered'
  <1>. DEFINE q == Peer(p)
              all == sent \cup {x}
  <1>1. q \in Direction /\ Peer(q) = p /\ q # p /\ \A d \in Direction : d = p \/ d = q
    BY TwoParties
  <1>2. /\ \A dh : dh # x.dh => Numbers(all, dh) = Numbers(sent, dh)
        /\ Numbers(all, x.dh) = 0..x.n
    <2>1. \A dh : dh # x.dh => Numbers(all, dh) = Numbers(sent, dh)
      BY DEF Numbers
    <2>2. Numbers(all, x.dh) = Numbers(sent, x.dh) \cup {x.n}
      BY DEF Numbers
    <2>3. (0..(x.n - 1)) \cup {x.n} = 0..x.n
      OBVIOUS
    <2>. QED
      BY <2>1, <2>2, <2>3
  <1>3. \A r \in sent : /\ r.dh.k \in Nat /\ r.from \in Direction /\ r.n \in Nat
                        /\ r.dh = [owner |-> r.from, k |-> r.dh.k] /\ r.dh.k <= keys[r.from]
    BY RecordPlace
  <1>4. \A r \in sent : r.dh = x.dh => r.n < x.n
    <2>1. \A r \in sent : r.dh = x.dh => r.n \in 0..(x.n - 1)
      BY NumbersOf
    <2>. QED
      BY <2>1
  <1>5. ASSUME NEW r \in sent, r.from = p
        PROVE  r.dh.k <= keys'[p]
    <2>1. keys[p] \in Nat
      BY Places
    <2>2. r.dh.k \in Nat /\ r.dh.k <= keys[p]
      BY <1>3, <1>5
    <2>. QED
      BY <2>1, <2>2
  <1>6. ASSUME NEW r \in sent
        PROVE  [owner |-> r.from, k |-> r.dh.k - 1] # x.dh
    <2>1. r.from = p => r.dh.k <= keys'[p] /\ r.dh.k \in Nat
      BY <1>3, <1>5
    <2>. QED
      BY <2>1
  <1>. HIDE DEF q
  <1>7. ASSUME NEW r \in sent
        PROVE  /\ r.dh.owner = r.from /\ r.dh.k <= keys'[r.from] /\ r.n < MaxCounter
               /\ r.from = "Responder" => r.dh.k > 0
               /\ Len(r.chain) = Reach(r.from, r.dh.k)
               /\ r.dh = st'[r.from].local =>
                    r.chain = st'[r.from].root /\ r.pn = st'[r.from].pn
               /\ r.dh = st'[Peer(r.from)].peer => r.chain = st'[Peer(r.from)].receiving
               /\ 0..r.n \subseteq Numbers(all, r.dh)
               /\ Numbers(all, [owner |-> r.from, k |-> r.dh.k - 1]) = 0..(r.pn - 1)
    <2>1. /\ r.dh.owner = r.from /\ r.dh.k <= keys[r.from] /\ r.n < MaxCounter
          /\ r.from = "Responder" => r.dh.k > 0
          /\ Len(r.chain) = Reach(r.from, r.dh.k)
          /\ r.dh = st[r.from].local => r.chain = st[r.from].root /\ r.pn = st[r.from].pn
          /\ r.dh = st[Peer(r.from)].peer => r.chain = st[Peer(r.from)].receiving
          /\ 0..r.n \subseteq Numbers(sent, r.dh)
          /\ Numbers(sent, [owner |-> r.from, k |-> r.dh.k - 1]) = 0..(r.pn - 1)
      BY DEF Numbered
    <2>2. 0..r.n \subseteq Numbers(all, r.dh)
      <3>1. Numbers(sent, r.dh) \subseteq Numbers(all, r.dh)
        BY DEF Numbers
      <3>. QED
        BY <2>1, <3>1
    <2>3. Numbers(all, [owner |-> r.from, k |-> r.dh.k - 1]) = 0..(r.pn - 1)
      <3>. DEFINE before == [owner |-> r.from, k |-> r.dh.k - 1]
      <3>1. before # x.dh /\ Numbers(sent, before) = 0..(r.pn - 1)
        BY <1>6, <2>1
      <3>. HIDE DEF before, all
      <3>2. Numbers(all, before) = 0..(r.pn - 1)
        BY <1>2, <3>1
      <3>. QED
        BY <3>2 DEF before
    <2>7. r.from = p \/ r.from = q
      BY <1>1, <1>3
    <2>8. st'[q] = st[q] /\ keys'[q] = keys[q]
      BY DEF q
    <2>4. r.dh = st'[r.from].local => r.chain = st'[r.from].root /\ r.pn = st'[r.from].pn
      <3>1. CASE r.from = p
        <4>1. r.dh = x.dh => r.chain = x.chain /\ r.pn = x.pn
          OBVIOUS
        <4>. QED
          BY <3>1, <4>1
      <3>2. CASE r.from = q
        BY <2>1, <2>8, <3>2
      <3>. QED
        BY <2>7, <3>1, <3>2
    <2>5. r.dh = st'[Peer(r.from)].peer => r.chain = st'[Peer(r.from)].receiving
      <3>1. CASE r.from = p
        BY <2>1, <2>8, <3>1 DEF q
      <3>2. CASE r.from = q
        <4>1. Peer(r.from) = p
          BY <1>1, <3>2
        <4>. QED
          BY <2>1, <4>1
      <3>. QED
        BY <2>7, <3>1, <3>2
    <2>6. r.dh.k <= keys'[r.from]
      <3>1. CASE r.from = p
        BY <1>5, <3>1
      <3>2. CASE r.from = q
        BY <2>1, <2>8, <3>2
      <3>. QED
        BY <2>7, <3>1, <3>2
    <2>. QED
      BY <2>1, <2>2, <2>3, <2>4, <2>5, <2>6
  <1>12. [owner |-> p, k |-> keys'[p] - 1] # x.dh
    OBVIOUS
  <1>8. /\ x.dh.owner = x.from /\ x.dh.k <= keys'[x.from] /\ x.n < MaxCounter
        /\ x.from = "Responder" => x.dh.k > 0
        /\ Len(x.chain) = Reach(x.from, x.dh.k)
        /\ x.dh = st'[x.from].local => x.chain = st'[x.from].root /\ x.pn = st'[x.from].pn
        /\ x.dh = st'[Peer(x.from)].peer => x.chain = st'[Peer(x.from)].receiving
        /\ 0..x.n \subseteq Numbers(all, x.dh)
        /\ Numbers(all, [owner |-> x.from, k |-> x.dh.k - 1]) = 0..(x.pn - 1)
    <2>1. /\ x.dh.owner = p /\ x.dh.k = keys'[p]
          /\ Peer(p) # p /\ st'[Peer(p)] = st[Peer(p)]
      BY <1>1 DEF q
    <2>2. Numbers(all, [owner |-> p, k |-> keys'[p] - 1]) = 0..(x.pn - 1)
      BY <1>2, <1>12
    <2>3. x.dh = st'[Peer(p)].peer => x.chain = st'[Peer(p)].receiving
      BY <2>1
    <2>4. keys'[p] <= keys'[p]
      OBVIOUS
    <2>. HIDE DEF all
    <2>5. x.from = p
      OBVIOUS
    <2>. QED
      BY ONLY <1>2, <2>1, <2>2, <2>3, <2>4, <2>5, x.n < MaxCounter, p = "Responder" => keys'[p] > 0,
         Len(x.chain) = Reach(p, keys'[p]), x.chain = st'[p].root, x.pn = st'[p].pn
  <1>9. \A r, y \in all : r.dh = y.dh => r.chain = y.chain /\ (r.n = y.n => r = y)
    <2>1. \A r, y \in sent : r.dh = y.dh => r.chain = y.chain /\ (r.n = y.n => r = y)
      BY DEF Numbered
    <2>2. \A r \in sent : r.dh = x.dh => r.n # x.n
      BY <1>3, <1>4
    <2>. QED
      BY <2>1, <2>2
  <1>. DEFINE Counts(d) == /\ Numbers(all, st'[d].local) = 0..(st'[d].ns - 1)
                           /\ Numbers(all, [owner |-> d, k |-> keys'[d] - 1]) = 0..(st'[d].pn - 1)
  <1>10. \A d \in Direction : Counts(d)
    <2>1. Counts(p)
      <3>1. Numbers(all, st'[p].local) = 0..(st'[p].ns - 1)
        <4>1. st'[p].ns - 1 = x.n
          OBVIOUS
        <4>. QED
          BY <1>2, <4>1
      <3>2. Numbers(all, [owner |-> p, k |-> keys'[p] - 1]) = 0..(st'[p].pn - 1)
        BY <1>2, <1>12
      <3>. QED
        BY <3>1, <3>2
    <2>2. Counts(q)
      <3>1. /\ Numbers(sent, st[q].local) = 0..(st[q].ns - 1)
            /\ Numbers(sent, [owner |-> q, k |-> keys[q] - 1]) = 0..(st[q].pn - 1)
        BY <1>1 DEF Numbered
      <3>2. st[q].local # x.dh
        BY <1>1, Places
      <3>3. [owner |-> q, k |-> keys[q] - 1] # x.dh
        BY <1>1
      <3>4. st'[q] = st[q] /\ keys'[q] = keys[q]
        BY DEF q
      <3>. HIDE DEF all
      <3>5. Numbers(all, st'[q].local) = 0..(st'[q].ns - 1)
        BY <1>2, <3>1, <3>2, <3>4
      <3>6. Numbers(all, [owner |-> q, k |-> keys'[q] - 1]) = 0..(st'[q].pn - 1)
        BY <1>2, <3>1, <3>3, <3>4
      <3>. QED
        BY <3>5, <3>6
    <2>. HIDE DEF Counts
    <2>. QED
      BY <1>1, <2>1, <2>2
  <1>11. sent' = all
    OBVIOUS
  <1>. HIDE DEF all
  <1>. QED
    BY <1>7, <1>8, <1>9, <1>10, <1>11 DEF Numbered, all

LEMMA SameTurns ==
  ASSUME Turns, keys' = keys,
         \A p \in Direction :
           /\ st'[p].root = st[p].root /\ st'[p].local = st[p].local /\ st'[p].peer = st[p].peer
           /\ st'[p].sending = st[p].sending /\ st'[p].receiving = st[p].receiving
  PROVE  Turns'
  <1>1. \A p \in Direction : Peer(p) \in Direction
    BY TwoParties
  <1>. QED
    BY <1>1 DEF Turns

\* A receiver has not reached the number that its peer seals next.
LEMMA NextNumber ==
  ASSUME TypeOK, Turns, Numbered, Received, NEW p \in Direction
  PROVE  /\ ~Passed(st[Peer(p)], st[p].local, st[p].ns)
         /\ \A r \in sent : r.dh = st[p].local => r.n # st[p].ns
  <1>. DEFINE q == Peer(p)
  <1>1. q \in Direction /\ Peer(q) = p
    BY TwoParties
  <1>2. /\ keys[p] \in Nat /\ st[q].peer.k \in Nat /\ st[p].local.k = keys[p]
        /\ keys[p] = st[q].peer.k \/ keys[p] = st[q].peer.k + 1
    BY <1>1, Places
  <1>3. st[p].ns \in Nat /\ st[q].nr \in Nat
    BY <1>1 DEF TypeOK, State
  <1>4. Numbers(sent, st[p].local) = 0..(st[p].ns - 1)
    BY DEF Numbered
  <1>5. st[p].ns \notin 0..(st[p].ns - 1)
    BY <1>3
  <1>6. st[q].peer = st[p].local => st[q].nr <= st[p].ns
    <2>1. SUFFICES ASSUME st[q].peer = st[p].local, st[q].nr > 0
                   PROVE  st[q].nr <= st[p].ns
      BY <1>3
    <2>2. st[q].nr - 1 \in Numbers(sent, st[q].peer)
      BY <1>1, <2>1 DEF Received, ReceivedBy
    <2>. QED
      BY <1>3, <1>4, <2>1, <2>2
  <1>7. ~Passed(st[q], st[p].local, st[p].ns)
    BY <1>2, <1>3, <1>6 DEF Passed
  <1>8. \A r \in sent : r.dh = st[p].local => r.n # st[p].ns
    BY <1>4, <1>5, NumbersOf
  <1>. QED
    BY <1>7, <1>8

LEMMA JointSend ==
  ASSUME JInv, NEW p \in Direction, Send(p)
  PROVE  (Turns /\ Numbered /\ Received)'
  <1>1. /\ TypeOK /\ Turns /\ Numbered /\ Received /\ SealedBehind
        /\ \A d \in Direction : ReceivedBy(d, st[d], sent, opened)
    BY DEF JInv, IInv, Received
  <1>. DEFINE q == Peer(p)
              s == st[p]
              t == AfterSend(s)
              x == Sealed(p, s)
  <1>2. q \in Direction /\ Peer(q) = p /\ q # p /\ \A d \in Direction : d = p \/ d = q
    BY TwoParties
  <1>3. /\ s.sending # None /\ s.ns < MaxCounter /\ sent' = sent \cup {x}
        /\ st' = [st EXCEPT ![p] = t] /\ keys' = keys /\ opened' = opened
    BY DEF Send
  <1>4. s \in State /\ s.ns \in Nat
    BY <1>1 DEF TypeOK, State
  <1>5. /\ t.root = s.root /\ t.local = s.local /\ t.peer = s.peer
        /\ t.sending = s.sending /\ t.receiving = s.receiving
        /\ t.pn = s.pn /\ t.ns = s.ns + 1 /\ t.nr = s.nr /\ t.skipped = s.skipped
    BY <1>4 DEF AfterSend, State
  <1>6. x.from = p /\ x.dh = s.local /\ x.pn = s.pn /\ x.n = s.ns /\ x.chain = s.root
    <2>1. s.sending = s.root
      BY <1>1, <1>3 DEF SealedBehind
    <2>. QED
      BY <2>1 DEF Sealed
  <1>7. st'[p] = t /\ st'[q] = st[q]
    BY <1>1, <1>2, <1>3 DEF TypeOK
  <1>. HIDE DEF t, x
  <1>8. Turns'
    <2>1. \A d \in Direction :
            /\ st'[d].root = st[d].root /\ st'[d].local = st[d].local /\ st'[d].peer = st[d].peer
            /\ st'[d].sending = st[d].sending /\ st'[d].receiving = st[d].receiving
      BY <1>2, <1>5, <1>7
    <2>. QED
      BY <1>1, <1>3, <2>1, SameTurns
  <1>9. /\ keys[p] \in Nat /\ Len(s.root) = Reach(p, keys[p])
        /\ s.local = [owner |-> p, k |-> keys[p]]
        /\ p = "Responder" => keys[p] > 0
    <2>1. keys[p] \in Nat /\ Len(s.root) = Reach(p, keys[p])
      BY <1>1, Places
    <2>2. /\ s.local = [owner |-> p, k |-> keys[p]]
          /\ s.sending = None <=> p = "Responder" /\ keys[p] = 0
      BY <1>1 DEF Turns
    <2>. QED
      BY <1>3, <2>1, <2>2
  <1>10. s.local = st[q].peer => s.root = st[q].receiving
    <2>1. SUFFICES ASSUME s.local = st[q].peer
                   PROVE  s.root = st[q].receiving
      OBVIOUS
    <2>2. /\ st[q].receiving = None <=> q = "Initiator" /\ keys[q] = 0
          /\ st[q].receiving # None /\ st[q].peer = st[p].local => st[q].receiving = st[p].root
          /\ st[q].peer = [owner |-> p, k |-> Answers(q, keys[q])]
      BY <1>1, <1>2 DEF Turns
    <2>3. ~(q = "Initiator" /\ keys[q] = 0)
      <3>1. SUFFICES ASSUME q = "Initiator", keys[q] = 0
                     PROVE  FALSE
        OBVIOUS
      <3>2. p = "Responder"
        BY <1>2, <3>1, TwoParties
      <3>3. Answers(q, keys[q]) = 0
        BY <3>1 DEF Answers
      <3>. QED
        BY <1>9, <2>1, <2>2, <3>2, <3>3
    <2>. QED
      BY <2>1, <2>2, <2>3
  <1>11. /\ Numbers(sent, s.local) = 0..(s.ns - 1)
         /\ Numbers(sent, [owner |-> p, k |-> keys[p] - 1]) = 0..(s.pn - 1)
         /\ \A r \in sent : r.dh = s.local => r.chain = s.root /\ r.pn = s.pn
    <2>1. /\ Numbers(sent, s.local) = 0..(s.ns - 1)
          /\ Numbers(sent, [owner |-> p, k |-> keys[p] - 1]) = 0..(s.pn - 1)
      BY <1>1 DEF Numbered
    <2>2. ASSUME NEW r \in sent, r.dh = s.local
          PROVE  r.chain = s.root /\ r.pn = s.pn
      <3>1. r.from = p /\ r.dh.k = keys[p]
        <4>1. r.dh.owner = r.from
          BY <1>1, RecordPlace
        <4>. QED
          BY <1>9, <2>2, <4>1
      <3>. QED
        BY <1>1, <3>1, RecordPlace
    <2>. QED
      BY <2>1, <2>2
  <1>12. Numbered'
    BY <1>1, <1>3, <1>4, <1>5, <1>6, <1>7, <1>9, <1>10, <1>11, SealNumbered
  <1>13. Received'
    <2>1. /\ ~Passed(st[q], x.dh, x.n)
          /\ \A r \in sent : r.dh = x.dh => r.n # x.n
      BY <1>1, <1>6, NextNumber
    <2>2. opened \subseteq sent
      BY <1>1 DEF TypeOK
    <2>3. ReceivedBy(p, t, sent \cup {x}, opened)
      BY <1>1, <1>2, <1>5, <1>6, <2>1, <2>2, ReceivedMore
    <2>4. ReceivedBy(q, st[q], sent \cup {x}, opened)
      BY <1>1, <1>2, <1>6, <2>1, <2>2, ReceivedMore
    <2>5. \A d \in Direction : ReceivedBy(d, st'[d], sent', opened')
      BY <1>2, <1>3, <1>7, <2>3, <2>4
    <2>. QED
      BY <2>5 DEF Received
  <1>. QED
    BY <1>8, <1>12, <1>13

\* Before its first record the responder has sealed nothing, and neither party
\* has left the handshake.
LEMMA BeforeFirst ==
  ASSUME TypeOK, Turns, Numbered, st["Responder"].sending = None
  PROVE  LET p == "Responder"  q == "Initiator" IN
         /\ keys[p] = 0 /\ keys[q] = 0
         /\ st[p].root = st[q].root /\ Len(st[p].root) = 0
         /\ st[p].local = [owner |-> p, k |-> 0] /\ st[q].local = [owner |-> q, k |-> 0]
         /\ st[p].peer = st[q].local /\ st[q].peer = st[p].local
         /\ st[q].receiving = None
         /\ st[p].ns = 0 /\ st[p].pn = 0
         /\ \A r \in sent : r.from # p
  <1>. DEFINE p == "Responder"
              q == "Initiator"
  <1>1. p \in Direction /\ q \in Direction /\ Peer(p) = q /\ Peer(q) = p
    BY TwoParties DEF Direction
  <1>2. keys[p] = 0
    BY <1>1 DEF Turns
  <1>3. /\ keys[q] \in Nat
        /\ keys[p] = st[q].peer.k \/ keys[p] = st[q].peer.k + 1
        /\ st[q].peer.k \in Nat
    BY <1>1, Places
  <1>4. keys[q] = 0
    <2>1. st[q].peer = [owner |-> p, k |-> Answers(q, keys[q])]
      BY <1>1 DEF Turns
    <2>2. Answers(q, keys[q]) = keys[q]
      BY DEF Answers
    <2>. QED
      BY <1>2, <1>3, <2>1, <2>2
  <1>5. /\ Len(st[p].root) = 0 /\ Len(st[q].root) = 0
        /\ st[p].local = [owner |-> p, k |-> 0] /\ st[q].local = [owner |-> q, k |-> 0]
        /\ st[p].peer = [owner |-> q, k |-> 0] /\ st[q].peer = [owner |-> p, k |-> 0]
        /\ st[q].receiving = None
    BY <1>1, <1>2, <1>4 DEF Turns, Reach, Answers
  <1>6. st[p].root = st[q].root
    <2>1. st[p].root \in Seq(Step) /\ st[q].root \in Seq(Step)
      BY <1>1 DEF TypeOK, State
    <2>. QED
      BY <1>5, <2>1
  <1>7. ASSUME NEW r \in sent, r.from = p
        PROVE  FALSE
    <2>1. r.dh.k \in Nat /\ r.dh.k <= keys[r.from] /\ (r.from = "Responder" => r.dh.k > 0)
      BY RecordPlace
    <2>. QED
      BY <1>2, <1>7, <2>1
  <1>8. \A k : Numbers(sent, [owner |-> p, k |-> k]) = {}
    <2>1. \A r \in sent : r.dh.owner = r.from
      BY RecordPlace
    <2>. QED
      BY <1>7, <2>1 DEF Numbers
  <1>9. st[p].ns \in Nat /\ st[p].pn \in Nat
    BY <1>1 DEF TypeOK, State
  <1>10. /\ Numbers(sent, st[p].local) = 0..(st[p].ns - 1)
         /\ Numbers(sent, [owner |-> p, k |-> keys[p] - 1]) = 0..(st[p].pn - 1)
    BY <1>1 DEF Numbered
  <1>11. 0..(st[p].ns - 1) = {} /\ 0..(st[p].pn - 1) = {}
    BY <1>5, <1>8, <1>10
  <1>12. st[p].ns = 0 /\ st[p].pn = 0
    BY <1>9, <1>11
  <1>. QED
    BY <1>2, <1>4, <1>5, <1>6, <1>7, <1>12

LEMMA JointSendFirst ==
  ASSUME JInv, IInv', NEW p \in Direction, SendFirst(p)
  PROVE  (Turns /\ Numbered /\ Received)'
  <1>1. /\ TypeOK /\ TypeOK' /\ Turns /\ Numbered /\ Received
        /\ \A d \in Direction : ReceivedBy(d, st[d], sent, opened)
    BY DEF JInv, IInv, Received
  <1>. DEFINE q == Peer(p)
              s == st[p]
              b == Bootstrap(s, Fresh(p))
              t == AfterSend(b)
              x == Sealed(p, b)
  <1>2. p = "Responder" /\ q = "Initiator" /\ s.sending = None
    BY TwoParties DEF SendFirst
  <1>3. q \in Direction /\ Peer(q) = p /\ q # p /\ \A d \in Direction : d = p \/ d = q
    BY TwoParties
  <1>4. /\ s.ns < MaxCounter /\ keys[p] < MaxKeys /\ sent' = sent \cup {x}
        /\ st' = [st EXCEPT ![p] = t] /\ keys' = [keys EXCEPT ![p] = @ + 1] /\ opened' = opened
    BY DEF SendFirst
  <1>5. /\ keys[p] = 0 /\ keys[q] = 0
        /\ s.root = st[q].root /\ Len(s.root) = 0
        /\ s.local = [owner |-> p, k |-> 0] /\ st[q].local = [owner |-> q, k |-> 0]
        /\ s.peer = st[q].local /\ st[q].peer = s.local
        /\ st[q].receiving = None /\ s.ns = 0 /\ s.pn = 0
        /\ \A r \in sent : r.from # p
    BY <1>1, <1>2, BeforeFirst
  <1>6. Fresh(p) = [owner |-> p, k |-> 1] /\ Fresh(p) \in Key
    BY <1>1, <1>4, <1>5, FreshType DEF Fresh
  <1>7. s \in State /\ s.root \in Seq(Step) /\ s.peer \in Key
    BY <1>1 DEF TypeOK, State
  <1>. DEFINE root == DhStep(s.root, Fresh(p), s.peer, p)
  <1>8. root \in Seq(Step) /\ Len(root) = 1
    <2>1. root \in Seq(Step) /\ Len(root) = Len(s.root) + 1
      BY <1>6, <1>7, DhStepType
    <2>. QED
      BY <1>5, <2>1
  <1>9. /\ b.root = root /\ b.local = Fresh(p) /\ b.sending = root
        /\ b.peer = s.peer /\ b.receiving = s.receiving
        /\ b.pn = 0 /\ b.ns = 0 /\ b.nr = s.nr /\ b.skipped = s.skipped
    BY <1>2, <1>5, <1>7 DEF Bootstrap, State
  <1>10. /\ t.root = root /\ t.local = Fresh(p) /\ t.sending = root
         /\ t.peer = s.peer /\ t.receiving = s.receiving
         /\ t.pn = 0 /\ t.ns = 1 /\ t.nr = s.nr /\ t.skipped = s.skipped
    <2>1. b \in State
      <3>1. Bounded(s)
        BY DEF JInv, IInv, SkippedBounded, Bounded
      <3>. QED
        BY <1>6, <1>7, <3>1, BootstrapReturns
    <2>. HIDE DEF b, root
    <2>. QED
      BY <1>9, <2>1 DEF AfterSend, State
  <1>11. x.from = p /\ x.dh = Fresh(p) /\ x.pn = 0 /\ x.n = 0 /\ x.chain = root
    BY <1>9 DEF Sealed
  <1>12. /\ st'[p] = t /\ st'[q] = st[q] /\ keys'[p] = 1 /\ keys'[q] = 0
    BY <1>1, <1>3, <1>4, <1>5 DEF TypeOK
  <1>. HIDE DEF t, x, b, root
  <1>13. Turns'
    <2>1. /\ s.receiving = None <=> p = "Initiator" /\ keys[p] = 0
          /\ s.receiving # None => Len(s.receiving) = Reach(q, s.peer.k)
          /\ s.receiving # None /\ s.peer = st[q].local => s.receiving = st[q].root
          /\ st[q].sending = None <=> q = "Responder" /\ keys[q] = 0
          /\ st[q].receiving = None <=> q = "Initiator" /\ keys[q] = 0
          /\ Len(st[q].root) = Reach(q, keys[q])
      BY <1>1, <1>3 DEF Turns
    <2>. DEFINE Turn(d, e, u, w, k, m) ==
                  /\ u.local = [owner |-> d, k |-> k]
                  /\ u.peer = [owner |-> e, k |-> Answers(d, k)]
                  /\ m \in {u.peer.k, u.peer.k + 1}
                  /\ Len(u.root) = Reach(d, k)
                  /\ u.sending = None <=> d = "Responder" /\ k = 0
                  /\ u.receiving = None <=> d = "Initiator" /\ k = 0
                  /\ u.receiving # None => Len(u.receiving) = Reach(e, u.peer.k)
                  /\ u.receiving # None /\ u.peer = w.local => u.receiving = w.root
                  /\ u.peer # w.local => w.root = DhStep(u.root, w.local, u.local, e)
    <2>2. Reach("Responder", 1) = 1 /\ Answers("Responder", 1) = 0 /\ Answers("Initiator", 0) = 0
      BY DEF Reach, Answers
    <2>3. root # None
      BY <1>8, NoneAssumption
    <2>4. Turn(p, q, t, st[q], 1, 0)
      BY <1>2, <1>5, <1>6, <1>8, <1>10, <2>1, <2>2, <2>3
    <2>5. Turn(q, p, st[q], t, 0, 1)
      BY <1>2, <1>5, <1>6, <1>10, <2>1, <2>2 DEF root
    <2>. HIDE DEF Turn
    <2>6. \A d \in Direction : Turn(d, Peer(d), st'[d], st'[Peer(d)], keys'[d], keys'[Peer(d)])
      BY <1>3, <1>12, <2>4, <2>5
    <2>. QED
      BY <2>6 DEF Turns, Turn
  <1>14. Numbered'
    <2>1. Numbers(sent, x.dh) = 0..(x.n - 1)
      BY <1>1, <1>11, FreshUnused
    <2>2. \A r \in sent : r.dh # x.dh
      BY <1>1, <1>11, FreshUnused
    <2>3. Numbers(sent, [owner |-> p, k |-> keys'[p] - 1]) = 0..(x.pn - 1)
      <3>1. keys'[p] - 1 = keys[p]
        BY <1>5, <1>12
      <3>2. Numbers(sent, s.local) = 0..(s.ns - 1)
        BY <1>1 DEF Numbered
      <3>. QED
        BY <1>5, <1>11, <3>1, <3>2
    <2>4. x.dh # st[q].peer
      BY <1>5, <1>6, <1>11
    <2>5. /\ x.from = p /\ x.dh = [owner |-> p, k |-> keys'[p]] /\ x.n \in Nat /\ x.n < MaxCounter
          /\ x.chain = st'[p].root /\ x.pn = st'[p].pn /\ st'[p].local = x.dh
          /\ st'[p].peer = st[p].peer /\ st'[p].receiving = st[p].receiving
          /\ st'[p].ns = x.n + 1
          /\ keys'[p] \in Nat /\ keys[p] <= keys'[p] /\ keys'[p] > 0 /\ keys'[q] = keys[q]
      BY <1>4, <1>5, <1>6, <1>10, <1>11, <1>12
    <2>6. Len(x.chain) = Reach(p, keys'[p])
      BY <1>2, <1>8, <1>11, <1>12 DEF Reach
    <2>. QED
      BY <1>1, <1>4, <1>12, <2>1, <2>2, <2>3, <2>4, <2>5, <2>6, SealNumbered
  <1>15. Received'
    <2>1. ~Passed(st[q], x.dh, x.n) /\ \A r \in sent : r.dh # x.dh
      <3>1. ~Passed(st[q], x.dh, x.n)
        BY <1>5, <1>6, <1>11 DEF Passed
      <3>. QED
        BY <1>1, <1>11, <3>1, FreshUnused
    <2>2. opened \subseteq sent
      BY <1>1 DEF TypeOK
    <2>3. ReceivedBy(p, t, sent \cup {x}, opened)
      BY <1>1, <1>3, <1>10, <1>11, <2>1, <2>2, ReceivedMore
    <2>4. ReceivedBy(q, st[q], sent \cup {x}, opened)
      BY <1>1, <1>3, <1>11, <2>1, <2>2, ReceivedMore
    <2>5. \A d \in Direction : ReceivedBy(d, st'[d], sent', opened')
      BY <1>3, <1>4, <1>12, <2>3, <2>4
    <2>. QED
      BY <2>5 DEF Received
  <1>. QED
    BY <1>13, <1>14, <1>15

-----------------------------------------------------------------------------
(* The joint invariant                                                     *)

LEMMA NewStateIs ==
  ASSUME NEW p, NEW s, s = NewState(p)
  PROVE  s.pn = 0 /\ s.ns = 0 /\ s.nr = 0 /\ s.skipped = {}
  BY DEF NewState

LEMMA JointInit == Init => JInv
  <1>. SUFFICES ASSUME Init
                PROVE  JInv
    OBVIOUS
  <1>1. sent = {} /\ opened = {} /\ \A p \in Direction : st[p] = NewState(p) /\ keys[p] = 0
    BY DEF Init
  <1>2. Origin # None /\ Len(Origin) = 0
    <2>1. Origin \in Seq(Step) /\ Len(Origin) = 0
      BY DEF Origin
    <2>. QED
      BY <2>1, NoneAssumption
  <1>3. \A p \in Direction : Reach(p, 0) = 0 /\ Answers(p, 0) = 0
    BY DEF Reach, Answers
  <1>4. Turns
    <2>1. ASSUME NEW p \in Direction
          PROVE  LET q == Peer(p)  s == NewState(p)  u == NewState(q) IN
                 /\ s.local = [owner |-> p, k |-> 0]
                 /\ s.peer = [owner |-> q, k |-> Answers(p, 0)]
                 /\ 0 \in {s.peer.k, s.peer.k + 1}
                 /\ Len(s.root) = Reach(p, 0)
                 /\ s.sending = None <=> p = "Responder" /\ 0 = 0
                 /\ s.receiving = None <=> p = "Initiator" /\ 0 = 0
                 /\ s.receiving # None => Len(s.receiving) = Reach(q, s.peer.k)
                 /\ s.receiving # None /\ s.peer = u.local => s.receiving = u.root
                 /\ s.peer = u.local
      <3>1. Peer(p) \in Direction
        BY TwoParties
      <3>2. p = "Initiator" \/ p = "Responder"
        BY DEF Direction
      <3>. QED
        BY <1>2, <1>3, <3>1, <3>2 DEF NewState
    <2>2. \A p \in Direction : Peer(p) \in Direction
      BY TwoParties
    <2>. HIDE <1>2, <1>3
    <2>. QED
      BY <1>1, <2>1, <2>2 DEF Turns
  <1>5. Numbered
    <2>1. \A dh : Numbers(sent, dh) = {}
      BY <1>1 DEF Numbers
    <2>2. ASSUME NEW p \in Direction
          PROVE  st[p].ns = 0 /\ st[p].pn = 0
      BY <1>1, NewStateIs
    <2>3. 0..(0 - 1) = {}
      OBVIOUS
    <2>. QED
      BY <1>1, <2>1, <2>2, <2>3 DEF Numbered
  <1>6. Received
    <2>1. ASSUME NEW p \in Direction
          PROVE  st[p].nr = 0 /\ st[p].skipped = {}
      BY <1>1, NewStateIs
    <2>. QED
      BY <1>1, <2>1 DEF Received, ReceivedBy
  <1>. QED
    BY <1>4, <1>5, <1>6, InitInvariant DEF JInv

LEMMA JointNext == JInv /\ [Next]_vars => JInv'
  <1>. SUFFICES ASSUME JInv, [Next]_vars
                PROVE  JInv'
    OBVIOUS
  <1>1. IInv'
    BY NextInvariant DEF JInv
  <1>2. CASE UNCHANGED vars
    BY <1>1, <1>2 DEF vars, JInv, Turns, Numbered, Received
  <1>3. CASE Next
    BY <1>1, <1>3, JointSend, JointSendFirst, JointReceiveSkipped, JointReceiveOnChain,
       JointReceiveTransition DEF Next, JInv
  <1>. QED
    BY <1>2, <1>3

\* JInv holds in every reachable state.
THEOREM JointInvariance == Spec => []JInv
  BY JointInit, JointNext, PTL DEF Spec

-----------------------------------------------------------------------------
(* What opens                                                              *)

\* What a party can open was sealed by its peer, and was not opened yet.
LEMMA OpensOnlyNew ==
  ASSUME JInv, NEW p \in Direction, NEW record \in sent, CanOpen(p, record)
  PROVE  record.from = Peer(p) /\ record \notin opened
  <1>1. /\ TypeOK /\ IInv /\ Turns /\ Numbered /\ Received
        /\ ReceivedBy(p, st[p], sent, opened)
    BY DEF JInv, IInv, Received
  <1>2. st[p] \in State /\ st[p].nr \in Nat
    BY <1>1 DEF TypeOK, State
  <1>3. record.n \in Nat /\ record.dh.owner = record.from
    BY <1>1, RecordPlace
  <1>4. st[p].peer.owner = Peer(p) /\ st[p].peer.k \in Nat
    BY <1>1, Places
  <1>5. CASE FromSkipped(st[p], record)
    <2>1. PICK k \in Kept(st[p], record) : TRUE
      BY <1>5 DEF FromSkipped
    <2>. QED
      BY <1>1, <2>1, KeptKey
  <1>6. CASE OnChain(st[p], record)
    <2>1. record.dh = st[p].peer /\ st[p].nr <= record.n
      BY <1>2, <1>3, <1>6 DEF OnChain, Advances
    <2>2. ~Passed(st[p], record.dh, record.n)
      BY <1>2, <1>3, <1>4, <2>1 DEF Passed
    <2>3. record.from = Peer(p)
      BY <1>3, <1>4, <2>1
    <2>. QED
      BY <1>1, <2>2, <2>3 DEF ReceivedBy
  <1>7. CASE OnNewChain(p, st[p], record)
    <2>1. record.from = Peer(p) /\ record.dh.k = st[p].peer.k + 1
      BY <1>1, <1>7, NextChain
    <2>2. ~Passed(st[p], record.dh, record.n)
      BY <1>4, <2>1 DEF Passed
    <2>. QED
      BY <1>1, <2>1, <2>2 DEF ReceivedBy
  <1>. QED
    BY <1>5, <1>6, <1>7 DEF CanOpen

\* A record opens once, and only for the party it is meant for, however it is
\* repeated or reflected (RatchetState::receive).
THEOREM RecordsOpenOnce == Spec => []OpensOnce
  <1>1. JInv => OpensOnce
    <2>. SUFFICES ASSUME JInv, NEW p \in Direction, NEW record \in sent,
                         record \in opened \/ record.from = p, CanOpen(p, record)
                  PROVE  FALSE
      BY DEF OpensOnce
    <2>1. record.from = Peer(p) /\ record \notin opened
      BY OpensOnlyNew
    <2>2. Peer(p) # p
      BY TwoParties
    <2>. QED
      BY <2>1, <2>2
  <1>. QED
    BY <1>1, JointInvariance, PTL

\* The kept keys stay within MAX_SKIPPED_KEYS, and each waits for a record that
\* its peer has sealed and that was not opened (RatchetState::receive, skip_keys).
THEOREM KeptKeysAwaitRecords == Spec => []SkippedOutstanding
  <1>1. JInv => SkippedOutstanding
    BY DEF JInv, IInv, SkippedBounded, Received, ReceivedBy, SkippedOutstanding, KeyOf
  <1>. QED
    BY <1>1, JointInvariance, PTL

LEMMA OneStepAhead ==
  ASSUME TypeOK, NEW p \in Direction, NEW q \in Direction,
         st[q].root = DhStep(st[p].root, st[q].local, st[p].local, q)
  PROVE  IsPrefix(st[p].root, st[q].root) /\ Len(st[q].root) = Len(st[p].root) + 1
  <1>1. st[p].root \in Seq(Step) /\ st[q].local \in Key /\ st[p].local \in Key
    BY DEF TypeOK, State
  <1>. QED
    BY <1>1, DhStepType

\* The two roots never fork: the party behind will take the step that the other
\* took (receive_dh_transition, bootstrap_responder).
THEOREM RootsNeverFork == Spec => []RootsAgree
  <1>1. JInv => RootsAgree
    <2>. SUFFICES ASSUME JInv
                  PROVE  RootsAgree
      OBVIOUS
    <2>. DEFINE i == "Initiator"
                r == "Responder"
    <2>1. TypeOK /\ Turns
      BY DEF JInv, IInv
    <2>2. i \in Direction /\ r \in Direction /\ Peer(i) = r /\ Peer(r) = i
      BY TwoParties DEF Direction
    <2>3. /\ st[i].root \in Seq(Step) /\ st[r].root \in Seq(Step)
          /\ st[i].local \in Key /\ st[r].local \in Key
      BY <2>1, <2>2 DEF TypeOK, State
    <2>4. /\ keys[r] = st[i].peer.k \/ keys[r] = st[i].peer.k + 1
          /\ keys[i] \in Nat /\ keys[r] \in Nat
          /\ Len(st[i].root) = Reach(i, keys[i])
          /\ Len(st[r].root) = Reach(r, keys[r])
          /\ keys[r] = st[i].peer.k + 1 => st[r].root = DhStep(st[i].root, st[r].local, st[i].local, r)
          /\ keys[i] = st[r].peer.k + 1 => st[i].root = DhStep(st[r].root, st[i].local, st[r].local, i)
      BY <2>1, <2>2, Places
    <2>5. st[i].peer.k = keys[i] /\ st[r].peer.k = IF keys[r] = 0 THEN 0 ELSE keys[r] - 1
      <3>1. \A p \in Direction : st[p].peer = [owner |-> Peer(p), k |-> Answers(p, keys[p])]
        BY <2>1 DEF Turns
      <3>2. st[i].peer.k = Answers(i, keys[i]) /\ st[r].peer.k = Answers(r, keys[r])
        <4>1. /\ st[i].peer = [owner |-> r, k |-> Answers(i, keys[i])]
              /\ st[r].peer = [owner |-> i, k |-> Answers(r, keys[r])]
          BY <2>2, <3>1
        <4>. QED
          BY <4>1
      <3>. QED
        BY <3>2 DEF Answers
    <2>6. CASE keys[r] = keys[i] + 1
      <3>1. st[r].root = DhStep(st[i].root, st[r].local, st[i].local, r)
        BY <2>4, <2>5, <2>6
      <3>2. IsPrefix(st[i].root, st[r].root) /\ Len(st[r].root) = Len(st[i].root) + 1
        BY <2>1, <2>2, <3>1, OneStepAhead
      <3>. QED
        BY <2>3, <3>2 DEF RootsAgree
    <2>7. CASE keys[r] = keys[i] /\ keys[r] # 0
      <3>1. st[i].root = DhStep(st[r].root, st[i].local, st[r].local, i)
        BY <2>4, <2>5, <2>7
      <3>2. IsPrefix(st[r].root, st[i].root) /\ Len(st[i].root) = Len(st[r].root) + 1
        BY <2>1, <2>2, <3>1, OneStepAhead
      <3>. QED
        BY <2>3, <3>2 DEF RootsAgree
    <2>8. CASE keys[r] = 0 /\ keys[i] = 0
      <3>1. Len(st[i].root) = 0 /\ Len(st[r].root) = 0
        BY <2>4, <2>8 DEF Reach
      <3>2. st[i].root = st[r].root
        BY <2>3, <3>1
      <3>3. IsPrefix(st[i].root, st[r].root)
        BY <2>3, <3>2, PrefixReflexive
      <3>. QED
        BY <3>1, <3>3 DEF RootsAgree
    <2>. QED
      BY <2>4, <2>5, <2>6, <2>7, <2>8
  <1>. QED
    BY <1>1, JointInvariance, PTL

\* The chain a party receives on is its peer's, never one it could seal under.
LEMMA ReceivingIsPeers ==
  ASSUME TypeOK, Turns, Numbered, NEW p \in Direction, NEW record \in sent,
         st[p].receiving = record.chain
  PROVE  record.from = Peer(p) /\ record.dh = st[p].peer
  <1>. DEFINE q == Peer(p)
  <1>1. q \in Direction /\ Peer(q) = p
    BY TwoParties
  <1>2. /\ record.from \in Direction /\ record.dh.k \in Nat /\ record.chain \in Seq(Step)
        /\ record.from = "Responder" => record.dh.k > 0
        /\ record.dh.k <= keys[record.from]
        /\ Len(record.chain) = Reach(record.from, record.dh.k)
        /\ record.dh = [owner |-> record.from, k |-> record.dh.k]
    BY RecordPlace
  <1>3. record.chain # None
    BY <1>2, NoneAssumption
  <1>4. /\ ~(p = "Initiator" /\ keys[p] = 0)
        /\ Len(st[p].receiving) = Reach(q, st[p].peer.k)
        /\ st[p].peer = [owner |-> q, k |-> Answers(p, keys[p])]
    <2>1. /\ st[p].receiving = None <=> p = "Initiator" /\ keys[p] = 0
          /\ st[p].receiving # None => Len(st[p].receiving) = Reach(q, st[p].peer.k)
          /\ st[p].peer = [owner |-> q, k |-> Answers(p, keys[p])]
      BY DEF Turns
    <2>. QED
      BY <1>3, <2>1
  <1>5. keys[p] \in Nat /\ st[p].peer.k \in Nat /\ st[p].peer.k = Answers(p, keys[p])
    <2>1. st[p].peer.k = Answers(p, keys[p])
      BY <1>4
    <2>. QED
      BY <2>1, Places
  <1>6. q = "Responder" => st[p].peer.k > 0
    <2>1. q = "Responder" => p = "Initiator"
      BY <1>1, TwoParties
    <2>2. p = "Initiator" => st[p].peer.k = keys[p]
      BY <1>5 DEF Answers
    <2>. QED
      BY <1>4, <1>5, <2>1, <2>2
  <1>7. Reach(q, st[p].peer.k) = Reach(record.from, record.dh.k)
    BY <1>2, <1>4
  <1>8. record.from = q /\ record.dh.k = st[p].peer.k
    BY <1>1, <1>2, <1>5, <1>6, <1>7, OneReach
  <1>9. st[p].peer = [owner |-> q, k |-> st[p].peer.k]
    BY <1>4, <1>5
  <1>. QED
    BY <1>2, <1>8, <1>9

\* A chain that a party's root has passed or reached is no continuation of it.
LEMMA NoLongerReached ==
  ASSUME NEW root \in Seq(Step), NEW chain \in Seq(Step), Len(chain) <= Len(root)
  PROVE  ~IsStrictPrefix(root, chain)
  <1>1. SUFFICES ASSUME IsPrefix(root, chain), root # chain
                 PROVE  FALSE
    BY DEF IsStrictPrefix
  <1>2. Len(root) <= Len(chain) /\ \A i \in 1..Len(root) : root[i] = chain[i]
    BY <1>1, PrefixPointwise
  <1>3. Len(root) = Len(chain)
    BY <1>2
  <1>. QED
    BY <1>1, <1>2, <1>3, SeqEqual

\* Neither the sender nor a receiver that has opened a record holds anything that
\* its key can be derived from (RatchetState::send and receive, skip_keys).
THEOREM SealedKeysAreGone == Spec => []ForwardSecrecy
  <1>1. ASSUME JInv, NEW record \in sent
        PROVE  ~Derives(st[record.from], record)
    <2>. DEFINE p == record.from
    <2>1. TypeOK /\ Turns /\ Numbered /\ Received /\ SealedBehind
      BY <1>1 DEF JInv, IInv
    <2>2. /\ p \in Direction /\ Peer(p) \in Direction /\ Peer(Peer(p)) = p /\ Peer(p) # p
          /\ record.chain \in Seq(Step) /\ record.n \in Nat
      BY <2>1, RecordPlace, TwoParties
    <2>3. /\ st[p].root \in Seq(Step) /\ st[p].ns \in Nat
      BY <2>1, <2>2 DEF TypeOK, State
    <2>4. /\ Len(record.chain) <= Len(st[p].root)
          /\ Len(record.chain) = Len(st[p].root) => record.n < st[p].ns
          /\ st[p].sending # None => st[p].sending = st[p].root
      BY <2>1, <2>2 DEF SealedBehind
    <2>5. ASSUME NEW k \in st[p].skipped, k.chain = record.chain
          PROVE  FALSE
      <3>1. PICK r \in sent : r.from = Peer(p) /\ KeyOf(r) = k
        BY <2>1, <2>2 DEF Received, ReceivedBy
      <3>2. r.chain = record.chain
        BY <2>5, <3>1 DEF KeyOf
      <3>3. r.from = record.from
        BY <2>1, <3>2, OneKey
      <3>. QED
        BY <2>2, <3>1, <3>3
    <2>6. ~(st[p].sending = record.chain /\ st[p].ns <= record.n)
      <3>1. SUFFICES ASSUME st[p].sending = record.chain, st[p].ns <= record.n
                     PROVE  FALSE
        OBVIOUS
      <3>2. st[p].sending # None
        BY <2>2, <3>1, NoneAssumption
      <3>. QED
        BY <2>2, <2>3, <2>4, <3>1, <3>2
    <2>7. st[p].receiving # record.chain
      <3>1. st[p].receiving = record.chain => record.from = Peer(p)
        BY <2>1, <2>2, ReceivingIsPeers
      <3>. QED
        BY <2>2, <3>1
    <2>8. ~IsStrictPrefix(st[p].root, record.chain)
      BY <2>2, <2>3, <2>4, NoLongerReached
    <2>. QED
      BY <2>5, <2>6, <2>7, <2>8 DEF Derives
  <1>2. ASSUME JInv, NEW record \in sent, record \in opened
        PROVE  ~Derives(st[Peer(record.from)], record)
    <2>. DEFINE q == record.from
                p == Peer(q)
    <2>1. TypeOK /\ Turns /\ Numbered /\ Received /\ SealedBehind
      BY <1>2 DEF JInv, IInv
    <2>2. /\ q \in Direction /\ p \in Direction /\ Peer(p) = q /\ p # q
          /\ record.chain \in Seq(Step) /\ record.n \in Nat /\ record.dh.k \in Nat
          /\ Len(record.chain) = Reach(q, record.dh.k)
      BY <2>1, RecordPlace, TwoParties
    <2>. HIDE DEF q, p
    <2>3. /\ st[p].root \in Seq(Step) /\ st[p].nr \in Nat
      BY <2>1, <2>2 DEF TypeOK, State
    <2>4. ReceivedBy(p, st[p], sent, opened)
      BY <2>1, <2>2 DEF Received
    <2>5. Passed(st[p], record.dh, record.n)
      BY <1>2, <2>2, <2>4 DEF ReceivedBy, q
    <2>6. ASSUME NEW k \in st[p].skipped, k.chain = record.chain, k.n = record.n
          PROVE  FALSE
      <3>1. PICK r \in sent \ opened : r.from = Peer(p) /\ KeyOf(r) = k
        BY <2>4 DEF ReceivedBy
      <3>2. r.chain = record.chain /\ r.n = record.n
        BY <2>6, <3>1 DEF KeyOf
      <3>3. r.dh = record.dh
        BY <2>1, <3>2, OneKey
      <3>4. r = record
        BY <2>1, <3>2, <3>3, OneRecord
      <3>. QED
        BY <1>2, <3>1, <3>4
    <2>7. ~(st[p].sending = record.chain)
      <3>1. SUFFICES ASSUME st[p].sending = record.chain
                     PROVE  FALSE
        OBVIOUS
      <3>2. st[p].sending # None
        BY <2>2, <3>1, NoneAssumption
      <3>3. record.chain = st[p].root /\ OwnChain(p, record.chain)
        BY <2>1, <2>2, <3>1, <3>2 DEF SealedBehind
      <3>4. OwnChain(q, record.chain)
        BY <2>1 DEF SealedBehind, q
      <3>5. p = "Initiator" <=> q # "Initiator"
        BY <2>2, TwoParties DEF Direction
      <3>. QED
        BY <2>2, <3>3, <3>4, <3>5 DEF OwnChain
    <2>8. ~(st[p].receiving = record.chain /\ st[p].nr <= record.n)
      <3>1. SUFFICES ASSUME st[p].receiving = record.chain, st[p].nr <= record.n
                     PROVE  FALSE
        OBVIOUS
      <3>2. record.dh = st[p].peer
        BY <2>1, <2>2, <3>1, ReceivingIsPeers
      <3>. QED
        BY <2>2, <2>3, <2>5, <3>1, <3>2 DEF Passed
    <2>9. ~IsStrictPrefix(st[p].root, record.chain)
      <3>1. /\ st[p].peer.k \in Nat /\ keys[p] \in Nat
            /\ Len(st[p].root) = Reach(p, keys[p])
            /\ Reach(q, st[p].peer.k) <= Reach(p, keys[p])
        BY <2>1, <2>2, Places
      <3>2. record.dh.k <= st[p].peer.k
        BY <2>2, <2>5, <3>1 DEF Passed
      <3>3. \A j, k \in Nat : j <= k => Reach(q, j) <= Reach(q, k)
        BY <2>2 DEF Direction, Reach
      <3>4. Reach(q, record.dh.k) <= Reach(q, st[p].peer.k)
        BY <2>2, <3>1, <3>2, <3>3
      <3>5. /\ Reach(q, record.dh.k) \in Nat /\ Reach(q, st[p].peer.k) \in Nat
            /\ Reach(p, keys[p]) \in Nat
        BY <2>2, <3>1, ReachOf
      <3>6. Len(record.chain) <= Len(st[p].root)
        BY <2>2, <3>1, <3>4, <3>5
      <3>. QED
        BY <2>2, <2>3, <3>6, NoLongerReached
    <2>10. ~Derives(st[p], record)
      BY <2>6, <2>7, <2>8, <2>9 DEF Derives
    <2>. QED
      BY <2>10 DEF p, q
  <1>3. JInv => ForwardSecrecy
    BY <1>1, <1>2 DEF ForwardSecrecy
  <1>. QED
    BY <1>3, JointInvariance, PTL

\* A record that was not opened: whether its key is kept, or its number is one of
\* the chain its receiver is on or of the one after that.
LEMMA Outstanding ==
  ASSUME JInv, NEW record \in sent, record \notin opened,
         NEW p, p = Peer(record.from), ~FromSkipped(st[p], record)
  PROVE  LET s == st[p]
             t == Transition(p, s, record, Fresh(p)) IN
         /\ p \in Direction /\ record.from = Peer(p) /\ Kept(s, record) = {}
         /\ \/ /\ record.dh = s.peer /\ s.nr <= record.n
               /\ WithinSkip(s, s.nr, record.n) => OnChain(s, record)
            \/ /\ record.dh # s.peer /\ record.dh.k = s.peer.k + 1 /\ s.nr <= record.pn
               /\ Numbers(sent, s.peer) = 0..(record.pn - 1)
               /\ WithinSkip(s, s.nr, record.pn) => Transitions(s, record)
               /\ WithinSkip(s, s.nr, record.pn) /\ WithinSkip(t, 0, record.n) =>
                    OnNewChain(p, s, record)
  <1>. DEFINE s == st[p]
              q == record.from
              t == Transition(p, s, record, Fresh(p))
  <1>1. TypeOK /\ IInv /\ Turns /\ Numbered /\ Received
    BY DEF JInv, IInv
  <1>2. /\ q \in Direction /\ p \in Direction /\ Peer(p) = q /\ Peer(q) = p
        /\ record.chain \in Seq(Step) /\ record.n \in Nat /\ record.n < MaxCounter
        /\ record.pn \in Nat /\ record.dh.k \in Nat /\ record.dh.k <= keys[q]
        /\ record.dh = [owner |-> q, k |-> record.dh.k]
        /\ record.dh.k <= s.peer.k + 1
        /\ record.dh.k = s.peer.k => record.dh = s.peer /\ record.chain = s.receiving
    BY <1>1, RecordPlace, TwoParties
  <1>3. ReceivedBy(p, s, sent, opened)
    BY <1>1, <1>2 DEF Received
  <1>4. s \in State /\ s.nr \in Nat
    BY <1>1, <1>2 DEF TypeOK, State
  <1>. HIDE DEF s, q
  <1>5. Kept(s, record) = {} /\ KeyOf(record) \notin s.skipped
    <2>1. Kept(s, record) = IF KeyOf(record) \in s.skipped THEN {KeyOf(record)} ELSE {}
      BY <1>1, <1>2, KeptIs DEF s
    <2>2. KeyOf(record).chain = record.chain
      BY DEF KeyOf
    <2>. QED
      BY <2>1, <2>2 DEF FromSkipped, s
  <1>6. ~Passed(s, record.dh, record.n)
    BY <1>2, <1>3, <1>5 DEF ReceivedBy, q
  <1>7. /\ s.peer = [owner |-> q, k |-> s.peer.k] /\ s.peer.k \in Nat
    <2>1. s.peer.owner = q /\ s.peer.k \in Nat
      BY <1>1, <1>2, Places DEF s
    <2>2. s.peer \in Key
      BY <1>4 DEF State
    <2>. QED
      BY <2>1, <2>2 DEF Key
  <1>8. record.dh.k = s.peer.k \/ record.dh.k = s.peer.k + 1
    BY <1>2, <1>6, <1>7 DEF Passed
  <1>9. CASE record.dh.k = s.peer.k
    <2>1. record.dh = s.peer /\ record.chain = s.receiving
      BY <1>2, <1>9
    <2>2. s.nr <= record.n
      BY <1>2, <1>4, <1>6, <2>1 DEF Passed
    <2>3. s.receiving # None
      BY <1>2, <2>1, NoneAssumption
    <2>4. WithinSkip(s, s.nr, record.n) => OnChain(s, record)
      BY <1>2, <1>4, <1>5, <2>1, <2>2, <2>3 DEF OnChain, Advances
    <2>. QED
      BY <1>2, <1>5, <2>1, <2>2, <2>4 DEF s, q
  <1>10. CASE record.dh.k = s.peer.k + 1
    <2>1. record.dh # s.peer
      BY <1>7, <1>10
    <2>2. Numbers(sent, s.peer) = 0..(record.pn - 1)
      <3>1. Numbers(sent, [owner |-> record.from, k |-> record.dh.k - 1]) = 0..(record.pn - 1)
        BY <1>1 DEF Numbered
      <3>2. record.dh.k - 1 = s.peer.k
        BY <1>7, <1>10
      <3>. QED
        BY <1>7, <3>1, <3>2 DEF q
    <2>3. s.nr <= record.pn
      <3>1. SUFFICES ASSUME s.nr > 0
                     PROVE  s.nr <= record.pn
        BY <1>2, <1>4
      <3>2. s.nr - 1 \in 0..(record.pn - 1)
        BY <1>3, <2>2, <3>1 DEF ReceivedBy
      <3>. QED
        BY <1>2, <1>4, <3>2
    <2>4. record.pn > s.nr => s.receiving # None
      <3>1. SUFFICES ASSUME record.pn > s.nr
                     PROVE  s.receiving # None
        OBVIOUS
      <3>2. 0 \in Numbers(sent, s.peer)
        BY <1>2, <1>4, <2>2, <3>1
      <3>3. PICK r \in sent : r.dh = s.peer
        BY <3>2, NumbersOf
      <3>4. r.chain \in Seq(Step) /\ r.dh.owner = r.from
        BY <1>1, RecordPlace
      <3>5. r.from = q
        BY <1>7, <3>3, <3>4
      <3>6. r.chain = s.receiving
        BY <1>1, <1>2, <3>3, <3>5, RecordPlace DEF s
      <3>. QED
        BY <3>4, <3>6, NoneAssumption
    <2>5. WithinSkip(s, s.nr, record.pn) => Transitions(s, record)
      BY <1>2, <1>4, <2>3, <2>4 DEF Transitions
    <2>6. keys[q] = s.peer.k + 1 /\ keys[q] = record.dh.k
      <3>1. keys[q] = s.peer.k \/ keys[q] = s.peer.k + 1
        BY <1>1, <1>2, Places DEF s
      <3>2. keys[q] \in Nat
        BY <1>1, <1>2, Places
      <3>. QED
        BY <1>2, <1>7, <1>10, <3>1, <3>2
    <2>7. record.dh = st[q].local /\ record.chain = st[q].root
      BY <1>1, <2>6, RecordPlace DEF q
    <2>8. st[q].root = DhStep(s.root, st[q].local, s.local, q)
      BY <1>1, <1>2, <2>6, Places DEF s
    <2>9. t.receiving = record.chain /\ t.nr = 0
      <3>1. t.receiving = DhStep(s.root, s.local, record.dh, q) /\ t.nr = 0
        BY <1>2, <1>4, TransitionIs
      <3>2. DhStep(s.root, s.local, record.dh, q) = DhStep(s.root, record.dh, s.local, q)
        BY DhStepEitherSide
      <3>. QED
        BY <2>7, <2>8, <3>1, <3>2
    <2>. HIDE DEF t
    <2>10. WithinSkip(t, 0, record.n) => Advances(t, record)
      <3>1. t.receiving # None
        BY <1>2, <2>9, NoneAssumption
      <3>. QED
        BY <1>2, <2>9, <3>1 DEF Advances
    <2>11. WithinSkip(s, s.nr, record.pn) /\ WithinSkip(t, 0, record.n) => OnNewChain(p, s, record)
      BY <1>5, <2>1, <2>5, <2>10 DEF OnNewChain, t
    <2>. QED
      BY <1>2, <1>5, <1>10, <2>1, <2>2, <2>3, <2>5, <2>11 DEF s, q, t
  <1>. QED
    BY <1>8, <1>9, <1>10

\* Nothing but a skip bound refuses a record that was not opened: whatever was
\* refused, lost or reordered before, no refusal damages the state
\* (RatchetState::receive, ensure_skip_capacity).
THEOREM OnlyBoundsRefuse == Spec => []RefusedOnlyByBounds
  <1>1. ASSUME JInv, NEW record \in sent \ opened, NEW p, p = Peer(record.from),
               ~CanOpen(p, record)
        PROVE  Kept(st[p], record) = {} /\ BeyondBounds(p, record)
    <2>1. ~FromSkipped(st[p], record) /\ ~OnChain(st[p], record) /\ ~OnNewChain(p, st[p], record)
      BY <1>1 DEF CanOpen
    <2>. DEFINE s == st[p]
                t == Transition(p, s, record, Fresh(p))
    <2>2. /\ Kept(s, record) = {}
          /\ \/ /\ record.dh = s.peer
                /\ WithinSkip(s, s.nr, record.n) => OnChain(s, record)
             \/ /\ record.dh # s.peer
                /\ WithinSkip(s, s.nr, record.pn) /\ WithinSkip(t, 0, record.n) =>
                     OnNewChain(p, s, record)
      BY <1>1, <2>1, Outstanding
    <2>. QED
      BY <2>1, <2>2 DEF BeyondBounds
  <1>2. JInv => RefusedOnlyByBounds
    BY <1>1 DEF RefusedOnlyByBounds
  <1>. QED
    BY <1>2, JointInvariance, PTL

\* Keys of sent records, and a gap that none of them is in, fill no more places
\* than there are numbers of all keys of one party.
LEMMA Room ==
  ASSUME TypeOK, Turns, Numbered, NEW p \in Direction, NEW S, IsFiniteSet(S),
         \A k \in S : \E r \in sent : r.from = Peer(p) /\ KeyOf(r) = k,
         NEW j \in 0..MaxKeys, NEW a \in Nat, NEW b \in Nat, a <= b, b <= MaxCounter,
         \A k \in S : k.dh.k = j /\ a <= k.n => b <= k.n
  PROVE  Cardinality(S) + (b - a) <= (MaxKeys + 1) * MaxCounter
  <1>. DEFINE q == Peer(p)
              All == (0..MaxKeys) \X (0..(MaxCounter - 1))
              Gap == {j} \X (a..(b - 1))
              f == [k \in S |-> <<k.dh.k, k.n>>]
  <1>1. q \in Direction
    BY TwoParties
  <1>2. IsFiniteSet(All) /\ Cardinality(All) = (MaxKeys + 1) * MaxCounter
    <2>1. /\ IsFiniteSet(0..MaxKeys) /\ Cardinality(0..MaxKeys) = MaxKeys + 1
      BY FS_Interval, RatchetAssumption
    <2>2. /\ IsFiniteSet(0..(MaxCounter - 1)) /\ Cardinality(0..(MaxCounter - 1)) = MaxCounter
      <3>1. /\ IsFiniteSet(0..(MaxCounter - 1))
            /\ Cardinality(0..(MaxCounter - 1)) =
                 IF 0 > MaxCounter - 1 THEN 0 ELSE (MaxCounter - 1) - 0 + 1
        BY FS_Interval, RatchetAssumption
      <3>. QED
        BY <3>1, RatchetAssumption
    <2>. DEFINE K == 0..MaxKeys
                N == 0..(MaxCounter - 1)
    <2>3. IsFiniteSet(K) /\ IsFiniteSet(N)
      BY ONLY <2>1, <2>2
    <2>. HIDE DEF K, N
    <2>4. IsFiniteSet(K \X N) /\ Cardinality(K \X N) = Cardinality(K) * Cardinality(N)
      BY ONLY <2>3, FS_Product
    <2>5. Cardinality(K) = MaxKeys + 1 /\ Cardinality(N) = MaxCounter
      BY ONLY <2>1, <2>2 DEF K, N
    <2>6. All = K \X N
      BY ONLY DEF K, N
    <2>. QED
      BY ONLY <2>4, <2>5, <2>6
  <1>3. IsFiniteSet(Gap) /\ Cardinality(Gap) = b - a
    <2>1. IsFiniteSet({j}) /\ Cardinality({j}) = 1
      BY FS_Singleton
    <2>2. IsFiniteSet(a..(b - 1)) /\ Cardinality(a..(b - 1)) = b - a
      <3>1. /\ IsFiniteSet(a..(b - 1))
            /\ Cardinality(a..(b - 1)) = IF a > b - 1 THEN 0 ELSE (b - 1) - a + 1
        BY FS_Interval
      <3>. QED
        BY <3>1
    <2>3. IsFiniteSet(Gap) /\ Cardinality(Gap) = 1 * (b - a)
      BY <2>1, <2>2, FS_Product
    <2>. QED
      BY <2>3
  <1>4. Gap \subseteq All
    BY RatchetAssumption
  <1>5. ASSUME NEW k \in S
        PROVE  f[k] \in All \ Gap
    <2>1. PICK r \in sent : r.from = q /\ KeyOf(r) = k
      OBVIOUS
    <2>2. r.dh \in Key /\ r.n \in Nat /\ r.n < MaxCounter
      BY RecordPlace
    <2>3. k.dh = r.dh /\ k.n = r.n
      BY <2>1 DEF KeyOf
    <2>4. k.dh.k \in 0..MaxKeys /\ k.n \in 0..(MaxCounter - 1)
      BY <2>2, <2>3, RatchetAssumption DEF Key
    <2>5. <<k.dh.k, k.n>> \notin Gap
      BY <2>4
    <2>. QED
      BY <2>4, <2>5
  <1>6. ASSUME NEW k \in S, NEW m \in S, f[k] = f[m]
        PROVE  k = m
    <2>1. PICK r \in sent : r.from = q /\ KeyOf(r) = k
      OBVIOUS
    <2>2. PICK x \in sent : x.from = q /\ KeyOf(x) = m
      OBVIOUS
    <2>3. k.dh = r.dh /\ k.n = r.n /\ m.dh = x.dh /\ m.n = x.n
      BY <2>1, <2>2 DEF KeyOf
    <2>4. k.dh.k = m.dh.k /\ k.n = m.n
      BY <1>6
    <2>5. r.dh = [owner |-> q, k |-> r.dh.k] /\ x.dh = [owner |-> q, k |-> x.dh.k]
      BY <2>1, <2>2, RecordPlace
    <2>6. r.dh = x.dh /\ r.n = x.n
      BY <2>3, <2>4, <2>5
    <2>7. r = x
      BY <2>6, OneRecord
    <2>. QED
      BY <2>1, <2>2, <2>7
  <1>. HIDE DEF All, Gap
  <1>7. f \in Injection(S, All \ Gap)
    BY <1>5, <1>6 DEF Injection, IsInjective
  <1>8. IsFiniteSet(All \ Gap) /\ Cardinality(All \ Gap) = Cardinality(All) - Cardinality(All \cap Gap)
    BY <1>2, FS_Difference
  <1>9. All \cap Gap = Gap
    BY <1>4
  <1>. HIDE DEF f
  <1>10. Cardinality(S) <= Cardinality(All \ Gap)
    BY <1>7, <1>8, FS_Injection
  <1>11. Cardinality(S) \in Nat /\ Cardinality(All) \in Nat /\ Cardinality(All \ Gap) \in Nat
    BY <1>2, <1>8, FS_CardinalityType
  <1>. DEFINE places == (MaxKeys + 1) * MaxCounter
  <1>12. Cardinality(All) = places /\ places \in Nat
    BY <1>2, <1>11
  <1>. HIDE DEF places
  <1>13. Cardinality(S) + (b - a) <= places
    <2>1. Cardinality(All \ Gap) = Cardinality(All) - Cardinality(Gap)
      BY <1>8, <1>9
    <2>2. Cardinality(All \ Gap) = places - (b - a)
      BY <1>3, <1>12, <2>1
    <2>. QED
      BY <1>10, <1>11, <1>12, <2>2
  <1>. QED
    BY <1>13 DEF places

\* However records are delayed, reordered, repeated or reflected, both parties
\* derive the same chains: with skip bounds that no gap can exceed, what one
\* sealed and the other has not opened yet, the other can open now
\* (RatchetState::receive, receive_dh_transition).
THEOREM AllElseOpens ==
  ASSUME MaxCounter <= MaxSkip, (MaxKeys + 1) * MaxCounter <= MaxSkipped
  PROVE  Spec => []OutstandingOpens
  <1>. DEFINE places == (MaxKeys + 1) * MaxCounter
  <1>1. places <= MaxSkipped /\ places \in Nat
    BY RatchetAssumption
  <1>. HIDE DEF places
  <1>2. ASSUME JInv, NEW record \in sent \ opened, NEW p, p = Peer(record.from)
        PROVE  CanOpen(p, record)
    <2>. SUFFICES ASSUME ~FromSkipped(st[p], record)
                  PROVE  CanOpen(p, record)
      BY DEF CanOpen
    <2>. DEFINE s == st[p]
                t == Transition(p, s, record, Fresh(p))
    <2>1. TypeOK /\ IInv /\ Turns /\ Numbered /\ Received
      BY <1>2 DEF JInv, IInv
    <2>2. p \in Direction /\ record.from = Peer(p)
      BY <1>2, Outstanding
    <2>3. /\ s \in State /\ s.nr \in Nat /\ s.peer \in Key /\ s.peer.k \in 0..MaxKeys
          /\ IsFiniteSet(s.skipped)
      <3>1. s \in State /\ IsFiniteSet(s.skipped)
        BY <2>1, <2>2 DEF TypeOK, IInv, SkippedBounded
      <3>2. s.nr \in Nat /\ s.peer \in Key
        BY <3>1 DEF State
      <3>3. s.peer.k \in 0..MaxKeys
        BY <3>2 DEF Key
      <3>. QED
        BY <3>1, <3>2, <3>3
    <2>4. /\ record.n \in Nat /\ record.n < MaxCounter /\ record.pn \in Nat
          /\ record.dh \in Key /\ record.dh.k \in 0..MaxKeys
      <3>1. record.n \in Nat /\ record.n < MaxCounter /\ record.pn \in Nat /\ record.dh \in Key
        BY <2>1, RecordPlace
      <3>. QED
        BY <3>1 DEF Key
    <2>5. ReceivedBy(p, s, sent, opened)
      BY <2>1, <2>2 DEF Received
    <2>6. /\ \A k \in s.skipped : \E r \in sent : r.from = Peer(p) /\ KeyOf(r) = k
          /\ \A k \in s.skipped : k.n \in Nat /\ Passed(s, k.dh, k.n)
      <3>1. ASSUME NEW k \in s.skipped
            PROVE  /\ \E r \in sent : r.from = Peer(p) /\ KeyOf(r) = k
                   /\ k.n \in Nat /\ Passed(s, k.dh, k.n)
        <4>1. PICK r \in sent : r.from = Peer(p) /\ KeyOf(r) = k
          BY <2>5 DEF ReceivedBy
        <4>2. r.n \in Nat /\ k.n = r.n /\ k.dh = r.dh
          BY <2>1, <4>1, RecordPlace DEF KeyOf
        <4>. QED
          BY <2>5, <4>1, <4>2 DEF ReceivedBy
      <3>. QED
        BY <3>1
    <2>7. ASSUME NEW b \in Nat, s.nr <= b, b <= MaxCounter
          PROVE  WithinSkip(s, s.nr, b)
      <3>1. ASSUME NEW k \in s.skipped, k.dh.k = s.peer.k, s.nr <= k.n
            PROVE  FALSE
        <4>1. k.dh = s.peer => k.n < s.nr
          BY <2>3, <2>6, <3>1 DEF Passed
        <4>2. k.dh.k < s.peer.k \/ k.dh = s.peer
          BY <2>6 DEF Passed
        <4>. QED
          BY <2>3, <2>6, <3>1, <4>1, <4>2
      <3>2. Cardinality(s.skipped) + (b - s.nr) <= places
        BY <2>1, <2>2, <2>3, <2>6, <2>7, <3>1, Room DEF places
      <3>3. Cardinality(s.skipped) \in Nat
        BY <2>3, FS_CardinalityType
      <3>. QED
        BY <1>1, <2>3, <2>7, <3>2, <3>3, RatchetAssumption DEF WithinSkip
    <2>. HIDE DEF t
    <2>8. CASE /\ record.dh = s.peer /\ s.nr <= record.n
               /\ WithinSkip(s, s.nr, record.n) => OnChain(s, record)
      <3>1. record.n <= MaxCounter
        BY <2>4, RatchetAssumption
      <3>. QED
        BY <2>4, <2>7, <2>8, <3>1 DEF CanOpen
    <2>9. CASE /\ record.dh # s.peer /\ record.dh.k = s.peer.k + 1 /\ s.nr <= record.pn
               /\ Numbers(sent, s.peer) = 0..(record.pn - 1)
               /\ WithinSkip(s, s.nr, record.pn) => Transitions(s, record)
               /\ WithinSkip(s, s.nr, record.pn) /\ WithinSkip(t, 0, record.n) =>
                    OnNewChain(p, s, record)
      <3>1. record.pn <= MaxCounter
        <4>1. SUFFICES ASSUME record.pn > 0
                       PROVE  record.pn <= MaxCounter
          BY <2>4, RatchetAssumption
        <4>2. record.pn - 1 \in Numbers(sent, s.peer)
          BY <2>4, <2>9, <4>1
        <4>3. PICK r \in sent : r.n = record.pn - 1
          BY <4>2, NumbersOf
        <4>4. r.n < MaxCounter
          BY <2>1, RecordPlace
        <4>. QED
          BY <2>4, <4>3, <4>4, RatchetAssumption
      <3>2. WithinSkip(s, s.nr, record.pn) /\ Transitions(s, record)
        BY <2>4, <2>7, <2>9, <3>1
      <3>3. ReceivedBy(p, t, sent, opened)
        BY <2>1, <2>2, <2>5, <2>9, <3>2, TransitionReceives DEF t
      <3>4. /\ t.nr = 0 /\ t.peer = record.dh
            /\ t.skipped = IF record.pn = s.nr THEN s.skipped
                           ELSE Insert(s.skipped, KeysOf(s.peer, s.receiving, s.nr, record.pn))
        BY <2>2, <2>3, TransitionIs DEF t
      <3>5. IsFiniteSet(t.skipped)
        <4>1. CASE record.pn = s.nr
          BY <2>3, <3>4, <4>1
        <4>2. CASE record.pn # s.nr
          <5>1. s.receiving \in Seq(Step)
            BY <2>3, <2>4, <2>9, <3>2, <4>2 DEF Transitions, State
          <5>2. IsFiniteSet(Insert(s.skipped, KeysOf(s.peer, s.receiving, s.nr, record.pn)))
            BY <2>3, <2>4, <2>9, <3>2, <5>1, InsertGap
          <5>. QED
            BY <3>4, <4>2, <5>2
        <4>. QED
          BY <4>1, <4>2
      <3>6. \A k \in t.skipped : \E r \in sent : r.from = Peer(p) /\ KeyOf(r) = k
        BY <3>3 DEF ReceivedBy
      <3>7. ASSUME NEW k \in t.skipped
            PROVE  k.dh.k # record.dh.k
        <4>1. PICK r \in sent : r.from = Peer(p) /\ KeyOf(r) = k /\ r.n \in Nat /\ r.dh.k \in Nat
          BY <2>1, <3>6, RecordPlace
        <4>2. k.n = r.n /\ k.dh = r.dh
          BY <4>1 DEF KeyOf
        <4>3. Passed(t, r.dh, r.n)
          BY <3>3, <4>1 DEF ReceivedBy
        <4>. QED
          BY <2>4, <3>4, <4>1, <4>2, <4>3 DEF Passed
      <3>8. Cardinality(t.skipped) + (record.n - 0) <= places
        <4>1. 0 \in Nat /\ 0 <= record.n /\ record.n <= MaxCounter
          BY <2>4, RatchetAssumption
        <4>. QED
          BY <2>1, <2>2, <2>4, <3>5, <3>6, <3>7, <4>1, Room DEF places
      <3>9. Cardinality(t.skipped) \in Nat
        BY <3>5, FS_CardinalityType
      <3>10. WithinSkip(t, 0, record.n)
        BY <1>1, <2>4, <3>8, <3>9, RatchetAssumption DEF WithinSkip
      <3>. QED
        BY <2>9, <3>2, <3>10 DEF CanOpen
    <2>10. \/ /\ record.dh = s.peer /\ s.nr <= record.n
              /\ WithinSkip(s, s.nr, record.n) => OnChain(s, record)
           \/ /\ record.dh # s.peer /\ record.dh.k = s.peer.k + 1 /\ s.nr <= record.pn
              /\ Numbers(sent, s.peer) = 0..(record.pn - 1)
              /\ WithinSkip(s, s.nr, record.pn) => Transitions(s, record)
              /\ WithinSkip(s, s.nr, record.pn) /\ WithinSkip(t, 0, record.n) =>
                   OnNewChain(p, s, record)
      BY <1>2, Outstanding DEF t
    <2>. QED
      BY <2>8, <2>9, <2>10
  <1>3. JInv => OutstandingOpens
    BY <1>2 DEF OutstandingOpens
  <1>. QED
    BY <1>3, JointInvariance, PTL

===============================================================================
