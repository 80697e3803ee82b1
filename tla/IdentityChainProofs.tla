------------------------- MODULE IdentityChainProofs -------------------------
(***************************************************************************)
(* Proofs about IdentityChain, for every value of its constants.  IInv is  *)
(* inductive: a record that validate_successor lets pass has the number    *)
(* and the predecessor that its place in the history asks for.             *)
(***************************************************************************)
EXTENDS IdentityChain, SequenceTheorems, LeastNumber

\* The records that a peer has accepted are there, and have numbers.
LEMMA HistoryTyped ==
  ASSUME TypeOK, NEW p \in Peers
  PROVE  /\ history[p] \in Seq(1..Len(records))
         /\ Len(history[p]) \in Nat
         /\ \A k \in 1..Len(history[p]) : /\ history[p][k] \in 1..Len(records)
                                          /\ records[history[p][k]] \in Record
  <1>1. history[p] \in Seq(1..Len(records))
    BY DEF TypeOK
  <1>2. \A k \in 1..Len(history[p]) : history[p][k] \in 1..Len(records)
    BY <1>1, ElementOfSeq
  <1>3. \A i \in 1..Len(records) : records[i] \in Record
    BY ElementOfSeq DEF TypeOK
  <1>. QED
    BY <1>1, <1>2, <1>3

\* What is drafted and well-formed is a record.
LEMMA DraftsTyped ==
  ASSUME TypeOK, NEW e \in Endpoints, NEW r \in Drafts(e), WellFormed(r)
  PROVE  r \in Record
  <1>1. r.epoch \in 1..MaxEpoch
    BY DEF WellFormed
  <1>2. Len(records) \in Nat
    BY DEF TypeOK
  <1>. QED
    BY <1>1, <1>2 DEF Drafts, Record

LEMMA InitInvariant == Init => IInv
  BY DEF Init, IInv, TypeOK, Linked

\* A record more leaves the histories as they are.
LEMMA SignStep ==
  ASSUME IInv, NEW e \in Endpoints, Sign(e)
  PROVE  IInv'
  <1>1. PICK r \in Drafts(e) : WellFormed(r) /\ records' = Append(records, r)
    BY DEF Sign
  <1>2. r \in Record
    BY <1>1, DraftsTyped DEF IInv
  <1>3. /\ records' \in Seq(Record) /\ Len(records') = Len(records) + 1
        /\ \A i \in 1..Len(records) : records'[i] = records[i]
        /\ history' = history /\ kind' = kind
    BY <1>1, <1>2, AppendProperties DEF Sign, IInv, TypeOK
  <1>4. ASSUME NEW p \in Peers
        PROVE  history[p] \in Seq(1..Len(records')) /\ Linked(history[p])'
    <2>1. history[p] \in Seq(1..Len(records)) /\ Len(records) \in Nat
      BY HistoryTyped DEF IInv, TypeOK
    <2>2. 1..Len(records) \subseteq 1..Len(records')
      BY <1>3, <2>1
    <2>3. history[p] \in Seq(1..Len(records'))
      BY <2>1, <2>2, SeqMonotonic
    <2>4. \A k \in 1..Len(history[p]) : records'[history[p][k]] = records[history[p][k]]
      BY <1>3, HistoryTyped DEF IInv
    <2>5. Linked(history[p])
      BY DEF IInv
    <2>6. 1 \in 1..Len(history[p]) \/ 1..Len(history[p]) = {}
      BY HistoryTyped DEF IInv
    <2>7. Linked(history[p])'
      BY <1>3, <2>4, <2>5, <2>6 DEF Linked
    <2>. QED
      BY <2>3, <2>7
  <1>. QED
    BY <1>3, <1>4 DEF IInv, TypeOK

\* validate_successor says Ok only to the record that comes next.
LEMMA AcceptStep ==
  ASSUME IInv, NEW p \in Peers, Accept(p)
  PROVE  IInv'
  <1>. DEFINE h == history[p]
  <1>1. PICK i \in 1..Len(records) :
          Successor(h, i) = "Ok" /\ history' = [history EXCEPT ![p] = Append(h, i)]
    BY DEF Accept
  <1>2. records' = records /\ kind' = kind
    BY DEF Accept
  <1>3. h \in Seq(1..Len(records)) /\ Len(h) \in Nat /\ Linked(h)
    BY HistoryTyped DEF IInv
  <1>4. PICK n \in Nat : n = Len(h)
    BY <1>3
  <1>5. /\ Append(h, i) \in Seq(1..Len(records)) /\ Len(Append(h, i)) = n + 1
        /\ \A k \in 1..n : Append(h, i)[k] = h[k]
        /\ Append(h, i)[n + 1] = i
    BY <1>3, <1>4, AppendProperties
  <1>6. /\ records[i].epoch = n + 1
        /\ n = 0 => records[i].previous = None
        /\ n > 0 => /\ records[i].previous = h[n]
                    /\ records[i].endpoint = records[h[n]].endpoint
    <2>1. CASE h = <<>>
      BY <1>1, <1>4, <2>1 DEF Successor
    <2>2. CASE h # <<>>
      <3>1. n > 0 /\ n \in 1..Len(h)
        BY <1>3, <1>4, <2>2, EmptySeq
      <3>2. records[h[n]].epoch = n
        BY <1>3, <3>1 DEF Linked
      <3>3. records[i].endpoint = records[h[n]].endpoint
            /\ records[i].epoch = records[h[n]].epoch + 1 /\ records[i].previous = h[n]
        BY <1>1, <1>4, <2>2 DEF Successor
      <3>. QED
        BY <3>1, <3>2, <3>3
    <2>. QED
      BY <2>1, <2>2
  <1>7. Linked(Append(h, i))
    <2>1. ASSUME NEW k \in 1..n
          PROVE  /\ records[h[k]].epoch = k
                 /\ records[h[k]].endpoint = records[h[1]].endpoint
                 /\ records[h[k]].previous = IF k = 1 THEN None ELSE h[k - 1]
      BY <1>3, <1>4 DEF Linked
    <2>2. n > 0 => 1 \in 1..n /\ n \in 1..n
      OBVIOUS
    <2>3. \A k \in 1..n : k # 1 => k - 1 \in 1..n
      OBVIOUS
    <2>4. \A k \in 1..(n + 1) : k = n + 1 \/ k \in 1..n
      OBVIOUS
    <2>5. (n + 1) - 1 = n /\ (n = 0 => n + 1 = 1) /\ (n # 0 => n > 0 /\ n + 1 # 1)
      OBVIOUS
    <2>. DEFINE g == Append(h, i)
    <2>6. ASSUME NEW k \in 1..n
          PROVE  /\ records[g[k]].epoch = k
                 /\ records[g[k]].endpoint = records[g[1]].endpoint
                 /\ records[g[k]].previous = IF k = 1 THEN None ELSE g[k - 1]
      BY <1>5, <2>1, <2>2, <2>3
    <2>7. /\ records[g[n + 1]].epoch = n + 1
          /\ records[g[n + 1]].endpoint = records[g[1]].endpoint
          /\ records[g[n + 1]].previous = IF n + 1 = 1 THEN None ELSE g[(n + 1) - 1]
      BY <1>5, <1>6, <2>1, <2>2, <2>5
    <2>. QED
      BY <1>5, <2>4, <2>6, <2>7 DEF Linked
  <1>8. history' \in [Peers -> Seq(1..Len(records))]
    BY <1>1, <1>5 DEF IInv, TypeOK
  <1>9. ASSUME NEW q \in Peers
        PROVE  Linked(history[q])'
    <2>1. history'[q] = IF q = p THEN Append(h, i) ELSE history[q]
      BY <1>1 DEF IInv, TypeOK
    <2>2. Linked(history[q])
      BY DEF IInv
    <2>3. CASE q = p
      <3>1. history'[q] = Append(h, i)
        BY <2>1, <2>3
      <3>. HIDE DEF h
      <3>. QED
        BY <1>2, <1>7, <3>1 DEF Linked
    <2>4. CASE q # p
      <3>1. history'[q] = history[q]
        BY <2>1, <2>4
      <3>. QED
        BY <1>2, <2>2, <3>1 DEF Linked
    <2>. QED
      BY <2>3, <2>4
  <1>. QED
    BY <1>2, <1>8, <1>9 DEF IInv, TypeOK

LEMMA NextInvariant == IInv /\ [Next]_vars => IInv'
  <1>. SUFFICES ASSUME IInv, [Next]_vars
                PROVE  IInv'
    OBVIOUS
  <1>1. CASE UNCHANGED vars
    BY <1>1 DEF vars, IInv, TypeOK, Linked
  <1>. QED
    BY <1>1, SignStep, AcceptStep DEF Next

\* Every history is one endpoint's chain from its first record on, without a gap,
\* in every reachable state.
THEOREM Invariance == Spec => []IInv
  BY InitInvariant, NextInvariant, PTL DEF Spec

\* Whoever follows another branch of an endpoint's chain than somebody else can
\* prove that it forked: validate_successor (identity.rs) accepts a record only
\* after the very predecessor it names, so that the first difference of two
\* histories is two records with one number and one predecessor.
THEOREM ForksAreProvable == Spec => []ForkAccountable
  <1>1. IInv => ForkAccountable
    <2>. SUFFICES ASSUME IInv, NEW p \in Peers, NEW q \in Peers,
                         NEW k \in 1..Len(history[p]), k <= Len(history[q]),
                         history[p][k] # history[q][k],
                         records[history[p][1]].endpoint = records[history[q][1]].endpoint
                  PROVE  \E i, j \in 1..Len(records) :
                           /\ i # j
                           /\ records[i].endpoint = records[j].endpoint
                           /\ records[i].epoch = records[j].epoch
                           /\ records[i].previous = records[j].previous
      BY DEF ForkAccountable
    <2>. DEFINE D == {l \in 1..k : history[p][l] # history[q][l]}
    <2>1. PICK l \in D : \A j \in D : l <= j
      <3>1. D \in SUBSET Nat /\ k \in D
        BY HistoryTyped DEF IInv
      <3>. HIDE DEF D
      <3>. QED
        BY <3>1, LeastElement
    <2>2. /\ l \in 1..Len(history[p]) /\ l \in 1..Len(history[q])
          /\ history[p][l] # history[q][l]
      <3>1. Len(history[p]) \in Nat /\ Len(history[q]) \in Nat
        BY HistoryTyped DEF IInv
      <3>2. l \in 1..k /\ history[p][l] # history[q][l]
        BY <2>1
      <3>. QED
        BY <3>1, <3>2
    <2>3. Linked(history[p]) /\ Linked(history[q])
      BY DEF IInv
    <2>4. /\ records[history[p][l]].epoch = records[history[q][l]].epoch
          /\ records[history[p][l]].endpoint = records[history[q][l]].endpoint
      BY <2>2, <2>3 DEF Linked
    <2>5. records[history[p][l]].previous = records[history[q][l]].previous
      <3>1. CASE l = 1
        BY <2>2, <2>3, <3>1 DEF Linked
      <3>2. CASE l # 1
        <4>1. l - 1 \in 1..k /\ l - 1 \notin D
          BY <2>1, <3>2
        <4>2. history[p][l - 1] = history[q][l - 1]
          BY <4>1
        <4>. QED
          BY <2>2, <2>3, <3>2, <4>2 DEF Linked
      <3>. QED
        BY <3>1, <3>2
    <2>6. history[p][l] \in 1..Len(records) /\ history[q][l] \in 1..Len(records)
      BY <2>2, HistoryTyped DEF IInv
    <2>. QED
      BY <2>2, <2>4, <2>5, <2>6
  <1>. QED
    BY <1>1, Invariance, PTL

\* The first break in a chain, where there is just one.
LEMMA OneBreak ==
  ASSUME NEW S, NEW n \in Nat, S = {n}
  PROVE  (CHOOSE k \in S : \A j \in S : k <= j) = n
  OBVIOUS

\* The two checks of the continuity, validate_successor record by record and
\* validate_epoch_sequence of a whole chain, agree on every chain and every
\* record that may come next, while the chain can be checked at once.
THEOREM ChecksAlwaysAgree == Spec => []ChecksAgree
  <1>1. IInv => ChecksAgree
    <2>. SUFFICES ASSUME IInv, NEW p \in Peers, NEW i \in 1..Len(records),
                         history[p] # <<>>, Len(history[p]) < MaxChainRecords,
                         records[history[p][Len(history[p])]].epoch < MaxEpoch
                  PROVE  LET h == history[p]
                             verdict == EpochSequence(Append(h, i))
                         IN /\ EpochSequence(h) = "Ok"
                            /\ Successor(h, i) = "Ok" => verdict = "Ok"
                            /\ Successor(h, i) = "Conflict"
                                 <=> verdict \in {"Replay", "Fork", "Rollback"}
      BY DEF ChecksAgree
    <2>. DEFINE h == history[p]
                g == Append(h, i)
    <2>1. /\ h \in Seq(1..Len(records)) /\ Linked(h)
          /\ \A k \in 1..Len(h) : records[h[k]] \in Record
      BY HistoryTyped DEF IInv
    <2>2. PICK n \in Nat \ {0} : n = Len(h)
      BY <2>1, EmptySeq
    <2>3. /\ Len(g) = n + 1 /\ g # <<>> /\ g[n + 1] = i
          /\ \A k \in 1..n : g[k] = h[k]
      <3>1. i \in 1..Len(records)
        OBVIOUS
      <3>. HIDE DEF h
      <3>. QED
        BY <2>1, <2>2, <3>1, AppendProperties
    <2>4. /\ \A k \in 1..n : records[h[k]].epoch = k /\ k <= MaxEpoch
          /\ n < MaxEpoch /\ n < MaxChainRecords
      <3>1. \A k \in 1..n : records[h[k]].epoch = k
        BY <2>1, <2>2 DEF Linked
      <3>2. \A k \in 1..n : records[h[k]].epoch <= MaxEpoch
        <4>1. \A r \in Record : r.epoch \in 1..MaxEpoch
          BY DEF Record
        <4>. QED
          BY <2>1, <2>2, <4>1, BoundsAssumption
      <3>. QED
        BY <2>2, <3>1, <3>2
    <2>5. records[i].epoch \in 1..MaxEpoch
      <3>1. records[i] \in Record
        BY ElementOfSeq DEF IInv, TypeOK
      <3>. QED
        BY <3>1 DEF Record
    <2>. HIDE DEF h, g
    <2>6. EpochSequence(h) = "Ok"
      <3>1. \A k \in 2..n : k \in 1..n /\ k - 1 \in 1..n
        OBVIOUS
      <3>2. {k \in 2..Len(h) : records[h[k]].epoch # records[h[k - 1]].epoch + 1} = {}
        BY <2>2, <2>4, <3>1
      <3>3. h # <<>> /\ records[h[1]].epoch = 1
        BY <2>2, <2>4
      <3>4. ~(Len(h) > MaxChainRecords \/ \E k \in 1..Len(h) : records[h[k]].epoch > MaxEpoch)
        BY <2>2, <2>4, BoundsAssumption
      <3>. QED
        BY <3>2, <3>3, <3>4 DEF EpochSequence
    <2>7. EpochSequence(g) = IF records[i].epoch = n + 1 THEN "Ok" ELSE Break(g, n + 1)
      <3>. DEFINE Breaks == {k \in 2..Len(g) : records[g[k]].epoch # records[g[k - 1]].epoch + 1}
      <3>1. \A k \in 2..n : k \in 1..n /\ k - 1 \in 1..n
        OBVIOUS
      <3>2. \A k \in 2..n : records[g[k]].epoch = records[g[k - 1]].epoch + 1
        <4>1. ASSUME NEW k \in 2..n
              PROVE  records[g[k]].epoch = records[g[k - 1]].epoch + 1
          <5>1. k \in 1..n /\ k - 1 \in 1..n
            BY <3>1
          <5>2. records[g[k]].epoch = k /\ records[g[k - 1]].epoch = k - 1
            BY <2>3, <2>4, <5>1
          <5>. QED
            BY <5>2
        <4>. QED
          BY <4>1
      <3>3. records[g[n + 1]].epoch = records[i].epoch /\ records[g[n]].epoch = n /\ n \in 1..n
        BY <2>3, <2>4
      <3>4. Breaks = IF records[i].epoch = n + 1 THEN {} ELSE {n + 1}
        <4>1. \A k \in 2..(n + 1) : k = n + 1 \/ k \in 2..n
          OBVIOUS
        <4>2. n + 1 \in 2..(n + 1) /\ (n + 1) - 1 = n
          OBVIOUS
        <4>. QED
          BY <2>3, <3>2, <3>3, <4>1, <4>2
      <3>5. g # <<>> /\ records[g[1]].epoch = 1
        BY <2>3, <2>4
      <3>6. ~(Len(g) > MaxChainRecords \/ \E k \in 1..Len(g) : records[g[k]].epoch > MaxEpoch)
        <4>1. \A k \in 1..(n + 1) : k = n + 1 \/ k \in 1..n
          OBVIOUS
        <4>. QED
          BY <2>3, <2>4, <2>5, <3>3, <4>1, BoundsAssumption
      <3>7. EpochSequence(g) = IF Breaks = {} THEN "Ok"
              ELSE Break(g, CHOOSE k \in Breaks : \A j \in Breaks : k <= j)
        BY <3>5, <3>6 DEF EpochSequence
      <3>. HIDE DEF Breaks
      <3>8. CASE records[i].epoch = n + 1
        BY <3>4, <3>7, <3>8
      <3>9. CASE records[i].epoch # n + 1
        <4>1. Breaks = {n + 1} /\ n + 1 \in Nat
          BY <3>4, <3>9
        <4>2. (CHOOSE k \in Breaks : \A j \in Breaks : k <= j) = n + 1
          BY <4>1, OneBreak
        <4>. QED
          BY <3>7, <3>9, <4>1, <4>2
      <3>. QED
        BY <3>8, <3>9
    <2>8. Break(g, n + 1) \in {"Replay", "Fork", "Rollback"} <=> records[i].epoch <= n
      <3>1. g[n + 1] = i /\ records[g[(n + 1) - 1]].epoch = n
        BY <2>3, <2>4
      <3>. QED
        BY <2>5, <3>1 DEF Break
    <2>9. /\ Successor(h, i) = "Ok" => records[i].epoch = n + 1
          /\ Successor(h, i) = "Conflict" <=> records[i].epoch <= n
      <3>1. h # <<>> /\ Len(h) = n /\ records[h[n]].epoch = n /\ n \in 1..(MaxEpoch - 1)
        BY <2>2, <2>4, BoundsAssumption DEF h
      <3>. QED
        BY <2>5, <3>1 DEF Successor
    <2>. QED
      BY <2>5, <2>6, <2>7, <2>8, <2>9 DEF g, h
  <1>. QED
    BY <1>1, Invariance, PTL

=============================================================================
