---------------------------- MODULE EndpointProofs ----------------------------
(***************************************************************************)
(* Proofs about Endpoint, for every value of its constants.                *)
(*                                                                         *)
(* IInv is inductive.  A step changes it in one of four ways: it leaves    *)
(* the durable state alone (LEMMA QuietStep), records a new plan (LEMMA    *)
(* PlanStep), applies a plan (LEMMA ApplyStep) or settles a delivered item *)
(* (LEMMA SettleStep).                                                     *)
(***************************************************************************)
EXTENDS Endpoint, TLAPS

\* Staging and aborting change no adopted handle, so no owned one.
LEMMA CustodyQuiet ==
  ASSUME NEW c \in [Handles -> Fates], NEW S, NEW T
  PROVE  /\ Abort(Stage(c, S), T) \in [Handles -> Fates]
         /\ Abort(c, T) \in [Handles -> Fates]
         /\ \A h \in Handles :
              /\ Abort(Stage(c, S), T)[h] = "adopted" <=> c[h] = "adopted"
              /\ Abort(c, T)[h] = "adopted" <=> c[h] = "adopted"
  BY DEF Abort, Stage, Fates

\* The part of IInv that is not about types.
Coherent ==
  /\ HandleCoherence
  /\ PhaseShape(phase)
  /\ PairsDisjoint(phase.active)
  /\ Deleted => pending = {}
  /\ \A p \in Procs : Planning(p) => PlanSound(plan[p]) /\ SnapshotCoherent(plan[p])

\* A step that keeps the durable state and every adopted handle, and gives no
\* process a plan it did not have, keeps the state coherent.
LEMMA QuietStep ==
  ASSUME IInv, UNCHANGED store,
         \A h \in Handles : custody'[h] = "adopted" <=> custody[h] = "adopted",
         \A q \in Procs : Planning(q)' => Planning(q) /\ plan'[q] = plan[q]
  PROVE  Coherent'
  <1>1. HandleCoherence'
    BY DEF IInv, HandleCoherence, store, Handles
  <1>2. PhaseShape(phase)' /\ PairsDisjoint(phase.active)' /\ (Deleted => pending = {})'
    BY DEF IInv, PhaseShape, PairsDisjoint, Deleted, store
  <1>3. ASSUME NEW q \in Procs, Planning(q)'
        PROVE  (PlanSound(plan[q]) /\ SnapshotCoherent(plan[q]))'
    <2>1. Planning(q) /\ plan'[q] = plan[q]
      BY <1>3
    <2>2. PlanSound(plan[q]) /\ SnapshotCoherent(plan[q])
      BY <2>1 DEF IInv
    <2>. QED
      BY <2>1, <2>2 DEF PlanSound, SnapshotCoherent, store
  <1>. QED
    BY <1>1, <1>2, <1>3 DEF Coherent

\* Recording a sound plan that was made from the current snapshot.
LEMMA PlanStep ==
  ASSUME IInv, UNCHANGED store, NEW p \in Procs,
         \A h \in Handles : custody'[h] = "adopted" <=> custody[h] = "adopted",
         \A q \in Procs : q # p => plan'[q] = plan[q],
         pc' = [pc EXCEPT ![p] = "planned"],
         PlanSound(plan'[p]),
         plan'[p].rev = rev, plan'[p].phase = phase, plan'[p].pending = pending,
         plan'[p].landed = FALSE
  PROVE  Coherent'
  <1>1. HandleCoherence'
    BY DEF IInv, HandleCoherence, store, Handles
  <1>2. PhaseShape(phase)' /\ PairsDisjoint(phase.active)' /\ (Deleted => pending = {})'
    BY DEF IInv, PhaseShape, PairsDisjoint, Deleted, store
  <1>3. ASSUME NEW q \in Procs, Planning(q)'
        PROVE  (PlanSound(plan[q]) /\ SnapshotCoherent(plan[q]))'
    <2>1. CASE q = p
      BY <2>1 DEF SnapshotCoherent, store, IInv, TypeOK, PlanSound
    <2>2. CASE q # p
      <3>1. Planning(q) /\ plan'[q] = plan[q]
        BY <1>3, <2>2 DEF Planning, IInv, TypeOK
      <3>2. PlanSound(plan[q]) /\ SnapshotCoherent(plan[q])
        BY <3>1 DEF IInv
      <3>. QED
        BY <3>1, <3>2 DEF PlanSound, SnapshotCoherent, store
    <2>. QED BY <2>1, <2>2
  <1>. QED
    BY <1>1, <1>2, <1>3 DEF Coherent

-----------------------------------------------------------------------------
(* The shapes of an operation                                              *)

\* A refusal keeps the invariant.
LEMMA RefuseStep ==
  ASSUME IInv, NEW p \in Procs, pc[p] \in Returned,
         NEW given \in SUBSET Handles, Refuse(p, given)
  PROVE  IInv'
  <1>. USE DEF Refuse, IInv
  <1>1. TypeOK'
    <2>1. custody' \in [Handles -> Fates]
      BY CustodyQuiet DEF TypeOK
    <2>2. store' = store /\ plan' = plan /\ delivered' = delivered /\ answered' = answered
      OBVIOUS
    <2>3. pc' \in [Procs -> {"closed"} \cup Returned \cup Busy]
      BY DEF TypeOK, Returned
    <2>4. \A q \in Procs : pc'[q] = pc[q] \/ (q = p /\ pc'[q] = "fail")
      BY DEF TypeOK
    <2>5. plan[p] = None
      BY DEF TypeOK, Returned, Busy
    <2>6. held' \in [Procs -> SUBSET Handles] /\ strayAborts' \subseteq Handles
      BY DEF TypeOK
    <2>. QED
      BY <2>1, <2>2, <2>3, <2>4, <2>5, <2>6 DEF TypeOK, store, Busy
  <1>2. \A h \in Handles : custody'[h] = "adopted" <=> custody[h] = "adopted"
    BY CustodyQuiet DEF TypeOK
  <1>3. \A q \in Procs : Planning(q)' => Planning(q) /\ plan'[q] = plan[q]
    BY DEF Planning, TypeOK
  <1>4. Coherent'
    BY <1>2, <1>3, QuietStep
  <1>. QED
    BY <1>1, <1>4 DEF Coherent

\* So does a call that answers from the snapshot.
LEMMA ReplyStep ==
  ASSUME IInv, NEW p \in Procs, pc[p] \in Returned,
         NEW given \in SUBSET Handles, NEW answer \in SUBSET Answer,
         Reply(p, given, answer)
  PROVE  IInv'
  <1>. USE DEF Reply, IInv
  <1>1. TypeOK'
    <2>1. custody' \in [Handles -> Fates]
      BY CustodyQuiet DEF TypeOK
    <2>2. store' = store /\ plan' = plan /\ delivered' = delivered
      OBVIOUS
    <2>3. pc' \in [Procs -> {"closed"} \cup Returned \cup Busy]
      BY DEF TypeOK, Returned
    <2>4. \A q \in Procs : pc'[q] = pc[q] \/ (q = p /\ pc'[q] = "ok")
      BY DEF TypeOK
    <2>5. plan[p] = None
      BY DEF TypeOK, Returned, Busy
    <2>6. held' \in [Procs -> SUBSET Handles] /\ strayAborts' \subseteq Handles
      BY DEF TypeOK
    <2>7. answered' \subseteq Answer
      BY DEF TypeOK
    <2>. QED
      BY <2>1, <2>2, <2>3, <2>4, <2>5, <2>6, <2>7 DEF TypeOK, store, Busy
  <1>2. \A h \in Handles : custody'[h] = "adopted" <=> custody[h] = "adopted"
    BY CustodyQuiet DEF TypeOK
  <1>3. \A q \in Procs : Planning(q)' => Planning(q) /\ plan'[q] = plan[q]
    BY DEF Planning, TypeOK
  <1>4. Coherent'
    BY <1>2, <1>3, QuietStep
  <1>. QED
    BY <1>1, <1>4 DEF Coherent

\* What an action must show of the commit it prepares.
Sound(next, adopt, delete, work) ==
  /\ PhaseShape(next)
  /\ Owned(next) = (Owned(phase) \ delete) \cup adopt
  /\ adopt \cap delete = {}
  /\ adopt \cap Owned(phase) = {} => PairsDisjoint(next.active)
  /\ phase.kind # "Deleted" /\ (next.kind = "Deleted" => work = {})
  /\ phase.high <= next.high

LEMMA PrepareStep ==
  ASSUME IInv, NEW p \in Procs, NEW op \in Operations,
         NEW given \in SUBSET Handles, NEW spare \in SUBSET Handles,
         NEW next \in Phase, NEW adopt \in SUBSET Handles,
         NEW delete \in SUBSET Handles, NEW work \in SUBSET Item,
         NEW answer \in Answer \cup {None},
         Prepare(p, op, given, spare, next, adopt, delete, work, answer),
         Sound(next, adopt, delete, work)
  PROVE  IInv'
  <1>. DEFINE record == [op |-> op, rev |-> rev, phase |-> phase, pending |-> pending,
                         next |-> next, work |-> work, adopt |-> adopt,
                         delete |-> delete, given |-> given, answer |-> answer,
                         landed |-> FALSE]
  <1>1. rev \in 0..(MaxRevision - 1)
    BY BoundAssumption DEF IInv, TypeOK, Prepare
  <1>2. record \in Plan
    BY <1>1 DEF IInv, TypeOK, Plan
  <1>3. /\ plan' = [plan EXCEPT ![p] = record]
        /\ pc' = [pc EXCEPT ![p] = "planned"]
        /\ UNCHANGED <<store, delivered, answered>>
    BY DEF Prepare
  <1>4. /\ plan'[p] = record
        /\ \A q \in Procs : q # p => plan'[q] = plan[q]
    BY <1>3 DEF IInv, TypeOK
  <1>5. custody' \in [Handles -> Fates]
    BY CustodyQuiet DEF Prepare, IInv, TypeOK
  <1>6. \A h \in Handles : custody'[h] = "adopted" <=> custody[h] = "adopted"
    BY CustodyQuiet DEF Prepare, IInv, TypeOK
  <1>7. TypeOK'
    <2>1. /\ pc' \in [Procs -> {"closed"} \cup Returned \cup Busy]
          /\ plan' \in [Procs -> Plan \cup Delivery \cup {None}]
      BY <1>2, <1>3 DEF IInv, TypeOK, Busy
    <2>2. \A q \in Procs :
            /\ pc'[q] \in {"planned", "recover"} => plan'[q] \in Plan
            /\ pc'[q] \in {"deliver", "settle"} => plan'[q] \in Delivery
            /\ pc'[q] \notin Busy => plan'[q] = None
      <3>. TAKE q \in Procs
      <3>1. CASE q = p
        BY <1>2, <1>3, <1>4, <3>1 DEF IInv, TypeOK, Busy
      <3>2. CASE q # p
        BY <1>3, <1>4, <3>2 DEF IInv, TypeOK
      <3>. QED BY <3>1, <3>2
    <2>3. held' \in [Procs -> SUBSET Handles] /\ strayAborts' \subseteq Handles
      BY DEF IInv, TypeOK, Prepare
    <2>. QED
      BY <1>3, <1>5, <2>1, <2>2, <2>3 DEF IInv, TypeOK, store
  <1>8. PlanSound(record)
    <2>1. /\ record.next = next /\ record.phase = phase
          /\ record.adopt = adopt /\ record.delete = delete /\ record.work = work
      OBVIOUS
    <2>. HIDE DEF record
    <2>. QED
      BY <2>1 DEF Sound, PlanSound
  <1>9. Coherent'
    <2>1. /\ record.rev = rev /\ record.phase = phase
          /\ record.pending = pending /\ record.landed = FALSE
      OBVIOUS
    <2>. HIDE DEF record
    <2>. QED
      BY <1>3, <1>4, <1>6, <1>8, <2>1, PlanStep
  <1>. QED
    BY <1>7, <1>9 DEF IInv, Coherent

-----------------------------------------------------------------------------
(* Committing                                                              *)

\* The pc and plan part of TypeOK.
ControlOK ==
  /\ pc \in [Procs -> {"closed"} \cup Returned \cup Busy]
  /\ plan \in [Procs -> Plan \cup Delivery \cup {None}]
  /\ \A p \in Procs :
       /\ pc[p] \in {"planned", "recover"} => plan[p] \in Plan
       /\ pc[p] \in {"deliver", "settle"} => plan[p] \in Delivery
       /\ pc[p] \notin Busy => plan[p] = None

\* A call that ends, in whatever way, drops its plan and touches no other.
LEMMA FinishStep ==
  ASSUME TypeOK, NEW p \in Procs, NEW r \in {"closed"} \cup Returned,
         pc' = [pc EXCEPT ![p] = r], plan' = [plan EXCEPT ![p] = None]
  PROVE  /\ ControlOK'
         /\ \A q \in Procs : Planning(q)' => /\ q # p
                                             /\ Planning(q)
                                             /\ plan'[q] = plan[q]
  <1>1. /\ pc' \in [Procs -> {"closed"} \cup Returned \cup Busy]
        /\ plan' \in [Procs -> Plan \cup Delivery \cup {None}]
    BY DEF TypeOK
  <1>2. \A q \in Procs :
          /\ pc'[q] \in {"planned", "recover"} => plan'[q] \in Plan
          /\ pc'[q] \in {"deliver", "settle"} => plan'[q] \in Delivery
          /\ pc'[q] \notin Busy => plan'[q] = None
    BY DEF TypeOK, Returned, Busy
  <1>3. \A q \in Procs : Planning(q)' => q # p /\ Planning(q) /\ plan'[q] = plan[q]
    BY DEF TypeOK, Planning, Returned
  <1>. QED
    BY <1>1, <1>2, <1>3 DEF ControlOK

\* A snapshot owns private handles only.
LEMMA OwnedHandles ==
  ASSUME NEW ph \in Phase
  PROVE  Owned(ph) \subseteq XHandles \cup KHandles
  BY DEF Owned, Phase, Prekey, Session

\* A durable step overtakes every plan but the one that made it.
LEMMA OvertakenStep ==
  ASSUME IInv, rev' = rev + 1, NEW q \in Procs, Planning(q), plan'[q] = plan[q]
  PROVE  (PlanSound(plan[q]) /\ SnapshotCoherent(plan[q]))'
  <1>1. PlanSound(plan[q]) /\ SnapshotCoherent(plan[q])
    BY DEF IInv
  <1>2. plan[q] \in Plan /\ rev \in Nat
    BY BoundAssumption DEF IInv, TypeOK, Planning
  <1>3. plan[q].rev \in Nat
    BY <1>2, BoundAssumption DEF Plan
  <1>4. PlanSound(plan[q])'
    BY <1>1 DEF PlanSound
  <1>5. SnapshotCoherent(plan[q])'
    BY <1>1, <1>2, <1>3 DEF SnapshotCoherent
  <1>. QED
    BY <1>4, <1>5

\* Applying a plan made from the current revision.
LEMMA ApplyStep ==
  ASSUME IInv, NEW p \in Procs, pc[p] = "planned",
         Applicable(plan[p]), Apply(plan[p])
  PROVE  /\ rev' \in 0..MaxRevision /\ rev' = rev + 1
         /\ phase' \in Phase /\ pending' \subseteq Item
         /\ custody' \in [Handles -> Fates]
         /\ HandleCoherence'
         /\ PhaseShape(phase)' /\ PairsDisjoint(phase.active)'
        /\ (Deleted => pending = {})'
  <1>. DEFINE pl == plan[p]
  <1>1. pl \in Plan /\ PlanSound(pl) /\ SnapshotCoherent(pl)
    BY DEF IInv, TypeOK, Planning
  <1>2. /\ pl.rev \in 0..(MaxRevision - 1) /\ pl.next \in Phase /\ pl.work \subseteq Item
        /\ pl.adopt \subseteq Handles /\ pl.delete \subseteq Handles
    BY <1>1 DEF Plan
  <1>3. rev = pl.rev /\ phase = pl.phase
    BY <1>1 DEF SnapshotCoherent, Applicable
  <1>4. rev' = rev + 1 /\ phase' = pl.next /\ pending' = pl.work
    BY DEF Apply
  <1>5. custody' = Mutate(custody, pl)
    BY DEF Apply
  <1>. HIDE DEF pl
  <1>6. rev' \in 0..MaxRevision
    BY <1>2, <1>3, <1>4, BoundAssumption
  <1>7. custody' \in [Handles -> Fates]
    BY <1>5 DEF Mutate, IInv, TypeOK, Fates
  <1>8. Owned(phase') = (Owned(phase) \ pl.delete) \cup pl.adopt /\ pl.adopt \cap pl.delete = {}
    BY <1>1, <1>3, <1>4 DEF PlanSound
  <1>9. HandleCoherence'
    <2>1. ASSUME NEW h \in XHandles \cup KHandles
          PROVE  custody'[h] = "adopted" <=> h \in Owned(phase')
      <3>1. h \in Handles /\ (custody[h] = "adopted" <=> h \in Owned(phase))
        BY DEF Handles, IInv, HandleCoherence
      <3>2. custody'[h] = "adopted" <=> h \notin pl.delete /\ (h \in pl.adopt \/ custody[h] = "adopted")
        BY <1>5, <3>1 DEF Mutate
      <3>. QED
        BY <1>8, <3>1, <3>2
    <2>. QED
      BY <2>1 DEF HandleCoherence, Owned
  <1>10. PhaseShape(phase')
    BY <1>1, <1>4 DEF PlanSound
  <1>11. pl.adopt \cap Owned(phase) = {}
    <2>1. \A h \in pl.adopt : custody[h] = "staged"
      BY DEF Applicable, pl
    <2>2. Owned(phase) \subseteq XHandles \cup KHandles
      BY OwnedHandles DEF IInv, TypeOK
    <2>. QED
      BY <2>1, <2>2 DEF IInv, HandleCoherence
  <1>12. PairsDisjoint(phase'.active)
    BY <1>1, <1>3, <1>4, <1>11 DEF PlanSound, IInv
  <1>13. (Deleted => pending = {})'
    BY <1>1, <1>4 DEF PlanSound, Deleted
  <1>. QED
    BY <1>2, <1>4, <1>6, <1>7, <1>9, <1>10, <1>12, <1>13 DEF PhaseShape, PairsDisjoint

\* Ok(successor).
LEMMA CasCommitsStep ==
  ASSUME IInv, NEW p \in Procs, CasCommits(p)
  PROVE  IInv'
  <1>1. /\ rev' \in 0..MaxRevision /\ rev' = rev + 1
        /\ phase' \in Phase /\ pending' \subseteq Item
        /\ custody' \in [Handles -> Fates]
        /\ HandleCoherence'
        /\ PhaseShape(phase)' /\ PairsDisjoint(phase.active)'
        /\ (Deleted => pending = {})'
    BY ApplyStep DEF CasCommits
  <1>2. /\ ControlOK'
        /\ \A q \in Procs : Planning(q)' => Planning(q) /\ plan'[q] = plan[q]
    BY FinishStep DEF CasCommits, IInv, Returned
  <1>3. plan[p] \in Plan
    BY DEF CasCommits, IInv, TypeOK
  <1>4. answered' \subseteq Answer
    BY <1>3 DEF CasCommits, IInv, TypeOK, Plan
  <1>5. TypeOK'
    BY <1>1, <1>2, <1>4 DEF CasCommits, IInv, TypeOK, ControlOK
  <1>. QED
    BY <1>1, <1>2, <1>5, OvertakenStep DEF IInv

\* Err(_) from a swap the backend nevertheless applied.
LEMMA CasUncertainStep ==
  ASSUME IInv, NEW p \in Procs, CasUncertain(p)
  PROVE  IInv'
  <1>1. /\ rev' \in 0..MaxRevision /\ rev' = rev + 1
        /\ phase' \in Phase /\ pending' \subseteq Item
        /\ custody' \in [Handles -> Fates]
        /\ HandleCoherence'
        /\ PhaseShape(phase)' /\ PairsDisjoint(phase.active)'
        /\ (Deleted => pending = {})'
    BY ApplyStep DEF CasUncertain
  <1>. DEFINE pl == plan[p]
              mine == [pl EXCEPT !.landed = TRUE]
  <1>2. pl \in Plan /\ PlanSound(pl) /\ SnapshotCoherent(pl)
    BY DEF CasUncertain, IInv, TypeOK, Planning
  <1>3. /\ plan' = [plan EXCEPT ![p] = mine]
        /\ pc' = [pc EXCEPT ![p] = "recover"]
        /\ UNCHANGED <<held, delivered, answered, strayAborts>>
    BY DEF CasUncertain
  <1>4. rev = pl.rev /\ phase' = pl.next /\ pending' = pl.work
    BY DEF CasUncertain, Applicable, Apply
  <1>5. /\ mine \in Plan
        /\ mine.rev = pl.rev /\ mine.phase = pl.phase /\ mine.pending = pl.pending
        /\ mine.next = pl.next /\ mine.work = pl.work
        /\ mine.adopt = pl.adopt /\ mine.delete = pl.delete
    BY <1>2 DEF Plan
  <1>. HIDE DEF mine, pl
  <1>6. plan'[p] = mine /\ \A q \in Procs : q # p => plan'[q] = plan[q]
    BY <1>3 DEF IInv, TypeOK
  <1>7. TypeOK'
    <2>1. /\ pc' \in [Procs -> {"closed"} \cup Returned \cup Busy]
          /\ plan' \in [Procs -> Plan \cup Delivery \cup {None}]
      BY <1>3, <1>5 DEF IInv, TypeOK, Busy
    <2>2. \A q \in Procs :
            /\ pc'[q] \in {"planned", "recover"} => plan'[q] \in Plan
            /\ pc'[q] \in {"deliver", "settle"} => plan'[q] \in Delivery
            /\ pc'[q] \notin Busy => plan'[q] = None
      BY <1>3, <1>5, <1>6 DEF IInv, TypeOK, Busy
    <2>. QED
      BY <1>1, <1>3, <2>1, <2>2 DEF IInv, TypeOK
  <1>8. ASSUME NEW q \in Procs, Planning(q)'
        PROVE  (PlanSound(plan[q]) /\ SnapshotCoherent(plan[q]))'
    <2>1. CASE q = p
      <3>1. PlanSound(mine)
        BY <1>2, <1>5 DEF PlanSound
      <3>2. /\ mine.rev <= rev' /\ mine.rev # rev'
            /\ phase' = mine.next /\ pending' = mine.work
        BY <1>1, <1>4, <1>5, BoundAssumption DEF IInv, TypeOK
      <3>. QED
        BY <1>6, <2>1, <3>1, <3>2 DEF PlanSound, SnapshotCoherent
    <2>2. CASE q # p
      <3>1. Planning(q) /\ plan'[q] = plan[q]
        BY <1>3, <1>6, <1>8, <2>2 DEF Planning, IInv, TypeOK
      <3>. QED
        BY <1>1, <3>1, OvertakenStep
    <2>. QED BY <2>1, <2>2
  <1>. QED
    BY <1>1, <1>7, <1>8 DEF IInv

\* Err(_) and nothing applied: the plan is kept for classification.
LEMMA CasRejectsStep ==
  ASSUME IInv, NEW p \in Procs, CasRejects(p)
  PROVE  IInv'
  <1>1. TypeOK'
    <2>1. pc' \in [Procs -> {"closed"} \cup Returned \cup Busy]
      BY DEF CasRejects, IInv, TypeOK, Busy
    <2>2. \A q \in Procs :
            /\ pc'[q] \in {"planned", "recover"} => plan'[q] \in Plan
            /\ pc'[q] \in {"deliver", "settle"} => plan'[q] \in Delivery
            /\ pc'[q] \notin Busy => plan'[q] = None
      BY DEF CasRejects, IInv, TypeOK, Busy
    <2>. QED
      BY <2>1, <2>2 DEF CasRejects, IInv, TypeOK, store
  <1>2. \A q \in Procs : Planning(q)' => Planning(q) /\ plan'[q] = plan[q]
    BY DEF CasRejects, Planning, IInv, TypeOK
  <1>3. custody' = custody /\ UNCHANGED store
    BY DEF CasRejects
  <1>4. Coherent'
    BY <1>2, <1>3, QuietStep
  <1>. QED
    BY <1>1, <1>4 DEF IInv, Coherent

\* A call that ends without touching the durable state, whatever the custody
\* aborts and the caller keeps.
LEMMA QuietFinish ==
  ASSUME IInv, NEW p \in Procs, NEW r \in {"closed"} \cup Returned,
         pc' = [pc EXCEPT ![p] = r], plan' = [plan EXCEPT ![p] = None],
         UNCHANGED store,
         custody' \in [Handles -> Fates],
         \A h \in Handles : custody'[h] = "adopted" <=> custody[h] = "adopted",
         held' \in [Procs -> SUBSET Handles], delivered' \subseteq Item,
         answered' \subseteq Answer, strayAborts' \subseteq Handles
  PROVE  IInv'
  <1>1. /\ ControlOK'
        /\ \A q \in Procs : Planning(q)' => Planning(q) /\ plan'[q] = plan[q]
    BY FinishStep DEF IInv
  <1>2. TypeOK'
    BY <1>1 DEF IInv, TypeOK, ControlOK, store
  <1>3. Coherent'
    BY <1>1, QuietStep
  <1>. QED
    BY <1>2, <1>3 DEF IInv, Coherent

\* What the caller keeps after a retryable error is a set of handles.
LEMMA StayUncertainTypes ==
  ASSUME IInv, NEW p \in Procs, Planning(p), StayUncertain(p)
  PROVE  /\ held' \in [Procs -> SUBSET Handles]
         /\ delivered' \subseteq Item /\ answered' \subseteq Answer
         /\ strayAborts' \subseteq Handles
  <1>1. plan[p].given \subseteq Handles
    BY DEF Planning, IInv, TypeOK, Plan
  <1>. QED
    BY <1>1 DEF StayUncertain, IInv, TypeOK

\* Ok(_) with a revision that is not the successor.
LEMMA CasMisreportsStep ==
  ASSUME IInv, NEW p \in Procs, CasMisreports(p)
  PROVE  IInv'
  <1>1. pc[p] = "planned" /\ StayUncertain(p) /\ Planning(p)
    BY DEF CasMisreports, Planning
  <1>2. /\ held' \in [Procs -> SUBSET Handles]
        /\ delivered' \subseteq Item /\ answered' \subseteq Answer
        /\ strayAborts' \subseteq Handles
    BY <1>1, StayUncertainTypes
  <1>3. CASE Applicable(plan[p]) /\ Apply(plan[p])
    <2>1. /\ rev' \in 0..MaxRevision /\ rev' = rev + 1
          /\ phase' \in Phase /\ pending' \subseteq Item
          /\ custody' \in [Handles -> Fates]
          /\ HandleCoherence'
          /\ PhaseShape(phase)' /\ PairsDisjoint(phase.active)'
        /\ (Deleted => pending = {})'
      BY <1>1, <1>3, ApplyStep
    <2>2. /\ ControlOK'
          /\ \A q \in Procs : Planning(q)' => Planning(q) /\ plan'[q] = plan[q]
      BY <1>1, FinishStep DEF StayUncertain, IInv, Returned
    <2>3. TypeOK'
      BY <1>2, <2>1, <2>2 DEF TypeOK, ControlOK
    <2>. QED
      BY <2>1, <2>2, <2>3, OvertakenStep DEF IInv
  <1>4. CASE UNCHANGED <<store, custody>>
    <2>1. custody' = custody /\ custody \in [Handles -> Fates]
      BY <1>4 DEF IInv, TypeOK
    <2>. QED
      BY <1>1, <1>2, <1>4, <2>1, QuietFinish DEF StayUncertain, Returned
  <1>. QED
    BY <1>3, <1>4 DEF CasMisreports

-----------------------------------------------------------------------------
(* Classifying                                                             *)

\* RecoverCommitted, RecoverRejected, RecoverUncertain, RecoverLoadFails: the
\* snapshot is read and nothing durable changes.
LEMMA RecoverStep ==
  ASSUME IInv, NEW p \in Procs,
         RecoverCommitted(p) \/ RecoverRejected(p)
           \/ RecoverUncertain(p) \/ RecoverLoadFails(p)
  PROVE  IInv'
  <1>1. pc[p] = "recover" /\ Planning(p)
    BY DEF RecoverCommitted, RecoverRejected, RecoverUncertain, RecoverLoadFails, Planning
  <1>2. plan[p] \in Plan /\ plan[p].given \subseteq Handles
        /\ plan[p].answer \in Answer \cup {None}
    BY <1>1 DEF IInv, TypeOK, Plan
  <1>3. custody \in [Handles -> Fates]
    BY DEF IInv, TypeOK
  <1>4. CASE RecoverCommitted(p)
    <2>1. answered' \subseteq Answer
      BY <1>2, <1>4 DEF RecoverCommitted, IInv, TypeOK
    <2>2. /\ held' \in [Procs -> SUBSET Handles]
          /\ delivered' \subseteq Item /\ strayAborts' \subseteq Handles
          /\ custody' = custody /\ UNCHANGED store
      BY <1>4 DEF RecoverCommitted, IInv, TypeOK
    <2>. QED
      BY <1>3, <1>4, <2>1, <2>2, QuietFinish DEF RecoverCommitted, Returned
  <1>5. CASE RecoverRejected(p)
    <2>1. /\ custody' \in [Handles -> Fates]
          /\ \A h \in Handles : custody'[h] = "adopted" <=> custody[h] = "adopted"
      BY <1>3, <1>5, CustodyQuiet DEF RecoverRejected
    <2>2. /\ held' \in [Procs -> SUBSET Handles]
          /\ delivered' \subseteq Item /\ answered' \subseteq Answer
          /\ UNCHANGED store
      BY <1>5 DEF RecoverRejected, IInv, TypeOK
    <2>3. strayAborts' \subseteq Handles
      BY <1>2, <1>5 DEF RecoverRejected, IInv, TypeOK
    <2>. QED
      BY <1>5, <2>1, <2>2, <2>3, QuietFinish DEF RecoverRejected, Returned
  <1>6. CASE RecoverUncertain(p) \/ RecoverLoadFails(p)
    <2>1. StayUncertain(p) /\ UNCHANGED <<store, custody>>
      BY <1>6 DEF RecoverUncertain, RecoverLoadFails
    <2>2. /\ held' \in [Procs -> SUBSET Handles]
          /\ delivered' \subseteq Item /\ answered' \subseteq Answer
          /\ strayAborts' \subseteq Handles
      BY <1>1, <2>1, StayUncertainTypes
    <2>. QED
      BY <1>3, <2>1, <2>2, QuietFinish DEF StayUncertain, Returned
  <1>. QED
    BY <1>4, <1>5, <1>6

-----------------------------------------------------------------------------
(* Opening, crashing and delivering                                        *)

LEMMA OpenStep ==
  ASSUME IInv, NEW p \in Procs, Open(p)
  PROVE  IInv'
  <1>1. plan[p] = None /\ plan' = plan /\ pc[p] = "closed"
    BY DEF Open, IInv, TypeOK, Returned, Busy
  <1>2. plan' = [plan EXCEPT ![p] = None]
    BY <1>1 DEF IInv, TypeOK
  <1>. QED
    BY <1>2, QuietFinish DEF Open, IInv, TypeOK, Returned

LEMMA CrashStep ==
  ASSUME IInv, NEW p \in Procs, Crash(p)
  PROVE  IInv'
  <1>1. held' \in [Procs -> SUBSET Handles]
    BY DEF Crash, IInv, TypeOK
  <1>. QED
    BY <1>1, QuietFinish DEF Crash, IInv, TypeOK

LEMMA DispatchStep ==
  ASSUME IInv, NEW p \in Procs, Dispatch(p)
  PROVE  IInv'
  <1>1. pc[p] \in Returned
    BY DEF Dispatch, Calling
  <1>2. CASE Refuse(p, {})
    BY <1>1, <1>2, RefuseStep
  <1>3. ASSUME NEW i \in pending,
               pc' = [pc EXCEPT ![p] = "deliver"],
               plan' = [plan EXCEPT ![p] = [rev |-> rev, item |-> i]],
               UNCHANGED <<store, custody, held, delivered, answered, strayAborts>>
        PROVE  IInv'
    <2>1. [rev |-> rev, item |-> i] \in Delivery
      BY DEF IInv, TypeOK, Delivery
    <2>2. TypeOK'
      <3>1. /\ pc' \in [Procs -> {"closed"} \cup Returned \cup Busy]
            /\ plan' \in [Procs -> Plan \cup Delivery \cup {None}]
        BY <1>3, <2>1 DEF IInv, TypeOK, Busy
      <3>2. \A q \in Procs :
              /\ pc'[q] \in {"planned", "recover"} => plan'[q] \in Plan
              /\ pc'[q] \in {"deliver", "settle"} => plan'[q] \in Delivery
              /\ pc'[q] \notin Busy => plan'[q] = None
        BY <1>3, <2>1 DEF IInv, TypeOK, Busy
      <3>. QED
        BY <1>3, <3>1, <3>2 DEF IInv, TypeOK, store
    <2>3. \A q \in Procs : Planning(q)' => Planning(q) /\ plan'[q] = plan[q]
      BY <1>3 DEF Planning, IInv, TypeOK
    <2>4. Coherent'
      BY <1>3, <2>3, QuietStep
    <2>. QED
      BY <2>2, <2>4 DEF IInv, Coherent
  <1>. QED
    BY <1>2, <1>3 DEF Dispatch

LEMMA DeliverStep ==
  ASSUME IInv, NEW p \in Procs, DeliverSucceeds(p) \/ DeliverFails(p)
  PROVE  IInv'
  <1>1. pc[p] = "deliver" /\ plan[p].item \in Item
    BY DEF DeliverSucceeds, DeliverFails, IInv, TypeOK, Delivery
  <1>2. CASE DeliverSucceeds(p)
    <2>1. /\ pc' \in [Procs -> {"closed"} \cup Returned \cup Busy]
          /\ \A q \in Procs :
               /\ pc'[q] \in {"planned", "recover"} => plan'[q] \in Plan
               /\ pc'[q] \in {"deliver", "settle"} => plan'[q] \in Delivery
               /\ pc'[q] \notin Busy => plan'[q] = None
      BY <1>1, <1>2 DEF DeliverSucceeds, IInv, TypeOK, Busy
    <2>2. TypeOK'
      BY <1>1, <1>2, <2>1 DEF DeliverSucceeds, IInv, TypeOK, store
    <2>3. \A q \in Procs : Planning(q)' => Planning(q) /\ plan'[q] = plan[q]
      BY <1>2 DEF DeliverSucceeds, Planning, IInv, TypeOK
    <2>4. Coherent'
      BY <1>2, <2>3, QuietStep DEF DeliverSucceeds
    <2>. QED
      BY <2>2, <2>4 DEF IInv, Coherent
  <1>3. CASE DeliverFails(p)
    <2>1. delivered' \subseteq Item
      BY <1>1, <1>3 DEF DeliverFails, IInv, TypeOK
    <2>. QED
      BY <1>3, <2>1, QuietFinish DEF DeliverFails, IInv, TypeOK, Returned
  <1>. QED
    BY <1>2, <1>3

LEMMA SettleStep ==
  ASSUME IInv, NEW p \in Procs, SettleApplies(p) \/ SettleFails(p)
  PROVE  IInv'
  <1>1. CASE SettleApplies(p)
    <2>1. PICK r \in {"ok", "fail"} : pc' = [pc EXCEPT ![p] = r]
      BY <1>1 DEF SettleApplies
    <2>2. /\ ControlOK'
          /\ \A q \in Procs : Planning(q)' => Planning(q) /\ plan'[q] = plan[q]
      BY <1>1, <2>1, FinishStep DEF SettleApplies, IInv, Returned
    <2>3. rev' = rev + 1 /\ rev' \in 0..MaxRevision
      BY <1>1, BoundAssumption DEF SettleApplies, IInv, TypeOK
    <2>4. TypeOK'
      BY <1>1, <2>2, <2>3 DEF SettleApplies, IInv, TypeOK, ControlOK
    <2>5. HandleCoherence' /\ PhaseShape(phase)' /\ PairsDisjoint(phase.active)'
      BY <1>1 DEF SettleApplies, IInv, HandleCoherence, PhaseShape, PairsDisjoint
    <2>6. (Deleted => pending = {})'
      BY <1>1 DEF SettleApplies, IInv, Deleted
    <2>. QED
      BY <2>2, <2>3, <2>4, <2>5, <2>6, OvertakenStep DEF IInv
  <1>2. CASE SettleFails(p)
    BY <1>2, QuietFinish DEF SettleFails, IInv, TypeOK, Returned
  <1>. QED
    BY <1>1, <1>2

-----------------------------------------------------------------------------
(* The operations                                                          *)

LEMMA AdmitPrekeyStep ==
  ASSUME IInv, NEW p \in Procs, AdmitPrekey(p)
  PROVE  IInv'
  <1>1. pc[p] \in Returned
    BY DEF AdmitPrekey, Calling
  <1>2. PICK seq \in 1..MaxSeq, x \in Offered(p, XHandles), k \in Offered(p, KHandles) :
          LET bundle == [seq |-> seq, x |-> x, k |-> k] IN
          \/ /\ phase.kind = "ResponderReady"
             /\ MayAdmit(seq)
             /\ Prepare(p, "admit_prekey", {x, k}, {},
                        [phase EXCEPT !.high = seq, !.active = @ \cup {bundle}],
                        {x, k}, {}, pending, [type |-> "Bundle", val |-> bundle])
          \/ Refuse(p, {x, k})
    BY DEF AdmitPrekey
  <1>3. x \in XHandles /\ k \in KHandles /\ {x, k} \in SUBSET Handles
    BY DEF Offered, Handles
  <1>4. CASE Refuse(p, {x, k})
    BY <1>1, <1>3, <1>4, RefuseStep
  <1>. DEFINE bundle == [seq |-> seq, x |-> x, k |-> k]
              next   == [phase EXCEPT !.high = seq, !.active = @ \cup {bundle}]
              answer == [type |-> "Bundle", val |-> bundle]
  <1>5. CASE /\ phase.kind = "ResponderReady"
             /\ MayAdmit(seq)
             /\ Prepare(p, "admit_prekey", {x, k}, {}, next, {x, k}, {}, pending, answer)
    <2>1. /\ phase \in Phase /\ PhaseShape(phase) /\ PairsDisjoint(phase.active)
          /\ seq \in Nat /\ phase.high \in Nat /\ phase.high < seq
      BY <1>5, BoundAssumption DEF IInv, TypeOK, MayAdmit, Phase
    <2>2. bundle \in Prekey /\ answer \in Answer
      BY <1>3 DEF Prekey, Answer
    <2>3. next \in Phase
      BY <2>1, <2>2 DEF Phase
    <2>4. /\ next.active = phase.active \cup {bundle} /\ next.high = seq
          /\ next.kind = phase.kind /\ next.session = phase.session
          /\ next.packet = phase.packet
      BY <2>1 DEF Phase
    <2>5. bundle.seq = seq /\ bundle.x = x /\ bundle.k = k
      OBVIOUS
    <2>. HIDE DEF next, bundle
    <2>6. \A a \in phase.active : a.seq \in Nat /\ a.seq <= phase.high
      BY <2>1 DEF PhaseShape, Phase, Prekey
    <2>7. PhaseShape(next)
      BY <1>5, <2>1, <2>4, <2>5, <2>6 DEF PhaseShape
    <2>8. Owned(next) = (Owned(phase) \ {}) \cup {x, k}
      BY <2>4, <2>5 DEF Owned
    <2>9. {x, k} \cap Owned(phase) = {} => PairsDisjoint(next.active)
      BY <2>1, <2>4, <2>5, <2>6 DEF PairsDisjoint, Owned
    <2>10. Sound(next, {x, k}, {}, pending)
      BY <1>5, <2>1, <2>4, <2>7, <2>8, <2>9 DEF Sound
    <2>11. pending \in SUBSET Item
      BY DEF IInv, TypeOK
    <2>. HIDE DEF answer
    <2>. QED
      BY <1>3, <1>5, <2>2, <2>3, <2>10, <2>11, PrepareStep DEF Operations
  <1>. QED
    BY <1>2, <1>4, <1>5

LEMMA AcceptFirstPacketStep ==
  ASSUME IInv, NEW p \in Procs, AcceptFirstPacket(p)
  PROVE  IInv'
  <1>1. pc[p] \in Returned
    BY DEF AcceptFirstPacket, Calling
  <1>. DEFINE Next1(packet) ==
                [phase EXCEPT !.kind = "Established", !.active = {},
                              !.packet = packet,
                              !.session = NewSession(packet.prekey.x, FALSE)]
  <1>2. PICK packet \in InboundPackets :
          \/ Reply(p, {}, {[type |-> "Accept", val |-> packet]})
          \/ /\ phase.kind = "ResponderReady"
             /\ packet.prekey \in phase.active
             /\ Prepare(p, "accept_first_packet", {}, {}, Next1(packet),
                        {}, ConsumedBy(packet.prekey), pending,
                        [type |-> "Accept", val |-> packet])
          \/ Refuse(p, {})
    BY DEF AcceptFirstPacket
  <1>. DEFINE chosen == packet.prekey
              answer == [type |-> "Accept", val |-> packet]
              next   == Next1(packet)
  <1>3. packet \in InboundFirst /\ chosen \in Prekey
    BY DEF IInv, TypeOK, InboundPackets, InboundFirst, Answer
  <1>4. answer \in Answer
    BY <1>3 DEF Answer
  <1>5. CASE Reply(p, {}, {answer})
    BY <1>1, <1>4, <1>5, ReplyStep
  <1>6. CASE Refuse(p, {})
    BY <1>1, <1>6, RefuseStep
  <1>7. CASE /\ phase.kind = "ResponderReady"
             /\ chosen \in phase.active
             /\ Prepare(p, "accept_first_packet", {}, {}, next,
                        {}, ConsumedBy(chosen), pending, answer)
    <2>1. /\ phase \in Phase /\ PhaseShape(phase) /\ PairsDisjoint(phase.active)
          /\ phase.active \subseteq Prekey
      BY DEF IInv, TypeOK, Phase
    <2>2. phase.session = None
      BY <1>7, <2>1 DEF PhaseShape
    <2>3. /\ NewSession(chosen.x, FALSE) \in Session
          /\ NewSession(chosen.x, FALSE).x = chosen.x
      BY <1>3 DEF NewSession, Session, Prekey
    <2>4. next \in Phase
      BY <1>3, <2>1, <2>3 DEF Phase, Kinds
    <2>5. /\ next.kind = "Established" /\ next.active = {}
          /\ next.session = NewSession(chosen.x, FALSE)
          /\ next.high = phase.high /\ phase.high \in Nat
      BY <2>1 DEF Phase
    <2>. HIDE DEF next
    <2>6. next.session # None
      BY <2>3, <2>5, NoneAssumption
    <2>7. PhaseShape(next)
      BY <2>5, <2>6 DEF PhaseShape
    <2>8. Owned(next) = {chosen.x}
      BY <2>3, <2>5, <2>6 DEF Owned
    <2>9. chosen.x \in Owned(phase)
      BY <1>7 DEF Owned
    <2>10. chosen.x \notin ConsumedBy(chosen)
      <3>1. \A a \in phase.active : a.k # chosen.x
        BY <1>3, <2>1, HandleAssumption DEF Prekey
      <3>2. \A a \in phase.active \ {chosen} : a.x # chosen.x
        BY <1>7, <2>1 DEF PairsDisjoint
      <3>. QED
        BY <3>1, <3>2 DEF ConsumedBy
    <2>11. Owned(phase) \ {chosen.x} \subseteq ConsumedBy(chosen)
      BY <2>2 DEF Owned, ConsumedBy
    <2>12. ConsumedBy(chosen) \subseteq Handles
      BY <2>1 DEF ConsumedBy, Prekey, Handles
    <2>13. PairsDisjoint(next.active)
      BY <2>5 DEF PairsDisjoint
    <2>14. Sound(next, {}, ConsumedBy(chosen), pending)
      BY <1>7, <2>1, <2>5, <2>7, <2>8, <2>9, <2>10, <2>11, <2>13 DEF Sound
    <2>15. pending \in SUBSET Item
      BY DEF IInv, TypeOK
    <2>. HIDE DEF answer, chosen
    <2>. QED
      BY <1>4, <1>7, <2>4, <2>12, <2>14, <2>15, PrepareStep DEF Operations
  <1>. QED
    BY <1>2, <1>5, <1>6, <1>7

LEMMA CreateFirstPacketStep ==
  ASSUME IInv, NEW p \in Procs, CreateFirstPacket(p)
  PROVE  IInv'
  <1>1. pc[p] \in Returned
    BY DEF CreateFirstPacket, Calling
  <1>. DEFINE Packet(x, e) == [x |-> x, e |-> e]
              Next1(x, e) == [phase EXCEPT !.kind = "InitiatorAwaiting",
                                           !.packet = Packet(x, e),
                                           !.session = NewSession(x, TRUE)]
  <1>2. PICK x \in Offered(p, XHandles), e \in EHandles :
          \/ /\ phase.kind = "InitiatorAwaiting"
             /\ Reply(p, {x}, {[type |-> "First", val |-> phase.packet]})
          \/ /\ phase.kind = "InitiatorNew"
             /\ Prepare(p, "create_first_packet", {x}, {}, Next1(x, e),
                        {x}, {e}, pending, [type |-> "First", val |-> Packet(x, e)])
          \/ Refuse(p, {x})
    BY DEF CreateFirstPacket
  <1>3. x \in XHandles /\ {x} \in SUBSET Handles /\ {e} \in SUBSET Handles
    BY DEF Offered, Handles
  <1>4. CASE Refuse(p, {x})
    BY <1>1, <1>3, <1>4, RefuseStep
  <1>5. CASE /\ phase.kind = "InitiatorAwaiting"
             /\ Reply(p, {x}, {[type |-> "First", val |-> phase.packet]})
    <2>1. phase.packet \in OutboundFirst
      BY <1>5 DEF IInv, PhaseShape
    <2>2. {[type |-> "First", val |-> phase.packet]} \in SUBSET Answer
      BY <2>1 DEF Answer
    <2>. QED
      BY <1>1, <1>3, <1>5, <2>2, ReplyStep
  <1>. DEFINE next   == Next1(x, e)
              answer == [type |-> "First", val |-> Packet(x, e)]
  <1>6. CASE /\ phase.kind = "InitiatorNew"
             /\ Prepare(p, "create_first_packet", {x}, {}, next, {x}, {e}, pending, answer)
    <2>1. /\ phase \in Phase /\ PhaseShape(phase)
          /\ phase.active = {} /\ phase.session = None
      BY <1>6 DEF IInv, TypeOK, PhaseShape
    <2>2. /\ NewSession(x, TRUE) \in Session /\ NewSession(x, TRUE).x = x
      BY <1>3 DEF NewSession, Session
    <2>3. Packet(x, e) \in OutboundFirst /\ answer \in Answer
      BY <1>3 DEF OutboundFirst, Answer
    <2>4. next \in Phase
      BY <2>1, <2>2, <2>3 DEF Phase, Kinds
    <2>5. /\ next.kind = "InitiatorAwaiting" /\ next.active = {}
          /\ next.session = NewSession(x, TRUE) /\ next.packet = Packet(x, e)
          /\ next.high = phase.high /\ phase.high \in Nat
      BY <2>1 DEF Phase
    <2>. HIDE DEF next
    <2>6. next.session # None
      BY <2>2, <2>5, NoneAssumption
    <2>7. PhaseShape(next)
      BY <2>3, <2>5, <2>6 DEF PhaseShape
    <2>8. Owned(next) = {x} /\ Owned(phase) = {}
      BY <2>1, <2>2, <2>5, <2>6 DEF Owned
    <2>9. {x} \cap {e} = {}
      BY <1>3, HandleAssumption
    <2>10. PairsDisjoint(next.active)
      BY <2>5 DEF PairsDisjoint
    <2>11. Sound(next, {x}, {e}, pending)
      BY <1>6, <2>5, <2>7, <2>8, <2>9, <2>10 DEF Sound
    <2>12. pending \in SUBSET Item
      BY DEF IInv, TypeOK
    <2>. HIDE DEF answer
    <2>. QED
      BY <1>3, <1>6, <2>3, <2>4, <2>11, <2>12, PrepareStep DEF Operations
  <1>. QED
    BY <1>2, <1>4, <1>5, <1>6

LEMMA VerifySessionAcceptStep ==
  ASSUME IInv, NEW p \in Procs, VerifySessionAccept(p)
  PROVE  IInv'
  <1>1. pc[p] \in Returned
    BY DEF VerifySessionAccept, Calling
  <1>2. CASE Refuse(p, {})
    BY <1>1, <1>2, RefuseStep
  <1>. DEFINE next == [phase EXCEPT !.kind = "Established", !.packet = None]
  <1>3. CASE /\ phase.kind = "InitiatorAwaiting"
             /\ Prepare(p, "verify_session_accept", {}, {}, next, {}, {}, pending, None)
    <2>1. /\ phase \in Phase /\ PhaseShape(phase)
          /\ phase.active = {} /\ phase.session # None
      BY <1>3 DEF IInv, TypeOK, PhaseShape
    <2>2. next \in Phase
      BY <2>1 DEF Phase, Kinds
    <2>3. /\ next.kind = "Established" /\ next.active = {}
          /\ next.session = phase.session
          /\ next.high = phase.high /\ phase.high \in Nat
      BY <2>1 DEF Phase
    <2>. HIDE DEF next
    <2>4. Sound(next, {}, {}, pending)
      BY <1>3, <2>1, <2>3 DEF Sound, PhaseShape, Owned, PairsDisjoint
    <2>5. pending \in SUBSET Item
      BY DEF IInv, TypeOK
    <2>. QED
      BY <1>3, <2>2, <2>4, <2>5, PrepareStep DEF Operations
  <1>. QED
    BY <1>2, <1>3 DEF VerifySessionAccept

\* A live session: its parts, and what remains of PhaseShape.
LEMMA EstablishedShape ==
  ASSUME IInv, phase.kind = "Established"
  PROVE  /\ phase \in Phase /\ phase.active = {} /\ phase.session \in Session
         /\ Owned(phase) = {phase.session.x}
         /\ phase.session.x \in XHandles
         /\ custody[phase.session.x] = "adopted"
  <1>1. /\ phase \in Phase /\ phase.active = {} /\ phase.session \in Session
    BY DEF IInv, TypeOK, PhaseShape, Phase
  <1>2. Owned(phase) = {phase.session.x} /\ phase.session.x \in XHandles
    BY <1>1, NoneAssumption DEF Owned, Session
  <1>. QED
    BY <1>1, <1>2 DEF IInv, HandleCoherence

\* A commit that moves the session on and keeps its ratchet handle.
LEMMA SessionKept ==
  ASSUME IInv, phase.kind = "Established", NEW next \in Phase,
         next.kind = "Established", next.active = {},
         next.session \in Session, next.session.x = phase.session.x,
         next.high = phase.high, NEW work
  PROVE  Sound(next, {}, {}, work)
  <1>1. phase.high <= next.high
    BY EstablishedShape DEF Phase
  <1>. QED
    BY <1>1, EstablishedShape, NoneAssumption DEF Sound, PhaseShape, Owned, PairsDisjoint

\* A commit that replaces the ratchet handle by a staged one.
LEMMA SessionRekeyed ==
  ASSUME IInv, phase.kind = "Established", NEW next \in Phase,
         next.kind = "Established", next.active = {},
         NEW x \in XHandles, custody[x] \in {"free", "staged"},
         next.session \in Session, next.session.x = x,
         next.high = phase.high, NEW work
  PROVE  Sound(next, {x}, {phase.session.x}, work)
  <1>1. x # phase.session.x
    BY EstablishedShape
  <1>2. Owned(next) = {x}
    BY NoneAssumption DEF Owned
  <1>3. Owned(phase) = {phase.session.x}
    BY EstablishedShape
  <1>4. PhaseShape(next) /\ PairsDisjoint(next.active)
    BY NoneAssumption DEF PhaseShape, PairsDisjoint
  <1>5. phase.high <= next.high
    BY EstablishedShape DEF Phase
  <1>. QED
    BY <1>1, <1>2, <1>3, <1>4, <1>5 DEF Sound

\* Sealing a record keeps its session, and yields a pending item.
LEMMA SealedTypes ==
  ASSUME NEW s \in Session, NEW body \in Bodies
  PROVE  /\ AfterSend(s) \in Session /\ AfterSend(s).x = s.x
         /\ Sealed(s, body) \in Item
  BY DEF AfterSend, Sealed, Session, Item, PacketItem

LEMMA CarryingTypes ==
  ASSUME IInv, NEW new \in SUBSET Item
  PROVE  Carrying(new) \in SUBSET Item
  BY DEF Carrying, IInv, TypeOK

LEMMA SendRecordStep ==
  ASSUME IInv, NEW p \in Procs, SendRecord(p)
  PROVE  IInv'
  <1>1. pc[p] \in Returned
    BY DEF SendRecord, Calling
  <1>. DEFINE next == [phase EXCEPT !.session = AfterSend(@)]
  <1>2. PICK body \in Bodies :
          \/ /\ phase.kind = "Established"
             /\ Prepare(p, "send_record", {}, {}, next, {}, {},
                        Carrying({Sealed(phase.session, body)}), None)
          \/ Refuse(p, {})
    BY DEF SendRecord
  <1>3. CASE Refuse(p, {})
    BY <1>1, <1>3, RefuseStep
  <1>. DEFINE work == Carrying({Sealed(phase.session, body)})
  <1>4. CASE /\ phase.kind = "Established"
             /\ Prepare(p, "send_record", {}, {}, next, {}, {}, work, None)
    <2>1. phase \in Phase /\ phase.active = {} /\ phase.session \in Session
      BY <1>4, EstablishedShape
    <2>2. /\ next \in Phase /\ next.kind = "Established" /\ next.active = {}
          /\ next.session \in Session /\ next.session.x = phase.session.x
          /\ next.high = phase.high
      BY <1>4, <2>1, SealedTypes DEF Phase
    <2>3. work \in SUBSET Item
      BY <2>1, SealedTypes, CarryingTypes
    <2>. HIDE DEF next, work
    <2>4. Sound(next, {}, {}, work)
      BY <1>4, <2>2, SessionKept
    <2>. QED
      BY <1>4, <2>2, <2>3, <2>4, PrepareStep DEF Operations
  <1>. QED
    BY <1>2, <1>3, <1>4

LEMMA SendFirstRecordStep ==
  ASSUME IInv, NEW p \in Procs, SendFirstRecord(p)
  PROVE  IInv'
  <1>1. pc[p] \in Returned
    BY DEF SendFirstRecord, Calling
  <1>2. PICK body \in Bodies, x \in Offered(p, XHandles) :
          LET s == Bootstrapped(phase.session, x) IN
          \/ /\ phase.kind = "Established"
             /\ Prepare(p, "send_record", {x}, {},
                        [phase EXCEPT !.session = AfterSend(s)],
                        {x}, {phase.session.x}, Carrying({Sealed(s, body)}), None)
          \/ Refuse(p, {x})
    BY DEF SendFirstRecord
  <1>3. x \in XHandles /\ {x} \in SUBSET Handles
    BY DEF Offered, Handles
  <1>4. CASE Refuse(p, {x})
    BY <1>1, <1>3, <1>4, RefuseStep
  <1>. DEFINE s    == Bootstrapped(phase.session, x)
              next == [phase EXCEPT !.session = AfterSend(s)]
              work == Carrying({Sealed(s, body)})
  <1>5. CASE /\ phase.kind = "Established"
             /\ Prepare(p, "send_record", {x}, {}, next, {x}, {phase.session.x}, work, None)
    <2>1. /\ phase \in Phase /\ phase.active = {} /\ phase.session \in Session
          /\ phase.session.x \in XHandles
      BY <1>5, EstablishedShape
    <2>2. s \in Session /\ s.x = x
      BY <1>3, <2>1 DEF Bootstrapped, Session
    <2>. HIDE DEF s
    <2>3. /\ next \in Phase /\ next.kind = "Established" /\ next.active = {}
          /\ next.session \in Session /\ next.session.x = x
          /\ next.high = phase.high
      BY <1>5, <2>1, <2>2, SealedTypes DEF Phase
    <2>4. work \in SUBSET Item
      BY <2>2, SealedTypes, CarryingTypes
    <2>5. custody[x] \in {"free", "staged"}
      BY <1>5 DEF Prepare
    <2>6. {phase.session.x} \in SUBSET Handles
      BY <2>1 DEF Handles
    <2>. HIDE DEF next, work
    <2>7. Sound(next, {x}, {phase.session.x}, work)
      BY <1>3, <1>5, <2>3, <2>5, SessionRekeyed
    <2>. QED
      BY <1>3, <1>5, <2>3, <2>4, <2>6, <2>7, PrepareStep DEF Operations
  <1>. QED
    BY <1>2, <1>4, <1>5

\* The ratchet operations stay inside Session, and keep or take the handle.
LEMMA ReceivingTypes ==
  ASSUME NEW s \in Session, NEW record \in Records, NEW x \in XHandles
  PROVE  /\ AfterReceive(s, record) \in Session /\ AfterReceive(s, record).x = s.x
         /\ AfterSkipped(s, record) \in Session /\ AfterSkipped(s, record).x = s.x
         /\ AfterTransition(s, record, x) \in Session
         /\ AfterTransition(s, record, x).x = x
         /\ [kind |-> "Plaintext", record |-> record] \in Item
  <1>1. /\ record.dh \in Nat /\ record.pn \in Nat /\ record.n \in Nat
        /\ record.n + 1 \in Nat
    BY RecordAssumption
  <1>2. /\ s.nr \in Nat /\ s.ns \in Nat /\ s.peer \in Nat
        /\ s.skipped \in SUBSET (Nat \X Nat)
    BY DEF Session
  <1>3. ASSUME NEW dh \in Nat, NEW from \in Nat, NEW to \in Nat
        PROVE  Skipping(dh, from, to) \in SUBSET (Nat \X Nat)
    BY DEF Skipping
  <1>4. /\ s.skipped \cup Skipping(record.dh, s.nr, record.n) \in SUBSET (Nat \X Nat)
        /\ s.skipped \cup Skipping(s.peer, s.nr, record.pn) \in SUBSET (Nat \X Nat)
        /\ s.skipped \ {Coordinate(record)} \in SUBSET (Nat \X Nat)
    BY <1>1, <1>2, <1>3
  <1>5. AfterReceive(s, record) \in Session /\ AfterReceive(s, record).x = s.x
    BY <1>1, <1>4 DEF AfterReceive, Session
  <1>6. AfterSkipped(s, record) \in Session /\ AfterSkipped(s, record).x = s.x
    BY <1>4 DEF AfterSkipped, Session
  <1>7. /\ AfterTransition(s, record, x) \in Session
        /\ AfterTransition(s, record, x).x = x
    BY <1>1, <1>2, <1>4 DEF AfterTransition, Session
  <1>8. [kind |-> "Plaintext", record |-> record] \in Item
    BY DEF Item, PlaintextItem
  <1>. QED
    BY <1>5, <1>6, <1>7, <1>8

LEMMA ReceiveRecordStep ==
  ASSUME IInv, NEW p \in Procs, ReceiveRecord(p)
  PROVE  IInv'
  <1>1. pc[p] \in Returned
    BY DEF ReceiveRecord, Calling
  <1>. DEFINE Next1(t) == [phase EXCEPT !.session = t]
              Work(record) == Carrying({[kind |-> "Plaintext", record |-> record]})
              Keep(record, fresh, t) ==
                Prepare(p, "receive_record", {}, fresh, Next1(t), {}, {}, Work(record), None)
  <1>2. PICK record \in Records, fresh \in {{}} \cup {{x} : x \in Offered(p, XHandles)} :
          \/ /\ phase.kind = "Established"
             /\ Keep(record, fresh, AfterSkipped(phase.session, record))
          \/ /\ phase.kind = "Established"
             /\ Keep(record, fresh, AfterReceive(phase.session, record))
          \/ /\ phase.kind = "Established"
             /\ \E x \in fresh :
                  Prepare(p, "receive_record", fresh, {},
                          Next1(AfterReceive(AfterTransition(phase.session, record, x), record)),
                          {x}, {phase.session.x}, Work(record), None)
          \/ Refuse(p, fresh)
    BY DEF ReceiveRecord
  <1>3. fresh \in SUBSET Handles /\ fresh \subseteq XHandles
    BY DEF Offered, Handles
  <1>4. CASE Refuse(p, fresh)
    BY <1>1, <1>3, <1>4, RefuseStep
  <1>5. ASSUME phase.kind = "Established"
        PROVE  /\ phase \in Phase /\ phase.active = {} /\ phase.session \in Session
               /\ phase.session.x \in XHandles /\ {phase.session.x} \in SUBSET Handles
               /\ \A t \in Session :
                    /\ Next1(t) \in Phase /\ Next1(t).kind = "Established"
                    /\ Next1(t).active = {} /\ Next1(t).session = t
                    /\ Next1(t).high = phase.high
    <2>1. /\ phase \in Phase /\ phase.active = {} /\ phase.session \in Session
          /\ phase.session.x \in XHandles
      BY <1>5, EstablishedShape
    <2>. QED
      BY <1>5, <2>1 DEF Phase, Handles
  <1>6. ASSUME NEW x \in XHandles, phase.kind = "Established"
        PROVE  Work(record) \in SUBSET Item
    BY <1>5, <1>6, ReceivingTypes, CarryingTypes
  <1>7. ASSUME NEW t \in Session, phase.kind = "Established",
               t.x = phase.session.x, Keep(record, fresh, t)
        PROVE  IInv'
    <2>1. /\ Next1(t) \in Phase /\ Next1(t).kind = "Established"
          /\ Next1(t).active = {} /\ Next1(t).session = t
          /\ Next1(t).high = phase.high
      BY <1>5, <1>7
    <2>2. Work(record) \in SUBSET Item
      BY <1>5, <1>6, <1>7
    <2>. HIDE DEF Next1, Work
    <2>3. Sound(Next1(t), {}, {}, Work(record))
      BY <1>7, <2>1, SessionKept
    <2>. QED
      BY <1>3, <1>7, <2>1, <2>2, <2>3, PrepareStep DEF Operations
  <1>8. CASE /\ phase.kind = "Established"
             /\ Keep(record, fresh, AfterSkipped(phase.session, record))
    BY <1>5, <1>7, <1>8, ReceivingTypes
  <1>9. CASE /\ phase.kind = "Established"
             /\ Keep(record, fresh, AfterReceive(phase.session, record))
    BY <1>5, <1>7, <1>9, ReceivingTypes
  <1>10. ASSUME phase.kind = "Established", NEW x \in fresh,
                Prepare(p, "receive_record", fresh, {},
                        Next1(AfterReceive(AfterTransition(phase.session, record, x), record)),
                        {x}, {phase.session.x}, Work(record), None)
         PROVE  IInv'
    <2>. DEFINE t == AfterReceive(AfterTransition(phase.session, record, x), record)
    <2>1. x \in XHandles /\ {x} \in SUBSET Handles
      BY <1>3
    <2>2. t \in Session /\ t.x = x
      <3>1. phase.session \in Session
        BY <1>5, <1>10
      <3>2. /\ AfterTransition(phase.session, record, x) \in Session
            /\ AfterTransition(phase.session, record, x).x = x
        BY <2>1, <3>1, ReceivingTypes
      <3>. QED
        BY <2>1, <3>2, ReceivingTypes
    <2>3. custody[x] \in {"free", "staged"}
      BY <1>10 DEF Prepare
    <2>4. Prepare(p, "receive_record", fresh, {}, Next1(t),
                  {x}, {phase.session.x}, Work(record), None)
      BY <1>10
    <2>. HIDE DEF t
    <2>5. /\ Next1(t) \in Phase /\ Next1(t).kind = "Established"
          /\ Next1(t).active = {} /\ Next1(t).session = t
          /\ Next1(t).high = phase.high
      BY <1>5, <1>10, <2>2
    <2>6. Work(record) \in SUBSET Item
      BY <1>6, <1>10, <2>1
    <2>. HIDE DEF Next1, Work
    <2>7. Sound(Next1(t), {x}, {phase.session.x}, Work(record))
      BY <1>10, <2>1, <2>2, <2>3, <2>5, SessionRekeyed
    <2>. QED
      BY <1>3, <1>5, <1>10, <2>1, <2>4, <2>5, <2>6, <2>7, PrepareStep DEF Operations
  <1>. QED
    BY <1>2, <1>4, <1>8, <1>9, <1>10

LEMMA BootstrapCapabilitiesStep ==
  ASSUME IInv, NEW p \in Procs, BootstrapCapabilities(p)
  PROVE  IInv'
  <1>1. pc[p] \in Returned
    BY DEF BootstrapCapabilities, Calling
  <1>2. CASE Refuse(p, {})
    BY <1>1, <1>2, RefuseStep
  <1>. DEFINE next == [phase EXCEPT !.caps = 1]
  <1>3. CASE /\ phase.kind = "Established"
             /\ Prepare(p, "bootstrap_capabilities", {}, {}, next, {}, {}, pending, None)
    <2>1. phase \in Phase /\ phase.active = {} /\ phase.session \in Session
      BY <1>3, EstablishedShape
    <2>2. /\ next \in Phase /\ next.kind = "Established" /\ next.active = {}
          /\ next.session \in Session /\ next.session.x = phase.session.x
          /\ next.high = phase.high
      BY <1>3, <2>1 DEF Phase
    <2>3. pending \in SUBSET Item
      BY DEF IInv, TypeOK
    <2>. HIDE DEF next
    <2>4. Sound(next, {}, {}, pending)
      BY <1>3, <2>2, SessionKept
    <2>. QED
      BY <1>3, <2>2, <2>3, <2>4, PrepareStep DEF Operations
  <1>. QED
    BY <1>2, <1>3 DEF BootstrapCapabilities

LEMMA ApplyCapabilityFlowStep ==
  ASSUME IInv, NEW p \in Procs, ApplyCapabilityFlow(p)
  PROVE  IInv'
  <1>1. pc[p] \in Returned
    BY DEF ApplyCapabilityFlow, Calling
  <1>. DEFINE Next1(body) ==
                [phase EXCEPT !.session = AfterSend(@), !.caps = @ + 1, !.last = body]
  <1>2. PICK body \in Bodies :
          \/ /\ phase.kind = "Established"
             /\ Prepare(p, "apply_complete_capability_flow", {}, {}, Next1(body),
                        {}, {}, Carrying(FlowItems(body)), None)
          \/ Refuse(p, {})
    BY DEF ApplyCapabilityFlow
  <1>3. CASE Refuse(p, {})
    BY <1>1, <1>3, RefuseStep
  <1>. DEFINE next == Next1(body)
              work == Carrying(FlowItems(body))
  <1>4. CASE /\ phase.kind = "Established"
             /\ Prepare(p, "apply_complete_capability_flow", {}, {}, next, {}, {}, work, None)
    <2>1. phase \in Phase /\ phase.active = {} /\ phase.session \in Session
      BY <1>4, EstablishedShape
    <2>2. AfterSend(phase.session) \in Session
          /\ AfterSend(phase.session).x = phase.session.x
          /\ Sealed(phase.session, body) \in Item
      BY <2>1, SealedTypes
    <2>3. /\ next \in Phase /\ next.kind = "Established" /\ next.active = {}
          /\ next.session \in Session /\ next.session.x = phase.session.x
          /\ next.high = phase.high
      <3>1. phase.caps + 1 \in Nat /\ body \in Bodies \cup {None}
        BY <2>1 DEF Phase
      <3>. HIDE DEF work
      <3>. QED
        BY <1>4, <2>1, <2>2, <3>1 DEF Phase
    <2>4. FlowItems(body) \in SUBSET Item
      BY <2>1, <2>2 DEF FlowItems, Item, EffectItem, Phase
    <2>5. work \in SUBSET Item
      BY <2>4, CarryingTypes
    <2>. HIDE DEF next, work
    <2>6. Sound(next, {}, {}, work)
      BY <1>4, <2>3, SessionKept
    <2>. QED
      BY <1>4, <2>3, <2>5, <2>6, PrepareStep DEF Operations
  <1>. QED
    BY <1>2, <1>3, <1>4

LEMMA DeleteSessionStep ==
  ASSUME IInv, NEW p \in Procs, DeleteSession(p)
  PROVE  IInv'
  <1>1. pc[p] \in Returned
    BY DEF DeleteSession, Calling
  <1>2. CASE Refuse(p, {})
    BY <1>1, <1>2, RefuseStep
  <1>3. CASE Live /\ Prepare(p, "delete_session", {}, {}, Tombstone, {}, Owned(phase), {}, None)
    <2>1. phase \in Phase
      BY DEF IInv, TypeOK
    <2>2. /\ Tombstone \in Phase /\ Tombstone.kind = "Deleted"
          /\ Tombstone.active = {} /\ Tombstone.session = None
          /\ phase.high <= Tombstone.high
      BY <2>1 DEF Tombstone, EmptyPhase, Phase, Kinds
    <2>3. Owned(phase) \in SUBSET Handles
      BY <2>1, OwnedHandles DEF Handles
    <2>. HIDE DEF Tombstone
    <2>4. Sound(Tombstone, {}, Owned(phase), {})
      BY <1>3, <2>2 DEF Live, Deleted, Sound, PhaseShape, Owned, PairsDisjoint
    <2>. QED
      BY <1>3, <2>2, <2>3, <2>4, PrepareStep DEF Operations
  <1>. QED
    BY <1>2, <1>3 DEF DeleteSession

-----------------------------------------------------------------------------
(* The theorems                                                            *)

LEMMA InitInvariant ==
  ASSUME Init
  PROVE  IInv
  <1>1. TypeOK
    <2>1. InitialPhase \in Phase
      BY DEF InitialPhase, EmptyPhase, Phase, Kinds
    <2>2. rev \in 0..MaxRevision
      BY BoundAssumption DEF Init
    <2>. QED
      BY <2>1, <2>2 DEF Init, TypeOK, Fates, Busy, Returned
  <1>2. /\ phase.active = {} /\ phase.session = None
        /\ phase.kind \in {"InitiatorNew", "ResponderReady"}
    BY DEF Init, InitialPhase, EmptyPhase
  <1>3. PhaseShape(phase) /\ PairsDisjoint(phase.active) /\ ~Deleted
    BY <1>2 DEF PhaseShape, PairsDisjoint, Deleted
  <1>4. HandleCoherence
    <2>1. Owned(phase) = {}
      BY <1>2 DEF Owned
    <2>2. \A h \in XHandles \cup KHandles : custody[h] = "free"
      BY HandleAssumption DEF Init, Handles
    <2>. QED
      BY <2>1, <2>2 DEF HandleCoherence
  <1>5. \A p \in Procs : ~Planning(p)
    BY DEF Init, Planning
  <1>. QED
    BY <1>1, <1>3, <1>4, <1>5 DEF IInv

LEMMA NextInvariant ==
  ASSUME IInv, [Next]_vars
  PROVE  IInv'
  <1>1. CASE UNCHANGED vars
    <2>1. TypeOK'
      BY <1>1 DEF IInv, TypeOK, vars
    <2>2. \A q \in Procs : Planning(q)' => Planning(q) /\ plan'[q] = plan[q]
      BY <1>1 DEF Planning, vars
    <2>3. UNCHANGED store /\ custody' = custody
      BY <1>1 DEF vars, store
    <2>4. Coherent'
      BY <2>2, <2>3, QuietStep
    <2>. QED
      BY <2>1, <2>4 DEF IInv, Coherent
  <1>2. ASSUME NEW p \in Procs, Open(p) \/ Crash(p)
        PROVE  IInv'
    BY <1>2, OpenStep, CrashStep
  <1>3. ASSUME NEW p \in Procs, Call(p)
        PROVE  IInv'
    BY <1>3, AdmitPrekeyStep, AcceptFirstPacketStep, CreateFirstPacketStep,
       VerifySessionAcceptStep, SendRecordStep, SendFirstRecordStep, ReceiveRecordStep,
       BootstrapCapabilitiesStep, ApplyCapabilityFlowStep, DeleteSessionStep,
       DispatchStep
    DEF Call
  <1>4. ASSUME NEW p \in Procs, Proceed(p)
        PROVE  IInv'
    BY <1>4, CasCommitsStep, CasUncertainStep, CasRejectsStep, CasMisreportsStep,
       RecoverStep, DeliverStep, SettleStep
    DEF Proceed
  <1>. QED
    BY <1>1, <1>2, <1>3, <1>4 DEF Next

\* The invariant is inductive, so it holds in every reachable state.
THEOREM Invariance == Spec => []IInv
  <1>1. Init => IInv
    BY InitInvariant
  <1>2. IInv /\ [Next]_vars => IInv'
    BY NextInvariant
  <1>. QED
    BY <1>1, <1>2, PTL DEF Spec

\* Every variable keeps its type: no operation builds a malformed snapshot,
\* pending set or plan.
THEOREM TypeCorrect == Spec => []TypeOK
  <1>1. IInv => TypeOK
    BY DEF IInv
  <1>. QED
    BY <1>1, Invariance, PTL

\* However many processes share the backend and however the swaps and the
\* loads after them fail, the custody holds exactly the prekey and ratchet
\* handles of the durable snapshot.
THEOREM HandlesCoherent == Spec => []HandleCoherence
  <1>1. IInv => HandleCoherence
    BY DEF IInv
  <1>. QED
    BY <1>1, Invariance, PTL

\* No private handle is in two published prekeys, and no sequence number names
\* two, so a first packet consumes what it names and nothing else.
THEOREM PrekeysStayDisjoint == Spec => []PrekeysDisjoint
  <1>1. IInv => PrekeysDisjoint
    BY DEF IInv, PairsDisjoint, PrekeysDisjoint
  <1>. QED
    BY <1>1, Invariance, PTL

\* The way a call can go on from its snapshot, for the process q and no other.
CallMoves(q) ==
  \E r \in {"planned", "deliver", "ok", "fail"} : pc' = [pc EXCEPT ![q] = r]

\* A call starts where its process had returned, and moves that process only.
LEMMA CallMovesCaller ==
  ASSUME NEW q \in Procs, Call(q)
  PROVE  pc[q] \in Returned /\ CallMoves(q) /\ UNCHANGED store
  <1>1. ASSUME NEW given, Refuse(q, given)
        PROVE  CallMoves(q) /\ UNCHANGED store
    BY <1>1 DEF Refuse, CallMoves
  <1>2. ASSUME NEW given, NEW answer, Reply(q, given, answer)
        PROVE  CallMoves(q) /\ UNCHANGED store
    BY <1>2 DEF Reply, CallMoves
  <1>3. ASSUME NEW op, NEW given, NEW spare, NEW next, NEW adopt, NEW delete,
               NEW work, NEW answer,
               Prepare(q, op, given, spare, next, adopt, delete, work, answer)
        PROVE  CallMoves(q) /\ UNCHANGED store
    BY <1>3 DEF Prepare, CallMoves
  <1>4. CASE AdmitPrekey(q)
    BY <1>1, <1>3, <1>4 DEF AdmitPrekey, Calling
  <1>5. CASE AcceptFirstPacket(q)
    BY <1>1, <1>2, <1>3, <1>5 DEF AcceptFirstPacket, Calling
  <1>6. CASE CreateFirstPacket(q)
    BY <1>1, <1>2, <1>3, <1>6 DEF CreateFirstPacket, Calling
  <1>7. CASE VerifySessionAccept(q)
    BY <1>1, <1>3, <1>7 DEF VerifySessionAccept, Calling
  <1>8. CASE SendRecord(q)
    BY <1>1, <1>3, <1>8 DEF SendRecord, Calling
  <1>9. CASE SendFirstRecord(q)
    BY <1>1, <1>3, <1>9 DEF SendFirstRecord, Calling
  <1>10. CASE ReceiveRecord(q)
    BY <1>1, <1>3, <1>10 DEF ReceiveRecord, Calling
  <1>11. CASE BootstrapCapabilities(q)
    BY <1>1, <1>3, <1>11 DEF BootstrapCapabilities, Calling
  <1>12. CASE ApplyCapabilityFlow(q)
    BY <1>1, <1>3, <1>12 DEF ApplyCapabilityFlow, Calling
  <1>13. CASE DeleteSession(q)
    BY <1>1, <1>3, <1>13 DEF DeleteSession, Calling
  <1>14. CASE Dispatch(q)
    BY <1>1, <1>14 DEF Dispatch, Calling, CallMoves
  <1>. QED
    BY <1>4, <1>5, <1>6, <1>7, <1>8, <1>9, <1>10, <1>11, <1>12, <1>13, <1>14 DEF Call

\* Every step moves one process.
LEMMA StepMovesOne ==
  ASSUME NEW q \in Procs, Open(q) \/ Crash(q) \/ Call(q) \/ Proceed(q)
  PROVE  \E r \in {"closed", "open"} \cup Busy \cup Returned : pc' = [pc EXCEPT ![q] = r]
  <1>. DEFINE Moves == \E r \in {"closed", "open"} \cup Busy \cup Returned :
                         pc' = [pc EXCEPT ![q] = r]
  <1>1. CASE Open(q)
    BY <1>1 DEF Open
  <1>2. CASE Crash(q)
    BY <1>2 DEF Crash
  <1>3. CASE Call(q)
    BY <1>3, CallMovesCaller DEF CallMoves, Busy, Returned
  <1>4. CASE CasCommits(q)
    BY <1>4 DEF CasCommits, Busy, Returned
  <1>5. CASE CasUncertain(q)
    BY <1>5 DEF CasUncertain, Busy, Returned
  <1>6. CASE CasRejects(q)
    BY <1>6 DEF CasRejects, Busy, Returned
  <1>7. CASE CasMisreports(q)
    BY <1>7 DEF CasMisreports, StayUncertain, Busy, Returned
  <1>8. CASE RecoverCommitted(q)
    BY <1>8 DEF RecoverCommitted, Busy, Returned
  <1>9. CASE RecoverRejected(q)
    BY <1>9 DEF RecoverRejected, Busy, Returned
  <1>10. CASE RecoverUncertain(q)
    BY <1>10 DEF RecoverUncertain, StayUncertain, Busy, Returned
  <1>11. CASE RecoverLoadFails(q)
    BY <1>11 DEF RecoverLoadFails, StayUncertain, Busy, Returned
  <1>12. CASE DeliverSucceeds(q)
    BY <1>12 DEF DeliverSucceeds, Busy, Returned
  <1>13. CASE DeliverFails(q)
    BY <1>13 DEF DeliverFails, Busy, Returned
  <1>14. CASE SettleApplies(q)
    BY <1>14 DEF SettleApplies, Busy, Returned
  <1>15. CASE SettleFails(q)
    BY <1>15 DEF SettleFails, Busy, Returned
  <1>. QED
    BY <1>1, <1>2, <1>3, <1>4, <1>5, <1>6, <1>7, <1>8, <1>9, <1>10, <1>11, <1>12,
       <1>13, <1>14, <1>15 DEF Proceed

\* A call that tells its caller of a terminal failure after a swap reported an
\* error has not committed: commit_replacing_pending never mistakes an applied
\* commit for a rejected one, whoever else commits in between.
THEOREM TerminalIsUncommitted == Spec => TerminalMeansUncommitted
  <1>. DEFINE Uncommitted ==
                \A p \in Procs : pc[p] = "recover" /\ pc'[p] = "fail" => ~plan[p].landed
  <1>1. ASSUME IInv, [Next]_vars
        PROVE  Uncommitted
    <2>. SUFFICES ASSUME NEW p \in Procs, pc[p] = "recover", pc'[p] = "fail", plan[p].landed
                  PROVE  FALSE
      OBVIOUS
    <2>1. PICK q \in Procs : Open(q) \/ Crash(q) \/ Call(q) \/ Proceed(q)
      BY <1>1 DEF Next, vars
    <2>2. /\ pc \in [Procs -> {"closed"} \cup Returned \cup Busy]
          /\ plan[p] \in Plan /\ SnapshotCoherent(plan[p]) /\ rev \in Nat
      BY <1>1, BoundAssumption DEF IInv, TypeOK, Planning
    <2>3. RecoverRejected(p)
      <3>1. \E r \in {"closed", "open"} \cup Busy \cup Returned : pc' = [pc EXCEPT ![q] = r]
        BY <2>1, StepMovesOne
      <3>2. q = p
        BY <2>2, <3>1
      <3>3. pc[p] \notin Returned
        BY DEF Returned
      <3>4. ~Open(p) /\ ~Crash(p)
        BY <2>2 DEF Open, Crash
      <3>5. Proceed(p)
        BY <2>1, <3>2, <3>3, <3>4, CallMovesCaller
      <3>6. ~CasCommits(p) /\ ~CasUncertain(p) /\ ~CasRejects(p) /\ ~CasMisreports(p)
        BY DEF CasCommits, CasUncertain, CasRejects, CasMisreports
      <3>7. ~RecoverCommitted(p)
        BY <2>2 DEF RecoverCommitted
      <3>8. ~RecoverUncertain(p) /\ ~RecoverLoadFails(p)
        BY <2>2 DEF RecoverUncertain, RecoverLoadFails, StayUncertain
      <3>9. ~DeliverSucceeds(p) /\ ~DeliverFails(p) /\ ~SettleApplies(p) /\ ~SettleFails(p)
        BY DEF DeliverSucceeds, DeliverFails, SettleApplies, SettleFails
      <3>. QED
        BY <3>5, <3>6, <3>7, <3>8, <3>9 DEF Proceed
    <2>4. plan[p].rev \in Nat /\ plan[p].rev # rev
      BY <2>2, BoundAssumption DEF SnapshotCoherent, Plan
    <2>5. ~ObservesPlan(plan[p]) /\ rev = plan[p].rev + 1
      BY <2>3, <2>4 DEF RecoverRejected, ObservesBase, LosesPrekey
    <2>. QED
      BY <2>2, <2>5 DEF SnapshotCoherent, ObservesPlan
  <1>2. IInv /\ [Next]_vars => [Uncommitted]_vars
    BY <1>1
  <1>. QED
    BY <1>2, Invariance, PTL DEF Spec, TerminalMeansUncommitted

\* The durable state changes only by a commit or by settling a pending item.
LEMMA DurableStep ==
  ASSUME [Next]_vars
  PROVE  \/ UNCHANGED <<phase, pending>>
         \/ \E p \in Procs : pc[p] = "planned" /\ Applicable(plan[p]) /\ Apply(plan[p])
         \/ \E p \in Procs : SettleApplies(p)
  <1>1. CASE UNCHANGED vars
    BY <1>1 DEF vars
  <1>2. ASSUME NEW p \in Procs, Open(p) \/ Crash(p)
        PROVE  UNCHANGED <<phase, pending>>
    BY <1>2 DEF Open, Crash, store
  <1>3. ASSUME NEW p \in Procs, Call(p)
        PROVE  UNCHANGED <<phase, pending>>
    BY <1>3, CallMovesCaller DEF store
  <1>4. ASSUME NEW p \in Procs, Proceed(p)
        PROVE  \/ UNCHANGED <<phase, pending>>
               \/ pc[p] = "planned" /\ Applicable(plan[p]) /\ Apply(plan[p])
               \/ SettleApplies(p)
    <2>1. CASE CasCommits(p)
      BY <2>1 DEF CasCommits, store
    <2>2. CASE CasUncertain(p)
      BY <2>2 DEF CasUncertain, store
    <2>3. CASE CasRejects(p)
      BY <2>3 DEF CasRejects, store
    <2>4. CASE CasMisreports(p)
      BY <2>4 DEF CasMisreports, store
    <2>5. CASE RecoverCommitted(p)
      BY <2>5 DEF RecoverCommitted, store
    <2>6. CASE RecoverRejected(p)
      BY <2>6 DEF RecoverRejected, store
    <2>7. CASE RecoverUncertain(p)
      BY <2>7 DEF RecoverUncertain, store
    <2>8. CASE RecoverLoadFails(p)
      BY <2>8 DEF RecoverLoadFails, store
    <2>9. CASE DeliverSucceeds(p)
      BY <2>9 DEF DeliverSucceeds, store
    <2>10. CASE DeliverFails(p)
      BY <2>10 DEF DeliverFails, store
    <2>11. CASE SettleFails(p)
      BY <2>11 DEF SettleFails, store
    <2>. QED
      BY <1>4, <2>1, <2>2, <2>3, <2>4, <2>5, <2>6, <2>7, <2>8, <2>9, <2>10, <2>11
         DEF Proceed
  <1>. QED
    BY <1>1, <1>2, <1>3, <1>4 DEF Next

\* What an applicable plan says of the durable state it replaces.
LEMMA ApplicableFromHere ==
  ASSUME IInv, NEW p \in Procs, pc[p] = "planned", Applicable(plan[p])
  PROVE  PlanSound(plan[p]) /\ plan[p].phase = phase
  BY DEF IInv, Planning, SnapshotCoherent, Applicable

\* The prekey high water is never lowered, by the handshake or by deletion: a
\* used pair_sequence stays used for the life of the store.
THEOREM HighWaterNeverFalls == Spec => HighWaterMonotone
  <1>1. ASSUME IInv, [Next]_vars
        PROVE  phase'.high >= phase.high
    <2>1. phase.high \in Nat
      BY <1>1 DEF IInv, TypeOK, Phase
    <2>2. CASE UNCHANGED <<phase, pending>>
      BY <2>1, <2>2
    <2>3. ASSUME NEW p \in Procs, pc[p] = "planned", Applicable(plan[p]), Apply(plan[p])
          PROVE  phase'.high >= phase.high
      <3>1. PlanSound(plan[p]) /\ plan[p].phase = phase /\ phase' = plan[p].next
        BY <1>1, <2>3, ApplicableFromHere DEF Apply
      <3>2. phase'.high \in Nat
        BY <1>1, <2>3, ApplyStep DEF Phase
      <3>. QED
        BY <2>1, <3>1, <3>2 DEF PlanSound
    <2>4. ASSUME NEW p \in Procs, SettleApplies(p)
          PROVE  phase'.high >= phase.high
      BY <2>1, <2>4 DEF SettleApplies
    <2>. QED
      BY <1>1, <2>2, <2>3, <2>4, DurableStep
  <1>2. IInv /\ [Next]_vars => [phase'.high >= phase.high]_vars
    BY <1>1
  <1>. QED
    BY <1>2, Invariance, PTL DEF Spec, HighWaterMonotone

LEMMA NothingAfterDeletion == IInv /\ [Next]_vars => [Deleted => UNCHANGED <<phase, pending>>]_vars
  <1>1. ASSUME IInv, [Next]_vars, Deleted
        PROVE  UNCHANGED <<phase, pending>>
    <2>1. ASSUME NEW p \in Procs, pc[p] = "planned", Applicable(plan[p])
          PROVE  FALSE
      BY <1>1, <2>1, ApplicableFromHere DEF PlanSound, Deleted
    <2>2. ASSUME NEW p \in Procs, SettleApplies(p)
          PROVE  FALSE
      BY <1>1, <2>2 DEF SettleApplies, IInv
    <2>. QED
      BY <1>1, <2>1, <2>2, DurableStep
  <1>. QED
    BY <1>1

\* Deletion is final: a commit that any process planned before the deletion,
\* or a settlement in flight, no longer changes anything.
THEOREM DeletedForEver == Spec => DeletionFinal
  BY NothingAfterDeletion, Invariance, PTL DEF Spec, DeletionFinal

=============================================================================
