--------------------- MODULE SchedulePlanSerial_proofs ---------------------
(* What holds of SchedulePlan when a user's requests come one after the       *)
(* other, for any plans, failures and bounds: nothing but the memory of a     *)
(* request is checked when it writes, and here that memory is still true.     *)
EXTENDS SchedulePlan_proofs

-----------------------------------------------------------------------------
(* What a request remembers of the plans it has read is what is stored.       *)
SameRow(row, p) ==
    plan[p].status = row.status /\ plan[p].parent = row.parent /\ plan[p].algo = row.algo

\* A parent that a new plan, or one that is applied, may be given.
GoodParent(q) == q = 0 \/ (q \in PlanIds /\ plan[q].status \in {"ACTIVE", "ARCHIVED"})

SyncFits(h) ==
    /\ pc[h] \in {"active", "archive"} /\ op[h] = "apply" =>
         SameRow(mine[h].row, mine[h].id) /\ mine[h].row.status = "PROPOSED"
    /\ pc[h] = "candidate" => plan[mine[h].id].status = "PROPOSED"
    /\ pc[h] \in {"activate", "mark"} =>
         SameRow(mine[h].row, mine[h].id) /\ mine[h].row.status = "PROPOSED"
    /\ pc[h] = "discard" => SameRow(mine[h].row, mine[h].id)
    /\ pc[h] = "revert" => plan[mine[h].id].status = "ARCHIVED"
    /\ pc[h] \in {"check", "clone", "draft"} => GoodParent(mine[h].row.parent)
    /\ pc[h] \in {"start", "run"} => SameRow(mine[h].row, mine[h].id) /\ mine[h].id + 1 = nextId
    /\ pc[h] \in {"clone", "start", "run"} => ~AlreadyProposed(op[h], mine[h].row.algo)
    /\ current[h] # None => pc[h] \in {"archive", "activate", "commit"}
    /\ current[h] # None => SameRow(current[h].row, current[h].id) /\ current[h].row.status = "ACTIVE"

(* What a transaction has written follows the status table, and it gives at   *)
(* most one plan a new parent.                                                *)
Childless(p) == \A q \in PlanIds : Exists(q) => plan[q].parent # p
Inserted(h, p) ==
    /\ ~Exists(p) /\ Childless(p)
    /\ staged[h][p].status \in {"ACTIVE", "DRAFT"}
    /\ GoodParent(staged[h][p].parent)
Applied(h, p) ==
    /\ plan[p].status = "PROPOSED" /\ staged[h][p].status = "ACTIVE"
    /\ staged[h][p].algo = plan[p].algo
    /\ staged[h][p].parent = plan[p].parent \/ GoodParent(staged[h][p].parent)
Changed(h, p) ==
    /\ <<plan[p].status, staged[h][p].status>> \in
         {<<"ACTIVE", "ARCHIVED">>, <<"PROPOSED", "PROPOSED">>, <<"DRAFT", "DISCARDED">>,
          <<"PROPOSED", "DISCARDED">>, <<"FAILED", "DISCARDED">>}
    /\ staged[h][p].algo = plan[p].algo /\ staged[h][p].parent = plan[p].parent

FreshStatuses == {"ACTIVE", "DRAFT"}
Fresh(h, p) == staged[h][p] # None /\ staged[h][p].status \in FreshStatuses

StagedKinds(h) ==
    /\ \A p \in PlanIds : staged[h][p] # None => Inserted(h, p) \/ Applied(h, p) \/ Changed(h, p)
    /\ \A p, q \in PlanIds : Fresh(h, p) /\ Fresh(h, q) => p = q
    /\ pc[h] \in {"active", "archive"} /\ op[h] = "apply" => staged[h] = NothingStaged
    /\ pc[h] \notin {"active", "archive", "activate", "proposed", "mark", "commit"} =>
         staged[h] = NothingStaged
    /\ pc[h] = "activate" => \A p \in PlanIds : ~Fresh(h, p)

(* Who is about to add an active plan takes the old one away, or did not see  *)
(* it because a read error was thrown away.                                   *)
Replaced(h) ==
    \/ ActivePlans = {}
    \/ \E c \in ActivePlans : staged[h][c] # None /\ staged[h][c].status = "ARCHIVED"
    \/ Cardinality(ActivePlans) <= swallowed
ActiveFits(h) ==
    /\ pc[h] = "insert" => ActivePlans = {}
    /\ pc[h] = "activate" => Replaced(h)
    /\ pc[h] \in {"proposed", "mark", "commit"} /\ StagesActive(h) => Replaced(h)

\* A parent was in use; it may be deleted.
ParentInv == \A p \in PlanIds : Exists(p) /\ plan[p].parent # 0 =>
    /\ plan[p].parent < nextId
    /\ plan[plan[p].parent].status \in {"ACTIVE", "ARCHIVED", "ABSENT"}

SerialFits(h) == SyncFits(h) /\ StagedKinds(h) /\ ActiveFits(h)
HistoryInv == ParentInv /\ LineageAcyclic /\ OneProposalPerAlgorithm /\ AtMostOneActive
SerialInv == HistoryInv /\ \A h \in Sessions : SerialFits(h)

-----------------------------------------------------------------------------
\* No plan descends from an id that was not given out.
LEMMA NewIsChildless ==
    ASSUME TypeInv, SharedInv, ParentInv, nextId \in PlanIds
    PROVE  ~Exists(nextId) /\ Childless(nextId)
<1>1. nextId \in Nat /\ nextId # 0
  BY DEF TypeInv, TypeOK, PlanIds
<1>2. ~Exists(nextId)
  BY <1>1 DEF SharedInv, IdInv
<1>3. Childless(nextId)
  BY <1>1 DEF Childless, ParentInv, TypeInv, TypeOK, PlanRow
<1> QED
  BY <1>2, <1>3

\* The plan of a new id is inserted, the one that was staged stays what it was.
LEMMA StagedInsert ==
    ASSUME TypeInv, NEW h \in Sessions, nextId \in PlanIds, ~Exists(nextId), Childless(nextId),
           staged[h] = NothingStaged, NEW row \in PlanRow, StageNew(h, row), UNCHANGED plan,
           row.status \in FreshStatuses, GoodParent(row.parent)
    PROVE  /\ \A p \in PlanIds : staged'[h][p] # None => Inserted(h, p)'
           /\ \A p, q \in PlanIds : Fresh(h, p)' /\ Fresh(h, q)' => p = q
           /\ \A p \in PlanIds : staged'[h][p] # None => staged'[h][p].status = row.status
<1>0. PICK n \in PlanIds : n = nextId
  OBVIOUS
<1>1. \A p \in PlanIds : staged'[h][p] = IF p = n THEN row ELSE None
  BY <1>0 DEF StageNew, NothingStaged, TypeInv, TypeOK
<1>2. ~Exists(n)' /\ Childless(n)' /\ row # None
  BY <1>0, NoneAssumption DEF Exists, Childless
<1>3. GoodParent(staged[h][n].parent)'
  BY <1>1 DEF GoodParent
<1>4. Inserted(h, n)'
  BY <1>1, <1>2, <1>3 DEF Inserted, FreshStatuses
<1> QED
  BY <1>1, <1>4 DEF Fresh

\* Writing one more plan that is not fresh, beside the ones that are staged.
LEMMA StagedChange ==
    ASSUME TypeInv, NEW h \in Sessions, NEW m \in PlanIds, NEW row \in PlanRow,
           Stage(h, m, row), UNCHANGED plan, StagedKinds(h),
           <<plan[m].status, row.status>> \in
             {<<"ACTIVE", "ARCHIVED">>, <<"PROPOSED", "PROPOSED">>, <<"DRAFT", "DISCARDED">>,
              <<"PROPOSED", "DISCARDED">>, <<"FAILED", "DISCARDED">>},
           row.algo = plan[m].algo, row.parent = plan[m].parent
    PROVE  /\ \A p \in PlanIds : staged'[h][p] # None =>
                Inserted(h, p)' \/ Applied(h, p)' \/ Changed(h, p)'
           /\ \A p \in PlanIds : Fresh(h, p)' => Fresh(h, p)
           /\ \A p \in PlanIds : p # m => staged'[h][p] = staged[h][p]
           /\ staged'[h][m] = row
<1>1. staged'[h][m] = row /\ \A p \in PlanIds : p # m => staged'[h][p] = staged[h][p]
  BY DEF Stage, TypeInv, TypeOK
<1>2. Changed(h, m)'
  BY <1>1 DEF Changed
<1>3. \A p \in PlanIds : p # m => /\ Inserted(h, p) => Inserted(h, p)'
                                  /\ Applied(h, p) => Applied(h, p)'
                                  /\ Changed(h, p) => Changed(h, p)'
  BY <1>1 DEF Inserted, Applied, Changed, Exists, Childless, GoodParent
<1>4. row.status \notin FreshStatuses
  BY DEF FreshStatuses
<1> QED
  BY <1>1, <1>2, <1>3, <1>4 DEF StagedKinds, Fresh

-----------------------------------------------------------------------------
(* What a request remembers and has staged still fits when it moves on.       *)
LEMMA SerialKept ==
    ASSUME TypeInv, TypeInv', SharedInv, HistoryInv, NEW h \in Sessions, SerialFits(h),
           Request(h)
    PROVE  SerialFits(h)'
<1> USE DEF Goto, Start, Read
<1>0. /\ DOMAIN pc = Sessions /\ DOMAIN op = Sessions /\ DOMAIN mine = Sessions
      /\ DOMAIN current = Sessions /\ DOMAIN staged = Sessions
      /\ staged[h] \in [PlanIds -> PlanRow \cup {None}]
      /\ plan \in [PlanIds -> PlanRow] /\ nextId \in Nat
      /\ mine[h] \in ReadRow \cup {None} /\ None \notin ReadRow /\ None \notin PlanRow
  BY NoneAssumption DEF TypeInv, TypeOK
<1>1. /\ OpFits(h) /\ MineFits(h) /\ RowFits(h) /\ SyncFits(h) /\ StagedKinds(h) /\ ActiveFits(h)
      /\ pc[h] \in Resting => staged[h] = NothingStaged
  BY <1>0 DEF TypeInv, LocalFits, StagedFits, NothingStaged, SerialFits
<1>2. \A row \in PlanRow, s \in PlanStatuses :
        /\ Saved(row, s) \in PlanRow /\ Saved(row, s).status = s
        /\ Saved(row, s).parent = row.parent /\ Saved(row, s).algo = row.algo
  BY DEF Saved, PlanRow
<1>3. /\ mine[h] # None => mine[h] \in ReadRow /\ mine[h].row \in PlanRow
      /\ current[h] # None => current[h] \in ReadRow /\ current[h].row \in PlanRow
  BY <1>0 DEF ReadRow, TypeInv, TypeOK
<1>4. {"DRAFT", "PROCESSING", "PROPOSED", "ACTIVE", "ARCHIVED", "DISCARDED", "FAILED"} \subseteq PlanStatuses
  BY DEF PlanStatuses
<1>5. Return(h) => SerialFits(h)'
  BY <1>0 DEF Return, SerialFits, SyncFits, StagedKinds, ActiveFits, StagesActive, NothingStaged, Fresh
<1>6. staged[h] = NothingStaged => \A p \in PlanIds : staged[h][p] = None
  BY DEF NothingStaged
<1>7. ASSUME UNCHANGED plan, staged'[h] = staged[h]
      PROVE  /\ \A p \in PlanIds : staged'[h][p] # None =>
                  Inserted(h, p)' \/ Applied(h, p)' \/ Changed(h, p)'
             /\ \A p, q \in PlanIds : Fresh(h, p)' /\ Fresh(h, q)' => p = q
             /\ \A p \in PlanIds : Fresh(h, p)' <=> Fresh(h, p)
             /\ StagesActive(h)' <=> StagesActive(h)
  BY <1>1, <1>7 DEF StagedKinds, Inserted, Applied, Changed, Fresh, Exists, Childless, GoodParent, StagesActive
<1>8. \A p \in PlanIds : SameRow(plan[p], p)
  BY DEF SameRow
<1>9. ASSUME UNCHANGED plan, NEW S \in SUBSET PlanIds
      PROVE  /\ \A p, row : SameRow(row, p)' <=> SameRow(row, p)
             /\ \A q : GoodParent(q)' <=> GoodParent(q)
             /\ \A o, a : AlreadyProposed(o, a)' <=> AlreadyProposed(o, a)
             /\ ActivePlans' = ActivePlans
  BY <1>9 DEF SameRow, GoodParent, AlreadyProposed, ActivePlans, WithStatus
\* A request that has only begun.
<1>10. ASSUME NEW p \in PlanIds, ApplyCheck(h, p) \/ DiscardRead(h, p) \/ RevertRead(h, p)
       PROVE  SerialFits(h)'
  <2>1. /\ pc[h] = "idle" /\ current[h] = None /\ staged[h] = NothingStaged
        /\ UNCHANGED <<plan, nextId, staged, current, swallowed>> /\ mine'[h] = [id |-> p, row |-> plan[p]]
    BY <1>0, <1>1, <1>10 DEF ApplyCheck, DiscardRead, RevertRead, Resting, MineFits
  <2>2. pc'[h] \in {"candidate", "discard", "revert"}
    BY <1>0, <1>10 DEF ApplyCheck, DiscardRead, RevertRead
  <2>3. /\ pc'[h] = "candidate" => plan[p].status = "PROPOSED"
        /\ pc'[h] = "revert" => plan[p].status = "ARCHIVED"
    BY <1>0, <1>10 DEF ApplyCheck, DiscardRead, RevertRead
  <2>4. SyncFits(h)'
    BY <2>1, <2>2, <2>3 DEF SyncFits, SameRow
  <2>5. StagedKinds(h)'
    BY <1>7, <2>1, <2>2 DEF StagedKinds
  <2>6. ActiveFits(h)'
    BY <2>2 DEF ActiveFits
  <2> QED BY <2>4, <2>5, <2>6 DEF SerialFits
<1>11. ASSUME NEW algo \in Algorithms, OptimizeRead(h, algo) \/ DraftRead(h, algo)
       PROVE  SerialFits(h)'
  <2>1. /\ pc[h] = "idle" /\ current[h] = None /\ staged[h] = NothingStaged
        /\ UNCHANGED <<plan, nextId, staged, current, swallowed>> /\ pc'[h] \in {"check", "draft"}
    BY <1>0, <1>1, <1>11 DEF OptimizeRead, DraftRead, Resting, MineFits
  <2>2. GoodParent(mine'[h].row.parent)
    <3>1. CASE OptimizeRead(h, algo)
      BY <1>0, <3>1 DEF OptimizeRead, IsFirstActive, ActivePlans, WithStatus, GoodParent, NewPlan
    <3>2. CASE DraftRead(h, algo)
      BY <1>0, <3>2 DEF DraftRead, IsFirstActive, ActivePlans, WithStatus, GoodParent, NewPlan
    <3> QED BY <1>11, <3>1, <3>2
  <2>3. SyncFits(h)'
    BY <2>1, <2>2 DEF SyncFits, GoodParent
  <2>4. StagedKinds(h)'
    BY <1>7, <2>1 DEF StagedKinds
  <2>5. ActiveFits(h)'
    BY <2>1 DEF ActiveFits
  <2> QED BY <2>3, <2>4, <2>5 DEF SerialFits
<1>12. ASSUME NEW o \in Ops, ActiveForTask(h, o)
       PROVE  SerialFits(h)'
  <2>1. /\ pc[h] = "idle" /\ current[h] = None /\ staged[h] = NothingStaged
        /\ UNCHANGED <<plan, nextId, staged, current, swallowed>>
        /\ pc'[h] \in {"insert", "commit", "proposed"}
        /\ pc'[h] = "insert" => ActivePlans = {}
    BY <1>0, <1>1, <1>12 DEF ActiveForTask, Resting, MineFits
  <2>2. SyncFits(h)'
    BY <2>1 DEF SyncFits
  <2>3. StagedKinds(h)'
    BY <1>7, <2>1 DEF StagedKinds
  <2>4. ~StagesActive(h)' /\ ActivePlans' = ActivePlans
    BY <1>6, <2>1 DEF StagesActive, ActivePlans, WithStatus
  <2>5. ActiveFits(h)'
    BY <2>1, <2>4 DEF ActiveFits
  <2> QED BY <2>2, <2>3, <2>5 DEF SerialFits
\* An optimization.
<1>14. CASE Optimize(h)
  <2>1. CASE OptimizeCheck(h)
    <3>1. CASE Return(h) BY <1>5, <3>1
    <3>2. CASE ~Return(h)
      <4>1. /\ pc[h] = "check" /\ pc'[h] = "clone" /\ ~AlreadyProposed(op[h], mine[h].row.algo)
            /\ UNCHANGED <<plan, nextId, op, mine, current, staged, swallowed>>
        BY <1>0, <2>1, <3>2 DEF OptimizeCheck
      <4>2. SyncFits(h)'
        BY <1>1, <1>9, <4>1 DEF SyncFits
      <4>3. StagedKinds(h)'
        BY <1>1, <1>7, <4>1 DEF StagedKinds
      <4> QED BY <4>1, <4>2, <4>3 DEF SerialFits, ActiveFits
    <3> QED BY <3>1, <3>2
  <2>2. CASE OptimizeClone(h)
    <3>0. PICK n : n = nextId
      OBVIOUS
    <3>1. n \in PlanIds /\ ~Exists(n)
      BY <1>0, <2>2, <3>0, BoundAssumption DEF OptimizeClone, PlanIds, SharedInv, IdInv, TypeInv, TypeOK
    <3>2. /\ pc[h] = "clone" /\ pc'[h] = "start" /\ current[h] = None /\ staged[h] = NothingStaged
          /\ UNCHANGED <<op, current, staged, swallowed>> /\ nextId' = n + 1
          /\ plan' = [plan EXCEPT ![n] = mine[h].row]
          /\ mine[h] \in ReadRow /\ mine' = [mine EXCEPT ![h].id = n]
          /\ ~AlreadyProposed(op[h], mine[h].row.algo) /\ mine[h].row.status = "DRAFT"
      BY <1>0, <1>1, <2>2, <3>0
         DEF OptimizeClone, SyncFits, StagedKinds, MineFits, RowFits, HoldsMine
    <3>3. mine'[h].id = n /\ mine'[h].row = mine[h].row
      BY <1>0, <3>2 DEF ReadRow
    <3>4. SameRow(mine[h].row, mine[h].id)'
      BY <1>0, <3>1, <3>2, <3>3 DEF SameRow
    <3>5. ~AlreadyProposed(op[h], mine[h].row.algo)'
      BY <1>0, <3>1, <3>2, <3>3 DEF AlreadyProposed, WithStatus
    <3>6. SyncFits(h)'
      BY <3>2, <3>3, <3>4, <3>5 DEF SyncFits
    <3>7. StagedKinds(h)'
      BY <1>6, <3>2 DEF StagedKinds, Fresh
    <3> QED BY <3>2, <3>6, <3>7 DEF SerialFits, ActiveFits
  <2>3. CASE OptimizeStart(h)
    <3>1. /\ pc[h] = "start" /\ pc'[h] = "run" /\ current[h] = None /\ staged[h] = NothingStaged
          /\ UNCHANGED <<nextId, op, current, staged, swallowed>>
          /\ plan' = [plan EXCEPT ![mine[h].id] = Saved(mine[h].row, "PROCESSING")]
          /\ mine' = [mine EXCEPT ![h].row.status = "PROCESSING"]
          /\ mine[h] \in ReadRow /\ mine[h].row \in PlanRow /\ mine[h].id \in PlanIds
          /\ ~AlreadyProposed(op[h], mine[h].row.algo) /\ mine[h].id + 1 = nextId
      BY <1>0, <1>1, <1>3, <2>3 DEF OptimizeStart, SyncFits, StagedKinds, MineFits, HoldsMine
    <3>2. /\ mine'[h].id = mine[h].id /\ mine'[h].row.status = "PROCESSING"
          /\ mine'[h].row.parent = mine[h].row.parent /\ mine'[h].row.algo = mine[h].row.algo
      BY <1>0, <3>1 DEF ReadRow, PlanRow
    <3>3. /\ plan'[mine[h].id].status = "PROCESSING"
          /\ plan'[mine[h].id].parent = mine[h].row.parent /\ plan'[mine[h].id].algo = mine[h].row.algo
      BY <1>0, <1>2, <1>4, <3>1
    <3>4. SameRow(mine[h].row, mine[h].id)'
      BY <3>2, <3>3 DEF SameRow
    <3>5. \A p \in PlanIds : p # mine[h].id => plan'[p] = plan[p]
      BY <1>0, <3>1
    <3>6. ~AlreadyProposed(op[h], mine[h].row.algo)'
      BY <3>1, <3>2, <3>3, <3>5 DEF AlreadyProposed, WithStatus
    <3>7. SyncFits(h)'
      BY <3>1, <3>2, <3>4, <3>6 DEF SyncFits
    <3>8. StagedKinds(h)'
      BY <1>6, <3>1 DEF StagedKinds, Fresh
    <3> QED BY <3>1, <3>7, <3>8 DEF SerialFits, ActiveFits
  <2>4. CASE OptimizeEnd(h) BY <1>5, <2>4 DEF OptimizeEnd
  <2> QED BY <1>14, <2>1, <2>2, <2>3, <2>4 DEF Optimize
<1>16. CASE Cleanup(h)
  <2>1. CASE CleanupEnd(h) BY <1>5, <2>1 DEF CleanupEnd
  <2>2. CASE ~CleanupEnd(h)
    <3>1. /\ UNCHANGED <<staged, current>> /\ pc[h] \in Resting /\ pc'[h] \in Resting
          /\ staged[h] = NothingStaged /\ current[h] = None
      BY <1>0, <1>1, <1>16, <2>2 DEF Cleanup, ListDiscarded, ListArchived, DeletePlan, Resting, MineFits
    <3> QED BY <1>6, <3>1
       DEF SerialFits, SyncFits, StagedKinds, ActiveFits, Fresh, Resting
  <2> QED BY <2>1, <2>2
<1>18. CASE Commit(h) \/ Abort(h) \/ DeadlockVictim(h)
  <2>1. CASE Commit(h)
    <3>1. pc'[h] \in {"idle", "cleanup"} /\ staged'[h] = NothingStaged /\ current'[h] = None
      BY <1>0, <2>1 DEF Commit
    <3> QED BY <3>1
       DEF SerialFits, SyncFits, StagedKinds, ActiveFits, Fresh, NothingStaged
  <2>2. CASE Abort(h) BY <1>5, <2>2 DEF Abort
  <2>3. CASE DeadlockVictim(h) BY <1>5, <2>3 DEF DeadlockVictim
  <2> QED BY <1>18, <2>1, <2>2, <2>3
\* An apply or a revert.
<1>13. CASE Apply(h)
  <2>1. CASE ReadCandidate(h)
    <3>1. CASE Return(h) BY <1>5, <3>1
    <3>2. CASE ~Return(h)
      <4>1. /\ pc[h] = "candidate" /\ pc'[h] = "active" /\ op[h] = "apply" /\ current[h] = None
            /\ UNCHANGED <<plan, nextId, op, current, staged, swallowed>> /\ staged[h] = NothingStaged
            /\ plan[mine[h].id].status = "PROPOSED" /\ mine[h].id \in PlanIds
            /\ mine'[h] = [id |-> mine[h].id, row |-> plan[mine[h].id]]
        BY <1>0, <1>1, <2>1, <3>2
           DEF ReadCandidate, OpFits, MineFits, SyncFits, StagedKinds, HoldsMine
      <4>2. SyncFits(h)'
        BY <4>1 DEF SyncFits, SameRow
      <4>3. StagedKinds(h)'
        BY <1>7, <4>1 DEF StagedKinds
      <4> QED BY <4>1, <4>2, <4>3 DEF SerialFits, ActiveFits
    <3> QED BY <3>1, <3>2
  <2>2. CASE ReadActive(h)
    <3>1. /\ pc[h] = "active" /\ op[h] \in {"apply", "revert"} /\ current[h] = None
          /\ UNCHANGED <<plan, nextId, op, mine, staged, swallowed>>
          /\ op[h] = "apply" => staged[h] = NothingStaged
      BY <1>1, <2>2 DEF ReadActive, OpFits, SyncFits, StagedKinds
    <3>2. CASE ActivePlans = {} /\ pc'[h] = AfterArchive(h) /\ current' = current
      <4>1. pc'[h] \in {"activate", "commit"} /\ (pc'[h] = "activate" => op[h] = "apply")
        BY <3>2 DEF AfterArchive
      <4>2. SyncFits(h)'
        BY <1>1, <1>9, <3>1, <3>2, <4>1 DEF SyncFits
      <4>3. StagedKinds(h)'
        BY <1>6, <1>7, <3>1, <4>1 DEF StagedKinds, Fresh
      <4>4. ActiveFits(h)'
        BY <3>1, <3>2, <1>9 DEF ActiveFits, Replaced
      <4> QED BY <4>2, <4>3, <4>4 DEF SerialFits
    <3>3. ASSUME NEW p \in PlanIds, IsFirstActive(p), current'[h] = [id |-> p, row |-> plan[p]],
                 pc'[h] = IF op[h] = "apply" /\ p = mine[h].id THEN "commit" ELSE "archive"
          PROVE  SerialFits(h)'
      <4>1. plan[p].status = "ACTIVE"
        BY <3>3 DEF IsFirstActive, ActivePlans, WithStatus
      <4>2. pc'[h] = "archive"
        BY <1>1, <3>1, <3>3, <4>1 DEF SyncFits, SameRow
      <4>3. SameRow(plan[p], p)' /\ current'[h].row = plan[p] /\ current'[h].id = p
        BY <3>1, <3>3 DEF SameRow
      <4>4. SyncFits(h)'
        BY <1>1, <1>9, <3>1, <4>1, <4>2, <4>3 DEF SyncFits, SameRow
      <4>5. StagedKinds(h)'
        BY <1>7, <3>1, <4>2 DEF StagedKinds
      <4> QED BY <4>2, <4>4, <4>5 DEF SerialFits, ActiveFits
    <3> QED BY <1>0, <2>2, <3>2, <3>3 DEF ReadActive
  <2>3. CASE ReadActiveFails(h)
    <3>1. /\ pc[h] = "active" /\ op[h] = "revert" /\ pc'[h] = "commit" /\ current[h] = None
          /\ UNCHANGED <<plan, nextId, op, mine, current, staged>> /\ swallowed' = swallowed + 1
      BY <1>0, <1>1, <2>3 DEF ReadActiveFails, SyncFits
    <3>2. SyncFits(h)'
      BY <1>1, <3>1 DEF SyncFits
    <3>3. StagedKinds(h)'
      BY <1>7, <3>1 DEF StagedKinds
    <3>4. Cardinality(ActivePlans)' <= swallowed'
      <4>1. swallowed \in Int /\ swallowed' = 1 + swallowed
        BY <3>1, BoundAssumption DEF TypeInv, TypeOK
      <4> QED BY <1>9, <3>1, <4>1 DEF HistoryInv, AtMostOneActive
    <3>5. ActiveFits(h)'
      BY <3>1, <3>4 DEF ActiveFits, Replaced
    <3> QED BY <3>2, <3>3, <3>5 DEF SerialFits
  <2>4. CASE Archive(h)
    <3>0. PICK c, row : c = current[h].id /\ row = Saved(current[h].row, "ARCHIVED")
      OBVIOUS
    <3>1. /\ pc[h] = "archive" /\ op[h] \in {"apply", "revert"}
          /\ UNCHANGED <<plan, nextId, op, mine, current, swallowed>>
          /\ op[h] = "apply" => staged[h] = NothingStaged
          /\ current[h] # None /\ c \in PlanIds /\ SameRow(current[h].row, c)
          /\ current[h].row.status = "ACTIVE" /\ Stage(h, c, row) /\ pc'[h] = AfterArchive(h)
      BY <1>0, <1>1, <2>4, <3>0 DEF Archive, OpFits, MineFits, SyncFits, StagedKinds
    <3>2. /\ row \in PlanRow /\ row.status = "ARCHIVED" /\ plan[c].status = "ACTIVE"
          /\ row.algo = plan[c].algo /\ row.parent = plan[c].parent
      BY <1>2, <1>3, <1>4, <3>0, <3>1 DEF SameRow
    <3>3. /\ \A p \in PlanIds : staged'[h][p] # None =>
               Inserted(h, p)' \/ Applied(h, p)' \/ Changed(h, p)'
          /\ \A p \in PlanIds : Fresh(h, p)' => Fresh(h, p)
          /\ \A p \in PlanIds : p # c => staged'[h][p] = staged[h][p]
          /\ staged'[h][c] = row
      BY <1>1, <3>1, <3>2, StagedChange
    <3>4. pc'[h] \in {"activate", "commit"} /\ (pc'[h] = "activate" => op[h] = "apply")
      BY <3>1 DEF AfterArchive
    <3>5. SyncFits(h)'
      BY <1>1, <1>9, <3>1, <3>4 DEF SyncFits
    <3>6. op[h] = "apply" => \A p \in PlanIds : ~Fresh(h, p)
      BY <1>6, <3>1 DEF Fresh
    <3>7. StagedKinds(h)'
      BY <1>1, <3>3, <3>4, <3>6 DEF StagedKinds
    <3>8. Replaced(h)'
      <4>1. c \in ActivePlans /\ ActivePlans' = ActivePlans /\ row # None
        BY <1>0, <1>9, <3>1, <3>2 DEF ActivePlans, WithStatus
      <4> QED BY <3>2, <3>3, <4>1 DEF Replaced
    <3> QED BY <3>4, <3>5, <3>7, <3>8 DEF SerialFits, ActiveFits
  <2>5. CASE Activate(h)
    <3>1. CASE Return(h) BY <1>5, <3>1
    <3>2. CASE ~Return(h)
      <4>0. PICK m, row : m = mine[h].id /\ row = Activated(h)
        OBVIOUS
      <4>1. /\ pc[h] = "activate" /\ op[h] = "apply" /\ pc'[h] = "commit" /\ m \in PlanIds
            /\ UNCHANGED <<plan, nextId, op, mine, current, swallowed>>
            /\ staged' = [staged EXCEPT ![h][m] = row] /\ mine[h].row \in PlanRow
            /\ SameRow(mine[h].row, m) /\ plan[m].status = "PROPOSED"
            /\ Replaced(h) /\ \A p \in PlanIds : ~Fresh(h, p)
        BY <1>0, <1>1, <1>3, <2>5, <3>2, <4>0
           DEF Activate, OpFits, MineFits, SyncFits, StagedKinds, ActiveFits, Stage, HoldsMine, SameRow
      <4>2. /\ row \in PlanRow /\ row.status = "ACTIVE" /\ row.algo = plan[m].algo
            /\ row.parent = plan[m].parent \/ GoodParent(row.parent)
        <5>1. /\ Saved(mine[h].row, "ACTIVE") \in PlanRow /\ Saved(mine[h].row, "ACTIVE").status = "ACTIVE"
              /\ Saved(mine[h].row, "ACTIVE").algo = plan[m].algo
              /\ Saved(mine[h].row, "ACTIVE").parent = plan[m].parent
          BY <1>2, <1>4, <4>1 DEF SameRow
        <5>2. current[h] # None => current[h].id \in PlanIds /\ GoodParent(current[h].id)
          BY <1>1 DEF MineFits, SyncFits, SameRow, GoodParent
        <5> QED BY <4>0, <5>1, <5>2 DEF Activated, PlanRow
      <4>3. /\ staged'[h][m] = row /\ row # None
            /\ \A p \in PlanIds : p # m => staged'[h][p] = staged[h][p]
        BY <1>0, <4>1, <4>2
      <4>4. Applied(h, m)'
        BY <4>1, <4>2, <4>3 DEF Applied, GoodParent
      <4>5. \A p \in PlanIds : p # m => /\ Inserted(h, p) => Inserted(h, p)'
                                        /\ Applied(h, p) => Applied(h, p)'
                                        /\ Changed(h, p) => Changed(h, p)'
                                        /\ ~Fresh(h, p)'
        BY <4>1, <4>3 DEF Inserted, Applied, Changed, Exists, Childless, GoodParent, Fresh
      <4>6. StagedKinds(h)'
        BY <1>1, <4>1, <4>3, <4>4, <4>5 DEF StagedKinds
      <4>7. SyncFits(h)'
        BY <1>1, <1>9, <4>1 DEF SyncFits
      <4>8. Replaced(h)'
        <5>1. m \notin ActivePlans /\ ActivePlans' = ActivePlans /\ swallowed' = swallowed
          BY <1>9, <4>1 DEF ActivePlans, WithStatus
        <5>2. \A c \in ActivePlans : c \in PlanIds
          BY DEF ActivePlans, WithStatus
        <5> QED BY <4>1, <4>3, <5>1, <5>2 DEF Replaced
      <4> QED BY <4>1, <4>6, <4>7, <4>8 DEF SerialFits, ActiveFits
    <3> QED BY <3>1, <3>2
  <2> QED BY <1>13, <2>1, <2>2, <2>3, <2>4, <2>5 DEF Apply
\* An event of a task, or a GET.
<1>15. CASE TaskEvent(h)
  <2>1. CASE InsertActive(h)
    <3>1. /\ pc[h] = "insert" /\ pc'[h] \in {"commit", "proposed"} /\ current[h] = None
          /\ UNCHANGED <<plan, op, mine, current, swallowed>> /\ staged[h] = NothingStaged
          /\ StageNew(h, NewPlan("ACTIVE", 0, "HYBRID")) /\ ActivePlans = {}
      BY <1>0, <1>1, <2>1 DEF InsertActive, SyncFits, StagedKinds, ActiveFits
    <3>2. nextId \in PlanIds /\ ~Exists(nextId) /\ Childless(nextId)
      BY <3>1, NewIsChildless, BoundAssumption DEF StageNew, PlanIds, TypeInv, TypeOK, HistoryInv
    <3>3. /\ NewPlan("ACTIVE", 0, "HYBRID") \in PlanRow
          /\ NewPlan("ACTIVE", 0, "HYBRID").status \in FreshStatuses
          /\ GoodParent(NewPlan("ACTIVE", 0, "HYBRID").parent)
      BY <1>4, OpsAssumption DEF NewPlan, PlanRow, FreshStatuses, GoodParent
    <3>4. /\ \A p \in PlanIds : staged'[h][p] # None => Inserted(h, p)'
          /\ \A p, q \in PlanIds : Fresh(h, p)' /\ Fresh(h, q)' => p = q
      BY <3>1, <3>2, <3>3, StagedInsert
    <3>5. StagedKinds(h)'
      BY <3>1, <3>4 DEF StagedKinds
    <3>6. SyncFits(h)'
      BY <3>1 DEF SyncFits
    <3>7. Replaced(h)'
      BY <1>9, <3>1 DEF Replaced
    <3> QED BY <3>1, <3>5, <3>6, <3>7 DEF SerialFits, ActiveFits
  <2>2. CASE ReadProposed(h)
    <3>1. /\ pc[h] = "proposed" /\ pc'[h] \in {"commit", "mark"} /\ current[h] = None
          /\ UNCHANGED <<plan, nextId, op, current, staged, swallowed>>
      BY <1>0, <1>1, <2>2 DEF ReadProposed, SyncFits
    <3>2. pc'[h] = "mark" => \E p \in PlanIds :
            plan[p].status = "PROPOSED" /\ mine'[h] = [id |-> p, row |-> plan[p]]
      BY <1>0, <2>2 DEF ReadProposed, IsLatestProposed, WithStatus
    <3>3. SyncFits(h)'
      <4>1. CASE pc'[h] = "commit"
        BY <3>1, <4>1 DEF SyncFits
      <4>2. CASE pc'[h] = "mark"
        <5>1. PICK p \in PlanIds : plan[p].status = "PROPOSED" /\ mine'[h] = [id |-> p, row |-> plan[p]]
          BY <3>2, <4>2
        <5>2. mine'[h].id = p /\ mine'[h].row = plan[p] /\ SameRow(plan[p], p)
          BY <5>1, <1>8
        <5>3. SameRow(mine[h].row, mine[h].id)' /\ mine'[h].row.status = "PROPOSED"
          BY <3>1, <5>1, <5>2 DEF SameRow
        <5> QED BY <3>1, <4>2, <5>3 DEF SyncFits
      <4> QED BY <3>1, <4>1, <4>2
    <3>4. StagedKinds(h)'
      BY <1>7, <3>1 DEF StagedKinds
    <3>5. StagesActive(h)' => Replaced(h)'
      <4>1. StagesActive(h)' => Replaced(h)
        BY <1>1, <1>7, <3>1 DEF ActiveFits
      <4> QED BY <1>9, <3>1, <4>1 DEF Replaced
    <3> QED BY <3>1, <3>3, <3>4, <3>5 DEF SerialFits, ActiveFits
  <2>3. CASE MarkStale(h)
    <3>0. PICK m, row : m = mine[h].id /\ row = Saved(mine[h].row, mine[h].row.status)
      OBVIOUS
    <3>1. /\ pc[h] = "mark" /\ pc'[h] = "commit" /\ m \in PlanIds /\ current[h] = None
          /\ UNCHANGED <<plan, nextId, op, mine, current, swallowed>>
          /\ Stage(h, m, row) /\ mine[h].row \in PlanRow
          /\ SameRow(mine[h].row, m) /\ mine[h].row.status = "PROPOSED"
      BY <1>0, <1>1, <1>3, <2>3, <3>0 DEF MarkStale, MineFits, SyncFits, HoldsMine
    <3>2. /\ row \in PlanRow /\ row.status = "PROPOSED" /\ plan[m].status = "PROPOSED"
          /\ row.algo = plan[m].algo /\ row.parent = plan[m].parent
      <4>1. row = Saved(mine[h].row, "PROPOSED")
        BY <3>0, <3>1
      <4> QED BY <1>2, <1>4, <3>1, <4>1 DEF SameRow
    <3>3. /\ \A p \in PlanIds : staged'[h][p] # None =>
               Inserted(h, p)' \/ Applied(h, p)' \/ Changed(h, p)'
          /\ \A p \in PlanIds : Fresh(h, p)' => Fresh(h, p)
          /\ \A p \in PlanIds : p # m => staged'[h][p] = staged[h][p]
          /\ staged'[h][m] = row
      BY <1>1, <3>1, <3>2, StagedChange
    <3>4. StagedKinds(h)'
      BY <1>1, <3>1, <3>3 DEF StagedKinds
    <3>5. SyncFits(h)'
      BY <3>1 DEF SyncFits
    <3>6. StagesActive(h)' => StagesActive(h)
      BY <3>2, <3>3 DEF StagesActive
    <3>7. Replaced(h) => Replaced(h)'
      <4>1. m \notin ActivePlans /\ ActivePlans' = ActivePlans /\ swallowed' = swallowed
        BY <1>9, <3>1, <3>2 DEF ActivePlans, WithStatus
      <4>2. \A c \in ActivePlans : c \in PlanIds
        BY DEF ActivePlans, WithStatus
      <4> QED BY <3>3, <4>1, <4>2 DEF Replaced
    <3> QED BY <1>1, <3>1, <3>4, <3>5, <3>6, <3>7 DEF SerialFits, ActiveFits
  <2> QED BY <1>15, <2>1, <2>2, <2>3 DEF TaskEvent
<1>17. CASE DiscardWrite(h) \/ RevertInsert(h) \/ DraftInsert(h)
  <2>1. CASE DiscardWrite(h)
    <3>0. PICK m, row : m = mine[h].id /\ row = Saved(mine[h].row, "DISCARDED")
      OBVIOUS
    <3>1. /\ pc[h] = "discard" /\ pc'[h] = "commit" /\ m \in PlanIds /\ current[h] = None
          /\ UNCHANGED <<plan, nextId, op, mine, current, swallowed>>
          /\ Stage(h, m, row) /\ mine[h].row \in PlanRow /\ staged[h] = NothingStaged
          /\ SameRow(mine[h].row, m) /\ mine[h].row.status \in {"DRAFT", "PROPOSED", "FAILED"}
      BY <1>0, <1>1, <1>3, <2>1, <3>0
         DEF DiscardWrite, OpFits, MineFits, RowFits, SyncFits, StagedKinds, HoldsMine
    <3>2. /\ row \in PlanRow /\ row.status = "DISCARDED" /\ plan[m].status \in {"DRAFT", "PROPOSED", "FAILED"}
          /\ row.algo = plan[m].algo /\ row.parent = plan[m].parent
      BY <1>2, <1>4, <3>0, <3>1 DEF SameRow
    <3>3. /\ \A p \in PlanIds : staged'[h][p] # None =>
               Inserted(h, p)' \/ Applied(h, p)' \/ Changed(h, p)'
          /\ \A p \in PlanIds : Fresh(h, p)' => Fresh(h, p)
          /\ \A p \in PlanIds : p # m => staged'[h][p] = staged[h][p]
          /\ staged'[h][m] = row
      BY <1>1, <3>1, <3>2, StagedChange
    <3>4. StagedKinds(h)'
      BY <1>1, <3>1, <3>3 DEF StagedKinds
    <3>5. SyncFits(h)'
      BY <3>1 DEF SyncFits
    <3>6. ~StagesActive(h)'
      BY <1>6, <3>1, <3>2, <3>3 DEF StagesActive
    <3> QED BY <3>1, <3>4, <3>5, <3>6 DEF SerialFits, ActiveFits
  <2>2. CASE RevertInsert(h) \/ DraftInsert(h)
    <3>0. PICK row : row = IF pc[h] = "revert" THEN NewPlan("ACTIVE", mine[h].id, mine[h].row.algo)
                                               ELSE mine[h].row
      OBVIOUS
    <3>1. /\ pc[h] \in {"revert", "draft"} /\ pc'[h] = IF pc[h] = "revert" THEN "active" ELSE "commit"
          /\ UNCHANGED <<plan, op, mine, current, swallowed>> /\ StageNew(h, row)
          /\ staged[h] = NothingStaged /\ mine[h].row \in PlanRow /\ current[h] = None
          /\ pc[h] = "revert" => op[h] = "revert" /\ mine[h].id \in PlanIds
      BY <1>0, <1>1, <1>3, <2>2, <3>0
         DEF RevertInsert, DraftInsert, MineFits, OpFits, SyncFits, StagedKinds, HoldsMine
    <3>2. /\ row \in PlanRow /\ row.status \in FreshStatuses /\ GoodParent(row.parent)
          /\ pc[h] = "draft" => row.status = "DRAFT"
      <4>1. CASE pc[h] = "revert"
        BY <1>1, <1>4, <3>0, <3>1, <4>1 DEF SyncFits, NewPlan, PlanRow, FreshStatuses, GoodParent
      <4>2. CASE pc[h] = "draft"
        BY <1>1, <3>0, <3>1, <4>2 DEF SyncFits, RowFits, FreshStatuses
      <4> QED BY <3>1, <4>1, <4>2
    <3>3. nextId \in PlanIds /\ ~Exists(nextId) /\ Childless(nextId)
      BY <3>1, NewIsChildless, BoundAssumption DEF StageNew, PlanIds, TypeInv, TypeOK, HistoryInv
    <3>4. /\ \A p \in PlanIds : staged'[h][p] # None => Inserted(h, p)'
          /\ \A p, q \in PlanIds : Fresh(h, p)' /\ Fresh(h, q)' => p = q
          /\ \A p \in PlanIds : staged'[h][p] # None => staged'[h][p].status = row.status
      BY <3>1, <3>2, <3>3, StagedInsert
    <3>5. StagedKinds(h)'
      BY <3>1, <3>4 DEF StagedKinds
    <3>6. SyncFits(h)'
      BY <3>1 DEF SyncFits
    <3>7. pc[h] = "draft" => ~StagesActive(h)'
      BY <3>2, <3>4 DEF StagesActive
    <3> QED BY <3>1, <3>5, <3>6, <3>7 DEF SerialFits, ActiveFits
  <2> QED BY <1>17, <2>1, <2>2
<1> QED
  BY <1>10, <1>11, <1>12, <1>13, <1>14, <1>15, <1>16, <1>17, <1>18 DEF Request

-----------------------------------------------------------------------------
(* A step of the history: what becomes of a plan in one request.              *)
Alike(p) ==
    /\ plan'[p].status = plan[p].status
    /\ Exists(p) => plan'[p].parent = plan[p].parent /\ plan'[p].algo = plan[p].algo
Born(p) == /\ ~Exists(p) /\ Childless(p)
           /\ plan'[p].status \in FreshStatuses /\ GoodParent(plan'[p].parent)
Adopted(p) == /\ plan[p].status = "PROPOSED" /\ plan'[p].status = "ACTIVE"
              /\ plan'[p].parent = plan[p].parent \/ GoodParent(plan'[p].parent)
Moved(p) == /\ <<plan[p].status, plan'[p].status>> \in
                 {<<"ACTIVE", "ARCHIVED">>, <<"DRAFT", "DISCARDED">>, <<"PROPOSED", "DISCARDED">>,
                  <<"FAILED", "DISCARDED">>, <<"DRAFT", "PROCESSING">>,
                  <<"PROCESSING", "PROPOSED">>, <<"PROCESSING", "FAILED">>}
            /\ plan'[p].parent = plan[p].parent /\ plan'[p].algo = plan[p].algo
Gone(p) == plan[p].status \in {"ARCHIVED", "DISCARDED"} /\ plan'[p] = Absent

HistoryStep ==
    /\ \A p \in PlanIds : Alike(p) \/ Born(p) \/ Adopted(p) \/ Moved(p) \/ Gone(p)
    /\ \A p, q \in PlanIds : (Born(p) \/ Adopted(p)) /\ (Born(q) \/ Adopted(q)) => p = q

LEMMA PlanWriters ==
    ASSUME NEW h \in Sessions, Request(h), plan' # plan
    PROVE  Commit(h) \/ OptimizeClone(h) \/ OptimizeStart(h) \/ OptimizeEnd(h) \/ DeletePlan(h)
BY DEF Request, ApplyCheck, DiscardRead, RevertRead, OptimizeRead, DraftRead,
     ActiveForTask, Apply, ReadCandidate, ReadActive, ReadActiveFails, Archive, Activate, Optimize,
     OptimizeCheck, TaskEvent, InsertActive, ReadProposed, MarkStale, Cleanup, ListDiscarded,
     ListArchived, CleanupEnd, DiscardWrite, RevertInsert, DraftInsert, Abort, DeadlockVictim

LEMMA RequestHistory ==
    ASSUME TypeInv, SharedInv, HistoryInv, NEW h \in Sessions, SerialFits(h), Request(h)
    PROVE  HistoryStep
<1>0. plan \in [PlanIds -> PlanRow] /\ nextId \in Nat
  BY DEF TypeInv, TypeOK
<1>1. ASSUME NEW m \in PlanIds, \A p \in PlanIds : p # m => plan'[p] = plan[p],
             Born(m) \/ Adopted(m) \/ Moved(m) \/ Gone(m) \/
               (Alike(m) /\ ~Exists(m) /\ ~Exists(m)')
      PROVE  HistoryStep
  <2>1. \A p \in PlanIds : p # m => Alike(p) /\ ~Born(p) /\ ~Adopted(p)
    BY <1>1 DEF Alike, Born, Adopted, FreshStatuses, Exists
  <2> QED BY <1>1, <2>1 DEF HistoryStep
<1>2. CASE UNCHANGED plan
  BY <1>2 DEF HistoryStep, Alike, Born, Adopted, FreshStatuses, Exists
<1>3. CASE Commit(h)
  <2>1. \A p \in PlanIds : plan'[p] = IF staged[h][p] # None THEN staged[h][p] ELSE plan[p]
    BY <1>3 DEF Commit
  <2>2. \A p \in PlanIds : staged[h][p] # None => Inserted(h, p) \/ Applied(h, p) \/ Changed(h, p)
    BY DEF SerialFits, StagedKinds
  <2>3. \A p \in PlanIds : staged[h][p] # None =>
          /\ Inserted(h, p) => Born(p)
          /\ Applied(h, p) => Adopted(p)
          /\ Changed(h, p) => Alike(p) \/ Moved(p)
    BY <2>1 DEF Inserted, Applied, Changed, Born, Adopted, Alike, Moved, FreshStatuses
  <2>4. \A p \in PlanIds : staged[h][p] = None => Alike(p) /\ ~Born(p) /\ ~Adopted(p)
    BY <2>1 DEF Alike, Born, Adopted, FreshStatuses, Exists
  <2>5. \A p \in PlanIds : Born(p) \/ Adopted(p) => Fresh(h, p)
    BY <2>1, <2>4 DEF Born, Adopted, Fresh, FreshStatuses
  <2>6. \A p, q \in PlanIds : Fresh(h, p) /\ Fresh(h, q) => p = q
    BY DEF SerialFits, StagedKinds
  <2> QED BY <2>2, <2>3, <2>4, <2>5, <2>6 DEF HistoryStep
<1>4. CASE OptimizeClone(h) /\ plan' # plan
  <2>1. nextId \in PlanIds /\ plan' = [plan EXCEPT ![nextId] = mine[h].row] /\ pc[h] = "clone"
    BY <1>0, <1>4 DEF OptimizeClone
  <2>2. ~Exists(nextId) /\ Childless(nextId)
    BY <2>1, NewIsChildless DEF HistoryInv
  <2>3. mine[h].row.status = "DRAFT" /\ GoodParent(mine[h].row.parent)
    BY <2>1 DEF TypeInv, LocalFits, RowFits, SerialFits, SyncFits
  <2>4. Born(nextId)
    BY <1>0, <2>1, <2>2, <2>3 DEF Born, FreshStatuses
  <2> QED BY <1>0, <1>1, <2>1, <2>4
<1>5. CASE OptimizeStart(h) \/ OptimizeEnd(h)
  <2>0. pc[h] \in {"start", "run"}
    BY <1>5 DEF OptimizeStart, OptimizeEnd
  <2>1. PICK m, status : /\ m = mine[h].id /\ plan' = [plan EXCEPT ![m] = Saved(mine[h].row, status)]
                         /\ pc[h] = "start" => status = "PROCESSING"
                         /\ pc[h] = "run" => status \in {"PROPOSED", "FAILED"}
    BY <1>5 DEF OptimizeStart, OptimizeEnd
  <2>2. m \in PlanIds /\ mine[h].row \in PlanRow /\ SameRow(mine[h].row, m)
    BY <2>0, <2>1 DEF TypeInv, TypeOK, LocalFits, MineFits, HoldsMine, ReadRow, SerialFits, SyncFits
  <2>3. plan[m].status = IF pc[h] = "start" THEN "DRAFT" ELSE "PROCESSING"
    BY <2>0, <2>1, <2>2 DEF TypeInv, LocalFits, RowFits, SameRow
  <2>4. /\ plan'[m].status = status
        /\ plan'[m].parent = plan[m].parent /\ plan'[m].algo = plan[m].algo
    BY <1>0, <2>1, <2>2 DEF Saved, PlanRow, SameRow
  <2>5. Moved(m)
    BY <2>0, <2>1, <2>3, <2>4 DEF Moved
  <2> QED BY <1>0, <1>1, <2>1, <2>2, <2>5
<1>6. CASE DeletePlan(h) /\ plan' # plan
  <2>1. PICK p \in todo[h] : plan' = [plan EXCEPT ![p] = Absent]
    BY <1>6 DEF DeletePlan
  <2>2. p \in PlanIds
    BY DEF TypeInv, TypeOK
  <2>3. Exists(p) => Gone(p)
    BY <1>0, <2>1, <2>2 DEF SharedInv, TodoInv, OldInv, Gone
  <2>4. ~Exists(p) => Alike(p) /\ ~Exists(p)'
    BY <1>0, <2>1, <2>2 DEF Alike, Exists, Absent
  <2> QED BY <1>0, <1>1, <2>1, <2>2, <2>3, <2>4
<1> QED
  BY <1>2, <1>3, <1>4, <1>5, <1>6, PlanWriters

\* What a step makes of a plan that was a parent, or may become one.
LEMMA ParentStays ==
    ASSUME TypeInv, HistoryStep, NEW q \in PlanIds
    PROVE  /\ plan[q].status \in {"ACTIVE", "ARCHIVED"} =>
                plan'[q].status \in {"ACTIVE", "ARCHIVED", "ABSENT"}
           /\ plan[q].status = "ABSENT" /\ ~Childless(q) => plan'[q].status = "ABSENT"
BY DEF HistoryStep, Alike, Born, Adopted, Moved, Gone, Exists, Absent

\* A plan that exists keeps its parent, or is the one that gets a new one.
LEMMA ParentOf ==
    ASSUME TypeInv, HistoryStep, NEW p \in PlanIds, Exists(p)'
    PROVE  \/ Exists(p) /\ plan'[p].parent = plan[p].parent
           \/ (Born(p) \/ Adopted(p)) /\ GoodParent(plan'[p].parent)
BY DEF HistoryStep, Alike, Born, Adopted, Moved, Gone, Exists, Absent

LEMMA ParentKept ==
    ASSUME TypeInv, TypeInv', SharedInv, ParentInv, HistoryStep, nextId' >= nextId
    PROVE  ParentInv'
<1> SUFFICES ASSUME NEW p \in PlanIds, Exists(p)', plan'[p].parent # 0
             PROVE  /\ plan'[p].parent < nextId'
                    /\ plan'[plan'[p].parent].status \in {"ACTIVE", "ARCHIVED", "ABSENT"}
  BY DEF ParentInv
<1>1. PICK q \in PlanIds : q = plan'[p].parent
  BY DEF TypeInv, TypeOK, PlanRow
<1>2. q \in Nat /\ nextId \in Nat /\ nextId' \in Nat
  BY DEF TypeInv, TypeOK, PlanIds
<1>3. CASE Exists(p) /\ plan[p].parent = q
  <2>1. q < nextId /\ plan[q].status \in {"ACTIVE", "ARCHIVED", "ABSENT"} /\ ~Childless(q)
    BY <1>1, <1>3 DEF ParentInv, Childless, PlanIds
  <2> QED BY <1>1, <1>2, <2>1, ParentStays
<1>4. CASE GoodParent(q)
  <2>1. plan[q].status \in {"ACTIVE", "ARCHIVED"}
    BY <1>4, <1>1 DEF GoodParent, PlanIds
  <2>2. q < nextId
    BY <1>2, <2>1 DEF SharedInv, IdInv, Exists
  <2> QED BY <1>1, <1>2, <2>1, <2>2, ParentStays
<1> QED
  BY <1>1, <1>3, <1>4, ParentOf

(* Nobody descends from the plan that gets a new parent: a circle would have  *)
(* to run through it.                                                         *)
LEMMA LineageKept ==
    ASSUME TypeInv, TypeInv', ParentInv, LineageAcyclic, HistoryStep
    PROVE  LineageAcyclic'
<1> SUFFICES ASSUME NEW S \in SUBSET PlanIds, S # {}, \A p \in S : Exists(p)'
             PROVE  \E p \in S : plan'[p].parent \notin S
  BY DEF LineageAcyclic
<1>1. ASSUME NEW T \in SUBSET PlanIds, T # {}, \A p \in T : Exists(p)
      PROVE  \E p \in T : plan[p].parent \notin T
  BY <1>1 DEF LineageAcyclic
<1>2. CASE \A p \in S : Exists(p) /\ plan'[p].parent = plan[p].parent
  BY <1>1, <1>2
<1>3. ASSUME NEW m \in S, ~(Exists(m) /\ plan'[m].parent = plan[m].parent)
      PROVE  \E p \in S : plan'[p].parent \notin S
  <2>1. (Born(m) \/ Adopted(m)) /\ GoodParent(plan'[m].parent)
    BY <1>3, ParentOf
  <2>2. plan'[m].parent # m
    BY <2>1 DEF GoodParent, Born, Adopted, Exists, PlanIds
  <2>3. \A p \in PlanIds : Exists(p) => plan[p].parent # m
    <3>1. Born(m) => Childless(m)
      BY DEF Born
    <3>2. Adopted(m) => Childless(m)
      BY DEF Adopted, Childless, ParentInv, PlanIds
    <3> QED BY <2>1, <3>1, <3>2 DEF Childless
  <2>4. \A p \in S \ {m} : Exists(p) /\ plan'[p].parent = plan[p].parent
    <3> SUFFICES ASSUME NEW p \in S \ {m}
                 PROVE  Exists(p) /\ plan'[p].parent = plan[p].parent
      OBVIOUS
    <3>1. ~(Born(p) \/ Adopted(p))
      BY <2>1 DEF HistoryStep
    <3> QED BY <3>1, ParentOf
  <2>5. CASE S = {m}
    BY <2>2, <2>5
  <2>6. CASE S # {m}
    <3>1. S \ {m} # {}
      BY <2>6
    <3>2. PICK p \in S \ {m} : plan[p].parent \notin S \ {m}
      BY <1>1, <2>4, <3>1
    <3>3. plan'[p].parent = plan[p].parent /\ plan[p].parent # m
      BY <2>3, <2>4
    <3> QED BY <3>2, <3>3
  <2> QED BY <2>5, <2>6
<1> QED
  BY <1>2, <1>3

\* Proposals come from the end of an optimization alone.
LEMMA ProposalsKept ==
    ASSUME TypeInv, TypeInv', SharedInv, HistoryInv, NEW h \in Sessions, SerialFits(h), Request(h)
    PROVE  OneProposalPerAlgorithm'
<1>0. plan \in [PlanIds -> PlanRow] /\ nextId \in Nat /\ PlanIds \subseteq Nat
  BY DEF TypeInv, TypeOK, PlanIds
<1>1. HistoryStep
  BY RequestHistory
<1>2. \A p \in PlanIds : plan'[p].status = "PROPOSED" /\ plan[p].status = "PROPOSED" =>
         plan'[p].algo = plan[p].algo
  BY <1>1 DEF HistoryStep, Alike, Born, Adopted, Moved, Gone, Exists, Absent
<1>3. ASSUME NEW m \in PlanIds, plan'[m].status = "PROPOSED", plan[m].status # "PROPOSED"
      PROVE  /\ m + 1 = nextId /\ \A p \in PlanIds : p # m => plan'[p] = plan[p]
             /\ \A p \in PlanIds : plan[p].status = "PROPOSED" =>
                  plan[p].algo # plan'[m].algo
  <2>1. plan[m].status = "PROCESSING"
    BY <1>1, <1>3 DEF HistoryStep, Alike, Born, Adopted, Moved, Gone, Absent, FreshStatuses
  <2>2. OptimizeEnd(h)
    <3>1. ~Commit(h)
      BY <1>3, <2>1 DEF Commit, SerialFits, StagedKinds, Inserted, Applied, Changed, Exists, FreshStatuses
    <3>2. ~OptimizeClone(h)
      <4>1. pc[h] = "clone" => mine[h].row.status = "DRAFT"
        BY DEF TypeInv, LocalFits, RowFits
      <4> QED BY <1>0, <1>3, <4>1 DEF OptimizeClone
    <3>3. ~OptimizeStart(h)
      <4>1. pc[h] = "start" => mine[h].row \in PlanRow
        BY DEF TypeInv, TypeOK, LocalFits, MineFits, HoldsMine, ReadRow
      <4>2. mine[h].row \in PlanRow => Saved(mine[h].row, "PROCESSING").status = "PROCESSING"
        BY DEF Saved, PlanRow
      <4> QED BY <1>0, <1>3, <4>1, <4>2 DEF OptimizeStart
    <3>4. ~DeletePlan(h)
      BY <1>0, <1>3 DEF DeletePlan, Absent
    <3> QED BY <1>3, <3>1, <3>2, <3>3, <3>4, PlanWriters
  <2>3. /\ pc[h] = "run" /\ mine[h].row \in PlanRow /\ mine[h].id \in PlanIds
        /\ SameRow(mine[h].row, mine[h].id) /\ mine[h].id + 1 = nextId
        /\ ~AlreadyProposed(op[h], mine[h].row.algo)
    BY <2>2 DEF OptimizeEnd, TypeInv, TypeOK, LocalFits, MineFits, HoldsMine, ReadRow, SerialFits, SyncFits
  <2>4. \A p \in PlanIds : p # mine[h].id => plan'[p] = plan[p]
    BY <1>0, <2>2 DEF OptimizeEnd
  <2>5. m = mine[h].id
    BY <1>3, <2>4
  <2>6. plan'[m].algo = mine[h].row.algo
    BY <1>0, <2>2, <2>3, <2>5 DEF OptimizeEnd, Saved, PlanRow
  <2> QED BY <2>3, <2>4, <2>5, <2>6 DEF AlreadyProposed, WithStatus
<1> SUFFICES ASSUME NEW p \in PlanIds, NEW q \in PlanIds, plan'[p].status = "PROPOSED",
                    plan'[q].status = "PROPOSED", p # q
             PROVE  plan'[p].algo # plan'[q].algo
  BY DEF OneProposalPerAlgorithm, WithStatus
<1>4. CASE plan[p].status = "PROPOSED" /\ plan[q].status = "PROPOSED"
  BY <1>2, <1>4 DEF HistoryInv, OneProposalPerAlgorithm, WithStatus
<1>5. CASE plan[q].status # "PROPOSED"
  BY <1>0, <1>3, <1>5
<1>6. CASE plan[p].status # "PROPOSED" /\ plan[q].status = "PROPOSED"
  BY <1>3, <1>6
<1> QED
  BY <1>4, <1>5, <1>6

LEMMA SwallowedGrows ==
    ASSUME TypeOK, NEW h \in Sessions, Request(h)
    PROVE  swallowed \in Nat /\ swallowed' >= swallowed
<1>1. swallowed \in Nat
  BY BoundAssumption DEF TypeOK
<1> QED
  BY <1>1 DEF Request, ApplyCheck, DiscardRead, RevertRead, OptimizeRead, DraftRead,
     ActiveForTask, Apply, ReadCandidate, ReadActive, ReadActiveFails, Archive, Activate, Optimize,
     OptimizeCheck, OptimizeClone, OptimizeStart, OptimizeEnd, TaskEvent, InsertActive,
     ReadProposed, MarkStale, Cleanup, ListDiscarded, ListArchived, DeletePlan, CleanupEnd,
     DiscardWrite, RevertInsert, DraftInsert, Commit, Abort, DeadlockVictim

LEMMA ActiveFinite ==
    ASSUME TypeOK
    PROVE  IsFiniteSet(ActivePlans) /\ Cardinality(ActivePlans) \in Nat
<1>1. IsFiniteSet(PlanIds)
  BY FS_Interval, BoundAssumption DEF PlanIds
<1>2. ActivePlans \subseteq PlanIds
  BY DEF ActivePlans, WithStatus
<1> QED
  BY <1>1, <1>2, FS_Subset, FS_CardinalityType

\* A commit that adds an active plan takes the old one away, or pays for it.
LEMMA ActiveKept ==
    ASSUME TypeInv, TypeInv', SharedInv, HistoryInv, NEW h \in Sessions, SerialFits(h), Request(h)
    PROVE  AtMostOneActive'
<1>0. /\ plan \in [PlanIds -> PlanRow] /\ swallowed \in Nat /\ swallowed' \in Nat
      /\ swallowed' >= swallowed /\ Cardinality(ActivePlans) <= 1 + swallowed
      /\ IsFiniteSet(ActivePlans) /\ Cardinality(ActivePlans) \in Nat
      /\ IsFiniteSet(ActivePlans') /\ Cardinality(ActivePlans') \in Nat
  <2>1. TypeOK' => (IsFiniteSet(ActivePlans) /\ Cardinality(ActivePlans) \in Nat)'
    BY ActiveFinite, PTL
  <2>2. TypeOK' => swallowed' \in Nat
    BY BoundAssumption DEF TypeOK
  <2> QED BY <2>1, <2>2, ActiveFinite, SwallowedGrows DEF TypeInv, TypeOK, HistoryInv, AtMostOneActive
<1>1. CASE ActivePlans' \subseteq ActivePlans
  <2>1. Cardinality(ActivePlans') <= Cardinality(ActivePlans)
    BY <1>0, <1>1, FS_Subset
  <2> QED BY <1>0, <2>1 DEF AtMostOneActive
<1>2. CASE Commit(h) /\ ~(ActivePlans' \subseteq ActivePlans)
  <2>1. \A p \in PlanIds : plan'[p] = IF staged[h][p] # None THEN staged[h][p] ELSE plan[p]
    BY <1>2 DEF Commit
  <2>2. PICK a \in PlanIds : Fresh(h, a) /\ staged[h][a].status = "ACTIVE" /\ a \notin ActivePlans
    BY <1>2, <2>1 DEF ActivePlans, WithStatus, Fresh, FreshStatuses
  <2>3. \A p \in PlanIds : p # a => ~Fresh(h, p)
    BY <2>2 DEF SerialFits, StagedKinds
  <2>4. ActivePlans' \subseteq ActivePlans \cup {a}
    BY <2>1, <2>3 DEF ActivePlans, WithStatus, Fresh, FreshStatuses
  <2>5. Replaced(h)
    BY <1>2, <2>2 DEF Commit, SerialFits, ActiveFits, StagesActive, Fresh
  <2>6. ASSUME NEW T, IsFiniteSet(T), Cardinality(T) <= swallowed, ActivePlans' \subseteq T \cup {a}
        PROVE  AtMostOneActive'
    <3>0. Cardinality(T) \in Nat
      BY <2>6, FS_CardinalityType
    <3>1. IsFiniteSet(T \cup {a}) /\ Cardinality(T \cup {a}) <= Cardinality(T) + 1
      <4>1. CASE a \in T
        <5>1. T \cup {a} = T
          BY <4>1
        <5> QED BY <2>6, <3>0, <5>1
      <4>2. CASE a \notin T
        <5>1. IsFiniteSet(T \cup {a}) /\ Cardinality(T \cup {a}) = Cardinality(T) + 1
          BY <2>6, <4>2, FS_AddElement, Zenon
        <5> QED BY <3>0, <5>1
      <4> QED BY <4>1, <4>2
    <3>2. Cardinality(ActivePlans') <= Cardinality(T \cup {a}) /\ Cardinality(T \cup {a}) \in Nat
      BY <2>6, <3>1, FS_Subset, FS_CardinalityType
    <3>3. Cardinality(ActivePlans') <= 1 + swallowed'
      BY <1>0, <2>6, <3>0, <3>1, <3>2
    <3> QED BY <3>3 DEF AtMostOneActive
  <2>7. CASE ActivePlans = {}
    BY <1>0, <2>4, <2>6, <2>7, FS_EmptySet
  <2>8. ASSUME NEW c \in ActivePlans, staged[h][c] # None, staged[h][c].status = "ARCHIVED"
        PROVE  AtMostOneActive'
    <3>1. c \in PlanIds
      BY DEF ActivePlans, WithStatus
    <3>2. c \notin ActivePlans'
      BY <2>1, <2>8, <3>1 DEF ActivePlans, WithStatus
    <3>3. ActivePlans' \subseteq (ActivePlans \ {c}) \cup {a}
      BY <2>4, <3>2
    <3>4. IsFiniteSet(ActivePlans \ {c}) /\ Cardinality(ActivePlans \ {c}) = Cardinality(ActivePlans) - 1
      BY <1>0, FS_RemoveElement
    <3>5. Cardinality(ActivePlans \ {c}) <= swallowed
      BY <1>0, <3>4
    <3> QED BY <2>6, <3>3, <3>4, <3>5
  <2>9. CASE Cardinality(ActivePlans) <= swallowed
    BY <1>0, <2>4, <2>6, <2>9
  <2> QED BY <2>5, <2>7, <2>8, <2>9 DEF Replaced
<1>3. ASSUME ~Commit(h)
      PROVE  ActivePlans' \subseteq ActivePlans
  <2>1. CASE UNCHANGED plan
    BY <2>1 DEF ActivePlans, WithStatus
  <2>2. CASE OptimizeClone(h)
    <3>1. pc[h] = "clone" => mine[h].row.status = "DRAFT"
      BY DEF TypeInv, LocalFits, RowFits
    <3> QED BY <1>0, <2>2, <3>1 DEF OptimizeClone, ActivePlans, WithStatus
  <2>3. CASE OptimizeStart(h) \/ OptimizeEnd(h)
    <3>1. mine[h].row \in PlanRow
      BY <2>3 DEF OptimizeStart, OptimizeEnd, TypeInv, TypeOK, LocalFits, MineFits, HoldsMine, ReadRow
    <3>2. \A s \in PlanStatuses : Saved(mine[h].row, s).status = s
      BY <3>1 DEF Saved, PlanRow
    <3>3. \A p \in PlanIds : plan'[p] = plan[p] \/ plan'[p].status \in {"PROCESSING", "PROPOSED", "FAILED"}
      BY <1>0, <2>3, <3>2 DEF OptimizeStart, OptimizeEnd, PlanStatuses
    <3> QED BY <3>3 DEF ActivePlans, WithStatus
  <2>4. CASE DeletePlan(h)
    BY <1>0, <2>4 DEF DeletePlan, Absent, ActivePlans, WithStatus
  <2> QED BY <1>3, <2>1, <2>2, <2>3, <2>4, PlanWriters
<1> QED
  BY <1>1, <1>2, <1>3

-----------------------------------------------------------------------------
LEMMA SerialInit == Init => SerialInv
<1> SUFFICES ASSUME Init PROVE SerialInv
  OBVIOUS
<1>1. \A p \in PlanIds : ~Exists(p) /\ plan[p].status = "ABSENT"
  BY DEF Init, Exists, Absent
<1>2. ActivePlans = {}
  BY <1>1 DEF ActivePlans, WithStatus
<1>3. HistoryInv
  <2>1. ParentInv
    BY <1>1 DEF ParentInv
  <2>2. LineageAcyclic
    <3> SUFFICES ASSUME NEW S \in (SUBSET {p \in PlanIds : Exists(p)}) \ {{}}
                 PROVE  \E p \in S : plan[p].parent \notin S
      BY DEF LineageAcyclic
    <3>0. S \subseteq {p \in PlanIds : Exists(p)} /\ S # {}
      OBVIOUS
    <3>1. PICK p : p \in S
      BY <3>0
    <3>2. p \in PlanIds /\ Exists(p)
      BY <3>0, <3>1
    <3> QED BY <1>1, <3>2
  <2>3. OneProposalPerAlgorithm
    BY <1>1 DEF OneProposalPerAlgorithm, WithStatus
  <2>4. swallowed = 0
    BY DEF Init
  <2>5. AtMostOneActive
    BY <1>2, <2>4, FS_EmptySet DEF AtMostOneActive
  <2> QED BY <2>1, <2>2, <2>3, <2>5 DEF HistoryInv
<1>4. \A h \in Sessions : SerialFits(h)
  BY DEF Init, SerialFits, SyncFits, StagedKinds, ActiveFits, NothingStaged, Fresh
<1> QED
  BY <1>3, <1>4 DEF SerialInv

\* Nothing of the history changes, nor do the requests, if there are any.
LEMMA SerialUnread ==
    ASSUME TypeInv, SerialInv, RetentionElapses \/ UNCHANGED vars
    PROVE  SerialInv' /\ HistoryStep
<1>1. UNCHANGED <<nextId, pc, op, mine, current, staged, swallowed>>
  BY DEF RetentionElapses, vars
<1>2. \A p \in PlanIds : /\ plan'[p].status = plan[p].status
                         /\ plan'[p].parent = plan[p].parent /\ plan'[p].algo = plan[p].algo
  BY DEF RetentionElapses, vars, TypeInv, TypeOK, PlanRow
<1>3. /\ ActivePlans' = ActivePlans
      /\ \A p \in PlanIds : Exists(p)' <=> Exists(p)
      /\ \A s : WithStatus(s)' = WithStatus(s)
  BY <1>2 DEF ActivePlans, WithStatus, Exists
<1>4. HistoryInv'
  <2>1. ParentInv'
    BY <1>1, <1>2, <1>3 DEF SerialInv, HistoryInv, ParentInv, TypeInv, TypeOK, PlanRow
  <2>2. LineageAcyclic'
    BY <1>2, <1>3 DEF SerialInv, HistoryInv, LineageAcyclic
  <2>3. OneProposalPerAlgorithm'
    BY <1>2, <1>3 DEF SerialInv, HistoryInv, OneProposalPerAlgorithm, WithStatus
  <2>4. AtMostOneActive'
    BY <1>1, <1>3 DEF SerialInv, HistoryInv, AtMostOneActive
  <2> QED BY <2>1, <2>2, <2>3, <2>4 DEF HistoryInv
<1>5. \A h \in Sessions : SerialFits(h)'
  <2>1. CASE RetentionElapses
    <3>1. \A h \in Sessions : pc[h] = "idle" /\ staged[h] = NothingStaged /\ current[h] = None
      BY <2>1 DEF RetentionElapses, SerialInv, SerialFits, StagedKinds, TypeInv, LocalFits, MineFits, Resting
    <3> QED BY <1>1, <3>1
       DEF SerialFits, SyncFits, StagedKinds, ActiveFits, NothingStaged, Fresh
  <2>2. CASE UNCHANGED vars
    <3> SUFFICES ASSUME NEW h \in Sessions
                 PROVE  SerialFits(h)'
      OBVIOUS
    <3>1. SerialFits(h)
      BY DEF SerialInv
    <3>2. plan' = plan /\ UNCHANGED <<nextId, pc, op, mine, current, staged, swallowed>>
      BY <2>2 DEF vars
    <3>3. SyncFits(h)' <=> SyncFits(h)
      BY <3>2 DEF SyncFits, SameRow, GoodParent, AlreadyProposed, WithStatus, Exists, Childless, ActivePlans
    <3>4. StagedKinds(h)' <=> StagedKinds(h)
      BY <3>2 DEF StagedKinds, Inserted, Applied, Changed, Fresh, SameRow, GoodParent, AlreadyProposed,
         WithStatus, Exists, Childless, ActivePlans
    <3>5. ActiveFits(h)' <=> ActiveFits(h)
      BY <3>2 DEF ActiveFits, Replaced, StagesActive, Fresh, ActivePlans, WithStatus
    <3> QED BY <3>1, <3>3, <3>4, <3>5 DEF SerialFits
  <2> QED BY <2>1, <2>2
<1>6. HistoryStep
  BY <1>2 DEF HistoryStep, Alike, Born, Adopted, FreshStatuses, Exists
<1> QED
  BY <1>4, <1>5, <1>6 DEF SerialInv

LEMMA SerialNext ==
    ASSUME SingleSession, TypeInv, TypeInv', SharedInv, SerialInv, [Next]_vars
    PROVE  SerialInv' /\ HistoryStep
<1>1. ASSUME NEW h \in Sessions, Request(h)
      PROVE  SerialInv' /\ HistoryStep
  <2>1. SerialFits(h)' /\ HistoryStep
    BY <1>1, SerialKept, RequestHistory DEF SerialInv
  <2>2. \A g \in Sessions : SerialFits(g)'
    BY <2>1 DEF SingleSession
  <2>3. nextId' >= nextId
    BY <1>1, RoomKept DEF TypeInv
  <2>4. ParentInv' /\ LineageAcyclic'
    BY <2>1, <2>3, ParentKept, LineageKept DEF SerialInv, HistoryInv
  <2>5. OneProposalPerAlgorithm' /\ AtMostOneActive'
    BY <1>1, ProposalsKept, ActiveKept DEF SerialInv
  <2> QED BY <2>1, <2>2, <2>4, <2>5 DEF SerialInv, HistoryInv
<1> QED
  BY <1>1, SerialUnread DEF Next

LEMMA SerialAlways ==
    ASSUME SingleSession
    PROVE  Spec => []SerialInv
<1>1. Init => SerialInv BY SerialInit
<1>2. TypeInv /\ TypeInv' /\ SharedInv /\ SerialInv /\ [Next]_vars => SerialInv'
  BY SerialNext
<1> QED
  BY <1>1, <1>2, TypeAlways, SharedAlways, PTL DEF Spec

(* One request at a time leaves one active plan, and one more for every read  *)
(* error RevertToPlan throws away, for any plans and failures.                *)
THEOREM PlanAtMostOneActive ==
    ASSUME SingleSession
    PROVE  Spec => []AtMostOneActive
<1>1. SerialInv => AtMostOneActive BY DEF SerialInv, HistoryInv
<1> QED
  BY <1>1, SerialAlways, PTL

(* One request at a time never proposes an algorithm twice.                   *)
THEOREM PlanOneProposalPerAlgorithm ==
    ASSUME SingleSession
    PROVE  Spec => []OneProposalPerAlgorithm
<1>1. SerialInv => OneProposalPerAlgorithm BY DEF SerialInv, HistoryInv
<1> QED
  BY <1>1, SerialAlways, PTL

(* One request at a time leaves a history that ends, although an apply        *)
(* rewrites the parent of its plan.                                           *)
THEOREM PlanLineageAcyclic ==
    ASSUME SingleSession
    PROVE  Spec => []LineageAcyclic
<1>1. SerialInv => LineageAcyclic BY DEF SerialInv, HistoryInv
<1> QED
  BY <1>1, SerialAlways, PTL

(* One request at a time changes a stored status only as CanTransitionTo      *)
(* allows.                                                                    *)
THEOREM PlanStatusFollowsTable ==
    ASSUME SingleSession
    PROVE  Spec => StatusFollowsTable
<1> DEFINE Follows == \A p \in PlanIds :
             Exists(p) /\ Exists(p)' /\ plan'[p].status # plan[p].status
               => CanTransitionTo(plan[p].status, plan'[p].status)
<1>1. HistoryStep => Follows
  BY DEF HistoryStep, Alike, Born, Adopted, Moved, Gone, Exists, Absent, CanTransitionTo, Transitions
<1>2. TypeInv /\ TypeInv' /\ SharedInv /\ SerialInv /\ [Next]_vars => [Follows]_vars
  BY <1>1, SerialNext
<1> QED
  BY <1>2, TypeAlways, SharedAlways, SerialAlways, PTL DEF Spec, StatusFollowsTable

-----------------------------------------------------------------------------
(* What a request is about to do to the plans is a step of PlanHistory: the   *)
(* rows it has written, for the plans as they are.                            *)
InUse == {p \in ActivePlans : \A q \in ActivePlans : p <= q}
Unused(n) == ~Exists(n) /\ \A q \in PlanIds : Exists(q) => q < n /\ plan[q].parent # n

Looks(row, status, parent, algo) ==
    row # None /\ row.status = status /\ row.parent = parent /\ row.algo = algo
WritesOnly(h, S) == \A p \in PlanIds : staged[h][p] # None => p \in S
\* The plan in use is to be archived.
Shelves(h) == \A p \in InUse : Looks(staged[h][p], "ARCHIVED", plan[p].parent, plan[p].algo)
\* A row is saved as it is, but for what PlanHistory does not see.
Resaves(h, p) ==
    staged[h][p] # None => Looks(staged[h][p], plan[p].status, plan[p].parent, plan[p].algo)

ApplyFits(h) == op[h] = "apply" =>
    /\ pc[h] = "archive" => current[h].id \in InUse
    /\ pc[h] = "activate" =>
         /\ Shelves(h) /\ WritesOnly(h, InUse)
         /\ current[h] = None => InUse = {}
         /\ current[h] # None => current[h].id \in InUse
    /\ pc[h] = "commit" =>
         /\ mine[h].id \in PlanIds /\ plan[mine[h].id].status = "PROPOSED"
         /\ Shelves(h) /\ WritesOnly(h, InUse \cup {mine[h].id})
         /\ \E parent \in IF InUse = {} THEN {plan[mine[h].id].parent} ELSE InUse :
              Looks(staged[h][mine[h].id], "ACTIVE", parent, plan[mine[h].id].algo)

RevertFits(h) == op[h] = "revert" =>
    /\ pc[h] = "revert" => SameRow(mine[h].row, mine[h].id)
    /\ pc[h] = "archive" => current[h].id \in InUse
    /\ pc[h] \in {"active", "archive", "commit"} =>
         /\ mine[h].id \in PlanIds /\ plan[mine[h].id].status = "ARCHIVED"
         /\ \E n \in PlanIds :
              /\ Unused(n) /\ Looks(staged[h][n], "ACTIVE", mine[h].id, plan[mine[h].id].algo)
              /\ \/ pc[h] = "commit" /\ WritesOnly(h, InUse \cup {n}) /\ Shelves(h)
                 \/ WritesOnly(h, {n})
                      /\ (pc[h] = "commit" => Cardinality(ActivePlans) <= swallowed)

DiscardFits(h) == op[h] = "discard" /\ pc[h] = "commit" =>
    /\ mine[h].id \in PlanIds /\ plan[mine[h].id].status \in {"DRAFT", "PROPOSED", "FAILED"}
    /\ WritesOnly(h, {mine[h].id})
    /\ Looks(staged[h][mine[h].id], "DISCARDED", plan[mine[h].id].parent, plan[mine[h].id].algo)

DraftFits(h) == op[h] \in {"create", "reschedule", "optimize"} =>
    /\ pc[h] \in {"check", "clone", "draft"} => mine[h].row.parent \in InUse \cup {0}
    /\ pc[h] = "commit" => \E n \in PlanIds, algo \in Algorithms, parent \in InUse \cup {0} :
         Unused(n) /\ WritesOnly(h, {n}) /\ Looks(staged[h][n], "DRAFT", parent, algo)

TaskFits(h) == op[h] \in TaskOps \cup {"get"} /\ pc[h] \in {"proposed", "mark", "commit"} =>
    \/ \A p \in PlanIds : Resaves(h, p)
    \/ ActivePlans = {} /\ \E n \in PlanIds :
         /\ Unused(n) /\ Looks(staged[h][n], "ACTIVE", 0, "HYBRID")
         /\ \A p \in PlanIds \ {n} : Resaves(h, p)

OutcomeFits(h) ==
    ApplyFits(h) /\ RevertFits(h) /\ DiscardFits(h) /\ DraftFits(h) /\ TaskFits(h)

\* A deleted plan leaves nothing.
RowsGone == \A p \in PlanIds : ~Exists(p) => plan[p] = Absent

OutcomeInv == RowsGone /\ \A h \in Sessions : OutcomeFits(h)

-----------------------------------------------------------------------------
\* The statements that lead to one an outcome is claimed at write no plan.
LEMMA OutcomeSteps ==
    ASSUME TypeInv, NEW h \in Sessions, Request(h),
           pc'[h] \in {"active", "archive", "activate", "commit", "revert", "check", "clone",
                       "draft", "proposed", "mark"}
    PROVE  /\ UNCHANGED plan
           /\ \/ pc[h] = "idle" /\ staged[h] = NothingStaged /\ staged'[h] = NothingStaged
                   /\ \/ \E p \in PlanIds : RevertRead(h, p)
                      \/ \E algo \in Algorithms : OptimizeRead(h, algo) \/ DraftRead(h, algo)
                      \/ \E o \in Ops : ActiveForTask(h, o)
              \/ /\ op'[h] = op[h]
                 /\ \/ ReadCandidate(h) \/ ReadActive(h) \/ ReadActiveFails(h) \/ Archive(h)
                    \/ Activate(h) \/ DiscardWrite(h) \/ RevertInsert(h) \/ OptimizeCheck(h)
                    \/ DraftInsert(h) \/ InsertActive(h) \/ ReadProposed(h) \/ MarkStale(h)
<1> USE DEF Goto, Start
<1>0. /\ DOMAIN pc = Sessions /\ DOMAIN op = Sessions /\ DOMAIN staged = Sessions
      /\ pc[h] \in Resting => staged[h] = NothingStaged
  BY DEF TypeInv, TypeOK, LocalFits, StagedFits, NothingStaged
<1>1. ~Return(h)
  BY <1>0 DEF Return
<1>2. ~(\E p \in PlanIds : ApplyCheck(h, p) \/ DiscardRead(h, p)) /\ ~Cleanup(h)
  BY <1>0, <1>1
     DEF ApplyCheck, DiscardRead, Cleanup, ListDiscarded, ListArchived, DeletePlan, CleanupEnd
<1>3. /\ ~OptimizeClone(h) /\ ~OptimizeStart(h) /\ ~OptimizeEnd(h) /\ ~Commit(h) /\ ~Abort(h)
      /\ ~DeadlockVictim(h)
  BY <1>0, <1>1 DEF OptimizeClone, OptimizeStart, OptimizeEnd, Commit, Abort, DeadlockVictim
<1>4. ASSUME NEW p \in PlanIds, RevertRead(h, p)
      PROVE  UNCHANGED <<plan, staged>> /\ pc[h] = "idle"
  BY <1>4 DEF RevertRead
<1>5. ASSUME NEW algo \in Algorithms, OptimizeRead(h, algo) \/ DraftRead(h, algo)
      PROVE  UNCHANGED <<plan, staged>> /\ pc[h] = "idle"
  BY <1>5 DEF OptimizeRead, DraftRead
<1>6. ASSUME NEW o \in Ops, ActiveForTask(h, o)
      PROVE  UNCHANGED <<plan, staged>> /\ pc[h] = "idle"
  BY <1>6 DEF ActiveForTask
<1>7. ASSUME \/ ReadCandidate(h) \/ ReadActive(h) \/ ReadActiveFails(h) \/ Archive(h)
             \/ Activate(h) \/ DiscardWrite(h) \/ RevertInsert(h) \/ OptimizeCheck(h)
             \/ DraftInsert(h) \/ InsertActive(h) \/ ReadProposed(h) \/ MarkStale(h)
      PROVE  UNCHANGED <<plan, op>>
  BY <1>1, <1>7
     DEF ReadCandidate, ReadActive, ReadActiveFails, Archive, Activate, DiscardWrite, RevertInsert,
         OptimizeCheck, DraftInsert, InsertActive, ReadProposed, MarkStale
<1>8. \/ \E p \in PlanIds : RevertRead(h, p)
      \/ \E algo \in Algorithms : OptimizeRead(h, algo) \/ DraftRead(h, algo)
      \/ \E o \in Ops : ActiveForTask(h, o)
      \/ ReadCandidate(h) \/ ReadActive(h) \/ ReadActiveFails(h) \/ Archive(h)
      \/ Activate(h) \/ DiscardWrite(h) \/ RevertInsert(h) \/ OptimizeCheck(h)
      \/ DraftInsert(h) \/ InsertActive(h) \/ ReadProposed(h) \/ MarkStale(h)
  BY <1>2, <1>3 DEF Request, Apply, Optimize, TaskEvent
<1> QED
  BY <1>0, <1>4, <1>5, <1>6, <1>7, <1>8 DEF Resting

\* What is claimed of the plans alone outlives a statement that writes none.
LEMMA OutcomeStays ==
    ASSUME UNCHANGED plan, NEW h \in Sessions
    PROVE  /\ InUse' = InUse /\ ActivePlans' = ActivePlans
           /\ \A n : Unused(n)' <=> Unused(n)
           /\ \A row, p : SameRow(row, p)' <=> SameRow(row, p)
           /\ staged'[h] = staged[h] =>
                /\ Shelves(h)' <=> Shelves(h)
                /\ \A S : WritesOnly(h, S)' <=> WritesOnly(h, S)
                /\ \A p : Resaves(h, p)' <=> Resaves(h, p)
<1>1. ActivePlans' = ActivePlans
  BY DEF ActivePlans, WithStatus
<1>2. InUse' = InUse
  BY <1>1 DEF InUse
<1>3. \A n : Unused(n)' <=> Unused(n)
  BY DEF Unused, Exists
<1>4. \A row, p : SameRow(row, p)' <=> SameRow(row, p)
  BY DEF SameRow
<1>5. ASSUME staged'[h] = staged[h]
      PROVE  /\ Shelves(h)' <=> Shelves(h)
             /\ \A S : WritesOnly(h, S)' <=> WritesOnly(h, S)
             /\ \A p : Resaves(h, p)' <=> Resaves(h, p)
  BY <1>2, <1>5 DEF Shelves, WritesOnly, Resaves, Looks
<1> QED
  BY <1>1, <1>2, <1>3, <1>4, <1>5

\* The id of the sequence was given to nobody.
LEMMA NewIsUnused ==
    ASSUME TypeInv, SharedInv, ParentInv, nextId \in PlanIds
    PROVE  Unused(nextId)
<1>1. ~Exists(nextId) /\ Childless(nextId)
  BY NewIsChildless
<1>2. \A q \in PlanIds : Exists(q) => q < nextId
  BY DEF SharedInv, IdInv, TypeInv, TypeOK, PlanIds
<1> QED
  BY <1>1, <1>2 DEF Unused, Childless

\* The plan in use is the first active one, as the code reads it.
LEMMA InUseIsFirst ==
    ASSUME TypeOK
    PROVE  /\ \A p \in PlanIds : IsFirstActive(p) <=> p \in InUse
           /\ \A p, q \in InUse : p = q
           /\ InUse \subseteq ActivePlans /\ ActivePlans \subseteq PlanIds
<1>1. InUse \subseteq ActivePlans /\ ActivePlans \subseteq PlanIds
  BY DEF InUse, ActivePlans, WithStatus
<1>2. \A p \in PlanIds : IsFirstActive(p) <=> p \in InUse
  BY DEF IsFirstActive, InUse
<1>3. \A p, q \in InUse : p <= q /\ q <= p /\ p \in Int /\ q \in Int
  BY <1>1 DEF InUse, PlanIds
<1> QED
  BY <1>1, <1>2, <1>3

LEMMA ApplyOutcome ==
    ASSUME TypeInv, NEW h \in Sessions, SerialFits(h), ApplyFits(h), Request(h),
           op'[h] = "apply", pc'[h] \in {"archive", "activate", "commit"}
    PROVE  ApplyFits(h)'
<1> USE DEF Goto, Start, Read
<1>0. /\ DOMAIN pc = Sessions /\ DOMAIN op = Sessions /\ DOMAIN current = Sessions
      /\ staged[h] \in [PlanIds -> PlanRow \cup {None}] /\ DOMAIN staged = Sessions
      /\ None \notin PlanRow /\ plan \in [PlanIds -> PlanRow]
      /\ OpFits(h) /\ MineFits(h) /\ SyncFits(h) /\ StagedKinds(h)
  BY NoneAssumption DEF TypeInv, TypeOK, LocalFits, SerialFits
<1>1. UNCHANGED plan /\ op[h] = "apply" /\ (ReadActive(h) \/ Archive(h) \/ Activate(h))
  <2>1. ~(\E p \in PlanIds : RevertRead(h, p))
    BY <1>0 DEF RevertRead
  <2>2. ~(\E algo \in Algorithms : OptimizeRead(h, algo) \/ DraftRead(h, algo))
    BY <1>0 DEF OptimizeRead, DraftRead
  <2>3. ~(\E o \in Ops : ActiveForTask(h, o))
    BY <1>0 DEF ActiveForTask
  <2>4. op'[h] = op[h] /\ UNCHANGED plan
    BY <2>1, <2>2, <2>3, OutcomeSteps
  <2>5. /\ ~ReadActiveFails(h) /\ ~DiscardWrite(h) /\ ~RevertInsert(h) /\ ~OptimizeCheck(h)
        /\ ~DraftInsert(h) /\ ~InsertActive(h) /\ ~ReadProposed(h) /\ ~MarkStale(h)
    BY <1>0, <2>4 DEF ReadActiveFails, DiscardWrite, RevertInsert, OptimizeCheck, DraftInsert,
       InsertActive, ReadProposed, MarkStale, OpFits, TaskOps
  <2>6. ~ReadCandidate(h)
    BY <1>0 DEF ReadCandidate, Return
  <2> QED BY <2>1, <2>2, <2>3, <2>4, <2>5, <2>6, OutcomeSteps
<1>2. /\ InUse' = InUse /\ ActivePlans' = ActivePlans
      /\ staged'[h] = staged[h] => /\ Shelves(h)' <=> Shelves(h)
                                   /\ \A S : WritesOnly(h, S)' <=> WritesOnly(h, S)
  BY <1>1, OutcomeStays
<1>3. /\ \A p \in PlanIds : IsFirstActive(p) <=> p \in InUse
      /\ InUse \subseteq ActivePlans /\ ActivePlans \subseteq PlanIds
      /\ \A p, q \in InUse : p = q
      /\ \A p \in ActivePlans : plan[p].status = "ACTIVE"
  BY InUseIsFirst DEF TypeInv, ActivePlans, WithStatus
<1>4. \A row \in PlanRow, s \in PlanStatuses :
        /\ Saved(row, s) \in PlanRow /\ Saved(row, s).status = s
        /\ Saved(row, s).parent = row.parent /\ Saved(row, s).algo = row.algo
  BY DEF Saved, PlanRow
<1>5. CASE ReadActive(h)
  <2>1. /\ pc[h] = "active" /\ current[h] = None /\ staged[h] = NothingStaged
        /\ UNCHANGED <<staged, op>> /\ plan[mine[h].id].status = "PROPOSED"
    BY <1>0, <1>1, <1>5 DEF ReadActive, SyncFits, StagedKinds, SameRow
  <2>2. CASE ActivePlans = {} /\ current' = current /\ pc'[h] = AfterArchive(h)
    <3>1. pc'[h] = "activate" /\ InUse' = {} /\ InUse = {}
      BY <1>1, <1>2, <2>2 DEF AfterArchive, InUse
    <3>2. Shelves(h) /\ WritesOnly(h, InUse)
      BY <2>1, <3>1 DEF Shelves, WritesOnly, NothingStaged
    <3> QED BY <1>2, <2>1, <2>2, <3>1, <3>2 DEF ApplyFits
  <2>3. ASSUME NEW p \in PlanIds, IsFirstActive(p), current' = [current EXCEPT ![h] = Read(p)],
               pc'[h] = IF op[h] = "apply" /\ p = mine[h].id THEN "commit" ELSE "archive"
        PROVE  ApplyFits(h)'
    <3>1. p \in InUse /\ plan[p].status = "ACTIVE"
      BY <1>3, <2>3
    <3>2. pc'[h] = "archive" /\ current'[h].id = p
      BY <1>0, <2>1, <2>3, <3>1
    <3> QED BY <1>2, <3>1, <3>2 DEF ApplyFits
  <2> QED BY <1>0, <1>5, <2>2, <2>3 DEF ReadActive
<1>6. CASE Archive(h)
  <2>0. PICK c, row : c = current[h].id /\ row = Saved(current[h].row, "ARCHIVED")
    OBVIOUS
  <2>1. /\ pc[h] = "archive" /\ pc'[h] = "activate" /\ staged[h] = NothingStaged
        /\ c \in InUse /\ SameRow(current[h].row, c) /\ current[h] # None /\ current' = current
        /\ staged' = [staged EXCEPT ![h][c] = row]
    BY <1>0, <1>1, <1>6, <2>0
       DEF Archive, AfterArchive, Stage, ApplyFits, MineFits, SyncFits, StagedKinds
  <2>2. current[h].row \in PlanRow
    BY <2>1 DEF TypeInv, TypeOK, ReadRow
  <2>3. Looks(row, "ARCHIVED", plan[c].parent, plan[c].algo)
    BY <1>0, <1>4, <2>0, <2>1, <2>2 DEF Looks, SameRow, PlanStatuses
  <2>4. c \in PlanIds /\ \A p \in PlanIds : staged'[h][p] = IF p = c THEN row ELSE None
    BY <1>0, <1>3, <2>1 DEF NothingStaged
  <2>5. Shelves(h)' /\ WritesOnly(h, InUse)'
    <3>1. \A p \in InUse : p = c
      BY <1>3, <2>1
    <3>2. WritesOnly(h, InUse)'
      BY <1>2, <2>1, <2>4 DEF WritesOnly
    <3>3. Shelves(h)'
      BY <1>1, <1>2, <2>3, <2>4, <3>1 DEF Shelves, Looks
    <3> QED BY <3>2, <3>3
  <2> QED BY <1>2, <2>0, <2>1, <2>5 DEF ApplyFits
<1>7. CASE Activate(h)
  <2>0. PICK m, row : m = mine[h].id /\ row = Activated(h)
    OBVIOUS
  <2>1. /\ pc[h] = "activate" /\ pc'[h] = "commit" /\ UNCHANGED <<mine, op>>
        /\ staged' = [staged EXCEPT ![h][m] = row] /\ m \in PlanIds
        /\ SameRow(mine[h].row, m) /\ plan[m].status = "PROPOSED" /\ mine[h] # None
        /\ Shelves(h) /\ WritesOnly(h, InUse)
        /\ current[h] = None => InUse = {}
        /\ current[h] # None => current[h].id \in InUse
    BY <1>0, <1>1, <1>7, <2>0
       DEF Activate, Stage, Return, ApplyFits, MineFits, HoldsMine, SyncFits, SameRow
  <2>2. mine[h].row \in PlanRow
    BY <2>1 DEF TypeInv, TypeOK, ReadRow
  <2>3. PICK parent \in IF InUse = {} THEN {plan[m].parent} ELSE InUse :
          Looks(row, "ACTIVE", parent, plan[m].algo)
    <3>1. /\ Saved(mine[h].row, "ACTIVE") \in PlanRow /\ Saved(mine[h].row, "ACTIVE").status = "ACTIVE"
          /\ Saved(mine[h].row, "ACTIVE").parent = plan[m].parent
          /\ Saved(mine[h].row, "ACTIVE").algo = plan[m].algo
      BY <1>4, <2>1, <2>2 DEF SameRow, PlanStatuses
    <3>2. CASE current[h] = None
      BY <1>0, <2>0, <2>1, <3>1, <3>2 DEF Activated, Looks
    <3>3. CASE current[h] # None
      <4>1. row \in PlanRow /\ row.status = "ACTIVE" /\ row.parent = current[h].id /\ row.algo = plan[m].algo
        BY <1>3, <2>0, <2>1, <3>1, <3>3 DEF Activated, PlanRow
      <4> QED BY <1>0, <2>1, <3>3, <4>1 DEF Looks
    <3> QED BY <3>2, <3>3
  <2>4. /\ staged'[h][m] = row
        /\ \A p \in PlanIds : p # m => staged'[h][p] = staged[h][p]
    BY <1>0, <2>1
  <2>5. m \notin InUse
    BY <1>3, <2>1
  <2>6. Shelves(h)'
    BY <1>1, <1>2, <1>3, <2>1, <2>4, <2>5 DEF Shelves, Looks
  <2>7. WritesOnly(h, InUse \cup {m})'
    BY <1>2, <2>1, <2>4 DEF WritesOnly
  <2>8. Looks(staged[h][m], "ACTIVE", parent, plan[m].algo)'
    BY <1>1, <2>3, <2>4 DEF Looks
  <2> QED BY <1>1, <1>2, <2>0, <2>1, <2>3, <2>6, <2>7, <2>8 DEF ApplyFits
<1> QED
  BY <1>1, <1>5, <1>6, <1>7

LEMMA RevertOutcome ==
    ASSUME TypeInv, TypeInv', SharedInv, HistoryInv, NEW h \in Sessions, SerialFits(h),
           RevertFits(h), Request(h), op'[h] = "revert", pc'[h] \in {"revert", "active", "archive", "commit"}
    PROVE  RevertFits(h)'
<1> USE DEF Goto, Start, Read
<1>0. /\ DOMAIN pc = Sessions /\ DOMAIN op = Sessions /\ DOMAIN current = Sessions
      /\ staged[h] \in [PlanIds -> PlanRow \cup {None}] /\ DOMAIN staged = Sessions
      /\ None \notin PlanRow /\ plan \in [PlanIds -> PlanRow] /\ DOMAIN mine = Sessions
      /\ OpFits(h) /\ MineFits(h) /\ SyncFits(h) /\ StagedKinds(h)
  BY NoneAssumption DEF TypeInv, TypeOK, LocalFits, SerialFits
<1>1. CASE \E p \in PlanIds : RevertRead(h, p)
  <2>1. PICK p \in PlanIds : RevertRead(h, p)
    BY <1>1
  <2>2. pc'[h] = "revert" /\ mine'[h] = [id |-> p, row |-> plan[p]] /\ UNCHANGED plan
    BY <1>0, <2>1 DEF RevertRead
  <2> QED BY <2>2 DEF RevertFits, SameRow
<1>2. CASE ~(\E p \in PlanIds : RevertRead(h, p))
  <2>1. /\ UNCHANGED plan /\ op[h] = "revert"
        /\ RevertInsert(h) \/ ReadActive(h) \/ ReadActiveFails(h) \/ Archive(h)
    <3>1. ~(\E algo \in Algorithms : OptimizeRead(h, algo) \/ DraftRead(h, algo))
      BY <1>0 DEF OptimizeRead, DraftRead
    <3>2. ~(\E o \in Ops : ActiveForTask(h, o))
      BY <1>0 DEF ActiveForTask
    <3>3. op'[h] = op[h] /\ UNCHANGED plan
      BY <1>2, <3>1, <3>2, OutcomeSteps
    <3>4. /\ ~ReadCandidate(h) /\ ~Activate(h) /\ ~DiscardWrite(h) /\ ~OptimizeCheck(h)
          /\ ~DraftInsert(h) /\ ~InsertActive(h) /\ ~ReadProposed(h) /\ ~MarkStale(h)
      BY <1>0, <3>3 DEF ReadCandidate, Activate, DiscardWrite, OptimizeCheck, DraftInsert,
         InsertActive, ReadProposed, MarkStale, OpFits, TaskOps
    <3> QED BY <1>2, <3>1, <3>2, <3>3, <3>4, OutcomeSteps
  <2>2. /\ InUse' = InUse /\ ActivePlans' = ActivePlans /\ \A n : Unused(n)' <=> Unused(n)
        /\ staged'[h] = staged[h] => /\ Shelves(h)' <=> Shelves(h)
                                     /\ \A S : WritesOnly(h, S)' <=> WritesOnly(h, S)
    BY <2>1, OutcomeStays
  <2>3. /\ \A p \in PlanIds : IsFirstActive(p) <=> p \in InUse
        /\ InUse \subseteq ActivePlans /\ ActivePlans \subseteq PlanIds
        /\ \A p, q \in InUse : p = q
        /\ \A p \in ActivePlans : plan[p].status = "ACTIVE"
    BY InUseIsFirst DEF TypeInv, ActivePlans, WithStatus
  <2>4. CASE RevertInsert(h)
    <3>0. PICK n, row : n = nextId /\ row = NewPlan("ACTIVE", mine[h].id, mine[h].row.algo)
      OBVIOUS
    <3>1. /\ pc[h] = "revert" /\ pc'[h] = "active" /\ mine' = mine /\ mine[h].id \in PlanIds
          /\ SameRow(mine[h].row, mine[h].id) /\ plan[mine[h].id].status = "ARCHIVED"
          /\ staged[h] = NothingStaged /\ staged' = [staged EXCEPT ![h][n] = row] /\ mine[h] # None
          /\ nextId' = nextId + 1
      BY <1>0, <2>1, <2>4, <3>0
         DEF RevertInsert, StageNew, MineFits, HoldsMine, SyncFits, StagedKinds, RevertFits
    <3>2. n \in PlanIds /\ Unused(n)
      <4>1. nextId \in PlanIds
        BY <3>1, BoundAssumption DEF PlanIds, TypeInv, TypeOK
      <4> QED BY <3>0, <4>1, NewIsUnused DEF HistoryInv
    <3>3. mine[h].row \in PlanRow
      BY <3>1 DEF TypeInv, TypeOK, ReadRow
    <3>4. row \in PlanRow
      BY <3>0, <3>1, <3>3 DEF NewPlan, PlanRow, PlanStatuses
    <3>5. Looks(row, "ACTIVE", mine[h].id, plan[mine[h].id].algo)
      BY <1>0, <3>0, <3>1, <3>4 DEF Looks, NewPlan, SameRow
    <3>6. \A p \in PlanIds : staged'[h][p] = IF p = n THEN row ELSE None
      BY <1>0, <3>1, <3>2 DEF NothingStaged
    <3>7. WritesOnly(h, {n})'
      BY <3>6 DEF WritesOnly
    <3>8. Looks(staged[h][n], "ACTIVE", mine[h].id, plan[mine[h].id].algo)'
      BY <2>1, <3>1, <3>2, <3>5, <3>6 DEF Looks
    <3> QED BY <2>1, <2>2, <3>1, <3>2, <3>7, <3>8 DEF RevertFits
  <2>5. ASSUME pc[h] \in {"active", "archive"}
        PROVE  /\ mine[h].id \in PlanIds /\ plan[mine[h].id].status = "ARCHIVED"
               /\ \E n \in PlanIds :
                    /\ Unused(n) /\ WritesOnly(h, {n})
                    /\ Looks(staged[h][n], "ACTIVE", mine[h].id, plan[mine[h].id].algo)
    BY <2>1, <2>5 DEF RevertFits
  <2>6. CASE ReadActive(h)
    <3>1. /\ pc[h] = "active" /\ current[h] = None /\ UNCHANGED <<staged, mine, swallowed>>
      BY <1>0, <2>6 DEF ReadActive, SyncFits
    <3>2. PICK n \in PlanIds :
            /\ Unused(n) /\ WritesOnly(h, {n})
            /\ Looks(staged[h][n], "ACTIVE", mine[h].id, plan[mine[h].id].algo)
      BY <2>5, <3>1
    <3>3. /\ Unused(n)' /\ WritesOnly(h, {n})' /\ mine'[h].id \in PlanIds
          /\ plan'[mine'[h].id].status = "ARCHIVED"
          /\ Looks(staged[h][n], "ACTIVE", mine[h].id, plan[mine[h].id].algo)'
      BY <2>1, <2>2, <2>5, <3>1, <3>2 DEF Looks
    <3>4. CASE ActivePlans = {} /\ pc'[h] = AfterArchive(h)
      <4>1. pc'[h] = "commit" /\ InUse' = {}
        BY <2>1, <2>2, <3>4 DEF AfterArchive, InUse
      <4>2. Shelves(h)' /\ WritesOnly(h, InUse \cup {n})'
        BY <3>3, <4>1 DEF Shelves, WritesOnly
      <4> QED BY <3>3, <4>1, <4>2 DEF RevertFits
    <3>5. ASSUME NEW p \in PlanIds, IsFirstActive(p), current' = [current EXCEPT ![h] = Read(p)],
                 pc'[h] = "archive"
          PROVE  RevertFits(h)'
      <4>1. current'[h].id = p /\ p \in InUse'
        BY <1>0, <2>2, <2>3, <3>5
      <4> QED BY <3>3, <3>5, <4>1 DEF RevertFits
    <3> QED BY <1>0, <2>1, <2>6, <3>4, <3>5 DEF ReadActive
  <2>7. CASE ReadActiveFails(h)
    <3>1. /\ pc[h] = "active" /\ pc'[h] = "commit" /\ UNCHANGED <<staged, mine>>
          /\ swallowed' = swallowed + 1
      BY <1>0, <2>7 DEF ReadActiveFails
    <3>2. PICK n \in PlanIds :
            /\ Unused(n) /\ WritesOnly(h, {n})
            /\ Looks(staged[h][n], "ACTIVE", mine[h].id, plan[mine[h].id].algo)
      BY <2>5, <3>1
    <3>3. /\ Unused(n)' /\ WritesOnly(h, {n})' /\ mine'[h].id \in PlanIds
          /\ plan'[mine'[h].id].status = "ARCHIVED"
          /\ Looks(staged[h][n], "ACTIVE", mine[h].id, plan[mine[h].id].algo)'
      BY <2>1, <2>2, <2>5, <3>1, <3>2 DEF Looks
    <3>4. Cardinality(ActivePlans)' <= swallowed'
      <4>1. swallowed \in Int /\ swallowed' = 1 + swallowed
        BY <3>1, BoundAssumption DEF TypeInv, TypeOK
      <4> QED BY <2>2, <4>1 DEF HistoryInv, AtMostOneActive
    <3> QED BY <3>1, <3>3, <3>4 DEF RevertFits
  <2>8. CASE Archive(h)
    <3>0. PICK c, row : c = current[h].id /\ row = Saved(current[h].row, "ARCHIVED")
      OBVIOUS
    <3>1. /\ pc[h] = "archive" /\ pc'[h] = "commit" /\ mine' = mine
          /\ c \in InUse /\ SameRow(current[h].row, c) /\ current[h] # None
          /\ staged' = [staged EXCEPT ![h][c] = row]
      BY <1>0, <2>1, <2>8, <3>0 DEF Archive, AfterArchive, Stage, RevertFits, MineFits, SyncFits
    <3>2. current[h].row \in PlanRow
      BY <3>1 DEF TypeInv, TypeOK, ReadRow
    <3>3. Looks(row, "ARCHIVED", plan[c].parent, plan[c].algo)
      <4>1. /\ row \in PlanRow /\ row.status = "ARCHIVED"
            /\ row.parent = current[h].row.parent /\ row.algo = current[h].row.algo
        BY <3>0, <3>2 DEF Saved, PlanRow, PlanStatuses
      <4> QED BY <1>0, <3>1, <4>1 DEF Looks, SameRow
    <3>4. PICK n \in PlanIds :
            /\ Unused(n) /\ WritesOnly(h, {n})
            /\ Looks(staged[h][n], "ACTIVE", mine[h].id, plan[mine[h].id].algo)
      BY <2>5, <3>1
    <3>5. n # c /\ c \in PlanIds
      BY <2>3, <3>1, <3>4 DEF Unused, Exists
    <3>6. staged'[h][c] = row /\ \A p \in PlanIds : p # c => staged'[h][p] = staged[h][p]
      BY <1>0, <3>1, <3>5
    <3>7. /\ Unused(n)' /\ mine'[h].id \in PlanIds /\ plan'[mine'[h].id].status = "ARCHIVED"
          /\ Looks(staged[h][n], "ACTIVE", mine[h].id, plan[mine[h].id].algo)'
      BY <2>1, <2>2, <2>5, <3>1, <3>4, <3>5, <3>6 DEF Looks
    <3>8. WritesOnly(h, InUse \cup {n})'
      BY <2>2, <3>1, <3>4, <3>6 DEF WritesOnly
    <3>9. Shelves(h)'
      <4>1. \A p \in InUse : p = c
        BY <2>3, <3>1
      <4> QED BY <2>1, <2>2, <3>3, <3>6, <4>1 DEF Shelves, Looks
    <3> QED BY <3>1, <3>7, <3>8, <3>9 DEF RevertFits
  <2> QED BY <2>1, <2>4, <2>6, <2>7, <2>8
<1> QED
  BY <1>1, <1>2

LEMMA DiscardOutcome ==
    ASSUME TypeInv, NEW h \in Sessions, SerialFits(h), Request(h),
           op'[h] = "discard", pc'[h] = "commit"
    PROVE  DiscardFits(h)'
<1> USE DEF Goto, Start
<1>0. /\ DOMAIN pc = Sessions /\ DOMAIN op = Sessions
      /\ staged[h] \in [PlanIds -> PlanRow \cup {None}] /\ DOMAIN staged = Sessions
      /\ None \notin PlanRow
      /\ OpFits(h) /\ MineFits(h) /\ SyncFits(h) /\ StagedKinds(h) /\ RowFits(h)
  BY NoneAssumption DEF TypeInv, TypeOK, LocalFits, SerialFits
<1>1. UNCHANGED plan /\ op[h] = "discard" /\ DiscardWrite(h)
  <2>1. ~(\E p \in PlanIds : RevertRead(h, p))
    BY <1>0 DEF RevertRead
  <2>2. ~(\E algo \in Algorithms : OptimizeRead(h, algo) \/ DraftRead(h, algo))
    BY <1>0 DEF OptimizeRead, DraftRead
  <2>3. ~(\E o \in Ops : ActiveForTask(h, o))
    BY <1>0 DEF ActiveForTask
  <2>4. op'[h] = op[h] /\ UNCHANGED plan
    BY <2>1, <2>2, <2>3, OutcomeSteps
  <2>5. /\ ~ReadCandidate(h) /\ ~ReadActive(h) /\ ~ReadActiveFails(h) /\ ~Archive(h) /\ ~Activate(h)
        /\ ~RevertInsert(h) /\ ~OptimizeCheck(h) /\ ~DraftInsert(h) /\ ~InsertActive(h)
        /\ ~ReadProposed(h) /\ ~MarkStale(h)
    BY <1>0, <2>4 DEF ReadCandidate, ReadActive, ReadActiveFails, Archive, Activate, RevertInsert,
       OptimizeCheck, DraftInsert, InsertActive, ReadProposed, MarkStale, OpFits, TaskOps
  <2> QED BY <2>1, <2>2, <2>3, <2>4, <2>5, OutcomeSteps
<1>2. PICK m, row : m = mine[h].id /\ row = Saved(mine[h].row, "DISCARDED")
  OBVIOUS
<1>3. /\ pc[h] = "discard" /\ mine' = mine /\ m \in PlanIds /\ mine[h] # None
      /\ SameRow(mine[h].row, m) /\ mine[h].row.status \in {"DRAFT", "PROPOSED", "FAILED"}
      /\ staged[h] = NothingStaged /\ staged' = [staged EXCEPT ![h][m] = row]
  BY <1>0, <1>1, <1>2 DEF DiscardWrite, Stage, MineFits, HoldsMine, RowFits, SyncFits, StagedKinds
<1>4. mine[h].row \in PlanRow
  BY <1>3 DEF TypeInv, TypeOK, ReadRow
<1>5. Looks(row, "DISCARDED", plan[m].parent, plan[m].algo)
  <2>1. /\ row \in PlanRow /\ row.status = "DISCARDED"
        /\ row.parent = mine[h].row.parent /\ row.algo = mine[h].row.algo
    BY <1>2, <1>4 DEF Saved, PlanRow, PlanStatuses
  <2> QED BY <1>0, <1>3, <2>1 DEF Looks, SameRow
<1>6. \A p \in PlanIds : staged'[h][p] = IF p = m THEN row ELSE None
  BY <1>0, <1>3 DEF NothingStaged
<1>7. WritesOnly(h, {m})' /\ Looks(staged[h][m], "DISCARDED", plan[m].parent, plan[m].algo)'
  BY <1>1, <1>3, <1>5, <1>6 DEF WritesOnly, Looks
<1>8. plan'[m].status \in {"DRAFT", "PROPOSED", "FAILED"}
  BY <1>1, <1>3 DEF SameRow
<1> QED
  BY <1>2, <1>3, <1>7, <1>8 DEF DiscardFits

LEMMA DraftOutcome ==
    ASSUME TypeInv, TypeInv', SharedInv, HistoryInv, NEW h \in Sessions, SerialFits(h),
           DraftFits(h), Request(h), op'[h] \in {"create", "reschedule", "optimize"},
           pc'[h] \in {"check", "clone", "draft", "commit"}
    PROVE  DraftFits(h)'
<1> USE DEF Goto, Start
<1>0. /\ DOMAIN pc = Sessions /\ DOMAIN op = Sessions /\ DOMAIN mine = Sessions
      /\ staged[h] \in [PlanIds -> PlanRow \cup {None}] /\ DOMAIN staged = Sessions
      /\ None \notin PlanRow
      /\ OpFits(h) /\ MineFits(h) /\ RowFits(h) /\ StagedKinds(h)
  BY NoneAssumption DEF TypeInv, TypeOK, LocalFits, SerialFits
<1>1. UNCHANGED plan
  BY OutcomeSteps
<1>2. InUse' = InUse /\ \A n : Unused(n)' <=> Unused(n)
  BY <1>1, OutcomeStays
<1>3. \A p \in PlanIds : IsFirstActive(p) <=> p \in InUse
  BY InUseIsFirst DEF TypeInv
<1>4. ASSUME NEW algo \in Algorithms, OptimizeRead(h, algo) \/ DraftRead(h, algo)
      PROVE  DraftFits(h)'
  <2>1. pc'[h] \in {"check", "draft"}
    BY <1>0, <1>4 DEF OptimizeRead, DraftRead
  <2>2. mine'[h].row.parent \in InUse \cup {0}
    BY <1>0, <1>3, <1>4 DEF OptimizeRead, DraftRead, NewPlan
  <2> QED BY <1>2, <2>1, <2>2 DEF DraftFits
<1>5. CASE OptimizeCheck(h)
  <2>1. /\ pc[h] = "check" /\ op[h] \in {"reschedule", "optimize"} /\ pc'[h] = "clone" /\ mine' = mine
    BY <1>0, <1>5 DEF OptimizeCheck, OpFits, Return
  <2> QED BY <1>2, <2>1 DEF DraftFits
<1>6. CASE DraftInsert(h)
  <2>0. PICK n, row : n = nextId /\ row = mine[h].row
    OBVIOUS
  <2>1. /\ pc[h] = "draft" /\ op[h] = "create" /\ pc'[h] = "commit" /\ mine[h] # None
        /\ staged[h] = NothingStaged /\ staged' = [staged EXCEPT ![h][n] = row]
        /\ row.status = "DRAFT" /\ nextId' = nextId + 1
    BY <1>0, <1>6, <2>0
       DEF DraftInsert, StageNew, OpFits, MineFits, RowFits, HoldsMine, StagedKinds
  <2>2. n \in PlanIds /\ Unused(n)
    <3>1. nextId \in PlanIds
      BY <2>1, BoundAssumption DEF PlanIds, TypeInv, TypeOK
    <3> QED BY <2>0, <3>1, NewIsUnused DEF HistoryInv
  <2>3. row \in PlanRow /\ row.algo \in Algorithms /\ row.parent \in InUse \cup {0}
    BY <2>0, <2>1 DEF TypeInv, TypeOK, ReadRow, PlanRow, DraftFits
  <2>4. \A p \in PlanIds : staged'[h][p] = IF p = n THEN row ELSE None
    BY <1>0, <2>1, <2>2 DEF NothingStaged
  <2>5. WritesOnly(h, {n})' /\ Looks(staged'[h][n], "DRAFT", row.parent, row.algo)
    BY <1>0, <2>1, <2>2, <2>3, <2>4 DEF WritesOnly, Looks
  <2>6. Unused(n)' /\ InUse' = InUse
    BY <1>2, <2>2
  <2> QED BY <2>1, <2>2, <2>3, <2>5, <2>6 DEF DraftFits, Looks
<1>7. ~(\E p \in PlanIds : RevertRead(h, p)) /\ ~(\E o \in Ops : ActiveForTask(h, o))
  BY <1>0 DEF RevertRead, ActiveForTask
<1>8. ASSUME op'[h] = op[h]
      PROVE  /\ ~ReadCandidate(h) /\ ~ReadActive(h) /\ ~ReadActiveFails(h) /\ ~Archive(h)
             /\ ~Activate(h) /\ ~RevertInsert(h) /\ ~DiscardWrite(h) /\ ~InsertActive(h)
             /\ ~ReadProposed(h) /\ ~MarkStale(h)
  BY <1>0, <1>8 DEF ReadCandidate, ReadActive, ReadActiveFails, Archive, Activate, RevertInsert,
     DiscardWrite, InsertActive, ReadProposed, MarkStale, OpFits, TaskOps
<1> QED
  BY <1>4, <1>5, <1>6, <1>7, <1>8, OutcomeSteps

LEMMA TaskOutcome ==
    ASSUME TypeInv, TypeInv', SharedInv, HistoryInv, NEW h \in Sessions, SerialFits(h), TaskFits(h),
           Request(h), op'[h] \in TaskOps \cup {"get"},
           pc'[h] \in {"proposed", "mark", "commit"}
    PROVE  TaskFits(h)'
<1> USE DEF Goto, Start
<1>0. /\ DOMAIN pc = Sessions /\ DOMAIN op = Sessions
      /\ staged[h] \in [PlanIds -> PlanRow \cup {None}] /\ DOMAIN staged = Sessions
      /\ None \notin PlanRow
      /\ OpFits(h) /\ MineFits(h) /\ SyncFits(h) /\ StagedKinds(h) /\ ActiveFits(h)
  BY NoneAssumption DEF TypeInv, TypeOK, LocalFits, SerialFits
<1>1. UNCHANGED plan
  BY OutcomeSteps
<1>2. /\ ActivePlans' = ActivePlans /\ \A n : Unused(n)' <=> Unused(n)
      /\ staged'[h] = staged[h] => \A p : Resaves(h, p)' <=> Resaves(h, p)
  BY <1>1, OutcomeStays
<1>3. ASSUME NEW o \in Ops, ActiveForTask(h, o), staged[h] = NothingStaged, staged'[h] = NothingStaged
      PROVE  TaskFits(h)'
  BY <1>3 DEF TaskFits, Resaves, NothingStaged
<1>4. CASE InsertActive(h)
  <2>0. PICK n, row : n = nextId /\ row = NewPlan("ACTIVE", 0, "HYBRID")
    OBVIOUS
  <2>1. /\ pc[h] = "insert" /\ ActivePlans = {} /\ staged[h] = NothingStaged
        /\ staged' = [staged EXCEPT ![h][n] = row] /\ nextId' = nextId + 1
    BY <1>0, <1>4, <2>0 DEF InsertActive, StageNew, ActiveFits, StagedKinds
  <2>2. n \in PlanIds /\ Unused(n)
    <3>1. nextId \in PlanIds
      BY <2>1, BoundAssumption DEF PlanIds, TypeInv, TypeOK
    <3> QED BY <2>0, <3>1, NewIsUnused DEF HistoryInv
  <2>3. row \in PlanRow /\ Looks(row, "ACTIVE", 0, "HYBRID")
    <3>1. row \in PlanRow
      BY <2>0, OpsAssumption DEF NewPlan, PlanRow, PlanStatuses
    <3> QED BY <1>0, <2>0, <3>1 DEF NewPlan, Looks
  <2>4. \A p \in PlanIds : staged'[h][p] = IF p = n THEN row ELSE None
    BY <1>0, <2>1, <2>2 DEF NothingStaged
  <2>5. /\ Unused(n)' /\ ActivePlans' = {} /\ Looks(staged'[h][n], "ACTIVE", 0, "HYBRID")
        /\ \A p \in PlanIds \ {n} : Resaves(h, p)'
    BY <1>2, <2>1, <2>2, <2>3, <2>4 DEF Resaves
  <2> QED BY <2>2, <2>5 DEF TaskFits, Looks
<1>5. CASE ReadProposed(h)
  <2>1. pc[h] = "proposed" /\ op[h] \in TaskOps /\ staged' = staged
    BY <1>0, <1>5 DEF ReadProposed, OpFits
  <2> QED BY <1>2, <2>1 DEF TaskFits, Looks
<1>6. CASE MarkStale(h)
  <2>0. PICK m, row : m = mine[h].id /\ row = Saved(mine[h].row, mine[h].row.status)
    OBVIOUS
  <2>1. /\ pc[h] = "mark" /\ op[h] \in TaskOps /\ m \in PlanIds /\ mine[h] # None
        /\ SameRow(mine[h].row, m) /\ plan[m].status = "PROPOSED"
        /\ staged' = [staged EXCEPT ![h][m] = row]
    BY <1>0, <1>6, <2>0 DEF MarkStale, Stage, OpFits, MineFits, HoldsMine, SyncFits, SameRow
  <2>2. mine[h].row \in PlanRow
    BY <2>1 DEF TypeInv, TypeOK, ReadRow
  <2>3. Looks(row, plan[m].status, plan[m].parent, plan[m].algo)
    <3>1. /\ row \in PlanRow /\ row.status = mine[h].row.status
          /\ row.parent = mine[h].row.parent /\ row.algo = mine[h].row.algo
      BY <2>0, <2>1, <2>2 DEF Saved, PlanRow, PlanStatuses, SameRow
    <3> QED BY <1>0, <2>1, <3>1 DEF Looks, SameRow
  <2>4. staged'[h][m] = row /\ \A p \in PlanIds : p # m => staged'[h][p] = staged[h][p]
    BY <1>0, <2>1
  <2>5. Resaves(h, m)' /\ \A p \in PlanIds \ {m} : Resaves(h, p) => Resaves(h, p)'
    BY <1>1, <2>1, <2>3, <2>4 DEF Resaves, Looks
  <2>6. CASE \A p \in PlanIds : Resaves(h, p)
    BY <2>5, <2>6 DEF TaskFits
  <2>7. ASSUME ActivePlans = {}, NEW n \in PlanIds, Unused(n),
               Looks(staged[h][n], "ACTIVE", 0, "HYBRID"), \A p \in PlanIds \ {n} : Resaves(h, p)
        PROVE  TaskFits(h)'
    <3>1. n # m
      BY <2>1, <2>7 DEF Unused, Exists
    <3>2. Looks(staged'[h][n], "ACTIVE", 0, "HYBRID") /\ Unused(n)' /\ ActivePlans' = {}
      BY <1>2, <2>4, <2>7, <3>1
    <3>3. \A p \in PlanIds \ {n} : Resaves(h, p)'
      BY <2>5, <2>7
    <3> QED BY <3>2, <3>3 DEF TaskFits, Looks
  <2> QED BY <2>1, <2>6, <2>7 DEF TaskFits
<1>7. /\ ~(\E p \in PlanIds : RevertRead(h, p))
      /\ ~(\E algo \in Algorithms : OptimizeRead(h, algo) \/ DraftRead(h, algo))
  BY <1>0 DEF RevertRead, OptimizeRead, DraftRead, TaskOps
<1>8. ASSUME op'[h] = op[h]
      PROVE  /\ ~ReadCandidate(h) /\ ~ReadActive(h) /\ ~ReadActiveFails(h) /\ ~Archive(h)
             /\ ~Activate(h) /\ ~RevertInsert(h) /\ ~DiscardWrite(h) /\ ~OptimizeCheck(h)
             /\ ~DraftInsert(h)
  BY <1>0, <1>8 DEF ReadCandidate, ReadActive, ReadActiveFails, Archive, Activate, RevertInsert,
     DiscardWrite, OptimizeCheck, DraftInsert, OpFits, TaskOps
<1> QED
  BY <1>3, <1>4, <1>5, <1>6, <1>7, <1>8, OutcomeSteps

LEMMA OutcomeKept ==
    ASSUME TypeInv, TypeInv', SharedInv, HistoryInv, NEW h \in Sessions, SerialFits(h),
           OutcomeFits(h), Request(h)
    PROVE  OutcomeFits(h)'
<1>1. ApplyFits(h)'
  <2>1. CASE op'[h] = "apply" /\ pc'[h] \in {"archive", "activate", "commit"}
    BY <2>1, ApplyOutcome DEF OutcomeFits
  <2> QED BY <2>1 DEF ApplyFits
<1>2. RevertFits(h)'
  <2>1. CASE op'[h] = "revert" /\ pc'[h] \in {"revert", "active", "archive", "commit"}
    BY <2>1, RevertOutcome DEF OutcomeFits
  <2> QED BY <2>1 DEF RevertFits
<1>3. DiscardFits(h)'
  <2>1. CASE op'[h] = "discard" /\ pc'[h] = "commit"
    BY <2>1, DiscardOutcome
  <2> QED BY <2>1 DEF DiscardFits
<1>4. DraftFits(h)'
  <2>1. CASE op'[h] \in {"create", "reschedule", "optimize"} /\ pc'[h] \in {"check", "clone", "draft", "commit"}
    BY <2>1, DraftOutcome DEF OutcomeFits
  <2> QED BY <2>1 DEF DraftFits
<1>5. TaskFits(h)'
  <2>1. CASE op'[h] \in TaskOps \cup {"get"} /\ pc'[h] \in {"proposed", "mark", "commit"}
    BY <2>1, TaskOutcome DEF OutcomeFits
  <2> QED BY <2>1 DEF TaskFits
<1> QED
  BY <1>1, <1>2, <1>3, <1>4, <1>5 DEF OutcomeFits

LEMMA RowsGoneKept ==
    ASSUME TypeInv, NEW h \in Sessions, RowsGone, Request(h)
    PROVE  RowsGone'
<1>0. plan \in [PlanIds -> PlanRow] /\ LocalFits(h)
  BY DEF TypeInv, TypeOK
<1>1. CASE UNCHANGED plan
  BY <1>1 DEF RowsGone, Exists
<1>2. CASE Commit(h)
  <2>1. \A p \in PlanIds : plan'[p] = plan[p] \/ plan'[p].status # "ABSENT"
    BY <1>0, <1>2 DEF Commit, LocalFits, StagedFits
  <2> QED BY <2>1 DEF RowsGone, Exists
<1>3. CASE OptimizeClone(h)
  <2>1. mine[h].row.status = "DRAFT"
    BY <1>0, <1>3 DEF OptimizeClone, LocalFits, RowFits
  <2>2. \A p \in PlanIds : plan'[p] = plan[p] \/ plan'[p].status = "DRAFT"
    BY <1>0, <1>3, <2>1 DEF OptimizeClone
  <2> QED BY <2>2 DEF RowsGone, Exists
<1>4. CASE OptimizeStart(h) \/ OptimizeEnd(h)
  <2>1. mine[h].row \in PlanRow
    BY <1>0, <1>4
       DEF OptimizeStart, OptimizeEnd, TypeInv, TypeOK, LocalFits, MineFits, HoldsMine, ReadRow
  <2>2. \A s \in PlanStatuses : Saved(mine[h].row, s).status = s
    BY <2>1 DEF Saved, PlanRow
  <2>3. \A p \in PlanIds : plan'[p] = plan[p] \/ plan'[p].status \in PlanStatuses
    BY <1>0, <1>4, <2>2 DEF OptimizeStart, OptimizeEnd, PlanStatuses
  <2> QED BY <2>3 DEF RowsGone, Exists, PlanStatuses
<1>5. CASE DeletePlan(h)
  <2>1. \A p \in PlanIds : plan'[p] = plan[p] \/ plan'[p] = Absent
    BY <1>0, <1>5 DEF DeletePlan
  <2> QED BY <2>1 DEF RowsGone, Exists
<1> QED
  BY <1>1, <1>2, <1>3, <1>4, <1>5, PlanWriters

LEMMA OutcomeInit == Init => OutcomeInv
<1> SUFFICES ASSUME Init PROVE OutcomeInv
  OBVIOUS
<1>1. RowsGone
  BY DEF Init, RowsGone
<1>2. \A h \in Sessions : OutcomeFits(h)
  BY DEF Init, OutcomeFits, ApplyFits, RevertFits, DiscardFits, DraftFits, TaskFits
<1> QED
  BY <1>1, <1>2 DEF OutcomeInv

LEMMA OutcomeUnread ==
    ASSUME TypeInv, OutcomeInv, RetentionElapses \/ UNCHANGED vars
    PROVE  OutcomeInv'
<1>1. RowsGone'
  <2>1. CASE RetentionElapses
    <3> SUFFICES ASSUME NEW p \in PlanIds, ~Exists(p)' PROVE plan'[p] = Absent
      BY DEF RowsGone
    <3>1. /\ plan[p] \in PlanRow
          /\ plan'[p] = [plan[p] EXCEPT !.old = plan[p].status \in {"ARCHIVED", "DISCARDED"}]
      BY <2>1 DEF RetentionElapses, TypeInv, TypeOK
    <3>2. plan[p].status = "ABSENT" /\ plan[p] = Absent
      BY <3>1 DEF Exists, PlanRow, OutcomeInv, RowsGone
    <3>3. (plan[p].status \in {"ARCHIVED", "DISCARDED"}) = FALSE
      BY <3>2
    <3>4. plan'[p] = [Absent EXCEPT !.old = FALSE]
      BY <3>1, <3>2, <3>3, Zenon
    <3> QED BY <3>4 DEF Absent
  <2>2. CASE UNCHANGED vars
    BY <2>2 DEF vars, OutcomeInv, RowsGone, Exists
  <2> QED BY <2>1, <2>2
<1>2. ASSUME NEW h \in Sessions PROVE OutcomeFits(h)'
  <2>1. CASE RetentionElapses
    <3>1. pc'[h] = "idle"
      BY <2>1 DEF RetentionElapses
    <3> QED BY <3>1 DEF OutcomeFits, ApplyFits, RevertFits, DiscardFits, DraftFits, TaskFits
  <2>2. CASE UNCHANGED vars
    <3>0. OutcomeFits(h)
      BY DEF OutcomeInv
    <3>1. /\ plan' = plan /\ pc' = pc /\ op' = op /\ mine' = mine /\ current' = current
          /\ staged' = staged /\ swallowed' = swallowed
      BY <2>2 DEF vars
    <3>2. /\ InUse' = InUse /\ ActivePlans' = ActivePlans /\ \A n : Unused(n)' <=> Unused(n)
          /\ \A row, p : SameRow(row, p)' <=> SameRow(row, p)
          /\ Shelves(h)' <=> Shelves(h)
          /\ \A S : WritesOnly(h, S)' <=> WritesOnly(h, S)
          /\ \A p : Resaves(h, p)' <=> Resaves(h, p)
      BY <3>1, OutcomeStays
    <3>3. ApplyFits(h)'
      BY <3>0, <3>1, <3>2 DEF OutcomeFits, ApplyFits, Looks
    <3>4. RevertFits(h)'
      BY <3>0, <3>1, <3>2 DEF OutcomeFits, RevertFits, Looks
    <3>5. DiscardFits(h)'
      BY <3>0, <3>1, <3>2 DEF OutcomeFits, DiscardFits, Looks
    <3>6. DraftFits(h)'
      BY <3>0, <3>1, <3>2 DEF OutcomeFits, DraftFits, Looks
    <3>7. TaskFits(h)'
      BY <3>0, <3>1, <3>2 DEF OutcomeFits, TaskFits, Looks
    <3> QED BY <3>3, <3>4, <3>5, <3>6, <3>7 DEF OutcomeFits
  <2> QED BY <2>1, <2>2
<1> QED
  BY <1>1, <1>2 DEF OutcomeInv

LEMMA OutcomeAlways ==
    ASSUME SingleSession
    PROVE  Spec => []OutcomeInv
<1>1. Init => OutcomeInv BY OutcomeInit
<1>2. TypeInv /\ TypeInv' /\ SharedInv /\ SerialInv /\ OutcomeInv /\ [Next]_vars => OutcomeInv'
  <2> SUFFICES ASSUME TypeInv, TypeInv', SharedInv, SerialInv, OutcomeInv, [Next]_vars
               PROVE  OutcomeInv'
    OBVIOUS
  <2>1. ASSUME NEW h \in Sessions, Request(h)
        PROVE  OutcomeInv'
    <3>1. OutcomeFits(h)' /\ RowsGone'
      BY <2>1, OutcomeKept, RowsGoneKept DEF SerialInv, OutcomeInv
    <3> QED BY <3>1 DEF SingleSession, OutcomeInv
  <2> QED BY <2>1, OutcomeUnread DEF Next
<1> QED
  BY <1>1, <1>2, TypeAlways, SharedAlways, SerialAlways, PTL DEF Spec

-----------------------------------------------------------------------------
(* The plans implement PlanHistory: a request takes a step of it when it      *)
(* writes plans, and none before and after.                                   *)
LEMMA HistoryTerms ==
    ASSUME TypeOK
    PROVE  /\ History!Active = ActivePlans /\ History!InUse = InUse
           /\ \A n \in PlanIds : Unused(n) => History!Unused(n)
           /\ \A p \in PlanIds : (\A q \in PlanIds : Exists(q) => q <= p) => History!Newest(p)
<1>1. History!Active = ActivePlans
  BY DEF History!Active, ActivePlans, WithStatus
<1>2. History!InUse = InUse
  BY <1>1 DEF History!InUse, InUse
<1>3. \A n \in PlanIds : Unused(n) => History!Unused(n)
  BY DEF History!Unused, History!Stored, Unused, Exists
<1>4. \A p \in PlanIds : (\A q \in PlanIds : Exists(q) => q <= p) => History!Newest(p)
  BY DEF History!Newest, History!Stored, Exists
<1> QED
  BY <1>1, <1>2, <1>3, <1>4

\* Nothing but what PlanHistory does not see changes of a plan.
Unseen(p) == plan'[p].status = plan[p].status /\ plan'[p].parent = plan[p].parent
               /\ plan'[p].algo = plan[p].algo
Shows(p, status, parent, algo) ==
    plan'[p].status = status /\ plan'[p].parent = parent /\ plan'[p].algo = algo

SeenRow(status, parent, algo) == [status |-> status, parent |-> parent, algo |-> algo]
Seen == [p \in PlanIds |-> SeenRow(plan[p].status, plan[p].parent, plan[p].algo)]

LEMMA HistorySet ==
    ASSUME NEW n \in PlanIds, NEW status, NEW parent, NEW algo, Shows(n, status, parent, algo),
           \A p \in PlanIds \ {n} : Unseen(p)
    PROVE  Seen' = [Seen EXCEPT ![n] = SeenRow(status, parent, algo)]
BY DEF Seen, SeenRow, Shows, Unseen

LEMMA HistoryBecome ==
    ASSUME NEW n \in PlanIds, NEW status, Shows(n, status, plan[n].parent, plan[n].algo),
           \A p \in PlanIds \ {n} : Unseen(p)
    PROVE  Seen' = [Seen EXCEPT ![n] = [Seen[n] EXCEPT !.status = status]]
BY DEF Seen, SeenRow, Shows, Unseen

LEMMA HistorySucceed ==
    ASSUME NEW n \in PlanIds, NEW parent, NEW algo, Shows(n, "ACTIVE", parent, algo),
           \A p \in InUse : p # n => Shows(p, "ARCHIVED", plan[p].parent, plan[p].algo),
           \A p \in PlanIds : p # n /\ p \notin InUse => Unseen(p)
    PROVE  Seen' = [p \in PlanIds |-> IF p = n THEN SeenRow("ACTIVE", parent, algo)
                                      ELSE IF p \in InUse THEN [Seen[p] EXCEPT !.status = "ARCHIVED"]
                                      ELSE Seen[p]]
BY DEF Seen, SeenRow, Shows, Unseen

\* What a transaction commits.
LEMMA HistoryCommit ==
    ASSUME TypeInv, NEW h \in Sessions, OutcomeFits(h), Commit(h)
    PROVE  History!Change \/ \A p \in PlanIds : Unseen(p)
<1>0. /\ pc[h] = "commit" /\ plan \in [PlanIds -> PlanRow] /\ OpFits(h) /\ op[h] \in AllOps
      /\ TypeOK
      /\ \A p \in PlanIds : plan'[p] = IF staged[h][p] # None THEN staged[h][p] ELSE plan[p]
  BY DEF Commit, TypeInv, TypeOK, LocalFits
<1>1. /\ \A p \in PlanIds : \A status, parent, algo :
           Looks(staged[h][p], status, parent, algo) => Shows(p, status, parent, algo)
      /\ \A p \in PlanIds : staged[h][p] = None => Unseen(p)
      /\ \A p \in PlanIds : Resaves(h, p) => Unseen(p)
  BY <1>0 DEF Looks, Shows, Unseen, Resaves
<1>2. \A S : WritesOnly(h, S) => \A p \in PlanIds \ S : Unseen(p)
  BY <1>1 DEF WritesOnly
<1>3. /\ History!Active = ActivePlans /\ History!InUse = InUse
      /\ \A n \in PlanIds : Unused(n) => History!Unused(n)
      /\ InUse \subseteq PlanIds /\ \A p \in InUse : plan[p].status = "ACTIVE"
  BY <1>0, HistoryTerms, InUseIsFirst DEF ActivePlans, WithStatus
<1>4. CASE op[h] = "apply"
  <2>0. PICK m : m = mine[h].id
    OBVIOUS
  <2>1. /\ m \in PlanIds /\ plan[m].status = "PROPOSED" /\ Shelves(h) /\ WritesOnly(h, InUse \cup {m})
        /\ \E parent \in IF InUse = {} THEN {plan[m].parent} ELSE InUse :
             Looks(staged[h][m], "ACTIVE", parent, plan[m].algo)
    BY <1>0, <1>4, <2>0 DEF OutcomeFits, ApplyFits
  <2>2. PICK parent \in IF InUse = {} THEN {plan[m].parent} ELSE InUse :
          Looks(staged[h][m], "ACTIVE", parent, plan[m].algo)
    BY <2>1
  <2>3. Shows(m, "ACTIVE", parent, plan[m].algo)
    BY <1>1, <2>1, <2>2
  <2>4. \A p \in InUse : p # m => Shows(p, "ARCHIVED", plan[p].parent, plan[p].algo)
    BY <1>1, <1>3, <2>1 DEF Shelves
  <2>5. Seen' = [p \in PlanIds |-> IF p = m THEN SeenRow("ACTIVE", parent, plan[m].algo)
                                     ELSE IF p \in InUse THEN [Seen[p] EXCEPT !.status = "ARCHIVED"]
                                     ELSE Seen[p]]
    BY <1>2, <2>1, <2>3, <2>4, HistorySucceed
  <2>6. History!Apply(m)
    <3>1. Seen[m].status = "PROPOSED" /\ Seen[m].parent = plan[m].parent /\ Seen[m].algo = plan[m].algo
      BY <2>1 DEF Seen, SeenRow
    <3>2. parent \in IF InUse = {} THEN {Seen[m].parent} ELSE InUse
      BY <2>2, <3>1
    <3>3. History!Succeed(m, History!Row("ACTIVE", parent, Seen[m].algo))
      BY <1>3, <2>5, <3>1 DEF History!Succeed, History!Become, History!Row, Seen, SeenRow
    <3> QED BY <1>3, <3>1, <3>2, <3>3 DEF History!Apply, Seen, SeenRow
  <2> QED BY <2>1, <2>6 DEF History!Change
<1>5. CASE op[h] = "revert"
  <2>0. PICK m : m = mine[h].id
    OBVIOUS
  <2>1. /\ m \in PlanIds /\ plan[m].status = "ARCHIVED"
        /\ \E n \in PlanIds :
             /\ Unused(n) /\ Looks(staged[h][n], "ACTIVE", m, plan[m].algo)
             /\ \/ WritesOnly(h, InUse \cup {n}) /\ Shelves(h)
                \/ WritesOnly(h, {n}) /\ Cardinality(ActivePlans) <= swallowed
    BY <1>0, <1>5, <2>0 DEF OutcomeFits, RevertFits
  <2>2. PICK n \in PlanIds :
             /\ Unused(n) /\ Looks(staged[h][n], "ACTIVE", m, plan[m].algo)
             /\ \/ WritesOnly(h, InUse \cup {n}) /\ Shelves(h)
                \/ WritesOnly(h, {n}) /\ Cardinality(ActivePlans) <= swallowed
    BY <2>1
  <2>3. Shows(n, "ACTIVE", m, plan[m].algo) /\ History!Unused(n)
    BY <1>1, <1>3, <2>2
  <2>4. CASE WritesOnly(h, InUse \cup {n}) /\ Shelves(h)
    <3>1. \A p \in InUse : p # n => Shows(p, "ARCHIVED", plan[p].parent, plan[p].algo)
      BY <1>1, <1>3, <2>4 DEF Shelves
    <3>2. Seen' = [p \in PlanIds |-> IF p = n THEN SeenRow("ACTIVE", m, plan[m].algo)
                                       ELSE IF p \in InUse THEN [Seen[p] EXCEPT !.status = "ARCHIVED"]
                                       ELSE Seen[p]]
      BY <1>2, <2>3, <2>4, <3>1, HistorySucceed
    <3>3. History!Revert(m, n)
      BY <1>3, <2>1, <2>3, <3>2
         DEF History!Revert, History!Succeed, History!Become, History!Row, Seen, SeenRow
    <3> QED BY <2>1, <3>3 DEF History!Change
  <2>5. CASE WritesOnly(h, {n}) /\ Cardinality(ActivePlans) <= swallowed
    <3>1. Seen' = [Seen EXCEPT ![n] = SeenRow("ACTIVE", m, plan[m].algo)]
      BY <1>2, <2>3, <2>5, HistorySet
    <3>2. History!RevertBeside(m, n)
      <4>1. History!Cardinality(History!Active) <= swallowed
        BY <1>3, <2>5 DEF History!Cardinality, Cardinality
      <4>2. Seen[m].status = "ARCHIVED" /\ Seen[m].algo = plan[m].algo
        BY <2>1 DEF Seen, SeenRow
      <4>3. History!Set(n, History!Row("ACTIVE", m, Seen[m].algo))
        BY <3>1, <4>2 DEF History!Set, History!Row, Seen, SeenRow
      <4> QED BY <2>3, <4>1, <4>2, <4>3 DEF History!RevertBeside, Seen, SeenRow
    <3> QED BY <2>1, <3>2 DEF History!Change
  <2> QED BY <2>2, <2>4, <2>5
<1>6. CASE op[h] = "discard"
  <2>0. PICK m : m = mine[h].id
    OBVIOUS
  <2>1. /\ m \in PlanIds /\ plan[m].status \in {"DRAFT", "PROPOSED", "FAILED"} /\ WritesOnly(h, {m})
        /\ Looks(staged[h][m], "DISCARDED", plan[m].parent, plan[m].algo)
    BY <1>0, <1>6, <2>0 DEF OutcomeFits, DiscardFits
  <2>2. Seen' = [Seen EXCEPT ![m] = [Seen[m] EXCEPT !.status = "DISCARDED"]]
    BY <1>1, <1>2, <2>1, HistoryBecome
  <2>3. History!Discard(m)
    BY <2>1, <2>2
       DEF History!Discard, History!Set, History!Become, Seen, SeenRow, History!CanTransitionTo,
           History!Transitions
  <2> QED BY <2>1, <2>3 DEF History!Change
<1>7. CASE op[h] = "create"
  <2>1. PICK n \in PlanIds, algo \in Algorithms, parent \in InUse \cup {0} :
          Unused(n) /\ WritesOnly(h, {n}) /\ Looks(staged[h][n], "DRAFT", parent, algo)
    BY <1>0, <1>7 DEF OutcomeFits, DraftFits
  <2>2. Seen' = [Seen EXCEPT ![n] = SeenRow("DRAFT", parent, algo)]
    BY <1>1, <1>2, <2>1, HistorySet
  <2>3. History!Draft(n, algo)
    BY <1>3, <2>1, <2>2 DEF History!Draft, History!Set, History!Row, Seen, SeenRow
  <2> QED BY <2>3 DEF History!Change
<1>8. CASE op[h] \in TaskOps \cup {"get"}
  <2>1. CASE \A p \in PlanIds : Resaves(h, p)
    BY <1>1, <2>1
  <2>2. ASSUME ActivePlans = {}, NEW n \in PlanIds, Unused(n),
               Looks(staged[h][n], "ACTIVE", 0, "HYBRID"), \A p \in PlanIds \ {n} : Resaves(h, p)
        PROVE  History!Change
    <3>1. Seen' = [Seen EXCEPT ![n] = SeenRow("ACTIVE", 0, "HYBRID")]
      BY <1>1, <2>2, HistorySet
    <3>2. History!Open(n)
      BY <1>3, <2>2, <3>1 DEF History!Open, History!Set, History!Row, Seen, SeenRow
    <3> QED BY <3>2 DEF History!Change
  <2> QED BY <1>0, <1>8, <2>1, <2>2 DEF OutcomeFits, TaskFits
<1> QED
  BY <1>0, <1>4, <1>5, <1>6, <1>7, <1>8 DEF OpFits, AllOps, TaskOps

\* The optimizer and the cleanup write outside a transaction of their own.
LEMMA HistoryWrites ==
    ASSUME TypeInv, TypeInv', SharedInv, SerialInv, OutcomeInv, NEW h \in Sessions,
           OptimizeClone(h) \/ OptimizeStart(h) \/ OptimizeEnd(h) \/ DeletePlan(h)
    PROVE  History!Change \/ \A p \in PlanIds : Unseen(p)
<1>0. /\ plan \in [PlanIds -> PlanRow] /\ nextId \in Nat /\ LocalFits(h) /\ SyncFits(h)
      /\ OutcomeFits(h) /\ mine[h] \in ReadRow \cup {None}
  BY DEF TypeInv, TypeOK, SerialInv, SerialFits, OutcomeInv
<1>1. /\ History!InUse = InUse
      /\ \A n \in PlanIds : Unused(n) => History!Unused(n)
      /\ \A p \in PlanIds : (\A q \in PlanIds : Exists(q) => q <= p) => History!Newest(p)
  BY HistoryTerms DEF TypeInv
<1>2. CASE OptimizeClone(h)
  <2>0. PICK n : n = nextId
    OBVIOUS
  <2>1. /\ pc[h] = "clone" /\ mine[h] \in ReadRow /\ plan' = [plan EXCEPT ![n] = mine[h].row]
        /\ mine[h].row.status = "DRAFT" /\ mine[h].row.parent \in InUse \cup {0}
        /\ nextId' = nextId + 1
    BY <1>0, <1>2, <2>0
       DEF OptimizeClone, LocalFits, OpFits, MineFits, RowFits, HoldsMine, OutcomeFits, DraftFits
  <2>2. n \in PlanIds /\ Unused(n)
    <3>1. nextId \in PlanIds
      BY <2>1, BoundAssumption DEF PlanIds, TypeInv, TypeOK
    <3> QED BY <2>0, <3>1, NewIsUnused DEF SerialInv, HistoryInv
  <2>3. mine[h].row \in PlanRow /\ mine[h].row.algo \in Algorithms
    BY <2>1 DEF ReadRow, PlanRow
  <2>4. /\ Shows(n, "DRAFT", mine[h].row.parent, mine[h].row.algo)
        /\ \A p \in PlanIds \ {n} : Unseen(p)
    BY <1>0, <2>1, <2>2 DEF Shows, Unseen
  <2>5. Seen' = [Seen EXCEPT ![n] = SeenRow("DRAFT", mine[h].row.parent, mine[h].row.algo)]
    BY <2>2, <2>4, HistorySet
  <2>6. History!Draft(n, mine[h].row.algo)
    BY <1>1, <2>1, <2>2, <2>5 DEF History!Draft, History!Set, History!Row, Seen, SeenRow
  <2> QED BY <2>2, <2>3, <2>6 DEF History!Change
<1>3. CASE OptimizeStart(h) \/ OptimizeEnd(h)
  <2>0. PICK m : m = mine[h].id
    OBVIOUS
  <2>1. /\ pc[h] \in {"start", "run"} /\ mine[h] \in ReadRow /\ m \in PlanIds
        /\ SameRow(mine[h].row, m) /\ m + 1 = nextId /\ ~AlreadyProposed(op[h], mine[h].row.algo)
        /\ pc[h] = "start" => mine[h].row.status = "DRAFT"
        /\ pc[h] = "run" => mine[h].row.status = "PROCESSING"
    BY <1>0, <1>3, <2>0
       DEF OptimizeStart, OptimizeEnd, LocalFits, MineFits, RowFits, HoldsMine, SyncFits
  <2>2. mine[h].row \in PlanRow
    BY <2>1 DEF ReadRow
  <2>3. /\ History!Newest(m)
        /\ ~\E p \in PlanIds : Seen[p].status = "PROPOSED" /\ Seen[p].algo = plan[m].algo
    <3>1. \A q \in PlanIds : Exists(q) => q < nextId
      BY <1>0 DEF SharedInv, IdInv, PlanIds
    <3>2. \A q \in PlanIds : Exists(q) => q <= m
      BY <2>1, <3>1 DEF PlanIds
    <3>3. ~AlreadyProposed(op[h], plan[m].algo)
      BY <2>1 DEF SameRow
    <3> QED BY <1>1, <2>1, <3>2, <3>3 DEF AlreadyProposed, WithStatus, Seen, SeenRow
  <2>4. \A s \in PlanStatuses :
          plan' = [plan EXCEPT ![m] = Saved(mine[h].row, s)] 
            => Seen' = [Seen EXCEPT ![m] = [Seen[m] EXCEPT !.status = s]]
    <3> SUFFICES ASSUME NEW s \in PlanStatuses, plan' = [plan EXCEPT ![m] = Saved(mine[h].row, s)]
                 PROVE  Seen' = [Seen EXCEPT ![m] = [Seen[m] EXCEPT !.status = s]]
      OBVIOUS
    <3>1. /\ Saved(mine[h].row, s).status = s /\ Saved(mine[h].row, s).parent = mine[h].row.parent
          /\ Saved(mine[h].row, s).algo = mine[h].row.algo
      BY <2>2 DEF Saved, PlanRow
    <3>2. Shows(m, s, plan[m].parent, plan[m].algo) /\ \A p \in PlanIds \ {m} : Unseen(p)
      BY <1>0, <2>1, <3>1 DEF Shows, Unseen, SameRow
    <3> QED BY <2>1, <3>2, HistoryBecome
  <2>5. CASE OptimizeStart(h)
    <3>1. plan[m].status = "DRAFT" /\ plan' = [plan EXCEPT ![m] = Saved(mine[h].row, "PROCESSING")]
      BY <2>0, <2>1, <2>5 DEF OptimizeStart, SameRow
    <3>2. Seen' = [Seen EXCEPT ![m] = [Seen[m] EXCEPT !.status = "PROCESSING"]]
      BY <2>4, <3>1 DEF PlanStatuses
    <3>3. History!Set(m, History!Become(m, "PROCESSING"))
      BY <3>2 DEF History!Set, History!Become, Seen, SeenRow
    <3>4. Seen[m].status = "DRAFT" /\ Seen[m].algo = plan[m].algo
      BY <2>1, <3>1 DEF Seen, SeenRow
    <3>5. History!Optimize(m)
      BY <2>3, <3>3, <3>4 DEF History!Optimize, History!Proposed, Seen, SeenRow
    <3> QED BY <2>1, <3>5 DEF History!Change
  <2>6. CASE OptimizeEnd(h)
    <3>1. plan[m].status = "PROCESSING"
      BY <2>1, <2>6 DEF OptimizeEnd, SameRow
    <3>2. CASE plan' = [plan EXCEPT ![m] = Saved(mine[h].row, "PROPOSED")]
      <4>1. Seen' = [Seen EXCEPT ![m] = [Seen[m] EXCEPT !.status = "PROPOSED"]]
        BY <2>4, <3>2 DEF PlanStatuses
      <4>2. History!Set(m, History!Become(m, "PROPOSED"))
        BY <4>1 DEF History!Set, History!Become, Seen, SeenRow
      <4>3. Seen[m].status = "PROCESSING" /\ Seen[m].algo = plan[m].algo
        BY <2>1, <3>1 DEF Seen, SeenRow
      <4>4. History!Propose(m)
        BY <2>3, <4>2, <4>3 DEF History!Propose, History!Proposed, Seen, SeenRow
      <4> QED BY <2>1, <4>4 DEF History!Change
    <3>3. CASE plan' = [plan EXCEPT ![m] = Saved(mine[h].row, "FAILED")]
      <4>1. Seen' = [Seen EXCEPT ![m] = [Seen[m] EXCEPT !.status = "FAILED"]]
        BY <2>4, <3>3 DEF PlanStatuses
      <4>2. History!Set(m, History!Become(m, "FAILED"))
        BY <4>1 DEF History!Set, History!Become, Seen, SeenRow
      <4>3. Seen[m].status = "PROCESSING" /\ Seen[m].algo = plan[m].algo
        BY <2>1, <3>1 DEF Seen, SeenRow
      <4>4. History!Fail(m)
        BY <2>3, <4>2, <4>3 DEF History!Fail, Seen, SeenRow
      <4> QED BY <2>1, <4>4 DEF History!Change
    <3> QED BY <2>0, <2>6, <3>2, <3>3 DEF OptimizeEnd
  <2> QED BY <1>3, <2>5, <2>6
<1>4. CASE DeletePlan(h)
  <2>1. CASE UNCHANGED plan
    BY <2>1 DEF Unseen
  <2>2. ASSUME NEW p \in todo[h], plan' = [plan EXCEPT ![p] = Absent]
        PROVE  History!Change \/ \A q \in PlanIds : Unseen(q)
    <3>1. p \in PlanIds /\ (plan[p].old \/ ~Exists(p))
      BY DEF TypeInv, TypeOK, SharedInv, TodoInv
    <3>2. CASE plan[p].old
      <4>1. plan[p].status \in {"ARCHIVED", "DISCARDED"}
        BY <3>1, <3>2 DEF SharedInv, OldInv
      <4>2. Shows(p, "ABSENT", 0, "HYBRID") /\ \A q \in PlanIds \ {p} : Unseen(q)
        BY <1>0, <2>2, <3>1 DEF Shows, Unseen, Absent
      <4>3. History!Forget(p)
        BY <3>1, <4>1, <4>2, HistorySet
           DEF History!Forget, History!NoPlan, History!Set, History!Row, Seen, SeenRow
      <4> QED BY <3>1, <4>3 DEF History!Change
    <3>3. CASE ~Exists(p)
      <4>1. plan[p] = Absent
        BY <3>1, <3>3 DEF OutcomeInv, RowsGone
      <4> QED BY <1>0, <2>2, <3>1, <4>1 DEF Unseen
    <3> QED BY <3>1, <3>2, <3>3
  <2> QED BY <1>4, <2>1, <2>2 DEF DeletePlan
<1> QED
  BY <1>2, <1>3, <1>4

LEMMA HistoryNext ==
    ASSUME TypeInv, TypeInv', SharedInv, SerialInv, OutcomeInv, [Next]_vars
    PROVE  [History!Next]_(History!vars)
<1>1. ASSUME \A p \in PlanIds : Unseen(p), UNCHANGED swallowed
      PROVE  UNCHANGED History!vars
  BY <1>1 DEF History!vars, Unseen
<1>2. CASE RetentionElapses \/ UNCHANGED vars
  <2>1. (\A p \in PlanIds : Unseen(p)) /\ UNCHANGED swallowed
    BY <1>2 DEF RetentionElapses, vars, Unseen, TypeInv, TypeOK, PlanRow
  <2> QED BY <1>1, <2>1
<1>3. ASSUME NEW h \in Sessions, Request(h)
      PROVE  [History!Next]_(History!vars)
  <2>1. CASE UNCHANGED plan
    <3>1. swallowed' = swallowed \/ swallowed' = swallowed + 1
      BY <1>3 DEF Request, ApplyCheck, DiscardRead, RevertRead, OptimizeRead, DraftRead,
         ActiveForTask, Apply, ReadCandidate, ReadActive, ReadActiveFails, Archive, Activate, Optimize,
         OptimizeCheck, OptimizeClone, OptimizeStart, OptimizeEnd, TaskEvent, InsertActive,
         ReadProposed, MarkStale, Cleanup, ListDiscarded, ListArchived, DeletePlan, CleanupEnd,
         DiscardWrite, RevertInsert, DraftInsert, Commit, Abort, DeadlockVictim
    <3>2. CASE swallowed' = swallowed + 1
      BY <2>1, <3>2 DEF History!Next, History!Lose
    <3>3. CASE swallowed' = swallowed
      BY <2>1, <3>3 DEF History!vars
    <3> QED BY <3>1, <3>2, <3>3
  <2>2. CASE plan' # plan
    <3>1. History!Change \/ \A p \in PlanIds : Unseen(p)
      BY <1>3, <2>2, PlanWriters, HistoryCommit, HistoryWrites DEF OutcomeInv
    <3>2. UNCHANGED swallowed
      BY <1>3, <2>2, PlanWriters DEF Commit, OptimizeClone, OptimizeStart, OptimizeEnd, DeletePlan
    <3> QED BY <1>1, <3>1, <3>2 DEF History!Next
  <2> QED BY <2>1, <2>2
<1> QED
  BY <1>2, <1>3 DEF Next

(* One request at a time implements PlanHistory: every operation acts at once *)
(* on the plans as they are when it commits, or not at all, although it read  *)
(* them piece by piece before, for any plans, failures and crashes.           *)
THEOREM PlanImplementsHistory ==
    ASSUME SingleSession
    PROVE  Spec => PlanFollowsHistory
<1>1. Init => History!Init
  BY DEF Init, Absent, History!Init, History!NoPlan, History!Row
<1>2. TypeInv /\ TypeInv' /\ SharedInv /\ SerialInv /\ OutcomeInv /\ [Next]_vars
        => [History!Next]_(History!vars)
  BY HistoryNext
<1> QED
  BY <1>1, <1>2, TypeAlways, SharedAlways, SerialAlways, OutcomeAlways, PTL
     DEF Spec, PlanFollowsHistory, History!Spec
====
