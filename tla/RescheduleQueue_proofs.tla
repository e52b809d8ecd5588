------------------------ MODULE RescheduleQueue_proofs ------------------------
(* Proofs about the reschedule queue: for any replicas, plans, items and      *)
(* handler connections, and any bounds.                                       *)
EXTENDS RescheduleQueue, TLAPS

-----------------------------------------------------------------------------
(* Type correctness.                                                          *)

LEMMA SessionItem ==
    ASSUME TypeOK, NEW h \in Sessions, session[h].pc # "idle"
    PROVE  session[h].item \in Items
BY DEF TypeOK, SessionStates, IdleSession

LEMMA QueuedEffect ==
    ASSUME TypeOK, NEW h \in Sessions, session[h].pc = "queued"
    PROVE  session[h].effect \in {"insert", "refresh", "drop"}
BY DEF TypeOK, SessionStates, IdleSession

LEMMA UpsertedType ==
    ASSUME NEW r \in [status : QueueStatuses, quiet : BOOLEAN, waited : BOOLEAN], NEW effect
    PROVE  Upserted(r, effect) \in [status : QueueStatuses, quiet : BOOLEAN, waited : BOOLEAN]
<1>1. CASE effect = "insert"
  BY <1>1 DEF Upserted, QueueStatuses
<1>2. CASE effect = "refresh"
  BY <1>2 DEF Upserted
<1>3. CASE effect # "insert" /\ effect # "refresh"
  BY <1>3 DEF Upserted
<1> QED
  BY <1>1, <1>2, <1>3

LEMMA SettledType ==
    ASSUME TypeOK, NEW b, NEW status \in QueueStatuses
    PROVE  Settled(status, b) \in
             [Items -> [status : QueueStatuses, quiet : BOOLEAN, waited : BOOLEAN]]
BY DEF TypeOK, Settled

LEMMA IdleType ==
    ASSUME TypeOK, NEW W, Idle(W)
    PROVE  /\ changes' \in [Items -> Nat]
           /\ session' \in [Sessions -> SessionStates]
           /\ pc' \in [Workers -> {"idle", "spawned", "locked", "loaded", "written"}]
           /\ batch' \in [Workers -> SUBSET Items]
           /\ seen' \in [Workers -> [Items -> Nat]]
           /\ touch' \in [Workers -> SUBSET Rows]
BY DEF TypeOK, Idle

LEMMA TypeInit == Init => TypeOK
BY DEF Init, TypeOK, SessionStates, IdleSession, QueueStatuses

LEMMA TypeStep == TypeOK /\ [Next]_vars => TypeOK'
<1> SUFFICES ASSUME TypeOK, [Next]_vars PROVE TypeOK'
  OBVIOUS
<1> USE DEF workerVars
<1>1. ASSUME NEW h \in Sessions, NEW i \in Items, BeginChange(h, i) PROVE TypeOK'
  <2>1. [pc |-> "wrote", item |-> i] \in SessionStates
    BY DEF SessionStates
  <2> QED
    BY <1>1, <2>1 DEF BeginChange, TypeOK
<1>2. ASSUME NEW h \in Sessions, Enqueue(h) PROVE TypeOK'
  <2> DEFINE i == session[h].item
             s == [pc |-> "queued", item |-> i, effect |-> UpsertEffect(row[i].status)]
  <2>1. i \in Items
    BY <1>2, SessionItem DEF Enqueue
  <2>2. s \in SessionStates
    BY <2>1 DEF SessionStates, UpsertEffect
  <2>3. session' = [session EXCEPT ![h] = s]
    BY <1>2 DEF Enqueue
  <2> QED
    BY <1>2, <2>2, <2>3 DEF Enqueue, TypeOK
<1>3. ASSUME NEW h \in Sessions, CommitChange(h) PROVE TypeOK'
  <2> DEFINE i == session[h].item
             r == Upserted(row[i], session[h].effect)
  <2>1. i \in Items
    BY <1>3, SessionItem DEF CommitChange
  <2>2. r \in [status : QueueStatuses, quiet : BOOLEAN, waited : BOOLEAN]
    BY <2>1, UpsertedType DEF TypeOK
  <2>3. row' = [row EXCEPT ![i] = r] /\ changes' = [changes EXCEPT ![i] = changes[i] + 1]
    BY <1>3 DEF CommitChange
  <2>4. session' \in [Sessions -> SessionStates]
    BY <1>3 DEF CommitChange, TypeOK, SessionStates
  <2> QED
    BY <1>3, <2>1, <2>2, <2>3, <2>4 DEF CommitChange, TypeOK
<1>4. ASSUME NEW h \in Sessions, RollbackChange(h) PROVE TypeOK'
  <2>1. session' \in [Sessions -> SessionStates]
    BY <1>4 DEF RollbackChange, TypeOK, SessionStates
  <2> QED
    BY <1>4, <2>1 DEF RollbackChange, TypeOK
<1>5. ASSUME NEW i \in Items, TimePasses(i) PROVE TypeOK'
  BY <1>5 DEF TimePasses, DebounceElapses, MaxWaitElapses, TypeOK
<1>6. ASSUME NEW p \in Procs, Poll(p) PROVE TypeOK'
  <2>1. pc' \in [Workers -> {"idle", "spawned", "locked", "loaded", "written"}]
    BY <1>6 DEF Poll, TypeOK
  <2> QED
    BY <1>6, <2>1 DEF Poll, TypeOK
<1>7. ASSUME NEW w \in Workers, LockBatch(w) PROVE TypeOK'
  BY <1>7 DEF LockBatch, TypeOK
<1>8. ASSUME NEW w \in Workers, Load(w) PROVE TypeOK'
  BY <1>8 DEF Load, TypeOK
<1>9. ASSUME NEW w \in Workers, Write(w) PROVE TypeOK'
  <2>1. reflected' \in [Items -> Nat]
    BY <1>9 DEF Write, TypeOK
  <2> QED
    BY <1>9, <2>1 DEF Write, TypeOK
<1>10. ASSUME NEW w \in Workers, Finish(w) PROVE TypeOK'
  BY <1>10, SettledType, IdleType DEF Finish, TypeOK, QueueStatuses
<1>11. ASSUME NEW w \in Workers, Fail(w) PROVE TypeOK'
  BY <1>11, SettledType, IdleType DEF Fail, TypeOK, QueueStatuses
<1>12. ASSUME NEW w \in Workers, AbortBatch(w) PROVE TypeOK'
  BY <1>12, IdleType DEF AbortBatch, TypeOK
<1>13. ASSUME NEW p \in Procs, Crash(p) PROVE TypeOK'
  BY <1>13, IdleType DEF Crash, TypeOK
<1>14. CASE UNCHANGED vars
  BY <1>14 DEF vars, TypeOK
<1> QED
  BY <1>1, <1>2, <1>3, <1>4, <1>5, <1>6, <1>7, <1>8, <1>9, <1>10, <1>11, <1>12, <1>13,
     <1>14 DEF Next, SessionStep, WorkerStep

(* Every reachable state of the queue and of the workers has its type.        *)
THEOREM QueueTypeCorrect == Spec => []TypeOK
BY TypeInit, TypeStep, PTL DEF Spec

-----------------------------------------------------------------------------
(* A locked row stays locked, PENDING and alone: whoever might change it or   *)
(* fetch it looks at the locks first.                                         *)

LEMMA ExclusiveInit == Init => BatchExclusive
BY DEF Init, BatchExclusive

\* What is the same when the goroutines of W end.
LEMMA IdleExclusive ==
    ASSUME TypeOK, BatchExclusive, NEW W \in SUBSET Workers, Idle(W),
           \A v \in Workers \ W : \A i \in batch[v] : row'[i].status = row[i].status
    PROVE  BatchExclusive'
BY DEF Idle, BatchExclusive, TypeOK, QueuedBy

LEMMA ExclusiveStep == TypeOK /\ BatchExclusive /\ [Next]_vars => BatchExclusive'
<1> SUFFICES ASSUME TypeOK, BatchExclusive, [Next]_vars PROVE BatchExclusive'
  OBVIOUS
<1> USE DEF workerVars
<1>1. ASSUME NEW h \in Sessions, NEW i \in Items, BeginChange(h, i) PROVE BatchExclusive'
  BY <1>1 DEF BeginChange, BatchExclusive, QueuedBy, TypeOK
<1>2. ASSUME NEW h \in Sessions, Enqueue(h) PROVE BatchExclusive'
  BY <1>2 DEF Enqueue, BatchExclusive, QueueLocked, QueuedBy, TypeOK
<1>3. ASSUME NEW h \in Sessions, CommitChange(h) PROVE BatchExclusive'
  <2>1. \A w \in Workers : \A i \in batch[w] : i # session[h].item
    BY <1>3 DEF CommitChange, BatchExclusive, QueuedBy
  <2>2. \A w \in Workers : \A i \in batch[w] : row'[i] = row[i]
    BY <1>3, <2>1 DEF CommitChange, TypeOK
  <2> QED
    BY <1>3, <2>2 DEF CommitChange, BatchExclusive, QueuedBy, TypeOK, IdleSession
<1>4. ASSUME NEW h \in Sessions, RollbackChange(h) PROVE BatchExclusive'
  BY <1>4 DEF RollbackChange, BatchExclusive, QueuedBy, TypeOK, IdleSession
<1>5. ASSUME NEW j \in Items, TimePasses(j) PROVE BatchExclusive'
  <2>1. \A i \in Items : row'[i].status = row[i].status
    BY <1>5 DEF TimePasses, DebounceElapses, MaxWaitElapses, TypeOK
  <2> QED
    BY <1>5, <2>1 DEF TimePasses, DebounceElapses, MaxWaitElapses, BatchExclusive, QueuedBy,
                      TypeOK
<1>6. ASSUME NEW p \in Procs, Poll(p) PROVE BatchExclusive'
  BY <1>6 DEF Poll, BatchExclusive, QueuedBy
<1>7. ASSUME NEW w \in Workers, LockBatch(w) PROVE BatchExclusive'
  BY <1>7 DEF LockBatch, BatchExclusive, QueueLocked, QueuedBy, Ready, TypeOK
<1>8. ASSUME NEW w \in Workers, Load(w) PROVE BatchExclusive'
  BY <1>8 DEF Load, BatchExclusive, QueuedBy
<1>9. ASSUME NEW w \in Workers, Write(w) PROVE BatchExclusive'
  BY <1>9 DEF Write, BatchExclusive, QueuedBy
<1>10. ASSUME NEW w \in Workers, NEW status, row' = Settled(status, batch[w]), Idle({w})
       PROVE  BatchExclusive'
  <2>1. \A v \in Workers \ {w} : \A i \in batch[v] : i \notin batch[w]
    BY DEF BatchExclusive
  <2>2. ASSUME NEW v \in Workers \ {w}, NEW i \in batch[v] PROVE row'[i].status = row[i].status
    <3>1. i \in Items /\ i \notin batch[w]
      BY <2>1 DEF TypeOK
    <3> QED
      BY <1>10, <3>1 DEF Settled
  <2> QED
    BY <1>10, <2>2, IdleExclusive
<1>11. ASSUME NEW w \in Workers, AbortBatch(w) PROVE BatchExclusive'
  BY <1>11, IdleExclusive DEF AbortBatch
<1>12. ASSUME NEW p \in Procs, Crash(p) PROVE BatchExclusive'
  BY <1>12, IdleExclusive DEF Crash
<1>13. CASE UNCHANGED vars
  BY <1>13 DEF vars, BatchExclusive, QueuedBy
<1> QED
  BY <1>1, <1>2, <1>3, <1>4, <1>5, <1>6, <1>7, <1>8, <1>9, <1>10, <1>11, <1>12, <1>13
  DEF Next, SessionStep, WorkerStep, Finish, Fail

(* However many replicas poll, no queue row is processed by two workers, and  *)
(* none is changed while a worker holds it.                                   *)
THEOREM QueueBatchExclusive == Spec => []BatchExclusive
<1>1. TypeOK /\ BatchExclusive /\ [Next]_vars => (TypeOK /\ BatchExclusive)'
  BY TypeStep, ExclusiveStep
<1> QED
  BY TypeInit, ExclusiveInit, <1>1, PTL DEF Spec

-----------------------------------------------------------------------------
(* What holds of the sessions and the rows with any number of replicas.       *)

\* No two open transactions change the same entity.
SessionsApart ==
    \A h, g \in Sessions :
        session[h].pc # "idle" /\ session[g].pc # "idle" /\ session[h].item = session[g].item
          => h = g

\* A row is there from the first committed change on, and an upsert that waits
\* for its commit has seen it as it still is.
RowsMatch ==
    /\ \A i \in Items : row[i].status = "NONE" <=> changes[i] = 0
    /\ \A h \in Sessions : session[h].pc = "queued" =>
         (session[h].effect = "insert" <=> row[session[h].item].status = "NONE")

ChangedOnce ==
    \A i \in Items : OneShot(i) =>
        /\ changes[i] \in {0, 1}
        /\ \A h \in Sessions : session[h].pc # "idle" /\ session[h].item = i => changes[i] = 0

BatchOfPlan == \A w \in Workers : \A i \in batch[w] : PlanOf[i] = w[2]

\* Nobody has seen a change that is not committed.
ReadCommitted ==
    \A i \in Items : /\ reflected[i] <= changes[i]
                     /\ \A w \in Workers : seen[w][i] <= changes[i]

SessionInv == SessionsApart /\ RowsMatch /\ ChangedOnce /\ BatchOfPlan /\ ReadCommitted
QueueInv == TypeOK /\ BatchExclusive /\ SessionInv

LEMMA SessionInit == Init => SessionInv
BY DEF Init, SessionInv, SessionsApart, RowsMatch, ChangedOnce, BatchOfPlan, ReadCommitted,
       IdleSession

LEMMA SettledRowsMatch ==
    ASSUME QueueInv, NEW w \in Workers, NEW status \in {"COMPLETED", "FAILED"},
           row' = Settled(status, batch[w]), Idle({w})
    PROVE  RowsMatch'
<1>1. \A i \in Items : row'[i].status = "NONE" <=> row[i].status = "NONE"
  <2> SUFFICES ASSUME NEW i \in Items
               PROVE  row'[i].status = "NONE" <=> row[i].status = "NONE"
    OBVIOUS
  <2>1. i \in batch[w] => row[i].status = "PENDING"
    BY DEF QueueInv, BatchExclusive
  <2> QED
    BY <2>1 DEF Settled
<1> QED
  BY <1>1, SessionItem DEF QueueInv, SessionInv, RowsMatch, Idle

LEMMA IdleReads ==
    ASSUME QueueInv, NEW W \in SUBSET Workers, Idle(W)
    PROVE  /\ SessionsApart' /\ ChangedOnce' /\ BatchOfPlan'
           /\ reflected' = reflected => ReadCommitted'
           /\ row' = row => RowsMatch'
<1>1. SessionsApart' /\ ChangedOnce'
  BY DEF Idle, QueueInv, SessionInv, SessionsApart, ChangedOnce
<1>2. BatchOfPlan'
  BY DEF Idle, QueueInv, SessionInv, BatchOfPlan
<1>3. ASSUME reflected' = reflected PROVE ReadCommitted'
  BY <1>3 DEF Idle, QueueInv, SessionInv, ReadCommitted, TypeOK
<1>4. ASSUME row' = row PROVE RowsMatch'
  BY <1>4 DEF Idle, QueueInv, SessionInv, RowsMatch
<1> QED
  BY <1>1, <1>2, <1>3, <1>4

LEMMA SessionStepInv == QueueInv /\ [Next]_vars => SessionInv'
<1> SUFFICES ASSUME QueueInv, [Next]_vars PROVE SessionInv'
  OBVIOUS
<1> USE DEF workerVars
<1>0. TypeOK /\ BatchExclusive /\ SessionInv
  BY DEF QueueInv
<1>1. ASSUME NEW h \in Sessions, NEW i \in Items, BeginChange(h, i) PROVE SessionInv'
  <2>1. session' = [session EXCEPT ![h] = [pc |-> "wrote", item |-> i]]
    BY <1>1 DEF BeginChange
  <2>2. \A g \in Sessions : session[g].pc # "idle" => session[g].item # i
    BY <1>1, ItemAssumption DEF BeginChange, RowHeld
  <2>3. SessionsApart'
    BY <1>0, <2>1, <2>2 DEF SessionInv, SessionsApart, TypeOK
  <2>4. RowsMatch' /\ BatchOfPlan' /\ ReadCommitted'
    BY <1>0, <1>1, <2>1 DEF BeginChange, SessionInv, RowsMatch, BatchOfPlan, ReadCommitted,
                            TypeOK
  <2>5. OneShot(i) => changes[i] = 0
    BY <1>0, <1>1 DEF BeginChange, TypeOK
  <2>6. ChangedOnce'
    BY <1>0, <1>1, <2>1, <2>5 DEF BeginChange, SessionInv, ChangedOnce, TypeOK, OneShot
  <2> QED
    BY <2>3, <2>4, <2>6 DEF SessionInv
<1>2. ASSUME NEW h \in Sessions, Enqueue(h) PROVE SessionInv'
  <2> DEFINE i == session[h].item
             s == [pc |-> "queued", item |-> i, effect |-> UpsertEffect(row[i].status)]
  <2>1. i \in Items /\ session[h].pc = "wrote"
    BY <1>0, <1>2, SessionItem DEF Enqueue
  <2>2. session' = [session EXCEPT ![h] = s]
    BY <1>2 DEF Enqueue
  <2>3. UpsertEffect(row[i].status) = "insert" <=> row[i].status = "NONE"
    BY DEF UpsertEffect
  <2>4. SessionsApart' /\ ChangedOnce'
    BY <1>0, <1>2, <2>1, <2>2 DEF Enqueue, SessionInv, SessionsApart, ChangedOnce, TypeOK, OneShot
  <2>5. RowsMatch'
    BY <1>0, <1>2, <2>1, <2>2, <2>3 DEF Enqueue, SessionInv, RowsMatch, TypeOK
  <2>6. BatchOfPlan' /\ ReadCommitted'
    BY <1>0, <1>2 DEF Enqueue, SessionInv, BatchOfPlan, ReadCommitted
  <2> QED
    BY <2>4, <2>5, <2>6 DEF SessionInv
<1>3. ASSUME NEW h \in Sessions, CommitChange(h) PROVE SessionInv'
  <2> DEFINE i == session[h].item
             r == Upserted(row[i], session[h].effect)
  <2>1. i \in Items /\ session[h].pc = "queued"
    BY <1>0, <1>3, SessionItem DEF CommitChange
  <2>2. row' = [row EXCEPT ![i] = r] /\ changes' = [changes EXCEPT ![i] = changes[i] + 1]
    BY <1>3 DEF CommitChange
  <2>3. session' = [session EXCEPT ![h] = IdleSession]
    BY <1>3 DEF CommitChange
  <2>4. r.status # "NONE"
    <3>1. session[h].effect = "insert" <=> row[i].status = "NONE"
      BY <1>0, <2>1 DEF SessionInv, RowsMatch
    <3>2. CASE session[h].effect = "insert"
      BY <3>2 DEF Upserted
    <3>3. CASE session[h].effect = "refresh"
      BY <1>0, <2>1, <3>1, <3>3 DEF Upserted, TypeOK
    <3>4. CASE session[h].effect = "drop"
      BY <3>1, <3>4 DEF Upserted
    <3> QED
      BY <1>0, <2>1, <3>2, <3>3, <3>4, QueuedEffect
  <2>5. \A g \in Sessions : g # h /\ session[g].pc # "idle" => session[g].item # i
    BY <1>0, <2>1 DEF SessionInv, SessionsApart
  <2>6. SessionsApart'
    BY <1>0, <2>3 DEF SessionInv, SessionsApart, TypeOK, IdleSession
  <2>7. RowsMatch'
    BY <1>0, <2>1, <2>2, <2>3, <2>4, <2>5 DEF SessionInv, RowsMatch, TypeOK, IdleSession
  <2>8. ChangedOnce'
    BY <1>0, <2>1, <2>2, <2>3, <2>5 DEF SessionInv, ChangedOnce, TypeOK, IdleSession, OneShot
  <2>9. BatchOfPlan' /\ ReadCommitted'
    BY <1>0, <1>3, <2>1, <2>2 DEF CommitChange, SessionInv, BatchOfPlan, ReadCommitted, TypeOK
  <2> QED
    BY <2>6, <2>7, <2>8, <2>9 DEF SessionInv
<1>4. ASSUME NEW h \in Sessions, RollbackChange(h) PROVE SessionInv'
  BY <1>0, <1>4 DEF RollbackChange, SessionInv, SessionsApart, RowsMatch, ChangedOnce,
                    BatchOfPlan, ReadCommitted, TypeOK, IdleSession, OneShot
<1>5. ASSUME NEW j \in Items, TimePasses(j) PROVE SessionInv'
  <2>1. \A i \in Items : row'[i].status = row[i].status
    BY <1>0, <1>5 DEF TimePasses, DebounceElapses, MaxWaitElapses, TypeOK
  <2>2. RowsMatch'
    BY <1>0, <1>5, <2>1, SessionItem DEF TimePasses, DebounceElapses, MaxWaitElapses,
                                         SessionInv, RowsMatch
  <2> QED
    BY <1>0, <1>5, <2>2 DEF TimePasses, DebounceElapses, MaxWaitElapses, SessionInv,
       SessionsApart, ChangedOnce, BatchOfPlan, ReadCommitted
<1>6. ASSUME NEW p \in Procs, Poll(p) PROVE SessionInv'
  BY <1>0, <1>6 DEF Poll, SessionInv, SessionsApart, RowsMatch, ChangedOnce, BatchOfPlan,
                    ReadCommitted
<1>7. ASSUME NEW w \in Workers, LockBatch(w) PROVE SessionInv'
  BY <1>0, <1>7 DEF LockBatch, SessionInv, SessionsApart, RowsMatch, ChangedOnce, BatchOfPlan,
                    ReadCommitted, TypeOK
<1>8. ASSUME NEW w \in Workers, Load(w) PROVE SessionInv'
  BY <1>0, <1>8 DEF Load, SessionInv, SessionsApart, RowsMatch, ChangedOnce, BatchOfPlan,
                    ReadCommitted, TypeOK
<1>9. ASSUME NEW w \in Workers, Write(w) PROVE SessionInv'
  <2>1. ReadCommitted'
    BY <1>0, <1>9 DEF Write, SessionInv, ReadCommitted
  <2> QED
    BY <1>0, <1>9, <2>1 DEF Write, SessionInv, SessionsApart, RowsMatch, ChangedOnce, BatchOfPlan
<1>10. ASSUME NEW w \in Workers, Finish(w) PROVE SessionInv'
  BY <1>10, IdleReads, SettledRowsMatch DEF Finish, SessionInv
<1>11. ASSUME NEW w \in Workers, Fail(w) PROVE SessionInv'
  BY <1>11, IdleReads, SettledRowsMatch DEF Fail, SessionInv
<1>12. ASSUME NEW w \in Workers, AbortBatch(w) PROVE SessionInv'
  BY <1>12, IdleReads DEF AbortBatch, SessionInv
<1>13. ASSUME NEW p \in Procs, Crash(p) PROVE SessionInv'
  BY <1>13, IdleReads DEF Crash, SessionInv
<1>14. CASE UNCHANGED vars
  BY <1>0, <1>14 DEF vars, SessionInv, SessionsApart, RowsMatch, ChangedOnce, BatchOfPlan,
                     ReadCommitted
<1> QED
  BY <1>1, <1>2, <1>3, <1>4, <1>5, <1>6, <1>7, <1>8, <1>9, <1>10, <1>11, <1>12, <1>13, <1>14
  DEF Next, SessionStep, WorkerStep

LEMMA QueueInvariant == Spec => []QueueInv
<1>1. Init => QueueInv
  BY TypeInit, ExclusiveInit, SessionInit DEF QueueInv
<1>2. QueueInv /\ [Next]_vars => QueueInv'
  BY TypeStep, ExclusiveStep, SessionStepInv DEF QueueInv
<1> QED
  BY <1>1, <1>2, PTL DEF Spec

-----------------------------------------------------------------------------
(* What a single replica adds: one goroutine at a time works on a plan.       *)

\* What a worker has loaded is no older than the schedule in place.
FreshRead ==
    \A w \in Workers : pc[w] = "loaded" =>
        \A i \in Items : PlanOf[i] = w[2] => reflected[i] <= seen[w][i]

\* The one change of a locked one-shot row is in what the worker has loaded,
\* then in what it has written.
BatchReflected ==
    \A w \in Workers : \A i \in batch[w] : OneShot(i) =>
        /\ pc[w] = "loaded" => seen[w][i] = changes[i]
        /\ pc[w] = "written" => reflected[i] = changes[i]

SingleInv == FreshRead /\ BatchReflected /\ OneShotCovered

LEMMA OneWorkerPerPlan ==
    ASSUME SingleReplica, NEW v \in Workers, NEW w \in Workers, v[2] = w[2]
    PROVE  v = w
BY DEF SingleReplica, Workers

LEMMA SingleInit == Init => SingleInv
BY DEF Init, SingleInv, FreshRead, BatchReflected, OneShotCovered

\* A one-shot item names its task, so its own batch places the task again.
LEMMA OneShotRescheduled ==
    ASSUME NEW p, NEW b \in SUBSET Items, NEW i \in b, OneShot(i), PlanOf[i] = p
    PROVE  i \in Rescheduled(p, b)
BY DEF OneShot, Rescheduled, AffectedTasks, NamesTask, TaskTriggers

\* Steps that leave the locked rows, what was read and what was written alone.
LEMMA IdleSingle ==
    ASSUME QueueInv, SingleInv, NEW W \in SUBSET Workers, Idle(W), reflected' = reflected
    PROVE  FreshRead' /\ BatchReflected'
<1>1. FreshRead'
  BY DEF Idle, SingleInv, FreshRead, QueueInv, TypeOK
<1>2. BatchReflected'
  BY DEF Idle, SingleInv, BatchReflected, QueueInv, TypeOK
<1> QED
  BY <1>1, <1>2

LEMMA WriteNewer ==
    ASSUME QueueInv, FreshRead, NEW w \in Workers, Write(w), NEW i \in Items
    PROVE  reflected'[i] >= reflected[i] /\ reflected'[i] <= changes[i]
<1>1. /\ reflected[i] \in Nat /\ changes[i] \in Nat /\ seen[w][i] \in Nat
      /\ reflected[i] <= changes[i] /\ seen[w][i] <= changes[i]
  BY DEF QueueInv, TypeOK, SessionInv, ReadCommitted
<1>2. reflected'[i] = IF i \in Rescheduled(w[2], batch[w]) THEN seen[w][i] ELSE reflected[i]
  BY DEF Write
<1>3. i \in Rescheduled(w[2], batch[w]) => reflected[i] <= seen[w][i]
  BY DEF FreshRead, Write, Rescheduled
<1> QED
  BY <1>1, <1>2, <1>3

LEMMA SingleStep ==
    ASSUME SingleReplica
    PROVE  QueueInv /\ SingleInv /\ [Next]_vars => SingleInv'
<1> SUFFICES ASSUME QueueInv, SingleInv, [Next]_vars PROVE SingleInv'
  OBVIOUS
<1> USE DEF workerVars
<1>0. TypeOK /\ BatchExclusive /\ SessionInv /\ FreshRead /\ BatchReflected /\ OneShotCovered
  BY DEF QueueInv, SingleInv
<1>1. ASSUME UNCHANGED <<row, changes, reflected, workerVars>> PROVE SingleInv'
  BY <1>0, <1>1 DEF SingleInv, FreshRead, BatchReflected, OneShotCovered
<1>2. ASSUME NEW h \in Sessions, CommitChange(h) PROVE SingleInv'
  <2> DEFINE i == session[h].item
             r == Upserted(row[i], session[h].effect)
  <2>1. i \in Items /\ session[h].pc = "queued"
    BY <1>0, <1>2, SessionItem DEF CommitChange
  <2>2. row' = [row EXCEPT ![i] = r] /\ changes' = [changes EXCEPT ![i] = changes[i] + 1]
    BY <1>2 DEF CommitChange
  <2>3. FreshRead'
    BY <1>0, <1>2 DEF CommitChange, FreshRead
  <2>4. \A w \in Workers : \A j \in batch[w] : j # i /\ j \in Items
    BY <1>0, <2>1 DEF BatchExclusive, QueuedBy, TypeOK
  <2>5. BatchReflected'
    BY <1>0, <1>2, <2>2, <2>4 DEF CommitChange, BatchReflected, TypeOK
  <2>6. ASSUME OneShot(i) PROVE r.status = "PENDING"
    <3>1. session[h].effect = "insert"
      BY <1>0, <2>1, <2>6 DEF SessionInv, RowsMatch, ChangedOnce
    <3> QED
      BY <3>1 DEF Upserted
  <2>7. OneShotCovered'
    <3> SUFFICES ASSUME NEW j \in Items, OneShot(j), changes'[j] > reflected'[j]
                 PROVE  row'[j].status \in {"PENDING", "FAILED"}
      BY DEF OneShotCovered, OneShot
    <3>1. CASE j = i
      BY <1>0, <2>1, <2>2, <2>6, <3>1 DEF TypeOK
    <3>2. CASE j # i
      BY <1>0, <1>2, <2>1, <2>2, <3>2 DEF CommitChange, TypeOK, OneShotCovered
    <3> QED
      BY <3>1, <3>2
  <2> QED
    BY <2>3, <2>5, <2>7 DEF SingleInv
<1>3. ASSUME NEW j \in Items, TimePasses(j) PROVE SingleInv'
  <2>1. \A i \in Items : row'[i].status = row[i].status
    BY <1>0, <1>3 DEF TimePasses, DebounceElapses, MaxWaitElapses, TypeOK
  <2> QED
    BY <1>0, <1>3, <2>1 DEF TimePasses, DebounceElapses, MaxWaitElapses, SingleInv, FreshRead,
                            BatchReflected, OneShotCovered
<1>4. ASSUME NEW p \in Procs, Poll(p) PROVE SingleInv'
  <2>1. \A w \in Workers : pc'[w] \in {"loaded", "written"} => pc'[w] = pc[w]
    BY <1>4 DEF Poll
  <2> QED
    BY <1>0, <1>4, <2>1 DEF Poll, SingleInv, FreshRead, BatchReflected, OneShotCovered
<1>5. ASSUME NEW w \in Workers, LockBatch(w) PROVE SingleInv'
  <2>1. \A v \in Workers : pc'[v] \in {"loaded", "written"} => v # w /\ pc'[v] = pc[v]
    BY <1>0, <1>5 DEF LockBatch, TypeOK
  <2>2. \A v \in Workers : v # w => batch'[v] = batch[v]
    BY <1>0, <1>5 DEF LockBatch, TypeOK
  <2> QED
    BY <1>0, <1>5, <2>1, <2>2 DEF LockBatch, SingleInv, FreshRead, BatchReflected,
                                  OneShotCovered
<1>6. ASSUME NEW w \in Workers, Load(w) PROVE SingleInv'
  <2>1. /\ pc' = [pc EXCEPT ![w] = "loaded"] /\ seen' = [seen EXCEPT ![w] = changes]
        /\ UNCHANGED <<row, changes, reflected, batch>>
    BY <1>6 DEF Load
  <2>2. FreshRead'
    BY <1>0, <2>1 DEF FreshRead, TypeOK, SessionInv, ReadCommitted
  <2>3. BatchReflected'
    BY <1>0, <2>1 DEF BatchReflected, TypeOK
  <2>4. OneShotCovered'
    BY <1>0, <2>1 DEF OneShotCovered
  <2> QED
    BY <2>2, <2>3, <2>4 DEF SingleInv
<1>7. ASSUME NEW w \in Workers, Write(w) PROVE SingleInv'
  <2>1. /\ pc[w] = "loaded" /\ pc' = [pc EXCEPT ![w] = "written"]
        /\ UNCHANGED <<row, changes, batch, seen>>
    BY <1>7 DEF Write
  <2>2. \A v \in Workers : v # w =>
          \A i \in Items : PlanOf[i] = v[2] => reflected'[i] = reflected[i]
    BY <1>7, OneWorkerPerPlan DEF Write, Rescheduled
  <2>3. FreshRead'
    BY <1>0, <2>1, <2>2 DEF FreshRead, TypeOK
  <2>4. \A i \in batch[w] : OneShot(i) => reflected'[i] = changes[i]
    <3> SUFFICES ASSUME NEW i \in batch[w], OneShot(i) PROVE reflected'[i] = changes[i]
      OBVIOUS
    <3>1. i \in Rescheduled(w[2], batch[w]) /\ i \in Items
      BY <1>0, OneShotRescheduled DEF SessionInv, BatchOfPlan, TypeOK
    <3> QED
      BY <1>0, <1>7, <2>1, <3>1 DEF Write, BatchReflected
  <2>5. BatchReflected'
    <3> SUFFICES ASSUME NEW v \in Workers, NEW i \in batch[v], OneShot(i)
                 PROVE  /\ pc'[v] = "loaded" => seen[v][i] = changes[i]
                        /\ pc'[v] = "written" => reflected'[i] = changes[i]
      BY <2>1 DEF BatchReflected, OneShot
    <3>1. CASE v = w
      BY <1>0, <2>1, <2>4, <3>1 DEF TypeOK
    <3>2. CASE v # w
      BY <1>0, <2>1, <2>2, <3>2 DEF TypeOK, BatchReflected, SessionInv, BatchOfPlan
    <3> QED
      BY <3>1, <3>2
  <2>6. OneShotCovered'
    <3> SUFFICES ASSUME NEW i \in Items, OneShot(i), changes[i] > reflected'[i]
                 PROVE  row[i].status \in {"PENDING", "FAILED"}
      BY <2>1 DEF OneShotCovered, OneShot
    <3>1. reflected'[i] >= reflected[i]
      BY <1>0, <1>7, WriteNewer
    <3>2. reflected[i] \in Nat /\ reflected'[i] \in Nat /\ changes[i] \in Nat
      BY <1>0, TypeStep DEF TypeOK
    <3>3. changes[i] > reflected[i]
      BY <3>1, <3>2
    <3> QED
      BY <1>0, <3>3 DEF OneShotCovered
  <2> QED
    BY <2>3, <2>5, <2>6 DEF SingleInv
<1>8. ASSUME NEW w \in Workers, Finish(w) PROVE SingleInv'
  <2>1. FreshRead' /\ BatchReflected'
    BY <1>8, IdleSingle DEF Finish
  <2>2. \A i \in batch[w] : OneShot(i) => reflected[i] = changes[i]
    BY <1>0, <1>8 DEF Finish, BatchReflected
  <2>3. OneShotCovered'
    BY <1>0, <1>8, <2>2 DEF Finish, Idle, Settled, OneShotCovered, OneShot, TypeOK
  <2> QED
    BY <2>1, <2>3 DEF SingleInv
<1>9. ASSUME NEW w \in Workers, Fail(w) PROVE SingleInv'
  <2>1. OneShotCovered'
    BY <1>0, <1>9 DEF Fail, Idle, Settled, OneShotCovered, OneShot, TypeOK
  <2> QED
    BY <1>9, <2>1, IdleSingle DEF Fail, SingleInv
<1>10. ASSUME NEW W \in SUBSET Workers, Idle(W), UNCHANGED <<row, reflected>>
       PROVE  SingleInv'
  BY <1>0, <1>10, IdleSingle DEF Idle, SingleInv, OneShotCovered
<1> QED
  <2>1. CASE UNCHANGED vars
    BY <1>1, <2>1 DEF vars
  <2>2. ASSUME NEW h \in Sessions,
               (\E i \in Items : BeginChange(h, i)) \/ Enqueue(h) \/ RollbackChange(h)
        PROVE  SingleInv'
    BY <1>1, <2>2 DEF BeginChange, Enqueue, RollbackChange
  <2>3. ASSUME NEW w \in Workers, AbortBatch(w) PROVE SingleInv'
    BY <1>10, <2>3 DEF AbortBatch
  <2>4. ASSUME NEW p \in Procs, Crash(p) PROVE SingleInv'
    BY <1>10, <2>4 DEF Crash
  <2> QED
    BY <1>2, <1>3, <1>4, <1>5, <1>6, <1>7, <1>8, <1>9, <2>1, <2>2, <2>3, <2>4
    DEF Next, SessionStep, WorkerStep

(* With one replica, a task that was added or deleted and is not yet in the   *)
(* plan's schedule still has its row in the queue, or failed for good.        *)
THEOREM QueueOneShotCovered ==
    ASSUME SingleReplica
    PROVE  Spec => []OneShotCovered
<1>1. QueueInv /\ SingleInv /\ [Next]_vars => SingleInv'
  BY SingleStep
<1>2. SingleInv => OneShotCovered
  BY DEF SingleInv
<1> QED
  BY SingleInit, <1>1, <1>2, QueueInvariant, PTL DEF Spec

(* With one replica, no schedule is replaced by one computed from older data. *)
THEOREM QueueScheduleNeverOlder ==
    ASSUME SingleReplica
    PROVE  Spec => ScheduleNeverOlder
<1>1. QueueInv /\ SingleInv /\ [Next]_vars => SingleInv'
  BY SingleStep
<1>2. QueueInv /\ SingleInv /\ [Next]_vars => [\A i \in Items : reflected'[i] >= reflected[i]]_vars
  <2> SUFFICES ASSUME QueueInv, SingleInv, [Next]_vars, NEW i \in Items
               PROVE  reflected'[i] >= reflected[i]
    OBVIOUS
  <2>1. reflected[i] \in Nat
    BY DEF QueueInv, TypeOK
  <2>2. ASSUME NEW w \in Workers, Write(w) PROVE reflected'[i] >= reflected[i]
    BY <2>2, WriteNewer DEF SingleInv
  <2>3. CASE reflected' = reflected
    BY <2>1, <2>3
  <2> QED
    BY <2>2, <2>3 DEF Next, vars, SessionStep, TimePasses, WorkerStep, BeginChange, Enqueue,
       CommitChange, RollbackChange, DebounceElapses, MaxWaitElapses, Poll, LockBatch, Load,
       Finish, Fail, AbortBatch, Crash
<1> QED
  BY SingleInit, <1>1, <1>2, QueueInvariant, PTL DEF Spec, ScheduleNeverOlder
=============================================================================
