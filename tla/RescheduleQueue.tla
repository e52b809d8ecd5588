--------------------------- MODULE RescheduleQueue ---------------------------
(* The reschedule queue of ptm_schedule and the worker that drains it.         *)
(*                                                                            *)
(* A change to a task or an event is written by a database transaction that   *)
(* also upserts a row of reschedule_queues, unique per (plan, trigger,        *)
(* entity).  A worker of every process polls the plans that have ready rows,  *)
(* locks a plan's rows FOR UPDATE SKIP LOCKED, computes a schedule and marks  *)
(* them COMPLETED or FAILED.  The schedule is read and written on OTHER       *)
(* connections than the one that holds the row locks: applyChanges is called  *)
(* with a nil transaction, so each of its statements commits on its own.      *)
(*                                                                            *)
(* An Item is a value of the unique index.  changes[i] counts the committed   *)
(* changes that asked for item i to be rescheduled, reflected[i] how many of  *)
(* them the schedule last written for the plan has taken into account.        *)
EXTENDS Integers, FiniteSets, FiniteSetsExt

CONSTANTS
    Procs,            \* replicas of the service, one RescheduleWorker each
    Plans,
    Items,            \* keys of the unique index idx_queue_upsert
    PlanOf,           \* [Items -> Plans]
    TriggerOf,        \* [Items -> Triggers]
    TaskOf,           \* the schedule task an item is about
    RowsOf,           \* the task and event rows the change of an item updates
    Sessions,         \* connections running a Kafka handler or an HTTP request
    MaxPlansPerPoll,
    MaxChanges,       \* bound: changes of one item
    MaxFaults         \* bound: failed batches, rollbacks and crashes together

Triggers == {"MANUAL_DRAG", "EVENT_SPLIT", "EVENT_COMPLETE", "EVENT_SKIP",
             "CONSTRAINT_CHANGE", "TASK_ADDED", "TASK_DELETED",
             "AVAILABILITY_CHANGE"}
TaskTriggers == {"CONSTRAINT_CHANGE", "TASK_ADDED", "TASK_DELETED"}

ASSUME ItemAssumption ==
    /\ PlanOf \in [Items -> Plans]
    /\ TriggerOf \in [Items -> Triggers]
    /\ \A i \in Items : i \in DOMAIN TaskOf /\ i \in DOMAIN RowsOf /\ RowsOf[i] # {}
ASSUME BoundAssumption ==
    MaxPlansPerPoll \in Nat /\ MaxChanges \in Nat /\ MaxFaults \in Nat

\* Mutant: a poll starts a second goroutine for a plan in work.
TwoPerPlan == Procs \X Plans \X {"first", "second"}

\* At most one goroutine per process and plan: `processing` holds the plans whose
\* pc is not "idle".
Workers == Procs \X Plans

VARIABLES
    row,        \* committed queue rows: [status, quiet, waited]
    changes,
    reflected,
    session,    \* [pc, item, effect] of each connection
    pc,         \* control of processSinglePlan, per worker and plan
    batch,      \* the rows it holds locked
    seen,       \* changes as loadScheduleData read it
    touch,      \* task and event rows applyChanges is going to update
    faults

vars == <<row, changes, reflected, session, pc, batch, seen, touch, faults>>

QueueStatuses == {"NONE", "PENDING", "COMPLETED", "FAILED"}
Rows == UNION {RowsOf[i] : i \in Items}
IdleSession == [pc |-> "idle"]
SessionStates ==
    {IdleSession}
      \cup [pc : {"wrote"}, item : Items]
      \cup [pc : {"queued"}, item : Items, effect : {"insert", "refresh", "drop"}]

-----------------------------------------------------------------------------
(* A TASK_ADDED or TASK_DELETED key is used by one change: the entity id is   *)
(* that of a row which is created once and deleted once.                      *)
OneShot(i) == TriggerOf[i] \in {"TASK_ADDED", "TASK_DELETED"}

\* The rows the database holds: added and not deleted.
Exists(r) == \A i \in Items : r \in RowsOf[i] =>
                 /\ TriggerOf[i] = "TASK_ADDED" => changes[i] > 0
                 /\ TriggerOf[i] = "TASK_DELETED" => changes[i] = 0

RowHeld(r) == \E h \in Sessions : session[h].pc # "idle" /\ r \in RowsOf[session[h].item]

QueuedBy(h, i) == session[h].pc = "queued" /\ session[h].item = i

\* A queue row is locked by the worker that fetched it, or by the upsert of a
\* transaction still open, whatever the upsert did.
QueueLocked(i) == \/ \E w \in Workers : i \in batch[w]
                  \/ \E h \in Sessions : QueuedBy(h, i)

Ready(i) == row[i].status = "PENDING" /\ (row[i].quiet \/ row[i].waited)

DirtyPlans == {PlanOf[i] : i \in {j \in Items : Ready(j)}}

DetermineStrategy(b) ==
    IF \E i \in b : TriggerOf[i] = "AVAILABILITY_CHANGE" THEN "FULL_REPLAN"
    ELSE IF \E i \in b : TriggerOf[i] \in TaskTriggers THEN "INSERTION"
    ELSE "RIPPLE"

\* The tasks a batch names: task rows do, and the event rows whose payload
\* carries scheduleTaskID.  The payloads of a split and of a skip do not.
NamesTask(i) == TriggerOf[i] \in TaskTriggers \cup {"MANUAL_DRAG", "EVENT_COMPLETE"}
AffectedTasks(b) == {TaskOf[i] : i \in {j \in b : NamesTask(j)}}

\* The items whose tasks a run of the scheduler places again: all those of the
\* plan, unless it inserts the tasks the batch names and it names some.
Rescheduled(p, b) ==
    {i \in Items : /\ PlanOf[i] = p
                   /\ \/ DetermineStrategy(b) # "INSERTION"
                      \/ AffectedTasks(b) = {}
                      \/ TaskOf[i] \in AffectedTasks(b)}

-----------------------------------------------------------------------------
Init ==
    /\ row = [i \in Items |-> [status |-> "NONE", quiet |-> FALSE, waited |-> FALSE]]
    /\ changes = [i \in Items |-> 0]
    /\ reflected = [i \in Items |-> 0]
    /\ session = [h \in Sessions |-> IdleSession]
    /\ pc = [w \in Workers |-> "idle"]
    /\ batch = [w \in Workers |-> {}]
    /\ seen = [w \in Workers |-> [i \in Items |-> 0]]
    /\ touch = [w \in Workers |-> {}]
    /\ faults = 0

workerVars == <<pc, batch, seen, touch>>

(* A handler's transaction writes the task and event rows of the change and   *)
(* keeps them locked.  Two changes of one row wait for each other here.       *)
BeginChange(h, i) ==
    /\ session[h].pc = "idle"
    /\ changes[i] < (IF OneShot(i) THEN 1 ELSE MaxChanges)
    /\ \A r \in RowsOf[i] :
          /\ ~RowHeld(r)
          /\ TriggerOf[i] # "TASK_ADDED" => Exists(r)
    /\ session' = [session EXCEPT ![h] = [pc |-> "wrote", item |-> i]]
    /\ UNCHANGED <<row, changes, reflected, workerVars, faults>>

\* ON CONFLICT DO UPDATE ... WHERE status = 'PENDING': any other row is left as
\* it is, and the statement succeeds.
UpsertEffect(status) ==
    CASE status = "NONE" -> "insert"
      [] status = "PENDING" -> "refresh"
      [] OTHER -> "drop"

(* The upsert waits for the row lock first, then looks at the status the      *)
(* holder left.                                                               *)
Enqueue(h) ==
    /\ session[h].pc = "wrote"
    /\ LET i == session[h].item IN
         /\ ~QueueLocked(i)
         /\ session' = [session EXCEPT ![h] =
              [pc |-> "queued", item |-> i, effect |-> UpsertEffect(row[i].status)]]
    /\ UNCHANGED <<row, changes, reflected, workerVars, faults>>

\* A refreshed row keeps its first_created_at.
Upserted(r, effect) ==
    CASE effect = "insert" -> [status |-> "PENDING", quiet |-> FALSE, waited |-> FALSE]
      [] effect = "refresh" -> [r EXCEPT !.quiet = FALSE]
      [] OTHER -> r

CommitChange(h) ==
    /\ session[h].pc = "queued"
    /\ LET i == session[h].item IN
         /\ row' = [row EXCEPT ![i] = Upserted(@, session[h].effect)]
         /\ changes' = [changes EXCEPT ![i] = @ + 1]
    /\ session' = [session EXCEPT ![h] = IdleSession]
    /\ UNCHANGED <<reflected, workerVars, faults>>

RollbackChange(h) ==
    /\ session[h].pc # "idle" /\ faults < MaxFaults
    /\ session' = [session EXCEPT ![h] = IdleSession]
    /\ faults' = faults + 1
    /\ UNCHANGED <<row, changes, reflected, workerVars>>

-----------------------------------------------------------------------------
\* debounce_until passes, 300 ms after the last upsert of the row.
DebounceElapses(i) ==
    /\ row[i].status = "PENDING" /\ ~row[i].quiet
    /\ row' = [row EXCEPT ![i].quiet = TRUE]
    /\ UNCHANGED <<changes, reflected, session, workerVars, faults>>

\* MaxDebounceWait passes, 2 s after the row was first created.
MaxWaitElapses(i) ==
    /\ row[i].status = "PENDING" /\ ~row[i].waited
    /\ row' = [row EXCEPT ![i].waited = TRUE]
    /\ UNCHANGED <<changes, reflected, session, workerVars, faults>>

(* GetDirtyPlanIDs has a LIMIT and no ORDER BY: any plans within the limit.   *)
(* A plan still in `processing` is skipped, and has used up its place.        *)
Poll(p) ==
    \E S \in SUBSET DirtyPlans :
        /\ Cardinality(S) = Min({MaxPlansPerPoll, Cardinality(DirtyPlans)})
        /\ pc' = [w \in Workers |->
                    IF w[1] = p /\ w[2] \in S /\ pc[w] = "idle" THEN "spawned" ELSE pc[w]]
        /\ UNCHANGED <<row, changes, reflected, session, batch, seen, touch, faults>>

\* Mutant: PROCESSING committed on its own, before the batch is done.
LockBatchCommitted(w) ==
    /\ pc[w] = "spawned"
    /\ LET fetched == {i \in Items : PlanOf[i] = w[2] /\ Ready(i) /\ ~QueueLocked(i)} IN
         /\ batch' = [batch EXCEPT ![w] = fetched]
         /\ pc' = [pc EXCEPT ![w] = IF fetched = {} THEN "idle" ELSE "locked"]
         /\ row' = [i \in Items |->
               IF i \in fetched THEN [row[i] EXCEPT !.status = "PROCESSING"] ELSE row[i]]
    /\ UNCHANGED <<changes, reflected, session, seen, touch, faults>>

(* FetchAndLockBatch skips the rows another transaction holds.  MarkProcessing *)
(* writes PROCESSING inside the transaction that later overwrites it: no other *)
(* one ever sees that status.                                                  *)
LockBatch(w) ==
    /\ pc[w] = "spawned"
    /\ LET fetched == {i \in Items : PlanOf[i] = w[2] /\ Ready(i) /\ ~QueueLocked(i)} IN
         /\ batch' = [batch EXCEPT ![w] = fetched]
         /\ pc' = [pc EXCEPT ![w] = IF fetched = {} THEN "idle" ELSE "locked"]
    /\ UNCHANGED <<row, changes, reflected, session, seen, touch, faults>>

(* loadScheduleData reads what is committed, then the scheduler decides which *)
(* of the rows it was given have to be written: any of them, for all we know. *)
Load(w) ==
    /\ pc[w] = "locked"
    /\ \E t \in SUBSET {r \in Rows : Exists(r)} :
         /\ \A r \in t : \E i \in Items : PlanOf[i] = w[2] /\ r \in RowsOf[i]
         /\ touch' = [touch EXCEPT ![w] = t]
    /\ seen' = [seen EXCEPT ![w] = changes]
    /\ pc' = [pc EXCEPT ![w] = "loaded"]
    /\ UNCHANGED <<row, changes, reflected, session, batch, faults>>

(* applyChanges: the new events, then the task statuses, outside the worker's *)
(* transaction.  It waits for a row a handler has written and not committed,  *)
(* while the worker goes on holding its queue rows.                           *)
Write(w) ==
    /\ pc[w] = "loaded"
    /\ \A r \in touch[w] : ~RowHeld(r)
    /\ reflected' = [i \in Items |->
          IF i \in Rescheduled(w[2], batch[w]) THEN seen[w][i] ELSE reflected[i]]
    /\ pc' = [pc EXCEPT ![w] = "written"]
    /\ UNCHANGED <<row, changes, session, batch, seen, touch, faults>>

\* Nothing asks again whether the debounce time of a settled row has passed.
Settled(status, b) ==
    [i \in Items |-> IF i \in b THEN [status |-> status, quiet |-> TRUE, waited |-> TRUE]
                     ELSE row[i]]

\* The goroutines of W end: their locals are gone and `processing` is cleared.
Idle(W) ==
    /\ pc' = [w \in Workers |-> IF w \in W THEN "idle" ELSE pc[w]]
    /\ batch' = [w \in Workers |-> IF w \in W THEN {} ELSE batch[w]]
    /\ seen' = [w \in Workers |-> IF w \in W THEN [i \in Items |-> 0] ELSE seen[w]]
    /\ touch' = [w \in Workers |-> IF w \in W THEN {} ELSE touch[w]]
    /\ UNCHANGED <<changes, session>>

Finish(w) ==
    /\ pc[w] = "written"
    /\ row' = Settled("COMPLETED", batch[w])
    /\ Idle({w})
    /\ UNCHANGED <<reflected, faults>>

\* Mutant: the error of Execute is not looked at.
FailCompleted(w) ==
    /\ pc[w] \in {"locked", "loaded"} /\ faults < MaxFaults
    /\ row' = Settled("COMPLETED", batch[w])
    /\ faults' = faults + 1
    /\ Idle({w})
    /\ UNCHANGED reflected

\* Execute returns an error: handleFailure, and the transaction still commits.
Fail(w) ==
    /\ pc[w] \in {"locked", "loaded"} /\ faults < MaxFaults
    /\ row' = Settled("FAILED", batch[w])
    /\ faults' = faults + 1
    /\ Idle({w})
    /\ UNCHANGED reflected

\* A statement on the queue fails, handleFailure's included, or the commit: the
\* rows are as they were, a schedule stays written.
AbortBatch(w) ==
    /\ pc[w] # "idle" /\ faults < MaxFaults
    /\ faults' = faults + 1
    /\ Idle({w})
    /\ UNCHANGED <<row, reflected>>

\* Process p dies with what its workers had not committed (the transactions of
\* its handlers: RollbackChange).  `processing` is memory.
Crash(p) ==
    /\ faults < MaxFaults /\ \E w \in Workers : w[1] = p /\ pc[w] # "idle"
    /\ faults' = faults + 1
    /\ Idle({w \in Workers : w[1] = p})
    /\ UNCHANGED <<row, reflected>>

SessionStep(h) == Enqueue(h) \/ CommitChange(h)
WorkerStep(w) == LockBatch(w) \/ Load(w) \/ Write(w) \/ Finish(w)
TimePasses(i) == DebounceElapses(i) \/ MaxWaitElapses(i)

Next ==
    \/ \E h \in Sessions : \/ \E i \in Items : BeginChange(h, i)
                           \/ SessionStep(h) \/ RollbackChange(h)
    \/ \E i \in Items : TimePasses(i)
    \/ \E w \in Workers : WorkerStep(w) \/ Fail(w) \/ AbortBatch(w)
    \/ \E p \in Procs : Poll(p) \/ Crash(p)

Spec == Init /\ [][Next]_vars

(* A connection that can go on does, and one that waits for a lock gets it    *)
(* when it is free again and again: PostgreSQL queues the waiters.  The clock *)
(* and the ticker go on.  No change has to be made and nothing has to fail.   *)
Fairness ==
    /\ \A h \in Sessions : SF_vars(Enqueue(h)) /\ WF_vars(CommitChange(h))
    /\ \A i \in Items : WF_vars(DebounceElapses(i)) /\ WF_vars(MaxWaitElapses(i))
    /\ \A w \in Workers : /\ WF_vars(LockBatch(w)) /\ WF_vars(Load(w))
                          /\ SF_vars(Write(w)) /\ WF_vars(Finish(w))
    /\ \A p \in Procs : WF_vars(Poll(p))

FairSpec == Spec /\ Fairness

-----------------------------------------------------------------------------
(* The type invariant of the queue and of the worker of every process.        *)
TypeOK ==
    /\ row \in [Items -> [status : QueueStatuses, quiet : BOOLEAN, waited : BOOLEAN]]
    /\ changes \in [Items -> Nat]
    /\ reflected \in [Items -> Nat]
    /\ session \in [Sessions -> SessionStates]
    /\ pc \in [Workers -> {"idle", "spawned", "locked", "loaded", "written"}]
    /\ batch \in [Workers -> SUBSET Items]
    /\ seen \in [Workers -> [Items -> Nat]]
    /\ touch \in [Workers -> SUBSET Rows]
    /\ faults \in Nat

(* A queue row is processed by one worker at a time, over all the replicas,   *)
(* and nobody changes it meanwhile: it is still PENDING for everybody else,   *)
(* so a worker that dies leaves it to be fetched again.  (FetchAndLockBatch)  *)
BatchExclusive ==
    \A w \in Workers : \A i \in batch[w] :
        /\ row[i].status = "PENDING"
        /\ \A v \in Workers : i \in batch[v] => v = w
        /\ \A h \in Sessions : ~QueuedBy(h, i)

SingleReplica == \A p, q \in Procs : p = q

(* An added or deleted task that the plan's schedule does not take into       *)
(* account yet is waiting in the queue or has failed for good: with a single  *)
(* replica, no failure, crash or late handler loses it.  (processSinglePlan,  *)
(* Upsert; README.md: "Process queued reschedule requests".)                  *)
OneShotCovered ==
    \A i \in Items : OneShot(i) /\ changes[i] > reflected[i]
                       => row[i].status \in {"PENDING", "FAILED"}

(* A plan's schedule is never replaced by one computed from older data: the   *)
(* runs for one plan follow each other, with a single replica.                *)
(* (processing.LoadOrStore; loadScheduleData and applyChanges)                *)
ScheduleNeverOlder ==
    [][\A i \in Items : reflected'[i] >= reflected[i]]_vars

(* OneShotCovered for every trigger, as README.md says of ptm.task.updated    *)
(* ("Update metadata, queue reschedule").  The code drops the trigger when the row of  *)
(* an earlier change of the same entity was processed.                        *)
ChangeCovered ==
    \A i \in Items : changes[i] > reflected[i] => row[i].status \in {"PENDING", "FAILED"}

(* An added or deleted task ends in the schedule, or its row in FAILED.       *)
(* (Poll, processSinglePlan)                                                  *)
OneShotScheduled ==
    \A i \in Items : (OneShot(i) /\ changes[i] > 0)
                       ~> (reflected[i] > 0 \/ row[i].status = "FAILED")

(* README.md of the worker: "Process queued reschedule requests with          *)
(* debouncing": a pending row is processed.                                   *)
PendingProcessed ==
    \A i \in Items : row[i].status = "PENDING" ~> row[i].status # "PENDING"
=============================================================================
