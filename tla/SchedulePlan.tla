---------------------------- MODULE SchedulePlan ----------------------------
(* The life of one user's schedule plans in ptm_schedule: rows of             *)
(* schedule_plans, read outside the transaction that writes them.             *)
(*                                                                            *)
(* Every operation reads its plans on a connection of the pool and only       *)
(* writes on its transaction, and UpdatePlan saves the whole row as it was    *)
(* read.  A session is one request, Kafka handler or cleanup goroutine; its   *)
(* rows are locked from the write to the commit and seen after it (READ       *)
(* COMMITTED), and a second writer waits and then overwrites.                 *)
EXTENDS Integers, FiniteSets, PlanStatus

CONSTANTS
    Sessions,
    Ops,            \* the operations clients issue
    Algorithms,     \* "HYBRID": of a quick reschedule and of strategy AUTO
    MaxArchivedPlans,
    MaxPlans,       \* bound: ids the sequence of the table gives out
    MaxFaults,      \* bound: failed statements and crashes
    None

AllOps == {"apply", "discard", "revert", "reschedule", "optimize", "create", "get",
           "task_created", "task_changed"}
PlanIds == 1 .. MaxPlans
PlanRow == [status : PlanStatuses \cup {"ABSENT"},
            parent : PlanIds \cup {0},         \* 0: none
            algo : Algorithms,
            old : BOOLEAN]                     \* updated_at is past the retention
ReadRow == [id : PlanIds \cup {0}, row : PlanRow]     \* of a plan to insert: its parent

ASSUME OpsAssumption == Ops \subseteq AllOps /\ "HYBRID" \in Algorithms
ASSUME BoundAssumption == MaxArchivedPlans \in Nat /\ MaxPlans \in Nat /\ MaxFaults \in Nat
ASSUME NoneAssumption == None \notin PlanRow /\ None \notin ReadRow

VARIABLES
    plan,       \* committed rows
    nextId,     \* the sequence
    pc,
    op,         \* the operation a session runs
    mine,       \* the plan it is about, as read
    current,    \* the active plan, as read
    staged,     \* rows written and not committed
    todo,       \* plans the cleanup has yet to delete
    faults,
    swallowed   \* failures among them that the code does not look at

vars == <<plan, nextId, pc, op, mine, current, staged, todo, faults, swallowed>>

Absent == [status |-> "ABSENT", parent |-> 0, algo |-> "HYBRID", old |-> FALSE]
NewPlan(status, parent, algo) ==
    [status |-> status, parent |-> parent, algo |-> algo, old |-> FALSE]
NothingStaged == [p \in PlanIds |-> None]

Exists(p) == plan[p].status # "ABSENT"
WithStatus(status) == {p \in PlanIds : plan[p].status = status}
ActivePlans == WithStatus("ACTIVE")
Read(p) == [id |-> p, row |-> plan[p]]
Saved(row, status) == [row EXCEPT !.status = status, !.old = FALSE]

\* GetActivePlanByUserID: First, the lowest id of the ACTIVE rows.
IsFirstActive(p) == p \in ActivePlans /\ \A q \in ActivePlans : p <= q
\* GetLatestProposedPlanByUserID: the highest id, the default order.
IsLatestProposed(p) == /\ p \in WithStatus("PROPOSED")
                       /\ \A q \in WithStatus("PROPOSED") : q <= p

\* Bound: an id is left for every session about to insert, and one more.
Inserting == {h \in Sessions : pc[h] \in {"revert", "check", "clone", "insert", "draft"}}
Room == nextId + Cardinality(Inserting) <= MaxPlans

Locked(h, p) == \E g \in Sessions \ {h} : staged[g][p] # None

-----------------------------------------------------------------------------
Init ==
    /\ plan = [p \in PlanIds |-> Absent]
    /\ nextId = 1
    /\ pc = [h \in Sessions |-> "idle"]
    /\ op = [h \in Sessions |-> "get"]
    /\ mine = [h \in Sessions |-> None]
    /\ current = [h \in Sessions |-> None]
    /\ staged = [h \in Sessions |-> NothingStaged]
    /\ todo = [h \in Sessions |-> {}]
    /\ faults = 0
    /\ swallowed = 0

Goto(h, label) == pc' = [pc EXCEPT ![h] = label]

Start(h, o, label) ==
    /\ pc[h] = "idle" /\ o \in Ops
    /\ op' = [op EXCEPT ![h] = o]
    /\ Goto(h, label)

\* A request returns, its locals are gone.
Return(h) ==
    /\ Goto(h, "idle")
    /\ mine' = [mine EXCEPT ![h] = None]
    /\ current' = [current EXCEPT ![h] = None]
    /\ staged' = [staged EXCEPT ![h] = NothingStaged]
    /\ todo' = [todo EXCEPT ![h] = {}]
    /\ op' = [op EXCEPT ![h] = "get"]

\* UpdatePlan in a transaction.
Stage(h, p, row) ==
    /\ ~Locked(h, p)
    /\ staged' = [staged EXCEPT ![h][p] = row]

\* CreatePlan in a transaction.
StageNew(h, row) ==
    /\ staged' = [staged EXCEPT ![h][nextId] = row]
    /\ nextId' = nextId + 1

Commit(h) ==
    /\ pc[h] = "commit"
    /\ plan' = [p \in PlanIds |-> IF staged[h][p] # None THEN staged[h][p] ELSE plan[p]]
    /\ staged' = [staged EXCEPT ![h] = NothingStaged]
    /\ mine' = [mine EXCEPT ![h] = None]
    /\ current' = [current EXCEPT ![h] = None]
    /\ Goto(h, IF op[h] = "apply" THEN "cleanup" ELSE "idle")
    /\ op' = [op EXCEPT ![h] = "get"]
    /\ UNCHANGED <<nextId, todo, faults, swallowed>>

\* A statement of the session fails, or the process dies: what it has not
\* committed is rolled back, and nothing takes up an operation left half done.
Abort(h) ==
    /\ pc[h] # "idle" /\ faults < MaxFaults
    /\ faults' = faults + 1
    /\ Return(h)
    /\ UNCHANGED <<plan, nextId, swallowed>>

(* Two applies may each hold the row the other one waits for, the only rows   *)
(* locked in no particular order: PostgreSQL breaks the cycle.                *)
DeadlockVictim(h) ==
    /\ \E C \in SUBSET Sessions :
         /\ h \in C
         /\ \A g \in C : /\ pc[g] = "activate"
                         /\ \E k \in C \ {g} : staged[k][mine[g].id] # None
    /\ Return(h)
    /\ UNCHANGED <<plan, nextId, faults, swallowed>>

-----------------------------------------------------------------------------
\* ApplyProposedPlan checks the status before the transaction, then ApplyPlan
\* reads the plan again.
ApplyCheck(h, p) ==
    /\ Start(h, "apply", "candidate")
    /\ plan[p].status = "PROPOSED"
    /\ mine' = [mine EXCEPT ![h] = Read(p)]
    /\ UNCHANGED <<plan, nextId, current, staged, todo, faults, swallowed>>

ReadCandidate(h) ==
    /\ pc[h] = "candidate"
    /\ IF Exists(mine[h].id)
         THEN /\ mine' = [mine EXCEPT ![h] = Read(mine[h].id)]
              /\ Goto(h, "active")
              /\ UNCHANGED <<op, current, staged, todo>>
         ELSE Return(h)
    /\ UNCHANGED <<plan, nextId, faults, swallowed>>

\* An apply goes on to activate its candidate, a revert has inserted its plan.
AfterArchive(h) == IF op[h] = "apply" THEN "activate" ELSE "commit"

(* The active plan as read on another connection: it does not see the plan    *)
(* this transaction has inserted.                                             *)
ReadActive(h) ==
    /\ pc[h] = "active"
    /\ \/ /\ ActivePlans = {}
          /\ Goto(h, AfterArchive(h))
          /\ UNCHANGED current
       \/ \E p \in PlanIds :
            /\ IsFirstActive(p)
            /\ current' = [current EXCEPT ![h] = Read(p)]
            /\ Goto(h, IF op[h] = "apply" /\ p = mine[h].id THEN "commit" ELSE "archive")
    /\ UNCHANGED <<plan, nextId, op, mine, staged, todo, faults, swallowed>>

(* A revert goes on without an active plan when the read fails.  It is not a  *)
(* statement of the transaction, which commits.                               *)
ReadActiveFails(h) ==
    /\ pc[h] = "active" /\ op[h] = "revert" /\ faults < MaxFaults
    /\ faults' = faults + 1
    /\ swallowed' = swallowed + 1
    /\ Goto(h, "commit")
    /\ UNCHANGED <<plan, nextId, op, mine, current, staged, todo>>

\* Mutant: the archived plan is not saved.
ArchiveUnsaved(h) ==
    /\ pc[h] = "archive"
    /\ Goto(h, AfterArchive(h))
    /\ UNCHANGED <<plan, nextId, op, mine, current, staged, todo, faults, swallowed>>

Archive(h) ==
    /\ pc[h] = "archive"
    /\ CanTransitionTo(current[h].row.status, "ARCHIVED")
    /\ Stage(h, current[h].id, Saved(current[h].row, "ARCHIVED"))
    /\ Goto(h, AfterArchive(h))
    /\ UNCHANGED <<plan, nextId, op, mine, current, todo, faults, swallowed>>

\* Mutant: the parent is the candidate, not the plan it replaces.
ActivatedOfItself(h) == [Saved(mine[h].row, "ACTIVE") EXCEPT !.parent = mine[h].id]

Activated(h) ==
    LET row == Saved(mine[h].row, "ACTIVE")
    IN  IF current[h] = None THEN row ELSE [row EXCEPT !.parent = current[h].id]

\* Mutant: an apply that cannot activate its plan commits what it has done.
ActivateOrCommit(h) ==
    /\ pc[h] = "activate"
    /\ IF CanTransitionTo(mine[h].row.status, "ACTIVE")
         THEN Stage(h, mine[h].id, Activated(h))
         ELSE UNCHANGED staged
    /\ Goto(h, "commit")
    /\ UNCHANGED <<plan, nextId, op, mine, current, todo, faults, swallowed>>

Activate(h) ==
    /\ pc[h] = "activate"
    /\ \/ /\ CanTransitionTo(mine[h].row.status, "ACTIVE")
          /\ Stage(h, mine[h].id, Activated(h))
          /\ Goto(h, "commit")
          /\ UNCHANGED <<op, mine, current, todo>>
       \/ /\ ~CanTransitionTo(mine[h].row.status, "ACTIVE")
          /\ Return(h)
    /\ UNCHANGED <<plan, nextId, faults, swallowed>>

-----------------------------------------------------------------------------
\* Mutant: any plan is discarded.
DiscardAny(h, p) ==
    /\ Start(h, "discard", "discard")
    /\ Exists(p)
    /\ mine' = [mine EXCEPT ![h] = Read(p)]
    /\ UNCHANGED <<plan, nextId, current, staged, todo, faults, swallowed>>

DiscardRead(h, p) ==
    /\ Start(h, "discard", "discard")
    /\ CanTransitionTo(plan[p].status, "DISCARDED")
    /\ mine' = [mine EXCEPT ![h] = Read(p)]
    /\ UNCHANGED <<plan, nextId, current, staged, todo, faults, swallowed>>

DiscardWrite(h) ==
    /\ pc[h] = "discard"
    /\ Stage(h, mine[h].id, Saved(mine[h].row, "DISCARDED"))
    /\ Goto(h, "commit")
    /\ UNCHANGED <<plan, nextId, op, mine, current, todo, faults, swallowed>>

RevertRead(h, p) ==
    /\ Start(h, "revert", "revert") /\ Room
    /\ plan[p].status = "ARCHIVED"
    /\ mine' = [mine EXCEPT ![h] = Read(p)]
    /\ UNCHANGED <<plan, nextId, current, staged, todo, faults, swallowed>>

\* Mutant: a revert takes the archived plan itself back into use.
RevertInPlace(h) ==
    /\ pc[h] = "revert"
    /\ Stage(h, mine[h].id, Saved(mine[h].row, "ACTIVE"))
    /\ Goto(h, "active")
    /\ UNCHANGED <<plan, nextId, op, mine, current, todo, faults, swallowed>>

RevertInsert(h) ==
    /\ pc[h] = "revert"
    /\ StageNew(h, NewPlan("ACTIVE", mine[h].id, mine[h].row.algo))
    /\ Goto(h, "active")
    /\ UNCHANGED <<plan, op, mine, current, todo, faults, swallowed>>

-----------------------------------------------------------------------------
\* executeOptimization: no transaction spans it.  "reschedule" is the quick one of
\* TriggerReschedule, "optimize" a deep one or the fallback chain.
OptimizeRead(h, algo) ==
    /\ \/ Start(h, "reschedule", "check") /\ algo = "HYBRID"
       \/ Start(h, "optimize", "check")
    /\ Room
    /\ \E p \in PlanIds :
         /\ IsFirstActive(p)
         /\ mine' = [mine EXCEPT ![h] = [id |-> p, row |-> NewPlan("DRAFT", p, algo)]]
    /\ UNCHANGED <<plan, nextId, current, staged, todo, faults, swallowed>>

\* Mutant: every optimization looks at the latest proposal only.
LatestProposed(o, algo) ==
    \E p \in PlanIds : IsLatestProposed(p) /\ (o = "reschedule" \/ plan[p].algo = algo)

\* A quick reschedule is refused beside any proposal, the others beside one of
\* their algorithm.
AlreadyProposed(o, algo) ==
    \E p \in WithStatus("PROPOSED") : o = "reschedule" \/ plan[p].algo = algo

OptimizeCheck(h) ==
    /\ pc[h] = "check"
    /\ IF AlreadyProposed(op[h], mine[h].row.algo)
         THEN Return(h)
         ELSE Goto(h, "clone") /\ UNCHANGED <<op, mine, current, staged, todo>>
    /\ UNCHANGED <<plan, nextId, faults, swallowed>>

\* The transaction that inserts the plan and clones the tasks and the events.
OptimizeClone(h) ==
    /\ pc[h] = "clone"
    /\ plan' = [plan EXCEPT ![nextId] = mine[h].row]
    /\ mine' = [mine EXCEPT ![h].id = nextId]
    /\ nextId' = nextId + 1
    /\ Goto(h, "start")
    /\ UNCHANGED <<op, current, staged, todo, faults, swallowed>>

\* StartOptimization saves the row the clone returned, committed at once.
OptimizeStart(h) ==
    /\ pc[h] = "start" /\ ~Locked(h, mine[h].id)
    /\ plan' = [plan EXCEPT ![mine[h].id] = Saved(mine[h].row, "PROCESSING")]
    /\ mine' = [mine EXCEPT ![h].row.status = "PROCESSING"]
    /\ Goto(h, "run")
    /\ UNCHANGED <<nextId, op, current, staged, todo, faults, swallowed>>

\* Mutant: the error of the solver is returned, the plan not marked FAILED.
OptimizeEndUnmarked(h) ==
    /\ pc[h] = "run" /\ ~Locked(h, mine[h].id)
    /\ \/ plan' = [plan EXCEPT ![mine[h].id] = Saved(mine[h].row, "PROPOSED")]
       \/ UNCHANGED plan
    /\ Return(h)
    /\ UNCHANGED <<nextId, faults, swallowed>>

\* CompleteOptimization or FailOptimization, whatever the solver says.
OptimizeEnd(h) ==
    /\ pc[h] = "run" /\ ~Locked(h, mine[h].id)
    /\ \E status \in {"PROPOSED", "FAILED"} :
         plan' = [plan EXCEPT ![mine[h].id] = Saved(mine[h].row, status)]
    /\ Return(h)
    /\ UNCHANGED <<nextId, faults, swallowed>>

-----------------------------------------------------------------------------
\* GetOrCreateActivePlan, for GET and for a created task.  The handlers of the
\* other task events fail when there is no active plan.
ActiveForTask(h, o) ==
    /\ Start(h, o, CASE ActivePlans = {} -> "insert"
                      [] o = "get" -> "commit"
                      [] OTHER -> "proposed")
    /\ o \in {"get", "task_created", "task_changed"}
    /\ ActivePlans = {} => o # "task_changed" /\ Room
    /\ UNCHANGED <<plan, nextId, mine, current, staged, todo, faults, swallowed>>

InsertActive(h) ==
    /\ pc[h] = "insert"
    /\ StageNew(h, NewPlan("ACTIVE", 0, "HYBRID"))
    /\ Goto(h, IF op[h] = "get" THEN "commit" ELSE "proposed")
    /\ UNCHANGED <<plan, op, mine, current, todo, faults, swallowed>>

\* MarkProposedPlanAsStale reads the latest proposed plan, an error of which is
\* only logged ...
ReadProposed(h) ==
    /\ pc[h] = "proposed"
    /\ \/ /\ WithStatus("PROPOSED") = {}
          /\ Goto(h, "commit") /\ UNCHANGED <<mine, faults>>
       \/ \E p \in PlanIds :
            /\ IsLatestProposed(p)
            /\ mine' = [mine EXCEPT ![h] = Read(p)]
            /\ Goto(h, "mark") /\ UNCHANGED faults
       \/ /\ faults < MaxFaults /\ faults' = faults + 1
          /\ Goto(h, "commit") /\ UNCHANGED mine
    /\ UNCHANGED <<plan, nextId, op, current, staged, todo, swallowed>>

\* ... and saves it with is_stale set, status and all.
MarkStale(h) ==
    /\ pc[h] = "mark"
    /\ Stage(h, mine[h].id, Saved(mine[h].row, mine[h].row.status))
    /\ Goto(h, "commit")
    /\ UNCHANGED <<plan, nextId, op, mine, current, todo, faults, swallowed>>

\* The draft's parent is the active plan, if there is one and the read, whose
\* error nobody looks at, finds it.
DraftRead(h, algo) ==
    /\ Start(h, "create", "draft") /\ Room
    /\ \E parent \in PlanIds \cup {0} :
         /\ \/ IsFirstActive(parent) /\ UNCHANGED faults
            \/ parent = 0 /\ ActivePlans = {} /\ UNCHANGED faults
            \/ parent = 0 /\ faults < MaxFaults /\ faults' = faults + 1
         /\ mine' = [mine EXCEPT ![h] =
              [id |-> parent, row |-> NewPlan("DRAFT", parent, algo)]]
    /\ UNCHANGED <<plan, nextId, current, staged, todo, swallowed>>

DraftInsert(h) ==
    /\ pc[h] = "draft"
    /\ StageNew(h, mine[h].row)
    /\ Goto(h, "commit")
    /\ UNCHANGED <<plan, op, mine, current, todo, faults, swallowed>>

-----------------------------------------------------------------------------
(* CleanupOldPlans, the goroutine an apply leaves behind: lists the expired   *)
(* discarded plans and deletes them, then the expired archived plans beyond   *)
(* the newest MaxArchivedPlans, each in a transaction of its own.             *)
ListDiscarded(h) ==
    /\ pc[h] = "cleanup"
    /\ todo' = [todo EXCEPT ![h] = {p \in WithStatus("DISCARDED") : plan[p].old}]
    /\ Goto(h, "discarded")
    /\ UNCHANGED <<plan, nextId, op, mine, current, staged, faults, swallowed>>

NewerArchived(p) == {q \in WithStatus("ARCHIVED") : q > p}

ListArchived(h) ==
    /\ pc[h] = "discarded" /\ todo[h] = {}
    /\ todo' = [todo EXCEPT ![h] =
         {p \in WithStatus("ARCHIVED") :
             plan[p].old /\ Cardinality(NewerArchived(p)) >= MaxArchivedPlans}]
    /\ Goto(h, "archived")
    /\ UNCHANGED <<plan, nextId, op, mine, current, staged, faults, swallowed>>

\* Mutant: a deleted plan keeps its row, under a status the code does not know.
SoftDeletePlan(h) ==
    /\ pc[h] \in {"discarded", "archived"}
    /\ \E p \in todo[h] :
         /\ plan' = [plan EXCEPT ![p].status = "DELETED"]
         /\ todo' = [todo EXCEPT ![h] = @ \ {p}]
    /\ UNCHANGED <<nextId, pc, op, mine, current, staged, faults, swallowed>>

\* A plan that cannot be deleted is passed over.
DeletePlan(h) ==
    /\ pc[h] \in {"discarded", "archived"}
    /\ \E p \in todo[h] :
         /\ \A q \in todo[h] : q <= p
         /\ \/ /\ ~Locked(h, p)
               /\ plan' = [plan EXCEPT ![p] = Absent] /\ UNCHANGED faults
            \/ /\ faults < MaxFaults /\ faults' = faults + 1
               /\ UNCHANGED plan
         /\ todo' = [todo EXCEPT ![h] = @ \ {p}]
    /\ UNCHANGED <<nextId, pc, op, mine, current, staged, swallowed>>

CleanupEnd(h) ==
    /\ pc[h] = "archived" /\ todo[h] = {}
    /\ Return(h)
    /\ UNCHANGED <<plan, nextId, faults, swallowed>>

\* Days without a request: no operation lasts that long.
RetentionElapses ==
    /\ \A h \in Sessions : pc[h] = "idle"
    /\ plan' = [p \in PlanIds |->
         [plan[p] EXCEPT !.old = plan[p].status \in {"ARCHIVED", "DISCARDED"}]]
    /\ UNCHANGED <<nextId, pc, op, mine, current, staged, todo, faults, swallowed>>

-----------------------------------------------------------------------------
Apply(h) == ReadCandidate(h) \/ ReadActive(h) \/ ReadActiveFails(h) \/ Archive(h)
              \/ Activate(h)
Optimize(h) == OptimizeCheck(h) \/ OptimizeClone(h) \/ OptimizeStart(h) \/ OptimizeEnd(h)
TaskEvent(h) == InsertActive(h) \/ ReadProposed(h) \/ MarkStale(h)
Cleanup(h) == ListDiscarded(h) \/ ListArchived(h) \/ DeletePlan(h) \/ CleanupEnd(h)

Request(h) ==
    \/ \E p \in PlanIds : ApplyCheck(h, p) \/ DiscardRead(h, p) \/ RevertRead(h, p)
    \/ \E algo \in Algorithms : OptimizeRead(h, algo) \/ DraftRead(h, algo)
    \/ \E o \in Ops : ActiveForTask(h, o)
    \/ Apply(h) \/ DiscardWrite(h) \/ RevertInsert(h) \/ Optimize(h)
    \/ DraftInsert(h) \/ TaskEvent(h) \/ Cleanup(h) \/ Commit(h) \/ Abort(h) \/ DeadlockVictim(h)

Next == (\E h \in Sessions : Request(h)) \/ RetentionElapses

Spec == Init /\ [][Next]_vars

-----------------------------------------------------------------------------
(* The type invariant of the plans and of the requests in progress.           *)
TypeOK ==
    /\ plan \in [PlanIds -> PlanRow]
    /\ nextId \in 1 .. MaxPlans + 1
    /\ pc \in [Sessions -> {"idle", "candidate", "active", "archive", "activate", "commit",
                            "discard", "revert", "check", "clone", "start", "run", "insert",
                            "draft", "proposed", "mark", "cleanup", "discarded", "archived"}]
    /\ op \in [Sessions -> AllOps]
    /\ mine \in [Sessions -> ReadRow \cup {None}]
    /\ current \in [Sessions -> ReadRow \cup {None}]
    /\ staged \in [Sessions -> [PlanIds -> PlanRow \cup {None}]]
    /\ todo \in [Sessions -> SUBSET PlanIds]
    /\ faults \in 0 .. MaxFaults
    /\ swallowed \in 0 .. faults

\* The requests of a user come one after the other.
SingleSession == \A g, h \in Sessions : g = h

(* A user has one active plan, when the requests come one after the other:    *)
(* whatever fails on the way, a second one costs a read error that            *)
(* RevertToPlan throws away.  (ApplyPlan, RevertToPlan)                       *)
AtMostOneActive == Cardinality(ActivePlans) <= 1 + swallowed

(* The plans as PlanHistory sees them.                                        *)
History == INSTANCE PlanHistory WITH
    Plans <- PlanIds,
    plan <- [p \in PlanIds |-> [status |-> plan[p].status, parent |-> plan[p].parent,
                                algo |-> plan[p].algo]],
    lost <- swallowed

(* With one request at a time every operation acts at once, on the plans as   *)
(* they are when it commits: what it read earlier, from other connections and *)
(* in earlier transactions, still holds, and whatever fails leaves nothing    *)
(* half done.  The parent of an applied plan is the one it archives, a draft  *)
(* is made of the plan in use, a proposal is the only one of its algorithm.   *)
(* (ApplyPlan, RevertToPlan, DiscardPlan, executeOptimization)                *)
PlanFollowsHistory == History!Spec

(* With one request at a time a stored status only changes as CanTransitionTo *)
(* allows, although nothing but the callers' memory is ever checked.          *)
(* (TransitionTo, UpdatePlan)                                                 *)
StatusFollowsTable ==
    [][\A p \in PlanIds :
          Exists(p) /\ Exists(p)' /\ plan'[p].status # plan[p].status
            => CanTransitionTo(plan[p].status, plan'[p].status)]_vars

(* With one request at a time no two proposals of one algorithm wait for the  *)
(* user, whichever of the optimizations made them and whatever fails between  *)
(* their statements.  (checkExistingProposedPlan)                             *)
OneProposalPerAlgorithm ==
    \A p, q \in WithStatus("PROPOSED") : p # q => plan[p].algo # plan[q].algo

(* The history of a plan ends: following the parents never comes back, though *)
(* an apply rewrites the parent of a plan that others may have been made of.  *)
(* (ApplyPlan, CreateNextVersion)                                             *)
LineageAcyclic ==
    \A S \in (SUBSET {p \in PlanIds : Exists(p)}) \ {{}} : \E p \in S : plan[p].parent \notin S

\* The save of a row whose status has changed since it was read.
StaleSave(h) ==
    /\ pc[h] = "commit" /\ op[h] \in {"discard", "task_created", "task_changed"}
    /\ mine[h] # None /\ plan[mine[h].id].status # mine[h].row.status

(* Whatever requests run side by side, a user with an active plan keeps one:  *)
(* only a discard or a MarkProposedPlanAsStale that saves a row it read       *)
(* before an apply takes it away.  (ApplyPlan, RevertToPlan, CleanupOldPlans) *)
ActiveNeverVanishes ==
    [][ActivePlans # {} /\ ActivePlans' = {} => \E h \in Sessions : StaleSave(h)]_vars

(* The cleanup, which deletes what it listed a while ago, deletes no plan     *)
(* that came back to life.  (CleanupOldPlans)                                 *)
DeleteOnlyDead ==
    [][\A p \in PlanIds : Exists(p) /\ ~Exists(p)'
          => plan[p].old /\ plan[p].status \in {"ARCHIVED", "DISCARDED"}]_vars

(* A plan is left in PROCESSING, which nothing ever takes it out of, only by  *)
(* a failure between its start and its end: no other request puts it back     *)
(* there.  (executeOptimization)                                              *)
OrphanIsFault ==
    Cardinality({p \in WithStatus("PROCESSING") :
        ~\E h \in Sessions : pc[h] = "run" /\ mine[h].id = p}) <= faults

(* schedule_plan.go of the enum: "Terminal States - Không thể đổi đi đâu được *)
(* nữa" (they cannot change to anything any more).                            *)
TerminalIsFinal ==
    [][\A p \in PlanIds : Exists(p)' /\ plan[p].status \in TerminalStatuses
          => plan'[p].status = plan[p].status]_vars
=============================================================================
