------------------------ MODULE SchedulePlan_proofs ------------------------
(* What holds of SchedulePlan for any sessions, plans and bounds: its types,  *)
(* and what requests that overwrite each other still guarantee.               *)
EXTENDS SchedulePlan, FiniteSetTheorems, TLAPS

-----------------------------------------------------------------------------
(* The invariant, part one: the locals of a request fit the statement it is   *)
(* about to run.                                                              *)

\* An id of the sequence is left for whoever is about to insert.
RoomLeft == IsFiniteSet(Inserting) /\ nextId + Cardinality(Inserting) <= MaxPlans + 1

HoldsMine == {"candidate", "active", "archive", "activate", "discard", "revert", "check",
              "clone", "start", "run", "draft", "mark"}
Resting == {"idle", "cleanup", "discarded", "archived"}
TaskOps == {"task_created", "task_changed"}

OpFits(h) ==
    /\ pc[h] \in Resting => op[h] = "get"
    /\ pc[h] \in {"candidate", "activate"} => op[h] = "apply"
    /\ pc[h] \in {"active", "archive"} => op[h] \in {"apply", "revert"}
    /\ pc[h] = "discard" => op[h] = "discard"
    /\ pc[h] = "revert" => op[h] = "revert"
    /\ pc[h] \in {"check", "clone", "start", "run"} => op[h] \in {"reschedule", "optimize"}
    /\ pc[h] = "draft" => op[h] = "create"
    /\ pc[h] = "insert" => op[h] \in {"get", "task_created"}
    /\ pc[h] \in {"proposed", "mark"} => op[h] \in TaskOps
    /\ pc[h] = "commit" => op[h] \notin {"reschedule", "optimize"}

MineFits(h) ==
    /\ pc[h] \in HoldsMine => mine[h] # None
    /\ pc[h] \in HoldsMine \ {"draft"} => mine[h].id \in PlanIds
    /\ pc[h] \in Resting \cup {"insert", "proposed"} => mine[h] = None
    /\ op[h] \in {"apply", "discard", "revert", "reschedule", "optimize", "create"} =>
         mine[h] # None
    /\ pc[h] = "archive" => current[h] # None
    /\ pc[h] \in Resting => current[h] = None
    /\ current[h] # None => current[h].id \in PlanIds

RowFits(h) ==
    /\ pc[h] \in {"check", "clone", "draft"} =>
         mine[h].row.status = "DRAFT" /\ ~mine[h].row.old
    /\ pc[h] = "start" => mine[h].row.status = "DRAFT"
    /\ pc[h] = "run" => mine[h].row.status = "PROCESSING"
    /\ pc[h] = "mark" => mine[h].row.status = "PROPOSED"
    /\ op[h] = "discard" => mine[h].row.status \in {"DRAFT", "PROPOSED", "FAILED"}

StagedFits(h) ==
    \A p \in PlanIds : staged[h][p] # None =>
        /\ staged[h][p].status \in {"ACTIVE", "ARCHIVED", "DISCARDED", "PROPOSED", "DRAFT"}
        /\ ~staged[h][p].old
        /\ pc[h] \notin Resting

LocalFits(h) == OpFits(h) /\ MineFits(h) /\ RowFits(h) /\ StagedFits(h)

TypeInv == TypeOK /\ RoomLeft /\ \A h \in Sessions : LocalFits(h)

-----------------------------------------------------------------------------
(* Part two: who may still save which plan.                                   *)
Mine(h, p) == mine[h] # None /\ mine[h].id = p
Current(h, p) == current[h] # None /\ current[h].id = p
\* A revert only clones the plan it is about.
Reading(h, p) == Current(h, p) \/ (Mine(h, p) /\ op[h] # "revert")
Untouched(p) == \A h \in Sessions : ~Reading(h, p) /\ staged[h][p] = None

\* The sequence hands every id out once.
IdInv == \A p \in PlanIds : p >= nextId =>
    ~Exists(p) /\ \A h \in Sessions :
        ~Mine(h, p) /\ ~Current(h, p) /\ staged[h][p] = None

\* An expired plan is dead and nobody is about to save it ...
OldInv == \A p \in PlanIds : plan[p].old =>
    p < nextId /\ plan[p].status \in {"ARCHIVED", "DISCARDED"} /\ Untouched(p)

\* ... which is still so when the cleanup deletes it, unless it is gone already.
TodoInv == \A h \in Sessions : \A p \in todo[h] :
    p < nextId /\ (plan[p].old \/ ~Exists(p)) /\ Untouched(p)

\* A plan that does not exist is inserted by one transaction at most.
AbsentInv == \A p \in PlanIds : ~Exists(p) => \A h \in Sessions :
    ~Reading(h, p) /\ \A g \in Sessions : staged[g][p] # None /\ staged[h][p] # None => g = h

\* The plan of a running optimization can only be discarded by others.
OwnedInv == \A h \in Sessions : pc[h] \in {"start", "run"} =>
    \A p \in PlanIds : Mine(h, p) =>
        /\ plan[p].status \in {"DRAFT", "PROCESSING", "DISCARDED"}
        /\ \A g \in Sessions \ {h} : Mine(g, p) => op[g] = "discard"
        /\ \A g \in Sessions : ~Current(g, p)
        /\ \A g \in Sessions : staged[g][p] # None => staged[g][p].status = "DISCARDED"

\* What a transaction is about to commit leaves an active plan.
StagesActive(h) == \E p \in PlanIds : staged[h][p] # None /\ staged[h][p].status = "ACTIVE"
CommitFits(h) ==
    /\ op[h] = "get" => \A p \in PlanIds : staged[h][p] # None => staged[h][p].status = "ACTIVE"
    /\ op[h] = "create" => \A p \in PlanIds : staged[h][p] # None => ~Exists(p)
    /\ op[h] = "discard" => \A p \in PlanIds : staged[h][p] # None => Mine(h, p)
    /\ op[h] \in TaskOps => \A p \in PlanIds : staged[h][p] # None =>
         staged[h][p].status = "ACTIVE" \/ (Mine(h, p) /\ mine[h].row.status = "PROPOSED")
    /\ op[h] = "apply" /\ pc[h] \in {"candidate", "active"} => staged[h] = NothingStaged
    /\ op[h] = "apply" /\ pc[h] = "commit" => staged[h] = NothingStaged \/ StagesActive(h)
    /\ op[h] = "revert" /\ pc[h] = "active" => \E p \in PlanIds :
         staged[h][p] # None /\ staged[h][p].status = "ACTIVE" /\ ~Exists(p)
    /\ op[h] = "revert" /\ pc[h] = "archive" => \E p \in PlanIds :
         staged[h][p] # None /\ staged[h][p].status = "ACTIVE" /\ ~Current(h, p)
    /\ op[h] = "revert" /\ pc[h] = "commit" => StagesActive(h)

SharedInv == IdInv /\ OldInv /\ TodoInv /\ AbsentInv
CommitInv == OwnedInv /\ \A h \in Sessions : CommitFits(h)

-----------------------------------------------------------------------------
(* A request changes nothing of another one.                                  *)
Kept(g) ==
    /\ pc'[g] = pc[g] /\ op'[g] = op[g]
    /\ mine'[g] = mine[g] /\ current'[g] = current[g]
    /\ staged'[g] = staged[g] /\ todo'[g] = todo[g]

LEMMA OthersKept ==
    ASSUME TypeOK, NEW h \in Sessions, Request(h), NEW g \in Sessions, g # h
    PROVE  Kept(g)
<1> USE DEF Kept, Goto, Start, Return, Stage, StageNew
<1>0. /\ DOMAIN pc = Sessions /\ DOMAIN op = Sessions /\ DOMAIN mine = Sessions
      /\ DOMAIN current = Sessions /\ DOMAIN staged = Sessions /\ DOMAIN todo = Sessions
  BY DEF TypeOK
<1>1. ASSUME NEW p \in PlanIds, ApplyCheck(h, p) \/ DiscardRead(h, p) \/ RevertRead(h, p)
      PROVE  Kept(g)
  BY <1>0, <1>1 DEF ApplyCheck, DiscardRead, RevertRead
<1>2. ASSUME NEW algo \in Algorithms, OptimizeRead(h, algo) \/ DraftRead(h, algo)
      PROVE  Kept(g)
  BY <1>0, <1>2 DEF OptimizeRead, DraftRead
<1>3. ASSUME NEW o \in Ops, ActiveForTask(h, o)
      PROVE  Kept(g)
  BY <1>0, <1>3 DEF ActiveForTask
<1>4. CASE Apply(h)
  <2>1. CASE ReadCandidate(h) BY <1>0, <2>1 DEF ReadCandidate
  <2>2. CASE ReadActive(h) BY <1>0, <2>2 DEF ReadActive
  <2>3. CASE ReadActiveFails(h) BY <1>0, <2>3 DEF ReadActiveFails
  <2>4. CASE Archive(h) BY <1>0, <2>4 DEF Archive
  <2>5. CASE Activate(h) BY <1>0, <2>5 DEF Activate
  <2> QED BY <1>4, <2>1, <2>2, <2>3, <2>4, <2>5 DEF Apply
<1>5. CASE Optimize(h)
  BY <1>0, <1>5 DEF Optimize, OptimizeCheck, OptimizeClone, OptimizeStart, OptimizeEnd
<1>6. CASE TaskEvent(h)
  BY <1>0, <1>6 DEF TaskEvent, InsertActive, ReadProposed, MarkStale
<1>7. CASE Cleanup(h)
  BY <1>0, <1>7 DEF Cleanup, ListDiscarded, ListArchived, DeletePlan, CleanupEnd
<1>8. CASE DiscardWrite(h) \/ RevertInsert(h) \/ DraftInsert(h)
  BY <1>0, <1>8 DEF DiscardWrite, RevertInsert, DraftInsert
<1>9. CASE Commit(h) \/ Abort(h) \/ DeadlockVictim(h)
  BY <1>0, <1>9 DEF Commit, Abort, DeadlockVictim
<1> QED
  BY <1>1, <1>2, <1>3, <1>4, <1>5, <1>6, <1>7, <1>8, <1>9 DEF Request

\* ... nor do the ids that are left, and the locals of the others fit on.
LEMMA OthersFit ==
    ASSUME NEW g \in Sessions, Kept(g), LocalFits(g), nextId \in Nat, nextId' \in Nat,
           nextId' >= nextId
    PROVE  LocalFits(g)'
BY DEF Kept, LocalFits, OpFits, MineFits, RowFits, StagedFits, PlanIds

-----------------------------------------------------------------------------
(* What one step of a request may do, whatever the request is.                *)

\* It takes up a plan it has read, none but the one it had, or inserted it.
FindsPlan(h, p) ==
    \/ plan[p].status \in {"PROPOSED", "ACTIVE"}
    \/ plan[p].status = "ARCHIVED" /\ op'[h] = "revert"
    \/ plan[p].status \in {"DRAFT", "FAILED"} /\ op'[h] = "discard"
TakesMine(h) == \A p \in PlanIds : Mine(h, p)' =>
    \/ Mine(h, p) /\ op'[h] = op[h]
    \/ UNCHANGED <<plan, nextId, staged>> /\ FindsPlan(h, p)
    \/ p = nextId /\ nextId' = nextId + 1 /\ UNCHANGED staged /\ plan'[p].status = "DRAFT"
TakesCurrent(h) == \A p \in PlanIds : Current(h, p)' =>
    Current(h, p) \/ (UNCHANGED <<plan, nextId, staged>> /\ plan[p].status = "ACTIVE")

\* It stages a plan it is reading, or a new one.
Stages(h) == \A p \in PlanIds : staged'[h][p] # None =>
    \/ staged'[h][p] = staged[h][p]
    \/ /\ UNCHANGED <<plan, nextId, mine, current, op>> /\ Reading(h, p)
       /\ op[h] = "discard" => staged'[h][p].status = "DISCARDED"
    \/ p = nextId /\ nextId' = nextId + 1 /\ UNCHANGED <<plan, mine, current, op>>

\* It changes the plans it commits, inserts, optimizes or deletes.
Writes(h) == \A p \in PlanIds :
    \/ plan'[p] = plan[p]
    \/ pc[h] = "commit" /\ staged[h][p] # None /\ plan'[p] = staged[h][p] /\ UNCHANGED nextId
    \/ /\ pc[h] = "clone" /\ p = nextId /\ nextId' = nextId + 1
       /\ plan'[p].status = "DRAFT" /\ ~plan'[p].old
    \/ /\ pc[h] \in {"start", "run"} /\ Mine(h, p) /\ UNCHANGED nextId
       /\ ~plan'[p].old
       /\ \/ plan'[p].status = "PROCESSING" /\ pc'[h] = "run" /\ Mine(h, p)'
          \/ plan'[p].status \in {"PROPOSED", "FAILED"} /\ pc'[h] = "idle" /\ pc[h] = "run"
    \/ p \in todo[h] /\ plan'[p] = Absent /\ UNCHANGED <<nextId, staged, mine, current, op, pc>>

\* It takes a place of the sequence when it is given one.
InsertAt == {"revert", "check", "clone", "insert", "draft"}
Inserts(h) ==
    /\ pc'[h] \in InsertAt => pc[h] \in InsertAt \/ Room
    /\ \/ UNCHANGED nextId
       \/ nextId' = nextId + 1 /\ pc[h] \in InsertAt /\ pc'[h] \notin InsertAt

Todo(h) == \A p \in todo'[h] : p \in todo[h] \/ (UNCHANGED <<plan, staged, mine, current, op>> /\ plan[p].old)

Effect(h) == TakesMine(h) /\ TakesCurrent(h) /\ Stages(h) /\ Writes(h) /\ Inserts(h) /\ Todo(h)

LEMMA RequestEffect ==
    ASSUME TypeOK, NEW h \in Sessions, LocalFits(h), Request(h)
    PROVE  Effect(h)
<1> USE DEF Effect, TakesMine, TakesCurrent, Stages, Writes, Inserts, Todo, FindsPlan, Mine,
            Current, Reading, Goto, Start, Return, Stage, StageNew, NothingStaged, InsertAt,
            Read, Saved, NewPlan
<1>0. /\ DOMAIN pc = Sessions /\ DOMAIN op = Sessions /\ DOMAIN mine = Sessions
      /\ DOMAIN current = Sessions /\ DOMAIN staged = Sessions /\ DOMAIN todo = Sessions
      /\ DOMAIN plan = PlanIds /\ staged[h] \in [PlanIds -> PlanRow \cup {None}]
      /\ plan \in [PlanIds -> PlanRow] /\ nextId \in Nat
      /\ mine[h] \in ReadRow \cup {None}
      /\ current[h] \in ReadRow \cup {None}
      /\ None \notin ReadRow
      /\ todo[h] \in SUBSET PlanIds
  BY NoneAssumption DEF TypeOK, PlanIds
<1>1. ASSUME NEW p \in PlanIds, ApplyCheck(h, p) \/ DiscardRead(h, p) \/ RevertRead(h, p)
      PROVE  Effect(h)
  BY <1>0, <1>1 DEF ApplyCheck, DiscardRead, RevertRead, CanTransitionTo, Transitions
<1>2. ASSUME NEW algo \in Algorithms, OptimizeRead(h, algo) \/ DraftRead(h, algo)
      PROVE  Effect(h)
  <2>1. CASE OptimizeRead(h, algo)
    BY <1>0, <2>1 DEF OptimizeRead, IsFirstActive, ActivePlans, WithStatus
  <2>2. CASE DraftRead(h, algo)
    BY <1>0, <2>2 DEF DraftRead, IsFirstActive, ActivePlans, WithStatus, PlanIds
  <2> QED BY <1>2, <2>1, <2>2
<1>3. ASSUME NEW o \in Ops, ActiveForTask(h, o)
      PROVE  Effect(h)
  BY <1>0, <1>3 DEF ActiveForTask, LocalFits, MineFits, Resting
<1>4. CASE Apply(h)
  <2>1. CASE ReadCandidate(h) BY <1>0, <2>1 DEF ReadCandidate, LocalFits, MineFits, HoldsMine
  <2>2. CASE ReadActive(h) BY <1>0, <2>2 DEF ReadActive, AfterArchive, IsFirstActive, ActivePlans, WithStatus
  <2>3. CASE ReadActiveFails(h) BY <1>0, <2>3 DEF ReadActiveFails
  <2>4. CASE Archive(h) BY <1>0, <2>4 DEF Archive, AfterArchive, LocalFits, MineFits, OpFits
  <2>5. CASE Activate(h) BY <1>0, <2>5 DEF Activate, Activated, LocalFits, MineFits, OpFits, HoldsMine
  <2> QED BY <1>4, <2>1, <2>2, <2>3, <2>4, <2>5 DEF Apply
<1>5. CASE Optimize(h)
  <2>1. CASE OptimizeCheck(h) BY <1>0, <2>1 DEF OptimizeCheck
  <2>2. CASE OptimizeClone(h) BY <1>0, <2>2 DEF OptimizeClone, LocalFits, MineFits, RowFits, HoldsMine
  <2>3. CASE OptimizeStart(h)
    <3>1. mine[h] \in ReadRow /\ mine[h].row \in PlanRow
      BY <1>0, <2>3 DEF OptimizeStart, LocalFits, MineFits, HoldsMine, ReadRow
    <3>2. /\ Saved(mine[h].row, "PROCESSING").status = "PROCESSING"
          /\ ~Saved(mine[h].row, "PROCESSING").old
      BY <3>1 DEF PlanRow
    <3>3. mine'[h].id = mine[h].id /\ mine'[h] # None
      BY <1>0, <2>3, <3>1 DEF OptimizeStart, ReadRow, PlanRow, PlanStatuses
    <3> HIDE DEF Saved
    <3>4. \A p \in PlanIds : Mine(h, p)' <=> Mine(h, p)
      BY <3>1, <3>3, <1>0
    <3>5. TakesMine(h) /\ TakesCurrent(h) /\ Stages(h) /\ Inserts(h) /\ Todo(h)
      BY <1>0, <2>3, <3>4 DEF OptimizeStart
    <3>6. Writes(h)
      BY <1>0, <2>3, <3>1, <3>2, <3>4 DEF OptimizeStart
    <3> QED BY <3>5, <3>6
  <2>4. CASE OptimizeEnd(h)
    BY <1>0, <2>4 DEF OptimizeEnd, LocalFits, MineFits, HoldsMine, ReadRow, PlanRow
  <2> QED BY <1>5, <2>1, <2>2, <2>3, <2>4 DEF Optimize
<1>6. CASE TaskEvent(h)
  <2>1. CASE InsertActive(h) BY <1>0, <2>1 DEF InsertActive
  <2>2. CASE ReadProposed(h) BY <1>0, <2>2 DEF ReadProposed, IsLatestProposed, WithStatus
  <2>3. CASE MarkStale(h) BY <1>0, <2>3 DEF MarkStale, LocalFits, MineFits, OpFits, HoldsMine, TaskOps
  <2> QED BY <1>6, <2>1, <2>2, <2>3 DEF TaskEvent
<1>7. CASE Cleanup(h)
  <2>1. CASE ListDiscarded(h) BY <1>0, <2>1 DEF ListDiscarded, WithStatus
  <2>2. CASE ListArchived(h) BY <1>0, <2>2 DEF ListArchived, WithStatus
  <2>3. CASE DeletePlan(h) BY <1>0, <2>3 DEF DeletePlan
  <2>4. CASE CleanupEnd(h) BY <1>0, <2>4 DEF CleanupEnd
  <2> QED BY <1>7, <2>1, <2>2, <2>3, <2>4 DEF Cleanup
<1>8. CASE DiscardWrite(h) \/ RevertInsert(h) \/ DraftInsert(h)
  <2>1. CASE DiscardWrite(h) BY <1>0, <2>1 DEF DiscardWrite, LocalFits, MineFits, OpFits, HoldsMine
  <2>2. CASE RevertInsert(h) BY <1>0, <2>2 DEF RevertInsert
  <2>3. CASE DraftInsert(h) BY <1>0, <2>3 DEF DraftInsert
  <2> QED BY <1>8, <2>1, <2>2, <2>3
<1>9. CASE Commit(h) \/ Abort(h) \/ DeadlockVictim(h)
  <2>1. CASE Commit(h) BY <1>0, <2>1 DEF Commit
  <2>2. CASE Abort(h) BY <1>0, <2>2 DEF Abort
  <2>3. CASE DeadlockVictim(h) BY <1>0, <2>3 DEF DeadlockVictim
  <2> QED BY <1>9, <2>1, <2>2, <2>3
<1> QED
  BY <1>1, <1>2, <1>3, <1>4, <1>5, <1>6, <1>7, <1>8, <1>9 DEF Request

-----------------------------------------------------------------------------
\* One insertion more takes one place of those that are left.
LEMMA RoomKept ==
    ASSUME TypeOK, RoomLeft, NEW h \in Sessions, Request(h), LocalFits(h)
    PROVE  RoomLeft' /\ nextId' \in Nat /\ nextId' \in 1 .. MaxPlans + 1 /\ nextId' >= nextId
<1>1. Inserts(h)
  BY RequestEffect DEF Effect
<1>2. \A g \in Sessions : g # h => pc'[g] = pc[g]
  BY OthersKept DEF Kept
<1>3. nextId \in Nat /\ nextId >= 1 /\ MaxPlans \in Nat
  BY BoundAssumption DEF TypeOK
<1>4. IsFiniteSet(Inserting) /\ Cardinality(Inserting) \in Nat
  BY FS_CardinalityType DEF RoomLeft
<1>5. CASE pc[h] \in InsertAt /\ pc'[h] \notin InsertAt
  <2>1. Inserting' = Inserting \ {h} /\ h \in Inserting
    BY <1>2, <1>5 DEF Inserting, InsertAt
  <2>2. IsFiniteSet(Inserting') /\ Cardinality(Inserting') = Cardinality(Inserting) - 1
    BY <1>4, <2>1, FS_RemoveElement
  <2>3. nextId' \in {nextId, nextId + 1} /\ Cardinality(Inserting') \in Nat
    BY <1>1, <2>2, FS_CardinalityType DEF Inserts
  <2> QED BY <1>3, <1>4, <2>2, <2>3 DEF RoomLeft
<1>6. CASE pc'[h] \in InsertAt /\ pc[h] \notin InsertAt
  <2>1. Inserting' = Inserting \cup {h} /\ h \notin Inserting /\ Room /\ nextId' = nextId
    BY <1>1, <1>2, <1>6 DEF Inserting, InsertAt, Inserts
  <2>2. IsFiniteSet(Inserting') /\ Cardinality(Inserting') = Cardinality(Inserting) + 1
    BY <1>4, <2>1, FS_AddElement
  <2> QED BY <1>3, <1>4, <2>1, <2>2 DEF RoomLeft, Room
<1>7. CASE (pc[h] \in InsertAt) = (pc'[h] \in InsertAt)
  <2>1. Inserting' = Inserting /\ nextId' = nextId
    BY <1>1, <1>2, <1>7 DEF Inserting, InsertAt, Inserts
  <2> QED BY <1>3, <1>4, <2>1 DEF RoomLeft
<1> QED
  BY <1>5, <1>6, <1>7

LEMMA TypeKept ==
    ASSUME TypeOK, RoomLeft, NEW h \in Sessions, LocalFits(h), Request(h)
    PROVE  TypeOK'
<1> USE DEF Goto, Start, Return, Stage, StageNew, NothingStaged
<1> DEFINE Labels == {"idle", "candidate", "active", "archive", "activate", "commit",
             "discard", "revert", "check", "clone", "start", "run", "insert", "draft",
             "proposed", "mark", "cleanup", "discarded", "archived"}
<1>0. /\ plan \in [PlanIds -> PlanRow] /\ nextId \in Nat
      /\ pc \in [Sessions -> Labels] /\ op \in [Sessions -> AllOps]
      /\ mine \in [Sessions -> ReadRow \cup {None}]
      /\ current \in [Sessions -> ReadRow \cup {None}]
      /\ staged \in [Sessions -> [PlanIds -> PlanRow \cup {None}]]
      /\ todo \in [Sessions -> SUBSET PlanIds]
      /\ faults \in 0 .. MaxFaults /\ swallowed \in 0 .. faults /\ MaxFaults \in Nat
      /\ faults \in Nat
  BY BoundAssumption DEF TypeOK
<1>1. nextId' \in 1 .. MaxPlans + 1
  BY RoomKept
<1>2. /\ Absent \in PlanRow
      /\ \A p \in PlanIds : Read(p) \in ReadRow
      /\ \A row \in PlanRow, s \in PlanStatuses : Saved(row, s) \in PlanRow
      /\ \A s \in PlanStatuses, p \in PlanIds \cup {0}, a \in Algorithms :
           /\ NewPlan(s, p, a) \in PlanRow
           /\ [id |-> p, row |-> NewPlan(s, p, a)] \in ReadRow
      /\ \A r \in ReadRow : r.row \in PlanRow /\ r.id \in PlanIds \cup {0}
  <2>1. Absent \in PlanRow
    BY OpsAssumption DEF Absent, PlanRow
  <2>2. \A p \in PlanIds : Read(p) \in ReadRow
    BY <1>0 DEF Read, ReadRow
  <2>3. \A row \in PlanRow, s \in PlanStatuses : Saved(row, s) \in PlanRow
    BY DEF Saved, PlanRow
  <2>4. ASSUME NEW s \in PlanStatuses, NEW p \in PlanIds \cup {0}, NEW a \in Algorithms
        PROVE  NewPlan(s, p, a) \in PlanRow /\ [id |-> p, row |-> NewPlan(s, p, a)] \in ReadRow
    BY DEF NewPlan, PlanRow, ReadRow
  <2>5. \A r \in ReadRow : r.row \in PlanRow /\ r.id \in PlanIds \cup {0}
    BY DEF ReadRow
  <2> QED BY <2>1, <2>2, <2>3, <2>4, <2>5
<1>3. "HYBRID" \in Algorithms /\ \A r \in PlanRow : r.algo \in Algorithms /\ r.status \in PlanStatuses \cup {"ABSENT"}
  BY OpsAssumption DEF PlanRow
<1>4. {"DRAFT", "PROCESSING", "PROPOSED", "ACTIVE", "ARCHIVED", "DISCARDED", "FAILED"} \subseteq PlanStatuses
  BY DEF PlanStatuses
<1>5. pc[h] \in HoldsMine => mine[h] \in ReadRow
  BY <1>0 DEF LocalFits, MineFits
<1>6. pc[h] = "archive" => current[h] \in ReadRow
  BY <1>0 DEF LocalFits, MineFits
<1> DEFINE T ==
       /\ plan' \in [PlanIds -> PlanRow]
       /\ pc' \in [Sessions -> Labels] /\ op' \in [Sessions -> AllOps]
       /\ mine' \in [Sessions -> ReadRow \cup {None}]
       /\ current' \in [Sessions -> ReadRow \cup {None}]
       /\ staged' \in [Sessions -> [PlanIds -> PlanRow \cup {None}]]
       /\ todo' \in [Sessions -> SUBSET PlanIds]
       /\ faults' \in 0 .. MaxFaults /\ swallowed' \in 0 .. faults'
<1> SUFFICES T
  BY <1>1 DEF TypeOK
<1>7. Return(h) =>
        /\ pc' \in [Sessions -> Labels] /\ op' \in [Sessions -> AllOps]
        /\ mine' \in [Sessions -> ReadRow \cup {None}]
        /\ current' \in [Sessions -> ReadRow \cup {None}]
        /\ staged' \in [Sessions -> [PlanIds -> PlanRow \cup {None}]]
        /\ todo' \in [Sessions -> SUBSET PlanIds]
  BY <1>0 DEF AllOps
<1> HIDE DEF Return
<1>10. ASSUME NEW p \in PlanIds, ApplyCheck(h, p) \/ DiscardRead(h, p) \/ RevertRead(h, p)
       PROVE  T
  <2>1. CASE ApplyCheck(h, p)
    BY <1>0, <1>2, <2>1 DEF ApplyCheck, AllOps
  <2>2. CASE DiscardRead(h, p)
    BY <1>0, <1>2, <2>2 DEF DiscardRead, AllOps
  <2>3. CASE RevertRead(h, p)
    BY <1>0, <1>2, <2>3 DEF RevertRead, AllOps
  <2> QED BY <1>10, <2>1, <2>2, <2>3
<1>11. ASSUME NEW algo \in Algorithms, OptimizeRead(h, algo) \/ DraftRead(h, algo)
       PROVE  T
  <2>1. CASE OptimizeRead(h, algo)
    <3>1. PICK o \in {"reschedule", "optimize"} : Start(h, o, "check")
      BY <2>1 DEF OptimizeRead
    <3>2. op' \in [Sessions -> AllOps] /\ pc' \in [Sessions -> Labels]
      BY <1>0, <1>2, <3>1 DEF AllOps
    <3>3. PICK p \in PlanIds :
            mine' = [mine EXCEPT ![h] = [id |-> p, row |-> NewPlan("DRAFT", p, algo)]]
      BY <2>1 DEF OptimizeRead
    <3>4. [id |-> p, row |-> NewPlan("DRAFT", p, algo)] \in ReadRow
      BY <1>2, <1>4, <3>3, <1>11
    <3> QED BY <1>0, <1>1, <2>1, <3>2, <3>3, <3>4 DEF OptimizeRead
  <2>2. CASE DraftRead(h, algo)
    <3>1. PICK parent \in PlanIds \cup {0} :
            /\ mine' = [mine EXCEPT ![h] =
                  [id |-> parent, row |-> NewPlan("DRAFT", parent, algo)]]
            /\ faults' = faults \/ (faults < MaxFaults /\ faults' = faults + 1)
      BY <2>2 DEF DraftRead
    <3>2. mine' \in [Sessions -> ReadRow \cup {None}]
      BY <1>0, <1>2, <1>4, <3>1
    <3>3. faults' \in 0 .. MaxFaults /\ swallowed' \in 0 .. faults'
      BY <1>0, <2>2, <3>1 DEF DraftRead
    <3> QED BY <1>0, <2>2, <3>2, <3>3 DEF DraftRead, AllOps
  <2> QED BY <1>11, <2>1, <2>2
<1>12. ASSUME NEW o \in Ops, ActiveForTask(h, o)
       PROVE  T
  BY <1>0, <1>12 DEF ActiveForTask, AllOps
<1>13. CASE Apply(h)
  <2>1. CASE ReadCandidate(h)
    <3>1. mine[h] \in ReadRow /\ (Exists(mine[h].id) => mine[h].id \in PlanIds)
      BY <1>0, <1>5, <2>1 DEF ReadCandidate, HoldsMine, LocalFits, MineFits
    <3>2. CASE Exists(mine[h].id)
      BY <1>0, <1>2, <2>1, <3>1, <3>2 DEF ReadCandidate
    <3>3. CASE ~Exists(mine[h].id)
      BY <1>0, <1>7, <2>1, <3>3 DEF ReadCandidate
    <3> QED BY <3>2, <3>3
  <2>2. CASE ReadActive(h) BY SMTT(30), <1>0, <1>2, <2>2 DEF ReadActive, AfterArchive
  <2>3. CASE ReadActiveFails(h) BY <1>0, <2>3 DEF ReadActiveFails
  <2>4. CASE Archive(h)
    <3>1. Saved(current[h].row, "ARCHIVED") \in PlanRow
      BY <1>2, <1>4, <1>6, <2>4 DEF Archive
    <3> QED BY <1>0, <2>4, <3>1 DEF Archive, AfterArchive
  <2>5. CASE Activate(h)
    <3>1. Activated(h) \in PlanRow
      <4>1. Saved(mine[h].row, "ACTIVE") \in PlanRow
        BY <1>2, <1>4, <1>5, <2>5 DEF Activate, HoldsMine
      <4>2. current[h] # None => current[h].id \in PlanIds \cup {0}
        BY <1>0, <1>2
      <4> QED BY <4>1, <4>2 DEF Activated, PlanRow
    <3>2. CASE CanTransitionTo(mine[h].row.status, "ACTIVE")
      <4>1. staged' = [staged EXCEPT ![h][mine[h].id] = Activated(h)]
        BY <2>5, <3>2 DEF Activate
      <4>2. staged' \in [Sessions -> [PlanIds -> PlanRow \cup {None}]]
        BY <1>0, <3>1, <4>1
      <4> QED BY <1>0, <2>5, <3>2, <4>2 DEF Activate
    <3>3. CASE ~CanTransitionTo(mine[h].row.status, "ACTIVE")
      BY <1>0, <1>7, <2>5, <3>3 DEF Activate
    <3> QED BY <3>2, <3>3
  <2> QED BY <1>13, <2>1, <2>2, <2>3, <2>4, <2>5 DEF Apply
<1>14. CASE Optimize(h)
  <2>0. mine[h] \in ReadRow /\ mine[h].row \in PlanRow
    BY <1>2, <1>5, <1>14
       DEF Optimize, OptimizeCheck, OptimizeClone, OptimizeStart, OptimizeEnd, HoldsMine
  <2>1. CASE OptimizeCheck(h)
    <3>1. CASE AlreadyProposed(op[h], mine[h].row.algo)
      BY <1>0, <1>7, <2>1, <3>1 DEF OptimizeCheck
    <3>2. CASE ~AlreadyProposed(op[h], mine[h].row.algo)
      BY <1>0, <2>1, <3>2 DEF OptimizeCheck
    <3> QED BY <3>1, <3>2
  <2>2. CASE OptimizeClone(h)
    <3>1. nextId \in PlanIds
      BY <1>0, <1>1, <2>2, BoundAssumption DEF OptimizeClone, PlanIds, TypeOK
    <3> QED BY <1>0, <2>0, <2>2, <3>1 DEF OptimizeClone, ReadRow
  <2>3. CASE OptimizeStart(h)
    <3>1. Saved(mine[h].row, "PROCESSING") \in PlanRow
      BY <1>2, <1>4, <2>0
    <3>2. [mine[h] EXCEPT !.row.status = "PROCESSING"] \in ReadRow
      BY <1>4, <2>0 DEF ReadRow, PlanRow
    <3> QED BY <1>0, <2>3, <3>1, <3>2 DEF OptimizeStart
  <2>4. CASE OptimizeEnd(h)
    <3>1. \A status \in {"PROPOSED", "FAILED"} : Saved(mine[h].row, status) \in PlanRow
      BY <1>2, <1>4, <2>0
    <3>2. plan' \in [PlanIds -> PlanRow]
      BY <1>0, <2>4, <3>1 DEF OptimizeEnd
    <3> QED BY <1>0, <1>7, <2>4, <3>2 DEF OptimizeEnd
  <2> QED BY <1>14, <2>1, <2>2, <2>3, <2>4 DEF Optimize
<1>15. CASE TaskEvent(h)
  <2>1. CASE InsertActive(h) BY <1>0, <1>2, <1>3, <1>4, <2>1 DEF InsertActive
  <2>2. CASE ReadProposed(h) BY <1>0, <1>2, <2>2 DEF ReadProposed
  <2>3. CASE MarkStale(h)
    <3>1. Saved(mine[h].row, mine[h].row.status) \in PlanRow
      BY <1>2, <1>4, <1>5, <2>3 DEF MarkStale, HoldsMine, LocalFits, RowFits
    <3> QED BY <1>0, <2>3, <3>1 DEF MarkStale
  <2> QED BY <1>15, <2>1, <2>2, <2>3 DEF TaskEvent
<1>16. CASE Cleanup(h)
  <2>1. CASE ListDiscarded(h) BY <1>0, <2>1 DEF ListDiscarded, WithStatus
  <2>2. CASE ListArchived(h) BY <1>0, <2>2 DEF ListArchived, WithStatus
  <2>3. CASE DeletePlan(h) BY <1>0, <1>2, <2>3 DEF DeletePlan
  <2>4. CASE CleanupEnd(h) BY <1>0, <1>7, <2>4 DEF CleanupEnd
  <2> QED BY <1>16, <2>1, <2>2, <2>3, <2>4 DEF Cleanup
<1>17. CASE DiscardWrite(h) \/ RevertInsert(h) \/ DraftInsert(h)
  <2>0. mine[h] \in ReadRow /\ mine[h].row \in PlanRow
    BY <1>2, <1>5, <1>17 DEF DiscardWrite, RevertInsert, DraftInsert, HoldsMine
  <2>1. CASE DiscardWrite(h)
    <3>1. Saved(mine[h].row, "DISCARDED") \in PlanRow
      BY <1>2, <1>4, <2>0
    <3> QED BY <1>0, <2>1, <3>1 DEF DiscardWrite
  <2>2. CASE RevertInsert(h) BY <1>0, <1>2, <1>3, <1>4, <2>0, <2>2 DEF RevertInsert
  <2>3. CASE DraftInsert(h) BY <1>0, <2>0, <2>3 DEF DraftInsert
  <2> QED BY <1>17, <2>1, <2>2, <2>3
<1>18. CASE Commit(h) \/ Abort(h) \/ DeadlockVictim(h)
  <2>1. CASE Commit(h) BY <1>0, <2>1 DEF Commit, AllOps
  <2>2. CASE Abort(h) BY <1>0, <1>7, <2>2 DEF Abort
  <2>3. CASE DeadlockVictim(h) BY <1>0, <1>7, <2>3 DEF DeadlockVictim
  <2> QED BY <1>18, <2>1, <2>2, <2>3
<1> QED
  BY <1>10, <1>11, <1>12, <1>13, <1>14, <1>15, <1>16, <1>17, <1>18 DEF Request

\* A request that has moved on still fits its next statement.
LEMMA LocalKept ==
    ASSUME TypeOK, TypeOK', NEW h \in Sessions, LocalFits(h), Request(h),
           nextId' \in Nat, nextId' >= nextId
    PROVE  LocalFits(h)'
<1> USE DEF LocalFits, OpFits, MineFits, RowFits, StagedFits, HoldsMine, Resting, TaskOps,
            Goto, Start, StageNew, Read, NewPlan
<1>0. /\ DOMAIN pc = Sessions /\ DOMAIN op = Sessions /\ DOMAIN mine = Sessions
      /\ DOMAIN current = Sessions /\ DOMAIN staged = Sessions
      /\ staged[h] \in [PlanIds -> PlanRow \cup {None}]
      /\ plan \in [PlanIds -> PlanRow] /\ nextId \in Nat
      /\ mine[h] \in ReadRow \cup {None} /\ None \notin ReadRow /\ None \notin PlanRow
  BY NoneAssumption DEF TypeOK
<1>1. /\ \A p \in PlanIds : Read(p) \in ReadRow
      /\ \A s \in PlanStatuses, p \in PlanIds \cup {0}, a \in Algorithms :
           [id |-> p, row |-> NewPlan(s, p, a)] \in ReadRow
  BY <1>0 DEF ReadRow, PlanRow
<1>2. \A row \in PlanRow, s \in PlanStatuses :
        Saved(row, s) \in PlanRow /\ Saved(row, s).status = s /\ ~Saved(row, s).old
  BY DEF Saved, PlanRow
<1>3. mine[h] # None => mine[h] \in ReadRow /\ mine[h].row \in PlanRow
  BY <1>0 DEF ReadRow
<1>4. {"DRAFT", "PROCESSING", "PROPOSED", "ACTIVE", "ARCHIVED", "DISCARDED", "FAILED"} \subseteq PlanStatuses
  BY DEF PlanStatuses
<1>5. Return(h) => LocalFits(h)'
  BY <1>0 DEF Return, NothingStaged
<1>6. ASSUME NEW p, NEW row, staged' = [staged EXCEPT ![h][p] = row],
             row.status \in {"ACTIVE", "ARCHIVED", "DISCARDED", "PROPOSED", "DRAFT"},
             ~row.old, pc'[h] \notin Resting
      PROVE  StagedFits(h)'
  BY <1>0, <1>6
<1>10. ASSUME NEW p \in PlanIds, ApplyCheck(h, p) \/ DiscardRead(h, p) \/ RevertRead(h, p)
       PROVE  LocalFits(h)'
  <2>1. CASE ApplyCheck(h, p) BY <1>0, <1>1, <2>1 DEF ApplyCheck
  <2>2. CASE DiscardRead(h, p) BY <1>0, <1>1, <2>2 DEF DiscardRead, CanTransitionTo, Transitions
  <2>3. CASE RevertRead(h, p) BY <1>0, <1>1, <2>3 DEF RevertRead
  <2> QED BY <1>10, <2>1, <2>2, <2>3
<1>11. ASSUME NEW algo \in Algorithms, OptimizeRead(h, algo) \/ DraftRead(h, algo)
       PROVE  LocalFits(h)'
  <2>1. CASE OptimizeRead(h, algo) BY <1>0, <1>1, <1>4, <2>1 DEF OptimizeRead
  <2>2. CASE DraftRead(h, algo) BY <1>0, <1>1, <1>4, <2>2 DEF DraftRead
  <2> QED BY <1>11, <2>1, <2>2
<1>12. ASSUME NEW o \in Ops, ActiveForTask(h, o)
       PROVE  LocalFits(h)'
  BY <1>0, <1>12 DEF ActiveForTask
<1>13. CASE Apply(h)
  <2>1. CASE ReadCandidate(h) BY <1>0, <1>1, <1>5, <2>1 DEF ReadCandidate
  <2>2. CASE ReadActive(h) BY <1>0, <1>1, <2>2 DEF ReadActive, AfterArchive
  <2>3. CASE ReadActiveFails(h) BY <1>0, <2>3 DEF ReadActiveFails
  <2>4. CASE Archive(h)
    <3>1. current[h] \in ReadRow /\ current[h].row \in PlanRow
      BY <2>4 DEF Archive, TypeOK, ReadRow
    <3>2. StagedFits(h)'
      BY ZenonT(60), <1>0, <1>2, <1>4, <1>6, <2>4, <3>1 DEF Archive, AfterArchive, Stage
    <3> QED BY <1>0, <2>4, <3>2 DEF Archive, AfterArchive
  <2>5. CASE Activate(h)
    <3>1. CASE Return(h) BY <1>5, <3>1
    <3>2. CASE ~Return(h)
      <4>1. mine[h].row \in PlanRow /\ Saved(mine[h].row, "ACTIVE") \in PlanRow
        BY <1>2, <1>3, <1>4, <2>5 DEF Activate
      <4>2. Activated(h).status = "ACTIVE" /\ ~Activated(h).old
        BY <1>2, <1>4, <4>1 DEF Activated, PlanRow
      <4>3. StagedFits(h)'
        BY <1>0, <1>6, <2>5, <3>2, <4>2 DEF Activate, Stage
      <4> QED BY <1>0, <2>5, <3>2, <4>3 DEF Activate
    <3> QED BY <3>1, <3>2
  <2> QED BY <1>13, <2>1, <2>2, <2>3, <2>4, <2>5 DEF Apply
<1>14. CASE Optimize(h)
  <2>1. CASE OptimizeCheck(h) BY <1>0, <1>5, <2>1 DEF OptimizeCheck
  <2>2. CASE OptimizeClone(h)
    <3>1. nextId \in PlanIds
      BY <2>2, BoundAssumption DEF OptimizeClone, PlanIds, TypeOK
    <3>2. [mine[h] EXCEPT !.id = nextId] \in ReadRow
            /\ [mine[h] EXCEPT !.id = nextId].id = nextId
            /\ [mine[h] EXCEPT !.id = nextId].row = mine[h].row
      BY <1>3, <2>2, <3>1 DEF OptimizeClone, ReadRow
    <3> QED BY <1>0, <2>2, <3>1, <3>2 DEF OptimizeClone
  <2>3. CASE OptimizeStart(h)
    <3>1. [mine[h] EXCEPT !.row.status = "PROCESSING"] \in ReadRow
            /\ [mine[h] EXCEPT !.row.status = "PROCESSING"].id = mine[h].id
            /\ [mine[h] EXCEPT !.row.status = "PROCESSING"].row.status = "PROCESSING"
      BY <1>3, <1>4, <2>3 DEF OptimizeStart, ReadRow, PlanRow
    <3> QED BY <1>0, <2>3, <3>1 DEF OptimizeStart
  <2>4. CASE OptimizeEnd(h) BY <1>5, <2>4 DEF OptimizeEnd
  <2> QED BY <1>14, <2>1, <2>2, <2>3, <2>4 DEF Optimize
<1>15. CASE TaskEvent(h)
  <2>1. CASE InsertActive(h)
    <3>1. StagedFits(h)'
      BY <1>0, <1>6, <2>1 DEF InsertActive
    <3> QED BY <1>0, <2>1, <3>1 DEF InsertActive
  <2>2. CASE ReadProposed(h) BY <1>0, <1>1, <2>2 DEF ReadProposed, IsLatestProposed, WithStatus
  <2>3. CASE MarkStale(h)
    <3>1. mine[h].row.status = "PROPOSED" /\ mine[h].row \in PlanRow
      BY <1>3, <2>3 DEF MarkStale
    <3>2. /\ Saved(mine[h].row, mine[h].row.status).status = "PROPOSED"
          /\ ~Saved(mine[h].row, mine[h].row.status).old
      BY ZenonT(60), <1>2, <1>4, <3>1
    <3>3. StagedFits(h)'
      BY <1>0, <1>6, <2>3, <3>2 DEF MarkStale, Stage
    <3> QED BY <1>0, <2>3, <3>3 DEF MarkStale
  <2> QED BY <1>15, <2>1, <2>2, <2>3 DEF TaskEvent
<1>16. CASE Cleanup(h)
  BY <1>0, <1>5, <1>16 DEF Cleanup, ListDiscarded, ListArchived, DeletePlan, CleanupEnd
<1>17. CASE DiscardWrite(h) \/ RevertInsert(h) \/ DraftInsert(h)
  <2>1. CASE DiscardWrite(h)
    <3>1. StagedFits(h)'
      BY ZenonT(60), <1>0, <1>2, <1>3, <1>4, <1>6, <2>1 DEF DiscardWrite, Stage
    <3> QED BY <1>0, <2>1, <3>1 DEF DiscardWrite
  <2>2. CASE RevertInsert(h)
    <3>1. StagedFits(h)'
      BY <1>0, <1>6, <2>2 DEF RevertInsert
    <3> QED BY <1>0, <2>2, <3>1 DEF RevertInsert
  <2>3. CASE DraftInsert(h)
    <3>1. StagedFits(h)'
      BY <1>0, <1>6, <2>3 DEF DraftInsert
    <3> QED BY <1>0, <2>3, <3>1 DEF DraftInsert
  <2> QED BY <1>17, <2>1, <2>2, <2>3
<1>18. CASE Commit(h) \/ Abort(h) \/ DeadlockVictim(h)
  <2>1. CASE Commit(h) BY <1>0, <2>1 DEF Commit, NothingStaged
  <2>2. CASE Abort(h) BY <1>5, <2>2 DEF Abort
  <2>3. CASE DeadlockVictim(h) BY <1>5, <2>3 DEF DeadlockVictim
  <2> QED BY <1>18, <2>1, <2>2, <2>3
<1> QED
  BY <1>10, <1>11, <1>12, <1>13, <1>14, <1>15, <1>16, <1>17, <1>18 DEF Request

-----------------------------------------------------------------------------
LEMMA TypeInit == Init => TypeInv
<1> SUFFICES ASSUME Init PROVE TypeInv
  OBVIOUS
<1>1. Inserting = {}
  BY DEF Init, Inserting
<1>2. RoomLeft
  BY <1>1, FS_EmptySet, BoundAssumption DEF RoomLeft, Init
<1>3. TypeOK
  BY OpsAssumption, BoundAssumption
     DEF TypeOK, Init, PlanRow, Absent, PlanIds, NothingStaged, AllOps
<1>4. \A h \in Sessions : LocalFits(h)
  BY DEF Init, LocalFits, OpFits, MineFits, RowFits, StagedFits, NothingStaged, HoldsMine, Resting
<1> QED
  BY <1>2, <1>3, <1>4 DEF TypeInv

\* Where no request is under way only the age of the plans changes.
LEMMA TypeRetention ==
    ASSUME TypeInv, RetentionElapses
    PROVE  TypeInv'
<1>1. TypeOK'
  <2> DEFINE Dead(row) == row.status \in {"ARCHIVED", "DISCARDED"}
  <2>0. \A row \in PlanRow, b \in BOOLEAN : [row EXCEPT !.old = b] \in PlanRow
    BY DEF PlanRow
  <2>1. \A row \in PlanRow : [row EXCEPT !.old = Dead(row)] \in PlanRow
    <3>1. \A row : Dead(row) \in BOOLEAN
      OBVIOUS
    <3> HIDE DEF Dead
    <3> QED BY <2>0, <3>1, Zenon
  <2>2. plan \in [PlanIds -> PlanRow]
    BY DEF TypeInv, TypeOK
  <2>3. plan' \in [PlanIds -> PlanRow]
    BY <2>1, <2>2 DEF RetentionElapses
  <2> QED BY <2>3 DEF TypeInv, TypeOK, RetentionElapses
<1>2. RoomLeft'
  BY DEF TypeInv, RoomLeft, RetentionElapses, Inserting
<1>3. \A h \in Sessions : LocalFits(h)'
  BY DEF TypeInv, RetentionElapses, LocalFits, OpFits, MineFits, RowFits, StagedFits
<1> QED
  BY <1>1, <1>2, <1>3 DEF TypeInv

LEMMA TypeStutter ==
    ASSUME TypeInv, UNCHANGED vars
    PROVE  TypeInv'
BY DEF TypeInv, TypeOK, RoomLeft, Inserting, LocalFits, OpFits, MineFits, RowFits, StagedFits,
       vars

LEMMA TypeRequest ==
    ASSUME TypeInv, NEW h \in Sessions, Request(h)
    PROVE  TypeInv'
<1>1. RoomLeft' /\ nextId' \in Nat /\ nextId' >= nextId /\ nextId \in Nat
  BY RoomKept DEF TypeInv, TypeOK
<1>2. TypeOK'
  BY TypeKept DEF TypeInv
<1>3. LocalFits(h)'
  BY <1>1, <1>2, LocalKept DEF TypeInv
<1>4. ASSUME NEW g \in Sessions, g # h
      PROVE  LocalFits(g)'
  BY <1>1, <1>4, OthersKept, OthersFit DEF TypeInv
<1> QED
  BY <1>1, <1>2, <1>3, <1>4 DEF TypeInv

LEMMA TypeNext == TypeInv /\ [Next]_vars => TypeInv'
BY TypeRequest, TypeRetention, TypeStutter DEF Next

LEMMA TypeAlways == Spec => []TypeInv
<1>1. Init => TypeInv BY TypeInit
<1>2. TypeInv /\ [Next]_vars => TypeInv' BY TypeNext
<1> QED
  BY <1>1, <1>2, PTL DEF Spec

(* Plans and requests keep their types, the sequence never runs beyond its    *)
(* bound, for any sessions and plans.                                         *)
THEOREM PlanTypeCorrect == Spec => []TypeOK
<1>1. TypeInv => TypeOK BY DEF TypeInv
<1> QED
  BY <1>1, TypeAlways, PTL

-----------------------------------------------------------------------------
(* Plans that are dead, new or about to be inserted are saved by nobody else. *)
LEMMA SharedInit == Init => SharedInv
BY DEF Init, SharedInv, IdInv, OldInv, TodoInv, AbsentInv, Exists, Absent, NothingStaged,
       Reading, Mine, Current

LEMMA SharedStutter ==
    ASSUME SharedInv, UNCHANGED vars
    PROVE  SharedInv'
BY DEF SharedInv, IdInv, OldInv, TodoInv, AbsentInv, Exists, Untouched, Reading, Mine, Current,
       vars

LEMMA SharedRetention ==
    ASSUME TypeInv, SharedInv, RetentionElapses
    PROVE  SharedInv'
<1>1. \A h \in Sessions : \A p \in PlanIds :
        ~Mine(h, p) /\ ~Current(h, p) /\ ~Reading(h, p) /\ staged[h][p] = None
  BY DEF TypeInv, LocalFits, MineFits, StagedFits, Resting, RetentionElapses, Mine, Current, Reading
<1>2. \A h \in Sessions : \A p \in PlanIds :
        ~Mine(h, p)' /\ ~Current(h, p)' /\ ~Reading(h, p)' /\ staged'[h][p] = None
  BY <1>1 DEF RetentionElapses, Mine, Current, Reading
<1>3. \A p \in PlanIds : plan'[p].status = plan[p].status /\ (Exists(p)' <=> Exists(p))
  BY DEF RetentionElapses, Exists, TypeInv, TypeOK, PlanRow
<1>4. \A p \in PlanIds : plan'[p].old => plan[p].status \in {"ARCHIVED", "DISCARDED"}
  BY ZenonT(60) DEF RetentionElapses, TypeInv, TypeOK, PlanRow
<1>5. nextId' = nextId /\ todo' = todo
  BY DEF RetentionElapses
<1>6. IdInv' /\ AbsentInv'
  BY <1>2, <1>3, <1>5 DEF IdInv, AbsentInv, SharedInv
<1>7. OldInv'
  BY <1>2, <1>3, <1>4, <1>5 DEF OldInv, IdInv, SharedInv, Untouched, Exists, PlanIds, TypeInv, TypeOK
<1>8. TodoInv'
  <2> SUFFICES ASSUME NEW h \in Sessions, NEW p \in todo[h]
               PROVE  p < nextId /\ (plan'[p].old \/ ~Exists(p)') /\ Untouched(p)'
    BY <1>5 DEF TodoInv
  <2>1. p \in PlanIds /\ p < nextId /\ (plan[p].old \/ ~Exists(p))
    BY DEF TypeInv, TypeOK, SharedInv, TodoInv
  <2>2. plan[p].old => plan'[p].old
    BY <2>1 DEF SharedInv, OldInv, RetentionElapses, TypeInv, TypeOK, PlanRow
  <2> QED BY <1>2, <1>3, <2>1, <2>2 DEF Untouched
<1> QED
  BY <1>6, <1>7, <1>8 DEF SharedInv

LEMMA SharedRequest ==
    ASSUME TypeInv, TypeInv', SharedInv, NEW h \in Sessions, Request(h)
    PROVE  SharedInv'
<1>1. TakesMine(h) /\ TakesCurrent(h) /\ Stages(h) /\ Writes(h) /\ Inserts(h) /\ Todo(h)
  BY RequestEffect DEF Effect, TypeInv
<1>2. \A g \in Sessions : g # h => Kept(g)
  BY OthersKept DEF TypeInv
<1>3. nextId \in Nat /\ nextId' \in {nextId, nextId + 1} /\ PlanIds \subseteq Nat
  BY <1>1 DEF TypeInv, TypeOK, Inserts, PlanIds
<1>4. \A g \in Sessions : todo[g] \subseteq PlanIds /\ todo'[g] \subseteq PlanIds
  BY DEF TypeInv, TypeOK
<1>5. \A g \in Sessions : \A p \in PlanIds : staged[g][p] # None =>
        staged[g][p].status # "ABSENT" /\ ~staged[g][p].old
  BY DEF TypeInv, LocalFits, StagedFits
<1>6. \A g \in Sessions : g # h => \A p \in PlanIds :
        /\ Mine(g, p)' <=> Mine(g, p)
        /\ Current(g, p)' <=> Current(g, p)
        /\ Reading(g, p)' <=> Reading(g, p)
        /\ staged'[g][p] = staged[g][p]
  BY <1>2 DEF Kept, Mine, Current, Reading
<1>7. ~Absent.old /\ Absent.status = "ABSENT"
  BY DEF Absent
<1>8. \A p \in PlanIds : Reading(h, p)' =>
        \/ Reading(h, p)
        \/ UNCHANGED <<plan, nextId, staged>>
             /\ plan[p].status \in {"PROPOSED", "ACTIVE", "DRAFT", "FAILED"}
        \/ p = nextId /\ nextId' = nextId + 1 /\ plan'[p].status = "DRAFT"
  BY <1>1 DEF TakesMine, TakesCurrent, FindsPlan, Reading
<1>10. IdInv'
  <2> SUFFICES ASSUME NEW p \in PlanIds, p >= nextId'
               PROVE  /\ ~Exists(p)'
                      /\ \A g \in Sessions : ~Mine(g, p)' /\ ~Current(g, p)' /\ staged'[g][p] = None
    BY DEF IdInv
  <2>1. p >= nextId /\ (nextId' = nextId + 1 => p # nextId)
    BY <1>3
  <2>2. /\ ~Exists(p)
        /\ \A g \in Sessions : ~Mine(g, p) /\ ~Current(g, p) /\ staged[g][p] = None
        /\ \A g \in Sessions : ~Reading(g, p)
    BY <2>1 DEF SharedInv, IdInv, Reading
  <2>3. ~Exists(p)'
    BY <1>1, <1>7, <2>1, <2>2 DEF Writes, Exists
  <2>4. ~Mine(h, p)' /\ ~Current(h, p)' /\ staged'[h][p] = None
    BY <1>1, <2>1, <2>2 DEF TakesMine, TakesCurrent, Stages, FindsPlan, Exists
  <2> QED BY <1>6, <2>2, <2>3, <2>4
\* A dead plan that nobody touches stays so.
<1>11. ASSUME NEW p \in PlanIds, p < nextId, Untouched(p),
              plan[p].status \in {"ARCHIVED", "DISCARDED", "ABSENT"}
       PROVE  Untouched(p)' /\ (plan'[p] = plan[p] \/ plan'[p] = Absent)
  <2>1. ~Reading(h, p)' /\ staged'[h][p] = None
    BY <1>1, <1>3, <1>8, <1>11 DEF Untouched, Stages
  <2>2. plan'[p] = plan[p] \/ plan'[p] = Absent
    <3>1. pc[h] \in {"start", "run"} => op[h] # "revert"
      BY DEF TypeInv, LocalFits, OpFits
    <3> QED BY <1>1, <1>3, <1>11, <3>1 DEF Untouched, Writes, Reading
  <2> QED BY <1>6, <1>11, <2>1, <2>2 DEF Untouched
<1>12. OldInv'
  <2> SUFFICES ASSUME NEW p \in PlanIds, plan'[p].old
               PROVE  /\ p < nextId' /\ plan'[p].status \in {"ARCHIVED", "DISCARDED"}
                      /\ Untouched(p)'
    BY DEF OldInv
  <2>1. plan'[p] = plan[p]
    BY <1>1, <1>5, <1>7 DEF Writes
  <2>2. p < nextId /\ plan[p].status \in {"ARCHIVED", "DISCARDED"} /\ Untouched(p)
    BY <2>1 DEF SharedInv, OldInv
  <2> QED BY <1>3, <1>11, <2>1, <2>2
<1>13. TodoInv'
  <2> SUFFICES ASSUME NEW g \in Sessions, NEW p \in todo'[g]
               PROVE  p < nextId' /\ (plan'[p].old \/ ~Exists(p)') /\ Untouched(p)'
    BY DEF TodoInv
  <2>1. p \in PlanIds
    BY <1>4
  <2>2. /\ p < nextId /\ (plan[p].old \/ ~Exists(p)) /\ Untouched(p)
    <3>1. p \in todo[g] \/ plan[p].old
      BY <1>1, <1>2 DEF Todo, Kept
    <3> QED BY <2>1, <3>1 DEF SharedInv, TodoInv, OldInv
  <2>3. plan[p].status \in {"ARCHIVED", "DISCARDED", "ABSENT"}
    BY <2>1, <2>2 DEF SharedInv, OldInv, Exists
  <2>4. Untouched(p)' /\ (plan'[p] = plan[p] \/ plan'[p] = Absent)
    BY <1>11, <2>1, <2>2, <2>3
  <2> QED BY <1>3, <1>7, <2>1, <2>2, <2>4 DEF Exists
<1>14. AbsentInv'
  <2> SUFFICES ASSUME NEW p \in PlanIds, ~Exists(p)'
               PROVE  \A g \in Sessions : /\ ~Reading(g, p)'
                        /\ \A k \in Sessions : staged'[k][p] # None /\ staged'[g][p] # None => k = g
    BY DEF AbsentInv
  <2>1. CASE Exists(p)
    <3>1. p \in todo[h]
      BY <1>1, <1>5, <2>1 DEF Writes, Exists
    <3>2. p < nextId /\ Untouched(p) /\ plan[p].status \in {"ARCHIVED", "DISCARDED", "ABSENT"}
      BY <2>1, <3>1 DEF SharedInv, TodoInv, OldInv
    <3> QED BY <1>11, <3>2 DEF Untouched
  <2>2. CASE ~Exists(p)
    <3>1. \A g \in Sessions : ~Reading(g, p) /\
            \A k \in Sessions : staged[k][p] # None /\ staged[g][p] # None => k = g
      BY <2>2 DEF SharedInv, AbsentInv
    <3>2. ~Reading(h, p)'
      BY <1>8, <2>2, <3>1 DEF Exists
    <3>3. staged'[h][p] # None => staged[h][p] # None \/ p = nextId
      BY <1>1, <3>1 DEF Stages
    <3>4. p = nextId => \A g \in Sessions : staged[g][p] = None
      BY <1>3 DEF SharedInv, IdInv
    <3> QED BY <1>6, <3>1, <3>2, <3>3, <3>4
  <2> QED BY <2>1, <2>2
<1> QED
  BY <1>10, <1>12, <1>13, <1>14 DEF SharedInv

LEMMA SharedAlways == Spec => []SharedInv
<1>1. Init => SharedInv BY SharedInit
<1>2. TypeInv /\ TypeInv' /\ SharedInv /\ [Next]_vars => SharedInv'
  BY SharedRequest, SharedRetention, SharedStutter DEF Next
<1> QED
  BY <1>1, <1>2, TypeAlways, PTL DEF Spec

(* The cleanup deletes only plans that were expired and dead, for any         *)
(* sessions and plans.                                                        *)
THEOREM PlanDeleteOnlyDead == Spec => DeleteOnlyDead
<1> DEFINE Dead == \A p \in PlanIds : Exists(p) /\ ~Exists(p)'
                     => plan[p].old /\ plan[p].status \in {"ARCHIVED", "DISCARDED"}
<1>1. ASSUME TypeInv, SharedInv, [Next]_vars
      PROVE  Dead
  <2>1. ASSUME NEW h \in Sessions, Request(h)
        PROVE  Dead
    <3> SUFFICES ASSUME NEW p \in PlanIds, Exists(p), ~Exists(p)'
                 PROVE  plan[p].old /\ plan[p].status \in {"ARCHIVED", "DISCARDED"}
      OBVIOUS
    <3>1. Writes(h)
      BY <1>1, <2>1, RequestEffect DEF Effect, TypeInv
    <3>2. p \in todo[h]
      BY <1>1, <3>1 DEF Writes, Exists, TypeInv, LocalFits, StagedFits
    <3> QED BY <1>1, <3>2 DEF SharedInv, TodoInv, OldInv
  <2>2. CASE RetentionElapses
    BY <1>1, <2>2 DEF RetentionElapses, Exists, TypeInv, TypeOK, PlanRow
  <2>3. CASE UNCHANGED vars
    BY <2>3 DEF vars, Exists
  <2> QED BY <1>1, <2>1, <2>2, <2>3 DEF Next
<1>2. TypeInv /\ SharedInv /\ [Next]_vars => [Dead]_vars
  BY <1>1
<1> QED
  BY <1>2, TypeAlways, SharedAlways, PTL DEF Spec, DeleteOnlyDead

-----------------------------------------------------------------------------
(* Orphans: optimizations nobody runs any more.                               *)
Orphans == {p \in WithStatus("PROCESSING") :
              ~\E h \in Sessions : pc[h] = "run" /\ mine[h].id = p}

LEMMA FaultsGrow ==
    ASSUME TypeOK, NEW h \in Sessions, Request(h)
    PROVE  faults' >= faults
<1>1. faults \in Nat
  BY BoundAssumption DEF TypeOK
<1> QED
  BY <1>1 DEF Request, ApplyCheck, DiscardRead, RevertRead, OptimizeRead, DraftRead,
     ActiveForTask, Apply, ReadCandidate, ReadActive, ReadActiveFails, Archive, Activate, Optimize,
     OptimizeCheck, OptimizeClone, OptimizeStart, OptimizeEnd, TaskEvent, InsertActive,
     ReadProposed, MarkStale, Cleanup, ListDiscarded, ListArchived, DeletePlan, CleanupEnd,
     DiscardWrite, RevertInsert, DraftInsert, Commit, Abort, DeadlockVictim

LEMMA RunEnds ==
    ASSUME NEW h \in Sessions, pc[h] = "run", Request(h)
    PROVE  OptimizeEnd(h) \/ Abort(h)
BY DEF Request, ApplyCheck, DiscardRead, RevertRead, OptimizeRead, DraftRead, Start,
     ActiveForTask, Apply, ReadCandidate, ReadActive, ReadActiveFails, Archive, Activate, Optimize,
     OptimizeCheck, OptimizeClone, OptimizeStart, TaskEvent, InsertActive,
     ReadProposed, MarkStale, Cleanup, ListDiscarded, ListArchived, DeletePlan, CleanupEnd,
     DiscardWrite, RevertInsert, DraftInsert, Commit, DeadlockVictim

LEMMA OrphansFinite ==
    ASSUME TypeOK
    PROVE  IsFiniteSet(Orphans) /\ Cardinality(Orphans) \in Nat
<1>1. IsFiniteSet(PlanIds)
  BY FS_Interval, BoundAssumption DEF PlanIds
<1>2. Orphans \subseteq PlanIds
  BY DEF Orphans, WithStatus
<1> QED
  BY <1>1, <1>2, FS_Subset, FS_CardinalityType

LEMMA OrphanRequest ==
    ASSUME TypeInv, TypeInv', OrphanIsFault, NEW h \in Sessions, Request(h)
    PROVE  OrphanIsFault'
<1>0. /\ Cardinality(Orphans) <= faults /\ faults \in Nat /\ faults' \in Nat /\ faults' >= faults
      /\ IsFiniteSet(Orphans) /\ Cardinality(Orphans) \in Nat
      /\ IsFiniteSet(Orphans') /\ Cardinality(Orphans') \in Nat
  <2>1. IsFiniteSet(Orphans') /\ Cardinality(Orphans') \in Nat
    <3>1. TypeOK' => (IsFiniteSet(Orphans) /\ Cardinality(Orphans) \in Nat)'
      BY OrphansFinite, PTL
    <3> QED BY <3>1 DEF TypeInv
  <2> QED
    BY <2>1, OrphansFinite, FaultsGrow, BoundAssumption DEF OrphanIsFault, Orphans, TypeInv, TypeOK
<1>1. Writes(h)
  BY RequestEffect DEF Effect, TypeInv
<1>2. \A g \in Sessions : g # h => pc'[g] = pc[g] /\ mine'[g] = mine[g]
  BY OthersKept DEF Kept, TypeInv
<1>3. ASSUME NEW p \in Orphans', p \notin Orphans
      PROVE  pc[h] = "run" /\ mine[h].id = p /\ Abort(h)
  <2>1. p \in PlanIds /\ plan'[p].status = "PROCESSING"
    BY <1>3 DEF Orphans, WithStatus
  <2>2. ~\E g \in Sessions : pc'[g] = "run" /\ mine'[g].id = p
    BY <1>3 DEF Orphans
  <2>3. plan'[p] = plan[p]
    BY <1>1, <2>1, <2>2 DEF Writes, Mine, Absent, TypeInv, LocalFits, StagedFits
  <2>4. PICK g \in Sessions : pc[g] = "run" /\ mine[g].id = p
    BY <1>3, <2>1, <2>3 DEF Orphans, WithStatus
  <2>5. g = h
    BY <1>2, <2>2, <2>4
  <2>6. ~OptimizeEnd(h)
    <3> SUFFICES ASSUME OptimizeEnd(h) PROVE FALSE
      OBVIOUS
    <3>1. mine[h] \in ReadRow
      BY <2>4, <2>5 DEF TypeInv, TypeOK, LocalFits, MineFits, HoldsMine
    <3>2. plan'[p].status \in {"PROPOSED", "FAILED"}
      BY <2>1, <2>4, <2>5, <3>1 DEF OptimizeEnd, Saved, ReadRow, PlanRow, TypeInv, TypeOK
    <3> QED BY <2>1, <3>2
  <2> QED BY <2>4, <2>5, <2>6, RunEnds
<1>4. CASE Orphans' \subseteq Orphans
  <2>1. Cardinality(Orphans') <= Cardinality(Orphans)
    BY <1>0, <1>4, FS_Subset
  <2> QED BY <1>0, <2>1 DEF OrphanIsFault, Orphans
<1>5. CASE ~(Orphans' \subseteq Orphans)
  <2>1. Orphans' \subseteq Orphans \cup {mine[h].id} /\ faults' = faults + 1
    BY <1>3, <1>5 DEF Abort
  <2>2. /\ IsFiniteSet(Orphans \cup {mine[h].id})
        /\ Cardinality(Orphans \cup {mine[h].id}) <= Cardinality(Orphans) + 1
    BY SMTT(30), <1>0, FS_AddElement
  <2>3. Cardinality(Orphans') <= Cardinality(Orphans \cup {mine[h].id})
    BY <2>1, <2>2, FS_Subset
  <2>4. Cardinality(Orphans \cup {mine[h].id}) \in Nat
    BY <2>2, FS_CardinalityType
  <2>5. Cardinality(Orphans') <= faults'
    BY <1>0, <2>1, <2>2, <2>3, <2>4
  <2> QED BY <2>5 DEF OrphanIsFault, Orphans
<1> QED
  BY <1>4, <1>5

(* Every plan stuck in PROCESSING stands for a failure between the start and  *)
(* the end of its optimization, for any sessions and plans.                   *)
THEOREM PlanOrphanIsFault == Spec => []OrphanIsFault
<1>1. Init => OrphanIsFault
  <2> SUFFICES ASSUME Init PROVE OrphanIsFault
    OBVIOUS
  <2>1. Orphans = {}
    BY DEF Init, Orphans, WithStatus, Absent
  <2> QED BY <2>1, FS_EmptySet DEF Init, OrphanIsFault, Orphans
<1>2. TypeInv /\ TypeInv' /\ OrphanIsFault /\ [Next]_vars => OrphanIsFault'
  <2> SUFFICES ASSUME TypeInv, TypeInv', OrphanIsFault, [Next]_vars PROVE OrphanIsFault'
    OBVIOUS
  <2>1. CASE \E h \in Sessions : Request(h)
    BY <2>1, OrphanRequest
  <2>2. CASE RetentionElapses
    <3>1. \A p \in PlanIds : plan'[p].status = plan[p].status
      BY <2>2 DEF RetentionElapses, TypeInv, TypeOK, PlanRow
    <3> QED BY <2>2, <3>1 DEF RetentionElapses, OrphanIsFault, WithStatus
  <2>3. CASE UNCHANGED vars
    BY <2>3 DEF vars, OrphanIsFault, WithStatus
  <2> QED BY <2>1, <2>2, <2>3 DEF Next
<1> QED
  BY <1>1, <1>2, TypeAlways, PTL DEF Spec

-----------------------------------------------------------------------------
(* What is committed leaves an active plan, and the plan of a running         *)
(* optimization is not it.                                                    *)
LEMMA OwnedInit == Init => CommitInv
BY DEF Init, CommitInv, OwnedInv, CommitFits, NothingStaged, TaskOps

LEMMA OwnedStutter ==
    ASSUME CommitInv, UNCHANGED vars
    PROVE  CommitInv'
BY DEF CommitInv, OwnedInv, CommitFits, StagesActive, Mine, Current, Exists, vars

LEMMA OwnedRetention ==
    ASSUME TypeInv, CommitInv, RetentionElapses
    PROVE  CommitInv'
<1>1. \A p \in PlanIds : plan'[p].status = plan[p].status /\ (Exists(p)' <=> Exists(p))
  BY DEF RetentionElapses, Exists, TypeInv, TypeOK, PlanRow
<1>2. OwnedInv'
  BY DEF RetentionElapses, OwnedInv
<1>3. \A h \in Sessions : CommitFits(h)'
  BY <1>1 DEF RetentionElapses, CommitInv, CommitFits, StagesActive, Mine, Current
<1> QED
  BY <1>2, <1>3 DEF CommitInv

LEMMA RunStarts ==
    ASSUME TypeOK, NEW h \in Sessions, pc'[h] \in {"start", "run"}, Request(h)
    PROVE  OptimizeClone(h) \/ OptimizeStart(h)
<1>0. DOMAIN pc = Sessions
  BY DEF TypeOK
<1> QED
  BY <1>0 DEF Request, ApplyCheck, DiscardRead, RevertRead, OptimizeRead, DraftRead, Start, Goto,
     ActiveForTask, Apply, ReadCandidate, ReadActive, ReadActiveFails, Archive, Activate, Optimize,
     OptimizeCheck, OptimizeEnd, TaskEvent, InsertActive, Return, AfterArchive,
     ReadProposed, MarkStale, Cleanup, ListDiscarded, ListArchived, DeletePlan, CleanupEnd,
     DiscardWrite, RevertInsert, DraftInsert, Commit, DeadlockVictim, Abort

LEMMA OwnedRequest ==
    ASSUME TypeInv, TypeInv', SharedInv, OwnedInv, NEW h \in Sessions, Request(h)
    PROVE  OwnedInv'
<1>1. TakesMine(h) /\ TakesCurrent(h) /\ Stages(h) /\ Writes(h) /\ Inserts(h)
  BY RequestEffect DEF Effect, TypeInv
<1>2. \A g \in Sessions : g # h => Kept(g)
  BY OthersKept DEF TypeInv
<1>3. nextId \in Nat /\ PlanIds \subseteq Nat
  BY DEF TypeInv, TypeOK, PlanIds
<1>4. \A g \in Sessions : g # h => \A p \in PlanIds :
        /\ Mine(g, p)' <=> Mine(g, p)
        /\ Current(g, p)' <=> Current(g, p)
        /\ staged'[g][p] = staged[g][p]
        /\ op'[g] = op[g] /\ pc'[g] = pc[g]
  BY <1>2 DEF Kept, Mine, Current
<1> SUFFICES ASSUME NEW k \in Sessions, pc'[k] \in {"start", "run"},
                    NEW p \in PlanIds, Mine(k, p)'
             PROVE  /\ plan'[p].status \in {"DRAFT", "PROCESSING", "DISCARDED"}
                    /\ \A g \in Sessions \ {k} : Mine(g, p)' => op'[g] = "discard"
                    /\ \A g \in Sessions : ~Current(g, p)'
                    /\ \A g \in Sessions : staged'[g][p] # None => staged'[g][p].status = "DISCARDED"
  BY DEF OwnedInv
<1>5. CASE k # h
  <2>1. pc[k] \in {"start", "run"} /\ Mine(k, p) /\ op[k] \in {"reschedule", "optimize"}
    BY <1>4, <1>5 DEF TypeInv, LocalFits, OpFits
  <2>2. /\ plan[p].status \in {"DRAFT", "PROCESSING", "DISCARDED"}
        /\ \A g \in Sessions \ {k} : Mine(g, p) => op[g] = "discard"
        /\ \A g \in Sessions : ~Current(g, p)
        /\ \A g \in Sessions : staged[g][p] # None => staged[g][p].status = "DISCARDED"
    BY <2>1 DEF OwnedInv
  <2>3. p # nextId
    BY <1>3, <2>1 DEF SharedInv, IdInv
  <2>4. p \notin todo[h]
    BY <2>1 DEF SharedInv, TodoInv, Untouched, Reading
  <2>5. Mine(h, p) => op[h] = "discard" /\ ~(pc[h] \in {"start", "run"})
    BY <1>5, <2>2 DEF TypeInv, LocalFits, OpFits
  <2>6. plan'[p].status \in {"DRAFT", "PROCESSING", "DISCARDED"}
    BY <1>1, <2>2, <2>3, <2>4, <2>5 DEF Writes
  <2>7. Mine(h, p)' => op'[h] = "discard"
    BY <1>1, <2>2, <2>3, <2>5 DEF TakesMine, FindsPlan
  <2>8. ~Current(h, p)'
    BY <1>1, <2>2 DEF TakesCurrent
  <2>9. staged'[h][p] # None => staged'[h][p].status = "DISCARDED"
    BY <1>1, <2>2, <2>3, <2>5 DEF Stages, Reading
  <2> QED BY <1>4, <2>2, <2>6, <2>7, <2>8, <2>9
<1>6. CASE k = h /\ OptimizeClone(h)
  <2>1. p = nextId /\ UNCHANGED <<op, current, staged>> /\ plan' = [plan EXCEPT ![nextId] = mine[h].row]
    BY <1>6 DEF OptimizeClone, Mine, TypeInv, TypeOK, LocalFits, MineFits, HoldsMine, ReadRow
  <2>2. mine[h].row.status = "DRAFT"
    BY <1>6 DEF OptimizeClone, TypeInv, LocalFits, RowFits
  <2>3. \A g \in Sessions : ~Mine(g, p) /\ ~Current(g, p) /\ staged[g][p] = None
    BY <1>3, <2>1 DEF SharedInv, IdInv
  <2>4. plan'[p].status = "DRAFT"
    BY <2>1, <2>2 DEF TypeInv, TypeOK
  <2> QED BY <1>4, <1>6, <2>1, <2>3, <2>4 DEF Current
<1>7. CASE k = h /\ OptimizeStart(h)
  <2>1. /\ pc[h] = "start" /\ UNCHANGED <<op, current, staged>>
        /\ plan' = [plan EXCEPT ![mine[h].id] = Saved(mine[h].row, "PROCESSING")]
        /\ mine' = [mine EXCEPT ![h].row.status = "PROCESSING"]
    BY <1>7 DEF OptimizeStart
  <2>2. mine[h] \in ReadRow /\ mine[h] # None
    BY <2>1 DEF TypeInv, TypeOK, LocalFits, MineFits, HoldsMine
  <2>3. mine'[h].id = mine[h].id
    BY <2>1, <2>2 DEF TypeInv, TypeOK, ReadRow, PlanRow
  <2>4. Mine(h, p)
    BY <1>7, <2>2, <2>3 DEF Mine
  <2>5. Saved(mine[h].row, "PROCESSING").status = "PROCESSING"
    BY <2>2 DEF Saved, ReadRow, PlanRow
  <2>6. plan'[p].status \in {"DRAFT", "PROCESSING", "DISCARDED"}
    BY <2>1, <2>4, <2>5 DEF Mine, TypeInv, TypeOK
  <2> QED BY <1>4, <1>7, <2>1, <2>4, <2>6 DEF OwnedInv, Current
<1> QED
  BY <1>5, <1>6, <1>7, RunStarts DEF TypeInv

\* Nobody else makes a plan exist that a transaction has inserted.
LEMMA InsertedStaysNew ==
    ASSUME TypeInv, SharedInv, NEW h \in Sessions, Request(h), NEW g \in Sessions, g # h,
           NEW p \in PlanIds, staged[g][p] # None, ~Exists(p)
    PROVE  ~Exists(p)'
<1>1. Writes(h)
  BY RequestEffect DEF Effect, TypeInv
<1>2. staged[h][p] = None /\ ~Reading(h, p)
  BY DEF SharedInv, AbsentInv
<1>3. p # nextId
  BY DEF SharedInv, IdInv, TypeInv, TypeOK, PlanIds
<1>4. ~(pc[h] \in {"start", "run"} /\ Mine(h, p))
  BY <1>2 DEF Reading, TypeInv, LocalFits, OpFits
<1> QED
  BY <1>1, <1>2, <1>3, <1>4 DEF Writes, Exists, Absent

LEMMA CommitOthers ==
    ASSUME TypeInv, SharedInv, NEW h \in Sessions, Request(h), NEW g \in Sessions, g # h,
           CommitFits(g)
    PROVE  CommitFits(g)'
<1>1. Kept(g)
  BY OthersKept DEF TypeInv
<1>2. \A p \in PlanIds : staged[g][p] # None /\ ~Exists(p) => ~Exists(p)'
  BY InsertedStaysNew
<1>3. /\ \A p \in PlanIds : staged'[g][p] = staged[g][p]
      /\ \A p \in PlanIds : (Mine(g, p)' <=> Mine(g, p)) /\ (Current(g, p)' <=> Current(g, p))
      /\ pc'[g] = pc[g] /\ op'[g] = op[g] /\ mine'[g] = mine[g] /\ staged'[g] = staged[g]
  BY <1>1 DEF Kept, Mine, Current
<1> QED
  BY <1>2, <1>3 DEF CommitFits, StagesActive, NothingStaged

LEMMA CommitKept ==
    ASSUME TypeInv, TypeInv', SharedInv, NEW h \in Sessions, CommitFits(h), Request(h)
    PROVE  CommitFits(h)'
<1> USE DEF CommitFits, StagesActive, TaskOps, Goto, Start, StageNew, Stage, Read, NewPlan
<1>0. /\ DOMAIN pc = Sessions /\ DOMAIN op = Sessions /\ DOMAIN mine = Sessions
      /\ DOMAIN current = Sessions /\ DOMAIN staged = Sessions
      /\ staged[h] \in [PlanIds -> PlanRow \cup {None}]
      /\ plan \in [PlanIds -> PlanRow] /\ nextId \in Nat
      /\ mine[h] \in ReadRow \cup {None} /\ None \notin ReadRow /\ None \notin PlanRow
  BY NoneAssumption DEF TypeInv, TypeOK
<1>1. /\ OpFits(h) /\ MineFits(h) /\ RowFits(h) /\ OpFits(h)' /\ MineFits(h)'
      /\ pc[h] \in Resting => staged[h] = NothingStaged
  BY <1>0 DEF TypeInv, LocalFits, StagedFits, NothingStaged
<1>2. \A row \in PlanRow, s \in PlanStatuses : Saved(row, s).status = s /\ Saved(row, s) # None
  BY <1>0 DEF Saved, PlanRow
<1>3. /\ mine[h] # None => mine[h] \in ReadRow /\ mine[h].row \in PlanRow
      /\ current[h] # None => current[h] \in ReadRow /\ current[h].row \in PlanRow
  BY <1>0 DEF ReadRow, TypeInv, TypeOK
<1>4. {"DRAFT", "PROCESSING", "PROPOSED", "ACTIVE", "ARCHIVED", "DISCARDED", "FAILED"} \subseteq PlanStatuses
  BY DEF PlanStatuses
<1>5. Return(h) => CommitFits(h)'
  BY <1>0 DEF Return, NothingStaged
<1>6. nextId' = nextId + 1 => nextId \in PlanIds /\ ~Exists(nextId)
  BY <1>0, BoundAssumption DEF SharedInv, IdInv, TypeInv, TypeOK, PlanIds
<1>7. staged[h] = NothingStaged => \A p \in PlanIds : staged[h][p] = None
  BY DEF NothingStaged
<1>8. \A p \in PlanIds : staged[h][p] # None /\ ~Exists(p) => ~Current(h, p) /\ p # nextId
  <2>1. \A p \in PlanIds : ~Exists(p) => ~Current(h, p)
    BY DEF SharedInv, AbsentInv, Reading
  <2>2. \A p \in PlanIds : staged[h][p] # None => p # nextId
    <3>1. \A p \in PlanIds : p = nextId => p >= nextId
      BY <1>0
    <3> QED BY <3>1 DEF SharedInv, IdInv
  <2> QED BY <2>1, <2>2
<1>10. ASSUME NEW p \in PlanIds, ApplyCheck(h, p) \/ DiscardRead(h, p) \/ RevertRead(h, p)
       PROVE  CommitFits(h)'
  BY <1>0, <1>1, <1>7, <1>10 DEF ApplyCheck, DiscardRead, RevertRead, Resting
<1>11. ASSUME NEW algo \in Algorithms, OptimizeRead(h, algo) \/ DraftRead(h, algo)
       PROVE  CommitFits(h)'
  <2>1. CASE OptimizeRead(h, algo) BY <1>0, <1>1, <1>7, <2>1 DEF OptimizeRead, Resting
  <2>2. CASE DraftRead(h, algo) BY <1>0, <1>1, <1>7, <2>2 DEF DraftRead, Resting
  <2> QED BY <1>11, <2>1, <2>2
<1>12. ASSUME NEW o \in Ops, ActiveForTask(h, o)
       PROVE  CommitFits(h)'
  BY <1>0, <1>1, <1>7, <1>12 DEF ActiveForTask, Resting
<1>13. CASE Apply(h)
  <2>1. CASE ReadCandidate(h) BY <1>0, <1>1, <1>5, <2>1 DEF ReadCandidate, OpFits
  <2>2. CASE ReadActive(h)
    <3>1. op[h] \in {"apply", "revert"} /\ op' = op /\ staged' = staged
      BY <1>1, <2>2 DEF ReadActive, OpFits
    <3>2. CASE op[h] = "apply"
      BY <1>0, <2>2, <3>1, <3>2 DEF ReadActive, AfterArchive
    <3>3. CASE op[h] = "revert"
      <4>1. PICK p \in PlanIds : staged[h][p] # None /\ staged[h][p].status = "ACTIVE" /\ ~Exists(p)
        BY <2>2, <3>3 DEF ReadActive
      <4>2. \A q \in PlanIds : IsFirstActive(q) => Exists(q)
        BY DEF IsFirstActive, ActivePlans, WithStatus, Exists
      <4>3. ~Current(h, p)'
        BY <1>0, <1>8, <2>2, <4>1, <4>2 DEF ReadActive, Current
      <4>4. pc'[h] \in {"archive", "commit"}
        BY <1>0, <2>2, <3>3 DEF ReadActive, AfterArchive
      <4> QED BY <3>1, <3>3, <4>1, <4>3, <4>4
    <3> QED BY <3>1, <3>2, <3>3
  <2>3. CASE ReadActiveFails(h) BY <1>0, <2>3 DEF ReadActiveFails
  <2>4. CASE Archive(h)
    <3>1. op[h] \in {"apply", "revert"} /\ op' = op /\ current[h] # None
      BY <1>1, <2>4 DEF Archive, OpFits, MineFits
    <3>2. CASE op[h] = "apply"
      BY <1>0, <2>4, <3>1, <3>2 DEF Archive, AfterArchive
    <3>3. CASE op[h] = "revert"
      <4>1. PICK p \in PlanIds : staged[h][p] # None /\ staged[h][p].status = "ACTIVE" /\ ~Current(h, p)
        BY <2>4, <3>3 DEF Archive
      <4>2. staged'[h][p] = staged[h][p]
        BY <1>0, <2>4, <3>1, <4>1 DEF Archive, Current
      <4>3. pc'[h] = "commit"
        BY <1>0, <2>4, <3>3 DEF Archive, AfterArchive
      <4> QED BY <3>1, <3>3, <4>1, <4>2, <4>3
    <3> QED BY <3>1, <3>2, <3>3
  <2>5. CASE Activate(h)
    <3>1. CASE Return(h) BY <1>5, <3>1
    <3>2. CASE ~Return(h)
      <4>1. mine[h].row \in PlanRow /\ Saved(mine[h].row, "ACTIVE") \in PlanRow
        BY <1>1, <1>3, <2>5 DEF Activate, MineFits, HoldsMine, Saved, PlanRow, PlanStatuses
      <4>2. Activated(h).status = "ACTIVE" /\ Activated(h) # None
        <5>1. Saved(mine[h].row, "ACTIVE").status = "ACTIVE"
          BY <1>2, <1>4, <4>1
        <5>2. current[h] # None => current[h].id \in PlanIds
          BY <1>1 DEF MineFits
        <5>3. Activated(h) \in PlanRow /\ Activated(h).status = "ACTIVE"
          BY <4>1, <5>1, <5>2 DEF Activated, PlanRow
        <5> QED BY <1>0, <5>3
      <4>3. mine[h].id \in PlanIds /\ op[h] = "apply"
        BY <1>1, <2>5 DEF Activate, MineFits, OpFits, HoldsMine
      <4>4. staged' = [staged EXCEPT ![h][mine[h].id] = Activated(h)] /\ op' = op /\ pc'[h] = "commit"
        BY <1>0, <2>5, <3>2 DEF Activate
      <4>5. staged'[h][mine[h].id] = Activated(h)
        BY <1>0, <4>3, <4>4
      <4> QED BY <4>2, <4>3, <4>4, <4>5
    <3> QED BY <3>1, <3>2
  <2> QED BY <1>13, <2>1, <2>2, <2>3, <2>4, <2>5 DEF Apply
<1>14. CASE Optimize(h)
  <2>1. op[h] \in {"reschedule", "optimize"}
    BY <1>1, <1>14 DEF Optimize, OptimizeCheck, OptimizeClone, OptimizeStart, OptimizeEnd, OpFits
  <2>2. op' = op \/ Return(h)
    BY <1>14 DEF Optimize, OptimizeCheck, OptimizeClone, OptimizeStart, OptimizeEnd
  <2> QED BY <1>5, <2>1, <2>2
<1>15. CASE TaskEvent(h)
  <2>1. CASE InsertActive(h)
    <3>1. op[h] \in {"get", "task_created"} /\ op' = op /\ mine' = mine /\ nextId' = nextId + 1
      BY <1>1, <2>1 DEF InsertActive, OpFits
    <3>2. \A p \in PlanIds : staged'[h][p] = staged[h][p] \/ staged'[h][p].status = "ACTIVE"
      BY <1>0, <2>1 DEF InsertActive
    <3>3. mine[h] = None
      BY <1>1, <2>1 DEF InsertActive, MineFits
    <3> QED BY <3>1, <3>2, <3>3 DEF Mine
  <2>2. CASE ReadProposed(h)
    <3>1. mine[h] = None /\ op[h] \in TaskOps /\ op' = op /\ staged' = staged
      BY <1>1, <2>2 DEF ReadProposed, MineFits, OpFits
    <3> QED BY <3>1 DEF Mine
  <2>3. CASE MarkStale(h)
    <3>1. op[h] \in TaskOps /\ op' = op /\ mine' = mine /\ mine[h] # None /\ mine[h].row.status = "PROPOSED"
      BY <1>1, <2>3 DEF MarkStale, MineFits, OpFits, RowFits, HoldsMine
    <3>2. \A p \in PlanIds : staged'[h][p] # staged[h][p] => p = mine[h].id
      BY <1>0, <2>3 DEF MarkStale
    <3> QED BY <3>1, <3>2 DEF Mine
  <2> QED BY <1>15, <2>1, <2>2, <2>3 DEF TaskEvent
<1>16. CASE Cleanup(h)
  <2>1. op[h] = "get" /\ \A p \in PlanIds : staged[h][p] = None
    BY <1>1, <1>7, <1>16
       DEF Cleanup, ListDiscarded, ListArchived, DeletePlan, CleanupEnd, OpFits, Resting
  <2>2. (op' = op /\ staged' = staged) \/ Return(h)
    BY <1>16 DEF Cleanup, ListDiscarded, ListArchived, DeletePlan, CleanupEnd
  <2> QED BY <1>5, <2>1, <2>2
<1>17. CASE DiscardWrite(h) \/ RevertInsert(h) \/ DraftInsert(h)
  <2>1. CASE DiscardWrite(h)
    <3>1. op[h] = "discard" /\ op' = op /\ mine' = mine /\ mine[h] # None
      BY <1>1, <2>1 DEF DiscardWrite, MineFits, OpFits, HoldsMine
    <3>2. \A p \in PlanIds : staged'[h][p] # staged[h][p] => p = mine[h].id
      BY <1>0, <2>1 DEF DiscardWrite
    <3> QED BY <3>1, <3>2 DEF Mine
  <2>2. CASE RevertInsert(h)
    <3>1. op[h] = "revert" /\ op' = op /\ pc'[h] = "active" /\ plan' = plan /\ nextId' = nextId + 1
      BY <1>0, <1>1, <2>2 DEF RevertInsert, OpFits
    <3>2. staged'[h][nextId] # None /\ staged'[h][nextId].status = "ACTIVE"
      <4>1. mine[h] \in ReadRow /\ mine[h].id \in PlanIds /\ mine[h].row \in PlanRow
        BY <1>1, <1>3, <2>2 DEF RevertInsert, MineFits, HoldsMine
      <4>2. NewPlan("ACTIVE", mine[h].id, mine[h].row.algo) \in PlanRow
        BY <4>1 DEF PlanRow, PlanStatuses
      <4> QED BY <1>0, <1>6, <2>2, <3>1, <4>2 DEF RevertInsert
    <3> QED BY <1>6, <3>1, <3>2 DEF Exists
  <2>3. CASE DraftInsert(h)
    <3>1. op[h] = "create" /\ op' = op /\ plan' = plan /\ nextId' = nextId + 1
      BY <1>1, <2>3 DEF DraftInsert, OpFits
    <3>2. \A p \in PlanIds : staged'[h][p] # staged[h][p] => p = nextId
      BY <1>0, <2>3 DEF DraftInsert
    <3> QED BY <1>6, <3>1, <3>2 DEF Exists
  <2> QED BY <1>17, <2>1, <2>2, <2>3
<1>18. CASE Commit(h) \/ Abort(h) \/ DeadlockVictim(h)
  <2>1. CASE Commit(h) BY <1>0, <2>1 DEF Commit, NothingStaged
  <2>2. CASE Abort(h) BY <1>5, <2>2 DEF Abort
  <2>3. CASE DeadlockVictim(h) BY <1>5, <2>3 DEF DeadlockVictim
  <2> QED BY <1>18, <2>1, <2>2, <2>3
<1> QED
  BY <1>10, <1>11, <1>12, <1>13, <1>14, <1>15, <1>16, <1>17, <1>18 DEF Request

LEMMA CommitAlways == Spec => []CommitInv
<1>1. Init => CommitInv BY OwnedInit
<1>2. TypeInv /\ TypeInv' /\ SharedInv /\ CommitInv /\ [Next]_vars => CommitInv'
  BY OwnedRequest, CommitKept, CommitOthers, OwnedRetention, OwnedStutter DEF Next, CommitInv
<1> QED
  BY <1>1, <1>2, TypeAlways, SharedAlways, PTL DEF Spec

(* A user with an active plan keeps one, whatever requests run side by side,  *)
(* unless a discard or MarkProposedPlanAsStale saves an old row, for any      *)
(* sessions and plans.                                                        *)
THEOREM PlanActiveNeverVanishes == Spec => ActiveNeverVanishes
<1> DEFINE Vanishes == ActivePlans # {} /\ ActivePlans' = {}
<1>1. ASSUME TypeInv, SharedInv, CommitInv, [Next]_vars, Vanishes
      PROVE  \E h \in Sessions : StaleSave(h)
  <2>1. PICK a \in PlanIds : plan[a].status = "ACTIVE"
    BY <1>1 DEF ActivePlans, WithStatus
  <2>2. \A p \in PlanIds : plan'[p].status # "ACTIVE"
    BY <1>1 DEF ActivePlans, WithStatus
  <2>3. ASSUME NEW h \in Sessions, Request(h)
        PROVE  \E g \in Sessions : StaleSave(g)
    <3>1. Writes(h)
      BY <1>1, <2>3, RequestEffect DEF Effect, TypeInv
    <3>2. /\ ~(pc[h] \in {"start", "run"} /\ Mine(h, a))
          /\ a \notin todo[h] /\ a # nextId
      BY SMTT(30), <1>1, <2>1 DEF CommitInv, OwnedInv, SharedInv, TodoInv, OldInv, IdInv, Exists,
                        TypeInv, TypeOK, PlanIds
    <3>3. pc[h] = "commit" /\ staged[h][a] # None /\ staged[h][a].status # "ACTIVE"
      BY <2>1, <2>2, <3>1, <3>2 DEF Writes
    <3>4. Commit(h)
      BY <2>1, <2>2, <2>3, <3>3 DEF Request, ApplyCheck, DiscardRead, RevertRead, OptimizeRead, DraftRead,
         Start, ActiveForTask, Apply, ReadCandidate, ReadActive, ReadActiveFails, Archive,
         Activate, Optimize, OptimizeCheck, OptimizeClone, OptimizeStart, OptimizeEnd, TaskEvent,
         InsertActive, ReadProposed, MarkStale, Cleanup, ListDiscarded, ListArchived, DeletePlan,
         CleanupEnd, DiscardWrite, RevertInsert, DraftInsert, DeadlockVictim, Abort, Exists, Absent
    <3>5. ~StagesActive(h)
      BY <2>2, <3>4 DEF Commit, StagesActive
    <3>6. op[h] \in {"discard"} \cup TaskOps /\ Mine(h, a)
      BY <1>1, <2>1, <3>3, <3>5 DEF CommitInv, CommitFits, StagesActive, Exists, NothingStaged,
         TypeInv, TypeOK, LocalFits, OpFits, AllOps, TaskOps
    <3>7. mine[h].row.status \in {"DRAFT", "PROPOSED", "FAILED"}
      BY <1>1, <3>3, <3>6 DEF CommitInv, CommitFits, TypeInv, LocalFits, RowFits, TaskOps
    <3> QED BY <2>1, <3>3, <3>6, <3>7 DEF StaleSave, Mine, TaskOps
  <2>4. CASE RetentionElapses
    <3>1. \A p \in PlanIds : plan'[p].status = plan[p].status
      BY <1>1, <2>4 DEF RetentionElapses, TypeInv, TypeOK, PlanRow
    <3> QED BY <2>1, <2>2, <3>1
  <2>5. CASE UNCHANGED vars
    BY <2>1, <2>2, <2>5 DEF vars
  <2> QED BY <1>1, <2>3, <2>4, <2>5 DEF Next
<1>2. TypeInv /\ SharedInv /\ CommitInv /\ [Next]_vars
        => [Vanishes => \E h \in Sessions : StaleSave(h)]_vars
  BY <1>1
<1> QED
  BY <1>2, TypeAlways, SharedAlways, CommitAlways, PTL DEF Spec, ActiveNeverVanishes
====
