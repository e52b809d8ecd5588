-------------------------- MODULE TaskEventConsumer --------------------------
(* How ptm_schedule consumes the task events of Kafka.                        *)
(*                                                                            *)
(* A claim reads one partition, a message at a time: WrapHandler looks up     *)
(* processed_events, the handler updates the snapshots in one transaction,    *)
(* and processed_events or failed_events is written after it, on connections  *)
(* of their own.  The message is marked whatever became of it, and sarama     *)
(* commits the marks from time to time.  A process that dies starts again     *)
(* from the committed offsets.  Here one process reads all the partitions.    *)
EXTENDS Integers, FiniteSets, SequencesExt

CONSTANTS
    Tasks,
    Partitions,
    PartitionOf,        \* of a task's key
    BulkPartition,      \* of the key of a user's bulk deletions
    Kinds,              \* kinds of the events published
    MaxRetryAttempts,
    MaxEvents,          \* bound: events of one partition
    MaxCrashes,         \* bound
    MaxErrors           \* bound: failed statements, calls and transactions

AllKinds == {"created", "updated", "deleted", "bulk_deleted"}
Offsets == 1 .. MaxEvents
Events == [kind : AllKinds, tasks : SUBSET Tasks]

ASSUME KeyAssumption == PartitionOf \in [Tasks -> Partitions] /\ BulkPartition \in Partitions
ASSUME KindAssumption == Kinds \subseteq AllKinds
ASSUME BoundAssumption ==
    /\ MaxRetryAttempts \in Nat \ {0} /\ MaxEvents \in Nat
    /\ MaxCrashes \in Nat /\ MaxErrors \in Nat

VARIABLES
    log,        \* the topic
    committed,  \* committed offset of each partition: the messages behind it
    marked,     \* marked ones of the running process, the next is in work
    pc,
    mirror,     \* the snapshot of a task: the offset of the event it shows, 0: no row
    processed,  \* rows of processed_events: <<partition, offset>>
    failed,     \* retry_count of the row in failed_events, 0: no row
    dlq,        \* messages of the dead letter topic
    handled,    \* history: messages whose handler's transaction has committed
    crashes,
    errors,
    unkept      \* errors among them that hit processed_events or failed_events

bookVars == <<processed, failed, dlq>>
faultVars == <<crashes, errors, unkept>>
vars == <<log, committed, marked, pc, mirror, processed, failed, dlq, handled, faultVars>>

-----------------------------------------------------------------------------
Init ==
    /\ log = [p \in Partitions |-> <<>>]
    /\ committed = [p \in Partitions |-> 0]
    /\ marked = [p \in Partitions |-> 0]
    /\ pc = [p \in Partitions |-> "poll"]
    /\ mirror = [t \in Tasks |-> 0]
    /\ processed = {}
    /\ failed = [p \in Partitions |-> [k \in Offsets |-> 0]]
    /\ dlq = {}
    /\ handled = {}
    /\ crashes = 0 /\ errors = 0 /\ unkept = 0

Published == UNION {ToSet(log[p]) : p \in Partitions}
Created(t) == \E e \in Published : e.kind = "created" /\ t \in e.tasks
Deleted(t) == \E e \in Published : e.kind \in {"deleted", "bulk_deleted"} /\ t \in e.tasks

Send(p, e) ==
    /\ e.kind \in Kinds /\ Len(log[p]) < MaxEvents
    /\ log' = [log EXCEPT ![p] = Append(@, e)]
    /\ UNCHANGED <<committed, marked, pc, mirror, bookVars, handled, faultVars>>

\* ptm_task keys the events of a task by its id, and a bulk deletion by the user's.
Publish ==
    \/ \E t \in Tasks, kind \in {"created", "updated", "deleted"} :
         /\ IF kind = "created" THEN ~Created(t) ELSE Created(t) /\ ~Deleted(t)
         /\ Send(PartitionOf[t], [kind |-> kind, tasks |-> {t}])
    \/ \E S \in (SUBSET Tasks) \ {{}} :
         /\ \A t \in S : Created(t) /\ ~Deleted(t)
         /\ Send(BulkPartition, [kind |-> "bulk_deleted", tasks |-> S])

-----------------------------------------------------------------------------
Goto(p, label) == pc' = [pc EXCEPT ![p] = label]
Offset(p) == marked[p] + 1
Message(p) == <<p, Offset(p)>>

\* Mutant: MarkOffset of the next message instead of MarkMessage.
MarkNext(p) ==
    /\ Goto(p, "poll")
    /\ marked' = [marked EXCEPT ![p] = @ + 2]

\* The handler has returned: MarkMessage, with an error or without.
Return(p) ==
    /\ Goto(p, "poll")
    /\ marked' = [marked EXCEPT ![p] = @ + 1]

Error(kept) ==
    /\ errors < MaxErrors
    /\ errors' = errors + 1
    /\ unkept' = IF kept THEN unkept ELSE unkept + 1
    /\ UNCHANGED crashes

\* Mutant: processed_events is not consulted.
ReceiveAll(p) ==
    /\ pc[p] = "poll" /\ marked[p] < Len(log[p])
    /\ Goto(p, "handle")
    /\ UNCHANGED <<log, committed, marked, mirror, bookVars, handled, faultVars>>

\* Mutant: the event is entered in processed_events before it is handled.
ReceiveAndRecord(p) ==
    /\ pc[p] = "poll" /\ marked[p] < Len(log[p])
    /\ IF Message(p) \in processed THEN Return(p) ELSE Goto(p, "handle") /\ UNCHANGED marked
    /\ processed' = processed \cup {Message(p)}
    /\ UNCHANGED <<log, committed, mirror, failed, dlq, handled, faultVars>>

Receive(p) ==
    /\ pc[p] = "poll" /\ marked[p] < Len(log[p])
    /\ \/ /\ Message(p) \notin processed
          /\ Goto(p, "handle") /\ UNCHANGED <<marked, faultVars>>
       \/ /\ Message(p) \in processed
          /\ Return(p) /\ UNCHANGED faultVars
       \/ Error(FALSE) /\ Return(p)
    /\ UNCHANGED <<log, committed, mirror, bookVars, handled>>

(* HandleTaskCreated leaves a snapshot alone, HandleTaskUpdated a task that   *)
(* has none; the deletions fail for a task without a snapshot.                *)
Succeeds(e) == e.kind \in {"deleted", "bulk_deleted"} => \A t \in e.tasks : mirror[t] > 0

Snapshot(e, t, offset) ==
    CASE e.kind = "created" -> IF mirror[t] = 0 THEN offset ELSE mirror[t]
      [] e.kind = "updated" -> IF mirror[t] = 0 THEN 0 ELSE offset
      [] OTHER -> 0

\* Mutant: the error of the transaction is not returned.
HandleUncommitted(p) ==
    /\ pc[p] = "handle" /\ Succeeds(log[p][Offset(p)])
    /\ handled' = handled \cup {Message(p)}
    /\ Goto(p, "applied")
    /\ UNCHANGED <<log, committed, marked, mirror, bookVars, faultVars>>

Handle(p) ==
    LET e == log[p][Offset(p)]
    IN  /\ pc[p] = "handle" /\ Succeeds(e)
        /\ mirror' = [t \in Tasks |->
              IF t \in e.tasks THEN Snapshot(e, t, Offset(p)) ELSE mirror[t]]
        /\ handled' = handled \cup {Message(p)}
        /\ Goto(p, "applied")
        /\ UNCHANGED <<log, committed, marked, bookVars, faultVars>>

\* An error of the domain, or of the transaction: nothing is written.
HandleFails(p) ==
    /\ pc[p] = "handle"
    /\ \/ ~Succeeds(log[p][Offset(p)]) /\ UNCHANGED faultVars
       \/ Error(TRUE)
    /\ Goto(p, "failed")
    /\ UNCHANGED <<log, committed, marked, mirror, bookVars, handled>>

\* The error of MarkEventProcessed is only logged, DeleteFailedEvent is left out.
RecordProcessed(p) ==
    /\ pc[p] = "applied"
    /\ \/ /\ processed' = processed \cup {Message(p)}
          /\ Goto(p, "clear") /\ UNCHANGED <<marked, faultVars>>
       \/ Error(FALSE) /\ Return(p) /\ UNCHANGED processed
    /\ UNCHANGED <<log, committed, mirror, failed, dlq, handled>>

ClearFailed(p) ==
    /\ pc[p] = "clear"
    /\ \/ failed' = [failed EXCEPT ![p][Offset(p)] = 0] /\ UNCHANGED faultVars
       \/ Error(FALSE) /\ UNCHANGED failed
    /\ Return(p)
    /\ UNCHANGED <<log, committed, mirror, processed, dlq, handled>>

RecordFailed(p) ==
    /\ pc[p] = "failed"
    /\ \/ /\ failed' = [failed EXCEPT ![p][Offset(p)] = @ + 1]
          /\ IF failed'[p][Offset(p)] >= MaxRetryAttempts
               THEN Goto(p, "dlq") /\ UNCHANGED marked
               ELSE Return(p)
          /\ UNCHANGED faultVars
       \/ Error(FALSE) /\ Return(p) /\ UNCHANGED failed
    /\ UNCHANGED <<log, committed, mirror, processed, dlq, handled>>

\* Neither the send nor the status of the row is looked at again.
SendToDLQ(p) ==
    /\ pc[p] = "dlq"
    /\ \/ dlq' = dlq \cup {Message(p)} /\ UNCHANGED faultVars
       \/ Error(TRUE) /\ UNCHANGED dlq
    /\ Return(p)
    /\ UNCHANGED <<log, committed, mirror, processed, failed, handled>>

-----------------------------------------------------------------------------
\* sarama's auto-commit.
AutoCommit(p) ==
    /\ committed[p] < marked[p]
    /\ committed' = [committed EXCEPT ![p] = marked[p]]
    /\ UNCHANGED <<log, marked, pc, mirror, bookVars, handled, faultVars>>

(* CleanupOldEvents forgets an event after a day, long after the commit of    *)
(* its offset.                                                                *)
CleanupOldEvents(p, k) ==
    /\ <<p, k>> \in processed /\ k <= committed[p]
    /\ processed' = processed \ {<<p, k>>}
    /\ UNCHANGED <<log, committed, marked, pc, mirror, failed, dlq, handled, faultVars>>

Crash ==
    /\ crashes < MaxCrashes
    /\ crashes' = crashes + 1
    /\ pc' = [p \in Partitions |-> "poll"]
    /\ marked' = committed
    /\ UNCHANGED <<log, committed, mirror, bookVars, handled, errors, unkept>>

ClaimStep(p) == Receive(p) \/ Handle(p) \/ HandleFails(p) \/ RecordProcessed(p)
                  \/ ClearFailed(p) \/ RecordFailed(p) \/ SendToDLQ(p)

Next ==
    \/ Publish
    \/ \E p \in Partitions : ClaimStep(p) \/ AutoCommit(p)
    \/ \E p \in Partitions, k \in Offsets : CleanupOldEvents(p, k)
    \/ Crash

Spec == Init /\ [][Next]_vars

\* A claim goes on with its message and takes the next one; nothing has to be
\* published and nothing has to fail.
FairSpec == Spec /\ \A p \in Partitions : WF_vars(ClaimStep(p))

-----------------------------------------------------------------------------
(* The type invariant of the consumer and of its tables.                      *)
TypeOK ==
    /\ log \in [Partitions -> Seq(Events)]
    /\ committed \in [Partitions -> 0 .. MaxEvents]
    /\ marked \in [Partitions -> 0 .. MaxEvents]
    /\ pc \in [Partitions -> {"poll", "handle", "applied", "clear", "failed", "dlq"}]
    /\ mirror \in [Tasks -> 0 .. MaxEvents]
    /\ processed \subseteq Partitions \X Offsets
    /\ failed \in [Partitions -> [Offsets -> Nat]]
    /\ dlq \subseteq Partitions \X Offsets
    /\ handled \subseteq Partitions \X Offsets
    /\ crashes \in 0 .. MaxCrashes /\ errors \in 0 .. MaxErrors /\ unkept \in 0 .. errors
    /\ \A p \in Partitions : committed[p] <= marked[p] /\ marked[p] <= Len(log[p])

(* No message is forgotten: behind the committed offset every one has been    *)
(* applied or has a row in failed_events, unless the statement that had to    *)
(* look it up or to write the row failed.  (WrapHandler, ConsumeClaim)        *)
NothingForgotten ==
    Cardinality({m \in Partitions \X Offsets :
        /\ m[2] <= committed[m[1]]
        /\ m \notin handled /\ failed[m[1]][m[2]] = 0}) <= unkept

\* Nothing fails but processes, and no bulk deletion comes by another partition.
OnlyCrashes == MaxErrors = 0 /\ "bulk_deleted" \notin Kinds

(* Where only crashes happen and no bulk deletion overtakes the other events, *)
(* a row of failed_events is a false alarm: the redelivery failed of an event *)
(* that had been applied.  (HandleTaskDeleted, WrapHandler)                   *)
OnlyRepeatsFail ==
    \A p \in Partitions, k \in Offsets : failed[p][k] > 0 => <<p, k>> \in handled

Mirror == INSTANCE TaskMirror
            WITH applied <- [p \in Partitions |->
                               Cardinality({k \in Offsets : <<p, k>> \in handled})]

(* Crashes and redeliveries do not show: the snapshots follow the events,     *)
(* each applied once and in order.  (WrapHandler, HandleTaskCreated)          *)
MirrorInOrder == Mirror!Spec

(* And each in the end.                                                       *)
MirrorFollowsLog == Mirror!FairSpec

(* message_processing_middleware.go: "Event will be retried", until it has    *)
(* been processed or has reached the dead letter topic.                       *)
FailedIsRetried ==
    \A p \in Partitions, k \in Offsets :
        failed[p][k] > 0 ~> (<<p, k>> \in processed \/ <<p, k>> \in dlq)
=============================================================================
