---------------------- MODULE TaskEventConsumer_proofs ----------------------
(* Proofs about the consumer of the task events: for any partitions, tasks,   *)
(* keys and bounds.                                                           *)
EXTENDS TaskEventConsumer, FiniteSetTheorems, SequenceTheorems, TLAPS

-----------------------------------------------------------------------------
(* Type correctness.  A claim that is not polling has a message in work, the  *)
(* one behind the marks: without it a return could mark past the log.         *)

Labels == {"poll", "handle", "applied", "clear", "failed", "dlq"}

HasWork == \A p \in Partitions : pc[p] # "poll" => marked[p] < Len(log[p])

LogsBounded == \A p \in Partitions : Len(log[p]) <= MaxEvents

TypeInv == TypeOK /\ HasWork /\ LogsBounded

LEMMA LogType ==
    ASSUME TypeOK, NEW p \in Partitions
    PROVE  log[p] \in Seq(Events) /\ Len(log[p]) \in Nat
BY LenProperties DEF TypeOK

\* The message in work has an offset, and is in the log.
LEMMA WorkType ==
    ASSUME TypeInv, NEW p \in Partitions, marked[p] < Len(log[p])
    PROVE  /\ marked[p] \in 0 .. MaxEvents /\ Offset(p) = marked[p] + 1
           /\ Offset(p) \in Offsets /\ Offset(p) \in 1 .. Len(log[p])
           /\ Message(p) = <<p, Offset(p)>> /\ Message(p) \in Partitions \X Offsets
           /\ log[p][Offset(p)] \in Events
<1>1. Len(log[p]) \in Nat /\ log[p] \in Seq(Events) /\ Len(log[p]) <= MaxEvents
  BY LogType DEF TypeInv, LogsBounded
<1>2. marked[p] \in 0 .. MaxEvents
  BY DEF TypeInv, TypeOK
<1>3. Offset(p) \in Offsets /\ Offset(p) \in 1 .. Len(log[p])
  BY <1>1, <1>2, BoundAssumption DEF Offset, Offsets
<1>4. log[p][Offset(p)] \in Events
  BY <1>1, <1>3, ElementOfSeq
<1> QED
  BY <1>2, <1>3, <1>4 DEF Message, Offset

\* What the step of a claim does to the marks and to the stage.
LEMMA ClaimMoves ==
    ASSUME TypeInv, NEW p \in Partitions, ClaimStep(p)
    PROVE  /\ marked[p] < Len(log[p]) /\ UNCHANGED <<log, committed, crashes>>
           /\ \/ \E label \in Labels \ {"poll"} : pc' = [pc EXCEPT ![p] = label] /\ marked' = marked
              \/ pc' = [pc EXCEPT ![p] = "poll"] /\ marked' = [marked EXCEPT ![p] = @ + 1]
<1>1. marked[p] < Len(log[p])
  BY DEF TypeInv, HasWork, ClaimStep, Receive, Handle, HandleFails, RecordProcessed, ClearFailed,
         RecordFailed, SendToDLQ
<1> QED
  BY <1>1 DEF ClaimStep, Receive, Handle, HandleFails, RecordProcessed, ClearFailed, RecordFailed,
         SendToDLQ, Return, Goto, Error, Labels, faultVars

LEMMA ErrorType ==
    ASSUME TypeOK, NEW kept \in BOOLEAN, Error(kept) \/ UNCHANGED faultVars
    PROVE  /\ crashes' \in 0 .. MaxCrashes /\ errors' \in 0 .. MaxErrors
           /\ unkept' \in 0 .. errors'
BY BoundAssumption DEF TypeOK, Error, faultVars

LEMMA CountType ==
    ASSUME TypeOK, NEW p \in Partitions, NEW k \in Offsets, NEW n \in Nat
    PROVE  [failed EXCEPT ![p][k] = n] \in [Partitions -> [Offsets -> Nat]]
BY DEF TypeOK

\* The tables a claim writes keep their types.
LEMMA ClaimTables ==
    ASSUME TypeInv, NEW p \in Partitions, ClaimStep(p)
    PROVE  /\ mirror' \in [Tasks -> 0 .. MaxEvents]
           /\ processed' \subseteq Partitions \X Offsets
           /\ failed' \in [Partitions -> [Offsets -> Nat]]
           /\ dlq' \subseteq Partitions \X Offsets
           /\ handled' \subseteq Partitions \X Offsets
           /\ crashes' \in 0 .. MaxCrashes /\ errors' \in 0 .. MaxErrors
           /\ unkept' \in 0 .. errors'
<1> DEFINE k == Offset(p)
<1>0. /\ Message(p) \in Partitions \X Offsets /\ k \in Offsets /\ Offsets \subseteq 0 .. MaxEvents
      /\ TypeOK /\ 0 \in 0 .. MaxEvents
  BY WorkType, ClaimMoves, BoundAssumption DEF TypeInv, Offsets
<1>1. CASE Receive(p)
  BY <1>0, <1>1, ErrorType DEF Receive, bookVars, TypeOK
<1>2. CASE Handle(p)
  <2>1. \A t \in Tasks : Snapshot(log[p][k], t, k) \in 0 .. MaxEvents
    BY <1>0 DEF Snapshot, TypeOK
  <2> QED
    BY <1>0, <1>2, <2>1 DEF Handle, bookVars, faultVars, TypeOK
<1>3. CASE HandleFails(p)
  BY <1>0, <1>3, ErrorType DEF HandleFails, bookVars, TypeOK
<1>4. CASE RecordProcessed(p)
  BY <1>0, <1>4, ErrorType DEF RecordProcessed, TypeOK
<1>5. CASE ClearFailed(p)
  <2>1. [failed EXCEPT ![p][k] = 0] \in [Partitions -> [Offsets -> Nat]]
    BY <1>0, CountType
  <2> QED
    BY <1>0, <1>5, <2>1, ErrorType DEF ClearFailed, TypeOK
<1>6. CASE RecordFailed(p)
  <2>1. failed[p][k] \in Nat
    BY <1>0 DEF TypeOK
  <2>2. PICK n \in Nat : n = failed[p][k] + 1
    BY <2>1
  <2>3. [failed EXCEPT ![p][k] = n] \in [Partitions -> [Offsets -> Nat]]
    BY <1>0, CountType
  <2>4. failed' = failed \/ failed' = [failed EXCEPT ![p][k] = n]
    BY <1>6, <2>2 DEF RecordFailed
  <2> QED
    BY <1>0, <1>6, <2>3, <2>4, ErrorType DEF RecordFailed, TypeOK
<1>7. CASE SendToDLQ(p)
  BY <1>0, <1>7, ErrorType DEF SendToDLQ, TypeOK
<1> QED
  BY <1>1, <1>2, <1>3, <1>4, <1>5, <1>6, <1>7 DEF ClaimStep

LEMMA ClaimType ==
    ASSUME TypeInv, NEW p \in Partitions, ClaimStep(p)
    PROVE  TypeInv'
<1>1. /\ marked[p] < Len(log[p]) /\ UNCHANGED <<log, committed, crashes>>
      /\ Len(log[p]) \in Nat /\ Len(log[p]) <= MaxEvents /\ MaxEvents \in Nat
  BY ClaimMoves, LogType, BoundAssumption DEF TypeInv, LogsBounded
<1>2. CASE \E label \in Labels \ {"poll"} : pc' = [pc EXCEPT ![p] = label] /\ marked' = marked
  <2>1. pc' \in [Partitions -> Labels] /\ marked' = marked
    BY <1>2 DEF TypeInv, TypeOK, Labels
  <2>2. HasWork'
    BY <1>1, <1>2 DEF TypeInv, TypeOK, HasWork
  <2> QED
    BY <1>1, <2>1, <2>2, ClaimTables DEF TypeInv, TypeOK, LogsBounded, Labels
<1>3. CASE pc' = [pc EXCEPT ![p] = "poll"] /\ marked' = [marked EXCEPT ![p] = @ + 1]
  <2>1. pc' \in [Partitions -> Labels]
    BY <1>3 DEF TypeInv, TypeOK, Labels
  <2>2. marked' \in [Partitions -> 0 .. MaxEvents]
    BY <1>1, <1>3 DEF TypeInv, TypeOK
  <2>3. \A q \in Partitions : committed'[q] <= marked'[q] /\ marked'[q] <= Len(log'[q])
    BY <1>1, <1>3 DEF TypeInv, TypeOK
  <2>4. HasWork'
    BY <1>1, <1>3 DEF TypeInv, TypeOK, HasWork
  <2> QED
    BY <1>1, <2>1, <2>2, <2>3, <2>4, ClaimTables DEF TypeInv, TypeOK, LogsBounded, Labels
<1> QED
  BY <1>2, <1>3, ClaimMoves

\* What a publication does to the logs.
LEMMA PublishEffect ==
    ASSUME TypeInv, Publish
    PROVE  \E p \in Partitions, e \in Events : Send(p, e)
<1>1. ASSUME NEW t \in Tasks, NEW kind \in {"created", "updated", "deleted"},
             Send(PartitionOf[t], [kind |-> kind, tasks |-> {t}])
      PROVE  \E p \in Partitions, e \in Events : Send(p, e)
  <2>1. PartitionOf[t] \in Partitions /\ [kind |-> kind, tasks |-> {t}] \in Events
    BY KeyAssumption DEF Events, AllKinds
  <2> QED
    BY <1>1, <2>1
<1>2. ASSUME NEW S \in SUBSET Tasks, Send(BulkPartition, [kind |-> "bulk_deleted", tasks |-> S])
      PROVE  \E p \in Partitions, e \in Events : Send(p, e)
  <2>1. BulkPartition \in Partitions /\ [kind |-> "bulk_deleted", tasks |-> S] \in Events
    BY KeyAssumption DEF Events, AllKinds
  <2> QED
    BY <1>2, <2>1
<1> QED
  BY <1>1, <1>2 DEF Publish

\* A log that gets one event longer.
LEMMA SendEffect ==
    ASSUME TypeInv, NEW p \in Partitions, NEW e \in Events, Send(p, e)
    PROVE  /\ log' \in [Partitions -> Seq(Events)]
           /\ Len(log'[p]) = Len(log[p]) + 1 /\ Len(log'[p]) <= MaxEvents
           /\ log'[p][Len(log'[p])] = e
           /\ \A k \in 1 .. Len(log[p]) : log'[p][k] = log[p][k]
           /\ \A q \in Partitions \ {p} : log'[q] = log[q]
<1>1. log[p] \in Seq(Events) /\ Len(log[p]) \in Nat /\ Len(log[p]) < MaxEvents
  BY LogType DEF TypeInv, Send
<1>2. log' = [log EXCEPT ![p] = Append(log[p], e)]
  BY DEF Send
<1>3. /\ Append(log[p], e) \in Seq(Events) /\ Len(Append(log[p], e)) = Len(log[p]) + 1
      /\ Append(log[p], e)[Len(log[p]) + 1] = e
      /\ \A k \in 1 .. Len(log[p]) : Append(log[p], e)[k] = log[p][k]
  BY <1>1, AppendProperties
<1> QED
  BY <1>1, <1>2, <1>3, BoundAssumption DEF TypeInv, TypeOK

LEMMA PublishType ==
    ASSUME TypeInv, Publish
    PROVE  TypeInv'
<1>1. PICK p \in Partitions, e \in Events : Send(p, e)
  BY PublishEffect
<1>2. \A q \in Partitions : /\ Len(log'[q]) >= Len(log[q]) /\ Len(log'[q]) <= MaxEvents
                            /\ Len(log[q]) \in Nat /\ Len(log'[q]) \in Nat
  BY <1>1, SendEffect, LogType DEF TypeInv, LogsBounded
<1>3. log' \in [Partitions -> Seq(Events)]
  BY <1>1, SendEffect
<1>4. UNCHANGED <<committed, marked, pc, mirror, bookVars, handled, faultVars>>
  BY <1>1 DEF Send
<1>5. TypeOK'
  BY SMTT(30), <1>2, <1>3, <1>4 DEF TypeInv, TypeOK, bookVars, faultVars
<1>6. HasWork' /\ LogsBounded'
  BY <1>2, <1>4 DEF TypeInv, TypeOK, HasWork, LogsBounded
<1> QED
  BY <1>5, <1>6 DEF TypeInv

LEMMA BrokerType ==
    ASSUME TypeInv,
           \/ \E p \in Partitions : AutoCommit(p)
           \/ \E p \in Partitions, k \in Offsets : CleanupOldEvents(p, k)
           \/ Crash
    PROVE  TypeInv'
<1>1. ASSUME NEW p \in Partitions, AutoCommit(p) PROVE TypeInv'
  <2>1. committed' \in [Partitions -> 0 .. MaxEvents]
    BY <1>1 DEF AutoCommit, TypeInv, TypeOK
  <2>2. \A q \in Partitions : committed'[q] <= marked[q]
    BY <1>1 DEF AutoCommit, TypeInv, TypeOK
  <2> QED
    BY <1>1, <2>1, <2>2 DEF AutoCommit, TypeInv, TypeOK, HasWork, LogsBounded, bookVars, faultVars
<1>2. ASSUME NEW p \in Partitions, NEW k \in Offsets, CleanupOldEvents(p, k) PROVE TypeInv'
  BY <1>2 DEF CleanupOldEvents, TypeInv, TypeOK, HasWork, LogsBounded, bookVars, faultVars
<1>3. CASE Crash
  <2>1. \A p \in Partitions : /\ committed[p] \in 0 .. MaxEvents /\ marked[p] \in 0 .. MaxEvents
                              /\ Len(log[p]) \in Nat
    BY LogType DEF TypeInv, TypeOK
  <2> QED
    BY <1>3, <2>1, BoundAssumption DEF Crash, TypeInv, TypeOK, HasWork, LogsBounded, bookVars
<1> QED
  BY <1>1, <1>2, <1>3

LEMMA TypeStep == TypeInv /\ [Next]_vars => TypeInv'
<1> SUFFICES ASSUME TypeInv, [Next]_vars PROVE TypeInv'
  OBVIOUS
<1>1. CASE UNCHANGED vars
  BY <1>1 DEF vars, TypeInv, TypeOK, HasWork, LogsBounded, faultVars
<1> QED
  BY <1>1, PublishType, ClaimType, BrokerType DEF Next

LEMMA TypeInit == Init => TypeInv
<1> SUFFICES ASSUME Init PROVE TypeInv
  OBVIOUS
<1>1. <<>> \in Seq(Events) /\ Len(<<>>) = 0
  BY EmptySeq
<1> QED
  BY <1>1, BoundAssumption DEF Init, TypeInv, TypeOK, HasWork, LogsBounded

(* The consumer and its tables are of their types; in particular no offset is *)
(* committed that was not marked, and none marked that is not in the log.     *)
THEOREM ConsumerTypeCorrect == Spec => []TypeOK
<1>1. Spec => []TypeInv
  BY TypeInit, TypeStep, PTL DEF Spec
<1> QED
  BY <1>1, PTL DEF TypeInv

-----------------------------------------------------------------------------
(* No message is forgotten.  NothingForgotten speaks of the committed offset, *)
(* which a commit moves to the marks: the invariant counts behind the marks.  *)

ProcessedHandled == processed \subseteq handled

\* What the stage of a claim says of the message in work.
StageKept ==
    \A p \in Partitions :
        /\ pc[p] \in {"applied", "clear"} => Message(p) \in handled
        /\ pc[p] = "dlq" => failed[p][Offset(p)] > 0

Lost(m) == m \notin handled /\ failed[m[1]][m[2]] = 0

Skipped == {m \in Partitions \X Offsets : m[2] <= marked[m[1]] /\ Lost(m)}

SkippedCounted == IsFiniteSet(Skipped) /\ Cardinality(Skipped) <= unkept

KeptInv == ProcessedHandled /\ StageKept /\ SkippedCounted

LEMMA Fewer ==
    ASSUME NEW S, IsFiniteSet(S), NEW T \in SUBSET S
    PROVE  /\ IsFiniteSet(T) /\ Cardinality(T) <= Cardinality(S)
           /\ Cardinality(T) \in Nat /\ Cardinality(S) \in Nat
BY FS_Subset, FS_CardinalityType

LEMMA OneMore ==
    ASSUME NEW S, IsFiniteSet(S), NEW x, NEW T \in SUBSET (S \cup {x})
    PROVE  /\ IsFiniteSet(T) /\ Cardinality(T) <= Cardinality(S) + 1
           /\ Cardinality(T) \in Nat /\ Cardinality(S) \in Nat
<1>1. Cardinality(S) \in Nat
  BY FS_CardinalityType
<1>2. IsFiniteSet(S \cup {x}) /\ Cardinality(S \cup {x}) <= Cardinality(S) + 1
  BY <1>1, FS_AddElement
<1>3. /\ IsFiniteSet(T) /\ Cardinality(T) <= Cardinality(S \cup {x})
      /\ Cardinality(T) \in Nat /\ Cardinality(S \cup {x}) \in Nat
  BY <1>2, Fewer
<1> QED
  BY <1>1, <1>2, <1>3

\* What a claim leaves of its message.
LEMMA ClaimKeeps ==
    ASSUME TypeInv, KeptInv, NEW p \in Partitions, ClaimStep(p)
    PROVE  /\ handled \subseteq handled' /\ processed' \subseteq handled'
           /\ \A q \in Partitions, j \in Offsets :
                 failed'[q][j] = 0 => failed[q][j] = 0 \/ <<q, j>> \in handled'
           /\ \A q \in Partitions \ {p} : failed'[q] = failed[q]
           /\ \/ UNCHANGED unkept
              \/ unkept' = unkept + 1 /\ pc'[p] = "poll"
           /\ \/ pc'[p] = "poll" /\ unkept' = unkept
                   => Message(p) \in handled' \/ failed'[p][Offset(p)] > 0
           /\ pc'[p] \in {"applied", "clear"} => Message(p) \in handled'
           /\ pc'[p] = "dlq" => failed'[p][Offset(p)] > 0
<1> DEFINE k == Offset(p)
<1>0. /\ Message(p) = <<p, k>> /\ k \in Offsets /\ TypeOK /\ ProcessedHandled
      /\ pc[p] \in {"applied", "clear"} => Message(p) \in handled
      /\ pc[p] = "dlq" => failed[p][k] > 0
      /\ pc \in [Partitions -> Labels] /\ unkept \in Nat
      /\ failed \in [Partitions -> [Offsets -> Nat]]
      /\ processed \subseteq handled
  <2>1. Message(p) = <<p, k>> /\ k \in Offsets
    BY WorkType, ClaimMoves
  <2>2. TypeOK
    BY DEF TypeInv
  <2>4. pc \in [Partitions -> Labels] /\ failed \in [Partitions -> [Offsets -> Nat]]
    BY <2>2 DEF TypeOK, Labels
  <2>5. errors \in Nat /\ unkept \in 0 .. errors
    BY <2>2 DEF TypeOK
  <2>3. /\ pc[p] \in {"applied", "clear"} => Message(p) \in handled
        /\ pc[p] = "dlq" => failed[p][k] > 0
        /\ ProcessedHandled /\ processed \subseteq handled
    BY DEF KeptInv, StageKept, ProcessedHandled
  <2> QED
    BY <2>1, <2>2, <2>3, <2>4, <2>5
<1>1. CASE Receive(p)
  <2>1. UNCHANGED <<processed, failed, handled>>
    BY <1>1 DEF Receive, bookVars
  <2>2. \/ pc'[p] = "handle" /\ unkept' = unkept
        \/ pc'[p] = "poll" /\ unkept' = unkept /\ Message(p) \in processed
        \/ pc'[p] = "poll" /\ unkept' = unkept + 1
    BY <1>0, <1>1 DEF Receive, Goto, Return, Error, faultVars
  <2> QED
    BY <1>0, <2>1, <2>2
<1>2. CASE Handle(p)
  BY <1>0, <1>2 DEF Handle, Goto, bookVars, faultVars
<1>3. CASE HandleFails(p)
  BY <1>0, <1>3 DEF HandleFails, Goto, Error, bookVars, faultVars
<1>4. CASE RecordProcessed(p)
  BY <1>0, <1>4 DEF RecordProcessed, Goto, Return, Error, faultVars
<1>5. CASE ClearFailed(p)
  <2>0. failed' = [failed EXCEPT ![p][k] = 0] \/ failed' = failed
    BY <1>5 DEF ClearFailed
  <2>1. \A q \in Partitions, j \in Offsets : failed'[q][j] = failed[q][j] \/ (q = p /\ j = k)
    BY <1>0, <2>0
  <2> QED
    BY <1>0, <1>5, <2>1 DEF ClearFailed, Return, Goto, Error, faultVars
<1>6. CASE RecordFailed(p)
  <2>0. failed[p] \in [Offsets -> Nat] /\ failed[p][k] \in Nat
    BY <1>0
  <2>1. CASE Error(FALSE) /\ Return(p) /\ UNCHANGED failed
    BY <1>0, <1>6, <2>1 DEF RecordFailed, Return, Goto, Error
  <2>2. CASE /\ failed' = [failed EXCEPT ![p][k] = @ + 1]
             /\ IF failed'[p][k] >= MaxRetryAttempts
                  THEN Goto(p, "dlq") /\ UNCHANGED marked
                  ELSE Return(p)
             /\ UNCHANGED faultVars
    <3>1. failed'[p][k] = failed[p][k] + 1 /\ failed'[p][k] > 0
      BY <1>0, <2>0, <2>2
    <3>2. \A q \in Partitions, j \in Offsets : failed'[q][j] = failed[q][j] \/ (q = p /\ j = k)
      BY <1>0, <2>2
    <3> QED
      BY <1>0, <1>6, <2>2, <3>1, <3>2 DEF RecordFailed, Return, Goto, faultVars
  <2> QED
    BY <1>6, <2>1, <2>2 DEF RecordFailed
<1>7. CASE SendToDLQ(p)
  BY <1>0, <1>7 DEF SendToDLQ, Return, Goto, Error, faultVars
<1> QED
  BY <1>1, <1>2, <1>3, <1>4, <1>5, <1>6, <1>7 DEF ClaimStep

LEMMA ClaimKept ==
    ASSUME TypeInv, KeptInv, NEW p \in Partitions, ClaimStep(p)
    PROVE  KeptInv'
<1> DEFINE k == Offset(p)
<1>0. /\ Message(p) = <<p, k>> /\ k = marked[p] + 1 /\ k \in Offsets
      /\ marked \in [Partitions -> 0 .. MaxEvents] /\ pc \in [Partitions -> Labels]
      /\ unkept \in Nat /\ unkept' \in Nat /\ SkippedCounted
      /\ handled \subseteq Partitions \X Offsets
      /\ failed \in [Partitions -> [Offsets -> Nat]]
  <2>1. Message(p) = <<p, k>> /\ k = marked[p] + 1 /\ k \in Offsets
    BY WorkType, ClaimMoves
  <2>2. unkept' \in Nat
    BY ClaimTables
  <2> QED
    BY <2>1, <2>2 DEF TypeInv, TypeOK, KeptInv, Labels
<1>1. CASE \E label \in Labels \ {"poll"} : pc' = [pc EXCEPT ![p] = label] /\ marked' = marked
  <2>1. Skipped' \subseteq Skipped /\ unkept' = unkept
    BY <1>0, <1>1, ClaimKeeps DEF Skipped, Lost
  <2>2. StageKept'
    BY <1>0, <1>1, ClaimKeeps DEF KeptInv, StageKept, Message, Offset
  <2>3. SkippedCounted'
    BY <1>0, <2>1, Fewer DEF SkippedCounted
  <2> QED
    BY <2>2, <2>3, ClaimKeeps DEF KeptInv, ProcessedHandled
<1>2. CASE pc' = [pc EXCEPT ![p] = "poll"] /\ marked' = [marked EXCEPT ![p] = @ + 1]
  <2>1. Skipped' \subseteq Skipped \cup {Message(p)}
    <3> SUFFICES ASSUME NEW q \in Partitions, NEW j \in Offsets, <<q, j>> \in Skipped',
                        <<q, j>> # Message(p)
                 PROVE  <<q, j>> \in Skipped
      BY DEF Skipped
    <3>1. <<q, j>> \notin handled' /\ failed'[q][j] = 0 /\ j <= marked'[q]
      BY DEF Skipped, Lost
    <3>2. j <= marked[q]
      BY <1>0, <1>2, <3>1 DEF Offsets
    <3> QED
      BY <3>1, <3>2, ClaimKeeps DEF Skipped, Lost
  <2>2. unkept' = unkept => Skipped' \subseteq Skipped
    <3>1. ASSUME unkept' = unkept PROVE <<p, k>> \notin Skipped'
      <4>1. <<p, k>> \in handled' \/ failed'[p][k] > 0
        BY <1>0, <1>2, <3>1, ClaimKeeps
      <4> QED
        BY <4>1 DEF Skipped, Lost
    <3> QED
      BY <1>0, <2>1, <3>1
  <2>3. unkept' = unkept \/ unkept' = unkept + 1
    BY ClaimKeeps
  <2>4. SkippedCounted'
    <3>1. CASE unkept' = unkept
      BY <1>0, <2>2, <3>1, Fewer DEF SkippedCounted
    <3>2. CASE unkept' = unkept + 1
      <4>1. /\ IsFiniteSet(Skipped') /\ Cardinality(Skipped') <= Cardinality(Skipped) + 1
            /\ Cardinality(Skipped') \in Nat /\ Cardinality(Skipped) \in Nat
        BY <1>0, <2>1, OneMore DEF SkippedCounted
      <4> QED
        BY <1>0, <3>2, <4>1 DEF SkippedCounted
    <3> QED
      BY <2>3, <3>1, <3>2
  <2>5. StageKept'
    BY <1>0, <1>2, ClaimKeeps DEF KeptInv, StageKept, Message, Offset
  <2> QED
    BY <2>4, <2>5, ClaimKeeps DEF KeptInv, ProcessedHandled
<1> QED
  BY <1>1, <1>2, ClaimMoves

LEMMA KeptStep == TypeInv /\ KeptInv /\ [Next]_vars => KeptInv'
<1> SUFFICES ASSUME TypeInv, KeptInv, [Next]_vars PROVE KeptInv'
  OBVIOUS
<1>0. /\ unkept \in Nat /\ marked \in [Partitions -> 0 .. MaxEvents]
      /\ \A p \in Partitions : committed[p] \in Nat /\ committed[p] <= marked[p]
  BY DEF TypeInv, TypeOK
<1>1. CASE UNCHANGED <<processed, failed, handled, marked, pc, unkept>>
  BY <1>1 DEF KeptInv, ProcessedHandled, StageKept, Message, Offset, SkippedCounted, Skipped, Lost
<1>2. CASE Publish
  <2>1. PICK p \in Partitions, e \in Events : Send(p, e)
    BY <1>2, PublishEffect
  <2> QED
    BY <1>1, <2>1 DEF Send, bookVars, faultVars
<1>3. ASSUME NEW p \in Partitions, NEW k \in Offsets, CleanupOldEvents(p, k) PROVE KeptInv'
  <2>1. processed' \subseteq processed /\ UNCHANGED <<failed, handled, marked, pc, unkept>>
    BY <1>3 DEF CleanupOldEvents, faultVars
  <2> QED
    BY <2>1 DEF KeptInv, ProcessedHandled, StageKept, Message, Offset, SkippedCounted, Skipped, Lost
<1>4. CASE Crash
  <2>1. UNCHANGED <<processed, failed, handled, unkept>>
        /\ pc' = [p \in Partitions |-> "poll"] /\ marked' = committed
    BY <1>4 DEF Crash, bookVars
  <2>2. Skipped' \subseteq Skipped
    BY <1>0, <2>1 DEF Skipped, Lost, Offsets
  <2>3. SkippedCounted'
    BY <1>0, <2>1, <2>2, Fewer DEF KeptInv, SkippedCounted
  <2> QED
    BY <2>1, <2>3 DEF KeptInv, ProcessedHandled, StageKept
<1>5. ASSUME NEW p \in Partitions, AutoCommit(p) PROVE KeptInv'
  BY <1>1, <1>5 DEF AutoCommit, bookVars, faultVars
<1>6. CASE UNCHANGED vars
  BY <1>1, <1>6 DEF vars, faultVars
<1> QED
  BY <1>2, <1>3, <1>4, <1>5, <1>6, ClaimKept DEF Next

LEMMA KeptInit == Init => KeptInv
<1> SUFFICES ASSUME Init PROVE KeptInv
  OBVIOUS
<1>1. Skipped = {}
  BY DEF Init, Skipped, Offsets
<1> QED
  BY <1>1, FS_EmptySet DEF Init, KeptInv, ProcessedHandled, StageKept, SkippedCounted

(* Behind the committed offset every message has been applied or has its row  *)
(* in failed_events, but for one per statement of the two tables that failed: *)
(* whatever crashes, redeliveries and errors there are.                       *)
THEOREM ConsumerNothingForgotten == Spec => []NothingForgotten
<1>1. Spec => [](TypeInv /\ KeptInv)
  BY TypeInit, TypeStep, KeptInit, KeptStep, PTL DEF Spec
<1>2. TypeInv /\ KeptInv => NothingForgotten
  <2> SUFFICES ASSUME TypeInv, KeptInv PROVE NothingForgotten
    OBVIOUS
  <2> DEFINE Forgotten == {m \in Partitions \X Offsets :
                             /\ m[2] <= committed[m[1]]
                             /\ m \notin handled /\ failed[m[1]][m[2]] = 0}
  <2>1. \A p \in Partitions : /\ committed[p] \in Nat /\ marked[p] \in Nat
                              /\ committed[p] <= marked[p]
    BY DEF TypeInv, TypeOK
  <2>2. Forgotten \subseteq Skipped
    BY <2>1 DEF Skipped, Lost, Offsets
  <2>3. unkept \in Nat
    BY DEF TypeInv, TypeOK
  <2>4. Cardinality(Forgotten) <= unkept
    BY <2>2, <2>3, Fewer DEF KeptInv, SkippedCounted
  <2> QED
    BY <2>4 DEF NothingForgotten
<1> QED
  BY <1>1, <1>2, PTL

-----------------------------------------------------------------------------
(* Where only crashes happen and no bulk deletion overtakes the other events. *)
(* The handled messages of a partition are then a prefix of its log, and a    *)
(* message that comes again is the last of them, or a deletion, which fails.  *)

Done(p) == {k \in Offsets : <<p, k>> \in handled}
Applied(p) == Cardinality(Done(p))

PrefixDone == \A p \in Partitions : Applied(p) \in 0 .. Len(log[p]) /\ Done(p) = 1 .. Applied(p)

About(p, k, t) == k \in 1 .. Len(log[p]) /\ t \in log[p][k].tasks
Kind(p, k) == log[p][k].kind

\* A task is created first and deleted last, in the partition of its key.
LogInOrder ==
    \A p \in Partitions, t \in Tasks : \A k \in 1 .. Len(log[p]) : About(p, k, t) =>
        /\ PartitionOf[t] = p /\ log[p][k].tasks = {t} /\ Kind(p, k) # "bulk_deleted"
        /\ Kind(p, k) = "created" => \A j \in 1 .. k - 1 : ~About(p, j, t)
        /\ Kind(p, k) # "created" =>
             \E j \in 1 .. k - 1 : About(p, j, t) /\ Kind(p, j) = "created"
        /\ Kind(p, k) = "deleted" => \A j \in k + 1 .. Len(log[p]) : ~About(p, j, t)

EventsHaveTasks == \A p \in Partitions : \A k \in 1 .. Len(log[p]) : log[p][k].tasks # {}

\* A snapshot shows the last handled event about its task, unless that deletes it.
MirrorShows ==
    \A t \in Tasks : LET p == PartitionOf[t] IN
        \/ /\ mirror[t] = 0
           /\ \/ \A k \in 1 .. Applied(p) : ~About(p, k, t)
              \/ \E k \in 1 .. Applied(p) : About(p, k, t) /\ Kind(p, k) = "deleted"
        \/ /\ mirror[t] \in 1 .. Applied(p) /\ About(p, mirror[t], t)
           /\ \A k \in mirror[t] + 1 .. Applied(p) : ~About(p, k, t)
           /\ \A k \in 1 .. Applied(p) : About(p, k, t) => Kind(p, k) # "deleted"

\* What may come again: behind the marks or before the last handled message.
Settled(p, k) == <<p, k>> \in processed \/ Kind(p, k) = "deleted"

RepeatsSettled ==
    \A p \in Partitions : \A k \in 1 .. Applied(p) :
        committed[p] < k /\ (k <= marked[p] \/ k < Applied(p)) => Settled(p, k)

StageInOrder ==
    \A p \in Partitions :
        /\ marked[p] <= Applied(p)
        /\ pc[p] \notin {"poll", "handle"} => Offset(p) <= Applied(p)
        /\ pc[p] = "handle" => Message(p) \notin processed
        /\ pc[p] = "clear" => Message(p) \in processed
        /\ pc[p] \in {"failed", "dlq"} => Kind(p, Offset(p)) = "deleted"

OrderInv ==
    /\ PrefixDone /\ LogInOrder /\ EventsHaveTasks /\ MirrorShows /\ RepeatsSettled
    /\ StageInOrder /\ OnlyRepeatsFail

LEMMA OrderTypes ==
    ASSUME TypeInv, OrderInv, NEW p \in Partitions
    PROVE  /\ Applied(p) \in Nat /\ Len(log[p]) \in Nat /\ Applied(p) <= Len(log[p])
           /\ marked[p] \in Nat /\ committed[p] \in Nat /\ committed[p] <= marked[p]
           /\ marked[p] <= Applied(p) /\ Offset(p) = marked[p] + 1
           /\ Len(log[p]) <= MaxEvents /\ MaxEvents \in Nat
           /\ \A k \in Nat : <<p, k>> \in handled <=> k \in 1 .. Applied(p)
<1>1. /\ marked[p] \in Nat /\ committed[p] \in Nat /\ committed[p] <= marked[p]
      /\ handled \subseteq Partitions \X Offsets
  BY DEF TypeInv, TypeOK
<1>2. Len(log[p]) \in Nat /\ Len(log[p]) <= MaxEvents /\ MaxEvents \in Nat
  BY LogType, BoundAssumption DEF TypeInv, LogsBounded
<1>3. Applied(p) \in 0 .. Len(log[p]) /\ Done(p) = 1 .. Applied(p) /\ marked[p] <= Applied(p)
  BY DEF OrderInv, PrefixDone, StageInOrder
<1>4. \A k \in Nat : <<p, k>> \in handled <=> k \in Done(p)
  BY <1>1 DEF Done
<1> QED
  BY <1>1, <1>2, <1>3, <1>4 DEF Offset

LEMMA NoErrors == ASSUME OnlyCrashes, TypeInv PROVE \A b \in BOOLEAN : ~Error(b)
BY DEF OnlyCrashes, TypeInv, TypeOK, Error

\* The task a message is about.
LEMMA TaskOfMessage ==
    ASSUME TypeInv, OrderInv, NEW p \in Partitions, NEW k \in 1 .. Len(log[p])
    PROVE  \E t \in Tasks : /\ About(p, k, t) /\ log[p][k].tasks = {t} /\ PartitionOf[t] = p
                            /\ Kind(p, k) \in {"created", "updated", "deleted"}
<1>1. log[p][k] \in Events
  BY LogType, ElementOfSeq DEF TypeInv
<1>2. PICK t \in Tasks : About(p, k, t)
  BY <1>1 DEF OrderInv, EventsHaveTasks, About, Events
<1>3. Kind(p, k) \in AllKinds /\ Kind(p, k) # "bulk_deleted"
  BY <1>1, <1>2 DEF Kind, Events, OrderInv, LogInOrder
<1> QED
  BY <1>2, <1>3 DEF OrderInv, LogInOrder, AllKinds

\* A deletion handled is the end of its snapshot.
LEMMA DeletedIsGone ==
    ASSUME TypeInv, OrderInv, NEW t \in Tasks, NEW k \in 1 .. Applied(PartitionOf[t]),
           About(PartitionOf[t], k, t), Kind(PartitionOf[t], k) = "deleted"
    PROVE  mirror[t] = 0
BY DEF OrderInv, MirrorShows

\* A message that is handled for the first time finds its snapshot as it should
\* be: the task's creation makes it, and another event finds it.
LEMMA FirstTime ==
    ASSUME TypeInv, OrderInv, NEW p \in Partitions, marked[p] < Len(log[p]),
           Message(p) \notin handled
    PROVE  /\ Offset(p) = Applied(p) + 1 /\ Succeeds(log[p][Offset(p)])
           /\ \A t \in log[p][Offset(p)].tasks :
                Snapshot(log[p][Offset(p)], t, Offset(p)) =
                  IF Kind(p, Offset(p)) = "deleted" THEN 0 ELSE Offset(p)
<1> DEFINE k == Offset(p)
           e == log[p][k]
<1>1. /\ k \in Nat /\ k = marked[p] + 1 /\ marked[p] <= Applied(p) /\ Applied(p) \in Nat
      /\ k \in 1 .. Len(log[p]) /\ k \notin 1 .. Applied(p) /\ Message(p) = <<p, k>>
      /\ marked[p] \in Nat
  BY OrderTypes, WorkType
<1>2. k = Applied(p) + 1
  BY <1>1
<1>3. PICK t \in Tasks : /\ About(p, k, t) /\ e.tasks = {t} /\ PartitionOf[t] = p
                         /\ Kind(p, k) \in {"created", "updated", "deleted"}
  BY <1>1, TaskOfMessage
<1>4. \A j \in 1 .. Applied(p) : Kind(p, j) = "deleted" => ~About(p, j, t)
  <2> SUFFICES ASSUME NEW j \in 1 .. Applied(p), Kind(p, j) = "deleted", About(p, j, t)
               PROVE  FALSE
    OBVIOUS
  <2>1. j \in 1 .. Len(log[p]) /\ k \in j + 1 .. Len(log[p])
    BY <1>1, <1>2
  <2> QED
    BY <1>3, <2>1 DEF OrderInv, LogInOrder
<1>5. CASE Kind(p, k) = "created"
  <2>1. \A j \in 1 .. Applied(p) : ~About(p, j, t)
    BY <1>1, <1>2, <1>3, <1>5 DEF OrderInv, LogInOrder
  <2>2. mirror[t] = 0
    BY <1>3, <2>1 DEF OrderInv, MirrorShows
  <2> QED
    BY <1>2, <1>3, <1>5, <2>2 DEF Succeeds, Snapshot, Kind
<1>6. CASE Kind(p, k) # "created"
  <2>1. \E j \in 1 .. k - 1 : About(p, j, t)
    BY <1>1, <1>3, <1>6 DEF OrderInv, LogInOrder
  <2>2. \E j \in 1 .. Applied(p) : About(p, j, t)
    BY <1>2, <1>1, <2>1
  <2>3. mirror[t] \in 1 .. Applied(p)
    BY <1>3, <1>4, <2>2 DEF OrderInv, MirrorShows
  <2>4. mirror[t] # 0 /\ mirror[t] > 0
    BY <1>1, <2>3
  <2> QED
    BY <1>2, <1>3, <1>6, <2>4 DEF Succeeds, Snapshot, Kind
<1> QED
  BY <1>5, <1>6

\* A message that comes again is the last one handled, or fails.
LEMMA Repeated ==
    ASSUME TypeInv, OrderInv, NEW p \in Partitions, pc[p] = "handle", Message(p) \in handled
    PROVE  \/ Kind(p, Offset(p)) = "deleted" /\ ~Succeeds(log[p][Offset(p)])
           \/ /\ Kind(p, Offset(p)) # "deleted"
              /\ \A t \in log[p][Offset(p)].tasks :
                   Snapshot(log[p][Offset(p)], t, Offset(p)) = mirror[t]
<1> DEFINE k == Offset(p)
           e == log[p][k]
<1>0. marked[p] < Len(log[p])
  BY DEF TypeInv, HasWork
<1>1. /\ k \in Nat /\ k = marked[p] + 1 /\ committed[p] <= marked[p] /\ Applied(p) \in Nat
      /\ k \in 1 .. Len(log[p]) /\ k \in 1 .. Applied(p) /\ Message(p) = <<p, k>>
      /\ marked[p] \in Nat /\ committed[p] \in Nat
  BY <1>0, OrderTypes, WorkType
<1>2. Message(p) \notin processed
  BY DEF OrderInv, StageInOrder
<1>3. PICK t \in Tasks : /\ About(p, k, t) /\ e.tasks = {t} /\ PartitionOf[t] = p
                         /\ Kind(p, k) \in {"created", "updated", "deleted"}
  BY <1>1, TaskOfMessage
<1>4. CASE Kind(p, k) = "deleted"
  <2>1. mirror[t] = 0
    BY <1>1, <1>3, <1>4, DeletedIsGone
  <2> QED
    BY <1>3, <1>4, <2>1 DEF Succeeds, Kind
<1>5. CASE Kind(p, k) # "deleted"
  <2>1. ~Settled(p, k)
    BY <1>1, <1>2, <1>5 DEF Settled
  <2>2. k = Applied(p)
    BY <1>1, <2>1 DEF OrderInv, RepeatsSettled
  <2>3. \A j \in 1 .. Applied(p) : About(p, j, t) => Kind(p, j) # "deleted"
    <3> SUFFICES ASSUME NEW j \in 1 .. Applied(p), About(p, j, t), Kind(p, j) = "deleted"
                 PROVE  FALSE
      OBVIOUS
    <3>1. j # k
      BY <1>5
    <3>2. j \in 1 .. Len(log[p]) /\ k \in j + 1 .. Len(log[p])
      BY <1>1, <2>2, <3>1
    <3> QED
      BY <1>3, <3>2 DEF OrderInv, LogInOrder
  <2>4. /\ mirror[t] \in 1 .. Applied(p)
        /\ \A j \in mirror[t] + 1 .. Applied(p) : ~About(p, j, t)
    BY <1>1, <1>3, <2>3 DEF OrderInv, MirrorShows
  <2>5. mirror[t] = k /\ mirror[t] # 0
    BY <1>1, <1>3, <2>2, <2>4
  <2> QED
    BY <1>3, <1>5, <2>5 DEF Snapshot, Kind
<1> QED
  BY <1>4, <1>5

\* What handling a message does: it is new, and the next, or nothing changes.
LEMMA HandleEffect ==
    ASSUME TypeInv, OrderInv, NEW p \in Partitions, Handle(p)
    PROVE  \/ Message(p) \in handled /\ UNCHANGED <<mirror, handled>>
                /\ Kind(p, Offset(p)) # "deleted"
           \/ /\ Message(p) \notin handled /\ Offset(p) = Applied(p) + 1
              /\ handled' = handled \cup {Message(p)}
              /\ mirror' = [t \in Tasks |->
                   IF t \notin log[p][Offset(p)].tasks THEN mirror[t]
                   ELSE IF Kind(p, Offset(p)) = "deleted" THEN 0 ELSE Offset(p)]
<1>1. pc[p] = "handle" /\ Succeeds(log[p][Offset(p)]) /\ marked[p] < Len(log[p])
  BY DEF Handle, TypeInv, HasWork
<1>2. /\ mirror' = [t \in Tasks |-> IF t \in log[p][Offset(p)].tasks
                                     THEN Snapshot(log[p][Offset(p)], t, Offset(p)) ELSE mirror[t]]
      /\ handled' = handled \cup {Message(p)}
  BY DEF Handle
<1>3. mirror = [t \in Tasks |-> mirror[t]]
  BY DEF TypeInv, TypeOK
<1>4. CASE Message(p) \in handled
  BY <1>1, <1>2, <1>3, <1>4, Repeated
<1>5. CASE Message(p) \notin handled
  BY <1>1, <1>2, <1>5, FirstTime
<1> QED
  BY <1>4, <1>5

\* The parts of the invariant that only read the log, the snapshots and what is handled.
LEMMA OrderKept ==
    ASSUME OrderInv, UNCHANGED <<log, handled, mirror>>
    PROVE  /\ PrefixDone' /\ LogInOrder' /\ EventsHaveTasks' /\ MirrorShows'
           /\ \A p \in Partitions : Applied(p)' = Applied(p)
<1>1. \A p : Applied(p)' = Applied(p) /\ Done(p)' = Done(p)
  BY DEF Applied, Done
<1>2. \A p, k, t : About(p, k, t)' = About(p, k, t) /\ Kind(p, k)' = Kind(p, k)
  BY DEF About, Kind
<1>3. PrefixDone'
  BY <1>1 DEF OrderInv, PrefixDone
<1>4. LogInOrder' /\ EventsHaveTasks'
  BY <1>2 DEF OrderInv, LogInOrder, EventsHaveTasks
<1>5. MirrorShows'
  BY <1>1, <1>2 DEF OrderInv, MirrorShows
<1> QED
  BY <1>1, <1>3, <1>4, <1>5

\* A claim returns from a message that is handled and settled.
LEMMA ReturnOrder ==
    ASSUME TypeInv, OrderInv, NEW p \in Partitions, Return(p), marked[p] < Len(log[p]),
           UNCHANGED <<log, committed, processed>>,
           \A q \in Partitions : Applied(q)' = Applied(q),
           Offset(p) <= Applied(p), Settled(p, Offset(p))
    PROVE  RepeatsSettled' /\ StageInOrder'
<1>1. /\ marked \in [Partitions -> 0 .. MaxEvents] /\ pc \in [Partitions -> Labels]
      /\ \A q \in Partitions : /\ Applied(q) \in Nat /\ marked[q] \in Nat /\ committed[q] \in Nat
                               /\ Offset(q) = marked[q] + 1
  BY OrderTypes DEF TypeInv, TypeOK, Labels
<1>2. /\ marked'[p] = marked[p] + 1 /\ pc'[p] = "poll"
      /\ \A q \in Partitions \ {p} : marked'[q] = marked[q] /\ pc'[q] = pc[q]
  BY <1>1 DEF Return, Goto
<1>3. RepeatsSettled'
  <2> SUFFICES ASSUME NEW q \in Partitions, NEW k \in 1 .. Applied(q), committed[q] < k,
                      k <= marked'[q] \/ k < Applied(q)
               PROVE  Settled(q, k)'
    BY DEF RepeatsSettled
  <2>1. Settled(q, k)
    <3>1. CASE q = p /\ k = Offset(p)
      BY <3>1
    <3>2. CASE q # p \/ k # Offset(p)
      BY <1>1, <1>2, <3>2 DEF OrderInv, RepeatsSettled
    <3> QED
      BY <3>1, <3>2
  <2> QED
    BY <2>1 DEF Settled, Kind
<1>4. StageInOrder'
  BY <1>1, <1>2 DEF OrderInv, StageInOrder, Offset, Message, Kind
<1> QED
  BY <1>3, <1>4

\* A claim goes to its next stage.
LEMMA GotoOrder ==
    ASSUME TypeInv, OrderInv, NEW p \in Partitions, NEW label \in Labels \ {"poll"},
           Goto(p, label), marked[p] < Len(log[p]),
           UNCHANGED <<log, committed, marked>>,
           \A q \in Partitions : Applied(q)' = Applied(q),
           \A m \in Partitions \X Offsets : m # Message(p) => (m \in processed' <=> m \in processed),
           processed \subseteq processed',
           label = "handle" => Message(p) \notin processed',
           label # "handle" => Offset(p) <= Applied(p),
           label = "clear" => Message(p) \in processed',
           label \in {"failed", "dlq"} => Kind(p, Offset(p)) = "deleted"
    PROVE  RepeatsSettled' /\ StageInOrder'
<1>1. pc \in [Partitions -> Labels] /\ pc' = [pc EXCEPT ![p] = label]
  BY DEF TypeInv, TypeOK, Labels, Goto
<1>2. RepeatsSettled'
  BY DEF OrderInv, RepeatsSettled, Settled, Kind
<1>3. ASSUME NEW q \in Partitions
      PROVE  /\ marked[q] <= Applied(q)
             /\ pc'[q] \notin {"poll", "handle"} => Offset(q) <= Applied(q)
             /\ pc'[q] = "handle" => Message(q) \notin processed'
             /\ pc'[q] = "clear" => Message(q) \in processed'
             /\ pc'[q] \in {"failed", "dlq"} => Kind(q, Offset(q)) = "deleted"
  <2>1. CASE q = p
    BY <1>1, <2>1 DEF OrderInv, StageInOrder
  <2>2. CASE q # p
    <3>1. pc'[q] = pc[q] /\ Message(q) # Message(p)
      BY <1>1, <2>2 DEF Message
    <3>2. pc[q] # "poll" => Message(q) \in Partitions \X Offsets
      BY WorkType DEF TypeInv, HasWork
    <3> QED
      BY <3>1, <3>2 DEF OrderInv, StageInOrder
  <2> QED
    BY <2>1, <2>2
<1>4. \A q \in Partitions : /\ Offset(q)' = Offset(q) /\ Message(q)' = Message(q)
                            /\ Kind(q, Offset(q))' = Kind(q, Offset(q))
  BY DEF Offset, Message, Kind
<1>5. StageInOrder'
  BY <1>3, <1>4 DEF StageInOrder
<1> QED
  BY <1>2, <1>5

\* The steps of a claim around its handler.
LEMMA AroundHandler ==
    ASSUME TypeInv, KeptInv, OrderInv, OnlyCrashes, NEW p \in Partitions,
           ClaimStep(p), ~Handle(p)
    PROVE  OrderInv'
<1> DEFINE k == Offset(p)
<1>0. /\ marked[p] < Len(log[p]) /\ UNCHANGED <<log, committed>>
      /\ Message(p) = <<p, k>> /\ k \in Offsets /\ k \in Nat
      /\ Message(p) \in handled <=> k <= Applied(p)
      /\ pc \in [Partitions -> Labels]
  <2>1. /\ marked[p] < Len(log[p]) /\ UNCHANGED <<log, committed>>
    BY ClaimMoves
  <2>2. Message(p) = <<p, k>> /\ k \in Offsets /\ k \in Nat /\ k > 0
    BY <2>1, WorkType DEF Offsets
  <2>3. <<p, k>> \in handled <=> k \in 1 .. Applied(p)
    BY <2>2, OrderTypes
  <2>4. Applied(p) \in Nat
    BY OrderTypes
  <2> QED
    BY <2>1, <2>2, <2>3, <2>4 DEF TypeInv, TypeOK, Labels
<1>1. UNCHANGED <<mirror, handled>>
  BY DEF ClaimStep, Receive, HandleFails, RecordProcessed, ClearFailed, RecordFailed, SendToDLQ
<1>2. /\ PrefixDone' /\ LogInOrder' /\ EventsHaveTasks' /\ MirrorShows'
      /\ \A q \in Partitions : Applied(q)' = Applied(q)
  BY <1>0, <1>1, OrderKept
<1>3. /\ pc[p] \in {"applied", "clear", "failed", "dlq"} => k <= Applied(p)
      /\ pc[p] = "clear" => Message(p) \in processed
      /\ pc[p] \in {"failed", "dlq"} => Kind(p, k) = "deleted"
  BY DEF OrderInv, StageInOrder
<1>4. ASSUME \A q \in Partitions, j \in Offsets :
               failed'[q][j] > 0 => failed[q][j] > 0 \/ <<q, j>> \in handled
      PROVE  OnlyRepeatsFail'
  BY <1>1, <1>4 DEF OrderInv, OnlyRepeatsFail
<1>5. CASE Receive(p)
  <2>1. UNCHANGED <<processed, failed>> /\ OnlyRepeatsFail'
    BY <1>4, <1>5 DEF Receive, bookVars
  <2>2. CASE Message(p) \in processed /\ Return(p)
    <3>1. Message(p) \in handled /\ Settled(p, k)
      BY <1>0, <2>2 DEF KeptInv, ProcessedHandled, Settled
    <3> QED
      BY <1>0, <1>2, <2>1, <2>2, <3>1, ReturnOrder DEF OrderInv
  <2>3. CASE Message(p) \notin processed /\ Goto(p, "handle") /\ UNCHANGED marked
    <3>1. RepeatsSettled' /\ StageInOrder'
      BY <1>0, <1>2, <2>1, <2>3, GotoOrder DEF Labels
    <3> QED
      BY <1>2, <2>1, <3>1 DEF OrderInv
  <2> QED
    BY <1>5, <2>2, <2>3, NoErrors DEF Receive
<1>6. CASE HandleFails(p)
  <2>1. /\ pc[p] = "handle" /\ ~Succeeds(log[p][k]) /\ Goto(p, "failed")
        /\ UNCHANGED <<processed, failed, marked>>
    BY <1>6, NoErrors DEF HandleFails, bookVars
  <2>2. Message(p) \in handled
    BY <1>0, <2>1, FirstTime
  <2>3. Kind(p, k) = "deleted"
    <3>1. log[p][k] \in Events /\ k \in 1 .. Len(log[p])
      BY <1>0, WorkType
    <3>2. Kind(p, k) \in {"created", "updated", "deleted"}
      BY <3>1, TaskOfMessage
    <3> QED
      BY <2>1, <3>2 DEF Succeeds, Kind
  <2>4. RepeatsSettled' /\ StageInOrder'
    BY <1>0, <1>2, <2>1, <2>2, <2>3, GotoOrder DEF Labels
  <2>5. OnlyRepeatsFail'
    BY <1>4, <2>1
  <2> QED
    BY <1>2, <2>4, <2>5 DEF OrderInv
<1>7. CASE RecordProcessed(p)
  <2>1. /\ pc[p] = "applied" /\ processed' = processed \cup {Message(p)} /\ Goto(p, "clear")
        /\ UNCHANGED <<marked, failed>>
    BY <1>7, NoErrors DEF RecordProcessed
  <2>2. RepeatsSettled' /\ StageInOrder'
    BY <1>0, <1>2, <1>3, <2>1, GotoOrder DEF Labels
  <2>3. OnlyRepeatsFail'
    BY <1>4, <2>1
  <2> QED
    BY <1>2, <2>2, <2>3 DEF OrderInv
<1>8. CASE ClearFailed(p)
  <2>1. /\ pc[p] = "clear" /\ Return(p) /\ UNCHANGED processed
        /\ failed' = [failed EXCEPT ![p][k] = 0]
    BY <1>8, NoErrors DEF ClearFailed
  <2>2. RepeatsSettled' /\ StageInOrder'
    BY <1>0, <1>2, <1>3, <2>1, ReturnOrder DEF Settled
  <2>3. \A q \in Partitions, j \in Offsets : failed'[q][j] > 0 => failed[q][j] > 0
    BY <1>0, <2>1 DEF TypeInv, TypeOK
  <2>4. OnlyRepeatsFail'
    BY <1>4, <2>3
  <2> QED
    BY <1>2, <2>2, <2>4 DEF OrderInv
<1>9. CASE RecordFailed(p)
  <2>1. /\ pc[p] = "failed" /\ UNCHANGED processed
        /\ failed' = [failed EXCEPT ![p][k] = @ + 1]
        /\ Return(p) \/ (Goto(p, "dlq") /\ UNCHANGED marked)
    BY <1>9, NoErrors DEF RecordFailed
  <2>2. RepeatsSettled' /\ StageInOrder'
    <3>1. CASE Return(p)
      BY <1>0, <1>2, <1>3, <2>1, <3>1, ReturnOrder DEF Settled
    <3>2. CASE Goto(p, "dlq") /\ UNCHANGED marked
      BY <1>0, <1>2, <1>3, <2>1, <3>2, GotoOrder DEF Labels
    <3> QED
      BY <2>1, <3>1, <3>2
  <2>3. \A q \in Partitions, j \in Offsets :
          failed'[q][j] > 0 => failed[q][j] > 0 \/ (q = p /\ j = k)
    BY <1>0, <2>1 DEF TypeInv, TypeOK
  <2>4. OnlyRepeatsFail'
    BY <1>0, <1>3, <1>4, <2>1, <2>3
  <2> QED
    BY <1>2, <2>2, <2>4 DEF OrderInv
<1>10. CASE SendToDLQ(p)
  <2>1. pc[p] = "dlq" /\ Return(p) /\ UNCHANGED <<processed, failed>>
    BY <1>10 DEF SendToDLQ
  <2>2. RepeatsSettled' /\ StageInOrder'
    BY <1>0, <1>2, <1>3, <2>1, ReturnOrder DEF Settled
  <2>3. OnlyRepeatsFail'
    BY <1>4, <2>1
  <2> QED
    BY <1>2, <2>2, <2>3 DEF OrderInv
<1> QED
  BY <1>5, <1>6, <1>7, <1>8, <1>9, <1>10 DEF ClaimStep

\* The first time a message is handled the prefix grows by it.
LEMMA PrefixGrows ==
    ASSUME TypeInv, OrderInv, NEW p \in Partitions, marked[p] < Len(log[p]),
           Offset(p) = Applied(p) + 1, handled' = handled \cup {Message(p)}
    PROVE  /\ Applied(p)' = Offset(p) /\ Done(p)' = 1 .. Offset(p)
           /\ \A q \in Partitions \ {p} : Applied(q)' = Applied(q) /\ Done(q)' = Done(q)
<1> DEFINE k == Offset(p)
<1>1. /\ k \in Offsets /\ Message(p) = <<p, k>> /\ k \in Nat /\ Applied(p) \in Nat
      /\ Done(p) = 1 .. Applied(p)
  BY WorkType, OrderTypes DEF Offsets, OrderInv, PrefixDone
<1>2. Done(p)' = Done(p) \cup {k}
  BY <1>1 DEF Done
<1>3. Done(p)' = 1 .. k
  BY <1>1, <1>2
<1>4. Cardinality(1 .. k) = k
  BY <1>1, FS_Interval
<1>5. \A q \in Partitions \ {p} : Done(q)' = Done(q)
  BY <1>1 DEF Done
<1> QED
  BY <1>3, <1>4, <1>5 DEF Applied

LEMMA HandleOrder ==
    ASSUME TypeInv, OrderInv, NEW p \in Partitions, Handle(p)
    PROVE  OrderInv'
<1> DEFINE k == Offset(p)
<1>0. /\ pc[p] = "handle" /\ marked[p] < Len(log[p]) /\ Goto(p, "applied")
      /\ UNCHANGED <<log, committed, marked, processed, failed>>
  BY DEF Handle, TypeInv, HasWork, bookVars
<1>1. /\ k \in Offsets /\ Message(p) = <<p, k>> /\ k \in Nat /\ k \in 1 .. Len(log[p])
      /\ k = marked[p] + 1 /\ marked[p] \in Nat
      /\ \A q \in Partitions : Applied(q) \in Nat /\ marked[q] <= Applied(q)
  BY <1>0, WorkType, OrderTypes DEF Offsets
<1>2. CASE Message(p) \in handled /\ UNCHANGED <<mirror, handled>>
  <2>1. /\ PrefixDone' /\ LogInOrder' /\ EventsHaveTasks' /\ MirrorShows'
        /\ \A q \in Partitions : Applied(q)' = Applied(q)
    BY <1>0, <1>2, OrderKept
  <2>2. k <= Applied(p)
    BY <1>1, <1>2, OrderTypes
  <2>3. RepeatsSettled' /\ StageInOrder'
    BY <1>0, <2>1, <2>2, GotoOrder DEF Labels
  <2> QED
    BY <1>0, <1>2, <2>1, <2>3 DEF OrderInv, OnlyRepeatsFail
<1>3. CASE /\ Message(p) \notin handled /\ k = Applied(p) + 1
           /\ handled' = handled \cup {Message(p)}
           /\ mirror' = [t \in Tasks |->
                IF t \notin log[p][k].tasks THEN mirror[t]
                ELSE IF Kind(p, k) = "deleted" THEN 0 ELSE k]
  <2>1. /\ Applied(p)' = k /\ Done(p)' = 1 .. k
        /\ \A q \in Partitions \ {p} : Applied(q)' = Applied(q) /\ Done(q)' = Done(q)
    BY <1>0, <1>3, PrefixGrows
  <2>2. \A q, j, t : About(q, j, t)' = About(q, j, t) /\ Kind(q, j)' = Kind(q, j)
    BY <1>0 DEF About, Kind
  <2>3. PrefixDone'
    BY <1>0, <1>1, <2>1 DEF OrderInv, PrefixDone
  <2>4. LogInOrder' /\ EventsHaveTasks'
    BY <1>0, <2>2 DEF OrderInv, LogInOrder, EventsHaveTasks
  <2>5. MirrorShows'
    <3> DEFINE Shows(t, q, n, m) ==
          \/ /\ m = 0
             /\ \/ \A j \in 1 .. n : ~About(q, j, t)
                \/ \E j \in 1 .. n : About(q, j, t) /\ Kind(q, j) = "deleted"
          \/ /\ m \in 1 .. n /\ About(q, m, t)
             /\ \A j \in m + 1 .. n : ~About(q, j, t)
             /\ \A j \in 1 .. n : About(q, j, t) => Kind(q, j) # "deleted"
    <3>1. \A t \in Tasks : Shows(t, PartitionOf[t], Applied(PartitionOf[t]), mirror[t])
      BY DEF OrderInv, MirrorShows
    <3>2. ASSUME NEW t \in Tasks
          PROVE  Shows(t, PartitionOf[t], Applied(PartitionOf[t])', mirror'[t])
      <4>0. PartitionOf[t] \in Partitions
        BY KeyAssumption
      <4>1. CASE PartitionOf[t] # p
        <5>1. t \notin log[p][k].tasks
          BY <1>1, <4>1 DEF OrderInv, LogInOrder, About
        <5>2. mirror'[t] = mirror[t] /\ Applied(PartitionOf[t])' = Applied(PartitionOf[t])
          BY <1>3, <2>1, <4>0, <4>1, <5>1
        <5> QED
          BY <3>1, <5>2
      <4>2. CASE PartitionOf[t] = p /\ t \notin log[p][k].tasks
        <5>1. mirror'[t] = mirror[t] /\ ~About(p, k, t)
          BY <1>3, <4>2 DEF About
        <5>2. Shows(t, p, Applied(p), mirror[t])
          BY <3>1, <4>2
        <5>3. Shows(t, p, k, mirror[t])
          BY <1>1, <1>3, <5>1, <5>2
        <5> QED
          BY <2>1, <4>2, <5>1, <5>3
      <4>3. CASE PartitionOf[t] = p /\ t \in log[p][k].tasks /\ Kind(p, k) = "deleted"
        <5>1. mirror'[t] = 0 /\ About(p, k, t)
          BY <1>1, <1>3, <4>3 DEF About
        <5> QED
          BY <1>1, <2>1, <4>3, <5>1
      <4>4. CASE PartitionOf[t] = p /\ t \in log[p][k].tasks /\ Kind(p, k) # "deleted"
        <5>1. mirror'[t] = k /\ About(p, k, t)
          BY <1>1, <1>3, <4>4 DEF About
        <5>2. ASSUME NEW j \in 1 .. k, About(p, j, t), Kind(p, j) = "deleted" PROVE FALSE
          <6>1. j # k
            BY <4>4, <5>2
          <6>2. j \in 1 .. Len(log[p]) /\ k \in j + 1 .. Len(log[p])
            BY <1>1, <6>1
          <6> QED
            BY <5>1, <5>2, <6>2 DEF OrderInv, LogInOrder
        <5>3. k \in 1 .. k /\ \A j \in k + 1 .. k : ~About(p, j, t)
          BY <1>1
        <5> QED
          BY <2>1, <4>4, <5>1, <5>2, <5>3
      <4> QED
        BY <4>1, <4>2, <4>3, <4>4
    <3> QED
      BY <2>2, <3>2 DEF MirrorShows
  <2>6. RepeatsSettled'
    <3> SUFFICES ASSUME NEW q \in Partitions, NEW j \in 1 .. Applied(q)', committed[q] < j,
                        j <= marked[q] \/ j < Applied(q)'
                 PROVE  Settled(q, j)
      BY <1>0 DEF RepeatsSettled, Settled, Kind
    <3>1. j \in 1 .. Applied(q) /\ (j <= marked[q] \/ j < Applied(q))
      BY <1>1, <1>3, <2>1
    <3> QED
      BY <3>1 DEF OrderInv, RepeatsSettled
  <2>7. StageInOrder'
    <3>1. pc' = [pc EXCEPT ![p] = "applied"] /\ pc \in [Partitions -> Labels]
      BY <1>0 DEF Goto, TypeInv, TypeOK, Labels
    <3>2. \A q \in Partitions : /\ Offset(q)' = Offset(q) /\ Message(q)' = Message(q)
                                /\ Kind(q, Offset(q))' = Kind(q, Offset(q))
      BY <1>0 DEF Offset, Message, Kind
    <3>3. \A q \in Partitions : Applied(q) <= Applied(q)' /\ Applied(q)' \in Nat
      BY <1>1, <1>3, <2>1
    <3>4. \A q \in Partitions : Offset(q) \in Nat
      BY OrderTypes
    <3>5. ASSUME NEW q \in Partitions
          PROVE  /\ marked[q] <= Applied(q)'
                 /\ pc'[q] \notin {"poll", "handle"} => Offset(q) <= Applied(q)'
                 /\ pc'[q] = "handle" => Message(q) \notin processed
                 /\ pc'[q] = "clear" => Message(q) \in processed
                 /\ pc'[q] \in {"failed", "dlq"} => Kind(q, Offset(q)) = "deleted"
      <4>1. CASE q = p
        BY <1>1, <1>3, <2>1, <3>1, <4>1
      <4>2. CASE q # p
        BY <1>1, <2>1, <3>1, <4>2 DEF OrderInv, StageInOrder
      <4> QED
        BY <4>1, <4>2
    <3> QED
      BY <1>0, <3>2, <3>5 DEF StageInOrder
  <2>8. OnlyRepeatsFail'
    BY <1>0, <1>3 DEF OrderInv, OnlyRepeatsFail
  <2> QED
    BY <2>3, <2>4, <2>5, <2>6, <2>7, <2>8 DEF OrderInv
<1> QED
  BY <1>2, <1>3, HandleEffect

LEMMA BrokerOrder ==
    ASSUME TypeInv, OrderInv,
           \/ \E p \in Partitions : AutoCommit(p)
           \/ \E p \in Partitions, k \in Offsets : CleanupOldEvents(p, k)
           \/ Crash
    PROVE  OrderInv'
<1>0. UNCHANGED <<log, mirror, handled, failed>>
  BY DEF AutoCommit, CleanupOldEvents, Crash, bookVars
<1>1. /\ PrefixDone' /\ LogInOrder' /\ EventsHaveTasks' /\ MirrorShows'
      /\ \A q \in Partitions : Applied(q)' = Applied(q)
  BY <1>0, OrderKept
<1>2. OnlyRepeatsFail'
  BY <1>0 DEF OrderInv, OnlyRepeatsFail
<1>3. \A q \in Partitions : /\ committed[q] \in Nat /\ marked[q] \in Nat /\ Applied(q) \in Nat
                            /\ committed[q] <= marked[q] /\ marked[q] <= Applied(q)
                            /\ Offset(q) = marked[q] + 1
  BY OrderTypes
<1>4. ASSUME NEW p \in Partitions, AutoCommit(p) PROVE RepeatsSettled' /\ StageInOrder'
  <2>1. /\ UNCHANGED <<marked, pc, processed>>
        /\ \A q \in Partitions : committed'[q] = committed[q] \/ committed'[q] = marked[q]
    BY <1>4 DEF AutoCommit, bookVars, TypeInv, TypeOK
  <2>2. RepeatsSettled'
    <3> SUFFICES ASSUME NEW q \in Partitions, NEW j \in 1 .. Applied(q), committed'[q] < j,
                        j <= marked[q] \/ j < Applied(q)
                 PROVE  Settled(q, j)
      BY <1>0, <1>1, <2>1 DEF RepeatsSettled, Settled, Kind
    <3>1. committed[q] < j
      BY <1>3, <2>1
    <3> QED
      BY <3>1 DEF OrderInv, RepeatsSettled
  <2>3. StageInOrder'
    BY <1>0, <1>1, <2>1 DEF OrderInv, StageInOrder, Offset, Message, Kind
  <2> QED
    BY <2>2, <2>3
<1>5. ASSUME NEW p \in Partitions, NEW k \in Offsets, CleanupOldEvents(p, k)
      PROVE  RepeatsSettled' /\ StageInOrder'
  <2>1. /\ UNCHANGED <<marked, pc, committed>> /\ k <= committed[p]
        /\ processed' = processed \ {<<p, k>>}
    BY <1>5 DEF CleanupOldEvents
  <2>2. RepeatsSettled'
    <3> SUFFICES ASSUME NEW q \in Partitions, NEW j \in 1 .. Applied(q), committed[q] < j,
                        j <= marked[q] \/ j < Applied(q)
                 PROVE  Settled(q, j)'
      BY <1>1, <2>1 DEF RepeatsSettled
    <3>1. Settled(q, j) /\ <<q, j>> # <<p, k>>
      BY <1>3, <2>1 DEF OrderInv, RepeatsSettled, Offsets
    <3> QED
      BY <1>0, <2>1, <3>1 DEF Settled, Kind
  <2>3. \A q \in Partitions : Message(q) # <<p, k>>
    BY <1>3, <2>1 DEF Message, Offsets
  <2>4. StageInOrder'
    BY <1>0, <1>1, <2>1, <2>3 DEF OrderInv, StageInOrder, Offset, Message, Kind
  <2> QED
    BY <2>2, <2>4
<1>6. CASE Crash
  <2>1. /\ UNCHANGED <<processed, committed>>
        /\ pc' = [q \in Partitions |-> "poll"] /\ marked' = committed
    BY <1>6 DEF Crash, bookVars
  <2>2. RepeatsSettled'
    <3> SUFFICES ASSUME NEW q \in Partitions, NEW j \in 1 .. Applied(q), committed[q] < j,
                        j <= committed[q] \/ j < Applied(q)
                 PROVE  Settled(q, j)
      BY <1>0, <1>1, <2>1 DEF RepeatsSettled, Settled, Kind
    <3>1. j < Applied(q)
      BY <1>3
    <3> QED
      BY <3>1 DEF OrderInv, RepeatsSettled
  <2>3. StageInOrder'
    BY <1>1, <1>3, <2>1 DEF StageInOrder
  <2> QED
    BY <1>1, <1>2, <2>2, <2>3 DEF OrderInv
<1> QED
  BY <1>1, <1>2, <1>4, <1>5, <1>6 DEF OrderInv

\* What is known of the tasks published so far.
LEMMA PublishedTasks ==
    ASSUME TypeInv, OrderInv, NEW t \in Tasks
    PROVE  /\ Created(t) <=> \E k \in 1 .. Len(log[PartitionOf[t]]) :
                               /\ About(PartitionOf[t], k, t)
                               /\ Kind(PartitionOf[t], k) = "created"
           /\ (\E k \in 1 .. Len(log[PartitionOf[t]]) :
                 About(PartitionOf[t], k, t) /\ Kind(PartitionOf[t], k) = "deleted") => Deleted(t)
<1>1. \A p \in Partitions : DOMAIN log[p] = 1 .. Len(log[p])
  BY LogType, LenProperties
<1>2. \A p \in Partitions : \A k \in 1 .. Len(log[p]) : log[p][k] \in Published
  BY <1>1 DEF Published, ToSet
<1>3. \A e \in Published : \E p \in Partitions : \E k \in 1 .. Len(log[p]) : e = log[p][k]
  BY <1>1 DEF Published, ToSet
<1>4. PartitionOf[t] \in Partitions
  BY KeyAssumption
<1>5. ASSUME Created(t)
      PROVE  \E k \in 1 .. Len(log[PartitionOf[t]]) :
               About(PartitionOf[t], k, t) /\ Kind(PartitionOf[t], k) = "created"
  <2>1. PICK p \in Partitions : \E k \in 1 .. Len(log[p]) :
          log[p][k].kind = "created" /\ t \in log[p][k].tasks
    BY <1>3, <1>5 DEF Created
  <2>2. PICK k \in 1 .. Len(log[p]) : About(p, k, t) /\ Kind(p, k) = "created"
    BY <2>1 DEF About, Kind
  <2>3. PartitionOf[t] = p
    BY <2>2 DEF OrderInv, LogInOrder
  <2> QED
    BY <2>2, <2>3
<1> QED
  BY <1>2, <1>4, <1>5 DEF Created, Deleted, About, Kind

LEMMA PublishOrder ==
    ASSUME TypeInv, OrderInv, OnlyCrashes, Publish
    PROVE  OrderInv'
<1>1. PICK u \in Tasks, kind \in {"created", "updated", "deleted"} :
        /\ IF kind = "created" THEN ~Created(u) ELSE Created(u) /\ ~Deleted(u)
        /\ Send(PartitionOf[u], [kind |-> kind, tasks |-> {u}])
  BY DEF Publish, Send, OnlyCrashes
<1> DEFINE p == PartitionOf[u]
           e == [kind |-> kind, tasks |-> {u}]
<1>0. PICK n : n = Len(log[p]) + 1
  OBVIOUS
<1>2. p \in Partitions /\ e \in Events /\ Send(p, e)
  BY <1>1, KeyAssumption DEF Events, AllKinds
<1>3. UNCHANGED <<committed, marked, pc, mirror, processed, failed, handled>>
  BY <1>2 DEF Send, bookVars
<1>4. /\ Len(log'[p]) = n /\ log'[p][n] = e /\ n \in Nat /\ Len(log[p]) \in Nat
      /\ \A k \in 1 .. Len(log[p]) : log'[p][k] = log[p][k]
      /\ \A q \in Partitions \ {p} : log'[q] = log[q]
  BY <1>0, <1>2, SendEffect, LogType DEF TypeInv
<1>5. \A q \in Partitions : /\ Len(log[q]) \in Nat /\ Len(log'[q]) \in Nat
                            /\ Len(log[q]) <= Len(log'[q])
  BY <1>0, <1>4, LogType DEF TypeInv
<1>6. ASSUME NEW q \in Partitions, NEW k \in 1 .. Len(log[q])
      PROVE  /\ k \in 1 .. Len(log'[q]) /\ log'[q][k] = log[q][k] /\ Kind(q, k)' = Kind(q, k)
             /\ \A t : About(q, k, t)' = About(q, k, t)
  <2>1. k \in 1 .. Len(log'[q]) /\ log'[q][k] = log[q][k]
    BY <1>4, <1>5
  <2> QED
    BY <2>1 DEF About, Kind
<1>7. \A q \in Partitions : Applied(q)' = Applied(q) /\ Done(q)' = Done(q)
  BY <1>3 DEF Applied, Done
<1>8. /\ n \in 1 .. Len(log'[p]) /\ Kind(p, n)' = kind /\ log'[p][n].tasks = {u}
      /\ \A t : About(p, n, t)' <=> t = u
  <2>1. n \in 1 .. Len(log'[p]) /\ log'[p][n].kind = kind /\ log'[p][n].tasks = {u}
    BY <1>0, <1>4
  <2> QED
    BY <2>1 DEF About, Kind
<1>9. \A q \in Partitions : \A k \in 1 .. Len(log'[q]) : k \in 1 .. Len(log[q]) \/ (q = p /\ k = n)
  BY <1>0, <1>4
<1>10. /\ kind = "created" => \A k \in 1 .. Len(log[p]) : ~About(p, k, u)
       /\ kind # "created" => \E k \in 1 .. Len(log[p]) :
            About(p, k, u) /\ Kind(p, k) = "created"
       /\ \A k \in 1 .. Len(log[p]) : About(p, k, u) => Kind(p, k) # "deleted"
  <2>1. \A k \in 1 .. Len(log[p]) : About(p, k, u) =>
          \E j \in 1 .. Len(log[p]) : About(p, j, u) /\ Kind(p, j) = "created"
    <3> SUFFICES ASSUME NEW k \in 1 .. Len(log[p]), About(p, k, u), Kind(p, k) # "created"
                 PROVE  \E j \in 1 .. Len(log[p]) : About(p, j, u) /\ Kind(p, j) = "created"
      OBVIOUS
    <3>1. \E j \in 1 .. k - 1 : About(p, j, u) /\ Kind(p, j) = "created"
      BY <1>2 DEF OrderInv, LogInOrder
    <3>2. \A j \in 1 .. k - 1 : j \in 1 .. Len(log[p])
      BY <1>4
    <3> QED
      BY <3>1, <3>2
  <2> QED
    BY <1>1, <2>1, PublishedTasks
<1>11. LogInOrder'
  <2> SUFFICES ASSUME NEW q \in Partitions, NEW t \in Tasks, NEW k \in 1 .. Len(log'[q]),
                      About(q, k, t)'
               PROVE  /\ PartitionOf[t] = q /\ log'[q][k].tasks = {t}
                      /\ Kind(q, k)' # "bulk_deleted"
                      /\ Kind(q, k)' = "created" => \A j \in 1 .. k - 1 : ~About(q, j, t)'
                      /\ Kind(q, k)' # "created" =>
                           \E j \in 1 .. k - 1 : About(q, j, t)' /\ Kind(q, j)' = "created"
                      /\ Kind(q, k)' = "deleted" =>
                           \A j \in k + 1 .. Len(log'[q]) : ~About(q, j, t)'
    BY DEF LogInOrder
  <2>1. CASE q = p /\ k = n
    <3>1. t = u /\ Kind(q, k)' = kind
      BY <1>8, <2>1
    <3>2. \A j \in 1 .. k - 1 : j \in 1 .. Len(log[p])
      BY <1>0, <1>4, <2>1
    <3>3. \A j \in 1 .. k - 1 : /\ About(q, j, t)' = About(q, j, t)
                                /\ Kind(q, j)' = Kind(q, j)
      BY <1>2, <1>6, <2>1, <3>2
    <3>4. k + 1 .. Len(log'[q]) = {} /\ 1 .. k - 1 = 1 .. Len(log[p])
      BY <1>0, <1>4, <2>1
    <3> QED
      BY <1>8, <1>10, <2>1, <3>1, <3>2, <3>3, <3>4
  <2>2. CASE k \in 1 .. Len(log[q])
    <3>1. About(q, k, t) /\ log'[q][k] = log[q][k] /\ Kind(q, k)' = Kind(q, k)
      BY <1>6, <2>2
    <3>2. \A j \in 1 .. k - 1 : /\ About(q, j, t)' = About(q, j, t)
                                /\ Kind(q, j)' = Kind(q, j)
      BY <1>5, <1>6, <2>2
    <3>3. ASSUME Kind(q, k) = "deleted", NEW j \in k + 1 .. Len(log'[q]) PROVE ~About(q, j, t)'
      <4>1. CASE j \in 1 .. Len(log[q])
        BY <1>5, <1>6, <2>2, <3>1, <3>3, <4>1 DEF OrderInv, LogInOrder
      <4>2. CASE q = p /\ j = n
        <5>1. t # u
          BY <1>10, <2>2, <3>1, <3>3, <4>2
        <5> QED
          BY <1>8, <4>2, <5>1
      <4> QED
        BY <1>5, <1>9, <4>1, <4>2
    <3> QED
      BY <2>2, <3>1, <3>2, <3>3 DEF OrderInv, LogInOrder
  <2> QED
    BY <1>9, <2>1, <2>2
<1>12. EventsHaveTasks'
  BY <1>6, <1>8, <1>9 DEF OrderInv, EventsHaveTasks
<1>13. \A q \in Partitions : Applied(q) \in Nat /\ Applied(q) <= Len(log[q])
                             /\ \A k \in 1 .. Applied(q) : k \in 1 .. Len(log[q])
  BY OrderTypes
<1>14. PrefixDone'
  BY <1>5, <1>7, <1>13 DEF OrderInv, PrefixDone
<1>15. MirrorShows'
  <2> SUFFICES ASSUME NEW t \in Tasks, NEW q \in Partitions, q = PartitionOf[t],
                      NEW m, m = mirror[t]
               PROVE  \/ /\ m = 0
                         /\ \/ \A k \in 1 .. Applied(q) : ~About(q, k, t)'
                            \/ \E k \in 1 .. Applied(q) :
                                 About(q, k, t)' /\ Kind(q, k)' = "deleted"
                      \/ /\ m \in 1 .. Applied(q) /\ About(q, m, t)'
                         /\ \A k \in m + 1 .. Applied(q) : ~About(q, k, t)'
                         /\ \A k \in 1 .. Applied(q) : About(q, k, t)' => Kind(q, k)' # "deleted"
    BY <1>3, <1>7, KeyAssumption DEF MirrorShows
  <2>1. \A k \in 1 .. Applied(q) : /\ About(q, k, t)' = About(q, k, t)
                                  /\ Kind(q, k)' = Kind(q, k)
    BY <1>6, <1>13
  <2>2. m \in 1 .. Applied(q) => \A k \in m + 1 .. Applied(q) : k \in 1 .. Applied(q)
    BY <1>13
  <2>3. \/ /\ m = 0
           /\ \/ \A k \in 1 .. Applied(q) : ~About(q, k, t)
              \/ \E k \in 1 .. Applied(q) : About(q, k, t) /\ Kind(q, k) = "deleted"
        \/ /\ m \in 1 .. Applied(q) /\ About(q, m, t)
           /\ \A k \in m + 1 .. Applied(q) : ~About(q, k, t)
           /\ \A k \in 1 .. Applied(q) : About(q, k, t) => Kind(q, k) # "deleted"
    BY DEF OrderInv, MirrorShows
  <2> QED
    BY <2>1, <2>2, <2>3
<1>16. RepeatsSettled'
  <2> SUFFICES ASSUME NEW q \in Partitions, NEW j \in 1 .. Applied(q), committed[q] < j,
                      j <= marked[q] \/ j < Applied(q)
               PROVE  Settled(q, j)'
    BY <1>3, <1>7 DEF RepeatsSettled
  <2>1. Settled(q, j) /\ Kind(q, j)' = Kind(q, j)
    BY <1>6, <1>13 DEF OrderInv, RepeatsSettled
  <2> QED
    BY <1>3, <2>1 DEF Settled
<1>17. StageInOrder'
  <2>1. ASSUME NEW q \in Partitions, pc[q] # "poll"
        PROVE  Kind(q, Offset(q))' = Kind(q, Offset(q))
    <3>1. Offset(q) \in 1 .. Len(log[q]) /\ Offset(q)' = Offset(q)
      BY <1>3, <2>1, WorkType DEF TypeInv, HasWork, Offset
    <3> QED
      BY <1>6, <3>1 DEF Kind
  <2>2. \A q \in Partitions : Offset(q)' = Offset(q) /\ Message(q)' = Message(q)
    BY <1>3 DEF Offset, Message
  <2> QED
    BY <1>3, <1>7, <2>1, <2>2 DEF OrderInv, StageInOrder
<1>18. OnlyRepeatsFail'
  BY <1>3 DEF OrderInv, OnlyRepeatsFail
<1> QED
  BY <1>11, <1>12, <1>14, <1>15, <1>16, <1>17, <1>18 DEF OrderInv

LEMMA OrderStep ==
    OnlyCrashes /\ TypeInv /\ KeptInv /\ OrderInv /\ [Next]_vars => OrderInv'
<1> SUFFICES ASSUME OnlyCrashes, TypeInv, KeptInv, OrderInv, [Next]_vars PROVE OrderInv'
  OBVIOUS
<1>1. ASSUME NEW p \in Partitions, ClaimStep(p) PROVE OrderInv'
  BY <1>1, HandleOrder, AroundHandler
<1>2. CASE UNCHANGED vars
  <2>1. /\ PrefixDone' /\ LogInOrder' /\ EventsHaveTasks' /\ MirrorShows'
        /\ \A q \in Partitions : Applied(q)' = Applied(q)
    BY <1>2, OrderKept DEF vars
  <2>2. RepeatsSettled' /\ StageInOrder' /\ OnlyRepeatsFail'
    BY <1>2, <2>1 DEF vars, OrderInv, RepeatsSettled, StageInOrder, OnlyRepeatsFail, Settled,
                      Offset, Message, Kind
  <2> QED
    BY <2>1, <2>2 DEF OrderInv
<1> QED
  BY <1>1, <1>2, PublishOrder, BrokerOrder DEF Next

LEMMA OrderInit == Init => OrderInv
<1> SUFFICES ASSUME Init PROVE OrderInv
  OBVIOUS
<1>1. /\ \A p \in Partitions : log[p] = <<>> /\ Len(log[p]) = 0 /\ marked[p] = 0 /\ pc[p] = "poll"
      /\ handled = {} /\ \A t \in Tasks : mirror[t] = 0
      /\ \A p \in Partitions, k \in Offsets : failed[p][k] = 0
  BY EmptySeq DEF Init
<1>2. \A p \in Partitions : Done(p) = {} /\ Applied(p) = 0
  BY <1>1, FS_EmptySet DEF Done, Applied
<1>3. PrefixDone
  <2>1. 1 .. 0 = {} /\ 0 \in 0 .. 0
    OBVIOUS
  <2> QED
    BY <1>1, <1>2, <2>1 DEF PrefixDone
<1>4. LogInOrder /\ EventsHaveTasks
  BY <1>1 DEF LogInOrder, EventsHaveTasks, About
<1>5. MirrorShows
  BY <1>1, <1>2, KeyAssumption DEF MirrorShows
<1>6. RepeatsSettled /\ StageInOrder /\ OnlyRepeatsFail
  BY <1>1, <1>2 DEF RepeatsSettled, StageInOrder, OnlyRepeatsFail
<1> QED
  BY <1>3, <1>4, <1>5, <1>6 DEF OrderInv

LEMMA ConsumerInOrder ==
    ASSUME OnlyCrashes
    PROVE  Spec => [](TypeInv /\ KeptInv /\ OrderInv)
BY TypeInit, TypeStep, KeptInit, KeptStep, OrderInit, OrderStep, PTL DEF Spec

(* Where only crashes happen and no bulk deletion overtakes the other events, *)
(* a row of failed_events is of an event that had been applied.               *)
THEOREM ConsumerOnlyRepeatsFail ==
    ASSUME OnlyCrashes
    PROVE  Spec => []OnlyRepeatsFail
<1>1. OrderInv => OnlyRepeatsFail
  BY DEF OrderInv
<1> QED
  BY <1>1, ConsumerInOrder, PTL

-----------------------------------------------------------------------------
(* The snapshots implement TaskMirror: a step of the consumer is a step of it *)
(* or does not show.                                                          *)

LEMMA MirrorInit == Init => Mirror!Init
<1> SUFFICES ASSUME Init PROVE Mirror!Init
  OBVIOUS
<1>1. \A p \in Partitions : {k \in Offsets : <<p, k>> \in handled} = {}
  BY DEF Init
<1>2. [p \in Partitions |-> Cardinality({k \in Offsets : <<p, k>> \in handled})]
        = [p \in Partitions |-> 0]
  BY <1>1, FS_EmptySet
<1> QED
  BY <1>2 DEF Init, Mirror!Init

\* A message handled for the first time is one Apply.
LEMMA HandleApplies ==
    ASSUME TypeInv, OrderInv, NEW p \in Partitions, Handle(p)
    PROVE  UNCHANGED Mirror!vars \/ Mirror!Apply(p)
<1> DEFINE k == Offset(p)
<1>0. marked[p] < Len(log[p]) /\ UNCHANGED log
  BY DEF Handle, TypeInv, HasWork
<1>1. CASE UNCHANGED <<mirror, handled>>
  BY <1>0, <1>1 DEF Mirror!vars
<1>2. CASE /\ k = Applied(p) + 1
           /\ handled' = handled \cup {Message(p)}
           /\ mirror' = [t \in Tasks |->
                IF t \notin log[p][k].tasks THEN mirror[t]
                ELSE IF Kind(p, k) = "deleted" THEN 0 ELSE k]
  <2> DEFINE old == [q \in Partitions |-> Applied(q)]
             new == [q \in Partitions |-> Applied(q)']
  <2>1. /\ Applied(p)' = k /\ \A q \in Partitions \ {p} : Applied(q)' = Applied(q)
    BY <1>0, <1>2, PrefixGrows
  <2>2. old[p] < Len(log[p]) /\ new = [old EXCEPT ![p] = @ + 1] /\ new[p] = k
    <3>1. Applied(p) \in Nat /\ k = marked[p] + 1 /\ marked[p] \in Nat /\ Len(log[p]) \in Nat
      BY OrderTypes
    <3>2. old[p] = Applied(p) /\ new[p] = k
      BY <2>1
    <3>3. old[p] < Len(log[p]) /\ old[p] + 1 = k
      BY <1>0, <1>2, <3>1, <3>2
    <3>4. new = [old EXCEPT ![p] = k]
      BY <2>1
    <3> QED
      BY <3>2, <3>3, <3>4
  <2>3. mirror' = [t \in Tasks |->
          IF t \notin log[p][k].tasks THEN mirror[t]
          ELSE IF log[p][k].kind = "deleted" THEN 0 ELSE k]
    BY <1>2 DEF Kind
  <2>4. /\ [q \in Partitions |-> Cardinality({j \in Offsets : <<q, j>> \in handled})] = old
        /\ [q \in Partitions |-> Cardinality({j \in Offsets : <<q, j>> \in handled'})] = new
    BY DEF Applied, Done
  <2> HIDE DEF old, new
  <2> QED
    BY <1>0, <2>2, <2>3, <2>4 DEF Mirror!Apply, Mirror!Shown
<1> QED
  BY <1>1, <1>2, HandleEffect

LEMMA MirrorStep ==
    ASSUME OnlyCrashes, TypeInv, OrderInv, [Next]_vars
    PROVE  [Mirror!Next]_(Mirror!vars)
<1>1. CASE UNCHANGED <<log, handled, mirror>>
  BY <1>1 DEF Mirror!vars
<1>2. CASE Publish
  <2>1. PICK p \in Partitions, e \in Events : Send(p, e)
    BY <1>2, PublishEffect
  <2>2. log' = [log EXCEPT ![p] = Append(@, e)] /\ UNCHANGED <<handled, mirror>>
    BY <2>1 DEF Send
  <2>3. Mirror!Publish(p)
    BY <2>2 DEF Mirror!Publish
  <2> QED
    BY <2>3 DEF Mirror!Next
<1>3. ASSUME NEW p \in Partitions, Handle(p) PROVE [Mirror!Next]_(Mirror!vars)
  BY <1>3, HandleApplies DEF Mirror!Next
<1>4. ASSUME NEW p \in Partitions, ClaimStep(p), ~Handle(p) PROVE UNCHANGED <<log, handled, mirror>>
  BY <1>4 DEF ClaimStep, Receive, HandleFails, RecordProcessed, ClearFailed, RecordFailed, SendToDLQ
<1>5. CASE \/ \E p \in Partitions : AutoCommit(p)
           \/ \E p \in Partitions, k \in Offsets : CleanupOldEvents(p, k)
           \/ Crash \/ UNCHANGED vars
  <2>1. UNCHANGED <<log, handled, mirror>>
    BY <1>5 DEF AutoCommit, CleanupOldEvents, Crash, vars
  <2> QED
    BY <1>1, <2>1
<1> QED
  BY <1>1, <1>2, <1>3, <1>4, <1>5 DEF Next

(* Crashes and redeliveries do not show: the snapshots follow the events of   *)
(* each partition, each applied once and in order.                            *)
THEOREM ConsumerImplementsMirror ==
    ASSUME OnlyCrashes
    PROVE  Spec => MirrorInOrder
<1>1. OnlyCrashes
  OBVIOUS
<1>2. TypeInv /\ KeptInv /\ OrderInv /\ [Next]_vars => [Mirror!Next]_(Mirror!vars)
  BY <1>1, MirrorStep
<1> QED
  BY <1>2, MirrorInit, ConsumerInOrder, PTL DEF Spec, MirrorInOrder, Mirror!Spec
=============================================================================
