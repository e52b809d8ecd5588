----------------------------- MODULE TaskMirror -----------------------------
(* What the task snapshots of ptm_schedule promise: those of a partition's    *)
(* tasks are what its events say, each applied once and in order, and every   *)
(* published event is applied in the end.                                     *)
EXTENDS Naturals, Sequences

CONSTANTS Partitions, Tasks, Events

VARIABLES
    log,        \* the events of each partition
    applied,    \* how many of them the snapshots reflect
    mirror      \* of a task: the offset of the event its snapshot shows, 0: none

vars == <<log, applied, mirror>>

Init ==
    /\ log = [p \in Partitions |-> <<>>]
    /\ applied = [p \in Partitions |-> 0]
    /\ mirror = [t \in Tasks |-> 0]

Publish(p) ==
    /\ \E e \in Events : log' = [log EXCEPT ![p] = Append(@, e)]
    /\ UNCHANGED <<applied, mirror>>

\* A task shows the last event about it, a deleted one is gone.
Shown(e, offset) ==
    [t \in Tasks |-> IF t \notin e.tasks THEN mirror[t]
                     ELSE IF e.kind = "deleted" THEN 0 ELSE offset]

Apply(p) ==
    /\ applied[p] < Len(log[p])
    /\ applied' = [applied EXCEPT ![p] = @ + 1]
    /\ mirror' = Shown(log[p][applied'[p]], applied'[p])
    /\ UNCHANGED log

Next == \E p \in Partitions : Publish(p) \/ Apply(p)

Spec == Init /\ [][Next]_vars

FairSpec == Spec /\ \A p \in Partitions : WF_vars(Apply(p))
=============================================================================
