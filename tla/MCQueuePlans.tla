---------------------------- MODULE MCQueuePlans ----------------------------
(* Two plans and room for one in a poll: a task of p1 that is added and       *)
(* deleted, a task of p2 that is added.                                       *)
EXTENDS RescheduleQueue, TLC

CONSTANTS p1, p2, add1, del1, add2, t1, t2

MCPlanOf == add1 :> p1 @@ del1 :> p1 @@ add2 :> p2
MCTriggerOf == add1 :> "TASK_ADDED" @@ del1 :> "TASK_DELETED" @@ add2 :> "TASK_ADDED"
MCTaskOf == add1 :> t1 @@ del1 :> t1 @@ add2 :> t2
MCRowsOf == [i \in Items |-> {MCTaskOf[i]}]
=============================================================================
