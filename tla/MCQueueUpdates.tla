--------------------------- MODULE MCQueueUpdates ---------------------------
(* One task of one plan, updated again and again.                             *)
EXTENDS RescheduleQueue

CONSTANTS plan, update, task

MCPlanOf == [i \in Items |-> plan]
MCTriggerOf == [i \in Items |-> "CONSTRAINT_CHANGE"]
MCTaskOf == [i \in Items |-> task]
MCRowsOf == [i \in Items |-> {task}]
=============================================================================
