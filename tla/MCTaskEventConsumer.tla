------------------------ MODULE MCTaskEventConsumer ------------------------
(* Two tasks whose keys go to one partition, bulk deletions to another.       *)
EXTENDS TaskEventConsumer

CONSTANTS keys, bulk

MCPartitionOf == [t \in Tasks |-> keys]
=============================================================================
