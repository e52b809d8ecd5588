SPECIFICATION FairSpec
CONSTANTS
    Procs = {r1}
    Plans = {p1, p2}
    Items = {add1, del1, add2}
    p1 = p1
    p2 = p2
    add1 = add1
    del1 = del1
    add2 = add2
    t1 = t1
    t2 = t2
    PlanOf <- MCPlanOf
    TriggerOf <- MCTriggerOf
    TaskOf <- MCTaskOf
    RowsOf <- MCRowsOf
    Sessions = {h1, h2}
    MaxPlansPerPoll = 1
    MaxChanges = 1
    MaxFaults = 1
INVARIANTS
    TypeOK
    BatchExclusive
    OneShotCovered
PROPERTIES
    ScheduleNeverOlder
    OneShotScheduled
