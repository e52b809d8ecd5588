SPECIFICATION FairSpec
CONSTANTS
    Procs = {r1}
    Plans = {plan}
    Items = {update}
    plan = plan
    update = update
    task = task
    PlanOf <- MCPlanOf
    TriggerOf <- MCTriggerOf
    TaskOf <- MCTaskOf
    RowsOf <- MCRowsOf
    Sessions = {h1}
    MaxPlansPerPoll = 1
    MaxChanges = 2
    MaxFaults = 0
PROPERTY
    PendingProcessed
