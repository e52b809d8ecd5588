SPECIFICATION Spec
CONSTANTS
    Sessions = {h1}
    Ops = {"apply", "discard", "revert", "reschedule", "optimize", "create", "get", "task_created", "task_changed"}
    Algorithms = {"HYBRID", "MILP"}
    MaxArchivedPlans = 1
    MaxPlans = 4
    MaxFaults = 1
    None = None
INVARIANTS
    TypeOK
    AtMostOneActive
    OneProposalPerAlgorithm
    LineageAcyclic
PROPERTIES
    PlanFollowsHistory
