SPECIFICATION Spec
CONSTANTS
    Sessions = {h1, h2}
    Ops = {"apply", "discard", "optimize", "get", "task_created"}
    Algorithms = {"HYBRID"}
    MaxArchivedPlans = 1
    MaxPlans = 3
    MaxFaults = 0
    None = None
PROPERTY
    TerminalIsFinal
