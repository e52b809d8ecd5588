SPECIFICATION Spec
CONSTANTS
    Sessions = {h1, h2}
    Ops = {"apply", "discard", "revert", "optimize", "create", "task_created"}
    Algorithms = {"HYBRID"}
    MaxArchivedPlans = 1
    MaxPlans = 4
    MaxFaults = 1
    None = None
SYMMETRY Symmetry
INVARIANTS
    OrphanIsFault
PROPERTIES
    ActiveNeverVanishes
    DeleteOnlyDead
