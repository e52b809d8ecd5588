SPECIFICATION WebSpec
CONSTANTS
    Scenes <- MCScenes
    Seed = Seed
    Absent = Absent
    MaxOpens = 2
INVARIANTS
    TypeOK
    FreshWhenIdle
    RefusedOnlyByOverlap
    StaleOnlyAtKnownGaps
PROPERTIES
    ViewsSettle
CHECK_DEADLOCK FALSE
