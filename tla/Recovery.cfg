SPECIFICATION Spec
CONSTANTS
    Stories <- MCStories
    Fanout = 2
    PartBytes = 1
    Batch = 2
    Attempts = 3
    MaxNodes = 6
    ArchiveBudget = 6
INVARIANTS
    RecoveredExact
PROPERTIES
    InstallsSafely
    Recovers
CHECK_DEADLOCK FALSE
