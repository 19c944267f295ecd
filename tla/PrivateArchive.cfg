SPECIFICATION Spec
CONSTANTS
    Reveals <- MCReveals
    RecordOf <- MCRecordOf
    Stories <- MCStories
    Fanfold <- MCFanfold
    MaxObjects = 2
INVARIANTS
    RecoversExactly
    ReportHonest
PROPERTIES
    Publishes
CHECK_DEADLOCK FALSE
