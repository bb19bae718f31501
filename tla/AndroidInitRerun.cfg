\* The read-only run, then the authorized one its last words ask for.
SPECIFICATION AndroidSpec
CONSTANTS
    MaxStarts = 2
    MaxTroubles = 2
INVARIANT
    RerunStages
CHECK_DEADLOCK FALSE
