\* One component at a time, each with the bounds of its own hazards.
SPECIFICATION Spec
CONSTANTS
    LoaderAttempts = 1
    Segments = 2
    MaxRounds = 2
    HealthFailures = 2
    Actions = {poweroff, reboot}
    None = None
    MaxRequests = 2
    MaxEdits = 1
    MaxToolFaults = 2
    MaxRuns = 2
    MaxLinkFaults = 2
    MaxActions = 3
    Readings = {"normal", "leftup", "undefined"}
    FifoMax = 1
    MaxFailures = 1
    QueueMax = 3
    Chunk = 2
    MaxMishaps = 2
    Users = {ann, bob}
    NoUser = NoUser
    MaxAttempts = 2
    MaxStarts = 2
    MaxTroubles = 2
    MaxSlips = 3
INVARIANTS
    TypesOK
    RomSpeed
    RightCalibration
    OneShell
    StillOwed
    RecordTrue
    PublishedStays
    SaysTruth
    TouchAgrees
    MarkerLast
    TellsMisc
    TableTold
PROPERTIES
    StopEnds
    FallbackComes
    NeverBusyForever
    Settles
    TouchBack
CHECK_DEADLOCK FALSE
