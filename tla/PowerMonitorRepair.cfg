\* A monitor killed between two writes leaves an empty file.
SPECIFICATION Spec
CONSTANTS
    Levels = {1, 2}
    SuspendPolicy = TRUE
    Kills = TRUE
    QueueMax = 2
INVARIANTS
    RepairAlwaysPossible
