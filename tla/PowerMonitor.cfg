\* Kills, failing wake keys and key presses at every point of the loop.
SPECIFICATION Spec
CONSTANTS
    Levels = {1, 2}
    SuspendPolicy = TRUE
    Kills = TRUE
    QueueMax = 3
INVARIANTS
    TypeOK
    BrightnessKept
    CleanExit
PROPERTIES
    WakePressConsumed
