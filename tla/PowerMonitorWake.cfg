\* A failing Shift key leaves the wake press in the queue.
SPECIFICATION Spec
CONSTANTS
    Levels = {1, 2}
    SuspendPolicy = TRUE
    Kills = FALSE
    QueueMax = 3
PROPERTIES
    WakePressAlwaysConsumed
