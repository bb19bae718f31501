\* Every helper answer leads back to the loop and to another attempt.
SPECIFICATION FairSpec
CONSTANTS
    Levels = {1}
    SuspendPolicy = TRUE
    Kills = FALSE
    QueueMax = 2
PROPERTIES
    MonitorReturns
    AutoRetries
