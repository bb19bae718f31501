\* Signals, failing steps and power losses at every point of six transactions.
SPECIFICATION Spec
CONSTANTS
    MaxSteps = 6
INVARIANTS
    TypeOK
    RollbackReady
    
