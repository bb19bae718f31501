\* Two helpers: steps that fail, helpers that are killed, orphans.
SPECIFICATION Spec
CONSTANTS
    monitor = monitor
    operator = operator
    Nobody = Nobody
    Helpers = {monitor, operator}
SYMMETRY Symmetry
INVARIANTS
    TypeOK
    WakeNets
    PatternHeld
    NothingLeft
    SensorsBack
