\* A failing write of the clean-up loses the sensors.
SPECIFICATION Spec
CONSTANTS
    monitor = monitor
    operator = operator
    Nobody = Nobody
    Helpers = {monitor, operator}
SYMMETRY Symmetry
INVARIANT SensorsAlwaysBack
