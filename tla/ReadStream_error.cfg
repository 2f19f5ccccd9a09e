SPECIFICATION Spec
CONSTANTS
    NumTransfers = 3
    Faults = {"transfer"}
PROPERTY ErrorStops
