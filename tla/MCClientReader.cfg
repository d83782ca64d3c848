CONSTANTS
    v1 = v1
    v2 = v2
    v3 = v3
SPECIFICATION Spec
INVARIANTS
    OrderedOnce EndIsComplete RangesAreRight
PROPERTIES
    EverySnapshotEnds ImplementsReadStatus
CHECK_DEADLOCK FALSE
