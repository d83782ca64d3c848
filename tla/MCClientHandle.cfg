CONSTANTS
    a = a
    b = b
    c = c
SPECIFICATION Spec
INVARIANTS
    CountsAreExact MessageIsAsked AppendsComeAfter StoppedByTheLast CopiedInOrder
PROPERTIES
    CallsReturn EveryEntryCopied
CHECK_DEADLOCK FALSE
