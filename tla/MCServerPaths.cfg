CONSTANTS
    x = x
    y = y
    z = z
    s1 = s1
    s2 = s2
    s3 = s3
    c1 = c1
    c2 = c2
    c3 = c3
SPECIFICATION Spec
INVARIANTS PartialOrder LinearizableSnapshot
PROPERTY Completion
CHECK_DEADLOCK FALSE
