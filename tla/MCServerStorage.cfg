CONSTANTS
    c1 = c1
    c2 = c2
    c3 = c3
    a = a
    b = b
    c = c
    Zero = Zero
    None = None
SPECIFICATION Spec
INVARIANTS
    ReplicasKeepUp MemoryIsSafe AppendIsWhole SameMap
PROPERTIES
    ImplementsReplicatedLog GcEnds EveryAppendFinishes
CHECK_DEADLOCK FALSE
