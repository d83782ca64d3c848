SPECIFICATION Spec
INVARIANTS
    RenameIsAtomic AnswersAreRight ObservesInOrder RedAfterItsBlues ObservedRemove
CHECK_DEADLOCK FALSE
