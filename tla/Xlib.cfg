SPECIFICATION Spec
CONSTANTS
    SeqSize = 4
    BufferSize = 2
    Capacity = 1
    MaxSilence = 2
    MaxRequest = 6
    MaxEvents = 2
INVARIANTS TypeOK SerialsAreTrue RepliesAreAwaited BlocksForAReason
PROPERTY CallsEnd
CHECK_DEADLOCK FALSE
