SPECIFICATION FairSpec
CONSTANTS
    Channels = {c1, c2, c3}
    Capacity = 2
    MaxMessages = 6
INVARIANTS TypeOK BoundedLoss InOrder
PROPERTIES FifoSpec Drains
CHECK_DEADLOCK FALSE
