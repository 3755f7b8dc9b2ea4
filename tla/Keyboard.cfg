CONSTANTS
    Ids = {id}
    Locals = {l1}
    Loop = loop
    Sweeper = sweeper
    MaxVisitors = 2
    KeyCapacity = 2
    WireCapacity = 2
    MaxMessages = 3
SPECIFICATION Spec
INVARIANTS TypeOK StoreAgrees ForegroundAgrees AtMostOneLeftBehind KeyboardReturns
