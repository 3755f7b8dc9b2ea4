CONSTANTS
    Users = {user}
    Service = service
    None = none
    NLoops = 2
    MaxChannels = 3
    MaxCalls = 2
SPECIFICATION Spec
CHECK_DEADLOCK FALSE
INVARIANTS TypeOK ChainKept HaltNotMissed
PROPERTIES RevivedBy DisconnectReturns Retries
