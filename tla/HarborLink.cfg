SPECIFICATION FairSpec
CONSTANTS
    Channels = {c1, c2}
    NoChannel = NoChannel
    RETRIES = 1
    Overshoot = 1
INVARIANTS TypeOK SingleConnection NeverStranded ReceiverArmed LoggedInIsLive
PROPERTIES RestIsStable Reconnects
