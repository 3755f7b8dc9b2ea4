SPECIFICATION FairSpec
CONSTANTS
    Channels = {c1, c2}
    NoChannel = NoChannel
    RETRIES = 0
    Overshoot = 1
PROPERTIES StartConnects
