SPECIFICATION FairSpec
CONSTANTS
    Streamers = {t1, t2}
    NoStreamer = NoStreamer
    Fds = {fd1, fd2}
    FrameParts = 3
    NoFd = NoFd
    DeviceWidth = 2
    DeviceHeight = 3
    Resolutions <- MCResolutions
    Frequencies = {500}
    InitFrequency = 500
    Garbage = Garbage
CHECK_DEADLOCK FALSE
INVARIANTS TypeOK CleanFraming CleanSettings CleanStream FitsDevice
PROPERTIES ServesAgain
