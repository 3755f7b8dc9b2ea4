SPECIFICATION Spec
CONSTANTS
    Streamers = {t1, t2}
    NoStreamer = NoStreamer
    Fds = {fd1}
    FrameParts = 2
    NoFd = NoFd
    DeviceWidth = 2
    DeviceHeight = 3
    Resolutions <- MCResolutions
    Frequencies = {500}
    InitFrequency = 500
    Garbage = Garbage
CHECK_DEADLOCK FALSE
INVARIANTS FirstIterationReads
