SPECIFICATION FairSpec
CONSTANTS
    Handlers = {h1, h2}
    Workers = {w1, w2, w3}
    NoWorker = NoWorker
    ImageCapacity = 2

INVARIANTS TypeOK AtMostOneAfterStop
PROPERTIES StoppedWorkerEnds
