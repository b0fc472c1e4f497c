CONSTANTS
    a1 = a1
    a2 = a2
    f2 = f2
    dev = dev
    p1 = p1
    p2 = p2
    w = w
    NoWorker = NoWorker
    NoEvent = NoEvent
    Events <- MCAllEvents
    EventIds <- MCEventIds
    Streams <- MCStreams
    EventId <- MCEventId
    StreamOf <- MCStreamOf
    SequenceOf <- MCSequenceOf
    EdgeEvents <- MCEdgeEvents
    Pumps <- MCOnePump
    WorkerOf <- MCWorkerOf
    WorkerIds = {w}
    MaxToken = 2
    MaxAttempts = 2
    BatchSize = 2
    Transport = "http"

SPECIFICATION Spec
INVARIANT
    ConflictsQuarantined
CHECK_DEADLOCK FALSE
