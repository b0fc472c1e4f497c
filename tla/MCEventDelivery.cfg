CONSTANTS
    a1 = a1
    a2 = a2
    f2 = f2
    dev = dev
    p1 = p1
    p2 = p2
    w = w
    NoWorker = NoWorker
    NoEvent = NoEvent
    Events <- MCEdgeEvents
    EventIds <- MCEventIds
    Streams <- MCStreams
    EventId <- MCEventId
    StreamOf <- MCStreamOf
    SequenceOf <- MCSequenceOf
    EdgeEvents <- MCEdgeEvents
    Pumps <- MCTwoPumps
    WorkerOf <- MCWorkerOf
    WorkerIds = {w}
    MaxToken = 3
    MaxAttempts = 2
    BatchSize = 2
    Transport = "mqtt"

SPECIFICATION Spec
SYMMETRY Pumps_Symmetry
INVARIANT
    InOrderIngest
PROPERTIES
    StaleClaimIsHarmless
    ImplementsReliableDelivery
CHECK_DEADLOCK FALSE
