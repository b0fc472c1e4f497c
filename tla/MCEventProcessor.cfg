CONSTANTS
    q1 = q1
    q2 = q2
    x = x
    l = l
    dev = dev
    t = t
    u1 = u1
    u2 = u2
    NoWorker = NoWorker
    NoEvent = NoEvent
    Events <- MCReports
    EventIds <- MCReports
    Streams <- MCStreams
    EventId <- MCEventId
    StreamOf <- MCStreamOf
    SequenceOf <- MCSequenceOf
    Workers = {u1, u2}
    Limit = 2
    Tasks = {t}
    Planned <- MCRoomForTwo
    Reporting <- MCReports
    TaskOf <- MCTaskOf
    Quantity <- MCQuantity
    Malformed = {}
    Linked = {}

SPECIFICATION Spec
SYMMETRY Workers_Symmetry
INVARIANT
    EffectMeansReport
PROPERTIES
    StaleWorkerIsHarmless
    ImplementsOnceOnlyEffects
CHECK_DEADLOCK FALSE
