CONSTANTS
    q1 = q1
    q2 = q2
    x = x
    l = l
    dev = dev
    t = t
    u1 = u1
    u2 = u2
    NoWorker = NoWorker
    NoEvent = NoEvent
    Events <- MCMixed
    EventIds <- MCMixed
    Streams <- MCStreams
    EventId <- MCEventId
    StreamOf <- MCStreamOf
    SequenceOf <- MCSequenceOf
    Workers = {u1}
    Limit = 2
    Tasks = {t}
    Planned <- MCRoomForTwo
    Reporting = {q1, x}
    TaskOf <- MCTaskOf
    Quantity <- MCQuantity
    Malformed = {x}
    Linked = {l}

SPECIFICATION LiveSpec
PROPERTY
    EventuallyProcessed
CHECK_DEADLOCK FALSE
