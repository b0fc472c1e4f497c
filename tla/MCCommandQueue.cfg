CONSTANTS
    c1 = c1
    c3 = c3
    d1 = d1
    Events <- AuditEvents
    EventIds <- MCEventIds
    Streams = {"D1", "D2"}
    EventId <- AuditId
    StreamOf <- AuditStream
    SequenceOf <- AuditSequence
    NoWorker = NoWorker
    Commands <- MCRetried
    CommandIds <- MCRetried
    CommandId <- MCCommandId
    Keys <- MCRetried
    KeyOf <- MCKeyOf
    Devices = {"D1", "D2"}
    DeviceOf <- MCDeviceOf
    WorkerIds = {"w1"}
    Outcomes = {"acknowledged", "expired"}
    Limit = 2
    MaxAttempts = 2

SPECIFICATION LiveSpec
INVARIANTS
    AuditStreamsComplete
PROPERTIES
    ImplementsCommandLog
    EventuallyEnded
CHECK_DEADLOCK FALSE
