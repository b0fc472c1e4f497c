\* Two requests, two NG reports and an OK report of one serial number.
CONSTANTS
    e1 = e1
    q1 = q1
    q2 = q2
    c1 = c1
    c2 = c2
    c3 = c3
    s1 = s1
    m1 = m1
    h1 = h1
    h2 = h2
    i1 = i1
    i2 = i2
    v1 = v1
    NormalTask = NormalTask
    NoRequest = NoRequest
    NoCase = NoCase
    Idle = Idle
    SNs = {s1}
    NSteps = 1
    Endpoints = {e1}
    StepOf <- MCStepOf
    Requests <- MCRequests
    Files <- MCFiles
    ManualReports = {m1}
    Handlers = {h1, h2}
    Importers = {i1, i2}
    Reviewers = {v1}

SPECIFICATION Spec
SYMMETRY Names_Symmetry
INVARIANTS
    TypeOK
    OneOpenCase
    CreditedOnce
    NoDefectForgotten
    OnePendingPerUnit
PROPERTY
    ImplementsQualityCases
CHECK_DEADLOCK FALSE
