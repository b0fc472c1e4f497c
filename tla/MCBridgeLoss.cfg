CONSTANTS
    NoRow = NoRow
    Deleted = Deleted
    NoCall = NoCall
    Units = {"u"}
    Stations = {"s1", "s2"}
    Materials = {"m"}
    NoMaterial = NoMaterial
    Locks = {"k"}
    Handlers = {"h1", "h2"}
    MaxStationRecords = 2
    Tools = {"t"}
    Borrows = {"b1", "b2"}
    Storekeepers = {"c1", "c2"}
    MaxQuantity = 2
    Equipment = {"e1", "e2"}
    Repairs = {"r1", "r2"}
    MaintenancePlans = {"p1"}
    Mechanics = {"c1", "c2"}
    PlanUsers = {"u1", "u2"}
    Adjustments <- MCAdjustments
    MaxPlanQty = 2
    Clients = {"a", "b"}
    Threads = {"t1", "t2"}
    Routes = {"login", "data"}
    LimitsOf <- MCLimitsOf
    EndOfTime = 2
    MaxHits = 3
    NoHit = NoHit
    Workstations = {"w1", "w2"}
    Calls = {"a1", "a2"}
    CallTypes = {"quality", "safety"}
    Forms = {"f1", "f2"}
    Clerks = {"c1"}
    FloorOrders = {"o1", "o2"}
    PlannedQty = 2
    MaxFormQty = 2
    ListRecords = {1, 2, 3}
    Movers = {"c1", "c2"}
    Targets = {0, 4}
    Endpoints = {"e"}
    NoChild = NoChild
    Versions = {1, 2}
    ReaderVersions = {2}
    Children = {p1, p2}
    Sessions = {"s1"}
    Capacity = 1
    MaxFailures = 1
    Files = {"f1", "f2", "f3"}
    Oversized = {"f3"}
    Contents = {"x", "y"}
    ContentOf <- MCContentOf
    NoFile = NoFile
    Reports = {"r1", "r2"}
    Carriers = {"c1", "c2"}
    NoCarrier = NoCarrier

SPECIFICATION Spec
INVARIANT
    ImportsMakeEvents
CHECK_DEADLOCK FALSE
