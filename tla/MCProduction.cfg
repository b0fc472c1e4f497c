CONSTANTS
    NoRow = NoRow
    Deleted = Deleted
    NoCall = NoCall
    Orders = {"PO1"}
    ItemIds = {1, 2}
    LineIds = {1, 2, 3}
    Products = {"P"}
    Places = {"A1"}
    Deliveries = {1, 2}
    Users = {"u1", "u2"}
    ReceiptKeys = {"k1"}
    NoReceiptKey = NoReceiptKey
    SalesItems = {1}
    PlanItems = {11, 12}
    Batches = {21, 22}
    WorkOrderIds = {31, 32}
    PlannedQuantities = {1}
    Targets = {1, 4, 6}
    NoSource = NoSource
    Planners = {"c1", "c2"}
    Flows = {"f"}
    Instances = {1, 2}
    WorkOrders = {"w"}
    NoWorkOrder = NoWorkOrder
    Approvers = {"a", "b"}
    StepLists <- MCStepLists
    FlowClerks = {"c"}
    Steps = 2
    Planned = 2
    ReportIds = {1, 2, 3}
    Quantities = {1}
    Defects = {0, 1}
    Operations = {"k"}
    NoOperation = NoOperation
    Clerks = {"c"}
    Documents = {1, 2, 3}
    Materials = {"m"}
    ItemLists <- MCItemLists
    Needs = {"n"}
    MaterialOf <- MCMaterialOf
    RequiredFor <- MCRequiredFor
    Amounts = {1, 2}

SPECIFICATION Spec
INVARIANTS
    ProductionTypes
    ReceiptsAddUp
    StatusTellsReceipts
    StepsDecidedInOrder
    PlannedWithinOrdered
    LedgerExplainsStock
    BooksAgree
PROPERTIES
    StatusChangesAreLogged
    ApprovalReleasesDraft
CHECK_DEADLOCK FALSE
