---------------------------- MODULE MCProduction -----------------------------
(***************************************************************************)
(* The modules of the production chain, one after the other in one run:    *)
(* every behaviour takes the part of one of them, the others stay as they  *)
(* are, for no two of them share state.  The parts "plans", "batches" and  *)
(* "workorders" are planning at one level each, with what lies below it    *)
(* left out.                                                               *)
(***************************************************************************)
EXTENDS Purchasing, ProductionPlanning, WorkOrderApproval, TaskReports, StockLedger

MCStepLists == {<<"b", "a">>, <<"a", "b">>}
MCItemLists == {<<<<"m", 1>>>>, <<<<"m", 1>>, <<"m", 1>>>>}
MCMaterialOf == [n \in {"n"} |-> "m"]
MCRequiredFor == [n \in {"n"} |-> 2]

VARIABLE part

Init ==
    /\ part \in {"purchasing", "approval", "plans", "batches", "workorders", "reports",
                "retries", "stock"}
    /\ PurchasingInit /\ PlanningInit /\ ApprovalInit /\ ReportsInit /\ StockInit

\* AUTOINCREMENT gives the ids of a table out in their order.
InOrder(table) == \A x, y \in DOMAIN table : x < y /\ table[x] = NoRow => table[y] = NoRow

\* Bound: of the upper levels of planning one row.
AtMostOne(table) == Cardinality({x \in DOMAIN table : table[x] # NoRow}) <= 1

PurchasingTurn ==
    /\ part = "purchasing" /\ PurchasingNext
    /\ InOrder(item') /\ InOrder(line')
    /\ UNCHANGED <<planningVars, approvalVars, reportsVars, stockVars>>

PlanningTurn ==
    /\ part \in {"plans", "batches", "workorders"} /\ PlanningNext
    /\ InOrder(plan') /\ InOrder(batch') /\ InOrder(workorders')
    /\ part = "plans" => UNCHANGED <<batch, workorders>>
    /\ part = "batches" => UNCHANGED <<sales, workorders>> /\ AtMostOne(plan')
    /\ part = "workorders" =>
          /\ UNCHANGED sales /\ AtMostOne(plan') /\ AtMostOne(batch')
          /\ \A c \in Planners : planner'[c] # NoCall /\ planner'[c].kind = "transition" =>
                planner'[c].id \in WorkOrderIds
    /\ UNCHANGED <<purchasingVars, approvalVars, reportsVars, stockVars>>

ApprovalTurn ==
    /\ part = "approval" /\ ApprovalNext
    /\ InOrder(instance')
    /\ UNCHANGED <<purchasingVars, planningVars, reportsVars, stockVars>>

ReportsTurn ==
    /\ part \in {"reports", "retries"} /\ ReportsNext
    /\ InOrder(report')
    /\ part = "reports" =>
          /\ \A r \in ReportIds : report'[r] \in ReportRow => report'[r].operation = NoOperation
          /\ \A c \in Clerks : call'[c] # NoCall => call'[c].entity = "report"
    /\ part = "retries" => report'[3] = NoRow
    /\ UNCHANGED <<purchasingVars, planningVars, approvalVars, stockVars>>

StockTurn ==
    /\ part = "stock" /\ StockNext
    /\ InOrder(document')
    /\ UNCHANGED <<purchasingVars, planningVars, approvalVars, reportsVars>>

Next ==
    /\ PurchasingTurn \/ PlanningTurn \/ ApprovalTurn \/ ReportsTurn \/ StockTurn
    /\ UNCHANGED part

vars == <<part, purchasingVars, planningVars, approvalVars, reportsVars, stockVars>>

Spec == Init /\ [][Next]_vars

\* The type invariants of the five modules.
ProductionTypes ==
    PurchasingTypeOK /\ PlanningTypeOK /\ ApprovalTypeOK /\ ReportsTypeOK /\ StockTypeOK
=============================================================================
