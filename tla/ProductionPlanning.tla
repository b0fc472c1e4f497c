-------------------------- MODULE ProductionPlanning -------------------------
(***************************************************************************)
(* Sales orders, the plans made for them, the batches a plan is split into *)
(* and the work orders of a batch (services/production_flow.py): what is   *)
(* planned at one level may not exceed what the level above it holds.      *)
(*                                                                         *)
(* A plan is checked inside its transaction.  A batch reads its plan, a    *)
(* work order its batch and the quantity already given out, and a status   *)
(* change the status before their transactions begin: two steps of the     *)
(* planner (the request) making them.  Plans, batches and work orders are  *)
(* never deleted once they have rows below them, and quantities are never  *)
(* edited.                                                                 *)
(***************************************************************************)
EXTENDS Tables, Integers, FiniteSets, Functions

CONSTANTS SalesItems,   \* rows of prod_sales_order_item, one to an order
          PlanItems,    \* rows of prod_plan_item, one to a plan
          Batches, WorkOrderIds,
          PlannedQuantities,
          Targets,      \* statuses a request asks for
          NoSource,     \* a plan not made for a sales order, a work order of no batch
          Planners

ASSUME PlanningAssumption ==
    /\ PlannedQuantities \subseteq Nat \ {0}
    /\ Targets \subseteq 0 .. 6
    /\ NoSource \notin SalesItems \cup PlanItems \cup Batches

SALES == [draft |-> 0, confirmed |-> 1, producing |-> 2, completed |-> 3, cancelled |-> 4]

SalesRow == [quantity : PlannedQuantities, status : 0 .. 4]
\* Of a plan row, `source` is its item's sales_order_item_id and `linked` says
\* that the plan itself has a sales order.
PlanRow == [quantity : PlannedQuantities, status : 0 .. 4,
            source : SalesItems \cup {NoSource}, linked : BOOLEAN]
BatchRow == [quantity : PlannedQuantities, status : 0 .. 4, source : PlanItems]
WorkOrderRow == [quantity : PlannedQuantities, status : 0 .. 6,
                 source : Batches \cup {NoSource}]

PlannerCall ==
    [kind : {"transition"}, id : SalesItems \cup PlanItems \cup Batches \cup WorkOrderIds,
     from : 0 .. 6, to : 0 .. 6]
    \cup [kind : {"batch"}, source : PlanItems, quantity : PlannedQuantities]
    \cup [kind : {"workorder"}, source : Batches, quantity : PlannedQuantities, used : Nat]

ASSUME PlanningRowAssumption ==
    \* SUM(...) adds the rows of a table
    /\ IsFiniteSet(PlanItems) /\ IsFiniteSet(Batches) /\ IsFiniteSet(WorkOrderIds)
    \* an id stands for its table too
    /\ SalesItems \cap (PlanItems \cup Batches \cup WorkOrderIds) = {}
    /\ PlanItems \cap (Batches \cup WorkOrderIds) = {}
    /\ Batches \cap WorkOrderIds = {}
    /\ NoRow \notin SalesRow \cup PlanRow \cup BatchRow \cup WorkOrderRow
    /\ NoCall \notin PlannerCall

VARIABLES sales, plan, batch, workorders,
          planner,    \* what each planner has read and is about to write
          rewritten,  \* history: rows whose status was written over one not judged
          overlapped  \* history: batches given out on a total no longer true

planningVars == <<sales, plan, batch, workorders, planner, rewritten, overlapped>>

PlanningInit ==
    /\ sales = [i \in SalesItems |-> NoRow]
    /\ plan = [i \in PlanItems |-> NoRow]
    /\ batch = [b \in Batches |-> NoRow]
    /\ workorders = [w \in WorkOrderIds |-> NoRow]
    /\ planner = [c \in Planners |-> NoCall]
    /\ rewritten = {} /\ overlapped = {}

\* The rows of a table made for `source`, but the cancelled ones, and the
\* quantity they hold: a SUM query.
RowsFor(table, source, cancelled) ==
    {i \in DOMAIN table : /\ table[i] # NoRow
                          /\ table[i].source = source
                          /\ table[i].status # cancelled}
QuantityOf(table, ids) == SumFunction([i \in ids |-> table[i].quantity])
UsedBy(table, source, cancelled) == QuantityOf(table, RowsFor(table, source, cancelled))

-----------------------------------------------------------------------------
SaveSalesOrder(i, q) ==
    /\ sales[i] = NoRow
    /\ sales' = [sales EXCEPT ![i] = [quantity |-> q, status |-> SALES.draft]]
    /\ UNCHANGED <<plan, batch, workorders, planner, rewritten, overlapped>>

\* Only a plan that names a sales order is held against it; the item of any
\* other may still name a sales item, and then counts there.
SavePlan(p, s, linked, q) ==
    /\ plan[p] = NoRow
    /\ linked => /\ s # NoSource /\ sales[s] # NoRow
                 /\ sales[s].status = SALES.confirmed
                 /\ q + UsedBy(plan, s, SALES.cancelled) <= sales[s].quantity
    /\ plan' = [plan EXCEPT ![p] = [quantity |-> q, status |-> 0, source |-> s,
                                    linked |-> linked]]
    /\ UNCHANGED <<sales, batch, workorders, planner, rewritten, overlapped>>

ReadPlan(c, p, q) ==
    /\ planner[c] = NoCall
    /\ plan[p] # NoRow /\ plan[p].status \notin {SALES.cancelled, SALES.completed}
    /\ planner' = [planner EXCEPT ![c] = [kind |-> "batch", source |-> p, quantity |-> q]]
    /\ UNCHANGED <<sales, plan, batch, workorders, rewritten, overlapped>>

FaultySaveBatch(c, b) ==   \* what is already split off is not looked at
    /\ planner[c] # NoCall /\ planner[c].kind = "batch"
    /\ batch[b] = NoRow
    /\ batch' = IF planner[c].quantity <= plan[planner[c].source].quantity
                THEN [batch EXCEPT ![b] = [quantity |-> planner[c].quantity, status |-> 0,
                                           source |-> planner[c].source]]
                ELSE batch
    /\ planner' = [planner EXCEPT ![c] = NoCall]
    /\ UNCHANGED <<sales, plan, workorders, rewritten, overlapped>>

\* What is already split off is summed inside the transaction; a batch that
\* does not fit is refused.
SaveBatch(c, b) ==
    /\ planner[c] # NoCall /\ planner[c].kind = "batch"
    /\ batch[b] = NoRow
    /\ LET p == planner[c].source
           q == planner[c].quantity
       IN batch' = IF q + UsedBy(batch, p, SALES.cancelled) <= plan[p].quantity
                   THEN [batch EXCEPT ![b] = [quantity |-> q, status |-> 0, source |-> p]]
                   ELSE batch
    /\ planner' = [planner EXCEPT ![c] = NoCall]
    /\ UNCHANGED <<sales, plan, workorders, rewritten, overlapped>>

ReadBatch(c, b, q) ==
    /\ planner[c] = NoCall
    /\ batch[b] # NoRow /\ batch[b].status # SALES.cancelled
    /\ q + UsedBy(workorders, b, 6) <= batch[b].quantity
    /\ planner' = [planner EXCEPT ![c] =
                     [kind |-> "workorder", source |-> b, quantity |-> q,
                      used |-> UsedBy(workorders, b, 6)]]
    /\ UNCHANGED <<sales, plan, batch, workorders, rewritten, overlapped>>

\* Nothing read is looked at again.
SaveWorkOrder(c, w) ==
    /\ planner[c] # NoCall /\ planner[c].kind = "workorder"
    /\ workorders[w] = NoRow
    /\ LET b == planner[c].source
       IN /\ workorders' = [workorders EXCEPT ![w] =
                [quantity |-> planner[c].quantity, status |-> 0, source |-> b]]
          /\ overlapped' = IF UsedBy(workorders, b, 6) > planner[c].used
                           THEN overlapped \cup {b} ELSE overlapped
    /\ planner' = [planner EXCEPT ![c] = NoCall]
    /\ UNCHANGED <<sales, plan, batch, rewritten>>

\* A work order of no batch is held against nothing.
SaveLooseWorkOrder(w, q) ==
    /\ workorders[w] = NoRow
    /\ workorders' = [workorders EXCEPT ![w] =
                         [quantity |-> q, status |-> 0, source |-> NoSource]]
    /\ UNCHANGED <<sales, plan, batch, planner, rewritten, overlapped>>

-----------------------------------------------------------------------------
(* transition_status.                                                      *)

OrderGraph == {<<0, 1>>, <<0, 4>>, <<1, 2>>, <<1, 4>>, <<2, 3>>}
WorkOrderGraph == {<<0, 1>>, <<0, 6>>, <<1, 2>>, <<1, 4>>, <<1, 6>>, <<2, 3>>, <<2, 4>>,
                   <<4, 2>>, <<4, 6>>, <<3, 5>>}

\* The four tables as one: their ids are disjoint.
Row(id) == IF id \in SalesItems THEN sales[id]
           ELSE IF id \in PlanItems THEN plan[id]
           ELSE IF id \in Batches THEN batch[id]
           ELSE workorders[id]

JudgeStatus(c, id) ==
    /\ planner[c] = NoCall
    /\ Row(id) # NoRow
    /\ \E t \in IF id \in WorkOrderIds THEN WorkOrderGraph ELSE OrderGraph :
          /\ Row(id).status = t[1] /\ t[2] \in Targets
          /\ planner' = [planner EXCEPT ![c] =
                           [kind |-> "transition", id |-> id, from |-> t[1], to |-> t[2]]]
    /\ UNCHANGED <<sales, plan, batch, workorders, rewritten, overlapped>>

WriteStatus(c) ==
    /\ planner[c] # NoCall /\ planner[c].kind = "transition"
    /\ LET id == planner[c].id
           With(table) == IF id \in DOMAIN table
                          THEN [table EXCEPT ![id].status = planner[c].to] ELSE table
       IN /\ sales' = With(sales)
          /\ plan' = With(plan)
          /\ batch' = With(batch)
          /\ workorders' = With(workorders)
          /\ rewritten' = IF Row(id).status = planner[c].from
                          THEN rewritten ELSE rewritten \cup {id}
    /\ planner' = [planner EXCEPT ![c] = NoCall]
    /\ UNCHANGED overlapped

PlanningNext ==
    \/ \E q \in PlannedQuantities :
          \/ \E i \in SalesItems : SaveSalesOrder(i, q)
          \/ \E p \in PlanItems, s \in SalesItems \cup {NoSource}, linked \in BOOLEAN :
                SavePlan(p, s, linked, q)
          \/ \E w \in WorkOrderIds : SaveLooseWorkOrder(w, q)
          \/ \E c \in Planners :
                \/ \E p \in PlanItems : ReadPlan(c, p, q)
                \/ \E b \in Batches : ReadBatch(c, b, q)
    \/ \E c \in Planners :
          \/ \E b \in Batches : SaveBatch(c, b)
          \/ \E w \in WorkOrderIds : SaveWorkOrder(c, w)
          \/ \E id \in SalesItems \cup PlanItems \cup Batches \cup WorkOrderIds : JudgeStatus(c, id)
          \/ WriteStatus(c)

PlanningSpec == PlanningInit /\ [][PlanningNext]_planningVars

-----------------------------------------------------------------------------
(* Properties.                                                             *)

\* The variables hold rows of the tables' types.
PlanningTypeOK ==
    /\ sales \in [SalesItems -> SalesRow \cup {NoRow}]
    /\ plan \in [PlanItems -> PlanRow \cup {NoRow}]
    /\ batch \in [Batches -> BatchRow \cup {NoRow}]
    /\ workorders \in [WorkOrderIds -> WorkOrderRow \cup {NoRow}]
    /\ planner \in [Planners -> PlannerCall \cup {NoCall}]
    /\ rewritten \subseteq SalesItems \cup PlanItems \cup Batches \cup WorkOrderIds
    /\ overlapped \subseteq Batches

\* Plans made for a sales order never plan more than it sells, batches never
\* split off more than their plan, and work orders never give out more than
\* their batch - unless a stale status change brought a cancelled row below
\* back, or work orders of the same batch were saved at the same time.
PlannedWithinOrdered ==
    /\ \A i \in SalesItems : sales[i] # NoRow =>
          LET linked == {p \in RowsFor(plan, i, SALES.cancelled) : plan[p].linked}
          IN \/ QuantityOf(plan, linked) <= sales[i].quantity
             \/ linked \cap rewritten # {}
    /\ \A p \in PlanItems : plan[p] # NoRow =>
          LET split == RowsFor(batch, p, SALES.cancelled)
          IN \/ QuantityOf(batch, split) <= plan[p].quantity
             \/ split \cap rewritten # {}
    /\ \A b \in Batches : batch[b] # NoRow =>
          LET given == RowsFor(workorders, b, 6)
          IN \/ QuantityOf(workorders, given) <= batch[b].quantity
             \/ given \cap rewritten # {}
             \/ b \in overlapped
=============================================================================
