----------------------------- MODULE Purchasing -----------------------------
(***************************************************************************)
(* Purchase orders and the receipt of their goods:                         *)
(* services/procurement_flow.py (the life of an order) and                 *)
(* services/receiving_service.py (arrival notices, receipt postings, stock *)
(* by place, and the order status they drive).  Every operation is one     *)
(* BEGIN IMMEDIATE transaction, hence one action; an error rolls back and  *)
(* is no step at all.  Row ids are AUTOINCREMENT: a deleted id is never    *)
(* given out again.                                                        *)
(***************************************************************************)
EXTENDS Tables, Naturals, Sequences, FiniteSets, Functions

CONSTANTS Orders, ItemIds, LineIds,   \* ids the three tables can give out
          Products, Places,           \* a place: warehouse, area, location, batch
          Deliveries,                 \* quantities a request can name
          Users, ReceiptKeys,         \* operator_id, client_operation_id
          NoReceiptKey                \* a request without client_operation_id

ASSUME PurchasingAssumption ==
    /\ Deliveries \subseteq Nat \ {0}
    /\ NoReceiptKey \notin ReceiptKeys

PURCHASE == [draft |-> 0, submitted |-> 1, approved |-> 2, partial_arrival |-> 3,
             fully_arrived |-> 4, closed |-> 5, rejected |-> 6, cancelled |-> 7]

Receivable == {PURCHASE.approved, PURCHASE.partial_arrival, PURCHASE.fully_arrived}

\* scm_purchase_order_item: accepted_qty always equals posted_qty here.
ItemRow == [order : Orders, product : Products, ordered : Nat, arrived : Nat,
            posted : Nat]
\* inv_arrival_notice_item with the order of its notice.
LineRow == [item : ItemIds, order : Orders, quantity : Nat, normal : Nat,
            accepted : Nat, pending : Nat]
\* inv_receipt_posting.
PostingRow == [line : LineIds, product : Products, place : Places,
               quantity : Deliveries, by : Users,
               operation : ReceiptKeys \cup {NoReceiptKey}]

\* A row is no mark of a missing one, and a table has finitely many rows to add.
ASSUME PurchasingRowAssumption ==
    /\ IsFiniteSet(LineIds)
    /\ NoRow \notin ItemRow /\ Deleted \notin ItemRow
    /\ NoRow \notin LineRow
    /\ NoRow \notin 0 .. 7

VARIABLES purchase,  \* status of each scm_purchase_order
          item, line,
          postings,  \* inv_receipt_posting in the order of its ids
          stock,     \* inv_stock_balance
          logged     \* latest scm_procurement_status_log entry of each order

purchasingVars == <<purchase, item, line, postings, stock, logged>>

PurchasingInit ==
    /\ purchase = [o \in Orders |-> NoRow]
    /\ item = [i \in ItemIds |-> NoRow]
    /\ line = [l \in LineIds |-> NoRow]
    /\ postings = <<>>
    /\ stock = [kept \in Products \X Places |-> 0]
    /\ logged = [o \in Orders |-> <<NoRow, NoRow>>]

ItemsOf(o) == {i \in ItemIds : item[i] \notin {NoRow, Deleted} /\ item[i].order = o}
LinesOf(i) == {l \in LineIds : line[l] # NoRow /\ line[l].item = i}

-----------------------------------------------------------------------------
(* The life of an order.                                                   *)

\* The order goes from status `from` to `to`, and the log says so.
Move(o, from, to) ==
    /\ purchase[o] = from
    /\ purchase' = [purchase EXCEPT ![o] = to]
    /\ logged' = [logged EXCEPT ![o] = <<from, to>>]

\* The rows after order o got the items `new`, a product and a quantity for
\* each fresh id, in place of the items `old`.
Rewritten(o, old, new) ==
    [i \in ItemIds |->
        IF i \in DOMAIN new
        THEN [order |-> o, product |-> new[i].product, ordered |-> new[i].ordered,
              arrived |-> 0, posted |-> 0]
        ELSE IF i \in old THEN Deleted ELSE item[i]]

Requests == UNION {[ids -> [product : Products, ordered : Deliveries]] :
                     ids \in (SUBSET {i \in ItemIds : item[i] = NoRow}) \ {{}}}

CreateOrder(o, new) ==
    /\ Move(o, NoRow, PURCHASE.draft)
    /\ item' = Rewritten(o, {}, new)
    /\ UNCHANGED <<line, postings, stock>>

\* Editing keeps the status and replaces every item row.
EditOrder(o, new) ==
    /\ purchase[o] \in {PURCHASE.draft, PURCHASE.rejected}
    /\ item' = Rewritten(o, ItemsOf(o), new)
    /\ UNCHANGED <<purchase, line, postings, stock, logged>>

Submit(o) ==
    /\ \E from \in {PURCHASE.draft, PURCHASE.rejected} : Move(o, from, PURCHASE.submitted)
    /\ UNCHANGED <<item, line, postings, stock>>

Review(o, approved) ==
    /\ Move(o, PURCHASE.submitted,
            IF approved THEN PURCHASE.approved ELSE PURCHASE.rejected)
    /\ UNCHANGED <<item, line, postings, stock>>

Cancel(o) ==
    /\ ~ \E l \in LineIds : line[l] # NoRow /\ line[l].order = o
    /\ \E from \in {PURCHASE.draft, PURCHASE.submitted, PURCHASE.approved, PURCHASE.rejected} :
          Move(o, from, PURCHASE.cancelled)
    /\ UNCHANGED <<item, line, postings, stock>>

FaultyClose(o) ==   \* without an entry in the log
    /\ purchase[o] \in Receivable
    /\ purchase' = [purchase EXCEPT ![o] = PURCHASE.closed]
    /\ UNCHANGED <<item, line, postings, stock, logged>>

Close(o) ==
    /\ \E from \in Receivable : Move(o, from, PURCHASE.closed)
    /\ UNCHANGED <<item, line, postings, stock>>

-----------------------------------------------------------------------------
(* Receiving.                                                              *)

FaultyNormal(i, q) ==   \* what arrived before is not looked at
    IF q <= item[i].ordered THEN q ELSE item[i].ordered

\* What a delivery of q counts as ordered; the rest is excess.
Normal(i, q) == IF item[i].arrived >= item[i].ordered THEN 0
                ELSE IF q <= item[i].ordered - item[i].arrived THEN q
                ELSE item[i].ordered - item[i].arrived

\* A notice: for each fresh line id an item of the order, none twice.
Notices(o) ==
    {got \in UNION {[ids -> [item : ItemsOf(o), quantity : Deliveries]] :
                      ids \in (SUBSET {l \in LineIds : line[l] = NoRow}) \ {{}}} :
        \A l, m \in DOMAIN got : got[l].item = got[m].item => l = m}

RegisterArrival(o, got) ==
    /\ purchase[o] \in Receivable
    /\ line' = [l \in LineIds |->
                  IF l \in DOMAIN got
                  THEN [item |-> got[l].item, order |-> o, quantity |-> got[l].quantity,
                        normal |-> Normal(got[l].item, got[l].quantity), accepted |-> 0,
                        pending |-> Normal(got[l].item, got[l].quantity)]
                  ELSE line[l]]
    /\ item' = [i \in ItemIds |->
                  IF \E l \in DOMAIN got : got[l].item = i
                  THEN LET l == CHOOSE l \in DOMAIN got : got[l].item = i
                       IN [item[i] EXCEPT !.arrived = @ + got[l].quantity]
                  ELSE item[i]]
    /\ UNCHANGED <<purchase, postings, stock, logged>>

FaultyAdvance(o, rows) ==   \* complete with the first item that is
    LET complete == \E i \in ItemsOf(o) : rows[i].posted >= rows[i].ordered
        target == IF complete THEN PURCHASE.fully_arrived ELSE PURCHASE.partial_arrival
    IN IF purchase[o] \in {target, PURCHASE.fully_arrived}
       THEN UNCHANGED <<purchase, logged>>
       ELSE Move(o, purchase[o], target)

\* _advance_order_status, after the posting changed the item rows.
Advance(o, rows) ==
    LET complete == \A i \in ItemsOf(o) : rows[i].posted >= rows[i].ordered
        target == IF complete THEN PURCHASE.fully_arrived ELSE PURCHASE.partial_arrival
    IN IF purchase[o] \in {target, PURCHASE.fully_arrived}
       THEN UNCHANGED <<purchase, logged>>
       ELSE Move(o, purchase[o], target)

Posted(u, op) == \E k \in DOMAIN postings :
                    postings[k].by = u /\ postings[k].operation = op

FaultyPostReceipt(u, op, l, q, s) ==   \* what is pending is not looked at
    /\ op = NoReceiptKey \/ ~ Posted(u, op)
    /\ line[l] # NoRow
    /\ purchase[line[l].order] \in Receivable
    /\ postings' = Append(postings, [line |-> l, product |-> item[line[l].item].product,
                                     place |-> s, quantity |-> q, by |-> u,
                                     operation |-> op])
    /\ stock' = [stock EXCEPT ![<<item[line[l].item].product, s>>] = @ + q]
    /\ line' = [line EXCEPT ![l].pending = @ - q, ![l].accepted = @ + q]
    /\ item' = [item EXCEPT ![line[l].item].posted = @ + q]
    /\ Advance(line[l].order, item')

\* A request whose operation id its operator has used before is answered with
\* the first posting, whatever else it asks for: no step.
PostReceipt(u, op, l, q, s) ==
    /\ op = NoReceiptKey \/ ~ Posted(u, op)
    /\ line[l] # NoRow
    /\ q <= line[l].pending
    /\ purchase[line[l].order] \in Receivable
    /\ postings' = Append(postings, [line |-> l, product |-> item[line[l].item].product,
                                     place |-> s, quantity |-> q, by |-> u,
                                     operation |-> op])
    /\ stock' = [stock EXCEPT ![<<item[line[l].item].product, s>>] = @ + q]
    /\ line' = [line EXCEPT ![l].pending = @ - q, ![l].accepted = @ + q]
    /\ item' = [item EXCEPT ![line[l].item].posted = @ + q]
    /\ Advance(line[l].order, item')

PurchasingNext ==
    \/ \E o \in Orders :
          \/ \E new \in Requests : CreateOrder(o, new) \/ EditOrder(o, new)
          \/ Submit(o)
          \/ \E approved \in BOOLEAN : Review(o, approved)
          \/ Cancel(o)
          \/ Close(o)
          \/ \E got \in Notices(o) : RegisterArrival(o, got)
    \/ \E u \in Users, op \in ReceiptKeys \cup {NoReceiptKey}, l \in LineIds,
          q \in Deliveries, s \in Places : PostReceipt(u, op, l, q, s)

PurchasingSpec == PurchasingInit /\ [][PurchasingNext]_purchasingVars

-----------------------------------------------------------------------------
(* Properties.                                                             *)

Statuses == {PURCHASE[s] : s \in DOMAIN PURCHASE}

\* The variables hold rows of the tables' types.
PurchasingTypeOK ==
    /\ purchase \in [Orders -> Statuses \cup {NoRow}]
    /\ item \in [ItemIds -> ItemRow \cup {NoRow, Deleted}]
    /\ line \in [LineIds -> LineRow \cup {NoRow}]
    /\ postings \in Seq(PostingRow)
    /\ stock \in [Products \X Places -> Nat]
    /\ logged \in [Orders -> (Statuses \cup {NoRow}) \X (Statuses \cup {NoRow})]

\* What the lines of an item hold together, and a set of posting rows.
ArrivedOn(i) == SumFunction([l \in LinesOf(i) |-> line[l].quantity])
NormalOn(i) == SumFunction([l \in LinesOf(i) |-> line[l].normal])
AcceptedOn(i) == SumFunction([l \in LinesOf(i) |-> line[l].accepted])
QuantityOn(rows) == SumFunction([k \in rows |-> postings[k].quantity])
PostingsOn(l) == {k \in DOMAIN postings : postings[k].line = l}
PostingsAt(p, s) == {k \in DOMAIN postings :
                       postings[k].product = p /\ postings[k].place = s}

\* A client operation of an operator posts once, however often it is sent.
OnePostingPerOperation ==
    \A j, k \in DOMAIN postings :
        /\ postings[j].operation # NoReceiptKey
        /\ postings[j].operation = postings[k].operation
        /\ postings[j].by = postings[k].by
        => j = k

\* However an order's goods come in, split over notices, over-delivered and
\* posted in parts by several people: the lines of an item together count as
\* ordered what has arrived up to the ordered quantity, what they accepted is
\* the item's posted_qty and never more than was ordered; the posting rows of
\* a line add up to what it accepted, those of a place to the stock there, and
\* a client operation of an operator posted once, however often it was sent.
ReceiptsAddUp ==
    /\ \A i \in ItemIds : item[i] \in ItemRow =>
          /\ ArrivedOn(i) = item[i].arrived
          /\ NormalOn(i) = IF item[i].arrived <= item[i].ordered
                           THEN item[i].arrived ELSE item[i].ordered
          /\ AcceptedOn(i) = item[i].posted
          /\ item[i].posted <= item[i].ordered
    /\ \A l \in LineIds : line[l] # NoRow => QuantityOn(PostingsOn(l)) = line[l].accepted
    /\ \A p \in Products, s \in Places : stock[<<p, s>>] = QuantityOn(PostingsAt(p, s))
    /\ OnePostingPerOperation

\* A line that arrived keeps the item it arrived for: the order it belongs to
\* can no more be edited (which gives its items new ids) nor cancelled.
ArrivalsKeepTheirOrder ==
    \A l \in LineIds : line[l] # NoRow =>
        /\ item[line[l].item] \in ItemRow
        /\ item[line[l].item].order = line[l].order
        /\ purchase[line[l].order] \in Receivable \cup {PURCHASE.closed}

\* "Fully arrived" is said of an order exactly when everything it ordered has
\* been posted, "partially" only when something has and something has not,
\* and goods belong to an order that was approved and not cancelled.
StatusTellsReceipts ==
    /\ ArrivalsKeepTheirOrder
    /\ \A o \in Orders :
          /\ purchase[o] \in Receivable =>
                (purchase[o] = PURCHASE.fully_arrived <=>
                    \A i \in ItemsOf(o) : item[i].posted >= item[i].ordered)
          /\ purchase[o] = PURCHASE.partial_arrival =>
                \E i \in ItemsOf(o) : item[i].posted > 0
          /\ purchase[o] \in Statuses \ (Receivable \cup {PURCHASE.closed}) =>
                \A i \in ItemsOf(o) : item[i].arrived = 0

\* No status changes without its entry in the status log, whichever of the
\* two services changes it, and a finished order never moves again.
StatusChangesAreLogged ==
    [][\A o \in Orders : purchase'[o] # purchase[o] =>
          /\ logged'[o] = <<purchase[o], purchase'[o]>>
          /\ logged[o][2] = purchase[o]
          /\ purchase[o] \notin {PURCHASE.closed, PURCHASE.cancelled}]_purchasingVars
=============================================================================
