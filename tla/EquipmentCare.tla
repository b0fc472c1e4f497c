---------------------------- MODULE EquipmentCare ----------------------------
(***************************************************************************)
(* Equipment, its repair orders and its maintenance (blueprints/           *)
(* equipment.py).  Reporting a repair and recording a maintenance are      *)
(* BEGIN IMMEDIATE transactions, starting a repair is one conditional      *)
(* UPDATE; completing and deleting an order first read and judge it.       *)
(***************************************************************************)
EXTENDS Tables, Naturals

CONSTANTS Equipment, Repairs, MaintenancePlans,   \* ids the tables can give out
          Mechanics

Repair == [equipment : Equipment, status : 0 .. 2]   \* reported, started, completed
Plan == [equipment : Equipment, active : BOOLEAN]
RepairCall == [kind : {"complete", "delete"}, repair : Repairs, equipment : Equipment]

\* A row is no mark of a missing one.
ASSUME CareRowAssumption ==
    /\ Absent \cap (Repair \cup {1, 2}) = {}
    /\ NoCall \notin RepairCall

VARIABLES equipment,   \* eqp_ledger.status: 1 in order, 2 under repair
          repair,      \* eqp_repair_order
          maintenance, \* eqp_maintenance_plan
          checked,     \* of each plan the equipment of its rows of eqp_check_workorder
          endpoint,    \* equipment with a row of iot_machine_endpoint
          repairCall   \* what each mechanic has judged and is about to write

careVars == <<equipment, repair, maintenance, checked, endpoint, repairCall>>

CareInit ==
    /\ equipment = [e \in Equipment |-> NoRow]
    /\ repair = [r \in Repairs |-> NoRow]
    /\ maintenance = [p \in MaintenancePlans |-> NoRow]
    /\ checked = [p \in MaintenancePlans |-> {}]
    /\ endpoint = {}
    /\ repairCall = [c \in Mechanics |-> NoCall]

Exists(e) == equipment[e] \notin Absent
RepairsOf(e) == {r \in Repairs : repair[r] \notin Absent /\ repair[r].equipment = e}
OpenRepairs(e) == {r \in RepairsOf(e) : repair[r].status \in {0, 1}}

-----------------------------------------------------------------------------
(* The ledger and the machine endpoints that refer to it.                  *)

AddEquipment(e) ==
    /\ equipment[e] = NoRow
    /\ equipment' = [equipment EXCEPT ![e] = 1]
    /\ UNCHANGED <<repair, maintenance, checked, endpoint, repairCall>>

\* What is added after the check keeps the row by its foreign key.
DeleteEquipment(e) ==
    /\ Exists(e)
    /\ RepairsOf(e) = {} /\ e \notin endpoint
    /\ \A p \in MaintenancePlans :
          /\ maintenance[p] \notin Absent => maintenance[p].equipment # e
          /\ e \notin checked[p]
    /\ equipment' = [equipment EXCEPT ![e] = Deleted]
    /\ UNCHANGED <<repair, maintenance, checked, endpoint, repairCall>>

SetEndpoint(e) ==
    /\ Exists(e)
    /\ endpoint' = IF e \in endpoint THEN endpoint \ {e} ELSE endpoint \cup {e}
    /\ UNCHANGED <<equipment, repair, maintenance, checked, repairCall>>

-----------------------------------------------------------------------------
(* Repair orders.                                                          *)

ReportFault(r, e) ==
    /\ repair[r] = NoRow
    /\ Exists(e)
    /\ OpenRepairs(e) = {}
    /\ repair' = [repair EXCEPT ![r] = [equipment |-> e, status |-> 0]]
    /\ equipment' = [equipment EXCEPT ![e] = 2]
    /\ UNCHANGED <<maintenance, checked, endpoint, repairCall>>

StartRepair(r) ==
    /\ repair[r] \notin Absent /\ repair[r].status = 0
    /\ repair' = [repair EXCEPT ![r].status = 1]
    /\ UNCHANGED <<equipment, maintenance, checked, endpoint, repairCall>>

\* Both remember the order's equipment, which no one changes.
JudgeRepair(c, r, kind) ==
    /\ repairCall[c] = NoCall
    /\ repair[r] \notin Absent
    /\ repair[r].status = IF kind = "complete" THEN 1 ELSE 0
    /\ repairCall' = [repairCall EXCEPT ![c] =
          [kind |-> kind, repair |-> r, equipment |-> repair[r].equipment]]
    /\ UNCHANGED <<equipment, repair, maintenance, checked, endpoint>>

\* UPDATE eqp_ledger SET status=1 WHERE id = e
BackInOrder(e) == IF Exists(e) THEN [equipment EXCEPT ![e] = 1] ELSE equipment

FaultyCompleteRepair(c) ==   \* back in order without a look at other orders
    LET r == repairCall[c].repair
    IN /\ repairCall[c] # NoCall /\ repairCall[c].kind = "complete"
       /\ repair' = IF repair[r] # Deleted /\ repair[r].status = 1
                    THEN [repair EXCEPT ![r].status = 2] ELSE repair
       /\ equipment' = BackInOrder(repairCall[c].equipment)
       /\ repairCall' = [repairCall EXCEPT ![c] = NoCall]
       /\ UNCHANGED <<maintenance, checked, endpoint>>

\* The UPDATE of an order that is started no longer has no effect, but what
\* follows it is done all the same.
CompleteRepair(c) ==
    LET r == repairCall[c].repair
        e == repairCall[c].equipment
    IN /\ repairCall[c] # NoCall /\ repairCall[c].kind = "complete"
       /\ repair' = IF repair[r] # Deleted /\ repair[r].status = 1
                    THEN [repair EXCEPT ![r].status = 2] ELSE repair
       /\ equipment' = IF OpenRepairs(e) \ {r} = {} THEN BackInOrder(e) ELSE equipment
       /\ repairCall' = [repairCall EXCEPT ![c] = NoCall]
       /\ UNCHANGED <<maintenance, checked, endpoint>>

\* By id alone: an order started since it was judged is deleted with its work.
DeleteRepair(c) ==
    LET r == repairCall[c].repair
        e == repairCall[c].equipment
    IN /\ repairCall[c] # NoCall /\ repairCall[c].kind = "delete"
       /\ repair' = [repair EXCEPT ![r] = Deleted]
       /\ equipment' = IF OpenRepairs(e) \ {r} = {} THEN BackInOrder(e) ELSE equipment
       /\ repairCall' = [repairCall EXCEPT ![c] = NoCall]
       /\ UNCHANGED <<maintenance, checked, endpoint>>

-----------------------------------------------------------------------------
(* Maintenance plans and the checks recorded for them.  Dates are left out.*)

SavePlan(p, e, active) ==
    /\ maintenance[p] # Deleted
    /\ Exists(e)
    /\ maintenance' = [maintenance EXCEPT ![p] = [equipment |-> e, active |-> active]]
    /\ UNCHANGED <<equipment, repair, checked, endpoint, repairCall>>

RecordCheck(p) ==
    /\ maintenance[p] \notin Absent /\ maintenance[p].active
    /\ checked' = [checked EXCEPT ![p] = @ \cup {maintenance[p].equipment}]
    /\ UNCHANGED <<equipment, repair, maintenance, endpoint, repairCall>>

DeletePlan(p) ==
    /\ maintenance[p] \notin Absent
    /\ checked[p] = {}
    /\ maintenance' = [maintenance EXCEPT ![p] = Deleted]
    /\ UNCHANGED <<equipment, repair, checked, endpoint, repairCall>>

CareNext ==
    \/ \E e \in Equipment :
          \/ AddEquipment(e) \/ DeleteEquipment(e) \/ SetEndpoint(e)
          \/ \E r \in Repairs : ReportFault(r, e)
          \/ \E p \in MaintenancePlans, active \in BOOLEAN : SavePlan(p, e, active)
    \/ \E r \in Repairs :
          \/ StartRepair(r)
          \/ \E c \in Mechanics, kind \in {"complete", "delete"} : JudgeRepair(c, r, kind)
    \/ \E c \in Mechanics : CompleteRepair(c) \/ DeleteRepair(c)
    \/ \E p \in MaintenancePlans : RecordCheck(p) \/ DeletePlan(p)

CareSpec == CareInit /\ [][CareNext]_careVars

-----------------------------------------------------------------------------
(* Properties.                                                             *)

\* The variables hold rows of the tables' types.
CareTypeOK ==
    /\ equipment \in [Equipment -> {1, 2} \cup Absent]
    /\ repair \in [Repairs -> Repair \cup Absent]
    /\ maintenance \in [MaintenancePlans -> Plan \cup Absent]
    /\ checked \in [MaintenancePlans -> SUBSET Equipment]
    /\ endpoint \subseteq Equipment
    /\ repairCall \in [Mechanics -> RepairCall \cup {NoCall}]

\* Whatever completions and deletions were judged before and written after
\* other steps of the same orders, equipment shows that it is under repair
\* exactly while one order of it is open, and it never has two.
UnderRepairWhileOpen ==
    \A e \in Equipment :
       /\ \A r, s \in OpenRepairs(e) : r = s
       /\ equipment[e] = 2 <=> OpenRepairs(e) # {}
=============================================================================
