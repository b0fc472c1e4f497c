--------------------------- MODULE WorkshopProofs ----------------------------
(***************************************************************************)
(* Proofs about the workshop, the repair of equipment, the lending of      *)
(* tools and the calls, rework forms and stations of the shop floor, and   *)
(* about the database sessions and the rate limits of its requests and the *)
(* manual order of its lists.                                              *)
(*                                                                         *)
(* Equipment. What a mechanic remembers of an order may be stale, and      *)
(* UnderRepairWhileOpen needs to know how stale (CallsRemember): the order *)
(* was given out, its equipment is what it was, and one that was judged    *)
(* for completion has been started.                                        *)
(*                                                                         *)
(* Tools. What is outstanding of a tool is a sum over its borrow records;  *)
(* a storekeeper who has seen it and then changes the stock still has room *)
(* for it (DeskRemembers).                                                 *)
(*                                                                         *)
(* Floor. What rework forms claim of a work order is a sum over the forms; *)
(* every step of the floor keeps each call and form standing (FloorInv).   *)
(*                                                                         *)
(* Stations. Two handlers may each miss the flow row of a unit and each    *)
(* insert one, and a report or concession that finds none inserts another: *)
(* the rows of a unit and the requests that have missed them are at most   *)
(* one more than the handlers (FlowsBounded), and each row shows the       *)
(* station of the last request that moved it (ShowsLastMove).              *)
(*                                                                         *)
(* Sessions. On SQLite a request is alone on its connection, and sees in   *)
(* its transaction what is committed and its own change (OwnWork); what is *)
(* committed is then what was answered, as a sum over the requests. On     *)
(* PostgreSQL, too, a savepoint that ends is there (MarksKept).            *)
(*                                                                         *)
(* Limits. The requests let through in a window are counted by their       *)
(* times, and the limiter remembers each of them as long as a window needs *)
(* it (HitsRemembered).                                                    *)
(*                                                                         *)
(* Order. The ranks of the records in a list are 0, 1, 2, ... (RanksRun),  *)
(* so the list that is read has each once; a record that is put elsewhere  *)
(* leaves it so (ReorderKeeps), and what is written back are the places in *)
(* it.                                                                     *)
(*                                                                         *)
(* Atomicity. On SQLite a request takes effect when it commits, on what is *)
(* committed then (OwnWork): sessions implement AtomicUpdates.             *)
(*                                                                         *)
(* Together. A behaviour of MCPlant is one of each of its modules.         *)
(***************************************************************************)
EXTENDS MCPlant, SequenceTheorems, Sums

-----------------------------------------------------------------------------
(***************************************************************************)
(* EQUIPMENT                                                               *)
(***************************************************************************)

CallsRemember ==
    \A c \in Mechanics : repairCall[c] # NoCall =>
        LET r == repairCall[c].repair
        IN /\ repair[r] # NoRow
           /\ repair[r] \in Repair => repair[r].equipment = repairCall[c].equipment
           /\ repair[r] \in Repair /\ repairCall[c].kind = "complete" => repair[r].status # 0

CareInv == CareTypeOK /\ UnderRepairWhileOpen /\ CallsRemember

-----------------------------------------------------------------------------
(* Rows.                                                                   *)

Open(r, e) == repair[r] \in Repair /\ repair[r].equipment = e /\ repair[r].status \in {0, 1}

\* The open orders of a piece of equipment.
LEMMA OpenRows ==
  ASSUME CareTypeOK, NEW e \in Equipment
  PROVE  /\ RepairsOf(e) = {r \in Repairs : repair[r] \in Repair /\ repair[r].equipment = e}
         /\ OpenRepairs(e) = {r \in Repairs : /\ repair[r] \in Repair
                                              /\ repair[r].equipment = e
                                              /\ repair[r].status \in {0, 1}}
         /\ Exists(e) <=> equipment[e] \in {1, 2}
  BY CareRowAssumption DEF CareTypeOK, RepairsOf, OpenRepairs, Exists, Absent

LEMMA OpenRowsNext ==
  ASSUME CareTypeOK', NEW e \in Equipment
  PROVE  OpenRepairs(e)' = {r \in Repairs : /\ repair'[r] \in Repair
                                            /\ repair'[r].equipment = e
                                            /\ repair'[r].status \in {0, 1}}
  BY CareRowAssumption DEF CareTypeOK, RepairsOf, OpenRepairs, Absent

LEMMA CareStarts == CareInit => CareInv
<1> SUFFICES ASSUME CareInit PROVE CareInv
  OBVIOUS
<1>1. CareTypeOK
  BY DEF CareInit, CareTypeOK, Absent
<1>2. \A e \in Equipment : OpenRepairs(e) = {} /\ equipment[e] # 2
  BY CareRowAssumption DEF CareInit, OpenRepairs, RepairsOf, Absent
<1>3. UnderRepairWhileOpen
  BY <1>2 DEF UnderRepairWhileOpen
<1>4. CallsRemember
  BY DEF CareInit, CallsRemember
<1> QED
  BY <1>1, <1>3, <1>4 DEF CareInv

\* A step that leaves the orders alone and takes nothing under or out of repair.
LEMMA QuietStep ==
  ASSUME CareInv, CareTypeOK', UNCHANGED <<repair, repairCall>>,
         \A e \in Equipment : equipment'[e] = 2 <=> equipment[e] = 2
  PROVE  CareInv'
<1>1. \A e \in Equipment : OpenRepairs(e)' = OpenRepairs(e)
  BY DEF OpenRepairs, RepairsOf
<1>2. UnderRepairWhileOpen'
  BY <1>1 DEF CareInv, UnderRepairWhileOpen
<1>3. CallsRemember'
  BY DEF CareInv, CallsRemember
<1> QED
  BY <1>2, <1>3 DEF CareInv

-----------------------------------------------------------------------------
(* The steps.                                                              *)

LEMMA LedgerSteps ==
  ASSUME CareInv, NEW e \in Equipment, AddEquipment(e) \/ DeleteEquipment(e) \/ SetEndpoint(e)
  PROVE  CareInv'
<1>1. CASE AddEquipment(e)
  <2>1. CareTypeOK'
    BY <1>1 DEF CareInv, CareTypeOK, AddEquipment
  <2>2. \A f \in Equipment : equipment'[f] = 2 <=> equipment[f] = 2
    BY <1>1, CareRowAssumption DEF CareInv, CareTypeOK, AddEquipment, Absent
  <2> QED
    BY <1>1, <2>1, <2>2, QuietStep DEF AddEquipment
<1>2. CASE DeleteEquipment(e)
  <2>1. CareTypeOK'
    BY <1>2 DEF CareInv, CareTypeOK, DeleteEquipment, Absent
  <2>2. OpenRepairs(e) = {}
    BY <1>2 DEF DeleteEquipment, OpenRepairs
  <2>3. equipment[e] # 2
    BY <2>2 DEF CareInv, UnderRepairWhileOpen
  <2>4. \A f \in Equipment : equipment'[f] = 2 <=> equipment[f] = 2
    BY <1>2, <2>3, CareRowAssumption DEF CareInv, CareTypeOK, DeleteEquipment, Absent
  <2> QED
    BY <1>2, <2>1, <2>4, QuietStep DEF DeleteEquipment
<1>3. CASE SetEndpoint(e)
  <2>1. CareTypeOK'
    BY <1>3 DEF CareInv, CareTypeOK, SetEndpoint
  <2> QED
    BY <1>3, <2>1, QuietStep DEF SetEndpoint
<1> QED
  BY <1>1, <1>2, <1>3

LEMMA MaintenanceSteps ==
  ASSUME CareInv, NEW p \in MaintenancePlans,
         \/ \E e \in Equipment, active \in BOOLEAN : SavePlan(p, e, active)
         \/ RecordCheck(p) \/ DeletePlan(p)
  PROVE  CareInv'
<1>1. UNCHANGED <<equipment, repair, repairCall>>
  BY DEF SavePlan, RecordCheck, DeletePlan
<1>2. CareTypeOK'
  <2>1. ASSUME NEW e \in Equipment, NEW active \in BOOLEAN, SavePlan(p, e, active)
        PROVE  CareTypeOK'
    <3>1. [equipment |-> e, active |-> active] \in Plan
      BY DEF Plan
    <3> QED
      BY <2>1, <3>1 DEF CareInv, CareTypeOK, SavePlan
  <2>2. CASE RecordCheck(p)
    <3>1. maintenance[p] \in Plan
      BY <2>2 DEF RecordCheck, CareInv, CareTypeOK
    <3>2. maintenance[p].equipment \in Equipment
      BY <3>1 DEF Plan
    <3> QED
      BY <2>2, <3>2 DEF CareInv, CareTypeOK, RecordCheck
  <2>3. CASE DeletePlan(p)
    BY <2>3 DEF CareInv, CareTypeOK, DeletePlan, Absent
  <2> QED
    BY <2>1, <2>2, <2>3
<1> QED
  BY <1>1, <1>2, QuietStep

LEMMA ReportFaultStep ==
  ASSUME CareInv, NEW r \in Repairs, NEW e \in Equipment, ReportFault(r, e)
  PROVE  CareInv'
<1> DEFINE row == [equipment |-> e, status |-> 0]
<1>1. row \in Repair /\ row.equipment = e /\ row.status = 0
  BY DEF Repair
<1>2. /\ repair[r] = NoRow /\ OpenRepairs(e) = {}
      /\ repair' = [repair EXCEPT ![r] = row]
      /\ equipment' = [equipment EXCEPT ![e] = 2]
      /\ UNCHANGED <<maintenance, checked, endpoint, repairCall>>
  BY DEF ReportFault
<1> HIDE DEF row
<1>3. CareTypeOK'
  BY <1>1, <1>2 DEF CareInv, CareTypeOK
<1>4. /\ repair'[r] = row /\ \A s \in Repairs \ {r} : repair'[s] = repair[s]
      /\ equipment'[e] = 2 /\ \A f \in Equipment \ {e} : equipment'[f] = equipment[f]
  BY <1>2 DEF CareInv, CareTypeOK
<1>5. \A f \in Equipment \ {e} : OpenRepairs(f)' = OpenRepairs(f)
  <2> SUFFICES ASSUME NEW f \in Equipment \ {e} PROVE OpenRepairs(f)' = OpenRepairs(f)
    OBVIOUS
  <2>1. repair[r] \notin Repair
    BY <1>2, CareRowAssumption DEF Absent
  <2>2. OpenRepairs(f) = {s \in Repairs : Open(s, f)}
    BY OpenRows DEF CareInv, Open
  <2>3. OpenRepairs(f)' = {s \in Repairs : Open(s, f)'}
    BY <1>3, OpenRowsNext DEF Open
  <2>4. ASSUME NEW s \in Repairs PROVE Open(s, f)' <=> Open(s, f)
    BY <1>1, <1>4, <2>1 DEF Open
  <2> QED
    BY <2>2, <2>3, <2>4
<1>6. OpenRepairs(e)' = {r}
  BY <1>1, <1>2, <1>3, <1>4, OpenRows, OpenRowsNext DEF CareInv
<1>7. UnderRepairWhileOpen'
  BY <1>4, <1>5, <1>6 DEF CareInv, UnderRepairWhileOpen
<1>8. CallsRemember'
  <2> SUFFICES ASSUME NEW c \in Mechanics, repairCall[c] # NoCall
               PROVE  LET s == repairCall[c].repair
                      IN /\ repair'[s] # NoRow
                         /\ repair'[s] \in Repair => repair'[s].equipment = repairCall[c].equipment
                         /\ repair'[s] \in Repair /\ repairCall[c].kind = "complete" =>
                               repair'[s].status # 0
    BY <1>2 DEF CallsRemember
  <2>1. repairCall[c].repair \in Repairs /\ repair[repairCall[c].repair] # NoRow
    BY DEF CareInv, CareTypeOK, CallsRemember, RepairCall
  <2>2. repair'[repairCall[c].repair] = repair[repairCall[c].repair]
    BY <1>2, <1>4, <2>1
  <2> QED
    BY <2>2 DEF CareInv, CallsRemember
<1> QED
  BY <1>3, <1>7, <1>8 DEF CareInv

\* An order keeps its equipment and is as open as it was.
LEMMA SameOrders ==
  ASSUME CareInv, CareTypeOK', NEW r \in Repairs, repair[r] \in Repair, repair'[r] \in Repair,
         repair'[r].equipment = repair[r].equipment,
         repair'[r].status \in {0, 1} <=> repair[r].status \in {0, 1},
         \A s \in Repairs \ {r} : repair'[s] = repair[s]
  PROVE  \A e \in Equipment : OpenRepairs(e)' = OpenRepairs(e)
<1> SUFFICES ASSUME NEW e \in Equipment PROVE OpenRepairs(e)' = OpenRepairs(e)
  OBVIOUS
<1>1. OpenRepairs(e) = {s \in Repairs : Open(s, e)}
  BY OpenRows DEF CareInv, Open
<1>2. OpenRepairs(e)' = {s \in Repairs : Open(s, e)'}
  BY OpenRowsNext DEF Open
<1>3. ASSUME NEW s \in Repairs PROVE Open(s, e)' <=> Open(s, e)
  BY DEF Open
<1> QED
  BY <1>1, <1>2, <1>3

LEMMA StartRepairStep ==
  ASSUME CareInv, NEW r \in Repairs, StartRepair(r)
  PROVE  CareInv'
<1>1. /\ repair[r] \in Repair /\ repair[r].status = 0
      /\ repair' = [repair EXCEPT ![r].status = 1]
      /\ UNCHANGED <<equipment, maintenance, checked, endpoint, repairCall>>
  BY DEF StartRepair, CareInv, CareTypeOK
<1>2. /\ repair'[r] = [repair[r] EXCEPT !.status = 1]
      /\ \A s \in Repairs \ {r} : repair'[s] = repair[s]
  BY <1>1 DEF CareInv, CareTypeOK
<1>3. repair'[r] \in Repair /\ repair'[r].equipment = repair[r].equipment /\ repair'[r].status = 1
  BY <1>1, <1>2 DEF Repair
<1>4. CareTypeOK'
  BY <1>1, <1>3 DEF CareInv, CareTypeOK
<1>5. \A e \in Equipment : OpenRepairs(e)' = OpenRepairs(e)
  BY <1>1, <1>2, <1>3, <1>4, SameOrders
<1>6. UnderRepairWhileOpen'
  BY <1>1, <1>5 DEF CareInv, UnderRepairWhileOpen
<1>7. CallsRemember'
  BY <1>1, <1>2, <1>3, CareRowAssumption DEF CareInv, CareTypeOK, CallsRemember, RepairCall, Absent
<1> QED
  BY <1>4, <1>6, <1>7 DEF CareInv

LEMMA JudgeRepairStep ==
  ASSUME CareInv, NEW c \in Mechanics, NEW r \in Repairs, NEW kind \in {"complete", "delete"},
         JudgeRepair(c, r, kind)
  PROVE  CareInv'
<1> DEFINE judged == [kind |-> kind, repair |-> r, equipment |-> repair[r].equipment]
<1>1. /\ repair[r] \in Repair /\ repair[r] # NoRow
      /\ kind = "complete" => repair[r].status = 1
      /\ UNCHANGED <<equipment, repair, maintenance, checked, endpoint>>
      /\ repairCall' = [repairCall EXCEPT ![c] = judged]
  BY DEF JudgeRepair, CareInv, CareTypeOK, Absent
<1>2. judged \in RepairCall
  BY <1>1 DEF RepairCall, Repair
<1>3. judged.kind = kind /\ judged.repair = r /\ judged.equipment = repair[r].equipment
  OBVIOUS
<1> HIDE DEF judged
<1>4. CareTypeOK'
  BY <1>1, <1>2 DEF CareInv, CareTypeOK
<1>5. UnderRepairWhileOpen'
  BY <1>1 DEF CareInv, UnderRepairWhileOpen, OpenRepairs, RepairsOf
<1>6. repairCall'[c] = judged /\ \A d \in Mechanics \ {c} : repairCall'[d] = repairCall[d]
  BY <1>1 DEF CareInv, CareTypeOK
<1>7. CallsRemember'
  BY <1>1, <1>3, <1>6 DEF CareInv, CallsRemember
<1> QED
  BY <1>4, <1>5, <1>7 DEF CareInv

\* What completing and deleting an order have in common: afterwards the order
\* is not open, and its equipment is back in order unless another order is.
LEMMA EndRepair ==
  ASSUME CareInv, NEW c \in Mechanics, repairCall[c] # NoCall,
         NEW r \in Repairs, r = repairCall[c].repair,
         NEW e \in Equipment, e = repairCall[c].equipment,
         CareTypeOK',
         \A s \in Repairs \ {r} : repair'[s] = repair[s],
         \/ repair'[r] = Deleted
         \/ /\ repair[r] \in Repair /\ repair'[r] \in Repair
            /\ repair'[r].equipment = repair[r].equipment
            /\ repair'[r].status = 2,
         equipment' = IF OpenRepairs(e) \ {r} = {} THEN BackInOrder(e) ELSE equipment,
         repairCall' = [repairCall EXCEPT ![c] = NoCall]
  PROVE  CareInv'
<1>1. repair[r] \in Repair => repair[r].equipment = e
  BY DEF CareInv, CallsRemember
<1>2. /\ \A s \in Repairs \ {r} : repair'[s] = repair[s]
      /\ \/ repair'[r] = Deleted
         \/ /\ repair[r] \in Repair /\ repair'[r] \in Repair
            /\ repair'[r].equipment = repair[r].equipment
            /\ repair'[r].status = 2
      /\ equipment' = IF OpenRepairs(e) \ {r} = {} THEN BackInOrder(e) ELSE equipment
      /\ repairCall' = [repairCall EXCEPT ![c] = NoCall]
  OBVIOUS
<1>3. Deleted \notin Repair /\ NoRow # Deleted /\ 2 \notin Absent
  BY CareRowAssumption, TablesAssumption DEF Absent
<1>4. ASSUME NEW f \in Equipment
      PROVE  /\ OpenRepairs(f) = {s \in Repairs : Open(s, f)}
             /\ OpenRepairs(f)' = {s \in Repairs : Open(s, f)'}
             /\ \A s \in Repairs \ {r} : Open(s, f)' <=> Open(s, f)
             /\ ~ Open(r, f)'
             /\ f # e => ~ Open(r, f)
  <2>1. OpenRepairs(f) = {s \in Repairs : Open(s, f)}
    BY OpenRows DEF CareInv, Open
  <2>2. OpenRepairs(f)' = {s \in Repairs : Open(s, f)'}
    BY OpenRowsNext DEF Open
  <2>3. ASSUME NEW s \in Repairs \ {r} PROVE Open(s, f)' <=> Open(s, f)
    BY <1>2 DEF Open
  <2>4. ~ Open(r, f)' /\ (f # e => ~ Open(r, f))
    BY <1>1, <1>2, <1>3 DEF Open
  <2> QED
    BY <2>1, <2>2, <2>3, <2>4
<1>5. /\ OpenRepairs(e)' = OpenRepairs(e) \ {r}
      /\ \A f \in Equipment \ {e} : OpenRepairs(f)' = OpenRepairs(f)
  <2>1. ASSUME NEW f \in Equipment, NEW s \in Repairs
        PROVE  /\ s \in OpenRepairs(e)' <=> s \in OpenRepairs(e) \ {r}
               /\ f # e => (s \in OpenRepairs(f)' <=> s \in OpenRepairs(f))
    <3>1. s \in OpenRepairs(e)' <=> s \in OpenRepairs(e) \ {r}
      BY <1>1, <1>4
    <3>2. f # e => (s \in OpenRepairs(f)' <=> s \in OpenRepairs(f))
      BY <1>4
    <3> QED
      BY <3>1, <3>2
  <2>2. ASSUME NEW f \in Equipment PROVE OpenRepairs(f) \subseteq Repairs /\ OpenRepairs(f)' \subseteq Repairs
    BY DEF OpenRepairs, RepairsOf
  <2>3. OpenRepairs(e)' = OpenRepairs(e) \ {r}
    <3>1. OpenRepairs(e) \subseteq Repairs /\ OpenRepairs(e)' \subseteq Repairs
      BY <1>1, <2>2
    <3>2. \A s \in Repairs : s \in OpenRepairs(e)' <=> s \in OpenRepairs(e) \ {r}
      BY <1>1, <2>1
    <3> QED
      BY <3>1, <3>2
  <2>4. ASSUME NEW f \in Equipment \ {e} PROVE OpenRepairs(f)' = OpenRepairs(f)
    <3>1. OpenRepairs(f) \subseteq Repairs /\ OpenRepairs(f)' \subseteq Repairs
      BY <2>2
    <3>2. \A s \in Repairs : s \in OpenRepairs(f)' <=> s \in OpenRepairs(f)
      BY <2>1
    <3> QED
      BY <3>1, <3>2
  <2> QED
    BY <2>3, <2>4
<1>6. \A f \in Equipment \ {e} : equipment'[f] = equipment[f]
  BY <1>1, <1>2 DEF BackInOrder, CareInv, CareTypeOK
<1>7. equipment'[e] = 2 <=> OpenRepairs(e) \ {r} # {}
  <2>1. CASE OpenRepairs(e) \ {r} = {}
    <3>1. equipment' = BackInOrder(e)
      BY <1>2, <2>1
    <3>2. CASE Exists(e)
      <4>1. equipment'[e] = 1
        BY <1>1, <3>1, <3>2 DEF BackInOrder, CareInv, CareTypeOK
      <4> QED
        BY <2>1, <4>1
    <3>3. CASE ~ Exists(e)
      <4>1. equipment'[e] # 2
        BY <1>1, <1>3, <3>1, <3>3 DEF BackInOrder, Exists
      <4> QED
        BY <2>1, <4>1
    <3> QED
      BY <3>2, <3>3
  <2>2. CASE OpenRepairs(e) \ {r} # {}
    BY <1>1, <1>2, <2>2 DEF CareInv, UnderRepairWhileOpen
  <2> QED
    BY <2>1, <2>2
<1>8. UnderRepairWhileOpen'
  <2>1. /\ \A s, t \in OpenRepairs(e)' : s = t
        /\ equipment'[e] = 2 <=> OpenRepairs(e)' # {}
    BY <1>1, <1>5, <1>7 DEF CareInv, UnderRepairWhileOpen
  <2>2. ASSUME NEW f \in Equipment \ {e}
        PROVE  /\ \A s, t \in OpenRepairs(f)' : s = t
               /\ equipment'[f] = 2 <=> OpenRepairs(f)' # {}
    BY <1>5, <1>6 DEF CareInv, UnderRepairWhileOpen
  <2> QED
    BY <1>1, <2>1, <2>2 DEF UnderRepairWhileOpen
<1>9. CallsRemember'
  <2> SUFFICES ASSUME NEW d \in Mechanics, repairCall'[d] # NoCall
               PROVE  LET s == repairCall'[d].repair
                      IN /\ repair'[s] # NoRow
                         /\ repair'[s] \in Repair => repair'[s].equipment = repairCall'[d].equipment
                         /\ repair'[s] \in Repair /\ repairCall'[d].kind = "complete" =>
                               repair'[s].status # 0
    BY DEF CallsRemember
  <2>1. repairCall'[d] = repairCall[d] /\ repairCall[d] # NoCall
    BY <1>2 DEF CareInv, CareTypeOK
  <2> DEFINE s == repairCall[d].repair
  <2>2. /\ s \in Repairs /\ repair[s] # NoRow
        /\ repair[s] \in Repair => repair[s].equipment = repairCall[d].equipment
        /\ repair[s] \in Repair /\ repairCall[d].kind = "complete" => repair[s].status # 0
    BY <2>1 DEF CareInv, CareTypeOK, RepairCall, CallsRemember
  <2> HIDE DEF s
  <2>3. CASE s # r
    BY <1>2, <2>1, <2>2, <2>3 DEF s
  <2>4. CASE s = r
    <3>1. CASE repair'[r] = Deleted
      BY <1>3, <2>1, <2>4, <3>1 DEF s
    <3>2. CASE /\ repair[r] \in Repair /\ repair'[r] \in Repair
               /\ repair'[r].equipment = repair[r].equipment
               /\ repair'[r].status = 2
      <4>1. repair'[s] # NoRow
        BY <2>4, <3>2, CareRowAssumption DEF Absent
      <4> QED
        BY <2>1, <2>2, <2>4, <3>2, <4>1 DEF s
    <3> QED
      BY <1>2, <3>1, <3>2
  <2> QED
    BY <2>3, <2>4
<1> QED
  BY <1>8, <1>9 DEF CareInv

LEMMA CompleteRepairStep ==
  ASSUME CareInv, NEW c \in Mechanics, CompleteRepair(c)
  PROVE  CareInv'
<1>1. PICK r \in Repairs, e \in Equipment :
        /\ r = repairCall[c].repair /\ e = repairCall[c].equipment
        /\ repairCall[c] # NoCall /\ repairCall[c].kind = "complete"
        /\ repair' = IF repair[r] # Deleted /\ repair[r].status = 1
                     THEN [repair EXCEPT ![r].status = 2] ELSE repair
        /\ equipment' = IF OpenRepairs(e) \ {r} = {} THEN BackInOrder(e) ELSE equipment
        /\ repairCall' = [repairCall EXCEPT ![c] = NoCall]
        /\ UNCHANGED <<maintenance, checked, endpoint>>
  BY DEF CompleteRepair, CareInv, CareTypeOK, RepairCall
<1>2. /\ repair[r] \in Repair \cup {Deleted}
      /\ repair[r] \in Repair => repair[r].status \in {1, 2}
  BY <1>1 DEF CareInv, CareTypeOK, CallsRemember, Absent, Repair
<1>3. Deleted \notin Repair
  BY CareRowAssumption DEF Absent
<1>4. /\ \A s \in Repairs \ {r} : repair'[s] = repair[s]
      /\ \/ repair[r] = Deleted /\ repair'[r] = Deleted
         \/ /\ repair[r] \in Repair /\ repair'[r] \in Repair
            /\ repair'[r].equipment = repair[r].equipment
            /\ repair'[r].status = 2
  <2>1. CASE repair[r] = Deleted
    BY <1>1, <2>1
  <2>2. CASE repair[r] \in Repair /\ repair[r].status = 2
    BY <1>1, <1>3, <2>2
  <2>3. CASE repair[r] \in Repair /\ repair[r].status = 1
    <3>1. repair' = [repair EXCEPT ![r].status = 2]
      BY <1>1, <1>3, <2>3
    <3>2. /\ repair'[r] = [repair[r] EXCEPT !.status = 2]
          /\ \A s \in Repairs \ {r} : repair'[s] = repair[s]
      BY <3>1 DEF CareInv, CareTypeOK
    <3>3. /\ repair'[r] \in Repair
          /\ repair'[r].equipment = repair[r].equipment
          /\ repair'[r].status = 2
      BY <2>3, <3>2 DEF Repair
    <3> QED
      BY <2>3, <3>2, <3>3
  <2> QED
    BY <1>2, <2>1, <2>2, <2>3
<1>5. CareTypeOK'
  <2>1. equipment' \in [Equipment -> {1, 2} \cup Absent]
    BY <1>1 DEF BackInOrder, CareInv, CareTypeOK
  <2>2. repair' \in [Repairs -> Repair \cup Absent]
    BY <1>1, <1>4 DEF CareInv, CareTypeOK, Absent
  <2>3. repairCall' \in [Mechanics -> RepairCall \cup {NoCall}]
    BY <1>1 DEF CareInv, CareTypeOK
  <2> QED
    BY <1>1, <2>1, <2>2, <2>3 DEF CareInv, CareTypeOK
<1>6. /\ repairCall[c] # NoCall /\ r = repairCall[c].repair /\ e = repairCall[c].equipment
      /\ equipment' = IF OpenRepairs(e) \ {r} = {} THEN BackInOrder(e) ELSE equipment
      /\ repairCall' = [repairCall EXCEPT ![c] = NoCall]
  BY <1>1
<1>7. \/ repair'[r] = Deleted
      \/ /\ repair[r] \in Repair /\ repair'[r] \in Repair
         /\ repair'[r].equipment = repair[r].equipment
         /\ repair'[r].status = 2
  BY <1>4
<1> QED
  BY <1>4, <1>5, <1>6, <1>7, EndRepair, Zenon

LEMMA DeleteRepairStep ==
  ASSUME CareInv, NEW c \in Mechanics, DeleteRepair(c)
  PROVE  CareInv'
<1>1. PICK r \in Repairs, e \in Equipment :
        /\ r = repairCall[c].repair /\ e = repairCall[c].equipment
        /\ repairCall[c] # NoCall
        /\ repair' = [repair EXCEPT ![r] = Deleted]
        /\ equipment' = IF OpenRepairs(e) \ {r} = {} THEN BackInOrder(e) ELSE equipment
        /\ repairCall' = [repairCall EXCEPT ![c] = NoCall]
        /\ UNCHANGED <<maintenance, checked, endpoint>>
  BY DEF DeleteRepair, CareInv, CareTypeOK, RepairCall
<1>2. repair'[r] = Deleted /\ \A s \in Repairs \ {r} : repair'[s] = repair[s]
  BY <1>1 DEF CareInv, CareTypeOK
<1>3. CareTypeOK'
  <2>1. equipment' \in [Equipment -> {1, 2} \cup Absent]
    BY <1>1 DEF BackInOrder, CareInv, CareTypeOK
  <2> QED
    BY <1>1, <2>1 DEF CareInv, CareTypeOK, Absent
<1> QED
  BY <1>1, <1>2, <1>3, EndRepair

LEMMA CareStepKeepsInv ==
  ASSUME CareInv, CareNext
  PROVE  CareInv'
<1>1. ASSUME NEW e \in Equipment,
             \/ AddEquipment(e) \/ DeleteEquipment(e) \/ SetEndpoint(e)
             \/ \E r \in Repairs : ReportFault(r, e)
             \/ \E p \in MaintenancePlans, active \in BOOLEAN : SavePlan(p, e, active)
      PROVE  CareInv'
  BY <1>1, LedgerSteps, ReportFaultStep, MaintenanceSteps
<1>2. ASSUME NEW r \in Repairs,
             \/ StartRepair(r)
             \/ \E c \in Mechanics, kind \in {"complete", "delete"} : JudgeRepair(c, r, kind)
      PROVE  CareInv'
  BY <1>2, StartRepairStep, JudgeRepairStep
<1>3. ASSUME NEW c \in Mechanics, CompleteRepair(c) \/ DeleteRepair(c)
      PROVE  CareInv'
  BY <1>3, CompleteRepairStep, DeleteRepairStep
<1>4. ASSUME NEW p \in MaintenancePlans, RecordCheck(p) \/ DeletePlan(p)
      PROVE  CareInv'
  BY <1>4, MaintenanceSteps
<1> QED
  BY <1>1, <1>2, <1>3, <1>4 DEF CareNext

LEMMA CareStutterKeepsInv ==
  ASSUME CareInv, UNCHANGED careVars
  PROVE  CareInv'
<1>1. CareTypeOK'
  BY DEF CareInv, CareTypeOK, careVars
<1> QED
  BY <1>1, QuietStep DEF careVars

-----------------------------------------------------------------------------
(* The theorems.                                                           *)

\* CareInv is inductive.
THEOREM CareInvariant == CareSpec => []CareInv
<1>1. CareInit => CareInv
  BY CareStarts
<1>2. CareInv /\ [CareNext]_careVars => CareInv'
  BY CareStepKeepsInv, CareStutterKeepsInv
<1> QED
  BY <1>1, <1>2, PTL DEF CareSpec

\* The equipment tables hold rows of their types, for any equipment, orders,
\* plans and mechanics.
THEOREM CareTypes == CareSpec => []CareTypeOK
<1>1. CareInv => CareTypeOK
  BY DEF CareInv
<1> QED
  BY <1>1, CareInvariant, PTL

\* However many mechanics complete and delete orders on a judgement that other
\* steps have overtaken, equipment is under repair exactly while an order of it
\* is open, and no equipment has two open orders.
THEOREM RepairsShow == CareSpec => []UnderRepairWhileOpen
<1>1. CareInv => UnderRepairWhileOpen
  BY DEF CareInv
<1> QED
  BY <1>1, CareInvariant, PTL

-----------------------------------------------------------------------------
(***************************************************************************)
(* TOOLS                                                                   *)
(***************************************************************************)

-----------------------------------------------------------------------------
(* Tools and their borrow records.                                         *)

\* What a storekeeper remembers holds until it is written: the quantity asked
\* for covers what was seen outstanding, the record judged was given out.
DeskRemembers ==
    \A c \in Storekeepers : deskCall[c] # NoCall =>
        IF deskCall[c].kind = "update" THEN deskCall[c].seen <= deskCall[c].quantity
        ELSE borrow[deskCall[c].borrow] # NoRow

ToolInv == ToolTypeOK /\ LentWithinStock /\ DeskRemembers

\* What a record has outstanding of tool t.
OpenOf(t) ==
    [b \in Borrows |-> IF borrow[b] \in Borrow /\ borrow[b].tool = t /\ borrow[b].status = 0
                       THEN borrow[b].borrowed - borrow[b].returned ELSE 0]

\* What is outstanding is the sum over all records.
OutstandingIsSum ==
    \A t \in Tools : /\ Outstanding(t) = SumFunctionOnSet(OpenOf(t), Borrows)
                     /\ \A b \in Borrows : OpenOf(t)[b] \in Int
                     /\ Outstanding(t) \in Int

\* What is outstanding of a tool is a sum over all borrow records.
LEMMA OutstandingAdds == ToolTypeOK => OutstandingIsSum
<1> SUFFICES ASSUME ToolTypeOK, NEW t \in Tools
             PROVE  /\ Outstanding(t) = SumFunctionOnSet(OpenOf(t), Borrows)
                    /\ \A b \in Borrows : OpenOf(t)[b] \in Int
                    /\ Outstanding(t) \in Int
  BY DEF OutstandingIsSum
<1> DEFINE f == [b \in OpenBorrows(t) |-> borrow[b].borrowed - borrow[b].returned]
<1>1. \A b \in Borrows : Lent(b) <=> borrow[b] \in Borrow
  BY ToolAssumption DEF ToolTypeOK, Lent
<1>2. \A b \in Borrows : borrow[b] \in Borrow => borrow[b].borrowed - borrow[b].returned \in Int
  BY ToolAssumption DEF Borrow
<1>3. \A b \in Borrows : OpenOf(t)[b] \in Int
  BY <1>2 DEF OpenOf
<1>4. OpenBorrows(t) \in SUBSET Borrows
  BY DEF OpenBorrows
<1>5. \A b \in OpenBorrows(t) : f[b] \in Int /\ OpenOf(t)[b] = f[b]
  BY <1>1, <1>2 DEF OpenBorrows, OpenOf
<1>6. \A b \in Borrows \ OpenBorrows(t) : OpenOf(t)[b] = 0
  BY <1>1 DEF OpenBorrows, OpenOf
<1>7. Outstanding(t) = SumFunctionOnSet(f, OpenBorrows(t))
  BY DEF Outstanding, SumFunction
<1>8. SumFunctionOnSet(f, OpenBorrows(t)) = SumFunctionOnSet(OpenOf(t), Borrows)
  <2> HIDE DEF f
  <2> QED BY <1>4, <1>5, <1>6, ToolAssumption, SumRestrict
<1>9. SumFunctionOnSet(OpenOf(t), Borrows) \in Int
  BY <1>3, ToolAssumption, SumType
<1> QED
  BY <1>3, <1>7, <1>8, <1>9

\* When one record is written, what is outstanding changes by its change.
LEMMA OutstandingChanges ==
  ASSUME ToolTypeOK, ToolTypeOK', NEW b \in Borrows, NEW t \in Tools,
         \A x \in Borrows \ {b} : borrow'[x] = borrow[x]
  PROVE  Outstanding(t)' = Outstanding(t) + OpenOf(t)'[b] - OpenOf(t)[b]
<1>1. OutstandingIsSum
  BY OutstandingAdds
<1>2. OutstandingIsSum'
  BY OutstandingAdds, PTL
<1>3. \A x \in Borrows \ {b} : OpenOf(t)'[x] = OpenOf(t)[x]
  BY DEF OpenOf
<1> QED
  BY <1>1, <1>2, <1>3, ToolAssumption, SumChange DEF OutstandingIsSum
\* Nothing is outstanding of a tool that has no open record.
LEMMA NothingOutstanding ==
  ASSUME ToolTypeOK, NEW t \in Tools,
         \A b \in Borrows : ~ (borrow[b] \in Borrow /\ borrow[b].tool = t /\ borrow[b].status = 0)
  PROVE  Outstanding(t) = 0
<1>1. \A b \in Borrows : OpenOf(t)[b] = 0
  BY DEF OpenOf
<1>2. SumFunctionOnSet(OpenOf(t), Borrows) = 0
  BY <1>1, ToolAssumption, SumZero
<1> QED
  BY <1>2, OutstandingAdds DEF OutstandingIsSum

\* Steps that write no record leave what is outstanding as it was.
LEMMA SameOutstanding ==
  ASSUME UNCHANGED borrow, NEW t
  PROVE  Outstanding(t)' = Outstanding(t)
  BY DEF Outstanding, OpenBorrows, Lent

\* A record some of which came back is a record.
LEMMA ReturnedRecord ==
  ASSUME NEW r \in Borrow, NEW n \in 0 .. MaxQuantity, NEW s \in 0 .. 1
  PROVE  [r EXCEPT !.returned = n, !.status = s] \in Borrow
<1>1. [r EXCEPT !.returned = n] \in Borrow
  BY DEF Borrow
<1> DEFINE back == [r EXCEPT !.returned = n]
<1>2. [back EXCEPT !.status = s] \in Borrow
  <2> HIDE DEF back
  <2>1. back \in Borrow
    BY <1>1 DEF back
  <2> QED
    BY <2>1 DEF Borrow
<1>3. [r EXCEPT !.returned = n, !.status = s] = [back EXCEPT !.status = s]
  OBVIOUS
<1> QED
  BY <1>2, <1>3

\* Every step keeps the types.
LEMMA ToolTypeStep ==
  ASSUME ToolTypeOK, LentWithinStock, [ToolNext]_toolVars
  PROVE  ToolTypeOK'
<1> USE ToolAssumption DEF ToolTypeOK
<1>1. ASSUME NEW t \in Tools, NEW q \in 0 .. MaxQuantity, NEW enabled \in BOOLEAN,
             AddTool(t, q, enabled)
      PROVE  ToolTypeOK'
  <2>1. [quantity |-> q, enabled |-> enabled] \in Tool
    BY DEF Tool
  <2> QED
    BY <1>1, <2>1 DEF AddTool
<1>2. ASSUME NEW c \in Storekeepers, NEW t \in Tools, NEW q \in 0 .. MaxQuantity,
             NEW enabled \in BOOLEAN, JudgeToolUpdate(c, t, q, enabled)
      PROVE  ToolTypeOK'
  <2>1. Outstanding(t) \in Nat
    <3>1. \A b \in Borrows : OpenOf(t)[b] \in Nat
      BY DEF OpenOf, LentWithinStock, Lent, Borrow
    <3> QED
      BY <3>1, SumNotNegative, OutstandingAdds DEF OutstandingIsSum
  <2>2. [kind |-> "update", tool |-> t, seen |-> Outstanding(t), quantity |-> q,
         enabled |-> enabled] \in DeskCall
    BY <2>1 DEF DeskCall
  <2> QED
    BY <1>2, <2>2 DEF JudgeToolUpdate
<1>3. ASSUME NEW t \in Tools, DeleteTool(t) PROVE ToolTypeOK'
  BY <1>3 DEF DeleteTool, Absent
<1>4. ASSUME NEW t \in Tools, NEW b \in Borrows, NEW q \in 1 .. MaxQuantity, Lend(b, t, q)
      PROVE  ToolTypeOK'
  <2>1. [tool |-> t, borrowed |-> q, returned |-> 0, status |-> 0] \in Borrow
    BY DEF Borrow
  <2> QED
    BY <1>4, <2>1 DEF Lend
<1>5. ASSUME NEW b \in Borrows, NEW q \in 1 .. MaxQuantity, Return(b, q)
      PROVE  ToolTypeOK'
  <2>1. borrow[b] \in Borrow
    BY <1>5 DEF Return, Lent
  <2> DEFINE total == borrow[b].returned + q
             row == [borrow[b] EXCEPT !.returned = total,
                                      !.status = IF total = borrow[b].borrowed THEN 1 ELSE 0]
  <2>2. total \in 0 .. MaxQuantity
    BY <1>5, <2>1 DEF Return, Borrow
  <2>3. row \in Borrow
    <3>1. (IF total = borrow[b].borrowed THEN 1 ELSE 0) \in 0 .. 1
      OBVIOUS
    <3> HIDE DEF total
    <3> QED
      BY <2>1, <2>2, <3>1, ReturnedRecord DEF row
  <2>4. borrow' = [borrow EXCEPT ![b] = row]
    BY <1>5 DEF Return
  <2> QED
    BY <1>5, <2>3, <2>4 DEF Return
<1>6. ASSUME NEW b \in Borrows, NEW c \in Storekeepers, JudgeForget(c, b)
      PROVE  ToolTypeOK'
  BY <1>6 DEF JudgeForget, DeskCall
<1>7. ASSUME NEW c \in Storekeepers, ApplyToolUpdate(c) PROVE ToolTypeOK'
  <2>1. deskCall[c] \in DeskCall /\ deskCall[c].kind = "update"
    BY <1>7 DEF ApplyToolUpdate
  <2>2. /\ deskCall[c].tool \in Tools
        /\ [quantity |-> deskCall[c].quantity, enabled |-> deskCall[c].enabled] \in Tool
    BY <2>1 DEF DeskCall, Tool
  <2> QED
    BY <1>7, <2>2 DEF ApplyToolUpdate
<1>8. ASSUME NEW c \in Storekeepers, ApplyForget(c) PROVE ToolTypeOK'
  BY <1>8 DEF ApplyForget, Absent, DeskCall
<1>9. CASE UNCHANGED toolVars
  BY <1>9 DEF toolVars
<1> QED
  BY <1>1, <1>2, <1>3, <1>4, <1>5, <1>6, <1>7, <1>8, <1>9 DEF ToolNext

\* The inductive step, one part of the invariant after the other.
LEMMA ToolStep ==
  ASSUME ToolInv, [ToolNext]_toolVars
  PROVE  ToolInv'
<1> USE ToolAssumption
<1>0. ToolTypeOK /\ ToolTypeOK' /\ LentWithinStock /\ DeskRemembers
  BY ToolTypeStep DEF ToolInv
<1>1. \A t \in Tools : Outstanding(t) \in Int /\ Outstanding(t)' \in Int
  <2>1. OutstandingIsSum /\ OutstandingIsSum'
    BY <1>0, OutstandingAdds, PTL
  <2> QED BY <2>1 DEF OutstandingIsSum
<1>2. \A x \in Absent : x \notin Tool /\ x \notin Borrow
  OBVIOUS
<1>3. ASSUME NEW t \in Tools, NEW q \in 0 .. MaxQuantity, NEW enabled \in BOOLEAN,
             AddTool(t, q, enabled)
      PROVE  ToolInv'
  <2>1. Outstanding(t) = 0
    <3>1. \A b \in Borrows : ~ (borrow[b] \in Borrow /\ borrow[b].tool = t)
      BY <1>0, <1>2, <1>3 DEF LentWithinStock, Lent, AddTool, Absent
    <3> QED
      BY <1>0, <3>1, NothingOutstanding
  <2>2. \A x \in Tools : Outstanding(x)' = Outstanding(x)
    BY <1>3, SameOutstanding DEF AddTool
  <2>3. \A x \in Tools : tool'[x] = IF x = t THEN [quantity |-> q, enabled |-> enabled] ELSE tool[x]
    BY <1>0, <1>3 DEF AddTool, ToolTypeOK
  <2>4. [quantity |-> q, enabled |-> enabled] \notin Absent
    BY <1>2 DEF Tool
  <2>5. LentWithinStock'
    BY <1>0, <1>3, <2>1, <2>2, <2>3, <2>4 DEF LentWithinStock, AddTool, Lent, ToolTypeOK, Borrow
  <2> QED
    BY <1>0, <1>3, <2>5 DEF ToolInv, DeskRemembers, AddTool
<1>4. ASSUME NEW c \in Storekeepers, NEW t \in Tools, NEW q \in 0 .. MaxQuantity,
             NEW enabled \in BOOLEAN, JudgeToolUpdate(c, t, q, enabled)
      PROVE  ToolInv'
  <2>1. \A x \in Tools : Outstanding(x)' = Outstanding(x)
    BY <1>4, SameOutstanding DEF JudgeToolUpdate
  <2> DEFINE judged == [kind |-> "update", tool |-> t, seen |-> Outstanding(t), quantity |-> q,
                      enabled |-> enabled]
  <2>2. \A x \in Storekeepers : deskCall'[x] = IF x = c THEN judged ELSE deskCall[x]
    BY <1>0, <1>4 DEF JudgeToolUpdate, ToolTypeOK
  <2>3. judged.kind = "update" /\ judged.seen <= judged.quantity
    BY <1>4 DEF JudgeToolUpdate
  <2> HIDE DEF judged
  <2>4. LentWithinStock'
    BY <1>0, <1>4, <2>1, <2>2, <2>3 DEF LentWithinStock, JudgeToolUpdate, Lent
  <2>5. DeskRemembers'
    BY <1>0, <1>4, <2>2, <2>3 DEF DeskRemembers, JudgeToolUpdate
  <2> QED
    BY <1>0, <2>4, <2>5 DEF ToolInv
<1>5. ASSUME NEW t \in Tools, DeleteTool(t) PROVE ToolInv'
  <2>1. \A x \in Tools : Outstanding(x)' = Outstanding(x)
    BY <1>5, SameOutstanding DEF DeleteTool
  <2>2. \A x \in Tools : tool'[x] = IF x = t THEN Deleted ELSE tool[x]
    BY <1>0, <1>5 DEF DeleteTool, ToolTypeOK
  <2>3. LentWithinStock'
    BY <1>0, <1>2, <1>5, <2>1, <2>2 DEF LentWithinStock, DeleteTool, Lent, ToolTypeOK, Borrow, Absent
  <2> QED
    BY <1>0, <1>5, <2>3 DEF ToolInv, DeskRemembers, DeleteTool
<1>6. ASSUME NEW t \in Tools, NEW b \in Borrows, NEW q \in 1 .. MaxQuantity, Lend(b, t, q)
      PROVE  ToolInv'
  <2> DEFINE row == [tool |-> t, borrowed |-> q, returned |-> 0, status |-> 0]
  <2>1. \A x \in Borrows : borrow'[x] = IF x = b THEN row ELSE borrow[x]
    BY <1>0, <1>6 DEF Lend, ToolTypeOK
  <2>2. row \in Borrow /\ row.tool = t /\ row.borrowed = q /\ row.returned = 0 /\ row.status = 0
    BY DEF Borrow
  <2> HIDE DEF row
  <2>3. borrow[b] = NoRow /\ NoRow \notin Borrow /\ q \in Int
    BY <1>2, <1>6 DEF Lend, Absent
  <2>4. ASSUME NEW x \in Tools
        PROVE  Outstanding(x)' = IF x = t THEN Outstanding(x) + q ELSE Outstanding(x)
    <3>1. OpenOf(x)[b] = 0 /\ OpenOf(x)'[b] = IF x = t THEN q ELSE 0
      BY <2>1, <2>2, <2>3 DEF OpenOf
    <3>2. Outstanding(x)' = Outstanding(x) + OpenOf(x)'[b] - OpenOf(x)[b]
      BY <1>0, <2>1, OutstandingChanges
    <3> QED
      BY <1>1, <2>3, <3>1, <3>2
  <2>5. ASSUME NEW x \in Tools \ overlent, tool[x] \notin Absent
        PROVE  Outstanding(x)' <= tool[x].quantity
    <3>1. Outstanding(x) <= tool[x].quantity
      BY <1>0, <2>5 DEF LentWithinStock
    <3>2. CASE x = t
      BY <1>6, <2>4, <3>2 DEF Lend
    <3> QED
      BY <2>4, <3>1, <3>2
  <2>6. LentWithinStock'
    <3>1. \A x \in (Tools \ overlent)' : tool'[x] \notin Absent => Outstanding(x)' <= tool'[x].quantity
      BY <1>6, <2>5 DEF Lend
    <3>2. ASSUME NEW x \in Borrows, Lent(x)'
          PROVE  /\ borrow'[x].returned <= borrow'[x].borrowed
                 /\ borrow'[x].status = 1 <=> borrow'[x].returned = borrow'[x].borrowed
                 /\ tool'[borrow'[x].tool] \notin Absent
      <4>1. CASE x = b
        BY <1>6, <2>1, <2>2, <4>1 DEF Lend
      <4>2. CASE x # b
        <5>1. Lent(x) /\ borrow'[x] = borrow[x]
          BY <2>1, <3>2, <4>2 DEF Lent
        <5> QED
          BY <1>0, <1>6, <5>1 DEF LentWithinStock, Lend
      <4> QED
        BY <4>1, <4>2
    <3>3. \A c \in Storekeepers : deskCall'[c] # NoCall /\ deskCall'[c].kind = "forget" =>
            borrow'[deskCall'[c].borrow] = Deleted \/ borrow'[deskCall'[c].borrow].status = 1
      BY <1>0, <1>6, <2>1, <2>3 DEF LentWithinStock, DeskRemembers, Lend, ToolTypeOK, DeskCall
    <3> QED
      BY <3>1, <3>2, <3>3 DEF LentWithinStock
  <2>7. DeskRemembers'
    BY <1>0, <1>2, <1>6, <2>1, <2>2 DEF DeskRemembers, Lend, ToolTypeOK, DeskCall, Absent
  <2> QED
    BY <1>0, <2>6, <2>7 DEF ToolInv
<1>7. ASSUME NEW b \in Borrows, NEW q \in 1 .. MaxQuantity, Return(b, q)
      PROVE  ToolInv'
  <2> DEFINE total == borrow[b].returned + q
             done == IF total = borrow[b].borrowed THEN 1 ELSE 0
             row == [borrow[b] EXCEPT !.returned = total, !.status = done]
  <2>1. \A x \in Borrows : borrow'[x] = IF x = b THEN row ELSE borrow[x]
    BY <1>0, <1>7 DEF Return, ToolTypeOK
  <2>2. borrow[b] \in Borrow /\ borrow[b].status = 0
    BY <1>0, <1>7 DEF Return, Lent, ToolTypeOK
  <2>3. /\ row.tool = borrow[b].tool /\ row.borrowed = borrow[b].borrowed
        /\ row.returned = total /\ row.status = done
    BY <2>2 DEF Borrow
  <2>4. borrow'[b] = row /\ row \in Borrow
    <3>1. borrow'[b] = row
      BY <2>1
    <3>2. row # NoRow /\ row # Deleted
      <4>1. row.status = done /\ done \in {0, 1}
        BY <2>3
      <4>2. row \in Borrow
        <5>1. total \in 0 .. MaxQuantity
          BY <1>7, <2>2 DEF Return, Borrow
        <5>2. done \in 0 .. 1
          OBVIOUS
        <5> HIDE DEF total, done
        <5> QED
          BY <2>2, <5>1, <5>2, ReturnedRecord DEF row
      <4> QED
        BY <1>2, <4>2 DEF Absent
    <3> QED
      BY <1>0, <3>1, <3>2 DEF ToolTypeOK, Absent
  <2>5. /\ total <= borrow[b].borrowed /\ q \in 1 .. MaxQuantity
        /\ borrow[b].returned \in Int /\ borrow[b].borrowed \in Int
        /\ total = borrow[b].returned + q
        /\ done = IF total = borrow[b].borrowed THEN 1 ELSE 0
    BY <1>7, <2>2 DEF Return, Borrow
  <2> HIDE DEF total, done, row
  <2>6. ASSUME NEW t \in Tools PROVE Outstanding(t)' <= Outstanding(t)
    <3>1. Outstanding(t)' = Outstanding(t) + OpenOf(t)'[b] - OpenOf(t)[b]
      BY <1>0, <2>1, OutstandingChanges
    <3>2. OpenOf(t)[b] = IF borrow[b].tool = t THEN borrow[b].borrowed - borrow[b].returned ELSE 0
      BY <2>2 DEF OpenOf
    <3>3. OpenOf(t)'[b] = IF borrow[b].tool = t /\ done = 0 THEN borrow[b].borrowed - total ELSE 0
      BY <2>3, <2>4 DEF OpenOf
    <3>4. OpenOf(t)'[b] \in Int /\ OpenOf(t)[b] \in Int /\ OpenOf(t)'[b] <= OpenOf(t)[b]
      BY <2>5, <3>2, <3>3
    <3> QED
      BY <1>1, <3>1, <3>4
  <2>7. ASSUME NEW t \in Tools \ overlent, tool[t] \notin Absent
        PROVE  Outstanding(t)' <= tool[t].quantity
    <3>1. Outstanding(t) <= tool[t].quantity
      BY <1>0, <2>7 DEF LentWithinStock
    <3>2. tool[t].quantity \in Int
      BY <1>0, <2>7 DEF ToolTypeOK, Tool
    <3> QED
      BY <1>1, <2>6, <3>1, <3>2
  <2>8. LentWithinStock'
    <3>1. \A x \in (Tools \ overlent)' : tool'[x] \notin Absent => Outstanding(x)' <= tool'[x].quantity
      BY <1>7, <2>7 DEF Return
    <3>2. ASSUME NEW x \in Borrows, Lent(x)'
          PROVE  /\ borrow'[x].returned <= borrow'[x].borrowed
                 /\ borrow'[x].status = 1 <=> borrow'[x].returned = borrow'[x].borrowed
                 /\ tool'[borrow'[x].tool] \notin Absent
      <4>1. CASE x = b
        <5>1. total <= borrow[b].borrowed /\ (done = 1 <=> total = borrow[b].borrowed)
          BY <2>5
        <5>2. tool[borrow[b].tool] \notin Absent
          BY <1>0, <1>7 DEF LentWithinStock, Return
        <5> QED
          BY <1>7, <2>1, <2>3, <4>1, <5>1, <5>2 DEF Return
      <4>2. CASE x # b
        <5>1. Lent(x) /\ borrow'[x] = borrow[x]
          BY <2>1, <3>2, <4>2 DEF Lent
        <5> QED
          BY <1>0, <1>7, <5>1 DEF LentWithinStock, Return
      <4> QED
        BY <4>1, <4>2
    <3>3. \A c \in Storekeepers : deskCall'[c] # NoCall /\ deskCall'[c].kind = "forget" =>
            borrow'[deskCall'[c].borrow] = Deleted \/ borrow'[deskCall'[c].borrow].status = 1
      BY <1>0, <1>2, <1>7, <2>1, <2>2 DEF LentWithinStock, DeskRemembers, Return, ToolTypeOK, DeskCall, Absent
    <3> QED
      BY <3>1, <3>2, <3>3 DEF LentWithinStock
  <2>9. DeskRemembers'
    BY <1>0, <1>2, <1>7, <2>1, <2>4 DEF DeskRemembers, Return, Absent, ToolTypeOK, DeskCall
  <2> QED
    BY <1>0, <2>8, <2>9 DEF ToolInv
<1>8. ASSUME NEW b \in Borrows, NEW c \in Storekeepers, JudgeForget(c, b)
      PROVE  ToolInv'
  <2>1. \A x \in Tools : Outstanding(x)' = Outstanding(x)
    BY <1>8, SameOutstanding DEF JudgeForget
  <2> DEFINE judged == [kind |-> "forget", borrow |-> b]
  <2>2. \A x \in Storekeepers : deskCall'[x] = IF x = c THEN judged ELSE deskCall[x]
    BY <1>0, <1>8 DEF JudgeForget, ToolTypeOK
  <2>3. LentWithinStock'
    BY <1>0, <1>8, <2>1, <2>2 DEF LentWithinStock, JudgeForget, Lent
  <2>4. DeskRemembers'
    BY <1>0, <1>8, <2>2 DEF DeskRemembers, JudgeForget, Lent, Absent
  <2> QED
    BY <1>0, <2>3, <2>4 DEF ToolInv
<1>9. ASSUME NEW c \in Storekeepers, ApplyToolUpdate(c) PROVE ToolInv'
  <2> DEFINE t == deskCall[c].tool
             row == [quantity |-> deskCall[c].quantity, enabled |-> deskCall[c].enabled]
  <2>1. \A x \in Tools : Outstanding(x)' = Outstanding(x)
    BY <1>9, SameOutstanding DEF ApplyToolUpdate
  <2>2. /\ deskCall[c] \in DeskCall /\ deskCall[c].kind = "update"
        /\ deskCall[c].seen <= deskCall[c].quantity
    BY <1>0, <1>9 DEF ApplyToolUpdate, ToolTypeOK, DeskRemembers
  <2>3. t \in Tools /\ row \in Tool /\ deskCall[c].quantity \in Int /\ deskCall[c].seen \in Int
    BY <2>2 DEF DeskCall, Tool
  <2>4. \A x \in Tools : tool'[x] = IF x = t /\ tool[t] # Deleted THEN row ELSE tool[x]
    BY <1>0, <1>9 DEF ApplyToolUpdate, ToolTypeOK
  <2>5. ASSUME NEW x \in Tools \ overlent', tool'[x] \notin Absent
        PROVE  Outstanding(x)' <= tool'[x].quantity
    <3>1. x \notin overlent /\ (x = t => ~ (Outstanding(t) > deskCall[c].seen))
      BY <1>9, <2>5 DEF ApplyToolUpdate
    <3>2. CASE x = t /\ tool[t] # Deleted
      <4>1. Outstanding(t) <= deskCall[c].quantity
        BY <1>1, <2>2, <2>3, <3>1, <3>2
      <4> QED
        BY <2>1, <2>4, <3>2, <4>1
    <3>3. CASE ~ (x = t /\ tool[t] # Deleted)
      BY <1>0, <2>1, <2>4, <2>5, <3>1, <3>3 DEF LentWithinStock
    <3> QED
      BY <3>2, <3>3
  <2>6. \A b \in Borrows : Lent(b) => borrow[b].tool \in Tools
    BY <1>0 DEF ToolTypeOK, Lent, Borrow
  <2>7. row \notin Absent
    BY <1>2, <2>3
  <2> HIDE DEF row, t
  <2>8. \A x \in Storekeepers : deskCall'[x] = IF x = c THEN NoCall ELSE deskCall[x]
    BY <1>0, <1>9 DEF ApplyToolUpdate, ToolTypeOK
  <2>9. LentWithinStock'
    BY <1>0, <1>9, <2>4, <2>5, <2>6, <2>7, <2>8 DEF LentWithinStock, ApplyToolUpdate, Lent
  <2>10. DeskRemembers'
    BY <1>0, <1>9, <2>8 DEF DeskRemembers, ApplyToolUpdate
  <2> QED
    BY <1>0, <2>9, <2>10 DEF ToolInv
<1>10. ASSUME NEW c \in Storekeepers, ApplyForget(c) PROVE ToolInv'
  <2> DEFINE b == deskCall[c].borrow
  <2>1. /\ deskCall[c] \in DeskCall /\ deskCall[c].kind = "forget"
        /\ borrow[b] = Deleted \/ borrow[b].status = 1
        /\ borrow[b] # NoRow
    BY <1>0, <1>10 DEF ApplyForget, ToolTypeOK, LentWithinStock, DeskRemembers
  <2>2. b \in Borrows
    BY <2>1 DEF DeskCall
  <2>3. \A x \in Borrows : borrow'[x] = IF x = b THEN Deleted ELSE borrow[x]
    BY <1>0, <1>10, <2>2 DEF ApplyForget, ToolTypeOK
  <2>4. \A x \in Storekeepers : deskCall'[x] = IF x = c THEN NoCall ELSE deskCall[x]
    BY <1>0, <1>10 DEF ApplyForget, ToolTypeOK
  <2> HIDE DEF b
  <2>5. \A t \in Tools : Outstanding(t)' = Outstanding(t)
    <3> TAKE t \in Tools
    <3>1. OpenOf(t)[b] = 0 /\ OpenOf(t)'[b] = 0
      BY <1>2, <2>1, <2>2, <2>3 DEF OpenOf, Absent
    <3>2. Outstanding(t)' = Outstanding(t) + OpenOf(t)'[b] - OpenOf(t)[b]
      BY <1>0, <2>2, <2>3, OutstandingChanges
    <3> QED
      BY <1>1, <3>1, <3>2
  <2>6. LentWithinStock'
    <3>1. \A x \in (Tools \ overlent)' : tool'[x] \notin Absent => Outstanding(x)' <= tool'[x].quantity
      BY <1>0, <1>10, <2>5 DEF ApplyForget, LentWithinStock
    <3>2. \A x \in Borrows : Lent(x)' => Lent(x) /\ borrow'[x] = borrow[x]
      BY <2>3 DEF Lent, Absent
    <3>3. \A x \in Borrows : Lent(x)' =>
            /\ borrow'[x].returned <= borrow'[x].borrowed
            /\ borrow'[x].status = 1 <=> borrow'[x].returned = borrow'[x].borrowed
            /\ tool'[borrow'[x].tool] \notin Absent
      BY <1>0, <1>10, <3>2 DEF ApplyForget, LentWithinStock
    <3>4. \A d \in Storekeepers : deskCall'[d] # NoCall /\ deskCall'[d].kind = "forget" =>
            borrow'[deskCall'[d].borrow] = Deleted \/ borrow'[deskCall'[d].borrow].status = 1
      BY <1>0, <2>3, <2>4 DEF LentWithinStock, ToolTypeOK, DeskCall
    <3> QED
      BY <3>1, <3>3, <3>4 DEF LentWithinStock
  <2>7. DeskRemembers'
    BY <1>0, <2>3, <2>4, TablesAssumption DEF DeskRemembers, ToolTypeOK, DeskCall
  <2> QED
    BY <1>0, <2>6, <2>7 DEF ToolInv
<1>11. CASE UNCHANGED toolVars
  <2>1. \A x \in Tools : Outstanding(x)' = Outstanding(x)
    BY <1>11, SameOutstanding DEF toolVars
  <2>2. LentWithinStock'
    BY <1>0, <1>11, <2>1 DEF LentWithinStock, toolVars, Lent
  <2> QED
    BY <1>0, <1>11, <2>2 DEF ToolInv, DeskRemembers, toolVars
<1> QED
  BY <1>3, <1>4, <1>5, <1>6, <1>7, <1>8, <1>9, <1>10, <1>11 DEF ToolNext

\* Nothing is lent and nothing remembered at first.
LEMMA ToolInitInv == ToolInit => ToolInv
<1> SUFFICES ASSUME ToolInit PROVE ToolInv
  OBVIOUS
<1>1. ToolTypeOK
  BY DEF ToolInit, ToolTypeOK, Absent
<1>2. /\ \A t \in Tools : tool[t] \in Absent
      /\ \A b \in Borrows : borrow[b] \in Absent
      /\ \A c \in Storekeepers : deskCall[c] = NoCall
  BY DEF ToolInit, Absent
<1> QED
  BY <1>1, <1>2 DEF ToolInv, LentWithinStock, DeskRemembers, Lent

\* The inductive invariant of the tools: rows of their types, what is lent
\* within what there is, and storekeepers who remember no less than is needed.
THEOREM ToolInvariant == ToolSpec => []ToolInv
  BY ToolInitInv, ToolStep, PTL DEF ToolSpec

\* The rows of the two tables keep their types: in particular a tool is never
\* lent or returned in a quantity the columns do not hold.
THEOREM ToolTypes == ToolSpec => []ToolTypeOK
<1>1. ToolInv => ToolTypeOK
  BY DEF ToolInv
<1> QED
  BY <1>1, ToolInvariant, PTL

\* Never more of a tool is outstanding than there is of it, however lending,
\* returning, changes to the tool and deletions overlap, unless some was lent
\* out between the check and the write of a change to its quantity.
THEOREM ToolsLentWithinStock == ToolSpec => []LentWithinStock
<1>1. ToolInv => LentWithinStock
  BY DEF ToolInv
<1> QED
  BY <1>1, ToolInvariant, PTL

-----------------------------------------------------------------------------
(***************************************************************************)
(* FLOOR                                                                   *)
(***************************************************************************)

\* What a form claims of work order o.
ClaimOf(o) ==
    [f \in Forms |-> IF form[f] \in Form /\ form[f].order = o THEN form[f].quantity ELSE 0]

\* What the forms of a work order claim is the sum over all forms.
ClaimedIsSum ==
    \A o \in FloorOrders : /\ Claimed(o) = SumFunctionOnSet(ClaimOf(o), Forms)
                           /\ \A f \in Forms : ClaimOf(o)[f] \in Int
                           /\ Claimed(o) \in Int

\* What forms claim of a work order is a sum over all forms.
LEMMA ClaimedAdds == FloorTypeOK => ClaimedIsSum
<1> SUFFICES ASSUME FloorTypeOK, NEW o \in FloorOrders
             PROVE  /\ Claimed(o) = SumFunctionOnSet(ClaimOf(o), Forms)
                    /\ \A f \in Forms : ClaimOf(o)[f] \in Int
                    /\ Claimed(o) \in Int
  BY DEF ClaimedIsSum
<1> DEFINE q == [f \in FormsOf(o) |-> form[f].quantity]
<1>1. \A f \in Forms : form[f] # NoRow <=> form[f] \in Form
  BY FloorAssumption DEF FloorTypeOK, Absent
<1>2. \A f \in Forms : form[f] \in Form => form[f].quantity \in Int
  BY FloorAssumption DEF Form
<1>3. \A f \in Forms : ClaimOf(o)[f] \in Int
  BY <1>2 DEF ClaimOf
<1>4. FormsOf(o) \in SUBSET Forms
  BY DEF FormsOf
<1>5. \A f \in FormsOf(o) : q[f] \in Int /\ ClaimOf(o)[f] = q[f]
  BY <1>1, <1>2 DEF FormsOf, ClaimOf
<1>6. \A f \in Forms \ FormsOf(o) : ClaimOf(o)[f] = 0
  BY <1>1 DEF FormsOf, ClaimOf
<1>7. Claimed(o) = SumFunctionOnSet(q, FormsOf(o))
  BY DEF Claimed, SumFunction
<1>8. SumFunctionOnSet(q, FormsOf(o)) = SumFunctionOnSet(ClaimOf(o), Forms)
  <2> HIDE DEF q
  <2> QED BY <1>4, <1>5, <1>6, FloorAssumption, SumRestrict
<1>9. SumFunctionOnSet(ClaimOf(o), Forms) \in Int
  BY <1>3, FloorAssumption, SumType
<1> QED
  BY <1>3, <1>7, <1>8, <1>9

\* When one form is written, the claim of its work order changes by its change.
LEMMA ClaimedChanges ==
  ASSUME FloorTypeOK, FloorTypeOK', NEW f \in Forms, NEW o \in FloorOrders,
         \A x \in Forms \ {f} : form'[x] = form[x]
  PROVE  Claimed(o)' = Claimed(o) + ClaimOf(o)'[f] - ClaimOf(o)[f]
<1>1. ClaimedIsSum
  BY ClaimedAdds
<1>2. ClaimedIsSum'
  BY ClaimedAdds, PTL
<1>3. \A x \in Forms \ {f} : ClaimOf(o)'[x] = ClaimOf(o)[x]
  BY DEF ClaimOf
<1> QED
  BY <1>1, <1>2, <1>3, FloorAssumption, SumChange DEF ClaimedIsSum

\* The parts of CallsStandAlone: about calls and about forms.
OneOpenCall ==
    \A a, b \in Calls :
          /\ a # b /\ call[a] # NoRow /\ call[b] # NoRow
          /\ call[a].status # 2 /\ call[b].status # 2
          => call[a].station # call[b].station \/ call[a].type # call[b].type
CallsHaveStations ==
    \A a \in Calls : call[a] # NoRow =>
          workstation[call[a].station] \notin Absent \/ call[a].station \in overtaken
ClaimsWithinPlan == \A o \in FloorOrders : Claimed(o) <= PlannedQty

FloorInv == FloorTypeOK /\ OneOpenCall /\ CallsHaveStations /\ ClaimsWithinPlan

\* Every step writes rows of the tables' types.
LEMMA FloorTypeStep ==
  ASSUME FloorTypeOK, [FloorNext]_floorVars
  PROVE  FloorTypeOK'
<1>1. ASSUME NEW w \in Workstations, NEW word \in Workstation,
             AddWorkstation(w, word) \/ SwitchWorkstation(w, word)
      PROVE  FloorTypeOK'
  BY <1>1 DEF FloorTypeOK, AddWorkstation, SwitchWorkstation
<1>2. ASSUME NEW c \in Clerks, NEW w \in Workstations, JudgeRemoval(c, w)
      PROVE  FloorTypeOK'
  BY <1>2 DEF FloorTypeOK, JudgeRemoval
<1>3. ASSUME NEW c \in Clerks, RemoveWorkstation(c) PROVE FloorTypeOK'
  BY <1>3 DEF FloorTypeOK, RemoveWorkstation, Absent
<1>4. ASSUME NEW a \in Calls, NEW w \in Workstations, NEW type \in CallTypes,
             MakeCall(a, w, type)
      PROVE  FloorTypeOK'
  <2>1. [station |-> w, type |-> type, status |-> 0] \in Call
    BY DEF Call
  <2> QED
    BY <1>4, <2>1 DEF FloorTypeOK, MakeCall
<1>5. ASSUME NEW a \in Calls, Respond(a) \/ Resolve(a) PROVE FloorTypeOK'
  <2>1. call[a] \in Call
    BY <1>5 DEF FloorTypeOK, Respond, Resolve
  <2>2. [call[a] EXCEPT !.status = 1] \in Call /\ [call[a] EXCEPT !.status = 2] \in Call
    BY <2>1 DEF Call
  <2> QED
    BY <1>5, <2>2 DEF FloorTypeOK, Respond, Resolve
<1>6. ASSUME NEW f \in Forms, NEW o \in FloorOrders, NEW q \in 1 .. MaxFormQty, FileForm(f, o, q)
      PROVE  FloorTypeOK'
  <2>1. [order |-> o, quantity |-> q, status |-> 0] \in Form
    BY DEF Form
  <2> QED
    BY <1>6, <2>1 DEF FloorTypeOK, FileForm
<1>7. ASSUME NEW f \in Forms, CompleteForm(f) PROVE FloorTypeOK'
  <2>1. form[f] \in Form
    BY <1>7 DEF FloorTypeOK, CompleteForm
  <2>2. [form[f] EXCEPT !.status = 1] \in Form
    BY <2>1 DEF Form
  <2> QED
    BY <1>7, <2>2 DEF FloorTypeOK, CompleteForm
<1>8. CASE UNCHANGED floorVars
  BY <1>8 DEF FloorTypeOK, floorVars
<1> QED
  BY <1>1, <1>2, <1>3, <1>4, <1>5, <1>6, <1>7, <1>8 DEF FloorNext

\* Every step keeps the invariant.
LEMMA FloorStep ==
  ASSUME FloorInv, [FloorNext]_floorVars
  PROVE  FloorInv'
<1>0. /\ FloorTypeOK /\ FloorTypeOK'
      /\ OneOpenCall /\ CallsHaveStations /\ ClaimsWithinPlan
  BY FloorTypeStep DEF FloorInv
<1>1. \A x \in Absent : x \notin Workstation /\ x \notin Call /\ x \notin Form
  BY FloorAssumption
<1>2. ASSUME UNCHANGED form PROVE ClaimsWithinPlan'
  <2>1. \A o \in FloorOrders : Claimed(o)' = Claimed(o)
    BY <1>2 DEF Claimed, FormsOf
  <2> QED
    BY <1>0, <2>1 DEF ClaimsWithinPlan
<1>3. ASSUME NEW w \in Workstations, NEW word \in Workstation,
             AddWorkstation(w, word) \/ SwitchWorkstation(w, word)
      PROVE  FloorInv'
  <2>1. \A x \in Workstations : workstation'[x] = workstation[x] \/ workstation'[x] \notin Absent
    BY <1>0, <1>1, <1>3 DEF AddWorkstation, SwitchWorkstation, FloorTypeOK
  <2>2. \A a \in Calls : call[a] # NoRow => call[a].station \in Workstations
    BY <1>0 DEF FloorTypeOK, Call
  <2> QED
    BY <1>0, <1>2, <1>3, <2>1, <2>2
    DEF FloorInv, AddWorkstation, SwitchWorkstation, OneOpenCall, CallsHaveStations
<1>4. ASSUME NEW c \in Clerks, NEW w \in Workstations, JudgeRemoval(c, w)
      PROVE  FloorInv'
  BY <1>0, <1>2, <1>4 DEF FloorInv, JudgeRemoval, OneOpenCall, CallsHaveStations
<1>5. ASSUME NEW c \in Clerks, RemoveWorkstation(c) PROVE FloorInv'
  <2>1. removal[c] \in Workstations
    BY <1>0, <1>5 DEF RemoveWorkstation, FloorTypeOK
  <2>2. \A x \in Workstations : x # removal[c] => workstation'[x] = workstation[x]
    BY <1>0, <1>5 DEF RemoveWorkstation, FloorTypeOK
  <2>3. overtaken \subseteq overtaken'
    BY <1>5 DEF RemoveWorkstation
  <2>4. ASSUME NEW a \in Calls, call[a] # NoRow, call[a].station = removal[c]
        PROVE  call[a].station \in overtaken'
    BY <1>5, <2>4 DEF RemoveWorkstation, CallsOf
  <2>5. \A a \in Calls : call[a] # NoRow => call[a].station \in Workstations
    BY <1>0 DEF FloorTypeOK, Call
  <2>6. CallsHaveStations'
    BY <1>0, <1>5, <2>2, <2>3, <2>4, <2>5 DEF RemoveWorkstation, CallsHaveStations
  <2> QED
    BY <1>0, <1>2, <1>5, <2>6 DEF FloorInv, RemoveWorkstation, OneOpenCall
<1>6. ASSUME NEW a \in Calls, NEW w \in Workstations, NEW type \in CallTypes,
             MakeCall(a, w, type)
      PROVE  FloorInv'
  <2> DEFINE row == [station |-> w, type |-> type, status |-> 0]
  <2>1. \A x \in Calls : call'[x] = IF x = a THEN row ELSE call[x]
    BY <1>0, <1>6 DEF MakeCall, FloorTypeOK
  <2>2. ASSUME NEW b \in Calls, call[b] # NoRow, call[b].status # 2
        PROVE  call[b].station # w \/ call[b].type # type
    <3>1. call[b].status \in {0, 1}
      BY <1>0, <2>2 DEF FloorTypeOK, Call
    <3> QED
      BY <1>6, <2>2, <3>1 DEF MakeCall, OpenCall, CallsOf
  <2>3. row.station = w /\ row.type = type
    OBVIOUS
  <2>4. workstation[w] \notin Absent
    BY <1>1, <1>6 DEF MakeCall, Workstation
  <2> HIDE DEF row
  <2>5. OneOpenCall'
    BY <1>0, <2>1, <2>2, <2>3 DEF OneOpenCall
  <2>6. CallsHaveStations'
    BY <1>0, <1>6, <2>1, <2>3, <2>4 DEF CallsHaveStations, MakeCall
  <2> QED
    BY <1>0, <1>2, <1>6, <2>5, <2>6 DEF FloorInv, MakeCall
<1>7. ASSUME NEW a \in Calls, Respond(a) \/ Resolve(a) PROVE FloorInv'
  <2>1. call[a] \in Call /\ call[a].status \in {0, 1}
    BY <1>0, <1>7 DEF FloorTypeOK, Respond, Resolve
  <2>2. \A x \in Calls : x # a => call'[x] = call[x]
    BY <1>0, <1>7 DEF FloorTypeOK, Respond, Resolve
  <2>3. call'[a].station = call[a].station /\ call'[a].type = call[a].type
    BY <1>0, <1>7, <2>1 DEF FloorTypeOK, Respond, Resolve, Call
  <2>4. call[a] # NoRow
    BY <1>7 DEF Respond, Resolve
  <2>5. OneOpenCall'
    BY <1>0, <2>1, <2>2, <2>3, <2>4 DEF OneOpenCall
  <2>6. CallsHaveStations'
    BY <1>0, <1>7, <2>2, <2>3, <2>4 DEF CallsHaveStations, Respond, Resolve
  <2> QED
    BY <1>0, <1>2, <1>7, <2>5, <2>6 DEF FloorInv, Respond, Resolve
<1>8. ASSUME NEW f \in Forms, NEW o \in FloorOrders, NEW q \in 1 .. MaxFormQty, FileForm(f, o, q)
      PROVE  FloorInv'
  <2> DEFINE row == [order |-> o, quantity |-> q, status |-> 0]
  <2>1. \A x \in Forms : form'[x] = IF x = f THEN row ELSE form[x]
    BY <1>0, <1>8 DEF FileForm, FloorTypeOK
  <2>2. row \in Form /\ row.order = o /\ row.quantity = q
    BY DEF Form
  <2>3. form[f] \notin Form /\ q \in Int
    BY <1>1, <1>8 DEF FileForm, Absent
  <2> HIDE DEF row
  <2>4. ASSUME NEW x \in FloorOrders PROVE Claimed(x)' <= PlannedQty
    <3>1. Claimed(x)' = Claimed(x) + ClaimOf(x)'[f] - ClaimOf(x)[f]
      BY <1>0, <2>1, ClaimedChanges
    <3>2. ClaimOf(x)[f] = 0 /\ ClaimOf(x)'[f] = IF x = o THEN q ELSE 0
      BY <2>1, <2>2, <2>3 DEF ClaimOf
    <3>3. Claimed(x) \in Int /\ Claimed(x) <= PlannedQty /\ PlannedQty \in Int
      BY <1>0, ClaimedAdds, FloorAssumption DEF ClaimedIsSum, ClaimsWithinPlan
    <3>4. x = o => Claimed(x) + q <= PlannedQty
      BY <1>8 DEF FileForm
    <3> QED
      BY <2>3, <3>1, <3>2, <3>3, <3>4
  <2>5. ClaimsWithinPlan'
    BY <2>4 DEF ClaimsWithinPlan
  <2> QED
    BY <1>0, <1>8, <2>5 DEF FloorInv, FileForm, OneOpenCall, CallsHaveStations
<1>9. ASSUME NEW f \in Forms, CompleteForm(f) PROVE FloorInv'
  <2>1. form[f] \in Form
    BY <1>0, <1>9 DEF FloorTypeOK, CompleteForm
  <2>2. \A x \in Forms : x # f => form'[x] = form[x]
    BY <1>0, <1>9 DEF FloorTypeOK, CompleteForm
  <2>3. form'[f] \in Form /\ form'[f].order = form[f].order /\ form'[f].quantity = form[f].quantity
    BY <1>0, <1>9, <2>1 DEF FloorTypeOK, CompleteForm, Form
  <2>4. ASSUME NEW o \in FloorOrders PROVE Claimed(o)' = Claimed(o)
    <3>1. Claimed(o)' = Claimed(o) + ClaimOf(o)'[f] - ClaimOf(o)[f]
      BY <1>0, <2>2, ClaimedChanges
    <3>2. ClaimOf(o)'[f] = ClaimOf(o)[f]
      BY <2>1, <2>3 DEF ClaimOf
    <3>3. Claimed(o) \in Int /\ ClaimOf(o)[f] \in Int
      BY <1>0, ClaimedAdds DEF ClaimedIsSum
    <3> QED
      BY <3>1, <3>2, <3>3
  <2>5. ClaimsWithinPlan'
    BY <1>0, <2>4 DEF ClaimsWithinPlan
  <2> QED
    BY <1>0, <1>9, <2>5 DEF FloorInv, CompleteForm, OneOpenCall, CallsHaveStations
<1>10. CASE UNCHANGED floorVars
  BY <1>0, <1>2, <1>10 DEF FloorInv, floorVars, OneOpenCall, CallsHaveStations
<1> QED
  BY <1>3, <1>4, <1>5, <1>6, <1>7, <1>8, <1>9, <1>10 DEF FloorNext

\* No call and no form at first.
LEMMA FloorInitInv == FloorInit => FloorInv
<1> SUFFICES ASSUME FloorInit PROVE FloorInv
  OBVIOUS
<1>1. FloorTypeOK
  BY DEF FloorInit, FloorTypeOK, Absent
<1>2. ASSUME NEW o \in FloorOrders PROVE Claimed(o) <= PlannedQty
  <2>1. \A f \in Forms : ClaimOf(o)[f] = 0
    BY FloorAssumption DEF FloorInit, ClaimOf, Absent
  <2>2. Claimed(o) = 0
    BY <1>1, <2>1, ClaimedAdds, FloorAssumption, SumZero DEF ClaimedIsSum
  <2> QED
    BY <2>2, FloorAssumption
<1> QED
  BY <1>1, <1>2 DEF FloorInv, FloorInit, OneOpenCall, CallsHaveStations, ClaimsWithinPlan

\* The inductive invariant of the floor: rows of their types, one open call of
\* a type at a workstation, calls with a workstation and claims within the plan.
THEOREM FloorInvariant == FloorSpec => []FloorInv
  BY FloorInitInv, FloorStep, PTL DEF FloorSpec

\* The tables of calls, forms, workstations and counters hold rows of their types.
THEOREM FloorTypes == FloorSpec => []FloorTypeOK
<1>1. FloorInv => FloorTypeOK
  BY DEF FloorInv
<1> QED
  BY <1>1, FloorInvariant, PTL

\* However calls, answers, forms and deletions overlap, a workstation has one
\* open call of a type at most, calls lose their workstation only to a
\* deletion that was judged before they came, and forms claim no more of a
\* work order than was planned.
THEOREM CallsAndFormsStand == FloorSpec => []CallsStandAlone
<1>1. FloorInv => CallsStandAlone
  BY DEF FloorInv, CallsStandAlone, OneOpenCall, CallsHaveStations, ClaimsWithinPlan
<1> QED
  BY <1>1, FloorInvariant, PTL

-----------------------------------------------------------------------------
(***************************************************************************)
(* STATIONS                                                                *)
(***************************************************************************)

\* What a record is, when flow rows have the ids in ids.
RecordsOf(ids) == [flow : ids, station : Stations, action : StationActions, by : {"request", "machine"}]

\* Requests for a unit that have found no flow row of it.
Missing(sn) == {h \in Handlers : request[h] # NoCall /\ request[h].sn = sn /\ request[h].stage = "missing"}

\* The parts of StationTrail.
ShowsLastMove ==
    \A f \in DOMAIN unitFlow : \A i \in MovesOf(f) :
        (\A j \in MovesOf(f) : j <= i) => unitFlow[f].station = record[i].station
FlowsBounded == \A sn \in Units : Cardinality(FlowsOf(sn)) + Cardinality(Missing(sn)) <= Cardinality(Handlers) + 1

StationInv == StationTypeOK /\ ShowsLastMove /\ FlowsBounded

\* The parts of StationTypeOK.
StationRows ==
    /\ configured \subseteq Stations /\ usable \subseteq Materials /\ failed \in BOOLEAN
    /\ lock \in [Locks -> [material : Materials, active : BOOLEAN] \cup {NoRow}]
    /\ unitFlow \in Seq([sn : Units, station : Stations])
    /\ record \in Seq(RecordsOf(DOMAIN unitFlow))
    /\ request \in [Handlers -> Request \cup {NoCall}]
FoundExists ==
    \A h \in Handlers : request[h] # NoCall /\ request[h].stage = "found" =>
        request[h].flow \in DOMAIN unitFlow /\ unitFlow[request[h].flow].sn = request[h].sn

LEMMA TypeParts == StationTypeOK <=> StationRows /\ FoundExists
BY DEF StationTypeOK, StationRows, FoundExists, FlowsOf, RecordsOf

\* A sequence over a set is one over a larger set.
LEMMA SeqWider ==
  ASSUME NEW S, NEW T, S \subseteq T, NEW s \in Seq(S) PROVE s \in Seq(T)
<1>1. \A i \in 1 .. Len(s) : s[i] \in S
  OBVIOUS
<1>2. \A i \in 1 .. Len(s) : s[i] \in T
  BY <1>1
<1> QED
  BY <1>2

\* The elements of a sequence.
LEMMA SeqElements == ASSUME NEW S, NEW s \in Seq(S) PROVE \A i \in DOMAIN s : s[i] \in S
OBVIOUS

\* A set of ids has a largest one.
LEMMA LargestId ==
  \A n \in Nat : \A S \in SUBSET (1 .. n) : S # {} => \E f \in S : \A g \in S : g <= f
<1> DEFINE N == {n \in Nat : \A S \in SUBSET (1 .. n) : S # {} => \E f \in S : \A g \in S : g <= f}
<1>1. 0 \in N
  <2>1. 1 .. 0 = {}
    OBVIOUS
  <2>2. \A S \in SUBSET (1 .. 0) : S = {}
    BY <2>1
  <2> QED
    BY <2>2
<1>2. ASSUME NEW n \in N PROVE n + 1 \in N
  <2> SUFFICES ASSUME NEW S \in SUBSET (1 .. n + 1), S # {} PROVE \E f \in S : \A g \in S : g <= f
    OBVIOUS
  <2>1. CASE n + 1 \in S
    BY <2>1
  <2>2. CASE n + 1 \notin S
    <3>1. S \in SUBSET (1 .. n)
      BY <2>2
    <3> QED
      BY <3>1
  <2> QED
    BY <2>1, <2>2
<1>3. N = Nat
  <2> HIDE DEF N
  <2>1. N \subseteq Nat
    BY DEF N
  <2> QED
    BY <1>1, <1>2, <2>1, CountUp
<1> QED
  BY <1>3

\* The flow rows of a unit and the requests without one are finitely many.
LEMMA FlowsFinite ==
  ASSUME StationTypeOK, NEW sn
  PROVE  /\ FlowsOf(sn) \in SUBSET (1 .. Len(unitFlow)) /\ Len(unitFlow) \in Nat
         /\ IsFiniteSet(FlowsOf(sn)) /\ Cardinality(FlowsOf(sn)) \in Nat
<1>1. unitFlow \in Seq([sn : Units, station : Stations])
  BY DEF StationTypeOK
<1>2. FlowsOf(sn) \in SUBSET (1 .. Len(unitFlow)) /\ Len(unitFlow) \in Nat
  BY <1>1 DEF FlowsOf
<1>3. IsFiniteSet(1 .. Len(unitFlow))
  BY <1>2, FS_Interval
<1>4. IsFiniteSet(FlowsOf(sn))
  BY <1>2, <1>3, FS_Subset
<1> QED
  BY <1>2, <1>4, FS_CardinalityType

LEMMA MissingFinite ==
  \A sn : /\ IsFiniteSet(Missing(sn)) /\ Cardinality(Missing(sn)) \in Nat
          /\ Cardinality(Missing(sn)) <= Cardinality(Handlers) /\ Cardinality(Handlers) \in Nat
<1> TAKE sn
<1>1. Missing(sn) \in SUBSET Handlers
  BY DEF Missing
<1>2. IsFiniteSet(Missing(sn)) /\ Cardinality(Missing(sn)) <= Cardinality(Handlers)
  BY <1>1, StationAssumption, FS_Subset
<1> QED
  BY <1>2, StationAssumption, FS_CardinalityType

\* A step that leaves the flow rows and records keeps what they show.
LEMMA RowsSame ==
  ASSUME ShowsLastMove, UNCHANGED <<unitFlow, record>> PROVE ShowsLastMove'
BY DEF ShowsLastMove, MovesOf

\* Likewise for the flow rows of each unit and the requests that found none.
LEMMA CountsSame ==
  ASSUME FlowsBounded, unitFlow' = unitFlow, NEW h \in Handlers,
         \A g \in Handlers \ {h} : request'[g] = request[g],
         request[h] # NoCall => request[h].stage # "missing",
         request'[h] # NoCall => request'[h].stage # "missing"
  PROVE  FlowsBounded'
<1> SUFFICES ASSUME NEW sn \in Units
             PROVE  Cardinality(FlowsOf(sn)') + Cardinality(Missing(sn)') <= Cardinality(Handlers) + 1
  BY DEF FlowsBounded
<1>1. FlowsOf(sn)' = FlowsOf(sn)
  BY DEF FlowsOf
<1>2. h \notin Missing(sn) /\ h \notin Missing(sn)'
  BY DEF Missing
<1>3. \A g \in Handlers \ {h} : g \in Missing(sn) <=> g \in Missing(sn)'
  BY DEF Missing
<1>4. Missing(sn) \subseteq Handlers /\ Missing(sn)' \subseteq Handlers
  BY DEF Missing
<1>5. Missing(sn)' = Missing(sn)
  BY <1>2, <1>3, <1>4
<1> QED
  BY <1>1, <1>5 DEF FlowsBounded

\* A request that is accepted has neither found nor missed a flow row.
LEMMA AcceptStep ==
  ASSUME StationInv, NEW h \in Handlers, NEW sn \in Units, NEW st \in Stations, NEW action \in RequestActions,
         Accept(h, sn, st, action), UNCHANGED <<configured, usable, lock, unitFlow, record, failed>>
  PROVE  StationInv'
<1> DEFINE r == [sn |-> sn, station |-> st, action |-> action, stage |-> "judged", flow |-> 0]
<1>1. r \in Request /\ r.stage = "judged"
  BY DEF Request
<1>2. request[h] = NoCall /\ request' = [request EXCEPT ![h] = r]
  BY DEF Accept
<1> HIDE DEF r
<1>3. /\ request' \in [Handlers -> Request \cup {NoCall}] /\ request'[h] = r
      /\ \A g \in Handlers \ {h} : request'[g] = request[g]
  BY <1>1, <1>2 DEF StationInv, StationTypeOK
<1>4. StationRows /\ FoundExists
  BY TypeParts DEF StationInv
<1>5. StationTypeOK'
  <2>1. FoundExists'
    BY <1>1, <1>3, <1>4 DEF FoundExists
  <2>2. StationRows'
    BY <1>3, <1>4 DEF StationRows
  <2> QED
    BY <2>1, <2>2, TypeParts, PTL
<1>6. ShowsLastMove' /\ FlowsBounded'
  BY <1>1, <1>2, <1>3, RowsSame, CountsSame DEF StationInv
<1> QED
  BY <1>5, <1>6 DEF StationInv

LEMMA FindFlowStep ==
  ASSUME StationInv, NEW h \in Handlers, FindFlow(h) PROVE StationInv'
<1> DEFINE r == request[h]
           found == [[r EXCEPT !.stage = "found"] EXCEPT !.flow = Latest(r.sn)]
           missing == [r EXCEPT !.stage = "missing"]
<1>0. StationTypeOK /\ ShowsLastMove /\ FlowsBounded
  BY DEF StationInv
<1>1. /\ r # NoCall /\ r.stage \in {"judged", "created"} /\ r \in Request
      /\ UNCHANGED <<configured, usable, lock, unitFlow, record, failed>>
  BY <1>0 DEF FindFlow, StationTypeOK
<1>2. request' = [request EXCEPT ![h] =
          IF FlowsOf(r.sn) # {} THEN found ELSE IF r.action = "pass" THEN missing ELSE NoCall]
  <2>1. [r EXCEPT !.stage = "found", !.flow = Latest(r.sn)] = found
    BY <1>1 DEF Request
  <2> HIDE DEF found
  <2> QED
    BY <2>1 DEF FindFlow
<1>3. missing \in Request /\ missing.stage = "missing" /\ missing.sn = r.sn
  BY <1>1 DEF Request
<1>4. ASSUME FlowsOf(r.sn) # {}
      PROVE  /\ Latest(r.sn) \in FlowsOf(r.sn) /\ Latest(r.sn) \in Nat
             /\ found \in Request /\ found.stage = "found" /\ found.sn = r.sn /\ found.flow = Latest(r.sn)
  <2>1. FlowsOf(r.sn) \in SUBSET (1 .. Len(unitFlow)) /\ Len(unitFlow) \in Nat
    BY <1>0, FlowsFinite
  <2>2. \E f \in FlowsOf(r.sn) : \A g \in FlowsOf(r.sn) : g <= f
    BY <1>4, <2>1, LargestId
  <2>3. Latest(r.sn) \in FlowsOf(r.sn)
    BY <2>2 DEF Latest
  <2>4. Latest(r.sn) \in Nat
    BY <2>1, <2>3
  <2> QED
    BY <1>1, <2>3, <2>4 DEF Request
<1> HIDE DEF found, missing
<1>5. /\ request' \in [Handlers -> Request \cup {NoCall}]
      /\ \A g \in Handlers \ {h} : request'[g] = request[g]
      /\ request'[h] = IF FlowsOf(r.sn) # {} THEN found ELSE IF r.action = "pass" THEN missing ELSE NoCall
  BY <1>0, <1>2, <1>3, <1>4 DEF StationTypeOK
<1>6. \A sn : FlowsOf(sn)' = FlowsOf(sn)
  BY <1>1 DEF FlowsOf
<1>7. StationTypeOK'
  <2>0. StationRows /\ FoundExists
    BY <1>0, TypeParts
  <2>1. StationRows'
    BY <1>1, <1>5, <2>0 DEF StationRows
  <2>2. FlowsOf(r.sn) # {} => Latest(r.sn) \in DOMAIN unitFlow /\ unitFlow[Latest(r.sn)].sn = r.sn
    BY <1>4 DEF FlowsOf
  <2>3. FoundExists'
    BY <1>1, <1>3, <1>4, <1>5, <2>0, <2>2 DEF FoundExists
  <2> QED
    BY <2>1, <2>3, TypeParts, PTL
<1>8. ShowsLastMove'
  BY <1>0, <1>1, RowsSame
<1>9. FlowsBounded'
  <2>1. CASE request'[h] # missing
    <3>1. request'[h] # NoCall => request'[h].stage # "missing"
      BY <1>4, <1>5, <2>1
    <3> QED
      BY <1>0, <1>1, <1>5, <3>1, CountsSame
  <2>2. CASE FlowsOf(r.sn) = {}
    <3> SUFFICES ASSUME NEW sn \in Units
                 PROVE  Cardinality(FlowsOf(sn)') + Cardinality(Missing(sn)') <= Cardinality(Handlers) + 1
      BY DEF FlowsBounded
    <3>1. CASE sn = r.sn
      <4>1. Cardinality(FlowsOf(sn)') = 0
        BY <1>6, <2>2, <3>1, FS_EmptySet
      <4>2. Cardinality(Missing(sn)') <= Cardinality(Handlers) /\ Cardinality(Missing(sn)') \in Nat
        <5>1. Missing(sn)' \in SUBSET Handlers
          BY DEF Missing
        <5>2. IsFiniteSet(Missing(sn)') /\ Cardinality(Missing(sn)') <= Cardinality(Handlers)
          BY <5>1, StationAssumption, FS_Subset
        <5> QED
          BY <5>2, FS_CardinalityType
      <4>3. Cardinality(Handlers) \in Nat
        BY StationAssumption, FS_CardinalityType
      <4> QED
        BY <4>1, <4>2, <4>3
    <3>2. CASE sn # r.sn
      <4>1. h \notin Missing(sn) /\ h \notin Missing(sn)'
        BY <1>1, <1>3, <1>5, <2>2, <3>2 DEF Missing
      <4>2. \A g \in Handlers \ {h} : g \in Missing(sn) <=> g \in Missing(sn)'
        BY <1>5 DEF Missing
      <4>3. Missing(sn) \subseteq Handlers /\ Missing(sn)' \subseteq Handlers
        BY DEF Missing
      <4>4. Missing(sn)' = Missing(sn)
        BY <4>1, <4>2, <4>3
      <4> QED
        BY <1>0, <1>6, <4>4 DEF FlowsBounded
    <3> QED
      BY <3>1, <3>2
  <2>3. CASE FlowsOf(r.sn) # {} /\ request'[h] = missing
    <3>1. missing.stage = "found"
      BY <1>4, <1>5, <2>3
    <3> QED
      BY <1>3, <3>1
  <2> QED
    BY <2>1, <2>2, <2>3
<1> QED
  BY <1>7, <1>8, <1>9 DEF StationInv

LEMMA CreateFlowStep ==
  ASSUME StationInv, NEW h \in Handlers, CreateFlow(h) PROVE StationInv'
<1> DEFINE r == request[h]
           row == [sn |-> r.sn, station |-> r.station]
           created == [r EXCEPT !.stage = "created"]
           new == Len(unitFlow) + 1
<1>0. StationTypeOK /\ ShowsLastMove /\ FlowsBounded
  BY DEF StationInv
<1>1. /\ r # NoCall /\ r.stage = "missing" /\ r \in Request /\ r.sn \in Units
      /\ unitFlow' = Append(unitFlow, row) /\ request' = [request EXCEPT ![h] = created]
      /\ UNCHANGED <<configured, usable, lock, record, failed>>
  BY <1>0 DEF CreateFlow, StationTypeOK, Request
<1>2. created \in Request /\ created.stage = "created" /\ row \in [sn : Units, station : Stations] /\ row.sn = r.sn
  BY <1>1 DEF Request
<1> HIDE DEF created, row
<1>3. /\ request' \in [Handlers -> Request \cup {NoCall}] /\ request'[h] = created
      /\ \A g \in Handlers \ {h} : request'[g] = request[g]
  BY <1>0, <1>1, <1>2 DEF StationTypeOK
<1>4. /\ unitFlow' \in Seq([sn : Units, station : Stations]) /\ Len(unitFlow) \in Nat
      /\ DOMAIN unitFlow = 1 .. Len(unitFlow) /\ DOMAIN unitFlow' = 1 .. new
      /\ unitFlow'[new] = row /\ \A f \in DOMAIN unitFlow : unitFlow'[f] = unitFlow[f]
  <2>1. unitFlow \in Seq([sn : Units, station : Stations])
    BY <1>0 DEF StationTypeOK
  <2> QED
    BY <1>1, <1>2, <2>1
<1>5. new \notin DOMAIN unitFlow /\ DOMAIN unitFlow' = DOMAIN unitFlow \cup {new}
  BY <1>4
<1> HIDE DEF new
<1>6. /\ \A sn : sn # r.sn => FlowsOf(sn)' = FlowsOf(sn)
      /\ \A sn : sn = r.sn => FlowsOf(sn)' = FlowsOf(sn) \cup {new}
      /\ \A sn : new \notin FlowsOf(sn)
  BY <1>2, <1>4, <1>5 DEF FlowsOf
<1>7. \A i \in DOMAIN record : record[i].flow \in DOMAIN unitFlow
  <2>1. record \in Seq(RecordsOf(DOMAIN unitFlow))
    BY <1>0, TypeParts DEF StationRows
  <2>2. \A i \in DOMAIN record : record[i] \in RecordsOf(DOMAIN unitFlow)
    BY <2>1, SeqElements
  <2> QED
    BY <2>2 DEF RecordsOf
<1>8. StationTypeOK'
  <2>1. record' \in Seq(RecordsOf(DOMAIN unitFlow'))
    <3>1. record \in Seq(RecordsOf(DOMAIN unitFlow))
      BY <1>0, TypeParts DEF StationRows
    <3>2. RecordsOf(DOMAIN unitFlow) \subseteq RecordsOf(DOMAIN unitFlow')
      BY <1>5 DEF RecordsOf
    <3>3. record \in Seq(RecordsOf(DOMAIN unitFlow'))
      BY <3>1, <3>2, SeqWider
    <3> QED
      BY <1>1, <3>3
  <2>2. StationRows /\ FoundExists
    BY <1>0, TypeParts
  <2>3. FoundExists'
    <3> SUFFICES ASSUME NEW g \in Handlers, request'[g] # NoCall, request'[g].stage = "found"
                 PROVE  /\ request'[g].flow \in DOMAIN unitFlow'
                        /\ unitFlow'[request'[g].flow].sn = request'[g].sn
      BY DEF FoundExists
    <3>1. g # h /\ request'[g] = request[g]
      BY <1>2, <1>3
    <3>2. request[g].flow \in DOMAIN unitFlow /\ unitFlow[request[g].flow].sn = request[g].sn
      BY <2>2, <3>1 DEF FoundExists
    <3> QED
      BY <1>4, <1>5, <3>1, <3>2
  <2>4. StationRows'
    BY <1>1, <1>3, <1>4, <2>1, <2>2 DEF StationRows
  <2> QED
    BY <2>3, <2>4, TypeParts, PTL
<1>9. ShowsLastMove'
  <2> SUFFICES ASSUME NEW f \in DOMAIN unitFlow', NEW i \in MovesOf(f)', \A j \in MovesOf(f)' : j <= i
               PROVE  unitFlow'[f].station = record'[i].station
    BY DEF ShowsLastMove
  <2>1. MovesOf(f)' = MovesOf(f)
    BY <1>1 DEF MovesOf
  <2>2. f \in DOMAIN unitFlow
    BY <1>7, <2>1 DEF MovesOf
  <2> QED
    BY <1>0, <1>1, <1>4, <2>1, <2>2 DEF ShowsLastMove
<1>10. FlowsBounded'
  <2> SUFFICES ASSUME NEW sn \in Units
               PROVE  Cardinality(FlowsOf(sn)') + Cardinality(Missing(sn)') <= Cardinality(Handlers) + 1
    BY DEF FlowsBounded
  <2>1. \A g \in Handlers \ {h} : g \in Missing(sn) <=> g \in Missing(sn)'
    BY <1>3 DEF Missing
  <2>2. Missing(sn) \subseteq Handlers /\ Missing(sn)' \subseteq Handlers
    BY DEF Missing
  <2>3. h \notin Missing(sn)'
    BY <1>2, <1>3 DEF Missing
  <2>4. /\ IsFiniteSet(FlowsOf(sn)) /\ Cardinality(FlowsOf(sn)) \in Nat
        /\ IsFiniteSet(Missing(sn)) /\ Cardinality(Missing(sn)) \in Nat
        /\ Cardinality(Handlers) \in Nat
    BY <1>0, FlowsFinite, MissingFinite
  <2>5. Cardinality(FlowsOf(sn)) + Cardinality(Missing(sn)) <= Cardinality(Handlers) + 1
    BY <1>0 DEF FlowsBounded
  <2>6. CASE sn = r.sn
    <3>1. h \in Missing(sn)
      BY <1>1, <2>6 DEF Missing
    <3>2. Missing(sn)' = Missing(sn) \ {h}
      BY <2>1, <2>2, <2>3
    <3>3. Cardinality(Missing(sn) \ {h}) = Cardinality(Missing(sn)) - 1
      BY <2>4, <3>1, FS_RemoveElement
    <3>4. Cardinality(FlowsOf(sn) \cup {new}) = Cardinality(FlowsOf(sn)) + 1
      BY <1>6, <2>4, <2>6, FS_AddElement
    <3>5. Cardinality(FlowsOf(sn)') = Cardinality(FlowsOf(sn)) + 1
      BY <1>6, <2>6, <3>4
    <3>6. Cardinality(Missing(sn)') = Cardinality(Missing(sn)) - 1
      BY <3>2, <3>3
    <3> QED
      BY <2>4, <2>5, <3>5, <3>6
  <2>7. CASE sn # r.sn
    <3>1. h \notin Missing(sn)
      BY <2>7 DEF Missing
    <3>2. Missing(sn)' = Missing(sn)
      BY <2>1, <2>2, <2>3, <3>1
    <3> QED
      BY <1>6, <2>5, <2>7, <3>2
  <2> QED
    BY <2>6, <2>7
<1> QED
  BY <1>8, <1>9, <1>10 DEF StationInv

LEMMA WriteRecordStep ==
  ASSUME StationInv, NEW h \in Handlers, WriteRecord(h) PROVE StationInv'
<1> DEFINE r == request[h]
           entry == [flow |-> r.flow, station |-> r.station, action |-> r.action, by |-> "request"]
           new == Len(record) + 1
           Entries == RecordsOf(DOMAIN unitFlow)
<1>0. StationTypeOK /\ ShowsLastMove /\ FlowsBounded
  BY DEF StationInv
<1>1. /\ r # NoCall /\ r.stage = "found" /\ r \in Request
      /\ r.flow \in FlowsOf(r.sn) /\ r.flow \in DOMAIN unitFlow /\ r.station \in Stations
      /\ r.action \in StationActions
      /\ record' = Append(record, entry) /\ request' = [request EXCEPT ![h] = NoCall]
      /\ UNCHANGED <<configured, usable, lock, failed>>
  BY <1>0 DEF WriteRecord, StationTypeOK, Request, StationActions, FlowsOf
<1>2. unitFlow' = IF r.action \in MOVES THEN [unitFlow EXCEPT ![r.flow].station = r.station] ELSE unitFlow
  BY DEF WriteRecord
<1>3. /\ entry \in Entries /\ entry.flow = r.flow /\ entry.station = r.station
      /\ entry.action = r.action /\ entry.by = "request"
  BY <1>1 DEF RecordsOf
<1>4. unitFlow \in Seq([sn : Units, station : Stations]) /\ record \in Seq(Entries)
  BY <1>0, TypeParts DEF StationRows
<1>5. /\ unitFlow' \in Seq([sn : Units, station : Stations]) /\ DOMAIN unitFlow' = DOMAIN unitFlow
      /\ \A f \in DOMAIN unitFlow : f # r.flow => unitFlow'[f] = unitFlow[f]
      /\ \A f \in DOMAIN unitFlow : unitFlow'[f].sn = unitFlow[f].sn
      /\ r.action \in MOVES => unitFlow'[r.flow].station = r.station
      /\ r.action \notin MOVES => unitFlow' = unitFlow
  <2>1. CASE r.action \notin MOVES
    BY <1>2, <1>4, <2>1
  <2>2. CASE r.action \in MOVES
    <3> DEFINE row == [unitFlow[r.flow] EXCEPT !.station = r.station]
    <3>1. unitFlow[r.flow] \in [sn : Units, station : Stations]
      BY <1>1, <1>4, SeqElements
    <3>2. row \in [sn : Units, station : Stations] /\ row.sn = unitFlow[r.flow].sn /\ row.station = r.station
      BY <1>1, <3>1
    <3>3. unitFlow' = [unitFlow EXCEPT ![r.flow] = row]
      BY <1>2, <2>2
    <3> HIDE DEF row
    <3> QED
      BY <1>1, <1>4, <2>2, <3>2, <3>3
  <2> QED
    BY <2>1, <2>2
<1> HIDE DEF entry
<1>6. /\ record' \in Seq(Entries) /\ Len(record) \in Nat /\ DOMAIN record = 1 .. Len(record)
      /\ DOMAIN record' = 1 .. new /\ record'[new] = entry
      /\ \A i \in DOMAIN record : record'[i] = record[i]
  <2> HIDE DEF Entries
  <2> QED
    BY <1>1, <1>3, <1>4
<1>7. /\ request' \in [Handlers -> Request \cup {NoCall}] /\ request'[h] = NoCall
      /\ \A g \in Handlers \ {h} : request'[g] = request[g]
  BY <1>0, <1>1 DEF StationTypeOK
<1>8. \A sn : FlowsOf(sn)' = FlowsOf(sn)
  BY <1>5 DEF FlowsOf
<1>9. StationTypeOK'
  <2>1. StationRows /\ FoundExists
    BY <1>0, TypeParts
  <2>2. FoundExists'
    BY <1>5, <1>7, <2>1 DEF FoundExists
  <2>3. record' \in Seq(RecordsOf(DOMAIN unitFlow'))
    BY <1>5, <1>6
  <2>4. StationRows'
    BY <1>1, <1>5, <1>7, <2>1, <2>3 DEF StationRows
  <2> QED
    BY <2>2, <2>4, TypeParts, PTL
<1>10. ShowsLastMove'
  <2> SUFFICES ASSUME NEW f \in DOMAIN unitFlow', NEW i \in MovesOf(f)', \A j \in MovesOf(f)' : j <= i
               PROVE  unitFlow'[f].station = record'[i].station
    BY DEF ShowsLastMove
  <2>0. DOMAIN record' = DOMAIN record \cup {new} /\ new \notin DOMAIN record /\ f \in DOMAIN unitFlow
    BY <1>5, <1>6
  <2>1. MovesOf(f) \subseteq MovesOf(f)' /\ MovesOf(f)' \subseteq MovesOf(f) \cup {new}
    BY <1>6, <2>0 DEF MovesOf
  <2>2. CASE f = r.flow /\ r.action \in MOVES
    <3>1. new \in MovesOf(f)'
      BY <1>3, <1>6, <2>0, <2>2 DEF MovesOf
    <3>2. new <= i /\ i \in 1 .. new
      BY <1>6, <3>1 DEF MovesOf
    <3>3. i = new
      BY <1>6, <3>2
    <3> QED
      BY <1>3, <1>5, <1>6, <2>2, <3>3
  <2>3. CASE ~ (f = r.flow /\ r.action \in MOVES)
    <3>1. new \notin MovesOf(f)'
      BY <1>3, <1>6, <2>3 DEF MovesOf
    <3>2. MovesOf(f)' = MovesOf(f) /\ i \in DOMAIN record
      BY <2>1, <3>1 DEF MovesOf
    <3>3. unitFlow[f].station = record[i].station
      BY <1>0, <2>0, <3>2 DEF ShowsLastMove
    <3> QED
      BY <1>5, <1>6, <2>0, <2>3, <3>2, <3>3
  <2> QED
    BY <2>2, <2>3
<1>11. FlowsBounded'
  <2> SUFFICES ASSUME NEW sn \in Units
               PROVE  Cardinality(FlowsOf(sn)') + Cardinality(Missing(sn)') <= Cardinality(Handlers) + 1
    BY DEF FlowsBounded
  <2>1. \A g \in Handlers \ {h} : g \in Missing(sn) <=> g \in Missing(sn)'
    BY <1>7 DEF Missing
  <2>2. Missing(sn) \subseteq Handlers /\ Missing(sn)' \subseteq Handlers
    BY DEF Missing
  <2>3. h \notin Missing(sn)' /\ h \notin Missing(sn)
    BY <1>1, <1>7 DEF Missing
  <2>4. Missing(sn)' = Missing(sn)
    BY <2>1, <2>2, <2>3
  <2> QED
    BY <1>0, <1>8, <2>4 DEF FlowsBounded
<1> QED
  BY <1>9, <1>10, <1>11 DEF StationInv

\* A report or a concession writes a record that moves no flow row; the row it
\* adds is the unit's first.
LEMMA WriteBesideStep ==
  ASSUME StationInv, NEW sn \in Units, NEW st \in Stations, NEW action \in StationActions,
         WriteBeside(sn, st, action)
  PROVE  StationInv'
<1> DEFINE none == FlowsOf(sn) = {}
           row == [sn |-> sn, station |-> st]
           flow == IF none THEN Len(unitFlow) + 1 ELSE Latest(sn)
           entry == [flow |-> flow, station |-> st, action |-> action, by |-> "machine"]
           fresh == Len(unitFlow) + 1
           new == Len(record) + 1
<1>0. StationTypeOK /\ ShowsLastMove /\ FlowsBounded /\ StationRows /\ FoundExists
  BY TypeParts DEF StationInv
<1>1. /\ unitFlow' = IF none THEN Append(unitFlow, row) ELSE unitFlow
      /\ record' = Append(record, entry)
      /\ UNCHANGED <<configured, usable, lock, request, failed>>
  BY DEF WriteBeside
<1>2. unitFlow \in Seq([sn : Units, station : Stations]) /\ record \in Seq(RecordsOf(DOMAIN unitFlow))
  BY <1>0 DEF StationRows
<1>3. row \in [sn : Units, station : Stations] /\ row.sn = sn
  OBVIOUS
<1> HIDE DEF row
<1>4. /\ unitFlow' \in Seq([sn : Units, station : Stations])
      /\ DOMAIN unitFlow \subseteq DOMAIN unitFlow' /\ \A f \in DOMAIN unitFlow : unitFlow'[f] = unitFlow[f]
      /\ none => /\ DOMAIN unitFlow' = DOMAIN unitFlow \cup {fresh} /\ fresh \notin DOMAIN unitFlow
                 /\ unitFlow'[fresh] = row
      /\ ~ none => unitFlow' = unitFlow
  <2>1. CASE none
    <3> HIDE DEF none
    <3> QED
      BY <1>1, <1>2, <1>3, <2>1
  <2>2. CASE ~ none
    <3> HIDE DEF none
    <3> QED
      BY <1>1, <1>2, <2>2
  <2> QED
    BY <2>1, <2>2
<1>5. flow \in DOMAIN unitFlow'
  <2>1. CASE none
    BY <1>4, <2>1
  <2>2. CASE ~ none
    <3>1. FlowsOf(sn) \in SUBSET (1 .. Len(unitFlow)) /\ Len(unitFlow) \in Nat
      BY <1>0, FlowsFinite
    <3>2. \E f \in FlowsOf(sn) : \A g \in FlowsOf(sn) : g <= f
      BY <2>2, <3>1, LargestId
    <3>3. Latest(sn) \in FlowsOf(sn)
      BY <3>2 DEF Latest
    <3> QED
      BY <1>4, <2>2, <3>3 DEF FlowsOf
  <2> QED
    BY <2>1, <2>2
<1>6. entry \in RecordsOf(DOMAIN unitFlow') /\ entry.by = "machine"
  BY <1>5 DEF RecordsOf
<1> HIDE DEF entry, flow
<1>7. /\ record' \in Seq(RecordsOf(DOMAIN unitFlow'))
      /\ DOMAIN record' = DOMAIN record \cup {new} /\ record'[new] = entry
      /\ \A i \in DOMAIN record : record'[i] = record[i]
      /\ \A i \in DOMAIN record : record[i].flow \in DOMAIN unitFlow
  <2>1. RecordsOf(DOMAIN unitFlow) \subseteq RecordsOf(DOMAIN unitFlow')
    BY <1>4 DEF RecordsOf
  <2>2. record \in Seq(RecordsOf(DOMAIN unitFlow'))
    BY <1>2, <2>1, SeqWider
  <2>3. \A i \in DOMAIN record : record[i] \in RecordsOf(DOMAIN unitFlow)
    BY <1>2, SeqElements
  <2>4. \A i \in DOMAIN record : record[i].flow \in DOMAIN unitFlow
    BY <2>3 DEF RecordsOf
  <2> QED
    BY <1>1, <1>6, <2>2, <2>4
<1> HIDE DEF new
<1>8. StationTypeOK'
  <2>1. StationRows'
    BY <1>0, <1>1, <1>4, <1>7 DEF StationRows
  <2>2. FoundExists'
    BY <1>0, <1>1, <1>4 DEF FoundExists
  <2> QED
    BY <2>1, <2>2, TypeParts, PTL
<1>9. ShowsLastMove'
  <2> SUFFICES ASSUME NEW f \in DOMAIN unitFlow', NEW i \in MovesOf(f)', \A j \in MovesOf(f)' : j <= i
               PROVE  unitFlow'[f].station = record'[i].station
    BY DEF ShowsLastMove
  <2>1. MovesOf(f)' = MovesOf(f)
    BY <1>6, <1>7 DEF MovesOf
  <2>2. f \in DOMAIN unitFlow /\ i \in DOMAIN record
    BY <1>7, <2>1 DEF MovesOf
  <2> QED
    BY <1>0, <1>4, <1>7, <2>1, <2>2 DEF ShowsLastMove
<1>10. FlowsBounded'
  <2> SUFFICES ASSUME NEW u \in Units
               PROVE  Cardinality(FlowsOf(u)') + Cardinality(Missing(u)') <= Cardinality(Handlers) + 1
    BY DEF FlowsBounded
  <2>1. Missing(u)' = Missing(u)
    BY <1>1 DEF Missing
  <2>2. CASE none /\ u = sn
    <3>1. FlowsOf(u)' = {fresh}
      BY <1>3, <1>4, <2>2 DEF FlowsOf
    <3>2. Cardinality(FlowsOf(u)') = 1
      BY <3>1, FS_Singleton
    <3> QED
      BY <2>1, <3>2, MissingFinite
  <2>3. CASE ~ (none /\ u = sn)
    <3>1. FlowsOf(u)' = FlowsOf(u)
      BY <1>3, <1>4, <2>3 DEF FlowsOf
    <3> QED
      BY <1>0, <2>1, <3>1 DEF FlowsBounded
  <2> QED
    BY <2>2, <2>3
<1> QED
  BY <1>8, <1>9, <1>10 DEF StationInv

\* A step that only configures, locks or fails.
LEMMA ConfigurationStep ==
  ASSUME StationInv, StationTypeOK', UNCHANGED <<unitFlow, record, request>> PROVE StationInv'
<1>1. ShowsLastMove'
  BY RowsSame DEF StationInv
<1>2. FlowsBounded'
  BY DEF StationInv, FlowsBounded, FlowsOf, Missing
<1> QED
  BY <1>1, <1>2 DEF StationInv

\* Every step keeps the invariant.
LEMMA StationStep == StationInv /\ [StationNext]_stationVars => StationInv'
<1> SUFFICES ASSUME StationInv, [StationNext]_stationVars PROVE StationInv'
  OBVIOUS
<1>0. StationTypeOK
  BY DEF StationInv
<1>1. ASSUME NEW st \in Stations, Configure(st) PROVE StationInv'
  BY <1>0, <1>1, ConfigurationStep DEF Configure, StationTypeOK, FlowsOf
<1>2. ASSUME NEW m \in Materials, SwitchMaterial(m) PROVE StationInv'
  BY <1>0, <1>2, ConfigurationStep DEF SwitchMaterial, StationTypeOK, FlowsOf
<1>3. ASSUME NEW m \in Materials, NEW k \in Locks, LockMaterial(k, m) PROVE StationInv'
  BY <1>0, <1>3, ConfigurationStep DEF LockMaterial, StationTypeOK, FlowsOf
<1>4. ASSUME NEW k \in Locks, UnlockMaterial(k) PROVE StationInv'
  BY <1>0, <1>4, ConfigurationStep DEF UnlockMaterial, StationTypeOK, FlowsOf
<1>5. ASSUME NEW h \in Handlers, NEW st \in Stations, FailPass(h, st) PROVE StationInv'
  BY <1>0, <1>5, ConfigurationStep DEF FailPass, StationTypeOK, FlowsOf
<1>6. ASSUME NEW h \in Handlers, NEW sn \in Units, NEW st \in Stations,
             NEW m \in Materials \cup {NoMaterial}, JudgePass(h, sn, st, m)
      PROVE  StationInv'
  <2>1. "pass" \in RequestActions
    BY DEF RequestActions, MOVES
  <2> QED
    BY <1>6, <2>1, AcceptStep DEF JudgePass
<1>7. ASSUME NEW h \in Handlers, NEW sn \in Units, NEW st \in Stations, NEW action \in RequestActions,
             AcceptOther(h, sn, st, action)
      PROVE  StationInv'
  BY <1>7, AcceptStep DEF AcceptOther
<1>8. ASSUME NEW h \in Handlers, FindFlow(h) \/ CreateFlow(h) \/ WriteRecord(h) PROVE StationInv'
  BY <1>8, FindFlowStep, CreateFlowStep, WriteRecordStep
<1>9. ASSUME NEW sn \in Units, NEW st \in Stations, MachineReport(sn, st) \/ Concede(sn, st) PROVE StationInv'
  <2>1. {"pass", "defect", "concession"} \subseteq StationActions
    BY DEF StationActions, RequestActions, MOVES
  <2>2. PICK action \in {"pass", "defect", "concession"} : WriteBeside(sn, st, action)
    BY <1>9 DEF MachineReport, Concede
  <2> QED
    BY <2>1, <2>2, WriteBesideStep
<1>10. CASE UNCHANGED stationVars
  BY <1>0, <1>10, ConfigurationStep DEF stationVars, StationTypeOK, FlowsOf
<1> QED
  BY <1>1, <1>2, <1>3, <1>4, <1>5, <1>6, <1>7, <1>8, <1>9, <1>10 DEF StationNext

\* No rows and no requests at first.
LEMMA StationStart == StationInit => StationInv
<1> SUFFICES ASSUME StationInit PROVE StationInv
  OBVIOUS
<1>1. StationTypeOK
  <2>1. unitFlow = <<>> /\ <<>> \in Seq([sn : Units, station : Stations])
    BY DEF StationInit
  <2>2. record = <<>> /\ <<>> \in Seq(RecordsOf(DOMAIN unitFlow))
    BY DEF StationInit
  <2>3. StationRows
    BY <2>1, <2>2 DEF StationInit, StationRows
  <2>4. FoundExists
    BY DEF StationInit, FoundExists
  <2> QED
    BY <2>3, <2>4, TypeParts
<1>2. ShowsLastMove
  BY DEF StationInit, ShowsLastMove
<1>3. FlowsBounded
  <2> SUFFICES ASSUME NEW sn \in Units
               PROVE  Cardinality(FlowsOf(sn)) + Cardinality(Missing(sn)) <= Cardinality(Handlers) + 1
    BY DEF FlowsBounded
  <2>1. FlowsOf(sn) = {} /\ Missing(sn) = {}
    BY DEF StationInit, FlowsOf, Missing
  <2>2. Cardinality(FlowsOf(sn)) = 0 /\ Cardinality(Missing(sn)) = 0 /\ Cardinality(Handlers) \in Nat
    BY <2>1, StationAssumption, FS_EmptySet, FS_CardinalityType
  <2> QED
    BY <2>2
<1> QED
  BY <1>1, <1>2, <1>3 DEF StationInv

\* The inductive invariant of the stations.
THEOREM StationInvariant == StationSpec => []StationInv
  BY StationStart, StationStep, PTL DEF StationSpec

\* Flow rows, records, locks and requests keep their types, and records and
\* requests refer to flow rows that exist, of the unit they are about.
THEOREM StationTypes == StationSpec => []StationTypeOK
<1>1. StationInv => StationTypeOK
  BY DEF StationInv
<1> QED
  BY <1>1, StationInvariant, PTL

\* For any number of units, stations and requests at once, and whatever machines
\* report and concessions record in between, a flow row shows the station of the
\* last request that moved it, and a unit has at most one flow row more than
\* requests can find none at once.
THEOREM StationsTrailUnits == StationSpec => []StationTrail
<1>1. StationInv => StationTrail
  BY DEF StationInv, StationTrail, ShowsLastMove, FlowsBounded, Missing
<1> QED
  BY <1>1, StationInvariant, PTL

-----------------------------------------------------------------------------
(***************************************************************************)
(* SESSIONS                                                                *)
(***************************************************************************)

Working == {"begun", "read", "written"}

\* Requests that have a savepoint of their own on connection c.
Nested(c) == {u \in PlanUsers : /\ planRequest[u] # NoCall /\ planRequest[u].on = c
                                /\ planRequest[u].nested /\ planRequest[u].stage \in Working}

\* An open connection has a mark for each of its savepoints.
MarksKept == \A c \in Connections : connection[c].open => Cardinality(Nested(c)) <= Len(connection[c].marks)

\* What a request has read is a quantity, and it has no savepoint before it
\* has begun.
RequestsFit ==
    \A u \in PlanUsers : planRequest[u] # NoCall =>
        /\ planRequest[u].stage \in {"read", "written"} => planRequest[u].found \in 0 .. MaxPlanQty
        /\ planRequest[u].stage = "authorised" => ~ planRequest[u].nested

\* On SQLite each request has its own connection and transaction, of which one
\* is open at most, and sees in it what is committed and its own change.
OwnWork ==
    dialect = "sqlite" =>
        /\ \A u \in PlanUsers : planRequest[u] # NoCall =>
              planRequest[u].on = u /\ ~ planRequest[u].nested /\ connection[u].open
        /\ \A u \in PlanUsers : connection[u].active <=>
              planRequest[u] # NoCall /\ planRequest[u].stage \in Working
        /\ \A u, w \in PlanUsers : connection[u].active /\ connection[w].active => u = w
        /\ \A u \in PlanUsers : planRequest[u] # NoCall =>
              /\ planRequest[u].stage = "begun" => connection[u].row = planRow
              /\ planRequest[u].stage \in {"read", "written"} =>
                    planRequest[u].found = Quantity(planRow)
              /\ planRequest[u].stage = "written" =>
                    connection[u].row = Quantity(planRow) + planRequest[u].by

SessionsInv ==
    /\ SessionsTypeOK /\ MarksKept /\ RequestsFit /\ OwnWork
    /\ dialect = "sqlite" => AnsweredIsDurable

-----------------------------------------------------------------------------
(* What was promised by requests that have committed.                      *)

CommittedBy ==
    [u \in PlanUsers |-> IF u \in Committed THEN planRequest[u].by ELSE 0]
CommittedIsSum ==
    /\ SumFunction([u \in Committed |-> planRequest[u].by]) = SumFunctionOnSet(CommittedBy, PlanUsers)
    /\ \A u \in PlanUsers : CommittedBy[u] \in Int
    /\ SumFunctionOnSet(CommittedBy, PlanUsers) \in Int

\* What a request is.
LEMMA RequestFields ==
  ASSUME SessionsTypeOK, NEW u \in PlanUsers, planRequest[u] # NoCall
  PROVE  /\ planRequest[u] \in PlanRequest
         /\ planRequest[u].on \in Connections /\ planRequest[u].nested \in BOOLEAN
         /\ planRequest[u].by \in Int /\ planRequest[u].by \in Adjustments
         /\ planRequest[u].found \in PlanRow
         /\ planRequest[u].stage \in {"authorised", "begun", "read", "written", "done", "failed"}
  BY SessionsAssumption DEF SessionsTypeOK, PlanRequest

LEMMA CommittedAdds == SessionsTypeOK => CommittedIsSum
<1> SUFFICES ASSUME SessionsTypeOK PROVE CommittedIsSum
  OBVIOUS
<1> DEFINE f == [u \in Committed |-> planRequest[u].by]
<1>1. Committed \in SUBSET PlanUsers /\ \A u \in Committed : planRequest[u] # NoCall
  BY DEF Committed, At
<1>2. \A u \in Committed : planRequest[u].by \in Int
  BY <1>1, RequestFields
<1>3. /\ \A u \in Committed : f[u] \in Int /\ CommittedBy[u] = f[u]
      /\ \A u \in PlanUsers \ Committed : CommittedBy[u] = 0
      /\ \A u \in PlanUsers : CommittedBy[u] \in Int
  BY <1>1, <1>2 DEF CommittedBy
<1>4. SumFunction(f) = SumFunctionOnSet(f, Committed)
  BY DEF SumFunction
<1> HIDE DEF f
<1>5. SumFunctionOnSet(f, Committed) = SumFunctionOnSet(CommittedBy, PlanUsers)
  BY <1>1, <1>3, SessionsAssumption, SumRestrict
<1>6. SumFunctionOnSet(CommittedBy, PlanUsers) \in Int
  BY <1>3, SessionsAssumption, SumType
<1> QED
  BY <1>3, <1>4, <1>5, <1>6 DEF CommittedIsSum, f

\* One request changes what was promised by its own part.
LEMMA CommittedChanges ==
  ASSUME SessionsTypeOK, SessionsTypeOK', NEW u \in PlanUsers,
         \A w \in PlanUsers \ {u} : planRequest'[w] = planRequest[w]
  PROVE  SumFunction([w \in Committed |-> planRequest[w].by])'
           = SumFunction([w \in Committed |-> planRequest[w].by]) + CommittedBy'[u] - CommittedBy[u]
<1>1. CommittedIsSum /\ CommittedIsSum'
  BY CommittedAdds, PTL
<1>2. \A w \in PlanUsers \ {u} : CommittedBy'[w] = CommittedBy[w]
  BY DEF CommittedBy, Committed, At
<1>3. \A w \in PlanUsers : CommittedBy[w] \in Int /\ CommittedBy'[w] \in Int
  BY <1>1 DEF CommittedIsSum
<1>4. SumFunctionOnSet(CommittedBy', PlanUsers)
        = SumFunctionOnSet(CommittedBy, PlanUsers) + CommittedBy'[u] - CommittedBy[u]
  BY <1>2, <1>3, SessionsAssumption, SumChange
<1> QED
  BY <1>1, <1>4 DEF CommittedIsSum

\* Savepoints of a connection are finitely many.
LEMMA NestedFinite == \A c : IsFiniteSet(Nested(c)) /\ Cardinality(Nested(c)) \in Nat
<1> TAKE c
<1>1. Nested(c) \in SUBSET PlanUsers
  BY DEF Nested
<1>2. IsFiniteSet(Nested(c))
  BY <1>1, SessionsAssumption, FS_Subset
<1> QED
  BY <1>2, FS_CardinalityType

\* What a step of request u on its connection may do: the other requests and
\* connections stay, the savepoints of the connection and its marks go together.
Moves(u) ==
    /\ planRequest[u] # NoCall /\ planRequest'[u] # NoCall
    /\ planRequest'[u].on = planRequest[u].on /\ planRequest'[u].by = planRequest[u].by
    /\ \A w \in PlanUsers \ {u} : planRequest'[w] = planRequest[w]
    /\ \A c \in Connections : connection'[c].open = connection[c].open
    /\ \A c \in Connections \ {planRequest[u].on} : connection'[c] = connection[c]
    /\ UNCHANGED <<dialect, shared, promised>>
MarksMove(u, k) ==
       \/ /\ u \in Nested(k) /\ u \notin Nested(k)'
          /\ Len(connection[k].marks) > 0 => Len(connection'[k].marks) = Len(connection[k].marks) - 1
       \/ /\ u \notin Nested(k) /\ u \in Nested(k)'
          /\ Len(connection'[k].marks) = Len(connection[k].marks) + 1
       \/ /\ (u \in Nested(k)) = (u \in Nested(k)')
          /\ Len(connection'[k].marks) = Len(connection[k].marks)

LEMMA MarksStay ==
  ASSUME SessionsTypeOK, SessionsTypeOK', MarksKept, NEW u \in PlanUsers, Moves(u),
         \A k \in Connections : k = planRequest[u].on /\ connection[k].open => MarksMove(u, k)
  PROVE  MarksKept'
<1> SUFFICES ASSUME NEW c \in Connections, connection'[c].open
             PROVE  Cardinality(Nested(c)') <= Len(connection'[c].marks)
  BY DEF MarksKept
<1>1. \A w \in PlanUsers \ {u} : w \in Nested(c)' <=> w \in Nested(c)
  BY DEF Moves, Nested
<1>2. Nested(c) \subseteq PlanUsers /\ Nested(c)' \subseteq PlanUsers
  BY DEF Nested
<1>3. connection[c].open /\ Cardinality(Nested(c)) <= Len(connection[c].marks)
  BY DEF Moves, MarksKept
<1>4. IsFiniteSet(Nested(c)) /\ Cardinality(Nested(c)) \in Nat /\ Len(connection[c].marks) \in Nat
  BY NestedFinite DEF SessionsTypeOK, Connection
<1>5. CASE c # planRequest[u].on
  <2>1. u \notin Nested(c) /\ u \notin Nested(c)'
    BY <1>5 DEF Nested, Moves
  <2>2. Nested(c)' = Nested(c)
    BY <1>1, <1>2, <2>1
  <2> QED
    BY <1>3, <1>5, <2>2 DEF Moves
<1>6. CASE c = planRequest[u].on
  <2>0. MarksMove(u, c)
    BY <1>3, <1>6
  <2>1. CASE /\ u \in Nested(c) /\ u \notin Nested(c)'
             /\ Len(connection[c].marks) > 0 => Len(connection'[c].marks) = Len(connection[c].marks) - 1
    <3>1. Nested(c)' = Nested(c) \ {u}
      BY <1>1, <1>2, <2>1
    <3>2. Cardinality(Nested(c) \ {u}) = Cardinality(Nested(c)) - 1
      BY <1>4, <2>1, FS_RemoveElement
    <3>3. Cardinality(Nested(c) \ {u}) \in Nat
      BY <1>4, FS_RemoveElement, FS_CardinalityType
    <3> QED
      BY <1>3, <1>4, <2>1, <3>1, <3>2, <3>3
  <2>2. CASE /\ u \notin Nested(c) /\ u \in Nested(c)'
             /\ Len(connection'[c].marks) = Len(connection[c].marks) + 1
    <3>1. Nested(c)' = Nested(c) \cup {u}
      BY <1>1, <1>2, <2>2
    <3>2. Cardinality(Nested(c) \cup {u}) = Cardinality(Nested(c)) + 1
      BY <1>4, <2>2, FS_AddElement
    <3> QED
      BY <1>3, <1>4, <2>2, <3>1, <3>2
  <2>3. CASE /\ (u \in Nested(c)) = (u \in Nested(c)')
             /\ Len(connection'[c].marks) = Len(connection[c].marks)
    <3>0. \A w \in PlanUsers : w \in Nested(c)' <=> w \in Nested(c)
      BY <1>1, <2>3
    <3>1. Nested(c)' = Nested(c)
      BY <1>2, <3>0
    <3> QED
      BY <1>3, <2>3, <3>1
  <2> QED
    BY <1>3, <1>6, <2>0, <2>1, <2>2, <2>3 DEF MarksMove
<1> QED
  BY <1>5, <1>6

\* On SQLite the step of a request keeps the others' work when it changes what
\* is committed only from its own transaction, and opens one only when none is.
LEMMA OwnWorkStays ==
  ASSUME SessionsTypeOK, OwnWork, NEW u \in PlanUsers, Moves(u), dialect = "sqlite",
         ~ planRequest'[u].nested,
         connection'[u].active <=> planRequest'[u].stage \in Working,
         connection'[u].active => connection[u].active \/ \A c \in Connections : ~ connection[c].active,
         planRow' # planRow => connection[u].active,
         planRequest'[u].stage = "begun" => connection'[u].row = planRow',
         planRequest'[u].stage \in {"read", "written"} => planRequest'[u].found = Quantity(planRow'),
         planRequest'[u].stage = "written" =>
            connection'[u].row = Quantity(planRow') + planRequest[u].by
  PROVE  OwnWork'
<1>1. planRequest[u].on = u
  BY DEF OwnWork, Moves
<1>2. \A w \in PlanUsers \ {u} : planRequest'[w] = planRequest[w] /\ connection'[w] = connection[w]
  BY <1>1 DEF Moves, Connections
<1>3. \A w \in PlanUsers : planRequest'[w] # NoCall =>
        planRequest'[w].on = w /\ ~ planRequest'[w].nested /\ connection'[w].open
  BY <1>1, <1>2 DEF Moves, OwnWork, Connections
<1>4. \A w \in PlanUsers : connection'[w].active <=>
        planRequest'[w] # NoCall /\ planRequest'[w].stage \in Working
  BY <1>2 DEF Moves, OwnWork
<1>5. \A w, x \in PlanUsers : connection'[w].active /\ connection'[x].active => w = x
  BY <1>2 DEF OwnWork, Connections
<1>6. ASSUME NEW w \in PlanUsers, planRequest'[w] # NoCall
      PROVE  /\ planRequest'[w].stage = "begun" => connection'[w].row = planRow'
             /\ planRequest'[w].stage \in {"read", "written"} =>
                   planRequest'[w].found = Quantity(planRow')
             /\ planRequest'[w].stage = "written" =>
                   connection'[w].row = Quantity(planRow') + planRequest'[w].by
  <2>1. CASE w = u
    BY <2>1 DEF Moves
  <2>2. CASE w # u
    <3>1. planRequest'[w].stage \in Working => planRow' = planRow
      BY <1>2, <1>4, <1>6, <2>2 DEF OwnWork
    <3> QED
      BY <1>2, <1>6, <2>2, <3>1 DEF OwnWork, Working
  <2> QED
    BY <2>1, <2>2
<1>7. Quantity(planRow)' = Quantity(planRow')
  BY DEF Quantity
<1> QED
  BY <1>3, <1>4, <1>5, <1>6, <1>7 DEF OwnWork

\* The books of a step that commits nothing.
LEMMA NothingCommitted ==
  ASSUME SessionsTypeOK, SessionsTypeOK', AnsweredIsDurable, NEW u \in PlanUsers, Moves(u),
         planRow' = planRow, u \in Committed <=> u \in Committed'
  PROVE  AnsweredIsDurable'
<1>1. CommittedBy'[u] = CommittedBy[u]
  BY DEF Moves, CommittedBy
<1>2. SumFunction([w \in Committed |-> planRequest[w].by])'
        = SumFunction([w \in Committed |-> planRequest[w].by]) + CommittedBy'[u] - CommittedBy[u]
  BY CommittedChanges DEF Moves
<1>3. CommittedIsSum
  BY CommittedAdds
<1>4. SumFunction([w \in Committed |-> planRequest[w].by]) \in Int /\ CommittedBy[u] \in Int
  BY <1>3 DEF CommittedIsSum
<1>5. SumFunction([w \in Committed |-> planRequest[w].by])' = SumFunction([w \in Committed |-> planRequest[w].by])
  BY <1>1, <1>2, <1>4
<1> QED
  BY <1>5 DEF AnsweredIsDurable, Quantity, Moves

\* What a connection is.
LEMMA ConnectionFields ==
  ASSUME SessionsTypeOK, NEW c \in Connections
  PROVE  /\ connection[c] \in Connection
         /\ connection[c].open \in BOOLEAN /\ connection[c].active \in BOOLEAN
         /\ connection[c].row \in PlanRow /\ connection[c].marks \in Seq(PlanRow)
         /\ Len(connection[c].marks) \in Nat
  BY DEF SessionsTypeOK, Connection

\* The quantity of a row.
LEMMA QuantityType ==
  \A row \in PlanRow : Quantity(row) \in 0 .. MaxPlanQty /\ Quantity(row) \in PlanRow /\ Quantity(row) \in Int
                       /\ Quantity(Quantity(row)) = Quantity(row)
<1> TAKE row \in PlanRow
<1>1. CASE row = NoRow
  <2>1. Quantity(row) = 0 /\ 0 # NoRow
    BY <1>1, SessionsRowAssumption DEF Quantity
  <2>2. Quantity(0) = 0
    BY <2>1 DEF Quantity
  <2> QED
    BY <2>1, <2>2, SessionsAssumption DEF PlanRow
<1>2. CASE row # NoRow
  <2>1. Quantity(row) = row /\ row \in 0 .. MaxPlanQty
    BY <1>2 DEF Quantity, PlanRow
  <2> QED
    BY <2>1, SessionsAssumption DEF PlanRow
<1> QED
  BY <1>1, <1>2

\* A step of a request keeps the invariant if it keeps the marks, what was read
\* and, on SQLite, the request's own work and the books.
LEMMA WorkMoves ==
  ASSUME SessionsInv, SessionsTypeOK', NEW u \in PlanUsers, Moves(u),
         \A k \in Connections : k = planRequest[u].on /\ connection[k].open => MarksMove(u, k),
         planRequest'[u].stage \in {"read", "written"} => planRequest'[u].found \in 0 .. MaxPlanQty,
         planRequest'[u].stage # "authorised",
         dialect = "sqlite" => OwnWork' /\ AnsweredIsDurable'
  PROVE  SessionsInv'
<1>1. MarksKept'
  BY MarksStay DEF SessionsInv
<1>2. RequestsFit'
  BY DEF SessionsInv, RequestsFit, Moves
<1>3. OwnWork' /\ (dialect' = "sqlite" => AnsweredIsDurable')
  BY DEF Moves, OwnWork
<1> QED
  BY <1>1, <1>2, <1>3 DEF SessionsInv

-----------------------------------------------------------------------------
(* The steps.                                                              *)

LEMMA BeginWorkStep ==
  ASSUME SessionsInv, NEW u \in PlanUsers, BeginWork(u) PROVE SessionsInv'
<1> DEFINE k == planRequest[u].on
           conn == [[connection[k] EXCEPT !.active = TRUE] EXCEPT !.row = planRow]
<1>1. SessionsTypeOK /\ MarksKept /\ RequestsFit /\ OwnWork
  BY DEF SessionsInv
<1>2. /\ planRequest[u] # NoCall /\ planRequest[u].stage = "authorised"
      /\ planRequest[u] \in PlanRequest /\ k \in Connections
      /\ ~ connection[k].active /\ \A c \in Connections : ~ connection[c].active
      /\ ~ planRequest[u].nested
      /\ UNCHANGED <<dialect, planRow, shared, promised>>
  BY <1>1, RequestFields DEF BeginWork, At, Of, RequestsFit
<1>3. /\ connection' = [connection EXCEPT ![k] = conn]
      /\ planRequest' = [planRequest EXCEPT ![u].stage = "begun"]
  BY DEF BeginWork, Step
<1>4. /\ conn \in Connection /\ conn.open = connection[k].open /\ conn.active
      /\ conn.row = planRow /\ conn.marks = connection[k].marks
  BY <1>1, <1>2, ConnectionFields DEF Connection, SessionsTypeOK
<1> HIDE DEF conn
<1>5. /\ connection' \in [Connections -> Connection] /\ connection'[k] = conn
      /\ \A c \in Connections \ {k} : connection'[c] = connection[c]
  BY <1>1, <1>2, <1>3, <1>4 DEF SessionsTypeOK
<1>6. /\ planRequest' \in [PlanUsers -> PlanRequest \cup {NoCall}]
      /\ \A w \in PlanUsers \ {u} : planRequest'[w] = planRequest[w]
      /\ planRequest'[u] \in PlanRequest /\ planRequest'[u].stage = "begun"
      /\ planRequest'[u].on = k /\ planRequest'[u].by = planRequest[u].by
      /\ planRequest'[u].nested = planRequest[u].nested
      /\ planRequest'[u].found = planRequest[u].found
  BY <1>1, <1>2, <1>3 DEF SessionsTypeOK, PlanRequest
<1>7. SessionsTypeOK' /\ Moves(u)
  BY <1>1, <1>2, <1>4, <1>5, <1>6, SessionsRowAssumption DEF SessionsTypeOK, Moves
<1>8. dialect = "sqlite" => OwnWork' /\ AnsweredIsDurable'
  <2> SUFFICES ASSUME dialect = "sqlite" PROVE OwnWork' /\ AnsweredIsDurable'
    OBVIOUS
  <2>1. k = u /\ ~ planRequest[u].nested /\ AnsweredIsDurable
    BY <1>1, <1>2 DEF OwnWork, SessionsInv
  <2>2. OwnWork'
    BY <1>1, <1>2, <1>4, <1>5, <1>6, <1>7, <2>1, OwnWorkStays DEF Working
  <2>3. u \notin Committed /\ u \notin Committed'
    BY <1>2, <1>6 DEF Committed, At
  <2> QED
    BY <1>1, <1>2, <1>7, <2>1, <2>2, <2>3, NothingCommitted
<1>9. \A c \in Connections : c = planRequest[u].on /\ connection[c].open => MarksMove(u, c)
  <2> SUFFICES ASSUME NEW c \in Connections, c = k PROVE MarksMove(u, c)
    OBVIOUS
  <2>1. u \in Nested(c)' => planRequest'[u].nested
    BY DEF Nested
  <2> QED
    BY <1>2, <1>4, <1>5, <1>6, <2>1 DEF MarksMove, Nested, Working
<1> QED
  BY <1>6, <1>7, <1>8, <1>9, WorkMoves
LEMMA BeginNestedStep ==
  ASSUME SessionsInv, NEW u \in PlanUsers, BeginNested(u) PROVE SessionsInv'
<1> DEFINE k == planRequest[u].on
           conn == [connection[k] EXCEPT !.marks = Append(@, connection[k].row)]
<1>1. SessionsTypeOK /\ MarksKept /\ RequestsFit /\ OwnWork
  BY DEF SessionsInv
<1>2. /\ planRequest[u] # NoCall /\ planRequest[u].stage = "authorised"
      /\ planRequest[u] \in PlanRequest /\ k \in Connections
      /\ connection[k].active /\ ~ planRequest[u].nested
      /\ UNCHANGED <<dialect, planRow, shared, promised>>
  BY <1>1, RequestFields DEF BeginNested, At, Of, RequestsFit
<1>3. /\ connection' = [connection EXCEPT ![k] = conn]
      /\ planRequest' = [planRequest EXCEPT ![u] = [[planRequest[u] EXCEPT !.stage = "begun"] EXCEPT !.nested = TRUE]]
  <2>1. /\ connection' = [connection EXCEPT ![k].marks = Append(@, connection[k].row)]
        /\ planRequest' = [planRequest EXCEPT ![u].stage = "begun", ![u].nested = TRUE]
    BY DEF BeginNested, Of
  <2>2. connection' = [connection EXCEPT ![k] = conn]
    BY <2>1
  <2>3. planRequest' = [planRequest EXCEPT ![u] = [[planRequest[u] EXCEPT !.stage = "begun"] EXCEPT !.nested = TRUE]]
    BY <1>1, <1>2, <2>1 DEF SessionsTypeOK, PlanRequest
  <2> QED
    BY <2>2, <2>3
<1>4. /\ conn \in Connection /\ conn.open = connection[k].open /\ conn.active = connection[k].active
      /\ conn.row = connection[k].row /\ Len(conn.marks) = Len(connection[k].marks) + 1
  <2>1. /\ connection[k] \in Connection /\ connection[k].row \in PlanRow
        /\ connection[k].marks \in Seq(PlanRow)
    BY <1>1, <1>2, ConnectionFields
  <2>2. /\ Append(connection[k].marks, connection[k].row) \in Seq(PlanRow)
        /\ Len(Append(connection[k].marks, connection[k].row)) = Len(connection[k].marks) + 1
    BY <2>1
  <2> QED
    BY <2>1, <2>2 DEF Connection
<1> HIDE DEF conn
<1>5. /\ connection' \in [Connections -> Connection] /\ connection'[k] = conn
      /\ \A c \in Connections \ {k} : connection'[c] = connection[c]
  BY <1>1, <1>2, <1>3, <1>4 DEF SessionsTypeOK
<1>6. /\ planRequest' \in [PlanUsers -> PlanRequest \cup {NoCall}]
      /\ \A w \in PlanUsers \ {u} : planRequest'[w] = planRequest[w]
      /\ planRequest'[u] \in PlanRequest /\ planRequest'[u].stage = "begun"
      /\ planRequest'[u].on = k /\ planRequest'[u].by = planRequest[u].by
      /\ planRequest'[u].nested
      /\ planRequest'[u].found = planRequest[u].found
  BY <1>1, <1>2, <1>3 DEF SessionsTypeOK, PlanRequest
<1>7. SessionsTypeOK' /\ Moves(u)
  BY <1>1, <1>2, <1>4, <1>5, <1>6, SessionsRowAssumption DEF SessionsTypeOK, Moves
<1>8. dialect = "sqlite" => OwnWork' /\ AnsweredIsDurable'
  <2>1. dialect # "sqlite"
    <3> SUFFICES ASSUME dialect = "sqlite" PROVE FALSE
      OBVIOUS
    <3>1. k = u
      BY <1>1, <1>2 DEF OwnWork
    <3> QED
      BY <1>1, <1>2, <3>1 DEF OwnWork, Working
  <2> QED
    BY <2>1
<1>9. \A c \in Connections : c = planRequest[u].on /\ connection[c].open => MarksMove(u, c)
  <2> SUFFICES ASSUME NEW c \in Connections, c = k, connection[k].open PROVE MarksMove(u, c)
    OBVIOUS
  <2>1. u \notin Nested(c) /\ u \in Nested(c)'
    BY <1>2, <1>6, SessionsRowAssumption DEF Nested, Working
  <2> QED
    BY <1>4, <1>5, <2>1 DEF MarksMove
<1> QED
  BY <1>6, <1>7, <1>8, <1>9, WorkMoves

LEMMA ReadPlanRowStep ==
  ASSUME SessionsInv, NEW u \in PlanUsers, ReadPlanRow(u) PROVE SessionsInv'
<1> DEFINE k == planRequest[u].on
           q == Quantity(connection[k].row)
           conn == [connection[k] EXCEPT !.row = q]
<1>1. SessionsTypeOK /\ MarksKept /\ RequestsFit /\ OwnWork
  BY DEF SessionsInv
<1>2. /\ planRequest[u] # NoCall /\ planRequest[u].stage = "begun"
      /\ planRequest[u] \in PlanRequest /\ k \in Connections
      /\ UNCHANGED <<dialect, planRow, shared, promised>>
  BY <1>1, RequestFields DEF ReadPlanRow, At, Of, RequestsFit
<1>3. /\ connection' = [connection EXCEPT ![k] = conn]
      /\ planRequest' = [planRequest EXCEPT ![u] = [[planRequest[u] EXCEPT !.stage = "read"] EXCEPT !.found = q]]
  <2>1. /\ connection' = [connection EXCEPT ![k].row = Quantity(@)]
        /\ planRequest' = [planRequest EXCEPT ![u].stage = "read", ![u].found = q]
    BY DEF ReadPlanRow, Of
  <2>2. connection' = [connection EXCEPT ![k] = conn]
    BY <2>1
  <2>3. planRequest' = [planRequest EXCEPT ![u] = [[planRequest[u] EXCEPT !.stage = "read"] EXCEPT !.found = q]]
    BY <1>1, <1>2, <2>1 DEF SessionsTypeOK, PlanRequest
  <2> QED
    BY <2>2, <2>3
<1>q. q \in PlanRow /\ q \in 0 .. MaxPlanQty
  BY <1>1, <1>2, ConnectionFields, QuantityType
<1> HIDE DEF q
<1>4. /\ conn \in Connection /\ conn.open = connection[k].open /\ conn.active = connection[k].active
      /\ conn.row = q /\ conn.marks = connection[k].marks
  BY <1>1, <1>2, <1>q, ConnectionFields DEF Connection
<1> HIDE DEF conn
<1>5. /\ connection' \in [Connections -> Connection] /\ connection'[k] = conn
      /\ \A c \in Connections \ {k} : connection'[c] = connection[c]
  BY <1>1, <1>2, <1>3, <1>4 DEF SessionsTypeOK
<1>6. /\ planRequest' \in [PlanUsers -> PlanRequest \cup {NoCall}]
      /\ \A w \in PlanUsers \ {u} : planRequest'[w] = planRequest[w]
      /\ planRequest'[u] \in PlanRequest /\ planRequest'[u].stage = "read"
      /\ planRequest'[u].on = k /\ planRequest'[u].by = planRequest[u].by
      /\ planRequest'[u].nested = planRequest[u].nested
      /\ planRequest'[u].found = q /\ q \in 0 .. MaxPlanQty
  BY <1>1, <1>2, <1>3, <1>q DEF SessionsTypeOK, PlanRequest
<1>7. SessionsTypeOK' /\ Moves(u)
  BY <1>1, <1>2, <1>4, <1>5, <1>6, SessionsRowAssumption DEF SessionsTypeOK, Moves
<1>8. dialect = "sqlite" => OwnWork' /\ AnsweredIsDurable'
  <2> SUFFICES ASSUME dialect = "sqlite" PROVE OwnWork' /\ AnsweredIsDurable'
    OBVIOUS
  <2>1. k = u /\ ~ planRequest[u].nested /\ AnsweredIsDurable /\ connection[u].active
    BY <1>1, <1>2 DEF OwnWork, SessionsInv, Working
  <2>a. q = Quantity(planRow)
    BY <1>1, <1>2, <2>1 DEF OwnWork, q
  <2>2. OwnWork'
    BY <1>1, <1>2, <1>4, <1>5, <1>6, <1>7, <2>1, <2>a, OwnWorkStays DEF Working
  <2>3. u \notin Committed /\ u \notin Committed'
    BY <1>2, <1>6 DEF Committed, At
  <2> QED
    BY <1>1, <1>2, <1>7, <2>1, <2>2, <2>3, NothingCommitted
<1>9. \A c \in Connections : c = planRequest[u].on /\ connection[c].open => MarksMove(u, c)
  <2> SUFFICES ASSUME NEW c \in Connections, c = k, connection[k].open PROVE MarksMove(u, c)
    OBVIOUS
  <2>0. planRequest'[u] # NoCall
    BY <1>7 DEF Moves
  <2>1. (u \in Nested(c)) = (u \in Nested(c)')
    <3>1. u \in Nested(c) <=> planRequest[u].nested
      BY <1>2 DEF Nested, Working
    <3>2. u \in Nested(c)' <=> planRequest[u].nested
      BY <1>6, <2>0 DEF Nested, Working
    <3> QED
      BY <3>1, <3>2
  <2> QED
    BY <1>4, <1>5, <2>1 DEF MarksMove
<1> QED
  BY <1>6, <1>7, <1>8, <1>9, WorkMoves

LEMMA WritePlanRowStep ==
  ASSUME SessionsInv, NEW u \in PlanUsers, WritePlanRow(u) PROVE SessionsInv'
<1> DEFINE k == planRequest[u].on
           q == planRequest[u].found + planRequest[u].by
           conn == [connection[k] EXCEPT !.row = q]
<1>1. SessionsTypeOK /\ MarksKept /\ RequestsFit /\ OwnWork
  BY DEF SessionsInv
<1>2. /\ planRequest[u] # NoCall /\ planRequest[u].stage = "read"
      /\ planRequest[u] \in PlanRequest /\ k \in Connections
      /\ planRequest[u].found \in 0 .. MaxPlanQty /\ planRequest[u].by \in Int
      /\ Permitted(planRequest[u].found, planRequest[u].by)
      /\ UNCHANGED <<dialect, planRow, shared, promised>>
  BY <1>1, RequestFields DEF WritePlanRow, At, Of, RequestsFit
<1>3. /\ connection' = [connection EXCEPT ![k] = conn]
      /\ planRequest' = [planRequest EXCEPT ![u].stage = "written"]
  BY DEF WritePlanRow, Step
<1>q. q \in PlanRow
  BY <1>2, SessionsAssumption DEF Permitted, PlanRow
<1> HIDE DEF q
<1>4. /\ conn \in Connection /\ conn.open = connection[k].open /\ conn.active = connection[k].active
      /\ conn.row = q /\ conn.marks = connection[k].marks
  BY <1>1, <1>2, <1>q, ConnectionFields DEF Connection
<1> HIDE DEF conn
<1>5. /\ connection' \in [Connections -> Connection] /\ connection'[k] = conn
      /\ \A c \in Connections \ {k} : connection'[c] = connection[c]
  BY <1>1, <1>2, <1>3, <1>4 DEF SessionsTypeOK
<1>6. /\ planRequest' \in [PlanUsers -> PlanRequest \cup {NoCall}]
      /\ \A w \in PlanUsers \ {u} : planRequest'[w] = planRequest[w]
      /\ planRequest'[u] \in PlanRequest /\ planRequest'[u].stage = "written"
      /\ planRequest'[u].on = k /\ planRequest'[u].by = planRequest[u].by
      /\ planRequest'[u].nested = planRequest[u].nested
      /\ planRequest'[u].found = planRequest[u].found /\ planRequest'[u].found \in 0 .. MaxPlanQty
  BY <1>1, <1>2, <1>3 DEF SessionsTypeOK, PlanRequest
<1>7. SessionsTypeOK' /\ Moves(u)
  BY <1>1, <1>2, <1>4, <1>5, <1>6, SessionsRowAssumption DEF SessionsTypeOK, Moves
<1>8. dialect = "sqlite" => OwnWork' /\ AnsweredIsDurable'
  <2> SUFFICES ASSUME dialect = "sqlite" PROVE OwnWork' /\ AnsweredIsDurable'
    OBVIOUS
  <2>1. k = u /\ ~ planRequest[u].nested /\ AnsweredIsDurable /\ connection[u].active
    BY <1>1, <1>2 DEF OwnWork, SessionsInv, Working
  <2>a. planRequest[u].found = Quantity(planRow) /\ q = Quantity(planRow) + planRequest[u].by
    BY <1>1, <1>2, <2>1 DEF OwnWork, q
  <2>2. OwnWork'
    BY <1>1, <1>2, <1>4, <1>5, <1>6, <1>7, <2>1, <2>a, OwnWorkStays DEF Working
  <2>3. u \notin Committed /\ u \notin Committed'
    BY <1>2, <1>6 DEF Committed, At
  <2> QED
    BY <1>1, <1>2, <1>7, <2>1, <2>2, <2>3, NothingCommitted
<1>9. \A c \in Connections : c = planRequest[u].on /\ connection[c].open => MarksMove(u, c)
  <2> SUFFICES ASSUME NEW c \in Connections, c = k, connection[k].open PROVE MarksMove(u, c)
    OBVIOUS
  <2>0. planRequest'[u] # NoCall
    BY <1>7 DEF Moves
  <2>1. (u \in Nested(c)) = (u \in Nested(c)')
    <3>1. u \in Nested(c) <=> planRequest[u].nested
      BY <1>2 DEF Nested, Working
    <3>2. u \in Nested(c)' <=> planRequest[u].nested
      BY <1>6, <2>0 DEF Nested, Working
    <3> QED
      BY <3>1, <3>2
  <2> QED
    BY <1>4, <1>5, <2>1 DEF MarksMove
<1> QED
  BY <1>6, <1>7, <1>8, <1>9, WorkMoves

\* What ends a nested piece of work: the latest mark goes.
LEMMA LatestMark ==
  ASSUME SessionsInv, NEW u \in PlanUsers, planRequest[u] # NoCall, planRequest[u].nested,
         planRequest[u].stage \in Working, connection[planRequest[u].on].open
  PROVE  /\ Len(connection[planRequest[u].on].marks) > 0
         /\ connection[planRequest[u].on].marks \in Seq(PlanRow)
         /\ connection[planRequest[u].on].marks[Len(connection[planRequest[u].on].marks)] \in PlanRow
         /\ SubSeq(connection[planRequest[u].on].marks, 1, Len(connection[planRequest[u].on].marks) - 1)
              \in Seq(PlanRow)
         /\ Len(SubSeq(connection[planRequest[u].on].marks, 1, Len(connection[planRequest[u].on].marks) - 1))
              = Len(connection[planRequest[u].on].marks) - 1
<1> DEFINE k == planRequest[u].on
           marks == connection[k].marks
<1>1. k \in Connections /\ marks \in Seq(PlanRow) /\ Len(marks) \in Nat
  BY RequestFields, ConnectionFields DEF SessionsInv
<1>2. u \in Nested(k)
  BY DEF Nested
<1>3. IsFiniteSet(Nested(k)) /\ Cardinality(Nested(k)) \in Nat /\ Cardinality(Nested(k)) <= Len(marks)
  BY <1>1, NestedFinite DEF SessionsInv, MarksKept
<1>4. Cardinality(Nested(k)) > 0
  BY <1>2, <1>3, FS_EmptySet
<1> HIDE DEF marks, k
<1>5. Len(marks) > 0
  BY <1>1, <1>3, <1>4
<1>6. marks[Len(marks)] \in PlanRow
  <2>1. Len(marks) \in 1 .. Len(marks)
    BY <1>1, <1>5
  <2> QED
    BY <1>1, <2>1
<1>7. Len(marks) - 1 \in 0 .. Len(marks) /\ Len(marks) - 1 <= Len(marks)
  BY <1>1, <1>5
<1>8. /\ SubSeq(marks, 1, Len(marks) - 1) \in Seq(PlanRow)
      /\ Len(SubSeq(marks, 1, Len(marks) - 1)) = Len(marks) - 1
  <2>1. \A i \in 1 .. Len(marks) - 1 : i \in 1 .. Len(marks)
    BY <1>1, <1>5
  <2>2. \A i \in 1 .. Len(marks) : marks[i] \in PlanRow
    BY <1>1
  <2>3. SubSeq(marks, 1, Len(marks) - 1) \in Seq(PlanRow)
    BY <1>1, <1>5, <2>1, <2>2
  <2>4. \A n \in Nat : Len(SubSeq(marks, 1, n)) = n
    OBVIOUS
  <2>5. Len(SubSeq(marks, 1, Len(marks) - 1)) = Len(marks) - 1
    <3>1. Len(marks) - 1 \in Nat
      BY <1>1, <1>5
    <3> QED
      BY <3>1, <2>4
  <2> QED
    BY <2>3, <2>5
<1> QED
  BY <1>1, <1>5, <1>6, <1>8 DEF marks, k

\* Work under a savepoint ends with the savepoint.
LEMMA EndNested ==
  ASSUME SessionsInv, NEW u \in PlanUsers, planRequest[u] # NoCall, planRequest[u].nested,
         planRequest[u].stage \in Working, connection[planRequest[u].on].open,
         NEW stage \in {"done", "failed"}, Step(u, stage),
         NEW row \in PlanRow,
         connection' = [connection EXCEPT ![planRequest[u].on] =
            [[connection[planRequest[u].on] EXCEPT !.row = row] EXCEPT !.marks =
                SubSeq(connection[planRequest[u].on].marks, 1, Len(connection[planRequest[u].on].marks) - 1)]],
         UNCHANGED <<dialect, planRow, shared, promised>>
  PROVE  SessionsInv'
<1> DEFINE k == planRequest[u].on
           marks == connection[k].marks
           rest == SubSeq(marks, 1, Len(marks) - 1)
           conn == [[connection[k] EXCEPT !.row = row] EXCEPT !.marks = rest]
<1>1. SessionsTypeOK /\ MarksKept /\ RequestsFit /\ OwnWork
  BY DEF SessionsInv
<1>2. /\ planRequest[u] \in PlanRequest /\ k \in Connections
      /\ planRequest[u] # NoCall /\ planRequest[u].nested /\ planRequest[u].stage \in Working
      /\ UNCHANGED <<dialect, planRow, shared, promised>>
  BY <1>1, RequestFields
<1>3. /\ connection' = [connection EXCEPT ![k] = conn]
      /\ planRequest' = [planRequest EXCEPT ![u].stage = stage]
  BY DEF Step
<1>m. rest \in Seq(PlanRow) /\ Len(rest) = Len(marks) - 1
  BY LatestMark
<1> HIDE DEF rest
<1>4. /\ conn \in Connection /\ conn.open = connection[k].open /\ conn.active = connection[k].active
      /\ conn.row = row /\ conn.marks = rest
  BY <1>1, <1>2, <1>m, ConnectionFields DEF Connection
<1> HIDE DEF conn
<1>5. /\ connection' \in [Connections -> Connection] /\ connection'[k] = conn
      /\ \A c \in Connections \ {k} : connection'[c] = connection[c]
  BY <1>1, <1>2, <1>3, <1>4 DEF SessionsTypeOK
<1>6. /\ planRequest' \in [PlanUsers -> PlanRequest \cup {NoCall}]
      /\ \A w \in PlanUsers \ {u} : planRequest'[w] = planRequest[w]
      /\ planRequest'[u] \in PlanRequest /\ planRequest'[u].stage = stage
      /\ planRequest'[u].on = k /\ planRequest'[u].by = planRequest[u].by
      /\ planRequest'[u].nested = planRequest[u].nested
      /\ planRequest'[u].found = planRequest[u].found
  BY <1>1, <1>2, <1>3 DEF SessionsTypeOK, PlanRequest
<1>7. SessionsTypeOK' /\ Moves(u)
  BY <1>1, <1>2, <1>4, <1>5, <1>6, SessionsRowAssumption DEF SessionsTypeOK, Moves
<1>8. dialect = "sqlite" => OwnWork' /\ AnsweredIsDurable'
  <2>1. dialect # "sqlite"
    BY <1>1, <1>2 DEF OwnWork
  <2> QED
    BY <2>1
<1>9. \A c \in Connections : c = planRequest[u].on /\ connection[c].open => MarksMove(u, c)
  <2> SUFFICES ASSUME NEW c \in Connections, c = k, connection[k].open PROVE MarksMove(u, c)
    OBVIOUS
  <2>1. u \in Nested(c) /\ u \notin Nested(c)'
    BY <1>2, <1>6 DEF Nested, Working
  <2> QED
    BY <1>m, <1>4, <1>5, <2>1 DEF MarksMove
<1> QED
  BY <1>6, <1>7, <1>8, <1>9, WorkMoves

LEMMA EndWorkStep ==
  ASSUME SessionsInv, NEW u \in PlanUsers, EndWork(u) PROVE SessionsInv'
<1> DEFINE k == planRequest[u].on
           conn == [connection[k] EXCEPT !.active = FALSE]
<1>1. SessionsTypeOK /\ MarksKept /\ RequestsFit /\ OwnWork
  BY DEF SessionsInv
<1>2. /\ planRequest[u] # NoCall /\ planRequest[u].stage = "written"
      /\ planRequest[u] \in PlanRequest /\ k \in Connections /\ connection[k].open
      /\ UNCHANGED <<dialect, shared, promised>> /\ Step(u, "done")
  BY <1>1, RequestFields DEF EndWork, At, Of
<1>c. CASE planRequest[u].nested
  <2> DEFINE row == connection[k].row
             rest == SubSeq(connection[k].marks, 1, Len(connection[k].marks) - 1)
  <2>1. connection' = [connection EXCEPT ![k].marks = rest] /\ planRow' = planRow
    BY <1>c DEF EndWork, Of
  <2>2. row \in PlanRow /\ connection[k] \in Connection
    BY <1>1, <1>2, ConnectionFields
  <2>3. [[connection[k] EXCEPT !.row = row] EXCEPT !.marks = rest] = [connection[k] EXCEPT !.marks = rest]
    BY <2>2 DEF Connection
  <2>4. connection' = [connection EXCEPT ![k] = [[connection[k] EXCEPT !.row = row] EXCEPT !.marks = rest]]
    BY <2>1, <2>3
  <2>5. "done" \in {"done", "failed"} /\ planRequest[u].stage \in Working
    BY <1>2 DEF Working
  <2> QED
    BY <1>2, <1>c, <2>1, <2>2, <2>4, <2>5, EndNested
<1>d. CASE ~ planRequest[u].nested
  <2>3. /\ connection' = [connection EXCEPT ![k] = conn] /\ planRow' = connection[k].row
        /\ planRequest' = [planRequest EXCEPT ![u].stage = "done"]
    BY <1>d DEF EndWork, Step, Of
  <2>4. /\ conn \in Connection /\ conn.open = connection[k].open /\ ~ conn.active
        /\ conn.row = connection[k].row /\ conn.marks = connection[k].marks
        /\ connection[k].row \in PlanRow
    BY <1>1, <1>2, ConnectionFields DEF Connection
  <2> HIDE DEF conn
  <2>5. /\ connection' \in [Connections -> Connection] /\ connection'[k] = conn
        /\ \A c \in Connections \ {k} : connection'[c] = connection[c]
    BY <1>1, <1>2, <2>3, <2>4 DEF SessionsTypeOK
  <2>6. /\ planRequest' \in [PlanUsers -> PlanRequest \cup {NoCall}]
        /\ \A w \in PlanUsers \ {u} : planRequest'[w] = planRequest[w]
        /\ planRequest'[u] \in PlanRequest /\ planRequest'[u].stage = "done"
        /\ planRequest'[u].on = k /\ planRequest'[u].by = planRequest[u].by
        /\ ~ planRequest'[u].nested
    BY <1>1, <1>2, <1>d, <2>3 DEF SessionsTypeOK, PlanRequest
  <2>7. SessionsTypeOK' /\ Moves(u)
    BY <1>1, <1>2, <2>3, <2>4, <2>5, <2>6, SessionsRowAssumption DEF SessionsTypeOK, Moves
  <2>8. ASSUME dialect = "sqlite" PROVE OwnWork' /\ AnsweredIsDurable'
    <3>1. k = u /\ connection[u].active /\ AnsweredIsDurable
      BY <1>1, <1>2, <2>8 DEF OwnWork, SessionsInv, Working
    <3>2. OwnWork'
      BY <1>1, <2>4, <2>5, <2>6, <2>7, <2>8, <3>1, OwnWorkStays DEF Working
    <3>3. planRow' = Quantity(planRow) + planRequest[u].by
      BY <1>1, <1>2, <2>3, <2>8, <3>1 DEF OwnWork
    <3>4. Quantity(planRow) \in Int /\ planRequest[u].by \in Int
      BY <1>1, <1>2, QuantityType, RequestFields DEF SessionsTypeOK
    <3>5. Quantity(planRow)' = Quantity(planRow) + planRequest[u].by
      BY <3>3, <3>4, SessionsRowAssumption DEF Quantity
    <3>6. CommittedBy[u] = 0 /\ CommittedBy'[u] = planRequest[u].by
      BY <1>2, <2>6, <2>7 DEF CommittedBy, Committed, At, Moves
    <3>7. SumFunction([w \in Committed |-> planRequest[w].by])'
            = SumFunction([w \in Committed |-> planRequest[w].by]) + CommittedBy'[u] - CommittedBy[u]
      BY <1>1, <2>6, <2>7, CommittedChanges
    <3>8. SumFunction([w \in Committed |-> planRequest[w].by]) \in Int
      BY <1>1, CommittedAdds DEF CommittedIsSum
    <3>9. SumFunction([w \in Committed |-> planRequest[w].by])'
            = SumFunction([w \in Committed |-> planRequest[w].by]) + planRequest[u].by
      BY <3>4, <3>6, <3>7, <3>8
    <3>10. AnsweredIsDurable'
      <4>1. promised \in Int /\ promised' = promised
        BY <1>1, <1>2 DEF SessionsTypeOK
      <4>2. Quantity(planRow) = promised + SumFunction([w \in Committed |-> planRequest[w].by])
        BY <3>1 DEF AnsweredIsDurable
      <4> DEFINE before == SumFunction([w \in Committed |-> planRequest[w].by])
      <4>3. before \in Int /\ Quantity(planRow) = promised + before
        BY <3>8, <4>2
      <4> HIDE DEF before
      <4>4. Quantity(planRow) + planRequest[u].by = promised + (before + planRequest[u].by)
        BY <3>4, <4>1, <4>3
      <4> QED
        BY <3>5, <3>9, <4>1, <4>4 DEF AnsweredIsDurable, before
    <3> QED
      BY <3>2, <3>10
  <2>9. \A c \in Connections : c = planRequest[u].on /\ connection[c].open => MarksMove(u, c)
    <3> SUFFICES ASSUME NEW c \in Connections, c = k, connection[k].open PROVE MarksMove(u, c)
      OBVIOUS
    <3>1. u \notin Nested(c)
      BY <1>d DEF Nested
    <3>2. u \notin Nested(c)'
      BY <2>6 DEF Nested
    <3> QED
      BY <2>4, <2>5, <3>1, <3>2 DEF MarksMove
  <2> QED
    BY <2>6, <2>7, <2>8, <2>9, WorkMoves
<1> QED
  BY <1>c, <1>d

LEMMA FailWorkStep ==
  ASSUME SessionsInv, NEW u \in PlanUsers, FailWork(u) PROVE SessionsInv'
<1> DEFINE k == planRequest[u].on
           marks == connection[k].marks
           conn == IF planRequest[u].stage = "authorised" THEN connection[k]
                   ELSE [connection[k] EXCEPT !.active = FALSE]
<1>1. SessionsTypeOK /\ MarksKept /\ RequestsFit /\ OwnWork
  BY DEF SessionsInv
<1>2. /\ planRequest[u] # NoCall
      /\ planRequest[u].stage = "authorised" \/ planRequest[u].stage \in Working
      /\ planRequest[u] \in PlanRequest /\ k \in Connections /\ connection[k].open
      /\ UNCHANGED <<dialect, planRow, shared, promised>> /\ Step(u, "failed")
      /\ planRequest[u].stage = "authorised" => ~ planRequest[u].nested
  BY <1>1, RequestFields DEF FailWork, At, Of, Working, RequestsFit
<1>c. CASE planRequest[u].nested
  <2> DEFINE row == marks[Len(marks)]
             rest == SubSeq(marks, 1, Len(marks) - 1)
  <2>0. planRequest[u].stage \in Working /\ planRequest[u].stage # "authorised"
    BY <1>2, <1>c DEF Working
  <2>1. connection' = [connection EXCEPT ![k].row = row, ![k].marks = rest]
    BY <1>c, <2>0 DEF FailWork, At, Of
  <2>2. row \in PlanRow /\ connection[k] \in Connection
    BY <1>1, <1>2, <1>c, <2>0, LatestMark, ConnectionFields
  <2> HIDE DEF row, rest
  <2>4. connection' = [connection EXCEPT ![k] = [[connection[k] EXCEPT !.row = row] EXCEPT !.marks = rest]]
    BY <1>1, <1>2, <2>1, <2>2 DEF SessionsTypeOK, Connection
  <2>5. "failed" \in {"done", "failed"}
    OBVIOUS
  <2> QED
    BY <1>2, <1>c, <2>0, <2>2, <2>4, <2>5, EndNested DEF rest
<1>d. CASE ~ planRequest[u].nested
  <2>3. /\ connection' = [connection EXCEPT ![k] = conn]
        /\ planRequest' = [planRequest EXCEPT ![u].stage = "failed"]
    <3>1. planRequest' = [planRequest EXCEPT ![u].stage = "failed"]
      BY <1>2 DEF Step
    <3>2. CASE planRequest[u].stage = "authorised"
      BY <1>1, <1>2, <3>1, <3>2 DEF FailWork, At, SessionsTypeOK
    <3>3. CASE planRequest[u].stage # "authorised"
      BY <1>d, <3>1, <3>3 DEF FailWork, At
    <3> QED
      BY <3>2, <3>3
  <2>4. /\ conn \in Connection /\ conn.open = connection[k].open
        /\ conn.active => connection[k].active /\ planRequest[u].stage = "authorised"
        /\ conn.row = connection[k].row /\ conn.marks = connection[k].marks
    BY <1>1, <1>2, ConnectionFields DEF Connection
  <2> HIDE DEF conn
  <2>5. /\ connection' \in [Connections -> Connection] /\ connection'[k] = conn
        /\ \A c \in Connections \ {k} : connection'[c] = connection[c]
    BY <1>1, <1>2, <2>3, <2>4 DEF SessionsTypeOK
  <2>6. /\ planRequest' \in [PlanUsers -> PlanRequest \cup {NoCall}]
        /\ \A w \in PlanUsers \ {u} : planRequest'[w] = planRequest[w]
        /\ planRequest'[u] \in PlanRequest /\ planRequest'[u].stage = "failed"
        /\ planRequest'[u].on = k /\ planRequest'[u].by = planRequest[u].by
        /\ ~ planRequest'[u].nested
    BY <1>1, <1>2, <1>d, <2>3 DEF SessionsTypeOK, PlanRequest
  <2>7. SessionsTypeOK' /\ Moves(u)
    BY <1>1, <1>2, <2>3, <2>4, <2>5, <2>6, SessionsRowAssumption DEF SessionsTypeOK, Moves
  <2>8. ASSUME dialect = "sqlite" PROVE OwnWork' /\ AnsweredIsDurable'
    <3>1. k = u /\ AnsweredIsDurable
      BY <1>1, <1>2, <2>8 DEF OwnWork, SessionsInv
    <3>2. ~ connection'[u].active
      BY <1>1, <1>2, <2>4, <2>5, <2>8, <3>1 DEF OwnWork, Working
    <3>3. OwnWork'
      BY <1>1, <1>2, <2>6, <2>7, <2>8, <3>2, OwnWorkStays DEF Working
    <3>4. u \notin Committed /\ u \notin Committed'
      BY <1>2, <2>6 DEF Committed, At, Working
    <3> QED
      BY <1>1, <1>2, <2>7, <3>1, <3>3, <3>4, NothingCommitted
  <2>9. \A c \in Connections : c = planRequest[u].on /\ connection[c].open => MarksMove(u, c)
    <3> SUFFICES ASSUME NEW c \in Connections, c = k, connection[k].open PROVE MarksMove(u, c)
      OBVIOUS
    <3>1. u \notin Nested(c)
      BY <1>d DEF Nested
    <3>2. u \notin Nested(c)'
      BY <2>6 DEF Nested
    <3> QED
      BY <2>4, <2>5, <3>1, <3>2 DEF MarksMove
  <2> QED
    BY <2>6, <2>7, <2>8, <2>9, WorkMoves
<1> QED
  BY <1>c, <1>d

LEMMA LoseConnectionStep ==
  ASSUME SessionsInv, NEW u \in PlanUsers, LoseConnection(u) PROVE SessionsInv'
<1>1. SessionsTypeOK /\ MarksKept /\ RequestsFit /\ OwnWork
  BY DEF SessionsInv
<1>2. /\ planRequest[u] # NoCall /\ planRequest[u] \in PlanRequest
      /\ planRequest[u].on \in Connections /\ ~ connection[planRequest[u].on].open
      /\ planRequest' = [planRequest EXCEPT ![u].stage = "failed"]
      /\ UNCHANGED <<dialect, planRow, connection, shared, promised>>
  BY <1>1, RequestFields DEF LoseConnection, At, Of, Step
<1>3. /\ planRequest' \in [PlanUsers -> PlanRequest \cup {NoCall}]
      /\ \A w \in PlanUsers \ {u} : planRequest'[w] = planRequest[w]
      /\ planRequest'[u] \in PlanRequest /\ planRequest'[u].stage = "failed"
      /\ planRequest'[u].on = planRequest[u].on /\ planRequest'[u].by = planRequest[u].by
  BY <1>1, <1>2 DEF SessionsTypeOK, PlanRequest
<1>4. SessionsTypeOK' /\ Moves(u)
  BY <1>1, <1>2, <1>3, SessionsRowAssumption DEF SessionsTypeOK, Moves
<1>5. dialect # "sqlite"
  BY <1>1, <1>2 DEF OwnWork
<1>6. \A c \in Connections : c = planRequest[u].on /\ connection[c].open => MarksMove(u, c)
  BY <1>2
<1> QED
  BY <1>3, <1>4, <1>5, <1>6, WorkMoves

\* On SQLite a request that comes or goes has nothing in hand.
LEMMA OwnWorkIdle ==
  ASSUME SessionsTypeOK, OwnWork, NEW u \in PlanUsers, dialect' = dialect, planRow' = planRow,
         dialect = "sqlite" =>
            /\ \A w \in PlanUsers \ {u} : planRequest'[w] = planRequest[w] /\ connection'[w] = connection[w]
            /\ ~ connection'[u].active
            /\ \/ planRequest'[u] = NoCall
               \/ /\ planRequest'[u].stage = "authorised" /\ planRequest'[u].on = u
                  /\ ~ planRequest'[u].nested /\ connection'[u].open
  PROVE  OwnWork'
<1> SUFFICES ASSUME dialect = "sqlite" PROVE OwnWork'
  BY DEF OwnWork
<1>1. \A w \in PlanUsers \ {u} : planRequest'[w] = planRequest[w] /\ connection'[w] = connection[w]
  OBVIOUS
<1>2. ~ connection'[u].active
  OBVIOUS
<1>3. planRequest'[u] # NoCall =>
         /\ planRequest'[u].stage = "authorised" /\ planRequest'[u].on = u
         /\ ~ planRequest'[u].nested /\ connection'[u].open
  OBVIOUS
<1>4. \A w \in PlanUsers : planRequest'[w] # NoCall =>
        planRequest'[w].on = w /\ ~ planRequest'[w].nested /\ connection'[w].open
  BY <1>1, <1>3 DEF OwnWork
<1>5. \A w \in PlanUsers : connection'[w].active <=>
        planRequest'[w] # NoCall /\ planRequest'[w].stage \in Working
  BY <1>1, <1>2, <1>3 DEF OwnWork, Working
<1>6. \A w, x \in PlanUsers : connection'[w].active /\ connection'[x].active => w = x
  BY <1>1, <1>2 DEF OwnWork
<1>7. \A w \in PlanUsers : planRequest'[w] # NoCall =>
             /\ planRequest'[w].stage = "begun" => connection'[w].row = planRow'
             /\ planRequest'[w].stage \in {"read", "written"} =>
                   planRequest'[w].found = Quantity(planRow)'
             /\ planRequest'[w].stage = "written" =>
                   connection'[w].row = Quantity(planRow)' + planRequest'[w].by
  BY <1>1, <1>3 DEF OwnWork, Quantity
<1> QED
  BY <1>4, <1>5, <1>6, <1>7 DEF OwnWork

LEMMA AuthoriseStep ==
  ASSUME SessionsInv, NEW u \in PlanUsers, NEW by \in Adjustments, Authorise(u, by) PROVE SessionsInv'
<1>1. SessionsTypeOK /\ MarksKept /\ RequestsFit /\ OwnWork /\ (dialect = "sqlite" => AnsweredIsDurable)
  BY DEF SessionsInv
<1>2. planRequest[u] = NoCall /\ UNCHANGED <<dialect, planRow, promised>>
  BY DEF Authorise
<1> DEFINE fresh(c) == [stage |-> "authorised", on |-> c, nested |-> FALSE, by |-> by, found |-> NoRow]
<1>3. PICK k \in Available(u) :
          /\ connection' = [connection EXCEPT ![k] = Touched([connection[k] EXCEPT !.open = TRUE])]
          /\ shared' = IF dialect = "sqlite" THEN shared ELSE k
          /\ planRequest' = [planRequest EXCEPT ![u] = fresh(k)]
  BY DEF Authorise
<1>4. /\ k \in Connections
      /\ dialect = "sqlite" => k = u
      /\ dialect # "sqlite" /\ ~ connection[k].open =>
            \A w \in PlanUsers : planRequest[w] # NoCall => planRequest[w].on # k
  BY <1>1, <1>3 DEF Available, Connections, SessionsTypeOK
<1> DEFINE opened == [connection[k] EXCEPT !.open = TRUE]
           conn == Touched(opened)
<1>5. /\ conn \in Connection /\ conn.open /\ conn.marks = connection[k].marks
      /\ dialect = "sqlite" => conn.active = connection[k].active
  <2>1. connection[k] \in Connection /\ planRow \in PlanRow
    BY <1>1, <1>4, ConnectionFields DEF SessionsTypeOK
  <2>2. /\ opened \in Connection /\ opened.open /\ opened.marks = connection[k].marks
        /\ opened.active = connection[k].active
    BY <2>1 DEF Connection
  <2> HIDE DEF opened
  <2>3. CASE opened.active \/ dialect = "sqlite"
    <3>1. conn = opened
      BY <2>3 DEF Touched
    <3> QED
      BY <2>2, <3>1
  <2>4. CASE ~ (opened.active \/ dialect = "sqlite")
    <3>1. conn = [[opened EXCEPT !.active = TRUE] EXCEPT !.row = planRow]
      BY <2>2, <2>4 DEF Touched, Connection
    <3>2. conn \in Connection /\ conn.open = opened.open /\ conn.marks = opened.marks
      BY <2>1, <2>2, <3>1 DEF Connection
    <3> QED
      BY <2>2, <2>4, <3>2
  <2> QED
    BY <2>3, <2>4
<1>6. /\ connection' \in [Connections -> Connection] /\ connection'[k] = conn
      /\ \A c \in Connections \ {k} : connection'[c] = connection[c]
  <2>1. connection' = [connection EXCEPT ![k] = conn]
    BY <1>3
  <2> HIDE DEF conn
  <2> QED
    BY <1>1, <1>4, <1>5, <2>1 DEF SessionsTypeOK
<1> HIDE DEF conn
<1>7. fresh(k) \in PlanRequest
  BY <1>4 DEF PlanRequest, PlanRow
<1>8. /\ planRequest' \in [PlanUsers -> PlanRequest \cup {NoCall}]
      /\ \A w \in PlanUsers \ {u} : planRequest'[w] = planRequest[w]
      /\ planRequest'[u] = fresh(k)
  BY <1>1, <1>3, <1>7 DEF SessionsTypeOK
<1>9. /\ planRequest'[u].stage = "authorised" /\ planRequest'[u].on = k
      /\ ~ planRequest'[u].nested /\ planRequest'[u].by = by
  BY <1>8
<1> HIDE DEF fresh
<1>10. SessionsTypeOK'
  BY <1>1, <1>2, <1>3, <1>4, <1>6, <1>8 DEF SessionsTypeOK
<1>11. MarksKept'
  <2> SUFFICES ASSUME NEW c \in Connections, connection'[c].open
               PROVE  Cardinality(Nested(c)') <= Len(connection'[c].marks)
    BY DEF MarksKept
  <2>1. u \notin Nested(c) /\ u \notin Nested(c)'
    BY <1>2, <1>9 DEF Nested, Working
  <2>2. \A w \in PlanUsers \ {u} : w \in Nested(c) <=> w \in Nested(c)'
    BY <1>8 DEF Nested
  <2>3. Nested(c) \subseteq PlanUsers /\ Nested(c)' \subseteq PlanUsers
    BY DEF Nested
  <2>4. Nested(c)' = Nested(c)
    BY <2>1, <2>2, <2>3
  <2>5. connection'[c].marks = connection[c].marks /\ Len(connection[c].marks) \in Nat
    BY <1>1, <1>5, <1>6, ConnectionFields
  <2>6. CASE connection[c].open
    BY <1>1, <2>4, <2>5, <2>6 DEF MarksKept
  <2>7. CASE ~ connection[c].open
    <3>1. c = k
      BY <1>6, <2>7
    <3>2. \A w \in PlanUsers : w \notin Nested(c)
      BY <1>1, <1>4, <2>7, <3>1 DEF Nested, OwnWork
    <3>3. Nested(c) = {}
      BY <2>3, <3>2
    <3>4. Cardinality(Nested(c)) = 0
      BY <3>3, FS_EmptySet
    <3> QED
      BY <2>4, <2>5, <3>4
  <2> QED
    BY <2>6, <2>7
<1>12. RequestsFit'
  BY <1>1, <1>8, <1>9 DEF RequestsFit
<1>13. OwnWork'
  <2>1. ASSUME dialect = "sqlite"
        PROVE  /\ \A w \in PlanUsers \ {u} : planRequest'[w] = planRequest[w] /\ connection'[w] = connection[w]
               /\ ~ connection'[u].active
               /\ planRequest'[u].stage = "authorised" /\ planRequest'[u].on = u
               /\ ~ planRequest'[u].nested /\ connection'[u].open
    <3>1. k = u /\ ~ connection[u].active
      BY <1>1, <1>2, <1>4, <2>1 DEF OwnWork
    <3> QED
      BY <1>5, <1>6, <1>8, <1>9, <2>1, <3>1 DEF Connections
  <2> QED
    BY <1>1, <1>2, <2>1, OwnWorkIdle
<1>14. dialect' = "sqlite" => AnsweredIsDurable'
  <2> SUFFICES ASSUME dialect = "sqlite" PROVE AnsweredIsDurable'
    BY <1>2
  <2>1. CommittedBy[u] = 0 /\ CommittedBy'[u] = 0
    BY <1>2, <1>9 DEF CommittedBy, Committed, At
  <2>2. SumFunction([w \in Committed |-> planRequest[w].by])'
          = SumFunction([w \in Committed |-> planRequest[w].by]) + CommittedBy'[u] - CommittedBy[u]
    BY <1>1, <1>8, <1>10, CommittedChanges
  <2>3. SumFunction([w \in Committed |-> planRequest[w].by]) \in Int
    BY <1>1, CommittedAdds DEF CommittedIsSum
  <2>4. SumFunction([w \in Committed |-> planRequest[w].by])'
          = SumFunction([w \in Committed |-> planRequest[w].by])
    BY <2>1, <2>2, <2>3
  <2> QED
    BY <1>1, <1>2, <2>4 DEF AnsweredIsDurable, Quantity
<1> QED
  BY <1>10, <1>11, <1>12, <1>13, <1>14 DEF SessionsInv

LEMMA CloseSessionStep ==
  ASSUME SessionsInv, NEW u \in PlanUsers, CloseSession(u) PROVE SessionsInv'
<1> DEFINE k == planRequest[u].on
<1>1. SessionsTypeOK /\ MarksKept /\ RequestsFit /\ OwnWork /\ (dialect = "sqlite" => AnsweredIsDurable)
  BY DEF SessionsInv
<1>2. /\ planRequest[u] # NoCall /\ planRequest[u].stage \in {"done", "failed"}
      /\ k \in Connections /\ planRequest[u].by \in Int /\ promised \in Int
      /\ UNCHANGED <<dialect, planRow, shared>>
      /\ connection' = [connection EXCEPT ![k] = Closed0]
      /\ promised' = IF planRequest[u].stage = "done" THEN promised + planRequest[u].by ELSE promised
      /\ planRequest' = [planRequest EXCEPT ![u] = NoCall]
  <2>1. planRequest[u] # NoCall
    BY DEF CloseSession, At
  <2>2. planRequest[u].by \in Int /\ k \in Connections /\ promised \in Int
    BY <1>1, <2>1, RequestFields DEF SessionsTypeOK
  <2> QED
    BY <2>1, <2>2 DEF CloseSession, At
<1>3. Closed0 \in Connection /\ ~ Closed0.open /\ ~ Closed0.active
  <2>1. <<>> \in Seq(PlanRow) /\ NoRow \in PlanRow
    BY DEF PlanRow
  <2> QED
    BY <2>1 DEF Closed0, Connection
<1>4. /\ connection' \in [Connections -> Connection] /\ connection'[k] = Closed0
      /\ \A c \in Connections \ {k} : connection'[c] = connection[c]
  BY <1>1, <1>2, <1>3 DEF SessionsTypeOK
<1>5. /\ planRequest' \in [PlanUsers -> PlanRequest \cup {NoCall}] /\ planRequest'[u] = NoCall
      /\ \A w \in PlanUsers \ {u} : planRequest'[w] = planRequest[w]
  BY <1>1, <1>2 DEF SessionsTypeOK
<1>6. SessionsTypeOK'
  BY <1>1, <1>2, <1>4, <1>5 DEF SessionsTypeOK
<1>7. MarksKept'
  <2> SUFFICES ASSUME NEW c \in Connections, connection'[c].open
               PROVE  Cardinality(Nested(c)') <= Len(connection'[c].marks)
    BY DEF MarksKept
  <2>0. c # k /\ connection'[c] = connection[c]
    BY <1>3, <1>4
  <2>1. u \notin Nested(c) /\ u \notin Nested(c)'
    BY <1>5, <2>0 DEF Nested
  <2>2. \A w \in PlanUsers \ {u} : w \in Nested(c) <=> w \in Nested(c)'
    BY <1>5 DEF Nested
  <2>3. Nested(c) \subseteq PlanUsers /\ Nested(c)' \subseteq PlanUsers
    BY DEF Nested
  <2>4. Nested(c)' = Nested(c)
    BY <2>1, <2>2, <2>3
  <2> QED
    BY <1>1, <2>0, <2>4 DEF MarksKept
<1>8. RequestsFit'
  BY <1>1, <1>5 DEF RequestsFit
<1>9. OwnWork'
  <2>1. ASSUME dialect = "sqlite"
        PROVE  /\ \A w \in PlanUsers \ {u} : planRequest'[w] = planRequest[w] /\ connection'[w] = connection[w]
               /\ ~ connection'[u].active
               /\ planRequest'[u] = NoCall
    <3>1. k = u
      BY <1>1, <1>2, <2>1 DEF OwnWork
    <3> QED
      BY <1>3, <1>4, <1>5, <3>1 DEF Connections
  <2> QED
    BY <1>1, <1>2, <2>1, OwnWorkIdle
<1>10. dialect' = "sqlite" => AnsweredIsDurable'
  <2> SUFFICES ASSUME dialect = "sqlite" PROVE AnsweredIsDurable'
    BY <1>2
  <2> DEFINE before == SumFunction([w \in Committed |-> planRequest[w].by])
             piece == IF planRequest[u].stage = "done" THEN planRequest[u].by ELSE 0
  <2>1. CommittedBy[u] = piece /\ CommittedBy'[u] = 0 /\ piece \in Int
    <3>1. ~ planRequest[u].nested
      BY <1>1, <1>2 DEF OwnWork
    <3> QED
      BY <1>2, <1>5, <3>1 DEF CommittedBy, Committed, At
  <2>2. SumFunction([w \in Committed |-> planRequest[w].by])' = before + CommittedBy'[u] - CommittedBy[u]
    BY <1>1, <1>5, <1>6, CommittedChanges
  <2>3. before \in Int
    BY <1>1, CommittedAdds DEF CommittedIsSum
  <2>4. Quantity(planRow) = promised + before
    BY <1>1 DEF AnsweredIsDurable
  <2>5. promised' = promised + piece
    BY <1>2
  <2> HIDE DEF before, piece
  <2>6. SumFunction([w \in Committed |-> planRequest[w].by])' = before - piece
    BY <2>1, <2>2, <2>3
  <2>7. promised + before = (promised + piece) + (before - piece)
    BY <1>2, <2>1, <2>3
  <2>8. Quantity(planRow)' = Quantity(planRow)
    BY <1>2 DEF Quantity
  <2> QED
    BY <2>4, <2>5, <2>6, <2>7, <2>8 DEF AnsweredIsDurable
<1> QED
  BY <1>6, <1>7, <1>8, <1>9, <1>10 DEF SessionsInv

\* No request and no row at first.
LEMMA SessionsStart == SessionsInit => SessionsInv
<1> SUFFICES ASSUME SessionsInit PROVE SessionsInv
  OBVIOUS
<1>0. Closed0 \in Connection /\ ~ Closed0.open /\ ~ Closed0.active
  <2>1. <<>> \in Seq(PlanRow) /\ NoRow \in PlanRow
    BY DEF PlanRow
  <2> QED
    BY <2>1 DEF Closed0, Connection
<1>1. \A c \in Connections : connection[c] = Closed0
  BY DEF SessionsInit
<1>2. \A u \in PlanUsers : planRequest[u] = NoCall
  BY DEF SessionsInit
<1>3. SessionsTypeOK
  BY <1>0 DEF SessionsInit, SessionsTypeOK, PlanRow
<1>4. MarksKept /\ RequestsFit
  BY <1>0, <1>1, <1>2 DEF MarksKept, RequestsFit
<1>5. OwnWork
  BY <1>0, <1>1, <1>2 DEF OwnWork, Connections
<1>6. AnsweredIsDurable
  <2>1. \A u \in PlanUsers : CommittedBy[u] = 0
    BY <1>2 DEF CommittedBy, Committed, At
  <2>2. SumFunctionOnSet(CommittedBy, PlanUsers) = 0
    BY <2>1, SessionsAssumption, SumZero
  <2>3. SumFunction([w \in Committed |-> planRequest[w].by]) = 0
    BY <1>3, <2>2, CommittedAdds DEF CommittedIsSum
  <2>4. Quantity(planRow) = 0 /\ promised = 0
    BY DEF SessionsInit, Quantity
  <2> QED
    BY <2>3, <2>4 DEF AnsweredIsDurable
<1> QED
  BY <1>3, <1>4, <1>5, <1>6 DEF SessionsInv

\* Every step keeps the invariant.
LEMMA SessionsStep == SessionsInv /\ [SessionsNext]_sessionVars => SessionsInv'
<1> SUFFICES ASSUME SessionsInv, [SessionsNext]_sessionVars PROVE SessionsInv'
  OBVIOUS
<1>1. CASE SessionsNext
  <2> SUFFICES ASSUME NEW u \in PlanUsers,
                      \/ \E by \in Adjustments : Authorise(u, by)
                      \/ BeginWork(u) \/ BeginNested(u) \/ ReadPlanRow(u) \/ WritePlanRow(u)
                      \/ EndWork(u) \/ FailWork(u) \/ LoseConnection(u) \/ CloseSession(u)
               PROVE  SessionsInv'
    BY <1>1 DEF SessionsNext
  <2>1. ASSUME NEW by \in Adjustments, Authorise(u, by) PROVE SessionsInv'
    BY <2>1, AuthoriseStep
  <2>2. CASE BeginWork(u)
    BY <2>2, BeginWorkStep
  <2>3. CASE BeginNested(u)
    BY <2>3, BeginNestedStep
  <2>4. CASE ReadPlanRow(u)
    BY <2>4, ReadPlanRowStep
  <2>5. CASE WritePlanRow(u)
    BY <2>5, WritePlanRowStep
  <2>6. CASE EndWork(u)
    BY <2>6, EndWorkStep
  <2>7. CASE FailWork(u)
    BY <2>7, FailWorkStep
  <2>8. CASE LoseConnection(u)
    BY <2>8, LoseConnectionStep
  <2>9. CASE CloseSession(u)
    BY <2>9, CloseSessionStep
  <2> QED
    BY <2>1, <2>2, <2>3, <2>4, <2>5, <2>6, <2>7, <2>8, <2>9
<1>2. CASE UNCHANGED sessionVars
  <2>1. SessionsTypeOK' /\ MarksKept' /\ RequestsFit' /\ OwnWork'
    BY <1>2 DEF SessionsInv, SessionsTypeOK, MarksKept, RequestsFit, OwnWork, Nested, Quantity, sessionVars
  <2>2. dialect' = "sqlite" => AnsweredIsDurable'
    BY <1>2 DEF SessionsInv, AnsweredIsDurable, Committed, At, Quantity, sessionVars
  <2> QED
    BY <2>1, <2>2 DEF SessionsInv
<1> QED
  BY <1>1, <1>2

-----------------------------------------------------------------------------
(* The theorems.                                                           *)

\* The inductive invariant of the sessions: on either dialect marks for the
\* savepoints in use, on SQLite each request alone in its transaction, and the
\* committed row the sum of what was answered.
THEOREM SessionsInvariant == SessionsSpec => []SessionsInv
  BY SessionsStart, SessionsStep, PTL DEF SessionsSpec

\* The variables keep their types: the planned quantity never leaves the range
\* adjust_plan_control permits, on either dialect, and a savepoint is never
\* released or rolled back to that is not there.
THEOREM SessionsTypes == SessionsSpec => []SessionsTypeOK
<1>1. SessionsInv => SessionsTypeOK
  BY DEF SessionsInv
<1> QED
  BY <1>1, SessionsInvariant, PTL

\* On SQLite the committed row is what was answered as done, no more and no
\* less, whichever requests overlap, fail or wait, and no connection that is
\* not in use holds a transaction.
THEOREM SqliteIsDurable == SessionsSpec => []DurableOnSqlite
<1>1. SessionsInv => DurableOnSqlite
  BY DEF SessionsInv, DurableOnSqlite, OwnWork, Connections
<1> QED
  BY <1>1, SessionsInvariant, PTL

-----------------------------------------------------------------------------
(***************************************************************************)
(* LIMITS                                                                  *)
(***************************************************************************)

\* How many hits of client c at time t were let in.
LetIn(c, t) == Cardinality({j \in DOMAIN admitted : admitted[j].client = c /\ admitted[j].at = t})

\* A hit that no request could drop yet is still counted.
HitsRemembered ==
    \A c \in Clients, t \in Times :
        (\A r \in Routes : newest < t + MaxWindow(r)) => hits[c][t] = LetIn(c, t)

LimiterInv == LimiterTypeOK /\ HitsRemembered /\ LimitsHold

\* One hit more of a client at a time.
LEMMA OneHitMore ==
  ASSUME NEW C, NEW T, NEW k \in [C -> [T -> Nat]], NEW c \in C, NEW t \in T,
         NEW g, g = [k EXCEPT ![c][t] = @ + 1]
  PROVE  /\ g \in [C -> [T -> Nat]] /\ g[c][t] = k[c][t] + 1
         /\ \A x \in C, y \in T : ~ (x = c /\ y = t) => g[x][y] = k[x][y]
<1>1. k[c] \in [T -> Nat] /\ k[c][t] \in Nat
  OBVIOUS
<1>2. g = [k EXCEPT ![c] = [k[c] EXCEPT ![t] = k[c][t] + 1]]
  OBVIOUS
<1>3. [k[c] EXCEPT ![t] = k[c][t] + 1] \in [T -> Nat]
  BY <1>1
<1> QED
  BY <1>1, <1>2, <1>3

\* The longest window is a length of time.
LEMMA MaxWindowType == \A r \in Routes : MaxWindow(r) \in Nat
<1> TAKE r \in Routes
<1> DEFINE W == {l[2] : l \in LimitsOf[r]}
<1>1. LimitsOf[r] # {} /\ IsFiniteSet(LimitsOf[r]) /\ \A l \in LimitsOf[r] : l[2] \in Nat
  BY LimiterAssumption
<1>2. IsFiniteSet(W)
  <2> DEFINE f == [l \in LimitsOf[r] |-> l[2]]
  <2>1. f \in Surjection(LimitsOf[r], W)
    BY DEF Surjection
  <2> QED
    BY <1>1, <2>1, FS_Surjection
<1>3. W # {} /\ W \subseteq Nat
  BY <1>1
<1>4. \A l \in LimitsOf[r] : l[2] \in W
  OBVIOUS
<1> HIDE DEF W
<1>5. PICK w \in W : \A y \in W : y <= w
  <2>1. W \subseteq Int
    BY <1>3
  <2>2. \E w \in W : \A y \in W : y <= w
    BY <1>2, <1>3, <2>1, LargestExists
  <2> QED
    BY <2>2
<1>6. \A l \in LimitsOf[r] : l[2] <= w
  BY <1>4, <1>5
<1>7. MaxWindow(r) = CHOOSE x \in W : \A l \in LimitsOf[r] : l[2] <= x
  BY DEF MaxWindow, W
<1>8. MaxWindow(r) \in W
  BY <1>6, <1>7
<1> QED
  BY <1>3, <1>8

\* What was let in is finite.
LEMMA AdmittedFinite ==
  ASSUME LimiterTypeOK
  PROVE  /\ Len(admitted) \in Nat /\ DOMAIN admitted = 1 .. Len(admitted)
         /\ \A n \in Int : \A I \in SUBSET (1 .. n) : IsFiniteSet(I) /\ Cardinality(I) \in Nat
         /\ \A j \in DOMAIN admitted : admitted[j] \in Admitted
<1>1. admitted \in Seq(Admitted)
  BY DEF LimiterTypeOK
<1>2. ASSUME NEW n \in Int, NEW I \in SUBSET (1 .. n) PROVE IsFiniteSet(I) /\ Cardinality(I) \in Nat
  <2>1. IsFiniteSet(1 .. n)
    BY FS_Interval
  <2>2. IsFiniteSet(I)
    BY <2>1, FS_Subset
  <2> QED
    BY <2>2, FS_CardinalityType
<1>3. \A j \in DOMAIN admitted : admitted[j] \in Admitted
  BY <1>1
<1>4. \A n \in Int : \A I \in SUBSET (1 .. n) : IsFiniteSet(I) /\ Cardinality(I) \in Nat
  BY <1>2
<1>5. Len(admitted) \in Nat /\ DOMAIN admitted = 1 .. Len(admitted)
  BY <1>1
<1> QED
  BY <1>3, <1>4, <1>5

\* Hits remembered are hits counted: what a client has within a window no
\* request has cut short is what was let in.
LEMMA CountedAreLetIn ==
  ASSUME LimiterTypeOK, HitsRemembered, NEW c \in Clients, NEW now \in Times, NEW w \in Nat, NEW r \in Routes,
         newest <= now, \A x \in Routes : w <= MaxWindow(x)
  PROVE  Cardinality({j \in DOMAIN admitted : admitted[j].client = c /\ now < admitted[j].at + w})
           = Within(Cleaned(now, MaxWindow(r))[c], now, w)
<1> DEFINE T == {t \in Times : now < t + w}
           I == {j \in DOMAIN admitted : admitted[j].client = c}
           v == [j \in DOMAIN admitted |-> admitted[j].at]
           f == [x \in T |-> Cardinality({i \in I : v[i] = x})]
           g == Cleaned(now, MaxWindow(r))[c]
<1>0. /\ DOMAIN admitted = 1 .. Len(admitted) /\ Len(admitted) \in Nat
      /\ IsFiniteSet(I) /\ \A j \in DOMAIN admitted : admitted[j].at \in Times
  <2>1. /\ DOMAIN admitted = 1 .. Len(admitted) /\ Len(admitted) \in Nat
        /\ \A j \in DOMAIN admitted : admitted[j] \in Admitted
        /\ \A n \in Int : \A S \in SUBSET (1 .. n) : IsFiniteSet(S) /\ Cardinality(S) \in Nat
    BY AdmittedFinite
  <2>2. I \in SUBSET (1 .. Len(admitted))
    BY <2>1
  <2>3. IsFiniteSet(I)
    <3>1. Len(admitted) \in Int
      BY <2>1
    <3>2. \A S \in SUBSET (1 .. Len(admitted)) : IsFiniteSet(S)
      BY <2>1, <3>1
    <3> HIDE DEF I
    <3> QED
      BY <2>2, <3>2
  <2>4. \A j \in DOMAIN admitted : admitted[j].at \in Times
    BY <2>1 DEF Admitted
  <2> QED
    BY <2>1, <2>3, <2>4
<1>1. IsFiniteSet(T)
  <2>1. IsFiniteSet(Times)
    BY LimiterAssumption, FS_Interval DEF Times
  <2> QED
    BY <2>1, FS_Subset
<1>2. {j \in DOMAIN admitted : admitted[j].client = c /\ now < admitted[j].at + w} = {i \in I : v[i] \in T}
  BY <1>0
<1>3. Cardinality({i \in I : v[i] \in T}) = SumFunctionOnSet(f, T)
  <2> HIDE DEF I, T, v
  <2> QED
    BY <1>0, <1>1, CountByValue
<1>4. ASSUME NEW t \in T PROVE f[t] = g[t]
  <2>1. t \in Times /\ now < t + w
    OBVIOUS
  <2>2. \A x \in Routes : newest < t + MaxWindow(x) /\ now < t + MaxWindow(x)
    BY <2>1, MaxWindowType DEF Times, LimiterTypeOK
  <2>3. hits[c][t] = LetIn(c, t)
    BY <2>1, <2>2 DEF HitsRemembered
  <2>4. g[t] = hits[c][t]
    BY <2>1, <2>2 DEF Cleaned
  <2>5. {i \in I : v[i] = t} = {j \in DOMAIN admitted : admitted[j].client = c /\ admitted[j].at = t}
    OBVIOUS
  <2>6. f[t] = LetIn(c, t)
    BY <2>5 DEF LetIn
  <2> QED
    BY <2>3, <2>4, <2>6
<1>5. SumFunctionOnSet(f, T) = SumFunctionOnSet(g, T)
  <2> HIDE DEF f, g, T
  <2> QED
    BY <1>1, <1>4, SumSame
<1> QED
  BY <1>2, <1>3, <1>5 DEF Within

\* What the requests before the last one were let in is as before.
LEMMA EarlierHold ==
  ASSUME LimitsHold, NEW i \in DOMAIN admitted, ~ admitted[i].late,
         NEW l \in LimitsOf[admitted[i].route], \A r \in Routes : l[2] <= MaxWindow(r)
  PROVE  Cardinality({j \in 1 .. i - 1 : /\ admitted[j].client = admitted[i].client
                                         /\ admitted[i].at < admitted[j].at + l[2]}) < l[1]
BY DEF LimitsHold

\* A request that has the lock: what it drops no longer counts for anyone, and
\* what it lets in keeps its limits.
LEMMA CheckLimitStep ==
  ASSUME LimiterInv, NEW u \in Threads, CheckLimit(u) PROVE LimiterInv'
<1> DEFINE h == waiting[u]
           left == Cleaned(h.at, MaxWindow(h.route))
           free == \A l \in LimitsOf[h.route] : Within(left[h.client], h.at, l[2]) < l[1]
           entry == [client |-> h.client, route |-> h.route, at |-> h.at, late |-> h.at < newest]
           n == Len(admitted)
<1>0. LimiterTypeOK /\ HitsRemembered /\ LimitsHold
  BY DEF LimiterInv
<1>1. /\ h \in Hit /\ h.client \in Clients /\ h.route \in Routes /\ h.at \in Times
      /\ h.at \in Int /\ newest \in Int /\ newest \in Times
      /\ MaxWindow(h.route) \in Nat
  BY <1>0, MaxWindowType DEF CheckLimit, LimiterTypeOK, Hit, Times
<1>2. /\ clock' = clock /\ waiting' = [waiting EXCEPT ![u] = NoHit]
      /\ newest' = IF h.at > newest THEN h.at ELSE newest
  BY DEF CheckLimit
<1>3. newest' \in Times /\ newest <= newest' /\ h.at <= newest' /\ newest' \in Int
  BY <1>1, <1>2
<1>4. /\ left \in [Clients -> [Times -> Nat]]
      /\ \A c \in Clients, t \in Times : h.at < t + MaxWindow(h.route) => left[c][t] = hits[c][t]
  BY <1>0, <1>1 DEF Cleaned, LimiterTypeOK, Times
<1>5. waiting' \in [Threads -> Hit \cup {NoHit}]
  BY <1>0, <1>2 DEF LimiterTypeOK
<1>n. n \in Nat /\ DOMAIN admitted = 1 .. n /\ admitted \in Seq(Admitted)
  BY <1>0, AdmittedFinite DEF LimiterTypeOK
<1>6. ASSUME NEW c \in Clients, NEW t \in Times, \A r \in Routes : newest' < t + MaxWindow(r)
      PROVE  left[c][t] = LetIn(c, t)
  <2>1. \A r \in Routes : newest < t + MaxWindow(r) /\ h.at < t + MaxWindow(r)
    BY <1>1, <1>3, <1>6, MaxWindowType DEF Times
  <2> QED
    BY <1>0, <1>1, <1>4, <2>1 DEF HitsRemembered
<1>7. CASE ~ free
  <2>1. hits' = left /\ admitted' = admitted
    BY <1>7 DEF CheckLimit
  <2> HIDE DEF left
  <2>2. LimiterTypeOK'
    BY <1>0, <1>2, <1>3, <1>4, <1>5, <2>1 DEF LimiterTypeOK
  <2>3. HitsRemembered'
    BY <1>6, <2>1 DEF HitsRemembered, LetIn
  <2>4. LimitsHold'
    BY <1>0, <2>1 DEF LimitsHold
  <2> QED
    BY <2>2, <2>3, <2>4 DEF LimiterInv
<1>8. CASE free
  <2>1. hits' = [left EXCEPT ![h.client][h.at] = @ + 1] /\ admitted' = Append(admitted, entry)
    BY <1>8 DEF CheckLimit
  <2>2. /\ hits' \in [Clients -> [Times -> Nat]]
        /\ hits'[h.client][h.at] = left[h.client][h.at] + 1
        /\ \A c \in Clients, t \in Times : ~ (c = h.client /\ t = h.at) => hits'[c][t] = left[c][t]
    <3> HIDE DEF left
    <3>1. h.client \in Clients /\ h.at \in Times
      BY <1>1
    <3> HIDE DEF h
    <3> QED
      BY <1>4, <2>1, <3>1, OneHitMore
  <2>3. /\ entry \in Admitted /\ entry.client = h.client /\ entry.at = h.at /\ entry.route = h.route
        /\ ~ entry.late => newest <= h.at
    <3>1. entry.late = (h.at < newest) /\ (h.at < newest) \in BOOLEAN
      OBVIOUS
    <3>2. ~ entry.late => ~ (h.at < newest)
      BY <3>1
    <3>3. entry \in Admitted
      BY <1>1, <3>1 DEF Admitted
    <3> QED
      BY <1>1, <3>2, <3>3
  <2> HIDE DEF entry
  <2>4. /\ admitted' \in Seq(Admitted) /\ DOMAIN admitted' = 1 .. n + 1 /\ admitted'[n + 1] = entry
        /\ \A j \in 1 .. n : admitted'[j] = admitted[j]
    BY <1>n, <2>1, <2>3
  <2>5. LimiterTypeOK'
    BY <1>0, <1>2, <1>3, <1>5, <2>2, <2>4 DEF LimiterTypeOK
  <2>6. HitsRemembered'
    <3> SUFFICES ASSUME NEW c \in Clients, NEW t \in Times, \A r \in Routes : newest' < t + MaxWindow(r)
                 PROVE  hits'[c][t] = LetIn(c, t)'
      BY DEF HitsRemembered
    <3> DEFINE J == {j \in DOMAIN admitted : admitted[j].client = c /\ admitted[j].at = t}
    <3>1. left[c][t] = Cardinality(J)
      BY <1>6 DEF LetIn
    <3>2. IsFiniteSet(J) /\ Cardinality(J) \in Nat /\ n + 1 \notin J
      <4>1. J \in SUBSET (1 .. n) /\ n + 1 \notin 1 .. n /\ n \in Int
        BY <1>n
      <4>2. \A m \in Int : \A I \in SUBSET (1 .. m) : IsFiniteSet(I) /\ Cardinality(I) \in Nat
        BY <1>0, AdmittedFinite
      <4> HIDE DEF J, n
      <4> QED
        BY <4>1, <4>2
    <3>3. CASE c = h.client /\ t = h.at
      <4>1. {j \in DOMAIN admitted' : admitted'[j].client = c /\ admitted'[j].at = t} = J \cup {n + 1}
        BY <1>n, <2>3, <2>4, <3>3
      <4>2. Cardinality(J \cup {n + 1}) = Cardinality(J) + 1
        BY <3>2, FS_AddElement
      <4>3. LetIn(c, t)' = Cardinality(J \cup {n + 1})
        BY <4>1 DEF LetIn
      <4> QED
        BY <2>2, <3>1, <3>3, <4>2, <4>3
    <3>4. CASE ~ (c = h.client /\ t = h.at)
      <4>1. {j \in DOMAIN admitted' : admitted'[j].client = c /\ admitted'[j].at = t} = J
        BY <1>n, <2>3, <2>4, <3>4
      <4>2. LetIn(c, t)' = Cardinality(J)
        BY <4>1 DEF LetIn
      <4> QED
        BY <2>2, <3>1, <3>4, <4>2
    <3> QED
      BY <3>3, <3>4
  <2>7. LimitsHold'
    <3> SUFFICES ASSUME NEW i \in DOMAIN admitted', ~ admitted'[i].late,
                        NEW l \in LimitsOf[admitted'[i].route], \A r \in Routes : l[2] <= MaxWindow(r)
                 PROVE  Cardinality({j \in 1 .. i - 1 : /\ admitted'[j].client = admitted'[i].client
                                                        /\ admitted'[i].at < admitted'[j].at + l[2]}) < l[1]
      BY DEF LimitsHold
    <3>1. CASE i \in 1 .. n
      <4>1. /\ admitted'[i] = admitted[i] /\ i \in DOMAIN admitted
            /\ \A j \in 1 .. i - 1 : admitted'[j] = admitted[j]
        BY <1>n, <2>4, <3>1
      <4>2. {j \in 1 .. i - 1 : /\ admitted'[j].client = admitted'[i].client
                                /\ admitted'[i].at < admitted'[j].at + l[2]}
              = {j \in 1 .. i - 1 : /\ admitted[j].client = admitted[i].client
                                    /\ admitted[i].at < admitted[j].at + l[2]}
        BY <4>1
      <4>3. ~ admitted[i].late /\ l \in LimitsOf[admitted[i].route]
        BY <4>1
      <4> QED
        BY <1>0, <4>1, <4>2, <4>3, EarlierHold
    <3>2. CASE i = n + 1
      <4>0. admitted'[i] = entry
        BY <2>4, <3>2
      <4>1. admitted'[i] = entry /\ newest <= h.at /\ l \in LimitsOf[h.route]
        <5>1. ~ entry.late /\ l \in LimitsOf[entry.route]
          BY <4>0
        <5> QED
          BY <1>1, <2>3, <4>0, <5>1
      <4>2. Within(left[h.client], h.at, l[2]) < l[1] /\ l[2] \in Nat
        BY <1>1, <1>8, <4>1, LimiterAssumption
      <4>3. Cardinality({j \in DOMAIN admitted : admitted[j].client = h.client /\ h.at < admitted[j].at + l[2]})
              = Within(left[h.client], h.at, l[2])
        BY <1>0, <1>1, <4>1, <4>2, CountedAreLetIn
      <4>4. {j \in 1 .. i - 1 : /\ admitted'[j].client = admitted'[i].client
                                /\ admitted'[i].at < admitted'[j].at + l[2]}
              = {j \in DOMAIN admitted : admitted[j].client = h.client /\ h.at < admitted[j].at + l[2]}
        <5>1. i - 1 = n
          BY <1>n, <3>2
        <5> QED
          BY <1>n, <2>3, <2>4, <4>1, <5>1
      <4> QED
        BY <4>2, <4>3, <4>4
    <3> QED
      BY <1>n, <2>4, <3>1, <3>2
  <2> QED
    BY <2>5, <2>6, <2>7 DEF LimiterInv
<1> QED
  BY <1>7, <1>8

\* Every step keeps the invariant.
LEMMA LimiterStep == LimiterInv /\ [LimiterNext]_limiterVars => LimiterInv'
<1> SUFFICES ASSUME LimiterInv, [LimiterNext]_limiterVars PROVE LimiterInv'
  OBVIOUS
<1>0. LimiterTypeOK /\ HitsRemembered /\ LimitsHold
  BY DEF LimiterInv
<1>1. ASSUME LimiterTypeOK', UNCHANGED <<hits, newest, admitted>> PROVE LimiterInv'
  <2>1. HitsRemembered'
    BY <1>0, <1>1 DEF HitsRemembered, LetIn
  <2>2. LimitsHold'
    BY <1>0, <1>1 DEF LimitsHold
  <2> QED
    BY <1>1, <2>1, <2>2 DEF LimiterInv
<1>2. CASE Tick
  <2>1. clock' \in Times
    BY <1>0, <1>2, LimiterAssumption DEF Tick, LimiterTypeOK, Times
  <2>2. UNCHANGED <<hits, waiting, newest, admitted>>
    BY <1>2 DEF Tick
  <2>3. LimiterTypeOK'
    BY <1>0, <2>1, <2>2 DEF LimiterTypeOK
  <2> QED
    BY <1>1, <2>2, <2>3
<1>3. ASSUME NEW t \in Threads, NEW c \in Clients, NEW r \in Routes, ReadClock(t, c, r) PROVE LimiterInv'
  <2>1. [client |-> c, route |-> r, at |-> clock] \in Hit
    BY <1>0 DEF Hit, LimiterTypeOK
  <2>2. UNCHANGED <<clock, hits, newest, admitted>>
    BY <1>3 DEF ReadClock
  <2>3. waiting' \in [Threads -> Hit \cup {NoHit}]
    BY <1>0, <1>3, <2>1 DEF ReadClock, LimiterTypeOK
  <2>4. LimiterTypeOK'
    BY <1>0, <2>2, <2>3 DEF LimiterTypeOK
  <2> QED
    BY <1>1, <2>2, <2>4
<1>4. ASSUME NEW t \in Threads, CheckLimit(t) PROVE LimiterInv'
  BY <1>4, CheckLimitStep
<1>5. CASE UNCHANGED limiterVars
  <2>1. UNCHANGED <<hits, newest, admitted>>
    BY <1>5 DEF limiterVars
  <2>2. LimiterTypeOK'
    BY <1>0, <1>5 DEF LimiterTypeOK, limiterVars
  <2> QED
    BY <1>1, <2>1, <2>2
<1> QED
  BY <1>2, <1>3, <1>4, <1>5 DEF LimiterNext

\* Nothing was let in at first.
LEMMA LimiterStart == LimiterInit => LimiterInv
<1> SUFFICES ASSUME LimiterInit PROVE LimiterInv
  OBVIOUS
<1>1. admitted = <<>> /\ <<>> \in Seq(Admitted) /\ DOMAIN admitted = {}
  BY DEF LimiterInit
<1>2. LimiterTypeOK
  BY <1>1, LimiterAssumption DEF LimiterInit, LimiterTypeOK, Times
<1>3. LimitsHold
  BY <1>1 DEF LimitsHold
<1>4. HitsRemembered
  <2> SUFFICES ASSUME NEW c \in Clients, NEW t \in Times PROVE hits[c][t] = LetIn(c, t)
    BY DEF HitsRemembered
  <2>1. {j \in DOMAIN admitted : admitted[j].client = c /\ admitted[j].at = t} = {}
    BY <1>1
  <2>2. LetIn(c, t) = 0
    BY <2>1, FS_EmptySet DEF LetIn
  <2> QED
    BY <2>2 DEF LimiterInit
<1> QED
  BY <1>2, <1>3, <1>4 DEF LimiterInv

\* The inductive invariant of the limiter.
THEOREM LimiterInvariant == LimiterSpec => []LimiterInv
  BY LimiterStart, LimiterStep, PTL DEF LimiterSpec

\* The variables keep their types.
THEOREM LimiterTypes == LimiterSpec => []LimiterTypeOK
<1>1. LimiterInv => LimiterTypeOK
  BY DEF LimiterInv
<1> QED
  BY <1>1, LimiterInvariant, PTL

\* For any clients, routes and limits, whichever routes a client asks for, no
\* more of its requests get through within a window than the limit allows, for
\* the windows every route remembers and requests that came in order.
THEOREM LimitsAlwaysHold == LimiterSpec => []LimitsHold
<1>1. LimiterInv => LimitsHold
  BY DEF LimiterInv
<1> QED
  BY <1>1, LimiterInvariant, PTL

-----------------------------------------------------------------------------
(***************************************************************************)
(* ORDER                                                                   *)
(***************************************************************************)

\* What the positions rest on, in parts.
OrderRows ==
    /\ listed \in [ListRecords -> {"row"} \cup Absent]
    /\ position \in [ListRecords -> Nat]
    /\ move \in [Movers -> ListMove \cup {NoCall}]

\* What a mover has read lists no record twice and has the record that moves.
ListFits(m) ==
    IsInjective(m.ids) /\ (m.ids # <<>> => \E i \in DOMAIN m.ids : m.ids[i] = m.record)
MovesFit == \A c \in Movers : move[c] # NoCall => ListFits(move[c])

OrderInv == OrderTypeOK /\ PositionsRun

LEMMA OrderParts == OrderInv <=> OrderRows /\ MovesFit /\ PositionsRun
BY DEF OrderInv, OrderTypeOK, OrderRows, MovesFit, ListFits

-----------------------------------------------------------------------------
(* The order of a list.                                                    *)

Rank(r) == Cardinality({s \in Present : Precedes(s, r)})

\* Each record has the rank of those before it: 0, 1, 2, ...
LEMMA RanksRun ==
  ASSUME OrderRows
  PROVE  /\ IsFiniteSet(Present) /\ Cardinality(Present) \in Nat
         /\ \A r \in Present : Rank(r) \in 0 .. Cardinality(Present) - 1
         /\ \A r, s \in Present : Rank(r) = Rank(s) => r = s
         /\ \A n \in 0 .. Cardinality(Present) - 1 : \E r \in Present : Rank(r) = n
<1> DEFINE Before(r) == {s \in Present : Precedes(s, r)}
           N == Cardinality(Present)
<1>1. Present \subseteq ListRecords /\ Present \subseteq Nat
  BY RecordOrderAssumption DEF Present
<1>2. IsFiniteSet(Present) /\ N \in Nat
  BY <1>1, RecordOrderAssumption, FS_Subset, FS_CardinalityType
<1>3. \A r \in Present : position[r] \in Nat /\ r \in Nat
  BY <1>1 DEF OrderRows
<1>4. \A r, s \in Present : r # s => Precedes(r, s) \/ Precedes(s, r)
  BY <1>3 DEF Precedes
<1>5. \A r \in Present : ~ Precedes(r, r)
  BY <1>3 DEF Precedes
<1>6. \A r, s, t \in Present : Precedes(r, s) /\ Precedes(s, t) => Precedes(r, t)
  BY <1>3 DEF Precedes
<1>7. \A r \in Present : Before(r) \subseteq Present /\ IsFiniteSet(Before(r)) /\ r \notin Before(r)
  BY <1>2, <1>5, FS_Subset
<1>8. ASSUME NEW r \in Present PROVE Rank(r) \in 0 .. N - 1
  <2>1. Before(r) \subseteq Present \ {r}
    BY <1>7
  <2>2. IsFiniteSet(Present \ {r}) /\ Cardinality(Present \ {r}) = N - 1
    BY <1>2, FS_RemoveElement
  <2>3. Cardinality(Before(r)) <= N - 1 /\ Cardinality(Before(r)) \in Nat
    BY <1>7, <2>1, <2>2, FS_Subset, FS_CardinalityType
  <2> QED
    BY <1>2, <2>3 DEF Rank
<1>9. ASSUME NEW r \in Present, NEW s \in Present, Precedes(r, s) PROVE Rank(r) < Rank(s)
  <2>1. Before(r) \subseteq Before(s) \ {r}
    BY <1>5, <1>6, <1>9
  <2>2. r \in Before(s)
    BY <1>9
  <2>3. IsFiniteSet(Before(s) \ {r}) /\ Cardinality(Before(s) \ {r}) = Cardinality(Before(s)) - 1
    BY <1>7, <2>2, FS_RemoveElement
  <2>4. Cardinality(Before(r)) <= Cardinality(Before(s)) - 1
    BY <2>1, <2>3, FS_Subset
  <2>5. Cardinality(Before(r)) \in Nat /\ Cardinality(Before(s)) \in Nat
    BY <1>7, FS_CardinalityType
  <2> QED
    BY <2>4, <2>5 DEF Rank
<1>10. ASSUME NEW r \in Present, NEW s \in Present, Rank(r) = Rank(s) PROVE r = s
  <2> SUFFICES ASSUME r # s PROVE FALSE
    OBVIOUS
  <2>1. Rank(r) < Rank(s) \/ Rank(s) < Rank(r)
    BY <1>4, <1>9
  <2>2. Rank(r) \in Nat /\ Rank(s) \in Nat
    BY <1>2, <1>8
  <2> QED
    BY <1>10, <2>1, <2>2
<1>11. \A n \in 0 .. N - 1 : \E r \in Present : Rank(r) = n
  <2> DEFINE f == [r \in Present |-> Rank(r)]
  <2>1. f \in Injection(Present, 0 .. N - 1)
    BY <1>8, <1>10 DEF Injection, IsInjective
  <2>2. IsFiniteSet(0 .. N - 1) /\ Cardinality(0 .. N - 1) = N
    <3>1. 0 \in Int /\ N - 1 \in Int
      BY <1>2
    <3>2. IsFiniteSet(0 .. N - 1) /\ Cardinality(0 .. N - 1) = IF 0 > N - 1 THEN 0 ELSE N - 1 - 0 + 1
      BY ONLY <3>1, FS_Interval
    <3>3. (IF 0 > N - 1 THEN 0 ELSE N - 1 - 0 + 1) = N
      BY <1>2
    <3> QED
      BY ONLY <3>2, <3>3
  <2>3. f \in Surjection(Present, 0 .. N - 1)
    BY <2>1, <2>2, FS_Injection
  <2> QED
    BY <2>3 DEF Surjection
<1> QED
  BY <1>2, <1>8, <1>10, <1>11

\* The list is one of all records, none twice.
LEMMA OrderedIds ==
  ASSUME OrderRows
  PROVE  /\ ordered_ids \in Seq(ListRecords) /\ IsInjective(ordered_ids)
         /\ \A r \in Present : \E i \in DOMAIN ordered_ids : ordered_ids[i] = r
<1> DEFINE N == Cardinality(Present)
           Nth(i) == CHOOSE r \in Present : Rank(r) = i - 1
<1>1. /\ N \in Nat
      /\ \A r \in Present : Rank(r) \in 0 .. N - 1
      /\ \A r, s \in Present : Rank(r) = Rank(s) => r = s
      /\ \A n \in 0 .. N - 1 : \E r \in Present : Rank(r) = n
  BY RanksRun
<1>2. ordered_ids = [i \in 1 .. N |-> Nth(i)]
  BY DEF ordered_ids, Rank
<1>3. ASSUME NEW i \in 1 .. N PROVE Nth(i) \in Present /\ Rank(Nth(i)) = i - 1
  <2>1. i - 1 \in 0 .. N - 1
    BY <1>1
  <2> QED
    BY <1>1, <2>1
<1> HIDE DEF Nth
<1>4. Present \subseteq ListRecords
  BY DEF Present
<1>5. ordered_ids \in [1 .. N -> ListRecords]
  BY <1>2, <1>3, <1>4
<1>6. ordered_ids \in Seq(ListRecords)
  BY <1>1, <1>5, SeqDef
<1>7. IsInjective(ordered_ids)
  <2> SUFFICES ASSUME NEW i \in 1 .. N, NEW j \in 1 .. N, Nth(i) = Nth(j) PROVE i = j
    BY <1>2 DEF IsInjective
  <2>1. i - 1 = j - 1
    BY <1>3
  <2> QED
    BY <2>1
<1>8. ASSUME NEW r \in Present PROVE \E i \in 1 .. N : ordered_ids[i] = r
  <2> DEFINE i == Rank(r) + 1
  <2>1. i \in 1 .. N /\ i - 1 = Rank(r)
    BY <1>1
  <2>2. Nth(i) = r
    BY <1>1, <1>3, <2>1
  <2> QED
    BY <1>2, <2>1, <2>2
<1> QED
  BY <1>2, <1>6, <1>7, <1>8

LEMMA PlaceIsThere ==
  ASSUME NEW ids \in Seq(ListRecords), NEW r, \E i \in DOMAIN ids : ids[i] = r
  PROVE  Place(ids, r) \in 1 .. Len(ids) /\ ids[Place(ids, r)] = r
BY DEF Place

\* A record put elsewhere: the list has the same records, none twice.
LEMMA ReorderKeeps ==
  ASSUME NEW ids \in Seq(ListRecords), IsInjective(ids), NEW r \in ListRecords,
         \E i \in DOMAIN ids : ids[i] = r, NEW target \in Int
  PROVE  /\ Reorder(ids, r, target) \in Seq(ListRecords) /\ IsInjective(Reorder(ids, r, target))
         /\ Len(Reorder(ids, r, target)) = Len(ids)
<1> DEFINE here == Place(ids, r)
           rest == RemoveAt(ids, here)
           end == Len(rest) + 1
           there == IF target > end THEN end ELSE IF target < 1 THEN 1 ELSE target
           new == Reorder(ids, r, target)
<1>1. here \in 1 .. Len(ids) /\ ids[here] = r /\ Len(ids) \in Nat /\ \A i \in 1 .. Len(ids) : ids[i] \in ListRecords
  <2>1. here \in 1 .. Len(ids) /\ ids[here] = r
    BY PlaceIsThere
  <2> QED
    BY <2>1, LenProperties, ElementOfSeq
<1>2. new = InsertAt(rest, there, r)
  BY DEF Reorder
<1>3. \A i, j \in 1 .. Len(ids) : ids[i] = ids[j] => i = j
  BY LenProperties DEF IsInjective
<1> HIDE DEF here
<1>4. /\ rest \in Seq(ListRecords) /\ Len(rest) = Len(ids) - 1
      /\ \A i \in 1 .. Len(ids) - 1 : rest[i] = IF i < here THEN ids[i] ELSE ids[i + 1]
  <2> DEFINE left == SubSeq(ids, 1, here - 1)
             right == SubSeq(ids, here + 1, Len(ids))
  <2>1. /\ left \in Seq(ListRecords) /\ Len(left) = here - 1
        /\ \A i \in 1 .. here - 1 : left[i] = ids[i]
    <3>1. here - 1 \in Int /\ 1 \in Int /\ \A i \in 1 .. here - 1 : ids[i] \in ListRecords
      BY <1>1
    <3>2. /\ left \in Seq(ListRecords) /\ Len(left) = IF 1 <= here - 1 THEN here - 1 - 1 + 1 ELSE 0
          /\ \A i \in 1 .. here - 1 - 1 + 1 : left[i] = ids[1 + i - 1]
      BY <3>1, SubSeqProperties
    <3>3. here - 1 - 1 + 1 = here - 1 /\ \A i \in 1 .. here - 1 : 1 + i - 1 = i
      BY <1>1
    <3> QED
      BY <1>1, <3>2, <3>3
  <2>2. /\ right \in Seq(ListRecords) /\ Len(right) = Len(ids) - here
        /\ \A i \in 1 .. Len(ids) - here : right[i] = ids[here + i]
    <3>1. here + 1 \in Int /\ Len(ids) \in Int /\ \A i \in here + 1 .. Len(ids) : ids[i] \in ListRecords
      BY <1>1
    <3>2. /\ right \in Seq(ListRecords)
          /\ Len(right) = IF here + 1 <= Len(ids) THEN Len(ids) - (here + 1) + 1 ELSE 0
          /\ \A i \in 1 .. Len(ids) - (here + 1) + 1 : right[i] = ids[(here + 1) + i - 1]
      BY <3>1, SubSeqProperties
    <3>3. Len(ids) - (here + 1) + 1 = Len(ids) - here
          /\ \A i \in 1 .. Len(ids) - here : (here + 1) + i - 1 = here + i
      BY <1>1
    <3>4. ASSUME NEW i \in 1 .. Len(ids) - here PROVE right[i] = ids[here + i]
      BY <3>2, <3>3
    <3>5. Len(right) = Len(ids) - here
      BY <1>1, <3>2
    <3> QED
      BY <3>2, <3>4, <3>5
  <2>3. rest = left \o right
    BY DEF RemoveAt
  <2> HIDE DEF left, right, rest
  <2>4. /\ rest \in Seq(ListRecords) /\ Len(rest) = Len(left) + Len(right)
        /\ \A i \in 1 .. Len(left) + Len(right) :
              rest[i] = IF i <= Len(left) THEN left[i] ELSE right[i - Len(left)]
    BY <2>1, <2>2, <2>3, ConcatProperties
  <2>5. Len(left) + Len(right) = Len(ids) - 1
    BY <1>1, <2>1, <2>2
  <2>6. ASSUME NEW i \in 1 .. Len(ids) - 1 PROVE rest[i] = IF i < here THEN ids[i] ELSE ids[i + 1]
    <3>1. CASE i < here
      BY <1>1, <2>1, <2>4, <2>5, <3>1
    <3>2. CASE ~ (i < here)
      <4>1. i - Len(left) \in 1 .. Len(ids) - here /\ here + (i - Len(left)) = i + 1 /\ ~ (i <= Len(left))
        BY <1>1, <2>1, <3>2
      <4>2. rest[i] = right[i - Len(left)]
        BY <2>4, <2>5, <4>1
      <4>3. right[i - Len(left)] = ids[i + 1]
        BY <2>2, <4>1
      <4> QED
        BY <3>2, <4>2, <4>3
    <3> QED
      BY <3>1, <3>2
  <2> QED
    BY <2>4, <2>5, <2>6
<1> HIDE DEF rest
<1>5. there \in 1 .. Len(ids)
  BY <1>1, <1>4
<1> HIDE DEF there, end
<1>6. /\ new \in Seq(ListRecords) /\ Len(new) = Len(ids)
      /\ \A i \in 1 .. Len(ids) : new[i] = IF i < there THEN rest[i] ELSE IF i = there THEN r ELSE rest[i - 1]
  <2> DEFINE left == SubSeq(rest, 1, there - 1)
             right == SubSeq(rest, there, Len(rest))
             start == left \o <<r>>
  <2>0. Len(rest) \in Nat /\ \A i \in 1 .. Len(rest) : rest[i] \in ListRecords
    BY <1>4, LenProperties, ElementOfSeq
  <2>1. /\ left \in Seq(ListRecords) /\ Len(left) = there - 1
        /\ \A i \in 1 .. there - 1 : left[i] = rest[i]
    <3>1. there - 1 \in Int /\ 1 \in Int /\ \A i \in 1 .. there - 1 : rest[i] \in ListRecords
      BY <1>1, <1>4, <1>5, <2>0
    <3>2. /\ left \in Seq(ListRecords) /\ Len(left) = IF 1 <= there - 1 THEN there - 1 - 1 + 1 ELSE 0
          /\ \A i \in 1 .. there - 1 - 1 + 1 : left[i] = rest[1 + i - 1]
      BY <3>1, SubSeqProperties
    <3>3. there - 1 - 1 + 1 = there - 1 /\ \A i \in 1 .. there - 1 : 1 + i - 1 = i
      BY <1>1, <1>5
    <3> QED
      BY <1>1, <1>5, <3>2, <3>3
  <2>2. /\ right \in Seq(ListRecords) /\ Len(right) = Len(ids) - there
        /\ \A i \in 1 .. Len(ids) - there : right[i] = rest[there + i - 1]
    <3>1. there \in Int /\ Len(rest) \in Int /\ \A i \in there .. Len(rest) : rest[i] \in ListRecords
      BY <1>1, <1>5, <2>0
    <3>2. /\ right \in Seq(ListRecords)
          /\ Len(right) = IF there <= Len(rest) THEN Len(rest) - there + 1 ELSE 0
          /\ \A i \in 1 .. Len(rest) - there + 1 : right[i] = rest[there + i - 1]
      BY <3>1, SubSeqProperties
    <3>3. Len(rest) - there + 1 = Len(ids) - there
      BY <1>1, <1>4, <1>5
    <3> QED
      BY <1>1, <1>4, <1>5, <3>2, <3>3
  <2>3. new = start \o right
    BY <1>2 DEF InsertAt
  <2> HIDE DEF left, right, new
  <2>4. <<r>> \in Seq(ListRecords) /\ Len(<<r>>) = 1 /\ <<r>>[1] = r
    OBVIOUS
  <2>5. /\ start \in Seq(ListRecords) /\ Len(start) = there
        /\ \A i \in 1 .. there : start[i] = IF i < there THEN rest[i] ELSE r
    <3>1. /\ start \in Seq(ListRecords) /\ Len(start) = Len(left) + Len(<<r>>)
          /\ \A i \in 1 .. Len(left) + Len(<<r>>) :
                start[i] = IF i <= Len(left) THEN left[i] ELSE <<r>>[i - Len(left)]
      BY <2>1, <2>4, ConcatProperties
    <3>2. Len(left) + Len(<<r>>) = there
      BY <1>1, <1>5, <2>1, <2>4
    <3>3. ASSUME NEW i \in 1 .. there PROVE start[i] = IF i < there THEN rest[i] ELSE r
      <4>1. CASE i < there
        BY <1>1, <1>5, <2>1, <3>1, <3>2, <4>1
      <4>2. CASE ~ (i < there)
        <5>1. i - Len(left) = 1 /\ ~ (i <= Len(left))
          BY <1>1, <1>5, <2>1, <4>2
        <5> QED
          BY <2>4, <3>1, <3>2, <4>2, <5>1
      <4> QED
        BY <4>1, <4>2
    <3> QED
      BY <3>1, <3>2, <3>3
  <2> HIDE DEF start
  <2>6. /\ new \in Seq(ListRecords) /\ Len(new) = Len(start) + Len(right)
        /\ \A i \in 1 .. Len(start) + Len(right) :
              new[i] = IF i <= Len(start) THEN start[i] ELSE right[i - Len(start)]
    BY <2>2, <2>3, <2>5, ConcatProperties
  <2>7. Len(start) + Len(right) = Len(ids)
    BY <1>1, <1>5, <2>2, <2>5
  <2>8. ASSUME NEW i \in 1 .. Len(ids)
        PROVE  new[i] = IF i < there THEN rest[i] ELSE IF i = there THEN r ELSE rest[i - 1]
    <3>1. CASE i <= there
      BY <1>1, <1>5, <2>5, <2>6, <2>7, <3>1
    <3>2. CASE ~ (i <= there)
      <4>1. i - Len(start) \in 1 .. Len(ids) - there /\ there + (i - Len(start)) - 1 = i - 1
        BY <1>1, <1>5, <2>5, <3>2
      <4>2. new[i] = right[i - Len(start)]
        BY <1>5, <2>5, <2>6, <2>7, <3>2
      <4>3. right[i - Len(start)] = rest[i - 1]
        BY <2>2, <4>1
      <4> QED
        BY <1>1, <1>5, <3>2, <4>2, <4>3
    <3> QED
      BY <3>1, <3>2
  <2> QED
    BY <2>6, <2>7, <2>8
<1> HIDE DEF new
<1> DEFINE Source(i) == IF i < here THEN i ELSE i + 1
<1>0. \A i \in 1 .. Len(ids) - 1 :
         Source(i) \in 1 .. Len(ids) /\ Source(i) # here /\ rest[i] = ids[Source(i)]
  BY <1>1, <1>4
<1>7. ASSUME NEW i \in 1 .. Len(ids) - 1, NEW j \in 1 .. Len(ids) - 1, rest[i] = rest[j] PROVE i = j
  <2>1. Source(i) = Source(j)
    BY <1>3, <1>7, <1>0
  <2> QED
    BY <1>1, <2>1
<1>8. \A i \in 1 .. Len(ids) - 1 : rest[i] # r
  BY <1>1, <1>3, <1>0
<1>9. ASSUME NEW i \in 1 .. Len(ids), NEW j \in 1 .. Len(ids), new[i] = new[j] PROVE i = j
  <2> DEFINE From(k) == IF k < there THEN k ELSE k - 1
  <2>1. \A k \in 1 .. Len(ids) : k # there => From(k) \in 1 .. Len(ids) - 1 /\ new[k] = rest[From(k)]
    BY <1>1, <1>5, <1>6
  <2>2. \A k \in 1 .. Len(ids) : k # there => new[k] # r
    BY <1>8, <2>1
  <2>3. new[there] = r
    BY <1>1, <1>5, <1>6
  <2>4. CASE i = there \/ j = there
    BY <1>9, <2>2, <2>3, <2>4
  <2>5. CASE i # there /\ j # there
    <3>1. From(i) = From(j)
      BY <1>7, <1>9, <2>1, <2>5
    <3> QED
      BY <1>1, <1>5, <2>5, <3>1
  <2> QED
    BY <2>4, <2>5
<1>10. IsInjective(new)
  <2>1. DOMAIN new = 1 .. Len(ids)
    BY <1>6, LenProperties
  <2> QED
    BY <1>9, <2>1 DEF IsInjective
<1> QED
  BY <1>6, <1>10 DEF new

-----------------------------------------------------------------------------
(* The steps.                                                              *)

\* A mover remembers a list that fits, or none.
LEMMA MoveSet ==
  ASSUME OrderRows, MovesFit, NEW c \in Movers, NEW m \in ListMove \cup {NoCall}, m # NoCall => ListFits(m),
         move' = [move EXCEPT ![c] = m]
  PROVE  move' \in [Movers -> ListMove \cup {NoCall}] /\ MovesFit'
<1>1. /\ move' \in [Movers -> ListMove \cup {NoCall}] /\ move'[c] = m
      /\ \A d \in Movers \ {c} : move'[d] = move[d]
  BY DEF OrderRows
<1>2. ASSUME NEW d \in Movers, move'[d] # NoCall PROVE ListFits(move'[d])
  <2>1. CASE d = c
    BY <1>1, <1>2, <2>1
  <2>2. CASE d # c
    BY <1>1, <1>2, <2>2 DEF MovesFit
  <2> QED
    BY <2>1, <2>2
<1> QED
  BY <1>1, <1>2 DEF MovesFit, ListFits

LEMMA RecordSteps ==
  ASSUME OrderRows, MovesFit, PositionsRun, NEW r \in ListRecords, AddRecord(r) \/ DeleteRecord(r)
  PROVE  OrderRows' /\ MovesFit' /\ PositionsRun'
<1>1. position' = position /\ move' = move
  BY DEF AddRecord, DeleteRecord
<1>2. listed' \in [ListRecords -> {"row"} \cup Absent]
  BY DEF AddRecord, DeleteRecord, OrderRows, Absent
<1>3. OrderRows'
  BY <1>1, <1>2 DEF OrderRows
<1>4. MovesFit'
  BY <1>1 DEF MovesFit, ListFits
<1>5. PositionsRun'
  BY <1>1 DEF PositionsRun, Placed
<1> QED
  BY <1>3, <1>4, <1>5

LEMMA ReadSteps ==
  ASSUME OrderRows, MovesFit, PositionsRun, NEW c \in Movers,
         \/ \E r \in ListRecords, target \in Targets : ReadMove(c, r, target)
         \/ \E r \in ListRecords, direction \in {"up", "down"} : BeginStep(c, r, direction)
         \/ ReadStep(c)
  PROVE  OrderRows' /\ MovesFit' /\ PositionsRun'
<1>1. listed' = listed /\ position' = position
  BY DEF ReadMove, BeginStep, ReadStep
<1>2. /\ ordered_ids \in Seq(ListRecords) /\ IsInjective(ordered_ids)
      /\ \A r \in Present : \E i \in DOMAIN ordered_ids : ordered_ids[i] = r
  BY OrderedIds
<1>3. <<>> \in Seq(ListRecords) /\ IsInjective(<<>>)
  BY DEF IsInjective
<1>4. \E m \in ListMove \cup {NoCall} : (m # NoCall => ListFits(m)) /\ move' = [move EXCEPT ![c] = m]
  <2>1. ASSUME NEW r \in ListRecords, NEW target \in Targets, ReadMove(c, r, target)
        PROVE  \E m \in ListMove \cup {NoCall} : (m # NoCall => ListFits(m)) /\ move' = [move EXCEPT ![c] = m]
    <3> DEFINE m == [record |-> r, target |-> target, ids |-> ordered_ids]
    <3>1. m \in ListMove
      BY <1>2, RecordOrderAssumption DEF ListMove
    <3>2. r \in Present /\ move' = [move EXCEPT ![c] = m]
      BY <2>1 DEF ReadMove
    <3>3. ListFits(m)
      BY <1>2, <3>2 DEF ListFits
    <3> QED
      BY <3>1, <3>2, <3>3
  <2>2. ASSUME NEW r \in ListRecords, NEW direction \in {"up", "down"}, BeginStep(c, r, direction)
        PROVE  \E m \in ListMove \cup {NoCall} : (m # NoCall => ListFits(m)) /\ move' = [move EXCEPT ![c] = m]
    <3> DEFINE here == Place(ordered_ids, r)
               target == IF direction = "up" THEN here - 1 ELSE here + 1
               m == [record |-> r, target |-> target, ids |-> <<>>]
    <3>1. r \in Present /\ move' = [move EXCEPT ![c] = m]
      BY <2>2 DEF BeginStep
    <3>2. here \in 1 .. Len(ordered_ids) /\ Len(ordered_ids) \in Nat
      BY <1>2, <3>1, PlaceIsThere, LenProperties
    <3>3. target \in Int
      BY <3>2
    <3>4. m \in ListMove
      BY <1>3, <3>3 DEF ListMove
    <3>5. ListFits(m)
      BY <1>3 DEF ListFits
    <3> QED
      BY <3>1, <3>4, <3>5
  <2>3. ASSUME ReadStep(c)
        PROVE  \E m \in ListMove \cup {NoCall} : (m # NoCall => ListFits(m)) /\ move' = [move EXCEPT ![c] = m]
    <3>1. move[c] \in ListMove
      BY <2>3 DEF OrderRows, ReadStep
    <3>2. CASE move[c].record \in Present
      <4> DEFINE m == [move[c] EXCEPT !.ids = ordered_ids]
      <4>1. m \in ListMove /\ m.record = move[c].record /\ m.ids = ordered_ids
        BY <1>2, <3>1 DEF ListMove
      <4>2. ListFits(m)
        BY <1>2, <3>2, <4>1 DEF ListFits
      <4>3. move' = [move EXCEPT ![c] = m]
        BY <2>3, <3>2 DEF ReadStep, OrderRows
      <4> QED
        BY <4>1, <4>2, <4>3
    <3>3. CASE move[c].record \notin Present
      BY <2>3, <3>3 DEF ReadStep
    <3> QED
      BY <3>2, <3>3
  <2> QED
    BY <2>1, <2>2, <2>3
<1>5. move' \in [Movers -> ListMove \cup {NoCall}] /\ MovesFit'
  BY <1>4, MoveSet
<1>6. OrderRows'
  BY <1>1, <1>5 DEF OrderRows
<1>7. PositionsRun'
  BY <1>1 DEF PositionsRun, Placed
<1> QED
  BY <1>5, <1>6, <1>7

\* Each record of the list gets its place, the others none.
LEMMA PersistStep ==
  ASSUME OrderRows, MovesFit, PositionsRun, NEW c \in Movers, Persist(c)
  PROVE  OrderRows' /\ MovesFit' /\ PositionsRun'
<1> DEFINE ids == Reorder(move[c].ids, move[c].record, move[c].target)
           N == Len(ids)
<1>1. /\ move[c] \in ListMove /\ move[c] # NoCall /\ move[c].ids # <<>> /\ ListFits(move[c])
      /\ position' = [r \in ListRecords |-> IF \E i \in DOMAIN ids : ids[i] = r THEN Place(ids, r) ELSE 0]
      /\ move' = [move EXCEPT ![c] = NoCall] /\ listed' = listed
  BY DEF Persist, OrderRows, MovesFit
<1>2. ids \in Seq(ListRecords) /\ IsInjective(ids)
  BY <1>1, ReorderKeeps DEF ListMove, ListFits
<1> HIDE DEF ids
<1>3. /\ N \in Nat /\ DOMAIN ids = 1 .. N /\ \A i \in 1 .. N : ids[i] \in ListRecords
      /\ \A i, j \in 1 .. N : ids[i] = ids[j] => i = j
  BY <1>2, LenProperties, ElementOfSeq DEF IsInjective
<1>4. \A r \in ListRecords : (\E i \in 1 .. N : ids[i] = r) => Place(ids, r) \in 1 .. N /\ ids[Place(ids, r)] = r
  BY <1>2, <1>3, PlaceIsThere
<1>5. \A r \in ListRecords :
         /\ position'[r] \in 0 .. N
         /\ position'[r] # 0 => ids[position'[r]] = r
         /\ \A i \in 1 .. N : ids[i] = r => position'[r] = i
  BY <1>1, <1>3, <1>4
<1>6. OrderRows' /\ MovesFit'
  <2>1. position' \in [ListRecords -> Nat]
    BY <1>1, <1>3, <1>5
  <2>2. move' \in [Movers -> ListMove \cup {NoCall}] /\ MovesFit'
    BY <1>1, MoveSet
  <2> QED
    BY <1>1, <2>1, <2>2 DEF OrderRows
<1>7. PositionsRun'
  <2> DEFINE S == {r \in ListRecords : position'[r] # 0}
  <2>1. {position'[r] : r \in S} = 1 .. N
    <3>1. \A r \in S : position'[r] \in 1 .. N
      BY <1>3, <1>5
    <3>2. ASSUME NEW i \in 1 .. N PROVE \E r \in S : position'[r] = i
      <4>1. ids[i] \in ListRecords /\ position'[ids[i]] = i
        BY <1>3, <1>5
      <4>2. ids[i] \in S
        BY <1>3, <4>1
      <4> QED
        BY <4>1, <4>2
    <3> QED
      BY <3>1, <3>2
  <2>2. Cardinality(S) = N
    <3> DEFINE f == [r \in S |-> position'[r]]
    <3>1. f \in [S -> 1 .. N] /\ \A r \in S : f[r] = position'[r]
      BY <1>3, <1>5
    <3>2. \A r, s \in S : f[r] = f[s] => r = s
      <4> SUFFICES ASSUME NEW r \in S, NEW s \in S, position'[r] = position'[s] PROVE r = s
        BY <3>1
      <4>1. ids[position'[r]] = r /\ ids[position'[s]] = s
        BY <1>5
      <4> QED
        BY <4>1
    <3>3. f \in Injection(S, 1 .. N)
      BY <3>1, <3>2 DEF Injection, IsInjective
    <3>4. f \in Surjection(S, 1 .. N)
      BY <2>1, <3>1 DEF Surjection
    <3>5. IsFiniteSet(1 .. N) /\ Cardinality(1 .. N) = N
      BY <1>3, FS_Interval
    <3> QED
      BY <3>3, <3>4, <3>5, FS_Injection
  <2> QED
    BY <2>1, <2>2 DEF PositionsRun, Placed
<1> QED
  BY <1>6, <1>7

LEMMA OrderStart == ASSUME OrderInit PROVE OrderInv
<1>1. OrderRows
  BY DEF OrderInit, OrderRows, Absent
<1>2. MovesFit
  BY DEF OrderInit, MovesFit
<1>3. Placed = {}
  BY DEF OrderInit, Placed
<1>4. PositionsRun
  <2>1. Cardinality(Placed) = 0
    BY <1>3, FS_EmptySet
  <2>2. 1 .. 0 = {}
    OBVIOUS
  <2> QED
    BY <1>3, <2>1, <2>2 DEF PositionsRun
<1> QED
  BY <1>1, <1>2, <1>4, OrderParts

LEMMA OrderStep == ASSUME OrderInv, [OrderNext]_orderVars PROVE OrderInv'
<1>0. OrderRows /\ MovesFit /\ PositionsRun
  BY OrderParts
<1>1. CASE \E r \in ListRecords : AddRecord(r) \/ DeleteRecord(r)
  <2>1. OrderRows' /\ MovesFit' /\ PositionsRun'
    BY <1>0, <1>1, RecordSteps
  <2> QED
    BY <2>1, OrderParts, PTL
<1>2. CASE \E c \in Movers : \/ \E r \in ListRecords, target \in Targets : ReadMove(c, r, target)
                             \/ \E r \in ListRecords, direction \in {"up", "down"} : BeginStep(c, r, direction)
                             \/ ReadStep(c)
  <2>1. OrderRows' /\ MovesFit' /\ PositionsRun'
    BY <1>0, <1>2, ReadSteps
  <2> QED
    BY <2>1, OrderParts, PTL
<1>3. CASE \E c \in Movers : Persist(c)
  <2>1. OrderRows' /\ MovesFit' /\ PositionsRun'
    BY <1>0, <1>3, PersistStep
  <2> QED
    BY <2>1, OrderParts, PTL
<1>4. CASE UNCHANGED orderVars
  BY <1>4 DEF orderVars, OrderInv, OrderTypeOK, PositionsRun, Placed
<1> QED
  BY <1>1, <1>2, <1>3, <1>4 DEF OrderNext

THEOREM OrderInvariant == OrderSpec => []OrderInv
<1>1. OrderInit => OrderInv
  BY OrderStart
<1>2. OrderInv /\ [OrderNext]_orderVars => OrderInv'
  BY OrderStep
<1> QED
  BY <1>1, <1>2, PTL DEF OrderSpec

\* The variables of the record order keep their types, and no mover has read a
\* list that names a record twice.
THEOREM OrderTypes == OrderSpec => []OrderTypeOK
<1>1. OrderInv => OrderTypeOK
  BY DEF OrderInv
<1> QED
  BY <1>1, OrderInvariant, PTL

\* However moves overlap and records are deleted (utils/table_order.py): the
\* positions of a list are 1, 2, ... without a hole or a tie.
THEOREM PositionsStayOrdered == OrderSpec => []PositionsRun
<1>1. OrderInv => PositionsRun
  BY DEF OrderInv
<1> QED
  BY <1>1, OrderInvariant, PTL

-----------------------------------------------------------------------------
(***************************************************************************)
(* SESSIONS ON SQLITE ARE ATOMIC UPDATES                                   *)
(***************************************************************************)

\* What the refinement shows of the requests.
ShownState == [u \in PlanUsers |-> StateOf(u)]
ShownUpdate == [u \in PlanUsers |-> IF planRequest[u] = NoCall THEN 0 ELSE planRequest[u].by]

\* A step that changes one request changes what is shown of that one.
LEMMA OneIsShown ==
  ASSUME NEW u \in PlanUsers,
         \A w \in PlanUsers \ {u} : planRequest'[w] = planRequest[w]
  PROVE  /\ ShownState' = [ShownState EXCEPT ![u] = StateOf(u)']
         /\ ShownUpdate' = [ShownUpdate EXCEPT ![u] =
              IF planRequest'[u] = NoCall THEN 0 ELSE planRequest'[u].by]
  BY DEF ShownState, ShownUpdate, StateOf

\* A step that leaves what is shown of its request leaves everything.
LEMMA NothingIsShown ==
  ASSUME NEW u \in PlanUsers,
         \A w \in PlanUsers \ {u} : planRequest'[w] = planRequest[w],
         planRequest[u] # NoCall, planRequest'[u] # NoCall,
         planRequest'[u].by = planRequest[u].by,
         planRequest[u].stage \notin {"done", "failed"},
         planRequest'[u].stage \notin {"done", "failed"}
  PROVE  UNCHANGED <<ShownState, ShownUpdate>>
<1>1. /\ \A w \in PlanUsers : StateOf(w)' = StateOf(w)
      /\ \A w \in PlanUsers : (IF planRequest'[w] = NoCall THEN 0 ELSE planRequest'[w].by)
                            = (IF planRequest[w] = NoCall THEN 0 ELSE planRequest[w].by)
  BY DEF StateOf
<1> QED
  BY <1>1 DEF ShownState, ShownUpdate

\* Asking: a request of an idle user for a change there may be.
LEMMA AuthoriseIsAsk ==
  ASSUME SessionsInv, NEW u \in PlanUsers, NEW by \in Adjustments, Authorise(u, by)
  PROVE  Atomic!Ask(u, by)
<1>1. PICK c \in Available(u) : planRequest' = [planRequest EXCEPT ![u] =
                [stage |-> "authorised", on |-> c, nested |-> FALSE, by |-> by, found |-> NoRow]]
  BY DEF Authorise
<1>2. planRequest[u] = NoCall /\ planRow' = planRow
  BY DEF Authorise
<1> DEFINE r == [stage |-> "authorised", on |-> c, nested |-> FALSE, by |-> by, found |-> NoRow]
<1>3. planRequest'[u] = r /\ \A w \in PlanUsers \ {u} : planRequest'[w] = planRequest[w]
  BY <1>1 DEF SessionsInv, SessionsTypeOK
<1>5. planRequest'[u] # NoCall
  <2>1. SUFFICES r \in PlanRequest
    BY <1>3, SessionsRowAssumption
  <2>2. c \in Connections
    BY <1>1, <1>2 DEF Available, SessionsInv, SessionsTypeOK, Connections
  <2> QED
    BY <2>2 DEF PlanRequest, PlanRow
<1>6. StateOf(u) = "idle" /\ StateOf(u)' = "asked"
  BY <1>2, <1>3, <1>5 DEF StateOf
<1>7. /\ ShownState[u] = "idle" /\ ShownState' = [ShownState EXCEPT ![u] = "asked"]
      /\ ShownUpdate' = [ShownUpdate EXCEPT ![u] = by]
  BY <1>3, <1>5, <1>6, OneIsShown DEF ShownState
<1>8. UNCHANGED Quantity(planRow)
  BY <1>2 DEF Quantity
<1> QED
  BY <1>7, <1>8 DEF Atomic!Ask, ShownState, ShownUpdate

\* What the steps between asking and answering leave of a request: others stay
\* as they are, and so does the change it wants.
Advances(u, stage) ==
    /\ planRequest[u] # NoCall /\ planRequest'[u] # NoCall
    /\ \A w \in PlanUsers \ {u} : planRequest'[w] = planRequest[w]
    /\ planRequest'[u].stage = stage /\ planRequest'[u].by = planRequest[u].by

LEMMA StepAdvances ==
  ASSUME SessionsTypeOK, NEW u \in PlanUsers, planRequest[u] # NoCall,
         NEW stage \in {"begun", "written", "done", "failed"}, Step(u, stage)
  PROVE  Advances(u, stage)
<1>1. planRequest[u] \in PlanRequest
  BY RequestFields
<1>2. /\ planRequest'[u] \in PlanRequest
      /\ planRequest'[u].stage = stage /\ planRequest'[u].by = planRequest[u].by
      /\ \A w \in PlanUsers \ {u} : planRequest'[w] = planRequest[w]
  BY <1>1 DEF SessionsTypeOK, Step, PlanRequest
<1> QED
  BY <1>2, SessionsRowAssumption DEF Advances

\* Beginning, reading and writing are nobody's business but the request's own.
LEMMA WorkIsHidden ==
  ASSUME SessionsInv, NEW u \in PlanUsers,
         BeginWork(u) \/ BeginNested(u) \/ ReadPlanRow(u) \/ WritePlanRow(u)
  PROVE  UNCHANGED Atomic!atomicVars
<1>0. SessionsTypeOK
  BY DEF SessionsInv
<1>1. /\ planRequest[u] # NoCall /\ planRow' = planRow
      /\ planRequest[u].stage \in {"authorised", "begun", "read"}
      /\ planRequest[u] \in PlanRequest
  BY <1>0, RequestFields DEF BeginWork, BeginNested, ReadPlanRow, WritePlanRow, At
<1>2. \E stage \in Working : Advances(u, stage)
  <2>1. CASE BeginWork(u)
    BY <1>0, <1>1, <2>1, StepAdvances DEF BeginWork, Working
  <2>2. CASE BeginNested(u)
    <3>1. /\ planRequest'[u] \in PlanRequest
          /\ planRequest'[u].stage = "begun" /\ planRequest'[u].by = planRequest[u].by
          /\ \A w \in PlanUsers \ {u} : planRequest'[w] = planRequest[w]
      BY <1>0, <1>1, <2>2 DEF SessionsTypeOK, BeginNested, PlanRequest
    <3> QED
      BY <1>1, <3>1, SessionsRowAssumption DEF Advances, Working
  <2>3. CASE ReadPlanRow(u)
    <3>1. Quantity(Of(u).row) \in PlanRow
      BY <1>0, <1>1, RequestFields, ConnectionFields, QuantityType DEF Of
    <3>2. /\ planRequest'[u] \in PlanRequest
          /\ planRequest'[u].stage = "read" /\ planRequest'[u].by = planRequest[u].by
          /\ \A w \in PlanUsers \ {u} : planRequest'[w] = planRequest[w]
      BY <1>0, <1>1, <2>3, <3>1 DEF SessionsTypeOK, ReadPlanRow, PlanRequest
    <3> QED
      BY <1>1, <3>2, SessionsRowAssumption DEF Advances, Working
  <2>4. CASE WritePlanRow(u)
    BY <1>0, <1>1, <2>4, StepAdvances DEF WritePlanRow, Working
  <2> QED
    BY <2>1, <2>2, <2>3, <2>4
<1>3. UNCHANGED <<ShownState, ShownUpdate>>
  BY <1>1, <1>2, NothingIsShown DEF Working, Advances
<1>4. UNCHANGED Quantity(planRow)
  BY <1>1 DEF Quantity
<1> QED
  BY <1>3, <1>4 DEF Atomic!atomicVars, ShownState, ShownUpdate

\* A commit takes effect on the committed quantity, for the row the request has
\* written is that quantity and its own change.
LEMMA EndWorkIsEffect ==
  ASSUME SessionsInv, NEW u \in PlanUsers, EndWork(u), dialect = "sqlite"
  PROVE  Atomic!TakeEffect(u)
<1>0. SessionsTypeOK /\ OwnWork
  BY DEF SessionsInv
<1>1. /\ planRequest[u] # NoCall /\ planRequest[u].stage = "written"
      /\ planRequest[u].by \in Int /\ u \in Connections
  BY <1>0, RequestFields DEF EndWork, At, Connections
<1>2. /\ planRequest[u].on = u /\ ~ planRequest[u].nested
      /\ connection[u].row = Quantity(planRow) + planRequest[u].by
  BY <1>0, <1>1 DEF OwnWork
<1>3. planRow' = connection[u].row /\ Step(u, "done")
  BY <1>2 DEF EndWork, Of
<1>4. Advances(u, "done")
  BY <1>0, <1>1, <1>3, StepAdvances
<1>5. StateOf(u) = "asked" /\ StateOf(u)' = "done"
  BY <1>1, <1>4 DEF StateOf, Advances
<1>6. /\ ShownState[u] = "asked" /\ ShownState' = [ShownState EXCEPT ![u] = "done"]
      /\ ShownUpdate[u] = planRequest[u].by /\ ShownUpdate' = ShownUpdate
  <2>1. /\ ShownState' = [ShownState EXCEPT ![u] = "done"]
        /\ ShownUpdate' = [ShownUpdate EXCEPT ![u] = planRequest[u].by]
    BY <1>4, <1>5, OneIsShown DEF Advances
  <2>2. ShownState[u] = "asked" /\ ShownUpdate[u] = planRequest[u].by
    BY <1>1, <1>5 DEF ShownState, ShownUpdate
  <2>3. [ShownUpdate EXCEPT ![u] = planRequest[u].by] = ShownUpdate
    BY <2>2 DEF ShownUpdate
  <2> QED
    BY <2>1, <2>2, <2>3
<1>7. /\ Quantity(planRow') = Quantity(planRow) + planRequest[u].by
      /\ Quantity(planRow') \in 0 .. MaxPlanQty
  <2>1. Quantity(planRow) \in Int /\ connection[u].row \in PlanRow
    BY <1>0, <1>1, ConnectionFields, QuantityType DEF SessionsTypeOK
  <2>2. connection[u].row # NoRow
    BY <1>1, <1>2, <2>1, SessionsRowAssumption
  <2> QED
    BY <1>2, <1>3, <2>1, <2>2 DEF Quantity, PlanRow
<1>8. Quantity(planRow)' = Quantity(planRow')
  BY DEF Quantity
<1> QED
  BY <1>6, <1>7, <1>8 DEF Atomic!TakeEffect, ShownState, ShownUpdate

\* A request that fails, by an error or because its connection is gone, has
\* changed nothing.
LEMMA FailureIsRefusal ==
  ASSUME SessionsInv, NEW u \in PlanUsers, FailWork(u) \/ LoseConnection(u)
  PROVE  Atomic!Refuse(u)
<1>0. SessionsTypeOK
  BY DEF SessionsInv
<1>1. /\ planRequest[u] # NoCall /\ planRow' = planRow /\ Step(u, "failed")
      /\ planRequest[u].stage \in {"authorised", "begun", "read", "written"}
  BY DEF FailWork, LoseConnection, At
<1>2. Advances(u, "failed")
  BY <1>0, <1>1, StepAdvances
<1>3. StateOf(u) = "asked" /\ StateOf(u)' = "failed"
  BY <1>1, <1>2 DEF StateOf, Advances
<1>4. /\ ShownState[u] = "asked" /\ ShownState' = [ShownState EXCEPT ![u] = "failed"]
      /\ ShownUpdate' = ShownUpdate
  <2>1. /\ ShownState' = [ShownState EXCEPT ![u] = "failed"]
        /\ ShownUpdate' = [ShownUpdate EXCEPT ![u] = planRequest[u].by]
    BY <1>2, <1>3, OneIsShown DEF Advances
  <2>2. ShownState[u] = "asked" /\ ShownUpdate[u] = planRequest[u].by
    BY <1>1, <1>3 DEF ShownState, ShownUpdate
  <2>3. [ShownUpdate EXCEPT ![u] = planRequest[u].by] = ShownUpdate
    BY <2>2 DEF ShownUpdate
  <2> QED
    BY <2>1, <2>2, <2>3
<1>5. UNCHANGED Quantity(planRow)
  BY <1>1 DEF Quantity
<1> QED
  BY <1>4, <1>5 DEF Atomic!Refuse, ShownState, ShownUpdate

\* The end of a request is its answer.
LEMMA CloseIsAnswer ==
  ASSUME SessionsInv, NEW u \in PlanUsers, CloseSession(u)
  PROVE  Atomic!Answer(u)
<1>1. /\ planRequest[u] # NoCall /\ planRequest[u].stage \in {"done", "failed"}
      /\ planRequest' = [planRequest EXCEPT ![u] = NoCall] /\ planRow' = planRow
  BY DEF CloseSession, At
<1>2. planRequest'[u] = NoCall /\ \A w \in PlanUsers \ {u} : planRequest'[w] = planRequest[w]
  BY <1>1 DEF SessionsInv, SessionsTypeOK
<1>3. StateOf(u) \in {"done", "failed"} /\ StateOf(u)' = "idle"
  BY <1>1, <1>2 DEF StateOf
<1>4. /\ ShownState[u] \in {"done", "failed"} /\ ShownState' = [ShownState EXCEPT ![u] = "idle"]
      /\ ShownUpdate' = [ShownUpdate EXCEPT ![u] = 0]
  BY <1>2, <1>3, OneIsShown DEF ShownState
<1>5. UNCHANGED Quantity(planRow)
  BY <1>1 DEF Quantity
<1> QED
  BY <1>4, <1>5 DEF Atomic!Answer, ShownState, ShownUpdate

LEMMA AtomicStep ==
  ASSUME SessionsInv, [SessionsNext]_sessionVars
  PROVE  dialect = "sqlite" => [Atomic!AtomicNext]_(Atomic!atomicVars)
<1> SUFFICES ASSUME dialect = "sqlite" PROVE [Atomic!AtomicNext]_(Atomic!atomicVars)
  OBVIOUS
<1>1. CASE UNCHANGED sessionVars
  <2>1. UNCHANGED Quantity(planRow) /\ \A u \in PlanUsers : StateOf(u)' = StateOf(u)
    BY <1>1 DEF sessionVars, Quantity, StateOf
  <2> QED
    BY <1>1, <2>1 DEF sessionVars, Atomic!atomicVars
<1>2. CASE SessionsNext
  <2>1. PICK u \in PlanUsers :
          \/ \E by \in Adjustments : Authorise(u, by)
          \/ BeginWork(u) \/ BeginNested(u) \/ ReadPlanRow(u) \/ WritePlanRow(u)
          \/ EndWork(u) \/ FailWork(u) \/ LoseConnection(u) \/ CloseSession(u)
    BY <1>2 DEF SessionsNext
  <2>2. CASE \E by \in Adjustments : Authorise(u, by)
    BY <2>2, AuthoriseIsAsk DEF Atomic!AtomicNext
  <2>3. CASE BeginWork(u) \/ BeginNested(u) \/ ReadPlanRow(u) \/ WritePlanRow(u)
    BY <2>3, WorkIsHidden
  <2>4. CASE EndWork(u)
    BY <2>4, EndWorkIsEffect DEF Atomic!AtomicNext
  <2>5. CASE FailWork(u) \/ LoseConnection(u)
    BY <2>5, FailureIsRefusal DEF Atomic!AtomicNext
  <2>6. CASE CloseSession(u)
    BY <2>6, CloseIsAnswer DEF Atomic!AtomicNext
  <2> QED
    BY <2>1, <2>2, <2>3, <2>4, <2>5, <2>6
<1> QED
  BY <1>1, <1>2

\* On SQLite every request that goes through _atomic is one update of the
\* quantity, at its COMMIT or not at all, whatever requests overlap with it:
\* however many users there are and whatever they add or take away.
THEOREM SqliteIsAtomic == SessionsSpec => AtomicOnSqlite
<1>1. SessionsInv /\ [SessionsNext]_sessionVars
        => [dialect = "sqlite" => [Atomic!AtomicNext]_(Atomic!atomicVars)]_sessionVars
  BY AtomicStep
<1> QED
  BY <1>1, SessionsInvariant, PTL DEF SessionsSpec, AtomicOnSqlite

-----------------------------------------------------------------------------
(* The parts together.                                                     *)

LEMMA PlantStarts ==
  Init => /\ StationInit /\ ToolInit /\ CareInit /\ SessionsInit /\ LimiterInit
          /\ FloorInit /\ OrderInit /\ GatewayInit /\ CollectorInit /\ BridgeInit
BY DEF Init

LEMMA PlantStep ==
  [Next]_vars => /\ [StationNext]_stationVars /\ [ToolNext]_toolVars /\ [CareNext]_careVars
                 /\ [SessionsNext]_sessionVars /\ [LimiterNext]_limiterVars
                 /\ [FloorNext]_floorVars /\ [OrderNext]_orderVars
                 /\ [GatewayNext]_gatewayVars /\ [CollectorNext]_collectorVars
                 /\ [BridgeNext]_bridgeVars
<1>1. CASE UNCHANGED vars
  BY <1>1 DEF vars
<1>2. CASE StationTurn \/ ToolTurn \/ CareTurn \/ SessionTurn \/ LimiterTurn \/ FloorTurn \/ OrderTurn
  BY <1>2 DEF StationTurn, ToolTurn, CareTurn, SessionTurn, LimiterTurn, FloorTurn, OrderTurn,
              NoStation, NoTool, NoCare, NoSession, NoLimiter, NoFloor, NoOrder,
              NoLink, NoGateway, NoCollector, NoBridge
<1>3. CASE GatewayTurn \/ CollectorTurn \/ BridgeTurn
  BY <1>3 DEF GatewayTurn, CollectorTurn, BridgeTurn, NoGateway, NoCollector, NoBridge,
              NoShop, NoStation, NoTool, NoCare, NoSession, NoLimiter, NoFloor, NoOrder
<1> QED
  BY <1>1, <1>2, <1>3 DEF Next

\* A behaviour of the ten modules together is one of each of them, so what is
\* proved of a module holds wherever the others run beside it.
THEOREM PlantIsItsParts ==
  Spec => /\ StationSpec /\ ToolSpec /\ CareSpec /\ SessionsSpec /\ LimiterSpec
          /\ FloorSpec /\ OrderSpec /\ GatewaySpec /\ CollectorSpec /\ BridgeSpec
BY PlantStarts, PlantStep, PTL
   DEF Spec, StationSpec, ToolSpec, CareSpec, SessionsSpec, LimiterSpec, FloorSpec, OrderSpec,
       GatewaySpec, CollectorSpec, BridgeSpec
=============================================================================
