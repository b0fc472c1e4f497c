----------------------------- MODULE AndonCalls ------------------------------
(***************************************************************************)
(* The shop floor (blueprints/site.py): workstations, the andon calls made *)
(* at them, and the rework and scrap forms of a work order.  Making a call *)
(* and filing a form are BEGIN IMMEDIATE transactions; deleting a          *)
(* workstation judges it first and then deletes it by id.                  *)
(***************************************************************************)
EXTENDS Tables, Integers, FiniteSets, Functions

CONSTANTS Workstations, Calls, Forms,  \* ids the tables can give out
          CallTypes,                   \* andon_type
          Clerks,                      \* who deletes workstations at the same time
          FloorOrders, PlannedQty,     \* work orders; their planned_qty never changes
          MaxFormQty                   \* bound: quantity of a form

Workstation == {"enabled", "disabled"}
Call == [station : Workstations, type : CallTypes, status : 0 .. 2]
Form == [order : FloorOrders, quantity : 1 .. MaxFormQty, status : 0 .. 1]

ASSUME FloorAssumption ==
    /\ IsFiniteSet(Forms)   \* SUM(...) adds the rows of a table
    /\ PlannedQty \in Nat /\ MaxFormQty \in Nat
    /\ \A x \in Absent : x \notin Workstation /\ x \notin Call /\ x \notin Form

VARIABLES workstation, \* base_workstation
          call,        \* prod_andon
          form,        \* prod_rework
          removal,     \* the workstation a clerk has found to be deletable
          overtaken    \* history: workstations called from before they were deleted

floorVars == <<workstation, call, form, removal, overtaken>>

FloorInit ==
    /\ workstation = [w \in Workstations |-> NoRow]
    /\ call = [a \in Calls |-> NoRow]
    /\ form = [f \in Forms |-> NoRow]
    /\ removal = [c \in Clerks |-> NoCall]
    /\ overtaken = {}

CallsOf(w) == {a \in Calls : call[a] # NoRow /\ call[a].station = w}

FaultyOpenCall(w, type) ==   \* a call somebody has responded to is taken for resolved
    \E a \in CallsOf(w) : call[a].type = type /\ call[a].status = 0

\* A call of this type that is not resolved.
OpenCall(w, type) == \E a \in CallsOf(w) : call[a].type = type /\ call[a].status \in {0, 1}

AddWorkstation(w, word) ==
    /\ workstation[w] = NoRow
    /\ workstation' = [workstation EXCEPT ![w] = word]
    /\ UNCHANGED <<call, form, removal, overtaken>>

SwitchWorkstation(w, word) ==
    /\ workstation[w] \notin Absent
    /\ workstation' = [workstation EXCEPT ![w] = word]
    /\ UNCHANGED <<call, form, removal, overtaken>>

JudgeRemoval(c, w) ==
    /\ removal[c] = NoCall
    /\ workstation[w] \notin Absent
    /\ CallsOf(w) = {}
    /\ removal' = [removal EXCEPT ![c] = w]
    /\ UNCHANGED <<workstation, call, form, overtaken>>

\* prod_andon has no foreign key: calls made since the judgement stay behind.
RemoveWorkstation(c) ==
    /\ removal[c] # NoCall
    /\ LET w == removal[c]
       IN /\ workstation' = [workstation EXCEPT ![w] = Deleted]
          /\ overtaken' = IF CallsOf(w) # {} THEN overtaken \cup {w} ELSE overtaken
    /\ removal' = [removal EXCEPT ![c] = NoCall]
    /\ UNCHANGED <<call, form>>

MakeCall(a, w, type) ==
    /\ call[a] = NoRow
    /\ workstation[w] = "enabled"
    /\ ~ OpenCall(w, type)
    /\ call' = [call EXCEPT ![a] = [station |-> w, type |-> type, status |-> 0]]
    /\ UNCHANGED <<workstation, form, removal, overtaken>>

Respond(a) ==
    /\ call[a] # NoRow /\ call[a].status = 0
    /\ call' = [call EXCEPT ![a].status = 1]
    /\ UNCHANGED <<workstation, form, removal, overtaken>>

Resolve(a) ==
    /\ call[a] # NoRow /\ call[a].status = 1
    /\ call' = [call EXCEPT ![a].status = 2]
    /\ UNCHANGED <<workstation, form, removal, overtaken>>

FormsOf(o) == {f \in Forms : form[f] # NoRow /\ form[f].order = o}

\* What the forms of a work order claim, whatever became of them.
Claimed(o) == SumFunction([f \in FormsOf(o) |-> form[f].quantity])

FileForm(f, o, q) ==
    /\ form[f] = NoRow
    /\ Claimed(o) + q <= PlannedQty
    /\ form' = [form EXCEPT ![f] = [order |-> o, quantity |-> q, status |-> 0]]
    /\ UNCHANGED <<workstation, call, removal, overtaken>>

CompleteForm(f) ==
    /\ form[f] # NoRow /\ form[f].status = 0
    /\ form' = [form EXCEPT ![f].status = 1]
    /\ UNCHANGED <<workstation, call, removal, overtaken>>

FloorNext ==
    \/ \E w \in Workstations :
          \/ \E word \in Workstation : AddWorkstation(w, word) \/ SwitchWorkstation(w, word)
          \/ \E c \in Clerks : JudgeRemoval(c, w)
          \/ \E a \in Calls, type \in CallTypes : MakeCall(a, w, type)
    \/ \E c \in Clerks : RemoveWorkstation(c)
    \/ \E a \in Calls : Respond(a) \/ Resolve(a)
    \/ \E f \in Forms :
          \/ \E o \in FloorOrders, q \in 1 .. MaxFormQty : FileForm(f, o, q)
          \/ CompleteForm(f)

FloorSpec == FloorInit /\ [][FloorNext]_floorVars

-----------------------------------------------------------------------------
(* Properties.                                                             *)

\* The variables hold rows of the tables' types.
FloorTypeOK ==
    /\ workstation \in [Workstations -> Workstation \cup Absent]
    /\ call \in [Calls -> Call \cup {NoRow}]
    /\ form \in [Forms -> Form \cup {NoRow}]
    /\ removal \in [Clerks -> Workstations \cup {NoCall}]
    /\ overtaken \subseteq Workstations

\* However calls, answers and deletions overlap, a workstation has one open
\* call of a type at most, every call's workstation still exists unless the
\* call came between the judgement and the deletion, and the rework and scrap
\* forms of a work order never claim more than it was planned to make.
CallsStandAlone ==
    /\ \A a, b \in Calls :
          /\ a # b /\ call[a] # NoRow /\ call[b] # NoRow
          /\ call[a].status # 2 /\ call[b].status # 2
          => call[a].station # call[b].station \/ call[a].type # call[b].type
    /\ \A a \in Calls : call[a] # NoRow =>
          workstation[call[a].station] \notin Absent \/ call[a].station \in overtaken
    /\ \A o \in FloorOrders : Claimed(o) <= PlannedQty
=============================================================================
