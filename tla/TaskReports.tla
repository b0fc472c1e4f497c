---------------------------- MODULE TaskReports -----------------------------
(***************************************************************************)
(* The execution of one work order: its tasks (one per step of the frozen  *)
(* route), the reports workers file for them, their approval and posting,  *)
(* and the transfers between adjacent steps (services/production_flow.py,  *)
(* blueprints/production.py).                                              *)
(*                                                                         *)
(* Filing, posting, deleting a report and transferring are transactions.   *)
(* A status change is not: transition_status reads and judges the status   *)
(* first and then writes the new one by id alone, and the deletion of a    *)
(* task is checked before it runs; both are two steps of the clerk (the    *)
(* request) making them.                                                   *)
(***************************************************************************)
EXTENDS Tables, Integers, FiniteSets, Functions

CONSTANTS Steps,         \* number of steps of the frozen route
          Planned,       \* planned_qty of the work order
          ReportIds,     \* ids prod_report can give out
          Quantities,    \* qualified quantities a report or transfer can name
          Defects,       \* defect quantities a report can name
          Operations,    \* a worker with a client_operation_id
          NoOperation,   \* a report without one
          Clerks         \* requests that can be between judging and writing

ASSUME ReportsAssumption ==
    /\ Steps \in Nat \ {0}
    /\ Planned \in Nat \ {0}
    /\ Quantities \subseteq Nat \ {0}
    /\ Defects \subseteq Nat
    /\ NoOperation \notin Operations

Route == 1 .. Steps

REPORT == [submitted |-> 0, approved |-> 1, posted |-> 2, rejected |-> 3]

TaskRow == [status : 0 .. 3, completed : Nat, defect : Nat]
ReportRow == [step : Route, qualified : Nat, defect : Nat, status : 0 .. 3,
              operation : Operations \cup {NoOperation}]

\* What a clerk has judged and is about to write, with the status it read.
Call == [entity : {"report", "task", "workorder", "task deletion"},
         id : ReportIds \cup Route \cup {0}, from : 0 .. 6, to : 0 .. 6]

ASSUME ReportRowAssumption ==
    /\ IsFiniteSet(ReportIds)   \* SUM(...) adds the rows of a table
    /\ \A x \in Absent : x \notin TaskRow /\ x \notin ReportRow
    /\ NoCall \notin Call

VARIABLES workorder,   \* status, completed_qty and defect_qty of the work order
          task,        \* prod_task of each route step
          report,      \* prod_report
          moved,       \* quantity transferred from each step to the next
          call,        \* what each clerk is about to write
          overwritten  \* history: reports whose status a clerk wrote over one
                       \* it had not judged

reportsVars == <<workorder, task, report, moved, call, overwritten>>

\* A work order just released, its tasks not generated yet.
ReportsInit ==
    /\ workorder = [status |-> 1, completed |-> 0, defect |-> 0]
    /\ task = [s \in Route |-> NoRow]
    /\ report = [r \in ReportIds |-> NoRow]
    /\ moved = [s \in Route |-> 0]
    /\ call = [c \in Clerks |-> NoCall]
    /\ overwritten = {}

Rows == {r \in ReportIds : report[r] \notin {NoRow, Deleted}}
Has(r, status) == r \in Rows /\ report[r].status = status

\* The SUM queries, over the reports `rows`.
Qualified(rows) == SumFunction([r \in rows |-> report[r].qualified])
Defective(rows) == SumFunction([r \in rows |-> report[r].defect])

PostedAt(s) == {r \in Rows : report[r].status = REPORT.posted /\ report[r].step = s}

-----------------------------------------------------------------------------
\* One task for each step that has none yet.
GenerateTasks ==
    /\ task' = [s \in Route |-> IF task[s] = NoRow
                                THEN [status |-> 0, completed |-> 0, defect |-> 0]
                                ELSE task[s]]
    /\ UNCHANGED <<workorder, report, moved, call, overwritten>>

\* task_availability: the first step may report the plan, a later one what
\* was transferred to it, less what is posted.
Available(s) ==
    LET upstream == IF s = 1 THEN Planned ELSE moved[s - 1]
        done == task[s].completed + task[s].defect
    IN IF done >= upstream THEN 0 ELSE upstream - done

Filed(op) == op # NoOperation /\ \E r \in Rows : report[r].operation = op

\* A report filed again under its operation id is answered with the first one.
CreateReport(r, s, q, d, op) ==
    /\ report[r] = NoRow
    /\ ~ Filed(op)
    /\ task[s] # NoRow
    /\ q + d <= Available(s)
    /\ report' = [report EXCEPT ![r] = [step |-> s, qualified |-> q, defect |-> d,
                                        status |-> REPORT.submitted, operation |-> op]]
    /\ UNCHANGED <<workorder, task, moved, call, overwritten>>

\* A report of an ordinary task enters the books of its task and work order.
PostReport(r) ==
    /\ Has(r, REPORT.approved)
    /\ LET s == report[r].step
           q == report[r].qualified
           d == report[r].defect
       IN /\ task[s].completed + q <= Planned
          /\ task' = [task EXCEPT ![s] =
                        [completed |-> @.completed + q, defect |-> @.defect + d,
                         status |-> IF @.completed + q >= Planned THEN 3 ELSE 1]]
          /\ workorder' = [completed |-> workorder.completed + q,
                           defect |-> workorder.defect + d,
                           status |-> IF workorder.status = 1 THEN 2 ELSE workorder.status]
    /\ report' = [report EXCEPT ![r].status = REPORT.posted]
    /\ UNCHANGED <<moved, call, overwritten>>

ProgressStatus(completed, defect) ==
    IF completed >= Planned THEN 3 ELSE IF completed > 0 \/ defect > 0 THEN 1 ELSE 0

FaultyRecalculate(s) ==   \* counts the reports that are only approved too
    LET counted == {r \in Rows : /\ report[r].step = s
                                 /\ report[r].status \in {REPORT.approved, REPORT.posted}}
    IN /\ task' = [task EXCEPT ![s] =
             [completed |-> Qualified(counted), defect |-> Defective(counted),
              status |-> ProgressStatus(Qualified(counted), Defective(counted))]]
       /\ UNCHANGED workorder

\* _recalculate_task_and_workorder: the books of the task of step s and of
\* the work order become the totals of the reports posted for them.
Recalculate(s) ==
    LET posted == UNION {PostedAt(n) : n \in Route}
        taskAfter == [completed |-> Qualified(PostedAt(s)), defect |-> Defective(PostedAt(s)),
                      status |-> ProgressStatus(Qualified(PostedAt(s)), Defective(PostedAt(s)))]
        tasks == [task EXCEPT ![s] = taskAfter]
        existing == {n \in Route : tasks[n] # NoRow}
    IN /\ task' = tasks
       /\ workorder' = [completed |-> Qualified(posted), defect |-> Defective(posted),
                        status |-> IF \A n \in existing : tasks[n].status = 3 THEN 3
                                   ELSE IF posted # {} THEN 1 ELSE 0]

DeleteReport(r) ==
    /\ Has(r, REPORT.submitted) \/ Has(r, REPORT.rejected)
    /\ report' = [report EXCEPT ![r] = Deleted]
    /\ Recalculate(report[r].step)
    /\ UNCHANGED <<moved, call, overwritten>>

\* create_transfer, from step s to the next one.
Transfer(s, q) ==
    /\ s + 1 \in Route
    /\ moved[s] + q <= Qualified(PostedAt(s))
    /\ moved' = [moved EXCEPT ![s] = @ + q]
    /\ UNCHANGED <<workorder, task, report, call, overwritten>>

-----------------------------------------------------------------------------
(* The two steps of a status change and of the deletion of a task.         *)

Transitions ==
    [report |-> {<<0, 1>>, <<0, 3>>},
     task |-> {<<0, 1>>, <<1, 2>>, <<1, 3>>, <<2, 1>>, <<2, 3>>},
     workorder |-> {<<0, 1>>, <<0, 6>>, <<1, 2>>, <<1, 4>>, <<1, 6>>, <<2, 3>>, <<2, 4>>,
                    <<4, 2>>, <<4, 6>>, <<3, 5>>}]

StatusOf(entity, id) ==
    CASE entity = "report" -> report[id].status
      [] entity = "task" -> task[id].status
      [] entity = "workorder" -> workorder.status

Existing(entity) ==
    CASE entity = "report" -> Rows
      [] entity = "task" -> {s \in Route : task[s] # NoRow}
      [] entity = "workorder" -> {0}

JudgeTransition(c) ==
    /\ call[c] = NoCall
    /\ \E entity \in DOMAIN Transitions : \E id \in Existing(entity), t \in Transitions[entity] :
          /\ StatusOf(entity, id) = t[1]
          /\ call' = [call EXCEPT ![c] = [entity |-> entity, id |-> id, from |-> t[1], to |-> t[2]]]
    /\ UNCHANGED <<workorder, task, report, moved, overwritten>>

\* A row deleted meanwhile is updated in no row.
ApplyTransition(c) ==
    /\ call[c] # NoCall
    /\ LET id == call[c].id
           to == call[c].to
       IN \/ /\ call[c].entity = "report"
             /\ report' = IF id \in Rows THEN [report EXCEPT ![id].status = to] ELSE report
             /\ overwritten' = overwritten \cup
                   (IF id \in Rows /\ report[id].status # call[c].from THEN {id} ELSE {})
             /\ UNCHANGED <<task, workorder>>
          \/ /\ call[c].entity = "task"
             /\ task' = IF task[id] # NoRow THEN [task EXCEPT ![id].status = to] ELSE task
             /\ UNCHANGED <<report, workorder, overwritten>>
          \/ /\ call[c].entity = "workorder"
             /\ workorder' = [workorder EXCEPT !.status = to]
             /\ UNCHANGED <<report, task, overwritten>>
    /\ call' = [call EXCEPT ![c] = NoCall]
    /\ UNCHANGED moved

ReportsOf(s) == {r \in Rows : report[r].step = s}

JudgeDeletion(c, s) ==
    /\ call[c] = NoCall
    /\ task[s] # NoRow /\ task[s].status = 0
    /\ ReportsOf(s) = {}
    /\ call' = [call EXCEPT ![c] = [entity |-> "task deletion", id |-> s, from |-> 0, to |-> 0]]
    /\ UNCHANGED <<workorder, task, report, moved, overwritten>>

\* The foreign key of a report filed meanwhile makes the deletion fail.
ApplyDeletion(c) ==
    /\ call[c] # NoCall /\ call[c].entity = "task deletion"
    /\ task' = IF ReportsOf(call[c].id) = {} THEN [task EXCEPT ![call[c].id] = NoRow] ELSE task
    /\ call' = [call EXCEPT ![c] = NoCall]
    /\ UNCHANGED <<workorder, report, moved, overwritten>>

ReportsNext ==
    \/ GenerateTasks
    \/ \E r \in ReportIds, s \in Route, q \in Quantities, d \in Defects,
          op \in Operations \cup {NoOperation} : CreateReport(r, s, q, d, op)
    \/ \E r \in ReportIds : PostReport(r) \/ DeleteReport(r)
    \/ \E s \in Route, q \in Quantities : Transfer(s, q)
    \/ \E c \in Clerks :
          \/ JudgeTransition(c) \/ ApplyTransition(c)
          \/ ApplyDeletion(c)
          \/ \E s \in Route : JudgeDeletion(c, s)

ReportsSpec == ReportsInit /\ [][ReportsNext]_reportsVars

-----------------------------------------------------------------------------
(* Properties.                                                             *)

\* The variables hold rows of the tables' types.
ReportsTypeOK ==
    /\ workorder \in [status : 0 .. 6, completed : Nat, defect : Nat]
    /\ task \in [Route -> TaskRow \cup {NoRow}]
    /\ report \in [ReportIds -> ReportRow \cup {NoRow, Deleted}]
    /\ moved \in [Route -> Nat]
    /\ call \in [Clerks -> Call \cup {NoCall}]
    /\ overwritten \subseteq ReportIds

\* One report of an operation, however often it is sent.
OneReportPerOperation ==
    \A r, q \in Rows :
        report[r].operation # NoOperation /\ report[r].operation = report[q].operation => r = q

\* As long as no status change went over one it had not judged: the books of
\* the tasks and of the work order are the sums of the posted reports,
\* whichever of posting and recalculation wrote them; no task completes more
\* than the plan; and no step has passed on more than it posted as qualified.
\* An operation has one report, however often its worker sends it.
BooksAgree ==
    /\ OneReportPerOperation
    /\ overwritten = {} =>
        /\ \A s \in Route :
              /\ task[s] = NoRow => PostedAt(s) = {}
              /\ task[s] # NoRow =>
                    /\ task[s].completed = Qualified(PostedAt(s))
                    /\ task[s].defect = Defective(PostedAt(s))
                    /\ task[s].completed <= Planned
              /\ moved[s] <= Qualified(PostedAt(s))
        /\ workorder.completed = Qualified(UNION {PostedAt(s) : s \in Route})
        /\ workorder.defect = Defective(UNION {PostedAt(s) : s \in Route})
=============================================================================
