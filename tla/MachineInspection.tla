-------------------------- MODULE MachineInspection --------------------------
(***************************************************************************)
(* AIM machines, their inspection reports and what follows a defect:       *)
(* backend/services/machine_access.py and quality_disposition.py, with the *)
(* rework-task parts of production_flow.py and of the routes that call     *)
(* them.  A machine asks whether it may process a serial number (SN); an   *)
(* admitted SN is inspected and the machine writes a CSV report; an NG     *)
(* report holds the SN until a quality case is decided as rework, scrap or *)
(* concession; a rework task produces reports of its own.                  *)
(*                                                                         *)
(* The socket handlers, the importers (directory collector, upload and     *)
(* retry routes) and the reviewers are separate threads on one database.   *)
(* What one transaction does is one action; what a thread read before its  *)
(* transaction it keeps in its session.  The reads of one admission are    *)
(* taken as one snapshot, which may be arbitrarily old when it is          *)
(* persisted.                                                              *)
(*                                                                         *)
(* One released work order whose route visits a process once; its normal   *)
(* tasks run throughout and have more planned pieces than there are        *)
(* reports, so that posting an ordinary report decides nothing here.       *)
(***************************************************************************)
EXTENDS Naturals, FiniteSets

CONSTANTS SNs,
          NSteps,         \* frozen route steps of the work order
          Endpoints,
          StepOf,         \* the step whose process an endpoint serves
          Requests,       \* [ep, sn, no]: a request number and what it asks
          Files,          \* [ep, sn, result, no]: a CSV file, by content
          ManualReports,  \* client operations of an operator's own reports
          Handlers, Importers, Reviewers,
          NormalTask,     \* the ordinary task of a step
          NoRequest, NoCase, Idle

Steps == 1 .. NSteps
Cases == {f \in Files : f.result = "NG"}  \* a case is named by the report that opened it
Reports == Files \union ManualReports

ASSUME InspectionAssumption ==
    /\ NSteps \in Nat \ {0}
    /\ StepOf \in [Endpoints -> Steps]
    /\ \A r \in Requests : r.ep \in Endpoints /\ r.sn \in SNs
    /\ \A f \in Files : f.ep \in Endpoints /\ f.sn \in SNs /\ f.result \in {"OK", "NG"}
    /\ NormalTask \notin Files
    /\ NoRequest \notin Requests
    /\ NoCase \notin Files
    /\ Files \intersect ManualReports = {}

VARIABLES quality,      \* prod_serial.quality_status
          requests,     \* iot_machine_request rows by request number
          answers,      \* decisions written to the machine for each request
          inspections,  \* iot_inspection_report rows by file hash
          tags,         \* quality_disposition_id of a report's station record
          reports,      \* prod_report rows
          cases,        \* prod_quality_disposition rows
          lastCase,     \* its AUTOINCREMENT
          tasks,        \* rework prod_task rows, by the case that made them
          credit,       \* what a case added to source task and work order
          handlers, importers, reviewers

accessVars == <<requests, answers, handlers>>
importVars == <<inspections, importers>>
reportVars == <<reports, reviewers>>
dispositionVars == <<cases, lastCase, tasks, credit, tags>>
vars == <<quality, accessVars, importVars, reportVars, dispositionVars>>

Tasks == Cases \union {NormalTask}
QualityStatus == {"normal", "quality_hold", "rework", "scrapped", "concession"}
OpenStatus == {"pending_review", "approved", "task_started"}

RequestRow == [decision : {"none", "L1", "L3"}, task : Tasks,
               report : {"not_required", "pending", "received"}]

InspectionRow == [status : {"absent", "failed", "retrying", "imported"},
                  request : Requests \union {NoRequest}]

ReportRow == [status : {"none", "submitted", "approved", "posted", "rejected"},
              task : Tasks]

CaseRow == [status : OpenStatus \union {"none", "completed", "rejected"},
            action : {"pending", "rework", "scrap", "concession"},
            cycle : Nat, id : Nat, source : Tasks]

TaskRow == [status : {"none", "pending", "running", "paused", "completed"},
            completed : Nat, defect : Nat]

Judgement == [request : Requests, decision : {"L1", "L3"}, task : Tasks]

FileAtHand == [file : Files, request : Requests \union {NoRequest}, retry : BOOLEAN]

Transition == [kind : {"task"}, id : Cases, to : {"running", "paused", "completed"}]
    \union [kind : {"report"}, id : Reports, to : {"approved", "rejected"}]

TypeOK ==
    /\ quality \in [SNs -> QualityStatus]
    /\ requests \in [Requests -> RequestRow]
    /\ answers \in [Requests -> SUBSET {"L1", "L3"}]
    /\ inspections \in [Files -> InspectionRow]
    /\ tags \in [Files -> Cases \union {NoCase}]
    /\ reports \in [Reports -> ReportRow]
    /\ cases \in [Cases -> CaseRow]
    /\ lastCase \in Nat
    /\ tasks \in [Cases -> TaskRow]
    /\ credit \in [Cases -> Nat]
    /\ handlers \in [Handlers -> {Idle} \union Judgement]
    /\ importers \in [Importers -> {Idle} \union FileAtHand]
    /\ reviewers \in [Reviewers -> {Idle} \union Transition]

Init ==
    /\ quality = [s \in SNs |-> "normal"]
    /\ requests = [r \in Requests |->
         [decision |-> "none", task |-> NormalTask, report |-> "not_required"]]
    /\ answers = [r \in Requests |-> {}]
    /\ inspections = [f \in Files |-> [status |-> "absent", request |-> NoRequest]]
    /\ tags = [f \in Files |-> NoCase]
    /\ reports = [r \in Reports |-> [status |-> "none", task |-> NormalTask]]
    /\ cases = [d \in Cases |-> [status |-> "none", action |-> "pending",
                                 cycle |-> 0, id |-> 0, source |-> NormalTask]]
    /\ lastCase = 0
    /\ tasks = [d \in Cases |-> [status |-> "none", completed |-> 0, defect |-> 0]]
    /\ credit = [d \in Cases |-> 0]
    /\ handlers = [h \in Handlers |-> Idle]
    /\ importers = [i \in Importers |-> Idle]
    /\ reviewers = [v \in Reviewers |-> Idle]

-----------------------------------------------------------------------------
\* Requests, files and cases alike belong to a unit: an SN at a route step.
UnitOf(x) == <<x.sn, StepOf[x.ep]>>

OpenCase(d) == cases[d].status \in OpenStatus

UnitFree(x) == \A d \in Cases : UnitOf(d) = UnitOf(x) => ~OpenCase(d)

\* The station records with action '过站' and result PASS are those of the
\* imported OK reports.
Passed(sn, step) ==
    \E f \in Files :
        /\ inspections[f].status = "imported"
        /\ f.result = "OK"
        /\ UnitOf(f) = <<sn, step>>

AtStep(sn, step) ==
    /\ ~Passed(sn, step)
    /\ \A earlier \in 1 .. step - 1 : Passed(sn, earlier)

\* ORDER BY cycle_no DESC,id DESC LIMIT 1
LatestCase(d) ==
    /\ cases[d].status # "none"
    /\ \A o \in Cases :
        /\ UnitOf(o) = UnitOf(d)
        /\ cases[o].status # "none"
        => \/ cases[o].cycle < cases[d].cycle
           \/ cases[o].cycle = cases[d].cycle /\ cases[o].id <= cases[d].id

\* The task on which request r may proceed, if any.
Admissible(r, task) ==
    /\ AtStep(r.sn, StepOf[r.ep])
    /\ \/ /\ quality[r.sn] \in {"normal", "concession"}
          /\ task = NormalTask
       \/ /\ quality[r.sn] = "rework"
          /\ task \in Cases
          /\ UnitOf(task) = UnitOf(r)
          /\ LatestCase(task)
          /\ tasks[task].status = "running"

PendingFor(ep, sn, r) ==
    /\ r.ep = ep
    /\ r.sn = sn
    /\ requests[r].decision = "L1"
    /\ requests[r].report = "pending"

\* Faulty: a request is outstanding under its own number only.
OutstandingOfNumber(r) == PendingFor(r.ep, r.sn, r)

Outstanding(r) == \E other \in Requests : PendingFor(r.ep, r.sn, other)

Answer(r, decision) == answers' = [answers EXCEPT ![r] = @ \union {decision}]

-----------------------------------------------------------------------------
\* Faulty: an unknown request number is answered from a row that is not there.
RepeatUnseen(h, r) ==
    /\ handlers[h] = Idle
    /\ Answer(r, requests[r].decision)
    /\ UNCHANGED <<quality, requests, handlers, importVars, reportVars, dispositionVars>>

\* A request number seen before.
Repeat(h, r) ==
    /\ handlers[h] = Idle
    /\ requests[r].decision # "none"
    /\ Answer(r, requests[r].decision)
    /\ UNCHANGED <<quality, requests, handlers, importVars, reportVars, dispositionVars>>

\* Admissible, but the machine has an L1 of this SN unreported: the answer of
\* that row, under its own request number only.
Reuse(h, r) ==
    /\ handlers[h] = Idle
    /\ requests[r].decision = "none"
    /\ \E task \in Tasks : Admissible(r, task)
    /\ Outstanding(r)
    /\ Answer(r, "L1")
    /\ UNCHANGED <<quality, requests, handlers, importVars, reportVars, dispositionVars>>

Evaluate(h, r) ==
    /\ handlers[h] = Idle
    /\ requests[r].decision = "none"
    /\ \/ \E task \in Tasks :
            /\ Admissible(r, task)
            /\ ~Outstanding(r)
            /\ handlers' = [handlers EXCEPT ![h] =
                              [request |-> r, decision |-> "L1", task |-> task]]
       \/ /\ \A task \in Tasks : ~Admissible(r, task)
          /\ handlers' = [handlers EXCEPT ![h] =
                            [request |-> r, decision |-> "L3", task |-> NormalTask]]
    /\ UNCHANGED <<quality, requests, answers, importVars, reportVars, dispositionVars>>

\* _persist_decision.  A unique index stands behind the request number and
\* behind the pending L1 of (endpoint, SN, step); the loser of either answers
\* with the row that is there.
Persist(h) ==
    /\ handlers[h] # Idle
    /\ LET r == handlers[h].request
           decision == handlers[h].decision
           taken == requests[r].decision # "none"
           pending == decision = "L1" /\ Outstanding(r)
       IN /\ requests' =
               IF taken \/ pending THEN requests
               ELSE [requests EXCEPT ![r] =
                       [decision |-> decision, task |-> handlers[h].task,
                        report |-> IF decision = "L1" THEN "pending" ELSE "not_required"]]
          /\ Answer(r, IF taken THEN requests[r].decision ELSE decision)
    /\ handlers' = [handlers EXCEPT ![h] = Idle]
    /\ UNCHANGED <<quality, importVars, reportVars, dispositionVars>>

-----------------------------------------------------------------------------
\* import_inspection_report up to BEGIN IMMEDIATE: the request the file is
\* for.  A file already known is answered from its row and changes nothing.
FindRequest(i, f) ==
    /\ importers[i] = Idle
    /\ inspections[f].status = "absent"
    /\ \E r \in Requests :
        /\ PendingFor(f.ep, f.sn, r)
        /\ importers' = [importers EXCEPT ![i] =
                           [file |-> f, request |-> r, retry |-> FALSE]]
    /\ UNCHANGED <<quality, inspections, accessVars, reportVars, dispositionVars>>

\* No admission waits for it: recorded as failed and moved aside.
RejectFile(f) ==
    /\ inspections[f].status = "absent"
    /\ \A r \in Requests : ~PendingFor(f.ep, f.sn, r)
    /\ inspections' = [inspections EXCEPT ![f].status = "failed"]
    /\ UNCHANGED <<quality, importers, accessVars, reportVars, dispositionVars>>

\* retry_inspection_report: the claim, committed, then the same import.
ClaimRetry(i, f) ==
    /\ importers[i] = Idle
    /\ inspections[f].status = "failed"
    /\ inspections' = [inspections EXCEPT ![f].status = "retrying"]
    /\ importers' = [importers EXCEPT ![i] =
                       [file |-> f, request |-> NoRequest, retry |-> TRUE]]
    /\ UNCHANGED <<quality, accessVars, reportVars, dispositionVars>>

RetryRequest(i) ==
    /\ importers[i] # Idle
    /\ importers[i].request = NoRequest
    /\ LET f == importers[i].file
       IN \/ \E r \in Requests :
               /\ PendingFor(f.ep, f.sn, r)
               /\ importers' = [importers EXCEPT ![i].request = r]
               /\ UNCHANGED inspections
          \/ /\ \A r \in Requests : ~PendingFor(f.ep, f.sn, r)
             /\ inspections' = [inspections EXCEPT ![f].status = "failed"]
             /\ importers' = [importers EXCEPT ![i] = Idle]
    /\ UNCHANGED <<quality, accessVars, reportVars, dispositionVars>>

\* Another importer brought the same file in since.
Overtaken(i) ==
    /\ importers[i] # Idle
    /\ ~importers[i].retry
    /\ inspections[importers[i].file].status # "absent"
    /\ importers' = [importers EXCEPT ![i] = Idle]
    /\ UNCHANGED <<quality, inspections, accessVars, reportVars, dispositionVars>>

ReadyToImport(i) ==
    /\ importers[i] # Idle
    /\ importers[i].request # NoRequest
    /\ importers[i].retry \/ inspections[importers[i].file].status = "absent"

\* Faulty: an open case of the unit does not refuse a second one.
AcceptsSecond(f, r) ==
    f.result = "NG" /\ requests[r].task = NormalTask =>
        quality[f.sn] \in {"normal", "quality_hold"}

\* create_ng_disposition in the import's transaction.  Its ValueErrors roll
\* the import back.  A report that is not imported has no case yet.
Accepts(f, r) ==
    f.result = "NG" /\ requests[r].task = NormalTask =>
        /\ UnitFree(f)
        /\ quality[f.sn] \in {"normal", "quality_hold"}

NewCase(cycle, source) ==
    [status |-> "pending_review", action |-> "pending",
     cycle |-> cycle, id |-> lastCase + 1, source |-> source]

Import(i) ==
    /\ ReadyToImport(i)
    /\ LET f == importers[i].file
           r == importers[i].request
           opens == f.result = "NG" /\ requests[r].task = NormalTask
       IN /\ Accepts(f, r)
          /\ inspections' = [inspections EXCEPT ![f] = [status |-> "imported", request |-> r]]
          /\ reports' = [reports EXCEPT ![f] =
                           [status |-> "submitted", task |-> requests[r].task]]
          /\ requests' = [requests EXCEPT ![r].report = "received"]
          /\ quality' = IF f.result = "NG" THEN [quality EXCEPT ![f.sn] = "quality_hold"]
                        ELSE quality
          /\ cases' = IF opens THEN [cases EXCEPT ![f] = NewCase(1, NormalTask)] ELSE cases
          /\ lastCase' = IF opens THEN lastCase + 1 ELSE lastCase
    /\ importers' = [importers EXCEPT ![i] = Idle]
    /\ UNCHANGED <<answers, handlers, reviewers, tasks, credit, tags>>

\* The import is rolled back and the file recorded as failed (again).
ImportFails(i) ==
    /\ ReadyToImport(i)
    /\ ~Accepts(importers[i].file, importers[i].request)
    /\ inspections' = [inspections EXCEPT ![importers[i].file].status = "failed"]
    /\ importers' = [importers EXCEPT ![i] = Idle]
    /\ UNCHANGED <<quality, accessVars, reportVars, dispositionVars>>

-----------------------------------------------------------------------------
\* approve_disposition
ApproveRework(d) ==
    /\ cases[d].status = "pending_review"
    /\ tasks' = [tasks EXCEPT ![d] = [status |-> "pending", completed |-> 0, defect |-> 0]]
    /\ quality' = [quality EXCEPT ![d.sn] = "rework"]
    /\ cases' = [cases EXCEPT ![d].action = "rework", ![d].status = "approved"]
    /\ UNCHANGED <<lastCase, credit, tags, accessVars, importVars, reportVars>>

\* A concession adds a PASS station record, but with action '让步接收', which
\* Passed does not count.
ApproveFinal(d, action) ==
    /\ cases[d].status = "pending_review"
    /\ quality' = [quality EXCEPT ![d.sn] = IF action = "scrap" THEN "scrapped" ELSE "concession"]
    /\ cases' = [cases EXCEPT ![d].action = action, ![d].status = "completed"]
    /\ UNCHANGED <<lastCase, tasks, credit, tags, accessVars, importVars, reportVars>>

\* Faulty: a decided case can be rejected too.
RejectDecided(d) ==
    /\ OpenCase(d)
    /\ cases' = [cases EXCEPT ![d].status = "rejected"]
    /\ UNCHANGED <<quality, lastCase, tasks, credit, tags, accessVars, importVars, reportVars>>

\* reject_disposition leaves the SN held.
RejectCase(d) ==
    /\ cases[d].status = "pending_review"
    /\ cases' = [cases EXCEPT ![d].status = "rejected"]
    /\ UNCHANGED <<quality, lastCase, tasks, credit, tags, accessVars, importVars, reportVars>>

\* The start-task route: validate_rework_task_start, the task's transition
\* and the case in one transaction.
StartRework(d) ==
    /\ cases[d].status = "approved"
    /\ tasks[d].status = "pending"
    /\ quality[d.sn] = "rework"
    /\ tasks' = [tasks EXCEPT ![d].status = "running"]
    /\ cases' = [cases EXCEPT ![d].status = "task_started"]
    /\ UNCHANGED <<quality, lastCase, credit, tags, accessVars, importVars, reportVars>>

-----------------------------------------------------------------------------
TaskGraph == [none |-> {}, pending |-> {"running"}, running |-> {"paused", "completed"},
              paused |-> {"running", "completed"}, completed |-> {}]
ReportGraph == [none |-> {}, submitted |-> {"approved", "rejected"}, approved |-> {},
                posted |-> {}, rejected |-> {}]

\* transition_status called by the task-update and the report-review routes:
\* the status is read and judged before the transaction that overwrites it.
\* (Approved to posted is in the code's graph, but no route asks for it.)
JudgeTransition(v, kind, x, to) ==
    /\ reviewers[v] = Idle
    /\ \/ kind = "task" /\ x \in Cases /\ to \in TaskGraph[tasks[x].status]
       \/ /\ kind = "report"
          /\ reports[x].task # NormalTask
          /\ to \in ReportGraph[reports[x].status]
    /\ reviewers' = [reviewers EXCEPT ![v] = [kind |-> kind, id |-> x, to |-> to]]
    /\ UNCHANGED <<quality, reports, accessVars, importVars, dispositionVars>>

WriteTransition(v) ==
    /\ reviewers[v] # Idle
    /\ \/ /\ reviewers[v].kind = "task"
          /\ tasks' = [tasks EXCEPT ![reviewers[v].id].status = reviewers[v].to]
          /\ UNCHANGED reports
       \/ /\ reviewers[v].kind = "report"
          /\ reports' = [reports EXCEPT ![reviewers[v].id].status = reviewers[v].to]
          /\ UNCHANGED tasks
    /\ reviewers' = [reviewers EXCEPT ![v] = Idle]
    /\ UNCHANGED <<quality, cases, lastCase, credit, tags, accessVars, importVars>>

\* _create_report on a rework task: no status asked, one piece planned, and
\* the reported quantity must be good (qualified > 0).
ReportByHand(m, d) ==
    /\ reports[m].status = "none"
    /\ tasks[d].status # "none"
    /\ tasks[d].completed + tasks[d].defect = 0
    /\ reports' = [reports EXCEPT ![m] = [status |-> "submitted", task |-> d]]
    /\ UNCHANGED <<quality, reviewers, accessVars, importVars, dispositionVars>>

-----------------------------------------------------------------------------
\* post_report and apply_posted_rework_result
Postable(r) ==
    /\ reports[r].status = "approved"
    /\ reports[r].task # NormalTask
    /\ cases[reports[r].task].status = "task_started"
    /\ tasks[reports[r].task].status = "running"

\* The untagged PASS records of the request a report came from.
Untagged(r) ==
    {f \in Files :
        /\ r \in Files
        /\ inspections[f].status = "imported"
        /\ inspections[f].request = inspections[r].request
        /\ f.result = "OK"
        /\ tags[f] = NoCase}

\* Faulty: the case stays open after its result is posted.
LeftOpen(d) == cases

Closed(d) == [cases EXCEPT ![d].status = "completed"]

\* idx_station_record_disposition: one station record per case, or the whole
\* posting is rolled back.
PostGood(r) ==
    /\ Postable(r)
    /\ r \notin Cases
    /\ LET d == reports[r].task
           source == cases[d].source
       IN /\ tasks[d].completed = 0
          /\ \A f, g \in Untagged(r) : f = g
          /\ tasks' = [t \in Cases |->
               IF t \in {d, source}
               THEN [status |-> "completed", completed |-> tasks[t].completed + 1,
                     defect |-> tasks[t].defect]
               ELSE tasks[t]]
          /\ credit' = [credit EXCEPT ![d] = @ + 1]
          /\ quality' = [quality EXCEPT ![d.sn] = "normal"]
          /\ cases' = Closed(d)
          /\ tags' = [f \in Files |-> IF f \in Untagged(r) THEN d ELSE tags[f]]
    /\ reports' = [reports EXCEPT ![r].status = "posted"]
    /\ UNCHANGED <<lastCase, reviewers, accessVars, importVars>>

\* Faulty: the next case is inserted before its predecessor is closed.
IgnoredByOwnCase(f, d) == UnitFree(d)

\* Whether INSERT OR IGNORE puts in the case of f that follows case d: nothing
\* but d, closed by now, may be open for the unit.
Inserts(f, d) ==
    /\ cases[f].status = "none"
    /\ \A o \in Cases \ {d} : UnitOf(o) = UnitOf(d) => ~OpenCase(o)

\* record_rework_ng_cycle; f names the next case.
PostDefect(f) ==
    /\ Postable(f)
    /\ LET d == reports[f].task
       IN /\ tasks' = [tasks EXCEPT ![d].defect = @ + 1]
          /\ cases' = IF Inserts(f, d)
                      THEN [Closed(d) EXCEPT ![f] = NewCase(cases[d].cycle + 1, cases[d].source)]
                      ELSE Closed(d)
          /\ lastCase' = IF Inserts(f, d) THEN lastCase + 1 ELSE lastCase
          /\ quality' = [quality EXCEPT ![d.sn] = "quality_hold"]
    /\ reports' = [reports EXCEPT ![f].status = "posted"]
    /\ UNCHANGED <<credit, tags, reviewers, accessVars, importVars>>

-----------------------------------------------------------------------------
\* The services stop and start again: every session is lost, and
\* create_quality_disposition_tables opens a case for the imported NG reports
\* that have none, as far as the index of open cases lets it.
Backlog == {f \in Cases : inspections[f].status = "imported" /\ cases[f].status = "none"}

Backfill(S) ==
    /\ S \subseteq Backlog
    /\ \A f \in S : UnitFree(f) /\ \A g \in S : UnitOf(f) = UnitOf(g) => f = g
    /\ \A f \in Backlog \ S : UnitFree(f) => \E g \in S : UnitOf(f) = UnitOf(g)
    /\ cases' = [d \in Cases |->
         IF d \in S THEN NewCase(1, requests[inspections[d].request].task) ELSE cases[d]]
    /\ lastCase' = lastCase + 1
    /\ quality' = [s \in SNs |->
         IF \E d \in Cases : d.sn = s /\ (d \in S \/ cases[d].status = "pending_review")
         THEN "quality_hold" ELSE quality[s]]

Restart ==
    /\ \/ \E S \in SUBSET Backlog : S # {} /\ Backfill(S)
       \/ /\ \A f \in Backlog : ~UnitFree(f)
          /\ quality' = [s \in SNs |->
               IF \E d \in Cases : d.sn = s /\ cases[d].status = "pending_review"
               THEN "quality_hold" ELSE quality[s]]
          /\ UNCHANGED <<cases, lastCase>>
    /\ handlers' = [h \in Handlers |-> Idle]
    /\ importers' = [i \in Importers |-> Idle]
    /\ reviewers' = [v \in Reviewers |-> Idle]
    /\ UNCHANGED <<requests, answers, inspections, reports, tasks, credit, tags>>

-----------------------------------------------------------------------------
Access ==
    \E h \in Handlers :
        \/ \E r \in Requests : Repeat(h, r) \/ Reuse(h, r) \/ Evaluate(h, r)
        \/ Persist(h)

Importing ==
    \/ \E f \in Files : RejectFile(f)
    \/ \E i \in Importers :
        \/ \E f \in Files : FindRequest(i, f) \/ ClaimRetry(i, f)
        \/ RetryRequest(i) \/ Overtaken(i) \/ Import(i) \/ ImportFails(i)

Disposition ==
    \E d \in Cases :
        \/ ApproveRework(d)
        \/ \E action \in {"scrap", "concession"} : ApproveFinal(d, action)
        \/ RejectCase(d)
        \/ StartRework(d)

Production ==
    \/ \E v \in Reviewers :
        \/ \E kind \in {"task", "report"}, x \in Reports,
              to \in {"running", "paused", "completed", "approved", "rejected"} :
                JudgeTransition(v, kind, x, to)
        \/ WriteTransition(v)
    \/ \E m \in ManualReports, d \in Cases : ReportByHand(m, d)
    \/ \E r \in Reports : PostGood(r)
    \/ \E f \in Cases : PostDefect(f)

Next == Access \/ Importing \/ Disposition \/ Production \/ Restart

Spec == Init /\ [][Next]_vars
-----------------------------------------------------------------------------
\* A unit never has two cases undecided or in rework at once, however imports,
\* rework cycles and the backfill of a restart interleave (the partial index of
\* quality_disposition.py:70, and INSERT OR IGNORE that must not lean on it).
OneOpenCase ==
    \A d, o \in Cases :
        OpenCase(d) /\ OpenCase(o) /\ UnitOf(d) = UnitOf(o) => d = o

\* A rework is credited to its source task and work order at most once, and
\* only by a case that is then closed: two reports of one rework task, or an
\* approval that overwrites a posted one, cannot count a piece twice.
CreditedOnce ==
    \A d \in Cases :
        /\ credit[d] <= 1
        /\ credit[d] = 1 => cases[d].status = "completed" /\ cases[d].action = "rework"

\* No defect is forgotten: an imported NG report of ordinary production has its
\* case, and so has one of a rework task as soon as it is posted (its insert is
\* OR IGNORE: nothing else may stand in its way).
NoDefectForgotten ==
    \A f \in Cases :
        /\ inspections[f].status = "imported"
        /\ reports[f].task = NormalTask \/ reports[f].status = "posted"
        => cases[f].status # "none"

\* A machine has at most one unreported L1 for a serial number, so a CSV file
\* has one request to go to, although handlers decide on old reads.
OnePendingPerUnit ==
    \A r, o \in Requests :
        PendingFor(r.ep, r.sn, r) /\ PendingFor(r.ep, r.sn, o) => r = o

\* The disposition tables implement the promise of QualityCases.
Promise == INSTANCE QualityCases WITH
    Unit <- [d \in Cases |-> UnitOf(d)],
    stage <- [d \in Cases |-> cases[d].status],
    verdict <- [d \in Cases |-> cases[d].action]

ImplementsQualityCases == Promise!CasesSpec

=============================================================================
