----------------------- MODULE MachineInspectionProofs -----------------------
(***************************************************************************)
(* Theorems about MachineInspection, for every route, every set of         *)
(* endpoints, serial numbers, requests and files, and every number of      *)
(* handlers, importers and reviewers.                                      *)
(***************************************************************************)
EXTENDS MachineInspection, TLAPS

USE InspectionAssumption

-----------------------------------------------------------------------------
(* Type correctness. *)

\* Moving a row of a table to another status keeps the table in its range.
LEMMA CaseMoves ==
    ASSUME NEW C \in [Cases -> CaseRow], NEW d \in Cases,
           NEW st \in OpenStatus \union {"completed", "rejected"}
    PROVE  [C EXCEPT ![d].status = st] \in [Cases -> CaseRow]
<1>1. [C[d] EXCEPT !.status = st] \in CaseRow
  BY DEF CaseRow
<1> QED BY <1>1

LEMMA TaskMoves ==
    ASSUME NEW T \in [Cases -> TaskRow], NEW d \in Cases,
           NEW st \in {"running", "paused", "completed"}
    PROVE  [T EXCEPT ![d].status = st] \in [Cases -> TaskRow]
<1>1. [T[d] EXCEPT !.status = st] \in TaskRow
  BY DEF TaskRow
<1> QED BY <1>1

LEMMA ReportMoves ==
    ASSUME NEW R \in [Reports -> ReportRow], NEW r \in Reports,
           NEW st \in {"submitted", "approved", "posted", "rejected"}
    PROVE  [R EXCEPT ![r].status = st] \in [Reports -> ReportRow]
<1>1. [R[r] EXCEPT !.status = st] \in ReportRow
  BY DEF ReportRow
<1> QED BY <1>1

LEMMA InspectionMoves ==
    ASSUME NEW I \in [Files -> InspectionRow], NEW f \in Files,
           NEW st \in {"failed", "retrying"}
    PROVE  [I EXCEPT ![f].status = st] \in [Files -> InspectionRow]
<1>1. [I[f] EXCEPT !.status = st] \in InspectionRow
  BY DEF InspectionRow
<1> QED BY <1>1

\* Every action keeps the tables and the sessions in their ranges.
LEMMA AccessTypes ==
    ASSUME TypeOK, Access
    PROVE  TypeOK'
<1>1. ASSUME NEW h \in Handlers, NEW r \in Requests, Repeat(h, r) PROVE TypeOK'
  <2>1. requests[r].decision \in {"L1", "L3"}
    BY <1>1 DEF TypeOK, Repeat, RequestRow
  <2>2. answers' \in [Requests -> SUBSET {"L1", "L3"}]
    BY <1>1, <2>1 DEF TypeOK, Repeat, Answer
  <2> QED BY <1>1, <2>2 DEF TypeOK, Repeat, importVars, reportVars, dispositionVars
<1>2. ASSUME NEW h \in Handlers, NEW r \in Requests, Reuse(h, r) PROVE TypeOK'
  <2>1. answers' \in [Requests -> SUBSET {"L1", "L3"}]
    BY <1>2 DEF TypeOK, Reuse, Answer
  <2> QED BY <1>2, <2>1 DEF TypeOK, Reuse, importVars, reportVars, dispositionVars
<1>3. ASSUME NEW h \in Handlers, NEW r \in Requests, Evaluate(h, r) PROVE TypeOK'
  <2>1. handlers' \in [Handlers -> {Idle} \union Judgement]
    BY <1>3 DEF TypeOK, Evaluate, Tasks, Judgement
  <2> QED BY <1>3, <2>1 DEF TypeOK, Evaluate, importVars, reportVars, dispositionVars
<1>4. ASSUME NEW h \in Handlers, Persist(h) PROVE TypeOK'
  <2>1. handlers[h] \in Judgement
    BY <1>4 DEF TypeOK, Persist
  <2>2. requests' \in [Requests -> RequestRow]
    BY <1>4, <2>1 DEF TypeOK, Persist, Judgement, RequestRow
  <2>3. answers' \in [Requests -> SUBSET {"L1", "L3"}]
    BY <1>4, <2>1 DEF TypeOK, Persist, Answer, Judgement, RequestRow
  <2>4. handlers' \in [Handlers -> {Idle} \union Judgement]
    BY <1>4 DEF TypeOK, Persist
  <2> QED BY <1>4, <2>2, <2>3, <2>4 DEF TypeOK, Persist, importVars, reportVars, dispositionVars
<1> QED BY <1>1, <1>2, <1>3, <1>4 DEF Access

LEMMA ImportingTypes ==
    ASSUME TypeOK, Importing
    PROVE  TypeOK'
<1>1. ASSUME NEW f \in Files, RejectFile(f) PROVE TypeOK'
  <2>1. inspections' \in [Files -> InspectionRow]
    BY <1>1, InspectionMoves DEF TypeOK, RejectFile
  <2> QED BY <1>1, <2>1 DEF TypeOK, RejectFile, accessVars, reportVars, dispositionVars
<1>2. ASSUME NEW i \in Importers, NEW f \in Files, FindRequest(i, f) PROVE TypeOK'
  <2>1. importers' \in [Importers -> {Idle} \union FileAtHand]
    BY <1>2 DEF TypeOK, FindRequest, FileAtHand
  <2> QED BY <1>2, <2>1 DEF TypeOK, FindRequest, accessVars, reportVars, dispositionVars
<1>3. ASSUME NEW i \in Importers, NEW f \in Files, ClaimRetry(i, f) PROVE TypeOK'
  <2>1. importers' \in [Importers -> {Idle} \union FileAtHand]
    BY <1>3 DEF TypeOK, ClaimRetry, FileAtHand
  <2>2. inspections' \in [Files -> InspectionRow]
    BY <1>3, InspectionMoves DEF TypeOK, ClaimRetry
  <2> QED BY <1>3, <2>1, <2>2 DEF TypeOK, ClaimRetry, accessVars, reportVars, dispositionVars
<1>4. ASSUME NEW i \in Importers, RetryRequest(i) PROVE TypeOK'
  <2>1. importers[i] \in FileAtHand
    BY <1>4 DEF TypeOK, RetryRequest
  <2>2. importers' \in [Importers -> {Idle} \union FileAtHand]
    <3>1. ASSUME NEW r \in Requests, importers' = [importers EXCEPT ![i].request = r]
          PROVE  importers' \in [Importers -> {Idle} \union FileAtHand]
      BY <2>1, <3>1 DEF TypeOK, FileAtHand
    <3>2. CASE importers' = [importers EXCEPT ![i] = Idle]
      BY <3>2 DEF TypeOK
    <3> QED BY <1>4, <3>1, <3>2 DEF RetryRequest
  <2>3. inspections' \in [Files -> InspectionRow]
    <3>1. importers[i].file \in Files
      BY <2>1 DEF FileAtHand
    <3>2. [inspections EXCEPT ![importers[i].file].status = "failed"] \in [Files -> InspectionRow]
      BY <3>1, InspectionMoves DEF TypeOK
    <3> QED BY <1>4, <3>2 DEF TypeOK, RetryRequest
  <2> QED BY <1>4, <2>2, <2>3 DEF TypeOK, RetryRequest, accessVars, reportVars, dispositionVars
<1>5. ASSUME NEW i \in Importers, Overtaken(i) PROVE TypeOK'
  <2>1. importers' \in [Importers -> {Idle} \union FileAtHand]
    BY <1>5 DEF TypeOK, Overtaken
  <2> QED BY <1>5, <2>1 DEF TypeOK, Overtaken, accessVars, reportVars, dispositionVars
<1>6. ASSUME NEW i \in Importers, Import(i) PROVE TypeOK'
  <2> DEFINE f == importers[i].file
             r == importers[i].request
  <2>1. f \in Files /\ r \in Requests
    BY <1>6 DEF TypeOK, Import, ReadyToImport, FileAtHand
  <2>2. importers' \in [Importers -> {Idle} \union FileAtHand]
    BY <1>6 DEF TypeOK, Import
  <2>3. quality' \in [SNs -> QualityStatus]
    BY <1>6, <2>1 DEF TypeOK, Import, QualityStatus
  <2>4. requests' \in [Requests -> RequestRow]
    <3>1. [requests[r] EXCEPT !.report = "received"] \in RequestRow
      BY <2>1 DEF TypeOK, RequestRow
    <3> QED BY <1>6, <2>1, <3>1 DEF TypeOK, Import
  <2>5. inspections' \in [Files -> InspectionRow]
    BY <1>6, <2>1 DEF TypeOK, Import, InspectionRow
  <2>6. reports' \in [Reports -> ReportRow]
    <3>1. requests[r].task \in Tasks
      BY <2>1 DEF TypeOK, RequestRow
    <3> QED BY <1>6, <2>1, <3>1 DEF TypeOK, Import, Reports, ReportRow
  <2>7. cases' \in [Cases -> CaseRow] /\ lastCase' \in Nat
    <3>1. NewCase(1, NormalTask) \in CaseRow
      BY DEF NewCase, OpenStatus, Tasks, TypeOK, CaseRow
    <3>2. f.result = "NG" => f \in Cases
      BY <2>1 DEF Cases
    <3> QED BY <1>6, <3>1, <3>2 DEF TypeOK, Import
  <2> QED BY <1>6, <2>2, <2>3, <2>4, <2>5, <2>6, <2>7 DEF TypeOK, Import
<1>7. ASSUME NEW i \in Importers, ImportFails(i) PROVE TypeOK'
  <2>1. importers' \in [Importers -> {Idle} \union FileAtHand]
    BY <1>7 DEF TypeOK, ImportFails
  <2>2. importers[i].file \in Files
    BY <1>7 DEF TypeOK, ImportFails, ReadyToImport, FileAtHand
  <2>3. inspections' \in [Files -> InspectionRow]
    BY <1>7, <2>2, InspectionMoves DEF TypeOK, ImportFails
  <2> QED BY <1>7, <2>1, <2>3 DEF TypeOK, ImportFails, accessVars, reportVars, dispositionVars
<1> QED BY <1>1, <1>2, <1>3, <1>4, <1>5, <1>6, <1>7 DEF Importing

LEMMA DispositionTypes ==
    ASSUME TypeOK, Disposition
    PROVE  TypeOK'
<1>1. ASSUME NEW d \in Cases, ApproveRework(d) PROVE TypeOK'
  <2>1. d.sn \in SNs
    BY DEF Cases
  <2>2. tasks' \in [Cases -> TaskRow]
    <3>1. [status |-> "pending", completed |-> 0, defect |-> 0] \in TaskRow
      BY DEF TaskRow
    <3> QED
      BY <1>1, <3>1 DEF TypeOK, ApproveRework
  <2>3. quality' \in [SNs -> QualityStatus]
    BY <1>1 DEF TypeOK, ApproveRework, QualityStatus
  <2>4. cases' \in [Cases -> CaseRow]
    BY <1>1 DEF TypeOK, ApproveRework, CaseRow, OpenStatus
  <2> QED BY <1>1, <2>2, <2>3, <2>4 DEF TypeOK, ApproveRework, accessVars, importVars, reportVars
<1>2. ASSUME NEW d \in Cases, NEW action \in {"scrap", "concession"}, ApproveFinal(d, action)
      PROVE  TypeOK'
  <2>1. quality' \in [SNs -> QualityStatus]
    BY <1>2 DEF TypeOK, ApproveFinal, QualityStatus
  <2>2. cases' \in [Cases -> CaseRow]
    BY <1>2 DEF TypeOK, ApproveFinal, CaseRow, OpenStatus
  <2> QED BY <1>2, <2>1, <2>2 DEF TypeOK, ApproveFinal, accessVars, importVars, reportVars
<1>3. ASSUME NEW d \in Cases, RejectCase(d) PROVE TypeOK'
  <2>1. cases' \in [Cases -> CaseRow]
    BY <1>3, CaseMoves DEF TypeOK, RejectCase
  <2> QED BY <1>3, <2>1 DEF TypeOK, RejectCase, accessVars, importVars, reportVars
<1>4. ASSUME NEW d \in Cases, StartRework(d) PROVE TypeOK'
  <2>1. tasks' \in [Cases -> TaskRow]
    BY <1>4, TaskMoves DEF TypeOK, StartRework
  <2>2. cases' \in [Cases -> CaseRow]
    BY <1>4, CaseMoves DEF TypeOK, StartRework, OpenStatus
  <2> QED BY <1>4, <2>1, <2>2 DEF TypeOK, StartRework, accessVars, importVars, reportVars
<1> QED BY <1>1, <1>2, <1>3, <1>4 DEF Disposition

LEMMA ProductionTypes ==
    ASSUME TypeOK, Production
    PROVE  TypeOK'
<1>1. ASSUME NEW v \in Reviewers, NEW kind \in {"task", "report"}, NEW x \in Reports,
             NEW to \in {"running", "paused", "completed", "approved", "rejected"},
             JudgeTransition(v, kind, x, to)
      PROVE  TypeOK'
  <2>1. [kind |-> kind, id |-> x, to |-> to] \in Transition
    <3>1. CASE kind = "task" /\ x \in Cases /\ to \in TaskGraph[tasks[x].status]
      <4>1. tasks[x].status \in {"none", "pending", "running", "paused", "completed"}
        BY <3>1 DEF TypeOK, TaskRow
      <4>2. to \in {"running", "paused", "completed"}
        BY <3>1, <4>1 DEF TaskGraph
      <4> QED BY <3>1, <4>2 DEF Transition
    <3>2. CASE kind = "report" /\ to \in ReportGraph[reports[x].status]
      <4>1. reports[x].status \in {"none", "submitted", "approved", "posted", "rejected"}
        BY <3>2 DEF TypeOK, ReportRow
      <4>2. to \in {"approved", "rejected"}
        BY <3>2, <4>1 DEF ReportGraph
      <4> QED BY <3>2, <4>2 DEF Transition
    <3> QED BY <1>1, <3>1, <3>2 DEF JudgeTransition
  <2> QED BY <1>1, <2>1 DEF TypeOK, JudgeTransition, accessVars, importVars, dispositionVars
<1>2. ASSUME NEW v \in Reviewers, WriteTransition(v) PROVE TypeOK'
  <2>1. reviewers[v] \in Transition
    BY <1>2 DEF TypeOK, WriteTransition
  <2>2. CASE reviewers[v].kind = "task"
    <3>1. tasks' \in [Cases -> TaskRow]
      <4>1. reviewers[v].id \in Cases /\ reviewers[v].to \in {"running", "paused", "completed"}
        BY <2>1, <2>2 DEF Transition
      <4>2. tasks' = [tasks EXCEPT ![reviewers[v].id].status = reviewers[v].to]
        BY <1>2, <2>2 DEF WriteTransition
      <4> QED BY <4>1, <4>2, TaskMoves DEF TypeOK
    <3> QED BY <1>2, <2>2, <3>1 DEF TypeOK, WriteTransition, accessVars, importVars
  <2>3. CASE reviewers[v].kind = "report"
    <3>1. reports' \in [Reports -> ReportRow]
      <4>1. reviewers[v].id \in Reports /\ reviewers[v].to \in {"approved", "rejected"}
        BY <2>1, <2>3 DEF Transition
      <4>2. reports' = [reports EXCEPT ![reviewers[v].id].status = reviewers[v].to]
        BY <1>2, <2>3 DEF WriteTransition
      <4> QED BY <4>1, <4>2, ReportMoves DEF TypeOK
    <3> QED BY <1>2, <2>3, <3>1 DEF TypeOK, WriteTransition, accessVars, importVars
  <2> QED BY <1>2, <2>2, <2>3 DEF WriteTransition
<1>3. ASSUME NEW m \in ManualReports, NEW d \in Cases, ReportByHand(m, d) PROVE TypeOK'
  <2>1. reports' \in [Reports -> ReportRow]
    BY <1>3 DEF TypeOK, ReportByHand, ReportRow, Reports, Tasks
  <2> QED BY <1>3, <2>1 DEF TypeOK, ReportByHand, accessVars, importVars, dispositionVars
<1>4. ASSUME NEW r \in Reports, PostGood(r) PROVE TypeOK'
  <2> DEFINE d == reports[r].task
  <2>1. d \in Cases /\ d.sn \in SNs
    BY <1>4 DEF TypeOK, PostGood, Postable, ReportRow, Tasks, Cases
  <2>2. tasks' \in [Cases -> TaskRow]
    <3>1. ASSUME NEW t \in Cases
          PROVE  [status |-> "completed", completed |-> tasks[t].completed + 1,
                  defect |-> tasks[t].defect] \in TaskRow
      BY DEF TypeOK, TaskRow
    <3> QED BY <1>4, <3>1 DEF TypeOK, PostGood
  <2>3. credit' \in [Cases -> Nat]
    BY <1>4, <2>1 DEF TypeOK, PostGood
  <2>4. quality' \in [SNs -> QualityStatus]
    BY <1>4, <2>1 DEF TypeOK, PostGood, QualityStatus
  <2>5. cases' \in [Cases -> CaseRow]
    BY <1>4, <2>1, CaseMoves DEF TypeOK, PostGood, Closed
  <2>6. tags' \in [Files -> Cases \union {NoCase}]
    BY <1>4, <2>1 DEF TypeOK, PostGood
  <2>7. reports' \in [Reports -> ReportRow]
    BY <1>4, ReportMoves DEF TypeOK, PostGood
  <2> QED BY <1>4, <2>2, <2>3, <2>4, <2>5, <2>6, <2>7 DEF TypeOK, PostGood, accessVars, importVars
<1>5. ASSUME NEW f \in Cases, PostDefect(f) PROVE TypeOK'
  <2> DEFINE d == reports[f].task
  <2>1. f \in Reports
    BY DEF Cases, Reports
  <2>2. d \in Cases /\ d.sn \in SNs
    BY <1>5, <2>1 DEF TypeOK, PostDefect, Postable, ReportRow, Tasks, Cases
  <2>3. tasks' \in [Cases -> TaskRow]
    <3>1. [tasks[d] EXCEPT !.defect = @ + 1] \in TaskRow
      <4>1. tasks[d] \in TaskRow
        BY <2>2 DEF TypeOK
      <4> QED BY <4>1 DEF TaskRow
    <3>2. [tasks EXCEPT ![d] = [tasks[d] EXCEPT !.defect = @ + 1]] \in [Cases -> TaskRow]
      BY <3>1 DEF TypeOK
    <3> QED BY <1>5, <3>2 DEF PostDefect
  <2>4. quality' \in [SNs -> QualityStatus]
    BY <1>5, <2>2 DEF TypeOK, PostDefect, QualityStatus
  <2>5. cases' \in [Cases -> CaseRow] /\ lastCase' \in Nat
    <3>1. Closed(d) \in [Cases -> CaseRow]
      BY <2>2, CaseMoves DEF TypeOK, Closed
    <3>2. NewCase(cases[d].cycle + 1, cases[d].source) \in CaseRow
      BY <2>2 DEF NewCase, OpenStatus, TypeOK, CaseRow
    <3>3. [Closed(d) EXCEPT ![f] = NewCase(cases[d].cycle + 1, cases[d].source)]
            \in [Cases -> CaseRow]
      BY <3>1, <3>2
    <3> QED BY <1>5, <3>1, <3>3 DEF TypeOK, PostDefect
  <2>6. reports' \in [Reports -> ReportRow]
    BY <1>5, <2>1, ReportMoves DEF TypeOK, PostDefect
  <2> QED BY <1>5, <2>3, <2>4, <2>5, <2>6 DEF TypeOK, PostDefect, accessVars, importVars
<1> QED BY <1>1, <1>2, <1>3, <1>4, <1>5 DEF Production

\* An imported report knows the request it was imported for.
ImportedHasRequest ==
    \A f \in Files :
        inspections[f].status = "imported" => inspections[f].request \in Requests

LEMMA RestartTypes ==
    ASSUME TypeOK, ImportedHasRequest, Restart
    PROVE  TypeOK'
<1>1. quality' \in [SNs -> QualityStatus]
  BY DEF TypeOK, Restart, Backfill, QualityStatus
<1>2. cases' \in [Cases -> CaseRow] /\ lastCase' \in Nat
  <2>1. ASSUME NEW S \in SUBSET Backlog, Backfill(S)
        PROVE  cases' \in [Cases -> CaseRow] /\ lastCase' \in Nat
    <3>1. ASSUME NEW d \in S
          PROVE  NewCase(1, requests[inspections[d].request].task) \in CaseRow
      <4>1. requests[inspections[d].request].task \in Tasks /\ lastCase \in Nat
        BY DEF TypeOK, ImportedHasRequest, Backlog, RequestRow, Cases
      <4> QED BY <4>1 DEF NewCase, CaseRow, OpenStatus
    <3> QED BY <2>1, <3>1 DEF TypeOK, Backfill
  <2> QED BY <2>1 DEF Restart, TypeOK
<1>3. /\ handlers' \in [Handlers -> {Idle} \union Judgement]
      /\ importers' \in [Importers -> {Idle} \union FileAtHand]
      /\ reviewers' \in [Reviewers -> {Idle} \union Transition]
  BY DEF Restart
<1> QED BY <1>1, <1>2, <1>3 DEF Restart, TypeOK

-----------------------------------------------------------------------------
(* The inductive invariant. *)

\* Only the holder of a claim retries a file, and nobody imports it meanwhile;
\* an importer without a request is retrying.
ClaimsHeld ==
    /\ \A i \in Importers :
        importers[i] # Idle /\ importers[i].retry
        => inspections[importers[i].file].status = "retrying"
    /\ \A i, j \in Importers :
        /\ importers[i] # Idle /\ importers[i].retry
        /\ importers[j] # Idle /\ importers[j].retry
        /\ importers[i].file = importers[j].file
        => i = j
    /\ \A i \in Importers :
        importers[i] # Idle /\ importers[i].request = NoRequest => importers[i].retry

\* An importer's request is of the unit of its file.
ImportersMatch ==
    \A i \in Importers :
        importers[i] # Idle /\ importers[i].request # NoRequest
        => UnitOf(importers[i].request) = UnitOf(importers[i].file)

\* A rework task is only ever used in the unit of the case it was made for.
TaskFits(x, task) ==
    task \in Cases => UnitOf(task) = UnitOf(x) /\ cases[task].status # "none"

TasksFit ==
    /\ \A r \in Requests : TaskFits(r, requests[r].task)
    /\ \A h \in Handlers :
        handlers[h] # Idle => TaskFits(handlers[h].request, handlers[h].task)
    /\ \A f \in Files : TaskFits(f, reports[f].task)
    /\ \A f \in Files :
        reports[f].task # NormalTask => inspections[f].status = "imported"

\* What a case's status says about its report and its decision.
CasesConsistent ==
    \A d \in Cases :
        /\ cases[d].status # "none" => inspections[d].status = "imported"
        /\ cases[d].status \in {"approved", "task_started"} => cases[d].action = "rework"
        /\ cases[d].status \in {"none", "pending_review"} => cases[d].action = "pending"

\* A defect found in rework has no case of its own while that rework is open.
CycleInTurn ==
    \A f \in Cases :
        reports[f].task \in Cases /\ cases[f].status # "none"
        => ~OpenCase(reports[f].task)

ImportInv == ImportedHasRequest /\ ClaimsHeld /\ ImportersMatch

CaseInv ==
    /\ TasksFit
    /\ CasesConsistent
    /\ CycleInTurn
    /\ OneOpenCase
    /\ CreditedOnce
    /\ NoDefectForgotten

IInv == TypeOK /\ ImportInv /\ CaseInv /\ OnePendingPerUnit

\* The request an importer finds is of the unit of its file.
LEMMA FoundFits ==
    ASSUME NEW f, NEW r, PendingFor(f.ep, f.sn, r)
    PROVE  UnitOf(r) = UnitOf(f)
BY DEF PendingFor, UnitOf

LEMMA InitHolds ==
    ASSUME Init
    PROVE  IInv
<1>1. TypeOK
  <2>1. quality \in [SNs -> QualityStatus]
    BY DEF Init, QualityStatus
  <2>2. requests \in [Requests -> RequestRow]
    BY DEF Init, RequestRow, Tasks
  <2>3. inspections \in [Files -> InspectionRow] /\ tags \in [Files -> Cases \union {NoCase}]
    BY DEF Init, InspectionRow
  <2>4. reports \in [Reports -> ReportRow]
    BY DEF Init, ReportRow, Tasks
  <2>5. cases \in [Cases -> CaseRow] /\ lastCase \in Nat
    BY DEF Init, CaseRow, Tasks
  <2>6. tasks \in [Cases -> TaskRow] /\ credit \in [Cases -> Nat]
    BY DEF Init, TaskRow
  <2> QED BY <2>1, <2>2, <2>3, <2>4, <2>5, <2>6 DEF Init, TypeOK
<1>2. ImportInv
  BY DEF Init, ImportInv, ImportedHasRequest, ClaimsHeld, ImportersMatch
<1>3. CaseInv
  <2>1. NormalTask \notin Cases /\ Cases \subseteq Files /\ Files \subseteq Reports
    BY DEF Cases, Reports
  <2>2. TasksFit
    BY <2>1 DEF Init, TasksFit, TaskFits
  <2>3. CasesConsistent /\ CycleInTurn /\ OneOpenCase /\ CreditedOnce /\ NoDefectForgotten
    BY <2>1 DEF Init, CasesConsistent, CycleInTurn, OneOpenCase, OpenCase, OpenStatus,
                CreditedOnce, NoDefectForgotten
  <2> QED BY <2>2, <2>3 DEF CaseInv
<1>4. OnePendingPerUnit
  BY DEF Init, OnePendingPerUnit, PendingFor
<1> QED BY <1>1, <1>2, <1>3, <1>4 DEF IInv

-----------------------------------------------------------------------------
(* Admissions. *)

LEMMA AccessFrame ==
    ASSUME Access
    PROVE  UNCHANGED <<quality, importVars, reportVars, dispositionVars>>
BY DEF Access, Repeat, Reuse, Evaluate, Persist

\* A task is handed out for the unit it was made for, also when the decision
\* is persisted long after it was made.
LEMMA AccessTasksFit ==
    ASSUME IInv, Access
    PROVE  TasksFit'
<1>1. UNCHANGED <<inspections, reports, cases>>
  BY AccessFrame DEF importVars, reportVars, dispositionVars
<1>2. /\ \A f \in Files : TaskFits(f, reports[f].task)'
      /\ \A f \in Files :
          reports'[f].task # NormalTask => inspections'[f].status = "imported"
  BY <1>1 DEF IInv, CaseInv, TasksFit, TaskFits
<1>3. ASSUME NEW h \in Handlers, NEW r \in Requests, Repeat(h, r) \/ Reuse(h, r)
      PROVE  TasksFit'
  BY <1>1, <1>2, <1>3 DEF IInv, CaseInv, TasksFit, TaskFits, Repeat, Reuse
<1>4. ASSUME NEW h \in Handlers, NEW r \in Requests, Evaluate(h, r)
      PROVE  TasksFit'
  <2>1. PICK task \in Tasks, decision \in {"L1", "L3"} :
          /\ handlers' = [handlers EXCEPT ![h] =
                            [request |-> r, decision |-> decision, task |-> task]]
          /\ task \in Cases => UnitOf(task) = UnitOf(r) /\ cases[task].status # "none"
    <3>1. NormalTask \in Tasks /\ NormalTask \notin Cases
      BY DEF Tasks, Cases
    <3> QED BY <1>4, <3>1 DEF Evaluate, Admissible, LatestCase
  <2>2. TaskFits(r, task)'
    BY <1>1, <2>1 DEF TaskFits
  <2>3. handlers'[h].request = r /\ handlers'[h].task = task
    BY <2>1 DEF IInv, TypeOK
  <2>4. \A k \in Handlers : k # h => handlers'[k] = handlers[k]
    BY <2>1 DEF IInv, TypeOK
  <2>5. \A k \in Handlers :
          handlers'[k] # Idle => TaskFits(handlers[k].request, handlers[k].task)'
    BY <1>1, <2>2, <2>3, <2>4 DEF IInv, CaseInv, TasksFit, TaskFits
  <2>6. requests' = requests
    BY <1>4 DEF Evaluate
  <2> QED BY <1>1, <1>2, <2>5, <2>6 DEF IInv, CaseInv, TasksFit, TaskFits
<1>5. ASSUME NEW h \in Handlers, Persist(h)
      PROVE  TasksFit'
  <2> DEFINE r == handlers[h].request
  <2>1. handlers[h] \in Judgement /\ r \in Requests
    BY <1>5 DEF IInv, TypeOK, Persist, Judgement
  <2>2. \A k \in Handlers :
          handlers'[k] # Idle => TaskFits(handlers[k].request, handlers[k].task)'
    BY <1>1, <1>5 DEF IInv, TypeOK, CaseInv, TasksFit, TaskFits, Persist
  <2>3. TaskFits(r, handlers[h].task)
    BY <1>5 DEF IInv, CaseInv, TasksFit, Persist
  <2>4. \A o \in Requests :
          requests'[o].task = requests[o].task \/ (o = r /\ requests'[o].task = handlers[h].task)
    BY <1>5, <2>1 DEF IInv, TypeOK, Persist
  <2>5. \A o \in Requests : TaskFits(o, requests[o].task)'
    BY <1>1, <2>3, <2>4 DEF IInv, CaseInv, TasksFit, TaskFits
  <2> QED BY <1>2, <2>2, <2>5 DEF TasksFit
<1> QED BY <1>3, <1>4, <1>5 DEF Access

\* The unique index on pending admissions closes the race of two handlers.
LEMMA AccessOnePending ==
    ASSUME IInv, Access
    PROVE  OnePendingPerUnit'
<1>1. ASSUME UNCHANGED requests PROVE OnePendingPerUnit'
  BY <1>1 DEF IInv, OnePendingPerUnit, PendingFor
<1>2. ASSUME NEW h \in Handlers, Persist(h) PROVE OnePendingPerUnit'
  <2> DEFINE r == handlers[h].request
  <2>1. handlers[h] \in Judgement /\ r \in Requests
    BY <1>2 DEF IInv, TypeOK, Persist, Judgement
  <2>2. CASE UNCHANGED requests
    BY <1>1, <2>2
  <2>3. CASE ~UNCHANGED requests
    <3>1. /\ handlers[h].decision = "L1" => ~Outstanding(r)
          /\ requests' = [requests EXCEPT ![r] =
               [decision |-> handlers[h].decision, task |-> handlers[h].task,
                report |-> IF handlers[h].decision = "L1" THEN "pending"
                           ELSE "not_required"]]
      BY <1>2, <2>3 DEF Persist
    <3>2. /\ requests'[r].decision = handlers[h].decision
          /\ \A o \in Requests : o # r => requests'[o] = requests[o]
      BY <2>1, <3>1 DEF IInv, TypeOK
    <3>3. requests'[r].report = "pending" => handlers[h].decision = "L1"
      BY <2>1, <3>1 DEF IInv, TypeOK
    <3> QED BY <2>1, <3>1, <3>2, <3>3
            DEF IInv, OnePendingPerUnit, PendingFor, Outstanding
  <2> QED BY <2>2, <2>3
<1> QED BY <1>1, <1>2 DEF Access, Repeat, Reuse, Evaluate

LEMMA AccessStep ==
    ASSUME IInv, Access
    PROVE  IInv'
<1>1. UNCHANGED <<inspections, importers, reports, cases, credit>>
  BY AccessFrame DEF importVars, reportVars, dispositionVars
<1>2. ImportInv'
  BY <1>1 DEF IInv, ImportInv, ImportedHasRequest, ClaimsHeld, ImportersMatch
<1>3. (CasesConsistent /\ CycleInTurn /\ OneOpenCase /\ CreditedOnce /\ NoDefectForgotten)'
  BY <1>1 DEF IInv, CaseInv, CasesConsistent, CycleInTurn, OneOpenCase, OpenCase,
              CreditedOnce, NoDefectForgotten
<1> QED BY <1>2, <1>3, AccessTypes, AccessTasksFit, AccessOnePending DEF IInv, CaseInv
-----------------------------------------------------------------------------
(* Imports. *)

\* What an importer's step other than the import itself leaves alone: no row
\* becomes imported or stops being so.
LEMMA ImportersOnly ==
    ASSUME IInv,
           UNCHANGED <<quality, accessVars, reportVars, dispositionVars>>,
           \A f \in Files :
               \/ inspections'[f] = inspections[f]
               \/ /\ inspections[f].status # "imported"
                  /\ inspections'[f].status # "imported"
    PROVE  ImportedHasRequest' /\ CaseInv' /\ OnePendingPerUnit'
<1>1. UNCHANGED <<requests, handlers, reports, cases, credit>>
  BY DEF accessVars, reportVars, dispositionVars
<1>2. \A f \in Files : inspections'[f].status = "imported" <=> inspections[f].status = "imported"
  OBVIOUS
<1>3. Cases \subseteq Files
  BY DEF Cases
<1>4. ImportedHasRequest'
  BY DEF IInv, ImportInv, ImportedHasRequest
<1>5. TasksFit'
  BY <1>1, <1>2 DEF IInv, CaseInv, TasksFit, TaskFits
<1>6. (CasesConsistent /\ CycleInTurn /\ OneOpenCase /\ CreditedOnce /\ NoDefectForgotten)'
  BY <1>1, <1>2, <1>3 DEF IInv, CaseInv, CasesConsistent, CycleInTurn, OneOpenCase, OpenCase,
                          CreditedOnce, NoDefectForgotten
<1>7. OnePendingPerUnit'
  BY <1>1 DEF IInv, OnePendingPerUnit, PendingFor
<1> QED BY <1>4, <1>5, <1>6, <1>7 DEF CaseInv

LEMMA StatusMoves ==
    ASSUME IInv, NEW f \in Files, NEW st,
           inspections' = [inspections EXCEPT ![f].status = st]
    PROVE  /\ inspections'[f].status = st
           /\ \A g \in Files : g # f => inspections'[g] = inspections[g]
<1>1. inspections \in [Files -> InspectionRow]
  BY DEF IInv, TypeOK
<1> QED BY <1>1 DEF InspectionRow

LEMMA FindSteps ==
    ASSUME IInv, NEW f \in Files, NEW i \in Importers,
           FindRequest(i, f) \/ ClaimRetry(i, f)
    PROVE  IInv'
<1>1. /\ UNCHANGED <<quality, accessVars, reportVars, dispositionVars>>
      /\ \A g \in Files :
          \/ inspections'[g] = inspections[g]
          \/ inspections[g].status # "imported" /\ inspections'[g].status # "imported"
  <2>1. CASE FindRequest(i, f)
    BY <2>1 DEF FindRequest
  <2>2. CASE ClaimRetry(i, f)
    BY <2>2, StatusMoves DEF ClaimRetry
  <2> QED BY <2>1, <2>2
<1>2. ClaimsHeld' /\ ImportersMatch'
  <2>1. CASE FindRequest(i, f)
    <3>1. PICK r \in Requests :
            /\ PendingFor(f.ep, f.sn, r)
            /\ importers' = [importers EXCEPT ![i] =
                               [file |-> f, request |-> r, retry |-> FALSE]]
      BY <2>1 DEF FindRequest
    <3>2. /\ importers'[i].request = r /\ importers'[i].file = f /\ ~importers'[i].retry
          /\ \A j \in Importers : j # i => importers'[j] = importers[j]
      BY <3>1 DEF IInv, TypeOK
    <3>3. UnitOf(r) = UnitOf(f)
      BY <3>1, FoundFits
    <3> QED BY <2>1, <3>2, <3>3 DEF FindRequest, IInv, ImportInv, ClaimsHeld, ImportersMatch
  <2>2. CASE ClaimRetry(i, f)
    <3>1. /\ importers'[i].request = NoRequest /\ importers'[i].file = f /\ importers'[i].retry
          /\ \A j \in Importers : j # i => importers'[j] = importers[j]
      BY <2>2 DEF ClaimRetry, IInv, TypeOK
    <3>2. /\ inspections[f].status = "failed"
          /\ inspections'[f].status = "retrying"
          /\ \A g \in Files : g # f => inspections'[g] = inspections[g]
      BY <2>2 DEF ClaimRetry, IInv, TypeOK, InspectionRow
    <3>3. \A j \in Importers : importers[j] # Idle => importers[j].file \in Files
      BY DEF IInv, TypeOK, FileAtHand
    <3>4. ClaimsHeld'
      BY <3>1, <3>2, <3>3 DEF IInv, ImportInv, ClaimsHeld
    <3>5. ImportersMatch'
      BY <3>1 DEF IInv, ImportInv, ImportersMatch
    <3> QED BY <3>4, <3>5
  <2> QED BY <2>1, <2>2
<1>3. TypeOK'
  BY ImportingTypes DEF IInv, Importing
<1> QED BY <1>1, <1>2, <1>3, ImportersOnly DEF IInv, ImportInv

LEMMA OvertakenStep ==
    ASSUME IInv, NEW i \in Importers, Overtaken(i)
    PROVE  IInv'
<1>1. /\ importers'[i] = Idle
      /\ \A j \in Importers : j # i => importers'[j] = importers[j]
  BY DEF Overtaken, IInv, TypeOK
<1>2. ClaimsHeld' /\ ImportersMatch'
  BY <1>1 DEF Overtaken, IInv, ImportInv, ClaimsHeld, ImportersMatch
<1>3. ImportedHasRequest' /\ CaseInv' /\ OnePendingPerUnit'
  BY ImportersOnly DEF Overtaken
<1>4. TypeOK'
  BY ImportingTypes DEF IInv, Importing
<1> QED BY <1>2, <1>3, <1>4 DEF IInv, ImportInv

LEMMA RetryStep ==
    ASSUME IInv, NEW i \in Importers, RetryRequest(i)
    PROVE  IInv'
<1> DEFINE f == importers[i].file
<1>1. f \in Files /\ importers[i] \in FileAtHand
  BY DEF IInv, TypeOK, RetryRequest, FileAtHand
<1>2. importers[i].retry /\ inspections[f].status = "retrying"
  BY DEF IInv, ImportInv, ClaimsHeld, RetryRequest
<1>3. /\ UNCHANGED <<quality, accessVars, reportVars, dispositionVars>>
      /\ \A g \in Files :
          \/ inspections'[g] = inspections[g]
          \/ inspections[g].status # "imported" /\ inspections'[g].status # "imported"
  BY <1>1, <1>2, StatusMoves DEF RetryRequest
<1>4. ClaimsHeld' /\ ImportersMatch'
  <2>1. ASSUME NEW r \in Requests, PendingFor(f.ep, f.sn, r),
               importers' = [importers EXCEPT ![i].request = r], UNCHANGED inspections
        PROVE  ClaimsHeld' /\ ImportersMatch'
    <3>1. /\ importers'[i].request = r /\ importers'[i].file = f /\ importers'[i].retry
          /\ \A j \in Importers : j # i => importers'[j] = importers[j]
      BY <1>1, <1>2, <2>1 DEF IInv, TypeOK, FileAtHand
    <3>2. UnitOf(r) = UnitOf(f)
      BY <2>1, FoundFits
    <3>3. importers[i] # Idle
      BY DEF RetryRequest
    <3>4. ClaimsHeld'
      BY <1>2, <2>1, <3>1, <3>3 DEF IInv, ImportInv, ClaimsHeld
    <3>5. ImportersMatch'
      BY <3>1, <3>2 DEF IInv, ImportInv, ImportersMatch
    <3> QED BY <3>4, <3>5
  <2>2. ASSUME inspections' = [inspections EXCEPT ![f].status = "failed"],
               importers' = [importers EXCEPT ![i] = Idle]
        PROVE  ClaimsHeld' /\ ImportersMatch'
    <3>1. /\ importers'[i] = Idle
          /\ \A j \in Importers : j # i => importers'[j] = importers[j]
      BY <2>2 DEF IInv, TypeOK
    <3>2. \A g \in Files : g # f => inspections'[g] = inspections[g]
      BY <2>2 DEF IInv, TypeOK
    <3>3. \A j \in Importers : importers[j] # Idle => importers[j].file \in Files
      BY DEF IInv, TypeOK, FileAtHand
    <3>4. importers[i] # Idle
      BY DEF RetryRequest
    <3>5. ClaimsHeld'
      BY <1>2, <3>1, <3>2, <3>3, <3>4 DEF IInv, ImportInv, ClaimsHeld
    <3>6. ImportersMatch'
      BY <3>1 DEF IInv, ImportInv, ImportersMatch
    <3> QED BY <3>5, <3>6
  <2> QED BY <2>1, <2>2 DEF RetryRequest
<1>5. TypeOK'
  BY ImportingTypes DEF IInv, Importing
<1> QED BY <1>3, <1>4, <1>5, ImportersOnly DEF IInv, ImportInv
\* What is true of the file and the request of an import about to commit.
LEMMA ReadyFacts ==
    ASSUME IInv, NEW i \in Importers, ReadyToImport(i)
    PROVE  /\ importers[i].file \in Files
           /\ importers[i].request \in Requests
           /\ inspections[importers[i].file].status \in {"absent", "retrying"}
           /\ UnitOf(importers[i].request) = UnitOf(importers[i].file)
           /\ \A j \in Importers :
                importers[j] # Idle /\ importers[j].retry /\ importers[j].file = importers[i].file
                => i = j
<1> DEFINE f == importers[i].file
<1>1. importers[i] \in FileAtHand /\ importers[i] # Idle
  BY DEF IInv, TypeOK, ReadyToImport
<1>2. f \in Files /\ importers[i].request \in Requests
  BY <1>1 DEF FileAtHand, ReadyToImport
<1>3. inspections[f].status \in {"absent", "retrying"}
  BY <1>1 DEF IInv, ImportInv, ClaimsHeld, ReadyToImport
<1>4. UnitOf(importers[i].request) = UnitOf(f)
  BY <1>1, <1>2 DEF IInv, ImportInv, ImportersMatch
<1>5. \A j \in Importers :
        importers[j] # Idle /\ importers[j].retry /\ importers[j].file = f => i = j
  <2>1. CASE importers[i].retry
    BY <1>1, <2>1 DEF IInv, ImportInv, ClaimsHeld
  <2>2. CASE ~importers[i].retry
    BY <2>2 DEF IInv, ImportInv, ClaimsHeld, ReadyToImport
  <2> QED BY <2>1, <2>2
<1> QED BY <1>2, <1>3, <1>4, <1>5

LEMMA ImportFailsStep ==
    ASSUME IInv, NEW i \in Importers, ImportFails(i)
    PROVE  IInv'
<1> DEFINE f == importers[i].file
<1>1. /\ f \in Files
      /\ inspections[f].status \in {"absent", "retrying"}
      /\ \A j \in Importers :
           importers[j] # Idle /\ importers[j].retry /\ importers[j].file = f => i = j
  BY ReadyFacts DEF ImportFails
<1>2. /\ inspections'[f].status = "failed"
      /\ \A g \in Files : g # f => inspections'[g] = inspections[g]
  BY <1>1, StatusMoves DEF ImportFails
<1>3. /\ importers'[i] = Idle
      /\ \A j \in Importers : j # i => importers'[j] = importers[j]
  BY DEF ImportFails, IInv, TypeOK
<1>4. \A j \in Importers : importers[j] # Idle => importers[j].file \in Files
  BY DEF IInv, TypeOK, FileAtHand
<1>5. ClaimsHeld'
  BY <1>1, <1>2, <1>3, <1>4 DEF IInv, ImportInv, ClaimsHeld
<1>6. ImportersMatch'
  BY <1>3 DEF IInv, ImportInv, ImportersMatch
<1>7. ImportedHasRequest' /\ CaseInv' /\ OnePendingPerUnit'
  <2>1. \A g \in Files :
          \/ inspections'[g] = inspections[g]
          \/ inspections[g].status # "imported" /\ inspections'[g].status # "imported"
    BY <1>1, <1>2
  <2> QED BY <2>1, ImportersOnly DEF ImportFails
<1>8. TypeOK'
  BY ImportingTypes DEF IInv, Importing
<1> QED BY <1>5, <1>6, <1>7, <1>8 DEF IInv, ImportInv

LEMMA ImportStep ==
    ASSUME IInv, NEW i \in Importers, Import(i)
    PROVE  IInv'
<1> DEFINE f == importers[i].file
           r == importers[i].request
           opens == f.result = "NG" /\ requests[r].task = NormalTask
<1>1. /\ f \in Files /\ r \in Requests
      /\ inspections[f].status \in {"absent", "retrying"}
      /\ UnitOf(r) = UnitOf(f)
      /\ \A j \in Importers :
           importers[j] # Idle /\ importers[j].retry /\ importers[j].file = f => i = j
  BY ReadyFacts DEF Import
<1>2. /\ inspections'[f] = [status |-> "imported", request |-> r]
      /\ \A g \in Files : g # f => inspections'[g] = inspections[g]
  BY <1>1 DEF Import, IInv, TypeOK
<1>3. /\ importers'[i] = Idle
      /\ \A j \in Importers : j # i => importers'[j] = importers[j]
  BY DEF Import, IInv, TypeOK
<1>4. f \in Reports /\ Files \subseteq Reports /\ Cases \subseteq Files
  BY <1>1 DEF Reports, Cases
<1>5. /\ reports'[f] = [status |-> "submitted", task |-> requests[r].task]
      /\ \A x \in Reports : x # f => reports'[x] = reports[x]
  BY <1>1, <1>4 DEF Import, IInv, TypeOK
<1>6. /\ requests'[r].report = "received"
      /\ \A o \in Requests :
          /\ requests'[o].decision = requests[o].decision
          /\ requests'[o].task = requests[o].task
          /\ o # r => requests'[o] = requests[o]
  <2>1. requests \in [Requests -> RequestRow]
    BY DEF IInv, TypeOK
  <2> QED BY <1>1, <2>1 DEF Import, RequestRow
<1>7. f \in Cases => cases[f].status = "none"
  BY <1>1 DEF IInv, CaseInv, CasesConsistent
<1>8. opens => f \in Cases /\ UnitFree(f)
  BY <1>1 DEF Import, Accepts, Cases
<1>9. /\ opens => /\ cases'[f].status = "pending_review"
                  /\ cases'[f].action = "pending"
      /\ \A d \in Cases : ~(opens /\ d = f) => cases'[d] = cases[d]
  BY <1>1, <1>8 DEF Import, IInv, TypeOK, NewCase
<1>10. UNCHANGED <<handlers, credit>>
  BY DEF Import
<1>11. NormalTask \notin Cases
  BY <1>4
<1>12. ImportInv'
  <2>1. \A j \in Importers : importers[j] # Idle => importers[j].file \in Files
    BY DEF IInv, TypeOK, FileAtHand
  <2>2. ImportedHasRequest'
    BY <1>1, <1>2 DEF IInv, ImportInv, ImportedHasRequest
  <2>3. ClaimsHeld'
    BY <1>1, <1>2, <1>3, <2>1 DEF IInv, ImportInv, ClaimsHeld
  <2>4. ImportersMatch'
    BY <1>3 DEF IInv, ImportInv, ImportersMatch
  <2> QED BY <2>2, <2>3, <2>4 DEF ImportInv
<1>13. OnePendingPerUnit'
  BY <1>1, <1>6 DEF IInv, OnePendingPerUnit, PendingFor
<1>14. TasksFit'
  <2>1. \A d \in Cases : cases[d].status # "none" => cases'[d].status # "none"
    BY <1>7, <1>9
  <2>2. ASSUME NEW x, NEW task, TaskFits(x, task)
        PROVE  TaskFits(x, task)'
    BY <2>1, <2>2 DEF TaskFits
  <2>3. \A o \in Requests : TaskFits(o, requests[o].task)'
    BY <1>6, <2>2 DEF IInv, CaseInv, TasksFit
  <2>4. \A h \in Handlers :
          handlers'[h] # Idle => TaskFits(handlers[h].request, handlers[h].task)'
    BY <1>10, <2>2 DEF IInv, CaseInv, TasksFit
  <2>5. TaskFits(f, requests[r].task)
    BY <1>1 DEF IInv, CaseInv, TasksFit, TaskFits
  <2>6. \A g \in Files : TaskFits(g, reports[g].task)'
    BY <1>4, <1>5, <2>2, <2>5 DEF IInv, CaseInv, TasksFit
  <2>7. \A g \in Files :
          reports'[g].task # NormalTask => inspections'[g].status = "imported"
    BY <1>1, <1>2, <1>4, <1>5 DEF IInv, CaseInv, TasksFit
  <2> QED BY <2>3, <2>4, <2>6, <2>7 DEF TasksFit
<1>15. CasesConsistent'
  BY <1>1, <1>2, <1>4, <1>7, <1>9 DEF IInv, CaseInv, CasesConsistent
<1>16. CycleInTurn'
  <2> SUFFICES ASSUME NEW g \in Cases, reports'[g].task \in Cases, cases'[g].status # "none"
               PROVE  ~OpenCase(reports[g].task)'
    BY DEF CycleInTurn
  <2>1. CASE g = f
    BY <1>4, <1>5, <1>7, <1>9, <1>11, <2>1
  <2>2. CASE g # f
    <3>1. reports'[g].task = reports[g].task /\ cases[g].status # "none"
      BY <1>4, <1>5, <1>9, <2>2
    <3>2. cases[reports[g].task].status # "none" /\ ~OpenCase(reports[g].task)
      BY <1>4, <3>1 DEF IInv, CaseInv, TasksFit, TaskFits, CycleInTurn
    <3>3. cases'[reports[g].task] = cases[reports[g].task]
      BY <1>7, <1>8, <1>9, <3>1, <3>2
    <3> QED BY <3>1, <3>2, <3>3 DEF OpenCase
  <2> QED BY <2>1, <2>2
<1>17. OneOpenCase'
  <2>1. \A d \in Cases : ~(opens /\ d = f) => OpenCase(d)' = OpenCase(d)
    BY <1>9 DEF OpenCase
  <2>2. opens => \A d \in Cases : UnitOf(d) = UnitOf(f) => ~OpenCase(d)
    BY <1>8 DEF UnitFree
  <2> QED BY <1>8, <2>1, <2>2 DEF IInv, CaseInv, OneOpenCase
<1>18. CreditedOnce'
  BY <1>7, <1>8, <1>9, <1>10 DEF IInv, CaseInv, CreditedOnce
<1>19. NoDefectForgotten'
  <2> SUFFICES ASSUME NEW g \in Cases,
                      inspections'[g].status = "imported",
                      reports'[g].task = NormalTask \/ reports'[g].status = "posted"
               PROVE  cases'[g].status # "none"
    BY DEF NoDefectForgotten
  <2>1. CASE g = f
    BY <1>4, <1>5, <1>9, <2>1 DEF Cases
  <2>2. CASE g # f
    BY <1>2, <1>4, <1>5, <1>9, <2>2 DEF IInv, CaseInv, NoDefectForgotten
  <2> QED BY <2>1, <2>2
<1>20. TypeOK'
  BY ImportingTypes DEF IInv, Importing
<1> QED BY <1>12, <1>13, <1>14, <1>15, <1>16, <1>17, <1>18, <1>19, <1>20 DEF IInv, CaseInv

LEMMA ImportingStep ==
    ASSUME IInv, Importing
    PROVE  IInv'
<1>1. ASSUME NEW f \in Files, RejectFile(f) PROVE IInv'
  <2>1. \A g \in Files :
          \/ inspections'[g] = inspections[g]
          \/ inspections[g].status # "imported" /\ inspections'[g].status # "imported"
    BY <1>1, StatusMoves DEF RejectFile
  <2>2. ImportedHasRequest' /\ CaseInv' /\ OnePendingPerUnit'
    BY <1>1, <2>1, ImportersOnly DEF RejectFile
  <2>3. \A g \in Files :
          inspections[g].status = "retrying" => inspections'[g].status = "retrying"
    BY <1>1, StatusMoves DEF RejectFile
  <2>4. \A j \in Importers : importers[j] # Idle => importers[j].file \in Files
    BY DEF IInv, TypeOK, FileAtHand
  <2>5. ClaimsHeld' /\ ImportersMatch'
    BY <1>1, <2>3, <2>4 DEF RejectFile, IInv, ImportInv, ClaimsHeld, ImportersMatch
  <2> QED BY <2>2, <2>5, ImportingTypes DEF IInv, ImportInv
<1>2. ASSUME NEW i \in Importers, NEW f \in Files, FindRequest(i, f) \/ ClaimRetry(i, f)
      PROVE  IInv'
  BY <1>2, FindSteps
<1>3. ASSUME NEW i \in Importers,
             RetryRequest(i) \/ Overtaken(i) \/ Import(i) \/ ImportFails(i)
      PROVE  IInv'
  BY <1>3, RetryStep, OvertakenStep, ImportStep, ImportFailsStep
<1> QED BY <1>1, <1>2, <1>3 DEF Importing
-----------------------------------------------------------------------------
(* Dispositions and production. *)

\* One case moving to another status, with a decision that fits, while no new
\* case appears: what that preserves.  Reopening a closed case is not a move.
LEMMA CaseMoveStep ==
    ASSUME IInv, NEW d \in Cases,
           cases[d].status \in OpenStatus,
           cases'[d].status \in OpenStatus \union {"completed", "rejected"},
           cases'[d].status \in {"approved", "task_started"} => cases'[d].action = "rework",
           cases'[d].status # "pending_review",
           \A o \in Cases : o # d => cases'[o] = cases[o],
           UNCHANGED <<accessVars, importVars>>,
           \A r \in Reports : reports'[r].task = reports[r].task,
           \A f \in Cases : reports'[f].status = "posted" => reports[f].status = "posted"
    PROVE  /\ ImportInv' /\ OnePendingPerUnit'
           /\ (TasksFit /\ CasesConsistent /\ CycleInTurn /\ OneOpenCase /\ NoDefectForgotten)'
<1>1. UNCHANGED <<requests, handlers, inspections, importers>>
  BY DEF accessVars, importVars
<1>2. Cases \subseteq Files /\ Files \subseteq Reports
  BY DEF Cases, Reports
<1>3. \A o \in Cases :
        /\ cases'[o].status # "none" <=> cases[o].status # "none"
        /\ OpenCase(o)' => OpenCase(o)
  BY DEF OpenCase, OpenStatus
<1>4. ImportInv' /\ OnePendingPerUnit'
  BY <1>1 DEF IInv, ImportInv, ImportedHasRequest, ClaimsHeld, ImportersMatch,
              OnePendingPerUnit, PendingFor
<1>5. TasksFit'
  BY <1>1, <1>2, <1>3 DEF IInv, CaseInv, TasksFit, TaskFits
<1>6. CasesConsistent'
  BY <1>1, <1>3 DEF IInv, CaseInv, CasesConsistent, OpenStatus
<1>7. CycleInTurn'
  BY <1>2, <1>3 DEF IInv, CaseInv, CycleInTurn
<1>8. OneOpenCase'
  BY <1>3 DEF IInv, CaseInv, OneOpenCase
<1>9. NoDefectForgotten'
  BY <1>1, <1>2, <1>3 DEF IInv, CaseInv, NoDefectForgotten
<1> QED BY <1>4, <1>5, <1>6, <1>7, <1>8, <1>9

LEMMA DispositionStep ==
    ASSUME IInv, Disposition
    PROVE  IInv'
<1>1. ASSUME NEW d \in Cases,
             cases[d].status \in {"pending_review", "approved"},
             \/ ApproveRework(d)
             \/ \E action \in {"scrap", "concession"} : ApproveFinal(d, action)
             \/ RejectCase(d)
             \/ StartRework(d)
      PROVE  IInv'
  <2>1. cases \in [Cases -> CaseRow]
    BY DEF IInv, TypeOK
  <2>2. /\ cases[d].status \in OpenStatus
        /\ cases'[d].status \in OpenStatus \union {"completed", "rejected"}
        /\ cases'[d].status # "pending_review"
        /\ cases'[d].status = "approved" => cases'[d].action = "rework"
        /\ cases'[d].status = "task_started" => cases'[d].action = cases[d].action
                                               /\ cases[d].status = "approved"
        /\ \A o \in Cases : o # d => cases'[o] = cases[o]
    <3>1. CASE ApproveRework(d)
      BY <2>1, <3>1 DEF ApproveRework, CaseRow, OpenStatus
    <3>2. CASE \E action \in {"scrap", "concession"} : ApproveFinal(d, action)
      BY <2>1, <3>2 DEF ApproveFinal, CaseRow, OpenStatus
    <3>3. CASE RejectCase(d)
      BY <2>1, <3>3 DEF RejectCase, CaseRow, OpenStatus
    <3>4. CASE StartRework(d)
      BY <2>1, <3>4 DEF StartRework, CaseRow, OpenStatus
    <3> QED BY <1>1, <3>1, <3>2, <3>3, <3>4
  <2>3. cases'[d].status \in {"approved", "task_started"} => cases'[d].action = "rework"
    BY <2>2 DEF IInv, CaseInv, CasesConsistent
  <2>4. UNCHANGED <<accessVars, importVars, reports, credit>>
    BY <1>1 DEF ApproveRework, ApproveFinal, RejectCase, StartRework, reportVars
  <2>5. CreditedOnce'
    BY <1>1, <2>2, <2>4 DEF IInv, CaseInv, CreditedOnce
  <2>6. /\ ImportInv' /\ OnePendingPerUnit'
        /\ (TasksFit /\ CasesConsistent /\ CycleInTurn /\ OneOpenCase /\ NoDefectForgotten)'
    BY <2>2, <2>3, <2>4, CaseMoveStep
  <2> QED BY <2>5, <2>6, DispositionTypes DEF IInv, CaseInv
<1> QED BY <1>1 DEF Disposition, ApproveRework, ApproveFinal, RejectCase, StartRework

\* Reviews and reports by hand touch no case.
LEMMA ReviewStep ==
    ASSUME IInv, TypeOK',
           UNCHANGED <<accessVars, importVars, cases, credit>>,
           \A f \in Files : reports'[f].task = reports[f].task,
           \A f \in Files : reports'[f].status = "posted" => reports[f].status = "posted"
    PROVE  IInv'
<1>1. UNCHANGED <<requests, handlers, inspections, importers>>
  BY DEF accessVars, importVars
<1>2. Cases \subseteq Files
  BY DEF Cases
<1>3. ImportInv' /\ OnePendingPerUnit'
  BY <1>1 DEF IInv, ImportInv, ImportedHasRequest, ClaimsHeld, ImportersMatch,
              OnePendingPerUnit, PendingFor
<1>4. TasksFit'
  BY <1>1 DEF IInv, CaseInv, TasksFit, TaskFits
<1>5. (CasesConsistent /\ CycleInTurn /\ OneOpenCase /\ CreditedOnce /\ NoDefectForgotten)'
  BY <1>1, <1>2 DEF IInv, CaseInv, CasesConsistent, CycleInTurn, OneOpenCase, OpenCase,
                    CreditedOnce, NoDefectForgotten
<1> QED BY <1>3, <1>4, <1>5 DEF IInv, CaseInv

\* The next case of a failed rework finds its place free: INSERT OR IGNORE
\* never ignores it.
LEMMA DefectIsFresh ==
    ASSUME IInv, NEW f \in Cases, Postable(f)
    PROVE  LET d == reports[f].task
           IN  /\ d \in Cases /\ cases[d].status = "task_started" /\ d # f
               /\ UnitOf(d) = UnitOf(f)
               /\ cases[f].status = "none"
               /\ \A o \in Cases \ {d} : UnitOf(o) = UnitOf(d) => ~OpenCase(o)
<1> DEFINE d == reports[f].task
<1>1. f \in Files /\ f \in Reports
  BY DEF Cases, Reports
<1>2. d \in Cases /\ cases[d].status = "task_started"
  BY <1>1 DEF IInv, TypeOK, Postable, ReportRow, Tasks
<1>3. OpenCase(d)
  BY <1>2 DEF OpenCase, OpenStatus
<1>4. cases[f].status = "none"
  BY <1>2, <1>3 DEF IInv, CaseInv, CycleInTurn
<1>5. UnitOf(d) = UnitOf(f)
  BY <1>1, <1>2 DEF IInv, CaseInv, TasksFit, TaskFits
<1>6. \A o \in Cases \ {d} : UnitOf(o) = UnitOf(d) => ~OpenCase(o)
  BY <1>2, <1>3 DEF IInv, CaseInv, OneOpenCase
<1> QED BY <1>2, <1>4, <1>5, <1>6

LEMMA PostGoodStep ==
    ASSUME IInv, NEW x \in Reports, PostGood(x)
    PROVE  IInv'
<1> DEFINE d == reports[x].task
<1>1. d \in Cases /\ cases[d].status = "task_started"
  BY DEF PostGood, Postable, IInv, TypeOK, ReportRow, Tasks
<1>2. cases[d].action = "rework" /\ credit[d] = 0
  <2>1. credit[d] \in Nat
    BY <1>1 DEF IInv, TypeOK
  <2> QED BY <1>1, <2>1 DEF IInv, CaseInv, CasesConsistent, CreditedOnce
<1>3. /\ cases'[d].status = "completed" /\ cases'[d].action = "rework"
      /\ \A o \in Cases : o # d => cases'[o] = cases[o]
  <2>1. cases \in [Cases -> CaseRow]
    BY DEF IInv, TypeOK
  <2>2. cases' = [cases EXCEPT ![d].status = "completed"]
    BY DEF PostGood, Closed
  <2> QED BY <1>1, <1>2, <2>1, <2>2 DEF CaseRow
<1>4. /\ credit'[d] = 1
      /\ \A o \in Cases : o # d => credit'[o] = credit[o]
  BY <1>1, <1>2 DEF PostGood, IInv, TypeOK
<1>5. UNCHANGED <<accessVars, importVars>>
  BY DEF PostGood
<1>6. /\ \A r \in Reports : reports'[r].task = reports[r].task
      /\ \A f \in Cases : reports'[f].status = "posted" => reports[f].status = "posted"
  <2>1. reports \in [Reports -> ReportRow] /\ Cases \subseteq Reports
    BY DEF IInv, TypeOK, Cases, Reports
  <2>2. reports' = [reports EXCEPT ![x].status = "posted"] /\ x \notin Cases
    BY DEF PostGood
  <2> QED BY <2>1, <2>2 DEF ReportRow
<1>7. CreditedOnce'
  BY <1>1, <1>3, <1>4 DEF IInv, CaseInv, CreditedOnce
<1>8. /\ ImportInv' /\ OnePendingPerUnit'
      /\ (TasksFit /\ CasesConsistent /\ CycleInTurn /\ OneOpenCase /\ NoDefectForgotten)'
  BY <1>1, <1>3, <1>5, <1>6, CaseMoveStep DEF OpenStatus
<1> QED BY <1>7, <1>8, ProductionTypes DEF IInv, CaseInv, Production

LEMMA PostDefectStep ==
    ASSUME IInv, NEW f \in Cases, PostDefect(f)
    PROVE  IInv'
<1> DEFINE d == reports[f].task
<1>1. /\ d \in Cases /\ cases[d].status = "task_started" /\ d # f
      /\ UnitOf(d) = UnitOf(f)
      /\ cases[f].status = "none"
      /\ \A o \in Cases \ {d} : UnitOf(o) = UnitOf(d) => ~OpenCase(o)
  BY DefectIsFresh DEF PostDefect
<1>2. /\ cases'[d].status = "completed" /\ cases'[d].action = cases[d].action
      /\ cases'[f].status = "pending_review" /\ cases'[f].action = "pending"
      /\ \A o \in Cases : o \notin {d, f} => cases'[o] = cases[o]
  <2>1. cases \in [Cases -> CaseRow]
    BY DEF IInv, TypeOK
  <2>2. cases' = [Closed(d) EXCEPT ![f] = NewCase(cases[d].cycle + 1, cases[d].source)]
    BY <1>1 DEF PostDefect, Inserts
  <2>3. /\ Closed(d)[d].status = "completed" /\ Closed(d)[d].action = cases[d].action
        /\ DOMAIN Closed(d) = Cases
        /\ \A o \in Cases : o # d => Closed(d)[o] = cases[o]
    BY <1>1, <2>1 DEF CaseRow, Closed
  <2> QED BY <1>1, <2>2, <2>3 DEF NewCase
<1>3. UNCHANGED <<requests, handlers, inspections, importers, credit>>
  BY DEF PostDefect, accessVars, importVars
<1>4. Cases \subseteq Files /\ Files \subseteq Reports
  BY DEF Cases, Reports
<1>5. /\ \A x \in Reports : reports'[x].task = reports[x].task
      /\ \A x \in Reports : x # f => reports'[x] = reports[x]
  <2>1. reports \in [Reports -> ReportRow] /\ f \in Reports
    BY <1>4 DEF IInv, TypeOK
  <2>2. reports' = [reports EXCEPT ![f].status = "posted"]
    BY DEF PostDefect
  <2> QED BY <2>1, <2>2 DEF ReportRow
<1>6. \A o \in Cases : cases[o].status # "none" => cases'[o].status # "none"
  BY <1>1, <1>2
<1>7. ImportInv' /\ OnePendingPerUnit'
  BY <1>3 DEF IInv, ImportInv, ImportedHasRequest, ClaimsHeld, ImportersMatch,
              OnePendingPerUnit, PendingFor
<1>8. TasksFit'
  BY <1>3, <1>4, <1>5, <1>6 DEF IInv, CaseInv, TasksFit, TaskFits
<1>9. CasesConsistent'
  <2>1. inspections[f].status = "imported" /\ inspections[d].status = "imported"
    BY <1>1, <1>4 DEF IInv, CaseInv, TasksFit, CasesConsistent, Cases
  <2> QED BY <1>1, <1>2, <1>3, <2>1 DEF IInv, CaseInv, CasesConsistent
<1>10. cases'[d].status \notin OpenStatus
  BY <1>2 DEF OpenStatus
<1>11. \A o \in Cases : o # f /\ cases'[o].status \in OpenStatus => o # d /\ OpenCase(o)
  BY <1>2, <1>10 DEF OpenCase
<1>12. CycleInTurn'
  <2> SUFFICES ASSUME NEW g \in Cases, reports'[g].task \in Cases, cases'[g].status # "none"
               PROVE  ~OpenCase(reports[g].task)'
    BY DEF CycleInTurn
  <2>1. reports'[g].task = reports[g].task
    BY <1>4, <1>5
  <2>2. CASE g = f
    BY <1>10, <2>1, <2>2 DEF OpenCase
  <2>3. CASE g # f
    <3>1. cases[g].status # "none"
      BY <1>1, <1>2, <2>3
    <3>2. reports[g].task # f
      BY <1>1, <1>4, <2>1 DEF IInv, CaseInv, TasksFit, TaskFits
    <3>3. ~OpenCase(reports[g].task)
      BY <2>1, <3>1 DEF IInv, CaseInv, CycleInTurn
    <3> QED BY <1>11, <2>1, <3>2, <3>3 DEF OpenCase
  <2> QED BY <2>2, <2>3
<1>13. OneOpenCase'
  <2> SUFFICES ASSUME NEW o \in Cases, NEW p \in Cases, UnitOf(o) = UnitOf(p),
                      cases'[o].status \in OpenStatus, cases'[p].status \in OpenStatus
               PROVE  o = p
    BY DEF OneOpenCase, OpenCase
  <2>1. ASSUME NEW q \in Cases, cases'[q].status \in OpenStatus, UnitOf(q) = UnitOf(f)
        PROVE  q = f
    BY <1>1, <1>11, <2>1
  <2>2. CASE o = f \/ p = f
    BY <2>1, <2>2
  <2>3. CASE o # f /\ p # f
    BY <1>11, <2>3 DEF IInv, CaseInv, OneOpenCase
  <2> QED BY <2>2, <2>3
<1>14. CreditedOnce'
  BY <1>1, <1>2, <1>3 DEF IInv, CaseInv, CreditedOnce
<1>15. NoDefectForgotten'
  BY <1>2, <1>3, <1>4, <1>5, <1>6 DEF IInv, CaseInv, NoDefectForgotten
<1> QED BY <1>7, <1>8, <1>9, <1>12, <1>13, <1>14, <1>15, ProductionTypes
        DEF IInv, CaseInv, Production

LEMMA ProductionStep ==
    ASSUME IInv, Production
    PROVE  IInv'
<1>1. ManualReports \intersect Files = {} /\ Cases \subseteq Files /\ Files \subseteq Reports
  BY DEF Cases, Reports
<1>2. ASSUME NEW v \in Reviewers, NEW kind \in {"task", "report"}, NEW x \in Reports,
             NEW to \in {"running", "paused", "completed", "approved", "rejected"},
             JudgeTransition(v, kind, x, to)
      PROVE  IInv'
  BY <1>2, ReviewStep, ProductionTypes DEF JudgeTransition, dispositionVars, Production, IInv
<1>3. ASSUME NEW v \in Reviewers, WriteTransition(v) PROVE IInv'
  <2>1. UNCHANGED <<accessVars, importVars, cases, credit>>
    BY <1>3 DEF WriteTransition
  <2>2. /\ \A f \in Files : reports'[f].task = reports[f].task
        /\ \A f \in Files : reports'[f].status = "posted" => reports[f].status = "posted"
    <3>1. CASE UNCHANGED reports
      BY <3>1
    <3>2. CASE /\ reviewers[v].kind = "report"
               /\ reports' = [reports EXCEPT ![reviewers[v].id].status = reviewers[v].to]
      <4>1. reviewers[v] \in Transition
        BY <1>3 DEF WriteTransition, IInv, TypeOK
      <4>2. reviewers[v].id \in Reports /\ reviewers[v].to # "posted"
        BY <3>2, <4>1 DEF Transition
      <4>3. reports \in [Reports -> ReportRow]
        BY DEF IInv, TypeOK
      <4> QED BY <1>1, <3>2, <4>2, <4>3 DEF ReportRow
    <3> QED BY <1>3, <3>1, <3>2 DEF WriteTransition
  <2> QED BY <1>3, <2>1, <2>2, ReviewStep, ProductionTypes DEF Production, IInv
<1>4. ASSUME NEW m \in ManualReports, NEW d \in Cases, ReportByHand(m, d) PROVE IInv'
  <2>1. UNCHANGED <<accessVars, importVars, cases, credit>>
    BY <1>4 DEF ReportByHand, dispositionVars
  <2>2. \A f \in Files : reports'[f] = reports[f]
    BY <1>1, <1>4 DEF ReportByHand, IInv, TypeOK
  <2> QED BY <1>4, <2>1, <2>2, ReviewStep, ProductionTypes DEF Production, IInv
<1>5. ASSUME NEW r \in Reports, PostGood(r) PROVE IInv'
  BY <1>5, PostGoodStep
<1>6. ASSUME NEW f \in Cases, PostDefect(f) PROVE IInv'
  BY <1>6, PostDefectStep
<1> QED BY <1>2, <1>3, <1>4, <1>5, <1>6 DEF Production
-----------------------------------------------------------------------------
(* Restarts. *)

LEMMA RestartCases ==
    ASSUME IInv, Restart
    PROVE  \E S \in SUBSET Backlog :
            /\ \A f \in S : UnitFree(f) /\ \A g \in S : UnitOf(f) = UnitOf(g) => f = g
            /\ \A f \in S : cases'[f].status = "pending_review" /\ cases'[f].action = "pending"
            /\ \A d \in Cases \ S : cases'[d] = cases[d]
<1>1. ASSUME NEW S \in SUBSET Backlog, Backfill(S)
      PROVE  /\ \A f \in S : UnitFree(f) /\ \A g \in S : UnitOf(f) = UnitOf(g) => f = g
             /\ \A f \in S : cases'[f].status = "pending_review" /\ cases'[f].action = "pending"
             /\ \A d \in Cases \ S : cases'[d] = cases[d]
  BY <1>1 DEF Backfill, NewCase, Backlog
<1>2. CASE \E S \in SUBSET Backlog : Backfill(S)
  BY <1>1, <1>2
<1>3. CASE UNCHANGED cases
  <2>1. {} \in SUBSET Backlog
    OBVIOUS
  <2> QED BY <1>3, <2>1
<1> QED BY <1>2, <1>3 DEF Restart

LEMMA RestartStep ==
    ASSUME IInv, Restart
    PROVE  IInv'
<1>1. PICK S \in SUBSET Backlog :
        /\ \A f \in S : UnitFree(f) /\ \A g \in S : UnitOf(f) = UnitOf(g) => f = g
        /\ \A f \in S : cases'[f].status = "pending_review" /\ cases'[f].action = "pending"
        /\ \A d \in Cases \ S : cases'[d] = cases[d]
  BY RestartCases
<1>2. S \subseteq Cases /\ \A f \in S : inspections[f].status = "imported" /\ cases[f].status = "none"
  BY <1>1 DEF Backlog
<1>3. /\ UNCHANGED <<requests, inspections, reports, credit>>
      /\ \A h \in Handlers : handlers'[h] = Idle
      /\ \A i \in Importers : importers'[i] = Idle
  BY DEF Restart
<1>4. Cases \subseteq Files /\ Files \subseteq Reports
  BY DEF Cases, Reports
<1>5. \A o \in Cases : cases[o].status # "none" => o \notin S /\ cases'[o] = cases[o]
  BY <1>1, <1>2
<1>6. ImportInv' /\ OnePendingPerUnit'
  BY <1>3 DEF IInv, ImportInv, ImportedHasRequest, ClaimsHeld, ImportersMatch,
              OnePendingPerUnit, PendingFor
<1>7. TasksFit'
  BY <1>3, <1>5 DEF IInv, CaseInv, TasksFit, TaskFits
<1>8. CasesConsistent'
  BY <1>1, <1>2, <1>3 DEF IInv, CaseInv, CasesConsistent
<1>9. CycleInTurn'
  <2> SUFFICES ASSUME NEW g \in Cases, reports[g].task \in Cases, cases'[g].status # "none"
               PROVE  cases'[reports[g].task].status \notin OpenStatus
    BY <1>3 DEF CycleInTurn, OpenCase
  <2> DEFINE d == reports[g].task
  <2>1. cases'[d] = cases[d] /\ UnitOf(d) = UnitOf(g)
    BY <1>4, <1>5 DEF IInv, CaseInv, TasksFit, TaskFits
  <2>2. CASE g \in S
    BY <1>1, <2>1, <2>2 DEF UnitFree, OpenCase
  <2>3. CASE g \notin S
    BY <1>1, <2>1, <2>3 DEF IInv, CaseInv, CycleInTurn, OpenCase
  <2> QED BY <2>2, <2>3
<1>10. OneOpenCase'
  <2> SUFFICES ASSUME NEW o \in Cases, NEW p \in Cases, UnitOf(o) = UnitOf(p),
                      cases'[o].status \in OpenStatus, cases'[p].status \in OpenStatus
               PROVE  o = p
    BY DEF OneOpenCase, OpenCase
  <2>1. \A q \in Cases : q \notin S /\ cases'[q].status \in OpenStatus => OpenCase(q)
    BY <1>1 DEF OpenCase
  <2> QED BY <1>1, <1>2, <2>1 DEF IInv, CaseInv, OneOpenCase, UnitFree
<1>11. CreditedOnce'
  BY <1>3, <1>5 DEF IInv, CaseInv, CreditedOnce
<1>12. NoDefectForgotten'
  BY <1>3, <1>5 DEF IInv, CaseInv, NoDefectForgotten
<1>13. TypeOK'
  BY RestartTypes DEF IInv, ImportInv
<1> QED BY <1>6, <1>7, <1>8, <1>9, <1>10, <1>11, <1>12, <1>13 DEF IInv, CaseInv

-----------------------------------------------------------------------------
(* The invariants. *)

LEMMA Unchanged ==
    ASSUME IInv, UNCHANGED vars
    PROVE  IInv'
<1>1. TypeOK'
  BY DEF IInv, TypeOK, vars, accessVars, importVars, reportVars, dispositionVars
<1>2. UNCHANGED <<accessVars, importVars, cases, credit, reports>>
  BY DEF vars, reportVars, dispositionVars
<1> QED BY <1>1, <1>2, ReviewStep

\* The strengthening the invariants below need holds throughout.
THEOREM Invariant == Spec => []IInv
<1>1. IInv /\ [Next]_vars => IInv'
  BY AccessStep, ImportingStep, DispositionStep, ProductionStep, RestartStep, Unchanged DEF Next
<1> QED BY <1>1, InitHolds, PTL DEF Spec

\* Tables and sessions stay in their ranges.
THEOREM TypeCorrect == Spec => []TypeOK
BY Invariant, PTL DEF IInv

\* A unit has one open case at a time, for any number of machines, importers
\* and restarts.
THEOREM OneOpenCaseHolds == Spec => []OneOpenCase
<1>1. IInv => OneOpenCase
  BY DEF IInv, CaseInv
<1> QED BY <1>1, Invariant, PTL

\* A rework adds its piece to source task and work order once.
THEOREM CreditedOnceHolds == Spec => []CreditedOnce
<1>1. IInv => CreditedOnce
  BY DEF IInv, CaseInv
<1> QED BY <1>1, Invariant, PTL

\* Every defect that production has posted or ordinary inspection imported has
\* a case.
THEOREM NoDefectForgottenHolds == Spec => []NoDefectForgotten
<1>1. IInv => NoDefectForgotten
  BY DEF IInv, CaseInv
<1> QED BY <1>1, Invariant, PTL

\* A machine has one unreported admission for a serial number at a time.
THEOREM OnePendingPerUnitHolds == Spec => []OnePendingPerUnit
<1>1. IInv => OnePendingPerUnit
  BY DEF IInv
<1> QED BY <1>1, Invariant, PTL
-----------------------------------------------------------------------------
(* Refinement. *)

\* The state QualityCases sees.
Seen == <<[d \in Cases |-> cases[d].status], [d \in Cases |-> cases[d].action], credit>>

LEMMA OpensPromised ==
    ASSUME IInv, NEW S \in SUBSET Cases,
           \A f \in S : /\ cases[f].status = "none"
                        /\ UnitFree(f)
                        /\ \A g \in S : UnitOf(f) = UnitOf(g) => f = g,
           \A f \in S : cases'[f].status = "pending_review" /\ cases'[f].action = "pending",
           \A d \in Cases \ S : cases'[d] = cases[d],
           UNCHANGED credit
    PROVE  Promise!Open(S)
<1>1. \A f \in S : cases[f].action = "pending"
  BY DEF IInv, CaseInv, CasesConsistent
<1>2. [d \in Cases |-> cases[d].status]'
        = [c \in Cases |-> IF c \in S THEN "pending_review"
                           ELSE [d \in Cases |-> cases[d].status][c]]
  OBVIOUS
<1>3. [d \in Cases |-> cases[d].action]' = [d \in Cases |-> cases[d].action]
  BY <1>1
<1> QED BY <1>2, <1>3 DEF Promise!Open, Promise!OpenStages, UnitFree, OpenCase, OpenStatus

LEMMA ImportPromised ==
    ASSUME IInv, NEW i \in Importers, Import(i)
    PROVE  Promise!CasesNext \/ UNCHANGED Seen
<1> DEFINE f == importers[i].file
           opens == f.result = "NG" /\ requests[importers[i].request].task = NormalTask
<1>1. f \in Files /\ inspections[f].status # "imported"
  BY ReadyFacts DEF Import
<1>2. CASE opens
  <2>1. f \in Cases /\ UnitFree(f)
    BY <1>1, <1>2 DEF Import, Accepts, Cases
  <2>2. cases[f].status = "none"
    BY <1>1, <2>1 DEF IInv, CaseInv, CasesConsistent
  <2>3. /\ cases'[f].status = "pending_review" /\ cases'[f].action = "pending"
        /\ \A d \in Cases \ {f} : cases'[d] = cases[d]
    BY <1>2, <2>1 DEF Import, IInv, TypeOK, NewCase
  <2>4. UNCHANGED credit
    BY DEF Import
  <2>5. PICK S \in SUBSET Cases : S = {f}
    BY <2>1
  <2>6. /\ \A g \in S : /\ cases[g].status = "none"
                       /\ UnitFree(g)
                       /\ \A h \in S : UnitOf(g) = UnitOf(h) => g = h
        /\ \A g \in S : cases'[g].status = "pending_review" /\ cases'[g].action = "pending"
        /\ \A d \in Cases \ S : cases'[d] = cases[d]
    BY <2>1, <2>2, <2>3, <2>5
  <2>7. Promise!Open(S)
    BY <2>4, <2>6, OpensPromised
  <2> QED BY <2>7 DEF Promise!CasesNext
<1>3. CASE ~opens
  BY <1>3 DEF Import, Seen
<1> QED BY <1>2, <1>3

LEMMA DispositionPromised ==
    ASSUME IInv, Disposition
    PROVE  Promise!CasesNext
<1> USE DEF Promise!Decide, Promise!Start
<1>1. cases \in [Cases -> CaseRow]
  BY DEF IInv, TypeOK
<1>2. ASSUME NEW d \in Cases, ApproveRework(d)
      PROVE  Promise!Decide(d, "rework", "approved")
  BY <1>1, <1>2 DEF ApproveRework, CaseRow
<1>3. ASSUME NEW d \in Cases, NEW action \in {"scrap", "concession"}, ApproveFinal(d, action)
      PROVE  Promise!Decide(d, action, "completed")
  BY <1>1, <1>3 DEF ApproveFinal, CaseRow
<1>4. ASSUME NEW d \in Cases, RejectCase(d)
      PROVE  Promise!Decide(d, "pending", "rejected")
  <2>1. cases[d].action = "pending"
    BY <1>4 DEF IInv, CaseInv, CasesConsistent, RejectCase
  <2> QED BY <1>1, <1>4, <2>1 DEF RejectCase, CaseRow
<1>5. ASSUME NEW d \in Cases, StartRework(d)
      PROVE  Promise!Start(d)
  BY <1>1, <1>5 DEF StartRework, CaseRow
<1> QED BY <1>2, <1>3, <1>4, <1>5 DEF Disposition, Promise!CasesNext

LEMMA PostGoodPromised ==
    ASSUME IInv, NEW r \in Reports, PostGood(r)
    PROVE  Promise!CasesNext
<1> DEFINE d == reports[r].task
<1>1. d \in Cases /\ cases[d].status = "task_started"
  BY DEF PostGood, Postable, IInv, TypeOK, ReportRow, Tasks
<1>2. cases \in [Cases -> CaseRow]
  BY DEF IInv, TypeOK
<1>3. /\ cases' = [cases EXCEPT ![d].status = "completed"]
      /\ credit' = [credit EXCEPT ![d] = @ + 1]
  BY DEF PostGood, Closed
<1>4. \E c \in Cases : Promise!Succeed(c)
  BY <1>1, <1>2, <1>3 DEF Promise!Succeed, CaseRow
<1> QED BY <1>4, Zenon DEF Promise!CasesNext

LEMMA PostDefectPromised ==
    ASSUME IInv, NEW f \in Cases, PostDefect(f)
    PROVE  Promise!CasesNext
<1> DEFINE d == reports[f].task
<1>1. /\ d \in Cases /\ cases[d].status = "task_started" /\ d # f
      /\ UnitOf(d) = UnitOf(f)
      /\ cases[f].status = "none"
      /\ \A o \in Cases \ {d} : UnitOf(o) = UnitOf(d) => ~OpenCase(o)
  BY DefectIsFresh DEF PostDefect
<1>2. cases[f].action = "pending"
  BY <1>1 DEF IInv, CaseInv, CasesConsistent
<1>3. /\ cases'[d].status = "completed" /\ cases'[d].action = cases[d].action
      /\ cases'[f].status = "pending_review" /\ cases'[f].action = "pending"
      /\ \A o \in Cases : o \notin {d, f} => cases'[o] = cases[o]
  <2>1. cases \in [Cases -> CaseRow]
    BY DEF IInv, TypeOK
  <2>2. cases' = [Closed(d) EXCEPT ![f] = NewCase(cases[d].cycle + 1, cases[d].source)]
    BY <1>1 DEF PostDefect, Inserts
  <2>3. /\ Closed(d)[d].status = "completed" /\ Closed(d)[d].action = cases[d].action
        /\ DOMAIN Closed(d) = Cases
        /\ \A o \in Cases : o # d => Closed(d)[o] = cases[o]
    BY <1>1, <2>1 DEF CaseRow, Closed
  <2> QED BY <1>1, <2>2, <2>3 DEF NewCase
<1>4. UNCHANGED credit
  BY DEF PostDefect
<1>5. Promise!Recur(d, f)
  BY <1>1, <1>2, <1>3, <1>4 DEF Promise!Recur
<1> QED BY <1>1, <1>5 DEF Promise!CasesNext

\* One step of the tables is one step of the promise, or none.
LEMMA StepPromised ==
    ASSUME IInv, [Next]_vars
    PROVE  [Promise!CasesNext]_<<[d \in Cases |-> cases[d].status],
                                 [d \in Cases |-> cases[d].action], credit>>
<1> SUFFICES Promise!CasesNext \/ UNCHANGED Seen
  BY DEF Seen
<1>1. CASE Access
  BY <1>1, AccessFrame DEF dispositionVars, Seen
<1>2. CASE Importing
  <2>1. ASSUME NEW i \in Importers, Import(i) PROVE Promise!CasesNext \/ UNCHANGED Seen
    BY <2>1, ImportPromised
  <2> QED BY <1>2, <2>1 DEF Importing, RejectFile, FindRequest, ClaimRetry, RetryRequest,
                            Overtaken, ImportFails, dispositionVars, Seen
<1>3. CASE Disposition
  BY <1>3, DispositionPromised
<1>4. CASE Production
  BY <1>4, PostGoodPromised, PostDefectPromised
     DEF Production, JudgeTransition, WriteTransition, ReportByHand, dispositionVars, Seen
<1>5. CASE Restart
  <2>1. PICK S \in SUBSET Backlog :
          /\ \A f \in S : UnitFree(f) /\ \A g \in S : UnitOf(f) = UnitOf(g) => f = g
          /\ \A f \in S : cases'[f].status = "pending_review" /\ cases'[f].action = "pending"
          /\ \A d \in Cases \ S : cases'[d] = cases[d]
    BY <1>5, RestartCases
  <2>2. S \in SUBSET Cases /\ \A f \in S : cases[f].status = "none"
    BY <2>1 DEF Backlog
  <2>3. UNCHANGED credit
    BY <1>5 DEF Restart
  <2>4. Promise!Open(S)
    BY <2>1, <2>2, <2>3, OpensPromised
  <2> QED BY <2>2, <2>4 DEF Promise!CasesNext
<1>6. CASE UNCHANGED vars
  BY <1>6 DEF vars, dispositionVars, Seen
<1> QED BY <1>1, <1>2, <1>3, <1>4, <1>5, <1>6 DEF Next

\* Quality disposition keeps its promise whatever machines, importers,
\* reviewers and restarts do: one open case for a unit, each decided once,
\* and a successful rework credited once.
THEOREM Refinement == Spec => ImplementsQualityCases
<1>1. Init => Promise!CasesInit
  BY DEF Init, Promise!CasesInit
<1>2. IInv /\ [Next]_vars => [Promise!CasesNext]_<<[d \in Cases |-> cases[d].status],
                                 [d \in Cases |-> cases[d].action], credit>>
  BY StepPromised
<1> QED BY <1>1, <1>2, Invariant, PTL
        DEF Spec, ImplementsQualityCases, Promise!CasesSpec, Promise!caseVars
=============================================================================
