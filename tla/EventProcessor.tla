--------------------------- MODULE EventProcessor ---------------------------
(***************************************************************************)
(* From stored device events to production effects: the processing workers *)
(* of backend/services/device_event_processor.py.  A worker is one run of  *)
(* process_pending_events after another: the dispatch thread of            *)
(* machine_runtime.py, or the process route of the device platform API.    *)
(* They share the table iot_device_event, whose rows DeviceEventIngest     *)
(* adds, and commit after almost every statement; an action here is what   *)
(* happens between two commits.                                            *)
(*                                                                         *)
(* All workers have the worker_id 'processor'; only the uuid4 lease token  *)
(* tells them apart.  A worker has at most one claim in hand, and its next *)
(* claim of a row takes a reset of that row first, so the worker itself    *)
(* stands for the token it drew.  The lease and backoff instants are the   *)
(* truth of "still ahead", as in EdgeEventStore.                           *)
(***************************************************************************)
EXTENDS DeviceEventIngest

CONSTANTS Workers,
          NoWorker,    \* processing_lease_token IS NULL
          NoEvent,     \* a worker with no claim in hand
          Limit,       \* rows one run takes up
          Tasks,       \* prod_task rows
          Planned,     \* planned_qty of each task
          Reporting,   \* quality.completed events that are to be reported
          TaskOf,      \* payload task_id of those
          Quantity,    \* payload qualified_qty of those
          Malformed,   \* events whose payload the handler rejects
          Linked       \* AIM reports that prod_report knows from the import

ASSUME ProcessorAssumption ==
    /\ NoWorker \notin Workers
    /\ NoEvent \notin Events
    /\ Limit \in Nat \ {0}
    /\ Planned \in [Tasks -> Nat]
    /\ Reporting \subseteq Events
    /\ TaskOf \in [Reporting -> Tasks]
    /\ Quantity \in [Reporting -> Nat]
    /\ Malformed \subseteq Events
    /\ Linked \subseteq Events \ Reporting

VARIABLES progress,   \* processing_status; "none" when there is no row
          claimant,   \* whose token is in processing_lease_token
          leased,     \* processing_lease_until > now
          waiting,    \* next_processing_at > now
          effects,    \* event_ids of iot_device_event_effect
          reports,    \* prod_report rows per client_operation_id
          completed,  \* prod_task.completed_qty
          pc,         \* where each worker is
          batch,      \* the selected rows it has not come to
          job         \* the event of the claim in hand

rowVars == <<progress, claimant, leased, waiting>>
effectVars == <<effects, reports, completed>>
workerVars == <<pc, batch, job>>
vars == <<ingestVars, rowVars, effectVars, workerVars>>

Steps == {"idle", "select", "claim", "effect", "report", "post", "record",
          "finish", "fail"}

TypeOK ==
    /\ IngestTypeOK
    /\ progress \in [Events -> {"none", "pending", "processing", "processed", "failed"}]
    /\ claimant \in [Events -> Workers \union {NoWorker}]
    /\ leased \in [Events -> BOOLEAN]
    /\ waiting \in [Events -> BOOLEAN]
    /\ effects \subseteq Events
    /\ reports \in [Events -> Nat]
    /\ completed \in [Tasks -> Nat]
    /\ pc \in [Workers -> Steps]
    /\ batch \in [Workers -> SUBSET Events]
    /\ job \in [Workers -> Events \union {NoEvent}]

Init ==
    /\ IngestInit
    /\ progress = [e \in Events |-> "none"]
    /\ claimant = [e \in Events |-> NoWorker]
    /\ leased = [e \in Events |-> FALSE]
    /\ waiting = [e \in Events |-> FALSE]
    /\ effects = {}
    /\ reports = [e \in Events |-> 0]
    /\ completed = [t \in Tasks |-> 0]
    /\ pc = [w \in Workers |-> "idle"]
    /\ batch = [w \in Workers |-> {}]
    /\ job = [w \in Workers |-> NoEvent]

\* A gateway delivers the event; the row starts as 'pending'.
Arrive(e) ==
    /\ IngestNew(e)
    /\ progress' = [progress EXCEPT ![e] = "pending"]
    /\ UNCHANGED <<claimant, leased, waiting, effectVars, workerVars>>

(***************************************************************************)
(* The start of a run: rows whose lease has run out are pending again, and *)
(* the oldest rows that are due make up the batch.                         *)
(***************************************************************************)
Abandoned(e) == progress[e] = "processing" /\ ~leased[e]

ResetExpired(w) ==
    /\ pc[w] = "idle"
    /\ progress' = [e \in Events |-> IF Abandoned(e) THEN "pending" ELSE progress[e]]
    /\ claimant' = [e \in Events |-> IF Abandoned(e) THEN NoWorker ELSE claimant[e]]
    /\ pc' = [pc EXCEPT ![w] = "select"]
    /\ UNCHANGED <<ingestVars, leased, waiting, effectVars, batch, job>>

\* Faulty: what failed once is not tried again.
ClaimablePendingOnly(e) == progress[e] = "pending"

Claimable(e) == progress[e] \in {"pending", "failed"}

Due == {e \in Events : Claimable(e) /\ ~waiting[e]}

Oldest(S) == {e \in S : Cardinality({o \in S : rowId[o] < rowId[e]}) < Limit}

Select(w) ==
    /\ pc[w] = "select"
    /\ batch' = [batch EXCEPT ![w] = Oldest(Due)]
    /\ pc' = [pc EXCEPT ![w] = IF Due = {} THEN "idle" ELSE "claim"]
    /\ UNCHANGED <<ingestVars, rowVars, effectVars, job>>

\* Where a worker goes when it has dealt with a row: the next one of the
\* batch, or the end of the run.
After(rest) == IF rest = {} THEN "idle" ELSE "claim"

(***************************************************************************)
(* One row.  The claim only tests the status: the row may have changed     *)
(* hands, or failed again, since it was selected.                          *)
(***************************************************************************)
ClaimRow(w, e) ==
    /\ pc[w] = "claim"
    /\ e \in batch[w]
    /\ \A o \in batch[w] : rowId[e] <= rowId[o]
    /\ batch' = [batch EXCEPT ![w] = @ \ {e}]
    /\ IF Claimable(e)
       THEN /\ progress' = [progress EXCEPT ![e] = "processing"]
            /\ claimant' = [claimant EXCEPT ![e] = w]
            /\ leased' = [leased EXCEPT ![e] = TRUE]
            /\ job' = [job EXCEPT ![w] = e]
            /\ pc' = [pc EXCEPT ![w] = "effect"]
       ELSE /\ pc' = [pc EXCEPT ![w] = After(batch'[w])]
            /\ UNCHANGED <<progress, claimant, leased, job>>
    /\ UNCHANGED <<ingestVars, waiting, effectVars>>

Goto(w, step) ==
    /\ pc' = [pc EXCEPT ![w] = step]
    /\ UNCHANGED <<ingestVars, rowVars, batch, job>>

AfterEffectCheck(e) ==
    CASE e \in effects -> "finish"
      [] e \in Malformed \ effects -> "fail"
      [] e \in Linked \ (effects \union Malformed) -> "finish"
      [] e \in Reporting \ (effects \union Malformed) -> "report"
      [] OTHER -> "record"

\* Faulty: the effect is noted before it has been brought about.
CheckEffectNotingIt(w, e) ==
    /\ pc[w] = "effect"
    /\ job[w] = e
    /\ Goto(w, AfterEffectCheck(e))
    /\ effects' = effects \union ({e} \ Malformed)
    /\ UNCHANGED <<reports, completed>>

\* apply_standard_event.
CheckEffect(w, e) ==
    /\ pc[w] = "effect"
    /\ job[w] = e
    /\ Goto(w, AfterEffectCheck(e))
    /\ UNCHANGED effectVars

\* _apply_quality_completed: has the report been made already?
CheckReport(w, e) ==
    /\ pc[w] = "report"
    /\ job[w] = e
    /\ Goto(w, IF reports[e] > 0 THEN "record" ELSE "post")
    /\ UNCHANGED effectVars

Fits(e) == completed[TaskOf[e]] + Quantity[e] <= Planned[TaskOf[e]]

\* Faulty: no unique index on (user_id, client_operation_id).
PostAgain(w, e) ==
    /\ pc[w] = "post"
    /\ job[w] = e
    /\ IF Fits(e)
       THEN /\ reports' = [reports EXCEPT ![e] = @ + 1]
            /\ completed' = [completed EXCEPT ![TaskOf[e]] = @ + Quantity[e]]
            /\ Goto(w, "record")
       ELSE Goto(w, "fail") /\ UNCHANGED <<reports, completed>>
    /\ UNCHANGED effects

(***************************************************************************)
(* The savepoint in which the report is inserted and posted to its task.   *)
(* It is the whole transaction, so releasing it commits.  The unique index *)
(* on (user_id, client_operation_id) refuses a second report, post_report  *)
(* a quantity beyond the plan.                                             *)
(***************************************************************************)
PostReport(w, e) ==
    /\ pc[w] = "post"
    /\ job[w] = e
    /\ IF reports[e] = 0 /\ Fits(e)
       THEN /\ reports' = [reports EXCEPT ![e] = 1]
            /\ completed' = [completed EXCEPT ![TaskOf[e]] = @ + Quantity[e]]
            /\ Goto(w, "record")
       ELSE Goto(w, "fail") /\ UNCHANGED <<reports, completed>>
    /\ UNCHANGED effects

\* The effect row, and the device state, alarm or measurement with it.
RecordEffect(w, e) ==
    /\ pc[w] = "record"
    /\ job[w] = e
    /\ effects' = effects \union {e}
    /\ Goto(w, "finish")
    /\ UNCHANGED <<reports, completed>>

\* The handler raises for a reason of its own: the database is locked.
HandlerRaises(w) ==
    /\ pc[w] \in {"effect", "report", "post", "record", "finish"}
    /\ Goto(w, "fail")
    /\ UNCHANGED effectVars

\* Faulty: the claimant is recognised by its worker_id.
HoldsRowByName(w, e) == progress[e] = "processing"

\* The WHERE clause by which the worker recognises its claim.
HoldsRow(w, e) == claimant[e] = w

\* The update that ends a claim, if it is still this worker's.
EndClaim(w, e, outcome) ==
    /\ job[w] = e
    /\ IF HoldsRow(w, e)
       THEN /\ progress' = [progress EXCEPT ![e] = outcome]
            /\ claimant' = [claimant EXCEPT ![e] = NoWorker]
            /\ leased' = [leased EXCEPT ![e] = FALSE]
            /\ waiting' = [waiting EXCEPT ![e] = @ \/ outcome = "failed"]
       ELSE UNCHANGED rowVars
    /\ job' = [job EXCEPT ![w] = NoEvent]
    /\ pc' = [pc EXCEPT ![w] = After(batch[w])]
    /\ UNCHANGED <<ingestVars, effectVars, batch>>

Finish(w, e) == pc[w] = "finish" /\ EndClaim(w, e, "processed")

Fail(w, e) == pc[w] = "fail" /\ EndClaim(w, e, "failed")

\* The worker dies, or one of its statements outside the handler raises.
Crash(w) ==
    /\ pc[w] # "idle"
    /\ pc' = [pc EXCEPT ![w] = "idle"]
    /\ batch' = [batch EXCEPT ![w] = {}]
    /\ job' = [job EXCEPT ![w] = NoEvent]
    /\ UNCHANGED <<ingestVars, rowVars, effectVars>>

\* An operator posts a report of one piece of the task.
OperatorReport(t) ==
    /\ completed[t] + 1 <= Planned[t]
    /\ completed' = [completed EXCEPT ![t] = @ + 1]
    /\ UNCHANGED <<ingestVars, rowVars, effects, reports, workerVars>>

LeaseRunsOut(e) ==
    /\ leased[e]
    /\ leased' = [leased EXCEPT ![e] = FALSE]
    /\ UNCHANGED <<ingestVars, progress, claimant, waiting, effectVars, workerVars>>

BackoffElapses(e) ==
    /\ waiting[e]
    /\ waiting' = [waiting EXCEPT ![e] = FALSE]
    /\ UNCHANGED <<ingestVars, progress, claimant, leased, effectVars, workerVars>>

WorkerStep(w) ==
    \/ ResetExpired(w)
    \/ Select(w)
    \/ \E e \in Events :
          \/ ClaimRow(w, e)
          \/ CheckEffect(w, e)
          \/ CheckReport(w, e)
          \/ PostReport(w, e)
          \/ RecordEffect(w, e)
          \/ Finish(w, e)
          \/ Fail(w, e)

Next ==
    \/ \E w \in Workers : WorkerStep(w) \/ HandlerRaises(w) \/ Crash(w)
    \/ \E e \in Events : Arrive(e) \/ LeaseRunsOut(e) \/ BackoffElapses(e)
    \/ \E t \in Tasks : OperatorReport(t)

Spec == Init /\ [][Next]_vars

\* The dispatch thread runs again and again, statements return (the database
\* connection has a timeout), and clocks advance.
Fairness ==
    /\ \A w \in Workers : WF_vars(WorkerStep(w))
    /\ \A e \in Events : WF_vars(LeaseRunsOut(e)) /\ WF_vars(BackoffElapses(e))

LiveSpec == Spec /\ Fairness

-----------------------------------------------------------------------------
(* Properties. *)

\* A quality event whose effect row is there has its report: nothing is lost
\* when a worker dies, fails or is overtaken half-way, although a retry skips
\* an event whose effect row it finds.
EffectMeansReport == \A e \in effects \intersect Reporting : reports[e] > 0

\* A worker whose row was taken over no longer changes it: its late success
\* or failure leaves the row to the present claimant (the token test in both
\* updates of process_pending_events).
StaleWorkerIsHarmless ==
    [][\A w \in Workers, e \in Events :
          job[w] = e /\ job'[w] = NoEvent /\ claimant[e] # w
          => UNCHANGED <<progress[e], claimant[e], leased[e], waiting[e]>>]_vars

\* Reports are posted once, within the plan, before their event is closed,
\* and closed events stay closed.
Effects == INSTANCE OnceOnlyEffects WITH
    known <- {e \in Events : Ingested(e)},
    posted <- reports,
    closed <- {e \in Events : progress[e] = "processed"}

ImplementsOnceOnlyEffects == Effects!OnceSpec

\* Once nothing fails from outside, every stored event is processed, unless it
\* is hopeless (malformed, or its task has no room left for it) or as many
\* hopeless events as a run takes up are there: those are tried again and
\* again, oldest first, and can starve all others.  This needs one worker.
FaultsEnd == <>[][\A w \in Workers : pc'[w] # pc[w] => WorkerStep(w)]_vars

Hopeless(e) == e \in Malformed \/ (e \in Reporting /\ reports[e] = 0 /\ ~Fits(e))

Starved == Cardinality({e \in Events : Ingested(e) /\ Hopeless(e)}) >= Limit

EventuallyProcessed ==
    FaultsEnd => \A e \in Events :
        Ingested(e) ~> progress[e] = "processed" \/ Hopeless(e) \/ Starved
=============================================================================
