------------------------ MODULE EventProcessorProofs ------------------------
(***************************************************************************)
(* Theorems about EventProcessor, for every set of events, tasks and       *)
(* workers, every plan and every size of a run.                            *)
(***************************************************************************)
EXTENDS EventProcessor, TLAPS

USE EventsAssumption, ProcessorAssumption

-----------------------------------------------------------------------------
(* Type correctness. *)

\* The gap an arrival reveals is a gap.
LEMMA RevealedGapType ==
    ASSUME IngestTypeOK, NEW e \in Events
    PROVE  RevealedGap(e) \subseteq Gap
<1> DEFINE st == StreamOf[e]
<1>1. st \in Streams /\ cursor[st] \in Nat /\ SequenceOf[e] \in Nat
  BY DEF IngestTypeOK
<1>2. CASE SequenceOf[e] > cursor[st] + 1
  BY <1>1, <1>2 DEF RevealedGap, Gap
<1>3. CASE ~(SequenceOf[e] > cursor[st] + 1)
  BY <1>3 DEF RevealedGap
<1> QED BY <1>2, <1>3

\* Central ingestion of a new event keeps its tables in their ranges.
LEMMA IngestNewTypes ==
    ASSUME IngestTypeOK, NEW e \in Events, IngestNew(e)
    PROVE  IngestTypeOK'
<1>1. RevealedGap(e) \subseteq Gap
  BY RevealedGapType
<1>2. openGaps' \subseteq Gap /\ resolvedGaps' \subseteq Gap
  BY <1>1 DEF IngestNew, IngestTypeOK
<1>3. /\ rowId' \in [Events -> Nat]
      /\ lastId' \in Nat
      /\ cursor' \in [Streams -> Nat]
      /\ quarantine' \subseteq EventIds \X Reason
      /\ refused' \subseteq EventIds \X Reason
  BY DEF IngestNew, IngestTypeOK
<1> QED BY <1>2, <1>3 DEF IngestTypeOK

\* All steps of a worker that end a claim.
LEMMA EndClaimTypes ==
    ASSUME TypeOK, NEW w \in Workers, NEW e \in Events,
           NEW o \in {"processed", "failed"}, EndClaim(w, e, o)
    PROVE  TypeOK'
<1>1. /\ job' \in [Workers -> Events \union {NoEvent}]
      /\ pc' \in [Workers -> Steps]
      /\ batch' \in [Workers -> SUBSET Events]
  BY DEF TypeOK, EndClaim, After, Steps
<1>2. IngestTypeOK' /\ effects' \subseteq Events /\ reports' \in [Events -> Nat]
      /\ completed' \in [Tasks -> Nat]
  BY DEF TypeOK, EndClaim, ingestVars, effectVars, IngestTypeOK
<1>3. CASE HoldsRow(w, e)
  <2>1. waiting' \in [Events -> BOOLEAN]
    BY <1>3, Zenon DEF TypeOK, EndClaim
  <2>2. /\ progress' \in [Events -> {"none", "pending", "processing", "processed", "failed"}]
        /\ claimant' \in [Events -> Workers \union {NoWorker}]
        /\ leased' \in [Events -> BOOLEAN]
    BY <1>3 DEF TypeOK, EndClaim
  <2> QED BY <1>1, <1>2, <2>1, <2>2 DEF TypeOK
<1>4. CASE ~HoldsRow(w, e)
  BY <1>1, <1>2, <1>4 DEF TypeOK, EndClaim, rowVars
<1> QED BY <1>3, <1>4

\* Only reports to be made are posted.
ReportsOnly == \A w \in Workers : pc[w] \in {"report", "post"} => job[w] \in Reporting

LEMMA TypeStep ==
    ASSUME TypeOK, ReportsOnly, [Next]_vars
    PROVE  TypeOK'
<1>1. ASSUME NEW e \in Events, Arrive(e) PROVE TypeOK'
  <2>1. IngestTypeOK'
    BY <1>1, IngestNewTypes DEF TypeOK, Arrive
  <2> QED BY <1>1, <2>1 DEF TypeOK, Arrive, effectVars, workerVars
<1>2. ASSUME NEW w \in Workers, ResetExpired(w) PROVE TypeOK'
  BY <1>2 DEF TypeOK, ResetExpired, Steps, ingestVars, effectVars, IngestTypeOK
<1>3. ASSUME NEW w \in Workers, Select(w) PROVE TypeOK'
  <2>1. Oldest(Due) \subseteq Events
    BY DEF Oldest, Due
  <2> QED BY <1>3, <2>1 DEF TypeOK, Select, Steps, ingestVars, rowVars, effectVars, IngestTypeOK
<1>4. ASSUME NEW w \in Workers, NEW e \in Events, ClaimRow(w, e) PROVE TypeOK'
  <2>1. batch' \in [Workers -> SUBSET Events]
    BY <1>4 DEF TypeOK, ClaimRow
  <2>2. \A rest : After(rest) \in Steps
    BY DEF After, Steps
  <2>3. CASE Claimable(e)
    <3>1. /\ progress' = [progress EXCEPT ![e] = "processing"]
          /\ claimant' = [claimant EXCEPT ![e] = w]
          /\ leased' = [leased EXCEPT ![e] = TRUE]
          /\ job' = [job EXCEPT ![w] = e]
          /\ pc' = [pc EXCEPT ![w] = "effect"]
      BY <1>4, <2>3, Zenon DEF ClaimRow
    <3>2. UNCHANGED <<ingestVars, waiting, effectVars>>
      BY <1>4 DEF ClaimRow
    <3> QED BY <2>1, <3>1, <3>2 DEF TypeOK, Steps, ingestVars, effectVars, IngestTypeOK
  <2>4. CASE ~Claimable(e)
    BY <1>4, <2>1, <2>2, <2>4 DEF TypeOK, ClaimRow, ingestVars, effectVars, IngestTypeOK
  <2> QED BY <2>3, <2>4
<1>5. ASSUME NEW w \in Workers, NEW e \in Events, CheckEffect(w, e) PROVE TypeOK'
  <2>1. AfterEffectCheck(e) \in Steps
    BY DEF AfterEffectCheck, Steps
  <2> QED BY <1>5, <2>1 DEF TypeOK, CheckEffect, Goto, ingestVars, rowVars, effectVars, IngestTypeOK
<1>6. ASSUME NEW w \in Workers, NEW e \in Events, CheckReport(w, e) PROVE TypeOK'
  BY <1>6 DEF TypeOK, CheckReport, Goto, Steps, ingestVars, rowVars, effectVars, IngestTypeOK
<1>7. ASSUME NEW w \in Workers, NEW e \in Events, PostReport(w, e) PROVE TypeOK'
  <2>1. pc' \in [Workers -> Steps] /\ UNCHANGED <<ingestVars, rowVars, batch, job, effects>>
    BY <1>7 DEF TypeOK, PostReport, Goto, Steps
  <2>2. reports' \in [Events -> Nat] /\ completed' \in [Tasks -> Nat]
    <3>1. CASE reports[e] = 0 /\ Fits(e)
      <4>1. TaskOf[e] \in Tasks /\ Quantity[e] \in Nat
        BY <1>7 DEF ReportsOnly, PostReport
      <4>2. /\ completed' = [completed EXCEPT ![TaskOf[e]] = @ + Quantity[e]]
            /\ reports' = [reports EXCEPT ![e] = 1]
        BY <1>7, <3>1, Zenon DEF PostReport
      <4> QED BY <4>1, <4>2 DEF TypeOK
    <3>2. CASE ~(reports[e] = 0 /\ Fits(e))
      BY <1>7, <3>2 DEF TypeOK, PostReport
    <3> QED BY <3>1, <3>2
  <2> QED BY <2>1, <2>2 DEF TypeOK, ingestVars, rowVars, IngestTypeOK
<1>8. ASSUME NEW w \in Workers, NEW e \in Events, RecordEffect(w, e) PROVE TypeOK'
  BY <1>8 DEF TypeOK, RecordEffect, Goto, Steps, ingestVars, rowVars, IngestTypeOK
<1>9. ASSUME NEW w \in Workers, NEW e \in Events, Finish(w, e) \/ Fail(w, e) PROVE TypeOK'
  BY <1>9, EndClaimTypes DEF Finish, Fail
<1>10. ASSUME NEW w \in Workers, HandlerRaises(w) PROVE TypeOK'
  BY <1>10 DEF TypeOK, HandlerRaises, Goto, Steps, ingestVars, rowVars, effectVars, IngestTypeOK
<1>11. ASSUME NEW w \in Workers, Crash(w) PROVE TypeOK'
  BY <1>11 DEF TypeOK, Crash, Steps, ingestVars, rowVars, effectVars, IngestTypeOK
<1>12. ASSUME NEW e \in Events, LeaseRunsOut(e) PROVE TypeOK'
  BY <1>12 DEF TypeOK, LeaseRunsOut, ingestVars, effectVars, workerVars, IngestTypeOK
<1>13. ASSUME NEW e \in Events, BackoffElapses(e) PROVE TypeOK'
  BY <1>13 DEF TypeOK, BackoffElapses, ingestVars, effectVars, workerVars, IngestTypeOK
<1>14. ASSUME NEW t \in Tasks, OperatorReport(t) PROVE TypeOK'
  BY <1>14 DEF TypeOK, OperatorReport, ingestVars, rowVars, workerVars, IngestTypeOK
<1>15. CASE UNCHANGED vars
  BY <1>15 DEF TypeOK, vars, ingestVars, rowVars, effectVars, workerVars, IngestTypeOK
<1> QED BY <1>1, <1>2, <1>3, <1>4, <1>5, <1>6, <1>7, <1>8, <1>9, <1>10, <1>11, <1>12,
           <1>13, <1>14, <1>15 DEF Next, WorkerStep

-----------------------------------------------------------------------------
(* The inductive invariant. *)

\* What the rows say of each other: a row with a claimant is in processing,
\* an event has one report at most, and exactly one when its effect row is
\* there or it is processed.
RowsInv ==
    \A e \in Events :
        /\ progress[e] # "none" <=> Ingested(e)
        /\ claimant[e] # NoWorker => progress[e] = "processing"
        /\ reports[e] \in {0, 1}
        /\ e \in Reporting /\ (e \in effects \/ progress[e] = "processed")
           => reports[e] = 1

\* What a worker knows at each of its steps.
WorkersInv ==
    \A w \in Workers :
        /\ \A e \in batch[w] : Ingested(e)
        /\ pc[w] \in {"effect", "report", "post", "record", "finish", "fail"}
           => job[w] \in Events /\ Ingested(job[w])
        /\ pc[w] \in {"record", "finish"} /\ job[w] \in Reporting
           => reports[job[w]] = 1

ProcessorInv == TypeOK /\ ReportsOnly /\ RowsInv /\ WorkersInv

\* A new event changes no other and had no row.
LEMMA ArrivesNew ==
    ASSUME TypeOK, NEW e \in Events, IngestNew(e)
    PROVE  /\ ~Ingested(e)
           /\ Ingested(e)'
           /\ \A o \in Events \ {e} : Ingested(o)' = Ingested(o)
BY DEF IngestNew, KnownId, SameId, Ingested, TypeOK, IngestTypeOK

LEMMA RowsStep ==
    ASSUME ProcessorInv, [Next]_vars
    PROVE  RowsInv'
<1> USE DEF ProcessorInv
<1>1. ASSUME NEW e \in Events, Arrive(e) PROVE RowsInv'
  BY <1>1, ArrivesNew DEF Arrive, RowsInv, TypeOK, effectVars, workerVars
<1>2. ASSUME NEW w \in Workers, ResetExpired(w) PROVE RowsInv'
  BY <1>2 DEF ResetExpired, Abandoned, RowsInv, TypeOK, Ingested, ingestVars, effectVars
<1>3. ASSUME NEW w \in Workers, Select(w) PROVE RowsInv'
  BY <1>3 DEF Select, RowsInv, Ingested, ingestVars, rowVars, effectVars
<1>4. ASSUME NEW w \in Workers, NEW e \in Events, ClaimRow(w, e) PROVE RowsInv'
  <2>1. CASE Claimable(e)
    <3>1. /\ progress' = [progress EXCEPT ![e] = "processing"]
          /\ claimant' = [claimant EXCEPT ![e] = w]
          /\ UNCHANGED <<rowId, effects, reports>>
      BY <1>4, <2>1, Zenon DEF ClaimRow, ingestVars, effectVars
    <3> QED BY <2>1, <3>1 DEF Claimable, RowsInv, TypeOK, Ingested
  <2>2. CASE ~Claimable(e)
    BY <1>4, <2>2 DEF ClaimRow, RowsInv, Ingested, ingestVars, effectVars
  <2> QED BY <2>1, <2>2
<1>5. ASSUME NEW w \in Workers, NEW e \in Events, CheckEffect(w, e) PROVE RowsInv'
  BY <1>5 DEF CheckEffect, Goto, RowsInv, Ingested, ingestVars, rowVars, effectVars
<1>6. ASSUME NEW w \in Workers, NEW e \in Events, CheckReport(w, e) PROVE RowsInv'
  BY <1>6 DEF CheckReport, Goto, RowsInv, Ingested, ingestVars, rowVars, effectVars
<1>7. ASSUME NEW w \in Workers, NEW e \in Events, PostReport(w, e) PROVE RowsInv'
  <2>1. UNCHANGED <<rowId, progress, claimant, effects>>
    BY <1>7 DEF PostReport, Goto, ingestVars, rowVars
  <2>2. reports' = [reports EXCEPT ![e] = 1] \/ reports' = reports
    BY <1>7 DEF PostReport
  <2> QED BY <2>1, <2>2 DEF RowsInv, TypeOK, Ingested
<1>8. ASSUME NEW w \in Workers, NEW e \in Events, RecordEffect(w, e) PROVE RowsInv'
  BY <1>8 DEF RecordEffect, Goto, RowsInv, WorkersInv, Ingested, ingestVars, rowVars
<1>9. ASSUME NEW w \in Workers, NEW e \in Events, Finish(w, e) \/ Fail(w, e) PROVE RowsInv'
  <2>1. UNCHANGED <<rowId, effects, reports>>
    BY <1>9 DEF Finish, Fail, EndClaim, ingestVars, effectVars
  <2>2. CASE Finish(w, e) /\ HoldsRow(w, e)
    <3>1. /\ progress' = [progress EXCEPT ![e] = "processed"]
          /\ claimant' = [claimant EXCEPT ![e] = NoWorker]
      BY <2>2, Zenon DEF Finish, EndClaim
    <3>2. progress[e] = "processing"
      BY <2>2 DEF HoldsRow, RowsInv
    <3>3. e \in Reporting => reports[e] = 1
      BY <2>2 DEF Finish, EndClaim, WorkersInv
    <3> QED BY <2>1, <3>1, <3>2, <3>3 DEF RowsInv, TypeOK, Ingested
  <2>3. CASE Fail(w, e) /\ HoldsRow(w, e)
    <3>1. /\ progress' = [progress EXCEPT ![e] = "failed"]
          /\ claimant' = [claimant EXCEPT ![e] = NoWorker]
      BY <2>3, Zenon DEF Fail, EndClaim
    <3>2. progress[e] = "processing"
      BY <2>3 DEF HoldsRow, RowsInv
    <3> QED BY <2>1, <3>1, <3>2 DEF RowsInv, TypeOK, Ingested
  <2>4. CASE ~HoldsRow(w, e)
    BY <1>9, <2>1, <2>4 DEF Finish, Fail, EndClaim, rowVars, RowsInv, Ingested
  <2> QED BY <1>9, <2>2, <2>3, <2>4
<1>10. ASSUME NEW w \in Workers, HandlerRaises(w) \/ Crash(w) PROVE RowsInv'
  BY <1>10 DEF HandlerRaises, Crash, Goto, RowsInv, Ingested, ingestVars, rowVars, effectVars
<1>11. ASSUME NEW e \in Events, LeaseRunsOut(e) \/ BackoffElapses(e) PROVE RowsInv'
  BY <1>11 DEF LeaseRunsOut, BackoffElapses, RowsInv, Ingested, ingestVars, effectVars
<1>12. ASSUME NEW t \in Tasks, OperatorReport(t) PROVE RowsInv'
  BY <1>12 DEF OperatorReport, RowsInv, Ingested, ingestVars, rowVars
<1>13. CASE UNCHANGED vars
  BY <1>13 DEF vars, RowsInv, Ingested, ingestVars, rowVars, effectVars
<1> QED BY <1>1, <1>2, <1>3, <1>4, <1>5, <1>6, <1>7, <1>8, <1>9, <1>10, <1>11, <1>12, <1>13
        DEF Next, WorkerStep

\* What a step of one worker, in hand with e, leaves true of it.
LEMMA WorkersStep ==
    ASSUME ProcessorInv, [Next]_vars
    PROVE  ReportsOnly' /\ WorkersInv'
<1> USE DEF ProcessorInv
<1> DEFINE Knows == ReportsOnly' /\ WorkersInv'
<1>1. ASSUME NEW e \in Events, Arrive(e) PROVE Knows
  BY <1>1, ArrivesNew DEF Arrive, ReportsOnly, WorkersInv, TypeOK, effectVars, workerVars
<1>2. ASSUME NEW w \in Workers, ResetExpired(w) PROVE Knows
  BY <1>2 DEF ResetExpired, ReportsOnly, WorkersInv, TypeOK, Ingested, ingestVars, effectVars
<1>3. ASSUME NEW w \in Workers, Select(w) PROVE Knows
  <2>1. \A e \in Oldest(Due) : Ingested(e)
    BY DEF Oldest, Due, Claimable, RowsInv
  <2> QED BY <1>3, <2>1 DEF Select, ReportsOnly, WorkersInv, TypeOK, Ingested, ingestVars, rowVars, effectVars
<1>4. ASSUME NEW w \in Workers, NEW e \in Events, ClaimRow(w, e) PROVE Knows
  <2>1. UNCHANGED <<rowId, reports>> /\ Ingested(e)
    BY <1>4 DEF ClaimRow, WorkersInv, ingestVars, effectVars
  <2>2. batch' = [batch EXCEPT ![w] = @ \ {e}]
    BY <1>4 DEF ClaimRow
  <2>3. CASE Claimable(e)
    <3>1. /\ job' = [job EXCEPT ![w] = e]
          /\ pc' = [pc EXCEPT ![w] = "effect"]
      BY <1>4, <2>3, Zenon DEF ClaimRow
    <3> QED BY <2>1, <2>2, <3>1 DEF ReportsOnly, WorkersInv, TypeOK, Ingested
  <2>4. CASE ~Claimable(e)
    <3>1. job' = job /\ pc' = [pc EXCEPT ![w] = After(batch'[w])]
      BY <1>4, <2>4, Zenon DEF ClaimRow
    <3>2. After(batch'[w]) \in {"idle", "claim"}
      BY DEF After
    <3> QED BY <2>1, <2>2, <3>1, <3>2 DEF ReportsOnly, WorkersInv, TypeOK, Ingested
  <2> QED BY <2>3, <2>4
<1>5. ASSUME NEW w \in Workers, NEW e \in Events, CheckEffect(w, e) PROVE Knows
  <2>1. /\ UNCHANGED <<rowId, reports, batch, job>>
        /\ pc' = [pc EXCEPT ![w] = AfterEffectCheck(e)]
        /\ pc[w] = "effect" /\ job[w] = e /\ Ingested(e)
    BY <1>5 DEF CheckEffect, Goto, WorkersInv, ingestVars, effectVars
  <2>2. AfterEffectCheck(e) \in {"finish", "fail", "report", "record"}
    BY DEF AfterEffectCheck
  <2>3. AfterEffectCheck(e) = "report" => e \in Reporting
    BY DEF AfterEffectCheck
  <2>4. AfterEffectCheck(e) \in {"record", "finish"} /\ e \in Reporting => reports[e] = 1
    <3>1. e \in Reporting => e \notin Linked
      OBVIOUS
    <3>2. e \in Reporting /\ e \notin effects => AfterEffectCheck(e) \in {"fail", "report"}
      BY <3>1 DEF AfterEffectCheck
    <3> QED BY <3>2 DEF RowsInv
  <2> QED BY <2>1, <2>2, <2>3, <2>4 DEF ReportsOnly, WorkersInv, TypeOK, Ingested
<1>6. ASSUME NEW w \in Workers, NEW e \in Events, CheckReport(w, e) PROVE Knows
  <2>1. reports[e] > 0 => reports[e] = 1
    BY DEF RowsInv
  <2> QED BY <1>6, <2>1 DEF CheckReport, Goto, ReportsOnly, WorkersInv, TypeOK, Ingested, ingestVars, effectVars
<1>7. ASSUME NEW w \in Workers, NEW e \in Events, PostReport(w, e) PROVE Knows
  <2>1. UNCHANGED <<rowId, batch, job>>
    BY <1>7 DEF PostReport, Goto, ingestVars
  <2>2. CASE reports[e] = 0 /\ Fits(e)
    <3>1. /\ reports' = [reports EXCEPT ![e] = 1]
          /\ pc' = [pc EXCEPT ![w] = "record"]
      BY <1>7, <2>2, Zenon DEF PostReport, Goto
    <3> QED BY <1>7, <2>1, <3>1 DEF PostReport, ReportsOnly, WorkersInv, TypeOK, Ingested
  <2>3. CASE ~(reports[e] = 0 /\ Fits(e))
    <3>1. reports' = reports /\ pc' = [pc EXCEPT ![w] = "fail"]
      BY <1>7, <2>3, Zenon DEF PostReport, Goto
    <3> QED BY <1>7, <2>1, <3>1 DEF PostReport, ReportsOnly, WorkersInv, TypeOK, Ingested
  <2> QED BY <2>2, <2>3
<1>8. ASSUME NEW w \in Workers, NEW e \in Events, RecordEffect(w, e) PROVE Knows
  BY <1>8 DEF RecordEffect, Goto, ReportsOnly, WorkersInv, TypeOK, Ingested, ingestVars
<1>9. ASSUME NEW w \in Workers, NEW e \in Events, Finish(w, e) \/ Fail(w, e) PROVE Knows
  <2>1. /\ UNCHANGED <<rowId, reports, batch>>
        /\ job' = [job EXCEPT ![w] = NoEvent]
        /\ pc' = [pc EXCEPT ![w] = After(batch[w])]
    BY <1>9 DEF Finish, Fail, EndClaim, ingestVars, effectVars
  <2>2. After(batch[w]) \in {"idle", "claim"}
    BY DEF After
  <2> QED BY <2>1, <2>2 DEF ReportsOnly, WorkersInv, TypeOK, Ingested
<1>10. ASSUME NEW w \in Workers, HandlerRaises(w) PROVE Knows
  BY <1>10 DEF HandlerRaises, Goto, ReportsOnly, WorkersInv, TypeOK, Ingested, ingestVars, effectVars
<1>11. ASSUME NEW w \in Workers, Crash(w) PROVE Knows
  BY <1>11 DEF Crash, ReportsOnly, WorkersInv, TypeOK, Ingested, ingestVars, effectVars
<1>12. ASSUME NEW e \in Events, LeaseRunsOut(e) \/ BackoffElapses(e) PROVE Knows
  BY <1>12 DEF LeaseRunsOut, BackoffElapses, ReportsOnly, WorkersInv, Ingested, ingestVars, effectVars, workerVars
<1>13. ASSUME NEW t \in Tasks, OperatorReport(t) PROVE Knows
  BY <1>13 DEF OperatorReport, ReportsOnly, WorkersInv, Ingested, ingestVars, workerVars
<1>14. CASE UNCHANGED vars
  BY <1>14 DEF vars, ReportsOnly, WorkersInv, Ingested, ingestVars, effectVars, workerVars
<1> QED BY <1>1, <1>2, <1>3, <1>4, <1>5, <1>6, <1>7, <1>8, <1>9, <1>10, <1>11, <1>12, <1>13,
           <1>14 DEF Next, WorkerStep

\* The invariant holds in every reachable state.
THEOREM ProcessorInvariant == Spec => []ProcessorInv
<1>1. Init => ProcessorInv
  <2> SUFFICES ASSUME Init PROVE ProcessorInv
    OBVIOUS
  <2>1. TypeOK
    BY DEF Init, IngestInit, TypeOK, IngestTypeOK, Steps
  <2> QED BY <2>1 DEF Init, IngestInit, ProcessorInv, ReportsOnly, RowsInv, WorkersInv, Ingested
<1>2. ProcessorInv /\ [Next]_vars => ProcessorInv'
  BY TypeStep, RowsStep, WorkersStep DEF ProcessorInv
<1> QED BY <1>1, <1>2, PTL DEF Spec

\* Every variable stays in its range, in every reachable state.
THEOREM TypeCorrect == Spec => []TypeOK
<1>1. ProcessorInv => TypeOK
  BY DEF ProcessorInv
<1> QED BY <1>1, ProcessorInvariant, PTL

-----------------------------------------------------------------------------
(* Safety. *)

\* A quality event whose effect row is there has its report, whoever died,
\* failed or was overtaken while handling it.
THEOREM EffectsComplete == Spec => []EffectMeansReport
<1>1. ProcessorInv => EffectMeansReport
  BY DEF ProcessorInv, RowsInv, EffectMeansReport
<1> QED BY <1>1, ProcessorInvariant, PTL

\* A worker that lets go of a row another worker holds does not change it.
THEOREM StaleWorkerSafe == Spec => StaleWorkerIsHarmless
<1> DEFINE Harmless ==
        \A w \in Workers, e \in Events :
          job[w] = e /\ job'[w] = NoEvent /\ claimant[e] # w
          => UNCHANGED <<progress[e], claimant[e], leased[e], waiting[e]>>
<1>1. ProcessorInv /\ [Next]_vars => [Harmless]_vars
  <2> SUFFICES ASSUME ProcessorInv, Next,
                      NEW w \in Workers, NEW e \in Events,
                      job[w] = e, job'[w] = NoEvent, claimant[e] # w
               PROVE  UNCHANGED rowVars
    BY DEF rowVars
  <2>1. e # NoEvent /\ job \in [Workers -> Events \union {NoEvent}]
    BY DEF ProcessorInv, TypeOK
  <2>2. job'[w] # job[w]
    BY <2>1
  <2>3. ASSUME NEW v \in Workers, NEW o \in Events, Finish(v, o) \/ Fail(v, o)
        PROVE  UNCHANGED rowVars
    <3>1. job[v] = o /\ job' = [job EXCEPT ![v] = NoEvent]
      BY <2>3 DEF Finish, Fail, EndClaim
    <3>2. v = w /\ o = e
      BY <2>1, <2>2, <3>1
    <3> QED BY <2>3, <3>2 DEF Finish, Fail, EndClaim, HoldsRow
  <2>4. ASSUME NEW v \in Workers, NEW o \in Events, ClaimRow(v, o)
        PROVE  FALSE
    <3>1. job' = job \/ job' = [job EXCEPT ![v] = o]
      BY <2>4 DEF ClaimRow
    <3> QED BY <2>1, <2>2, <3>1
  <2>5. ASSUME NEW v \in Workers, Crash(v)
        PROVE  UNCHANGED rowVars
    BY <2>5 DEF Crash
  <2> QED BY <2>2, <2>3, <2>4, <2>5
          DEF Next, WorkerStep, Arrive, ResetExpired, Select, CheckEffect, CheckReport,
              PostReport, RecordEffect, HandlerRaises, Goto, OperatorReport, LeaseRunsOut,
              BackoffElapses, workerVars
<1> QED BY <1>1, ProcessorInvariant, PTL DEF Spec, StaleWorkerIsHarmless

-----------------------------------------------------------------------------
(* Refinement. *)

\* The state the abstract specification sees.
KnownEvents == {e \in Events : Ingested(e)}
ClosedEvents == {e \in Events : progress[e] = "processed"}

LEMMA InitRefines == Init => Effects!OnceInit
BY DEF Init, IngestInit, Ingested, Effects!OnceInit

LEMMA NothingSeen ==
    ASSUME UNCHANGED <<rowId, reports, completed>>, ClosedEvents' = ClosedEvents
    PROVE  UNCHANGED Effects!onceVars
BY DEF ClosedEvents, Ingested, Effects!onceVars

LEMMA PostReportRefines ==
    ASSUME ProcessorInv, NEW w \in Workers, NEW e \in Events, PostReport(w, e)
    PROVE  [Effects!OnceNext]_Effects!onceVars
<1>1. /\ UNCHANGED <<rowId, progress>>
      /\ e \in Reporting /\ e \in KnownEvents
  BY DEF PostReport, Goto, ingestVars, rowVars, ProcessorInv, ReportsOnly, WorkersInv, KnownEvents
<1>2. KnownEvents' = KnownEvents /\ ClosedEvents' = ClosedEvents
  BY <1>1 DEF KnownEvents, ClosedEvents, Ingested
<1>3. CASE reports[e] = 0 /\ Fits(e)
  <2>1. /\ reports' = [reports EXCEPT ![e] = 1]
        /\ completed' = [completed EXCEPT ![TaskOf[e]] = @ + Quantity[e]]
    BY <1>3, Zenon DEF PostReport
  <2>2. Effects!Grow(TaskOf[e], Quantity[e])
    BY <1>3, <2>1 DEF Fits, Effects!Grow
  <2>3. Effects!Post(e)
    BY <1>1, <1>2, <1>3, <2>1, <2>2 DEF Effects!Post, KnownEvents, ClosedEvents
  <2> QED BY <2>3 DEF Effects!OnceNext
<1>4. CASE ~(reports[e] = 0 /\ Fits(e))
  <2>1. UNCHANGED <<reports, completed>>
    BY <1>4 DEF PostReport
  <2> QED BY <1>1, <1>2, <2>1, NothingSeen
<1> QED BY <1>3, <1>4

LEMMA EndClaimRefines ==
    ASSUME ProcessorInv, NEW w \in Workers, NEW e \in Events,
           Finish(w, e) \/ Fail(w, e)
    PROVE  [Effects!OnceNext]_Effects!onceVars
<1>1. UNCHANGED <<rowId, reports, completed>>
  BY DEF Finish, Fail, EndClaim, ingestVars, effectVars
<1>2. CASE HoldsRow(w, e)
  <2>1. progress[e] = "processing" /\ e \in KnownEvents \ ClosedEvents
    BY <1>2 DEF HoldsRow, ProcessorInv, RowsInv, KnownEvents, ClosedEvents
  <2>2. KnownEvents' = KnownEvents
    BY <1>1 DEF KnownEvents, Ingested
  <2>3. CASE Finish(w, e)
    <3>1. progress' = [progress EXCEPT ![e] = "processed"]
      BY <1>2, <2>3, Zenon DEF Finish, EndClaim
    <3>2. ClosedEvents' = ClosedEvents \union {e}
      BY <3>1 DEF ClosedEvents, ProcessorInv, TypeOK
    <3>3. e \in Reporting => reports[e] = 1
      BY <2>3 DEF Finish, EndClaim, ProcessorInv, WorkersInv
    <3>4. Effects!Close(e)
      BY <1>1, <2>1, <2>2, <3>2, <3>3 DEF Effects!Close, KnownEvents, ClosedEvents
    <3> QED BY <3>4 DEF Effects!OnceNext
  <2>4. CASE Fail(w, e)
    <3>1. progress' = [progress EXCEPT ![e] = "failed"]
      BY <1>2, <2>4, Zenon DEF Fail, EndClaim
    <3>2. ClosedEvents' = ClosedEvents
      BY <2>1, <3>1 DEF ClosedEvents, ProcessorInv, TypeOK
    <3> QED BY <1>1, <3>2, NothingSeen
  <2> QED BY <2>3, <2>4
<1>3. CASE ~HoldsRow(w, e)
  <2>1. ClosedEvents' = ClosedEvents
    BY <1>3 DEF Finish, Fail, EndClaim, rowVars, ClosedEvents
  <2> QED BY <1>1, <2>1, NothingSeen
<1> QED BY <1>2, <1>3

\* A step of a worker, an operator, a gateway or the clock is a step of the
\* promise, or is not seen in it.
LEMMA StepRefines ==
    ASSUME ProcessorInv, [Next]_vars
    PROVE  [Effects!OnceNext]_Effects!onceVars
<1> USE DEF ProcessorInv
<1>1. ASSUME NEW e \in Events, Arrive(e) PROVE [Effects!OnceNext]_Effects!onceVars
  <2>1. e \notin KnownEvents /\ KnownEvents' = KnownEvents \union {e}
    BY <1>1, ArrivesNew DEF Arrive, KnownEvents
  <2>2. ClosedEvents' = ClosedEvents
    <3>1. progress[e] = "none"
      BY <2>1 DEF RowsInv, KnownEvents, TypeOK
    <3> QED BY <1>1, <3>1 DEF Arrive, ClosedEvents, TypeOK
  <2>3. Effects!Learn(e)
    BY <1>1, <2>1, <2>2 DEF Arrive, effectVars, Effects!Learn, KnownEvents, ClosedEvents
  <2> QED BY <2>3 DEF Effects!OnceNext
<1>2. ASSUME NEW w \in Workers, ResetExpired(w) PROVE UNCHANGED Effects!onceVars
  <2>1. ClosedEvents' = ClosedEvents
    BY <1>2 DEF ResetExpired, Abandoned, ClosedEvents, TypeOK
  <2> QED BY <1>2, <2>1, NothingSeen DEF ResetExpired, ingestVars, effectVars
<1>3. ASSUME NEW w \in Workers, NEW e \in Events, ClaimRow(w, e)
      PROVE  UNCHANGED Effects!onceVars
  <2>1. ClosedEvents' = ClosedEvents
    <3>1. CASE Claimable(e)
      <4>1. progress' = [progress EXCEPT ![e] = "processing"] /\ progress[e] # "processed"
        BY <1>3, <3>1, Zenon DEF ClaimRow, Claimable
      <4> QED BY <4>1 DEF ClosedEvents, TypeOK
    <3>2. CASE ~Claimable(e)
      BY <1>3, <3>2 DEF ClaimRow, ClosedEvents
    <3> QED BY <3>1, <3>2
  <2> QED BY <1>3, <2>1, NothingSeen DEF ClaimRow, ingestVars, effectVars
<1>4. ASSUME NEW w \in Workers, NEW e \in Events,
             CheckEffect(w, e) \/ CheckReport(w, e) \/ RecordEffect(w, e)
      PROVE  UNCHANGED Effects!onceVars
  BY <1>4, NothingSeen
     DEF CheckEffect, CheckReport, RecordEffect, Goto, ingestVars, rowVars, effectVars, ClosedEvents
<1>5. ASSUME NEW w \in Workers, Select(w) \/ HandlerRaises(w) \/ Crash(w)
      PROVE  UNCHANGED Effects!onceVars
  BY <1>5, NothingSeen
     DEF Select, HandlerRaises, Crash, Goto, ingestVars, rowVars, effectVars, ClosedEvents
<1>6. ASSUME NEW e \in Events, LeaseRunsOut(e) \/ BackoffElapses(e)
      PROVE  UNCHANGED Effects!onceVars
  BY <1>6, NothingSeen DEF LeaseRunsOut, BackoffElapses, ingestVars, effectVars, ClosedEvents
<1>7. ASSUME NEW t \in Tasks, OperatorReport(t)
      PROVE  [Effects!OnceNext]_Effects!onceVars
  <2>1. Effects!Report(t)
    BY <1>7 DEF OperatorReport, ingestVars, rowVars, Ingested, Effects!Report, Effects!Grow
  <2> QED BY <2>1 DEF Effects!OnceNext
<1>8. CASE UNCHANGED vars
  BY <1>8, NothingSeen DEF vars, ingestVars, rowVars, effectVars, ClosedEvents
<1> QED BY <1>1, <1>2, <1>3, <1>4, <1>5, <1>6, <1>7, <1>8, PostReportRefines, EndClaimRefines
        DEF Next, WorkerStep

\* The workers, however they interleave, fail and die, do what
\* OnceOnlyEffects promises.
THEOREM EffectsRefine == Spec => ImplementsOnceOnlyEffects
<1>1. Spec => Init /\ [][Next]_vars
  BY DEF Spec
<1> QED
  BY <1>1, InitRefines, StepRefines, ProcessorInvariant, PTL
  DEF ImplementsOnceOnlyEffects, Effects!OnceSpec
=============================================================================
