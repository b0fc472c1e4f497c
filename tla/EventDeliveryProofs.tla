------------------------ MODULE EventDeliveryProofs -------------------------
(***************************************************************************)
(* Theorems about EventDelivery, for every set of events, streams and      *)
(* sending processes, every batch size and retry limit, both transports.   *)
(***************************************************************************)
EXTENDS EventDelivery, TLAPS

USE EventsAssumption, StoreAssumption, DeliveryAssumption DEF Tokens

-----------------------------------------------------------------------------
(* Type correctness, component by component. *)

\* Every method of the edge store keeps its columns in their ranges.
LEMMA StoreTypes ==
    ASSUME StoreTypeOK, NEW e \in Events,
           \/ AppendEvent(e)
           \/ AckUnleased(e)
           \/ FailUnleased(e)
           \/ LeaseRunsOut(e)
           \/ BackoffElapses(e)
    PROVE  StoreTypeOK'
<1>1. CASE AppendEvent(e)
  BY <1>1 DEF StoreTypeOK, AppendEvent
<1>2. CASE AckUnleased(e)
  BY <1>2 DEF StoreTypeOK, AckUnleased, ClearLease
<1>3. CASE FailUnleased(e)
  BY <1>3 DEF StoreTypeOK, FailUnleased
<1>4. CASE LeaseRunsOut(e)
  BY <1>4 DEF StoreTypeOK, LeaseRunsOut
<1>5. CASE BackoffElapses(e)
  BY <1>5 DEF StoreTypeOK, BackoffElapses
<1> QED BY <1>1, <1>2, <1>3, <1>4, <1>5

LEMMA SettleTypes ==
    ASSUME StoreTypeOK, NEW e \in Events, NEW w, NEW t, NEW b \in BOOLEAN,
           Ack(e, w, t) \/ Release(e, w, t, b)
    PROVE  StoreTypeOK'
<1>1. CASE Ack(e, w, t)
  BY <1>1 DEF StoreTypeOK, Ack, ClearLease, storeVars
<1>2. CASE Release(e, w, t, b) /\ HoldsLease(e, w, t)
  <2>1. (b \/ attempts[e] + 1 >= MaxAttempts) \in BOOLEAN
    OBVIOUS
  <2>2. dead' \in [Events -> BOOLEAN]
    BY <1>2, <2>1, Zenon DEF StoreTypeOK, Release
  <2>3. /\ status' = status
        /\ attempts' = [attempts EXCEPT ![e] = @ + 1]
        /\ waiting' = [waiting EXCEPT ![e] = TRUE]
        /\ ClearLease(e)
    BY <1>2, Zenon DEF Release
  <2> QED BY <2>2, <2>3 DEF StoreTypeOK, ClearLease
<1>3. CASE Release(e, w, t, b) /\ ~HoldsLease(e, w, t)
  BY <1>3 DEF StoreTypeOK, Release, storeVars
<1> QED BY <1>1, <1>2, <1>3

\* The gaps an arrival reveals are gaps.
LEMMA RevealedGapType ==
    ASSUME IngestTypeOK, NEW e \in Events
    PROVE  RevealedGap(e) \subseteq Gap
<1> DEFINE st == StreamOf[e]
<1>1. st \in Streams /\ cursor[st] \in Nat /\ SequenceOf[e] \in Nat
  BY DEF IngestTypeOK
<1>2. CASE SequenceOf[e] > cursor[st] + 1
  BY <1>1, <1>2 DEF RevealedGap, Gap
<1>3. CASE ~(SequenceOf[e] > cursor[st] + 1)
  BY <1>3 DEF RevealedGap
<1> QED BY <1>2, <1>3

\* Central ingestion keeps its tables in their ranges.
LEMMA IngestTypes ==
    ASSUME IngestTypeOK, NEW e \in Events, NEW b \in BOOLEAN,
           IngestAccepted(e) \/ IngestRefused(e, b)
    PROVE  IngestTypeOK'
<1>1. CASE IngestNew(e)
  <2>1. RevealedGap(e) \subseteq Gap
    BY RevealedGapType
  <2>2. openGaps' \subseteq Gap /\ resolvedGaps' \subseteq Gap
    BY <1>1, <2>1 DEF IngestNew, IngestTypeOK
  <2>3. /\ rowId' \in [Events -> Nat]
        /\ lastId' \in Nat
        /\ cursor' \in [Streams -> Nat]
        /\ quarantine' \subseteq EventIds \X Reason
        /\ refused' \subseteq EventIds \X Reason
    BY <1>1 DEF IngestNew, IngestTypeOK
  <2> QED BY <2>2, <2>3 DEF IngestTypeOK
<1>2. CASE IngestDuplicate(e)
  BY <1>2 DEF IngestTypeOK, IngestDuplicate, ingestVars
<1>3. CASE IngestRefused(e, b)
  BY <1>3 DEF IngestTypeOK, IngestRefused, RefuseMismatch, RefuseConflict, Reason
<1> QED BY <1>1, <1>2, <1>3 DEF IngestAccepted

LEMMA NewTokensType ==
    ASSUME NEW e \in Events
    PROVE  /\ NewTokens[e] \in Tokens \union {0}
           /\ FreshTokens(e) # {} => NewTokens[e] \in FreshTokens(e)
BY DEF NewTokens, FreshTokens

\* A pump that is done with a claim.
LEMMA DoneTypes ==
    ASSUME TypeOK, NEW p \in Pumps, NEW e \in Events, DoneWith(p, e)
    PROVE  /\ held' \in [Pumps -> [Events -> Tokens \union {0}]]
           /\ sending' \in [Pumps -> Events \union {NoEvent}]
BY DEF TypeOK, DoneWith

LEMMA ReleaseClaimTypes ==
    ASSUME TypeOK, NEW p \in Pumps, NEW e \in Events, NEW b \in BOOLEAN,
           ReleaseClaim(p, e, b)
    PROVE  TypeOK'
<1>1. StoreTypeOK'
  BY SettleTypes DEF ReleaseClaim, TypeOK
<1>2. /\ held' \in [Pumps -> [Events -> Tokens \union {0}]]
      /\ sending' \in [Pumps -> Events \union {NoEvent}]
  BY DoneTypes DEF ReleaseClaim
<1> QED BY <1>1, <1>2 DEF ReleaseClaim, TypeOK, IngestTypeOK, ingestVars, netVars

\* Every variable stays in its range, in every reachable state.
THEOREM TypeCorrect == Spec => []TypeOK
<1>1. Init => TypeOK
  BY DEF Init, StoreInit, IngestInit, TypeOK, StoreTypeOK, IngestTypeOK
<1>2. TypeOK /\ [Next]_vars => TypeOK'
  <2> SUFFICES ASSUME TypeOK, [Next]_vars PROVE TypeOK'
    OBVIOUS
  <2> USE DEF ingestVars, netVars, pumpVars
  <2>1. ASSUME NEW e \in Events, RecordEvent(e) PROVE TypeOK'
    <3>1. StoreTypeOK'
      BY <2>1, StoreTypes DEF RecordEvent, TypeOK
    <3> QED BY <2>1, <3>1 DEF RecordEvent, TypeOK, IngestTypeOK
  <2>2. ASSUME NEW e \in Events, DeliverAccepted(e) PROVE TypeOK'
    <3>1. IngestTypeOK'
      BY <2>2, IngestTypes DEF DeliverAccepted, TypeOK
    <3> QED BY <2>2, <3>1 DEF DeliverAccepted, TypeOK, StoreTypeOK, storeVars
  <2>3. ASSUME NEW e \in Events, DeliverRefused(e) PROVE TypeOK'
    <3>1. IngestTypeOK'
      <4>1. PICK b \in BOOLEAN : IngestRefused(e, b)
        BY <2>3 DEF DeliverRefused
      <4> QED BY <4>1, IngestTypes DEF TypeOK
    <3> QED BY <2>3, <3>1 DEF DeliverRefused, TypeOK, StoreTypeOK, storeVars
  <2>4. ASSUME NEW e \in Events, AnswerRefused(e) PROVE TypeOK'
    BY <2>4 DEF AnswerRefused, TypeOK, StoreTypeOK, IngestTypeOK, storeVars
  <2>5. ASSUME NEW e \in Events, ForeignPost(e) PROVE TypeOK'
    <3>1. IngestTypeOK'
      BY <2>5, IngestTypes DEF ForeignPost, TypeOK
    <3> QED BY <2>5, <3>1 DEF ForeignPost, TypeOK, StoreTypeOK, storeVars
  <2>6. ASSUME NEW e \in Events, PlainAck(e) \/ PlainFail(e) \/ TimePasses(e)
        PROVE  TypeOK'
    <3>1. StoreTypeOK'
      BY <2>6, StoreTypes DEF PlainAck, PlainFail, TimePasses, TypeOK
    <3> QED BY <2>6, <3>1 DEF PlainAck, PlainFail, TimePasses, TypeOK, IngestTypeOK
  <2>7. ASSUME NEW p \in Pumps, Claim(p) PROVE TypeOK'
    <3>1. PICK S \in SUBSET Events :
            /\ \A e \in S : FreshTokens(e) # {}
            /\ ClaimRows(WorkerOf[p], S, NewTokens)
            /\ held' = [held EXCEPT ![p] = [e \in Events |->
                                              IF e \in S THEN NewTokens[e] ELSE 0]]
      BY <2>7 DEF Claim
    <3>2. \A e \in Events : NewTokens[e] \in Tokens \union {0}
      BY NewTokensType
    <3>3. StoreTypeOK'
      BY <3>1, <3>2 DEF ClaimRows, TypeOK, StoreTypeOK
    <3>4. held' \in [Pumps -> [Events -> Tokens \union {0}]]
      BY <3>1, <3>2 DEF TypeOK
    <3> QED BY <2>7, <3>3, <3>4 DEF Claim, TypeOK, IngestTypeOK
  <2>8. ASSUME NEW p \in Pumps, NEW e \in Events, Send(p, e) PROVE TypeOK'
    BY <2>8 DEF Send, TypeOK, StoreTypeOK, IngestTypeOK, storeVars
  <2>9. ASSUME NEW p \in Pumps, NEW e \in Events, SettleAccepted(p, e) PROVE TypeOK'
    <3>1. StoreTypeOK'
      BY <2>9, SettleTypes DEF SettleAccepted, TypeOK
    <3>2. /\ held' \in [Pumps -> [Events -> Tokens \union {0}]]
          /\ sending' \in [Pumps -> Events \union {NoEvent}]
      BY <2>9, DoneTypes DEF SettleAccepted
    <3> QED BY <2>9, <3>1, <3>2 DEF SettleAccepted, TypeOK, IngestTypeOK
  <2>10. ASSUME NEW p \in Pumps, NEW e \in Events,
                SettleRefused(p, e) \/ SettleFailed(p, e) \/ SendFails(p, e)
         PROVE  TypeOK'
    BY <2>10, ReleaseClaimTypes DEF SettleRefused, SettleFailed, SendFails
  <2>11. ASSUME NEW p \in Pumps, Crash(p) PROVE TypeOK'
    BY <2>11 DEF Crash, TypeOK, StoreTypeOK, IngestTypeOK, storeVars
  <2>12. CASE Replay
    <3>1. StoreTypeOK'
      BY <2>12 DEF Replay, ReplayDeadLetters, TypeOK, StoreTypeOK
    <3> QED BY <2>12, <3>1 DEF Replay, TypeOK, IngestTypeOK
  <2>13. CASE UNCHANGED vars
    BY <2>13 DEF vars, storeVars, TypeOK, StoreTypeOK, IngestTypeOK
  <2> QED
    BY <2>1, <2>2, <2>3, <2>4, <2>5, <2>6, <2>7, <2>8, <2>9, <2>10, <2>11, <2>12, <2>13
    DEF Next, PumpStep
<1> QED BY <1>1, <1>2, PTL DEF Spec

-----------------------------------------------------------------------------
(* Acknowledged events are stored.  The strengthening speaks of the answers *)
(* under way: each positive one is true, and stays true.                   *)

AnswersAreTrue == \A e \in acks : Ingested(e)

AckInv == AnswersAreTrue /\ AckedIsIngested

\* Central rows are never deleted.
LEMMA RowsStay ==
    ASSUME TypeOK, [Next]_vars
    PROVE  \A e \in Events : Ingested(e) => Ingested(e)'
<1>1. ASSUME NEW e \in Events, IngestNew(e)
      PROVE  \A x \in Events : Ingested(x) => Ingested(x)'
  BY <1>1 DEF TypeOK, IngestTypeOK, IngestNew, Ingested
<1>2. ASSUME NEW e \in Events, IngestAccepted(e)
      PROVE  \A x \in Events : Ingested(x) => Ingested(x)'
  BY <1>1, <1>2 DEF IngestAccepted, IngestDuplicate, ingestVars, Ingested
<1>3. ASSUME NEW e \in Events, NEW b \in BOOLEAN, IngestRefused(e, b)
      PROVE  rowId' = rowId
  BY <1>3 DEF IngestRefused, RefuseMismatch, RefuseConflict
<1>4. ASSUME rowId' = rowId
      PROVE  \A x \in Events : Ingested(x) => Ingested(x)'
  BY <1>4 DEF Ingested
<1>5. \/ rowId' = rowId
      \/ \E e \in Events : IngestAccepted(e)
  <2> USE DEF ingestVars
  <2>1. ASSUME NEW e \in Events, DeliverAccepted(e) \/ DeliverRefused(e) \/ ForeignPost(e)
        PROVE  rowId' = rowId \/ \E x \in Events : IngestAccepted(x)
    BY <2>1, <1>3 DEF DeliverAccepted, DeliverRefused, ForeignPost
  <2>2. ASSUME NEW e \in Events,
               RecordEvent(e) \/ AnswerRefused(e) \/ PlainAck(e) \/ PlainFail(e) \/ TimePasses(e)
        PROVE  rowId' = rowId
    BY <2>2 DEF RecordEvent, AnswerRefused, PlainAck, PlainFail, TimePasses
  <2>3. ASSUME NEW p \in Pumps, PumpStep(p) \/ Crash(p)
        PROVE  rowId' = rowId
    BY <2>3 DEF PumpStep, Claim, Send, SettleAccepted, SettleRefused, SettleFailed,
                SendFails, ReleaseClaim, Crash
  <2>4. CASE Replay \/ UNCHANGED vars
    BY <2>4 DEF Replay, vars
  <2> QED BY <2>1, <2>2, <2>3, <2>4 DEF Next
<1> QED BY <1>2, <1>4, <1>5

\* What a step can do to the answers and to the acknowledged rows.
LEMMA AnswersAndAcks ==
    ASSUME TypeOK, [Next]_vars
    PROVE  /\ \A e \in acks' : e \in acks \/ (e \in Events /\ Ingested(e)')
           /\ \A e \in Events : status'[e] = "acknowledged"
                                => status[e] = "acknowledged" \/ e \in acks
<1> DEFINE A == \A e \in acks' : e \in acks \/ (e \in Events /\ Ingested(e)')
           B == \A e \in Events : status'[e] = "acknowledged"
                                  => status[e] = "acknowledged" \/ e \in acks
<1>1. ASSUME NEW e \in Events, DeliverAccepted(e) PROVE A /\ B
  <2>1. Ingested(e)'
    BY <1>1 DEF DeliverAccepted, IngestAccepted, IngestNew, IngestDuplicate, ingestVars,
                Ingested, TypeOK, IngestTypeOK
  <2> QED BY <1>1, <2>1 DEF DeliverAccepted, storeVars
<1>2. ASSUME NEW e \in Events, RecordEvent(e) PROVE A /\ B
  BY <1>2 DEF RecordEvent, AppendEvent, netVars, TypeOK, StoreTypeOK
<1>3. ASSUME NEW e \in Events, DeliverRefused(e) \/ AnswerRefused(e) \/ ForeignPost(e)
      PROVE  A /\ B
  BY <1>3 DEF DeliverRefused, AnswerRefused, ForeignPost, netVars, storeVars
<1>4. ASSUME NEW e \in Events, PlainAck(e) \/ PlainFail(e) \/ TimePasses(e) PROVE A /\ B
  BY <1>4 DEF PlainAck, PlainFail, TimePasses, AckUnleased, FailUnleased, LeaseRunsOut,
              BackoffElapses, netVars, TypeOK, StoreTypeOK
<1>5. ASSUME NEW p \in Pumps, NEW e \in Events, SettleAccepted(p, e) PROVE A /\ B
  BY <1>5 DEF SettleAccepted, Ack, storeVars, netVars, TypeOK, StoreTypeOK
<1>6. ASSUME NEW p \in Pumps, NEW e \in Events, NEW b \in BOOLEAN, ReleaseClaim(p, e, b)
      PROVE  A /\ B
  BY <1>6 DEF ReleaseClaim, Release, storeVars, netVars
<1>7. ASSUME NEW p \in Pumps, Claim(p) \/ Crash(p) \/ \E e \in Events : Send(p, e)
      PROVE  A /\ B
  BY <1>7 DEF Claim, ClaimRows, Crash, Send, storeVars, netVars
<1>8. CASE Replay \/ UNCHANGED vars
  BY <1>8 DEF Replay, ReplayDeadLetters, vars, storeVars, netVars
<1> QED
  BY <1>1, <1>2, <1>3, <1>4, <1>5, <1>6, <1>7, <1>8
  DEF Next, PumpStep, SettleRefused, SettleFailed, SendFails

LEMMA AckStep ==
    ASSUME TypeOK, AckInv, [Next]_vars
    PROVE  AckInv'
<1>1. \A e \in Events : Ingested(e) => Ingested(e)'
  BY RowsStay
<1>2. /\ \A e \in acks' : e \in acks \/ (e \in Events /\ Ingested(e)')
      /\ \A e \in Events : status'[e] = "acknowledged"
                           => status[e] = "acknowledged" \/ e \in acks
  BY AnswersAndAcks
<1>3. acks \subseteq Events
  BY DEF TypeOK
<1>4. AnswersAreTrue'
  BY <1>1, <1>2, <1>3 DEF AckInv, AnswersAreTrue
<1>5. AckedIsIngested'
  BY <1>1, <1>2, <1>3 DEF AckInv, AnswersAreTrue, AckedIsIngested
<1> QED BY <1>4, <1>5 DEF AckInv

\* An event acknowledged at the edge is stored by the central platform, for
\* every loss, duplication and delay of messages and every crash of a pump.
THEOREM AckedSafe == Spec => []AckedIsIngested
<1>1. Init => AckInv
  BY DEF Init, StoreInit, AckInv, AnswersAreTrue, AckedIsIngested
<1>2. TypeOK /\ AckInv /\ [Next]_vars => AckInv'
  BY AckStep
<1>3. AckInv => AckedIsIngested
  BY DEF AckInv
<1> QED BY <1>1, <1>2, <1>3, TypeCorrect, PTL DEF Spec

-----------------------------------------------------------------------------
(* A claim that was taken over is harmless.  Only the type invariant is    *)
(* needed: the tests of ack and release compare the token itself.          *)

\* A late answer or failure leaves the row of the new claimant alone.
THEOREM StaleClaimSafe == Spec => StaleClaimIsHarmless
<1> DEFINE Row(e) == <<status[e], attempts[e], owner[e], token[e], waiting[e], dead[e]>>
           Stale(p, e) == held[p][e] \notin {0, token[e]}
<1>1. ASSUME TypeOK, Next, NEW p \in Pumps, NEW e \in Events,
             Stale(p, e), held'[p][e] = 0
      PROVE  Row(e)' = Row(e)
  <2>1. held[p][e] # 0 /\ ~HoldsLease(e, WorkerOf[p], held[p][e])
    BY <1>1 DEF HoldsLease
  <2>2. ASSUME NEW q \in Pumps, NEW x \in Events, DoneWith(q, x)
        PROVE  q = p /\ x = e
    BY <1>1, <2>1, <2>2 DEF DoneWith, TypeOK
  <2>3. ASSUME NEW q \in Pumps, NEW x \in Events, SettleAccepted(q, x)
        PROVE  Row(e)' = Row(e)
    BY <2>1, <2>2, <2>3 DEF SettleAccepted, Ack, storeVars
  <2>4. ASSUME NEW q \in Pumps, NEW x \in Events, NEW b \in BOOLEAN, ReleaseClaim(q, x, b)
        PROVE  Row(e)' = Row(e)
    BY <2>1, <2>2, <2>4 DEF ReleaseClaim, Release, storeVars
  <2>5. ASSUME NEW q \in Pumps, Claim(q) PROVE Row(e)' = Row(e)
    <3>1. q # p
      BY <2>1, <2>5 DEF Claim, Idle
    <3>2. held'[p][e] = held[p][e]
      BY <2>5, <3>1 DEF Claim, TypeOK
    <3> QED BY <1>1, <2>1, <3>2
  <2>6. ASSUME NEW q \in Pumps, Crash(q) \/ \E x \in Events : Send(q, x)
        PROVE  Row(e)' = Row(e)
    BY <2>6 DEF Crash, Send, storeVars
  <2>7. ASSUME held' = held PROVE FALSE
    BY <1>1, <2>1, <2>7
  <2>8. ASSUME NEW x \in Events,
               \/ RecordEvent(x) \/ DeliverAccepted(x) \/ DeliverRefused(x)
               \/ AnswerRefused(x) \/ ForeignPost(x) \/ PlainAck(x) \/ PlainFail(x)
               \/ TimePasses(x)
        PROVE  FALSE
    BY <2>7, <2>8 DEF RecordEvent, DeliverAccepted, DeliverRefused, AnswerRefused,
                      ForeignPost, PlainAck, PlainFail, TimePasses, pumpVars
  <2>9. CASE Replay
    BY <2>7, <2>9 DEF Replay, pumpVars
  <2> QED
    BY <1>1, <2>3, <2>4, <2>5, <2>6, <2>8, <2>9
    DEF Next, PumpStep, SettleRefused, SettleFailed, SendFails
<1>2. TypeOK /\ [Next]_vars =>
        [\A p \in Pumps, e \in Events :
            held[p][e] \notin {0, token[e]} /\ held'[p][e] = 0
            => UNCHANGED <<status[e], attempts[e], owner[e], token[e],
                           waiting[e], dead[e]>>]_vars
  BY <1>1
<1> QED BY <1>2, TypeCorrect, PTL DEF Spec, StaleClaimIsHarmless

-----------------------------------------------------------------------------
(* Events arrive in order.  An event is claimed only when its stream is    *)
(* clear before it, and the stream stays clear: an earlier event recorded  *)
(* later is excused, and an acknowledged one stays acknowledged.           *)

\* Every earlier event that still counts has been acknowledged.
ClearBefore(e) ==
    \A o \in EdgeEvents :
        Recorded(o) /\ Precedes(o, e) /\ o \notin excused => status[o] = "acknowledged"

Underway(e) == e \in wire \/ \E p \in Pumps : held[p][e] # 0

OrderInv ==
    /\ \A e \in Events : Recorded(e) => e \in EdgeEvents
    /\ \A e \in Events : dead[e] => e \in excused
    /\ \A e \in Events : Underway(e) => Recorded(e) /\ ClearBefore(e)
    /\ \A e \in EdgeEvents : Ingested(e) => e \in wire
    /\ \A e \in Events : rowId[e] <= lastId
    /\ InOrderIngest

LEMMA PrecedesStrict ==
    ASSUME NEW e \in Events
    PROVE  ~Precedes(e, e)
BY DEF Precedes

\* What every step but RecordEvent does to the outbox: no row appears or
\* disappears, an acknowledged row stays so, a dead letter is excused.
OutboxStep ==
    /\ \A e \in Events : Recorded(e)' <=> Recorded(e)
    /\ \A e \in Events : status[e] = "acknowledged" => status'[e] = "acknowledged"
    /\ \A e \in Events : dead'[e] => dead[e] \/ e \in excused'
    /\ excused \subseteq excused'

LEMMA OutboxSteps ==
    ASSUME TypeOK, [Next]_vars, \A e \in Events : ~RecordEvent(e)
    PROVE  OutboxStep
<1> USE DEF OutboxStep, Recorded
<1>1. ASSUME NEW e \in Events,
             DeliverAccepted(e) \/ DeliverRefused(e) \/ AnswerRefused(e) \/ ForeignPost(e)
      PROVE  OutboxStep
  BY <1>1 DEF DeliverAccepted, DeliverRefused, AnswerRefused, ForeignPost, storeVars
<1>2. ASSUME NEW e \in Events, PlainAck(e) \/ PlainFail(e) \/ TimePasses(e)
      PROVE  OutboxStep
  BY <1>2 DEF PlainAck, PlainFail, TimePasses, AckUnleased, FailUnleased, LeaseRunsOut,
              BackoffElapses, TypeOK, StoreTypeOK
<1>3. ASSUME NEW p \in Pumps, NEW e \in Events, SettleAccepted(p, e) PROVE OutboxStep
  BY <1>3 DEF SettleAccepted, Ack, HoldsLease, storeVars, TypeOK, StoreTypeOK
<1>4. ASSUME NEW p \in Pumps, NEW e \in Events, NEW b \in BOOLEAN, ReleaseClaim(p, e, b)
      PROVE  OutboxStep
  <2>1. status' = status /\ excused \subseteq excused'
    BY <1>4 DEF ReleaseClaim, Release, storeVars
  <2>2. \A x \in Events : x # e => dead'[x] = dead[x]
    BY <1>4 DEF ReleaseClaim, Release, storeVars, TypeOK, StoreTypeOK
  <2>3. dead'[e] => e \in excused'
    BY <1>4 DEF ReleaseClaim
  <2> QED BY <2>1, <2>2, <2>3
<1>5. ASSUME NEW p \in Pumps, Claim(p) \/ Crash(p) \/ \E e \in Events : Send(p, e)
      PROVE  OutboxStep
  BY <1>5 DEF Claim, ClaimRows, Crash, Send, storeVars
<1>6. CASE Replay \/ UNCHANGED vars
  BY <1>6 DEF Replay, ReplayDeadLetters, vars, storeVars, TypeOK, StoreTypeOK
<1> QED
  BY <1>1, <1>2, <1>3, <1>4, <1>5, <1>6
  DEF Next, PumpStep, SettleRefused, SettleFailed, SendFails

\* In such a step a stream that is clear before an event stays clear.
LEMMA ClearStays ==
    ASSUME TypeOK, OutboxStep, NEW e \in Events, ClearBefore(e)
    PROVE  ClearBefore(e)'
BY DEF OutboxStep, ClearBefore

\* Recording an event does not disturb the events underway.
LEMMA RecordKeepsOrder ==
    ASSUME TypeOK, OrderInv, NEW n \in Events, RecordEvent(n)
    PROVE  OrderInv'
<1>1. /\ n \in EdgeEvents
      /\ status' = [status EXCEPT ![n] = "pending"]
      /\ dead' = dead
      /\ UNCHANGED <<held, sending, wire, rowId, lastId>>
  BY DEF RecordEvent, AppendEvent, ingestVars, pumpVars, netVars
<1>2. status[n] = "absent"
  BY EventsAssumption DEF RecordEvent, AppendEvent, Recorded, SameId
<1>3. excused \subseteq excused'
  BY DEF RecordEvent
<1>4. \A e \in Events : Recorded(e)' <=> Recorded(e) \/ e = n
  BY <1>1 DEF Recorded, TypeOK, StoreTypeOK
<1>5. ASSUME NEW e \in Events, Recorded(e), Precedes(n, e)
      PROVE  n \in excused'
  BY <1>5 DEF RecordEvent
<1>6. ASSUME NEW e \in Events, Underway(e)' PROVE Recorded(e)' /\ ClearBefore(e)'
  <2>1. Recorded(e) /\ ClearBefore(e)
    BY <1>1, <1>6 DEF OrderInv, Underway
  <2>2. ASSUME NEW o \in EdgeEvents, Recorded(o)', Precedes(o, e), o \notin excused'
        PROVE  status'[o] = "acknowledged"
    <3>1. o # n
      BY <2>1, <2>2, <1>5
    <3> QED BY <2>1, <2>2, <3>1, <1>1, <1>3, <1>4 DEF ClearBefore, TypeOK, StoreTypeOK
  <2> QED BY <2>1, <2>2, <1>4 DEF ClearBefore, Precedes, SameStream
<1>7. InOrderIngest'
  <2> SUFFICES ASSUME NEW e \in EdgeEvents, NEW o \in EdgeEvents,
                      Ingested(e), Recorded(o)', Precedes(o, e), o \notin excused'
               PROVE  0 < rowId[o] /\ rowId[o] < rowId[e]
    BY <1>1 DEF InOrderIngest, Ingested, Precedes, SameStream
  <2>1. Recorded(e)
    BY DEF OrderInv, Underway
  <2>2. o # n
    BY <2>1, <1>5
  <2> QED BY <2>2, <1>3, <1>4 DEF OrderInv, InOrderIngest
<1> QED
  BY <1>1, <1>3, <1>4, <1>6, <1>7 DEF OrderInv, Ingested

\* A step of the outbox, the pumps or the network that stores no event.
LEMMA OutboxKeepsOrder ==
    ASSUME TypeOK, OrderInv, OutboxStep,
           rowId' = rowId, lastId' = lastId, wire \subseteq wire',
           \A e \in Events : Underway(e)' => Underway(e) \/ (Recorded(e) /\ ClearBefore(e))
    PROVE  OrderInv'
<1>1. \A e \in Events : Recorded(e)' => e \in EdgeEvents
  BY DEF OutboxStep, OrderInv
<1>2. \A e \in Events : dead'[e] => e \in excused'
  BY DEF OutboxStep, OrderInv
<1>3. ASSUME NEW e \in Events, Underway(e)' PROVE Recorded(e)' /\ ClearBefore(e)'
  <2>1. Recorded(e) /\ ClearBefore(e)
    BY <1>3 DEF OrderInv
  <2> QED BY <2>1, ClearStays DEF OutboxStep
<1>4. \A e \in EdgeEvents : Ingested(e)' => e \in wire'
  BY DEF OrderInv, Ingested
<1>5. \A e \in Events : rowId'[e] <= lastId'
  BY DEF OrderInv
<1>6. InOrderIngest'
  BY DEF OrderInv, InOrderIngest, OutboxStep, Ingested, Precedes, SameStream
<1> QED BY <1>1, <1>2, <1>3, <1>4, <1>5, <1>6 DEF OrderInv

\* Storing an event: all earlier ones that count were stored before.
LEMMA IngestKeepsOrder ==
    ASSUME TypeOK, AckInv, OrderInv, NEW n \in Events, IngestNew(n),
           n \in wire \/ n \notin EdgeEvents,
           UNCHANGED <<storeVars, pumpVars, wire, excused>>
    PROVE  OrderInv'
<1>1. /\ rowId' = [rowId EXCEPT ![n] = lastId + 1]
      /\ lastId' = lastId + 1
      /\ ~Ingested(n)
  BY DEF IngestNew, KnownId, SameId
<1>2. rowId \in [Events -> Nat] /\ lastId \in Nat
  BY DEF TypeOK, IngestTypeOK
<1>3. /\ \A e \in Events : Recorded(e)' <=> Recorded(e)
      /\ \A e \in Events : Underway(e)' <=> Underway(e)
      /\ \A e \in Events : ClearBefore(e)' <=> ClearBefore(e)
      /\ dead' = dead
  BY DEF storeVars, pumpVars, Recorded, Underway, ClearBefore
<1>4. \A e \in Events : rowId'[e] <= lastId'
  BY <1>1, <1>2 DEF OrderInv
<1>5. \A e \in EdgeEvents : Ingested(e)' => e \in wire'
  BY <1>1, <1>2 DEF OrderInv, Ingested
<1>6. InOrderIngest'
  <2> SUFFICES ASSUME NEW e \in EdgeEvents, NEW o \in EdgeEvents,
                      Ingested(e)', Recorded(o), Precedes(o, e), o \notin excused
               PROVE  0 < rowId'[o] /\ rowId'[o] < rowId'[e]
    BY <1>3 DEF InOrderIngest
  <2>1. CASE e = n
    <3>1. status[o] = "acknowledged"
      BY <2>1 DEF OrderInv, Underway, ClearBefore
    <3>2. Ingested(o)
      BY <3>1 DEF AckInv, AckedIsIngested
    <3>3. o # n
      BY <1>1, <3>2
    <3> QED BY <2>1, <3>2, <3>3, <1>1, <1>2 DEF OrderInv, Ingested
  <2>2. CASE e # n
    <3>1. Ingested(e)
      BY <2>2, <1>1, <1>2 DEF Ingested
    <3>2. 0 < rowId[o] /\ rowId[o] < rowId[e]
      BY <3>1 DEF OrderInv, InOrderIngest
    <3>3. o # n
      BY <1>1, <3>2 DEF Ingested
    <3> QED BY <2>2, <3>2, <3>3, <1>1, <1>2
  <2> QED BY <2>1, <2>2
<1> QED BY <1>3, <1>4, <1>5, <1>6 DEF OrderInv

LEMMA OrderStep ==
    ASSUME TypeOK, AckInv, OrderInv, [Next]_vars
    PROVE  OrderInv'
<1>1. ASSUME NEW e \in Events, RecordEvent(e) PROVE OrderInv'
  BY <1>1, RecordKeepsOrder
<1>2. CASE \A e \in Events : ~RecordEvent(e)
  <2>1. OutboxStep
    BY <1>2, OutboxSteps
  <2>2. ASSUME NEW e \in Events, DeliverAccepted(e) PROVE OrderInv'
    <3>1. CASE IngestNew(e)
      BY <2>2, <3>1, IngestKeepsOrder DEF DeliverAccepted, storeVars, pumpVars
    <3>2. CASE IngestDuplicate(e)
      BY <2>1, <2>2, <3>2, OutboxKeepsOrder
      DEF DeliverAccepted, IngestDuplicate, ingestVars, pumpVars, Underway
    <3> QED BY <2>2, <3>1, <3>2 DEF DeliverAccepted, IngestAccepted
  <2>3. ASSUME NEW e \in Events, ForeignPost(e) PROVE OrderInv'
    <3>1. CASE IngestNew(e)
      BY <2>3, <3>1, IngestKeepsOrder DEF ForeignPost, storeVars, pumpVars, netVars
    <3>2. CASE IngestDuplicate(e) \/ IngestRefused(e, FALSE)
      BY <2>1, <2>3, <3>2, OutboxKeepsOrder
      DEF ForeignPost, IngestDuplicate, IngestRefused, RefuseMismatch, RefuseConflict,
          ingestVars, pumpVars, netVars, Underway
    <3> QED BY <2>3, <3>1, <3>2 DEF ForeignPost, IngestAccepted
  <2>4. ASSUME NEW e \in Events,
               DeliverRefused(e) \/ AnswerRefused(e) \/ PlainAck(e) \/ PlainFail(e) \/ TimePasses(e)
        PROVE  OrderInv'
    BY <2>1, <2>4, OutboxKeepsOrder
    DEF DeliverRefused, AnswerRefused, PlainAck, PlainFail, TimePasses, IngestRefused,
        RefuseMismatch, RefuseConflict, ingestVars, pumpVars, netVars, Underway
  <2>5. ASSUME NEW p \in Pumps, NEW e \in Events, DoneWith(p, e),
               UNCHANGED <<rowId, lastId, wire>>
        PROVE  OrderInv'
    <3>1. \A q \in Pumps, x \in Events : held'[q][x] # 0 => held[q][x] # 0
      BY <2>5 DEF DoneWith, TypeOK
    <3> QED BY <2>1, <2>5, <3>1, OutboxKeepsOrder DEF Underway
  <2>6. ASSUME NEW p \in Pumps, NEW e \in Events,
               \/ SettleAccepted(p, e)
               \/ SettleRefused(p, e)
               \/ SettleFailed(p, e)
               \/ SendFails(p, e)
        PROVE  OrderInv'
    BY <2>5, <2>6 DEF SettleAccepted, SettleRefused, SettleFailed, SendFails,
                      ReleaseClaim, ingestVars, netVars
  <2>7. ASSUME NEW p \in Pumps, NEW e \in Events, Send(p, e) PROVE OrderInv'
    <3>1. Underway(e)
      BY <2>7 DEF Send, Underway
    <3>2. \A x \in Events : Underway(x)' => Underway(x)
      BY <2>7, <3>1 DEF Send, Underway
    <3> QED BY <2>1, <2>7, <3>2, OutboxKeepsOrder DEF Send, ingestVars
  <2>8. ASSUME NEW p \in Pumps, Crash(p) PROVE OrderInv'
    <3>1. \A q \in Pumps, x \in Events : held'[q][x] # 0 => held[q][x] # 0
      BY <2>8 DEF Crash, TypeOK
    <3> QED BY <2>1, <2>8, <3>1, OutboxKeepsOrder DEF Crash, Underway, ingestVars, netVars
  <2>9. ASSUME NEW p \in Pumps, Claim(p) PROVE OrderInv'
    <3>1. PICK S \in SUBSET {e \in Events : Claimable(e)} :
            held' = [held EXCEPT ![p] = [e \in Events |->
                                          IF e \in S THEN NewTokens[e] ELSE 0]]
      BY <2>9 DEF Claim
    <3>2. ASSUME NEW e \in S PROVE Recorded(e) /\ ClearBefore(e)
      <4>1. Recorded(e)
        BY <3>2 DEF Claimable, Live, Recorded
      <4>2. ASSUME NEW o \in EdgeEvents, Recorded(o), Precedes(o, e), o \notin excused
            PROVE  status[o] = "acknowledged"
        <5>1. ~Live(o)
          BY <3>2, <4>2 DEF Claimable
        <5>2. ~dead[o]
          BY <4>2 DEF OrderInv
        <5> QED BY <4>2, <5>1, <5>2 DEF Live, Recorded, TypeOK, StoreTypeOK
      <4> QED BY <4>1, <4>2 DEF ClearBefore
    <3>3. \A q \in Pumps, x \in Events :
             held'[q][x] # 0 => held[q][x] # 0 \/ x \in S
      BY <3>1 DEF TypeOK
    <3> QED
      BY <2>1, <2>9, <3>2, <3>3, OutboxKeepsOrder DEF Claim, Underway, ingestVars, netVars
  <2>10. CASE Replay \/ UNCHANGED vars
    BY <2>1, <2>10, OutboxKeepsOrder
    DEF Replay, vars, ingestVars, pumpVars, netVars, Underway
  <2> QED
    BY <1>2, <2>2, <2>3, <2>4, <2>6, <2>7, <2>8, <2>9, <2>10 DEF Next, PumpStep
<1> QED BY <1>1, <1>2

\* A dead letter has a row without a lease, and a pump sends what it holds.
LeaseInv ==
    /\ \A e \in Events : dead[e] => Recorded(e) /\ token[e] = 0
    /\ \A p \in Pumps : sending[p] # NoEvent => held[p][sending[p]] # 0

LEMMA LeaseStep ==
    ASSUME TypeOK, LeaseInv, [Next]_vars
    PROVE  LeaseInv'
<1> DEFINE A == \A e \in Events : dead[e] => Recorded(e) /\ token[e] = 0
           B == \A p \in Pumps : sending[p] # NoEvent => held[p][sending[p]] # 0
<1> USE DEF Recorded
<1>1. A /\ B
  BY DEF LeaseInv
<1>2. ASSUME UNCHANGED <<status, dead, token>> PROVE A'
  BY <1>1, <1>2
<1>3. ASSUME UNCHANGED pumpVars PROVE B'
  BY <1>1, <1>3 DEF pumpVars
<1>4. ASSUME NEW e \in Events, RecordEvent(e) PROVE A' /\ B'
  <2>1. A'
    BY <1>1, <1>4 DEF RecordEvent, AppendEvent, TypeOK, StoreTypeOK
  <2> QED BY <2>1, <1>3, <1>4 DEF RecordEvent
<1>5. ASSUME NEW e \in Events,
             DeliverAccepted(e) \/ DeliverRefused(e) \/ AnswerRefused(e) \/ ForeignPost(e)
      PROVE  A' /\ B'
  BY <1>2, <1>3, <1>5 DEF DeliverAccepted, DeliverRefused, AnswerRefused, ForeignPost, storeVars
<1>6. ASSUME NEW e \in Events, PlainAck(e) PROVE A' /\ B'
  <2>1. A'
    BY <1>1, <1>6 DEF PlainAck, AckUnleased, ClearLease, TypeOK, StoreTypeOK
  <2> QED BY <2>1, <1>3, <1>6 DEF PlainAck
<1>7. ASSUME NEW e \in Events, PlainFail(e) \/ TimePasses(e) PROVE A' /\ B'
  BY <1>2, <1>3, <1>7 DEF PlainFail, TimePasses, FailUnleased, LeaseRunsOut, BackoffElapses
<1>8. ASSUME NEW p \in Pumps, NEW e \in Events, DoneWith(p, e) PROVE B'
  BY <1>1, <1>8 DEF DoneWith, TypeOK
<1>9. ASSUME NEW p \in Pumps, NEW e \in Events, SettleAccepted(p, e) PROVE A' /\ B'
  <2>1. A'
    BY <1>1, <1>9 DEF SettleAccepted, Ack, ClearLease, storeVars, TypeOK, StoreTypeOK
  <2> QED BY <2>1, <1>8, <1>9 DEF SettleAccepted
<1>10. ASSUME NEW p \in Pumps, NEW e \in Events, NEW b \in BOOLEAN, ReleaseClaim(p, e, b)
       PROVE  A' /\ B'
  <2>1. CASE HoldsLease(e, WorkerOf[p], held[p][e])
    <3>1. status[e] = "pending" /\ status' = status /\ token' = [token EXCEPT ![e] = 0]
      BY <1>10, <2>1 DEF ReleaseClaim, Release, HoldsLease, ClearLease
    <3>2. \A x \in Events : x # e => dead'[x] = dead[x]
      BY <1>10, <2>1 DEF ReleaseClaim, Release, TypeOK, StoreTypeOK
    <3> QED BY <1>1, <1>8, <1>10, <3>1, <3>2 DEF ReleaseClaim, TypeOK, StoreTypeOK
  <2>2. CASE ~HoldsLease(e, WorkerOf[p], held[p][e])
    BY <1>2, <1>8, <1>10, <2>2 DEF ReleaseClaim, Release, storeVars
  <2> QED BY <2>1, <2>2
<1>11. ASSUME NEW p \in Pumps, NEW e \in Events, Send(p, e) PROVE A' /\ B'
  BY <1>1, <1>2, <1>11 DEF Send, storeVars, TypeOK
<1>12. ASSUME NEW p \in Pumps, Crash(p) PROVE A' /\ B'
  BY <1>1, <1>2, <1>12 DEF Crash, storeVars, TypeOK
<1>13. ASSUME NEW p \in Pumps, Claim(p) PROVE A' /\ B'
  <2>1. PICK S \in SUBSET {e \in Events : Claimable(e)} :
          /\ ClaimRows(WorkerOf[p], S, NewTokens)
          /\ held' = [held EXCEPT ![p] = [e \in Events |->
                                            IF e \in S THEN NewTokens[e] ELSE 0]]
    BY <1>13 DEF Claim
  <2>2. A'
    BY <1>1, <2>1 DEF ClaimRows, Claimable, Live
  <2>3. sending[p] = NoEvent
    BY <1>1, <1>13 DEF Claim, Idle, TypeOK
  <2>4. B'
    BY <1>1, <1>13, <2>1, <2>3 DEF Claim, TypeOK
  <2> QED BY <2>2, <2>4
<1>14. CASE Replay
  <2>1. A'
    BY <1>1, <1>14 DEF Replay, ReplayDeadLetters, TypeOK, StoreTypeOK
  <2> QED BY <2>1, <1>3, <1>14 DEF Replay, LeaseInv
<1>15. CASE UNCHANGED vars
  BY <1>2, <1>3, <1>15 DEF vars, storeVars, LeaseInv
<1> QED
  BY <1>4, <1>5, <1>6, <1>7, <1>9, <1>10, <1>11, <1>12, <1>13, <1>14, <1>15
  DEF Next, PumpStep, SettleRefused, SettleFailed, SendFails, LeaseInv

FullInv == TypeOK /\ AckInv /\ OrderInv /\ LeaseInv

LEMMA InitInv == Init => AckInv /\ OrderInv /\ LeaseInv
BY DEF Init, StoreInit, IngestInit, AckInv, AnswersAreTrue, AckedIsIngested, OrderInv,
       LeaseInv, Recorded, Underway, Ingested, InOrderIngest

LEMMA Invariance == Spec => []FullInv
<1>1. TypeOK /\ (AckInv /\ OrderInv /\ LeaseInv) /\ [Next]_vars
        => (AckInv /\ OrderInv /\ LeaseInv)'
  BY AckStep, OrderStep, LeaseStep
<1> QED BY <1>1, InitInv, TypeCorrect, PTL DEF Spec, FullInv

\* The events of one device are stored in sequence order, except around dead
\* letters and events recorded late.
THEOREM InOrderSafe == Spec => []InOrderIngest
<1>1. FullInv => InOrderIngest
  BY DEF FullInv, OrderInv
<1> QED BY <1>1, Invariance, PTL

-----------------------------------------------------------------------------
(* The pipeline implements ReliableDelivery: a record, a new central row,   *)
(* an acknowledgement, a dead-lettering and a replay are its five actions;  *)
(* every other step leaves its variables alone.                            *)

recordedBar == {e \in EdgeEvents : Recorded(e)}
deliveredBar == {e \in EdgeEvents : Ingested(e)}
confirmedBar == {e \in EdgeEvents : status[e] = "acknowledged"}
parkedBar == {e \in EdgeEvents : status[e] = "pending" /\ dead[e]}

LEMMA InitRefines == Init => Promise!PromiseInit
BY DEF Init, StoreInit, IngestInit, Promise!PromiseInit, Recorded, Ingested

\* A step that touches no status, no dead letter and no central row.
LEMMA Stutters ==
    ASSUME UNCHANGED <<status, dead, rowId, excused>>
    PROVE  UNCHANGED Promise!promiseVars
BY DEF Promise!promiseVars, Recorded, Ingested

LEMMA RecordRefines ==
    ASSUME FullInv, NEW e \in Events, RecordEvent(e)
    PROVE  Promise!Record(e)
<1>1. /\ e \in EdgeEvents
      /\ status' = [status EXCEPT ![e] = "pending"]
      /\ dead' = dead
      /\ rowId' = rowId
  BY DEF RecordEvent, AppendEvent, ingestVars
<1>2. ~Recorded(e)
  BY DEF RecordEvent, AppendEvent, SameId
<1>3. \A x \in Events : Recorded(x) => x \in EdgeEvents
  BY DEF FullInv, OrderInv
<1>4. ~dead[e]
  BY <1>2 DEF FullInv, LeaseInv
<1>5. e \notin recordedBar /\ recordedBar' = recordedBar \union {e}
  BY <1>1, <1>2 DEF recordedBar, Recorded, FullInv, TypeOK, StoreTypeOK
<1>6. excused' = excused \union {x \in {e} : \E o \in recordedBar : Precedes(e, o)}
  BY <1>3 DEF RecordEvent, recordedBar
<1>7. deliveredBar' = deliveredBar
  BY <1>1 DEF deliveredBar, Ingested
<1>8. confirmedBar' = confirmedBar /\ parkedBar' = parkedBar
  BY <1>1, <1>2, <1>4 DEF confirmedBar, parkedBar, Recorded, FullInv, TypeOK, StoreTypeOK
<1> QED
  BY <1>5, <1>6, <1>7, <1>8
  DEF Promise!Record, recordedBar, deliveredBar, confirmedBar, parkedBar,
      Promise!Precedes, Promise!SameStream, Precedes, SameStream

\* A new central row, whoever sent the event.
LEMMA IngestRefines ==
    ASSUME FullInv, NEW e \in Events, IngestNew(e), e \in wire \/ e \notin EdgeEvents,
           UNCHANGED <<status, dead, excused>>
    PROVE  Promise!Arrive(e) \/ UNCHANGED Promise!promiseVars
<1>1. /\ rowId' = [rowId EXCEPT ![e] = lastId + 1]
      /\ ~Ingested(e)
  BY DEF IngestNew, KnownId, SameId
<1>2. rowId \in [Events -> Nat] /\ lastId \in Nat
  BY DEF FullInv, TypeOK, IngestTypeOK
<1>3. CASE e \in EdgeEvents
  <2>1. Recorded(e) /\ ClearBefore(e)
    BY <1>3 DEF FullInv, OrderInv, Underway
  <2>2. e \in recordedBar \ deliveredBar
    BY <1>1, <1>3, <2>1 DEF recordedBar, deliveredBar
  <2>3. \A o \in recordedBar \ excused : Precedes(o, e) => o \in confirmedBar
    BY <2>1 DEF ClearBefore, recordedBar, confirmedBar
  <2>4. deliveredBar' = deliveredBar \union {e}
    BY <1>1, <1>2, <1>3 DEF deliveredBar, Ingested
  <2>5. recordedBar' = recordedBar /\ confirmedBar' = confirmedBar /\ parkedBar' = parkedBar
    BY DEF recordedBar, confirmedBar, parkedBar, Recorded
  <2> QED
    BY <2>2, <2>3, <2>4, <2>5
    DEF Promise!Arrive, recordedBar, deliveredBar, confirmedBar, parkedBar,
        Promise!Precedes, Promise!SameStream, Precedes, SameStream
<1>4. CASE e \notin EdgeEvents
  <2>1. deliveredBar' = deliveredBar
    BY <1>1, <1>2, <1>4 DEF deliveredBar, Ingested
  <2> QED BY <2>1 DEF Promise!promiseVars, deliveredBar, Recorded
<1> QED BY <1>3, <1>4

\* An acknowledgement, leased or not, of an event with a positive answer.
LEMMA AckRefines ==
    ASSUME FullInv, NEW e \in Events, e \in acks, status[e] = "pending",
           status' = [status EXCEPT ![e] = "acknowledged"],
           UNCHANGED <<dead, rowId, excused>>
    PROVE  Promise!Confirm(e)
<1>1. status \in [Events -> {"absent", "pending", "acknowledged"}]
  BY DEF FullInv, TypeOK, StoreTypeOK
<1>2. Ingested(e) /\ e \in EdgeEvents
  BY DEF FullInv, AckInv, AnswersAreTrue, OrderInv, Recorded
<1>3. e \in deliveredBar \ confirmedBar
  BY <1>2 DEF deliveredBar, confirmedBar
<1>4. confirmedBar' = confirmedBar \union {e}
  BY <1>1, <1>2 DEF confirmedBar
<1>5. parkedBar' = parkedBar \ {e}
  BY <1>1, <1>2 DEF parkedBar
<1>6. recordedBar' = recordedBar /\ deliveredBar' = deliveredBar
  BY <1>1 DEF recordedBar, deliveredBar, Recorded, Ingested
<1> QED
  BY <1>3, <1>4, <1>5, <1>6
  DEF Promise!Confirm, recordedBar, deliveredBar, confirmedBar, parkedBar

LEMMA ReleaseRefines ==
    ASSUME FullInv, NEW p \in Pumps, NEW e \in Events, NEW b \in BOOLEAN,
           held[p][e] # 0, ReleaseClaim(p, e, b)
    PROVE  Promise!Park(e) \/ UNCHANGED Promise!promiseVars
<1>1. rowId' = rowId
  BY DEF ReleaseClaim, ingestVars
<1>2. CASE HoldsLease(e, WorkerOf[p], held[p][e])
  <2>1. status[e] = "pending" /\ ~dead[e] /\ status' = status
    BY <1>2 DEF HoldsLease, FullInv, LeaseInv, ReleaseClaim, Release
  <2>2. dead' = [dead EXCEPT ![e] = dead'[e]]
    BY <1>2 DEF ReleaseClaim, Release, FullInv, TypeOK, StoreTypeOK
  <2>3. e \in EdgeEvents
    BY <2>1 DEF FullInv, OrderInv, Recorded
  <2>4. CASE dead'[e]
    <3>1. excused' = excused \union {e}
      BY <2>4 DEF ReleaseClaim
    <3>2. e \in recordedBar \ (confirmedBar \union parkedBar)
      BY <2>1, <2>3 DEF recordedBar, confirmedBar, parkedBar, Recorded
    <3>3. parkedBar' = parkedBar \union {e}
      BY <2>1, <2>2, <2>3, <2>4 DEF parkedBar, FullInv, TypeOK, StoreTypeOK
    <3>4. /\ recordedBar' = recordedBar
          /\ deliveredBar' = deliveredBar
          /\ confirmedBar' = confirmedBar
      BY <1>1, <2>1 DEF recordedBar, deliveredBar, confirmedBar, Recorded, Ingested
    <3> QED
      BY <3>1, <3>2, <3>3, <3>4
      DEF Promise!Park, recordedBar, deliveredBar, confirmedBar, parkedBar
  <2>5. CASE ~dead'[e]
    <3>1. excused' = excused
      BY <2>5 DEF ReleaseClaim
    <3>2. \A x \in Events : dead'[x] <=> dead[x]
      BY <2>1, <2>2, <2>5 DEF FullInv, TypeOK, StoreTypeOK
    <3> QED BY <1>1, <2>1, <3>1, <3>2 DEF Promise!promiseVars, Recorded, Ingested
  <2> QED BY <2>4, <2>5
<1>3. CASE ~HoldsLease(e, WorkerOf[p], held[p][e])
  <2>1. UNCHANGED <<status, dead>>
    BY <1>3 DEF ReleaseClaim, Release, storeVars
  <2>2. excused' = excused
    BY <2>1 DEF ReleaseClaim, FullInv, OrderInv
  <2> QED BY <1>1, <2>1, <2>2, Stutters
<1> QED BY <1>2, <1>3

LEMMA ReplayRefines ==
    ASSUME FullInv, Replay
    PROVE  Promise!ReplayParked \/ UNCHANGED Promise!promiseVars
<1>1. /\ UNCHANGED <<status, rowId, excused>>
      /\ \A e \in Events : status[e] = "pending" => ~dead'[e]
      /\ \E e \in Events : status[e] = "pending" /\ dead[e]
  BY DEF Replay, ReplayDeadLetters, ingestVars, FullInv, TypeOK, StoreTypeOK
<1>2. parkedBar # {} /\ parkedBar' = {}
  BY <1>1 DEF parkedBar, FullInv, OrderInv, Recorded
<1>3. recordedBar' = recordedBar /\ deliveredBar' = deliveredBar /\ confirmedBar' = confirmedBar
  BY <1>1 DEF recordedBar, deliveredBar, confirmedBar, Recorded, Ingested
<1> QED
  BY <1>1, <1>2, <1>3
  DEF Promise!ReplayParked, recordedBar, deliveredBar, confirmedBar, parkedBar

LEMMA StepRefines ==
    ASSUME FullInv, [Next]_vars
    PROVE  [Promise!PromiseNext]_Promise!promiseVars
<1> USE DEF Promise!PromiseNext
<1>1. ASSUME NEW e \in Events, RecordEvent(e) PROVE Promise!PromiseNext
  BY <1>1, RecordRefines
<1>2. ASSUME NEW e \in Events, DeliverAccepted(e) \/ ForeignPost(e)
      PROVE  Promise!PromiseNext \/ UNCHANGED Promise!promiseVars
  <2>1. UNCHANGED <<status, dead, excused>>
    BY <1>2 DEF DeliverAccepted, ForeignPost, storeVars
  <2>2. CASE IngestNew(e)
    BY <1>2, <2>1, <2>2, IngestRefines DEF DeliverAccepted, ForeignPost
  <2>3. CASE rowId' = rowId
    BY <2>1, <2>3, Stutters
  <2> QED
    BY <1>2, <2>2, <2>3
    DEF DeliverAccepted, ForeignPost, IngestAccepted, IngestDuplicate, IngestRefused,
        RefuseMismatch, RefuseConflict, ingestVars
<1>3. ASSUME NEW e \in Events,
             DeliverRefused(e) \/ AnswerRefused(e) \/ PlainFail(e) \/ TimePasses(e)
      PROVE  UNCHANGED Promise!promiseVars
  BY <1>3, Stutters
  DEF DeliverRefused, AnswerRefused, PlainFail, TimePasses, IngestRefused, RefuseMismatch,
      RefuseConflict, FailUnleased, LeaseRunsOut, BackoffElapses, storeVars, ingestVars
<1>4. ASSUME NEW e \in Events, PlainAck(e) PROVE Promise!PromiseNext
  BY <1>4, AckRefines DEF PlainAck, AckUnleased, ingestVars
<1>5. ASSUME NEW p \in Pumps, NEW e \in Events, SettleAccepted(p, e)
      PROVE  Promise!PromiseNext \/ UNCHANGED Promise!promiseVars
  <2>1. CASE HoldsLease(e, WorkerOf[p], held[p][e])
    BY <1>5, <2>1, AckRefines DEF SettleAccepted, Ack, HoldsLease, ingestVars
  <2>2. CASE ~HoldsLease(e, WorkerOf[p], held[p][e])
    BY <1>5, <2>2, Stutters DEF SettleAccepted, Ack, storeVars, ingestVars
  <2> QED BY <2>1, <2>2
<1>6. ASSUME NEW p \in Pumps, NEW e \in Events,
             SettleRefused(p, e) \/ SettleFailed(p, e) \/ SendFails(p, e)
      PROVE  Promise!PromiseNext \/ UNCHANGED Promise!promiseVars
  <2>1. held[p][e] # 0
    BY <1>6 DEF SettleRefused, SettleFailed, SendFails, FullInv, LeaseInv
  <2> QED
    BY <1>6, <2>1, ReleaseRefines DEF SettleRefused, SettleFailed, SendFails
<1>7. ASSUME NEW p \in Pumps, Claim(p) \/ Crash(p) \/ \E e \in Events : Send(p, e)
      PROVE  UNCHANGED Promise!promiseVars
  BY <1>7, Stutters DEF Claim, ClaimRows, Crash, Send, storeVars, ingestVars
<1>8. CASE Replay
  BY <1>8, ReplayRefines
<1>9. CASE UNCHANGED vars
  BY <1>9, Stutters DEF vars, storeVars, ingestVars
<1> QED
  BY <1>1, <1>2, <1>3, <1>4, <1>5, <1>6, <1>7, <1>8, <1>9 DEF Next, PumpStep

\* The outbox, its pumps, an unreliable transport and central ingestion
\* together keep the promise of ReliableDelivery.
THEOREM DeliveryRefines == Spec => ImplementsReliableDelivery
<1>1. Spec => Init /\ [][Next]_vars
  BY DEF Spec
<1> QED
  BY <1>1, InitRefines, StepRefines, Invariance, PTL
  DEF ImplementsReliableDelivery, Promise!PromiseSpec

-----------------------------------------------------------------------------
(* The gap ledger is exact.  The strengthening: the cursor is never behind *)
(* an ingested event, so a revealed gap cannot be one resolved before.     *)

CursorInv == \A e \in Events : Ingested(e) => SequenceOf[e] <= cursor[StreamOf[e]]

GapInv == CursorInv /\ GapLedgerExact

LEMMA MissingAfter ==
    ASSUME TypeOK, NEW e \in Events, IngestNew(e), NEW st, NEW n
    PROVE  Missing(st, n)' <=> Missing(st, n) /\ ~(StreamOf[e] = st /\ SequenceOf[e] = n)
<1>1. \A x \in Events : Ingested(x)' <=> Ingested(x) \/ x = e
  BY DEF IngestNew, Ingested, TypeOK, IngestTypeOK
<1> QED BY <1>1 DEF Missing

LEMMA IngestKeepsLedger ==
    ASSUME TypeOK, GapInv, NEW e \in Events, IngestNew(e)
    PROVE  GapInv'
<1> DEFINE se == StreamOf[e]
           ne == SequenceOf[e]
           gaps == openGaps \union (RevealedGap(e) \ resolvedGaps)
           filled == {g \in gaps : Filled(g, e)}
<1>1. /\ se \in Streams
      /\ ne \in Nat /\ ne > 0
      /\ cursor \in [Streams -> Nat]
      /\ openGaps \subseteq Gap /\ resolvedGaps \subseteq Gap
      /\ RevealedGap(e) \subseteq Gap
  BY RevealedGapType DEF TypeOK, IngestTypeOK
<1>2. /\ cursor' = [cursor EXCEPT ![se] = IF ne > cursor[se] THEN ne ELSE cursor[se]]
      /\ openGaps' = gaps \ filled
      /\ resolvedGaps' = resolvedGaps \union filled
  BY <1>1 DEF IngestNew
<1>3. \A st, n : Missing(st, n)' <=> Missing(st, n) /\ ~(se = st /\ ne = n)
  BY MissingAfter
<1>4. \A n \in Nat : n > cursor[se] => Missing(se, n)
  BY <1>1 DEF GapInv, CursorInv, Missing
<1>5. CursorInv'
  <2>1. \A x \in Events : Ingested(x)' => Ingested(x) \/ x = e
    BY DEF IngestNew, Ingested, TypeOK, IngestTypeOK
  <2> QED BY <1>1, <1>2, <2>1 DEF GapInv, CursorInv
<1>6. ASSUME NEW g \in RevealedGap(e)
      PROVE  g \notin resolvedGaps
  <2>1. ne > cursor[se] + 1 /\ g = [stream |-> se, from |-> cursor[se] + 1, to |-> ne - 1]
    BY <1>6 DEF RevealedGap
  <2>2. g.stream = se /\ g.from \in g.from..g.to /\ Missing(se, g.from)
    BY <1>1, <1>4, <2>1
  <2> QED BY <2>2 DEF GapInv, GapLedgerExact
<1>7. ASSUME NEW st \in Streams, NEW n \in 1..cursor'[st], Missing(st, n)'
      PROVE  \E g \in openGaps' : g.stream = st /\ n \in g.from..g.to
  <2>1. Missing(st, n) /\ ~(se = st /\ ne = n)
    BY <1>3, <1>7
  <2>2. PICK g \in gaps : g.stream = st /\ n \in g.from..g.to
    <3>1. CASE n <= cursor[st]
      <4>1. n \in 1..cursor[st]
        BY <1>1, <3>1
      <4> QED BY <2>1, <4>1 DEF GapInv, GapLedgerExact
    <3>2. CASE ~(n <= cursor[st])
      <4>1. st = se /\ ne > cursor[se] /\ n < ne /\ n > cursor[se] /\ ne > cursor[se] + 1
        BY <1>1, <1>2, <2>1, <3>2
      <4>2. [stream |-> se, from |-> cursor[se] + 1, to |-> ne - 1] \in RevealedGap(e)
        BY <4>1 DEF RevealedGap
      <4>3. n \in (cursor[se] + 1)..(ne - 1)
        BY <1>1, <4>1
      <4> QED BY <1>6, <4>1, <4>2, <4>3
    <3> QED BY <3>1, <3>2
  <2>3. ~Filled(g, e)
    BY <2>1, <2>2 DEF Filled
  <2> QED BY <1>2, <2>2, <2>3
<1>8. ASSUME NEW g \in openGaps'
      PROVE  \E n \in g.from..g.to : Missing(g.stream, n)'
  <2>1. g \in gaps /\ ~Filled(g, e)
    BY <1>2, <1>8
  <2>2. CASE g.stream = se
    <3>1. PICK n \in g.from..g.to : n # ne /\ Missing(g.stream, n)
      BY <2>1, <2>2 DEF Filled
    <3> QED BY <3>1, <1>3
  <2>3. CASE g.stream # se
    <3>1. g \in openGaps
      BY <2>1, <2>3 DEF RevealedGap
    <3>2. PICK n \in g.from..g.to : Missing(g.stream, n)
      BY <3>1 DEF GapInv, GapLedgerExact
    <3> QED BY <2>3, <3>2, <1>3
  <2> QED BY <2>2, <2>3
<1>9. ASSUME NEW g \in resolvedGaps', NEW n \in g.from..g.to
      PROVE  ~Missing(g.stream, n)'
  <2>1. CASE g \in resolvedGaps
    BY <2>1, <1>3 DEF GapInv, GapLedgerExact
  <2>2. CASE Filled(g, e)
    BY <2>2, <1>3 DEF Filled
  <2> QED BY <1>2, <1>9, <2>1, <2>2
<1>10. GapLedgerExact'
  BY <1>7, <1>8, <1>9 DEF GapLedgerExact
<1> QED BY <1>5, <1>10 DEF GapInv

\* Every missing sequence number lies in an open gap, and every open gap
\* still misses a number: resends, conflicts and late arrivals included.
THEOREM GapLedgerSafe == Spec => []GapLedgerExact
<1>1. Init => GapInv
  BY DEF Init, IngestInit, GapInv, CursorInv, GapLedgerExact, Ingested
<1>2. TypeOK /\ GapInv /\ [Next]_vars => GapInv'
  <2> SUFFICES ASSUME TypeOK, GapInv, [Next]_vars PROVE GapInv'
    OBVIOUS
  <2>1. ASSUME NEW e \in Events, IngestNew(e) PROVE GapInv'
    BY <2>1, IngestKeepsLedger
  <2>2. ASSUME UNCHANGED <<rowId, cursor, openGaps, resolvedGaps>> PROVE GapInv'
    BY <2>2 DEF GapInv, CursorInv, GapLedgerExact, Ingested, Missing
  <2>3. ASSUME NEW e \in Events, DeliverAccepted(e) \/ DeliverRefused(e) \/ ForeignPost(e)
        PROVE  GapInv'
    BY <2>1, <2>2, <2>3
    DEF DeliverAccepted, DeliverRefused, ForeignPost, IngestAccepted, IngestDuplicate,
        IngestRefused, RefuseMismatch, RefuseConflict, ingestVars
  <2>4. ASSUME NEW e \in Events,
               RecordEvent(e) \/ AnswerRefused(e) \/ PlainAck(e) \/ PlainFail(e) \/ TimePasses(e)
        PROVE  GapInv'
    BY <2>2, <2>4 DEF RecordEvent, AnswerRefused, PlainAck, PlainFail, TimePasses, ingestVars
  <2>5. ASSUME NEW p \in Pumps, PumpStep(p) \/ Crash(p) PROVE GapInv'
    BY <2>2, <2>5
    DEF PumpStep, Claim, Send, SettleAccepted, SettleRefused, SettleFailed, SendFails,
        ReleaseClaim, Crash, ingestVars
  <2>6. CASE Replay \/ UNCHANGED vars
    BY <2>2, <2>6 DEF Replay, vars, ingestVars
  <2> QED BY <2>3, <2>4, <2>5, <2>6 DEF Next
<1>3. GapInv => GapLedgerExact
  BY DEF GapInv
<1> QED BY <1>1, <1>2, <1>3, TypeCorrect, PTL DEF Spec
=============================================================================
