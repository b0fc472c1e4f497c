--------------------------- MODULE EventDelivery ----------------------------
(***************************************************************************)
(* Device events on their way from an edge gateway to the central MES: the *)
(* outbox (EdgeEventStore), the sending processes that drain it            *)
(* (edge_gateway/delivery.py), the transport, and central ingestion        *)
(* (DeviceEventIngest).                                                    *)
(*                                                                         *)
(* Each element of Pumps is an edge_gateway_service process over the same  *)
(* outbox; its worker_id holds the gateway id and the process id, which    *)
(* two containers of one gateway can share.  A message, once sent, stays   *)
(* in wire, acks or refusals: it can be lost (never received), late, and   *)
(* delivered again.  MQTT matches an answer with the waiting send by       *)
(* event_id only, so an answer to an earlier send can serve a later one;   *)
(* over HTTP the answers a send can get are a subset of these.             *)
(***************************************************************************)
EXTENDS EdgeEventStore, DeviceEventIngest

CONSTANTS Pumps,
          WorkerOf,     \* worker_id of each process
          NoEvent,      \* a pump that is not inside transport.send
          BatchSize,    \* limit of claim_pending
          EdgeEvents,   \* events this gateway's devices produce
          Transport     \* "http" or "mqtt"

ASSUME DeliveryAssumption ==
    /\ WorkerOf \in [Pumps -> WorkerIds]
    /\ NoEvent \notin Events
    /\ BatchSize \in Nat \ {0}
    /\ EdgeEvents \subseteq Events
    /\ Transport \in {"http", "mqtt"}

VARIABLES held,      \* the claims of the current batch still to be handled:
                     \* per pump and event the lease token, 0 for none
          sending,   \* the event the pump is inside transport.send with
          wire,      \* events sent to the central platform at least once
          acks,      \* events the central platform answered as accepted
          refusals,  \* events it answered as refused for good
          excused    \* history: events dead-lettered once, or recorded after
                     \* a later event of their stream

pumpVars == <<held, sending>>
netVars == <<wire, acks, refusals>>
vars == <<storeVars, ingestVars, pumpVars, netVars, excused>>

Idle(p) == \A e \in Events : held[p][e] = 0

TypeOK ==
    /\ StoreTypeOK
    /\ IngestTypeOK
    /\ held \in [Pumps -> [Events -> Tokens \union {0}]]
    /\ sending \in [Pumps -> Events \union {NoEvent}]
    /\ wire \subseteq Events
    /\ acks \subseteq Events
    /\ refusals \subseteq Events
    /\ excused \subseteq Events

Init ==
    /\ StoreInit
    /\ IngestInit
    /\ held = [p \in Pumps |-> [e \in Events |-> 0]]
    /\ sending = [p \in Pumps |-> NoEvent]
    /\ wire = {}
    /\ acks = {}
    /\ refusals = {}
    /\ excused = {}

(***************************************************************************)
(* The devices.                                                            *)
(***************************************************************************)
RecordEvent(e) ==
    /\ e \in EdgeEvents
    /\ AppendEvent(e)
    /\ excused' = excused \union {x \in {e} : \E o \in Events : Recorded(o) /\ Precedes(e, o)}
    /\ UNCHANGED <<ingestVars, pumpVars, netVars>>

(***************************************************************************)
(* DeliveryPump.run_once.                                                  *)
(***************************************************************************)
\* uuid4: a token nobody else knows.  A token that neither the row nor a
\* process remembers is as good as new.
FreshTokens(e) == {t \in Tokens : t # token[e] /\ \A p \in Pumps : held[p][e] # t}

NewTokens == [e \in Events |-> IF FreshTokens(e) = {} THEN 0
                               ELSE CHOOSE t \in FreshTokens(e) : TRUE]

\* The ORDER BY of the query is left open: which of the claimable rows make
\* up a full batch, and which is sent first, is any choice.
Claim(p) ==
    /\ Idle(p)
    /\ \E S \in SUBSET {e \in Events : Claimable(e)} :
          /\ S # {}
          /\ \/ S = {e \in Events : Claimable(e)} /\ Cardinality(S) <= BatchSize
             \/ Cardinality(S) = BatchSize
          /\ \A e \in S : FreshTokens(e) # {}
          /\ ClaimRows(WorkerOf[p], S, NewTokens)
          /\ held' = [held EXCEPT ![p] = [e \in Events |->
                                            IF e \in S THEN NewTokens[e] ELSE 0]]
    /\ UNCHANGED <<ingestVars, netVars, sending, excused>>

\* transport.send hands the event over and starts to wait for the answer.
Send(p, e) ==
    /\ sending[p] = NoEvent
    /\ held[p][e] # 0
    /\ sending' = [sending EXCEPT ![p] = e]
    /\ wire' = wire \union {e}
    /\ UNCHANGED <<storeVars, ingestVars, held, acks, refusals, excused>>

\* The loop goes on to the next claim of the batch.
DoneWith(p, e) ==
    /\ held' = [held EXCEPT ![p][e] = 0]
    /\ sending' = [sending EXCEPT ![p] = NoEvent]

\* Faulty: any definite answer of the central platform counts as accepted.
SettleAnswered(p, e) ==
    /\ sending[p] = e
    /\ e \in acks \union refusals
    /\ Ack(e, WorkerOf[p], held[p][e])
    /\ DoneWith(p, e)
    /\ UNCHANGED <<ingestVars, netVars, excused>>

\* An answer stays available, so all that happens between its arrival and
\* the row update can be taken to happen before the pump reads it.
SettleAccepted(p, e) ==
    /\ sending[p] = e
    /\ e \in acks
    /\ Ack(e, WorkerOf[p], held[p][e])
    /\ DoneWith(p, e)
    /\ UNCHANGED <<ingestVars, netVars, excused>>

ReleaseClaim(p, e, permanent) ==
    /\ Release(e, WorkerOf[p], held[p][e], permanent)
    /\ excused' = excused \union {x \in {e} : dead'[e]}
    /\ DoneWith(p, e)
    /\ UNCHANGED <<ingestVars, netVars>>

SettleRefused(p, e) ==
    /\ sending[p] = e
    /\ e \in refusals
    /\ ReleaseClaim(p, e, TRUE)

\* A retryable answer, a timeout, an exception of send, or one of ack.
SettleFailed(p, e) ==
    /\ sending[p] = e
    /\ ReleaseClaim(p, e, FALSE)

\* MQTT refuses to publish, or HTTP cannot connect: nothing left the edge.
SendFails(p, e) ==
    /\ sending[p] = NoEvent
    /\ held[p][e] # 0
    /\ ReleaseClaim(p, e, FALSE)

\* The process dies, or an exception of release ends it, and starts anew.
Crash(p) ==
    /\ ~Idle(p)
    /\ held' = [held EXCEPT ![p] = [e \in Events |-> 0]]
    /\ sending' = [sending EXCEPT ![p] = NoEvent]
    /\ UNCHANGED <<storeVars, ingestVars, netVars, excused>>

(***************************************************************************)
(* The central platform.  A message is handled as often as it arrives.     *)
(***************************************************************************)
DeliverAccepted(e) ==
    /\ e \in wire
    /\ IngestAccepted(e)
    /\ acks' = acks \union {e}
    /\ UNCHANGED <<storeVars, pumpVars, wire, refusals, excused>>

\* The MQTT consumer answers first and commits the quarantine row with
\* _reject afterwards, which can still fail.
DeliverRefused(e) ==
    /\ e \in wire
    /\ \E committed \in {FALSE, Transport = "mqtt"} : IngestRefused(e, committed)
    /\ refusals' = refusals \union {e}
    /\ UNCHANGED <<storeVars, pumpVars, wire, acks, excused>>

\* HTTP 401 (clock skew, replayed nonce, identity), or an MQTT consumer whose
\* positive answer could not be published after the event was ingested.
AnswerRefused(e) ==
    /\ e \in wire \ refusals
    /\ refusals' = refusals \union {e}
    /\ UNCHANGED <<storeVars, ingestVars, pumpVars, wire, acks, excused>>

\* An administrator, or another gateway, posts an event over HTTP.
ForeignPost(e) ==
    /\ e \in Events \ EdgeEvents
    /\ IngestAccepted(e) \/ IngestRefused(e, FALSE)
    /\ UNCHANGED <<storeVars, pumpVars, netVars, excused>>

(***************************************************************************)
(* The operator of the edge gateway, a sender that uses the lease-free     *)
(* calls, and time.                                                        *)
(***************************************************************************)
Replay ==
    /\ ReplayDeadLetters(Events)
    /\ UNCHANGED <<ingestVars, pumpVars, netVars, excused>>

PlainAck(e) ==
    /\ e \in acks
    /\ AckUnleased(e)
    /\ UNCHANGED <<ingestVars, pumpVars, netVars, excused>>

PlainFail(e) ==
    /\ e \in wire
    /\ FailUnleased(e)
    /\ UNCHANGED <<ingestVars, pumpVars, netVars, excused>>

TimePasses(e) ==
    /\ LeaseRunsOut(e) \/ BackoffElapses(e)
    /\ UNCHANGED <<ingestVars, pumpVars, netVars, excused>>

PumpStep(p) ==
    \/ Claim(p)
    \/ \E e \in Events :
          \/ Send(p, e)
          \/ SettleAccepted(p, e)
          \/ SettleRefused(p, e)
          \/ SettleFailed(p, e)
          \/ SendFails(p, e)

Next ==
    \/ \E e \in Events :
          \/ RecordEvent(e)
          \/ DeliverAccepted(e)
          \/ DeliverRefused(e)
          \/ AnswerRefused(e)
          \/ ForeignPost(e)
          \/ PlainAck(e)
          \/ PlainFail(e)
          \/ TimePasses(e)
    \/ \E p \in Pumps : PumpStep(p) \/ Crash(p)
    \/ Replay

Spec == Init /\ [][Next]_vars

\* A sending process keeps running its loop (main of edge_gateway_service.py),
\* every send returns (the transports have timeouts), and clocks advance.
\* Nothing is assumed of the network or of the central platform.
Fairness ==
    /\ \A p \in Pumps : WF_vars(PumpStep(p))
    /\ \A e \in Events : WF_vars(TimePasses(e))

LiveSpec == Spec /\ Fairness

-----------------------------------------------------------------------------
(* Properties. *)

\* An event is acknowledged at the edge only if the central platform stores
\* that very event, whatever was lost, repeated, late, or answered to an
\* earlier send (delivery.py run_once, event_store.py ack).
AckedIsIngested == \A e \in Events : status[e] = "acknowledged" => Ingested(e)

\* A pump whose claim was taken over can no longer touch the row: neither a
\* late answer nor a late failure of its send confirms, delays or
\* dead-letters the event for the pump that holds it now (the lease_token
\* test of event_store.py ack and release).
StaleClaimIsHarmless ==
    [][\A p \in Pumps, e \in Events :
          held[p][e] \notin {0, token[e]} /\ held'[p][e] = 0
          => UNCHANGED <<status[e], attempts[e], owner[e], token[e],
                         waiting[e], dead[e]>>]_vars

\* The central platform stores the events of one device in sequence order,
\* except around an event that was once a dead letter or was recorded late
\* (the NOT EXISTS clause of claim_pending).
InOrderIngest ==
    \A e, o \in EdgeEvents :
        Ingested(e) /\ Recorded(o) /\ Precedes(o, e) /\ o \notin excused
        => 0 < rowId[o] /\ rowId[o] < rowId[e]

\* The gap ledger tells exactly which sequence numbers are missing: every
\* missing number below the cursor lies in an open gap, every open gap misses
\* a number, and a resolved gap misses none (lines 150-197 of
\* device_event_ingest.py).
GapLedgerExact ==
    /\ \A s \in Streams : \A n \in 1..cursor[s] :
          Missing(s, n) => \E g \in openGaps : g.stream = s /\ n \in g.from..g.to
    /\ \A g \in openGaps : \E n \in g.from..g.to : Missing(g.stream, n)
    /\ \A g \in resolvedGaps : \A n \in g.from..g.to : ~Missing(g.stream, n)

\* Every refusal the central platform answers with "conflict, quarantined"
\* has left the refused event in the quarantine table (the message of
\* blueprints/device_platform.py lines 41 and 67).
ConflictsQuarantined == refused \subseteq quarantine

\* Once the process no longer crashes and nobody replays dead letters, every
\* recorded event is acknowledged or dead-lettered: no lease, backoff, blocked
\* stream or abandoned batch keeps it in the outbox for ever.  This is for a
\* single sending process.
CrashesEnd == <>[][\A p \in Pumps : held'[p] # held[p] => PumpStep(p)]_vars

ReplaysEnd == <>[][~Replay]_vars

EventuallySettled ==
    CrashesEnd /\ ReplaysEnd => \A e \in Events : Recorded(e) ~> Settled(e)

\* The whole pipeline does what ReliableDelivery promises.
Promise == INSTANCE ReliableDelivery WITH
    recorded <- {e \in EdgeEvents : Recorded(e)},
    delivered <- {e \in EdgeEvents : Ingested(e)},
    confirmed <- {e \in EdgeEvents : status[e] = "acknowledged"},
    parked <- {e \in EdgeEvents : status[e] = "pending" /\ dead[e]}

ImplementsReliableDelivery == Promise!PromiseSpec
=============================================================================
