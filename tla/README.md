# TLA+ models of the MES

This directory holds TLA+ modules that model the MES ("MES工厂管家", Flask over SQLite or
PostgreSQL) from its machines to its books, TLC configurations that check them on small instances,
and theorems about them with TLAPS proofs. The models follow the Python code; docs and comments are
used only as claims to be checked against it.

## 1. The system and its parts

Paths are below `src/backend/`.

| Part | Code | State | Operations | What makes it right |
|---|---|---|---|---|
| Edge event outbox | `edge_gateway/event_store.py` | table `edge_event_outbox` (SQLite file of the gateway) | append, claim_pending, ack, fail, release, replay_dead_letters | one live claim per row, order within a device, nothing acknowledged that the centre does not hold |
| Edge delivery service | `edge_gateway/delivery.py`, `edge_gateway_service.py` | the batch in memory of each process | run_once, restart, `--replay-dead-letters` | crashes, slow batches and double starts lose and reorder nothing |
| Transports | `edge_gateway/http_transport.py`, `mqtt_transport.py` | MQTT: waiting sends by event_id | send | a timeout is never a confirmation |
| MQTT consumer | `services/mqtt_event_consumer.py`, `mqtt_event_consumer_service.py` | table of rejected messages | on_message | answers tell what was stored |
| Central ingestion | `services/device_event_ingest.py` | events, cursors, gaps, conflicts | ingest_device_event | idempotent, conflicts kept, gap ledger exact |
| Event processing | `services/device_event_processor.py`, `machine_runtime.py` | processing columns of the events, effect rows, reports | process_pending_events, apply_standard_event | each effect once, within the plan, none skipped |
| Device commands | `services/device_commands.py` | `iot_device_command` | enqueue, claim, acknowledge | one outcome per command, audited, always an end |
| Platform API, gateway auth | `blueprints/device_platform.py`, `services/gateway_auth.py` | credentials, nonces | the HTTP routes around the above | |
| Machine access | `services/machine_access.py`, `machine_protocol.py`, `blueprints/machine_iot.py` | requests with their decisions, inspection reports by file hash | evaluate_access, import, record failure, retry | one unreported admission per machine and serial number; no serial admitted past its quality hold |
| Quality disposition | `services/quality_disposition.py`, `blueprints/site.py` | quality status of serials, disposition cases, rework tasks | open, approve, reject, start, post a rework result, backfill at start | one open case per serial and step, each piece credited once, no defect without its case |
| Machine gateway | `machine_gateway_manager.py`, `machine_socket_server.py`, `machine_reader_client.py` | processes, connections, listener status and session rows | sync, spawn, restart with a delay, end, stop, accept, connect, close | what the tables say of listeners and sessions is so; connections stay within the slots |
| CSV collector | `machine_csv_collector.py` | files in three directories, what was observed, reports | observe, take, import, isolate, recover | a file is deleted or left among the failed ones only with its report, and what is neither is known |
| AIM bridge | `services/aim_event_bridge.py` | AIM outbox, sequence per device | enqueue, claim, dispatch | one report per number, dispatched means received |
| Procurement and receiving | `services/procurement_flow.py`, `receiving_service.py` | purchase orders, items, notices, postings, stock by place | draft, submit, decide, cancel, arrive, post, close | no more stored than arrived, nor posted than ordered; the order's status tells which |
| Planning | `services/production_flow.py` (first part), `blueprints/production.py` | sales items, plans, batches, work orders | create, edit, transition | no level plans more than the one above it holds |
| Approval of work orders | `blueprints/flow.py` | definitions, instances with their steps, tasks | submit, approve, reject, release, delete | steps in their order by their assignees; only a draft is released |
| Execution of a work order | `services/production_flow.py`, `blueprints/production.py` | tasks, reports, transfers, totals | file, judge, post, delete, transfer, recalculate | the books are the sums of what was posted |
| Stock documents and material | `blueprints/inventory.py`, `services/production_flow.py` | documents, balances, ledger, needs | save, post, delete, request, issue, receive, return | the ledger explains the balance, which is never negative |
| Stations | `blueprints/process_ctrl.py` | station configuration, locks, flow rows, records | pass, skip, rework, return, exit; records of machine reports and concessions | a flow row shows where a request last moved the unit |
| Tools | `blueprints/tool.py` | tools, borrow records | save, lend, return, delete | no more lent than there is |
| Equipment | `blueprints/equipment.py` | ledger, repair orders, maintenance plans | report, start, complete, delete | under repair exactly while an order is open |
| Shop floor | `blueprints/site.py` | workstations, andon calls, rework forms | add, delete, call, respond, resolve, file, complete | one open call of a kind; forms within the plan |
| Manual record order | `utils/table_order.py`, `blueprints/table_order.py` | `sys_table_order` | move, step | positions 1, 2, ... without a tie |
| Database access, plan control | `utils/database.py`, `utils/postgres_compat.py`, `services/plan_control_service.py` | connections and their transactions | open, begin, savepoint, commit, close | what was answered is stored, what failed left nothing |
| Rate limiter | `utils/rate_limiter.py` | hits by client | check | no more requests in a window than its limit |
| The rest | `app.py`, `blueprints/` of base data, users, search and reports, `admin/`, `frontend/`, `desktop/` | single rows | | |

How the device platform interacts: devices append to the **outbox**; **delivery processes** claim
rows and send them over HTTP or MQTT; the **MQTT consumer** or the **gateway route** passes each
arrival to **central ingestion**, which commits the event and its gap bookkeeping in one
transaction and answers; the answer travels back and settles the row. The stored events are at the
same time the queue of the **event processor**, whose workers (the dispatch thread of the machine
runtime and the process route) turn quality events into production reports posted to tasks. In the
other direction gateways claim **commands** over HTTP and answer them; each answer is audited with
an event that goes through central ingestion.

How machine inspection interacts: the **gateway manager** keeps a process for every enabled
endpoint; its connections are the handlers through which an AIM machine asks whether it may process
a **serial number** (SN) and gets L1 or L3; **importers** (the **CSV collector**, the upload and the
retry route) bring in the report the machine writes, which makes a production report, a station
record and, if NG, a **quality case** that holds the SN, and hand it to the **AIM bridge** in a
second transaction. A reviewer decides rework, scrap or concession, the last with a station record
of its own; a rework task admits the SN again, and its report, once **posted**, ends the case or opens the next one.

How the production chain interacts: what is sold is **planned**, split into batches and given out
as **work orders**; an approval or a clerk **releases** them, which freezes route and BOM; their
tasks are **executed** by reports that must be approved before they are posted; their material comes
from the **stock**, which documents fill. **Procurement** has places of stock and a status log of
its own. The modules of the chain share no variable: what one needs of another (the planned quantity,
the frozen route, the BOM lines) no longer changes when it is used, and is a constant there.

All of them share the tables of one database, and few hold a lock across what they read and what
they later write. Each module's header says which operations are one transaction and which judge
first and write later.

Hard to test here: two processes with the same `worker_id` (gateway id and process id, which two
containers can share), claims that outlive their lease, answers that are lost, late or repeated,
crashes between two commits, statuses read before an update, the same request sent twice, and
retries that must not block or reorder other work. `PROJECT.json` lists every such hazard at its
line with the property that would catch it.

## 2. The modules and the code they stand for

The device platform and machine inspection:

| Module | Models | Abstracts |
|---|---|---|
| `DeviceEvents` | the device event envelope: an element of `Events` is one immutable envelope with its `EventId`, stream (factory, device, lifecycle) and sequence | all other fields, validation |
| `EdgeEventStore` | every method of the outbox that writes, one action or operator each | wall clock, `last_error` |
| `DeviceEventIngest` | `ingest_device_event` in its four outcomes: new, duplicate, same id with other content, taken sequence number | payload text; the legacy and the `_v2` tables are one, keyed by stream |
| `EventDelivery` | the pipeline: outbox, delivery processes, network, ingestion, operator, foreign senders | message contents |
| `ReliableDelivery` | abstract: what the pipeline promises | |
| `EventProcessor` | the workers of `process_pending_events` with `apply_standard_event`, one action per commit | payload; device state, alarm and measurement rows are part of the effect row committed with them |
| `OnceOnlyEffects` | abstract: reports posted once, within the plan, before their event is closed | |
| `CommandQueue` | enqueue, claim with requeue and expiry, acknowledgement with its audit event, over `DeviceEventIngest` | command contents |
| `CommandLog` | abstract: hand-outs, one answer per command, a gapless log per device | |
| `MachineInspection` | admission, import and retry, disposition, the rework parts of reporting, status transitions and posting, the backfill at start | frames and nonces, reject reasons, templates, archive files |
| `QualityCases` | abstract: what disposition promises | |
| `MachineGateway` | the manager's sync in its phases (`monitor`, `todo`, `seen`), its processes, their listeners or readers, sessions and slots; the end of a process and the rows written for it as two steps (`ending`), the second of which may fail; a stop beside a sync; deaths of either side | frames, the barcode dialogue, times |
| `CsvCollector` | one scan step by step (`current.stage`), recovery, failed moves and deletions, moves that fail half-way and leave a copy, death after any step | file contents but for who shares them |
| `AimEventBridge` | import, enqueue or its failure, claim, sink and settlement, of overlapping importers and event loop | event contents |
| `EventFeed` | abstract: what the bridge promises of the events of one device | |

The production chain:

| Module | Models | Abstracts |
|---|---|---|
| `Tables` | ids given out once (`NoRow`, then a row, then `Deleted`), the mark of an idle request (`NoCall`) | |
| `Purchasing` | every operation of the two services, one action each | prices, suppliers, texts |
| `ProductionPlanning` | plans checked in their transaction; batches, work orders and status changes as judgement and write (`planner`) | customers, dates, priorities |
| `WorkOrderApproval` | definitions, submission, decisions; release, status change and deletion of a work order as judgement and write (`filed`) | comments, the contents of the frozen route and BOM |
| `TaskReports` | filing with its operation id, status changes as judgement and write (`call`), posting, deletion, transfer, recalculation | times, workers, costs |
| `StockLedger` | documents and the material of work orders over one balance and one ledger | amounts and average cost |

What runs beside it:

| Module | Models | Abstracts |
|---|---|---|
| `StationControl` | a request of a unit at a station from its judgement to its record (`request.stage`), the records of machine reports and concessions (`WriteBeside`), configuration, materials, locks | parameters, operators |
| `ToolLending` | lending and returning as transactions, changes and deletions as judgement and write (`deskCall`) | calibration dates |
| `EquipmentCare` | reporting and starting as one step, completion and deletion as judgement and write (`repairCall`), maintenance | dates, causes, costs |
| `AndonCalls` | workstations, calls, rework and scrap forms; deletion of a workstation as judgement and write (`removal`) | texts, times |
| `RecordOrder` | move and step of one list: read the order, write it back whole | the list's contents |
| `DatabaseSessions` | a request over the connections of either dialect: permission check, transaction or savepoint, commit, close, for `adjust_plan_control` | SQL rewriting |
| `AtomicUpdates` | abstract: what a service's transaction promises to its callers | |
| `RateLimiter` | clock, lock, cleaning of the shared storage (of each client, how many hits are of which time), the check | headers, route matching |

The proofs: `EventDeliveryProofs`, `EventProcessorProofs`, `CommandQueueProofs` and
`MachineInspectionProofs` hold the theorems about the module they are named for; `ProductionProofs`
those about `WorkOrderApproval`, `TaskReports`, `ProductionPlanning`, `StockLedger` and
`Purchasing`; `WorkshopProofs` those about `EquipmentCare`, `ToolLending`, `AndonCalls`,
`StationControl`, `DatabaseSessions`, `RateLimiter` and `RecordOrder`; `MachineLinkProofs` those
about `CsvCollector`, `AimEventBridge` and `MachineGateway`. `ProductionProofs` and `WorkshopProofs`
also hold the theorems about the instances `MCProduction` and `MCPlant`, which compose these modules.
`Sums` has the lemmas about sums over finite sets that the proofs about quantities share. `MC*` are
the instances for TLC; it is their `.cfg` that gives the constants values, so a proof that extends
one of them is still about any values.

**Granularity.** A write transaction is one action: every method of the outbox, the ingestion of an
event, a claim or an acknowledgement of commands, every operation of procurement. Where the code
reads and judges before its transaction - `transition_status` does so, and so do most deletions and
edits of the blueprints - there is an action that judges and leaves what was read in a variable of
the request (the mechanic, clerk, planner, storekeeper, handler), and an action that writes; any
other step can come in between. The event processor commits after nearly every statement, so a
worker is a small program with a program counter (`pc`); the collector, the bridge and the gateway
manager can die after each of their steps.

Where a step can fail for itself, its failure is an action beside it. The gateway manager ends a
process and then writes what is so (`Terminate`, `UpdateRuntime`): an error of the database there is
ignored (`FailToUpdate`), one while it is opened ends the sync (`FailSync`), and a manager that dies
in between leaves the rows as they are (`EndRuntime`). `stop` waits for the monitor only so long, so
`StopProcess` and a sync can end processes side by side. `start` runs its first sync itself; that is
the first `BeginSync` here, and an error in it leaves the service without a monitor, as if no sync
were taken any more. A stop that an error ends early is one that ends no further process. The
collector's moves fail before they have moved the file (`FailToIsolate`, `FailToReturn`) or, across
volumes, after they have copied it (the `Half...` actions, where the copy left behind takes an unused
file id); a temporary copy that is never renamed is not a CSV file and nothing reads it.

The bridge's second transaction catches every exception and rolls nothing back
(`machine_access.py:532`). `FailToEnqueue` is what remains of it when the caller has gone on: the
collector's next commit (`machine_csv_collector.py:199`) stores the number that was counted, while
the routes, or a rollback of the collector, drop it. Until then the write lock is held, so no other
step of the bridge sees the difference.

A machine's report and a concession write station records too, each within a transaction of
`MachineInspection`; `StationControl` has only what they do to its tables. They give a unit its first
flow row and otherwise move none, so the pass of a machine does not show in `current_station`:
`MovesOf` counts the records of requests (`by`), told apart in the tables by `machine_request_id`.
`quality_disposition.py:504` only fills in the case of a record.

A case of `MachineInspection` is named by the NG report that opened it, a rework task by its case.

**Rows.** The tables are AUTOINCREMENT, so an id is never given out twice: a table is a function
from the ids it can give out to rows, `NoRow` or `Deleted`. The assumptions about rows
(`...RowAssumption`, `ToolAssumption`, `FloorAssumption`) say that a row is neither of the two marks.
A `SELECT SUM` over rows is the library's `SumFunction` over the ids of those rows.

**History.** Variables called history in their comment (`rewritten`, `overlapped`, `overwritten`,
`overlent`, `overtaken`, `stranded`, `lost`, `skipped`, `astray`, `overrun`, `stale`, `late`) record that a
particular race, which the code does not exclude, has happened to a row. The property then says
that nothing else can break what it states: the exception is as narrow as the race.

**Time.** Leases, backoffs and deadlines are compared with the clock in the code. In the models
`leased`, `waiting`, `overdue` and `delayed` say whether the instant lies ahead, and separate
actions let it pass at any moment. No relation between the length of a lease and the speed of a
worker is assumed, since the configuration allows any. Only `RateLimiter` has a clock.

**Tokens.** Every claim draws a `uuid4`. In `EdgeEventStore` tokens are numbers up to `MaxToken`;
a token that neither the row nor a process remembers may be drawn again, which is as good as a new
one, and `MaxToken` exceeds the number of processes. In `CommandQueue` the token of the n-th
hand-out is n. In `EventProcessor` and `AimEventBridge` the worker stands for its token, for it has
at most one claim.

**Network.** `wire`, `acks` and `refusals` are sets that only grow: whatever was sent can be
delivered and answered at any later time, any number of times, or never. The MQTT transport
matches answers by event_id alone, so an answer can serve a later send; over HTTP fewer behaviours
are possible. A refusal can also come from authentication, or from the consumer after it has
stored the event (`AnswerRefused`).

**Faulty definitions.** Some operators, called `Faulty...` or with a comment that begins with
"Faulty:", are not part of any specification. Each is a plausible error in the code;
`PROJECT.json` names, for every property, the one that violates it.

## 3. The runs

| Run | Instance | Shows |
|---|---|---|
| `delivery_two_pumps` | two processes with one worker_id, two events of one device, batches of 2, 3 tokens, 2 attempts, MQTT | `InOrderIngest`, `StaleClaimIsHarmless`, `ImplementsReliableDelivery` |
| `delivery_conflicts` | one process; a foreign event with the event_id of one and the sequence number of the other | `AckedIsIngested`, `GapLedgerExact`, `EventuallySettled` under `LiveSpec` |
| `quarantine_http` | HTTP, the conflict instance; violated | `ConflictsQuarantined` |
| `processor_two_workers` | two workers, two quality events that do not both fit into their task | `EffectMeansReport`, `StaleWorkerIsHarmless`, `ImplementsOnceOnlyEffects` |
| `processor_liveness` | one worker, a quality event, a malformed one, an AIM report | `EventuallyProcessed` under `LiveSpec` |
| `commands` | a command, its retry under another id, one of another device; processes sharing a worker_id, two hand-outs each | `AuditStreamsComplete`, `ImplementsCommandLog`, `EventuallyEnded` under `LiveSpec` |
| `machine_inspection` | one SN at one step; two requests, two NG files, an OK file, an operator's own report; two handlers, two importers, a reviewer | `TypeOK`, `OneOpenCase`, `CreditedOnce`, `NoDefectForgotten`, `OnePendingPerUnit`, `ImplementsQualityCases` |
| `production` | the five modules of the production chain, each in parts of its own | `ProductionTypes`, `ReceiptsAddUp`, `StatusTellsReceipts`, `StatusChangesAreLogged`, `StepsDecidedInOrder`, `ApprovalReleasesDraft`, `PlannedWithinOrdered`, `LedgerExplainsStock`, `BooksAgree` |
| `plant` | the ten modules beside it, each in parts of its own | `StationTrail`, `LentWithinStock`, `UnderRepairWhileOpen`, `RuntimeTellsTruth`, `NoFileForgotten`, `BridgeLosesNothing`, `ImplementsEventFeed`, `DurableOnSqlite`, `AtomicOnSqlite`, `LimitsHold`, `CallsStandAlone`, `PositionsRun` |
| `postgres_commit` | the instance of `plant`; violated | `AnsweredIsDurable` |
| `station_config` | the instance of `plant`; violated | `ConfiguredStationsCheck` |
| `aim_event_lost` | the instance of `plant`; violated | `ImportsMakeEvents` |

`MCProduction` and `MCPlant` extend modules that share no variable. A behaviour takes part in one of
them (the variable `part`) and leaves the others in their initial state; interleaving them would
multiply the states and let no property fail that cannot fail in one of them. That a behaviour of the
instance is one of each module is proved (`ChainIsItsParts`, `PlantIsItsParts`).

The parts of `production`: `purchasing` (one order, two items, three lines, two people, one client
operation), `plans`, `batches` and `workorders` (planning at one level each, with at most one row on
the levels above, two rows on the level itself, two planners and the statuses 1, 4 and 6), `approval`
(two approvals over a definition whose two approvers can be swapped, one clerk), `reports` (two
route steps, a plan of two, three reports, one clerk with stale status changes), `retries` (the same
with an operation id, status changes and deletions of tasks, and two reports) and `stock` (three
documents, one material, one line of a BOM).

The parts of `plant`: `passes` (two requests for one unit at two stations, its machines'
reports and concessions), `locks` (one request and one record while stations, materials and locks change), `tools`, `equipment` (two pieces, two
orders, two mechanics), `gateway` (one endpoint that changes between listener and reader, two
processes, one session, one slot, one counted failure), `collector` (three files, two of one
content, one oversized), `bridge` (two reports, two carriers), `sessions` (two requests and both
dialects), `limiter` (two clients, two threads, a route with a short window and one with a long
one), `andon`, `forms` and `order` (three records, two movers, one deletion). In `gateway` a
manager leaves processes behind once, with settings it may not have read yet, and the settings stay
from then on; in `order` one of the movers steps only to an end of the list, since two steps meet
the same way a step and a move do.

**Why the bounds suffice.** Two processes with one name are what a takeover needs: one holds the
stale claim, one the live one; a third token lets the row be claimed a third time while both old
tokens are remembered. Two events of a device are what order needs; a gap opens when the second
arrives while the first lies dead, and closes when that one is replayed (gaps of several numbers are
left to `GapLedgerSafe`). Two attempts reach the dead letter by retries as well as at once. The
processor's two events compete for one task. Two hand-outs of a command give a stale and a present
claim. In `machine_inspection` two handlers with two requests race for one admission, two importers for one
request; two NG files give a case and the next cycle or a competing case; an OK file and an
operator's report race for the credit of one rework. All rules of disposition are per SN and step, so
a second SN would add interleavings and no interaction.

In the newer modules a race takes two requests, of which one is stale, and a sum takes two addends
that exceed the bound together: two plans of one sold piece, two loans of two tools, two receipts of
one item, a document that lists a material twice. Two orders of one piece of equipment are needed to
see it back in order too early; three files to have two of one content and one that is never read;
two documents and a work order to take the same stock. The status numbers in `Targets` are one that
every level may leave, and the two that end or cancel.

Three bounds cut behaviours short: `MaxFailures` is 1, standing for the 1024 after which the next
failure makes the restart delay overflow; at PostgreSQL, where nothing is ever kept, `promised` stays
within `MaxPlanQty`; and one clerk acts in `approval`, `reports` and `retries`, so that the stale
write of one request meets the transactions of the others but not another stale write.

Deadlock checking is off in every run: an outbox whose events are all settled, or tables whose ids
are all given out, have nothing left to do but wait for devices or people, and the instances bound
those.

**Symmetry** is used for delivery processes, workers, gateway processes, and the threads, requests
and files of `machine_inspection` that differ in their names only, and only in runs without liveness
properties.

### Fairness

- `EventDelivery`: weak fairness of each process's `PumpStep` (the loop in `main` of
  `edge_gateway_service.py` runs until it is stopped and both transports give up after a timeout)
  and of time. Nothing is assumed of the network or the centre: a send can always end as failed.
  `EventuallySettled` further assumes that crashes and operator replays end.
- `EventProcessor`: weak fairness of each worker (the dispatch loop) and of time;
  `EventuallyProcessed` assumes that crashes and handler errors end. It excepts events that can
  never succeed and, since failed rows are retried without limit and oldest first, the case that
  as many of those as a run takes up come first.
- `CommandQueue`: some process of the gateway keeps asking for the commands of all its devices,
  and clocks advance. No answer is assumed.

`EventuallySettled` and `EventuallyProcessed` are for one process. With two whose batches take
longer than the lease, both can claim each other's rows for ever, and a release after a takeover
counts no attempt. The code offers no means against that but the configuration of the lease.

The other modules state no fairness: what happens next there is a person's or a machine's choice.
The collector and the bridge retry on every scan, but nothing bounds how often a move or a sink fails.

## 4. Where the code and its claims part

Shown by violated runs:

- `quarantine_http`: for a new event in a taken sequence slot, `device_event_ingest.py` commits
  (line 137) and inserts the quarantine row afterwards (line 138). The MQTT consumer's next commit
  saves the row; the HTTP handlers commit nothing after the call, so the row is dropped with the
  connection, although the answer says the event was quarantined.
- `postgres_commit`: on PostgreSQL all requests share one psycopg2 connection with autocommit off
  (`postgres_compat.py:86`). The permission check of a request has already opened a transaction
  when the service's `_atomic` asks for one; it takes the savepoint branch, which releases the
  savepoint and commits nothing, and `close_db` closes the connection. What was answered as done is
  rolled back. On SQLite a SELECT opens no transaction, and `DurableOnSqlite` holds.
- `station_config`: `pass_station` reads `max_pass_count` from the row of
  `base_station_config` (`process_ctrl.py:57`). No schema of the repository has that column, so a
  pass at a station with an active configuration raises before it has checked anything.
- `aim_event_lost`: an import commits the report (`machine_access.py:502`) and queues its AIM event
  in a second transaction. If that one fails, the log says that the event "is pending retry"
  (line 533), but no outbox row exists, and importing the file again only dispatches what is queued.
  `BridgeLosesNothing` holds for all other reports (`lost` in `AimEventBridge`).
  The comment at line 515 wants sequence number and outbox row committed together, so that no
  permanent gap appears. A crash leaves none; an exception over the event (its validation, the
  INSERT) does, when the collector commits next: the number is then used up without an event
  (`skipped`, a void place of `EventFeed`).

Seen while modelling, and allowed for in the properties:

- `pending_events` of the health route counts the status `pending` only
  (`device_platform.py:123`): an event that failed and waits for its retry is not counted.
- A request for an SN whose machine has an unreported L1 is answered from that row and leaves none
  of its own (`machine_access.py:231`). Sent again after the report has arrived, the same request
  number is judged anew.
- The PASS record of a concession has the action `让步接收`, while `evaluate_access` counts only
  `过站`: the unit that was accepted is admitted to the same step again.
- A collector that dies between isolating a file and reporting it leaves the file among the failed
  ones, and so does one that can neither report it nor move it back
  (`machine_csv_collector.py:95`); it goes on, and nothing looks at the file again (`stranded` in
  `CsvCollector`).
- An endpoint whose process was ended while its rows could not be written, or whose manager died
  before it wrote them, stays 'listening' with sessions online and no process, until it is spawned
  again (`stale`, and `astray` for the sessions; the next start closes all sessions). A stop that
  outlasts its wait for the monitor can pop a process the sync looks up next: a KeyError the monitor
  does not catch (`MissProcess`).
- A unit a machine passes keeps the station of its flow row (`machine_access.py:468`): only the
  requests of `process_ctrl.py` move it.
- Work orders of one batch saved at the same time can together exceed it (`overlapped`), a stale
  status change can bring back what was cancelled (`rewritten`) or unpost a report in the books
  (`overwritten`), a tool can be lent while its quantity is lowered (`overlent`), and a workstation
  deleted while it is called from (`overtaken`).
- Requests for routes with short windows make the rate limiter forget hits that a route with a
  longer window would still count; `LimitsHold` is about windows every route remembers.
- The restart delay is `interval * 2 ** (failures - 1)`, capped only afterwards
  (`machine_gateway_manager.py:147`). The 1025th failure in a row overflows the float; the
  supervision thread catches `OSError` and `sqlite3.Error` only, so it ends (`OverflowDelay`,
  `monitor = "dead"`) and no endpoint is restarted any more.

## 5. What is proved

The proofs hold for every finite or infinite set of events, streams, processes, rows, requests and
people, every batch size and limit, under the `ASSUME`s the modules name: types of the constants;
that null values are not proper values and rows not the marks of missing ones; where rows or
requests are summed or counted, that there are finitely many of them (as many as one likes; a sum
over infinitely many is no number); and in `ProductionPlanning` that the ids of two tables differ,
since there an id stands for its table too.

`EventDeliveryProofs`:

- `TypeCorrect`: `TypeOK` is inductive.
- `AckedSafe`: the inductive step is that an accepted answer exists only for a stored event
  (`acks` below `Ingested`), and rows are acknowledged only on such an answer.
- `StaleClaimSafe`: a step that takes a claim out of a process's batch is a settlement or a crash;
  with a token that is not the row's, `HoldsLease` is false and the row stays as it is.
- `InOrderSafe` and `DeliveryRefines`: order is not inductive alone. The strengthening says that an
  event that was sent or is being handled has no earlier unsettled event of its stream that is not
  excused: the claim saw none, and none can become live again, since acknowledgement is final,
  replay concerns excused events only, and an event recorded late is excused. Row ids grow with
  arrival, which gives the order.
- `GapLedgerSafe`: every number at or below the cursor is stored or in an open gap, open gaps miss
  a number, resolved ones miss none. A stored number is never missing again, so resolved gaps stay
  full; only the number that arrives can fill an open one.

`EventProcessorProofs`:

- `TypeCorrect` takes one fact beyond types: a report is posted only for a task the plan gives the
  event, so that the task's counter exists.
- `EffectsComplete` and `EffectsRefine` (the processor implements `OnceOnlyEffects`): the
  invariant is in two halves. `RowsInv` is about the tables: a row with a claimant is in
  processing, an event has one report at most, and exactly one if its effect row exists or it is
  marked processed. `WorkersInv` is about what a worker knows at each step: a worker past the
  duplicate check works on an event that was ingested, and a worker about to write the effect row
  has either posted the report or found it. A report is posted in the transaction that looks for
  it, which is why two workers on one event cannot both post.
- `StaleWorkerSafe`: a worker whose row was taken over by the recovery of stale rows leaves the
  row's state as it is; only a holder of the row ends its claim.

`MachineInspectionProofs`:

- `Invariant`: `IInv` is inductive. Besides the types and the properties themselves it says what the
  sessions and tables know of each other. `ImportInv`: an imported report names the request and task
  its production report has, a file in `retrying` belongs to one importer or to none, and the
  request an importer carries is of its file's machine, SN and step. `CaseInv`: a task is used only
  in the unit of the case it was made for (`TasksFit`); an open or decided case has an imported
  report and the decision that fits its status (`CasesConsistent`); a defect found in rework has no
  case of its own while that rework is open (`CycleInTurn`). The last is what makes
  `NoDefectForgotten` inductive: the next case can be ignored only for its own name, which
  `CycleInTurn` excludes, or because another case of the unit is open, and `OneOpenCase` says that
  the one just closed was the only one.
- `CreditedOnceHolds`: posting asks for a case that is `task_started` and closes it, and no stale
  approval or task transition reopens a case, whatever report or task status it overwrites.
- `OnePendingPerUnitHolds`: the judgement may be stale, but `Persist` looks again through the
  unique index.
- `Refinement`: every step of the disposition, import, posting and restart maps to a step of
  `QualityCases` or to a stutter; `PostDefect` maps to `Recur`, for which `NoDefectForgotten`'s
  argument is needed again: the next case is there.

**Sums.** Most books of the system are kept twice: a counter that each request moves, and a `SUM`
over rows that checks it or recomputes it. That the two agree is an invariant over sums, and the
library defines a sum by recursion over the set it ranges over. `Sums` proves what is needed of it
once. Induction over the subsets of a finite set is there as its least counterexample
(`LeastSubset`, `SubsetInduction`; the library proves the subset order well-founded), which needs no
theorem about operators. A function that adds up the elements one by one exists for every subset
(`AdditionExists`), any two agree (`OneAddition`), and so the sum of a set is that of the set
without an element plus its value (`SumRemove`, `SumInsert`). The proofs then use `SumChange` (one
row written changes the sum by that row's change), `SumRestrict` (a `WHERE` is a sum over all rows
in which the others count 0), `SumAtMost`, `SumZero` and `SumNotNegative`. The common pattern is: a
sum with a `WHERE` that reads the state is shown to be a sum over the whole table
(`OutstandingAdds`, `ClaimedAdds`, `TotalsAdd`, `StockAdds`); a step that writes one row then
changes it by what that row gains; and the counter is written in the same transaction by the same
amount. What is interesting in each component is where the row written is not the row that was
checked.

`ProductionProofs`:

- Approval: `ApprovalTypeOK` and `StepsDecidedInOrder` are inductive together. The fact all
  decisions rest on is `PendingIsCurrent`: a task that waits is the one of the current step, because
  the tasks before it are approved and there is none behind. `ApprovalReleases` then follows: the
  last approval is the step that finds the order a draft and releases it.
- Reports: `BooksAlwaysAgree` says that the counters of the tasks and of the work order are the
  sums of the posted reports until a stale status change overwrites one. `TasksBooked` restates
  that with sums over the whole table; it needs that a posted report always has its task
  (`ReportsHaveTasks`, which is why a task with reports cannot be deleted) and what a clerk in the
  middle of a request may still write (`CallsFit`: a report only from draft, never to posted).
- Plans: `PlansWithinOrders` is about three levels, each checked against the one above by summing
  what is already taken from it. Plans and batches are summed in the transaction that saves them
  (`PlansFit`, `BatchesFit`); a work order is saved on a sum made before. `PlannersRemember` says
  that this sum had room for it, so that the batch is exceeded only if more was taken since, which is
  `overlapped` (`WorkOrdersFit`). Rows count as long as no stale status change has rewritten them:
  sums over those only shrink by what is cancelled (`QuantityShrinks`), since rows keep their
  quantity and source (`RowsStay`) and sources stay under what refers to them (`SourcesExist`).
- Stock: `StockIsExplained` needs each entry of the ledger to carry the balance that the entries
  before it leave, and the balances to be those after the last (`RightBooks`). A document of any
  length is booked line by line; that this keeps right books and moves each balance by what all
  lines together list of it is an induction over the lines (`BookedIsRight`, by `CountUp`). That an
  outbound document leaves no balance negative is decided from that total, not line by line, which
  is what the code's merging of equal products is for. For work orders, a line never has more than
  it requires (`NeedsFit`).
- Purchasing: `StatusTells` is not inductive alone. That an approved order is not complete at once
  needs that it has items (`HasItems`), that they order something (`OrdersSomething`), and that
  goods come on lines only (`GoodsComeOnLines`), whose order can no longer be edited or cancelled
  (`ArrivalsKeepTheirOrder`). `StatusLogged` needs `LogIsCurrent`: the latest entry of the log is
  the order's status, whichever of the two services wrote it. `ReceiptsAlwaysAddUp` relates four
  books: items, lines, postings and stock. It needs that each line balances what it normally takes,
  accepts and returns (`LinesBalance`), that a posting belongs to a line that exists
  (`PostingsHaveLines`), and that an operation posts once (`OperationsPostOnce`); what an arrival
  splits into ordered and excess is decided from the item's counter, which `ItemsAddUp` says is the
  sum over its lines.

`WorkshopProofs`:

- Equipment: the judgement a mechanic acts on may be stale, and `CallsRemember` says how stale: the
  order was given out, its equipment is the one remembered, and an order judged for completion has
  been started, so it is open, completed or deleted but never reported anew. What `CompleteRepair`
  and `DeleteRepair` have in common is one lemma, `EndRepair`.
- Tools: `ToolsLentWithinStock` rests on `DeskRemembers`: what a storekeeper saw outstanding fits
  into the quantity he is about to write, so only what was lent between the two can exceed it,
  and that is `overlent`.
- Floor: one open call of a type (`OneOpenCall`), calls with a workstation or one deleted after a
  judgement made before them (`CallsHaveStations`), and claims of forms within the plan
  (`ClaimsWithinPlan`, a sum) are inductive together with the types (`FloorInv`).
- Stations: `StationsTrailUnits` is inductive with the types, in two parts. `ShowsLastMove` is about
  the sequence of records: a request appends one and moves its row in one transaction, and what a machine or a
  concession appends is no move (`WriteBesideStep`). `FlowsBounded` counts the rows of a unit and the
  requests that have missed them together: a request that inserts a row turns one into the other,
  and a machine or concession inserts one only where there is none.
- Sessions: `SqliteIsDurable` rests on `OwnWork`. On SQLite a request is alone on its connection and
  the only one in a transaction from its first read on, so the row it sees there is what is
  committed with its own change, and a commit adds to the row what it adds to the sum of the
  answers. `MarksKept`, for PostgreSQL, says that a savepoint that is released or rolled back is on
  its connection's stack; `SessionsTypes` holds for both dialects.
- Atomicity: `SqliteIsAtomic` (`AtomicOnSqlite`) shows that sessions implement `AtomicUpdates` on
  SQLite. The permission check is the asking; beginning, reading and writing are hidden
  (`WorkIsHidden`), since they touch the request's own connection only; the commit is the moment the
  update takes effect (`EndWorkIsEffect`). There `OwnWork` is used once more: the row a request
  commits is what is committed at that moment and its own change. A request that fails has changed
  nothing (`FailureIsRefusal`), and its answer says so.
- Limits: `LimitsAlwaysHold` needs `HitsRemembered`: the storage counts every hit that was let in at
  a time which no route's cleaning has reached. The property counts requests and the code counts
  hits by their times; that both come to the same within a window is `CountByValue` of `Sums`.
- Order: `PositionsStayOrdered` (`PositionsRun`) is inductive with the types (`OrderInv`), which say
  that what was read lists no record twice. The work is about lists:
  the ranks of the records are 0, 1, 2, ... (`RanksRun`), so the list read has each record once
  (`OrderedIds`); taking one out and putting it elsewhere keeps that (`ReorderKeeps`); and writing
  places back makes the positions run from 1 without a hole (`PersistStep`).

`MachineLinkProofs`:

- Collector: `HandTells` says what it knows of the file in hand; that no failed report names it is
  needed where a file that cannot be reported returns to the input, and where the move back fails
  too the file is among those `stranded`. `TakenMeansRead` says that what was moved has been read.
- Bridge: `CarriersKnow` says what each carrier knows from its earlier steps. Only `Enqueue` gives a
  number, in the transaction that counts it, and `FailToEnqueue` may use one up, so the numbers up to
  the counter are those of rows and of failed imports (`Counted`); every other step of a carrier is
  one lemma, `CarryStep`.
- Feed: `BridgeRefines` (the bridge implements `EventFeed`) maps the sequence numbers to a queue, and
  `NumberingFits` makes that a mapping: each number up to the counter is that of one report. A step
  that gives no number leaves the queue as it is (`QueueStays`), and enqueuing, or failing to with the number counted, appends one. That a
  late settlement cannot take back what another has struck off needs `OwnedIsPending`, an invariant
  of its own: a row somebody has claimed is not dispatched, so the carrier whose token is still
  there is the one that may decide.
- Gateway: `GatewayTellsTruth` (`RuntimeTellsTruth`) compares rows with processes, and needs what
  keeps the two alike. The manager's processes are there, of their endpoints and not closing, and a
  process it does not manage outlived one (`ProcessesFit`); what a sync has still to spawn is not
  there, and it ends one process at a time (`SyncFits`); between the end of a process and its rows,
  or when these could not be written, the endpoint is excepted (`Truthful`); a connection is served by a process
  that listens, for the endpoint of its session (`LinksFit`). So a process that starts, reads its
  settings or connects again serves nothing and may go, and one that crashes is the manager's,
  which has not noticed, or an orphan. Slots are counted: each connection holds one of its
  listener, so the release of `finish` never goes below zero.

`CommandQueueProofs`:

- `NoAuditIsLost` (`AuditStreamsComplete`): the audit events of a device are numbered 1 to its
  cursor, one each (`AuditsNumbered`), so the number the queue takes, one above the largest, is the
  one after the cursor (`NextIsNext`) and reveals no gap. It is free, since an event tells what
  became of its command and a command has one (`AuditsTell`), and a command that is still leased
  has none: that also bounds the numbers by the commands (`NumberLeft`, an injection).
- `QueueRefines` (`ImplementsCommandLog`): a claim hands out some open commands in time and ends
  overdue ones (`ClaimDoes`), whatever leases it takes back; an answer carries the token of the
  latest hand-out, since what is leased has the token of its last attempt (`LeaseIsLatest`); and the
  sequence the mapping builds from the stored events grows by that answer and keeps what it had
  (`LogGrows`), since the event with a given number is unique.

The parts together: `ChainIsItsParts` and `PlantIsItsParts` say that a behaviour of a composed
instance is a behaviour of the specification of each of its modules, for the modules share no
variable and a turn of one leaves the others alone. So every theorem about a module holds in the
instance; `ProductionTypesHold` draws that conclusion for the type invariants of the chain. The type
invariants of the plant's modules and of the outbox, the processor and the command queue are theorems
that no run repeats.

Left to TLC: liveness and fairness (`EventuallySettled`, `EventuallyProcessed`, `EventuallyEnded`),
which the prover does not treat. Every invariant, action property and refinement that a passing run
checks is the statement of a theorem.

## 6. Not modelled

- `MachineInspection`: the V2 nonce table and the parsing of frames; why an L3 is given, beyond
  route, quality, task and outstanding request (endpoint, serial, work order and template states are
  taken as usable); the posting and deletion of ordinary reports, which share no state with a rework
  but the source task's count; manual reports of a rework task with part of the piece defective,
  which posting refuses; deletion of a draft rework task. Transfers are taken to cover a manual
  report on a later step.
- `machine_runtime.py` start, stop and lock; field validation of events; the nonce table of gateway
  authentication and the consumer's table of rejected messages: authentication is a possible
  refusal, and nothing reads the rejected messages.
- Production: listings, the barcode lookup of the collector page, the serial numbers of
  `serial_generate` (`prod_ext.py:198`), labor and packing rows, whose write routes are disabled
  (`_legacy_ext_write_disabled`), and cost figures. Of plan control only `init_plan_control`, which
  adds a row of quantity 0 for each product that has none, in the same transaction wrapper, and the
  listing.
- Inventory: listings, and the warehouse, area and location records, which are edited one row at a
  time (`blueprints/warehouse.py`).
- Process control: closing and opening a box, receipt of defective units and exceptions, each a
  single row no other route reads to decide something. Equipment: due dates.
- `utils/database.py`: schema creation and migrations are the rows' types here, not steps. The
  rewriting of SQL for PostgreSQL in `postgres_compat.py` and `database_adapter.py` turns text into
  text.
- `app.py`, login and permissions, base data, import and export, analytics, search and the AI
  routes, edge configuration and plugins, the JavaScript front ends and the desktop programs. They
  keep no state of their own beyond single rows, or they are input and output around the parts above.
