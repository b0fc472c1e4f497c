---------------------------- MODULE CommandQueue ----------------------------
(***************************************************************************)
(* Commands on their way from the MES to an edge gateway: the table        *)
(* iot_device_command of backend/services/device_commands.py, the gateway  *)
(* routes of blueprints/device_platform.py that call it, and the audit     *)
(* events that acknowledging a command sends through central ingestion     *)
(* (DeviceEventIngest), in the lifecycle "command" of the device.          *)
(*                                                                         *)
(* The claim and the acknowledgement each run in one write transaction.    *)
(* What a claim answered may be lost, or used at any later time, more than *)
(* once and in any order: claims holds all that was ever handed out.       *)
(***************************************************************************)
EXTENDS DeviceEventIngest, FiniteSetsExt

CONSTANTS Commands,     \* envelopes passed to enqueue_command
          CommandIds, CommandId,
          Keys, KeyOf,  \* idempotency_key
          Devices, DeviceOf,
          WorkerIds,    \* worker_id given by the gateway's processes
          NoWorker,     \* lease_owner IS NULL
          Outcomes,     \* what gateways answer: acknowledged, failed, expired
          Limit,        \* limit of claim_commands
          MaxAttempts   \* bound: hand-outs of one command

ASSUME CommandAssumption ==
    /\ IsFiniteSet(Commands)
    /\ CommandId \in [Commands -> CommandIds]
    /\ KeyOf \in [Commands -> Keys]
    /\ DeviceOf \in [Commands -> Devices]
    /\ NoWorker \notin WorkerIds
    /\ Outcomes \subseteq {"acknowledged", "failed", "expired"}
    /\ Limit \in Nat \ {0}
    /\ MaxAttempts \in Nat

\* The audit event of a command, with event_id CMD:<command_id>:<status>.
Audit(c, o, n) == [command |-> c, outcome |-> o, sequence |-> n]

AuditEvents == {Audit(c, o, n) : c \in Commands, o \in Outcomes,
                                 n \in 1..Cardinality(Commands)}
AuditId == [e \in AuditEvents |-> <<CommandId[e.command], e.outcome>>]
AuditStream == [e \in AuditEvents |-> DeviceOf[e.command]]
AuditSequence == [e \in AuditEvents |-> e.sequence]

\* The events that reach central ingestion here are the audit events.
ASSUME AuditAssumption ==
    /\ Events = AuditEvents
    /\ EventIds = CommandIds \X Outcomes
    /\ Streams = Devices
    /\ EventId = AuditId
    /\ StreamOf = AuditStream
    /\ SequenceOf = AuditSequence

VARIABLES row,       \* id of the command's row; 0: no row
          status,
          attempts,
          owner,     \* lease_owner
          token,     \* lease_token: the uuid4 drawn at the n-th hand-out is
                     \* called n; 0 is NULL
          leased,    \* lease_until > now
          overdue,   \* expires_at has passed
          claims,    \* all that workers were ever handed
          answeredBy   \* history: the token of the answer that ended it

leaseVars == <<owner, token, leased>>
commandVars == <<row, status, attempts, leaseVars, overdue, claims, answeredBy>>
vars == <<commandVars, ingestVars>>

TypeOK ==
    /\ IngestTypeOK
    /\ row \in [Commands -> Nat]
    /\ status \in [Commands -> {"none", "queued", "leased", "expired"} \union Outcomes]
    /\ attempts \in [Commands -> Nat]
    /\ owner \in [Commands -> WorkerIds \union {NoWorker}]
    /\ token \in [Commands -> Nat]
    /\ leased \in [Commands -> BOOLEAN]
    /\ overdue \subseteq Commands
    /\ claims \subseteq [command : Commands, worker : WorkerIds, token : Nat]
    /\ answeredBy \in [Commands -> Nat]

Init ==
    /\ IngestInit
    /\ row = [c \in Commands |-> 0]
    /\ status = [c \in Commands |-> "none"]
    /\ attempts = [c \in Commands |-> 0]
    /\ owner = [c \in Commands |-> NoWorker]
    /\ token = [c \in Commands |-> 0]
    /\ leased = [c \in Commands |-> FALSE]
    /\ overdue = {}
    /\ claims = {}
    /\ answeredBy = [c \in Commands |-> 0]

Known(c) == row[c] > 0

(***************************************************************************)
(* enqueue_command: INSERT OR IGNORE, with both command_id and             *)
(* idempotency_key unique.                                                 *)
(***************************************************************************)
Enqueue(c) ==
    /\ \A k \in Commands : Known(k) => CommandId[k] # CommandId[c] /\ KeyOf[k] # KeyOf[c]
    /\ row' = [row EXCEPT ![c] = 1 + Cardinality({k \in Commands : Known(k)})]
    /\ status' = [status EXCEPT ![c] = "queued"]
    /\ UNCHANGED <<attempts, leaseVars, overdue, claims, answeredBy, ingestVars>>

\* Faulty: a command past its deadline is not taken back.
LeaseOverInTime(c) == status[c] = "leased" /\ ~leased[c] /\ c \notin overdue

LeaseOver(c) == status[c] = "leased" /\ ~leased[c]

(***************************************************************************)
(* claim_commands: leases that ran out are taken back, then the oldest     *)
(* queued commands of the devices in D are leased, or ended when they are  *)
(* past their deadline.  A worker asks for one device or for all.          *)
(***************************************************************************)
Claim(w, D) ==
    LET back == {c \in Commands : LeaseOver(c)}
        queued == {c \in Commands : status[c] = "queued" \/ c \in back}
        asked == {c \in queued : DeviceOf[c] \in D}
        taken == {c \in asked : Cardinality({k \in asked : row[k] < row[c]}) < Limit}
        given == taken \ overdue
        freed == back \ given
    IN
    /\ back # {} \/ taken # {}
    /\ \A c \in given : attempts[c] < MaxAttempts
    /\ status' = [c \in Commands |->
                    CASE c \in given -> "leased"
                      [] c \in taken \intersect overdue -> "expired"
                      [] c \in back \ taken -> "queued"
                      [] OTHER -> status[c]]
    /\ attempts' = [c \in Commands |->
                      IF c \in given THEN attempts[c] + 1 ELSE attempts[c]]
    /\ owner' = [c \in Commands |->
                   IF c \in given THEN w ELSE IF c \in freed THEN NoWorker ELSE owner[c]]
    /\ token' = [c \in Commands |->
                   IF c \in given THEN attempts[c] + 1
                   ELSE IF c \in freed THEN 0 ELSE token[c]]
    /\ leased' = [c \in Commands |-> c \in given \/ leased[c]]
    /\ claims' = claims \union
                   {[command |-> c, worker |-> w, token |-> attempts[c] + 1] : c \in given}
    /\ UNCHANGED <<row, overdue, answeredBy, ingestVars>>

\* Faulty: numbered through all devices.
NextSequenceOverall(d) == Max({0} \union {e.sequence : e \in {a \in Events : Ingested(a)}}) + 1

NextSequence(d) ==
    Max({0} \union {e.sequence : e \in {a \in Events :
                                          Ingested(a) /\ StreamOf[a] = d}}) + 1

\* Faulty: the worker_id alone identifies the claimant.
HoldsCommandByName(k) == status[k.command] = "leased" /\ owner[k.command] = k.worker

\* The WHERE clause of the acknowledging update.
HoldsCommand(k) ==
    /\ status[k.command] = "leased"
    /\ owner[k.command] = k.worker
    /\ token[k.command] = k.token

(***************************************************************************)
(* acknowledge_command: the outcome and its audit event are committed      *)
(* together.  Whether ingestion accepted the event is not looked at.  The  *)
(* answer to any other claim changes nothing.                              *)
(***************************************************************************)
Acknowledge(k, o) ==
    LET c == k.command
        event == Audit(c, o, NextSequence(DeviceOf[c]))
    IN
    /\ HoldsCommand(k)
    /\ status' = [status EXCEPT ![c] = o]
    /\ owner' = [owner EXCEPT ![c] = NoWorker]
    /\ token' = [token EXCEPT ![c] = 0]
    /\ leased' = [leased EXCEPT ![c] = FALSE]
    /\ answeredBy' = [answeredBy EXCEPT ![c] = k.token]
    /\ IngestAccepted(event) \/ IngestRefused(event, TRUE)
    /\ UNCHANGED <<row, attempts, overdue, claims>>

\* A command enqueued too late is overdue in the next step.
DeadlinePasses(c) ==
    /\ Known(c)
    /\ c \notin overdue
    /\ overdue' = overdue \union {c}
    /\ UNCHANGED <<row, status, attempts, leaseVars, claims, answeredBy, ingestVars>>

LeaseRunsOut(c) ==
    /\ leased[c]
    /\ leased' = [leased EXCEPT ![c] = FALSE]
    /\ UNCHANGED <<row, status, attempts, owner, token, overdue, claims, answeredBy, ingestVars>>

Next ==
    \/ \E c \in Commands : Enqueue(c) \/ DeadlinePasses(c) \/ LeaseRunsOut(c)
    \/ \E w \in WorkerIds : \E D \in {Devices} \union {{d} : d \in Devices} : Claim(w, D)
    \/ \E k \in claims, o \in Outcomes : Acknowledge(k, o)

Spec == Init /\ [][Next]_vars

\* Some process of the gateway keeps asking for the commands of all devices,
\* and clocks advance.  Nobody need ever answer.
Fairness ==
    /\ WF_vars(\E w \in WorkerIds : Claim(w, Devices))
    /\ \A c \in Commands : WF_vars(DeadlinePasses(c)) /\ WF_vars(LeaseRunsOut(c))

LiveSpec == Spec /\ Fairness

-----------------------------------------------------------------------------
(* Properties. *)

\* The audit streams of the commands are complete: the MES numbers the events
\* itself, one after the other, so none of them is refused by ingestion and
\* none leaves a gap behind, whatever gateways answer at the same time.
AuditStreamsComplete == openGaps = {} /\ resolvedGaps = {} /\ refused = {}

\* The queue with its audit events does what CommandLog promises.
Outcome(c) ==
    CASE status[c] = "none" -> "unknown"
      [] status[c] \in {"queued", "leased"} -> "open"
      [] status[c] = "expired" /\ answeredBy[c] = 0 -> "lapsed"
      [] OTHER -> status[c]

AuditLog(d) ==
    [n \in 1..cursor[d] |->
        LET e == CHOOSE a \in Events :
                    Ingested(a) /\ StreamOf[a] = d /\ a.sequence = n
        IN <<e.command, e.outcome>>]

Log == INSTANCE CommandLog WITH
    outcome <- [c \in Commands |-> Outcome(c)],
    handed <- attempts,
    answered <- answeredBy,
    log <- [d \in Devices |-> AuditLog(d)]

ImplementsCommandLog == Log!LogSpec

\* Every command that was queued comes to an end, answered or not.
Ended(c) == status[c] \in Outcomes \union {"expired"}

EventuallyEnded == \A c \in Commands : Known(c) ~> Ended(c)
=============================================================================
