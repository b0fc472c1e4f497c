-------------------------- MODULE DeviceEventIngest --------------------------
(***************************************************************************)
(* Central ingestion of device events: ingest_device_event and its tables  *)
(* in backend/services/device_event_ingest.py.  The whole call is one      *)
(* BEGIN IMMEDIATE transaction, hence one action.  The legacy and the      *)
(* lifecycle (_v2) cursor and gap tables follow the same rules, with the   *)
(* stream as their key.                                                    *)
(***************************************************************************)
EXTENDS DeviceEvents

VARIABLES rowId,         \* iot_device_event.id of the event's row; 0: no row
          lastId,        \* the AUTOINCREMENT counter of iot_device_event
          cursor,        \* iot_device_cursor(_v2).last_sequence; 0: no row
          openGaps,      \* iot_device_sequence_gap(_v2), status 'open'
          resolvedGaps,  \* the same table, status 'resolved'
          quarantine,    \* iot_device_event_conflict(event_id, reason)
          refused        \* history: the refusals answered as conflicts

ingestVars == <<rowId, lastId, cursor, openGaps, resolvedGaps, quarantine, refused>>

Gap == {g \in [stream : Streams, from : Nat, to : Nat] : g.from <= g.to}

Reason == {"event_id_payload_mismatch", "device_sequence_conflict"}

IngestTypeOK ==
    /\ rowId \in [Events -> Nat]
    /\ lastId \in Nat
    /\ cursor \in [Streams -> Nat]
    /\ openGaps \subseteq Gap
    /\ resolvedGaps \subseteq Gap
    /\ quarantine \subseteq EventIds \X Reason
    /\ refused \subseteq EventIds \X Reason

IngestInit ==
    /\ rowId = [e \in Events |-> 0]
    /\ lastId = 0
    /\ cursor = [s \in Streams |-> 0]
    /\ openGaps = {}
    /\ resolvedGaps = {}
    /\ quarantine = {}
    /\ refused = {}

Ingested(e) == rowId[e] > 0

\* The event_id is known already, from this or from another envelope.
KnownId(e) == \E o \in Events : Ingested(o) /\ SameId(o, e)

SlotTaken(e) == \E o \in Events : Ingested(o) /\ SameSlot(o, e)

\* No ingested event of the stream carries the sequence number n.
Missing(s, n) == \A o \in Events : Ingested(o) => ~(StreamOf[o] = s /\ SequenceOf[o] = n)

\* Faulty: a gap of a single number goes unnoticed.
RevealedLongGap(e) ==
    LET s == StreamOf[e] IN
    IF SequenceOf[e] > cursor[s] + 2
    THEN {[stream |-> s, from |-> cursor[s] + 1, to |-> SequenceOf[e] - 1]}
    ELSE {}

(***************************************************************************)
(* A new event: the row, the gap its arrival reveals, the cursor, and the  *)
(* open gaps of the stream in which nothing is missing any more.           *)
(***************************************************************************)
RevealedGap(e) ==
    LET s == StreamOf[e] IN
    IF SequenceOf[e] > cursor[s] + 1
    THEN {[stream |-> s, from |-> cursor[s] + 1, to |-> SequenceOf[e] - 1]}
    ELSE {}

Filled(g, e) ==
    /\ g.stream = StreamOf[e]
    /\ \A n \in g.from..g.to : n = SequenceOf[e] \/ ~Missing(g.stream, n)

IngestNew(e) ==
    LET s == StreamOf[e]
        gaps == openGaps \union (RevealedGap(e) \ resolvedGaps)
        filled == {g \in gaps : Filled(g, e)}
    IN
    /\ ~KnownId(e)
    /\ ~SlotTaken(e)
    /\ rowId' = [rowId EXCEPT ![e] = lastId + 1]
    /\ lastId' = lastId + 1
    /\ cursor' = [cursor EXCEPT ![s] = IF SequenceOf[e] > @ THEN SequenceOf[e] ELSE @]
    /\ openGaps' = gaps \ filled
    /\ resolvedGaps' = resolvedGaps \union filled
    /\ UNCHANGED <<quarantine, refused>>

\* Faulty: a known event_id is accepted whatever the content.
IngestKnownId(e) == KnownId(e) /\ UNCHANGED ingestVars

\* The same envelope again: accepted, nothing written.
IngestDuplicate(e) == Ingested(e) /\ UNCHANGED ingestVars

IngestAccepted(e) == IngestNew(e) \/ IngestDuplicate(e)

(***************************************************************************)
(* A known event_id with other content: the quarantine row is committed    *)
(* before the call returns.                                                *)
(***************************************************************************)
RefuseMismatch(e) ==
    LET row == <<EventId[e], "event_id_payload_mismatch">> IN
    /\ KnownId(e)
    /\ ~Ingested(e)
    /\ quarantine' = quarantine \union {row}
    /\ refused' = refused \union {row}
    /\ UNCHANGED <<rowId, lastId, cursor, openGaps, resolvedGaps>>

(***************************************************************************)
(* A new event_id in a taken slot.  The transaction is committed before    *)
(* the quarantine row is inserted, so the row opens a transaction of its   *)
(* own which only the caller can commit.  The MQTT consumer does, in       *)
(* _reject, if it gets there; the HTTP handlers do not, and close_db drops *)
(* the row.                                                                *)
(***************************************************************************)
RefuseConflict(e, callerCommits) ==
    LET row == <<EventId[e], "device_sequence_conflict">> IN
    /\ ~KnownId(e)
    /\ SlotTaken(e)
    /\ quarantine' = IF callerCommits THEN quarantine \union {row} ELSE quarantine
    /\ refused' = refused \union {row}
    /\ UNCHANGED <<rowId, lastId, cursor, openGaps, resolvedGaps>>

IngestRefused(e, callerCommits) == RefuseMismatch(e) \/ RefuseConflict(e, callerCommits)
=============================================================================
