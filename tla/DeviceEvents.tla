---------------------------- MODULE DeviceEvents ----------------------------
(***************************************************************************)
(* The standard device event of backend/device_platform/contracts.py, cut  *)
(* down to the fields the rest of the pipeline decides on.  An element of  *)
(* Events stands for one immutable envelope; two elements differ in one of *)
(* the fields central ingestion compares (factory, device, type, sequence, *)
(* payload, lifecycle), so resending an event resends the same element.    *)
(*   EventId    the globally unique event_id the producer chose            *)
(*   StreamOf   the triple factory_code, device_code, lifecycle_id         *)
(*   SequenceOf the sequence number of the event within its stream         *)
(* Nothing prevents two envelopes from carrying the same event_id or the   *)
(* same stream and sequence: the edge store and the central ingestion are  *)
(* what must cope with it.                                                 *)
(***************************************************************************)
EXTENDS Naturals, FiniteSets

CONSTANTS Events, EventIds, Streams, EventId, StreamOf, SequenceOf

ASSUME EventsAssumption ==
    /\ EventId \in [Events -> EventIds]
    /\ StreamOf \in [Events -> Streams]
    /\ SequenceOf \in [Events -> Nat \ {0}]

SameId(e, f) == EventId[e] = EventId[f]

SameStream(e, f) == StreamOf[e] = StreamOf[f]

SameSlot(e, f) == SameStream(e, f) /\ SequenceOf[e] = SequenceOf[f]

\* o is an earlier event of e's own stream
Precedes(o, e) == SameStream(o, e) /\ SequenceOf[o] < SequenceOf[e]
=============================================================================
