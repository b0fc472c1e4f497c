-------------------------- MODULE ReliableDelivery ---------------------------
(***************************************************************************)
(* What the edge outbox, its sending processes and central ingestion       *)
(* promise together, with no pump, lease, message or retry in sight:       *)
(*   - an event is confirmed at the edge only after the central platform   *)
(*     holds it, and then for good;                                        *)
(*   - the events of a device arrive in sequence order, except around an   *)
(*     event that was once parked as a dead letter or that was recorded    *)
(*     after a later one of its stream (such an event is excused).         *)
(***************************************************************************)
EXTENDS DeviceEvents

VARIABLES recorded,   \* appended to the edge outbox
          delivered,  \* stored by the central platform
          confirmed,  \* acknowledged in the outbox
          parked,     \* unconfirmed dead letters
          excused     \* events that no longer hold back their stream

promiseVars == <<recorded, delivered, confirmed, parked, excused>>

PromiseInit ==
    /\ recorded = {}
    /\ delivered = {}
    /\ confirmed = {}
    /\ parked = {}
    /\ excused = {}

Record(e) ==
    /\ e \notin recorded
    /\ recorded' = recorded \union {e}
    /\ excused' = excused \union {x \in {e} : \E o \in recorded : Precedes(e, o)}
    /\ UNCHANGED <<delivered, confirmed, parked>>

Arrive(e) ==
    /\ e \in recorded \ delivered
    /\ \A o \in recorded \ excused : Precedes(o, e) => o \in confirmed
    /\ delivered' = delivered \union {e}
    /\ UNCHANGED <<recorded, confirmed, parked, excused>>

\* A dead letter can be confirmed too, by the lease-free ack.
Confirm(e) ==
    /\ e \in delivered \ confirmed
    /\ confirmed' = confirmed \union {e}
    /\ parked' = parked \ {e}
    /\ UNCHANGED <<recorded, delivered, excused>>

Park(e) ==
    /\ e \in recorded \ (confirmed \union parked)
    /\ parked' = parked \union {e}
    /\ excused' = excused \union {e}
    /\ UNCHANGED <<recorded, delivered, confirmed>>

ReplayParked ==
    /\ parked # {}
    /\ parked' = {}
    /\ UNCHANGED <<recorded, delivered, confirmed, excused>>

PromiseNext ==
    \/ \E e \in Events : Record(e) \/ Arrive(e) \/ Confirm(e) \/ Park(e)
    \/ ReplayParked

PromiseSpec == PromiseInit /\ [][PromiseNext]_promiseVars
=============================================================================
