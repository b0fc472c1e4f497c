-------------------------- MODULE MCEventDelivery ---------------------------
(***************************************************************************)
(* One device stream of a gateway: a1 and a2 come from the gateway's own   *)
(* devices with the sequence numbers 1 and 2.  Others post f2, which has   *)
(* the event_id of a1 and the sequence number of a2.  Two sending          *)
(* processes share their worker_id.                                        *)
(***************************************************************************)
EXTENDS EventDelivery, TLC

CONSTANTS a1, a2, f2, dev, p1, p2, w

MCEdgeEvents == {a1, a2}
MCAllEvents == {a1, a2, f2}
MCEventIds == {"A1", "A2"}
MCStreams == {dev}
MCEventId == [e \in Events |-> IF e = a2 THEN "A2" ELSE "A1"]
MCStreamOf == [e \in Events |-> dev]
MCSequenceOf == [e \in Events |-> IF e = a1 THEN 1 ELSE 2]
MCOnePump == {p1}
MCTwoPumps == {p1, p2}
MCWorkerOf == [p \in Pumps |-> w]

Pumps_Symmetry == Permutations(MCTwoPumps)
=============================================================================
