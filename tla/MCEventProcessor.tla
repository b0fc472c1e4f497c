-------------------------- MODULE MCEventProcessor --------------------------
(***************************************************************************)
(* One device stream.  q1 and q2 are quality events of the same task, x is *)
(* a malformed quality event, l an AIM report known from its import.       *)
(***************************************************************************)
EXTENDS EventProcessor, TLC

CONSTANTS q1, q2, x, l, dev, t, u1, u2

MCReports == {q1, q2}
MCMixed == {q1, x, l}
MCEventId == [e \in Events |-> e]
MCStreams == {dev}
MCStreamOf == [e \in Events |-> dev]
MCSequenceOf == [e \in Events |->
    CASE e = q1 -> 1 [] e \in {q2, l} -> 2 [] OTHER -> 3]
MCTaskOf == [e \in Reporting |-> t]
MCQuantity == [e \in Reporting |-> IF e = q1 THEN 1 ELSE 2]
MCRoomForTwo == [i \in Tasks |-> 2]

Workers_Symmetry == Permutations({u1, u2})
=============================================================================
