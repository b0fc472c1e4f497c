--------------------------- MODULE MCCommandQueue ---------------------------
(***************************************************************************)
(* Commands for two devices: c1 for one and c3 for the other; d1 is the    *)
(* retried c1: the same idempotency_key under a new command_id.            *)
(***************************************************************************)
EXTENDS CommandQueue

CONSTANTS c1, c3, d1

MCEventIds == CommandIds \X Outcomes
MCRetried == {c1, d1, c3}
MCCommandId == [c \in Commands |-> c]
MCKeyOf == [c \in Commands |-> IF c = d1 THEN c1 ELSE c]
MCDeviceOf == [c \in Commands |-> IF c = c3 THEN "D2" ELSE "D1"]
=============================================================================
