---------------------------- MODULE AtomicUpdates ----------------------------
(***************************************************************************)
(* What a service's transaction promises to its callers: an update takes   *)
(* effect as a whole, at one moment between the request and its answer, on *)
(* the value left by the updates before it; it is answered as done exactly *)
(* if it took effect, and one that would leave the permitted range or that *)
(* fails for any other reason changes nothing.                             *)
(***************************************************************************)
EXTENDS Integers

CONSTANTS Users, Updates, Limit

VARIABLES value,    \* the number that is updated
          state,    \* of each user's request
          update    \* what it adds, 0 of an idle user

atomicVars == <<value, state, update>>

Ask(u, by) ==
    /\ state[u] = "idle"
    /\ state' = [state EXCEPT ![u] = "asked"]
    /\ update' = [update EXCEPT ![u] = by]
    /\ UNCHANGED value

TakeEffect(u) ==
    /\ state[u] = "asked"
    /\ value' = value + update[u] /\ value' \in 0 .. Limit
    /\ state' = [state EXCEPT ![u] = "done"]
    /\ UNCHANGED update

Refuse(u) ==
    /\ state[u] = "asked"
    /\ state' = [state EXCEPT ![u] = "failed"]
    /\ UNCHANGED <<value, update>>

Answer(u) ==
    /\ state[u] \in {"done", "failed"}
    /\ state' = [state EXCEPT ![u] = "idle"]
    /\ update' = [update EXCEPT ![u] = 0]
    /\ UNCHANGED value

AtomicNext ==
    \E u \in Users :
       (\E by \in Updates : Ask(u, by)) \/ TakeEffect(u) \/ Refuse(u) \/ Answer(u)
=============================================================================
