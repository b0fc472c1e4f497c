-------------------------- MODULE OnceOnlyEffects ---------------------------
(***************************************************************************)
(* What the central platform promises of the production effects of device  *)
(* events, with no worker, lease or retry in sight: a quality event is     *)
(* posted to its task at most once, never beyond the planned quantity, and *)
(* an event is closed, for good, only after its effect.                    *)
(***************************************************************************)
EXTENDS Naturals

CONSTANTS Events, Tasks, Reporting, TaskOf, Quantity, Planned

VARIABLES known,      \* ingested events
          posted,     \* how many reports of each event count in its task
          closed,     \* processed events
          completed   \* completed quantity of each task

onceVars == <<known, posted, closed, completed>>

OnceInit ==
    /\ known = {}
    /\ posted = [e \in Events |-> 0]
    /\ closed = {}
    /\ completed = [t \in Tasks |-> 0]

Learn(e) ==
    /\ e \notin known
    /\ known' = known \union {e}
    /\ UNCHANGED <<posted, closed, completed>>

Grow(t, n) ==
    /\ completed[t] + n <= Planned[t]
    /\ completed' = [completed EXCEPT ![t] = @ + n]

Post(e) ==
    /\ e \in known \intersect Reporting
    /\ posted[e] = 0
    /\ posted' = [posted EXCEPT ![e] = 1]
    /\ Grow(TaskOf[e], Quantity[e])
    /\ UNCHANGED <<known, closed>>

Close(e) ==
    /\ e \in known \ closed
    /\ e \in Reporting => posted[e] = 1
    /\ closed' = closed \union {e}
    /\ UNCHANGED <<known, posted, completed>>

\* An operator's own report.
Report(t) ==
    /\ Grow(t, 1)
    /\ UNCHANGED <<known, posted, closed>>

OnceNext ==
    \/ \E e \in Events : Learn(e) \/ Post(e) \/ Close(e)
    \/ \E t \in Tasks : Report(t)

OnceSpec == OnceInit /\ [][OnceNext]_onceVars
=============================================================================
