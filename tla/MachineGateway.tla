--------------------------- MODULE MachineGateway ----------------------------
(***************************************************************************)
(* The gateway manager (machine_gateway_manager.py), the process it runs   *)
(* for each enabled endpoint and the connections of that process, with the *)
(* rows they all write: the endpoint's listener_status and the sessions.   *)
(* A process is a listener (machine_socket_server.py), which machines      *)
(* connect to, or a reader (machine_reader_client.py), which connects to   *)
(* a code reader, again and again.                                         *)
(*                                                                         *)
(* A sync is not atomic: it reads all endpoints, then looks at each of its *)
(* processes, then spawns.  To end a process and to write what is so then  *)
(* are two steps, and the second may fail.  A process reads its endpoint   *)
(* when it starts.  The service may be stopped while a sync goes on, for   *)
(* it waits for it only so long, and its process may die at any moment; a  *)
(* process left behind notices within two seconds and closes.              *)
(***************************************************************************)
EXTENDS Tables, Naturals, FiniteSets

CONSTANTS Endpoints, NoChild,
          Versions,      \* settings an endpoint can have: what makes its signature
          ReaderVersions, \* those of transport_mode reader_client
          Children,      \* bound: processes at one time
          Sessions,      \* bound: rows of iot_machine_session
          Capacity,      \* connection_slots of a listener (100)
          MaxFailures    \* restarts in a row for which 2 ** n is a float (1024)

ASSUME GatewayAssumption ==
    /\ 0 \notin Versions /\ ReaderVersions \subseteq Versions /\ NoChild \notin Children
    /\ IsFiniteSet(Sessions) /\ Capacity \in Nat /\ MaxFailures \in Nat

Child == [endpoint : Endpoints, kind : {"listener", "reader"}, version : Versions \cup {0},
          state : {"spawned", "read", "listening", "closing", "exited"}]
SessionRow == [endpoint : Endpoints, online : BOOLEAN]

ASSUME GatewayRowAssumption == NoRow \notin Child \cup SessionRow

VARIABLES config,    \* enabled and settings of iot_machine_endpoint
          status,    \* its listener_status
          child,     \* the processes
          managed,   \* processes of the manager
          signature, \* _signatures of the manager, 0 when it has none
          failures,  \* _failure_counts
          delayed,   \* endpoints whose _restart_after lies ahead
          monitor,   \* where the manager is
          seen,      \* the settings a sync has read, 0 of what is not enabled
          todo,      \* what is left of the present phase of a sync
          ending,    \* why the process of an endpoint was ended whose rows are not written yet
          stopping,  \* the service is being stopped
          halting,   \* processes its stop has still to look at, by endpoint
          session,   \* iot_machine_session
          link,      \* the process that serves a session's connection
          slots,     \* connection slots taken in each process
          astray,    \* history: sessions whose end was never written
          overrun,   \* history: endpoints whose process outlived a manager
          stale      \* history: endpoints whose process was ended and the status never written

stopVars == <<ending, stopping, halting>>
managerVars == <<managed, signature, failures, delayed, monitor, seen, todo, stopVars>>
serverVars == <<session, link, slots, astray>>
gatewayVars == <<config, status, child, managerVars, serverVars, overrun, stale>>

GatewayInit ==
    /\ config \in [Endpoints -> [enabled : BOOLEAN, version : Versions]]
    /\ status = [e \in Endpoints |-> "stopped"]
    /\ child = [p \in Children |-> NoRow]
    /\ managed = [e \in Endpoints |-> NoChild]
    /\ signature = [e \in Endpoints |-> 0]
    /\ failures = [e \in Endpoints |-> 0]
    /\ delayed = {} /\ monitor = "down"
    /\ seen = [e \in Endpoints |-> 0] /\ todo = {}
    /\ ending = [e \in Endpoints |-> "no"] /\ stopping = FALSE /\ halting = {}
    /\ session = [s \in Sessions |-> NoRow]
    /\ link = [s \in Sessions |-> NoChild]
    /\ slots = [p \in Children |-> 0]
    /\ astray = {} /\ overrun = {} /\ stale = {}

Reconfigure(e, enabled, v) ==
    /\ config' = [config EXCEPT ![e] = [enabled |-> enabled, version |-> v]]
    /\ UNCHANGED <<status, child, managerVars, serverVars, overrun, stale>>

Live(p) == child[p] # NoRow /\ child[p].state # "exited"

\* What is left of the connections when processes ps end.
Unlinked(ps) == [s \in Sessions |-> IF link[s] \in ps THEN NoChild ELSE link[s]]
Vacated(ps) == [p \in Children |-> IF p \in ps THEN 0 ELSE slots[p]]

\* Sessions of endpoints es that were online are offline.
Closed(es) == [s \in Sessions |->
                 IF session[s] # NoRow /\ session[s].endpoint \in es
                 THEN [session[s] EXCEPT !.online = FALSE] ELSE session[s]]

-----------------------------------------------------------------------------
(* The end of a process: _terminate, then _update_runtime.                 *)

SyncEndings == {"disabled", "exited", "changed"}

\* The process of e is popped, terminated and waited for.
Terminate(e, why) ==
    LET p == managed[e]
    IN /\ child' = [child EXCEPT ![p] = NoRow]
       /\ managed' = [managed EXCEPT ![e] = NoChild]
       /\ ending' = [ending EXCEPT ![e] = why]
       /\ link' = Unlinked({p}) /\ slots' = Vacated({p})

\* What sync forgets of e then; the first two only when its settings changed.
Ended(e) ==
    /\ ending[e] # "no"
    /\ ending' = [ending EXCEPT ![e] = "no"]
    /\ IF ending[e] \in {"disabled", "changed"}
       THEN failures' = [failures EXCEPT ![e] = 0] /\ delayed' = delayed \ {e}
       ELSE UNCHANGED <<failures, delayed>>
    /\ signature' = IF ending[e] = "disabled" THEN [signature EXCEPT ![e] = 0] ELSE signature

\* The rows of endpoints es are left as they are.
Unwritten(es) ==
    /\ stale' = stale \cup es
    /\ astray' = astray \cup {s \in Sessions : session[s] # NoRow /\ session[s].endpoint \in es
                                              /\ session[s].online}

FaultyUpdateRuntime(e) ==   \* the sessions of the process stay online
    /\ Ended(e)
    /\ status' = [status EXCEPT ![e] = IF ending[e] = "exited" THEN "error" ELSE "stopped"]
    /\ stale' = stale \ {e}
    /\ UNCHANGED <<config, child, managed, monitor, seen, todo, stopping, halting,
                   session, link, slots, astray, overrun>>

UpdateRuntime(e) ==
    /\ Ended(e)
    /\ status' = [status EXCEPT ![e] = IF ending[e] = "exited" THEN "error" ELSE "stopped"]
    /\ session' = Closed({e})
    /\ stale' = stale \ {e}
    /\ UNCHANGED <<config, child, managed, monitor, seen, todo, stopping, halting,
                   link, slots, astray, overrun>>

\* An error of the database is rolled back and ignored.
FailToUpdate(e) ==
    /\ Ended(e)
    /\ Unwritten({e})
    /\ UNCHANGED <<config, status, child, managed, monitor, seen, todo, stopping, halting,
                   session, link, slots, overrun>>

-----------------------------------------------------------------------------
(* The manager.                                                            *)

StartRuntime ==
    /\ monitor = "down"
    /\ monitor' = "idle"
    /\ session' = Closed(Endpoints)
    /\ UNCHANGED <<config, status, child, managed, signature, failures, delayed, seen, todo,
                   stopVars, link, slots, astray, overrun, stale>>

\* The thread of the monitor ends, or is in the midst of a sync for longer
\* than stop waits for it.
BeginStop ==
    /\ monitor # "down" /\ ~ stopping
    /\ stopping' = TRUE
    /\ halting' = {e \in Endpoints : managed[e] # NoChild}
    /\ monitor' = IF monitor = "idle" THEN "dead" ELSE monitor
    /\ UNCHANGED <<config, status, child, managed, signature, failures, delayed, seen, todo,
                   ending, serverVars, overrun, stale>>

StopProcess(e) ==
    /\ e \in halting
    /\ \A d \in Endpoints : ending[d] # "halted"
    /\ halting' = halting \ {e}
    /\ IF managed[e] = NoChild THEN UNCHANGED <<child, managed, ending, link, slots>>
       ELSE Terminate(e, "halted")
    /\ UNCHANGED <<config, status, signature, failures, delayed, monitor, seen, todo, stopping,
                   session, astray, overrun, stale>>

\* The process of the service ends, stopped or not, with all the manager knew.
EndRuntime ==
    /\ monitor # "down"
    /\ monitor' = "down" /\ todo' = {} /\ delayed' = {}
    /\ managed' = [e \in Endpoints |-> NoChild]
    /\ signature' = [e \in Endpoints |-> 0]
    /\ failures' = [e \in Endpoints |-> 0]
    /\ seen' = [e \in Endpoints |-> 0]
    /\ ending' = [e \in Endpoints |-> "no"] /\ stopping' = FALSE /\ halting' = {}
    /\ overrun' = overrun \cup {e \in Endpoints : managed[e] # NoChild}
    /\ Unwritten({e \in Endpoints : ending[e] # "no"})
    /\ child' = [p \in Children |-> IF Live(p) THEN child[p] ELSE NoRow]
    /\ UNCHANGED <<config, status, session, link, slots>>

BeginSync ==
    /\ monitor = "idle" /\ ~ stopping
    /\ monitor' = "checking"
    /\ seen' = [e \in Endpoints |-> IF config[e].enabled THEN config[e].version ELSE 0]
    /\ todo' = {e \in Endpoints : managed[e] # NoChild}
    /\ UNCHANGED <<config, status, child, managed, signature, failures, delayed, stopVars,
                   serverVars, overrun, stale>>

\* A sync waits until the process it ends has ended and the rows are written.
Waiting == \E e \in Endpoints : ending[e] \in SyncEndings
Checking(e) == monitor = "checking" /\ e \in todo /\ ~ Waiting /\ managed[e] # NoChild

\* A stop has popped it: a KeyError, which _monitor does not catch, or when it
\* was popped only after that, nothing to terminate.
MissProcess(e) ==
    /\ monitor = "checking" /\ e \in todo /\ ~ Waiting /\ managed[e] = NoChild
    /\ \/ monitor' = "dead" /\ todo' = {}
       \/ UNCHANGED monitor /\ todo' = todo \ {e}
    /\ UNCHANGED <<config, status, child, managed, signature, failures, delayed, seen, stopVars,
                   serverVars, overrun, stale>>

StopDisabled(e) ==
    /\ Checking(e)
    /\ seen[e] = 0
    /\ Terminate(e, "disabled")
    /\ todo' = todo \ {e}
    /\ UNCHANGED <<config, status, signature, failures, delayed, monitor, seen, stopping, halting,
                   session, astray, overrun, stale>>

Exited(e) == Checking(e) /\ seen[e] # 0 /\ child[managed[e]].state = "exited"

NoticeExit(e) ==
    /\ Exited(e)
    /\ failures[e] < MaxFailures
    /\ failures' = [failures EXCEPT ![e] = @ + 1]
    /\ delayed' = delayed \cup {e}
    /\ Terminate(e, "exited")
    /\ todo' = todo \ {e}
    /\ UNCHANGED <<config, status, signature, monitor, seen, stopping, halting,
                   session, astray, overrun, stale>>

\* The delay is computed before it is cut to a minute: past MaxFailures it
\* raises an OverflowError, which _monitor does not catch.
OverflowDelay(e) ==
    /\ Exited(e)
    /\ failures[e] >= MaxFailures
    /\ failures' = [failures EXCEPT ![e] = @ + 1]
    /\ monitor' = "dead" /\ todo' = {}
    /\ UNCHANGED <<config, status, child, managed, signature, delayed, seen, stopVars, serverVars,
                   overrun, stale>>

Running(e) == Checking(e) /\ seen[e] # 0 /\ child[managed[e]].state # "exited"

StopChanged(e) ==
    /\ Running(e)
    /\ signature[e] # seen[e]
    /\ Terminate(e, "changed")
    /\ todo' = todo \ {e}
    /\ UNCHANGED <<config, status, signature, failures, delayed, monitor, seen, stopping, halting,
                   session, astray, overrun, stale>>

\* A process that has run for ten seconds is no longer a failure.
KeepRunning(e) ==
    /\ Running(e)
    /\ signature[e] = seen[e]
    /\ \/ UNCHANGED <<failures, delayed>>
       \/ failures' = [failures EXCEPT ![e] = 0] /\ delayed' = delayed \ {e}
    /\ todo' = todo \ {e}
    /\ UNCHANGED <<config, status, child, managed, signature, monitor, seen, stopVars, serverVars,
                   overrun, stale>>

BeginSpawning ==
    /\ monitor = "checking" /\ todo = {} /\ ~ Waiting
    /\ monitor' = "spawning"
    /\ todo' = {e \in Endpoints \ delayed : seen[e] # 0 /\ managed[e] = NoChild}
    /\ UNCHANGED <<config, status, child, managed, signature, failures, delayed, seen, stopVars,
                   serverVars, overrun, stale>>

Spawn(e, p) ==
    /\ monitor = "spawning" /\ e \in todo
    /\ child[p] = NoRow
    /\ child' = [child EXCEPT ![p] =
          [endpoint |-> e, version |-> 0, state |-> "spawned",
           kind |-> IF config[e].version \in ReaderVersions THEN "reader" ELSE "listener"]]
    /\ managed' = [managed EXCEPT ![e] = p]
    /\ status' = [status EXCEPT ![e] = "starting"]
    /\ signature' = [signature EXCEPT ![e] = seen[e]]
    /\ todo' = todo \ {e}
    /\ stale' = stale \ {e}
    /\ UNCHANGED <<config, failures, delayed, monitor, seen, stopVars, serverVars, overrun>>

\* An error of the database, or one of Popen after the status was written, ends
\* the sync.
FailToSpawn(e) ==
    /\ monitor = "spawning" /\ e \in todo
    /\ \/ UNCHANGED <<status, stale>>
       \/ status' = [status EXCEPT ![e] = "starting"] /\ stale' = stale \ {e}
    /\ monitor' = "idle" /\ todo' = {}
    /\ UNCHANGED <<config, child, managed, signature, failures, delayed, seen, stopVars,
                   serverVars, overrun>>

\* So does a database that cannot be opened to write what a sync has ended.
FailSync(e) ==
    /\ ending[e] \in SyncEndings
    /\ ending' = [ending EXCEPT ![e] = "no"]
    /\ Unwritten({e})
    /\ monitor' = "idle" /\ todo' = {}
    /\ UNCHANGED <<config, status, child, managed, signature, failures, delayed, seen,
                   stopping, halting, session, link, slots, overrun>>

EndSync ==
    /\ monitor = "spawning" /\ todo = {}
    /\ monitor' = "idle"
    /\ UNCHANGED <<config, status, child, managed, signature, failures, delayed, seen, todo,
                   stopVars, serverVars, overrun, stale>>

DelayEnds(e) ==
    /\ e \in delayed
    /\ delayed' = delayed \ {e}
    /\ UNCHANGED <<config, status, child, managed, signature, failures, monitor, seen, todo,
                   stopVars, serverVars, overrun, stale>>

-----------------------------------------------------------------------------
(* A process.  One the manager does not manage is an orphan.               *)

ChildIs(p, kind, state) == child[p] # NoRow /\ child[p].kind = kind /\ child[p].state = state

Orphan(p) == \A e \in Endpoints : managed[e] # p
Exit(p) == [child EXCEPT ![p] = IF Orphan(p) THEN NoRow ELSE [@ EXCEPT !.state = "exited"]]

ReadEndpoint(p) ==
    /\ child[p] # NoRow /\ child[p].state = "spawned"
    /\ LET c == config[child[p].endpoint]
       IN child' = IF c.enabled /\ (child[p].kind = "reader" => c.version \in ReaderVersions)
                   THEN [child EXCEPT ![p].version = c.version, ![p].state = "read"]
                   ELSE Exit(p)
    /\ UNCHANGED <<config, status, managerVars, serverVars, overrun, stale>>

Bind(p) ==
    /\ ChildIs(p, "listener", "read")
    /\ \A q \in Children \ {p} : child[q] # NoRow => child[q] # [child[p] EXCEPT !.state = "listening"]
    /\ child' = [child EXCEPT ![p].state = "listening"]
    /\ status' = [status EXCEPT ![child[p].endpoint] = "listening"]
    /\ UNCHANGED <<config, managerVars, serverVars, overrun, stale>>

FailToBind(p) ==
    /\ ChildIs(p, "listener", "read")
    /\ child' = Exit(p)
    /\ status' = [status EXCEPT ![child[p].endpoint] = "error"]
    /\ UNCHANGED <<config, managerVars, serverVars, overrun, stale>>

Crash(p) ==
    /\ ChildIs(p, "listener", "listening") \/ ChildIs(p, "reader", "listening") \/ ChildIs(p, "reader", "read")
    /\ child' = Exit(p)
    /\ link' = Unlinked({p}) /\ slots' = Vacated({p})
    /\ UNCHANGED <<config, status, managerVars, session, astray, overrun, stale>>

\* _watch_parent: the address is free before the status is written.
CloseOrphan(p) ==
    /\ ChildIs(p, "listener", "listening") /\ Orphan(p)
    /\ child' = [child EXCEPT ![p].state = "closing"]
    /\ UNCHANGED <<config, status, managerVars, serverVars, overrun, stale>>

LeaveOrphan(p) ==
    /\ child[p] # NoRow /\ child[p].state = "closing"
    /\ status' = [status EXCEPT ![child[p].endpoint] = "stopped"]
    /\ child' = [child EXCEPT ![p] = NoRow]
    /\ link' = Unlinked({p}) /\ slots' = Vacated({p})
    /\ UNCHANGED <<config, managerVars, session, astray, overrun, stale>>

-----------------------------------------------------------------------------
(* A connection: setup, and finish when its handler has ended.             *)

AcceptConnection(s, p) ==
    /\ session[s] = NoRow
    /\ ChildIs(p, "listener", "listening")
    /\ slots[p] < Capacity
    /\ slots' = [slots EXCEPT ![p] = @ + 1]
    /\ session' = [session EXCEPT ![s] = [endpoint |-> child[p].endpoint, online |-> TRUE]]
    /\ link' = [link EXCEPT ![s] = p]
    /\ UNCHANGED <<config, status, child, managerVars, astray, overrun, stale>>

\* The INSERT fails: finish is not called after a setup that raised, so the
\* slot stays taken.
FailToAccept(p) ==
    /\ ChildIs(p, "listener", "listening")
    /\ slots[p] < Capacity
    /\ slots' = [slots EXCEPT ![p] = @ + 1]
    /\ UNCHANGED <<config, status, child, managerVars, session, link, astray, overrun, stale>>

Served(s, kind) == link[s] # NoChild /\ child[link[s]].kind = kind

Finish(s) ==
    /\ Served(s, "listener")
    /\ session' = [session EXCEPT ![s].online = FALSE]
    /\ slots' = [slots EXCEPT ![link[s]] = @ - 1]
    /\ link' = [link EXCEPT ![s] = NoChild]
    /\ UNCHANGED <<config, status, child, managerVars, astray, overrun, stale>>

\* The UPDATE fails: the slot is not released either.
FailToFinish(s) ==
    /\ Served(s, "listener")
    /\ link' = [link EXCEPT ![s] = NoChild]
    /\ astray' = astray \cup {s}
    /\ UNCHANGED <<config, status, child, managerVars, session, slots, overrun, stale>>

-----------------------------------------------------------------------------
(* A reader: _run_connection, from one connection to the next.             *)

ConnectReader(s, p) ==
    /\ session[s] = NoRow
    /\ ChildIs(p, "reader", "read")
    /\ child' = [child EXCEPT ![p].state = "listening"]
    /\ status' = [status EXCEPT ![child[p].endpoint] = "listening"]
    /\ session' = [session EXCEPT ![s] = [endpoint |-> child[p].endpoint, online |-> TRUE]]
    /\ link' = [link EXCEPT ![s] = p]
    /\ UNCHANGED <<config, managerVars, slots, astray, overrun, stale>>

FailToConnect(p) ==
    /\ ChildIs(p, "reader", "read")
    /\ status' = [status EXCEPT ![child[p].endpoint] = "error"]
    /\ UNCHANGED <<config, child, managerVars, serverVars, overrun, stale>>

\* The reader has hung up, or the manager is gone.  The status stays.
HangUp(s) ==
    /\ Served(s, "reader")
    /\ session' = [session EXCEPT ![s].online = FALSE]
    /\ child' = [child EXCEPT ![link[s]].state = "read"]
    /\ link' = [link EXCEPT ![s] = NoChild]
    /\ UNCHANGED <<config, status, managerVars, slots, astray, overrun, stale>>

\* An exception while frames are exchanged skips the end of the session.
LoseReader(s) ==
    /\ Served(s, "reader")
    /\ status' = [status EXCEPT ![session[s].endpoint] = "error"]
    /\ child' = [child EXCEPT ![link[s]].state = "read"]
    /\ link' = [link EXCEPT ![s] = NoChild]
    /\ astray' = astray \cup {s}
    /\ UNCHANGED <<config, managerVars, session, slots, overrun, stale>>

LeaveReader(p) ==
    /\ ChildIs(p, "reader", "read") /\ Orphan(p)
    /\ status' = [status EXCEPT ![child[p].endpoint] = "stopped"]
    /\ child' = [child EXCEPT ![p] = NoRow]
    /\ UNCHANGED <<config, managerVars, serverVars, overrun, stale>>

GatewayNext ==
    \/ \E e \in Endpoints :
          \/ \E enabled \in BOOLEAN, v \in Versions : Reconfigure(e, enabled, v)
          \/ StopDisabled(e) \/ NoticeExit(e) \/ OverflowDelay(e) \/ StopChanged(e)
          \/ KeepRunning(e) \/ DelayEnds(e) \/ MissProcess(e) \/ StopProcess(e)
          \/ UpdateRuntime(e) \/ FailToUpdate(e) \/ FailSync(e) \/ FailToSpawn(e)
          \/ \E p \in Children : Spawn(e, p)
    \/ StartRuntime \/ BeginStop \/ EndRuntime \/ BeginSync \/ BeginSpawning \/ EndSync
    \/ \E p \in Children :
          \/ ReadEndpoint(p) \/ Bind(p) \/ FailToBind(p) \/ Crash(p)
          \/ CloseOrphan(p) \/ LeaveOrphan(p) \/ LeaveReader(p) \/ FailToConnect(p)
          \/ FailToAccept(p) \/ \E s \in Sessions : AcceptConnection(s, p) \/ ConnectReader(s, p)
    \/ \E s \in Sessions : Finish(s) \/ FailToFinish(s) \/ HangUp(s) \/ LoseReader(s)

GatewaySpec == GatewayInit /\ [][GatewayNext]_gatewayVars

-----------------------------------------------------------------------------
(* Properties.                                                             *)

\* The variables have values of their types.
GatewayTypeOK ==
    /\ config \in [Endpoints -> [enabled : BOOLEAN, version : Versions]]
    /\ status \in [Endpoints -> {"stopped", "starting", "listening", "error"}]
    /\ child \in [Children -> Child \cup {NoRow}]
    /\ managed \in [Endpoints -> Children \cup {NoChild}]
    /\ signature \in [Endpoints -> Versions \cup {0}]
    /\ failures \in [Endpoints -> 0 .. MaxFailures + 1]
    /\ delayed \subseteq Endpoints /\ todo \subseteq Endpoints /\ halting \subseteq Endpoints
    /\ overrun \subseteq Endpoints /\ stale \subseteq Endpoints
    /\ ending \in [Endpoints -> SyncEndings \cup {"halted", "no"}] /\ stopping \in BOOLEAN
    /\ monitor \in {"down", "idle", "checking", "spawning", "dead"}
    /\ seen \in [Endpoints -> Versions \cup {0}]
    /\ session \in [Sessions -> SessionRow \cup {NoRow}]
    /\ link \in [Sessions -> Children \cup {NoChild}]
    /\ slots \in [Children -> 0 .. Capacity]
    /\ astray \subseteq Sessions

\* The process of e has ended and the manager has not looked since.
Unnoticed(e) == managed[e] # NoChild /\ child[managed[e]].state = "exited"

\* What the tables say of the gateway is so, as long as no process outlived
\* its manager: a session is online while its connection is served, unless its
\* process ended unnoticed or just now, or its end was never written; an
\* endpoint is listening while its process is, or while its reader connects
\* again, unless the manager has ended that just now or failed to write it and
\* has not spawned another since; and no listener serves more than its slots,
\* no reader more than one connection.
RuntimeTellsTruth ==
    /\ \A s \in Sessions \ astray :
          session[s] # NoRow /\ session[s].online /\ session[s].endpoint \notin overrun =>
             \/ link[s] # NoChild
             \/ Unnoticed(session[s].endpoint) \/ ending[session[s].endpoint] # "no"
    /\ \A s \in Sessions : link[s] # NoChild =>
          Live(link[s]) /\ child[link[s]].endpoint = session[s].endpoint
    /\ \A e \in Endpoints \ (overrun \cup stale) : status[e] = "listening" /\ ending[e] = "no" =>
          /\ managed[e] # NoChild
          /\ \/ child[managed[e]].state \in {"listening", "exited"}
             \/ ChildIs(managed[e], "reader", "read")
    /\ \A p \in Children :
          LET served == Cardinality({s \in Sessions : link[s] = p})
          IN served > 0 => served <= IF child[p].kind = "reader" THEN 1 ELSE slots[p]
=============================================================================
