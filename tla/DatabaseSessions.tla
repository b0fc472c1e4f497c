--------------------------- MODULE DatabaseSessions --------------------------
(***************************************************************************)
(* The database connection of a web request (utils/database.py,            *)
(* utils/postgres_compat.py), under the transaction every service opens    *)
(* with its _atomic, here the one of plan control                          *)
(* (services/plan_control_service.py), for one product and stage.          *)
(*                                                                         *)
(* On SQLite a request has a connection of its own, a SELECT opens no      *)
(* transaction and BEGIN IMMEDIATE admits one writer.  On PostgreSQL all   *)
(* requests of the process share one connection, any statement opens a     *)
(* transaction, and the request that ends closes the connection of all.    *)
(***************************************************************************)
EXTENDS Tables, Integers, Sequences, FiniteSets, Functions

CONSTANTS PlanUsers,
          Adjustments,       \* quantities a request adds or takes away
          MaxPlanQty         \* MAX_PLAN_QTY, 999999999

ASSUME SessionsAssumption ==
    /\ Adjustments \subseteq Int \ {0}
    /\ MaxPlanQty \in Nat
    /\ IsFiniteSet(PlanUsers)   \* what they are promised is added up

PlanRow == {NoRow} \cup (0 .. MaxPlanQty)

\* One connection per user is enough, for a new one is opened only when the
\* shared one is closed.
Connections == PlanUsers

Connection == [open : BOOLEAN, active : BOOLEAN, row : PlanRow, marks : Seq(PlanRow)]
PlanRequest ==
    [stage : {"authorised", "begun", "read", "written", "done", "failed"},
     on : Connections, nested : BOOLEAN, by : Adjustments, found : PlanRow]

\* A row is a quantity, a request is no mark of a missing one.
ASSUME SessionsRowAssumption == NoRow \notin Int /\ NoCall \notin PlanRequest

VARIABLES dialect,     \* DB_TYPE, from the environment
          planRow,     \* prod_plan_control as committed
          connection,  \* each connection and its uncommitted view of the row
          shared,      \* _CONNECTION of postgres_compat
          planRequest, \* what each user's request is doing
          promised     \* history: what requests answered as done have added up to

sessionVars == <<dialect, planRow, connection, shared, planRequest, promised>>

Closed0 == [open |-> FALSE, active |-> FALSE, row |-> NoRow, marks |-> <<>>]

SessionsInit ==
    /\ dialect \in {"sqlite", "postgresql"}
    /\ planRow = NoRow
    /\ connection = [c \in Connections |-> Closed0]
    /\ shared \in Connections
    /\ planRequest = [u \in PlanUsers |-> NoCall]
    /\ promised = 0

At(u, stage) == planRequest[u] # NoCall /\ planRequest[u].stage = stage
Of(u) == connection[planRequest[u].on]
Step(u, stage) == planRequest' = [planRequest EXCEPT ![u].stage = stage]
Quantity(row) == IF row = NoRow THEN 0 ELSE row

\* A statement on an open connection that has no transaction opens one on
\* PostgreSQL; it sees what is committed.
Touched(conn) ==
    IF conn.active \/ dialect = "sqlite" THEN conn
    ELSE [conn EXCEPT !.active = TRUE, !.row = planRow]

\* get_db: the connections free for a new request of user u.
Available(u) ==
    IF dialect = "sqlite" THEN {u}
    ELSE IF connection[shared].open THEN {shared}
    ELSE {c \in Connections : \A w \in PlanUsers : planRequest[w] # NoCall => planRequest[w].on # c}

-----------------------------------------------------------------------------
\* The session's user and its permissions are read first.
Authorise(u, by) ==
    /\ planRequest[u] = NoCall
    /\ \E c \in Available(u) :
          /\ connection' = [connection EXCEPT ![c] = Touched([@ EXCEPT !.open = TRUE])]
          /\ shared' = IF dialect = "sqlite" THEN shared ELSE c
          /\ planRequest' = [planRequest EXCEPT ![u] =
                [stage |-> "authorised", on |-> c, nested |-> FALSE, by |-> by, found |-> NoRow]]
    /\ UNCHANGED <<dialect, planRow, promised>>

FaultyBeginWork(u) ==   \* BEGIN DEFERRED, which waits for nobody
    /\ At(u, "authorised")
    /\ Of(u).open /\ ~ Of(u).active
    /\ connection' = [connection EXCEPT ![planRequest[u].on].active = TRUE,
                                        ![planRequest[u].on].row = planRow]
    /\ Step(u, "begun")
    /\ UNCHANGED <<dialect, planRow, shared, promised>>

\* BEGIN IMMEDIATE waits for the one writer there is.
BeginWork(u) ==
    /\ At(u, "authorised")
    /\ Of(u).open /\ ~ Of(u).active
    /\ \A c \in Connections : ~ connection[c].active
    /\ connection' = [connection EXCEPT ![planRequest[u].on].active = TRUE,
                                        ![planRequest[u].on].row = planRow]
    /\ Step(u, "begun")
    /\ UNCHANGED <<dialect, planRow, shared, promised>>

BeginNested(u) ==
    /\ At(u, "authorised")
    /\ Of(u).open /\ Of(u).active
    /\ connection' = [connection EXCEPT ![planRequest[u].on].marks = Append(@, Of(u).row)]
    /\ planRequest' = [planRequest EXCEPT ![u].stage = "begun", ![u].nested = TRUE]
    /\ UNCHANGED <<dialect, planRow, shared, promised>>

\* A product and stage without a row gets one first.
ReadPlanRow(u) ==
    /\ At(u, "begun") /\ Of(u).open
    /\ connection' = [connection EXCEPT ![planRequest[u].on].row = Quantity(@)]
    /\ planRequest' = [planRequest EXCEPT ![u].stage = "read", ![u].found = Quantity(Of(u).row)]
    /\ UNCHANGED <<dialect, planRow, shared, promised>>

\* ok_qty, which nothing in the repository writes, is 0.
Permitted(plan, by) == plan + by <= MaxPlanQty /\ - by <= plan

WritePlanRow(u) ==
    LET r == planRequest[u]
    IN /\ At(u, "read") /\ Of(u).open
       /\ Permitted(r.found, r.by)
       /\ connection' = [connection EXCEPT ![r.on].row = r.found + r.by]
       /\ Step(u, "written")
       /\ UNCHANGED <<dialect, planRow, shared, promised>>

FaultyEndWork(u) ==   \* never commits
    /\ At(u, "written") /\ Of(u).open
    /\ connection' = [connection EXCEPT ![planRequest[u].on].marks =
                         IF @ = <<>> THEN @ ELSE SubSeq(@, 1, Len(@) - 1)]
    /\ Step(u, "done")
    /\ UNCHANGED <<dialect, planRow, shared, promised>>

\* RELEASE SAVEPOINT inside another transaction, COMMIT otherwise.
EndWork(u) ==
    /\ At(u, "written") /\ Of(u).open
    /\ IF planRequest[u].nested
       THEN /\ connection' = [connection EXCEPT ![planRequest[u].on].marks =
                                SubSeq(@, 1, Len(@) - 1)]
            /\ UNCHANGED planRow
       ELSE /\ connection' = [connection EXCEPT ![planRequest[u].on].active = FALSE]
            /\ planRow' = Of(u).row
    /\ Step(u, "done")
    /\ UNCHANGED <<dialect, shared, promised>>

\* A quantity that is not permitted or any other error, a writer waited for
\* too long included: what the request has done is rolled back.
FailWork(u) ==
    /\ \E stage \in {"authorised", "begun", "read", "written"} : At(u, stage)
    /\ Of(u).open
    /\ connection' =
          IF At(u, "authorised") THEN connection
          ELSE IF planRequest[u].nested
          THEN LET marks == Of(u).marks
               IN [connection EXCEPT ![planRequest[u].on].row = marks[Len(marks)],
                                     ![planRequest[u].on].marks = SubSeq(marks, 1, Len(marks) - 1)]
          ELSE [connection EXCEPT ![planRequest[u].on].active = FALSE]
    /\ Step(u, "failed")
    /\ UNCHANGED <<dialect, planRow, shared, promised>>

\* The connection was closed by another request: an exception.
LoseConnection(u) ==
    /\ \E stage \in {"authorised", "begun", "read", "written"} : At(u, stage)
    /\ ~ Of(u).open
    /\ Step(u, "failed")
    /\ UNCHANGED <<dialect, planRow, connection, shared, promised>>

\* close_db, when the answer is made: what was not committed is lost.
CloseSession(u) ==
    /\ At(u, "done") \/ At(u, "failed")
    /\ connection' = [connection EXCEPT ![planRequest[u].on] = Closed0]
    /\ promised' = IF At(u, "done") THEN promised + planRequest[u].by ELSE promised
    /\ planRequest' = [planRequest EXCEPT ![u] = NoCall]
    /\ UNCHANGED <<dialect, planRow, shared>>

SessionsNext ==
    \E u \in PlanUsers :
       \/ \E by \in Adjustments : Authorise(u, by)
       \/ BeginWork(u) \/ BeginNested(u) \/ ReadPlanRow(u) \/ WritePlanRow(u)
       \/ EndWork(u) \/ FailWork(u) \/ LoseConnection(u) \/ CloseSession(u)

SessionsSpec == SessionsInit /\ [][SessionsNext]_sessionVars

-----------------------------------------------------------------------------
(* Properties.                                                             *)

\* The variables hold rows and connections of their types.
SessionsTypeOK ==
    /\ dialect \in {"sqlite", "postgresql"}
    /\ planRow \in PlanRow
    /\ connection \in [Connections -> Connection]
    /\ shared \in Connections
    /\ planRequest \in [PlanUsers -> PlanRequest \cup {NoCall}]
    /\ promised \in Int

\* Requests that have committed and are about to be answered.
Committed == {u \in PlanUsers : At(u, "done") /\ ~ planRequest[u].nested}

\* What requests were told is done is what the database holds, counted with
\* the ones that have committed and are about to be answered: nothing answered
\* is lost, no two requests write over each other, and what failed left
\* nothing behind (receiving_service.py: all in one transaction).
AnsweredIsDurable ==
    Quantity(planRow) = promised + SumFunction([u \in Committed |-> planRequest[u].by])

\* On SQLite that is so, whichever requests overlap, fail or wait too long,
\* and a connection that is not in use holds no transaction open.
DurableOnSqlite ==
    dialect = "sqlite" =>
        /\ AnsweredIsDurable
        /\ \A c \in Connections : connection[c].active => planRequest[c] # NoCall

\* On SQLite every request is one atomic update of the quantity: it takes
\* effect when it commits, on the quantity then stored, within its limits, or
\* not at all.
StateOf(u) ==
    IF planRequest[u] = NoCall THEN "idle"
    ELSE IF planRequest[u].stage \in {"done", "failed"} THEN planRequest[u].stage ELSE "asked"

Atomic == INSTANCE AtomicUpdates WITH
    Users <- PlanUsers, Updates <- Adjustments, Limit <- MaxPlanQty,
    value <- Quantity(planRow),
    state <- [u \in PlanUsers |-> StateOf(u)],
    update <- [u \in PlanUsers |-> IF planRequest[u] = NoCall THEN 0 ELSE planRequest[u].by]

AtomicOnSqlite ==
    [][dialect = "sqlite" => [Atomic!AtomicNext]_(Atomic!atomicVars)]_sessionVars
=============================================================================
