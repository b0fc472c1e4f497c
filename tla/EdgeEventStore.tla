--------------------------- MODULE EdgeEventStore ---------------------------
(***************************************************************************)
(* The durable outbox of an edge gateway: table edge_event_outbox of       *)
(* backend/edge_gateway/event_store.py.  Every method of the class runs in *)
(* one SQLite transaction, so each is one action here.                     *)
(*                                                                         *)
(* Time is abstract.  The code compares lease_until and next_attempt_at    *)
(* with the wall clock; here leased and waiting say that the instant still *)
(* lies ahead, and LeaseRunsOut and BackoffElapses let it pass, at any     *)
(* moment.  A worker may therefore be slower or faster than any lease,     *)
(* which the configuration allows: a whole batch shares the lease taken    *)
(* when it was claimed, and its events are sent one after the other.       *)
(***************************************************************************)
EXTENDS DeviceEvents

CONSTANTS WorkerIds,    \* the values of worker_id: gateway id and process id
          NoWorker,     \* lease_owner IS NULL
          MaxToken,     \* bound: distinct lease tokens per row; 0 is NULL
          MaxAttempts   \* max_attempts of release()

ASSUME StoreAssumption ==
    /\ NoWorker \notin WorkerIds
    /\ MaxToken \in Nat
    /\ MaxAttempts \in Nat \ {0}

Tokens == 1..MaxToken

VARIABLES status,     \* "absent" when there is no row
          attempts,
          owner,      \* lease_owner
          token,      \* lease_token
          leased,     \* lease_until > now
          waiting,    \* next_attempt_at > now
          dead        \* dead_lettered_at IS NOT NULL

storeVars == <<status, attempts, owner, token, leased, waiting, dead>>

StoreTypeOK ==
    /\ status \in [Events -> {"absent", "pending", "acknowledged"}]
    /\ attempts \in [Events -> Nat]
    /\ owner \in [Events -> WorkerIds \union {NoWorker}]
    /\ token \in [Events -> Tokens \union {0}]
    /\ leased \in [Events -> BOOLEAN]
    /\ waiting \in [Events -> BOOLEAN]
    /\ dead \in [Events -> BOOLEAN]

StoreInit ==
    /\ status = [e \in Events |-> "absent"]
    /\ attempts = [e \in Events |-> 0]
    /\ owner = [e \in Events |-> NoWorker]
    /\ token = [e \in Events |-> 0]
    /\ leased = [e \in Events |-> FALSE]
    /\ waiting = [e \in Events |-> FALSE]
    /\ dead = [e \in Events |-> FALSE]

Recorded(e) == status[e] # "absent"

\* A row delivery still works on: pending and not dead-lettered.
Live(e) == status[e] = "pending" /\ ~dead[e]

Settled(e) == status[e] = "acknowledged" \/ dead[e]

(***************************************************************************)
(* append: INSERT OR IGNORE on the UNIQUE event_id.                        *)
(***************************************************************************)
AppendEvent(e) ==
    /\ \A o \in Events : Recorded(o) => ~SameId(o, e)
    /\ status' = [status EXCEPT ![e] = "pending"]
    /\ UNCHANGED <<attempts, owner, token, leased, waiting, dead>>

\* Faulty: an event in backoff does not hold back its stream.
ClaimablePastBackoff(e) ==
    /\ Live(e)
    /\ ~waiting[e]
    /\ ~leased[e]
    /\ \A o \in Events : Live(o) /\ ~waiting[o] => ~Precedes(o, e)

\* Faulty: a lease ends only when its owner gives it back.
ClaimableUnowned(e) ==
    /\ Live(e)
    /\ ~waiting[e]
    /\ owner[e] = NoWorker
    /\ \A o \in Events : Live(o) => ~Precedes(o, e)

(***************************************************************************)
(* claim_pending.  A row can be claimed when its retry time has come, no   *)
(* live lease is on it and no earlier event of its stream is still live.   *)
(***************************************************************************)
Claimable(e) ==
    /\ Live(e)
    /\ ~waiting[e]
    /\ ~leased[e]
    /\ \A o \in Events : Live(o) => ~Precedes(o, e)

\* The rows in S are leased to w under the tokens of newToken.
ClaimRows(w, S, newToken) ==
    /\ owner' = [e \in Events |-> IF e \in S THEN w ELSE owner[e]]
    /\ token' = [e \in Events |-> IF e \in S THEN newToken[e] ELSE token[e]]
    /\ leased' = [e \in Events |-> e \in S \/ leased[e]]
    /\ UNCHANGED <<status, attempts, waiting, dead>>

\* Faulty: the worker_id alone identifies the claimant.
HoldsLeaseByName(e, w, t) == status[e] = "pending" /\ owner[e] = w

\* The WHERE clause by which ack() and release() recognise the claimant.
HoldsLease(e, w, t) == status[e] = "pending" /\ owner[e] = w /\ token[e] = t

ClearLease(e) ==
    /\ owner' = [owner EXCEPT ![e] = NoWorker]
    /\ token' = [token EXCEPT ![e] = 0]
    /\ leased' = [leased EXCEPT ![e] = FALSE]

Ack(e, w, t) ==
    IF HoldsLease(e, w, t)
    THEN /\ status' = [status EXCEPT ![e] = "acknowledged"]
         /\ ClearLease(e)
         /\ UNCHANGED <<attempts, waiting, dead>>
    ELSE UNCHANGED storeVars

Release(e, w, t, permanent) ==
    IF HoldsLease(e, w, t)
    THEN /\ attempts' = [attempts EXCEPT ![e] = @ + 1]
         /\ waiting' = [waiting EXCEPT ![e] = TRUE]
         /\ dead' = [dead EXCEPT ![e] = permanent \/ attempts[e] + 1 >= MaxAttempts]
         /\ ClearLease(e)
         /\ UNCHANGED status
    ELSE UNCHANGED storeVars

(***************************************************************************)
(* replay_dead_letters(ids): back to the retry queue, with a clean slate.  *)
(***************************************************************************)
ReplayDeadLetters(S) ==
    LET replayed == {e \in S : status[e] = "pending" /\ dead[e]} IN
    /\ replayed # {}
    /\ dead' = [e \in Events |-> dead[e] /\ e \notin replayed]
    /\ attempts' = [e \in Events |-> IF e \in replayed THEN 0 ELSE attempts[e]]
    /\ waiting' = [e \in Events |-> waiting[e] /\ e \notin replayed]
    /\ UNCHANGED <<status, owner, token, leased>>

(***************************************************************************)
(* ack(event_id) and fail(event_id, error) called without a worker, the    *)
(* lease-free protocol of a simple sender.                                 *)
(***************************************************************************)
AckUnleased(e) ==
    /\ status[e] = "pending"
    /\ status' = [status EXCEPT ![e] = "acknowledged"]
    /\ ClearLease(e)
    /\ UNCHANGED <<attempts, waiting, dead>>

FailUnleased(e) ==
    /\ status[e] = "pending"
    /\ attempts[e] + 1 < MaxAttempts  \* bound: a higher count changes nothing
    /\ attempts' = [attempts EXCEPT ![e] = @ + 1]
    /\ UNCHANGED <<status, owner, token, leased, waiting, dead>>

LeaseRunsOut(e) ==
    /\ leased[e]
    /\ leased' = [leased EXCEPT ![e] = FALSE]
    /\ UNCHANGED <<status, attempts, owner, token, waiting, dead>>

BackoffElapses(e) ==
    /\ waiting[e]
    /\ waiting' = [waiting EXCEPT ![e] = FALSE]
    /\ UNCHANGED <<status, attempts, owner, token, leased, dead>>
=============================================================================
