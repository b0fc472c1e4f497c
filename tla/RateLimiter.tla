----------------------------- MODULE RateLimiter -----------------------------
(***************************************************************************)
(* The limiter that stands in for flask-limiter (utils/rate_limiter.py).   *)
(* A request reads the clock and then, under the lock, drops the hits that *)
(* are older than its own longest window - of every client - counts what   *)
(* its client has left and adds its hit.                                   *)
(***************************************************************************)
EXTENDS Naturals, Sequences, FiniteSets, Functions

CONSTANTS Clients, Threads,
          Routes, LimitsOf,   \* of a route its <<count, window>> pairs: its own or the default ones
          EndOfTime, MaxHits, \* bounds: of the clock, and of the hits let in
          NoHit

ASSUME LimiterAssumption ==
    /\ LimitsOf \in [Routes -> SUBSET (Nat \X (Nat \ {0}))]
    /\ \A r \in Routes : LimitsOf[r] # {} /\ IsFiniteSet(LimitsOf[r])
    /\ EndOfTime \in Nat

Times == 0 .. EndOfTime
Hit == [client : Clients, route : Routes, at : Times]
Admitted == [client : Clients, route : Routes, at : Times, late : BOOLEAN]

VARIABLES clock,
          hits,     \* _storage: of each client, how many hits are of which time
          waiting,  \* requests that have read the clock and want the lock
          newest,   \* history: the latest clock of a request that had the lock
          admitted  \* history: the hits let in, `late` if a request with a
                    \* later clock had the lock before

limiterVars == <<clock, hits, waiting, newest, admitted>>

LimiterInit ==
    /\ clock = 0
    /\ hits = [c \in Clients |-> [at \in Times |-> 0]]
    /\ waiting = [t \in Threads |-> NoHit]
    /\ newest = 0 /\ admitted = <<>>

MaxWindow(r) == CHOOSE w \in {l[2] : l \in LimitsOf[r]} : \A l \in LimitsOf[r] : l[2] <= w

Tick ==
    /\ clock < EndOfTime
    /\ clock' = clock + 1
    /\ UNCHANGED <<hits, waiting, newest, admitted>>

ReadClock(t, c, r) ==
    /\ waiting[t] = NoHit
    /\ waiting' = [waiting EXCEPT ![t] = [client |-> c, route |-> r, at |-> clock]]
    /\ UNCHANGED <<clock, hits, newest, admitted>>

FaultyCleaned(now, window) ==   \* hits age one unit too early
    [c \in Clients |-> [at \in Times |-> IF at + window > now + 1 THEN hits[c][at] ELSE 0]]

\* _clean_storage: what is left of the hits of all clients.
Cleaned(now, window) ==
    [c \in Clients |-> [at \in Times |-> IF at + window > now THEN hits[c][at] ELSE 0]]

Within(counts, now, window) == SumFunctionOnSet(counts, {at \in Times : now < at + window})

\* A request over one of its limits is answered with 429 and leaves no hit.
CheckLimit(t) ==
    /\ waiting[t] # NoHit
    /\ LET h == waiting[t]
           kept == Cleaned(h.at, MaxWindow(h.route))
           free == \A l \in LimitsOf[h.route] : Within(kept[h.client], h.at, l[2]) < l[1]
       IN /\ IF free
             THEN /\ Len(admitted) < MaxHits
                  /\ hits' = [kept EXCEPT ![h.client][h.at] = @ + 1]
                  /\ admitted' = Append(admitted, [client |-> h.client, route |-> h.route,
                                                  at |-> h.at, late |-> h.at < newest])
             ELSE hits' = kept /\ UNCHANGED admitted
          /\ newest' = IF h.at > newest THEN h.at ELSE newest
    /\ waiting' = [waiting EXCEPT ![t] = NoHit]
    /\ UNCHANGED clock

LimiterNext ==
    \/ Tick
    \/ \E t \in Threads : CheckLimit(t) \/ \E c \in Clients, r \in Routes : ReadClock(t, c, r)

LimiterSpec == LimiterInit /\ [][LimiterNext]_limiterVars

-----------------------------------------------------------------------------
(* Properties.                                                             *)

\* The variables have values of their types.
LimiterTypeOK ==
    /\ clock \in Times /\ newest \in Times
    /\ hits \in [Clients -> [Times -> Nat]]
    /\ waiting \in [Threads -> Hit \cup {NoHit}]
    /\ admitted \in Seq(Admitted)

\* Nobody gets more requests through within a window than the limit of the
\* route asked for last allows, on whatever routes the earlier ones were - for
\* the windows no longer than the longest of every route, and for requests no
\* later one overtook on the way to the lock: longer windows are cut short by
\* requests for routes that remember less.
LimitsHold ==
    \A i \in DOMAIN admitted : ~ admitted[i].late =>
        \A l \in LimitsOf[admitted[i].route] :
           (\A r \in Routes : l[2] <= MaxWindow(r)) =>
              Cardinality({j \in 1 .. i - 1 : /\ admitted[j].client = admitted[i].client
                                              /\ admitted[i].at < admitted[j].at + l[2]}) < l[1]
=============================================================================
