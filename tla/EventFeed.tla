------------------------------ MODULE EventFeed ------------------------------
(***************************************************************************)
(* What the bridge promises to the central platform of one AIM device: the *)
(* events of its reports form one queue, whose order is never changed      *)
(* later; a place in it may stay void, when the import of a report failed  *)
(* over its event; only what is in the queue is received, at least once;   *)
(* and an event is struck off when it has been received, for good.         *)
(***************************************************************************)
EXTENDS Naturals, Sequences

CONSTANT Reports

VARIABLES queue,      \* the reports, in the order of their sequence numbers
          void,       \* those of them that have no event
          received,   \* those the platform has accepted
          dispatched  \* those that will not be sent again

feedVars == <<queue, void, received, dispatched>>

FeedInit == queue = <<>> /\ void = {} /\ received = {} /\ dispatched = {}

Queued == {queue[n] : n \in DOMAIN queue}

Queue(r) ==
    /\ r \notin Queued
    /\ queue' = Append(queue, r)
    /\ UNCHANGED <<void, received, dispatched>>

Skip(r) ==
    /\ r \notin Queued
    /\ queue' = Append(queue, r)
    /\ void' = void \cup {r}
    /\ UNCHANGED <<received, dispatched>>

Receive(r) ==
    /\ r \in Queued \ (void \cup dispatched)
    /\ received' = received \cup {r}
    /\ UNCHANGED <<queue, void, dispatched>>

Strike(r) ==
    /\ r \in received
    /\ dispatched' = dispatched \cup {r}
    /\ UNCHANGED <<queue, void, received>>

FeedNext == \E r \in Reports : Queue(r) \/ Skip(r) \/ Receive(r) \/ Strike(r)

FeedSpec == FeedInit /\ [][FeedNext]_feedVars
=============================================================================
