--------------------------- MODULE AimEventBridge ----------------------------
(***************************************************************************)
(* From an imported inspection report to the standard event the central    *)
(* platform receives (services/aim_event_bridge.py, the end of             *)
(* import_inspection_report, the event loop of machine_runtime.py).        *)
(*                                                                         *)
(* The report is one transaction, its sequence number and outbox row are a *)
(* second, and the dispatch of a row is a claim with a lease of a minute,  *)
(* a call of the sink and a last UPDATE.  Importers and the event loop     *)
(* run at the same time and each may die between two of these.             *)
(*                                                                         *)
(* An exception in the second transaction is logged and not rolled back:   *)
(* when the number has been counted but the event cannot be made, the next *)
(* commit of the caller stores the number alone.                           *)
(***************************************************************************)
EXTENDS Tables, Naturals, FiniteSets

CONSTANTS Reports, Carriers, NoCarrier   \* threads that import or dispatch

Outbox == [sequence : Nat, dispatched : BOOLEAN, owner : Carriers \cup {NoCarrier},
           leased : BOOLEAN]
Carrying == [report : Reports, stage : {"imported", "chosen", "claimed", "taken", "refused"}]

ASSUME BridgeAssumption == NoCarrier \notin Carriers

\* A row is no mark of a missing one.
ASSUME BridgeRowAssumption == NoRow \notin Outbox /\ NoCall \notin Carrying

VARIABLES reported,  \* iot_inspection_report
          sequence,  \* iot_aim_device_sequence.last_sequence
          outbox,    \* iot_aim_event_outbox
          carrying,  \* what each carrier is doing
          received,  \* external: events the sink has accepted
          lost,      \* history: reports whose importer stopped or failed before their row
          skipped    \* history: the number such a report has used up, 0 when none

bridgeVars == <<reported, sequence, outbox, carrying, received, lost, skipped>>

BridgeInit ==
    /\ reported = {} /\ sequence = 0
    /\ outbox = [r \in Reports |-> NoRow]
    /\ carrying = [c \in Carriers |-> NoCall]
    /\ received = {} /\ lost = {}
    /\ skipped = [r \in Reports |-> 0]

Is(c, stage) == carrying[c] # NoCall /\ carrying[c].stage = stage
Move(c, stage) == carrying' = [carrying EXCEPT ![c].stage = stage]
Drop(c) == carrying' = [carrying EXCEPT ![c] = NoCall]
Undispatched(r) == outbox[r] # NoRow /\ ~ outbox[r].dispatched

ImportReport(c, r) ==
    /\ carrying[c] = NoCall
    /\ r \notin reported
    /\ reported' = reported \cup {r}
    /\ carrying' = [carrying EXCEPT ![c] = [report |-> r, stage |-> "imported"]]
    /\ UNCHANGED <<sequence, outbox, received, lost, skipped>>

FaultyEnqueue(c) ==   \* a sequence number read outside the transaction
    /\ Is(c, "imported")
    /\ \E last \in {sequence, IF sequence > 0 THEN sequence - 1 ELSE 0} :
          /\ sequence' = last + 1
          /\ outbox' = [outbox EXCEPT ![carrying[c].report] =
                [sequence |-> last + 1, dispatched |-> FALSE, owner |-> NoCarrier, leased |-> FALSE]]
    /\ Move(c, "chosen")
    /\ UNCHANGED <<reported, received, lost, skipped>>

Enqueue(c) ==
    /\ Is(c, "imported")
    /\ sequence' = sequence + 1
    /\ outbox' = [outbox EXCEPT ![carrying[c].report] =
          [sequence |-> sequence + 1, dispatched |-> FALSE, owner |-> NoCarrier, leased |-> FALSE]]
    /\ Move(c, "chosen")
    /\ UNCHANGED <<reported, received, lost, skipped>>

\* The second transaction fails, which is only logged.  It had no number yet or
\* its caller drops what is open; or the number is stored by the commit with
\* which the collector ends the import.
FailToEnqueue(c) ==
    /\ Is(c, "imported")
    /\ lost' = lost \cup {carrying[c].report}
    /\ \/ UNCHANGED <<sequence, skipped>>
       \/ /\ sequence' = sequence + 1
          /\ skipped' = [skipped EXCEPT ![carrying[c].report] = sequence + 1]
    /\ Drop(c)
    /\ UNCHANGED <<reported, outbox, received>>

\* The carrier dies, or its dispatch ends in an exception.  What a later import
\* of the same file dispatches is an event nobody has stored.
StopCarrier(c) ==
    /\ carrying[c] # NoCall
    /\ lost' = IF Is(c, "imported") THEN lost \cup {carrying[c].report} ELSE lost
    /\ Drop(c)
    /\ UNCHANGED <<reported, sequence, outbox, received, skipped>>

ChooseEvent(c, r) ==
    /\ carrying[c] = NoCall
    /\ Undispatched(r)
    /\ carrying' = [carrying EXCEPT ![c] = [report |-> r, stage |-> "chosen"]]
    /\ UNCHANGED <<reported, sequence, outbox, received, lost, skipped>>

ClaimEvent(c) ==
    LET r == carrying[c].report
    IN /\ Is(c, "chosen")
       /\ IF Undispatched(r) /\ ~ outbox[r].leased
          THEN outbox' = [outbox EXCEPT ![r].owner = c, ![r].leased = TRUE] /\ Move(c, "claimed")
          ELSE UNCHANGED outbox /\ Drop(c)
       /\ UNCHANGED <<reported, sequence, received, lost, skipped>>

LeaseEnds(r) ==
    /\ outbox[r] # NoRow /\ outbox[r].leased
    /\ outbox' = [outbox EXCEPT ![r].leased = FALSE]
    /\ UNCHANGED <<reported, sequence, carrying, received, lost, skipped>>

SinkTakes(c) ==
    /\ Is(c, "claimed")
    /\ received' = received \cup {carrying[c].report}
    /\ Move(c, "taken")
    /\ UNCHANGED <<reported, sequence, outbox, lost, skipped>>

SinkRefuses(c) ==
    /\ Is(c, "claimed")
    /\ Move(c, "refused")
    /\ UNCHANGED <<reported, sequence, outbox, received, lost, skipped>>

FaultySettle(c) ==   \* the UPDATE names the event alone
    LET r == carrying[c].report
    IN /\ Is(c, "taken") \/ Is(c, "refused")
       /\ outbox' = [outbox EXCEPT ![r].dispatched = Is(c, "taken"),
                                   ![r].owner = NoCarrier, ![r].leased = FALSE]
       /\ Drop(c)
       /\ UNCHANGED <<reported, sequence, received, lost, skipped>>

\* UPDATE ... WHERE dispatch_owner = the token of this dispatch
Settle(c) ==
    LET r == carrying[c].report
    IN /\ Is(c, "taken") \/ Is(c, "refused")
       /\ outbox' = IF outbox[r].owner # c THEN outbox
                    ELSE [outbox EXCEPT ![r].dispatched = Is(c, "taken"),
                                        ![r].owner = NoCarrier, ![r].leased = FALSE]
       /\ Drop(c)
       /\ UNCHANGED <<reported, sequence, received, lost, skipped>>

BridgeNext ==
    \/ \E c \in Carriers :
          \/ \E r \in Reports : ImportReport(c, r) \/ ChooseEvent(c, r)
          \/ Enqueue(c) \/ FailToEnqueue(c) \/ StopCarrier(c)
          \/ ClaimEvent(c) \/ SinkTakes(c) \/ SinkRefuses(c) \/ Settle(c)
    \/ \E r \in Reports : LeaseEnds(r)

BridgeSpec == BridgeInit /\ [][BridgeNext]_bridgeVars

-----------------------------------------------------------------------------
(* Properties.                                                             *)

\* The variables have values of their types.
BridgeTypeOK ==
    /\ reported \subseteq Reports /\ received \subseteq Reports /\ lost \subseteq Reports
    /\ sequence \in Nat /\ skipped \in [Reports -> Nat]
    /\ outbox \in [Reports -> Outbox \cup {NoRow}]
    /\ carrying \in [Carriers -> Carrying \cup {NoCall}]

\* The reports a sequence number was counted for, with a row or without one.
NumberOf(r) == IF outbox[r] # NoRow THEN outbox[r].sequence ELSE skipped[r]
Numbered == {r \in Reports : outbox[r] # NoRow \/ skipped[r] # 0}

\* Whatever carriers die, fail or overlap: every number up to the last one was
\* counted for one report, whose event has it unless the import failed over
\* that event; a row is dispatched only when the sink has its event, and a
\* report is without an event only while it is being imported or when its
\* importer stopped or failed there.
BridgeLosesNothing ==
    LET stored == {r \in Reports : outbox[r] # NoRow}
    IN /\ {NumberOf(r) : r \in Numbered} = 1 .. sequence
       /\ \A r, s \in Numbered : NumberOf(r) = NumberOf(s) => r = s
       /\ \A r \in Numbered \ stored : r \in lost
       /\ \A r \in stored : outbox[r].dispatched => r \in received
       /\ \A r \in reported \ (stored \cup lost) :
             \E c \in Carriers : Is(c, "imported") /\ carrying[c].report = r

\* With the report of each sequence number as its queue the bridge does what
\* EventFeed promises, whatever leases end while the sink is at work: numbers
\* are given in turn, one that was skipped stays so, and a late settlement does
\* not undo another's.
Numbering == [n \in 1 .. sequence |-> CHOOSE r \in Numbered : NumberOf(r) = n]

Feed == INSTANCE EventFeed WITH
    queue <- Numbering,
    void <- {r \in Reports : skipped[r] # 0},
    dispatched <- {r \in Reports : outbox[r] # NoRow /\ outbox[r].dispatched}

ImplementsEventFeed == Feed!FeedSpec

\* When the second transaction of an import fails, the log says that "its
\* standard event is pending retry" (machine_access.py:533), and an import
\* must create one event (critical-business-fixes.md:29): a report has its
\* row of the outbox, unless its import is not over.
ImportsMakeEvents ==
    \A r \in reported :
       outbox[r] # NoRow \/ \E c \in Carriers : Is(c, "imported") /\ carrying[c].report = r
=============================================================================
