----------------------------- MODULE CommandLog -----------------------------
(***************************************************************************)
(* What the command queue promises to whoever issues a command and to      *)
(* whoever audits it: a command is handed out only while it is open and    *)
(* its deadline lies ahead; one answer ends it, for good, and that is the  *)
(* answer to its latest hand-out; the log of its device tells all answers, *)
(* each once, in order and without a gap.                                  *)
(***************************************************************************)
EXTENDS Naturals, Sequences

CONSTANTS Commands, Devices, DeviceOf, Outcomes

VARIABLES outcome,   \* "unknown", "open", "lapsed" or the answer
          overdue,   \* commands whose deadline has passed
          handed,    \* how often each command was handed out
          answered,  \* the hand-out whose answer ended it; 0 for none
          log        \* of each device: its answers <<command, outcome>>

logVars == <<outcome, overdue, handed, answered, log>>

LogInit ==
    /\ outcome = [c \in Commands |-> "unknown"]
    /\ overdue = {}
    /\ handed = [c \in Commands |-> 0]
    /\ answered = [c \in Commands |-> 0]
    /\ log = [d \in Devices |-> <<>>]

Open == {c \in Commands : outcome[c] = "open"}

Issue(c) ==
    /\ outcome[c] = "unknown"
    /\ outcome' = [outcome EXCEPT ![c] = "open"]
    /\ UNCHANGED <<overdue, handed, answered, log>>

Expire(c) ==
    /\ overdue' = overdue \union {c}
    /\ UNCHANGED <<outcome, handed, answered, log>>

\* One claim: the commands in out are handed out, those in late are ended.
HandOut(out, late) ==
    /\ outcome' = [c \in Commands |-> IF c \in late THEN "lapsed" ELSE outcome[c]]
    /\ handed' = [c \in Commands |-> IF c \in out THEN handed[c] + 1 ELSE handed[c]]
    /\ UNCHANGED <<overdue, answered, log>>

Answer(c, o) ==
    /\ c \in Open
    /\ handed[c] > 0
    /\ outcome' = [outcome EXCEPT ![c] = o]
    /\ answered' = [answered EXCEPT ![c] = handed[c]]
    /\ log' = [log EXCEPT ![DeviceOf[c]] = Append(@, <<c, o>>)]
    /\ UNCHANGED <<overdue, handed>>

LogNext ==
    \/ \E c \in Commands : Issue(c) \/ Expire(c) \/ \E o \in Outcomes : Answer(c, o)
    \/ \E out \in SUBSET (Open \ overdue), late \in SUBSET (Open \intersect overdue) :
          HandOut(out, late)

LogSpec == LogInit /\ [][LogNext]_logVars
=============================================================================
