---------------------------- MODULE QualityCases -----------------------------
(***************************************************************************)
(* What quality disposition promises, with no machine, operator or         *)
(* transaction in sight: a defect found on a unit (a serial number at a    *)
(* route step) opens one case; a unit has one open case at a time; a case  *)
(* is decided once; a rework that succeeds is credited to production once, *)
(* and one that fails again hands over to the next case of the same unit.  *)
(***************************************************************************)
EXTENDS Naturals

CONSTANTS Cases, Unit

VARIABLES stage,    \* where each case stands
          verdict,  \* what was decided
          credit    \* good pieces production got out of each case

caseVars == <<stage, verdict, credit>>

OpenStages == {"pending_review", "approved", "task_started"}

CasesInit ==
    /\ stage = [c \in Cases |-> "none"]
    /\ verdict = [c \in Cases |-> "pending"]
    /\ credit = [c \in Cases |-> 0]

\* Cases of different units may be opened together.
Open(S) ==
    /\ \A c \in S :
        /\ stage[c] = "none"
        /\ \A o \in Cases : Unit[o] = Unit[c] => stage[o] \notin OpenStages
        /\ \A o \in S : Unit[o] = Unit[c] => o = c
    /\ stage' = [c \in Cases |-> IF c \in S THEN "pending_review" ELSE stage[c]]
    /\ UNCHANGED <<verdict, credit>>

Decide(c, v, to) ==
    /\ stage[c] = "pending_review"
    /\ \/ v = "rework" /\ to = "approved"
       \/ v \in {"scrap", "concession"} /\ to = "completed"
       \/ v = "pending" /\ to = "rejected"
    /\ stage' = [stage EXCEPT ![c] = to]
    /\ verdict' = [verdict EXCEPT ![c] = v]
    /\ UNCHANGED credit

Start(c) ==
    /\ stage[c] = "approved"
    /\ stage' = [stage EXCEPT ![c] = "task_started"]
    /\ UNCHANGED <<verdict, credit>>

Succeed(c) ==
    /\ stage[c] = "task_started"
    /\ stage' = [stage EXCEPT ![c] = "completed"]
    /\ credit' = [credit EXCEPT ![c] = @ + 1]
    /\ UNCHANGED verdict

Recur(c, n) ==
    /\ stage[c] = "task_started"
    /\ stage[n] = "none"
    /\ Unit[n] = Unit[c]
    /\ stage' = [stage EXCEPT ![c] = "completed", ![n] = "pending_review"]
    /\ UNCHANGED <<verdict, credit>>

CasesNext ==
    \/ \E S \in SUBSET Cases : Open(S)
    \/ \E c \in Cases :
        \/ \E v \in {"pending", "rework", "scrap", "concession"},
              to \in {"approved", "completed", "rejected"} : Decide(c, v, to)
        \/ Start(c)
        \/ Succeed(c)
        \/ \E n \in Cases : Recur(c, n)

CasesSpec == CasesInit /\ [][CasesNext]_caseVars
=============================================================================
