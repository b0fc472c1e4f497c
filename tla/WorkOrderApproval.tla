-------------------------- MODULE WorkOrderApproval --------------------------
(***************************************************************************)
(* Approval flows (blueprints/flow.py) and the draft work orders they      *)
(* release, which can also be released by freezing their route and BOM     *)
(* (release_workorder) or moved and deleted by hand                        *)
(* (services/production_flow.py, blueprints/production.py).                *)
(*                                                                         *)
(* Submitting, approving and rejecting are BEGIN IMMEDIATE transactions.   *)
(* A release, a status change and a deletion first read and judge the work *)
(* order and then write by id alone: two steps of the clerk making them.   *)
(***************************************************************************)
EXTENDS Tables, Naturals, Sequences

CONSTANTS Flows, Instances, WorkOrders,  \* ids the tables can give out
          NoWorkOrder,                   \* an approval of something else
          Approvers, StepLists,          \* the assignees of a flow's steps
          FlowClerks

ASSUME ApprovalAssumption ==
    /\ StepLists \subseteq Seq(Approvers) \ {<<>>}
    /\ NoWorkOrder \notin WorkOrders

FLOW == [running |-> 0, approved |-> 1, rejected |-> 2]

Definition == [steps : StepLists, enabled : BOOLEAN]
Instance == [flow : Flows, workorder : WorkOrders \cup {NoWorkOrder},
             status : 0 .. 2, current : Nat, steps : StepLists]

\* A row is no mark of a missing one.
ASSUME ApprovalRowAssumption ==
    /\ Definition \cap Absent = {}
    /\ NoRow \notin Instance
    /\ Deleted \notin 0 .. 6

FlowTask == [assignee : Approvers, status : 0 .. 2]
FlowCall == [kind : {"transition", "release", "delete"}, workorder : WorkOrders, to : 0 .. 6]

VARIABLES definition,  \* flow_definition
          instance,    \* flow_instance, with its steps_snapshot
          decision,    \* flow_task: of each instance its tasks by step_no
          approver,    \* sys_user.status = 1
          order,       \* prod_workorder.status
          frozen,      \* work orders with a route and BOM snapshot
          filed        \* what each clerk has judged and is about to write

approvalVars == <<definition, instance, decision, approver, order, frozen, filed>>

ApprovalInit ==
    /\ definition = [f \in Flows |-> NoRow]
    /\ instance = [n \in Instances |-> NoRow]
    /\ decision = [n \in Instances |-> <<>>]
    /\ approver = Approvers
    /\ order = [w \in WorkOrders |-> 0]
    /\ frozen = {}
    /\ filed = [c \in FlowClerks |-> NoCall]

\* _parse_steps: every assignee is an active user.
Parses(steps) == \A k \in DOMAIN steps : steps[k] \in approver

-----------------------------------------------------------------------------
(* Definitions of flows, and the users they name.                          *)

SaveDefinition(f, steps, enabled) ==
    /\ definition[f] # Deleted
    /\ Parses(steps)
    /\ definition' = [definition EXCEPT ![f] = [steps |-> steps, enabled |-> enabled]]
    /\ UNCHANGED <<instance, decision, approver, order, frozen, filed>>

\* The foreign key holds what the check before the deletion found.
DeleteDefinition(f) ==
    /\ definition[f] \notin Absent
    /\ \A n \in Instances : instance[n] # NoRow => instance[n].flow # f
    /\ definition' = [definition EXCEPT ![f] = Deleted]
    /\ UNCHANGED <<instance, decision, approver, order, frozen, filed>>

SwitchUser(u) ==
    /\ approver' = IF u \in approver THEN approver \ {u} ELSE approver \cup {u}
    /\ UNCHANGED <<definition, instance, decision, order, frozen, filed>>

-----------------------------------------------------------------------------
(* The life of an approval.                                                *)

Running(n) == instance[n] # NoRow /\ instance[n].status = FLOW.running

SubmitForApproval(n, f, w) ==
    /\ instance[n] = NoRow
    /\ definition[f] \notin Absent /\ definition[f].enabled
    /\ Parses(definition[f].steps)
    /\ w # NoWorkOrder =>
          /\ order[w] = 0
          /\ \A m \in Instances : Running(m) => instance[m].workorder # w
    /\ instance' = [instance EXCEPT ![n] =
                      [flow |-> f, workorder |-> w, status |-> FLOW.running,
                       current |-> 1, steps |-> definition[f].steps]]
    /\ decision' = [decision EXCEPT ![n] =
                      <<[assignee |-> definition[f].steps[1], status |-> 0]>>]
    /\ UNCHANGED <<definition, approver, order, frozen, filed>>

\* _get_pending_task: task k of instance n waits for user u.
Pending(u, n, k) ==
    /\ Running(n)
    /\ k \in DOMAIN decision[n]
    /\ decision[n][k] = [assignee |-> u, status |-> 0]

Decide(n, k, status) == [decision[n] EXCEPT ![k].status = status]

FaultyApproveLast(u, n, k) ==   \* releases whatever the work order is by now
    /\ Pending(u, n, k)
    /\ k = Len(instance[n].steps)
    /\ decision' = [decision EXCEPT ![n] = Decide(n, k, 1)]
    /\ instance' = [instance EXCEPT ![n].status = FLOW.approved, ![n].current = k]
    /\ LET w == instance[n].workorder
       IN order' = IF w = NoWorkOrder \/ order[w] = Deleted THEN order
                   ELSE [order EXCEPT ![w] = 1]
    /\ UNCHANGED <<definition, approver, frozen, filed>>

ApproveLast(u, n, k) ==
    /\ Pending(u, n, k)
    /\ k = Len(instance[n].steps)
    /\ decision' = [decision EXCEPT ![n] = Decide(n, k, 1)]
    /\ instance' = [instance EXCEPT ![n].status = FLOW.approved, ![n].current = k]
    /\ LET w == instance[n].workorder
       IN IF w = NoWorkOrder THEN UNCHANGED order
          ELSE /\ order[w] = 0      \* else rowcount is 0 and all is rolled back
               /\ order' = [order EXCEPT ![w] = 1]
    /\ UNCHANGED <<definition, approver, frozen, filed>>

FaultyApproveStep(u, n, k) ==   \* asks the definition for the next step
    LET steps == definition[instance[n].flow].steps
    IN /\ Pending(u, n, k)
       /\ k < Len(instance[n].steps) /\ k < Len(steps)
       /\ steps[k + 1] \in approver
       /\ Len(decision[n]) = k
       /\ decision' = [decision EXCEPT ![n] =
             Append(Decide(n, k, 1), [assignee |-> steps[k + 1], status |-> 0])]
       /\ instance' = [instance EXCEPT ![n].current = k + 1]
       /\ UNCHANGED <<definition, approver, order, frozen, filed>>

\* A step that has its task already is refused by the unique index.
ApproveStep(u, n, k) ==
    /\ Pending(u, n, k)
    /\ k < Len(instance[n].steps)
    /\ instance[n].steps[k + 1] \in approver
    /\ Len(decision[n]) = k
    /\ decision' = [decision EXCEPT ![n] =
          Append(Decide(n, k, 1), [assignee |-> instance[n].steps[k + 1], status |-> 0])]
    /\ instance' = [instance EXCEPT ![n].current = k + 1]
    /\ UNCHANGED <<definition, approver, order, frozen, filed>>

Reject(u, n, k) ==
    /\ Pending(u, n, k)
    /\ decision' = [decision EXCEPT ![n] = Decide(n, k, 2)]
    /\ instance' = [instance EXCEPT ![n].status = FLOW.rejected]
    /\ UNCHANGED <<definition, approver, order, frozen, filed>>

-----------------------------------------------------------------------------
(* Work orders moved without an approval.                                  *)

OrderTransitions == {<<0, 1>>, <<0, 6>>, <<1, 2>>, <<1, 4>>, <<1, 6>>, <<2, 3>>, <<2, 4>>,
                     <<4, 2>>, <<4, 6>>, <<3, 5>>}

JudgeOrder(c, w) ==
    /\ filed[c] = NoCall
    /\ order[w] # Deleted
    /\ \/ \E t \in OrderTransitions :
            /\ order[w] = t[1]
            /\ filed' = [filed EXCEPT ![c] = [kind |-> "transition", workorder |-> w, to |-> t[2]]]
       \/ /\ order[w] = 0 /\ w \notin frozen
          /\ filed' = [filed EXCEPT ![c] = [kind |-> "release", workorder |-> w, to |-> 1]]
       \/ /\ order[w] = 0
          /\ filed' = [filed EXCEPT ![c] = [kind |-> "delete", workorder |-> w, to |-> 0]]
    /\ UNCHANGED <<definition, instance, decision, approver, order, frozen>>

\* The snapshot is unique and refers to the order, so a second one and one of
\* a deleted order fail, and so does the deletion of an order that has one.
ApplyOrder(c) ==
    /\ filed[c] # NoCall
    /\ LET w == filed[c].workorder
           kind == filed[c].kind
           done == \/ kind = "transition" /\ order[w] # Deleted
                   \/ kind = "release" /\ order[w] # Deleted /\ w \notin frozen
                   \/ kind = "delete" /\ w \notin frozen
       IN /\ order' = IF ~ done THEN order
                      ELSE [order EXCEPT ![w] = IF kind = "delete" THEN Deleted ELSE filed[c].to]
          /\ frozen' = IF done /\ kind = "release" THEN frozen \cup {w} ELSE frozen
    /\ filed' = [filed EXCEPT ![c] = NoCall]
    /\ UNCHANGED <<definition, instance, decision, approver>>

ApprovalNext ==
    \/ \E f \in Flows :
          \/ \E steps \in StepLists, enabled \in BOOLEAN : SaveDefinition(f, steps, enabled)
          \/ DeleteDefinition(f)
          \/ \E n \in Instances, w \in WorkOrders \cup {NoWorkOrder} : SubmitForApproval(n, f, w)
    \/ \E u \in Approvers :
          \/ SwitchUser(u)
          \/ \E n \in Instances : \E k \in DOMAIN decision[n] :
                ApproveLast(u, n, k) \/ ApproveStep(u, n, k) \/ Reject(u, n, k)
    \/ \E c \in FlowClerks : ApplyOrder(c) \/ \E w \in WorkOrders : JudgeOrder(c, w)

ApprovalSpec == ApprovalInit /\ [][ApprovalNext]_approvalVars

-----------------------------------------------------------------------------
(* Properties.                                                             *)

\* The variables hold rows of the tables' types.
ApprovalTypeOK ==
    /\ definition \in [Flows -> Definition \cup Absent]
    /\ instance \in [Instances -> Instance \cup {NoRow}]
    /\ decision \in [Instances -> Seq(FlowTask)]
    /\ approver \subseteq Approvers
    /\ order \in [WorkOrders -> (0 .. 6) \cup {Deleted}]
    /\ frozen \subseteq WorkOrders
    /\ filed \in [FlowClerks -> FlowCall \cup {NoCall}]

\* The first k tasks of n were approved, each by the assignee that n's own
\* steps name.
ApprovedUpTo(n, k) ==
    \A j \in 1 .. k : decision[n][j] = [assignee |-> instance[n].steps[j], status |-> 1]

\* Approval n waits for the assignee of its current step and nobody else while
\* it runs, has every step approved by its assignee once approved, and stopped
\* at the step that was rejected.
DecidedInOrder(n) ==
    LET last == instance[n].current
    IN /\ last \in DOMAIN instance[n].steps
       /\ Len(decision[n]) = last
       /\ ApprovedUpTo(n, last - 1)
       /\ decision[n][last] = [assignee |-> instance[n].steps[last],
                               status |-> instance[n].status]
       /\ instance[n].status = FLOW.approved => last = Len(instance[n].steps)
       /\ definition[instance[n].flow] \notin Absent

\* However its definition is edited, its users are switched off and its work
\* order is moved meanwhile, an approval takes the steps it was submitted
\* with in their order, its definition still exists, and a work order has one
\* running approval.
StepsDecidedInOrder ==
    /\ \A n \in Instances : instance[n] # NoRow => DecidedInOrder(n)
    /\ \A m, n \in Instances :
          Running(m) /\ Running(n) /\ instance[m].workorder = instance[n].workorder
             => m = n \/ instance[m].workorder = NoWorkOrder

\* An approval of a work order ends approved in the very step that releases
\* the draft, and once decided no approval is decided again.
ApprovalReleasesDraft ==
    [][\A n \in Instances : instance[n] # NoRow =>
          /\ instance'[n].steps = instance[n].steps
          /\ instance[n].status # instance'[n].status =>
                /\ instance[n].status = FLOW.running
                /\ instance'[n].status = FLOW.approved /\ instance[n].workorder # NoWorkOrder =>
                      /\ order[instance[n].workorder] = 0
                      /\ order'[instance[n].workorder] = 1]_approvalVars
=============================================================================
