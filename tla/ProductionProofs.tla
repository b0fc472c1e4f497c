-------------------------- MODULE ProductionProofs ---------------------------
(***************************************************************************)
(* Proofs about the production chain: the approval of work orders, the     *)
(* reports of their tasks, the plans of sales orders, the stock and the    *)
(* purchase of goods.                                                      *)
(*                                                                         *)
(* Approval. The heart of StepsDecidedInOrder is PendingIsCurrent: a task  *)
(* that waits is the task of the current step, since all before it are     *)
(* approved and none is behind.                                            *)
(*                                                                         *)
(* Reports. The books of the tasks are sums over the posted reports        *)
(* (TasksBooked). A report adds to them once it is posted, so each step    *)
(* changes them by what one row gains or loses (QualifiedOf, DefectiveOf). *)
(* CallsFit says what a clerk in the middle of a request may write,        *)
(* ReportsHaveTasks that the task of a report is there to be booked.       *)
(*                                                                         *)
(* Plans. What the plans of an order, the batches of a plan and the work   *)
(* orders of a batch come to stays within what the order, the plan and the *)
(* batch have, though a planner sums the rows in one transaction and       *)
(* writes in another: what he has seen still holds when he writes          *)
(* (PlannersRemember), on sources that exist (SourcesExist, SoundPlans).   *)
(*                                                                         *)
(* Stock. Booking a document line by line keeps right books (BookIsRight,  *)
(* RightBooks): each entry carries the balance the entries before it       *)
(* leave, and the balances are those after the last.                       *)
(*                                                                         *)
(* Purchasing. StatusTellsReceipts is not inductive: that an approved      *)
(* order is not complete at once needs that it has items (HasItems), that  *)
(* they order something (OrdersSomething) and that nothing of them is      *)
(* posted, which holds since only lines post (GoodsComeOnLines) and a line *)
(* keeps its order receivable (ArrivalsKeepTheirOrder). ReceiptsAddUp is   *)
(* not inductive either: that a posting adds to the item and to the stock  *)
(* what its line posts needs the balance of every line (LinesBalance) and  *)
(* that every posting has its line (PostingsHaveLines). The sums over      *)
(* lines, items and postings then change by one addend a step.             *)
(*                                                                         *)
(* Together. A behaviour of MCProduction is one of each module.            *)
(***************************************************************************)
EXTENDS MCProduction, Sums

-----------------------------------------------------------------------------
(***************************************************************************)
(* APPROVAL                                                                *)
(***************************************************************************)

ApprovalInv == ApprovalTypeOK /\ StepsDecidedInOrder

-----------------------------------------------------------------------------
(* The initial state.                                                      *)

LEMMA ApprovalStarts == ApprovalInit => ApprovalInv
<1> SUFFICES ASSUME ApprovalInit PROVE ApprovalInv
  OBVIOUS
<1>1. ApprovalTypeOK
  BY DEF ApprovalInit, ApprovalTypeOK, Absent
<1>2. StepsDecidedInOrder
  BY DEF ApprovalInit, StepsDecidedInOrder, Running
<1> QED
  BY <1>1, <1>2 DEF ApprovalInv

-----------------------------------------------------------------------------
(* What the invariant says of an approval that runs.                       *)

\* A waiting task is the one of the current step.
LEMMA PendingIsCurrent ==
  ASSUME ApprovalInv, NEW u, NEW n \in Instances, NEW k, Pending(u, n, k)
  PROVE  /\ instance[n] \in Instance /\ instance[n] # NoRow
         /\ instance[n].status = 0
         /\ k = instance[n].current
         /\ k \in 1 .. Len(instance[n].steps)
         /\ Len(decision[n]) = k
         /\ decision[n] \in Seq(FlowTask)
         /\ ApprovedUpTo(n, k - 1)
         /\ u = instance[n].steps[k]
<1>1. instance[n] \in Instance /\ instance[n] # NoRow /\ instance[n].status = 0
  BY DEF Pending, Running, FLOW, ApprovalInv, ApprovalTypeOK
<1>2. DecidedInOrder(n)
  BY <1>1 DEF ApprovalInv, StepsDecidedInOrder
<1>3. instance[n].steps \in Seq(Approvers)
  BY <1>1, ApprovalAssumption DEF Instance
<1>4. decision[n] \in Seq(FlowTask)
  BY DEF ApprovalInv, ApprovalTypeOK
<1> DEFINE last == instance[n].current
<1>5. /\ last \in 1 .. Len(instance[n].steps)
      /\ Len(decision[n]) = last
      /\ ApprovedUpTo(n, last - 1)
      /\ decision[n][last] = [assignee |-> instance[n].steps[last], status |-> 0]
  BY <1>1, <1>2, <1>3 DEF DecidedInOrder
<1>6. k \in 1 .. last /\ decision[n][k] = [assignee |-> u, status |-> 0]
  BY <1>4, <1>5 DEF Pending
<1>7. k = last
  <2>1. ASSUME k # last PROVE FALSE
    <3>1. k \in 1 .. (last - 1)
      BY <1>5, <1>6, <2>1
    <3>2. decision[n][k] = [assignee |-> instance[n].steps[k], status |-> 1]
      BY <3>1, <1>5 DEF ApprovedUpTo
    <3>3. decision[n][k].status = 1 /\ decision[n][k].status = 0
      BY <3>2, <1>6
    <3> QED
      BY <3>3
  <2> QED
    BY <2>1
<1>8. u = instance[n].steps[k]
  <2>1. [assignee |-> u, status |-> 0].assignee
           = [assignee |-> instance[n].steps[k], status |-> 0].assignee
    BY <1>5, <1>6, <1>7
  <2> QED
    BY <2>1
<1> QED
  BY <1>1, <1>4, <1>5, <1>7, <1>8

\* What an approval says of itself depends on its own rows and on its
\* definition being there.
LEMMA OthersKeepTheirOrder ==
  ASSUME ApprovalInv, NEW n \in Instances, instance[n] # NoRow,
         instance'[n] = instance[n], decision'[n] = decision[n],
         definition'[instance[n].flow] \notin Absent
  PROVE  DecidedInOrder(n)'
<1>1. DecidedInOrder(n)
  BY DEF ApprovalInv, StepsDecidedInOrder
<1> QED
  BY <1>1 DEF DecidedInOrder, ApprovedUpTo

\* A decision keeps what all other approvals say, and lets nobody run who
\* did not.
LEMMA DecisionKeepsOthers ==
  ASSUME ApprovalInv, NEW n \in Instances, instance[n] # NoRow, definition' = definition,
         NEW row, instance' = [instance EXCEPT ![n] = row],
         NEW tasks, decision' = [decision EXCEPT ![n] = tasks],
         row # NoRow, row.workorder = instance[n].workorder,
         instance[n].status = FLOW.running,
         DecidedInOrder(n)'
  PROVE  StepsDecidedInOrder'
<1> USE DEF ApprovalInv
<1>1. ASSUME NEW m \in Instances, instance'[m] # NoRow PROVE DecidedInOrder(m)'
  <2>1. CASE m = n
    BY <2>1
  <2>2. CASE m # n
    <3>1. instance'[m] = instance[m] /\ decision'[m] = decision[m]
      BY <2>2 DEF ApprovalTypeOK
    <3>2. definition'[instance[m].flow] \notin Absent
      BY <1>1, <3>1 DEF StepsDecidedInOrder, DecidedInOrder
    <3> QED
      BY <1>1, <3>1, <3>2, OthersKeepTheirOrder
  <2> QED
    BY <2>1, <2>2
<1>2. ASSUME NEW m \in Instances, NEW k \in Instances,
             Running(m)', Running(k)', instance'[m].workorder = instance'[k].workorder
      PROVE  m = k \/ instance'[m].workorder = NoWorkOrder
  <2>1. \A j \in Instances : Running(j)' =>
           Running(j) /\ instance'[j].workorder = instance[j].workorder
    BY DEF Running, ApprovalTypeOK
  <2> QED
    BY <1>2, <2>1 DEF StepsDecidedInOrder
<1> QED
  BY <1>1, <1>2 DEF StepsDecidedInOrder

-----------------------------------------------------------------------------
(* Every action keeps the invariant.                                       *)

LEMMA DefinitionsKeepInv ==
  ASSUME ApprovalInv, NEW f \in Flows,
         \/ \E steps \in StepLists, enabled \in BOOLEAN : SaveDefinition(f, steps, enabled)
         \/ DeleteDefinition(f)
  PROVE  ApprovalInv'
<1> USE DEF ApprovalInv
<1>1. ApprovalTypeOK'
  BY DEF ApprovalTypeOK, SaveDefinition, DeleteDefinition, Definition, Absent
<1>2. UNCHANGED <<instance, decision>>
  BY DEF SaveDefinition, DeleteDefinition
<1>3. ASSUME NEW n \in Instances, instance[n] # NoRow PROVE definition'[instance[n].flow] \notin Absent
  <2>1. definition[instance[n].flow] \notin Absent /\ instance[n].flow \in Flows
    BY <1>3 DEF StepsDecidedInOrder, DecidedInOrder, ApprovalTypeOK, Instance
  <2>2. CASE \E steps \in StepLists, enabled \in BOOLEAN : SaveDefinition(f, steps, enabled)
    BY <2>1, <2>2, ApprovalRowAssumption DEF SaveDefinition, Definition, ApprovalTypeOK
  <2>3. CASE DeleteDefinition(f)
    BY <1>3, <2>1, <2>3 DEF DeleteDefinition, ApprovalTypeOK
  <2> QED
    BY <2>2, <2>3
<1>4. \A n \in Instances : instance'[n] # NoRow => DecidedInOrder(n)'
  BY <1>2, <1>3, OthersKeepTheirOrder
<1>5. StepsDecidedInOrder'
  BY <1>2, <1>4 DEF StepsDecidedInOrder, Running
<1> QED
  BY <1>1, <1>5

\* Nothing the approvals are made of.
LEMMA RestKeepsInv ==
  ASSUME ApprovalInv, UNCHANGED <<definition, instance, decision>>,
         approver' \subseteq Approvers,
         order' \in [WorkOrders -> (0 .. 6) \cup {Deleted}],
         frozen' \subseteq WorkOrders,
         filed' \in [FlowClerks -> FlowCall \cup {NoCall}]
  PROVE  ApprovalInv'
<1> USE DEF ApprovalInv
<1>1. ApprovalTypeOK'
  BY DEF ApprovalTypeOK
<1>2. \A n \in Instances : instance'[n] # NoRow => DecidedInOrder(n)'
  BY DEF StepsDecidedInOrder, DecidedInOrder, ApprovedUpTo
<1>3. StepsDecidedInOrder'
  BY <1>2 DEF StepsDecidedInOrder, Running
<1> QED
  BY <1>1, <1>3

LEMMA SubmitKeepsInv ==
  ASSUME ApprovalInv, NEW f \in Flows, NEW n \in Instances, NEW w \in WorkOrders \cup {NoWorkOrder},
         SubmitForApproval(n, f, w)
  PROVE  ApprovalInv'
<1> USE DEF ApprovalInv
<1> DEFINE steps == definition[f].steps
           row == [flow |-> f, workorder |-> w, status |-> 0, current |-> 1, steps |-> steps]
           tasks == <<[assignee |-> steps[1], status |-> 0]>>
<1>1. definition[f] \in Definition /\ definition[f] \notin Absent
  BY DEF SubmitForApproval, ApprovalTypeOK
<1>2. steps \in StepLists /\ steps \in Seq(Approvers) /\ 1 \in DOMAIN steps /\ steps[1] \in Approvers
  <2>1. steps \in StepLists
    BY <1>1 DEF Definition
  <2>2. steps \in Seq(Approvers) /\ steps # <<>>
    BY <2>1, ApprovalAssumption
  <2> QED
    BY <2>1, <2>2
<1>3. /\ instance' = [instance EXCEPT ![n] = row]
      /\ decision' = [decision EXCEPT ![n] = tasks]
      /\ UNCHANGED <<definition, approver, order, frozen, filed>>
      /\ instance[n] = NoRow
  BY DEF SubmitForApproval, FLOW
<1>4. row \in Instance
  BY <1>2 DEF Instance
<1>5. tasks \in Seq(FlowTask)
  BY <1>2 DEF FlowTask
<1>6. ApprovalTypeOK'
  BY <1>3, <1>4, <1>5 DEF ApprovalTypeOK
<1>7. ASSUME NEW m \in Instances, instance'[m] # NoRow PROVE DecidedInOrder(m)'
  <2>1. CASE m = n
    <3>1. instance'[m] = row /\ decision'[m] = tasks /\ definition' = definition
      BY <1>3, <2>1 DEF ApprovalTypeOK
    <3>2. /\ instance'[m].current = 1 /\ instance'[m].steps = steps
          /\ instance'[m].status = 0 /\ instance'[m].flow = f
      BY <3>1
    <3>3. Len(decision'[m]) = 1 /\ decision'[m][1] = [assignee |-> steps[1], status |-> 0]
      BY <3>1
    <3>4. ApprovedUpTo(m, 1 - 1)'
      BY DEF ApprovedUpTo
    <3> QED
      BY <1>1, <1>2, <3>1, <3>2, <3>3, <3>4 DEF DecidedInOrder, FLOW
  <2>2. CASE m # n
    <3>1. instance'[m] = instance[m] /\ decision'[m] = decision[m] /\ definition' = definition
      BY <1>3, <2>2 DEF ApprovalTypeOK
    <3>2. definition'[instance[m].flow] \notin Absent
      BY <1>7, <3>1 DEF StepsDecidedInOrder, DecidedInOrder
    <3> QED
      BY <1>7, <3>1, <3>2, OthersKeepTheirOrder
  <2> QED
    BY <2>1, <2>2
<1>8. ASSUME NEW m \in Instances, NEW k \in Instances,
             Running(m)', Running(k)', instance'[m].workorder = instance'[k].workorder
      PROVE  m = k \/ instance'[m].workorder = NoWorkOrder
  <2>1. \A j \in Instances \ {n} : instance'[j] = instance[j]
    BY <1>3 DEF ApprovalTypeOK
  <2>2. instance'[n].workorder = w
    BY <1>3 DEF ApprovalTypeOK
  <2>3. \A j \in Instances : w # NoWorkOrder /\ Running(j) => instance[j].workorder # w
    BY DEF SubmitForApproval
  <2>4. \A j \in Instances \ {n} : Running(j)' => Running(j)
    BY <2>1 DEF Running
  <2>5. CASE m # n /\ k # n
    BY <1>8, <2>1, <2>4, <2>5 DEF StepsDecidedInOrder
  <2>6. CASE m = n /\ k # n
    BY <1>8, <2>1, <2>2, <2>3, <2>4, <2>6
  <2>7. CASE m # n /\ k = n
    BY <1>8, <2>1, <2>2, <2>3, <2>4, <2>7
  <2> QED
    BY <2>5, <2>6, <2>7
<1>9. StepsDecidedInOrder'
  BY <1>7, <1>8 DEF StepsDecidedInOrder
<1> QED
  BY <1>6, <1>9

\* A task that ends with `status`, at the step k that is current.
LEMMA EndKeepsInv ==
  ASSUME ApprovalInv, NEW u, NEW n \in Instances, NEW k, Pending(u, n, k),
         NEW status \in {1, 2}, status = 1 => k = Len(instance[n].steps),
         decision' = [decision EXCEPT ![n] = Decide(n, k, status)],
         instance' = [instance EXCEPT ![n] = [instance[n] EXCEPT !.status = status]],
         UNCHANGED <<definition, approver, frozen, filed>>,
         order' \in [WorkOrders -> (0 .. 6) \cup {Deleted}]
  PROVE  ApprovalInv'
<1> USE DEF ApprovalInv
<1> DEFINE row == [instance[n] EXCEPT !.status = status]
           tasks == Decide(n, k, status)
<1>1. /\ instance[n] \in Instance /\ instance[n] # NoRow
      /\ instance[n].status = 0
      /\ k = instance[n].current
      /\ k \in 1 .. Len(instance[n].steps)
      /\ Len(decision[n]) = k
      /\ decision[n] \in Seq(FlowTask)
      /\ ApprovedUpTo(n, k - 1)
      /\ u = instance[n].steps[k]
  BY PendingIsCurrent
<1>2. decision[n][k] = [assignee |-> u, status |-> 0]
  BY DEF Pending
<1>3. row \in Instance /\ row # NoRow
  <2>1. row \in Instance
    BY <1>1 DEF Instance
  <2> HIDE DEF row
  <2> QED
    BY <2>1, ApprovalRowAssumption
<1>4. /\ row.current = k /\ row.steps = instance[n].steps /\ row.status = status
      /\ row.flow = instance[n].flow /\ row.workorder = instance[n].workorder
  BY <1>1 DEF Instance
<1>5. k \in DOMAIN decision[n] /\ decision[n][k] \in FlowTask
  BY <1>1
<1>6. tasks = [decision[n] EXCEPT ![k] = [assignee |-> u, status |-> status]]
  <2>1. [decision[n][k] EXCEPT !.status = status] = [assignee |-> u, status |-> status]
    BY <1>2
  <2> QED
    BY <2>1 DEF Decide
<1>7. /\ tasks \in Seq(FlowTask) /\ Len(tasks) = k
      /\ tasks[k] = [assignee |-> u, status |-> status]
      /\ \A j \in 1 .. (k - 1) : tasks[j] = decision[n][j]
  <2>1. [assignee |-> u, status |-> status] \in FlowTask
    BY <1>2, <1>5 DEF FlowTask
  <2> QED
    BY <1>1, <1>5, <1>6, <2>1
<1>8. instance'[n] = row /\ decision'[n] = tasks
  BY DEF ApprovalTypeOK
<1>9. ApprovalTypeOK'
  BY <1>3, <1>7 DEF ApprovalTypeOK
<1>10. DecidedInOrder(n)'
  <2>1. ApprovedUpTo(n, k - 1)'
    BY <1>1, <1>4, <1>7, <1>8 DEF ApprovedUpTo
  <2>2. definition'[row.flow] \notin Absent
    BY <1>1, <1>4 DEF StepsDecidedInOrder, DecidedInOrder
  <2>3. k \in DOMAIN row.steps
    BY <1>1, <1>4, ApprovalAssumption DEF Instance
  <2> QED
    BY <1>1, <1>4, <1>7, <1>8, <2>1, <2>2, <2>3 DEF DecidedInOrder, FLOW
<1>11. StepsDecidedInOrder'
  BY <1>1, <1>3, <1>4, <1>10, DecisionKeepsOthers DEF FLOW
<1> QED
  BY <1>9, <1>11

LEMMA ApproveLastKeepsInv ==
  ASSUME ApprovalInv, NEW u, NEW n \in Instances, NEW k, ApproveLast(u, n, k)
  PROVE  ApprovalInv'
<1>1. Pending(u, n, k) /\ k = Len(instance[n].steps)
  BY DEF ApproveLast
<1>2. instance[n] \in Instance /\ k = instance[n].current
  BY <1>1, PendingIsCurrent
<1>3. instance' = [instance EXCEPT ![n] = [instance[n] EXCEPT !.status = 1]]
  <2>1. [instance[n] EXCEPT !.status = 1, !.current = k] = [instance[n] EXCEPT !.status = 1]
    BY <1>2 DEF Instance
  <2>2. instance' = [instance EXCEPT ![n] = [instance[n] EXCEPT !.status = 1, !.current = k]]
    BY DEF ApproveLast, FLOW, ApprovalInv, ApprovalTypeOK
  <2> QED
    BY <2>1, <2>2
<1>4. order' \in [WorkOrders -> (0 .. 6) \cup {Deleted}]
  <2>1. order' = order \/ order' = [order EXCEPT ![instance[n].workorder] = 1]
    BY DEF ApproveLast
  <2>2. order \in [WorkOrders -> (0 .. 6) \cup {Deleted}]
    BY DEF ApprovalInv, ApprovalTypeOK
  <2> QED
    BY <2>1, <2>2
<1>5. /\ decision' = [decision EXCEPT ![n] = Decide(n, k, 1)]
      /\ UNCHANGED <<definition, approver, frozen, filed>>
  BY DEF ApproveLast
<1> QED
  BY <1>1, <1>3, <1>4, <1>5, EndKeepsInv

LEMMA RejectKeepsInv ==
  ASSUME ApprovalInv, NEW u, NEW n \in Instances, NEW k, Reject(u, n, k)
  PROVE  ApprovalInv'
<1>1. Pending(u, n, k)
  BY DEF Reject
<1>2. instance' = [instance EXCEPT ![n] = [instance[n] EXCEPT !.status = 2]]
  BY DEF Reject, FLOW
<1>3. order' \in [WorkOrders -> (0 .. 6) \cup {Deleted}]
  BY DEF Reject, ApprovalInv, ApprovalTypeOK
<1>4. /\ decision' = [decision EXCEPT ![n] = Decide(n, k, 2)]
      /\ UNCHANGED <<definition, approver, frozen, filed>>
  BY DEF Reject
<1>5. 2 \in {1, 2} /\ (2 = 1 => k = Len(instance[n].steps))
  OBVIOUS
<1> QED
  BY <1>1, <1>2, <1>3, <1>4, <1>5, EndKeepsInv

LEMMA ApproveStepKeepsInv ==
  ASSUME ApprovalInv, NEW u, NEW n \in Instances, NEW k, ApproveStep(u, n, k)
  PROVE  ApprovalInv'
<1> USE DEF ApprovalInv
<1> DEFINE row == [instance[n] EXCEPT !.current = k + 1]
           next == [assignee |-> instance[n].steps[k + 1], status |-> 0]
           tasks == Append(Decide(n, k, 1), next)
<1>1. /\ instance[n] \in Instance /\ instance[n] # NoRow
      /\ instance[n].status = 0
      /\ k = instance[n].current
      /\ k \in 1 .. Len(instance[n].steps)
      /\ Len(decision[n]) = k
      /\ decision[n] \in Seq(FlowTask)
      /\ ApprovedUpTo(n, k - 1)
      /\ u = instance[n].steps[k]
  BY PendingIsCurrent DEF ApproveStep
<1>2. decision[n][k] = [assignee |-> u, status |-> 0] /\ k < Len(instance[n].steps)
  BY DEF Pending, ApproveStep
<1>3. instance[n].steps \in Seq(Approvers) /\ k + 1 \in DOMAIN instance[n].steps
  <2>1. instance[n].steps \in Seq(Approvers)
    BY <1>1, ApprovalAssumption DEF Instance
  <2> QED
    BY <1>1, <1>2, <2>1
<1>0. k \in Nat /\ k + 1 \in Nat
  BY <1>1, <1>3
<1>4. row \in Instance /\ row # NoRow
  BY <1>1, <1>0, ApprovalRowAssumption DEF Instance
<1>5. /\ row.current = k + 1 /\ row.steps = instance[n].steps /\ row.status = 0
      /\ row.flow = instance[n].flow /\ row.workorder = instance[n].workorder
  BY <1>1 DEF Instance
<1>6. k \in DOMAIN decision[n] /\ decision[n][k] \in FlowTask
  BY <1>1
<1>7. /\ Decide(n, k, 1) \in Seq(FlowTask) /\ Len(Decide(n, k, 1)) = k
      /\ Decide(n, k, 1)[k] = [assignee |-> u, status |-> 1]
      /\ \A j \in 1 .. (k - 1) : Decide(n, k, 1)[j] = decision[n][j]
  <2>1. [decision[n][k] EXCEPT !.status = 1] = [assignee |-> u, status |-> 1]
    BY <1>2
  <2>2. [assignee |-> u, status |-> 1] \in FlowTask
    BY <1>2, <1>6 DEF FlowTask
  <2>3. Decide(n, k, 1) = [decision[n] EXCEPT ![k] = [assignee |-> u, status |-> 1]]
    BY <2>1 DEF Decide
  <2> QED
    BY <1>1, <1>6, <2>2, <2>3
<1>8. next \in FlowTask
  BY <1>3 DEF FlowTask
<1>9. /\ tasks \in Seq(FlowTask) /\ Len(tasks) = k + 1 /\ tasks[k + 1] = next
      /\ \A j \in 1 .. k : tasks[j] = Decide(n, k, 1)[j]
  BY <1>1, <1>7, <1>8
<1>10. instance'[n] = row /\ decision'[n] = tasks /\ definition' = definition
  BY DEF ApprovalTypeOK, ApproveStep
<1>11. ApprovalTypeOK'
  BY <1>4, <1>9 DEF ApprovalTypeOK, ApproveStep
<1>12. DecidedInOrder(n)'
  <2>1. ASSUME NEW j \in 1 .. k
        PROVE  tasks[j] = [assignee |-> instance[n].steps[j], status |-> 1]
    <3>1. CASE j = k
      BY <1>1, <1>7, <1>9, <3>1
    <3>2. CASE j \in 1 .. (k - 1)
      BY <1>1, <1>7, <1>9, <3>2 DEF ApprovedUpTo
    <3>3. j = k \/ j \in 1 .. (k - 1)
      BY <1>0
    <3> QED
      BY <3>1, <3>2, <3>3
  <2>2. ApprovedUpTo(n, (k + 1) - 1)'
    <3>1. (k + 1) - 1 = k
      BY <1>1
    <3>2. \A j \in 1 .. k : decision'[n][j] = [assignee |-> instance'[n].steps[j], status |-> 1]
      <4> HIDE DEF row, tasks
      <4> QED
        BY <1>5, <1>10, <2>1
    <3> QED
      BY <3>1, <3>2 DEF ApprovedUpTo
  <2>3. definition'[row.flow] \notin Absent
    BY <1>1, <1>5, <1>10 DEF StepsDecidedInOrder, DecidedInOrder
  <2> QED
    BY <1>3, <1>5, <1>9, <1>10, <2>2, <2>3 DEF DecidedInOrder, FLOW
<1>13. instance' = [instance EXCEPT ![n] = row] /\ decision' = [decision EXCEPT ![n] = tasks]
  BY DEF ApproveStep
<1>14. StepsDecidedInOrder'
  BY <1>1, <1>4, <1>5, <1>10, <1>12, <1>13, DecisionKeepsOthers DEF FLOW
<1> QED
  BY <1>11, <1>14

LEMMA ClerksKeepInv ==
  ASSUME ApprovalInv, NEW c \in FlowClerks, ApplyOrder(c) \/ \E w \in WorkOrders : JudgeOrder(c, w)
  PROVE  ApprovalInv'
<1> USE DEF ApprovalInv
<1>1. CASE ApplyOrder(c)
  <2>1. filed[c] \in FlowCall
    BY <1>1 DEF ApplyOrder, ApprovalTypeOK
  <2>2. filed[c].workorder \in WorkOrders /\ filed[c].to \in 0 .. 6
    BY <2>1 DEF FlowCall
  <2>3. order' \in [WorkOrders -> (0 .. 6) \cup {Deleted}] /\ frozen' \subseteq WorkOrders
    BY <1>1, <2>2 DEF ApplyOrder, ApprovalTypeOK
  <2> QED
    BY <1>1, <2>3, RestKeepsInv DEF ApplyOrder, ApprovalTypeOK
<1>2. CASE \E w \in WorkOrders : JudgeOrder(c, w)
  <2>1. PICK w \in WorkOrders : JudgeOrder(c, w)
    BY <1>2
  <2>2. filed' \in [FlowClerks -> FlowCall \cup {NoCall}]
    <3>1. \A t \in OrderTransitions : t[2] \in 0 .. 6
      BY DEF OrderTransitions
    <3> QED
      BY <2>1, <3>1 DEF JudgeOrder, ApprovalTypeOK, FlowCall
  <2> QED
    BY <2>1, <2>2, RestKeepsInv DEF JudgeOrder, ApprovalTypeOK
<1> QED
  BY <1>1, <1>2

LEMMA NextKeepsInv == ApprovalInv /\ [ApprovalNext]_approvalVars => ApprovalInv'
<1> SUFFICES ASSUME ApprovalInv, [ApprovalNext]_approvalVars PROVE ApprovalInv'
  OBVIOUS
<1>1. CASE UNCHANGED approvalVars
  BY <1>1, RestKeepsInv DEF approvalVars, ApprovalInv, ApprovalTypeOK
<1>2. ASSUME NEW f \in Flows,
             \/ \E steps \in StepLists, enabled \in BOOLEAN : SaveDefinition(f, steps, enabled)
             \/ DeleteDefinition(f)
      PROVE  ApprovalInv'
  BY <1>2, DefinitionsKeepInv
<1>3. ASSUME NEW f \in Flows, NEW n \in Instances, NEW w \in WorkOrders \cup {NoWorkOrder},
             SubmitForApproval(n, f, w)
      PROVE  ApprovalInv'
  BY <1>3, SubmitKeepsInv
<1>4. ASSUME NEW u \in Approvers, SwitchUser(u) PROVE ApprovalInv'
  BY <1>4, RestKeepsInv DEF SwitchUser, ApprovalInv, ApprovalTypeOK
<1>5. ASSUME NEW u \in Approvers, NEW n \in Instances, NEW k \in DOMAIN decision[n],
             ApproveLast(u, n, k) \/ ApproveStep(u, n, k) \/ Reject(u, n, k)
      PROVE  ApprovalInv'
  BY <1>5, ApproveLastKeepsInv, ApproveStepKeepsInv, RejectKeepsInv
<1>6. ASSUME NEW c \in FlowClerks, ApplyOrder(c) \/ \E w \in WorkOrders : JudgeOrder(c, w)
      PROVE  ApprovalInv'
  BY <1>6, ClerksKeepInv
<1> QED
  BY <1>1, <1>2, <1>3, <1>4, <1>5, <1>6 DEF ApprovalNext

-----------------------------------------------------------------------------
(* The theorems.                                                           *)

THEOREM ApprovalInvariant == ApprovalSpec => []ApprovalInv
  BY ApprovalStarts, NextKeepsInv, PTL DEF ApprovalSpec

\* The tables always hold rows of their types (flow.py, production_flow.py).
THEOREM ApprovalTypes == ApprovalSpec => []ApprovalTypeOK
<1>1. ApprovalInv => ApprovalTypeOK
  BY DEF ApprovalInv
<1> QED
  BY <1>1, ApprovalInvariant, PTL

\* Every approval takes the steps it was submitted with in their order, for
\* any number of users, steps, definitions, approvals and work orders.
THEOREM ApprovalsAreOrdered == ApprovalSpec => []StepsDecidedInOrder
<1>1. ApprovalInv => StepsDecidedInOrder
  BY DEF ApprovalInv
<1> QED
  BY <1>1, ApprovalInvariant, PTL

Releases ==
    \A n \in Instances : instance[n] # NoRow =>
          /\ instance'[n].steps = instance[n].steps
          /\ instance[n].status # instance'[n].status =>
                /\ instance[n].status = FLOW.running
                /\ instance'[n].status = FLOW.approved /\ instance[n].workorder # NoWorkOrder =>
                      /\ order[instance[n].workorder] = 0
                      /\ order'[instance[n].workorder] = 1

\* One step of an approval, or of none.
LEMMA NextReleases == ApprovalInv /\ [ApprovalNext]_approvalVars => Releases
<1> SUFFICES ASSUME ApprovalInv, [ApprovalNext]_approvalVars,
                    NEW n \in Instances, instance[n] # NoRow
             PROVE  /\ instance'[n].steps = instance[n].steps
                    /\ instance[n].status # instance'[n].status =>
                          /\ instance[n].status = FLOW.running
                          /\ instance'[n].status = FLOW.approved
                             /\ instance[n].workorder # NoWorkOrder =>
                                /\ order[instance[n].workorder] = 0
                                /\ order'[instance[n].workorder] = 1
  BY DEF Releases
<1> USE DEF ApprovalInv
<1>1. CASE instance' = instance
  BY <1>1
<1>2. ASSUME NEW f \in Flows, NEW m \in Instances, NEW w \in WorkOrders \cup {NoWorkOrder},
             SubmitForApproval(m, f, w)
      PROVE  instance'[n] = instance[n]
  BY <1>2 DEF SubmitForApproval, ApprovalTypeOK
<1>3. ASSUME NEW u \in Approvers, NEW m \in Instances, NEW k \in DOMAIN decision[m],
             ApproveStep(u, m, k)
      PROVE  instance'[n].steps = instance[n].steps /\ instance'[n].status = instance[n].status
  <2>1. instance[n] \in Instance
    BY DEF ApprovalTypeOK
  <2> QED
    BY <1>3, <2>1 DEF ApproveStep, ApprovalTypeOK, Instance
<1>4. ASSUME NEW u \in Approvers, NEW m \in Instances, NEW k \in DOMAIN decision[m],
             Reject(u, m, k)
      PROVE  /\ instance'[n].steps = instance[n].steps
             /\ instance[n].status # instance'[n].status =>
                  instance[n].status = FLOW.running /\ instance'[n].status # FLOW.approved
  <2>1. instance[n] \in Instance
    BY DEF ApprovalTypeOK
  <2>2. CASE m # n
    BY <1>4, <2>2 DEF Reject, ApprovalTypeOK
  <2>3. CASE m = n
    <3>1. instance'[n] = [instance[n] EXCEPT !.status = 2] /\ instance[n].status = 0
      BY <1>4, <2>3 DEF Reject, Pending, Running, FLOW, ApprovalTypeOK
    <3> QED
      BY <2>1, <3>1 DEF Instance, FLOW
  <2> QED
    BY <2>2, <2>3
<1>5. ASSUME NEW u \in Approvers, NEW m \in Instances, NEW k \in DOMAIN decision[m],
             ApproveLast(u, m, k)
      PROVE  /\ instance'[n].steps = instance[n].steps
             /\ instance[n].status # instance'[n].status =>
                  /\ instance[n].status = FLOW.running
                  /\ instance[n].workorder # NoWorkOrder =>
                        /\ order[instance[n].workorder] = 0
                        /\ order'[instance[n].workorder] = 1
  <2>1. instance[n] \in Instance
    BY DEF ApprovalTypeOK
  <2>2. CASE m # n
    BY <1>5, <2>2 DEF ApproveLast, ApprovalTypeOK
  <2>3. CASE m = n
    <3>1. /\ instance'[n] = [instance[n] EXCEPT !.status = 1, !.current = k]
          /\ instance[n].status = FLOW.running
      BY <1>5, <2>3 DEF ApproveLast, Pending, Running, FLOW, ApprovalTypeOK
    <3>2. instance'[n].steps = instance[n].steps
      BY <2>1, <3>1 DEF Instance
    <3>3. ASSUME instance[n].workorder # NoWorkOrder
          PROVE  order[instance[n].workorder] = 0 /\ order'[instance[n].workorder] = 1
      <4>1. instance[n].workorder \in WorkOrders
        BY <2>1, <3>3 DEF Instance
      <4> QED
        BY <1>5, <2>3, <3>3, <4>1 DEF ApproveLast, ApprovalTypeOK
    <3> QED
      BY <3>1, <3>2, <3>3
  <2> QED
    BY <2>2, <2>3
<1>6. \/ instance' = instance
      \/ \E f \in Flows, m \in Instances, w \in WorkOrders \cup {NoWorkOrder} :
            SubmitForApproval(m, f, w)
      \/ \E u \in Approvers, m \in Instances : \E k \in DOMAIN decision[m] :
            ApproveLast(u, m, k) \/ ApproveStep(u, m, k) \/ Reject(u, m, k)
  BY DEF ApprovalNext, approvalVars, SaveDefinition, DeleteDefinition, SwitchUser,
         ApplyOrder, JudgeOrder
<1> QED
  BY <1>1, <1>2, <1>3, <1>4, <1>5, <1>6

\* An approval of a work order ends approved in the step that releases the
\* draft, and is never decided twice.
THEOREM ApprovalReleases == ApprovalSpec => ApprovalReleasesDraft
<1>1. ApprovalInv /\ ApprovalInv' /\ [ApprovalNext]_approvalVars => [Releases]_approvalVars
  BY NextReleases
<1>2. ApprovalSpec => [][Releases]_approvalVars
  BY <1>1, ApprovalInvariant, PTL DEF ApprovalSpec
<1> QED
  BY <1>2 DEF ApprovalReleasesDraft, Releases

-----------------------------------------------------------------------------
(***************************************************************************)
(* REPORTS                                                                 *)
(***************************************************************************)

\* The posted reports of the steps S.
PostedOf(S) == {r \in Rows : report[r].status = REPORT.posted /\ report[r].step \in S}

IsPosted(r, S) == report[r] \in ReportRow /\ report[r].status = 2 /\ report[r].step \in S

\* What a report adds to the books of the steps S.
QualifiedOf(S) == [r \in ReportIds |-> IF IsPosted(r, S) THEN report[r].qualified ELSE 0]
DefectiveOf(S) == [r \in ReportIds |-> IF IsPosted(r, S) THEN report[r].defect ELSE 0]

\* The totals of the posted reports are sums over all reports.
TotalsAreSums ==
    \A S \in SUBSET Route :
        /\ Qualified(PostedOf(S)) = SumFunctionOnSet(QualifiedOf(S), ReportIds)
        /\ Defective(PostedOf(S)) = SumFunctionOnSet(DefectiveOf(S), ReportIds)
        /\ \A r \in ReportIds : QualifiedOf(S)[r] \in Nat /\ DefectiveOf(S)[r] \in Nat
        /\ Qualified(PostedOf(S)) \in Nat /\ Defective(PostedOf(S)) \in Nat

\* The totals of posted reports are sums over all reports.
LEMMA TotalsAdd == ReportsTypeOK => TotalsAreSums
<1> SUFFICES ASSUME ReportsTypeOK, NEW S \in SUBSET Route
             PROVE  /\ Qualified(PostedOf(S)) = SumFunctionOnSet(QualifiedOf(S), ReportIds)
                    /\ Defective(PostedOf(S)) = SumFunctionOnSet(DefectiveOf(S), ReportIds)
                    /\ \A r \in ReportIds : QualifiedOf(S)[r] \in Nat /\ DefectiveOf(S)[r] \in Nat
                    /\ Qualified(PostedOf(S)) \in Nat /\ Defective(PostedOf(S)) \in Nat
  BY DEF TotalsAreSums
<1> DEFINE P == PostedOf(S)
           q == [r \in P |-> report[r].qualified]
           d == [r \in P |-> report[r].defect]
<1>1. \A r \in ReportIds : r \in P <=> IsPosted(r, S)
  BY ReportRowAssumption DEF ReportsTypeOK, PostedOf, IsPosted, Rows, Absent, REPORT
<1>2. P \in SUBSET ReportIds
  BY DEF PostedOf, Rows
<1>3. \A r \in ReportIds : IsPosted(r, S) => report[r].qualified \in Nat /\ report[r].defect \in Nat
  BY DEF IsPosted, ReportRow
<1>4. \A r \in ReportIds : QualifiedOf(S)[r] \in Nat /\ DefectiveOf(S)[r] \in Nat
  BY <1>3 DEF QualifiedOf, DefectiveOf
<1>5. \A r \in P : /\ q[r] \in Int /\ QualifiedOf(S)[r] = q[r]
                   /\ d[r] \in Int /\ DefectiveOf(S)[r] = d[r]
  BY <1>1, <1>2, <1>3 DEF QualifiedOf, DefectiveOf
<1>6. \A r \in ReportIds \ P : QualifiedOf(S)[r] = 0 /\ DefectiveOf(S)[r] = 0
  BY <1>1 DEF QualifiedOf, DefectiveOf
<1>7. Qualified(P) = SumFunctionOnSet(q, P) /\ Defective(P) = SumFunctionOnSet(d, P)
  BY DEF Qualified, Defective, SumFunction
<1> HIDE DEF q, d, P
<1>8. SumFunctionOnSet(q, P) = SumFunctionOnSet(QualifiedOf(S), ReportIds)
  BY <1>2, <1>5, <1>6, ReportRowAssumption, SumRestrict
<1>9. SumFunctionOnSet(d, P) = SumFunctionOnSet(DefectiveOf(S), ReportIds)
  BY <1>2, <1>5, <1>6, ReportRowAssumption, SumRestrict
<1>10. /\ SumFunctionOnSet(QualifiedOf(S), ReportIds) \in Nat
       /\ SumFunctionOnSet(DefectiveOf(S), ReportIds) \in Nat
  BY <1>4, ReportRowAssumption, SumNotNegative
<1> QED
  BY <1>4, <1>7, <1>8, <1>9, <1>10 DEF P

\* When one report is written, the totals change by its change.
LEMMA TotalsChange ==
  ASSUME ReportsTypeOK, ReportsTypeOK', NEW r \in ReportIds,
         \A x \in ReportIds \ {r} : report'[x] = report[x], NEW S \in SUBSET Route
  PROVE  /\ Qualified(PostedOf(S))' = Qualified(PostedOf(S)) + QualifiedOf(S)'[r] - QualifiedOf(S)[r]
         /\ Defective(PostedOf(S))' = Defective(PostedOf(S)) + DefectiveOf(S)'[r] - DefectiveOf(S)[r]
<1>1. TotalsAreSums
  BY TotalsAdd
<1>2. TotalsAreSums'
  BY TotalsAdd, PTL
<1>3. \A x \in ReportIds \ {r} : /\ QualifiedOf(S)'[x] = QualifiedOf(S)[x]
                                 /\ DefectiveOf(S)'[x] = DefectiveOf(S)[x]
  BY DEF QualifiedOf, DefectiveOf, IsPosted
<1>4. S \in SUBSET (Route')
  BY DEF Route
<1>5. \A x \in ReportIds : /\ QualifiedOf(S)[x] \in Int /\ QualifiedOf(S)'[x] \in Int
                           /\ DefectiveOf(S)[x] \in Int /\ DefectiveOf(S)'[x] \in Int
  BY <1>1, <1>2, <1>4 DEF TotalsAreSums
<1>6. SumFunctionOnSet(QualifiedOf(S)', ReportIds)
        = SumFunctionOnSet(QualifiedOf(S), ReportIds) + QualifiedOf(S)'[r] - QualifiedOf(S)[r]
  BY <1>3, <1>5, ReportRowAssumption, SumChange
<1>7. SumFunctionOnSet(DefectiveOf(S)', ReportIds)
        = SumFunctionOnSet(DefectiveOf(S), ReportIds) + DefectiveOf(S)'[r] - DefectiveOf(S)[r]
  BY <1>3, <1>5, ReportRowAssumption, SumChange
<1> QED
  BY <1>1, <1>2, <1>4, <1>6, <1>7 DEF TotalsAreSums

\* The totals of no posted report are 0.
LEMMA NoTotals ==
  ASSUME ReportsTypeOK, NEW S \in SUBSET Route, PostedOf(S) = {}
  PROVE  Qualified(PostedOf(S)) = 0 /\ Defective(PostedOf(S)) = 0
<1> DEFINE q == [r \in {} |-> report[r].qualified]
           d == [r \in {} |-> report[r].defect]
<1>1. /\ Qualified(PostedOf(S)) = SumFunctionOnSet(q, {})
      /\ Defective(PostedOf(S)) = SumFunctionOnSet(d, {})
  BY DEF Qualified, Defective, SumFunction
<1> QED
  BY <1>1, SumEmpty

\* The books as the totals of steps.
TasksBooked ==
    overwritten = {} =>
        /\ \A s \in Route :
              /\ task[s] = NoRow => PostedOf({s}) = {}
              /\ task[s] # NoRow =>
                    /\ task[s].completed = Qualified(PostedOf({s}))
                    /\ task[s].defect = Defective(PostedOf({s}))
                    /\ task[s].completed <= Planned
              /\ moved[s] <= Qualified(PostedOf({s}))
        /\ workorder.completed = Qualified(PostedOf(Route))
        /\ workorder.defect = Defective(PostedOf(Route))

\* What the property says of the books, said with those sums.
LEMMA BooksAreTotals == ReportsTypeOK => (BooksAgree <=> OneReportPerOperation /\ TasksBooked)
<1> SUFFICES ASSUME ReportsTypeOK PROVE BooksAgree <=> OneReportPerOperation /\ TasksBooked
  OBVIOUS
<1>1. \A s \in Route : PostedAt(s) = PostedOf({s})
  BY DEF PostedAt, PostedOf
<1>2. UNION {PostedAt(s) : s \in Route} = PostedOf(Route)
  BY DEF PostedAt, PostedOf
<1> QED
  BY <1>1, <1>2 DEF BooksAgree, TasksBooked

\* The reports of a step keep its task: the foreign key.
ReportsHaveTasks == \A r \in Rows : task[report[r].step] # NoRow

\* What a clerk has judged.
CallsFit ==
    \A c \in Clerks : call[c] # NoCall =>
        /\ call[c].entity = "report" => /\ call[c].id \in ReportIds
                                        /\ call[c].from = 0 /\ call[c].to \in {1, 3}
        /\ call[c].entity = "task" => call[c].id \in Route /\ call[c].to \in 0 .. 3
        /\ call[c].entity = "task deletion" => call[c].id \in Route

ReportsInv == ReportsTypeOK /\ CallsFit /\ ReportsHaveTasks /\ OneReportPerOperation /\ TasksBooked

-----------------------------------------------------------------------------
LEMMA RowsAreReports ==
  ASSUME ReportsTypeOK
  PROVE  /\ Rows = {r \in ReportIds : report[r] \in ReportRow}
         /\ NoRow \notin ReportRow /\ Deleted \notin ReportRow
         /\ NoRow \notin TaskRow
  BY ReportRowAssumption DEF ReportsTypeOK, Rows, Absent

LEMMA RowsAreReportsNext ==
  ASSUME ReportsTypeOK'
  PROVE  Rows' = {r \in ReportIds : report'[r] \in ReportRow}
  BY ReportRowAssumption DEF ReportsTypeOK, Rows, Absent

\* A judgement: what a clerk remembers fits.
LEMMA JudgeTransitionStep ==
  ASSUME ReportsTypeOK, NEW c \in Clerks, JudgeTransition(c)
  PROVE  \E t \in Call : /\ call' = [call EXCEPT ![c] = t]
                         /\ t.entity = "report" => t.id \in ReportIds /\ t.from = 0 /\ t.to \in {1, 3}
                         /\ t.entity = "task" => t.id \in Route /\ t.to \in 0 .. 3
                         /\ t.entity # "task deletion"
<1>1. PICK entity \in DOMAIN Transitions : \E id \in Existing(entity), t \in Transitions[entity] :
          call' = [call EXCEPT ![c] = [entity |-> entity, id |-> id, from |-> t[1], to |-> t[2]]]
  BY DEF JudgeTransition
<1>2. PICK id \in Existing(entity), t \in Transitions[entity] :
          call' = [call EXCEPT ![c] = [entity |-> entity, id |-> id, from |-> t[1], to |-> t[2]]]
  BY <1>1
<1>3. entity \in {"report", "task", "workorder"}
  BY DEF Transitions
<1> DEFINE row == [entity |-> entity, id |-> id, from |-> t[1], to |-> t[2]]
<1>4. CASE entity = "report"
  <2>1. t \in {<<0, 1>>, <<0, 3>>} /\ id \in ReportIds
    BY <1>4 DEF Transitions, Existing, Rows
  <2>2. row \in Call
    BY <1>4, <2>1 DEF Call
  <2>3. row.entity = "report" /\ row.id \in ReportIds /\ row.from = 0 /\ row.to \in {1, 3}
    BY <1>4, <2>1
  <2>4. call' = [call EXCEPT ![c] = row]
    BY <1>2
  <2> HIDE DEF row
  <2> QED
    BY <2>2, <2>3, <2>4
<1>5. CASE entity = "task"
  <2>1. t \in {<<0, 1>>, <<1, 2>>, <<1, 3>>, <<2, 1>>, <<2, 3>>} /\ id \in Route
    BY <1>5 DEF Transitions, Existing
  <2>2. row \in Call
    BY <1>5, <2>1 DEF Call
  <2>3. row.entity = "task" /\ row.id \in Route /\ row.to \in 0 .. 3
    BY <1>5, <2>1
  <2>4. call' = [call EXCEPT ![c] = row]
    BY <1>2
  <2> HIDE DEF row
  <2> QED
    BY <2>2, <2>3, <2>4
<1>6. CASE entity = "workorder"
  <2>1. /\ t \in {<<0, 1>>, <<0, 6>>, <<1, 2>>, <<1, 4>>, <<1, 6>>, <<2, 3>>, <<2, 4>>,
                  <<4, 2>>, <<4, 6>>, <<3, 5>>}
        /\ id = 0
    BY <1>6 DEF Transitions, Existing
  <2>2. row \in Call
    BY <1>6, <2>1 DEF Call
  <2> QED
    BY <1>2, <1>6, <2>2
<1> QED
  BY <1>3, <1>4, <1>5, <1>6
\* What the recalculation writes.
LEMMA RecalculatedBooks ==
  ASSUME NEW s \in Route, Recalculate(s)
  PROVE  /\ task' = [task EXCEPT ![s] =
               [completed |-> Qualified(PostedOf({s})), defect |-> Defective(PostedOf({s})),
                status |-> ProgressStatus(Qualified(PostedOf({s})), Defective(PostedOf({s})))]]
         /\ \E st \in {0, 1, 3} :
               workorder' = [completed |-> Qualified(PostedOf(Route)),
                             defect |-> Defective(PostedOf(Route)), status |-> st]
<1> DEFINE row == [completed |-> Qualified(PostedOf({s})), defect |-> Defective(PostedOf({s})),
                   status |-> ProgressStatus(Qualified(PostedOf({s})), Defective(PostedOf({s})))]
           tasks == [task EXCEPT ![s] = row]
           st == IF \A n \in {n \in Route : tasks[n] # NoRow} : tasks[n].status = 3 THEN 3
                 ELSE IF PostedOf(Route) # {} THEN 1 ELSE 0
<1>1. PostedAt(s) = PostedOf({s}) /\ UNION {PostedAt(n) : n \in Route} = PostedOf(Route)
  BY DEF PostedAt, PostedOf
<1>2. st \in {0, 1, 3}
  OBVIOUS
<1>3. task' = tasks
  BY <1>1 DEF Recalculate
<1>4. workorder' = [completed |-> Qualified(PostedOf(Route)),
                    defect |-> Defective(PostedOf(Route)), status |-> st]
  BY <1>1 DEF Recalculate
<1> HIDE DEF st
<1> QED
  BY <1>2, <1>3, <1>4

\* Every step writes rows of the tables' types.
LEMMA ReportsTypeStep ==
  ASSUME ReportsTypeOK, CallsFit, ReportsHaveTasks, [ReportsNext]_reportsVars
  PROVE  ReportsTypeOK' /\ CallsFit'
<1> USE ReportsAssumption
<1>0. \A r \in Rows : report[r] \in ReportRow /\ r \in ReportIds
  BY RowsAreReports
<1>1. CASE GenerateTasks
  <2>1. [status |-> 0, completed |-> 0, defect |-> 0] \in TaskRow
    BY DEF TaskRow
  <2> QED
    BY <1>1, <2>1 DEF ReportsTypeOK, CallsFit, GenerateTasks
<1>2. ASSUME NEW r \in ReportIds, NEW s \in Route, NEW q \in Quantities, NEW d \in Defects,
             NEW op \in Operations \cup {NoOperation}, CreateReport(r, s, q, d, op)
      PROVE  ReportsTypeOK' /\ CallsFit'
  <2>1. [step |-> s, qualified |-> q, defect |-> d, status |-> REPORT.submitted, operation |-> op]
          \in ReportRow
    BY DEF ReportRow, REPORT
  <2> QED
    BY <1>2, <2>1 DEF ReportsTypeOK, CallsFit, CreateReport
<1>3. ASSUME NEW r \in ReportIds, PostReport(r) PROVE ReportsTypeOK' /\ CallsFit'
  <2> DEFINE s == report[r].step
             q == report[r].qualified
             d == report[r].defect
  <2>1. /\ report[r] \in ReportRow /\ s \in Route /\ q \in Nat /\ d \in Nat
        /\ task[s] \in TaskRow
    <3>1. r \in Rows /\ report[r] \in ReportRow
      BY <1>0, <1>3 DEF PostReport, Has
    <3> QED
      BY <3>1 DEF ReportRow, ReportsTypeOK, ReportsHaveTasks
  <2>2. [report[r] EXCEPT !.status = REPORT.posted] \in ReportRow
    BY <2>1 DEF ReportRow, REPORT
  <2>3. report' \in [ReportIds -> ReportRow \cup {NoRow, Deleted}]
    BY <1>3, <2>2 DEF PostReport, ReportsTypeOK
  <2> DEFINE row == [completed |-> task[s].completed + q, defect |-> task[s].defect + d,
                     status |-> IF task[s].completed + q >= Planned THEN 3 ELSE 1]
  <2>4. row \in TaskRow
    <3>1. task[s].completed \in Nat /\ task[s].defect \in Nat
      BY <2>1 DEF TaskRow
    <3> QED
      BY <2>1, <3>1 DEF TaskRow
  <2>5. task' = [task EXCEPT ![s] = row]
    BY <1>3 DEF PostReport
  <2>6. task' \in [Route -> TaskRow \cup {NoRow}]
    <3> HIDE DEF row, s
    <3> QED BY <2>1, <2>4, <2>5 DEF ReportsTypeOK
  <2>7. workorder' \in [status : 0 .. 6, completed : Nat, defect : Nat]
    <3>1. /\ workorder.status \in 0 .. 6 /\ workorder.completed \in Nat
          /\ workorder.defect \in Nat
      BY DEF ReportsTypeOK
    <3>2. workorder' = [completed |-> workorder.completed + q, defect |-> workorder.defect + d,
                        status |-> IF workorder.status = 1 THEN 2 ELSE workorder.status]
      BY <1>3 DEF PostReport
    <3> HIDE DEF q, d
    <3> QED
      BY <2>1, <3>1, <3>2
  <2> QED
    BY <1>3, <2>3, <2>6, <2>7 DEF ReportsTypeOK, CallsFit, PostReport
<1>4. ASSUME NEW r \in ReportIds, DeleteReport(r) PROVE ReportsTypeOK' /\ CallsFit'
  <2> DEFINE s == report[r].step
             row == [completed |-> Qualified(PostedOf({s})), defect |-> Defective(PostedOf({s})),
                     status |-> ProgressStatus(Qualified(PostedOf({s})), Defective(PostedOf({s})))]
  <2>1. s \in Route /\ r \in Rows
    BY <1>0, <1>4 DEF DeleteReport, Has, ReportRow
  <2>2. /\ Qualified(PostedOf({s})) \in Nat /\ Defective(PostedOf({s})) \in Nat
        /\ Qualified(PostedOf(Route)) \in Nat /\ Defective(PostedOf(Route)) \in Nat
    BY <2>1, TotalsAdd DEF TotalsAreSums
  <2>3. row \in TaskRow
    BY <2>2 DEF TaskRow, ProgressStatus
  <2>4. /\ task' = [task EXCEPT ![s] = row]
        /\ \E st \in {0, 1, 3} :
              workorder' = [completed |-> Qualified(PostedOf(Route)),
                            defect |-> Defective(PostedOf(Route)), status |-> st]
    BY <1>4, <2>1, RecalculatedBooks DEF DeleteReport
  <2>5. workorder' \in [status : 0 .. 6, completed : Nat, defect : Nat]
    BY <2>2, <2>4
  <2> HIDE DEF row, s
  <2>6. task' \in [Route -> TaskRow \cup {NoRow}]
    BY <2>1, <2>3, <2>4 DEF ReportsTypeOK
  <2> QED
    BY <1>4, <2>5, <2>6 DEF ReportsTypeOK, CallsFit, DeleteReport
<1>5. ASSUME NEW s \in Route, NEW q \in Quantities, Transfer(s, q) PROVE ReportsTypeOK' /\ CallsFit'
  <2>1. moved[s] \in Nat /\ q \in Nat /\ moved[s] + q \in Nat
    BY DEF ReportsTypeOK
  <2>2. moved' = [moved EXCEPT ![s] = moved[s] + q]
    BY <1>5 DEF Transfer
  <2>3. moved' \in [Route -> Nat]
    BY <2>1, <2>2 DEF ReportsTypeOK
  <2>4. UNCHANGED <<workorder, task, report, call, overwritten>>
    BY <1>5 DEF Transfer
  <2>5. ReportsTypeOK'
    BY <2>3, <2>4 DEF ReportsTypeOK
  <2>6. CallsFit'
    BY <2>4 DEF CallsFit
  <2> QED
    BY <2>5, <2>6
<1>6. ASSUME NEW c \in Clerks, JudgeTransition(c) PROVE ReportsTypeOK' /\ CallsFit'
  <2>1. PICK t \in Call : /\ call' = [call EXCEPT ![c] = t]
                          /\ t.entity = "report" => t.id \in ReportIds /\ t.from = 0 /\ t.to \in {1, 3}
                          /\ t.entity = "task" => t.id \in Route /\ t.to \in 0 .. 3
                          /\ t.entity # "task deletion"
    BY <1>6, JudgeTransitionStep
  <2> QED
    BY <1>6, <2>1 DEF ReportsTypeOK, CallsFit, JudgeTransition
<1>7. ASSUME NEW c \in Clerks, ApplyTransition(c) PROVE ReportsTypeOK' /\ CallsFit'
  <2> DEFINE id == call[c].id
             to == call[c].to
  <2>0. call[c] \in Call /\ call[c] # NoCall
    BY <1>7 DEF ReportsTypeOK, ApplyTransition
  <2>1. CallsFit' /\ call' \in [Clerks -> Call \cup {NoCall}]
    <3>1. call' = [call EXCEPT ![c] = NoCall]
      BY <1>7 DEF ApplyTransition
    <3> QED
      BY <3>1 DEF ReportsTypeOK, CallsFit
  <2>2. CASE call[c].entity = "report"
    <3>1. id \in ReportIds /\ to \in 0 .. 3
      <4>1. id \in ReportIds /\ to \in {1, 3}
        BY <2>0, <2>2 DEF CallsFit
      <4> HIDE DEF to
      <4> QED
        BY <4>1
    <3>2. ASSUME id \in Rows PROVE [report[id] EXCEPT !.status = to] \in ReportRow
      BY <1>0, <3>1, <3>2 DEF ReportRow
    <3>3. report' = IF id \in Rows THEN [report EXCEPT ![id] = [report[id] EXCEPT !.status = to]] ELSE report
      <4>1. report' = IF id \in Rows THEN [report EXCEPT ![id].status = to] ELSE report
        BY <1>7, <2>2 DEF ApplyTransition
      <4> HIDE DEF id, to
      <4> QED
        BY <4>1
    <3>4. overwritten' \subseteq ReportIds /\ UNCHANGED <<task, workorder, moved>>
      BY <1>7, <2>2, <3>1 DEF ApplyTransition, ReportsTypeOK
    <3> HIDE DEF id, to
    <3> QED
      BY <2>1, <3>1, <3>2, <3>3, <3>4 DEF ReportsTypeOK
  <2>3. CASE call[c].entity = "task"
    <3>1. id \in Route /\ to \in 0 .. 3
      BY <2>0, <2>3 DEF CallsFit
    <3>2. ASSUME task[id] # NoRow PROVE [task[id] EXCEPT !.status = to] \in TaskRow
      BY <3>1, <3>2 DEF TaskRow, ReportsTypeOK
    <3>3. task' = IF task[id] # NoRow THEN [task EXCEPT ![id] = [task[id] EXCEPT !.status = to]] ELSE task
      BY <1>7, <2>3 DEF ApplyTransition
    <3>4. UNCHANGED <<report, workorder, overwritten, moved>>
      BY <1>7, <2>3 DEF ApplyTransition
    <3> HIDE DEF id, to
    <3> QED
      BY <2>1, <3>1, <3>2, <3>3, <3>4 DEF ReportsTypeOK
  <2>4. CASE call[c].entity = "workorder"
    <3>1. to \in 0 .. 6
      BY <2>0 DEF Call
    <3>2. workorder' = [workorder EXCEPT !.status = to] /\ UNCHANGED <<report, task, overwritten, moved>>
      BY <1>7, <2>4 DEF ApplyTransition
    <3> HIDE DEF to
    <3> QED
      BY <2>1, <3>1, <3>2 DEF ReportsTypeOK
  <2> QED
    BY <1>7, <2>2, <2>3, <2>4 DEF ApplyTransition
<1>8. ASSUME NEW c \in Clerks, NEW s \in Route, JudgeDeletion(c, s) PROVE ReportsTypeOK' /\ CallsFit'
  <2>1. [entity |-> "task deletion", id |-> s, from |-> 0, to |-> 0] \in Call
    BY DEF Call
  <2> QED
    BY <1>8, <2>1 DEF ReportsTypeOK, CallsFit, JudgeDeletion
<1>9. ASSUME NEW c \in Clerks, ApplyDeletion(c) PROVE ReportsTypeOK' /\ CallsFit'
  BY <1>9 DEF ReportsTypeOK, CallsFit, ApplyDeletion
<1>10. CASE UNCHANGED reportsVars
  BY <1>10 DEF ReportsTypeOK, CallsFit, reportsVars
<1> QED
  BY <1>1, <1>2, <1>3, <1>4, <1>5, <1>6, <1>7, <1>8, <1>9, <1>10 DEF ReportsNext

\* A step that posts nothing and takes nothing back keeps the totals.
LEMMA SameTotals ==
  ASSUME ReportsTypeOK, ReportsTypeOK', NEW r \in ReportIds,
         \A x \in ReportIds \ {r} : report'[x] = report[x],
         report[r] \in ReportRow => report[r].status # 2,
         report'[r] \in ReportRow => report'[r].status # 2,
         NEW S \in SUBSET Route
  PROVE  /\ Qualified(PostedOf(S))' = Qualified(PostedOf(S))
         /\ Defective(PostedOf(S))' = Defective(PostedOf(S))
<1>1. /\ Qualified(PostedOf(S))' = Qualified(PostedOf(S)) + QualifiedOf(S)'[r] - QualifiedOf(S)[r]
      /\ Defective(PostedOf(S))' = Defective(PostedOf(S)) + DefectiveOf(S)'[r] - DefectiveOf(S)[r]
  BY TotalsChange
<1>2. /\ QualifiedOf(S)[r] = 0 /\ QualifiedOf(S)'[r] = 0
      /\ DefectiveOf(S)[r] = 0 /\ DefectiveOf(S)'[r] = 0
  BY DEF QualifiedOf, DefectiveOf, IsPosted
<1>3. Qualified(PostedOf(S)) \in Nat /\ Defective(PostedOf(S)) \in Nat
  BY TotalsAdd DEF TotalsAreSums
<1> QED
  BY <1>1, <1>2, <1>3

\* Such a step keeps the books, when it writes no book.
LEMMA QuietBooks ==
  ASSUME ReportsTypeOK, ReportsTypeOK', TasksBooked, ReportsHaveTasks',
         workorder'.completed = workorder.completed, workorder'.defect = workorder.defect,
         moved' = moved, overwritten \subseteq overwritten',
         \A s \in Route : /\ task'[s] # NoRow => /\ task[s] # NoRow
                                                 /\ task'[s].completed = task[s].completed
                                                 /\ task'[s].defect = task[s].defect,
         overwritten' = {} =>
            \A S \in SUBSET Route : /\ Qualified(PostedOf(S))' = Qualified(PostedOf(S))
                                    /\ Defective(PostedOf(S))' = Defective(PostedOf(S))
  PROVE  TasksBooked'
<1> SUFFICES ASSUME overwritten' = {} PROVE TasksBooked'
  BY DEF TasksBooked
<1>1. overwritten = {}
  OBVIOUS
<1>2. Route' = Route
  BY DEF Route
<1>3. ASSUME NEW s \in Route
      PROVE  /\ task'[s] = NoRow => PostedOf({s})' = {}
             /\ task'[s] # NoRow =>
                    /\ task'[s].completed = Qualified(PostedOf({s}))'
                    /\ task'[s].defect = Defective(PostedOf({s}))'
                    /\ task'[s].completed <= Planned
             /\ moved'[s] <= Qualified(PostedOf({s}))'
  <2>1. /\ Qualified(PostedOf({s}))' = Qualified(PostedOf({s}))
        /\ Defective(PostedOf({s}))' = Defective(PostedOf({s}))
    OBVIOUS
  <2>2. task'[s] = NoRow => PostedOf({s})' = {}
    BY DEF ReportsHaveTasks, PostedOf
  <2> QED
    BY <1>1, <2>1, <2>2 DEF TasksBooked
<1>4. /\ workorder'.completed = Qualified(PostedOf(Route))'
      /\ workorder'.defect = Defective(PostedOf(Route))'
  BY <1>1 DEF TasksBooked
<1> QED
  BY <1>2, <1>3, <1>4 DEF TasksBooked

\* A report keeps what it reports; only its status changes.
LEMMA KeptReports ==
  ASSUME ReportsTypeOK, ReportsTypeOK', CallsFit,
         \/ \E r \in ReportIds : PostReport(r) \/ DeleteReport(r)
         \/ \E c \in Clerks : ApplyTransition(c)
         \/ UNCHANGED report
  PROVE  \A r \in Rows' : /\ r \in Rows
                          /\ report'[r].step = report[r].step
                          /\ report'[r].operation = report[r].operation
<1>0. /\ \A r \in Rows : r \in ReportIds /\ report[r] \in ReportRow
      /\ Rows = {r \in ReportIds : report[r] \in ReportRow}
      /\ Rows' = {r \in ReportIds : report'[r] \in ReportRow}
      /\ NoRow \notin ReportRow /\ Deleted \notin ReportRow
  BY RowsAreReports, RowsAreReportsNext
<1>1. ASSUME NEW id \in Rows, NEW to, report' = [report EXCEPT ![id].status = to], NEW r \in Rows'
      PROVE  /\ r \in Rows
             /\ report'[r].step = report[r].step
             /\ report'[r].operation = report[r].operation
  <2>1. CASE r = id
    BY <1>0, <1>1, <2>1 DEF ReportsTypeOK, ReportRow
  <2>2. CASE r # id
    BY <1>0, <1>1, <2>2 DEF ReportsTypeOK
  <2> QED
    BY <2>1, <2>2
<1>2. ASSUME NEW r \in ReportIds, PostReport(r)
      PROVE  r \in Rows /\ report' = [report EXCEPT ![r].status = REPORT.posted]
  BY <1>2 DEF PostReport, Has
<1>3. ASSUME NEW r \in ReportIds, DeleteReport(r)
      PROVE  report' = [report EXCEPT ![r] = Deleted]
  BY <1>3 DEF DeleteReport
<1>4. ASSUME NEW c \in Clerks, ApplyTransition(c)
      PROVE  \/ \E id \in Rows : report' = [report EXCEPT ![id].status = call[c].to]
             \/ UNCHANGED report
  BY <1>4 DEF ApplyTransition
<1>5. CASE \E id \in Rows, to \in {REPORT.posted} \cup {call[c].to : c \in Clerks} :
             report' = [report EXCEPT ![id].status = to]
  BY <1>1, <1>5
<1>6. CASE \E r \in ReportIds : DeleteReport(r)
  BY <1>0, <1>3, <1>6 DEF ReportsTypeOK
<1>7. CASE UNCHANGED report
  BY <1>0, <1>7
<1> QED
  BY <1>2, <1>4, <1>5, <1>6, <1>7

\* An operation has one report.
LEMMA OneReportStep ==
  ASSUME ReportsTypeOK, ReportsTypeOK', CallsFit, OneReportPerOperation, [ReportsNext]_reportsVars
  PROVE  OneReportPerOperation'
<1>1. ASSUME \A r \in Rows' : r \in Rows /\ report'[r].operation = report[r].operation
      PROVE  OneReportPerOperation'
  BY <1>1 DEF OneReportPerOperation
<1>2. ASSUME NEW r \in ReportIds, NEW s \in Route, NEW q \in Quantities, NEW d \in Defects,
             NEW op \in Operations \cup {NoOperation}, CreateReport(r, s, q, d, op)
      PROVE  OneReportPerOperation'
  <2>1. \A x \in ReportIds : x # r => report'[x] = report[x]
    BY <1>2 DEF CreateReport, ReportsTypeOK
  <2>2. report'[r].operation = op
    BY <1>2 DEF CreateReport, ReportsTypeOK
  <2>3. \A x \in Rows' : x # r => x \in Rows
    BY <2>1, RowsAreReports, RowsAreReportsNext
  <2>4. Rows' \subseteq ReportIds
    BY RowsAreReportsNext
  <2>5. \A x \in Rows : op # NoOperation => report[x].operation # op
    BY <1>2 DEF CreateReport, Filed
  <2> QED
    BY <2>1, <2>2, <2>3, <2>4, <2>5 DEF OneReportPerOperation
<1>3. CASE \/ \E r \in ReportIds : PostReport(r) \/ DeleteReport(r)
           \/ \E c \in Clerks : ApplyTransition(c)
           \/ UNCHANGED report
  BY <1>1, <1>3, KeptReports
<1> QED
  BY <1>2, <1>3 DEF ReportsNext, GenerateTasks, Transfer, JudgeTransition, JudgeDeletion,
                    ApplyDeletion, reportsVars

\* The reports of a step keep its task.
LEMMA ReportsHaveTasksStep ==
  ASSUME ReportsTypeOK, ReportsTypeOK', CallsFit, ReportsHaveTasks, [ReportsNext]_reportsVars
  PROVE  ReportsHaveTasks'
<1>0. /\ \A r \in Rows : r \in ReportIds /\ report[r] \in ReportRow /\ report[r].step \in Route
      /\ NoRow \notin TaskRow
  BY RowsAreReports DEF ReportRow
<1>1. ASSUME \A s \in Route : task[s] # NoRow => task'[s] # NoRow,
             \/ \E r \in ReportIds : PostReport(r) \/ DeleteReport(r)
             \/ \E c \in Clerks : ApplyTransition(c)
             \/ UNCHANGED report
      PROVE  ReportsHaveTasks'
  <2>1. \A r \in Rows' : r \in Rows /\ report'[r].step = report[r].step
    BY <1>1, KeptReports
  <2> QED
    BY <1>0, <1>1, <2>1 DEF ReportsHaveTasks
<1>2. ASSUME NEW s \in Route, NEW row \in TaskRow, task' = [task EXCEPT ![s] = row]
      PROVE  \A n \in Route : task[n] # NoRow => task'[n] # NoRow
  BY <1>0, <1>2 DEF ReportsTypeOK
<1>3. CASE GenerateTasks
  <2>1. \A s \in Route : task[s] # NoRow => task'[s] # NoRow
    BY <1>3 DEF GenerateTasks
  <2> QED
    BY <1>1, <1>3, <2>1 DEF GenerateTasks
<1>4. ASSUME NEW r \in ReportIds, NEW s \in Route, NEW q \in Quantities, NEW d \in Defects,
             NEW op \in Operations \cup {NoOperation}, CreateReport(r, s, q, d, op)
      PROVE  ReportsHaveTasks'
  <2>1. task[s] # NoRow /\ task' = task
    BY <1>4 DEF CreateReport
  <2>2. \A x \in ReportIds : x # r => report'[x] = report[x]
    BY <1>4 DEF CreateReport, ReportsTypeOK
  <2>3. report'[r].step = s
    BY <1>4 DEF CreateReport, ReportsTypeOK
  <2>4. \A x \in Rows' : x \in ReportIds /\ (x # r => x \in Rows)
    BY <2>2, RowsAreReports, RowsAreReportsNext
  <2> QED
    BY <2>1, <2>2, <2>3, <2>4 DEF ReportsHaveTasks
<1>5. ASSUME NEW r \in ReportIds, PostReport(r) PROVE ReportsHaveTasks'
  <2> DEFINE s == report[r].step
             row == [completed |-> task[s].completed + report[r].qualified,
                     defect |-> task[s].defect + report[r].defect,
                     status |-> IF task[s].completed + report[r].qualified >= Planned THEN 3 ELSE 1]
  <2>1. r \in Rows /\ task' = [task EXCEPT ![s] = row]
    BY <1>5 DEF PostReport, Has
  <2>2. s \in Route /\ task[s] \in TaskRow
    BY <1>0, <2>1 DEF ReportsTypeOK, ReportsHaveTasks
  <2>3. row \in TaskRow
    BY <1>0, <2>1, <2>2 DEF TaskRow, ReportRow
  <2> HIDE DEF row, s
  <2> QED
    BY <1>1, <1>2, <1>5, <2>1, <2>2, <2>3
<1>6. ASSUME NEW r \in ReportIds, DeleteReport(r) PROVE ReportsHaveTasks'
  <2> DEFINE s == report[r].step
             row == [completed |-> Qualified(PostedOf({s})), defect |-> Defective(PostedOf({s})),
                     status |-> ProgressStatus(Qualified(PostedOf({s})), Defective(PostedOf({s})))]
  <2>1. s \in Route
    BY <1>0, <1>6 DEF DeleteReport, Has
  <2>2. task' = [task EXCEPT ![s] = row]
    BY <1>6, <2>1, RecalculatedBooks DEF DeleteReport
  <2>3. row \in TaskRow
    BY <2>1, TotalsAdd DEF TotalsAreSums, TaskRow, ProgressStatus
  <2> HIDE DEF s, row
  <2> QED
    BY <1>1, <1>2, <1>6, <2>1, <2>2, <2>3
<1>7. ASSUME NEW c \in Clerks, ApplyTransition(c) PROVE ReportsHaveTasks'
  <2> DEFINE id == call[c].id
             to == call[c].to
  <2>1. call[c] # NoCall
    BY <1>7 DEF ApplyTransition
  <2>2. CASE call[c].entity = "task"
    <3>1. id \in Route /\ to \in 0 .. 3
      BY <2>1, <2>2 DEF CallsFit
    <3>2. task' = IF task[id] # NoRow THEN [task EXCEPT ![id].status = to] ELSE task
      BY <1>7, <2>2 DEF ApplyTransition
    <3> HIDE DEF id, to
    <3>3. task[id] # NoRow => [task[id] EXCEPT !.status = to] \in TaskRow
      BY <3>1 DEF TaskRow, ReportsTypeOK
    <3>4. \A s \in Route : task[s] # NoRow => task'[s] # NoRow
      BY <1>0, <3>1, <3>2, <3>3 DEF ReportsTypeOK
    <3> QED
      BY <1>1, <1>7, <3>4
  <2>3. CASE call[c].entity # "task"
    <3>1. task' = task
      BY <1>7, <2>3 DEF ApplyTransition
    <3> QED
      BY <1>1, <1>7, <3>1
  <2> QED
    BY <2>2, <2>3
<1>8. ASSUME NEW c \in Clerks, ApplyDeletion(c) PROVE ReportsHaveTasks'
  <2> DEFINE id == call[c].id
  <2>1. task' = IF ReportsOf(id) = {} THEN [task EXCEPT ![id] = NoRow] ELSE task
    BY <1>8 DEF ApplyDeletion
  <2>2. report' = report
    BY <1>8 DEF ApplyDeletion
  <2>3. ASSUME NEW r \in Rows PROVE task'[report[r].step] # NoRow
    <3>1. task[report[r].step] # NoRow /\ report[r].step \in Route
      BY <1>0 DEF ReportsHaveTasks
    <3>2. ReportsOf(id) = {} => report[r].step # id
      BY DEF ReportsOf
    <3> HIDE DEF id
    <3> QED
      BY <2>1, <3>1, <3>2 DEF ReportsTypeOK
  <2>4. Rows' = Rows
    BY <2>2 DEF Rows
  <2> QED
    BY <2>2, <2>3, <2>4 DEF ReportsHaveTasks
<1>9. ASSUME UNCHANGED <<task, report>> PROVE ReportsHaveTasks'
  BY <1>1, <1>9
<1> QED
  BY <1>3, <1>4, <1>5, <1>6, <1>7, <1>8, <1>9
  DEF ReportsNext, Transfer, JudgeTransition, JudgeDeletion, reportsVars

\* A step that changes no posted report changes no total.
LEMMA TotalsUntouched ==
  ASSUME UNCHANGED report, NEW S
  PROVE  /\ Qualified(PostedOf(S))' = Qualified(PostedOf(S))
         /\ Defective(PostedOf(S))' = Defective(PostedOf(S))
  BY DEF Qualified, Defective, PostedOf, Rows

\* Posting a report adds it to the totals of its step and of the work order.
LEMMA PostingAdds ==
  ASSUME ReportsTypeOK, ReportsTypeOK', NEW r \in ReportIds, PostReport(r), NEW S \in SUBSET Route
  PROVE  /\ report[r].step \in Route
         /\ report[r].qualified \in Nat /\ report[r].defect \in Nat
         /\ Qualified(PostedOf(S))'
              = Qualified(PostedOf(S)) + IF report[r].step \in S THEN report[r].qualified ELSE 0
         /\ Defective(PostedOf(S))'
              = Defective(PostedOf(S)) + IF report[r].step \in S THEN report[r].defect ELSE 0
<1>1. report[r] \in ReportRow /\ report[r].status = 1
  BY RowsAreReports DEF PostReport, Has, REPORT
<1>2. /\ report[r].step \in Route
      /\ report[r].qualified \in Nat /\ report[r].defect \in Nat
  BY <1>1 DEF ReportRow
<1>3. \A x \in ReportIds \ {r} : report'[x] = report[x]
  BY DEF PostReport, ReportsTypeOK
<1>4. report'[r] = [report[r] EXCEPT !.status = 2]
  BY DEF PostReport, ReportsTypeOK, REPORT
<1>5. /\ report'[r] \in ReportRow /\ report'[r].status = 2 /\ report'[r].step = report[r].step
      /\ report'[r].qualified = report[r].qualified /\ report'[r].defect = report[r].defect
  BY <1>1, <1>4 DEF ReportRow
<1>6. /\ QualifiedOf(S)[r] = 0 /\ DefectiveOf(S)[r] = 0
      /\ QualifiedOf(S)'[r] = IF report[r].step \in S THEN report[r].qualified ELSE 0
      /\ DefectiveOf(S)'[r] = IF report[r].step \in S THEN report[r].defect ELSE 0
  BY <1>1, <1>5 DEF QualifiedOf, DefectiveOf, IsPosted
<1>7. /\ Qualified(PostedOf(S))' = Qualified(PostedOf(S)) + QualifiedOf(S)'[r] - QualifiedOf(S)[r]
      /\ Defective(PostedOf(S))' = Defective(PostedOf(S)) + DefectiveOf(S)'[r] - DefectiveOf(S)[r]
  BY <1>3, TotalsChange
<1>8. Qualified(PostedOf(S)) \in Nat /\ Defective(PostedOf(S)) \in Nat
  BY TotalsAdd DEF TotalsAreSums
<1> QED
  BY <1>2, <1>6, <1>7, <1>8

\* Every step keeps the books.
LEMMA BooksStep ==
  ASSUME ReportsTypeOK, ReportsTypeOK', CallsFit, ReportsHaveTasks, ReportsHaveTasks', TasksBooked,
         [ReportsNext]_reportsVars
  PROVE  TasksBooked'
<1> USE ReportsAssumption
<1>0. /\ NoRow \notin ReportRow /\ NoRow \notin TaskRow /\ Deleted \notin ReportRow
      /\ Route' = Route
  BY RowsAreReports DEF Route
<1>1. ASSUME UNCHANGED <<report, workorder, moved>>, overwritten \subseteq overwritten',
             \A s \in Route : task'[s] # NoRow => /\ task[s] # NoRow
                                                  /\ task'[s].completed = task[s].completed
                                                  /\ task'[s].defect = task[s].defect
      PROVE  TasksBooked'
  BY <1>1, TotalsUntouched, QuietBooks
<1>2. CASE GenerateTasks
  <2> SUFFICES ASSUME overwritten' = {} PROVE TasksBooked'
    BY DEF TasksBooked
  <2>1. overwritten = {} /\ UNCHANGED <<report, workorder, moved>>
    BY <1>2 DEF GenerateTasks
  <2>2. \A S \in SUBSET Route : /\ Qualified(PostedOf(S))' = Qualified(PostedOf(S))
                                /\ Defective(PostedOf(S))' = Defective(PostedOf(S))
    BY <2>1, TotalsUntouched
  <2>3. ASSUME NEW s \in Route
        PROVE  /\ task'[s] # NoRow
               /\ task'[s].completed = Qualified(PostedOf({s}))
               /\ task'[s].defect = Defective(PostedOf({s}))
               /\ task'[s].completed <= Planned
    <3>1. CASE task[s] = NoRow
      <4>1. task'[s] = [status |-> 0, completed |-> 0, defect |-> 0]
        BY <1>2, <3>1 DEF GenerateTasks
      <4>2. PostedOf({s}) = {}
        BY <2>1, <3>1 DEF TasksBooked
      <4>3. Qualified(PostedOf({s})) = 0 /\ Defective(PostedOf({s})) = 0
        BY <4>2, NoTotals
      <4>4. task'[s] \in TaskRow
        BY <4>1 DEF TaskRow
      <4> QED
        BY <1>0, <4>1, <4>3, <4>4
    <3>2. CASE task[s] # NoRow
      <4>1. task'[s] = task[s]
        BY <1>2, <3>2 DEF GenerateTasks
      <4> QED
        BY <2>1, <3>2, <4>1 DEF TasksBooked
    <3> QED
      BY <3>1, <3>2
  <2>4. \A s \in Route : {s} \in SUBSET Route
    OBVIOUS
  <2> QED
    BY <1>0, <2>1, <2>2, <2>3, <2>4 DEF TasksBooked
<1>3. ASSUME NEW r \in ReportIds, NEW s \in Route, NEW q \in Quantities, NEW d \in Defects,
             NEW op \in Operations \cup {NoOperation}, CreateReport(r, s, q, d, op)
      PROVE  TasksBooked'
  <2>1. /\ \A x \in ReportIds \ {r} : report'[x] = report[x]
        /\ report[r] \notin ReportRow /\ report'[r].status = 0
    BY <1>0, <1>3 DEF CreateReport, ReportsTypeOK, REPORT
  <2>2. \A S \in SUBSET Route : /\ Qualified(PostedOf(S))' = Qualified(PostedOf(S))
                                /\ Defective(PostedOf(S))' = Defective(PostedOf(S))
    BY <2>1, SameTotals
  <2> QED
    BY <1>3, <2>2, QuietBooks DEF CreateReport
<1>4. ASSUME NEW r \in ReportIds, PostReport(r) PROVE TasksBooked'
  <2> SUFFICES ASSUME overwritten' = {} PROVE TasksBooked'
    BY DEF TasksBooked
  <2> DEFINE s == report[r].step
             q == report[r].qualified
             d == report[r].defect
             row == [completed |-> task[s].completed + q, defect |-> task[s].defect + d,
                     status |-> IF task[s].completed + q >= Planned THEN 3 ELSE 1]
  <2>1. overwritten = {} /\ moved' = moved
    BY <1>4 DEF PostReport
  <2>2. /\ s \in Route /\ q \in Nat /\ d \in Nat
        /\ \A S \in SUBSET Route :
              /\ Qualified(PostedOf(S))' = Qualified(PostedOf(S)) + IF s \in S THEN q ELSE 0
              /\ Defective(PostedOf(S))' = Defective(PostedOf(S)) + IF s \in S THEN d ELSE 0
    BY <1>4, PostingAdds
  <2>3. task[s] \in TaskRow
    BY <1>4, <2>2, RowsAreReports DEF PostReport, Has, ReportsHaveTasks, ReportsTypeOK
  <2>4. /\ task' = [task EXCEPT ![s] = row]
        /\ workorder'.completed = workorder.completed + q
        /\ workorder'.defect = workorder.defect + d
        /\ task[s].completed + q <= Planned
    BY <1>4 DEF PostReport
  <2>5. row.completed = task[s].completed + q /\ row.defect = task[s].defect + d
    OBVIOUS
  <2>6. row \in TaskRow
    BY <2>2, <2>3 DEF TaskRow
  <2> HIDE DEF row, s, q, d
  <2>7. \A n \in Route : task'[n] = IF n = s THEN row ELSE task[n]
    BY <2>2, <2>4 DEF ReportsTypeOK
  <2>8. ASSUME NEW n \in Route
        PROVE  /\ task'[n] = NoRow => PostedOf({n})' = {}
               /\ task'[n] # NoRow =>
                      /\ task'[n].completed = Qualified(PostedOf({n}))'
                      /\ task'[n].defect = Defective(PostedOf({n}))'
                      /\ task'[n].completed <= Planned
               /\ moved'[n] <= Qualified(PostedOf({n}))'
    <3>1. /\ Qualified(PostedOf({n}))' = Qualified(PostedOf({n})) + IF n = s THEN q ELSE 0
          /\ Defective(PostedOf({n}))' = Defective(PostedOf({n})) + IF n = s THEN d ELSE 0
      BY <2>2
    <3>2. /\ Qualified(PostedOf({n})) \in Nat /\ Defective(PostedOf({n})) \in Nat
          /\ moved[n] \in Nat
      BY TotalsAdd DEF TotalsAreSums, ReportsTypeOK
    <3>3. moved'[n] <= Qualified(PostedOf({n}))'
      <4>1. moved[n] <= Qualified(PostedOf({n}))
        BY <2>1 DEF TasksBooked
      <4> QED
        BY <2>1, <2>2, <3>1, <3>2, <4>1
    <3>4. CASE n = s
      <4>1. /\ task[s].completed = Qualified(PostedOf({s}))
            /\ task[s].defect = Defective(PostedOf({s}))
        BY <1>0, <2>1, <2>2, <2>3 DEF TasksBooked
      <4> QED
        BY <1>0, <2>4, <2>5, <2>6, <2>7, <3>1, <3>3, <3>4, <4>1
    <3>5. CASE n # s
      <4>1. task'[n] = NoRow => PostedOf({n})' = {}
        BY DEF ReportsHaveTasks, PostedOf
      <4>2. /\ Qualified(PostedOf({n}))' = Qualified(PostedOf({n}))
            /\ Defective(PostedOf({n}))' = Defective(PostedOf({n}))
        BY <3>1, <3>2, <3>5
      <4> QED
        BY <2>1, <2>7, <3>3, <3>5, <4>1, <4>2 DEF TasksBooked
    <3> QED
      BY <3>4, <3>5
  <2>9. /\ workorder'.completed = Qualified(PostedOf(Route))'
        /\ workorder'.defect = Defective(PostedOf(Route))'
    BY <2>1, <2>2, <2>4 DEF TasksBooked
  <2> QED
    BY <1>0, <2>8, <2>9 DEF TasksBooked
<1>5. ASSUME NEW r \in ReportIds, DeleteReport(r) PROVE TasksBooked'
  <2> SUFFICES ASSUME overwritten' = {} PROVE TasksBooked'
    BY DEF TasksBooked
  <2> DEFINE s == report[r].step
             row == [completed |-> Qualified(PostedOf({s})), defect |-> Defective(PostedOf({s})),
                     status |-> ProgressStatus(Qualified(PostedOf({s})), Defective(PostedOf({s})))]
  <2>1. overwritten = {} /\ moved' = moved /\ Recalculate(s)
    BY <1>5 DEF DeleteReport
  <2>2. /\ s \in Route /\ r \in Rows /\ report[r] \in ReportRow
        /\ report[r].status # 2
    BY <1>5, RowsAreReports DEF DeleteReport, Has, ReportRow, REPORT
  <2>3. \A x \in ReportIds : report'[x] = IF x = r THEN Deleted ELSE report[x]
    BY <1>5 DEF DeleteReport, ReportsTypeOK
  <2>4. \A S \in SUBSET Route : /\ Qualified(PostedOf(S))' = Qualified(PostedOf(S))
                                /\ Defective(PostedOf(S))' = Defective(PostedOf(S))
    BY <1>0, <2>2, <2>3, SameTotals
  <2>5. /\ task' = [task EXCEPT ![s] = row]
        /\ \E st \in {0, 1, 3} :
              workorder' = [completed |-> Qualified(PostedOf(Route)),
                            defect |-> Defective(PostedOf(Route)), status |-> st]
    BY <2>1, <2>2, RecalculatedBooks
  <2>6. /\ workorder'.completed = Qualified(PostedOf(Route))
        /\ workorder'.defect = Defective(PostedOf(Route))
    BY <2>5
  <2>7. row.completed = Qualified(PostedOf({s})) /\ row.defect = Defective(PostedOf({s}))
    OBVIOUS
  <2>8. row \in TaskRow
    BY <2>2, TotalsAdd DEF TotalsAreSums, TaskRow, ProgressStatus
  <2>9. task[s] # NoRow
    BY <2>2 DEF ReportsHaveTasks
  <2> HIDE DEF row, s
  <2>10. \A n \in Route : task'[n] = IF n = s THEN row ELSE task[n]
    BY <2>2, <2>5 DEF ReportsTypeOK
  <2>11. ASSUME NEW n \in Route
         PROVE  /\ task'[n] = NoRow => PostedOf({n})' = {}
                /\ task'[n] # NoRow =>
                       /\ task'[n].completed = Qualified(PostedOf({n}))'
                       /\ task'[n].defect = Defective(PostedOf({n}))'
                       /\ task'[n].completed <= Planned
                /\ moved'[n] <= Qualified(PostedOf({n}))'
    <3>1. /\ Qualified(PostedOf({n}))' = Qualified(PostedOf({n}))
          /\ Defective(PostedOf({n}))' = Defective(PostedOf({n}))
      BY <2>4
    <3>2. task'[n] = NoRow => PostedOf({n})' = {}
      BY DEF ReportsHaveTasks, PostedOf
    <3>3. moved'[n] <= Qualified(PostedOf({n}))'
      BY <2>1, <3>1 DEF TasksBooked
    <3>4. CASE n = s
      <4>1. /\ task[s].completed = Qualified(PostedOf({s}))
            /\ task[s].completed <= Planned
        BY <2>1, <2>2, <2>9 DEF TasksBooked
      <4> QED
        BY <1>0, <2>7, <2>8, <2>10, <3>1, <3>2, <3>3, <3>4, <4>1
    <3>5. CASE n # s
      BY <2>1, <2>10, <3>1, <3>2, <3>3, <3>5 DEF TasksBooked
    <3> QED
      BY <3>4, <3>5
  <2> QED
    BY <1>0, <2>4, <2>6, <2>11 DEF TasksBooked
<1>6. ASSUME NEW s \in Route, NEW q \in Quantities, Transfer(s, q) PROVE TasksBooked'
  <2> SUFFICES ASSUME overwritten' = {} PROVE TasksBooked'
    BY DEF TasksBooked
  <2>1. overwritten = {} /\ UNCHANGED <<report, workorder, task>>
    BY <1>6 DEF Transfer
  <2>2. \A S \in SUBSET Route : /\ Qualified(PostedOf(S))' = Qualified(PostedOf(S))
                                /\ Defective(PostedOf(S))' = Defective(PostedOf(S))
    BY <2>1, TotalsUntouched
  <2>3. PostedAt(s) = PostedOf({s})
    BY DEF PostedAt, PostedOf
  <2>4. \A n \in Route : moved'[n] = IF n = s THEN moved[s] + q ELSE moved[n]
    BY <1>6 DEF Transfer, ReportsTypeOK
  <2>5. moved[s] + q <= Qualified(PostedOf({s}))
    BY <1>6, <2>3 DEF Transfer
  <2>6. \A n \in Route : moved'[n] <= Qualified(PostedOf({n}))
    BY <2>1, <2>4, <2>5 DEF TasksBooked
  <2>7. \A n \in Route : PostedOf({n})' = PostedOf({n}) /\ {n} \in SUBSET Route
    BY <2>1 DEF PostedOf, Rows
  <2> QED
    BY <1>0, <2>1, <2>2, <2>6, <2>7 DEF TasksBooked
<1>7. ASSUME NEW c \in Clerks, ApplyTransition(c) PROVE TasksBooked'
  <2> DEFINE id == call[c].id
             to == call[c].to
  <2>1. call[c] # NoCall /\ moved' = moved
    BY <1>7 DEF ApplyTransition
  <2>2. CASE call[c].entity = "report"
    <3>1. id \in ReportIds /\ call[c].from = 0 /\ to \in {1, 3}
      BY <2>1, <2>2 DEF CallsFit
    <3>2. /\ report' = IF id \in Rows THEN [report EXCEPT ![id].status = to] ELSE report
          /\ overwritten' = overwritten \cup
                (IF id \in Rows /\ report[id].status # call[c].from THEN {id} ELSE {})
          /\ UNCHANGED <<task, workorder>>
      BY <1>7, <2>2 DEF ApplyTransition
    <3> HIDE DEF id, to
    <3>3. ASSUME overwritten' = {}, NEW S \in SUBSET Route
          PROVE  /\ Qualified(PostedOf(S))' = Qualified(PostedOf(S))
                 /\ Defective(PostedOf(S))' = Defective(PostedOf(S))
      <4>1. CASE id \in Rows
        <5>1. report[id] \in ReportRow /\ report[id].status = 0
          BY <3>1, <3>2, <3>3, <4>1, RowsAreReports
        <5>2. \A x \in ReportIds \ {id} : report'[x] = report[x]
          BY <3>2, <4>1 DEF ReportsTypeOK
        <5>3. report'[id].status = to
          BY <3>1, <3>2, <4>1, <5>1 DEF ReportsTypeOK, ReportRow
        <5> QED
          BY <3>1, <5>1, <5>2, <5>3, SameTotals
      <4>2. CASE id \notin Rows
        BY <3>2, <4>2, TotalsUntouched
      <4> QED
        BY <4>1, <4>2
    <3> QED
      BY <2>1, <3>2, <3>3, QuietBooks
  <2>3. CASE call[c].entity = "task"
    <3>1. id \in Route /\ to \in 0 .. 3
      BY <2>1, <2>3 DEF CallsFit
    <3>2. /\ task' = IF task[id] # NoRow THEN [task EXCEPT ![id].status = to] ELSE task
          /\ UNCHANGED <<report, workorder, overwritten>>
      BY <1>7, <2>3 DEF ApplyTransition
    <3> HIDE DEF id, to
    <3>3. \A s \in Route : task'[s] # NoRow => /\ task[s] # NoRow
                                               /\ task'[s].completed = task[s].completed
                                               /\ task'[s].defect = task[s].defect
      <4>1. task[id] # NoRow => task[id] \in TaskRow
        BY <3>1 DEF ReportsTypeOK
      <4>2. \A s \in Route : s # id => task'[s] = task[s]
        BY <3>2 DEF ReportsTypeOK
      <4>3. task[id] # NoRow => /\ task'[id].completed = task[id].completed
                                /\ task'[id].defect = task[id].defect
        BY <3>1, <3>2, <4>1 DEF ReportsTypeOK, TaskRow
      <4>4. task[id] = NoRow => task' = task
        BY <3>2
      <4> QED
        BY <4>2, <4>3, <4>4
    <3> QED
      BY <1>1, <2>1, <3>2, <3>3
  <2>4. CASE call[c].entity = "workorder"
    <3>1. workorder' = [workorder EXCEPT !.status = to] /\ UNCHANGED <<report, task, overwritten>>
      BY <1>7, <2>4 DEF ApplyTransition
    <3> HIDE DEF to
    <3>2. workorder'.completed = workorder.completed /\ workorder'.defect = workorder.defect
      BY <3>1 DEF ReportsTypeOK
    <3>3. \A S \in SUBSET Route : /\ Qualified(PostedOf(S))' = Qualified(PostedOf(S))
                                  /\ Defective(PostedOf(S))' = Defective(PostedOf(S))
      BY <3>1, TotalsUntouched
    <3> QED
      BY <2>1, <3>1, <3>2, <3>3, QuietBooks
  <2> QED
    BY <1>7, <2>2, <2>3, <2>4 DEF ApplyTransition
<1>8. ASSUME NEW c \in Clerks, ApplyDeletion(c) PROVE TasksBooked'
  <2>1. UNCHANGED <<report, workorder, moved, overwritten>>
    BY <1>8 DEF ApplyDeletion
  <2>2. \A s \in Route : task'[s] # NoRow => task'[s] = task[s]
    BY <1>8 DEF ApplyDeletion, ReportsTypeOK
  <2> QED
    BY <1>1, <2>1, <2>2
<1>9. ASSUME UNCHANGED <<task, report, workorder, moved, overwritten>> PROVE TasksBooked'
  BY <1>1, <1>9
<1> QED
  BY <1>2, <1>3, <1>4, <1>5, <1>6, <1>7, <1>8, <1>9
  DEF ReportsNext, JudgeTransition, JudgeDeletion, reportsVars

-----------------------------------------------------------------------------
\* Every step keeps the invariant.
LEMMA ReportsStep ==
  ASSUME ReportsInv, [ReportsNext]_reportsVars
  PROVE  ReportsInv'
<1>1. ReportsTypeOK' /\ CallsFit'
  BY ReportsTypeStep DEF ReportsInv
<1>2. ReportsHaveTasks' /\ OneReportPerOperation'
  BY <1>1, ReportsHaveTasksStep, OneReportStep DEF ReportsInv
<1>3. TasksBooked'
  BY <1>1, <1>2, BooksStep DEF ReportsInv
<1> QED
  BY <1>1, <1>2, <1>3 DEF ReportsInv

\* The books are empty at first.
LEMMA ReportsInitInv == ReportsInit => ReportsInv
<1> SUFFICES ASSUME ReportsInit PROVE ReportsInv
  OBVIOUS
<1>1. ReportsTypeOK /\ CallsFit
  BY DEF ReportsInit, ReportsTypeOK, CallsFit
<1>2. Rows = {}
  BY DEF ReportsInit, Rows
<1>3. \A S \in SUBSET Route :
         PostedOf(S) = {} /\ Qualified(PostedOf(S)) = 0 /\ Defective(PostedOf(S)) = 0
  BY <1>1, <1>2, NoTotals DEF PostedOf
<1>4. TasksBooked
  BY <1>3 DEF ReportsInit, TasksBooked
<1> QED
  BY <1>1, <1>2, <1>4 DEF ReportsInv, ReportsHaveTasks, OneReportPerOperation

\* The inductive invariant of the reports: rows of their types, the books of the
\* tasks as sums of posted reports, calls that fit the rows they were judged on,
\* a task under every report and one report per operation.
THEOREM ReportsInvariant == ReportsSpec => []ReportsInv
  BY ReportsInitInv, ReportsStep, PTL DEF ReportsSpec

\* The tables of tasks, reports, transfers and of the work order hold rows of
\* their types: no count in them is ever negative.
THEOREM ReportsTypes == ReportsSpec => []ReportsTypeOK
<1>1. ReportsInv => ReportsTypeOK
  BY DEF ReportsInv
<1> QED
  BY <1>1, ReportsInvariant, PTL

\* However filing, approving, posting, deleting and transferring overlap, the
\* books of the tasks and of the work order are the sums of the posted reports
\* as long as no status change went over one it had not judged.
THEOREM BooksAlwaysAgree == ReportsSpec => []BooksAgree
<1>1. ReportsInv => BooksAgree
  BY BooksAreTotals DEF ReportsInv
<1> QED
  BY <1>1, ReportsInvariant, PTL

-----------------------------------------------------------------------------
(***************************************************************************)
(* PLANS                                                                   *)
(***************************************************************************)

-----------------------------------------------------------------------------
(* Quantities of rows.                                                     *)

\* The total of rows whose quantities are natural numbers.
LEMMA QuantityType ==
  ASSUME NEW D, IsFiniteSet(D), NEW S \in SUBSET D, NEW table,
         \A i \in S : table[i].quantity \in Nat
  PROVE  QuantityOf(table, S) \in Nat
<1> DEFINE f == [i \in S |-> table[i].quantity]
<1>1. IsFiniteSet(S)
  BY FS_Subset
<1>2. SumFunctionOnSet(f, S) \in Nat
  BY <1>1, SumNotNegative
<1> QED
  BY <1>2 DEF QuantityOf, SumFunction

\* No rows come to nothing.
LEMMA QuantityEmpty == \A table : QuantityOf(table, {}) = 0
  BY SumEmpty DEF QuantityOf, SumFunction

\* Fewer rows hold no more.
LEMMA QuantityShrinks ==
  ASSUME NEW D, IsFiniteSet(D), NEW S \in SUBSET D, NEW T \in SUBSET S, NEW old, NEW new,
         \A i \in S : old[i].quantity \in Nat,
         \A i \in T : new[i].quantity = old[i].quantity
  PROVE  QuantityOf(new, T) <= QuantityOf(old, S)
<1> DEFINE f == [i \in S |-> old[i].quantity]
           g == [i \in T |-> new[i].quantity]
<1>1. IsFiniteSet(S) /\ IsFiniteSet(T)
  BY FS_Subset
<1>2. SumFunctionOnSet(f, T) <= SumFunctionOnSet(f, S)
  BY <1>1, SumSubset
<1>3. \A i \in T : g[i] = f[i]
  OBVIOUS
<1>4. SumFunctionOnSet(g, T) = SumFunctionOnSet(f, T)
  <2> HIDE DEF f, g
  <2> QED BY <1>1, <1>3, SumSame
<1>5. QuantityOf(old, S) = SumFunctionOnSet(f, S) /\ QuantityOf(new, T) = SumFunctionOnSet(g, T)
  BY DEF QuantityOf, SumFunction
<1> QED
  BY <1>2, <1>4, <1>5

-----------------------------------------------------------------------------
(* The invariant.                                                          *)

\* The rows below one row that count, but those whose status was written over
\* one not judged: what is left still fits, whatever happened to the others.
LinkedPlans(i) == {p \in RowsFor(plan, i, SALES.cancelled) : plan[p].linked}
SoundPlans(i) == LinkedPlans(i) \ rewritten
SoundBatches(p) == RowsFor(batch, p, SALES.cancelled) \ rewritten
SoundWorkOrders(b) == RowsFor(workorders, b, 6) \ rewritten

PlansFit ==
    \A i \in SalesItems : sales[i] # NoRow => QuantityOf(plan, SoundPlans(i)) <= sales[i].quantity
BatchesFit ==
    \A p \in PlanItems : plan[p] # NoRow => QuantityOf(batch, SoundBatches(p)) <= plan[p].quantity
WorkOrdersFit ==
    \A b \in Batches : batch[b] # NoRow =>
        \/ QuantityOf(workorders, SoundWorkOrders(b)) <= batch[b].quantity
        \/ b \in overlapped

\* Nothing is below a row that does not exist.
SourcesExist ==
    /\ \A p \in PlanItems : plan[p] # NoRow /\ plan[p].linked =>
          plan[p].source \in SalesItems /\ sales[plan[p].source] # NoRow
    /\ \A b \in Batches : batch[b] # NoRow => plan[batch[b].source] # NoRow
    /\ \A w \in WorkOrderIds : workorders[w] # NoRow /\ workorders[w].source # NoSource =>
          batch[workorders[w].source] # NoRow

\* What a planner remembers was true when it was read, and rows stay.
Remembers(c) ==
    /\ planner[c].kind = "transition" =>
          /\ Row(planner[c].id) # NoRow
          /\ <<planner[c].from, planner[c].to>> \in
                IF planner[c].id \in WorkOrderIds THEN WorkOrderGraph ELSE OrderGraph
    /\ planner[c].kind = "batch" => plan[planner[c].source] # NoRow
    /\ planner[c].kind = "workorder" =>
          /\ batch[planner[c].source] # NoRow
          /\ planner[c].quantity + planner[c].used <= batch[planner[c].source].quantity
PlannersRemember == \A c \in Planners : planner[c] # NoCall => Remembers(c)

PlanningInv ==
    /\ PlanningTypeOK /\ SourcesExist /\ PlannersRemember
    /\ PlansFit /\ BatchesFit /\ WorkOrdersFit

-----------------------------------------------------------------------------
\* The types of rows, spelled out.
LEMMA PlanningRows ==
  ASSUME PlanningTypeOK
  PROVE  /\ \A i \in SalesItems : sales[i] # NoRow => sales[i] \in SalesRow
         /\ \A p \in PlanItems : plan[p] # NoRow => plan[p] \in PlanRow
         /\ \A b \in Batches : batch[b] # NoRow => batch[b] \in BatchRow
         /\ \A w \in WorkOrderIds : workorders[w] # NoRow => workorders[w] \in WorkOrderRow
         /\ NoRow \notin SalesRow \cup PlanRow \cup BatchRow \cup WorkOrderRow
         /\ DOMAIN sales = SalesItems /\ DOMAIN plan = PlanItems
         /\ DOMAIN batch = Batches /\ DOMAIN workorders = WorkOrderIds
  BY PlanningRowAssumption DEF PlanningTypeOK

LEMMA RowsForOf ==
  ASSUME PlanningTypeOK
  PROVE  /\ \A i : RowsFor(plan, i, SALES.cancelled)
                     = {p \in PlanItems : plan[p] # NoRow /\ plan[p].source = i /\ plan[p].status # 4}
         /\ \A p : RowsFor(batch, p, SALES.cancelled)
                     = {b \in Batches : batch[b] # NoRow /\ batch[b].source = p /\ batch[b].status # 4}
         /\ \A b : RowsFor(workorders, b, 6)
                     = {w \in WorkOrderIds : /\ workorders[w] # NoRow /\ workorders[w].source = b
                                             /\ workorders[w].status # 6}
  BY PlanningRows DEF RowsFor, SALES

\* Quantities are natural numbers, so the totals are.
LEMMA PlanQuantities ==
  ASSUME PlanningTypeOK
  PROVE  /\ \A i \in SalesItems : sales[i] # NoRow => sales[i].quantity \in Nat
         /\ \A p \in PlanItems : plan[p] # NoRow => plan[p].quantity \in Nat
         /\ \A b \in Batches : batch[b] # NoRow => batch[b].quantity \in Nat
         /\ \A w \in WorkOrderIds : workorders[w] # NoRow => workorders[w].quantity \in Nat
  BY PlanningRows, PlanningAssumption DEF SalesRow, PlanRow, BatchRow, WorkOrderRow

\* What is used of a source is a natural number.
LEMMA UsedByType ==
  ASSUME PlanningTypeOK
  PROVE  /\ \A i : UsedBy(plan, i, SALES.cancelled) \in Nat
         /\ \A p : UsedBy(batch, p, SALES.cancelled) \in Nat
         /\ \A b : UsedBy(workorders, b, 6) \in Nat
<1>1. ASSUME NEW i PROVE UsedBy(plan, i, SALES.cancelled) \in Nat
  <2> DEFINE S == RowsFor(plan, i, SALES.cancelled)
  <2>1. S \in SUBSET PlanItems /\ \A p \in S : plan[p].quantity \in Nat
    BY RowsForOf, PlanQuantities
  <2> HIDE DEF S
  <2> QED
    BY <2>1, QuantityType, PlanningRowAssumption DEF UsedBy, S
<1>2. ASSUME NEW p PROVE UsedBy(batch, p, SALES.cancelled) \in Nat
  <2> DEFINE S == RowsFor(batch, p, SALES.cancelled)
  <2>1. S \in SUBSET Batches /\ \A b \in S : batch[b].quantity \in Nat
    BY RowsForOf, PlanQuantities
  <2> HIDE DEF S
  <2> QED
    BY <2>1, QuantityType, PlanningRowAssumption DEF UsedBy, S
<1>3. ASSUME NEW b PROVE UsedBy(workorders, b, 6) \in Nat
  <2> DEFINE S == RowsFor(workorders, b, 6)
  <2>1. S \in SUBSET WorkOrderIds /\ \A w \in S : workorders[w].quantity \in Nat
    BY RowsForOf, PlanQuantities
  <2> HIDE DEF S
  <2> QED
    BY <2>1, QuantityType, PlanningRowAssumption DEF UsedBy, S
<1> QED
  BY <1>1, <1>2, <1>3

\* The property is what the invariant says of undisturbed rows.
LEMMA FitsWithin ==
  ASSUME PlanningTypeOK, PlansFit, BatchesFit, WorkOrdersFit
  PROVE  PlannedWithinOrdered
<1>1. ASSUME NEW i \in SalesItems, sales[i] # NoRow
      PROVE  \/ QuantityOf(plan, LinkedPlans(i)) <= sales[i].quantity
             \/ LinkedPlans(i) \cap rewritten # {}
  <2>1. LinkedPlans(i) \cap rewritten = {} => SoundPlans(i) = LinkedPlans(i)
    BY DEF SoundPlans
  <2> QED
    BY <1>1, <2>1 DEF PlansFit
<1>2. ASSUME NEW p \in PlanItems, plan[p] # NoRow
      PROVE  \/ QuantityOf(batch, RowsFor(batch, p, SALES.cancelled)) <= plan[p].quantity
             \/ RowsFor(batch, p, SALES.cancelled) \cap rewritten # {}
  <2>1. RowsFor(batch, p, SALES.cancelled) \cap rewritten = {} =>
          SoundBatches(p) = RowsFor(batch, p, SALES.cancelled)
    BY DEF SoundBatches
  <2> QED
    BY <1>2, <2>1 DEF BatchesFit
<1>3. ASSUME NEW b \in Batches, batch[b] # NoRow
      PROVE  \/ QuantityOf(workorders, RowsFor(workorders, b, 6)) <= batch[b].quantity
             \/ RowsFor(workorders, b, 6) \cap rewritten # {}
             \/ b \in overlapped
  <2>1. RowsFor(workorders, b, 6) \cap rewritten = {} =>
          SoundWorkOrders(b) = RowsFor(workorders, b, 6)
    BY DEF SoundWorkOrders
  <2> QED
    BY <1>3, <2>1 DEF WorkOrdersFit
<1> QED
  BY <1>1, <1>2, <1>3 DEF PlannedWithinOrdered, LinkedPlans

-----------------------------------------------------------------------------
(* Writing a status: rows stay, hold what they held, and none that is not  *)
(* listed as rewritten comes back from being cancelled.                    *)

\* A status derived for a sales order is written to its row and no other.
LEMMA SalesStatusWritten ==
  ASSUME PlanningTypeOK, PlannersRemember, NEW c \in Planners, WriteStatus(c)
  PROVE  /\ sales' \in [SalesItems -> SalesRow \cup {NoRow}]
         /\ \A i \in SalesItems : sales'[i] = NoRow <=> sales[i] = NoRow
         /\ \A i \in SalesItems : sales[i] # NoRow =>
               sales'[i].quantity = sales[i].quantity
<1> DEFINE id == planner[c].id
           to == planner[c].to
<1>1. planner[c] # NoCall /\ planner[c].kind = "transition"
  BY DEF WriteStatus
<1>2. /\ Row(id) # NoRow
      /\ id \in SalesItems => <<planner[c].from, to>> \in OrderGraph
  BY <1>1, PlanningRowAssumption DEF PlannersRemember, Remembers
<1>3. id \in SalesItems => Row(id) = sales[id]
  BY PlanningRowAssumption DEF Row
<1>4. sales' = IF id \in SalesItems THEN [sales EXCEPT ![id].status = to] ELSE sales
  BY PlanningRows DEF WriteStatus
<1> HIDE DEF id, to
<1>5. /\ sales' \in [SalesItems -> SalesRow \cup {NoRow}]
      /\ \A i \in SalesItems : sales'[i] = NoRow <=> sales[i] = NoRow
      /\ \A i \in SalesItems : sales[i] # NoRow =>
            sales'[i].quantity = sales[i].quantity
  <2>1. CASE id \in SalesItems
    <3> DEFINE new == [sales[id] EXCEPT !.status = to]
    <3>1. sales[id] \in SalesRow
      BY <1>2, <1>3, <2>1, PlanningRows
    <3>2. to \in 0 .. 4
      BY <1>2, <2>1 DEF OrderGraph
    <3>3. new \in SalesRow
      BY <3>1, <3>2 DEF SalesRow
    <3>4. new.quantity = sales[id].quantity
      BY <3>1 DEF SalesRow
    <3>5. sales' = [sales EXCEPT ![id] = new]
      BY <1>4, <2>1
    <3> HIDE DEF new
    <3>6. \A i \in SalesItems : sales'[i] = IF i = id THEN new ELSE sales[i]
      BY <2>1, <3>5 DEF PlanningTypeOK
    <3>7. sales' \in [SalesItems -> SalesRow \cup {NoRow}]
      BY <2>1, <3>3, <3>5 DEF PlanningTypeOK
    <3>8. sales[id] # NoRow /\ new # NoRow
      BY <3>1, <3>3, PlanningRows
    <3> QED
      BY <3>4, <3>6, <3>7, <3>8
  <2>2. CASE id \notin SalesItems
    BY <1>4, <2>2 DEF PlanningTypeOK
  <2> QED
    BY <2>1, <2>2
<1> QED
  BY <1>5

\* The same for the plans of a set.
LEMMA PlanStatusWritten ==
  ASSUME PlanningTypeOK, PlannersRemember, NEW c \in Planners, WriteStatus(c)
  PROVE  /\ plan' \in [PlanItems -> PlanRow \cup {NoRow}]
         /\ \A i \in PlanItems : plan'[i] = NoRow <=> plan[i] = NoRow
         /\ \A i \in PlanItems : plan[i] # NoRow =>
               plan'[i].quantity = plan[i].quantity /\ plan'[i].source = plan[i].source /\ plan'[i].linked = plan[i].linked
         /\ \A i \in PlanItems : plan'[i] # NoRow /\ i \notin rewritten' /\ plan'[i].status # 4 =>
               plan[i].status # 4
<1> DEFINE id == planner[c].id
           to == planner[c].to
<1>1. planner[c] # NoCall /\ planner[c].kind = "transition"
  BY DEF WriteStatus
<1>2. /\ Row(id) # NoRow
      /\ id \in PlanItems => <<planner[c].from, to>> \in OrderGraph
  BY <1>1, PlanningRowAssumption DEF PlannersRemember, Remembers
<1>3. id \in PlanItems => Row(id) = plan[id]
  BY PlanningRowAssumption DEF Row
<1>4. plan' = IF id \in PlanItems THEN [plan EXCEPT ![id].status = to] ELSE plan
  BY PlanningRows DEF WriteStatus
<1> HIDE DEF id, to
<1>5. /\ plan' \in [PlanItems -> PlanRow \cup {NoRow}]
      /\ \A i \in PlanItems : plan'[i] = NoRow <=> plan[i] = NoRow
      /\ \A i \in PlanItems : plan[i] # NoRow =>
            plan'[i].quantity = plan[i].quantity /\ plan'[i].source = plan[i].source /\ plan'[i].linked = plan[i].linked
  <2>1. CASE id \in PlanItems
    <3> DEFINE new == [plan[id] EXCEPT !.status = to]
    <3>1. plan[id] \in PlanRow
      BY <1>2, <1>3, <2>1, PlanningRows
    <3>2. to \in 0 .. 4
      BY <1>2, <2>1 DEF OrderGraph
    <3>3. new \in PlanRow
      BY <3>1, <3>2 DEF PlanRow
    <3>4. new.quantity = plan[id].quantity /\ new.source = plan[id].source /\ new.linked = plan[id].linked
      BY <3>1 DEF PlanRow
    <3>5. plan' = [plan EXCEPT ![id] = new]
      BY <1>4, <2>1
    <3> HIDE DEF new
    <3>6. \A i \in PlanItems : plan'[i] = IF i = id THEN new ELSE plan[i]
      BY <2>1, <3>5 DEF PlanningTypeOK
    <3>7. plan' \in [PlanItems -> PlanRow \cup {NoRow}]
      BY <2>1, <3>3, <3>5 DEF PlanningTypeOK
    <3>8. plan[id] # NoRow /\ new # NoRow
      BY <3>1, <3>3, PlanningRows
    <3> QED
      BY <3>4, <3>6, <3>7, <3>8
  <2>2. CASE id \notin PlanItems
    BY <1>4, <2>2 DEF PlanningTypeOK
  <2> QED
    BY <2>1, <2>2
<1>6. ASSUME NEW i \in PlanItems, plan'[i] # NoRow, i \notin rewritten', plan'[i].status # 4
      PROVE  plan[i].status # 4
  <2>1. CASE i = id
    <3>1. plan[i].status = planner[c].from
      BY <1>1, <1>3, <1>6, <2>1 DEF WriteStatus, id
    <3>2. planner[c].from # 4
      BY <1>2, <2>1 DEF OrderGraph
    <3> QED
      BY <3>1, <3>2
  <2>2. CASE i # id
    <3>1. plan'[i] = plan[i]
      BY <1>4, <2>2 DEF PlanningTypeOK
    <3> QED
      BY <1>6, <3>1
  <2> QED
    BY <2>1, <2>2
<1> QED
  BY <1>5, <1>6

\* The same for a batch.
LEMMA BatchStatusWritten ==
  ASSUME PlanningTypeOK, PlannersRemember, NEW c \in Planners, WriteStatus(c)
  PROVE  /\ batch' \in [Batches -> BatchRow \cup {NoRow}]
         /\ \A i \in Batches : batch'[i] = NoRow <=> batch[i] = NoRow
         /\ \A i \in Batches : batch[i] # NoRow =>
               batch'[i].quantity = batch[i].quantity /\ batch'[i].source = batch[i].source
         /\ \A i \in Batches : batch'[i] # NoRow /\ i \notin rewritten' /\ batch'[i].status # 4 =>
               batch[i].status # 4
<1> DEFINE id == planner[c].id
           to == planner[c].to
<1>1. planner[c] # NoCall /\ planner[c].kind = "transition"
  BY DEF WriteStatus
<1>2. /\ Row(id) # NoRow
      /\ id \in Batches => <<planner[c].from, to>> \in OrderGraph
  BY <1>1, PlanningRowAssumption DEF PlannersRemember, Remembers
<1>3. id \in Batches => Row(id) = batch[id]
  BY PlanningRowAssumption DEF Row
<1>4. batch' = IF id \in Batches THEN [batch EXCEPT ![id].status = to] ELSE batch
  BY PlanningRows DEF WriteStatus
<1> HIDE DEF id, to
<1>5. /\ batch' \in [Batches -> BatchRow \cup {NoRow}]
      /\ \A i \in Batches : batch'[i] = NoRow <=> batch[i] = NoRow
      /\ \A i \in Batches : batch[i] # NoRow =>
            batch'[i].quantity = batch[i].quantity /\ batch'[i].source = batch[i].source
  <2>1. CASE id \in Batches
    <3> DEFINE new == [batch[id] EXCEPT !.status = to]
    <3>1. batch[id] \in BatchRow
      BY <1>2, <1>3, <2>1, PlanningRows
    <3>2. to \in 0 .. 4
      BY <1>2, <2>1 DEF OrderGraph
    <3>3. new \in BatchRow
      BY <3>1, <3>2 DEF BatchRow
    <3>4. new.quantity = batch[id].quantity /\ new.source = batch[id].source
      BY <3>1 DEF BatchRow
    <3>5. batch' = [batch EXCEPT ![id] = new]
      BY <1>4, <2>1
    <3> HIDE DEF new
    <3>6. \A i \in Batches : batch'[i] = IF i = id THEN new ELSE batch[i]
      BY <2>1, <3>5 DEF PlanningTypeOK
    <3>7. batch' \in [Batches -> BatchRow \cup {NoRow}]
      BY <2>1, <3>3, <3>5 DEF PlanningTypeOK
    <3>8. batch[id] # NoRow /\ new # NoRow
      BY <3>1, <3>3, PlanningRows
    <3> QED
      BY <3>4, <3>6, <3>7, <3>8
  <2>2. CASE id \notin Batches
    BY <1>4, <2>2 DEF PlanningTypeOK
  <2> QED
    BY <2>1, <2>2
<1>6. ASSUME NEW i \in Batches, batch'[i] # NoRow, i \notin rewritten', batch'[i].status # 4
      PROVE  batch[i].status # 4
  <2>1. CASE i = id
    <3>1. batch[i].status = planner[c].from
      BY <1>1, <1>3, <1>6, <2>1 DEF WriteStatus, id
    <3>2. planner[c].from # 4
      BY <1>2, <2>1 DEF OrderGraph
    <3> QED
      BY <3>1, <3>2
  <2>2. CASE i # id
    <3>1. batch'[i] = batch[i]
      BY <1>4, <2>2 DEF PlanningTypeOK
    <3> QED
      BY <1>6, <3>1
  <2> QED
    BY <2>1, <2>2
<1> QED
  BY <1>5, <1>6

\* The same for a work order.
LEMMA WorkOrderStatusWritten ==
  ASSUME PlanningTypeOK, PlannersRemember, NEW c \in Planners, WriteStatus(c)
  PROVE  /\ workorders' \in [WorkOrderIds -> WorkOrderRow \cup {NoRow}]
         /\ \A i \in WorkOrderIds : workorders'[i] = NoRow <=> workorders[i] = NoRow
         /\ \A i \in WorkOrderIds : workorders[i] # NoRow =>
               workorders'[i].quantity = workorders[i].quantity /\ workorders'[i].source = workorders[i].source
         /\ \A i \in WorkOrderIds : workorders'[i] # NoRow /\ i \notin rewritten' /\ workorders'[i].status # 6 =>
               workorders[i].status # 6
<1> DEFINE id == planner[c].id
           to == planner[c].to
<1>1. planner[c] # NoCall /\ planner[c].kind = "transition"
  BY DEF WriteStatus
<1>2. /\ Row(id) # NoRow
      /\ id \in WorkOrderIds => <<planner[c].from, to>> \in WorkOrderGraph
  BY <1>1, PlanningRowAssumption DEF PlannersRemember, Remembers
<1>3. id \in WorkOrderIds => Row(id) = workorders[id]
  BY PlanningRowAssumption DEF Row
<1>4. workorders' = IF id \in WorkOrderIds THEN [workorders EXCEPT ![id].status = to] ELSE workorders
  BY PlanningRows DEF WriteStatus
<1> HIDE DEF id, to
<1>5. /\ workorders' \in [WorkOrderIds -> WorkOrderRow \cup {NoRow}]
      /\ \A i \in WorkOrderIds : workorders'[i] = NoRow <=> workorders[i] = NoRow
      /\ \A i \in WorkOrderIds : workorders[i] # NoRow =>
            workorders'[i].quantity = workorders[i].quantity /\ workorders'[i].source = workorders[i].source
  <2>1. CASE id \in WorkOrderIds
    <3> DEFINE new == [workorders[id] EXCEPT !.status = to]
    <3>1. workorders[id] \in WorkOrderRow
      BY <1>2, <1>3, <2>1, PlanningRows
    <3>2. to \in 0 .. 6
      BY <1>2, <2>1 DEF WorkOrderGraph
    <3>3. new \in WorkOrderRow
      BY <3>1, <3>2 DEF WorkOrderRow
    <3>4. new.quantity = workorders[id].quantity /\ new.source = workorders[id].source
      BY <3>1 DEF WorkOrderRow
    <3>5. workorders' = [workorders EXCEPT ![id] = new]
      BY <1>4, <2>1
    <3> HIDE DEF new
    <3>6. \A i \in WorkOrderIds : workorders'[i] = IF i = id THEN new ELSE workorders[i]
      BY <2>1, <3>5 DEF PlanningTypeOK
    <3>7. workorders' \in [WorkOrderIds -> WorkOrderRow \cup {NoRow}]
      BY <2>1, <3>3, <3>5 DEF PlanningTypeOK
    <3>8. workorders[id] # NoRow /\ new # NoRow
      BY <3>1, <3>3, PlanningRows
    <3> QED
      BY <3>4, <3>6, <3>7, <3>8
  <2>2. CASE id \notin WorkOrderIds
    BY <1>4, <2>2 DEF PlanningTypeOK
  <2> QED
    BY <2>1, <2>2
<1>6. ASSUME NEW i \in WorkOrderIds, workorders'[i] # NoRow, i \notin rewritten', workorders'[i].status # 6
      PROVE  workorders[i].status # 6
  <2>1. CASE i = id
    <3>1. workorders[i].status = planner[c].from
      BY <1>1, <1>3, <1>6, <2>1 DEF WriteStatus, id
    <3>2. planner[c].from # 6
      BY <1>2, <2>1 DEF WorkOrderGraph
    <3> QED
      BY <3>1, <3>2
  <2>2. CASE i # id
    <3>1. workorders'[i] = workorders[i]
      BY <1>4, <2>2 DEF PlanningTypeOK
    <3> QED
      BY <1>6, <3>1
  <2> QED
    BY <2>1, <2>2
<1> QED
  BY <1>5, <1>6

-----------------------------------------------------------------------------
(* Types.                                                                  *)

\* Every step writes rows of the tables' types.
LEMMA PlanningTypeStep ==
  ASSUME PlanningTypeOK, PlannersRemember, [PlanningNext]_planningVars
  PROVE  PlanningTypeOK'
<1>1. ASSUME NEW i \in SalesItems, NEW q \in PlannedQuantities, SaveSalesOrder(i, q)
      PROVE  PlanningTypeOK'
  <2>1. [quantity |-> q, status |-> SALES.draft] \in SalesRow
    BY DEF SalesRow, SALES
  <2> QED
    BY <1>1, <2>1 DEF PlanningTypeOK, SaveSalesOrder
<1>2. ASSUME NEW p \in PlanItems, NEW s \in SalesItems \cup {NoSource}, NEW linked \in BOOLEAN,
             NEW q \in PlannedQuantities, SavePlan(p, s, linked, q)
      PROVE  PlanningTypeOK'
  <2>1. [quantity |-> q, status |-> 0, source |-> s, linked |-> linked] \in PlanRow
    BY DEF PlanRow
  <2> QED
    BY <1>2, <2>1 DEF PlanningTypeOK, SavePlan
<1>3. ASSUME NEW w \in WorkOrderIds, NEW q \in PlannedQuantities, SaveLooseWorkOrder(w, q)
      PROVE  PlanningTypeOK'
  <2>1. [quantity |-> q, status |-> 0, source |-> NoSource] \in WorkOrderRow
    BY DEF WorkOrderRow
  <2> QED
    BY <1>3, <2>1 DEF PlanningTypeOK, SaveLooseWorkOrder
<1>4. ASSUME NEW c \in Planners, NEW p \in PlanItems, NEW q \in PlannedQuantities, ReadPlan(c, p, q)
      PROVE  PlanningTypeOK'
  <2>1. [kind |-> "batch", source |-> p, quantity |-> q] \in PlannerCall
    BY DEF PlannerCall
  <2> QED
    BY <1>4, <2>1 DEF PlanningTypeOK, ReadPlan
<1>5. ASSUME NEW c \in Planners, NEW b \in Batches, NEW q \in PlannedQuantities, ReadBatch(c, b, q)
      PROVE  PlanningTypeOK'
  <2>1. UsedBy(workorders, b, 6) \in Nat
    BY UsedByType
  <2>2. [kind |-> "workorder", source |-> b, quantity |-> q, used |-> UsedBy(workorders, b, 6)]
          \in PlannerCall
    BY <2>1 DEF PlannerCall
  <2> QED
    BY <1>5, <2>2 DEF PlanningTypeOK, ReadBatch
<1>6. ASSUME NEW c \in Planners, NEW b \in Batches, SaveBatch(c, b) PROVE PlanningTypeOK'
  <2> DEFINE row == [quantity |-> planner[c].quantity, status |-> 0, source |-> planner[c].source]
  <2>1. planner[c] \in PlannerCall /\ planner[c].kind = "batch"
    BY <1>6 DEF SaveBatch, PlanningTypeOK
  <2>2. row \in BatchRow
    BY <2>1 DEF PlannerCall, BatchRow
  <2>3. batch' = batch \/ batch' = [batch EXCEPT ![b] = row]
    BY <1>6 DEF SaveBatch
  <2> HIDE DEF row
  <2> QED
    BY <1>6, <2>2, <2>3 DEF PlanningTypeOK, SaveBatch
<1>7. ASSUME NEW c \in Planners, NEW w \in WorkOrderIds, SaveWorkOrder(c, w) PROVE PlanningTypeOK'
  <2> DEFINE row == [quantity |-> planner[c].quantity, status |-> 0, source |-> planner[c].source]
  <2>1. planner[c] \in PlannerCall /\ planner[c].kind = "workorder"
    BY <1>7 DEF SaveWorkOrder, PlanningTypeOK
  <2>2. row \in WorkOrderRow /\ planner[c].source \in Batches
    BY <2>1 DEF PlannerCall, WorkOrderRow
  <2>3. /\ workorders' = [workorders EXCEPT ![w] = row]
        /\ overlapped' \subseteq overlapped \cup {planner[c].source}
    BY <1>7 DEF SaveWorkOrder
  <2> HIDE DEF row
  <2> QED
    BY <1>7, <2>2, <2>3 DEF PlanningTypeOK, SaveWorkOrder
<1>8. ASSUME NEW c \in Planners,
             NEW id \in SalesItems \cup PlanItems \cup Batches \cup WorkOrderIds, JudgeStatus(c, id)
      PROVE  PlanningTypeOK'
  <2>1. PICK t \in IF id \in WorkOrderIds THEN WorkOrderGraph ELSE OrderGraph :
            planner' = [planner EXCEPT ![c] =
                           [kind |-> "transition", id |-> id, from |-> t[1], to |-> t[2]]]
    BY <1>8 DEF JudgeStatus
  <2>2. t[1] \in 0 .. 6 /\ t[2] \in 0 .. 6
    BY DEF WorkOrderGraph, OrderGraph
  <2>3. [kind |-> "transition", id |-> id, from |-> t[1], to |-> t[2]] \in PlannerCall
    BY <2>2 DEF PlannerCall
  <2> QED
    BY <1>8, <2>1, <2>3 DEF PlanningTypeOK, JudgeStatus
<1>9. ASSUME NEW c \in Planners, WriteStatus(c) PROVE PlanningTypeOK'
  <2>1. /\ sales' \in [SalesItems -> SalesRow \cup {NoRow}]
        /\ plan' \in [PlanItems -> PlanRow \cup {NoRow}]
        /\ batch' \in [Batches -> BatchRow \cup {NoRow}]
        /\ workorders' \in [WorkOrderIds -> WorkOrderRow \cup {NoRow}]
    BY <1>9, SalesStatusWritten, PlanStatusWritten, BatchStatusWritten, WorkOrderStatusWritten
  <2>2. planner[c] \in PlannerCall /\ planner[c].kind = "transition"
    BY <1>9 DEF WriteStatus, PlanningTypeOK
  <2>3. planner[c].id \in SalesItems \cup PlanItems \cup Batches \cup WorkOrderIds
    BY <2>2 DEF PlannerCall
  <2>4. /\ rewritten' \subseteq rewritten \cup {planner[c].id}
        /\ planner' = [planner EXCEPT ![c] = NoCall] /\ overlapped' = overlapped
    BY <1>9 DEF WriteStatus
  <2> QED
    BY <2>1, <2>3, <2>4 DEF PlanningTypeOK
<1>10. CASE UNCHANGED planningVars
  BY <1>10 DEF PlanningTypeOK, planningVars
<1> QED
  BY <1>1, <1>2, <1>3, <1>4, <1>5, <1>6, <1>7, <1>8, <1>9, <1>10 DEF PlanningNext

-----------------------------------------------------------------------------
(* Rows stay.                                                              *)

\* What no step does to a row: take it away, or change what it holds and is for.
RowsStay ==
    /\ \A i \in SalesItems : sales[i] # NoRow => /\ sales'[i] # NoRow
                                                 /\ sales'[i].quantity = sales[i].quantity
    /\ \A p \in PlanItems : plan[p] # NoRow => /\ plan'[p] # NoRow
                                               /\ plan'[p].quantity = plan[p].quantity
                                               /\ plan'[p].source = plan[p].source
                                               /\ plan'[p].linked = plan[p].linked
    /\ \A b \in Batches : batch[b] # NoRow => /\ batch'[b] # NoRow
                                              /\ batch'[b].quantity = batch[b].quantity
                                              /\ batch'[b].source = batch[b].source
    /\ \A w \in WorkOrderIds : workorders[w] # NoRow => /\ workorders'[w] # NoRow
                                                        /\ workorders'[w].quantity = workorders[w].quantity
                                                        /\ workorders'[w].source = workorders[w].source

\* Rows keep their quantity and their source as long as they are there.
LEMMA RowsStayStep ==
  ASSUME PlanningTypeOK, PlannersRemember, [PlanningNext]_planningVars
  PROVE  RowsStay
<1> USE DEF PlanningTypeOK
<1>1. ASSUME NEW i \in SalesItems, NEW q \in PlannedQuantities, SaveSalesOrder(i, q) PROVE RowsStay
  BY <1>1 DEF RowsStay, SaveSalesOrder
<1>2. ASSUME NEW p \in PlanItems, NEW s \in SalesItems \cup {NoSource}, NEW linked \in BOOLEAN,
             NEW q \in PlannedQuantities, SavePlan(p, s, linked, q)
      PROVE  RowsStay
  BY <1>2 DEF RowsStay, SavePlan
<1>3. ASSUME NEW w \in WorkOrderIds, NEW q \in PlannedQuantities, SaveLooseWorkOrder(w, q)
      PROVE  RowsStay
  BY <1>3 DEF RowsStay, SaveLooseWorkOrder
<1>4. ASSUME NEW c \in Planners, NEW b \in Batches, SaveBatch(c, b) PROVE RowsStay
  BY <1>4 DEF RowsStay, SaveBatch
<1>5. ASSUME NEW c \in Planners, NEW w \in WorkOrderIds, SaveWorkOrder(c, w) PROVE RowsStay
  BY <1>5 DEF RowsStay, SaveWorkOrder
<1>6. ASSUME NEW c \in Planners, WriteStatus(c) PROVE RowsStay
  BY <1>6, SalesStatusWritten, PlanStatusWritten, BatchStatusWritten, WorkOrderStatusWritten
  DEF RowsStay
<1>7. ASSUME UNCHANGED <<sales, plan, batch, workorders>> PROVE RowsStay
  BY <1>7 DEF RowsStay
<1> QED
  BY <1>1, <1>2, <1>3, <1>4, <1>5, <1>6, <1>7
  DEF PlanningNext, planningVars, ReadPlan, ReadBatch, JudgeStatus

\* What a planner remembers stays true while the planner waits.
LEMMA MemoryStays ==
  ASSUME PlanningTypeOK, RowsStay, NEW c \in Planners, planner[c] # NoCall, Remembers(c),
         planner'[c] = planner[c]
  PROVE  Remembers(c)'
<1>0. planner[c] \in PlannerCall
  BY DEF PlanningTypeOK
<1>1. CASE planner[c].kind = "transition"
  <2> DEFINE id == planner[c].id
  <2>1. id \in SalesItems \cup PlanItems \cup Batches \cup WorkOrderIds
    BY <1>0, <1>1 DEF PlannerCall
  <2>2. Row(id) # NoRow
    BY <1>1 DEF Remembers
  <2>3. planner'[c].id = id
    OBVIOUS
  <2> HIDE DEF id
  <2>4. ASSUME NEW x \in SalesItems \cup PlanItems \cup Batches \cup WorkOrderIds, Row(x) # NoRow
        PROVE  Row(x)' # NoRow
    BY <2>4 DEF Row, RowsStay
  <2>5. PICK x \in SalesItems \cup PlanItems \cup Batches \cup WorkOrderIds : x = id
    BY <2>1
  <2>6. Row(x)' # NoRow
    BY <2>2, <2>4, <2>5
  <2>7. Row(planner[c].id)' # NoRow
    BY <2>3, <2>5, <2>6 DEF Row, id
  <2> QED
    BY <1>1, <2>7 DEF Remembers
<1>2. CASE planner[c].kind = "batch"
  <2>1. planner[c].source \in PlanItems
    BY <1>0, <1>2 DEF PlannerCall
  <2> QED
    BY <1>2, <2>1 DEF Remembers, RowsStay
<1>3. CASE planner[c].kind = "workorder"
  <2>1. planner[c].source \in Batches
    BY <1>0, <1>3 DEF PlannerCall
  <2> QED
    BY <1>3, <2>1 DEF Remembers, RowsStay
<1>4. planner[c].kind \in {"transition", "batch", "workorder"}
  BY <1>0 DEF PlannerCall
<1> QED
  BY <1>1, <1>2, <1>3, <1>4

\* What a planner has seen stays true until it is written.
LEMMA PlannersRememberStep ==
  ASSUME PlanningTypeOK, PlannersRemember, RowsStay, [PlanningNext]_planningVars
  PROVE  PlannersRemember'
<1>1. ASSUME NEW c \in Planners, \A d \in Planners \ {c} : planner'[d] = planner[d],
             planner'[c] # NoCall => Remembers(c)'
      PROVE  PlannersRemember'
  <2>1. ASSUME NEW d \in Planners, planner'[d] # NoCall PROVE Remembers(d)'
    <3>1. CASE d = c
      BY <1>1, <2>1, <3>1
    <3>2. CASE d # c
      BY <1>1, <2>1, <3>2, MemoryStays DEF PlannersRemember
    <3> QED
      BY <3>1, <3>2
  <2> QED
    BY <2>1 DEF PlannersRemember
<1>2. ASSUME UNCHANGED planner PROVE PlannersRemember'
  BY <1>2, MemoryStays DEF PlannersRemember
<1>3. ASSUME NEW c \in Planners, planner' = [planner EXCEPT ![c] = NoCall] PROVE PlannersRemember'
  BY <1>1, <1>3 DEF PlanningTypeOK
<1>4. ASSUME NEW c \in Planners, NEW p \in PlanItems, NEW q \in PlannedQuantities, ReadPlan(c, p, q)
      PROVE  PlannersRemember'
  <2> DEFINE t == [kind |-> "batch", source |-> p, quantity |-> q]
  <2>1. /\ planner' = [planner EXCEPT ![c] = t] /\ plan[p] # NoRow /\ plan' = plan
    BY <1>4 DEF ReadPlan
  <2>2. /\ planner'[c] = t
        /\ \A d \in Planners \ {c} : planner'[d] = planner[d]
    BY <2>1 DEF PlanningTypeOK
  <2>3. Remembers(c)'
    BY <2>1, <2>2 DEF Remembers
  <2> QED
    BY <1>1, <2>2, <2>3
<1>5. ASSUME NEW c \in Planners, NEW b \in Batches, NEW q \in PlannedQuantities, ReadBatch(c, b, q)
      PROVE  PlannersRemember'
  <2> DEFINE t == [kind |-> "workorder", source |-> b, quantity |-> q,
                   used |-> UsedBy(workorders, b, 6)]
  <2>1. /\ planner' = [planner EXCEPT ![c] = t] /\ batch[b] # NoRow /\ batch' = batch
        /\ q + UsedBy(workorders, b, 6) <= batch[b].quantity
    BY <1>5 DEF ReadBatch
  <2>2. /\ planner'[c] = t
        /\ \A d \in Planners \ {c} : planner'[d] = planner[d]
    BY <2>1 DEF PlanningTypeOK
  <2>3. t.kind = "workorder" /\ t.source = b /\ t.quantity = q /\ t.used = UsedBy(workorders, b, 6)
    OBVIOUS
  <2> HIDE DEF t
  <2>4. Remembers(c)'
    BY <2>1, <2>2, <2>3 DEF Remembers
  <2> QED
    BY <1>1, <2>2, <2>4
<1>6. ASSUME NEW c \in Planners,
             NEW id \in SalesItems \cup PlanItems \cup Batches \cup WorkOrderIds, JudgeStatus(c, id)
      PROVE  PlannersRemember'
  <2>1. PICK t \in IF id \in WorkOrderIds THEN WorkOrderGraph ELSE OrderGraph :
            planner' = [planner EXCEPT ![c] =
                           [kind |-> "transition", id |-> id, from |-> t[1], to |-> t[2]]]
    BY <1>6 DEF JudgeStatus
  <2> DEFINE m == [kind |-> "transition", id |-> id, from |-> t[1], to |-> t[2]]
  <2>2. /\ planner'[c] = m
        /\ \A d \in Planners \ {c} : planner'[d] = planner[d]
    BY <2>1 DEF PlanningTypeOK
  <2>3. <<t[1], t[2]>> \in IF id \in WorkOrderIds THEN WorkOrderGraph ELSE OrderGraph
    BY DEF WorkOrderGraph, OrderGraph
  <2>4. Row(id)' = Row(id) /\ Row(id) # NoRow
    BY <1>6 DEF JudgeStatus, Row
  <2>5. Remembers(c)'
    BY <2>2, <2>3, <2>4 DEF Remembers, Row
  <2> QED
    BY <1>1, <2>2, <2>5
<1> QED
  BY <1>2, <1>3, <1>4, <1>5, <1>6
  DEF PlanningNext, planningVars, SaveSalesOrder, SavePlan, SaveLooseWorkOrder, SaveBatch,
      SaveWorkOrder, WriteStatus

\* A row that is new is below one that exists.
LEMMA SourcesExistStep ==
  ASSUME PlanningTypeOK, PlanningTypeOK', PlannersRemember, SourcesExist, RowsStay,
         [PlanningNext]_planningVars
  PROVE  SourcesExist'
<1>1. ASSUME \A p \in PlanItems : plan'[p] # NoRow =>
                \/ plan[p] # NoRow
                \/ plan'[p].linked => plan'[p].source \in SalesItems /\ sales[plan'[p].source] # NoRow,
             \A b \in Batches : batch'[b] # NoRow =>
                batch[b] # NoRow \/ plan[batch'[b].source] # NoRow,
             \A w \in WorkOrderIds : workorders'[w] # NoRow =>
                \/ workorders[w] # NoRow
                \/ workorders'[w].source = NoSource
                \/ batch[workorders'[w].source] # NoRow
      PROVE  SourcesExist'
  <2>1. ASSUME NEW p \in PlanItems, plan'[p] # NoRow, plan'[p].linked
        PROVE  plan'[p].source \in SalesItems /\ sales'[plan'[p].source] # NoRow
    BY <1>1, <2>1 DEF SourcesExist, RowsStay
  <2>2. ASSUME NEW b \in Batches, batch'[b] # NoRow PROVE plan'[batch'[b].source] # NoRow
    <3>1. batch'[b].source \in PlanItems
      BY <2>2 DEF PlanningTypeOK, BatchRow
    <3> QED
      BY <1>1, <2>2, <3>1 DEF SourcesExist, RowsStay
  <2>3. ASSUME NEW w \in WorkOrderIds, workorders'[w] # NoRow, workorders'[w].source # NoSource
        PROVE  batch'[workorders'[w].source] # NoRow
    <3>1. workorders'[w].source \in Batches
      BY <2>3 DEF PlanningTypeOK, WorkOrderRow
    <3> QED
      BY <1>1, <2>3, <3>1 DEF SourcesExist, RowsStay
  <2> QED
    BY <2>1, <2>2, <2>3 DEF SourcesExist
<1>2. ASSUME UNCHANGED <<plan, batch, workorders>> PROVE SourcesExist'
  BY <1>1, <1>2
<1>3. ASSUME NEW p \in PlanItems, NEW s \in SalesItems \cup {NoSource}, NEW linked \in BOOLEAN,
             NEW q \in PlannedQuantities, SavePlan(p, s, linked, q)
      PROVE  SourcesExist'
  <2>1. \A x \in PlanItems : x # p => plan'[x] = plan[x]
    BY <1>3 DEF SavePlan, PlanningTypeOK
  <2>2. plan'[p].linked = linked /\ plan'[p].source = s
    BY <1>3 DEF SavePlan, PlanningTypeOK
  <2>3. linked => s \in SalesItems /\ sales[s] # NoRow
    BY <1>3 DEF SavePlan
  <2> QED
    BY <1>1, <1>3, <2>1, <2>2, <2>3 DEF SavePlan
<1>4. ASSUME NEW w \in WorkOrderIds, NEW q \in PlannedQuantities, SaveLooseWorkOrder(w, q)
      PROVE  SourcesExist'
  <2>1. \A x \in WorkOrderIds : x # w => workorders'[x] = workorders[x]
    BY <1>4 DEF SaveLooseWorkOrder, PlanningTypeOK
  <2>2. workorders'[w].source = NoSource
    BY <1>4 DEF SaveLooseWorkOrder, PlanningTypeOK
  <2> QED
    BY <1>1, <1>4, <2>1, <2>2 DEF SaveLooseWorkOrder
<1>5. ASSUME NEW c \in Planners, NEW b \in Batches, SaveBatch(c, b) PROVE SourcesExist'
  <2>1. \A x \in Batches : x # b => batch'[x] = batch[x]
    BY <1>5 DEF SaveBatch, PlanningTypeOK
  <2>2. batch'[b] # NoRow => batch'[b].source = planner[c].source
    BY <1>5 DEF SaveBatch, PlanningTypeOK
  <2>3. plan[planner[c].source] # NoRow
    BY <1>5 DEF SaveBatch, PlannersRemember, Remembers
  <2> QED
    BY <1>1, <1>5, <2>1, <2>2, <2>3 DEF SaveBatch
<1>6. ASSUME NEW c \in Planners, NEW w \in WorkOrderIds, SaveWorkOrder(c, w) PROVE SourcesExist'
  <2>1. \A x \in WorkOrderIds : x # w => workorders'[x] = workorders[x]
    BY <1>6 DEF SaveWorkOrder, PlanningTypeOK
  <2>2. workorders'[w].source = planner[c].source
    BY <1>6 DEF SaveWorkOrder, PlanningTypeOK
  <2>3. batch[planner[c].source] # NoRow
    BY <1>6 DEF SaveWorkOrder, PlannersRemember, Remembers
  <2> QED
    BY <1>1, <1>6, <2>1, <2>2, <2>3 DEF SaveWorkOrder
<1>7. ASSUME NEW c \in Planners, WriteStatus(c) PROVE SourcesExist'
  BY <1>1, <1>7, PlanStatusWritten, BatchStatusWritten, WorkOrderStatusWritten
<1> QED
  BY <1>2, <1>3, <1>4, <1>5, <1>6, <1>7
  DEF PlanningNext, planningVars, SaveSalesOrder, ReadPlan, ReadBatch, JudgeStatus

-----------------------------------------------------------------------------
(* What is below a row fits.                                               *)

LEMMA RowsForNext ==
  ASSUME PlanningTypeOK'
  PROVE  /\ \A i : RowsFor(plan, i, SALES.cancelled)'
                     = {p \in PlanItems : plan'[p] # NoRow /\ plan'[p].source = i /\ plan'[p].status # 4}
         /\ \A p : RowsFor(batch, p, SALES.cancelled)'
                     = {b \in Batches : batch'[b] # NoRow /\ batch'[b].source = p /\ batch'[b].status # 4}
         /\ \A b : RowsFor(workorders, b, 6)'
                     = {w \in WorkOrderIds : /\ workorders'[w] # NoRow /\ workorders'[w].source = b
                                             /\ workorders'[w].status # 6}
<1>1. DOMAIN plan' = PlanItems /\ DOMAIN batch' = Batches /\ DOMAIN workorders' = WorkOrderIds
  BY DEF PlanningTypeOK
<1> QED
  BY <1>1 DEF RowsFor, SALES

LEMMA QuantitiesNext ==
  ASSUME PlanningTypeOK'
  PROVE  /\ \A i \in SalesItems : sales'[i] # NoRow => sales'[i].quantity \in Nat
         /\ \A p \in PlanItems : plan'[p] # NoRow => plan'[p].quantity \in Nat
         /\ \A b \in Batches : batch'[b] # NoRow => batch'[b].quantity \in Nat
  BY PlanningAssumption DEF PlanningTypeOK, SalesRow, PlanRow, BatchRow

\* One more row below, and perhaps some fewer of the others, hold no more than
\* the others and the new one.
LEMMA QuantityAdded ==
  ASSUME NEW D, IsFiniteSet(D), NEW S \in SUBSET D, NEW x \in D, x \notin S, NEW old, NEW new,
         \A i \in S : old[i].quantity \in Nat,
         \A i \in S : new[i].quantity = old[i].quantity,
         new[x].quantity \in Nat, NEW T \in SUBSET (S \cup {x})
  PROVE  QuantityOf(new, T) <= QuantityOf(old, S) + new[x].quantity
<1>1. QuantityOf(new, S \cup {x}) = QuantityOf(old, S) + new[x].quantity
  <2> DEFINE f == [i \in S |-> old[i].quantity]
             g == [i \in S \cup {x} |-> new[i].quantity]
  <2>1. IsFiniteSet(S)
    BY FS_Subset
  <2>2. /\ \A i \in S : g[i] = f[i] /\ f[i] \in Nat
        /\ g[x] = new[x].quantity /\ g[x] \in Nat
    OBVIOUS
  <2>3. QuantityOf(old, S) = SumFunctionOnSet(f, S)
        /\ QuantityOf(new, S \cup {x}) = SumFunctionOnSet(g, S \cup {x})
    BY DEF QuantityOf, SumFunction
  <2> HIDE DEF f, g
  <2>4. \A i \in S \cup {x} : g[i] \in Int
    BY <2>2
  <2>5. SumFunctionOnSet(g, S \cup {x}) = g[x] + SumFunctionOnSet(g, S)
    BY <2>1, <2>4, SumInsert
  <2>6. SumFunctionOnSet(g, S) = SumFunctionOnSet(f, S)
    BY <2>1, <2>2, SumSame
  <2>7. SumFunctionOnSet(f, S) \in Int
    BY <2>1, <2>2, SumType
  <2> QED
    BY <2>2, <2>3, <2>5, <2>6, <2>7
<1>2. QuantityOf(new, T) <= QuantityOf(new, S \cup {x})
  <2>1. S \cup {x} \in SUBSET D /\ \A i \in S \cup {x} : new[i].quantity \in Nat
    OBVIOUS
  <2> QED
    BY <2>1, QuantityShrinks
<1> QED
  BY <1>1, <1>2

\* Without a new row below it, a row's quantity stays enough.
LEMMA NoNewPlan ==
  ASSUME PlanningTypeOK, PlanningTypeOK', SourcesExist, RowsStay, PlansFit,
         rewritten \subseteq rewritten',
         \A x \in PlanItems : plan'[x] # NoRow => plan[x] # NoRow \/ ~ plan'[x].linked,
         \A x \in PlanItems : plan'[x] # NoRow /\ plan[x] # NoRow /\ x \notin rewritten'
                             /\ plan'[x].status # 4 => plan[x].status # 4
  PROVE  PlansFit'
<1>1. ASSUME NEW u \in SalesItems PROVE SoundPlans(u)' \subseteq SoundPlans(u)
  BY <1>1, RowsForOf, RowsForNext, PlanningRowAssumption, PlanningAssumption
  DEF SoundPlans, LinkedPlans, RowsStay
<1>2. ASSUME NEW u \in SalesItems
      PROVE  /\ SoundPlans(u) \in SUBSET PlanItems
             /\ \A x \in SoundPlans(u) : plan[x].quantity \in Nat /\ plan'[x].quantity = plan[x].quantity
  BY RowsForOf, PlanQuantities DEF SoundPlans, LinkedPlans, RowsStay
<1>3. ASSUME NEW u \in SalesItems
      PROVE  QuantityOf(plan', SoundPlans(u)') <= QuantityOf(plan, SoundPlans(u))
  <2>1. \A x \in SoundPlans(u)' : plan'[x].quantity = plan[x].quantity
    BY <1>1, <1>2
  <2> QED
    BY <1>1, <1>2, <2>1, QuantityShrinks, PlanningRowAssumption
<1>4. ASSUME NEW u \in SalesItems, sales'[u] # NoRow
      PROVE  QuantityOf(plan', SoundPlans(u)') <= sales'[u].quantity
  <2>1. CASE sales[u] # NoRow
    <3>1. QuantityOf(plan, SoundPlans(u)) <= sales[u].quantity
      BY <2>1 DEF PlansFit
    <3>2. /\ QuantityOf(plan, SoundPlans(u)) \in Nat /\ sales[u].quantity \in Nat
          /\ QuantityOf(plan', SoundPlans(u)') \in Nat
      <4>1. QuantityOf(plan, SoundPlans(u)) \in Nat
        BY <1>2, QuantityType, PlanningRowAssumption
      <4>2. /\ SoundPlans(u)' \in SUBSET PlanItems
            /\ \A x \in SoundPlans(u)' : plan'[x].quantity \in Nat
        BY <1>1, <1>2
      <4>3. QuantityOf(plan', SoundPlans(u)') \in Nat
        BY <4>2, QuantityType, PlanningRowAssumption
      <4> QED
        BY <2>1, <4>1, <4>3, PlanQuantities
    <3>3. sales'[u].quantity = sales[u].quantity
      BY <2>1 DEF RowsStay
    <3> QED
      BY <1>3, <3>1, <3>2, <3>3
  <2>2. CASE sales[u] = NoRow
    <3>1. SoundPlans(u) = {}
      BY <2>2, RowsForOf, PlanningAssumption DEF SoundPlans, LinkedPlans, SourcesExist
    <3>2. SoundPlans(u)' = {}
      BY <1>1, <3>1
    <3>3. sales'[u].quantity \in Nat
      BY <1>4, QuantitiesNext
    <3> QED
      BY <3>2, <3>3, QuantityEmpty
  <2> QED
    BY <2>1, <2>2
<1> QED
  BY <1>4 DEF PlansFit

\* Without a new row below it, a row's quantity stays enough.
LEMMA NoNewBatch ==
  ASSUME PlanningTypeOK, PlanningTypeOK', SourcesExist, RowsStay, BatchesFit,
         rewritten \subseteq rewritten',
         \A x \in Batches : batch'[x] # NoRow => batch[x] # NoRow,
         \A x \in Batches : batch'[x] # NoRow /\ batch[x] # NoRow /\ x \notin rewritten'
                             /\ batch'[x].status # 4 => batch[x].status # 4
  PROVE  BatchesFit'
<1>1. ASSUME NEW u \in PlanItems PROVE SoundBatches(u)' \subseteq SoundBatches(u)
  BY <1>1, RowsForOf, RowsForNext, PlanningRowAssumption, PlanningAssumption
  DEF SoundBatches, RowsStay
<1>2. ASSUME NEW u \in PlanItems
      PROVE  /\ SoundBatches(u) \in SUBSET Batches
             /\ \A x \in SoundBatches(u) : batch[x].quantity \in Nat /\ batch'[x].quantity = batch[x].quantity
  BY RowsForOf, PlanQuantities DEF SoundBatches, RowsStay
<1>3. ASSUME NEW u \in PlanItems
      PROVE  QuantityOf(batch', SoundBatches(u)') <= QuantityOf(batch, SoundBatches(u))
  <2>1. \A x \in SoundBatches(u)' : batch'[x].quantity = batch[x].quantity
    BY <1>1, <1>2
  <2> QED
    BY <1>1, <1>2, <2>1, QuantityShrinks, PlanningRowAssumption
<1>4. ASSUME NEW u \in PlanItems, plan'[u] # NoRow
      PROVE  QuantityOf(batch', SoundBatches(u)') <= plan'[u].quantity
  <2>1. CASE plan[u] # NoRow
    <3>1. QuantityOf(batch, SoundBatches(u)) <= plan[u].quantity
      BY <2>1 DEF BatchesFit
    <3>2. /\ QuantityOf(batch, SoundBatches(u)) \in Nat /\ plan[u].quantity \in Nat
          /\ QuantityOf(batch', SoundBatches(u)') \in Nat
      <4>1. QuantityOf(batch, SoundBatches(u)) \in Nat
        BY <1>2, QuantityType, PlanningRowAssumption
      <4>2. /\ SoundBatches(u)' \in SUBSET Batches
            /\ \A x \in SoundBatches(u)' : batch'[x].quantity \in Nat
        BY <1>1, <1>2
      <4>3. QuantityOf(batch', SoundBatches(u)') \in Nat
        BY <4>2, QuantityType, PlanningRowAssumption
      <4> QED
        BY <2>1, <4>1, <4>3, PlanQuantities
    <3>3. plan'[u].quantity = plan[u].quantity
      BY <2>1 DEF RowsStay
    <3> QED
      BY <1>3, <3>1, <3>2, <3>3
  <2>2. CASE plan[u] = NoRow
    <3>1. SoundBatches(u) = {}
      BY <2>2, RowsForOf, PlanningAssumption DEF SoundBatches, SourcesExist
    <3>2. SoundBatches(u)' = {}
      BY <1>1, <3>1
    <3>3. plan'[u].quantity \in Nat
      BY <1>4, QuantitiesNext
    <3> QED
      BY <3>2, <3>3, QuantityEmpty
  <2> QED
    BY <2>1, <2>2
<1> QED
  BY <1>4 DEF BatchesFit

\* Without a new row below it, a row's quantity stays enough.
LEMMA NoNewWorkOrder ==
  ASSUME PlanningTypeOK, PlanningTypeOK', SourcesExist, RowsStay, WorkOrdersFit,
         rewritten \subseteq rewritten',
         overlapped \subseteq overlapped',
         \A x \in WorkOrderIds : workorders'[x] # NoRow => workorders[x] # NoRow \/ workorders'[x].source = NoSource,
         \A x \in WorkOrderIds : workorders'[x] # NoRow /\ workorders[x] # NoRow /\ x \notin rewritten'
                             /\ workorders'[x].status # 6 => workorders[x].status # 6
  PROVE  WorkOrdersFit'
<1>1. ASSUME NEW u \in Batches PROVE SoundWorkOrders(u)' \subseteq SoundWorkOrders(u)
  BY <1>1, RowsForOf, RowsForNext, PlanningRowAssumption, PlanningAssumption
  DEF SoundWorkOrders, RowsStay
<1>2. ASSUME NEW u \in Batches
      PROVE  /\ SoundWorkOrders(u) \in SUBSET WorkOrderIds
             /\ \A x \in SoundWorkOrders(u) : workorders[x].quantity \in Nat /\ workorders'[x].quantity = workorders[x].quantity
  BY RowsForOf, PlanQuantities DEF SoundWorkOrders, RowsStay
<1>3. ASSUME NEW u \in Batches
      PROVE  QuantityOf(workorders', SoundWorkOrders(u)') <= QuantityOf(workorders, SoundWorkOrders(u))
  <2>1. \A x \in SoundWorkOrders(u)' : workorders'[x].quantity = workorders[x].quantity
    BY <1>1, <1>2
  <2> QED
    BY <1>1, <1>2, <2>1, QuantityShrinks, PlanningRowAssumption
<1>4. ASSUME NEW u \in Batches, batch'[u] # NoRow
      PROVE  QuantityOf(workorders', SoundWorkOrders(u)') <= batch'[u].quantity \/ u \in overlapped'
  <2>1. CASE batch[u] # NoRow
    <3>1. QuantityOf(workorders, SoundWorkOrders(u)) <= batch[u].quantity \/ u \in overlapped
      BY <2>1 DEF WorkOrdersFit
    <3>2. /\ QuantityOf(workorders, SoundWorkOrders(u)) \in Nat /\ batch[u].quantity \in Nat
          /\ QuantityOf(workorders', SoundWorkOrders(u)') \in Nat
      <4>1. QuantityOf(workorders, SoundWorkOrders(u)) \in Nat
        BY <1>2, QuantityType, PlanningRowAssumption
      <4>2. /\ SoundWorkOrders(u)' \in SUBSET WorkOrderIds
            /\ \A x \in SoundWorkOrders(u)' : workorders'[x].quantity \in Nat
        BY <1>1, <1>2
      <4>3. QuantityOf(workorders', SoundWorkOrders(u)') \in Nat
        BY <4>2, QuantityType, PlanningRowAssumption
      <4> QED
        BY <2>1, <4>1, <4>3, PlanQuantities
    <3>3. batch'[u].quantity = batch[u].quantity
      BY <2>1 DEF RowsStay
    <3> QED
      BY <1>3, <3>1, <3>2, <3>3
  <2>2. CASE batch[u] = NoRow
    <3>1. SoundWorkOrders(u) = {}
      BY <2>2, RowsForOf, PlanningAssumption DEF SoundWorkOrders, SourcesExist
    <3>2. SoundWorkOrders(u)' = {}
      BY <1>1, <3>1
    <3>3. batch'[u].quantity \in Nat
      BY <1>4, QuantitiesNext
    <3> QED
      BY <3>2, <3>3, QuantityEmpty
  <2> QED
    BY <2>1, <2>2
<1> QED
  BY <1>4 DEF WorkOrdersFit

\* A plan that fits what is left of its sales item leaves every item with enough.
LEMMA OneNewPlan ==
  ASSUME PlanningTypeOK, PlanningTypeOK', PlansFit, rewritten' = rewritten, sales' = sales,
         NEW x \in PlanItems, plan[x] = NoRow, plan'[x] # NoRow,
         \A y \in PlanItems \ {x} : plan'[y] = plan[y],
         NEW s \in SalesItems, plan'[x].source = s, sales[s] # NoRow,
         plan'[x].quantity + UsedBy(plan, s, SALES.cancelled) <= sales[s].quantity
  PROVE  PlansFit'
<1>1. ASSUME NEW u \in SalesItems
      PROVE  /\ SoundPlans(u) \in SUBSET RowsFor(plan, u, SALES.cancelled)
             /\ RowsFor(plan, u, SALES.cancelled) \in SUBSET PlanItems
             /\ x \notin RowsFor(plan, u, SALES.cancelled)
             /\ \A y \in RowsFor(plan, u, SALES.cancelled) :
                   plan[y].quantity \in Nat /\ plan'[y].quantity = plan[y].quantity
  BY RowsForOf, PlanQuantities DEF SoundPlans, LinkedPlans
<1>2. ASSUME NEW u \in SalesItems, u # s PROVE SoundPlans(u)' \subseteq SoundPlans(u)
  BY <1>2, RowsForOf, RowsForNext DEF SoundPlans, LinkedPlans
<1>3. SoundPlans(s)' \subseteq RowsFor(plan, s, SALES.cancelled) \cup {x}
  BY RowsForOf, RowsForNext DEF SoundPlans, LinkedPlans
<1>4. plan'[x].quantity \in Nat
  BY PlanningAssumption DEF PlanningTypeOK, PlanRow, BatchRow, WorkOrderRow
<1>5. ASSUME NEW u \in SalesItems, sales'[u] # NoRow
      PROVE  QuantityOf(plan', SoundPlans(u)') <= sales'[u].quantity
  <2>1. CASE u = s
    <3>1. QuantityOf(plan', SoundPlans(s)')
            <= QuantityOf(plan, RowsFor(plan, s, SALES.cancelled)) + plan'[x].quantity
      BY <1>1, <1>3, <1>4, QuantityAdded, PlanningRowAssumption
    <3>2. UsedBy(plan, s, SALES.cancelled) \in Nat /\ sales[s].quantity \in Nat
      BY UsedByType, PlanQuantities
    <3>3. SoundPlans(s)' \in SUBSET PlanItems /\ \A y \in SoundPlans(s)' : plan'[y].quantity \in Nat
      BY <1>1, <1>3, <1>4
    <3>4. QuantityOf(plan', SoundPlans(s)') \in Nat
      BY <3>3, QuantityType, PlanningRowAssumption
    <3> QED
      BY <1>4, <2>1, <3>1, <3>2, <3>4 DEF UsedBy
  <2>2. CASE u # s
    <3>1. SoundPlans(u)' \in SUBSET SoundPlans(u) /\ SoundPlans(u) \in SUBSET PlanItems
      BY <1>1, <1>2, <2>2
    <3>2. /\ \A y \in SoundPlans(u) : plan[y].quantity \in Nat
          /\ \A y \in SoundPlans(u)' : plan'[y].quantity = plan[y].quantity
      BY <1>1, <3>1
    <3>3. QuantityOf(plan', SoundPlans(u)') <= QuantityOf(plan, SoundPlans(u))
      BY <3>1, <3>2, QuantityShrinks, PlanningRowAssumption
    <3>4. SoundPlans(u)' \in SUBSET PlanItems /\ \A y \in SoundPlans(u)' : plan'[y].quantity \in Nat
      BY <3>1, <3>2
    <3>5. /\ QuantityOf(plan', SoundPlans(u)') \in Nat
          /\ QuantityOf(plan, SoundPlans(u)) \in Nat
      BY <3>1, <3>2, <3>4, QuantityType, PlanningRowAssumption
    <3> QED
      BY <1>5, <3>3, <3>5, PlanQuantities DEF PlansFit
  <2> QED
    BY <2>1, <2>2
<1> QED
  BY <1>5 DEF PlansFit

\* A batch that fits what is left of its plan leaves every plan with enough.
LEMMA OneNewBatch ==
  ASSUME PlanningTypeOK, PlanningTypeOK', BatchesFit, rewritten' = rewritten, plan' = plan,
         NEW x \in Batches, batch[x] = NoRow, batch'[x] # NoRow,
         \A y \in Batches \ {x} : batch'[y] = batch[y],
         NEW s \in PlanItems, batch'[x].source = s, plan[s] # NoRow,
         batch'[x].quantity + UsedBy(batch, s, SALES.cancelled) <= plan[s].quantity
  PROVE  BatchesFit'
<1>1. ASSUME NEW u \in PlanItems
      PROVE  /\ SoundBatches(u) \in SUBSET RowsFor(batch, u, SALES.cancelled)
             /\ RowsFor(batch, u, SALES.cancelled) \in SUBSET Batches
             /\ x \notin RowsFor(batch, u, SALES.cancelled)
             /\ \A y \in RowsFor(batch, u, SALES.cancelled) :
                   batch[y].quantity \in Nat /\ batch'[y].quantity = batch[y].quantity
  BY RowsForOf, PlanQuantities DEF SoundBatches
<1>2. ASSUME NEW u \in PlanItems, u # s PROVE SoundBatches(u)' \subseteq SoundBatches(u)
  BY <1>2, RowsForOf, RowsForNext DEF SoundBatches
<1>3. SoundBatches(s)' \subseteq RowsFor(batch, s, SALES.cancelled) \cup {x}
  BY RowsForOf, RowsForNext DEF SoundBatches
<1>4. batch'[x].quantity \in Nat
  BY PlanningAssumption DEF PlanningTypeOK, PlanRow, BatchRow, WorkOrderRow
<1>5. ASSUME NEW u \in PlanItems, plan'[u] # NoRow
      PROVE  QuantityOf(batch', SoundBatches(u)') <= plan'[u].quantity
  <2>1. CASE u = s
    <3>1. QuantityOf(batch', SoundBatches(s)')
            <= QuantityOf(batch, RowsFor(batch, s, SALES.cancelled)) + batch'[x].quantity
      BY <1>1, <1>3, <1>4, QuantityAdded, PlanningRowAssumption
    <3>2. UsedBy(batch, s, SALES.cancelled) \in Nat /\ plan[s].quantity \in Nat
      BY UsedByType, PlanQuantities
    <3>3. SoundBatches(s)' \in SUBSET Batches /\ \A y \in SoundBatches(s)' : batch'[y].quantity \in Nat
      BY <1>1, <1>3, <1>4
    <3>4. QuantityOf(batch', SoundBatches(s)') \in Nat
      BY <3>3, QuantityType, PlanningRowAssumption
    <3> QED
      BY <1>4, <2>1, <3>1, <3>2, <3>4 DEF UsedBy
  <2>2. CASE u # s
    <3>1. SoundBatches(u)' \in SUBSET SoundBatches(u) /\ SoundBatches(u) \in SUBSET Batches
      BY <1>1, <1>2, <2>2
    <3>2. /\ \A y \in SoundBatches(u) : batch[y].quantity \in Nat
          /\ \A y \in SoundBatches(u)' : batch'[y].quantity = batch[y].quantity
      BY <1>1, <3>1
    <3>3. QuantityOf(batch', SoundBatches(u)') <= QuantityOf(batch, SoundBatches(u))
      BY <3>1, <3>2, QuantityShrinks, PlanningRowAssumption
    <3>4. SoundBatches(u)' \in SUBSET Batches /\ \A y \in SoundBatches(u)' : batch'[y].quantity \in Nat
      BY <3>1, <3>2
    <3>5. /\ QuantityOf(batch', SoundBatches(u)') \in Nat
          /\ QuantityOf(batch, SoundBatches(u)) \in Nat
      BY <3>1, <3>2, <3>4, QuantityType, PlanningRowAssumption
    <3> QED
      BY <1>5, <3>3, <3>5, PlanQuantities DEF BatchesFit
  <2> QED
    BY <2>1, <2>2
<1> QED
  BY <1>5 DEF BatchesFit

\* A work order that fits what is left of its batch, or whose batch is listed as
\* given out on a stale total, leaves every other batch with enough.
LEMMA OneNewWorkOrder ==
  ASSUME PlanningTypeOK, PlanningTypeOK', WorkOrdersFit, rewritten' = rewritten, batch' = batch,
         overlapped \subseteq overlapped',
         NEW x \in WorkOrderIds, workorders[x] = NoRow, workorders'[x] # NoRow,
         \A y \in WorkOrderIds \ {x} : workorders'[y] = workorders[y],
         NEW s \in Batches, workorders'[x].source = s, batch[s] # NoRow,
         \/ workorders'[x].quantity + UsedBy(workorders, s, 6) <= batch[s].quantity
         \/ s \in overlapped'
  PROVE  WorkOrdersFit'
<1>1. ASSUME NEW u \in Batches
      PROVE  /\ SoundWorkOrders(u) \in SUBSET RowsFor(workorders, u, 6)
             /\ RowsFor(workorders, u, 6) \in SUBSET WorkOrderIds
             /\ x \notin RowsFor(workorders, u, 6)
             /\ \A y \in RowsFor(workorders, u, 6) :
                   workorders[y].quantity \in Nat /\ workorders'[y].quantity = workorders[y].quantity
  BY RowsForOf, PlanQuantities DEF SoundWorkOrders
<1>2. ASSUME NEW u \in Batches, u # s PROVE SoundWorkOrders(u)' \subseteq SoundWorkOrders(u)
  BY <1>2, RowsForOf, RowsForNext DEF SoundWorkOrders
<1>3. SoundWorkOrders(s)' \subseteq RowsFor(workorders, s, 6) \cup {x}
  BY RowsForOf, RowsForNext DEF SoundWorkOrders
<1>4. workorders'[x].quantity \in Nat
  BY PlanningAssumption DEF PlanningTypeOK, PlanRow, BatchRow, WorkOrderRow
<1>5. ASSUME NEW u \in Batches, batch'[u] # NoRow
      PROVE  QuantityOf(workorders', SoundWorkOrders(u)') <= batch'[u].quantity \/ u \in overlapped'
  <2>1. CASE u = s
    <3>1. QuantityOf(workorders', SoundWorkOrders(s)')
            <= QuantityOf(workorders, RowsFor(workorders, s, 6)) + workorders'[x].quantity
      BY <1>1, <1>3, <1>4, QuantityAdded, PlanningRowAssumption
    <3>2. UsedBy(workorders, s, 6) \in Nat /\ batch[s].quantity \in Nat
      BY UsedByType, PlanQuantities
    <3>3. SoundWorkOrders(s)' \in SUBSET WorkOrderIds /\ \A y \in SoundWorkOrders(s)' : workorders'[y].quantity \in Nat
      BY <1>1, <1>3, <1>4
    <3>4. QuantityOf(workorders', SoundWorkOrders(s)') \in Nat
      BY <3>3, QuantityType, PlanningRowAssumption
    <3> QED
      BY <1>4, <2>1, <3>1, <3>2, <3>4 DEF UsedBy
  <2>2. CASE u # s
    <3>1. SoundWorkOrders(u)' \in SUBSET SoundWorkOrders(u) /\ SoundWorkOrders(u) \in SUBSET WorkOrderIds
      BY <1>1, <1>2, <2>2
    <3>2. /\ \A y \in SoundWorkOrders(u) : workorders[y].quantity \in Nat
          /\ \A y \in SoundWorkOrders(u)' : workorders'[y].quantity = workorders[y].quantity
      BY <1>1, <3>1
    <3>3. QuantityOf(workorders', SoundWorkOrders(u)') <= QuantityOf(workorders, SoundWorkOrders(u))
      BY <3>1, <3>2, QuantityShrinks, PlanningRowAssumption
    <3>4. SoundWorkOrders(u)' \in SUBSET WorkOrderIds /\ \A y \in SoundWorkOrders(u)' : workorders'[y].quantity \in Nat
      BY <3>1, <3>2
    <3>5. /\ QuantityOf(workorders', SoundWorkOrders(u)') \in Nat
          /\ QuantityOf(workorders, SoundWorkOrders(u)) \in Nat
      BY <3>1, <3>2, <3>4, QuantityType, PlanningRowAssumption
    <3> QED
      BY <1>5, <3>3, <3>5, PlanQuantities DEF WorkOrdersFit
  <2> QED
    BY <2>1, <2>2
<1> QED
  BY <1>5 DEF WorkOrdersFit

-----------------------------------------------------------------------------
(* Every step keeps what is below a row within it.                         *)

\* The plans of an order stay within it: a step that adds none changes no sum,
\* and one that does has seen room for it.
LEMMA PlansFitStep ==
  ASSUME PlanningTypeOK, PlanningTypeOK', SourcesExist, PlannersRemember, RowsStay, PlansFit,
         [PlanningNext]_planningVars
  PROVE  PlansFit'
<1>1. ASSUME plan' = plan, rewritten' = rewritten PROVE PlansFit'
  BY <1>1, NoNewPlan
<1>2. ASSUME NEW p \in PlanItems, NEW s \in SalesItems \cup {NoSource}, NEW linked \in BOOLEAN,
             NEW q \in PlannedQuantities, SavePlan(p, s, linked, q)
      PROVE  PlansFit'
  <2>1. /\ plan[p] = NoRow /\ sales' = sales /\ rewritten' = rewritten
        /\ \A x \in PlanItems \ {p} : plan'[x] = plan[x]
        /\ plan'[p] = [quantity |-> q, status |-> 0, source |-> s, linked |-> linked]
    BY <1>2 DEF SavePlan, PlanningTypeOK
  <2>2. /\ plan'[p] # NoRow
        /\ plan'[p].quantity = q /\ plan'[p].source = s /\ plan'[p].linked = linked
    <3>1. [quantity |-> q, status |-> 0, source |-> s, linked |-> linked] \in PlanRow
      BY DEF PlanRow
    <3> QED
      BY <2>1, <3>1, PlanningRowAssumption
  <2>3. CASE linked
    <3>1. /\ s \in SalesItems /\ sales[s] # NoRow
          /\ q + UsedBy(plan, s, SALES.cancelled) <= sales[s].quantity
      BY <1>2, <2>3 DEF SavePlan
    <3> QED
      BY <2>1, <2>2, <3>1, OneNewPlan
  <2>4. CASE ~ linked
    <3>1. /\ \A x \in PlanItems : plan'[x] # NoRow => plan[x] # NoRow \/ ~ plan'[x].linked
          /\ \A x \in PlanItems : /\ plan'[x] # NoRow /\ plan[x] # NoRow
                                  /\ x \notin rewritten' /\ plan'[x].status # 4
                                  => plan[x].status # 4
      BY <2>1, <2>2, <2>4
    <3> QED
      BY <2>1, <3>1, NoNewPlan
  <2> QED
    BY <2>3, <2>4
<1>3. ASSUME NEW c \in Planners, WriteStatus(c) PROVE PlansFit'
  <2>1. /\ \A x \in PlanItems : plan'[x] # NoRow => plan[x] # NoRow \/ ~ plan'[x].linked
        /\ \A x \in PlanItems : /\ plan'[x] # NoRow /\ plan[x] # NoRow
                                /\ x \notin rewritten' /\ plan'[x].status # 4
                                => plan[x].status # 4
    BY <1>3, PlanStatusWritten
  <2>2. rewritten \subseteq rewritten'
    BY <1>3 DEF WriteStatus
  <2> QED
    BY <2>1, <2>2, NoNewPlan
<1> QED
  BY <1>1, <1>2, <1>3
  DEF PlanningNext, planningVars, SaveSalesOrder, SaveLooseWorkOrder, ReadPlan, ReadBatch,
      SaveBatch, SaveWorkOrder, JudgeStatus

\* The batches of a plan stay within it.
LEMMA BatchesFitStep ==
  ASSUME PlanningTypeOK, PlanningTypeOK', SourcesExist, PlannersRemember, RowsStay, BatchesFit,
         [PlanningNext]_planningVars
  PROVE  BatchesFit'
<1>1. ASSUME batch' = batch, rewritten' = rewritten PROVE BatchesFit'
  BY <1>1, NoNewBatch
<1>2. ASSUME NEW c \in Planners, NEW b \in Batches, SaveBatch(c, b) PROVE BatchesFit'
  <2> DEFINE p == planner[c].source
             q == planner[c].quantity
             row == [quantity |-> q, status |-> 0, source |-> p]
  <2>1. p \in PlanItems /\ q \in PlannedQuantities /\ plan[p] # NoRow
    <3>1. planner[c] \in PlannerCall /\ planner[c] # NoCall /\ planner[c].kind = "batch"
      BY <1>2 DEF SaveBatch, PlanningTypeOK
    <3> QED
      BY <3>1 DEF PlannerCall, PlannersRemember, Remembers
  <2>2. batch[b] = NoRow /\ plan' = plan /\ rewritten' = rewritten
    BY <1>2 DEF SaveBatch
  <2>3. CASE q + UsedBy(batch, p, SALES.cancelled) <= plan[p].quantity
    <3>1. batch' = [batch EXCEPT ![b] = row]
      BY <1>2, <2>3 DEF SaveBatch
    <3>2. row \in BatchRow /\ row.quantity = q /\ row.source = p
      BY <2>1 DEF BatchRow
    <3>3. row # NoRow
      BY <3>2, PlanningRowAssumption
    <3> HIDE DEF row, p, q
    <3>4. batch'[b] = row /\ \A x \in Batches \ {b} : batch'[x] = batch[x]
      BY <3>1 DEF PlanningTypeOK
    <3> QED
      BY <2>1, <2>2, <2>3, <3>2, <3>3, <3>4, OneNewBatch
  <2>4. CASE ~ (q + UsedBy(batch, p, SALES.cancelled) <= plan[p].quantity)
    <3>1. batch' = batch
      BY <1>2, <2>4 DEF SaveBatch
    <3> QED
      BY <1>1, <2>2, <3>1
  <2> QED
    BY <2>3, <2>4
<1>3. ASSUME NEW c \in Planners, WriteStatus(c) PROVE BatchesFit'
  <2>1. /\ \A x \in Batches : batch'[x] # NoRow => batch[x] # NoRow
        /\ \A x \in Batches : /\ batch'[x] # NoRow /\ batch[x] # NoRow
                              /\ x \notin rewritten' /\ batch'[x].status # 4
                              => batch[x].status # 4
    BY <1>3, BatchStatusWritten
  <2>2. rewritten \subseteq rewritten'
    BY <1>3 DEF WriteStatus
  <2> QED
    BY <2>1, <2>2, NoNewBatch
<1> QED
  BY <1>1, <1>2, <1>3
  DEF PlanningNext, planningVars, SaveSalesOrder, SavePlan, SaveLooseWorkOrder, ReadPlan,
      ReadBatch, SaveWorkOrder, JudgeStatus

\* The work orders of a batch stay within it.
LEMMA WorkOrdersFitStep ==
  ASSUME PlanningTypeOK, PlanningTypeOK', SourcesExist, PlannersRemember, RowsStay, WorkOrdersFit,
         [PlanningNext]_planningVars
  PROVE  WorkOrdersFit'
<1>1. ASSUME workorders' = workorders, rewritten' = rewritten, overlapped' = overlapped
      PROVE  WorkOrdersFit'
  BY <1>1, NoNewWorkOrder
<1>2. ASSUME NEW c \in Planners, NEW w \in WorkOrderIds, SaveWorkOrder(c, w) PROVE WorkOrdersFit'
  <2> DEFINE b == planner[c].source
             q == planner[c].quantity
             row == [quantity |-> q, status |-> 0, source |-> b]
  <2>0. planner[c] \in PlannerCall /\ planner[c] # NoCall /\ planner[c].kind = "workorder"
    BY <1>2 DEF SaveWorkOrder, PlanningTypeOK
  <2>1. /\ b \in Batches /\ q \in PlannedQuantities /\ batch[b] # NoRow
        /\ planner[c].used \in Nat /\ q + planner[c].used <= batch[b].quantity
    BY <2>0 DEF PlannerCall, PlannersRemember, Remembers
  <2>2. /\ workorders[w] = NoRow /\ batch' = batch /\ rewritten' = rewritten
        /\ workorders' = [workorders EXCEPT ![w] = row]
        /\ overlapped' = IF UsedBy(workorders, b, 6) > planner[c].used
                         THEN overlapped \cup {b} ELSE overlapped
    BY <1>2 DEF SaveWorkOrder
  <2>3. row \in WorkOrderRow /\ row.quantity = q /\ row.source = b
    BY <2>1 DEF WorkOrderRow
  <2>4. row # NoRow
    BY <2>3, PlanningRowAssumption
  <2>5. q + UsedBy(workorders, b, 6) <= batch[b].quantity \/ b \in overlapped'
    <3>1. UsedBy(workorders, b, 6) \in Nat /\ batch[b].quantity \in Nat /\ q \in Nat
      BY <2>1, UsedByType, PlanQuantities, PlanningAssumption
    <3> HIDE DEF b, q
    <3> QED
      BY <2>1, <2>2, <3>1
  <2> HIDE DEF row, b, q
  <2>6. workorders'[w] = row /\ \A x \in WorkOrderIds \ {w} : workorders'[x] = workorders[x]
    BY <2>2 DEF PlanningTypeOK
  <2>7. overlapped \subseteq overlapped'
    BY <2>2
  <2> QED
    BY <2>1, <2>2, <2>3, <2>4, <2>5, <2>6, <2>7, OneNewWorkOrder
<1>3. ASSUME NEW w \in WorkOrderIds, NEW q \in PlannedQuantities, SaveLooseWorkOrder(w, q)
      PROVE  WorkOrdersFit'
  <2>1. /\ workorders[w] = NoRow /\ rewritten' = rewritten /\ overlapped' = overlapped
        /\ \A x \in WorkOrderIds \ {w} : workorders'[x] = workorders[x]
        /\ workorders'[w].source = NoSource
    BY <1>3 DEF SaveLooseWorkOrder, PlanningTypeOK
  <2>2. /\ \A x \in WorkOrderIds : workorders'[x] # NoRow =>
              workorders[x] # NoRow \/ workorders'[x].source = NoSource
        /\ \A x \in WorkOrderIds : /\ workorders'[x] # NoRow /\ workorders[x] # NoRow
                                   /\ x \notin rewritten' /\ workorders'[x].status # 6
                                   => workorders[x].status # 6
    BY <2>1
  <2> QED
    BY <2>1, <2>2, NoNewWorkOrder
<1>4. ASSUME NEW c \in Planners, WriteStatus(c) PROVE WorkOrdersFit'
  <2>1. /\ \A x \in WorkOrderIds : workorders'[x] # NoRow => workorders[x] # NoRow
        /\ \A x \in WorkOrderIds : /\ workorders'[x] # NoRow /\ workorders[x] # NoRow
                                   /\ x \notin rewritten' /\ workorders'[x].status # 6
                                   => workorders[x].status # 6
    BY <1>4, WorkOrderStatusWritten
  <2>2. rewritten \subseteq rewritten' /\ overlapped' = overlapped
    BY <1>4 DEF WriteStatus
  <2> QED
    BY <2>1, <2>2, NoNewWorkOrder
<1> QED
  BY <1>1, <1>2, <1>3, <1>4
  DEF PlanningNext, planningVars, SaveSalesOrder, SavePlan, SaveBatch, ReadPlan,
      ReadBatch, JudgeStatus

-----------------------------------------------------------------------------
\* Every step keeps the invariant.
LEMMA PlanningStep == PlanningInv /\ [PlanningNext]_planningVars => PlanningInv'
<1> SUFFICES ASSUME PlanningInv, [PlanningNext]_planningVars PROVE PlanningInv'
  OBVIOUS
<1> USE DEF PlanningInv
<1>1. PlanningTypeOK' /\ RowsStay
  BY PlanningTypeStep, RowsStayStep
<1>2. SourcesExist' /\ PlannersRemember'
  BY <1>1, SourcesExistStep, PlannersRememberStep
<1>3. PlansFit' /\ BatchesFit' /\ WorkOrdersFit'
  BY <1>1, PlansFitStep, BatchesFitStep, WorkOrdersFitStep
<1> QED
  BY <1>1, <1>2, <1>3

\* Nothing is ordered and nothing planned at first.
LEMMA PlanningInitInv == PlanningInit => PlanningInv
<1> SUFFICES ASSUME PlanningInit PROVE PlanningInv
  OBVIOUS
<1>1. PlanningTypeOK
  BY DEF PlanningInit, PlanningTypeOK
<1>2. SourcesExist /\ PlannersRemember
  BY DEF PlanningInit, SourcesExist, PlannersRemember
<1>3. PlansFit /\ BatchesFit /\ WorkOrdersFit
  BY DEF PlanningInit, PlansFit, BatchesFit, WorkOrdersFit
<1> QED
  BY <1>1, <1>2, <1>3 DEF PlanningInv

\* Nothing is below a row that does not exist, planners remember what was true
\* when they read it, and what is soundly below a row fits it.
THEOREM PlanningInvariant == PlanningSpec => []PlanningInv
  BY PlanningInitInv, PlanningStep, PTL DEF PlanningSpec

\* The four tables hold rows of their types, whatever status is written.
THEOREM PlanningTypes == PlanningSpec => []PlanningTypeOK
<1>1. PlanningInv => PlanningTypeOK
  BY DEF PlanningInv
<1> QED
  BY <1>1, PlanningInvariant, PTL

\* At no level of sales item, plan, batch and work order is more given out than
\* the level above holds, whatever planners do at the same time, but for a
\* cancelled row a stale status change brought back and for work orders of one
\* batch saved on the same total.
THEOREM PlansWithinOrders == PlanningSpec => []PlannedWithinOrdered
<1>1. PlanningInv => PlannedWithinOrdered
  BY FitsWithin DEF PlanningInv
<1> QED
  BY <1>1, PlanningInvariant, PTL

-----------------------------------------------------------------------------
(***************************************************************************)
(* STOCK                                                                   *)
(***************************************************************************)

-----------------------------------------------------------------------------
(* Stock: the entries of the ledger.                                       *)

\* One entry more counts for its material.
LEMMA EnteredNext ==
  ASSUME NEW es, NEW n \in Nat, es \in Seq(Entry), n + 1 \in DOMAIN es, NEW m
  PROVE  /\ Entered(es, m, n) \in Int
         /\ Entered(es, m, n + 1) =
              Entered(es, m, n) + IF es[n + 1].material = m THEN es[n + 1].quantity ELSE 0
<1> DEFINE S == {j \in 1 .. n : es[j].material = m}
           T == {j \in 1 .. n + 1 : es[j].material = m}
           f == [j \in S |-> es[j].quantity]
           g == [j \in T |-> es[j].quantity]
<1>1. \A j \in 1 .. n + 1 : es[j] \in Entry
  OBVIOUS
<1>2. \A j \in 1 .. n + 1 : es[j].quantity \in Int
  BY <1>1 DEF Entry
<1>3. IsFiniteSet(S)
  <2>1. IsFiniteSet(1 .. n)
    BY FS_Interval
  <2> QED
    BY <2>1, FS_Subset
<1>4. /\ \A j \in S : f[j] \in Int
      /\ \A j \in T : g[j] \in Int
      /\ \A j \in S : g[j] = f[j]
  BY <1>2
<1>5. Entered(es, m, n) = SumFunctionOnSet(f, S) /\ Entered(es, m, n + 1) = SumFunctionOnSet(g, T)
  BY DEF Entered, SumFunction
<1>6. SumFunctionOnSet(f, S) \in Int
  <2> HIDE DEF f, S
  <2> QED BY <1>3, <1>4, SumType
<1>7. CASE es[n + 1].material = m
  <2>1. T = S \cup {n + 1} /\ n + 1 \notin S /\ g[n + 1] = es[n + 1].quantity
    BY <1>7
  <2>2. SumFunctionOnSet(g, S \cup {n + 1}) = g[n + 1] + SumFunctionOnSet(g, S)
    <3> HIDE DEF f, g, S, T
    <3> QED BY <1>3, <1>4, <2>1, SumInsert
  <2>3. SumFunctionOnSet(g, S) = SumFunctionOnSet(f, S)
    <3> HIDE DEF f, g, S
    <3> QED BY <1>3, <1>4, SumSame
  <2>4. g[n + 1] \in Int
    BY <1>4, <2>1
  <2> HIDE DEF f, g, S, T
  <2> QED
    BY <1>5, <1>6, <1>7, <2>1, <2>2, <2>3, <2>4
<1>8. CASE es[n + 1].material # m
  <2>1. T = S
    BY <1>8
  <2>2. SumFunctionOnSet(g, T) = SumFunctionOnSet(f, S)
    <3> HIDE DEF f, g, S, T
    <3> QED BY <1>3, <1>4, <2>1, SumSame
  <2> HIDE DEF f, g, S, T
  <2> QED
    BY <1>5, <1>6, <1>8, <2>2
<1> QED
  BY <1>7, <1>8

\* Only the first entries matter.
LEMMA EnteredSame ==
  ASSUME NEW es, NEW fs, NEW k, \A j \in 1 .. k : es[j] = fs[j], NEW m
  PROVE  Entered(es, m, k) = Entered(fs, m, k)
<1>1. {j \in 1 .. k : es[j].material = m} = {j \in 1 .. k : fs[j].material = m}
  OBVIOUS
<1>2. [j \in {j \in 1 .. k : es[j].material = m} |-> es[j].quantity]
        = [j \in {j \in 1 .. k : fs[j].material = m} |-> fs[j].quantity]
  BY <1>1
<1> QED
  BY <1>2 DEF Entered

\* No entries come to nothing.
LEMMA EnteredNone == \A es, m : Entered(es, m, 0) = 0
<1> TAKE es, m
<1> DEFINE S == {j \in 1 .. 0 : es[j].material = m}
<1>1. S = {}
  OBVIOUS
<1>2. SumFunction([j \in S |-> es[j].quantity]) = SumFunctionOnSet([j \in S |-> es[j].quantity], {})
  BY <1>1 DEF SumFunction
<1> QED
  BY <1>2, SumEmpty DEF Entered

\* Books whose entries carry the balance those before them leave.
RightBooks(b) ==
    /\ b.balance \in [Materials -> Int] /\ b.ledger \in Seq(Entry)
    /\ \A k \in DOMAIN b.ledger : b.ledger[k].balance = Entered(b.ledger, b.ledger[k].material, k)
    /\ \A m \in Materials : b.balance[m] = Entered(b.ledger, m, Len(b.ledger))

\* Booking a line keeps the books right.
LEMMA BookIsRight ==
  ASSUME NEW b, RightBooks(b), NEW material \in Materials, NEW q \in Int
  PROVE  /\ RightBooks(Book(b, material, q))
         /\ \A m \in Materials : Book(b, material, q).balance[m] =
               b.balance[m] + IF m = material THEN q ELSE 0
<1> DEFINE after == b.balance[material] + q
           entry == [material |-> material, quantity |-> q, balance |-> after]
           es == b.ledger
           fs == Append(es, entry)
           bal == [b.balance EXCEPT ![material] = after]
           n == Len(es)
<1>1. Book(b, material, q).balance = bal /\ Book(b, material, q).ledger = fs
  BY DEF Book
<1>2. /\ b.balance \in [Materials -> Int] /\ es \in Seq(Entry)
      /\ \A k \in DOMAIN es : es[k].balance = Entered(es, es[k].material, k)
      /\ \A m \in Materials : b.balance[m] = Entered(es, m, n)
  BY DEF RightBooks
<1>3. after \in Int /\ entry \in Entry
      /\ entry.material = material /\ entry.quantity = q /\ entry.balance = after
  BY <1>2 DEF Entry
<1> HIDE DEF es, entry
<1>4. bal \in [Materials -> Int] /\ \A m \in Materials : bal[m] = IF m = material THEN after ELSE b.balance[m]
  BY <1>2, <1>3
<1>5. /\ fs \in Seq(Entry) /\ n \in Nat /\ Len(fs) = n + 1
      /\ DOMAIN es = 1 .. n /\ DOMAIN fs = 1 .. n + 1
      /\ \A k \in 1 .. n : fs[k] = es[k]
      /\ fs[n + 1] = entry
  BY <1>2, <1>3
<1> HIDE DEF fs, n
<1>6. \A k \in 0 .. n : \A m : Entered(fs, m, k) = Entered(es, m, k)
  <2> SUFFICES ASSUME NEW k \in 0 .. n, NEW m PROVE Entered(fs, m, k) = Entered(es, m, k)
    OBVIOUS
  <2>1. \A j \in 1 .. k : fs[j] = es[j]
    BY <1>5
  <2> QED
    BY <2>1, EnteredSame
<1>7. \A m : /\ Entered(fs, m, n) \in Int
             /\ Entered(fs, m, n + 1) = Entered(fs, m, n) + IF material = m THEN q ELSE 0
  <2> SUFFICES ASSUME NEW m
               PROVE  /\ Entered(fs, m, n) \in Int
                      /\ Entered(fs, m, n + 1) = Entered(fs, m, n) + IF material = m THEN q ELSE 0
    OBVIOUS
  <2>1. n + 1 \in DOMAIN fs
    BY <1>5
  <2>2. /\ Entered(fs, m, n) \in Int
        /\ Entered(fs, m, n + 1)
             = Entered(fs, m, n) + IF fs[n + 1].material = m THEN fs[n + 1].quantity ELSE 0
    BY <1>5, <2>1, EnteredNext
  <2> QED
    BY <1>3, <1>5, <2>2
<1>8. \A m \in Materials : bal[m] = Entered(fs, m, n + 1)
  <2> SUFFICES ASSUME NEW m \in Materials PROVE bal[m] = Entered(fs, m, n + 1)
    OBVIOUS
  <2>1. b.balance[m] = Entered(fs, m, n)
    BY <1>2, <1>5, <1>6
  <2> QED
    BY <1>4, <1>7, <2>1
<1>9. \A k \in DOMAIN fs : fs[k].balance = Entered(fs, fs[k].material, k)
  <2> SUFFICES ASSUME NEW k \in DOMAIN fs PROVE fs[k].balance = Entered(fs, fs[k].material, k)
    OBVIOUS
  <2>1. CASE k \in 1 .. n
    BY <1>2, <1>5, <1>6, <2>1
  <2>2. CASE k = n + 1
    <3>1. bal[material] = after
      BY <1>4
    <3> QED
      BY <1>3, <1>5, <1>8, <2>2, <3>1
  <2> QED
    BY <1>5, <2>1, <2>2
<1>10. RightBooks(Book(b, material, q))
  BY <1>1, <1>4, <1>5, <1>8, <1>9 DEF RightBooks
<1>11. \A m \in Materials : bal[m] = b.balance[m] + IF m = material THEN q ELSE 0
  BY <1>2, <1>4
<1> QED
  BY <1>1, <1>10, <1>11

-----------------------------------------------------------------------------
(* Stock: the lines of a document.                                         *)

\* What the first k lines ask of m.
ListedTo(items, m, k) ==
    SumFunction([j \in {j \in 1 .. k : items[j][1] = m} |-> items[j][2]])

\* One line more asks for its material.
LEMMA ListedNext ==
  ASSUME NEW items, items \in Seq(Materials \X Nat), NEW n \in Nat, n + 1 \in DOMAIN items, NEW m
  PROVE  /\ ListedTo(items, m, n) \in Nat
         /\ ListedTo(items, m, n + 1) =
              ListedTo(items, m, n) + IF items[n + 1][1] = m THEN items[n + 1][2] ELSE 0
<1> DEFINE S == {j \in 1 .. n : items[j][1] = m}
           T == {j \in 1 .. n + 1 : items[j][1] = m}
           f == [j \in S |-> items[j][2]]
           g == [j \in T |-> items[j][2]]
<1>1. \A j \in 1 .. n + 1 : items[j] \in Materials \X Nat
  OBVIOUS
<1>2. \A j \in 1 .. n + 1 : items[j][2] \in Nat
  BY <1>1
<1>3. IsFiniteSet(S)
  <2>1. IsFiniteSet(1 .. n)
    BY FS_Interval
  <2> QED
    BY <2>1, FS_Subset
<1>4. /\ \A j \in S : f[j] \in Nat
      /\ \A j \in T : g[j] \in Int
      /\ \A j \in S : g[j] = f[j]
  BY <1>2
<1>5. /\ ListedTo(items, m, n) = SumFunctionOnSet(f, S)
      /\ ListedTo(items, m, n + 1) = SumFunctionOnSet(g, T)
  BY DEF ListedTo, SumFunction
<1>6. SumFunctionOnSet(f, S) \in Nat
  <2> HIDE DEF f, S
  <2> QED BY <1>3, <1>4, SumNotNegative
<1>7. CASE items[n + 1][1] = m
  <2>1. T = S \cup {n + 1} /\ n + 1 \notin S /\ g[n + 1] = items[n + 1][2]
    BY <1>7
  <2>2. SumFunctionOnSet(g, S \cup {n + 1}) = g[n + 1] + SumFunctionOnSet(g, S)
    <3> HIDE DEF f, g, S, T
    <3> QED BY <1>3, <1>4, <2>1, SumInsert
  <2>3. SumFunctionOnSet(g, S) = SumFunctionOnSet(f, S)
    <3> HIDE DEF f, g, S
    <3> QED BY <1>3, <1>4, SumSame
  <2>4. g[n + 1] \in Int
    BY <1>4, <2>1
  <2> HIDE DEF f, g, S, T
  <2> QED
    BY <1>5, <1>6, <1>7, <2>1, <2>2, <2>3, <2>4
<1>8. CASE items[n + 1][1] # m
  <2>1. T = S
    BY <1>8
  <2>2. SumFunctionOnSet(g, T) = SumFunctionOnSet(f, S)
    <3> HIDE DEF f, g, S, T
    <3> QED BY <1>3, <1>4, <2>1, SumSame
  <2> HIDE DEF f, g, S, T
  <2> QED
    BY <1>5, <1>6, <1>8, <2>2
<1> QED
  BY <1>7, <1>8

\* No lines ask for nothing.
LEMMA ListedNone == \A items, m : ListedTo(items, m, 0) = 0
<1> TAKE items, m
<1> DEFINE S == {j \in 1 .. 0 : items[j][1] = m}
<1>1. S = {}
  OBVIOUS
<1>2. SumFunction([j \in S |-> items[j][2]]) = SumFunctionOnSet([j \in S |-> items[j][2]], {})
  BY <1>1 DEF SumFunction
<1> QED
  BY <1>2, SumEmpty DEF ListedTo

\* All lines ask for what the document lists, and that is never negative.
LEMMA ListedAll ==
  ASSUME NEW items, items \in Seq(Materials \X Nat), NEW m
  PROVE  Listed(items, m) = ListedTo(items, m, Len(items)) /\ Listed(items, m) \in Nat
<1>1. DOMAIN items = 1 .. Len(items) /\ Len(items) \in Nat
  OBVIOUS
<1>2. Listed(items, m) = ListedTo(items, m, Len(items))
  BY <1>1 DEF Listed, ListedTo
<1>3. ListedTo(items, m, Len(items)) \in Nat
  <2>1. CASE Len(items) = 0
    BY <2>1, ListedNone
  <2>2. CASE Len(items) # 0
    <3> DEFINE n == Len(items) - 1
    <3>1. n \in Nat /\ n + 1 \in DOMAIN items /\ n + 1 = Len(items)
      BY <1>1, <2>2
    <3> HIDE DEF n
    <3>2. items \in Seq(Materials \X Nat) /\ n \in Nat /\ n + 1 \in DOMAIN items
      BY <3>1
    <3>3. /\ ListedTo(items, m, n) \in Nat
          /\ ListedTo(items, m, n + 1) =
               ListedTo(items, m, n) + IF items[n + 1][1] = m THEN items[n + 1][2] ELSE 0
      BY <3>2, ListedNext
    <3>4. items[n + 1] \in Materials \X Nat
      BY <3>1
    <3> QED
      BY <3>1, <3>3, <3>4
  <2> QED
    BY <2>1, <2>2
<1> QED
  BY <1>2, <1>3

\* Booking line by line has a result, however many lines there are.
LEMMA BookingExists ==
  ASSUME NEW d
  PROVE  \A n \in Nat : \E g :
            g = [k \in 0 .. n |->
                   IF k = 0 THEN Books
                   ELSE Book(g[k - 1], document[d].items[k][1], Signed(d, document[d].items[k][2]))]
<1> DEFINE Line(b, k) == Book(b, document[d].items[k][1], Signed(d, document[d].items[k][2]))
           Good(g, n) == g = [k \in 0 .. n |-> IF k = 0 THEN Books ELSE Line(g[k - 1], k)]
           N == {n \in Nat : \E g : Good(g, n)}
<1> HIDE DEF Line
<1>1. 0 \in N
  <2>1. Good([k \in 0 .. 0 |-> Books], 0)
    OBVIOUS
  <2> QED
    BY <2>1
<1>2. ASSUME NEW n \in N PROVE n + 1 \in N
  <2>1. PICK g : Good(g, n)
    OBVIOUS
  <2> DEFINE h == [k \in 0 .. n + 1 |-> IF k = n + 1 THEN Line(g[n], n + 1) ELSE g[k]]
  <2>2. n \in Nat
    OBVIOUS
  <2>3. ASSUME NEW k \in 0 .. n + 1
        PROVE  h[k] = IF k = 0 THEN Books ELSE Line(h[k - 1], k)
    <3>1. CASE k = 0
      BY <2>1, <2>2, <3>1
    <3>2. CASE k \in 1 .. n
      <4>1. h[k] = g[k] /\ h[k - 1] = g[k - 1] /\ k \in 0 .. n /\ k # 0
        BY <2>2, <3>2
      <4>2. g[k] = Line(g[k - 1], k)
        BY <2>1, <4>1
      <4> QED
        BY <4>1, <4>2
    <3>3. CASE k = n + 1
      <4>1. h[k] = Line(g[n], n + 1) /\ h[k - 1] = g[n] /\ k # 0
        BY <2>2, <3>3
      <4> QED
        BY <3>3, <4>1
    <3> QED
      BY <2>2, <3>1, <3>2, <3>3
  <2>4. h = [k \in 0 .. n + 1 |-> IF k = 0 THEN Books ELSE Line(h[k - 1], k)]
    BY <2>3
  <2>5. \E x : Good(x, n + 1)
    BY <2>4
  <2> HIDE DEF h
  <2> QED
    BY <2>2, <2>5
<1>3. N \subseteq Nat /\ \A n \in N : n + 1 \in N
  BY <1>2
<1> HIDE DEF Good
<1>4. N = Nat
  <2> HIDE DEF N
  <2> QED BY <1>1, <1>3, CountUp
<1> QED
  BY <1>4 DEF Good, Line

\* The books after a line are those before it with the line booked.
LEMMA BookedSteps ==
  ASSUME NEW d, Len(document[d].items) \in Nat
  PROVE  /\ Booked(d)[0] = Books
         /\ \A k \in 1 .. Len(document[d].items) :
               Booked(d)[k] = Book(Booked(d)[k - 1], document[d].items[k][1],
                                   Signed(d, document[d].items[k][2]))
<1> DEFINE n == Len(document[d].items)
           it == CHOOSE g : g = [k \in 0 .. n |->
                   IF k = 0 THEN Books
                   ELSE Book(g[k - 1], document[d].items[k][1], Signed(d, document[d].items[k][2]))]
<1>1. \E g : g = [k \in 0 .. n |->
                   IF k = 0 THEN Books
                   ELSE Book(g[k - 1], document[d].items[k][1], Signed(d, document[d].items[k][2]))]
  BY BookingExists
<1>2. it = [k \in 0 .. n |->
              IF k = 0 THEN Books
              ELSE Book(it[k - 1], document[d].items[k][1], Signed(d, document[d].items[k][2]))]
  BY <1>1
<1>3. Booked(d) = it
  BY DEF Booked
<1> HIDE DEF it
<1>4. /\ it[0] = Books
      /\ \A k \in 1 .. n :
            it[k] = Book(it[k - 1], document[d].items[k][1], Signed(d, document[d].items[k][2]))
  <2>1. n \in Nat
    OBVIOUS
  <2> HIDE DEF n
  <2>2. \A k \in 1 .. n : k \in 0 .. n /\ k # 0
    BY <2>1
  <2>3. 0 \in 0 .. n
    BY <2>1
  <2>4. it[0] = Books
    BY <1>2, <2>3, Zenon
  <2> QED
    BY <1>2, <2>2, <2>4, Zenon
<1> QED
  BY <1>3, <1>4

\* Posting a document leaves right books, and moves each balance by what the
\* lines list of it.
LEMMA BookedIsRight ==
  ASSUME RightBooks(Books), NEW d, document[d].items \in Seq(Materials \X Nat)
  PROVE  LET after == Booked(d)[Len(document[d].items)]
         IN /\ RightBooks(after)
            /\ \A m \in Materials : after.balance[m] = balance[m] + Signed(d, Listed(document[d].items, m))
<1> DEFINE items == document[d].items
           n == Len(items)
           b == Booked(d)
           Fine(k) == /\ RightBooks(b[k])
                      /\ \A m \in Materials :
                            b[k].balance[m] = balance[m] + Signed(d, ListedTo(items, m, k))
           N == {k \in Nat : k <= n => Fine(k)}
<1>1. /\ n \in Nat /\ DOMAIN items = 1 .. n
      /\ \A k \in 1 .. n : items[k] \in Materials \X Nat
      /\ \A k \in 1 .. n : items[k][1] \in Materials /\ items[k][2] \in Nat
  <2>1. /\ n \in Nat /\ DOMAIN items = 1 .. n
        /\ \A k \in 1 .. n : items[k] \in Materials \X Nat
    OBVIOUS
  <2> QED
    BY <2>1
<1>2. /\ b[0] = Books
      /\ \A k \in 1 .. n : b[k] = Book(b[k - 1], items[k][1], Signed(d, items[k][2]))
  BY <1>1, BookedSteps
<1>3. Books.balance = balance /\ \A m \in Materials : balance[m] \in Int
  BY DEF Books, RightBooks
<1>4. 0 \in N
  <2>1. \A m \in Materials : Signed(d, ListedTo(items, m, 0)) = 0
    BY ListedNone DEF Signed
  <2>2. Fine(0)
    BY <1>2, <1>3, <2>1
  <2> QED
    BY <2>2
<1>5. ASSUME NEW k \in N PROVE k + 1 \in N
  <2> SUFFICES ASSUME k + 1 <= n PROVE Fine(k + 1)
    OBVIOUS
  <2>1. k \in Nat /\ k + 1 \in 1 .. n /\ k <= n
    BY <1>1
  <2>2. Fine(k)
    BY <2>1
  <2> DEFINE q == Signed(d, items[k + 1][2])
             x == items[k + 1][1]
  <2>3. x \in Materials /\ items[k + 1][2] \in Nat /\ q \in Int
    BY <1>1, <2>1 DEF Signed
  <2>4. b[k + 1] = Book(b[k], x, q)
    BY <1>2, <2>1
  <2> HIDE DEF b
  <2>5. /\ RightBooks(Book(b[k], x, q))
        /\ \A m \in Materials : Book(b[k], x, q).balance[m] = b[k].balance[m] + IF m = x THEN q ELSE 0
    <3> HIDE DEF x, q
    <3> QED BY <2>2, <2>3, BookIsRight
  <2>6. ASSUME NEW m \in Materials
        PROVE  b[k + 1].balance[m] = balance[m] + Signed(d, ListedTo(items, m, k + 1))
    <3>1. /\ ListedTo(items, m, k) \in Nat
          /\ ListedTo(items, m, k + 1) =
               ListedTo(items, m, k) + IF x = m THEN items[k + 1][2] ELSE 0
      <4>1. items \in Seq(Materials \X Nat) /\ k \in Nat /\ k + 1 \in DOMAIN items
        BY <1>1, <2>1
      <4>2. /\ ListedTo(items, m, k) \in Nat
            /\ ListedTo(items, m, k + 1) =
                 ListedTo(items, m, k) + IF items[k + 1][1] = m THEN items[k + 1][2] ELSE 0
        <5> HIDE DEF items, x, q, N, Fine
        <5> QED
          BY <4>1, ListedNext
      <4> QED
        BY <4>2
    <3>2. b[k].balance[m] = balance[m] + Signed(d, ListedTo(items, m, k))
      BY <2>2
    <3>3. b[k + 1].balance[m] = b[k].balance[m] + IF m = x THEN q ELSE 0
      BY <2>4, <2>5
    <3>4. balance[m] \in Int
      BY <1>3
    <3>5. \A v \in Nat : /\ Signed(d, v) \in Int
                         /\ \A w \in Nat : Signed(d, v + w) = Signed(d, v) + Signed(d, w)
      BY DEF Signed
    <3>6. CASE m = x
      <4>1. Signed(d, ListedTo(items, m, k) + items[k + 1][2]) = Signed(d, ListedTo(items, m, k)) + q
        BY <2>3, <3>1, <3>5
      <4>2. Signed(d, ListedTo(items, m, k)) \in Int
        BY <3>1, <3>5
      <4> HIDE DEF x, q, items
      <4> QED
        BY <2>3, <3>1, <3>2, <3>3, <3>4, <3>6, <4>1, <4>2
    <3>7. CASE m # x
      <4>1. Signed(d, ListedTo(items, m, k)) \in Int
        BY <3>1, <3>5
      <4> HIDE DEF x, q, items
      <4> QED
        BY <3>1, <3>2, <3>3, <3>4, <3>7, <4>1
    <3> QED
      BY <3>6, <3>7
  <2> QED
    BY <2>4, <2>5, <2>6
<1>6. N \subseteq Nat /\ \A k \in N : k + 1 \in N
  BY <1>5
<1>7. N = Nat
  <2> HIDE DEF N
  <2> QED BY <1>4, <1>6, CountUp
<1>8. Fine(n)
  BY <1>1, <1>7
<1>9. \A m \in Materials : Listed(items, m) = ListedTo(items, m, n)
  BY ListedAll
<1> QED
  BY <1>8, <1>9

-----------------------------------------------------------------------------
(* Stock: what documents brought in and work orders have.                  *)

\* What a document and a line of a work order add to the stock of m.
DocumentMoves(m) ==
    [d \in Documents |-> IF document[d] \in DocumentRow /\ document[d].posted
                         THEN Signed(d, Listed(document[d].items, m)) ELSE 0]
NeedHolds(m) ==
    [n \in Needs |-> IF need[n] \in NeedRow /\ MaterialOf[n] = m
                     THEN need[n].issued - need[n].returned ELSE 0]

StockIsSum(m) ==
    /\ BroughtIn(m) = SumFunctionOnSet(DocumentMoves(m), Documents)
    /\ GivenOut(m) = SumFunctionOnSet(NeedHolds(m), Needs)
    /\ \A d \in Documents : DocumentMoves(m)[d] \in Int
    /\ \A n \in Needs : NeedHolds(m)[n] \in Int
    /\ BroughtIn(m) \in Int /\ GivenOut(m) \in Int

\* What the types say of the rows.
LEMMA StockRows ==
  ASSUME StockTypeOK
  PROVE  /\ \A d \in Documents : document[d] \notin Absent <=> document[d] \in DocumentRow
         /\ \A n \in Needs : need[n] # NoRow <=> need[n] \in NeedRow
         /\ \A d \in Documents : document[d] \in DocumentRow =>
               /\ document[d].items \in Seq(Materials \X Nat)
               /\ document[d].kind \in {"inbound", "outbound"} /\ document[d].posted \in BOOLEAN
         /\ \A n \in Needs : need[n] \in NeedRow =>
               /\ need[n].requested \in Nat /\ need[n].issued \in Nat
               /\ need[n].received \in Nat /\ need[n].returned \in Nat
<1>1. ASSUME NEW d \in Documents, document[d] \in DocumentRow
      PROVE  document[d].items \in Seq(Materials \X Nat)
  <2>1. document[d].items \in Seq(Materials \X (Nat \ {0}))
    BY <1>1, StockAssumption DEF DocumentRow
  <2>2. \A k \in 1 .. Len(document[d].items) : document[d].items[k] \in Materials \X Nat
    BY <2>1
  <2> QED
    BY <2>1, <2>2
<1>2. \A d \in Documents : document[d] \in DocumentRow =>
        document[d].kind \in {"inbound", "outbound"} /\ document[d].posted \in BOOLEAN
  BY DEF DocumentRow
<1>3. \A n \in Needs : need[n] \in NeedRow =>
        /\ need[n].requested \in Nat /\ need[n].issued \in Nat
        /\ need[n].received \in Nat /\ need[n].returned \in Nat
  BY DEF NeedRow
<1>4. /\ \A d \in Documents : document[d] \notin Absent <=> document[d] \in DocumentRow
      /\ \A n \in Needs : need[n] # NoRow <=> need[n] \in NeedRow
  BY StockRowAssumption DEF StockTypeOK, Absent
<1> QED
  BY <1>1, <1>2, <1>3, <1>4

StockSums == \A m \in Materials : StockIsSum(m)

\* What was brought in and what was given out are sums over all rows.
LEMMA StockAdds == StockTypeOK => StockSums
<1> SUFFICES ASSUME StockTypeOK, NEW m \in Materials PROVE StockIsSum(m)
  BY DEF StockSums
<1> DEFINE P == PostedDocuments
           f == [d \in P |-> Signed(d, Listed(document[d].items, m))]
           Q == NeedsOf(m)
           g == [n \in Q |-> need[n].issued - need[n].returned]
<1>1. /\ P \in SUBSET Documents /\ Q \in SUBSET Needs
      /\ \A d \in Documents : d \in P <=> document[d] \in DocumentRow /\ document[d].posted
      /\ \A n \in Needs : n \in Q <=> need[n] \in NeedRow /\ MaterialOf[n] = m
  BY StockRows DEF PostedDocuments, NeedsOf
<1>2. \A d \in P : Signed(d, Listed(document[d].items, m)) \in Int
  <2> SUFFICES ASSUME NEW d \in P PROVE Signed(d, Listed(document[d].items, m)) \in Int
    OBVIOUS
  <2>1. document[d].items \in Seq(Materials \X Nat)
    BY <1>1, StockRows
  <2>2. Listed(document[d].items, m) \in Nat
    BY <2>1, ListedAll
  <2> QED
    BY <2>2 DEF Signed
<1>3. \A n \in Q : need[n].issued - need[n].returned \in Int
  BY <1>1, StockRows
<1>4. /\ \A d \in P : f[d] \in Int /\ DocumentMoves(m)[d] = f[d]
      /\ \A d \in Documents \ P : DocumentMoves(m)[d] = 0
      /\ \A n \in Q : g[n] \in Int /\ NeedHolds(m)[n] = g[n]
      /\ \A n \in Needs \ Q : NeedHolds(m)[n] = 0
  BY <1>1, <1>2, <1>3 DEF DocumentMoves, NeedHolds
<1>5. BroughtIn(m) = SumFunctionOnSet(f, P) /\ GivenOut(m) = SumFunctionOnSet(g, Q)
  BY DEF BroughtIn, GivenOut, SumFunction
<1> HIDE DEF f, g, P, Q
<1>6. \A d \in Documents : DocumentMoves(m)[d] \in Int
  BY <1>1, <1>4
<1>7. \A n \in Needs : NeedHolds(m)[n] \in Int
  BY <1>1, <1>4
<1>8. SumFunctionOnSet(f, P) = SumFunctionOnSet(DocumentMoves(m), Documents)
  BY <1>1, <1>4, StockAssumption, SumRestrict
<1>9. SumFunctionOnSet(g, Q) = SumFunctionOnSet(NeedHolds(m), Needs)
  BY <1>1, <1>4, StockAssumption, SumRestrict
<1>10. SumFunctionOnSet(DocumentMoves(m), Documents) \in Int
  BY <1>6, StockAssumption, SumType
<1>11. SumFunctionOnSet(NeedHolds(m), Needs) \in Int
  BY <1>7, StockAssumption, SumType
<1> QED
  BY <1>5, <1>6, <1>7, <1>8, <1>9, <1>10, <1>11 DEF StockIsSum

\* When one document is written, the stock of m it brought in changes by its change.
LEMMA BroughtInChanges ==
  ASSUME StockTypeOK, StockTypeOK', NEW d \in Documents, NEW m \in Materials,
         \A x \in Documents \ {d} : document'[x] = document[x]
  PROVE  BroughtIn(m)' = BroughtIn(m) + DocumentMoves(m)'[d] - DocumentMoves(m)[d]
<1>1. StockIsSum(m)
  BY StockAdds DEF StockSums
<1>2. StockSums'
  BY StockAdds, PTL
<1>3. StockIsSum(m)'
  BY <1>2 DEF StockSums
<1>4. \A x \in Documents \ {d} : DocumentMoves(m)'[x] = DocumentMoves(m)[x]
  BY DEF DocumentMoves, Signed
<1>5. \A x \in Documents : DocumentMoves(m)[x] \in Int /\ DocumentMoves(m)'[x] \in Int
  BY <1>1, <1>3 DEF StockIsSum
<1>6. SumFunctionOnSet(DocumentMoves(m)', Documents)
        = SumFunctionOnSet(DocumentMoves(m), Documents) + DocumentMoves(m)'[d] - DocumentMoves(m)[d]
  BY <1>4, <1>5, StockAssumption, SumChange
<1> QED
  BY <1>1, <1>3, <1>6 DEF StockIsSum

\* When one line is written, what was given out changes by its change.
LEMMA GivenOutChanges ==
  ASSUME StockTypeOK, StockTypeOK', NEW n \in Needs, NEW m \in Materials,
         \A x \in Needs \ {n} : NeedHolds(m)'[x] = NeedHolds(m)[x]
  PROVE  GivenOut(m)' = GivenOut(m) + NeedHolds(m)'[n] - NeedHolds(m)[n]
<1>1. StockIsSum(m)
  BY StockAdds DEF StockSums
<1>2. StockSums'
  BY StockAdds, PTL
<1>3. StockIsSum(m)'
  BY <1>2 DEF StockSums
<1>5. \A x \in Needs : NeedHolds(m)[x] \in Int /\ NeedHolds(m)'[x] \in Int
  BY <1>1, <1>3 DEF StockIsSum
<1>6. SumFunctionOnSet(NeedHolds(m)', Needs)
        = SumFunctionOnSet(NeedHolds(m), Needs) + NeedHolds(m)'[n] - NeedHolds(m)[n]
  BY <1>5, StockAssumption, SumChange
<1> QED
  BY <1>1, <1>3, <1>6 DEF StockIsSum

\* What documents brought in stays when documents do.
LEMMA SameBroughtIn ==
  ASSUME UNCHANGED document, NEW m PROVE BroughtIn(m)' = BroughtIn(m)
  BY DEF BroughtIn, PostedDocuments, Signed

\* What was given out stays when the lines do.
LEMMA SameGivenOut ==
  ASSUME UNCHANGED need, NEW m PROVE GivenOut(m)' = GivenOut(m)
  BY DEF GivenOut, NeedsOf

\* The invariant.
Explained ==
    \A m \in Materials : balance[m] >= 0 /\ balance[m] = BroughtIn(m) - GivenOut(m)
NeedsFit ==
    \A n \in Needs : need[n] # NoRow =>
        /\ need[n].returned <= need[n].received
        /\ need[n].received <= need[n].issued
        /\ need[n].issued <= RequiredFor[n]
        /\ need[n].requested <= RequiredFor[n]

StockInv == StockTypeOK /\ RightBooks(Books) /\ Explained /\ NeedsFit

\* The invariant says what the property does.
LEMMA StockExplained == StockInv => LedgerExplainsStock
  BY DEF StockInv, RightBooks, Books, Explained, NeedsFit, LedgerExplainsStock

\* No stock and no entry at first.
LEMMA StockStarts == StockInit => StockInv
<1> SUFFICES ASSUME StockInit PROVE StockInv
  OBVIOUS
<1>1. StockTypeOK
  BY DEF StockInit, StockTypeOK, Absent
<1>2. RightBooks(Books)
  <2>1. \A m \in Materials : Entered(<<>>, m, 0) = 0
    BY EnteredNone
  <2> QED
    BY <2>1 DEF StockInit, Books, RightBooks
<1>3. ASSUME NEW m \in Materials PROVE BroughtIn(m) = 0 /\ GivenOut(m) = 0
  <2>1. PostedDocuments = {} /\ NeedsOf(m) = {}
    BY DEF PostedDocuments, NeedsOf, StockInit, Absent
  <2>2. /\ BroughtIn(m) = SumFunctionOnSet([d \in PostedDocuments |-> Signed(d, Listed(document[d].items, m))], {})
        /\ GivenOut(m) = SumFunctionOnSet([n \in NeedsOf(m) |-> need[n].issued - need[n].returned], {})
    BY <2>1 DEF BroughtIn, GivenOut, SumFunction
  <2> QED
    BY <2>2, SumEmpty
<1>4. Explained
  BY <1>3 DEF Explained, StockInit
<1>5. NeedsFit
  BY DEF NeedsFit, StockInit
<1> QED
  BY <1>1, <1>2, <1>4, <1>5 DEF StockInv

-----------------------------------------------------------------------------
(* The steps: documents.                                                   *)

\* A document moves no stock while it is a draft or missing.
LEMMA UnpostedMovesNothing ==
  ASSUME StockTypeOK, NEW d \in Documents, document[d] \in Absent \/ Draft(d), NEW m
  PROVE  DocumentMoves(m)[d] = 0
  BY StockRows DEF DocumentMoves, Draft

\* A draft that is saved or deleted moves no stock.
LEMMA DocumentWritten ==
  ASSUME StockInv, NEW d \in Documents, document[d] \in Absent \/ Draft(d),
         NEW row \in DocumentRow \cup Absent, row \in DocumentRow => ~ row.posted,
         document' = [document EXCEPT ![d] = row], UNCHANGED <<need, balance, ledger>>
  PROVE  StockInv'
<1>1. StockTypeOK /\ RightBooks(Books) /\ Explained /\ NeedsFit
  BY DEF StockInv
<1>2. StockTypeOK'
  BY <1>1 DEF StockTypeOK
<1>3. RightBooks(Books)'
  BY <1>1 DEF RightBooks, Books
<1>4. NeedsFit'
  BY <1>1 DEF NeedsFit
<1>5. ASSUME NEW m \in Materials PROVE BroughtIn(m)' = BroughtIn(m) /\ GivenOut(m)' = GivenOut(m)
  <2>1. DocumentMoves(m)[d] = 0
    BY <1>1, UnpostedMovesNothing
  <2>2. document'[d] = row
    BY <1>1 DEF StockTypeOK
  <2>3. DocumentMoves(m)'[d] = 0
    BY <2>2 DEF DocumentMoves
  <2>4. \A x \in Documents \ {d} : document'[x] = document[x]
    BY <1>1 DEF StockTypeOK
  <2>5. BroughtIn(m)' = BroughtIn(m) + DocumentMoves(m)'[d] - DocumentMoves(m)[d]
    BY <1>1, <1>2, <2>4, BroughtInChanges
  <2>6. BroughtIn(m) \in Int
    BY <1>1, StockAdds DEF StockSums, StockIsSum
  <2>7. GivenOut(m)' = GivenOut(m)
    BY SameGivenOut
  <2> QED
    BY <2>1, <2>3, <2>5, <2>6, <2>7
<1>6. Explained'
  BY <1>1, <1>5 DEF Explained
<1> QED
  BY <1>2, <1>3, <1>4, <1>6 DEF StockInv

\* A posted document moves the balances and the sum of documents alike, and an
\* outbound one takes no more than there is of each material.
LEMMA PostDocumentStep ==
  ASSUME StockInv, NEW d \in Documents, PostDocument(d) PROVE StockInv'
<1> DEFINE items == document[d].items
           after == Booked(d)[Len(items)]
<1>1. StockTypeOK /\ RightBooks(Books) /\ Explained /\ NeedsFit
  BY DEF StockInv
<1>2. /\ document[d] \in DocumentRow /\ items \in Seq(Materials \X Nat)
      /\ ~ document[d].posted /\ document[d].kind \in {"inbound", "outbound"}
  BY <1>1, StockRows DEF PostDocument, Draft
<1>3. /\ document' = [document EXCEPT ![d].posted = TRUE] /\ need' = need
      /\ balance' = after.balance /\ ledger' = after.ledger
      /\ document[d].kind = "outbound" => \A m \in Materials : Listed(items, m) <= balance[m]
  BY DEF PostDocument
<1>4. /\ RightBooks(after)
      /\ \A m \in Materials : after.balance[m] = balance[m] + Signed(d, Listed(items, m))
  BY <1>1, <1>2, BookedIsRight
<1> HIDE DEF after
<1>5. RightBooks(Books)' /\ balance' \in [Materials -> Int] /\ ledger' \in Seq(Entry)
  BY <1>3, <1>4 DEF RightBooks, Books
<1>6. /\ document' \in [Documents -> DocumentRow \cup Absent]
      /\ \A x \in Documents \ {d} : document'[x] = document[x]
      /\ document'[d] \in DocumentRow /\ document'[d].posted
      /\ document'[d].items = document[d].items /\ document'[d].kind = document[d].kind
  BY <1>1, <1>2, <1>3 DEF StockTypeOK, DocumentRow
<1>7. StockTypeOK'
  BY <1>1, <1>3, <1>5, <1>6 DEF StockTypeOK
<1>8. NeedsFit'
  BY <1>1, <1>3 DEF NeedsFit
<1>9. ASSUME NEW m \in Materials
      PROVE  balance'[m] >= 0 /\ balance'[m] = BroughtIn(m)' - GivenOut(m)'
  <2>1. DocumentMoves(m)[d] = 0
    BY <1>1, UnpostedMovesNothing DEF PostDocument
  <2>2. DocumentMoves(m)'[d] = Signed(d, Listed(items, m))
    BY <1>6 DEF DocumentMoves, Signed
  <2>3. BroughtIn(m)' = BroughtIn(m) + DocumentMoves(m)'[d] - DocumentMoves(m)[d]
    BY <1>1, <1>6, <1>7, BroughtInChanges
  <2>4. BroughtIn(m) \in Int /\ GivenOut(m) \in Int
    BY <1>1, StockAdds DEF StockSums, StockIsSum
  <2>5. GivenOut(m)' = GivenOut(m)
    BY <1>3, SameGivenOut
  <2>6. Listed(items, m) \in Nat
    BY <1>2, ListedAll
  <2>7. balance[m] \in Int /\ balance[m] >= 0 /\ balance[m] = BroughtIn(m) - GivenOut(m)
    BY <1>1 DEF StockTypeOK, Explained
  <2>8. balance'[m] = balance[m] + Signed(d, Listed(items, m))
    BY <1>3, <1>4
  <2>9. document[d].kind = "outbound" => Listed(items, m) <= balance[m]
    BY <1>3
  <2> HIDE DEF items
  <2>10. /\ Signed(d, Listed(items, m)) \in Int
         /\ balance[m] + Signed(d, Listed(items, m)) >= 0
    BY <1>2, <2>6, <2>7, <2>9 DEF Signed
  <2> QED
    BY <2>1, <2>2, <2>3, <2>4, <2>5, <2>7, <2>8, <2>10
<1>10. Explained'
  BY <1>9 DEF Explained
<1> QED
  BY <1>5, <1>7, <1>8, <1>10 DEF StockInv

-----------------------------------------------------------------------------
(* The steps: material of work orders.                                     *)

\* Requirements, requests and receipts move no stock.
LEMMA NeedWritten ==
  ASSUME StockInv, StockTypeOK', NeedsFit', UNCHANGED <<document, balance, ledger>>,
         \A m \in Materials : \A n \in Needs : NeedHolds(m)'[n] = NeedHolds(m)[n]
  PROVE  StockInv'
<1>1. StockTypeOK /\ RightBooks(Books) /\ Explained
  BY DEF StockInv
<1>2. RightBooks(Books)'
  BY <1>1 DEF RightBooks, Books
<1>3. StockSums /\ StockSums'
  BY <1>1, StockAdds, PTL
<1>4. ASSUME NEW m \in Materials PROVE BroughtIn(m)' = BroughtIn(m) /\ GivenOut(m)' = GivenOut(m)
  <2>1. /\ GivenOut(m) = SumFunctionOnSet(NeedHolds(m), Needs)
        /\ GivenOut(m)' = SumFunctionOnSet(NeedHolds(m)', Needs)
    BY <1>3 DEF StockSums, StockIsSum
  <2>2. NeedHolds(m)' = NeedHolds(m)
    BY DEF NeedHolds
  <2>3. BroughtIn(m)' = BroughtIn(m)
    BY SameBroughtIn
  <2> QED
    BY <2>1, <2>2, <2>3
<1>5. Explained'
  BY <1>1, <1>4 DEF Explained
<1> QED
  BY <1>2, <1>5 DEF StockInv

\* New lines have nothing.
LEMMA GenerateNeedsStep ==
  ASSUME StockInv, GenerateNeeds(Needs) PROVE StockInv'
<1>1. StockTypeOK /\ NeedsFit
  BY DEF StockInv
<1>2. ASSUME NEW n \in Needs
      PROVE  \/ need'[n] = need[n]
             \/ need[n] = NoRow /\ need'[n] = [requested |-> 0, issued |-> 0, received |-> 0, returned |-> 0]
  BY DEF GenerateNeeds
<1>3. [requested |-> 0, issued |-> 0, received |-> 0, returned |-> 0] \in NeedRow
  BY DEF NeedRow
<1>4. StockTypeOK'
  <2>1. \A n \in Needs : need'[n] \in NeedRow \cup {NoRow}
    BY <1>1, <1>2, <1>3 DEF StockTypeOK
  <2> QED
    BY <1>1, <2>1 DEF StockTypeOK, GenerateNeeds
<1>5. NeedsFit'
  <2> SUFFICES ASSUME NEW n \in Needs, need'[n] # NoRow
               PROVE  /\ need'[n].returned <= need'[n].received
                      /\ need'[n].received <= need'[n].issued
                      /\ need'[n].issued <= RequiredFor[n]
                      /\ need'[n].requested <= RequiredFor[n]
    BY DEF NeedsFit
  <2>1. CASE need'[n] = need[n]
    BY <1>1, <2>1 DEF NeedsFit
  <2>2. CASE need'[n] = [requested |-> 0, issued |-> 0, received |-> 0, returned |-> 0]
    BY <2>2, StockAssumption
  <2> QED
    BY <1>2, <2>1, <2>2
<1>6. ASSUME NEW m \in Materials, NEW n \in Needs PROVE NeedHolds(m)'[n] = NeedHolds(m)[n]
  <2>1. CASE need'[n] = need[n]
    BY <2>1 DEF NeedHolds
  <2>2. CASE need[n] = NoRow /\ need'[n] = [requested |-> 0, issued |-> 0, received |-> 0, returned |-> 0]
    BY <2>2, StockRowAssumption DEF NeedHolds
  <2> QED
    BY <1>2, <2>1, <2>2
<1>7. UNCHANGED <<document, balance, ledger>>
  BY DEF GenerateNeeds
<1> QED
  BY <1>4, <1>5, <1>6, <1>7, NeedWritten

\* The line written fits and no other is touched.
LEMMA NeedRowWritten ==
  ASSUME StockTypeOK, NeedsFit, NEW n \in Needs, NEW row \in NeedRow,
         need' = [need EXCEPT ![n] = row],
         row.returned <= row.received, row.received <= row.issued,
         row.issued <= RequiredFor[n], row.requested <= RequiredFor[n]
  PROVE  /\ need' \in [Needs -> NeedRow \cup {NoRow}]
         /\ NeedsFit'
         /\ need'[n] = row /\ \A x \in Needs \ {n} : need'[x] = need[x]
<1>1. /\ need' \in [Needs -> NeedRow \cup {NoRow}]
      /\ need'[n] = row /\ \A x \in Needs \ {n} : need'[x] = need[x]
  BY DEF StockTypeOK
<1>2. NeedsFit'
  <2> SUFFICES ASSUME NEW x \in Needs, need'[x] # NoRow
               PROVE  /\ need'[x].returned <= need'[x].received
                      /\ need'[x].received <= need'[x].issued
                      /\ need'[x].issued <= RequiredFor[x]
                      /\ need'[x].requested <= RequiredFor[x]
    BY DEF NeedsFit
  <2>1. CASE x = n
    BY <1>1, <2>1
  <2>2. CASE x # n
    BY <1>1, <2>2 DEF NeedsFit
  <2> QED
    BY <2>1, <2>2
<1> QED
  BY <1>1, <1>2

\* The line of a work order that has a row.
LEMMA NeedOfLine ==
  ASSUME StockInv, NEW n \in Needs, need[n] # NoRow
  PROVE  /\ need[n] \in NeedRow
         /\ need[n].requested \in Nat /\ need[n].issued \in Nat
         /\ need[n].received \in Nat /\ need[n].returned \in Nat
         /\ need[n].returned <= need[n].received /\ need[n].received <= need[n].issued
         /\ need[n].issued <= RequiredFor[n] /\ need[n].requested <= RequiredFor[n]
         /\ RequiredFor[n] \in Nat /\ MaterialOf[n] \in Materials
  BY StockRows, StockAssumption DEF StockInv, NeedsFit

LEMMA RequestMaterialStep ==
  ASSUME StockInv, NEW n \in Needs, NEW q \in Amounts, RequestMaterial(n, q) PROVE StockInv'
<1> DEFINE row == [need[n] EXCEPT !.requested = @ + q]
<1>1. StockTypeOK /\ NeedsFit /\ q \in Nat
  BY StockAssumption DEF StockInv
<1>2. /\ need[n] # NoRow /\ q <= RequiredFor[n] - need[n].requested
      /\ need' = [need EXCEPT ![n] = row] /\ UNCHANGED <<document, balance, ledger>>
  BY DEF RequestMaterial
<1>3. /\ need[n] \in NeedRow
      /\ need[n].requested \in Nat /\ need[n].issued \in Nat
      /\ need[n].received \in Nat /\ need[n].returned \in Nat
      /\ need[n].returned <= need[n].received /\ need[n].received <= need[n].issued
      /\ need[n].issued <= RequiredFor[n] /\ need[n].requested <= RequiredFor[n]
      /\ RequiredFor[n] \in Nat
  BY <1>2, NeedOfLine
<1>4. /\ row \in NeedRow /\ row.requested = need[n].requested + q
      /\ row.issued = need[n].issued /\ row.received = need[n].received
      /\ row.returned = need[n].returned
  BY <1>1, <1>3 DEF NeedRow
<1> HIDE DEF row
<1>5. row.requested <= RequiredFor[n]
  BY <1>1, <1>2, <1>3, <1>4
<1>6. /\ need' \in [Needs -> NeedRow \cup {NoRow}]
      /\ NeedsFit'
      /\ need'[n] = row /\ \A x \in Needs \ {n} : need'[x] = need[x]
  BY <1>1, <1>2, <1>3, <1>4, <1>5, NeedRowWritten
<1>7. StockTypeOK'
  BY <1>1, <1>2, <1>6 DEF StockTypeOK
<1>8. ASSUME NEW m \in Materials, NEW x \in Needs PROVE NeedHolds(m)'[x] = NeedHolds(m)[x]
  <2>1. CASE x = n
    BY <1>3, <1>4, <1>6, <2>1 DEF NeedHolds
  <2>2. CASE x # n
    BY <1>6, <2>2 DEF NeedHolds
  <2> QED
    BY <2>1, <2>2
<1> QED
  BY <1>2, <1>6, <1>7, <1>8, NeedWritten

LEMMA ReceiveMaterialStep ==
  ASSUME StockInv, NEW n \in Needs, NEW q \in Amounts, ReceiveMaterial(n, q) PROVE StockInv'
<1> DEFINE row == [need[n] EXCEPT !.received = @ + q]
<1>1. StockTypeOK /\ NeedsFit /\ q \in Nat
  BY StockAssumption DEF StockInv
<1>2. /\ need[n] # NoRow /\ q <= need[n].issued - need[n].received
      /\ need' = [need EXCEPT ![n] = row] /\ UNCHANGED <<document, balance, ledger>>
  BY DEF ReceiveMaterial
<1>3. /\ need[n] \in NeedRow
      /\ need[n].requested \in Nat /\ need[n].issued \in Nat
      /\ need[n].received \in Nat /\ need[n].returned \in Nat
      /\ need[n].returned <= need[n].received /\ need[n].received <= need[n].issued
      /\ need[n].issued <= RequiredFor[n] /\ need[n].requested <= RequiredFor[n]
      /\ RequiredFor[n] \in Nat
  BY <1>2, NeedOfLine
<1>4. /\ row \in NeedRow /\ row.received = need[n].received + q
      /\ row.issued = need[n].issued /\ row.requested = need[n].requested
      /\ row.returned = need[n].returned
  BY <1>1, <1>3 DEF NeedRow
<1> HIDE DEF row
<1>5. row.returned <= row.received /\ row.received <= row.issued
  BY <1>1, <1>2, <1>3, <1>4
<1>6. /\ need' \in [Needs -> NeedRow \cup {NoRow}]
      /\ NeedsFit'
      /\ need'[n] = row /\ \A x \in Needs \ {n} : need'[x] = need[x]
  BY <1>1, <1>2, <1>3, <1>4, <1>5, NeedRowWritten
<1>7. StockTypeOK'
  BY <1>1, <1>2, <1>6 DEF StockTypeOK
<1>8. ASSUME NEW m \in Materials, NEW x \in Needs PROVE NeedHolds(m)'[x] = NeedHolds(m)[x]
  <2>1. CASE x = n
    BY <1>3, <1>4, <1>6, <2>1 DEF NeedHolds
  <2>2. CASE x # n
    BY <1>6, <2>2 DEF NeedHolds
  <2> QED
    BY <2>1, <2>2
<1> QED
  BY <1>2, <1>6, <1>7, <1>8, NeedWritten

\* What a line has of the stock goes up as the balance goes down.
LEMMA StockMoved ==
  ASSUME StockInv, NEW n \in Needs, NEW row \in NeedRow, NEW q \in Int,
         need[n] # NoRow, need' = [need EXCEPT ![n] = row],
         row.returned <= row.received, row.received <= row.issued,
         row.issued <= RequiredFor[n], row.requested <= RequiredFor[n],
         row.issued - row.returned = need[n].issued - need[n].returned - q,
         balance[MaterialOf[n]] + q >= 0,
         MoveStock(MaterialOf[n], q), UNCHANGED document
  PROVE  StockInv'
<1> DEFINE after == Book(Books, MaterialOf[n], q)
<1>1. StockTypeOK /\ RightBooks(Books) /\ Explained /\ NeedsFit
  BY DEF StockInv
<1>2. /\ need[n] \in NeedRow /\ need[n].issued \in Nat /\ need[n].returned \in Nat
      /\ MaterialOf[n] \in Materials
  BY NeedOfLine
<1>3. /\ need' \in [Needs -> NeedRow \cup {NoRow}]
      /\ NeedsFit'
      /\ need'[n] = row /\ \A x \in Needs \ {n} : need'[x] = need[x]
  BY <1>1, NeedRowWritten
<1>4. balance' = after.balance /\ ledger' = after.ledger
  BY DEF MoveStock
<1>5. /\ RightBooks(after)
      /\ \A m \in Materials : after.balance[m] = Books.balance[m] + IF m = MaterialOf[n] THEN q ELSE 0
  BY <1>1, <1>2, BookIsRight
<1> HIDE DEF after
<1>6. RightBooks(Books)' /\ balance' \in [Materials -> Int] /\ ledger' \in Seq(Entry)
  BY <1>4, <1>5 DEF RightBooks, Books
<1>7. StockTypeOK'
  BY <1>1, <1>3, <1>6 DEF StockTypeOK
<1>8. ASSUME NEW m \in Materials
      PROVE  balance'[m] >= 0 /\ balance'[m] = BroughtIn(m)' - GivenOut(m)'
  <2>1. \A x \in Needs \ {n} : NeedHolds(m)'[x] = NeedHolds(m)[x]
    BY <1>3 DEF NeedHolds
  <2>2. GivenOut(m)' = GivenOut(m) + NeedHolds(m)'[n] - NeedHolds(m)[n]
    BY <1>1, <1>7, <2>1, GivenOutChanges
  <2>3. BroughtIn(m)' = BroughtIn(m)
    BY SameBroughtIn
  <2>4. BroughtIn(m) \in Int /\ GivenOut(m) \in Int
    BY <1>1, StockAdds DEF StockSums, StockIsSum
  <2>5. balance[m] \in Int /\ balance[m] >= 0 /\ balance[m] = BroughtIn(m) - GivenOut(m)
    BY <1>1 DEF StockTypeOK, Explained
  <2>6. balance'[m] = balance[m] + IF m = MaterialOf[n] THEN q ELSE 0
    BY <1>4, <1>5 DEF Books
  <2>7. CASE m = MaterialOf[n]
    <3>1. /\ NeedHolds(m)'[n] = row.issued - row.returned
          /\ NeedHolds(m)[n] = need[n].issued - need[n].returned
      BY <1>2, <1>3, <2>7 DEF NeedHolds
    <3>2. NeedHolds(m)'[n] = NeedHolds(m)[n] - q /\ NeedHolds(m)[n] \in Int
      BY <1>2, <3>1
    <3> QED
      BY <2>2, <2>3, <2>4, <2>5, <2>6, <2>7, <3>2
  <2>8. CASE m # MaterialOf[n]
    <3>1. NeedHolds(m)'[n] = 0 /\ NeedHolds(m)[n] = 0
      BY <2>8 DEF NeedHolds
    <3> QED
      BY <2>2, <2>3, <2>4, <2>5, <2>6, <2>8, <3>1
  <2> QED
    BY <2>7, <2>8
<1>9. Explained'
  BY <1>8 DEF Explained
<1> QED
  BY <1>3, <1>6, <1>7, <1>9 DEF StockInv

LEMMA IssueMaterialStep ==
  ASSUME StockInv, NEW n \in Needs, NEW q \in Amounts, IssueMaterial(n, q) PROVE StockInv'
<1> DEFINE row == [need[n] EXCEPT !.issued = @ + q]
<1>1. q \in Nat /\ - q \in Int
  BY StockAssumption
<1>2. /\ need[n] # NoRow /\ q <= Issuable(n) - need[n].issued
      /\ q <= balance[MaterialOf[n]] /\ MoveStock(MaterialOf[n], - q)
      /\ need' = [need EXCEPT ![n] = row] /\ UNCHANGED document
  BY DEF IssueMaterial
<1>3. /\ need[n] \in NeedRow
      /\ need[n].requested \in Nat /\ need[n].issued \in Nat
      /\ need[n].received \in Nat /\ need[n].returned \in Nat
      /\ need[n].returned <= need[n].received /\ need[n].received <= need[n].issued
      /\ need[n].issued <= RequiredFor[n] /\ need[n].requested <= RequiredFor[n]
      /\ RequiredFor[n] \in Nat /\ MaterialOf[n] \in Materials
  BY <1>2, NeedOfLine
<1>4. /\ row \in NeedRow /\ row.issued = need[n].issued + q
      /\ row.received = need[n].received /\ row.requested = need[n].requested
      /\ row.returned = need[n].returned
  BY <1>1, <1>3 DEF NeedRow
<1> HIDE DEF row
<1>5. Issuable(n) \in Nat /\ Issuable(n) <= RequiredFor[n]
  BY <1>3 DEF Issuable
<1>6. /\ row.returned <= row.received /\ row.received <= row.issued
      /\ row.issued <= RequiredFor[n] /\ row.requested <= RequiredFor[n]
      /\ row.issued - row.returned = need[n].issued - need[n].returned - (- q)
  BY <1>1, <1>2, <1>3, <1>4, <1>5
<1>7. balance[MaterialOf[n]] + (- q) >= 0
  <2>1. balance[MaterialOf[n]] \in Int
    BY <1>3 DEF StockInv, StockTypeOK
  <2> QED
    BY <1>1, <1>2, <2>1
<1>8. \A k \in Int : /\ k = - q
                     /\ row.issued - row.returned = need[n].issued - need[n].returned - k
                     /\ balance[MaterialOf[n]] + k >= 0
                     /\ MoveStock(MaterialOf[n], k)
                     => StockInv'
  BY <1>2, <1>3, <1>4, <1>6, StockMoved
<1> QED
  BY <1>1, <1>2, <1>6, <1>7, <1>8

LEMMA ReturnMaterialStep ==
  ASSUME StockInv, NEW n \in Needs, NEW q \in Amounts, ReturnMaterial(n, q) PROVE StockInv'
<1> DEFINE row == [need[n] EXCEPT !.returned = @ + q]
<1>1. q \in Nat
  BY StockAssumption
<1>2. /\ need[n] # NoRow /\ q <= need[n].received - need[n].returned
      /\ MoveStock(MaterialOf[n], q)
      /\ need' = [need EXCEPT ![n] = row] /\ UNCHANGED document
  BY DEF ReturnMaterial
<1>3. /\ need[n] \in NeedRow
      /\ need[n].requested \in Nat /\ need[n].issued \in Nat
      /\ need[n].received \in Nat /\ need[n].returned \in Nat
      /\ need[n].returned <= need[n].received /\ need[n].received <= need[n].issued
      /\ need[n].issued <= RequiredFor[n] /\ need[n].requested <= RequiredFor[n]
      /\ RequiredFor[n] \in Nat /\ MaterialOf[n] \in Materials
  BY <1>2, NeedOfLine
<1>4. /\ row \in NeedRow /\ row.returned = need[n].returned + q
      /\ row.received = need[n].received /\ row.requested = need[n].requested
      /\ row.issued = need[n].issued
  BY <1>1, <1>3 DEF NeedRow
<1> HIDE DEF row
<1>6. /\ row.returned <= row.received /\ row.received <= row.issued
      /\ row.issued <= RequiredFor[n] /\ row.requested <= RequiredFor[n]
      /\ row.issued - row.returned = need[n].issued - need[n].returned - q
  BY <1>1, <1>2, <1>3, <1>4
<1>7. balance[MaterialOf[n]] + q >= 0
  <2>1. balance[MaterialOf[n]] \in Int /\ balance[MaterialOf[n]] >= 0
    BY <1>3 DEF StockInv, StockTypeOK, Explained
  <2> QED
    BY <1>1, <2>1
<1>8. \A k \in Int : /\ k = q
                     /\ row.issued - row.returned = need[n].issued - need[n].returned - k
                     /\ balance[MaterialOf[n]] + k >= 0
                     /\ MoveStock(MaterialOf[n], k)
                     => StockInv'
  BY <1>2, <1>3, <1>4, <1>6, StockMoved
<1> QED
  BY <1>1, <1>2, <1>6, <1>7, <1>8

\* Every step keeps the invariant.
LEMMA StockStep == StockInv /\ [StockNext]_stockVars => StockInv'
<1> SUFFICES ASSUME StockInv, [StockNext]_stockVars PROVE StockInv'
  OBVIOUS
<1>1. ASSUME NEW d \in Documents, NEW kind \in {"inbound", "outbound"}, NEW items \in ItemLists,
             SaveDocument(d, kind, items)
      PROVE  StockInv'
  <2> DEFINE row == [kind |-> kind, items |-> items, posted |-> FALSE]
  <2>1. row \in DocumentRow \cup Absent /\ ~ row.posted
    BY DEF DocumentRow
  <2>2. document[d] \in Absent \/ Draft(d)
    BY <1>1 DEF SaveDocument, Absent
  <2>3. document' = [document EXCEPT ![d] = row] /\ UNCHANGED <<need, balance, ledger>>
    BY <1>1 DEF SaveDocument
  <2> HIDE DEF row
  <2> QED
    BY <2>1, <2>2, <2>3, DocumentWritten
<1>2. ASSUME NEW d \in Documents, DeleteDocument(d) PROVE StockInv'
  <2>1. Deleted \in DocumentRow \cup Absent /\ Deleted \notin DocumentRow
    BY StockRowAssumption DEF Absent
  <2>2. Draft(d) /\ document' = [document EXCEPT ![d] = Deleted] /\ UNCHANGED <<need, balance, ledger>>
    BY <1>2 DEF DeleteDocument
  <2> QED
    BY <2>1, <2>2, DocumentWritten
<1>3. CASE UNCHANGED stockVars
  <2>1. StockTypeOK' /\ NeedsFit'
    BY <1>3 DEF StockInv, stockVars, StockTypeOK, NeedsFit
  <2>2. \A m \in Materials : \A n \in Needs : NeedHolds(m)'[n] = NeedHolds(m)[n]
    BY <1>3 DEF stockVars, NeedHolds
  <2>3. UNCHANGED <<document, balance, ledger>>
    BY <1>3 DEF stockVars
  <2> QED
    BY <2>1, <2>2, <2>3, NeedWritten
<1> QED
  BY <1>1, <1>2, <1>3, PostDocumentStep, GenerateNeedsStep, RequestMaterialStep, IssueMaterialStep,
     ReceiveMaterialStep, ReturnMaterialStep DEF StockNext

\* The inductive invariant of the stock: the tables hold their rows, the books
\* are right entry by entry, the balances are what documents and work orders
\* make of them, and no line has more than it needs.
THEOREM StockInvariant == StockSpec => []StockInv
  BY StockStarts, StockStep, PTL DEF StockSpec

\* The tables of inbound and outbound documents, of material and of the ledger
\* hold rows of their types.
THEOREM StockTypes == StockSpec => []StockTypeOK
<1>1. StockInv => StockTypeOK
  BY DEF StockInv
<1> QED
  BY <1>1, StockInvariant, PTL

\* However documents are posted and material is issued and returned
\* (_post_document, the material operations of services/production_flow.py),
\* the balance of a product is never negative, is what the documents and the
\* work orders make of it, and is what the ledger's entries add up to.
THEOREM StockIsExplained == StockSpec => []LedgerExplainsStock
  BY StockInvariant, StockExplained, PTL

-----------------------------------------------------------------------------
(***************************************************************************)
(* PURCHASING                                                              *)
(***************************************************************************)

HasItems == \A o \in Orders : purchase[o] # NoRow => ItemsOf(o) # {}

OrdersSomething == \A i \in ItemIds : item[i] \in ItemRow => item[i].ordered > 0

GoodsComeOnLines ==
    \A i \in ItemIds : item[i] \in ItemRow /\ (item[i].arrived > 0 \/ item[i].posted > 0) =>
        LinesOf(i) # {}

LogIsCurrent == \A o \in Orders : logged[o][2] = purchase[o]

FullyMeansComplete ==
    \A o \in Orders : purchase[o] \in Receivable =>
        (purchase[o] = 4 <=> \A i \in ItemsOf(o) : item[i].posted >= item[i].ordered)

PartialMeansSome ==
    \A o \in Orders : purchase[o] = 3 => \E i \in ItemsOf(o) : item[i].posted > 0

Goods == /\ ArrivalsKeepTheirOrder /\ HasItems /\ OrdersSomething /\ GoodsComeOnLines
         /\ FullyMeansComplete /\ PartialMeansSome

PurchaseInv == PurchasingTypeOK /\ Goods /\ LogIsCurrent /\ OnePostingPerOperation

-----------------------------------------------------------------------------
(* Rows and what requests hold.                                            *)

LEMMA StatusNumbers ==
  /\ Statuses = 0 .. 7
  /\ Receivable = {2, 3, 4}
  /\ PURCHASE.draft = 0 /\ PURCHASE.submitted = 1 /\ PURCHASE.approved = 2
  /\ PURCHASE.partial_arrival = 3 /\ PURCHASE.fully_arrived = 4 /\ PURCHASE.closed = 5
  /\ PURCHASE.rejected = 6 /\ PURCHASE.cancelled = 7
<1>1. DOMAIN PURCHASE = {"draft", "submitted", "approved", "partial_arrival",
                         "fully_arrived", "closed", "rejected", "cancelled"}
  BY DEF PURCHASE
<1>2. /\ PURCHASE["draft"] = 0 /\ PURCHASE["submitted"] = 1 /\ PURCHASE["approved"] = 2
      /\ PURCHASE["partial_arrival"] = 3 /\ PURCHASE["fully_arrived"] = 4
      /\ PURCHASE["closed"] = 5 /\ PURCHASE["rejected"] = 6 /\ PURCHASE["cancelled"] = 7
  BY DEF PURCHASE
<1>3. Statuses = 0 .. 7
  BY <1>1, <1>2 DEF Statuses
<1> QED
  BY <1>2, <1>3 DEF Receivable

\* The items of an order are its rows.
LEMMA ItemsAreRows ==
  ASSUME PurchasingTypeOK, NEW o \in Orders
  PROVE  ItemsOf(o) = {i \in ItemIds : item[i] \in ItemRow /\ item[i].order = o}
  BY PurchasingRowAssumption DEF PurchasingTypeOK, ItemsOf

LEMMA RequestShape ==
  ASSUME NEW new \in Requests
  PROVE  /\ DOMAIN new \subseteq {i \in ItemIds : item[i] = NoRow}
         /\ DOMAIN new # {}
         /\ \A i \in DOMAIN new : new[i].product \in Products /\ new[i].ordered \in Deliveries
<1>1. PICK ids \in (SUBSET {i \in ItemIds : item[i] = NoRow}) \ {{}} :
         new \in [ids -> [product : Products, ordered : Deliveries]]
  BY DEF Requests
<1> QED
  BY <1>1

LEMMA NoticeShape ==
  ASSUME NEW o, NEW got \in Notices(o)
  PROVE  /\ DOMAIN got \subseteq {l \in LineIds : line[l] = NoRow}
         /\ \A l \in DOMAIN got : got[l].item \in ItemsOf(o) /\ got[l].quantity \in Deliveries
         /\ \A l, m \in DOMAIN got : got[l].item = got[m].item => l = m
<1>1. PICK ids \in (SUBSET {l \in LineIds : line[l] = NoRow}) \ {{}} :
         got \in [ids -> [item : ItemsOf(o), quantity : Deliveries]]
  BY DEF Notices
<1>2. \A l, m \in DOMAIN got : got[l].item = got[m].item => l = m
  BY DEF Notices
<1> QED
  BY <1>1, <1>2

-----------------------------------------------------------------------------
(* The initial state, and what the goods say of the status.                *)

LEMMA PurchaseStarts == PurchasingInit => PurchaseInv
<1> SUFFICES ASSUME PurchasingInit PROVE PurchaseInv
  OBVIOUS
<1>1. PurchasingTypeOK
  <2>1. stock \in [Products \X Places -> Nat]
    BY DEF PurchasingInit
  <2>2. logged \in [Orders -> (Statuses \cup {NoRow}) \X (Statuses \cup {NoRow})]
    BY DEF PurchasingInit
  <2>3. postings \in Seq(PostingRow)
    BY DEF PurchasingInit
  <2> QED
    BY <2>1, <2>2, <2>3 DEF PurchasingInit, PurchasingTypeOK
<1>2. Goods
  <2>1. /\ \A o \in Orders : purchase[o] = NoRow
        /\ \A i \in ItemIds : item[i] \notin ItemRow
        /\ \A l \in LineIds : line[l] = NoRow
    BY PurchasingRowAssumption DEF PurchasingInit
  <2>2. ArrivalsKeepTheirOrder /\ HasItems /\ OrdersSomething /\ GoodsComeOnLines
    BY <2>1 DEF ArrivalsKeepTheirOrder, HasItems, OrdersSomething, GoodsComeOnLines
  <2>3. NoRow \notin Receivable /\ NoRow # 3
    BY PurchasingRowAssumption, StatusNumbers
  <2> QED
    BY <2>1, <2>2, <2>3 DEF Goods, FullyMeansComplete, PartialMeansSome
<1>3. LogIsCurrent
  BY DEF PurchasingInit, LogIsCurrent
<1>4. OnePostingPerOperation
  BY DEF PurchasingInit, OnePostingPerOperation
<1> QED
  BY <1>1, <1>2, <1>3, <1>4 DEF PurchaseInv

\* Only what can be received, or could, has received anything.
LEMMA UnreceivedHasNothing ==
  ASSUME PurchaseInv, NEW o \in Orders, purchase[o] \notin Receivable \cup {5}, NEW i \in ItemsOf(o)
  PROVE  item[i] \in ItemRow /\ item[i].arrived = 0 /\ item[i].posted = 0 /\ LinesOf(i) = {}
<1>1. i \in ItemIds /\ item[i] \in ItemRow /\ item[i].order = o
  BY ItemsAreRows DEF PurchaseInv
<1>2. LinesOf(i) = {}
  <2>1. ASSUME NEW l \in LinesOf(i) PROVE FALSE
    <3>1. l \in LineIds /\ line[l] # NoRow /\ line[l].item = i
      BY DEF LinesOf
    <3>2. line[l].order = o /\ purchase[line[l].order] \in Receivable \cup {5}
      BY <1>1, <3>1, StatusNumbers DEF PurchaseInv, Goods, ArrivalsKeepTheirOrder
    <3> QED
      BY <3>2
  <2> QED
    BY <2>1
<1>3. item[i].arrived \in Nat /\ item[i].posted \in Nat
  BY <1>1 DEF ItemRow
<1> QED
  BY <1>1, <1>2, <1>3 DEF PurchaseInv, Goods, GoodsComeOnLines

LEMMA InvTells == PurchaseInv => StatusTellsReceipts
<1> SUFFICES ASSUME PurchaseInv PROVE StatusTellsReceipts
  OBVIOUS
<1>1. ASSUME NEW o \in Orders, purchase[o] \in Statuses \ (Receivable \cup {PURCHASE.closed}),
             NEW i \in ItemsOf(o)
      PROVE  item[i].arrived = 0
  BY <1>1, StatusNumbers, UnreceivedHasNothing
<1> QED
  BY <1>1, StatusNumbers DEF StatusTellsReceipts, PurchaseInv, Goods, FullyMeansComplete, PartialMeansSome

-----------------------------------------------------------------------------
(* The life of an order.                                                   *)

\* A change of status alone.
LEMMA MoveKeepsInv ==
  ASSUME PurchaseInv, NEW o \in Orders, NEW from, NEW to \in 0 .. 7, Move(o, from, to),
         UNCHANGED <<item, line, postings, stock>>,
         purchase[o] # NoRow,
         to \in {0, 1, 6, 7} => \A l \in LineIds : line[l] # NoRow => line[l].order # o,
         to \in {0, 1, 2, 5, 6, 7},
         to = 2 => purchase[o] = 1
  PROVE  PurchaseInv'
<1> USE DEF PurchaseInv
<1>1. /\ purchase' = [purchase EXCEPT ![o] = to]
      /\ logged' = [logged EXCEPT ![o] = <<from, to>>]
      /\ purchase[o] = from
  BY DEF Move
<1>2. PurchasingTypeOK'
  BY <1>1, StatusNumbers DEF PurchasingTypeOK
<1>3. purchase'[o] = to /\ \A p \in Orders \ {o} : purchase'[p] = purchase[p]
  BY <1>1 DEF PurchasingTypeOK
<1>4. \A p \in Orders : ItemsOf(p)' = ItemsOf(p)
  BY DEF ItemsOf
<1>5. ArrivalsKeepTheirOrder'
  <2> SUFFICES ASSUME NEW l \in LineIds, line[l] # NoRow
               PROVE  /\ item[line[l].item] \in ItemRow
                      /\ item[line[l].item].order = line[l].order
                      /\ purchase'[line[l].order] \in Receivable \cup {PURCHASE.closed}
    BY DEF ArrivalsKeepTheirOrder
  <2>1. /\ item[line[l].item] \in ItemRow
        /\ item[line[l].item].order = line[l].order
        /\ purchase[line[l].order] \in Receivable \cup {PURCHASE.closed}
    BY DEF Goods, ArrivalsKeepTheirOrder
  <2>2. line[l].order \in Orders
    BY DEF PurchasingTypeOK, LineRow
  <2>3. CASE line[l].order = o
    BY <1>3, <2>1, <2>3, StatusNumbers
  <2>4. CASE line[l].order # o
    BY <1>3, <2>1, <2>2, <2>4
  <2> QED
    BY <2>1, <2>3, <2>4
<1>6. HasItems' /\ OrdersSomething' /\ GoodsComeOnLines'
  BY <1>3, <1>4 DEF Goods, HasItems, OrdersSomething, GoodsComeOnLines, LinesOf
<1>7. FullyMeansComplete'
  <2> SUFFICES ASSUME NEW p \in Orders, purchase'[p] \in Receivable
               PROVE  purchase'[p] = 4 <=> \A i \in ItemsOf(p) : item[i].posted >= item[i].ordered
    BY <1>4 DEF FullyMeansComplete
  <2>1. CASE p # o
    BY <1>3, <2>1 DEF Goods, FullyMeansComplete
  <2>2. CASE p = o
    <3>1. to = 2 /\ purchase[o] = 1
      BY <1>3, <2>2, StatusNumbers
    <3>2. PICK i \in ItemsOf(o) : TRUE
      BY DEF Goods, HasItems
    <3>3. item[i] \in ItemRow /\ item[i].posted = 0
      BY <3>1, StatusNumbers, UnreceivedHasNothing
    <3>4. i \in ItemIds
      BY DEF ItemsOf
    <3>5. item[i].ordered > 0
      BY <3>3, <3>4 DEF Goods, OrdersSomething
    <3>6. ~ (item[i].posted >= item[i].ordered)
      BY <3>3, <3>5 DEF ItemRow
    <3> QED
      BY <1>3, <2>2, <3>1, <3>6
  <2> QED
    BY <2>1, <2>2
<1>8. PartialMeansSome'
  BY <1>3, <1>4 DEF Goods, PartialMeansSome
<1>9. LogIsCurrent'
  BY <1>1 DEF LogIsCurrent, PurchasingTypeOK
<1>10. OnePostingPerOperation'
  BY DEF OnePostingPerOperation
<1> QED
  BY <1>2, <1>5, <1>6, <1>7, <1>8, <1>9, <1>10 DEF Goods

\* What a new row of items means, for a new order and for an edited one.
LEMMA RewriteKeepsInv ==
  ASSUME PurchaseInv, NEW o \in Orders, NEW new \in Requests, NEW old, old \in {{}, ItemsOf(o)},
         item' = Rewritten(o, old, new),
         UNCHANGED <<line, postings, stock>>,
         purchase[o] \in {0, 6, NoRow},
         purchase'[o] \in {0, 6},
         purchase' \in [Orders -> Statuses \cup {NoRow}],
         \A p \in Orders \ {o} : purchase'[p] = purchase[p],
         logged' \in [Orders -> (Statuses \cup {NoRow}) \X (Statuses \cup {NoRow})],
         LogIsCurrent'
  PROVE  PurchaseInv'
<1> USE DEF PurchaseInv
<1>1. /\ DOMAIN new \subseteq {i \in ItemIds : item[i] = NoRow}
      /\ DOMAIN new # {}
      /\ \A i \in DOMAIN new : new[i].product \in Products /\ new[i].ordered \in Nat \ {0}
  BY RequestShape, PurchasingAssumption
<1>2. ASSUME NEW i \in DOMAIN new
      PROVE  /\ i \in ItemIds /\ item[i] = NoRow
             /\ item'[i] = [order |-> o, product |-> new[i].product, ordered |-> new[i].ordered,
                            arrived |-> 0, posted |-> 0]
             /\ item'[i] \in ItemRow
             /\ item'[i].order = o /\ item'[i].arrived = 0 /\ item'[i].posted = 0
             /\ item'[i].ordered > 0
  <2>1. i \in ItemIds /\ item[i] = NoRow
    BY <1>1
  <2>2. item'[i] = [order |-> o, product |-> new[i].product, ordered |-> new[i].ordered,
                    arrived |-> 0, posted |-> 0]
    BY <2>1 DEF Rewritten
  <2> QED
    BY <1>1, <2>1, <2>2 DEF ItemRow
<1>3. ASSUME NEW i \in ItemIds, i \notin DOMAIN new
      PROVE  item'[i] = item[i] \/ (item'[i] = Deleted /\ i \in ItemsOf(o))
  <2>1. item'[i] = IF i \in old THEN Deleted ELSE item[i]
    BY <1>3 DEF Rewritten
  <2> QED
    BY <2>1
<1>4. PurchasingTypeOK'
  <2>1. \A i \in ItemIds : item'[i] \in ItemRow \cup {NoRow, Deleted}
    BY <1>2, <1>3 DEF PurchasingTypeOK
  <2>2. item' \in [ItemIds -> ItemRow \cup {NoRow, Deleted}]
    BY <2>1 DEF Rewritten
  <2> QED
    BY <2>2 DEF PurchasingTypeOK
<1>5. ASSUME NEW i \in ItemIds, i \notin DOMAIN new, item'[i] \in ItemRow PROVE item'[i] = item[i]
  BY <1>3, <1>5, PurchasingRowAssumption
<1>6. ASSUME NEW l \in LineIds, line[l] # NoRow
      PROVE  /\ line[l].order \in Orders \ {o}
             /\ item'[line[l].item] = item[line[l].item]
             /\ item[line[l].item] \in ItemRow
             /\ item[line[l].item].order = line[l].order
             /\ purchase[line[l].order] \in Receivable \cup {PURCHASE.closed}
  <2>1. /\ item[line[l].item] \in ItemRow
        /\ item[line[l].item].order = line[l].order
        /\ purchase[line[l].order] \in Receivable \cup {PURCHASE.closed}
    BY <1>6 DEF Goods, ArrivalsKeepTheirOrder
  <2>2. line[l].order \in Orders /\ line[l].item \in ItemIds
    BY <1>6 DEF PurchasingTypeOK, LineRow
  <2>3. line[l].order # o
    BY <2>1, StatusNumbers, PurchasingRowAssumption
  <2>4. line[l].item \notin ItemsOf(o) /\ line[l].item \notin DOMAIN new
    BY <1>1, <2>1, <2>3, PurchasingRowAssumption DEF ItemsOf
  <2> QED
    BY <1>3, <2>1, <2>2, <2>3, <2>4
<1>7. ArrivalsKeepTheirOrder'
  BY <1>6 DEF ArrivalsKeepTheirOrder
<1>8. ASSUME NEW p \in Orders \ {o} PROVE ItemsOf(p)' = ItemsOf(p)
  <2>1. ItemsOf(p)' = {i \in ItemIds : item'[i] \in ItemRow /\ item'[i].order = p}
    BY <1>4, PurchasingRowAssumption DEF PurchasingTypeOK, ItemsOf
  <2>2. ItemsOf(p) = {i \in ItemIds : item[i] \in ItemRow /\ item[i].order = p}
    BY ItemsAreRows
  <2>3. ASSUME NEW i \in ItemIds
        PROVE  item'[i] \in ItemRow /\ item'[i].order = p <=> item[i] \in ItemRow /\ item[i].order = p
    <3>1. CASE i \in DOMAIN new
      BY <1>2, <3>1, PurchasingRowAssumption
    <3>2. CASE i \notin DOMAIN new
      BY <1>3, <3>2, PurchasingRowAssumption DEF ItemsOf
    <3> QED
      BY <3>1, <3>2
  <2> QED
    BY <2>1, <2>2, <2>3
<1>9. \A p \in Orders \ {o} : \A i \in ItemsOf(p) : item'[i] = item[i]
  <2> SUFFICES ASSUME NEW p \in Orders \ {o}, NEW i \in ItemsOf(p) PROVE item'[i] = item[i]
    OBVIOUS
  <2>1. i \in ItemIds /\ item[i] \in ItemRow /\ item[i].order = p
    BY ItemsAreRows
  <2>2. i \notin DOMAIN new /\ i \notin ItemsOf(o)
    BY <1>1, <2>1, PurchasingRowAssumption DEF ItemsOf
  <2> QED
    BY <1>3, <2>1, <2>2
<1>10. HasItems'
  <2>1. ItemsOf(o)' # {}
    <3>1. PICK i \in DOMAIN new : TRUE
      BY <1>1
    <3>2. i \in ItemsOf(o)'
      BY <1>2, PurchasingRowAssumption DEF ItemsOf
    <3> QED
      BY <3>2
  <2>2. ASSUME NEW p \in Orders \ {o}, purchase'[p] # NoRow PROVE ItemsOf(p)' # {}
    BY <1>8, <2>2 DEF Goods, HasItems
  <2> QED
    BY <2>1, <2>2 DEF HasItems
<1>11. OrdersSomething'
  <2> SUFFICES ASSUME NEW i \in ItemIds, item'[i] \in ItemRow PROVE item'[i].ordered > 0
    BY DEF OrdersSomething
  <2> QED
    BY <1>2, <1>5 DEF Goods, OrdersSomething
<1>12. GoodsComeOnLines'
  <2> SUFFICES ASSUME NEW i \in ItemIds, item'[i] \in ItemRow,
                      item'[i].arrived > 0 \/ item'[i].posted > 0
               PROVE  LinesOf(i)' # {}
    BY DEF GoodsComeOnLines
  <2>1. ASSUME i \in DOMAIN new PROVE FALSE
    <3>1. item'[i].arrived = 0 /\ item'[i].posted = 0
      BY <1>2, <2>1
    <3> QED
      BY <3>1
  <2>2. LinesOf(i) # {}
    BY <1>5, <2>1 DEF Goods, GoodsComeOnLines
  <2> QED
    BY <2>2 DEF LinesOf
<1>13. FullyMeansComplete'
  <2> SUFFICES ASSUME NEW p \in Orders, purchase'[p] \in Receivable
               PROVE  purchase'[p] = 4 <=>
                         \A i \in ItemsOf(p)' : item'[i].posted >= item'[i].ordered
    BY DEF FullyMeansComplete
  <2>1. p # o
    BY StatusNumbers
  <2>2. purchase'[p] = purchase[p] /\ ItemsOf(p)' = ItemsOf(p)
    BY <1>8, <2>1
  <2> QED
    BY <1>9, <2>1, <2>2 DEF Goods, FullyMeansComplete
<1>14. PartialMeansSome'
  <2> SUFFICES ASSUME NEW p \in Orders, purchase'[p] = 3
               PROVE  \E i \in ItemsOf(p)' : item'[i].posted > 0
    BY DEF PartialMeansSome
  <2>1. p # o
    OBVIOUS
  <2>2. purchase[p] = 3 /\ ItemsOf(p)' = ItemsOf(p)
    BY <1>8, <2>1
  <2> QED
    BY <1>9, <2>1, <2>2 DEF Goods, PartialMeansSome
<1>15. OnePostingPerOperation'
  BY DEF OnePostingPerOperation
<1> QED
  BY <1>4, <1>7, <1>10, <1>11, <1>12, <1>13, <1>14, <1>15 DEF Goods

\* A status change is a new draft's, or of a status that is not final.
Logged == \A o \in Orders : purchase'[o] # purchase[o] =>
             /\ logged'[o] = <<purchase[o], purchase'[o]>>
             /\ logged[o][2] = purchase[o]
             /\ purchase[o] \notin {PURCHASE.closed, PURCHASE.cancelled}

LEMMA MoveIsLogged ==
  ASSUME PurchaseInv, NEW o \in Orders, NEW from, NEW to, Move(o, from, to), from \notin {5, 7}
  PROVE  Logged
<1>1. /\ purchase' = [purchase EXCEPT ![o] = to]
      /\ logged' = [logged EXCEPT ![o] = <<from, to>>]
      /\ purchase[o] = from
  BY DEF Move
<1>2. /\ purchase' = [p \in Orders |-> IF p = o THEN to ELSE purchase[p]]
      /\ logged' = [p \in Orders |-> IF p = o THEN <<from, to>> ELSE logged[p]]
  BY <1>1 DEF PurchaseInv, PurchasingTypeOK
<1> QED
  BY <1>1, <1>2, StatusNumbers DEF Logged, PurchaseInv, LogIsCurrent

LEMMA CreateOrderStep ==
  ASSUME PurchaseInv, NEW o \in Orders, NEW new \in Requests, CreateOrder(o, new)
  PROVE  PurchaseInv' /\ Logged
<1>1. Move(o, NoRow, 0)
  BY StatusNumbers DEF CreateOrder
<1>2. Logged
  BY <1>1, MoveIsLogged, PurchasingRowAssumption
<1>3. /\ purchase[o] = NoRow
      /\ purchase' = [p \in Orders |-> IF p = o THEN 0 ELSE purchase[p]]
      /\ logged' = [p \in Orders |-> IF p = o THEN <<NoRow, 0>> ELSE logged[p]]
  BY <1>1 DEF Move, PurchaseInv, PurchasingTypeOK
<1>4. /\ purchase' \in [Orders -> Statuses \cup {NoRow}]
      /\ logged' \in [Orders -> (Statuses \cup {NoRow}) \X (Statuses \cup {NoRow})]
  BY <1>3, StatusNumbers DEF PurchaseInv, PurchasingTypeOK
<1>5. LogIsCurrent'
  BY <1>3 DEF PurchaseInv, LogIsCurrent
<1>6. item' = Rewritten(o, {}, new) /\ UNCHANGED <<line, postings, stock>>
  BY DEF CreateOrder
<1>7. purchase'[o] = 0 /\ \A p \in Orders \ {o} : purchase'[p] = purchase[p]
  BY <1>3
<1>8. PurchaseInv'
  BY <1>3, <1>4, <1>5, <1>6, <1>7, RewriteKeepsInv
<1> QED
  BY <1>2, <1>8

LEMMA EditOrderStep ==
  ASSUME PurchaseInv, NEW o \in Orders, NEW new \in Requests, EditOrder(o, new)
  PROVE  PurchaseInv' /\ Logged
<1>1. /\ purchase[o] \in {0, 6}
      /\ item' = Rewritten(o, ItemsOf(o), new)
      /\ UNCHANGED <<purchase, line, postings, stock, logged>>
  BY StatusNumbers DEF EditOrder
<1>2. /\ purchase' \in [Orders -> Statuses \cup {NoRow}]
      /\ logged' \in [Orders -> (Statuses \cup {NoRow}) \X (Statuses \cup {NoRow})]
      /\ LogIsCurrent'
  BY <1>1 DEF PurchaseInv, PurchasingTypeOK, LogIsCurrent
<1>3. PurchaseInv'
  BY <1>1, <1>2, RewriteKeepsInv
<1> QED
  BY <1>1, <1>3 DEF Logged

LEMMA SubmitStep ==
  ASSUME PurchaseInv, NEW o \in Orders, Submit(o)
  PROVE  PurchaseInv' /\ Logged
<1>1. PICK from \in {0, 6} : Move(o, from, 1)
  BY StatusNumbers DEF Submit
<1>2. purchase[o] = from /\ purchase[o] # NoRow
  BY <1>1, PurchasingRowAssumption DEF Move
<1>3. ASSUME NEW l \in LineIds, line[l] # NoRow PROVE line[l].order # o
  BY <1>2, <1>3, StatusNumbers DEF PurchaseInv, Goods, ArrivalsKeepTheirOrder
<1>4. UNCHANGED <<item, line, postings, stock>>
  BY DEF Submit
<1> QED
  BY <1>1, <1>2, <1>3, <1>4, MoveKeepsInv, MoveIsLogged

LEMMA ReviewStep ==
  ASSUME PurchaseInv, NEW o \in Orders, NEW approved \in BOOLEAN, Review(o, approved)
  PROVE  PurchaseInv' /\ Logged
<1>1. PICK to \in {2, 6} : Move(o, 1, to)
  BY StatusNumbers DEF Review
<1>2. purchase[o] = 1 /\ purchase[o] # NoRow
  BY <1>1, PurchasingRowAssumption DEF Move
<1>3. ASSUME NEW l \in LineIds, line[l] # NoRow PROVE line[l].order # o
  BY <1>2, <1>3, StatusNumbers DEF PurchaseInv, Goods, ArrivalsKeepTheirOrder
<1>4. UNCHANGED <<item, line, postings, stock>>
  BY DEF Review
<1> QED
  BY <1>1, <1>2, <1>3, <1>4, MoveKeepsInv, MoveIsLogged

LEMMA CancelStep ==
  ASSUME PurchaseInv, NEW o \in Orders, Cancel(o)
  PROVE  PurchaseInv' /\ Logged
<1>1. PICK from \in {0, 1, 2, 6} : Move(o, from, 7)
  BY StatusNumbers DEF Cancel
<1>2. purchase[o] = from /\ purchase[o] # NoRow
  BY <1>1, PurchasingRowAssumption DEF Move
<1>3. \A l \in LineIds : line[l] # NoRow => line[l].order # o
  BY DEF Cancel
<1>4. UNCHANGED <<item, line, postings, stock>>
  BY DEF Cancel
<1> QED
  BY <1>1, <1>2, <1>3, <1>4, MoveKeepsInv, MoveIsLogged

LEMMA CloseStep ==
  ASSUME PurchaseInv, NEW o \in Orders, Close(o)
  PROVE  PurchaseInv' /\ Logged
<1>1. PICK from \in {2, 3, 4} : Move(o, from, 5)
  BY StatusNumbers DEF Close
<1>2. purchase[o] = from /\ purchase[o] # NoRow
  BY <1>1, PurchasingRowAssumption DEF Move
<1>4. UNCHANGED <<item, line, postings, stock>>
  BY DEF Close
<1> QED
  BY <1>1, <1>2, <1>4, MoveKeepsInv, MoveIsLogged

-----------------------------------------------------------------------------
(* Receiving: the rows of items only grow.                                 *)

OnlyGrew ==
    \A i \in ItemIds :
        IF item[i] \in ItemRow
        THEN /\ item'[i] \in ItemRow
             /\ item'[i].order = item[i].order
             /\ item'[i].ordered = item[i].ordered
             /\ item'[i].posted >= item[i].posted
        ELSE item'[i] = item[i]

LEMMA GrowingKeepsItems ==
  ASSUME PurchasingTypeOK, PurchasingTypeOK', OnlyGrew
  PROVE  \A o \in Orders : ItemsOf(o)' = ItemsOf(o)
<1> SUFFICES ASSUME NEW o \in Orders PROVE ItemsOf(o)' = ItemsOf(o)
  OBVIOUS
<1>1. ItemsOf(o)' = {i \in ItemIds : item'[i] \in ItemRow /\ item'[i].order = o}
  BY PurchasingRowAssumption DEF PurchasingTypeOK, ItemsOf
<1>2. ItemsOf(o) = {i \in ItemIds : item[i] \in ItemRow /\ item[i].order = o}
  BY ItemsAreRows
<1>3. ASSUME NEW i \in ItemIds
      PROVE  item'[i] \in ItemRow /\ item'[i].order = o <=> item[i] \in ItemRow /\ item[i].order = o
  BY DEF OnlyGrew
<1> QED
  BY <1>1, <1>2, <1>3

LEMMA RegisterArrivalStep ==
  ASSUME PurchaseInv, NEW o \in Orders, NEW got \in Notices(o), RegisterArrival(o, got)
  PROVE  PurchaseInv' /\ Logged
<1>1. /\ DOMAIN got \subseteq {l \in LineIds : line[l] = NoRow}
      /\ \A l \in DOMAIN got : got[l].item \in ItemsOf(o) /\ got[l].quantity \in Nat
  BY NoticeShape, PurchasingAssumption
<1>2. purchase[o] \in Receivable /\ UNCHANGED <<purchase, postings, stock, logged>>
  BY DEF RegisterArrival
<1>3. ASSUME NEW i \in ItemIds, ~ \E l \in DOMAIN got : got[l].item = i
      PROVE  item'[i] = item[i]
  BY <1>3 DEF RegisterArrival
<1>4. ASSUME NEW i \in ItemIds, \E l \in DOMAIN got : got[l].item = i
      PROVE  /\ item[i] \in ItemRow /\ item'[i] \in ItemRow
             /\ item'[i].order = item[i].order /\ item'[i].ordered = item[i].ordered
             /\ item'[i].posted = item[i].posted
  <2> DEFINE m == CHOOSE l \in DOMAIN got : got[l].item = i
  <2>1. m \in DOMAIN got /\ got[m].item = i
    BY <1>4
  <2>2. item'[i] = [item[i] EXCEPT !.arrived = @ + got[m].quantity]
    BY <1>4 DEF RegisterArrival
  <2>3. got[m].quantity \in Nat /\ i \in ItemsOf(o)
    BY <1>1, <2>1
  <2>4. item[i] \in ItemRow
    BY <2>3, ItemsAreRows DEF PurchaseInv
  <2> HIDE DEF m
  <2> QED
    BY <2>2, <2>3, <2>4 DEF ItemRow
<1>5. OnlyGrew
  <2> SUFFICES ASSUME NEW i \in ItemIds
               PROVE  IF item[i] \in ItemRow
                      THEN /\ item'[i] \in ItemRow
                           /\ item'[i].order = item[i].order
                           /\ item'[i].ordered = item[i].ordered
                           /\ item'[i].posted >= item[i].posted
                      ELSE item'[i] = item[i]
    BY DEF OnlyGrew
  <2>1. CASE \E l \in DOMAIN got : got[l].item = i
    <3>1. item[i].posted \in Nat
      BY <1>4, <2>1 DEF ItemRow
    <3> QED
      BY <1>4, <2>1, <3>1
  <2>2. CASE ~ \E l \in DOMAIN got : got[l].item = i
    <3>1. item[i] \in ItemRow => item[i].posted \in Nat
      BY DEF ItemRow
    <3> QED
      BY <1>3, <2>2, <3>1
  <2> QED
    BY <2>1, <2>2
<1>6. \A i \in ItemIds : item[i] \in ItemRow => item'[i].posted = item[i].posted
  BY <1>3, <1>4
<1>7. ASSUME NEW l \in DOMAIN got
      PROVE  /\ l \in LineIds /\ line[l] = NoRow /\ line'[l] \in LineRow
             /\ line'[l].item = got[l].item /\ line'[l].order = o
  <2>1. l \in LineIds /\ line[l] = NoRow
    BY <1>1
  <2>2. line'[l] = [item |-> got[l].item, order |-> o, quantity |-> got[l].quantity,
                    normal |-> Normal(got[l].item, got[l].quantity), accepted |-> 0,
                    pending |-> Normal(got[l].item, got[l].quantity)]
    BY <2>1 DEF RegisterArrival
  <2>3. got[l].item \in ItemIds /\ item[got[l].item] \in ItemRow /\ got[l].quantity \in Nat
    BY <1>1, ItemsAreRows DEF PurchaseInv
  <2>4. item[got[l].item].arrived \in Nat /\ item[got[l].item].ordered \in Nat
    BY <2>3 DEF ItemRow
  <2>5. Normal(got[l].item, got[l].quantity) \in Nat
    BY <2>3, <2>4 DEF Normal
  <2> HIDE DEF Normal
  <2> QED
    BY <2>1, <2>2, <2>3, <2>5 DEF LineRow
<1>8. ASSUME NEW l \in LineIds, l \notin DOMAIN got PROVE line'[l] = line[l]
  BY <1>8 DEF RegisterArrival
<1>9. PurchasingTypeOK'
  <2>1. \A i \in ItemIds : item'[i] \in ItemRow \cup {NoRow, Deleted}
    BY <1>3, <1>4 DEF PurchaseInv, PurchasingTypeOK
  <2>2. \A l \in LineIds : line'[l] \in LineRow \cup {NoRow}
    BY <1>7, <1>8 DEF PurchaseInv, PurchasingTypeOK
  <2>3. item' \in [ItemIds -> ItemRow \cup {NoRow, Deleted}]
    BY <2>1 DEF RegisterArrival
  <2>4. line' \in [LineIds -> LineRow \cup {NoRow}]
    BY <2>2 DEF RegisterArrival
  <2> QED
    BY <1>2, <2>3, <2>4 DEF PurchaseInv, PurchasingTypeOK
<1>10. \A p \in Orders : ItemsOf(p)' = ItemsOf(p)
  BY <1>5, <1>9, GrowingKeepsItems DEF PurchaseInv
<1>11. ArrivalsKeepTheirOrder'
  <2> SUFFICES ASSUME NEW l \in LineIds, line'[l] # NoRow
               PROVE  /\ item'[line'[l].item] \in ItemRow
                      /\ item'[line'[l].item].order = line'[l].order
                      /\ purchase'[line'[l].order] \in Receivable \cup {PURCHASE.closed}
    BY DEF ArrivalsKeepTheirOrder
  <2>1. CASE l \in DOMAIN got
    <3>1. line'[l].item \in ItemIds /\ item[line'[l].item] \in ItemRow
          /\ item[line'[l].item].order = o /\ line'[l].order = o
      BY <1>1, <1>7, <2>1, ItemsAreRows DEF PurchaseInv
    <3> QED
      BY <1>2, <1>5, <3>1 DEF OnlyGrew
  <2>2. CASE l \notin DOMAIN got
    <3>1. line'[l] = line[l]
      BY <1>8, <2>2
    <3>2. /\ item[line[l].item] \in ItemRow
          /\ item[line[l].item].order = line[l].order
          /\ purchase[line[l].order] \in Receivable \cup {PURCHASE.closed}
      BY <3>1 DEF PurchaseInv, Goods, ArrivalsKeepTheirOrder
    <3>3. line[l].item \in ItemIds
      BY <3>1 DEF PurchaseInv, PurchasingTypeOK, LineRow
    <3> QED
      BY <1>2, <1>5, <3>1, <3>2, <3>3 DEF OnlyGrew
  <2> QED
    BY <2>1, <2>2
<1>12. HasItems'
  BY <1>2, <1>10 DEF PurchaseInv, Goods, HasItems
<1>13. ASSUME NEW i \in ItemIds, item'[i] \in ItemRow PROVE item[i] \in ItemRow
  BY <1>5, <1>13 DEF OnlyGrew
<1>14. OrdersSomething'
  BY <1>5, <1>13 DEF PurchaseInv, Goods, OrdersSomething, OnlyGrew
<1>15. GoodsComeOnLines'
  <2> SUFFICES ASSUME NEW i \in ItemIds, item'[i] \in ItemRow,
                      item'[i].arrived > 0 \/ item'[i].posted > 0
               PROVE  \E l \in LineIds : line'[l] # NoRow /\ line'[l].item = i
    BY DEF GoodsComeOnLines, LinesOf
  <2>1. CASE \E l \in DOMAIN got : got[l].item = i
    BY <1>7, <2>1, PurchasingRowAssumption
  <2>2. CASE ~ \E l \in DOMAIN got : got[l].item = i
    <3>1. item'[i] = item[i]
      BY <1>3, <2>2
    <3>2. PICK l \in LineIds : line[l] # NoRow /\ line[l].item = i
      BY <3>1 DEF PurchaseInv, Goods, GoodsComeOnLines, LinesOf
    <3> QED
      BY <1>7, <1>8, <3>2
  <2> QED
    BY <2>1, <2>2
<1>16. \A p \in Orders : \A i \in ItemsOf(p) :
          item'[i].posted = item[i].posted /\ item'[i].ordered = item[i].ordered
  BY <1>5, <1>6, ItemsAreRows DEF PurchaseInv, OnlyGrew
<1>17. FullyMeansComplete'
  BY <1>2, <1>10, <1>16 DEF PurchaseInv, Goods, FullyMeansComplete
<1>18. PartialMeansSome'
  BY <1>2, <1>10, <1>16 DEF PurchaseInv, Goods, PartialMeansSome
<1>19. LogIsCurrent' /\ OnePostingPerOperation'
  BY <1>2 DEF PurchaseInv, LogIsCurrent, OnePostingPerOperation
<1> QED
  BY <1>2, <1>9, <1>11, <1>12, <1>14, <1>15, <1>17, <1>18, <1>19 DEF PurchaseInv, Goods, Logged

\* What _advance_order_status makes of the status.
LEMMA AdvanceTells ==
  ASSUME PurchaseInv, NEW o \in Orders, Advance(o, item'),
         purchase[o] \in Receivable,
         purchase[o] = 4 => \A i \in ItemsOf(o) : item'[i].posted >= item'[i].ordered
  PROVE  /\ purchase'[o] \in {3, 4}
         /\ purchase'[o] = 4 <=> \A i \in ItemsOf(o) : item'[i].posted >= item'[i].ordered
         /\ \A p \in Orders \ {o} : purchase'[p] = purchase[p]
         /\ purchase' \in [Orders -> Statuses \cup {NoRow}]
         /\ logged' \in [Orders -> (Statuses \cup {NoRow}) \X (Statuses \cup {NoRow})]
         /\ LogIsCurrent'
         /\ Logged
<1> DEFINE complete == \A i \in ItemsOf(o) : item'[i].posted >= item'[i].ordered
           target == IF complete THEN 4 ELSE 3
<1>1. IF purchase[o] \in {target, 4}
      THEN UNCHANGED <<purchase, logged>>
      ELSE Move(o, purchase[o], target)
  BY StatusNumbers DEF Advance
<1>2. /\ target \in {3, 4}
      /\ target = 4 <=> complete
      /\ purchase[o] = 4 => complete
  OBVIOUS
<1> HIDE DEF complete, target
<1>3. CASE purchase[o] \in {target, 4}
  <2>1. UNCHANGED <<purchase, logged>>
    BY <1>1, <1>3
  <2>2. purchase'[o] \in {3, 4} /\ (purchase'[o] = 4 <=> complete)
    BY <1>2, <1>3, <2>1
  <2> QED
    BY <2>1, <2>2 DEF complete, PurchaseInv, PurchasingTypeOK, LogIsCurrent, Logged
<1>4. CASE purchase[o] \notin {target, 4}
  <2>1. Move(o, purchase[o], target)
    BY <1>1, <1>4
  <2>2. /\ purchase' = [p \in Orders |-> IF p = o THEN target ELSE purchase[p]]
        /\ logged' = [p \in Orders |-> IF p = o THEN <<purchase[o], target>> ELSE logged[p]]
    BY <2>1 DEF Move, PurchaseInv, PurchasingTypeOK
  <2>3. /\ purchase' \in [Orders -> Statuses \cup {NoRow}]
        /\ logged' \in [Orders -> (Statuses \cup {NoRow}) \X (Statuses \cup {NoRow})]
    BY <1>2, <2>2, StatusNumbers DEF PurchaseInv, PurchasingTypeOK
  <2>4. LogIsCurrent'
    BY <2>2 DEF PurchaseInv, LogIsCurrent
  <2>5. Logged
    BY <2>1, MoveIsLogged, StatusNumbers
  <2>6. purchase'[o] = target /\ \A p \in Orders \ {o} : purchase'[p] = purchase[p]
    BY <2>2
  <2> QED
    BY <1>2, <2>3, <2>4, <2>5, <2>6 DEF complete
<1> QED
  BY <1>3, <1>4

LEMMA PostReceiptStep ==
  ASSUME PurchaseInv, NEW u \in Users, NEW op \in ReceiptKeys \cup {NoReceiptKey}, NEW l \in LineIds,
         NEW q \in Deliveries, NEW s \in Places, PostReceipt(u, op, l, q, s)
  PROVE  PurchaseInv' /\ Logged
<1> DEFINE k == line[l].item
           o == line[l].order
           row == [line |-> l, product |-> item[k].product, place |-> s, quantity |-> q,
                   by |-> u, operation |-> op]
<1>1. /\ line[l] \in LineRow /\ k \in ItemIds /\ o \in Orders
      /\ line[l].pending \in Nat /\ line[l].accepted \in Nat
      /\ q \in Nat \ {0} /\ q <= line[l].pending
      /\ line[l] # NoRow
  BY PurchasingAssumption DEF PostReceipt, PurchaseInv, PurchasingTypeOK, LineRow
<1>2. /\ item[k] \in ItemRow /\ item[k].order = o
      /\ item[k].product \in Products /\ item[k].posted \in Nat
  BY <1>1 DEF PurchaseInv, Goods, ArrivalsKeepTheirOrder, ItemRow
<1>3. /\ postings' = Append(postings, row)
      /\ stock' = [stock EXCEPT ![<<item[k].product, s>>] = @ + q]
      /\ line' = [line EXCEPT ![l].pending = @ - q, ![l].accepted = @ + q]
      /\ item' = [item EXCEPT ![k].posted = @ + q]
      /\ purchase[o] \in Receivable
      /\ Advance(o, item')
  BY DEF PostReceipt
<1>4. /\ item'[k] = [item[k] EXCEPT !.posted = @ + q]
      /\ \A i \in ItemIds \ {k} : item'[i] = item[i]
  BY <1>1, <1>3 DEF PurchaseInv, PurchasingTypeOK
<1>5. /\ item'[k] \in ItemRow /\ item'[k].order = o /\ item'[k].ordered = item[k].ordered
      /\ item'[k].posted = item[k].posted + q
  BY <1>1, <1>2, <1>4 DEF ItemRow
<1>6. OnlyGrew
  <2>1. item'[k].posted >= item[k].posted
    BY <1>1, <1>2, <1>5
  <2>2. ASSUME NEW i \in ItemIds, item[i] \in ItemRow PROVE item[i].posted >= item[i].posted
    BY <2>2 DEF ItemRow
  <2> HIDE DEF k
  <2> QED
    BY <1>2, <1>4, <1>5, <2>1, <2>2 DEF OnlyGrew
<1>7. /\ line'[l] = [line[l] EXCEPT !.pending = @ - q, !.accepted = @ + q]
      /\ \A m \in LineIds \ {l} : line'[m] = line[m]
  BY <1>1, <1>3 DEF PurchaseInv, PurchasingTypeOK
<1>8. /\ line'[l] \in LineRow /\ line'[l].item = k /\ line'[l].order = o
  <2>1. line[l].pending - q \in Nat /\ line[l].accepted + q \in Nat
    BY <1>1
  <2>2. line'[l] = [[line[l] EXCEPT !.pending = line[l].pending - q]
                       EXCEPT !.accepted = line[l].accepted + q]
    BY <1>1, <1>7 DEF LineRow
  <2> QED
    BY <1>1, <2>1, <2>2 DEF LineRow
<1>9. row \in PostingRow
  BY <1>2 DEF PostingRow
<1> HIDE DEF row
<1>10. /\ item' \in [ItemIds -> ItemRow \cup {NoRow, Deleted}]
       /\ line' \in [LineIds -> LineRow \cup {NoRow}]
       /\ postings' \in Seq(PostingRow)
       /\ stock' \in [Products \X Places -> Nat]
  <2>1. item' \in [ItemIds -> ItemRow \cup {NoRow, Deleted}]
    BY <1>3, <1>4, <1>5 DEF PurchaseInv, PurchasingTypeOK
  <2>2. line' \in [LineIds -> LineRow \cup {NoRow}]
    BY <1>3, <1>7, <1>8 DEF PurchaseInv, PurchasingTypeOK
  <2>3. postings' \in Seq(PostingRow)
    BY <1>3, <1>9 DEF PurchaseInv, PurchasingTypeOK
  <2>4. stock \in [Products \X Places -> Nat]
    BY DEF PurchaseInv, PurchasingTypeOK
  <2>5. <<item[k].product, s>> \in Products \X Places
    BY <1>2
  <2>6. stock' \in [Products \X Places -> Nat]
    BY <1>1, <1>3, <2>4, <2>5
  <2> QED
    BY <2>1, <2>2, <2>3, <2>6
<1>11. \A i \in ItemsOf(o) : /\ i \in ItemIds /\ item[i] \in ItemRow
                             /\ item'[i].ordered = item[i].ordered
                             /\ item'[i].posted >= item[i].posted
                             /\ item[i].posted \in Nat /\ item[i].ordered \in Nat
                             /\ item'[i].posted \in Nat
  BY <1>1, <1>6, ItemsAreRows DEF PurchaseInv, OnlyGrew, ItemRow
<1>12. purchase[o] = 4 => \A i \in ItemsOf(o) : item'[i].posted >= item'[i].ordered
  BY <1>1, <1>3, <1>11 DEF PurchaseInv, Goods, FullyMeansComplete
<1>13. /\ purchase'[o] \in {3, 4}
       /\ purchase'[o] = 4 <=> \A i \in ItemsOf(o) : item'[i].posted >= item'[i].ordered
       /\ \A p \in Orders \ {o} : purchase'[p] = purchase[p]
       /\ purchase' \in [Orders -> Statuses \cup {NoRow}]
       /\ logged' \in [Orders -> (Statuses \cup {NoRow}) \X (Statuses \cup {NoRow})]
       /\ LogIsCurrent'
       /\ Logged
  <2> HIDE DEF o, k
  <2> QED
    BY <1>1, <1>3, <1>12, AdvanceTells
<1>14. PurchasingTypeOK'
  BY <1>10, <1>13 DEF PurchasingTypeOK
<1>15. \A p \in Orders : ItemsOf(p)' = ItemsOf(p)
  BY <1>6, <1>14, GrowingKeepsItems DEF PurchaseInv
<1>16. ArrivalsKeepTheirOrder'
  <2> SUFFICES ASSUME NEW m \in LineIds, line'[m] # NoRow
               PROVE  /\ item'[line'[m].item] \in ItemRow
                      /\ item'[line'[m].item].order = line'[m].order
                      /\ purchase'[line'[m].order] \in Receivable \cup {PURCHASE.closed}
    BY DEF ArrivalsKeepTheirOrder
  <2>1. line[m] # NoRow /\ line'[m].item = line[m].item /\ line'[m].order = line[m].order
    BY <1>1, <1>7, <1>8
  <2>2. /\ item[line[m].item] \in ItemRow
        /\ item[line[m].item].order = line[m].order
        /\ purchase[line[m].order] \in Receivable \cup {PURCHASE.closed}
    BY <2>1 DEF PurchaseInv, Goods, ArrivalsKeepTheirOrder
  <2>3. line[m].item \in ItemIds /\ line[m].order \in Orders
    BY <2>1 DEF PurchaseInv, PurchasingTypeOK, LineRow
  <2>4. item'[line[m].item] \in ItemRow /\ item'[line[m].item].order = line[m].order
    BY <1>6, <2>2, <2>3 DEF OnlyGrew
  <2>5. purchase'[line[m].order] \in Receivable \cup {PURCHASE.closed}
    BY <1>13, <2>2, <2>3, StatusNumbers
  <2> QED
    BY <2>1, <2>4, <2>5
<1>17. HasItems'
  <2>1. k \in ItemsOf(o)
    BY <1>1, <1>2, ItemsAreRows DEF PurchaseInv
  <2> QED
    BY <1>13, <1>15, <2>1 DEF PurchaseInv, Goods, HasItems
<1>18. ASSUME NEW i \in ItemIds, item'[i] \in ItemRow PROVE item[i] \in ItemRow
  BY <1>6, <1>18 DEF OnlyGrew
<1>19. OrdersSomething'
  BY <1>6, <1>18 DEF PurchaseInv, Goods, OrdersSomething, OnlyGrew
<1>20. GoodsComeOnLines'
  <2> SUFFICES ASSUME NEW i \in ItemIds, item'[i] \in ItemRow,
                      item'[i].arrived > 0 \/ item'[i].posted > 0
               PROVE  \E m \in LineIds : line'[m] # NoRow /\ line'[m].item = i
    BY DEF GoodsComeOnLines, LinesOf
  <2>1. CASE i = k
    BY <1>8, <2>1, PurchasingRowAssumption
  <2>2. CASE i # k
    <3>1. item'[i] = item[i]
      BY <1>4, <2>2
    <3>2. PICK m \in LineIds : line[m] # NoRow /\ line[m].item = i
      BY <3>1 DEF PurchaseInv, Goods, GoodsComeOnLines, LinesOf
    <3>3. m # l
      BY <2>2, <3>2
    <3> QED
      BY <1>7, <3>2, <3>3
  <2> QED
    BY <2>1, <2>2
<1>21. ASSUME NEW p \in Orders, p # o
       PROVE  \A i \in ItemsOf(p) : item'[i] = item[i]
  BY <1>2, <1>4, <1>21 DEF ItemsOf
<1>22. FullyMeansComplete'
  <2> SUFFICES ASSUME NEW p \in Orders, purchase'[p] \in Receivable
               PROVE  purchase'[p] = 4 <=> \A i \in ItemsOf(p) : item'[i].posted >= item'[i].ordered
    BY <1>15 DEF FullyMeansComplete
  <2>1. CASE p = o
    BY <1>13, <2>1
  <2>2. CASE p # o
    <3>1. purchase'[p] = purchase[p]
      BY <1>13, <2>2
    <3> QED
      BY <1>21, <2>2, <3>1 DEF PurchaseInv, Goods, FullyMeansComplete
  <2> QED
    BY <2>1, <2>2
<1>23. PartialMeansSome'
  <2> SUFFICES ASSUME NEW p \in Orders, purchase'[p] = 3
               PROVE  \E i \in ItemsOf(p) : item'[i].posted > 0
    BY <1>15 DEF PartialMeansSome
  <2>1. CASE p = o
    <3>1. k \in ItemsOf(o)
      BY <1>1, <1>2, ItemsAreRows DEF PurchaseInv
    <3>2. item'[k].posted > 0
      BY <1>1, <1>2, <1>5
    <3> QED
      BY <2>1, <3>1, <3>2
  <2>2. CASE p # o
    <3>1. purchase'[p] = purchase[p]
      BY <1>13, <2>2
    <3> QED
      BY <1>21, <2>2, <3>1 DEF PurchaseInv, Goods, PartialMeansSome
  <2> QED
    BY <2>1, <2>2
<1>24. OnePostingPerOperation'
  <2>1. postings \in Seq(PostingRow) /\ row.by = u /\ row.operation = op
    BY DEF PurchaseInv, PurchasingTypeOK, row
  <2>2. \A n \in DOMAIN postings : ~ (postings[n].by = u /\ postings[n].operation = op)
        \/ op = NoReceiptKey
    BY DEF PostReceipt, Posted
  <2>3. /\ DOMAIN postings' = 1 .. Len(postings) + 1
        /\ postings'[Len(postings) + 1] = row
        /\ \A n \in DOMAIN postings : postings'[n] = postings[n]
        /\ DOMAIN postings = 1 .. Len(postings)
        /\ Len(postings) \in Nat
    BY <1>3, <1>9, <2>1
  <2> SUFFICES ASSUME NEW m \in DOMAIN postings', NEW n \in DOMAIN postings',
                      postings'[m].operation # NoReceiptKey,
                      postings'[m].operation = postings'[n].operation,
                      postings'[m].by = postings'[n].by
               PROVE  m = n
    BY DEF OnePostingPerOperation
  <2>4. CASE m \in DOMAIN postings /\ n \in DOMAIN postings
    BY <2>3, <2>4 DEF PurchaseInv, OnePostingPerOperation
  <2>5. CASE m \notin DOMAIN postings /\ n \notin DOMAIN postings
    BY <2>3, <2>5
  <2>6. CASE m \in DOMAIN postings /\ n \notin DOMAIN postings
    <3>1. n = Len(postings) + 1
      BY <2>3, <2>6
    <3> QED
      BY <2>1, <2>2, <2>3, <2>6, <3>1
  <2>7. CASE m \notin DOMAIN postings /\ n \in DOMAIN postings
    <3>1. m = Len(postings) + 1
      BY <2>3, <2>7
    <3> QED
      BY <2>1, <2>2, <2>3, <2>7, <3>1
  <2> QED
    BY <2>4, <2>5, <2>6, <2>7
<1> QED
  BY <1>13, <1>14, <1>16, <1>17, <1>19, <1>20, <1>22, <1>23, <1>24 DEF PurchaseInv, Goods

-----------------------------------------------------------------------------
(* What the receipts add up to.                                            *)

\* The sum of natural numbers is one.
LEMMA TotalType ==
  ASSUME NEW S, IsFiniteSet(S), NEW f \in [S -> Nat]
  PROVE  SumFunction(f) \in Nat
<1>1. SumFunctionOnSet(f, S) \in Nat
  BY SumNotNegative
<1> QED
  BY <1>1 DEF SumFunction

LEMMA TotalEmpty == ASSUME NEW f, DOMAIN f = {} PROVE SumFunction(f) = 0
  BY SumEmpty DEF SumFunction

\* One number more.
LEMMA TotalInsert ==
  ASSUME NEW S, IsFiniteSet(S), NEW x, x \notin S, NEW f \in [S -> Nat],
         NEW g \in [S \cup {x} -> Nat], \A y \in S : g[y] = f[y]
  PROVE  SumFunction(g) = SumFunction(f) + g[x]
<1>1. SumFunctionOnSet(g, S \cup {x}) = g[x] + SumFunctionOnSet(g, S)
  BY SumInsert
<1>2. SumFunctionOnSet(g, S) = SumFunctionOnSet(f, S)
  BY SumSame
<1>3. SumFunctionOnSet(f, S) \in Nat /\ g[x] \in Nat
  BY SumNotNegative
<1> QED
  BY <1>1, <1>2, <1>3 DEF SumFunction

\* One number grown.
LEMMA TotalGrows ==
  ASSUME NEW S, IsFiniteSet(S), NEW x \in S, NEW f \in [S -> Nat], NEW g \in [S -> Nat],
         NEW q \in Nat, g[x] = f[x] + q, \A y \in S \ {x} : g[y] = f[y]
  PROVE  SumFunction(g) = SumFunction(f) + q
<1>1. SumFunctionOnSet(g, S) = SumFunctionOnSet(f, S) + g[x] - f[x]
  BY SumChange
<1>2. SumFunctionOnSet(f, S) \in Nat /\ f[x] \in Nat
  BY SumNotNegative
<1> QED
  BY <1>1, <1>2 DEF SumFunction

\* What is missing of a line's counted goods is pending.
LinesBalance ==
    \A l \in LineIds : line[l] # NoRow => line[l].accepted + line[l].pending = line[l].normal

\* Goods are posted to lines.
PostingsHaveLines == \A k \in DOMAIN postings : line[postings[k].line] # NoRow

ItemAddsUp(i) ==
    /\ ArrivedOn(i) = item[i].arrived
    /\ NormalOn(i) = IF item[i].arrived <= item[i].ordered THEN item[i].arrived ELSE item[i].ordered
    /\ AcceptedOn(i) = item[i].posted

ItemsAddUp == \A i \in ItemIds : item[i] \in ItemRow => ItemAddsUp(i)

PostingsAddUp ==
    /\ \A l \in LineIds : line[l] # NoRow => QuantityOn(PostingsOn(l)) = line[l].accepted
    /\ \A p \in Products, s \in Places : stock[<<p, s>>] = QuantityOn(PostingsAt(p, s))

Receipts == LinesBalance /\ PostingsHaveLines /\ ItemsAddUp /\ PostingsAddUp

\* The lines of an item are finitely many rows of natural numbers.
LEMMA ItemLines ==
  ASSUME PurchasingTypeOK, NEW i
  PROVE  /\ IsFiniteSet(LinesOf(i)) /\ LinesOf(i) \in SUBSET LineIds
         /\ \A l \in LinesOf(i) : line[l] \in LineRow /\ line[l].item = i
         /\ [l \in LinesOf(i) |-> line[l].quantity] \in [LinesOf(i) -> Nat]
         /\ [l \in LinesOf(i) |-> line[l].normal] \in [LinesOf(i) -> Nat]
         /\ [l \in LinesOf(i) |-> line[l].accepted] \in [LinesOf(i) -> Nat]
<1>1. LinesOf(i) \in SUBSET LineIds
  BY DEF LinesOf
<1>2. \A l \in LinesOf(i) : line[l] \in LineRow /\ line[l].item = i
  BY DEF LinesOf, PurchasingTypeOK
<1>3. \A l \in LinesOf(i) : line[l].quantity \in Nat /\ line[l].normal \in Nat /\ line[l].accepted \in Nat
  BY <1>2 DEF LineRow
<1>4. IsFiniteSet(LinesOf(i))
  BY <1>1, PurchasingRowAssumption, FS_Subset
<1> QED
  BY <1>1, <1>2, <1>3, <1>4

\* An item no line is for has received nothing.
LEMMA NoLinesNothing ==
  ASSUME NEW i, LinesOf(i) = {}
  PROVE  ArrivedOn(i) = 0 /\ NormalOn(i) = 0 /\ AcceptedOn(i) = 0
  BY TotalEmpty DEF ArrivedOn, NormalOn, AcceptedOn

\* Never more is posted than was ordered: only goods that count are accepted.
LEMMA PostedWithinOrdered ==
  ASSUME PurchasingTypeOK, LinesBalance, NEW i \in ItemIds, item[i] \in ItemRow, ItemAddsUp(i)
  PROVE  item[i].posted <= item[i].ordered
<1> DEFINE f == [l \in LinesOf(i) |-> line[l].accepted]
           g == [l \in LinesOf(i) |-> line[l].normal]
<1>1. \A l \in LinesOf(i) : line[l].accepted <= line[l].normal
  <2> SUFFICES ASSUME NEW l \in LinesOf(i) PROVE line[l].accepted <= line[l].normal
    OBVIOUS
  <2>1. /\ line[l].accepted \in Nat /\ line[l].normal \in Nat /\ line[l].pending \in Nat
        /\ l \in LineIds /\ line[l] # NoRow
    BY DEF LinesOf, PurchasingTypeOK, LineRow
  <2>2. line[l].accepted + line[l].pending = line[l].normal
    BY <2>1 DEF LinesBalance
  <2> QED
    BY <2>1, <2>2
<1>2. /\ IsFiniteSet(LinesOf(i))
      /\ \A l \in LinesOf(i) : f[l] \in Int /\ g[l] \in Int /\ f[l] <= g[l]
  BY <1>1, ItemLines
<1>3. SumFunctionOnSet(f, LinesOf(i)) <= SumFunctionOnSet(g, LinesOf(i))
  <2> HIDE DEF f, g
  <2> QED BY <1>2, SumAtMost
<1>4. AcceptedOn(i) <= NormalOn(i)
  BY <1>3 DEF AcceptedOn, NormalOn, SumFunction
<1>5. item[i].posted \in Nat /\ item[i].ordered \in Nat /\ item[i].arrived \in Nat
  BY DEF ItemRow
<1> QED
  BY <1>4, <1>5 DEF ItemAddsUp

LEMMA ReceiptsTell == PurchaseInv /\ Receipts => ReceiptsAddUp
<1> SUFFICES ASSUME PurchaseInv, Receipts PROVE ReceiptsAddUp
  OBVIOUS
<1>1. ASSUME NEW i \in ItemIds, item[i] \in ItemRow
      PROVE  ItemAddsUp(i) /\ item[i].posted <= item[i].ordered
  BY <1>1, PostedWithinOrdered DEF PurchaseInv, Receipts, ItemsAddUp
<1> QED
  BY <1>1 DEF PurchaseInv, Receipts, PostingsAddUp, ReceiptsAddUp, ItemAddsUp

LEMMA InitReceipts == PurchasingInit => Receipts
<1> SUFFICES ASSUME PurchasingInit PROVE Receipts
  OBVIOUS
<1>1. /\ \A i \in ItemIds : item[i] \notin ItemRow
      /\ \A l \in LineIds : line[l] = NoRow
      /\ DOMAIN postings = {}
      /\ \A p \in Products, s \in Places : stock[<<p, s>>] = 0
  BY PurchasingRowAssumption DEF PurchasingInit
<1>2. \A p \in Products, s \in Places : QuantityOn(PostingsAt(p, s)) = 0
  <2>1. \A p \in Products, s \in Places : PostingsAt(p, s) = {}
    BY <1>1 DEF PostingsAt
  <2> QED
    BY <2>1, TotalEmpty DEF QuantityOn
<1> QED
  BY <1>1, <1>2 DEF Receipts, LinesBalance, PostingsHaveLines, ItemsAddUp, PostingsAddUp

LEMMA SameLines ==
  ASSUME NEW i, LinesOf(i)' = LinesOf(i),
         \A l \in LinesOf(i) : /\ line'[l].quantity = line[l].quantity
                               /\ line'[l].normal = line[l].normal
  PROVE  /\ ArrivedOn(i)' = ArrivedOn(i) /\ NormalOn(i)' = NormalOn(i)
         /\ (\A l \in LinesOf(i) : line'[l].accepted = line[l].accepted) =>
               AcceptedOn(i)' = AcceptedOn(i)
<1>1. [l \in LinesOf(i)' |-> line'[l].quantity] = [l \in LinesOf(i) |-> line[l].quantity]
  OBVIOUS
<1>2. [l \in LinesOf(i)' |-> line'[l].normal] = [l \in LinesOf(i) |-> line[l].normal]
  OBVIOUS
<1>3. (\A l \in LinesOf(i) : line'[l].accepted = line[l].accepted) =>
        [l \in LinesOf(i)' |-> line'[l].accepted] = [l \in LinesOf(i) |-> line[l].accepted]
  OBVIOUS
<1> QED
  BY <1>1, <1>2, <1>3 DEF ArrivedOn, NormalOn, AcceptedOn

\* A line more.
LEMMA LineAdded ==
  ASSUME PurchasingTypeOK, PurchasingTypeOK', NEW i, NEW l, l \notin LinesOf(i),
         LinesOf(i)' = LinesOf(i) \cup {l}, \A m \in LinesOf(i) : line'[m] = line[m]
  PROVE  /\ ArrivedOn(i)' = ArrivedOn(i) + line'[l].quantity
         /\ NormalOn(i)' = NormalOn(i) + line'[l].normal
         /\ AcceptedOn(i)' = AcceptedOn(i) + line'[l].accepted
<1> DEFINE S == LinesOf(i)
           fa == [m \in S |-> line[m].quantity]
           fn == [m \in S |-> line[m].normal]
           fc == [m \in S |-> line[m].accepted]
           ga == [m \in S \cup {l} |-> line'[m].quantity]
           gn == [m \in S \cup {l} |-> line'[m].normal]
           gc == [m \in S \cup {l} |-> line'[m].accepted]
<1>1. IsFiniteSet(S) /\ fa \in [S -> Nat] /\ fn \in [S -> Nat] /\ fc \in [S -> Nat]
  BY ItemLines
<1>2. \A m \in S \cup {l} : m \in LineIds /\ line'[m] # NoRow
  BY DEF LinesOf
<1>3. \A m \in S \cup {l} : line'[m] \in LineRow
  BY <1>2 DEF PurchasingTypeOK
<1>4. \A m \in S \cup {l} : /\ line'[m].quantity \in Nat /\ line'[m].normal \in Nat
                            /\ line'[m].accepted \in Nat
  BY <1>3 DEF LineRow
<1>5. ga \in [S \cup {l} -> Nat] /\ gn \in [S \cup {l} -> Nat] /\ gc \in [S \cup {l} -> Nat]
  BY <1>4
<1>6. \A m \in S : ga[m] = fa[m] /\ gn[m] = fn[m] /\ gc[m] = fc[m]
  OBVIOUS
<1>7. ga[l] = line'[l].quantity /\ gn[l] = line'[l].normal /\ gc[l] = line'[l].accepted
  OBVIOUS
<1>8. /\ ArrivedOn(i)' = SumFunction(ga) /\ ArrivedOn(i) = SumFunction(fa)
      /\ NormalOn(i)' = SumFunction(gn) /\ NormalOn(i) = SumFunction(fn)
      /\ AcceptedOn(i)' = SumFunction(gc) /\ AcceptedOn(i) = SumFunction(fc)
  BY DEF ArrivedOn, NormalOn, AcceptedOn
<1>9. l \notin S
  OBVIOUS
<1> HIDE DEF S, fa, fn, fc, ga, gn, gc
<1>10. SumFunction(ga) = SumFunction(fa) + ga[l]
  <2>1. fa \in [S -> Nat] /\ ga \in [S \cup {l} -> Nat] /\ \A m \in S : ga[m] = fa[m]
    BY <1>1, <1>5, <1>6
  <2>2. IsFiniteSet(S)
    BY <1>1
  <2> QED
    BY <1>9, <2>1, <2>2, TotalInsert
<1>11. SumFunction(gn) = SumFunction(fn) + gn[l]
  <2>1. fn \in [S -> Nat] /\ gn \in [S \cup {l} -> Nat] /\ \A m \in S : gn[m] = fn[m]
    BY <1>1, <1>5, <1>6
  <2>2. IsFiniteSet(S)
    BY <1>1
  <2> QED
    BY <1>9, <2>1, <2>2, TotalInsert
<1>12. SumFunction(gc) = SumFunction(fc) + gc[l]
  <2>1. fc \in [S -> Nat] /\ gc \in [S \cup {l} -> Nat] /\ \A m \in S : gc[m] = fc[m]
    BY <1>1, <1>5, <1>6
  <2>2. IsFiniteSet(S)
    BY <1>1
  <2> QED
    BY <1>9, <2>1, <2>2, TotalInsert
<1> QED
  BY <1>7, <1>8, <1>10, <1>11, <1>12

\* More accepted on a line.
LEMMA LineAccepts ==
  ASSUME PurchasingTypeOK, PurchasingTypeOK', NEW i, NEW l \in LinesOf(i), NEW q \in Nat,
         LinesOf(i)' = LinesOf(i), \A m \in LinesOf(i) \ {l} : line'[m] = line[m],
         line'[l].accepted = line[l].accepted + q
  PROVE  AcceptedOn(i)' = AcceptedOn(i) + q
<1> DEFINE S == LinesOf(i)
           f == [m \in S |-> line[m].accepted]
           g == [m \in S |-> line'[m].accepted]
<1>1. IsFiniteSet(S) /\ f \in [S -> Nat]
  BY ItemLines
<1>2. \A m \in S : m \in LineIds /\ line'[m] # NoRow
  BY DEF LinesOf
<1>3. \A m \in S : line'[m] \in LineRow
  BY <1>2 DEF PurchasingTypeOK
<1>4. g \in [S -> Nat]
  BY <1>3 DEF LineRow
<1>5. l \in S /\ g[l] = f[l] + q /\ \A m \in S \ {l} : g[m] = f[m]
  OBVIOUS
<1>6. AcceptedOn(i)' = SumFunction(g) /\ AcceptedOn(i) = SumFunction(f)
  BY DEF AcceptedOn
<1> HIDE DEF S, f, g
<1> QED
  BY <1>1, <1>4, <1>5, <1>6, TotalGrows

\* A posting more: it counts in the sets it belongs to.
LEMMA PostingAdded ==
  ASSUME postings \in Seq(PostingRow), NEW row \in PostingRow, postings' = Append(postings, row)
  PROVE  /\ Len(postings) \in Nat /\ DOMAIN postings = 1 .. Len(postings)
         /\ DOMAIN postings' = DOMAIN postings \cup {Len(postings) + 1}
         /\ \A k \in DOMAIN postings : postings'[k] = postings[k]
         /\ postings'[Len(postings) + 1] = row
         /\ \A S \in SUBSET DOMAIN postings :
               /\ SumFunction([k \in S |-> postings'[k].quantity])
                    = SumFunction([k \in S |-> postings[k].quantity])
               /\ SumFunction([k \in S \cup {Len(postings) + 1} |-> postings'[k].quantity])
                    = SumFunction([k \in S |-> postings[k].quantity]) + row.quantity
<1> DEFINE n == Len(postings) + 1
<1>1. /\ Len(postings) \in Nat /\ DOMAIN postings = 1 .. Len(postings)
      /\ DOMAIN postings' = DOMAIN postings \cup {n}
      /\ \A k \in DOMAIN postings : postings'[k] = postings[k]
      /\ postings'[n] = row
      /\ n \notin DOMAIN postings
  OBVIOUS
<1>2. ASSUME NEW S \in SUBSET DOMAIN postings
      PROVE  /\ SumFunction([k \in S |-> postings'[k].quantity])
                  = SumFunction([k \in S |-> postings[k].quantity])
             /\ SumFunction([k \in S \cup {n} |-> postings'[k].quantity])
                  = SumFunction([k \in S |-> postings[k].quantity]) + row.quantity
  <2> DEFINE f == [k \in S |-> postings[k].quantity]
             g == [k \in S \cup {n} |-> postings'[k].quantity]
  <2>1. [k \in S |-> postings'[k].quantity] = f
    BY <1>1
  <2>2. IsFiniteSet(S)
    <3>1. IsFiniteSet(1 .. Len(postings))
      BY <1>1, FS_Interval
    <3> QED
      BY <1>1, <3>1, FS_Subset
  <2>3. \A k \in DOMAIN postings : postings[k].quantity \in Nat
    <3>1. \A k \in DOMAIN postings : postings[k] \in PostingRow
      OBVIOUS
    <3> QED
      BY <3>1, PurchasingAssumption DEF PostingRow
  <2>4. row.quantity \in Nat
    BY PurchasingAssumption DEF PostingRow
  <2>5. f \in [S -> Nat] /\ n \notin S /\ g[n] = row.quantity /\ \A k \in S : g[k] = f[k]
    BY <1>1, <2>3
  <2>6. g \in [S \cup {n} -> Nat]
    BY <1>1, <2>3, <2>4
  <2> HIDE DEF f, g, n
  <2>7. SumFunction(g) = SumFunction(f) + g[n]
    <3>1. n \notin S /\ f \in [S -> Nat] /\ \A k \in S : g[k] = f[k]
      BY <2>5
    <3>2. IsFiniteSet(S) /\ g \in [S \cup {n} -> Nat]
      BY <2>2, <2>6
    <3>3. /\ \A k \in S \cup {n} : g[k] \in Int
          /\ \A k \in S : f[k] \in Int
          /\ DOMAIN f = S /\ DOMAIN g = S \cup {n}
      BY <3>1, <3>2
    <3>4. SumFunctionOnSet(g, S \cup {n}) = g[n] + SumFunctionOnSet(g, S)
      BY <3>1, <3>2, <3>3, SumInsert
    <3>5. SumFunctionOnSet(g, S) = SumFunctionOnSet(f, S)
      BY <3>1, <3>2, SumSame
    <3>6. SumFunctionOnSet(f, S) \in Int /\ g[n] \in Int
      BY <3>2, <3>3, SumType
    <3> QED
      BY <3>3, <3>4, <3>5, <3>6 DEF SumFunction
  <2> QED
    BY <2>1, <2>5, <2>7 DEF f, g
<1> QED
  BY <1>1, <1>2

\* A step that touches no line and no posting keeps the receipts when new items
\* have received nothing.
LEMMA QuietReceipts ==
  ASSUME PurchaseInv, Receipts, UNCHANGED <<line, postings, stock>>,
         \A i \in ItemIds : item'[i] \in ItemRow =>
            \/ item'[i] = item[i]
            \/ item[i] = NoRow /\ item'[i].arrived = 0 /\ item'[i].posted = 0 /\ item'[i].ordered \in Nat
  PROVE  Receipts'
<1>1. \A i : /\ ArrivedOn(i)' = ArrivedOn(i) /\ NormalOn(i)' = NormalOn(i)
             /\ AcceptedOn(i)' = AcceptedOn(i)
  BY DEF ArrivedOn, NormalOn, AcceptedOn, LinesOf
<1>2. ASSUME NEW i \in ItemIds, item'[i] \in ItemRow PROVE ItemAddsUp(i)'
  <2>1. CASE item'[i] = item[i]
    BY <1>1, <1>2, <2>1 DEF Receipts, ItemsAddUp, ItemAddsUp
  <2>2. CASE item[i] = NoRow /\ item'[i].arrived = 0 /\ item'[i].posted = 0 /\ item'[i].ordered \in Nat
    <3>1. LinesOf(i) = {}
      BY <2>2, PurchasingRowAssumption DEF PurchaseInv, Goods, ArrivalsKeepTheirOrder, LinesOf
    <3> QED
      BY <1>1, <2>2, <3>1, NoLinesNothing DEF ItemAddsUp
  <2> QED
    BY <1>2, <2>1, <2>2
<1>3. PostingsAddUp' /\ LinesBalance' /\ PostingsHaveLines'
  BY DEF Receipts, PostingsAddUp, LinesBalance, PostingsHaveLines, QuantityOn, PostingsOn, PostingsAt
<1> QED
  BY <1>2, <1>3 DEF Receipts, ItemsAddUp

\* New item rows have received nothing.
LEMMA RewrittenIsNew ==
  ASSUME NEW o, NEW old, NEW new \in Requests, item' = Rewritten(o, old, new)
  PROVE  \A i \in ItemIds : item'[i] \in ItemRow =>
            \/ item'[i] = item[i]
            \/ item[i] = NoRow /\ item'[i].arrived = 0 /\ item'[i].posted = 0 /\ item'[i].ordered \in Nat
<1> SUFFICES ASSUME NEW i \in ItemIds, item'[i] \in ItemRow
             PROVE  \/ item'[i] = item[i]
                    \/ /\ item[i] = NoRow /\ item'[i].arrived = 0 /\ item'[i].posted = 0
                       /\ item'[i].ordered \in Nat
  OBVIOUS
<1>1. CASE i \in DOMAIN new
  <2>1. item'[i] = [order |-> o, product |-> new[i].product, ordered |-> new[i].ordered,
                    arrived |-> 0, posted |-> 0]
    BY <1>1 DEF Rewritten
  <2>2. item[i] = NoRow /\ new[i].ordered \in Nat
    BY <1>1, RequestShape, PurchasingAssumption
  <2> QED
    BY <2>1, <2>2
<1>2. CASE i \notin DOMAIN new
  BY <1>2, PurchasingRowAssumption DEF Rewritten
<1> QED
  BY <1>1, <1>2

LEMMA RegisterArrivalReceipts ==
  ASSUME PurchaseInv, PurchaseInv', Receipts, NEW o \in Orders, NEW got \in Notices(o), RegisterArrival(o, got)
  PROVE  Receipts'
<1>1. /\ DOMAIN got \subseteq {l \in LineIds : line[l] = NoRow}
      /\ \A l \in DOMAIN got : got[l].item \in ItemsOf(o) /\ got[l].quantity \in Nat
      /\ \A l, m \in DOMAIN got : got[l].item = got[m].item => l = m
  BY NoticeShape, PurchasingAssumption
<1>2. PurchasingTypeOK /\ PurchasingTypeOK' /\ UNCHANGED <<postings, stock>>
  BY DEF PurchaseInv, RegisterArrival
<1>3. ASSUME NEW l \in LineIds, l \notin DOMAIN got PROVE line'[l] = line[l]
  BY <1>3 DEF RegisterArrival
<1>4. ASSUME NEW l \in DOMAIN got
      PROVE  /\ l \in LineIds /\ line[l] = NoRow /\ line'[l] # NoRow
             /\ line'[l].item = got[l].item /\ line'[l].quantity = got[l].quantity
             /\ line'[l].normal = Normal(got[l].item, got[l].quantity)
             /\ line'[l].pending = line'[l].normal /\ line'[l].accepted = 0
  <2>1. line'[l] = [item |-> got[l].item, order |-> o, quantity |-> got[l].quantity,
                    normal |-> Normal(got[l].item, got[l].quantity), accepted |-> 0,
                    pending |-> Normal(got[l].item, got[l].quantity)]
    BY <1>1 DEF RegisterArrival
  <2>2. Normal(got[l].item, got[l].quantity) \in Nat
    <3>1. got[l].item \in ItemIds /\ item[got[l].item] \in ItemRow /\ got[l].quantity \in Nat
      BY <1>1, ItemsAreRows DEF PurchaseInv
    <3>2. item[got[l].item].arrived \in Nat /\ item[got[l].item].ordered \in Nat
      BY <3>1 DEF ItemRow
    <3> QED
      BY <3>1, <3>2 DEF Normal
  <2>3. o \in Orders /\ got[l].item \in ItemIds /\ got[l].quantity \in Nat
    BY <1>1, ItemsAreRows DEF PurchaseInv
  <2>4. line'[l] \in LineRow
    BY <2>1, <2>2, <2>3 DEF LineRow
  <2> HIDE DEF Normal
  <2> QED
    BY <1>1, <2>1, <2>4, PurchasingRowAssumption
<1>5. ASSUME NEW i \in ItemIds, item'[i] \in ItemRow, ~ \E l \in DOMAIN got : got[l].item = i
      PROVE  ItemAddsUp(i)'
  <2>1. item'[i] = item[i]
    BY <1>5 DEF RegisterArrival
  <2>2. LinesOf(i)' = LinesOf(i) /\ \A l \in LinesOf(i) : line'[l] = line[l]
    BY <1>3, <1>4, <1>5 DEF LinesOf
  <2>3. ArrivedOn(i)' = ArrivedOn(i) /\ NormalOn(i)' = NormalOn(i) /\ AcceptedOn(i)' = AcceptedOn(i)
    BY <2>2, SameLines
  <2> QED
    BY <1>5, <2>1, <2>3 DEF Receipts, ItemsAddUp, ItemAddsUp
<1>6. ASSUME NEW l \in DOMAIN got PROVE ItemAddsUp(got[l].item)'
  <2> DEFINE i == got[l].item
             q == got[l].quantity
  <2>1. i \in ItemIds /\ item[i] \in ItemRow /\ q \in Nat
    BY <1>1, ItemsAreRows DEF PurchaseInv
  <2>2. item'[i] = [item[i] EXCEPT !.arrived = @ + q]
    <3> DEFINE m == CHOOSE m \in DOMAIN got : got[m].item = i
    <3>1. m \in DOMAIN got /\ got[m].item = i
      OBVIOUS
    <3>2. m = l
      BY <1>1, <3>1
    <3>3. item'[i] = [item[i] EXCEPT !.arrived = @ + got[m].quantity]
      BY <2>1, <3>1 DEF RegisterArrival
    <3> QED
      BY <3>2, <3>3
  <2>3. /\ item'[i].arrived = item[i].arrived + q /\ item'[i].ordered = item[i].ordered
        /\ item'[i].posted = item[i].posted
        /\ item[i].arrived \in Nat /\ item[i].ordered \in Nat /\ item[i].posted \in Nat
    BY <2>1, <2>2 DEF ItemRow
  <2>4. /\ l \notin LinesOf(i) /\ LinesOf(i)' = LinesOf(i) \cup {l}
        /\ \A m \in LinesOf(i) : line'[m] = line[m]
    <3>1. l \notin LinesOf(i)
      BY <1>4 DEF LinesOf
    <3>2. ASSUME NEW m \in LinesOf(i) PROVE line'[m] = line[m] /\ m \in LinesOf(i)'
      BY <1>3, <1>4 DEF LinesOf
    <3>3. ASSUME NEW m \in LinesOf(i)' PROVE m \in LinesOf(i) \cup {l}
      <4>1. m \in LineIds /\ line'[m] # NoRow /\ line'[m].item = i
        BY DEF LinesOf
      <4>2. m \in DOMAIN got => m = l
        BY <1>1, <1>4, <4>1
      <4> QED
        BY <1>3, <4>1, <4>2 DEF LinesOf
    <3>4. l \in LinesOf(i)'
      BY <1>4 DEF LinesOf
    <3> HIDE DEF i
    <3> QED
      BY <3>1, <3>2, <3>3, <3>4
  <2>5. /\ ArrivedOn(i)' = ArrivedOn(i) + q /\ NormalOn(i)' = NormalOn(i) + Normal(i, q)
        /\ AcceptedOn(i)' = AcceptedOn(i) + 0
    <3> HIDE DEF i, q
    <3>1. /\ ArrivedOn(i)' = ArrivedOn(i) + line'[l].quantity
          /\ NormalOn(i)' = NormalOn(i) + line'[l].normal
          /\ AcceptedOn(i)' = AcceptedOn(i) + line'[l].accepted
      BY <1>2, <2>4, LineAdded
    <3> QED
      BY <1>4, <3>1 DEF i, q
  <2>6. ItemAddsUp(i)
    BY <2>1 DEF Receipts, ItemsAddUp
  <2> HIDE DEF q, i
  <2>7. ItemAddsUp(i)'
    BY <2>1, <2>3, <2>5, <2>6 DEF ItemAddsUp, Normal
  <2> QED
    BY <2>7 DEF i, ItemAddsUp
<1>7. ItemsAddUp'
  <2> SUFFICES ASSUME NEW i \in ItemIds, item'[i] \in ItemRow PROVE ItemAddsUp(i)'
    BY DEF ItemsAddUp
  <2>1. CASE \E l \in DOMAIN got : got[l].item = i
    <3>1. PICK l \in DOMAIN got : got[l].item = i
      BY <2>1
    <3> QED
      BY <1>6, <3>1
  <2>2. CASE ~ \E l \in DOMAIN got : got[l].item = i
    BY <1>5, <2>2
  <2> QED
    BY <2>1, <2>2
<1>8. LinesBalance'
  <2> SUFFICES ASSUME NEW l \in LineIds, line'[l] # NoRow
               PROVE  line'[l].accepted + line'[l].pending = line'[l].normal
    BY DEF LinesBalance
  <2>1. CASE l \in DOMAIN got
    <3>1. line'[l] \in LineRow
      BY <1>2 DEF PurchasingTypeOK
    <3>2. line'[l].normal \in Nat
      BY <3>1 DEF LineRow
    <3> QED
      BY <1>4, <2>1, <3>2
  <2>2. CASE l \notin DOMAIN got
    BY <1>3, <2>2 DEF Receipts, LinesBalance
  <2> QED
    BY <2>1, <2>2
<1>9. ASSUME NEW k \in DOMAIN postings
      PROVE  postings[k].line \in LineIds /\ line[postings[k].line] # NoRow
             /\ postings[k].line \notin DOMAIN got
  <2>0. postings[k] \in PostingRow
    BY <1>2 DEF PurchasingTypeOK
  <2>1. postings[k].line \in LineIds
    BY <2>0 DEF PostingRow
  <2> QED
    BY <1>4, <2>1 DEF Receipts, PostingsHaveLines
<1>10. PostingsHaveLines'
  BY <1>2, <1>3, <1>9 DEF PostingsHaveLines
<1>11. PostingsAddUp'
  <2>1. ASSUME NEW l \in LineIds, line'[l] # NoRow PROVE (QuantityOn(PostingsOn(l)) = line[l].accepted)'
    <3>1. QuantityOn(PostingsOn(l))' = QuantityOn(PostingsOn(l))
      BY <1>2 DEF QuantityOn, PostingsOn
    <3>2. CASE l \in DOMAIN got
      <4>1. PostingsOn(l) = {}
        BY <1>9, <3>2 DEF PostingsOn
      <4>2. QuantityOn(PostingsOn(l)) = 0
        BY <4>1, TotalEmpty DEF QuantityOn
      <4> QED
        BY <1>4, <3>1, <3>2, <4>2
    <3>3. CASE l \notin DOMAIN got
      BY <1>3, <2>1, <3>1, <3>3 DEF Receipts, PostingsAddUp
    <3> QED
      BY <3>2, <3>3
  <2>2. ASSUME NEW p \in Products, NEW s \in Places
        PROVE  (stock[<<p, s>>] = QuantityOn(PostingsAt(p, s)))'
    <3>1. stock[<<p, s>>] = QuantityOn(PostingsAt(p, s))
      BY DEF Receipts, PostingsAddUp
    <3>2. QuantityOn(PostingsAt(p, s))' = QuantityOn(PostingsAt(p, s))
      BY <1>2 DEF QuantityOn, PostingsAt
    <3> QED
      BY <1>2, <3>1, <3>2
  <2> QED
    BY <2>1, <2>2 DEF PostingsAddUp
<1> QED
  BY <1>7, <1>8, <1>10, <1>11 DEF Receipts

LEMMA PostReceiptReceipts ==
  ASSUME PurchaseInv, PurchaseInv', Receipts, NEW u \in Users, NEW op \in ReceiptKeys \cup {NoReceiptKey},
         NEW l \in LineIds, NEW q \in Deliveries, NEW s \in Places, PostReceipt(u, op, l, q, s)
  PROVE  Receipts'
<1> DEFINE k == line[l].item
           row == [line |-> l, product |-> item[k].product, place |-> s, quantity |-> q,
                   by |-> u, operation |-> op]
<1>1. /\ line[l] # NoRow /\ line[l] \in LineRow /\ k \in ItemIds
      /\ line[l].pending \in Nat /\ line[l].accepted \in Nat /\ line[l].normal \in Nat
      /\ q \in Nat /\ q <= line[l].pending
      /\ PurchasingTypeOK /\ PurchasingTypeOK'
  BY PurchasingAssumption DEF PostReceipt, PurchaseInv, PurchasingTypeOK, LineRow
<1>2. /\ item[k] \in ItemRow /\ item[k].product \in Products /\ item[k].posted \in Nat
  BY <1>1 DEF PurchaseInv, Goods, ArrivalsKeepTheirOrder, ItemRow
<1>3. /\ postings' = Append(postings, row)
      /\ stock' = [stock EXCEPT ![<<item[k].product, s>>] = @ + q]
      /\ line' = [line EXCEPT ![l].pending = @ - q, ![l].accepted = @ + q]
      /\ item' = [item EXCEPT ![k].posted = @ + q]
  BY DEF PostReceipt
<1>4. /\ item'[k] = [item[k] EXCEPT !.posted = @ + q]
      /\ \A i \in ItemIds \ {k} : item'[i] = item[i]
  BY <1>1, <1>3 DEF PurchasingTypeOK
<1>5. /\ item'[k].arrived = item[k].arrived /\ item'[k].ordered = item[k].ordered
      /\ item'[k].posted = item[k].posted + q
  BY <1>1, <1>2, <1>4 DEF ItemRow
<1>6. /\ line'[l] = [line[l] EXCEPT !.pending = @ - q, !.accepted = @ + q]
      /\ \A m \in LineIds \ {l} : line'[m] = line[m]
  BY <1>1, <1>3 DEF PurchasingTypeOK
<1>7. /\ line'[l] # NoRow /\ line'[l].item = k
      /\ line'[l].quantity = line[l].quantity /\ line'[l].normal = line[l].normal
      /\ line'[l].accepted = line[l].accepted + q /\ line'[l].pending = line[l].pending - q
  <2>1. line'[l] = [[line[l] EXCEPT !.pending = line[l].pending - q]
                       EXCEPT !.accepted = line[l].accepted + q]
    BY <1>1, <1>6 DEF LineRow
  <2>2. line[l].pending - q \in Nat /\ line[l].accepted + q \in Nat
    BY <1>1
  <2>3. line'[l] \in LineRow
    BY <1>1, <2>1, <2>2 DEF LineRow
  <2> QED
    BY <1>1, <2>1, <2>3, PurchasingRowAssumption DEF LineRow
<1>8. \A i : LinesOf(i)' = LinesOf(i)
  BY <1>1, <1>6, <1>7 DEF LinesOf
<1>9. row \in PostingRow /\ row.line = l /\ row.product = item[k].product /\ row.place = s
      /\ row.quantity = q
  BY <1>2 DEF PostingRow
<1> HIDE DEF row, k
<1>10. ASSUME NEW i \in ItemIds, item'[i] \in ItemRow PROVE ItemAddsUp(i)'
  <2>1. \A m \in LinesOf(i) : line'[m].quantity = line[m].quantity /\ line'[m].normal = line[m].normal
    BY <1>6, <1>7 DEF LinesOf
  <2>2. ArrivedOn(i)' = ArrivedOn(i) /\ NormalOn(i)' = NormalOn(i)
    BY <1>8, <2>1, SameLines
  <2>3. CASE i = k
    <3>1. l \in LinesOf(i) /\ \A m \in LinesOf(i) \ {l} : line'[m] = line[m]
      BY <1>1, <1>6, <2>3 DEF LinesOf, k
    <3>2. AcceptedOn(i)' = AcceptedOn(i) + q
      BY <1>1, <1>7, <1>8, <3>1, LineAccepts
    <3> QED
      BY <1>2, <1>5, <2>2, <2>3, <3>2 DEF Receipts, ItemsAddUp, ItemAddsUp
  <2>4. CASE i # k
    <3>1. \A m \in LinesOf(i) : line'[m].accepted = line[m].accepted
      BY <1>6, <2>4 DEF LinesOf, k
    <3>2. AcceptedOn(i)' = AcceptedOn(i)
      BY <1>8, <2>1, <3>1, SameLines
    <3> QED
      BY <1>4, <1>10, <2>2, <2>4, <3>2 DEF Receipts, ItemsAddUp, ItemAddsUp
  <2> QED
    BY <2>3, <2>4
<1>11. LinesBalance'
  <2> SUFFICES ASSUME NEW m \in LineIds, line'[m] # NoRow
               PROVE  line'[m].accepted + line'[m].pending = line'[m].normal
    BY DEF LinesBalance
  <2>1. CASE m = l
    BY <1>1, <1>7, <2>1 DEF Receipts, LinesBalance
  <2>2. CASE m # l
    BY <1>6, <2>2 DEF Receipts, LinesBalance
  <2> QED
    BY <2>1, <2>2
<1> DEFINE n == Len(postings) + 1
<1>12. /\ DOMAIN postings' = DOMAIN postings \cup {n} /\ n \notin DOMAIN postings
       /\ \A j \in DOMAIN postings : postings'[j] = postings[j]
       /\ postings'[n] = row
       /\ \A S \in SUBSET DOMAIN postings :
             /\ SumFunction([j \in S |-> postings'[j].quantity])
                  = SumFunction([j \in S |-> postings[j].quantity])
             /\ SumFunction([j \in S \cup {n} |-> postings'[j].quantity])
                  = SumFunction([j \in S |-> postings[j].quantity]) + q
  <2>1. postings \in Seq(PostingRow)
    BY <1>1 DEF PurchasingTypeOK
  <2>2. postings' = Append(postings, row) /\ row \in PostingRow
    BY <1>3, <1>9
  <2>3. /\ Len(postings) \in Nat /\ DOMAIN postings = 1 .. Len(postings)
        /\ DOMAIN postings' = DOMAIN postings \cup {n}
        /\ \A j \in DOMAIN postings : postings'[j] = postings[j]
        /\ postings'[n] = row
    BY <2>1, <2>2, PostingAdded
  <2>4. \A S \in SUBSET DOMAIN postings :
          /\ SumFunction([j \in S |-> postings'[j].quantity])
               = SumFunction([j \in S |-> postings[j].quantity])
          /\ SumFunction([j \in S \cup {n} |-> postings'[j].quantity])
               = SumFunction([j \in S |-> postings[j].quantity]) + row.quantity
    BY <2>1, <2>2, PostingAdded
  <2>5. n \notin DOMAIN postings
    BY <2>3 DEF n
  <2>6. \A S \in SUBSET DOMAIN postings :
          /\ SumFunction([j \in S |-> postings'[j].quantity])
               = SumFunction([j \in S |-> postings[j].quantity])
          /\ SumFunction([j \in S \cup {n} |-> postings'[j].quantity])
               = SumFunction([j \in S |-> postings[j].quantity]) + q
    BY <1>9, <2>4, Zenon
  <2> HIDE DEF n
  <2> QED
    BY <2>3, <2>5, <2>6, Zenon
<1> HIDE DEF n
<1>13. PostingsHaveLines'
  <2> SUFFICES ASSUME NEW j \in DOMAIN postings' PROVE line'[postings'[j].line] # NoRow
    BY DEF PostingsHaveLines
  <2>1. CASE j = n
    BY <1>7, <1>9, <1>12, <2>1
  <2>2. CASE j # n
    <3>1. j \in DOMAIN postings /\ postings'[j] = postings[j]
      BY <1>12, <2>2
    <3>2. postings[j].line \in LineIds
      <4>1. postings[j] \in PostingRow
        BY <1>1, <3>1 DEF PurchasingTypeOK
      <4> QED
        BY <4>1 DEF PostingRow
    <3> QED
      BY <1>6, <1>7, <3>1, <3>2 DEF Receipts, PostingsHaveLines
  <2> QED
    BY <2>1, <2>2
<1>14. ASSUME NEW m \in LineIds, line'[m] # NoRow
       PROVE  (QuantityOn(PostingsOn(m)) = line[m].accepted)'
  <2>1. PostingsOn(m) \in SUBSET DOMAIN postings
    BY DEF PostingsOn
  <2>2. CASE m = l
    <3>1. PostingsOn(m)' = PostingsOn(m) \cup {n}
      BY <1>9, <1>12, <2>2 DEF PostingsOn
    <3>2. QuantityOn(PostingsOn(m))' = QuantityOn(PostingsOn(m)) + q
      BY <1>12, <2>1, <3>1 DEF QuantityOn
    <3>3. QuantityOn(PostingsOn(m)) = line[m].accepted
      BY <1>1, <2>2 DEF Receipts, PostingsAddUp
    <3> QED
      BY <1>7, <2>2, <3>2, <3>3
  <2>3. CASE m # l
    <3>1. PostingsOn(m)' = PostingsOn(m)
      BY <1>9, <1>12, <2>3 DEF PostingsOn
    <3>2. QuantityOn(PostingsOn(m))' = QuantityOn(PostingsOn(m))
      BY <1>12, <2>1, <3>1 DEF QuantityOn
    <3>3. line'[m] = line[m]
      BY <1>6, <2>3
    <3>4. QuantityOn(PostingsOn(m)) = line[m].accepted
      BY <1>14, <3>3 DEF Receipts, PostingsAddUp
    <3> QED
      BY <3>2, <3>3, <3>4
  <2> QED
    BY <2>2, <2>3
<1>15. ASSUME NEW p \in Products, NEW t \in Places
       PROVE  (stock[<<p, t>>] = QuantityOn(PostingsAt(p, t)))'
  <2>1. PostingsAt(p, t) \in SUBSET DOMAIN postings
    BY DEF PostingsAt
  <2>2. stock[<<p, t>>] = QuantityOn(PostingsAt(p, t))
    BY DEF Receipts, PostingsAddUp
  <2>3. stock \in [Products \X Places -> Nat] /\ <<p, t>> \in Products \X Places
    BY <1>1 DEF PurchasingTypeOK
  <2>4. CASE p = item[k].product /\ t = s
    <3>1. PostingsAt(p, t)' = PostingsAt(p, t) \cup {n}
      BY <1>9, <1>12, <2>4 DEF PostingsAt
    <3>2. QuantityOn(PostingsAt(p, t))' = QuantityOn(PostingsAt(p, t)) + q
      BY <1>12, <2>1, <3>1 DEF QuantityOn
    <3>3. stock'[<<p, t>>] = stock[<<p, t>>] + q
      BY <1>3, <2>3, <2>4
    <3> QED
      BY <2>2, <3>2, <3>3
  <2>5. CASE ~ (p = item[k].product /\ t = s)
    <3>1. PostingsAt(p, t)' = PostingsAt(p, t)
      BY <1>9, <1>12, <2>5 DEF PostingsAt
    <3>2. QuantityOn(PostingsAt(p, t))' = QuantityOn(PostingsAt(p, t))
      BY <1>12, <2>1, <3>1 DEF QuantityOn
    <3>3. <<p, t>> # <<item[k].product, s>>
      BY <2>5
    <3>4. stock'[<<p, t>>] = stock[<<p, t>>]
      BY <1>3, <2>3, <3>3
    <3> QED
      BY <2>2, <3>2, <3>4
  <2> QED
    BY <2>4, <2>5
<1>16. PostingsAddUp'
  BY <1>14, <1>15 DEF PostingsAddUp
<1> QED
  BY <1>10, <1>11, <1>13, <1>16 DEF Receipts, ItemsAddUp

LEMMA ReceiptsStep ==
  ASSUME PurchaseInv, PurchaseInv', Receipts, [PurchasingNext]_purchasingVars
  PROVE  Receipts'
<1>1. ASSUME NEW o \in Orders, NEW new \in Requests, CreateOrder(o, new) PROVE Receipts'
  BY <1>1, RewrittenIsNew, QuietReceipts DEF CreateOrder
<1>2. ASSUME NEW o \in Orders, NEW new \in Requests, EditOrder(o, new) PROVE Receipts'
  BY <1>2, RewrittenIsNew, QuietReceipts DEF EditOrder
<1>3. ASSUME UNCHANGED <<item, line, postings, stock>> PROVE Receipts'
  BY <1>3, QuietReceipts
<1>4. ASSUME NEW o \in Orders, NEW got \in Notices(o), RegisterArrival(o, got) PROVE Receipts'
  BY <1>4, RegisterArrivalReceipts
<1>5. ASSUME NEW u \in Users, NEW op \in ReceiptKeys \cup {NoReceiptKey}, NEW l \in LineIds,
             NEW q \in Deliveries, NEW s \in Places, PostReceipt(u, op, l, q, s)
      PROVE  Receipts'
  BY <1>5, PostReceiptReceipts
<1> QED
  BY <1>1, <1>2, <1>3, <1>4, <1>5
  DEF PurchasingNext, purchasingVars, Submit, Review, Cancel, Close

-----------------------------------------------------------------------------
(* The theorems.                                                           *)

LEMMA PurchaseStepKeepsInv ==
  ASSUME PurchaseInv, PurchasingNext
  PROVE  PurchaseInv' /\ Logged
<1>1. ASSUME NEW o \in Orders, NEW new \in Requests, CreateOrder(o, new) PROVE PurchaseInv' /\ Logged
  BY <1>1, CreateOrderStep
<1>2. ASSUME NEW o \in Orders, NEW new \in Requests, EditOrder(o, new) PROVE PurchaseInv' /\ Logged
  BY <1>2, EditOrderStep
<1>3. ASSUME NEW o \in Orders, Submit(o) PROVE PurchaseInv' /\ Logged
  BY <1>3, SubmitStep
<1>4. ASSUME NEW o \in Orders, NEW approved \in BOOLEAN, Review(o, approved) PROVE PurchaseInv' /\ Logged
  BY <1>4, ReviewStep
<1>5. ASSUME NEW o \in Orders, Cancel(o) PROVE PurchaseInv' /\ Logged
  BY <1>5, CancelStep
<1>6. ASSUME NEW o \in Orders, Close(o) PROVE PurchaseInv' /\ Logged
  BY <1>6, CloseStep
<1>7. ASSUME NEW o \in Orders, NEW got \in Notices(o), RegisterArrival(o, got) PROVE PurchaseInv' /\ Logged
  BY <1>7, RegisterArrivalStep
<1>8. ASSUME NEW u \in Users, NEW op \in ReceiptKeys \cup {NoReceiptKey}, NEW l \in LineIds,
             NEW q \in Deliveries, NEW s \in Places, PostReceipt(u, op, l, q, s)
      PROVE  PurchaseInv' /\ Logged
  BY <1>8, PostReceiptStep
<1> QED
  BY <1>1, <1>2, <1>3, <1>4, <1>5, <1>6, <1>7, <1>8 DEF PurchasingNext

LEMMA PurchaseStutterKeepsInv ==
  ASSUME PurchaseInv, UNCHANGED purchasingVars
  PROVE  PurchaseInv'
BY DEF PurchaseInv, Goods, PurchasingTypeOK, ArrivalsKeepTheirOrder, HasItems, OrdersSomething,
       GoodsComeOnLines, FullyMeansComplete, PartialMeansSome, LogIsCurrent,
       OnePostingPerOperation, ItemsOf, LinesOf, purchasingVars

\* The inductive invariant holds in every behaviour of the purchasing tables.
THEOREM PurchasingInvariant == PurchasingSpec => []PurchaseInv
<1>1. PurchasingInit => PurchaseInv
  BY PurchaseStarts
<1>2. PurchaseInv /\ [PurchasingNext]_purchasingVars => PurchaseInv'
  BY PurchaseStepKeepsInv, PurchaseStutterKeepsInv
<1> QED
  BY <1>1, <1>2, PTL DEF PurchasingSpec

\* The tables hold rows of their types, whatever requests the services of
\* procurement and receiving answer.
THEOREM PurchasingTypes == PurchasingSpec => []PurchasingTypeOK
<1>1. PurchaseInv => PurchasingTypeOK
  BY DEF PurchaseInv
<1> QED
  BY <1>1, PurchasingInvariant, PTL

\* What the status of an order says of its goods is true (_advance_order_status
\* and the guards of edit, cancel and receipt), for any orders and requests.
THEOREM StatusTells == PurchasingSpec => []StatusTellsReceipts
<1>1. PurchaseInv => StatusTellsReceipts
  BY InvTells
<1> QED
  BY <1>1, PurchasingInvariant, PTL

\* post_receipt posts a client operation of an operator once.
THEOREM OperationsPostOnce == PurchasingSpec => []OnePostingPerOperation
<1>1. PurchaseInv => OnePostingPerOperation
  BY DEF PurchaseInv
<1> QED
  BY <1>1, PurchasingInvariant, PTL

\* The receipts add up (register_arrival, post_receipt): lines to their item,
\* posting rows to their line and to the stock of their place, however goods
\* are split, over-delivered and posted in parts, and no operation posts twice.
THEOREM ReceiptsAlwaysAddUp == PurchasingSpec => []ReceiptsAddUp
<1>1. PurchasingInit => Receipts
  BY InitReceipts
<1>2. PurchaseInv /\ PurchaseInv' /\ Receipts /\ [PurchasingNext]_purchasingVars => Receipts'
  BY ReceiptsStep
<1>3. PurchaseInv /\ Receipts => ReceiptsAddUp
  BY ReceiptsTell
<1> QED
  BY <1>1, <1>2, <1>3, PurchasingInvariant, PTL DEF PurchasingSpec

\* Both services log every change of an order's status, and none changes a
\* closed or cancelled order.
THEOREM StatusLogged == PurchasingSpec => StatusChangesAreLogged
<1>1. PurchaseInv /\ [PurchasingNext]_purchasingVars => [Logged]_purchasingVars
  BY PurchaseStepKeepsInv
<1>2. PurchasingSpec => [][Logged]_purchasingVars
  BY <1>1, PurchasingInvariant, PTL DEF PurchasingSpec
<1> QED
  BY <1>2 DEF StatusChangesAreLogged, Logged

-----------------------------------------------------------------------------
(* The parts together.                                                     *)

LEMMA ChainStarts ==
  Init => PurchasingInit /\ PlanningInit /\ ApprovalInit /\ ReportsInit /\ StockInit
BY DEF Init

LEMMA ChainStep ==
  [Next]_vars => /\ [PurchasingNext]_purchasingVars /\ [PlanningNext]_planningVars
                 /\ [ApprovalNext]_approvalVars /\ [ReportsNext]_reportsVars
                 /\ [StockNext]_stockVars
<1>1. CASE UNCHANGED vars
  BY <1>1 DEF vars
<1>2. CASE Next
  BY <1>2 DEF Next, PurchasingTurn, PlanningTurn, ApprovalTurn, ReportsTurn, StockTurn
<1> QED
  BY <1>1, <1>2

\* A behaviour of the five modules together is one of each of them, so what is
\* proved of a module holds wherever the others run beside it.
THEOREM ChainIsItsParts ==
  Spec => PurchasingSpec /\ PlanningSpec /\ ApprovalSpec /\ ReportsSpec /\ StockSpec
BY ChainStarts, ChainStep, PTL
   DEF Spec, PurchasingSpec, PlanningSpec, ApprovalSpec, ReportsSpec, StockSpec

\* The variables of the production chain have values of their types, whichever
\* of its modules runs.
THEOREM ProductionTypesHold == Spec => []ProductionTypes
<1>1. /\ PurchasingTypeOK /\ PlanningTypeOK /\ ApprovalTypeOK /\ ReportsTypeOK /\ StockTypeOK
      => ProductionTypes
  BY DEF ProductionTypes
<1> QED
  BY <1>1, ChainIsItsParts, PurchasingTypes, PlanningTypes, ApprovalTypes, ReportsTypes,
     StockTypes, PTL
=============================================================================
