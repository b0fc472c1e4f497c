----------------------------- MODULE ToolLending -----------------------------
(***************************************************************************)
(* Tools and their borrow records (blueprints/tool.py).  Lending and       *)
(* returning are BEGIN IMMEDIATE transactions; changing or deleting a tool *)
(* or a record first reads what is outstanding and then writes by id.      *)
(***************************************************************************)
EXTENDS Tables, Integers, FiniteSets, Functions

CONSTANTS Tools, Borrows,   \* ids the tables can give out
          Storekeepers,
          MaxQuantity       \* bound: quantities asked for

Tool == [quantity : 0 .. MaxQuantity, enabled : BOOLEAN]
Borrow == [tool : Tools, borrowed : 1 .. MaxQuantity, returned : 0 .. MaxQuantity, status : 0 .. 1]
DeskCall ==
    [kind : {"update"}, tool : Tools, seen : Nat, quantity : 0 .. MaxQuantity, enabled : BOOLEAN]
    \cup [kind : {"forget"}, borrow : Borrows]

ASSUME ToolAssumption ==
    /\ IsFiniteSet(Borrows)   \* SUM(...) adds the rows of a table
    /\ MaxQuantity \in Nat
    /\ \A x \in Absent : x \notin Tool /\ x \notin Borrow
    /\ NoCall \notin DeskCall

VARIABLES tool,     \* tool_ledger
          borrow,   \* tool_borrow
          deskCall, \* what each storekeeper has read and is about to write
          overlent  \* history: tools lent out between the two steps of an update

toolVars == <<tool, borrow, deskCall, overlent>>

ToolInit ==
    /\ tool = [t \in Tools |-> NoRow]
    /\ borrow = [b \in Borrows |-> NoRow]
    /\ deskCall = [c \in Storekeepers |-> NoCall]
    /\ overlent = {}

Lent(b) == borrow[b] \notin Absent

OpenBorrows(t) == {b \in Borrows : Lent(b) /\ borrow[b].tool = t /\ borrow[b].status = 0}

\* SUM(borrow_qty - return_qty) over the records of t with status 0.
Outstanding(t) ==
    SumFunction([b \in OpenBorrows(t) |-> borrow[b].borrowed - borrow[b].returned])

AddTool(t, q, enabled) ==
    /\ tool[t] = NoRow
    /\ tool' = [tool EXCEPT ![t] = [quantity |-> q, enabled |-> enabled]]
    /\ UNCHANGED <<borrow, deskCall, overlent>>

JudgeToolUpdate(c, t, q, enabled) ==
    /\ deskCall[c] = NoCall
    /\ tool[t] # NoRow
    /\ Outstanding(t) <= q
    /\ deskCall' = [deskCall EXCEPT ![c] =
          [kind |-> "update", tool |-> t, seen |-> Outstanding(t), quantity |-> q, enabled |-> enabled]]
    /\ UNCHANGED <<tool, borrow, overlent>>

ApplyToolUpdate(c) ==
    /\ deskCall[c] # NoCall /\ deskCall[c].kind = "update"
    /\ LET t == deskCall[c].tool
       IN /\ tool' = IF tool[t] = Deleted THEN tool
                     ELSE [tool EXCEPT ![t] = [quantity |-> deskCall[c].quantity,
                                               enabled |-> deskCall[c].enabled]]
          /\ overlent' = IF Outstanding(t) > deskCall[c].seen THEN overlent \cup {t} ELSE overlent
    /\ deskCall' = [deskCall EXCEPT ![c] = NoCall]
    /\ UNCHANGED borrow

\* A record lent out after the check keeps the tool by its foreign key, and
\* so does one that was returned.
DeleteTool(t) ==
    /\ tool[t] \notin Absent
    /\ \A b \in Borrows : Lent(b) => borrow[b].tool # t
    /\ tool' = [tool EXCEPT ![t] = Deleted]
    /\ UNCHANGED <<borrow, deskCall, overlent>>

FaultyLend(b, t, q) ==   \* what is lent out is not taken off the quantity
    /\ borrow[b] = NoRow
    /\ tool[t] \notin Absent /\ tool[t].enabled
    /\ q <= tool[t].quantity
    /\ borrow' = [borrow EXCEPT ![b] = [tool |-> t, borrowed |-> q, returned |-> 0, status |-> 0]]
    /\ UNCHANGED <<tool, deskCall, overlent>>

Lend(b, t, q) ==
    /\ borrow[b] = NoRow
    /\ tool[t] \notin Absent /\ tool[t].enabled
    /\ Outstanding(t) + q <= tool[t].quantity
    /\ borrow' = [borrow EXCEPT ![b] = [tool |-> t, borrowed |-> q, returned |-> 0, status |-> 0]]
    /\ UNCHANGED <<tool, deskCall, overlent>>

Return(b, q) ==
    /\ Lent(b) /\ borrow[b].status = 0
    /\ borrow[b].returned + q <= borrow[b].borrowed
    /\ LET total == borrow[b].returned + q
       IN borrow' = [borrow EXCEPT ![b].returned = total,
                                   ![b].status = IF total = borrow[b].borrowed THEN 1 ELSE 0]
    /\ UNCHANGED <<tool, deskCall, overlent>>

JudgeForget(c, b) ==
    /\ deskCall[c] = NoCall
    /\ Lent(b) /\ borrow[b].status = 1
    /\ deskCall' = [deskCall EXCEPT ![c] = [kind |-> "forget", borrow |-> b]]
    /\ UNCHANGED <<tool, borrow, overlent>>

ApplyForget(c) ==
    /\ deskCall[c] # NoCall /\ deskCall[c].kind = "forget"
    /\ borrow' = [borrow EXCEPT ![deskCall[c].borrow] = Deleted]
    /\ deskCall' = [deskCall EXCEPT ![c] = NoCall]
    /\ UNCHANGED <<tool, overlent>>

ToolNext ==
    \/ \E t \in Tools :
          \/ \E q \in 0 .. MaxQuantity, enabled \in BOOLEAN :
                AddTool(t, q, enabled) \/ \E c \in Storekeepers : JudgeToolUpdate(c, t, q, enabled)
          \/ DeleteTool(t)
          \/ \E b \in Borrows, q \in 1 .. MaxQuantity : Lend(b, t, q)
    \/ \E b \in Borrows :
          \/ \E q \in 1 .. MaxQuantity : Return(b, q)
          \/ \E c \in Storekeepers : JudgeForget(c, b)
    \/ \E c \in Storekeepers : ApplyToolUpdate(c) \/ ApplyForget(c)

ToolSpec == ToolInit /\ [][ToolNext]_toolVars

-----------------------------------------------------------------------------
(* Properties.                                                             *)

\* The variables hold rows of the tables' types.
ToolTypeOK ==
    /\ tool \in [Tools -> Tool \cup Absent]
    /\ borrow \in [Borrows -> Borrow \cup Absent]
    /\ deskCall \in [Storekeepers -> DeskCall \cup {NoCall}]
    /\ overlent \subseteq Tools

\* No more of a tool is lent out than there is of it, as long as none was lent
\* between the check and the write of a change to its quantity.  A record is
\* closed exactly when all of it is back, its tool exists, and one judged to
\* be deletable still is.
LentWithinStock ==
    /\ \A t \in Tools \ overlent : tool[t] \notin Absent => Outstanding(t) <= tool[t].quantity
    /\ \A b \in Borrows : Lent(b) =>
          /\ borrow[b].returned <= borrow[b].borrowed
          /\ borrow[b].status = 1 <=> borrow[b].returned = borrow[b].borrowed
          /\ tool[borrow[b].tool] \notin Absent
    /\ \A c \in Storekeepers : deskCall[c] # NoCall /\ deskCall[c].kind = "forget" =>
          borrow[deskCall[c].borrow] = Deleted \/ borrow[deskCall[c].borrow].status = 1
=============================================================================
