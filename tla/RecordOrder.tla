----------------------------- MODULE RecordOrder -----------------------------
(***************************************************************************)
(* The manual order of one list (utils/table_order.py and its routes): the *)
(* rows of sys_table_order for one table_key beside the rows of the table. *)
(* A move reads the whole order, puts one record elsewhere and writes the  *)
(* whole order back; on SQLite the reading is outside the transaction, so  *)
(* moves overlap.  A step reads the order once to find its target and then *)
(* again to move.                                                          *)
(***************************************************************************)
EXTENDS Tables, Integers, SequencesExt

CONSTANTS ListRecords,  \* ids the table can give out, in this order
          Movers,
          Targets       \* bound: positions records are moved to

ASSUME RecordOrderAssumption ==
    ListRecords \subseteq Nat /\ IsFiniteSet(ListRecords) /\ Targets \subseteq Int

\* A move under way: the order it has read, none yet in a step.
ListMove == [record : ListRecords, target : Int, ids : Seq(ListRecords)]

ASSUME MoveAssumption == NoCall \notin ListMove

VARIABLES listed,    \* rows of the table
          position,  \* rows of sys_table_order, 0: none
          move       \* what each mover is doing

orderVars == <<listed, position, move>>

OrderInit ==
    /\ listed = [r \in ListRecords |-> NoRow]
    /\ position = [r \in ListRecords |-> 0]
    /\ move = [c \in Movers |-> NoCall]

Present == {r \in ListRecords : listed[r] \notin Absent}

\* ORDER BY: placed records first, the others newest first.
Precedes(r, s) ==
    \/ position[r] # 0 /\ position[s] = 0
    \/ position[r] # 0 /\ position[s] # 0 /\ position[r] < position[s]
    \/ position[r] = position[s] /\ r > s

ordered_ids ==
    [i \in 1 .. Cardinality(Present) |->
        CHOOSE r \in Present : Cardinality({s \in Present : Precedes(s, r)}) = i - 1]

Place(ids, r) == CHOOSE i \in DOMAIN ids : ids[i] = r

FaultyReorder(ids, r, target) ==   \* the record stays where it was as well
    InsertAt(ids, IF target > Len(ids) + 1 THEN Len(ids) + 1 ELSE IF target < 1 THEN 1 ELSE target, r)

\* reorder_ids: the target is cut to a position the list has.
Reorder(ids, r, target) ==
    LET rest == RemoveAt(ids, Place(ids, r))
        end == Len(rest) + 1
    IN InsertAt(rest, IF target > end THEN end ELSE IF target < 1 THEN 1 ELSE target, r)

AddRecord(r) ==
    /\ listed[r] = NoRow
    /\ \A s \in ListRecords : s < r => listed[s] # NoRow
    /\ listed' = [listed EXCEPT ![r] = "row"]
    /\ UNCHANGED <<position, move>>

\* Its row of sys_table_order stays.
DeleteRecord(r) ==
    /\ r \in Present
    /\ listed' = [listed EXCEPT ![r] = Deleted]
    /\ UNCHANGED <<position, move>>

ReadMove(c, r, target) ==
    /\ move[c] = NoCall
    /\ r \in Present
    /\ move' = [move EXCEPT ![c] = [record |-> r, target |-> target, ids |-> ordered_ids]]
    /\ UNCHANGED <<listed, position>>

BeginStep(c, r, direction) ==
    /\ move[c] = NoCall
    /\ r \in Present
    /\ LET here == Place(ordered_ids, r)
       IN move' = [move EXCEPT ![c] =
             [record |-> r, target |-> IF direction = "up" THEN here - 1 ELSE here + 1,
              ids |-> <<>>]]
    /\ UNCHANGED <<listed, position>>

\* Of a record deleted meanwhile it is said that it does not exist.
ReadStep(c) ==
    /\ move[c] # NoCall /\ move[c].ids = <<>>
    /\ move' = [move EXCEPT ![c] = IF move[c].record \in Present
                                   THEN [@ EXCEPT !.ids = ordered_ids] ELSE NoCall]
    /\ UNCHANGED <<listed, position>>

Persist(c) ==
    /\ move[c] # NoCall /\ move[c].ids # <<>>
    /\ LET ids == Reorder(move[c].ids, move[c].record, move[c].target)
       IN position' = [r \in ListRecords |->
             IF \E i \in DOMAIN ids : ids[i] = r THEN Place(ids, r) ELSE 0]
    /\ move' = [move EXCEPT ![c] = NoCall]
    /\ UNCHANGED listed

OrderNext ==
    \/ \E r \in ListRecords : AddRecord(r) \/ DeleteRecord(r)
    \/ \E c \in Movers :
          \/ \E r \in ListRecords :
                \/ \E target \in Targets : ReadMove(c, r, target)
                \/ \E direction \in {"up", "down"} : BeginStep(c, r, direction)
          \/ ReadStep(c) \/ Persist(c)

OrderSpec == OrderInit /\ [][OrderNext]_orderVars

-----------------------------------------------------------------------------
(* Properties.                                                             *)

\* The variables have values of their types; an order that was read lists no
\* record twice and has the record that moves.
OrderTypeOK ==
    /\ listed \in [ListRecords -> {"row"} \cup Absent]
    /\ position \in [ListRecords -> Nat]
    /\ move \in [Movers -> ListMove \cup {NoCall}]
    /\ \A c \in Movers : move[c] # NoCall =>
          /\ IsInjective(move[c].ids)
          /\ move[c].ids # <<>> => \E i \in DOMAIN move[c].ids : move[c].ids[i] = move[c].record

\* The positions stored are 1, 2, ... without a hole or a tie, however moves
\* overlap that each read the order and write it back whole (persist_order).
Placed == {r \in ListRecords : position[r] # 0}
PositionsRun == {position[r] : r \in Placed} = 1 .. Cardinality(Placed)
=============================================================================
