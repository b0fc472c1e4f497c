------------------------------- MODULE Tables --------------------------------
(***************************************************************************)
(* What the modules about the relational tables share.  The ids of a table *)
(* are AUTOINCREMENT: an id not yet given out has NoRow, and one whose row *)
(* was deleted is never given out again.                                   *)
(***************************************************************************)
CONSTANTS NoRow, Deleted,
          NoCall   \* of a request that is not between two of its statements

ASSUME TablesAssumption == NoRow # Deleted

Absent == {NoRow, Deleted}
=============================================================================
