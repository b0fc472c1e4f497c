------------------------- MODULE MCMachineInspection -------------------------
(***************************************************************************)
(* One serial number at one step.                                          *)
(***************************************************************************)
EXTENDS MachineInspection, TLC

CONSTANTS e1, s1, m1, h1, h2, i1, i2, v1, q1, q2, c1, c2, c3

MCStepOf == [e \in Endpoints |-> 1]

Ask(e, n) == [ep |-> e, sn |-> s1, no |-> n]
Csv(e, result, n) == [ep |-> e, sn |-> s1, result |-> result, no |-> n]

MCRequests == {Ask(e1, n) : n \in {q1, q2}}
MCFiles == {Csv(e1, "NG", c1), Csv(e1, "NG", c2), Csv(e1, "OK", c3)}

\* Two of a kind differ in nothing but their name.
Names_Symmetry ==
    Permutations({h1, h2}) \union Permutations({i1, i2})
        \union Permutations({q1, q2}) \union Permutations({c1, c2})
=============================================================================
