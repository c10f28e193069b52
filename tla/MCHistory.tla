------------------------------ MODULE MCHistory ------------------------------
(***************************************************************************)
(* Values for the constants of History: one subnet and the rental          *)
(* conditions, two versions of the code, and pages of two events.          *)
(***************************************************************************)
EXTENDS HistoryProperties

CONSTANTS k1, n1, r1

MCKey == {k1, NoPrincipal}
MCNote == {n1}
MCReader == {r1}
MCCost == {8, 5, 4}
MCVersion == 1 .. 2
MCDailyCost == [v \in MCVersion |->
    [c \in RentalConditionId |-> IF c = App13CH THEN 8 ELSE 3 + v]]
==============================================================================
