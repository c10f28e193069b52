------------------------------ MODULE MCBilling ------------------------------
(***************************************************************************)
(* Values for the constants of Billing: a day of three seconds of two      *)
(* nanoseconds, so that the last second before a deadline is two steps of  *)
(* the clock long.  App13CH costs two cycles per second, App7CH one, and   *)
(* both have a remainder that is rounded away.  A period costs 7 cycles at *)
(* App13CH; the agreement may have got fewer or more for its ICP.          *)
(***************************************************************************)
EXTENDS BillingProperties

CONSTANTS target, other

MCSubnet == {target, other}
MCInitialCycles == [s \in MCSubnet |-> IF s = target THEN {4} ELSE {2}]
\* The price of ICP has fallen to a third since the proposal.
MCFewCycles == [s \in MCSubnet |-> {2}]
MCTopUpCycles == [s \in MCSubnet |-> IF s = target THEN {1, 7} ELSE {}]
MCDailyCost == [c \in RentalConditionId |-> IF c = App13CH THEN 7 ELSE 4]
==============================================================================
