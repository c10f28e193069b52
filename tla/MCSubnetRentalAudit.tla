------------------------- MODULE MCSubnetRentalAudit -------------------------
(***************************************************************************)
(* The audited canister, with the constants' values of MCSubnetRental.     *)
(***************************************************************************)
EXTENDS MCSubnetRental, SubnetRentalAudit

\* The events and the CMC's list of users are left out of what tells states apart:
\* no step reads them, and no property of the runs with this view looks at them.
AuditView == <<locks, requests, agreements, calls, now, sub, deposited, cycles, audit>>
==============================================================================
