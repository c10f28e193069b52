---------------------------- MODULE MCSubnetRental ----------------------------
(***************************************************************************)
(* Values for the constants of SubnetRental.  A request is locked in two   *)
(* parts, one a day, so that it is fully locked within the bounds.         *)
(***************************************************************************)
EXTENDS SubnetRentalProperties, TLC

CONSTANTS s1, s2, c1, c2, t1, t2, t3

OneUser     == {1}
TwoUsers    == {1, 2}
OneSubnet   == {s1}
TwoSubnets  == {s1, s2}
OneCond     == {c1}
TwoConds    == {c1, c2}
TwoTasks    == {t1, t2}
ThreeTasks  == {t1, t2, t3}

\* Each payment is of 4, the price of a request.
OnePayment    == [u \in User |-> 4]
TwoPayments   == [u \in User |-> 8]
ThreePayments == [u \in User |-> 12]

\* The user whom a locking loop comes to first pays once, another three times.
FirstPaysOnce == [u \in User |-> IF u = 1 THEN 4 ELSE 12]

\* Subnets, conditions and tasks are interchangeable; users are ordered.
Symmetry == Permutations(Subnet) \cup Permutations(Condition) \cup Permutations(Task)

NoFaults    == {}
AllFaults   == Callee
==============================================================================
