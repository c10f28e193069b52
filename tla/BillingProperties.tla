-------------------------- MODULE BillingProperties --------------------------
(***************************************************************************)
(* What the bookkeeping of agreements must keep.                           *)
(***************************************************************************)
EXTENDS Billing

\* Every variable has its type: deadlines fit u64 whatever was topped up, and
\* an open call has read an agreement.
TypeOK ==
    /\ now \in Time
    /\ agreements \in [Subnet -> Agreement \cup {None}]
    /\ calls \subseteq Call
    /\ switches \in [Subnet -> Nat]

\* An agreement that rental_agreement_status reports as covered for a day or
\* more still has cycles_left: however early or late the timer fires, whatever
\* rate the cycles were bought at and whoever tops up or upgrades in between,
\* the burning never runs dry before the last run ahead of the deadline.
CoveredMeansFunded ==
    \A s \in Subnet :
        (/\ agreements[s] # None
         /\ DaysRemaining(agreements[s].paid, now) >= 1)
        => Remaining(agreements[s]) > 0

\* The migration runs on every upgrade and switches one agreement, once: the
\* target's history has at most one RentalConditionSwitched event, then the
\* agreement is on App7CH, and no other subnet has one.
SwitchedOnce ==
    \A s \in Subnet : switches[s] > 0 =>
        /\ switches[s] = 1
        /\ s = TARGET_SUBNET
        /\ agreements[s] # None /\ agreements[s].cond = App7CH

\* A deadline is never moved back, by a top-up that overlaps another one, by
\* the cap at the end of time or by an upgrade; only the switch of conditions
\* counts anew.
DeadlineKept ==
    [][\A s \in Subnet : agreements[s] # None =>
          \/ agreements'[s].paid >= agreements[s].paid
          \/ agreements[s].cond # agreements'[s].cond]_vars

\* Call f ends with a top-up of cycles recorded.
TopUpEnds(f, cycles) ==
    /\ f.op = "topup" /\ f \notin calls'
    /\ agreements'[f.subnet].created = agreements[f.subnet].created + cycles

\* top_up_subnet reports the days it added.  The status query agrees: of an
\* agreement that was not past due it shows as many days more, or one more as
\* both round down, but where the deadline was capped.
TopUpDaysHonest ==
    [][\A f \in calls, cycles \in 1 .. MaxCycles : TopUpEnds(f, cycles) =>
          LET a == agreements[f.subnet]
              b == agreements'[f.subnet]
              added == DaysRemaining(b.paid, now) - DaysRemaining(a.paid, now)
              told == DaysAdded(cycles, DailyCost[a.cond])
          IN  \/ PastDue(a)
              \/ b.paid = MAX_U64
              \/ added \in {told, told + 1}]_vars

------------------------------------------------------------------------------
(* Refinement *)

PaidIn == [s \in Subnet |-> IF agreements[s] = None THEN 0 ELSE agreements[s].created]
Drawn  == [s \in Subnet |-> IF agreements[s] = None THEN 0 ELSE agreements[s].burned]

Account == INSTANCE PrepaidAccount WITH paidIn <- PaidIn, drawn <- Drawn

\* The books are a prepaid account per subnet: no top-up forgets what another
\* one created, no burn is forgotten, none exceeds what is left.
AccountSpec == Account!Spec

------------------------------------------------------------------------------
(* Liveness *)

\* The timer burns what is left of an agreement that is past due, if its guard
\* is not taken for ever: a deadline of another subnet, whose last second makes
\* the timer trap, only delays it.
PastDueDrained ==
    \A s \in Subnet :
        <>[]Free(s) => []<>(\/ agreements[s] = None
                            \/ Remaining(agreements[s]) = 0
                            \/ ~PastDue(agreements[s]))

------------------------------------------------------------------------------
(* What a comment and a test of the source say, and the code does not do *)

\* migration.rs:43 "the unburned cycles just buy more days at App7CH's cheaper
\* rate": the switch never shortens what an agreement is paid for.
MigrationBuysDays ==
    [][\A s \in Subnet :
          switches'[s] # switches[s] => agreements'[s].paid >= agreements[s].paid]_vars
==============================================================================
