------------------------------- MODULE Billing -------------------------------
(***************************************************************************)
(* The life of a rental agreement: the timer burns its cycles towards the  *)
(* deadline, top-ups add cycles and move the deadline, and the migration   *)
(* of an upgrade prices what is left anew.                                 *)
(*                                                                         *)
(* How an agreement comes about, and how a top-up's balance, transfer and  *)
(* notification may fail and interleave with the other handlers, is told   *)
(* in SubnetRental.  Here a top-up has one await, and the guard of an      *)
(* agreement is the open call that holds it: SubnetRental's LocksOwned     *)
(* says that the two are the same.                                         *)
(***************************************************************************)
EXTENDS Deadlines

CONSTANTS
    Subnet,
    TARGET_SUBNET,      \* the subnet whose agreement the migration moves
    None,               \* an absent agreement (Option::None)
    App13CH, App7CH,    \* the keys of the rental conditions
    DailyCost,          \* DailyCost[c]: daily_cost_cycles of condition c
    INITIAL_RENTAL_PERIOD_DAYS,
    InitialCycles,      \* InitialCycles[s]: cycles s may start with
    TopUpCycles,        \* TopUpCycles[s]: cycles a top-up of s may create
    MaxShort,           \* cycles that may be missing when the canister burns
    LastCreation,       \* bound on the time at which agreements are created
    MaxCycles,          \* bound on the cycles created for an agreement
    MaxTime             \* bound on the clock

RentalConditionId == {App13CH, App7CH}

InitialPeriod == INITIAL_RENTAL_PERIOD_DAYS * NANOS_PER_DAY

ASSUME ConditionAssumption ==
    /\ App13CH # App7CH
    /\ TARGET_SUBNET \in Subnet
    /\ DailyCost \in [RentalConditionId -> Nat]
    /\ \A c \in RentalConditionId : DailyCost[c] >= SECONDS_PER_DAY
    /\ INITIAL_RENTAL_PERIOD_DAYS \in Nat
ASSUME CyclesAssumption ==
    /\ InitialCycles \in [Subnet -> SUBSET (Nat \ {0})]
    /\ TopUpCycles \in [Subnet -> SUBSET Nat]
    /\ MaxShort \in Nat
    /\ MaxCycles \in Nat
\* Time is u64, and no agreement is created in its last period.
ASSUME ClockAssumption ==
    /\ MaxTime \in Time
    /\ LastCreation \in Nat
    /\ LastCreation + InitialPeriod <= MAX_U64

VARIABLES
    now,         \* ic_cdk::api::time(), nanoseconds
    agreements,  \* RENTAL_AGREEMENTS
    calls,       \* the set of open calls that hold an agreement's guard
    switches     \* RentalConditionSwitched events of each subnet in HISTORY

vars == <<now, agreements, calls, switches>>

Agreement == [cond : RentalConditionId, paid : Time, created : Nat, burned : Nat]

ASSUME NoneAssumption == None \notin Agreement

\* copy is the agreement a top-up has read when it started; a change of admins
\* keeps none.
Call == [op : {"topup"}, subnet : Subnet, copy : Agreement]
        \cup [op : {"admins"}, subnet : Subnet]

------------------------------------------------------------------------------
(* Guards *)

\* Variant: the guard is not looked at.
Ignored(s) == TRUE

\* Nobody holds the "agreement" guard of s.
Free(s) == \A f \in calls : f.subnet # s

\* The canister has stopped: no call is open.
Stopped == calls = {}

------------------------------------------------------------------------------
(* Agreements *)

Remaining(a) == Less(a.created, a.burned)

PastDue(a) == now >= a.paid

\* execute_create_rental_agreement records an agreement; the time it counts
\* from was read before the CMC was asked to authorize the user.
CreateAgreement(s) ==
    /\ agreements[s] = None
    /\ \E c \in RentalConditionId, cycles \in InitialCycles[s],
          converted \in 0 .. now :
          agreements' = [agreements EXCEPT ![s] =
              [cond |-> c, paid |-> converted + InitialPeriod,
               created |-> cycles, burned |-> 0]]
    /\ now <= LastCreation
    /\ UNCHANGED <<now, calls, switches>>

\* A handler takes the guard of an agreement and calls out.
Enter(f) ==
    /\ Free(f.subnet)
    /\ agreements[f.subnet] # None
    /\ calls' = calls \cup {f}
    /\ UNCHANGED <<now, agreements, switches>>

\* top_up_subnet
TopUpStart(s) == Enter([op |-> "topup", subnet |-> s, copy |-> agreements[s]])

\* update_subnet_admins
AdminsStart(s) == Enter([op |-> "admins", subnet |-> s])

\* The agreement once a top-up that started from copy has created cycles: the
\* totals and the deadline come from copy, the rest from the agreement itself.
ToppedUp(a, copy, cycles) ==
    [a EXCEPT !.created = copy.created + cycles,
              !.paid = Extended(copy.paid, now, cycles, DailyCost[copy.cond])]

\* top_up_subnet goes on after the conversion.
TopUpDone(f) ==
    /\ f.op = "topup"
    /\ \E cycles \in TopUpCycles[f.subnet] :
          /\ f.copy.created + cycles <= MaxCycles
          /\ agreements' = [agreements EXCEPT ![f.subnet] =
                ToppedUp(@, f.copy, cycles)]
    /\ calls' = calls \ {f}
    /\ UNCHANGED <<now, switches>>

\* A top-up fails, or the registry has answered a change of admins.
End(f) ==
    /\ calls' = calls \ {f}
    /\ UNCHANGED <<now, agreements, switches>>

------------------------------------------------------------------------------
(* The burn timer *)

\* Variant: nothing is burned once the deadline has passed.
BurnableWhilePaid ==
    {s \in Subnet : /\ Free(s) /\ agreements[s] # None
                    /\ Remaining(agreements[s]) > 0 /\ ~PastDue(agreements[s])}

\* Agreements that burn_cycles does not skip.
Burnable ==
    {s \in Subnet : Free(s) /\ agreements[s] # None /\ Remaining(agreements[s]) > 0}

\* What it asks the system to burn.
ToBurn(a) ==
    IF PastDue(a)
    THEN Remaining(a)
    ELSE BurnedPerRun(Remaining(a), SecondsRemaining(a.paid, now))

\* The timer fires: one message goes over all agreements.  short[s] cycles are
\* missing for s in the canister's balance, and then fewer are burned.  In the
\* last second before a deadline the time left in whole seconds is zero: the
\* division traps and undoes the message, the burns of other subnets included.
Burn(short) ==
    /\ \A s \in Burnable : \/ PastDue(agreements[s])
                           \/ SecondsRemaining(agreements[s].paid, now) > 0
    /\ agreements' = [s \in Subnet |->
          IF s \in Burnable
          THEN [agreements[s] EXCEPT !.burned = @ + Less(ToBurn(agreements[s]), short[s])]
          ELSE agreements[s]]
    /\ UNCHANGED <<now, calls, switches>>

------------------------------------------------------------------------------
(* Upgrades *)

\* Variant: any agreement of the target is repriced, however often.
OfTarget(s) == s = TARGET_SUBNET /\ agreements[s] # None

\* The agreement that app13ch_to_app7ch moves.
MustSwitch(s) ==
    /\ s = TARGET_SUBNET
    /\ agreements[s] # None
    /\ agreements[s].cond = App13CH

Switched(a) ==
    [a EXCEPT !.cond = App7CH,
              !.paid = Reprice(Remaining(a), DailyCost[App7CH], now)]

\* post_upgrade: the conditions are the constants of this module, and the
\* migration runs, each time.
Upgrade ==
    /\ Stopped
    /\ agreements' = [s \in Subnet |->
          IF MustSwitch(s) THEN Switched(agreements[s]) ELSE agreements[s]]
    /\ switches' = [s \in Subnet |->
          IF MustSwitch(s) THEN switches[s] + 1 ELSE switches[s]]
    /\ UNCHANGED <<now, calls>>

------------------------------------------------------------------------------
(* The specification *)

Tick ==
    /\ now < MaxTime
    /\ now' = now + 1
    /\ UNCHANGED <<agreements, calls, switches>>

Init ==
    /\ now = 0
    /\ agreements = [s \in Subnet |-> None]
    /\ calls = {}
    /\ switches = [s \in Subnet |-> 0]

Next ==
    \/ \E s \in Subnet : CreateAgreement(s)
    \/ \E s \in Subnet : TopUpStart(s) \/ AdminsStart(s)
    \/ \E f \in calls : TopUpDone(f) \/ End(f)
    \/ \E short \in [Subnet -> 0 .. MaxShort] : Burn(short)
    \/ Upgrade
    \/ Tick

Spec == Init /\ [][Next]_vars

\* Time goes on, and the timer fires again and again while the canister has the
\* cycles it is to burn.  Calls may stay open, and the guards taken, for ever.
FairSpec ==
    /\ Spec
    /\ WF_vars(Tick)
    /\ WF_vars(Burn([s \in Subnet |-> 0]))
==============================================================================
