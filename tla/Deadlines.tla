------------------------------ MODULE Deadlines ------------------------------
(***************************************************************************)
(* The arithmetic of a rental agreement: how long cycles last, how many    *)
(* are burned in one run of the timer, how many days are left.             *)
(*                                                                         *)
(* Divisions round down, times are u64 nanoseconds.  The code computes     *)
(* deadlines in saturating u128 and caps them at u64::MAX; since u128 only *)
(* saturates far above that cap, Capped stands for both.  Cycles are u128  *)
(* and never come near its maximum.                                        *)
(***************************************************************************)
EXTENDS Integers

CONSTANTS
    BILLION,                        \* nanoseconds in a second
    SECONDS_PER_DAY,
    CYCLES_BURN_INTERVAL_SECONDS,   \* period of the burn timer: 60
    MAX_U64                         \* u64::MAX, the last time there is

ASSUME TimeAssumption ==
    /\ BILLION \in Nat \ {0}
    /\ SECONDS_PER_DAY \in Nat \ {0}
    /\ CYCLES_BURN_INTERVAL_SECONDS \in Nat \ {0}
    /\ CYCLES_BURN_INTERVAL_SECONDS < SECONDS_PER_DAY
    /\ MAX_U64 \in Nat

Time == 0 .. MAX_U64

NANOS_PER_DAY == SECONDS_PER_DAY * BILLION

Least(a, b) == IF a < b THEN a ELSE b

\* a - b, or zero: saturating_sub.
Less(a, b) == IF a > b THEN a - b ELSE 0

\* Variant: no cap, the deadline does not fit its type.
Uncapped(time) == time

Capped(time) == Least(time, MAX_U64)

CostPerSecond(daily) == daily \div SECONDS_PER_DAY

\* Whole seconds that cycles pay for; daily is at least a cycle per second.
SecondsCharged(cycles, daily) == cycles \div CostPerSecond(daily)

\* Variant: a top-up counts from now, like the migration.
ExtendedFromNow(paid, now, cycles, daily) ==
    Capped(now + SecondsCharged(cycles, daily) * BILLION)

\* top_up_subnet: the deadline paid for so far, moved by what cycles pay for.
Extended(paid, now, cycles, daily) ==
    Capped(paid + SecondsCharged(cycles, daily) * BILLION)

\* top_up_subnet: the days it reports to have added.
DaysAdded(cycles, daily) == SecondsCharged(cycles, daily) \div SECONDS_PER_DAY

\* migration::reprice: the deadline until which cycles last from now.
Reprice(cycles, daily, now) ==
    IF CostPerSecond(daily) = 0
    THEN MAX_U64
    ELSE Capped(now + SecondsCharged(cycles, daily) * BILLION)

\* calculate_days_remaining
DaysRemaining(paid, now) == Less(paid, now) \div NANOS_PER_DAY

SecondsRemaining(paid, now) == Less(paid, now) \div BILLION

\* Variant: the configured price is burned, whatever is left.
BurnedAtCost(remaining, seconds) == Least(CYCLES_BURN_INTERVAL_SECONDS, remaining)

\* Variant: the last intervals are not capped by what is left.
BurnedUncapped(remaining, seconds) ==
    (remaining \div seconds) * CYCLES_BURN_INTERVAL_SECONDS

\* burn_cycles: what one run burns of remaining, seconds before the deadline.
BurnedPerRun(remaining, seconds) ==
    Least((remaining \div seconds) * CYCLES_BURN_INTERVAL_SECONDS, remaining)
==============================================================================
