------------------------------- MODULE Pricing -------------------------------
(***************************************************************************)
(* From cycles to ICP and back.  An exchange rate is what the XRC answers: *)
(* a number scaled by a power of ten (10^decimals).                        *)
(***************************************************************************)
EXTENDS Integers

CONSTANTS
    SECONDS_PER_DAY,
    DEFAULT_FEE,     \* the ledger's transfer fee, in e8s
    FACTOR,          \* cycles of an XDR over e8s of an ICP: 10_000
    MAX_U64,         \* widths of the code's integers
    MAX_U128

ASSUME PricingAssumption ==
    /\ SECONDS_PER_DAY \in Nat \ {0}
    /\ DEFAULT_FEE \in Nat
    /\ FACTOR \in Nat \ {0}
    /\ MAX_U64 \in Nat
    /\ MAX_U128 \in Nat

\* a - b, or zero: Tokens saturate.
Less(a, b) == IF a > b THEN a - b ELSE 0

\* round_to_previous_midnight
PrevMidnight(time) == time - (time % SECONDS_PER_DAY)

\* The ICP that buys daily * days cycles at a rate, in e8s, rounded down.
ExactPrice(daily, days, r) == ((daily * days * r.scale) \div r.rate) \div FACTOR

\* The checked_ operations of calculate_subnet_price give a result.
Computable(daily, days, r) ==
    /\ daily * days * r.scale <= MAX_U128
    /\ r.rate # 0

\* Variant: the price is kept in the type it was computed in.
WidePrice(daily, days, r) == ExactPrice(daily, days, r)

\* calculate_subnet_price: the e8s are computed as u128 and cut to u64.
SubnetPrice(daily, days, r) == ExactPrice(daily, days, r) % (MAX_U64 + 1)

\* subnet_top_up_estimate: the cycles that icp buys, two transfers paid for.
EstimatedCycles(icp, r) ==
    (Less(Less(icp, DEFAULT_FEE), DEFAULT_FEE) * r.rate) \div (r.scale \div FACTOR)

\* Variant: the days are rounded down.
EstimatedFullDays(cycles, daily) == cycles \div daily

\* subnet_top_up_estimate: the days that cycles last, rounded to the nearest.
EstimatedDays(cycles, daily) == (cycles + daily \div 2) \div daily
==============================================================================
