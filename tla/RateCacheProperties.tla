------------------------- MODULE RateCacheProperties -------------------------
(***************************************************************************)
(* What the cache of exchange rates must keep.                             *)
(***************************************************************************)
EXTENDS RateCache

\* Every variable has its type; in particular prices fit u64.
TypeOK ==
    /\ now \in 0 .. MaxTime
    /\ rates \in [Day -> Rate \cup {None}]
    /\ locked \in BOOLEAN
    /\ calls \in [Task -> Call \cup {None}]
    /\ answered \in [Day -> SUBSET Rate]
    /\ fetched \in [Day -> Nat]
    /\ quoted \in [Day -> [Condition -> SUBSET (0 .. MAX_U64)]]

\* A cached rate is one that the XRC gave for the midnight it is cached under,
\* however late the answer came and whatever was asked meanwhile.
CacheTruthful ==
    \A d \in Day : rates[d] # None => rates[d] \in answered[d]

\* get_todays_price pays the XRC for one successful answer a day at most, with
\* any number of callers at the same time.
PriceFetchedOnce == \A d \in Day : fetched[d] <= 1

\* The price told on a day is the price charged for a proposal created on that
\* day, on whichever day it is executed and whoever asked the XRC first, if the
\* XRC does not change its mind about a midnight.
QuotesAgree ==
    XrcRepeats =>
        \A d \in Day, c \in Condition :
            \A p, q \in quoted[d][c] : p = q

\* subnet_top_up_estimate gives back, for the price of the initial period, the
\* days of that period (test_top_up_estimate_round_trip_consistency), whatever
\* the rate, unless the price was cut to u64.
RoundTrip ==
    \A d \in Day, c \in Condition :
        rates[d] # None =>
            \A p \in quoted[d][c] :
                \/ EstimatedDays(EstimatedCycles(p, rates[d]), DailyCost[c])
                      = INITIAL_RENTAL_PERIOD_DAYS
                \/ ExactPrice(DailyCost[c], INITIAL_RENTAL_PERIOD_DAYS, rates[d])
                      > MAX_U64

------------------------------------------------------------------------------
(* Refinement *)

Book == INSTANCE RateBook WITH book <- rates

\* The cache is a book of rates: the unguarded calls and the guarded one may
\* all answer for the same day, but the rate of a day, once known, stays.
RateBookSpec == Book!Spec

------------------------------------------------------------------------------
(* Liveness *)

\* The guard on the XRC is free again and again: no error and no reject of the
\* XRC shuts get_todays_price for good.
XrcGuardFreed == []<>XrcGuardFree
==============================================================================
