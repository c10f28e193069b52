----------------------------- MODULE MCRateCache -----------------------------
(***************************************************************************)
(* Values for the constants of RateCache: a day of two seconds, and rates  *)
(* of 2 and 3.1 XDR per ICP with different numbers of decimals, one so low *)
(* that the price does not fit u64, and one that gives no price.           *)
(***************************************************************************)
EXTENDS RateCacheProperties

CONSTANTS c1, t1, t2

MCCondition == {c1}
MCTask == {t1, t2}
MCDailyCost == [c \in MCCondition |-> 7000]
MCRate == {[rate |-> 200, scale |-> 100], [rate |-> 3100, scale |-> 1000],
           [rate |-> 1, scale |-> 100], [rate |-> 0, scale |-> 100]}
==============================================================================
