------------------------------ MODULE RateCache ------------------------------
(***************************************************************************)
(* Exchange rates: the cache of daily rates, the guard that lets one call  *)
(* of get_todays_price at a time ask the exchange rate canister (XRC), and *)
(* the calls that ask it beside that guard.                                *)
(*                                                                         *)
(* Every handler asks for the rate at a midnight it has computed before    *)
(* its await; the answer is cached under that midnight, whatever the time  *)
(* is when it comes.  What becomes of a rental proposal once its price is  *)
(* known is told in SubnetRental.                                          *)
(***************************************************************************)
EXTENDS Pricing

CONSTANTS
    Condition,      \* keys of the rental conditions map
    DailyCost,      \* DailyCost[c]: daily_cost_cycles of condition c
    INITIAL_RENTAL_PERIOD_DAYS,
    Task,           \* identifiers of calls that may be open together
    None,           \* an absent entry (Option::None)
    Failure,        \* an error of the XRC, or the rejection of its call
    Rate,           \* the rates the XRC may answer with
    XrcRepeats,     \* TRUE: the XRC answers the same for the same midnight
    MaxTime         \* bound on the clock, in seconds

ASSUME RateAssumption ==
    /\ Rate \subseteq [rate : Nat, scale : Nat]
    /\ None \notin Rate
    /\ Failure \notin Rate \cup {None}
    /\ XrcRepeats \in BOOLEAN
    /\ DailyCost \in [Condition -> Nat]
    /\ INITIAL_RENTAL_PERIOD_DAYS \in Nat
    /\ MaxTime \in Nat

Day == {PrevMidnight(time) : time \in 0 .. MaxTime}

VARIABLES
    now,        \* ic_cdk::api::time(), in seconds
    rates,      \* RATES
    locked,     \* (anonymous, "XRC") is in LOCKS
    calls,      \* the open calls, waiting for the XRC
    answered,   \* answered[d]: what the XRC has answered for midnight d
    fetched,    \* fetched[d]: successful XRC calls of get_todays_price for d
    quoted      \* quoted[d][c]: prices of c told on day d, or charged for a
                \* proposal created on day d

vars == <<now, rates, locked, calls, answered, fetched, quoted>>

\* An open call: the midnight it asks for, the XRC's reply (None before it),
\* and the day on which its caller, or the proposal, learns the price.
Call == [op : {"price", "exec"}, day : Day, of : Day, cond : Condition,
         reply : Rate \cup {None, Failure}]
        \cup [op : {"estimate"}, day : Day, reply : Rate \cup {None, Failure}]

ASSUME CallAssumption == None \notin Call

------------------------------------------------------------------------------
(* The rate *)

\* What the caller learns at a rate: get_todays_price tells the price, and
\* execute_rental_request_proposal charges it; without a price both fail.
Quote(d, c, r) ==
    IF Computable(DailyCost[c], INITIAL_RENTAL_PERIOD_DAYS, r)
    THEN quoted' = [quoted EXCEPT ![d][c] =
            @ \cup {SubnetPrice(DailyCost[c], INITIAL_RENTAL_PERIOD_DAYS, r)}]
    ELSE UNCHANGED quoted

\* get_exchange_rate_icp_per_xdr_at_time has the rate, and nobody waits.
Hit(day, of, c) ==
    /\ rates[day] # None
    /\ Quote(of, c, rates[day])
    /\ UNCHANGED <<now, rates, locked, calls, answered, fetched>>

\* It has not, and calls the XRC.
Miss(t, f) ==
    /\ rates[f.day] = None
    /\ calls[t] = None
    /\ calls' = [calls EXCEPT ![t] = f]
    /\ UNCHANGED <<now, rates, answered, fetched, quoted>>

------------------------------------------------------------------------------
(* Handlers *)

\* Variant: get_todays_price asks the XRC whether or not somebody else does.
NoGuard == TRUE

\* CallerGuard::new(Principal::anonymous(), "XRC") succeeds.
XrcGuardFree == ~locked

\* get_todays_price
PriceCall(t, c) ==
    LET d == PrevMidnight(now) IN
    \/ Hit(d, d, c)
    \/ /\ XrcGuardFree
       /\ Miss(t, [op |-> "price", day |-> d, of |-> d, cond |-> c, reply |-> None])
       /\ locked' = TRUE

\* subnet_top_up_estimate; a hit changes nothing.
EstimateCall(t) ==
    /\ Miss(t, [op |-> "estimate", day |-> PrevMidnight(now), reply |-> None])
    /\ UNCHANGED locked

\* Variant: a proposal is charged at the rate of the day it is executed.
ExecutionDay(created) == PrevMidnight(now)

\* The midnight before the proposal was created.
ProposalDay(created) == PrevMidnight(created)

\* execute_rental_request_proposal, for a proposal of an earlier time.
ExecCall(t, c, created) ==
    LET d  == ProposalDay(created)
        of == PrevMidnight(created)
    IN
    \/ Hit(d, of, c)
    \/ /\ Miss(t, [op |-> "exec", day |-> d, of |-> of, cond |-> c, reply |-> None])
       /\ UNCHANGED locked

\* Variant: an answer is the rate of the day on which it comes.
DayOfAnswer(f) == PrevMidnight(now)

\* The time under which an answer is cached.
CacheKey(f) == f.day

\* The XRC has answered with a rate: it is cached, and the handler goes on.
Fetched(t) ==
    LET f == calls[t] IN
    /\ f # None
    /\ f.reply \in Rate
    /\ rates' = [rates EXCEPT ![CacheKey(f)] = f.reply]
    /\ calls' = [calls EXCEPT ![t] = None]
    /\ locked' = IF f.op = "price" THEN FALSE ELSE locked
    /\ IF f.op = "estimate" THEN UNCHANGED quoted ELSE Quote(f.of, f.cond, f.reply)
    /\ UNCHANGED <<now, answered, fetched>>

\* Variant: a failed call of get_todays_price keeps its guard.
FailedKeepingGuard(t) ==
    /\ calls[t] # None
    /\ calls[t].reply = Failure
    /\ calls' = [calls EXCEPT ![t] = None]
    /\ UNCHANGED <<now, rates, locked, answered, fetched, quoted>>

\* The XRC has answered with an error, which the handler returns, or rejected
\* the call, which makes it trap: either way its guard is dropped.
Failed(t) ==
    LET f == calls[t] IN
    /\ f # None
    /\ f.reply = Failure
    /\ calls' = [calls EXCEPT ![t] = None]
    /\ locked' = IF f.op = "price" THEN FALSE ELSE locked
    /\ UNCHANGED <<now, rates, answered, fetched, quoted>>

------------------------------------------------------------------------------
(* The exchange rate canister *)

Waiting(t) == calls[t] # None /\ calls[t].reply = None

XrcAnswers(t, r) ==
    LET d == calls[t].day IN
    /\ Waiting(t)
    /\ XrcRepeats => answered[d] \subseteq {r}
    /\ calls' = [calls EXCEPT ![t].reply = r]
    /\ answered' = [answered EXCEPT ![d] = @ \cup {r}]
    /\ fetched' = [fetched EXCEPT ![d] = @ + IF calls[t].op = "price" THEN 1 ELSE 0]
    /\ UNCHANGED <<now, rates, locked, quoted>>

XrcFails(t) ==
    /\ Waiting(t)
    /\ calls' = [calls EXCEPT ![t].reply = Failure]
    /\ UNCHANGED <<now, rates, locked, answered, fetched, quoted>>

------------------------------------------------------------------------------
(* The specification *)

Tick ==
    /\ now < MaxTime
    /\ now' = now + 1
    /\ UNCHANGED <<rates, locked, calls, answered, fetched, quoted>>

Init ==
    /\ now = 0
    /\ rates = [d \in Day |-> None]
    /\ locked = FALSE
    /\ calls = [t \in Task |-> None]
    /\ answered = [d \in Day |-> {}]
    /\ fetched = [d \in Day |-> 0]
    /\ quoted = [d \in Day |-> [c \in Condition |-> {}]]

Resume(t) == Fetched(t) \/ Failed(t)

Answer(t) == (\E r \in Rate : XrcAnswers(t, r)) \/ XrcFails(t)

Next ==
    \/ \E t \in Task :
          \/ \E c \in Condition :
                PriceCall(t, c) \/ \E created \in 0 .. now : ExecCall(t, c, created)
          \/ EstimateCall(t)
          \/ Resume(t) \/ Answer(t)
    \/ Tick

Spec == Init /\ [][Next]_vars

\* The XRC replies or its call is rejected, and the canister goes on.
FairSpec == Spec /\ \A t \in Task : WF_vars(Resume(t)) /\ WF_vars(Answer(t))
==============================================================================
