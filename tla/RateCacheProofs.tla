--------------------------- MODULE RateCacheProofs ---------------------------
(***************************************************************************)
(* Proofs about RateCache, for any number of callers, any rates and any    *)
(* conditions.                                                             *)
(*                                                                         *)
(* The inductive invariant follows a rate from the XRC's answer over the   *)
(* reply of the call that waits for it into the cache and the prices, and  *)
(* follows the guard to the one call of get_todays_price that holds it.    *)
(* That a price pays for its days is arithmetic on top of it: a bound on   *)
(* the price, one on the estimate, and rounding to the nearest.            *)
(***************************************************************************)
EXTENDS RateCacheProperties, TLAPS

\* A reply is an answer for the midnight the call asks for, and a price is
\* asked for at the midnight of the day it is for.
CallsKnown ==
    \A t \in Task : calls[t] # None =>
        /\ calls[t].reply \in Rate => calls[t].reply \in answered[calls[t].day]
        /\ calls[t].op # "estimate" => calls[t].of = calls[t].day

OneAnswer ==
    XrcRepeats => \A d \in Day : \A q, r \in answered[d] : q = r

Price(c, r) == SubnetPrice(DailyCost[c], INITIAL_RENTAL_PERIOD_DAYS, r)

\* p is the price of c at rate r, which gives one.
PricedAt(p, c, r) == p = Price(c, r) /\ r.rate # 0

QuotedAtRates ==
    \A d \in Day, c \in Condition : \A p \in quoted[d][c] :
        \E r \in answered[d] : PricedAt(p, c, r)

IsPriceCall(t) == calls[t] # None /\ calls[t].op = "price"

GuardOwned ==
    \A t \in Task : IsPriceCall(t) =>
        locked /\ \A u \in Task : IsPriceCall(u) => u = t

\* get_todays_price has paid for a day only if the day's rate is cached, or is
\* about to be by the call that has the answer.
FetchedKept ==
    /\ \A t \in Task : (IsPriceCall(t) /\ calls[t].reply = None)
          => fetched[calls[t].day] = 0
    /\ \A d \in Day : fetched[d] # 0 =>
          /\ fetched[d] = 1
          /\ \/ rates[d] # None
             \/ \E t \in Task : /\ IsPriceCall(t)
                                /\ calls[t].day = d
                                /\ calls[t].reply \in Rate

IInv ==
    /\ TypeOK
    /\ CallsKnown
    /\ CacheTruthful
    /\ OneAnswer
    /\ QuotedAtRates
    /\ GuardOwned
    /\ FetchedKept

------------------------------------------------------------------------------
(* Data *)

\* A time within the bound has a midnight.
LEMMA MidnightIsDay ==
    ASSUME NEW time \in 0 .. MaxTime
    PROVE  PrevMidnight(time) \in Day
BY DEF Day

\* A price fits u64, since it is cut to it.
LEMMA PriceFits ==
    ASSUME NEW c \in Condition, NEW r \in Rate,
           Computable(DailyCost[c], INITIAL_RENTAL_PERIOD_DAYS, r)
    PROVE  Price(c, r) \in 0 .. MAX_U64
<1> DEFINE needed == DailyCost[c] * INITIAL_RENTAL_PERIOD_DAYS * r.scale
<1>1. /\ DailyCost[c] \in Nat /\ INITIAL_RENTAL_PERIOD_DAYS \in Nat
      /\ r.scale \in Nat /\ r.rate \in Nat /\ r.rate # 0
      /\ MAX_U64 \in Nat /\ FACTOR \in Nat /\ FACTOR # 0
  BY RateAssumption, PricingAssumption DEF Computable
<1>2. DailyCost[c] * INITIAL_RENTAL_PERIOD_DAYS \in Nat
  BY <1>1
<1>3. needed \in Nat
  BY <1>1, <1>2
<1> HIDE DEF needed
<1>4. needed \div r.rate \in Nat
  BY <1>1, <1>3
<1>5. (needed \div r.rate) \div FACTOR \in Nat
  BY <1>1, <1>4
<1>6. ((needed \div r.rate) \div FACTOR) % (MAX_U64 + 1) \in 0 .. MAX_U64
  BY <1>1, <1>5
<1>7. QED
  BY <1>6 DEF Price, SubnetPrice, ExactPrice, needed

\* The parts of an open call.
LEMMA CallParts ==
    ASSUME NEW f \in Call
    PROVE  /\ f.op \in {"price", "exec", "estimate"}
           /\ f.day \in Day
           /\ f.reply \in Rate \cup {None, Failure}
           /\ f.op # "estimate" => f.of \in Day /\ f.cond \in Condition
BY DEF Call

\* A reply changes nothing else of its call.
LEMMA CallReplied ==
    ASSUME NEW f \in Call, NEW r \in Rate \cup {None, Failure}
    PROVE  LET g == [f EXCEPT !.reply = r]
           IN  /\ g \in Call /\ g # None
               /\ g.op = f.op /\ g.day = f.day /\ g.reply = r
               /\ f.op # "estimate" => g.of = f.of /\ g.cond = f.cond
<1> DEFINE g == [f EXCEPT !.reply = r]
<1>1. CASE f \in [op : {"price", "exec"}, day : Day, of : Day, cond : Condition,
                  reply : Rate \cup {None, Failure}]
  <2>1. /\ g \in [op : {"price", "exec"}, day : Day, of : Day, cond : Condition,
                  reply : Rate \cup {None, Failure}]
        /\ g.op = f.op /\ g.day = f.day /\ g.reply = r
        /\ g.of = f.of /\ g.cond = f.cond
    BY <1>1
  <2>2. QED
    BY <2>1, CallAssumption DEF Call
<1>2. CASE f \in [op : {"estimate"}, day : Day, reply : Rate \cup {None, Failure}]
  <2>1. /\ g \in [op : {"estimate"}, day : Day, reply : Rate \cup {None, Failure}]
        /\ g.op = f.op /\ g.day = f.day /\ g.reply = r /\ f.op = "estimate"
    BY <1>2
  <2>2. QED
    BY <2>1, CallAssumption DEF Call
<1>3. QED
  BY <1>1, <1>2 DEF Call

\* The reply None tells a waiting call from an answered or failed one.
LEMMA RepliesDiffer == None \notin Rate /\ Failure \notin Rate /\ Failure # None
BY RateAssumption

------------------------------------------------------------------------------
(* The initial state *)

\* Nothing is cached, asked for or quoted at first.
LEMMA InitInv == Init => IInv
<1> SUFFICES ASSUME Init PROVE IInv
  OBVIOUS
<1>1. TypeOK
  <2>1. now \in 0 .. MaxTime
    BY RateAssumption DEF Init
  <2>2. rates \in [Day -> Rate \cup {None}] /\ locked \in BOOLEAN
    BY DEF Init
  <2>3. calls \in [Task -> Call \cup {None}] /\ answered \in [Day -> SUBSET Rate]
    BY DEF Init
  <2>4. fetched \in [Day -> Nat]
    BY DEF Init
  <2>5. [c \in Condition |-> {}] \in [Condition -> SUBSET (0 .. MAX_U64)]
    OBVIOUS
  <2>6. quoted \in [Day -> [Condition -> SUBSET (0 .. MAX_U64)]]
    BY <2>5 DEF Init
  <2>7. QED
    BY <2>1, <2>2, <2>3, <2>4, <2>6 DEF TypeOK
<1>2. \A t \in Task : calls[t] = None
  BY DEF Init
<1>3. CallsKnown /\ GuardOwned
  BY <1>2 DEF CallsKnown, GuardOwned, IsPriceCall
<1>4. FetchedKept
  BY <1>2 DEF Init, FetchedKept, IsPriceCall
<1>5. CacheTruthful /\ OneAnswer
  BY DEF Init, CacheTruthful, OneAnswer
<1>6. QuotedAtRates
  BY DEF Init, QuotedAtRates
<1>7. QED
  BY <1>1, <1>3, <1>4, <1>5, <1>6 DEF IInv

------------------------------------------------------------------------------
(* Steps *)

\* A quote is a price at an answer for the day.
LEMMA QuoteStep ==
    ASSUME TypeOK, QuotedAtRates, NEW d \in Day, NEW c \in Condition,
           NEW r \in Rate, r \in answered[d], Quote(d, c, r)
    PROVE  /\ quoted' \in [Day -> [Condition -> SUBSET (0 .. MAX_U64)]]
           /\ \A e \in Day, b \in Condition : \A p \in quoted'[e][b] :
                 \E q \in answered[e] : PricedAt(p, b, q)
<1>1. CASE ~Computable(DailyCost[c], INITIAL_RENTAL_PERIOD_DAYS, r)
  BY <1>1 DEF Quote, TypeOK, QuotedAtRates
<1>2. CASE Computable(DailyCost[c], INITIAL_RENTAL_PERIOD_DAYS, r)
  <2>1. quoted' = [quoted EXCEPT ![d][c] = @ \cup {Price(c, r)}]
    BY <1>2 DEF Quote, Price
  <2>2. Price(c, r) \in 0 .. MAX_U64
    BY <1>2, PriceFits
  <2>3. quoted \in [Day -> [Condition -> SUBSET (0 .. MAX_U64)]]
    BY DEF TypeOK
  <2>4. \A e \in Day, b \in Condition :
            quoted'[e][b] = IF e = d /\ b = c THEN quoted[e][b] \cup {Price(c, r)}
                            ELSE quoted[e][b]
    BY <2>1, <2>3
  <2>5. quoted' \in [Day -> [Condition -> SUBSET (0 .. MAX_U64)]]
    BY <2>1, <2>2, <2>3
  <2>6. ASSUME NEW e \in Day, NEW b \in Condition, NEW p \in quoted'[e][b]
        PROVE  \E q \in answered[e] : PricedAt(p, b, q)
    <3>1. CASE p \in quoted[e][b]
      BY <3>1 DEF QuotedAtRates
    <3>2. CASE p \notin quoted[e][b]
      <4>1. e = d /\ b = c /\ PricedAt(p, c, r)
        BY <1>2, <2>4, <3>2 DEF PricedAt, Computable
      <4>2. QED
        BY <4>1
    <3>3. QED
      BY <3>1, <3>2
  <2>7. QED
    BY <2>5, <2>6
<1>3. QED
  BY <1>1, <1>2

\* A rate that is in the cache.
LEMMA HitStep ==
    ASSUME IInv, NEW d \in Day, NEW c \in Condition, Hit(d, d, c)
    PROVE  IInv'
<1>1. rates[d] \in Rate /\ rates[d] \in answered[d]
  BY DEF IInv, TypeOK, CacheTruthful, Hit
<1>2. /\ quoted' \in [Day -> [Condition -> SUBSET (0 .. MAX_U64)]]
      /\ \A e \in Day, b \in Condition : \A p \in quoted'[e][b] :
            \E q \in answered[e] : PricedAt(p, b, q)
  BY <1>1, QuoteStep DEF IInv, Hit
<1>3. UNCHANGED <<now, rates, locked, calls, answered, fetched>>
  BY DEF Hit
<1>4. TypeOK'
  BY <1>2, <1>3 DEF IInv, TypeOK
<1>5. QuotedAtRates'
  BY <1>2, <1>3 DEF QuotedAtRates
<1>6. CallsKnown' /\ CacheTruthful' /\ OneAnswer'
  BY <1>3 DEF IInv, CallsKnown, CacheTruthful, OneAnswer
<1>7. GuardOwned' /\ FetchedKept'
  BY <1>3 DEF IInv, GuardOwned, FetchedKept, IsPriceCall
<1>8. QED
  BY <1>4, <1>5, <1>6, <1>7 DEF IInv

\* A rate that is not: a call of the XRC is opened.
LEMMA MissStep ==
    ASSUME IInv, NEW t \in Task, NEW f \in Call, Miss(t, f), f.reply = None,
           f.op # "estimate" => f.of = f.day,
           IF f.op = "price" THEN ~locked /\ locked' = TRUE ELSE locked' = locked
    PROVE  IInv'
<1>1. /\ rates[f.day] = None /\ calls[t] = None
      /\ calls' = [calls EXCEPT ![t] = f]
      /\ UNCHANGED <<now, rates, answered, fetched, quoted>>
  BY DEF Miss
<1>2. \A u \in Task : calls'[u] = IF u = t THEN f ELSE calls[u]
  BY <1>1 DEF IInv, TypeOK
<1>3. TypeOK'
  BY <1>1 DEF IInv, TypeOK
<1>4. CallsKnown'
  BY <1>1, <1>2, RepliesDiffer DEF IInv, CallsKnown
<1>5. CacheTruthful' /\ OneAnswer' /\ QuotedAtRates'
  BY <1>1 DEF IInv, CacheTruthful, OneAnswer, QuotedAtRates
<1>6. GuardOwned'
  BY <1>2 DEF IInv, GuardOwned, IsPriceCall
<1>7. FetchedKept'
  <2>1. ASSUME f.op = "price"
        PROVE  fetched[f.day] = 0
    <3>1. \A u \in Task : ~IsPriceCall(u)
      BY <2>1 DEF IInv, GuardOwned
    <3>2. f.day \in Day
      BY CallParts
    <3>3. QED
      BY <3>1, <3>2, <1>1 DEF IInv, FetchedKept
  <2>2. \A u \in Task : (IsPriceCall(u)' /\ calls'[u].reply = None)
            => fetched[calls'[u].day] = 0
    BY <1>2, <2>1 DEF IInv, FetchedKept, IsPriceCall
  <2>3. \A u \in Task : IsPriceCall(u) => u # t /\ calls'[u] = calls[u]
    BY <1>1, <1>2 DEF IsPriceCall
  <2>4. QED
    BY <1>1, <2>2, <2>3 DEF IInv, FetchedKept, IsPriceCall
<1>8. QED
  BY <1>3, <1>4, <1>5, <1>6, <1>7 DEF IInv

\* The answer is cached under the midnight it was asked for, and the call ends.
LEMMA FetchedStep ==
    ASSUME IInv, NEW t \in Task, Fetched(t)
    PROVE  IInv'
<1> DEFINE f == calls[t]
           r == f.reply
           d == f.day
<1>1. /\ f # None /\ f \in Call /\ r \in Rate
      /\ rates' = [rates EXCEPT ![d] = r]
      /\ calls' = [calls EXCEPT ![t] = None]
      /\ locked' = IF f.op = "price" THEN FALSE ELSE locked
      /\ UNCHANGED <<now, answered, fetched>>
  BY DEF IInv, TypeOK, Fetched, CacheKey
<1>2. d \in Day /\ (f.op # "estimate" => f.of = d /\ f.cond \in Condition)
  BY <1>1, CallParts DEF IInv, CallsKnown
<1>3. r \in answered[d]
  BY <1>1 DEF IInv, CallsKnown
<1>4. /\ quoted' \in [Day -> [Condition -> SUBSET (0 .. MAX_U64)]]
      /\ \A e \in Day, b \in Condition : \A p \in quoted'[e][b] :
            \E q \in answered[e] : PricedAt(p, b, q)
  <2>1. CASE f.op = "estimate"
    BY <2>1 DEF Fetched, IInv, TypeOK, QuotedAtRates
  <2>2. CASE f.op # "estimate"
    <3>1. Quote(d, f.cond, r)
      BY <2>2, <1>2 DEF Fetched
    <3>2. QED
      BY <3>1, <1>1, <1>2, <1>3, <2>2, QuoteStep DEF IInv
  <2>3. QED
    BY <2>1, <2>2
<1>5. \A u \in Task : calls'[u] = IF u = t THEN None ELSE calls[u]
  BY <1>1 DEF IInv, TypeOK
<1>6. \A e \in Day : rates'[e] = IF e = d THEN r ELSE rates[e]
  BY <1>1, <1>2 DEF IInv, TypeOK
<1>7. r # None
  BY <1>1, RepliesDiffer
<1>8. IsPriceCall(t) <=> f.op = "price"
  BY <1>1 DEF IsPriceCall
<1>9. TypeOK'
  <2>1. rates' \in [Day -> Rate \cup {None}]
    BY <1>1, <1>2 DEF IInv, TypeOK
  <2>2. calls' \in [Task -> Call \cup {None}] /\ locked' \in BOOLEAN
    BY <1>1 DEF IInv, TypeOK
  <2>3. QED
    BY <2>1, <2>2, <1>1, <1>4 DEF IInv, TypeOK
<1>10. CallsKnown'
  BY <1>1, <1>5 DEF IInv, CallsKnown
<1>11. CacheTruthful' /\ OneAnswer'
  BY <1>1, <1>3, <1>6 DEF IInv, CacheTruthful, OneAnswer
<1>12. QuotedAtRates'
  BY <1>1, <1>4 DEF QuotedAtRates
<1>13. GuardOwned'
  BY <1>1, <1>5, <1>8 DEF IInv, GuardOwned, IsPriceCall
<1>14. FetchedKept'
  <2>1. \A u \in Task : (IsPriceCall(u)' /\ calls'[u].reply = None)
            => fetched[calls'[u].day] = 0
    BY <1>5 DEF IInv, FetchedKept, IsPriceCall
  <2>2. ASSUME NEW e \in Day, fetched[e] # 0
        PROVE  /\ fetched[e] = 1
               /\ \/ rates'[e] # None
                  \/ \E u \in Task : /\ IsPriceCall(u)'
                                     /\ calls'[u].day = e
                                     /\ calls'[u].reply \in Rate
    <3>1. fetched[e] = 1
      BY <2>2 DEF IInv, FetchedKept
    <3>2. CASE e = d
      BY <3>1, <3>2, <1>6, <1>7
    <3>3. CASE e # d
      <4>1. CASE rates[e] # None
        BY <3>1, <3>3, <4>1, <1>6
      <4>2. CASE rates[e] = None
        <5>1. PICK u \in Task : /\ IsPriceCall(u)
                                /\ calls[u].day = e
                                /\ calls[u].reply \in Rate
          BY <2>2, <4>2 DEF IInv, FetchedKept
        <5>2. u # t
          BY <5>1, <3>3
        <5>3. calls'[u] = calls[u]
          BY <5>2, <1>5
        <5>4. QED
          BY <3>1, <5>1, <5>3 DEF IsPriceCall
      <4>3. QED
        BY <4>1, <4>2
    <3>4. QED
      BY <3>2, <3>3
  <2>3. QED
    BY <1>1, <2>1, <2>2 DEF FetchedKept
<1>15. QED
  BY <1>9, <1>10, <1>11, <1>12, <1>13, <1>14 DEF IInv

\* A failed call ends without a trace.
LEMMA FailedStep ==
    ASSUME IInv, NEW t \in Task, Failed(t)
    PROVE  IInv'
<1>1. /\ calls[t] # None /\ calls[t].reply = Failure
      /\ calls' = [calls EXCEPT ![t] = None]
      /\ locked' = IF calls[t].op = "price" THEN FALSE ELSE locked
      /\ UNCHANGED <<now, rates, answered, fetched, quoted>>
  BY DEF Failed
<1>2. \A u \in Task : calls'[u] = IF u = t THEN None ELSE calls[u]
  BY <1>1 DEF IInv, TypeOK
<1>3. IsPriceCall(t) <=> calls[t].op = "price"
  BY <1>1 DEF IsPriceCall
<1>4. TypeOK'
  <2>1. calls' \in [Task -> Call \cup {None}] /\ locked' \in BOOLEAN
    BY <1>1 DEF IInv, TypeOK
  <2>2. QED
    BY <2>1, <1>1 DEF IInv, TypeOK
<1>5. CallsKnown'
  BY <1>1, <1>2 DEF IInv, CallsKnown
<1>6. CacheTruthful' /\ OneAnswer' /\ QuotedAtRates'
  BY <1>1 DEF IInv, CacheTruthful, OneAnswer, QuotedAtRates
<1>7. GuardOwned'
  BY <1>1, <1>2, <1>3 DEF IInv, GuardOwned, IsPriceCall
<1>8. FetchedKept'
  <2>1. \A u \in Task : calls[u].reply \in Rate => u # t
    BY <1>1, RepliesDiffer
  <2>2. QED
    BY <1>1, <1>2, <2>1 DEF IInv, FetchedKept, IsPriceCall
<1>9. QED
  BY <1>4, <1>5, <1>6, <1>7, <1>8 DEF IInv

\* A waiting call gets reply r.
LEMMA ReplyStep ==
    ASSUME TypeOK, GuardOwned, NEW t \in Task, NEW r \in Rate \cup {None, Failure},
           Waiting(t), calls' = [calls EXCEPT ![t].reply = r], locked' = locked
    PROVE  /\ calls' \in [Task -> Call \cup {None}]
           /\ calls[t] \in Call
           /\ calls'[t] # None /\ calls'[t].reply = r
           /\ calls'[t].op = calls[t].op /\ calls'[t].day = calls[t].day
           /\ calls[t].op # "estimate" => calls'[t].of = calls[t].of
           /\ \A u \in Task \ {t} : calls'[u] = calls[u]
           /\ \A u \in Task : IsPriceCall(u)' <=> IsPriceCall(u)
           /\ GuardOwned'
<1>1. calls[t] \in Call /\ calls \in [Task -> Call \cup {None}]
  BY DEF TypeOK, Waiting
<1> DEFINE g == [calls[t] EXCEPT !.reply = r]
<1>2. /\ g \in Call /\ g # None
      /\ g.op = calls[t].op /\ g.day = calls[t].day /\ g.reply = r
      /\ calls[t].op # "estimate" => g.of = calls[t].of /\ g.cond = calls[t].cond
  BY <1>1, CallReplied
<1>3. calls' = [calls EXCEPT ![t] = g]
  BY <1>1
<1> HIDE DEF g
<1>4. calls'[t] = g /\ \A u \in Task \ {t} : calls'[u] = calls[u]
  BY <1>1, <1>3
<1>5. calls' \in [Task -> Call \cup {None}]
  BY <1>1, <1>2, <1>3
<1>6. \A u \in Task : IsPriceCall(u)' <=> IsPriceCall(u)
  BY <1>2, <1>4 DEF IsPriceCall, Waiting
<1>7. GuardOwned'
  BY <1>6 DEF GuardOwned
<1>8. QED
  BY <1>1, <1>2, <1>4, <1>5, <1>6, <1>7

\* The XRC answers.
LEMMA AnswerStep ==
    ASSUME IInv, NEW t \in Task, NEW r \in Rate, XrcAnswers(t, r)
    PROVE  IInv'
<1> DEFINE d == calls[t].day
           paid == IF calls[t].op = "price" THEN 1 ELSE 0
<1>1. /\ Waiting(t)
      /\ XrcRepeats => answered[d] \subseteq {r}
      /\ calls' = [calls EXCEPT ![t].reply = r]
      /\ answered' = [answered EXCEPT ![d] = @ \cup {r}]
      /\ fetched' = [fetched EXCEPT ![d] = @ + paid]
      /\ UNCHANGED <<now, rates, locked, quoted>>
  BY DEF XrcAnswers
<1>2. /\ calls' \in [Task -> Call \cup {None}]
      /\ calls[t] \in Call
      /\ calls'[t] # None /\ calls'[t].reply = r
      /\ calls'[t].op = calls[t].op /\ calls'[t].day = d
      /\ calls[t].op # "estimate" => calls'[t].of = calls[t].of
      /\ \A u \in Task \ {t} : calls'[u] = calls[u]
      /\ \A u \in Task : IsPriceCall(u)' <=> IsPriceCall(u)
      /\ GuardOwned'
  BY <1>1, ReplyStep DEF IInv
<1>3. d \in Day
  BY <1>2, CallParts
<1> HIDE DEF d, paid
<1>4. \A e \in Day : answered'[e] = IF e = d THEN answered[e] \cup {r} ELSE answered[e]
  BY <1>1, <1>3 DEF IInv, TypeOK
<1>5. /\ \A e \in Day : fetched'[e] = IF e = d THEN fetched[e] + paid ELSE fetched[e]
      /\ fetched \in [Day -> Nat] /\ paid \in {0, 1}
      /\ paid = 1 <=> IsPriceCall(t)
  BY <1>1, <1>3 DEF IInv, TypeOK, paid, IsPriceCall, Waiting
<1>6. TypeOK'
  <2>1. answered' \in [Day -> SUBSET Rate]
    BY <1>1, <1>3 DEF IInv, TypeOK
  <2>2. \A e \in Day : fetched'[e] \in Nat
    BY <1>5
  <2>3. fetched' \in [Day -> Nat]
    BY <1>1, <1>3, <1>5, <2>2
  <2>4. QED
    BY <2>1, <2>3, <1>1, <1>2 DEF IInv, TypeOK
<1>7. CallsKnown'
  <2>1. ASSUME NEW u \in Task, calls'[u] # None
        PROVE  /\ calls'[u].reply \in Rate => calls'[u].reply \in answered'[calls'[u].day]
               /\ calls'[u].op # "estimate" => calls'[u].of = calls'[u].day
    <3>1. CASE u = t
      BY <3>1, <1>1, <1>2, <1>3, <1>4 DEF IInv, CallsKnown, Waiting, d
    <3>2. CASE u # t
      <4>1. calls'[u] = calls[u] /\ calls[u] \in Call
        BY <3>2, <2>1, <1>2
      <4>2. calls[u].day \in Day
        BY <4>1, CallParts
      <4>3. QED
        BY <4>1, <4>2, <2>1, <1>4 DEF IInv, CallsKnown
    <3>3. QED
      BY <3>1, <3>2
  <2>2. QED
    BY <2>1 DEF CallsKnown
<1>8. CacheTruthful'
  BY <1>1, <1>4 DEF IInv, CacheTruthful
<1>9. OneAnswer'
  BY <1>1, <1>4 DEF IInv, OneAnswer
<1>10. QuotedAtRates'
  BY <1>1, <1>4 DEF IInv, QuotedAtRates
<1>11. FetchedKept'
  <2>1. ASSUME NEW u \in Task, IsPriceCall(u)', calls'[u].reply = None
        PROVE  fetched'[calls'[u].day] = 0
    <3>1. u # t
      BY <2>1, <1>2, RepliesDiffer
    <3>2. calls'[u] = calls[u] /\ IsPriceCall(u) /\ calls[u] \in Call
      BY <3>1, <2>1, <1>2 DEF IsPriceCall
    <3>3. ~IsPriceCall(t)
      BY <3>1, <3>2 DEF IInv, GuardOwned
    <3>4. calls[u].day \in Day
      BY <3>2, CallParts
    <3>5. fetched[calls[u].day] = 0
      BY <3>2, <2>1 DEF IInv, FetchedKept
    <3>6. QED
      BY <3>2, <3>3, <3>4, <3>5, <1>5
  <2>2. ASSUME NEW e \in Day, fetched'[e] # 0
        PROVE  /\ fetched'[e] = 1
               /\ \/ rates'[e] # None
                  \/ \E u \in Task : /\ IsPriceCall(u)'
                                     /\ calls'[u].day = e
                                     /\ calls'[u].reply \in Rate
    <3>1. CASE e = d /\ IsPriceCall(t)
      <4>1. fetched[d] = 0
        BY <3>1, <1>1 DEF IInv, FetchedKept, Waiting, d
      <4>2. fetched'[e] = 1
        BY <4>1, <3>1, <1>3, <1>5
      <4>3. IsPriceCall(t)' /\ calls'[t].day = e /\ calls'[t].reply \in Rate
        BY <3>1, <1>2
      <4>4. QED
        BY <4>2, <4>3
    <3>2. CASE ~(e = d /\ IsPriceCall(t))
      <4>1. fetched'[e] = fetched[e]
        BY <3>2, <1>5
      <4>2. CASE rates[e] # None
        BY <4>1, <4>2, <2>2, <1>1 DEF IInv, FetchedKept
      <4>3. CASE rates[e] = None
        <5>1. fetched[e] = 1
          BY <4>1, <2>2 DEF IInv, FetchedKept
        <5>2. PICK u \in Task : /\ IsPriceCall(u)
                                /\ calls[u].day = e
                                /\ calls[u].reply \in Rate
          BY <4>1, <4>3, <2>2 DEF IInv, FetchedKept
        <5>3. u # t
          BY <5>2, <1>1, RepliesDiffer DEF Waiting
        <5>4. IsPriceCall(u)' /\ calls'[u].day = e /\ calls'[u].reply \in Rate
          BY <5>2, <5>3, <1>2
        <5>5. QED
          BY <4>1, <5>1, <5>4
      <4>4. QED
        BY <4>2, <4>3
    <3>3. QED
      BY <3>1, <3>2
  <2>3. QED
    BY <2>1, <2>2 DEF FetchedKept
<1>12. QED
  BY <1>2, <1>6, <1>7, <1>8, <1>9, <1>10, <1>11 DEF IInv

\* The XRC fails.
LEMMA FailStep ==
    ASSUME IInv, NEW t \in Task, XrcFails(t)
    PROVE  IInv'
<1>1. /\ Waiting(t)
      /\ calls' = [calls EXCEPT ![t].reply = Failure]
      /\ UNCHANGED <<now, rates, locked, answered, fetched, quoted>>
  BY DEF XrcFails
<1>2. /\ calls' \in [Task -> Call \cup {None}]
      /\ calls'[t] # None /\ calls'[t].reply = Failure
      /\ calls'[t].op = calls[t].op /\ calls'[t].day = calls[t].day
      /\ calls[t].op # "estimate" => calls'[t].of = calls[t].of
      /\ \A u \in Task \ {t} : calls'[u] = calls[u]
      /\ \A u \in Task : IsPriceCall(u)' <=> IsPriceCall(u)
      /\ GuardOwned'
  BY <1>1, ReplyStep DEF IInv
<1>3. TypeOK'
  BY <1>1, <1>2 DEF IInv, TypeOK
<1>4. CallsKnown'
  <2>1. ASSUME NEW u \in Task, calls'[u] # None
        PROVE  /\ calls'[u].reply \in Rate => calls'[u].reply \in answered[calls'[u].day]
               /\ calls'[u].op # "estimate" => calls'[u].of = calls'[u].day
    <3>1. CASE u = t
      BY <3>1, <1>1, <1>2, RepliesDiffer DEF IInv, CallsKnown, Waiting
    <3>2. CASE u # t
      BY <3>2, <2>1, <1>2 DEF IInv, CallsKnown
    <3>3. QED
      BY <3>1, <3>2
  <2>2. QED
    BY <2>1, <1>1 DEF CallsKnown
<1>5. CacheTruthful' /\ OneAnswer' /\ QuotedAtRates'
  BY <1>1 DEF IInv, CacheTruthful, OneAnswer, QuotedAtRates
<1>6. FetchedKept'
  <2>1. ASSUME NEW u \in Task, IsPriceCall(u)', calls'[u].reply = None
        PROVE  fetched[calls'[u].day] = 0
    <3>1. u # t
      BY <2>1, <1>2, RepliesDiffer
    <3>2. calls'[u] = calls[u] /\ IsPriceCall(u)
      BY <3>1, <2>1, <1>2
    <3>3. QED
      BY <3>2, <2>1 DEF IInv, FetchedKept
  <2>2. ASSUME NEW u \in Task, IsPriceCall(u), calls[u].reply \in Rate
        PROVE  IsPriceCall(u)' /\ calls'[u] = calls[u]
    <3>1. u # t
      BY <2>2, <1>1, RepliesDiffer DEF Waiting
    <3>2. QED
      BY <3>1, <2>2, <1>2
  <2>3. ASSUME NEW e \in Day, fetched[e] # 0
        PROVE  /\ fetched[e] = 1
               /\ \/ rates[e] # None
                  \/ \E u \in Task : /\ IsPriceCall(u)'
                                     /\ calls'[u].day = e
                                     /\ calls'[u].reply \in Rate
    <3>1. CASE rates[e] # None
      BY <2>3, <3>1 DEF IInv, FetchedKept
    <3>2. CASE rates[e] = None
      <4>1. fetched[e] = 1
        BY <2>3 DEF IInv, FetchedKept
      <4>2. PICK u \in Task : /\ IsPriceCall(u)
                              /\ calls[u].day = e
                              /\ calls[u].reply \in Rate
        BY <2>3, <3>2 DEF IInv, FetchedKept
      <4>3. IsPriceCall(u)' /\ calls'[u] = calls[u]
        BY <4>2, <2>2
      <4>4. QED
        BY <4>1, <4>2, <4>3
    <3>3. QED
      BY <3>1, <3>2
  <2>4. QED
    BY <1>1, <2>1, <2>3 DEF FetchedKept
<1>7. QED
  BY <1>2, <1>3, <1>4, <1>5, <1>6 DEF IInv

\* The clock, or nothing.
LEMMA TickStep ==
    ASSUME IInv, Tick \/ UNCHANGED vars
    PROVE  IInv'
<1>1. UNCHANGED <<rates, locked, calls, answered, fetched, quoted>>
  BY DEF Tick, vars
<1>2. now' \in 0 .. MaxTime
  <2>1. now \in 0 .. MaxTime /\ MaxTime \in Nat
    BY RateAssumption DEF IInv, TypeOK
  <2>2. now' = now \/ (now < MaxTime /\ now' = now + 1)
    BY DEF Tick, vars
  <2>3. QED
    BY <2>1, <2>2
<1>3. TypeOK'
  BY <1>1, <1>2 DEF IInv, TypeOK
<1>4. CallsKnown' /\ CacheTruthful' /\ OneAnswer' /\ QuotedAtRates'
  BY <1>1 DEF IInv, CallsKnown, CacheTruthful, OneAnswer, QuotedAtRates
<1>5. GuardOwned' /\ FetchedKept'
  BY <1>1 DEF IInv, GuardOwned, FetchedKept, IsPriceCall
<1>6. QED
  BY <1>3, <1>4, <1>5 DEF IInv

\* A new call of the XRC is a call.
LEMMA NewCall ==
    ASSUME NEW d \in Day, NEW c \in Condition, NEW op \in {"price", "exec"}
    PROVE  LET f == [op |-> op, day |-> d, of |-> d, cond |-> c, reply |-> None]
           IN  f \in Call /\ f.op = op /\ f.day = d /\ f.of = d /\ f.reply = None
BY DEF Call

\* The inductive invariant is inductive.
LEMMA StepInv == IInv /\ [Next]_vars => IInv'
<1> SUFFICES ASSUME IInv, [Next]_vars PROVE IInv'
  OBVIOUS
<1>1. now \in 0 .. MaxTime /\ MaxTime \in Nat /\ PrevMidnight(now) \in Day
  BY MidnightIsDay, RateAssumption DEF IInv, TypeOK
<1>2. ASSUME NEW t \in Task, NEW c \in Condition, PriceCall(t, c)
      PROVE  IInv'
  <2> DEFINE d == PrevMidnight(now)
             f == [op |-> "price", day |-> d, of |-> d, cond |-> c, reply |-> None]
  <2>1. CASE Hit(d, d, c)
    BY <2>1, <1>1, HitStep
  <2>2. CASE ~locked /\ Miss(t, f) /\ locked' = TRUE
    <3>1. f \in Call /\ f.op = "price" /\ f.of = f.day /\ f.reply = None
      BY <1>1, NewCall
    <3> HIDE DEF f
    <3>2. QED
      BY <3>1, <2>2, MissStep
  <2>3. QED
    BY <1>2, <2>1, <2>2 DEF PriceCall, XrcGuardFree
<1>3. ASSUME NEW t \in Task, NEW c \in Condition, NEW created \in 0 .. now,
             ExecCall(t, c, created)
      PROVE  IInv'
  <2> DEFINE d == PrevMidnight(created)
             f == [op |-> "exec", day |-> d, of |-> d, cond |-> c, reply |-> None]
  <2>1. d \in Day
    <3>1. created \in 0 .. MaxTime
      BY <1>1
    <3>2. QED
      BY <3>1, MidnightIsDay
  <2>2. CASE Hit(d, d, c)
    BY <2>1, <2>2, HitStep
  <2>3. CASE Miss(t, f) /\ UNCHANGED locked
    <3>1. f \in Call /\ f.op = "exec" /\ f.of = f.day /\ f.reply = None
      BY <2>1, NewCall
    <3> HIDE DEF f
    <3>2. QED
      BY <3>1, <2>3, MissStep
  <2>4. QED
    BY <1>3, <2>2, <2>3 DEF ExecCall, ProposalDay
<1>4. ASSUME NEW t \in Task, EstimateCall(t)
      PROVE  IInv'
  <2> DEFINE f == [op |-> "estimate", day |-> PrevMidnight(now), reply |-> None]
  <2>1. f \in Call /\ f.op = "estimate" /\ f.reply = None
    BY <1>1 DEF Call
  <2>2. Miss(t, f) /\ UNCHANGED locked
    BY <1>4 DEF EstimateCall
  <2> HIDE DEF f
  <2>3. QED
    BY <2>1, <2>2, MissStep
<1>5. ASSUME NEW t \in Task, Resume(t)
      PROVE  IInv'
  BY <1>5, FetchedStep, FailedStep DEF Resume
<1>6. ASSUME NEW t \in Task, Answer(t)
      PROVE  IInv'
  BY <1>6, AnswerStep, FailStep DEF Answer
<1>7. QED
  BY <1>2, <1>3, <1>4, <1>5, <1>6, TickStep DEF Next

------------------------------------------------------------------------------
(* Theorems *)

\* The inductive invariant holds of every state of every behaviour.
THEOREM RateInvariant == Spec => []IInv
BY InitInv, StepInv, PTL DEF Spec

\* Every variable keeps its type, and every price fits u64.
THEOREM RateTypeCorrect == Spec => []TypeOK
<1>1. IInv => TypeOK
  BY DEF IInv
<1>2. QED
  BY <1>1, RateInvariant, PTL

\* The cache tells no rate that the XRC did not give for that day.
THEOREM CacheIsTruthful == Spec => []CacheTruthful
<1>1. IInv => CacheTruthful
  BY DEF IInv
<1>2. QED
  BY <1>1, RateInvariant, PTL

\* get_todays_price pays for one answer a day at most.
THEOREM PricesFetchedOnce == Spec => []PriceFetchedOnce
<1>1. IInv => PriceFetchedOnce
  BY DEF IInv, TypeOK, FetchedKept, PriceFetchedOnce
<1>2. QED
  BY <1>1, RateInvariant, PTL

\* The price told on a day is the price charged for a proposal of that day.
THEOREM QuotesAlwaysAgree == Spec => []QuotesAgree
<1>1. IInv => QuotesAgree
  <2>1. SUFFICES ASSUME IInv, XrcRepeats, NEW d \in Day, NEW c \in Condition,
                        NEW p \in quoted[d][c], NEW q \in quoted[d][c]
                 PROVE  p = q
    BY DEF QuotesAgree
  <2>2. PICK r \in answered[d] : p = Price(c, r)
    BY <2>1 DEF IInv, QuotedAtRates, PricedAt
  <2>3. PICK z \in answered[d] : q = Price(c, z)
    BY <2>1 DEF IInv, QuotedAtRates, PricedAt
  <2>4. r = z
    BY <2>1 DEF IInv, OneAnswer
  <2>5. QED
    BY <2>2, <2>3, <2>4
<1>2. QED
  BY <1>1, RateInvariant, PTL

------------------------------------------------------------------------------
(* From a price back to the days it pays for *)

\* A product grows with its factors.
LEMMA ProductMonotone == \A a, b, c \in Nat : b <= c => a * b <= a * c
<1> SUFFICES ASSUME NEW a \in Nat, NEW b \in Nat, NEW c \in Nat, b <= c
             PROVE  a * b <= a * c
  OBVIOUS
<1>1. PICK d \in Nat : c = b + d
  <2>1. c - b \in Nat /\ c = b + (c - b)
    OBVIOUS
  <2>2. QED
    BY <2>1
<1>2. a * c = a * b + a * d
  BY <1>1
<1>3. a * b \in Nat /\ a * d \in Nat
  OBVIOUS
<1>4. QED
  BY <1>2, <1>3

\* A positive factor can be left out on both sides.
LEMMA ProductCancels ==
    \A a \in Nat \ {0} : \A b, c \in Nat : /\ a * b <= a * c => b <= c
                                           /\ a * b < a * c => b < c
<1> SUFFICES ASSUME NEW a \in Nat \ {0}, NEW b \in Nat, NEW c \in Nat
             PROVE  (a * b <= a * c => b <= c) /\ (a * b < a * c => b < c)
  OBVIOUS
<1>1. a * b \in Nat /\ a * c \in Nat
  OBVIOUS
<1>2. ASSUME a * b <= a * c, c + 1 <= b PROVE FALSE
  <2>1. a * (c + 1) <= a * b
    BY <1>2, ProductMonotone, c + 1 \in Nat
  <2>2. a * (c + 1) = a * c + a
    OBVIOUS
  <2>3. QED
    BY <1>1, <1>2, <2>1, <2>2
<1>3. ASSUME a * b < a * c, c <= b PROVE FALSE
  <2>1. a * c <= a * b
    BY <1>3, ProductMonotone
  <2>2. QED
    BY <1>1, <1>3, <2>1
<1>4. QED
  BY <1>2, <1>3

\* What a division leaves, and that nothing else leaves as little.
LEMMA Quotient ==
    \A a \in Nat, b \in Nat \ {0} :
        /\ a \div b \in Nat
        /\ b * (a \div b) <= a
        /\ a < b * (a \div b) + b
OBVIOUS

LEMMA QuotientUnique ==
    \A a \in Nat, b \in Nat \ {0}, n \in Nat :
        b * n <= a /\ a < b * n + b => a \div b = n
<1> SUFFICES ASSUME NEW a \in Nat, NEW b \in Nat \ {0}, NEW n \in Nat,
                    b * n <= a, a < b * n + b
             PROVE  a \div b = n
  OBVIOUS
<1> DEFINE k == a \div b
<1>1. k \in Nat /\ b * k <= a /\ a < b * k + b
  BY Quotient
<1> HIDE DEF k
<1>2. b * k + b = b * (k + 1) /\ b * n + b = b * (n + 1)
  BY <1>1
<1>3. b * n < b * (k + 1) /\ b * k < b * (n + 1)
  <2>1. b * n \in Nat /\ b * k \in Nat /\ b * (k + 1) \in Nat /\ b * (n + 1) \in Nat
    BY <1>1
  <2>2. QED
    BY <1>1, <1>2, <2>1
<1>4. n < k + 1 /\ k < n + 1
  BY <1>1, <1>3, ProductCancels, k + 1 \in Nat, n + 1 \in Nat
<1>5. QED
  BY <1>1, <1>4 DEF k

\* The price p of w cycles at rate r is the last one that r takes to w cycles.
LEMMA PriceBounds ==
    ASSUME NEW w \in Nat, NEW r \in Nat \ {0}, NEW q \in Nat, NEW f \in Nat \ {0}
    PROVE  LET p == ((w * (q * f)) \div r) \div f
           IN  p \in Nat /\ p * r <= w * q /\ w * q < p * r + r
<1> DEFINE x == w * (q * f)
           y == x \div r
           p == y \div f
<1>1. x \in Nat /\ x = f * (w * q)
  OBVIOUS
<1> HIDE DEF x
<1>2. y \in Nat /\ r * y <= x /\ x < r * y + r
  BY <1>1, Quotient
<1> HIDE DEF y
<1>3. p \in Nat /\ f * p <= y /\ y < f * p + f
  BY <1>2, Quotient
<1> HIDE DEF p
<1>4. w * q \in Nat /\ p * r \in Nat /\ f * p \in Nat /\ r * y \in Nat
  BY <1>2, <1>3
<1>5. p * r <= w * q
  <2>1. r * (f * p) <= r * y
    BY <1>2, <1>3, <1>4, ProductMonotone
  <2>2. r * (f * p) = f * (p * r) /\ f * (p * r) \in Nat
    BY <1>3
  <2>3. f * (p * r) <= f * (w * q)
    BY <1>1, <1>2, <1>4, <2>1, <2>2
  <2>4. QED
    BY <1>4, <2>3, ProductCancels
<1>6. w * q < p * r + r
  <2>1. y + 1 <= f * (p + 1) /\ f * (p + 1) \in Nat
    BY <1>2, <1>3
  <2>2. r * (y + 1) <= r * (f * (p + 1))
    BY <1>2, <2>1, ProductMonotone, y + 1 \in Nat
  <2>3. r * (y + 1) = r * y + r /\ r * (f * (p + 1)) = f * (p * r + r)
    BY <1>2, <1>3
  <2>4. f * (w * q) < f * (p * r + r)
    <3>1. f * (p * r + r) \in Nat
      BY <1>3
    <3>2. QED
      BY <1>1, <1>2, <1>4, <2>2, <2>3, <3>1
  <2>5. QED
    BY <1>4, <2>4, ProductCancels, p * r + r \in Nat
<1>7. QED
  BY <1>3, <1>5, <1>6 DEF p, y, x

\* The cycles that the price of w cycles buys, two transfers paid for, lack at
\* most what the fees and the two roundings take, if that is no more than h.
LEMMA EstimateBounds ==
    ASSUME NEW w \in Nat, NEW r, r.rate \in Nat \ {0}, r.scale \div FACTOR \in Nat \ {0},
           NEW p \in Nat, NEW h \in Nat,
           p * r.rate <= w * (r.scale \div FACTOR),
           w * (r.scale \div FACTOR) < p * r.rate + r.rate,
           (2 * DEFAULT_FEE + 1) * r.rate <= (r.scale \div FACTOR) * h
    PROVE  /\ EstimatedCycles(p, r) \in Nat
           /\ EstimatedCycles(p, r) <= w
           /\ w <= EstimatedCycles(p, r) + h
<1> DEFINE x == r.rate
           q == r.scale \div FACTOR
           m == Less(Less(p, DEFAULT_FEE), DEFAULT_FEE)
           e == DEFAULT_FEE
           y == (m * x) \div q
<1>1. e \in Nat /\ x \in Nat \ {0} /\ q \in Nat \ {0}
  BY PricingAssumption
<1>2. m \in Nat /\ m <= p /\ p <= m + 2 * e
  BY <1>1 DEF Less
<1>3. EstimatedCycles(p, r) = y
  BY DEF EstimatedCycles
<1>4. p * x <= w * q /\ w * q < p * x + x /\ (2 * e + 1) * x <= q * h
  OBVIOUS
<1> HIDE DEF x, q, m, e
<1>5. /\ m * x \in Nat /\ p * x \in Nat /\ w * q \in Nat /\ q * h \in Nat
      /\ (2 * e + 1) * x \in Nat
  BY <1>1, <1>2
<1>6. y \in Nat /\ q * y <= m * x /\ m * x < q * y + q
  BY <1>1, <1>5, Quotient
<1> HIDE DEF y
<1>7. y <= w
  <2>1. x * m <= x * p
    BY <1>1, <1>2, ProductMonotone
  <2>2. x * m = m * x /\ x * p = p * x /\ w * q = q * w
    BY <1>1, <1>2
  <2>3. q * y \in Nat
    BY <1>1, <1>6
  <2>4. q * y <= q * w
    BY <1>4, <1>5, <1>6, <2>1, <2>2, <2>3
  <2>5. QED
    BY <1>1, <1>6, <2>4, ProductCancels
<1>8. w <= y + h
  <2>1. x * p <= x * (m + 2 * e)
    BY <1>1, <1>2, ProductMonotone, m + 2 * e \in Nat
  <2>2. x * (m + 2 * e) + x = m * x + (2 * e + 1) * x /\ x * p = p * x
    BY <1>1, <1>2
  <2>3. p * x + x <= m * x + q * h
    <3>1. x * (m + 2 * e) \in Nat
      BY <1>1, <1>2
    <3>2. QED
      BY <1>1, <1>4, <1>5, <2>1, <2>2, <3>1
  <2>4. q * (y + h + 1) = q * y + q * h + q /\ w * q = q * w
    BY <1>1, <1>6
  <2>5. q * w < q * (y + h + 1)
    <3>1. q * y \in Nat /\ q * (y + h + 1) \in Nat
      BY <1>1, <1>6
    <3>2. QED
      BY <1>1, <1>4, <1>5, <1>6, <2>3, <2>4, <3>1
  <2>6. w < y + h + 1
    BY <1>1, <1>6, <2>5, ProductCancels, y + h + 1 \in Nat
  <2>7. QED
    BY <1>6, <2>6
<1>9. QED
  BY <1>3, <1>6, <1>7, <1>8

\* Cycles short of n days by at most half a day are n days.
LEMMA NearestDay ==
    ASSUME NEW daily \in Nat \ {0}, NEW n \in Nat, NEW y \in Nat,
           y <= daily * n, daily * n <= y + daily \div 2
    PROVE  EstimatedDays(y, daily) = n
<1> DEFINE h == daily \div 2
<1>1. h \in Nat /\ h < daily
  OBVIOUS
<1> HIDE DEF h
<1>2. daily * n \in Nat
  OBVIOUS
<1>3. y <= daily * n /\ daily * n <= y + h
  BY DEF h
<1>4. (y + h) \div daily = n
  BY <1>1, <1>2, <1>3, QuotientUnique, y + h \in Nat
<1>5. QED
  BY <1>4 DEF EstimatedDays, h

\* At a rate with enough decimals, at which half a day costs more than two fees
\* and the rounding, the price of n days pays for n days, unless it is cut.
LEMMA PriceRoundTrip ==
    ASSUME NEW daily \in Nat, NEW n \in Nat, NEW r, r.rate \in Nat \ {0},
           r.scale \in Nat, r.scale = FACTOR * (r.scale \div FACTOR),
           (2 * DEFAULT_FEE + 1) * r.rate <= (r.scale \div FACTOR) * (daily \div 2),
           ExactPrice(daily, n, r) <= MAX_U64
    PROVE  EstimatedDays(EstimatedCycles(SubnetPrice(daily, n, r), r), daily) = n
<1> DEFINE x == r.rate
           q == r.scale \div FACTOR
           h == daily \div 2
           w == daily * n
           p == ExactPrice(daily, n, r)
<1>1. /\ x \in Nat \ {0} /\ FACTOR \in Nat \ {0} /\ DEFAULT_FEE \in Nat
      /\ MAX_U64 \in Nat /\ h \in Nat /\ w \in Nat
  BY PricingAssumption
<1>2. q \in Nat
  BY <1>1, Quotient
<1>3. r.scale = q * FACTOR
  BY <1>1, <1>2
<1>4. (2 * DEFAULT_FEE + 1) * x <= q * h
  OBVIOUS
<1>5. p = ((w * (q * FACTOR)) \div x) \div FACTOR
  BY <1>3 DEF ExactPrice
<1>6. SubnetPrice(daily, n, r) = p
  <2>1. p \in Nat
    BY <1>1, <1>2, <1>5, PriceBounds
  <2>2. QED
    BY <1>1, <2>1 DEF SubnetPrice
<1> HIDE DEF x, q, h, w, p
<1>7. p \in Nat /\ p * x <= w * q /\ w * q < p * x + x
  BY <1>1, <1>2, <1>5, PriceBounds
<1>8. q # 0 /\ h # 0
  <2>1. (2 * DEFAULT_FEE + 1) * x = 2 * DEFAULT_FEE * x + x /\ DEFAULT_FEE * x \in Nat
    BY <1>1
  <2>2. q * h # 0
    BY <1>1, <1>4, <2>1
  <2>3. QED
    BY <1>1, <1>2, <2>2
<1>9. /\ EstimatedCycles(p, r) \in Nat
      /\ EstimatedCycles(p, r) <= w
      /\ w <= EstimatedCycles(p, r) + h
  BY <1>1, <1>2, <1>4, <1>7, <1>8, EstimateBounds DEF x, q
<1>10. daily # 0
  BY <1>8 DEF h
<1>11. QED
  BY <1>6, <1>9, <1>10, NearestDay DEF w, h

\* Every estimate for a price told or charged gives back the days it pays for,
\* whichever midnight and conditions, if the XRC's rates have the four decimals
\* that the estimate divides out, half a day costs more than the two fees and the
\* rounding, and the XRC does not change its mind.
THEOREM EstimatesRoundTrip ==
    ASSUME XrcRepeats,
           \A r \in Rate : r.rate # 0 =>
               /\ r.scale = FACTOR * (r.scale \div FACTOR)
               /\ \A c \in Condition :
                     (2 * DEFAULT_FEE + 1) * r.rate
                         <= (r.scale \div FACTOR) * (DailyCost[c] \div 2)
    PROVE  Spec => []RoundTrip
<1>1. ASSUME IInv, NEW d \in Day, NEW c \in Condition, rates[d] # None,
             NEW p \in quoted[d][c],
             ~(ExactPrice(DailyCost[c], INITIAL_RENTAL_PERIOD_DAYS, rates[d]) > MAX_U64)
      PROVE  EstimatedDays(EstimatedCycles(p, rates[d]), DailyCost[c])
                 = INITIAL_RENTAL_PERIOD_DAYS
  <2> DEFINE r == rates[d]
             days == INITIAL_RENTAL_PERIOD_DAYS
  <2>1. r \in Rate /\ r \in answered[d]
    BY <1>1 DEF IInv, TypeOK, CacheTruthful
  <2>2. p = SubnetPrice(DailyCost[c], days, r) /\ r.rate # 0
    BY <1>1, <2>1 DEF IInv, QuotedAtRates, PricedAt, OneAnswer, Price
  <2>3. /\ r.rate \in Nat \ {0} /\ r.scale \in Nat
        /\ DailyCost[c] \in Nat /\ days \in Nat /\ MAX_U64 \in Nat
    BY <2>1, <2>2, RateAssumption, PricingAssumption
  <2>4. /\ r.scale = FACTOR * (r.scale \div FACTOR)
        /\ (2 * DEFAULT_FEE + 1) * r.rate
               <= (r.scale \div FACTOR) * (DailyCost[c] \div 2)
    BY <2>1, <2>2
  <2>5. ExactPrice(DailyCost[c], days, r) <= MAX_U64
    <3>1. ExactPrice(DailyCost[c], days, r) \in Nat
      <4>1. DailyCost[c] * days * r.scale \in Nat /\ FACTOR \in Nat \ {0}
        BY <2>3, PricingAssumption
      <4>2. (DailyCost[c] * days * r.scale) \div r.rate \in Nat
        BY <2>3, <4>1, Quotient
      <4>3. QED
        BY <4>1, <4>2, Quotient DEF ExactPrice
    <3>2. QED
      BY <1>1, <2>3, <3>1
  <2> HIDE DEF r, days
  <2>6. EstimatedDays(EstimatedCycles(p, r), DailyCost[c]) = days
    BY <2>2, <2>3, <2>4, <2>5, PriceRoundTrip
  <2>7. QED
    BY <2>6 DEF r, days
<1>2. IInv => RoundTrip
  BY <1>1 DEF RoundTrip
<1>3. QED
  BY <1>2, RateInvariant, PTL

------------------------------------------------------------------------------
(* Refinement *)

\* A step enters one rate in the book at most, and changes none.
LEMMA StepBook ==
    ASSUME XrcRepeats, IInv, [Next]_vars
    PROVE  Book!Next \/ UNCHANGED rates
<1>1. ASSUME NEW t \in Task, Fetched(t)
      PROVE  Book!Next \/ UNCHANGED rates
  <2> DEFINE d == calls[t].day
             r == calls[t].reply
  <2>1. /\ calls[t] # None /\ calls[t] \in Call /\ r \in Rate
        /\ rates' = [rates EXCEPT ![d] = r]
        /\ rates \in [Day -> Rate \cup {None}]
    BY <1>1 DEF IInv, TypeOK, Fetched, CacheKey
  <2>2. d \in Day /\ r \in answered[d]
    BY <2>1, CallParts DEF IInv, CallsKnown
  <2> HIDE DEF d, r
  <2>3. CASE rates[d] = None
    BY <2>1, <2>2, <2>3 DEF Book!Next, Book!Enter
  <2>4. CASE rates[d] # None
    <3>1. rates[d] = r
      BY <2>2, <2>4 DEF IInv, CacheTruthful, OneAnswer
    <3>2. QED
      BY <2>1, <2>2, <3>1
  <2>5. QED
    BY <2>3, <2>4
<1>2. ASSUME NEW t \in Task, Failed(t) \/ Answer(t) \/ EstimateCall(t)
      PROVE  UNCHANGED rates
  BY <1>2 DEF Failed, Answer, XrcAnswers, XrcFails, EstimateCall, Miss
<1>3. ASSUME NEW t \in Task, NEW c \in Condition,
             PriceCall(t, c) \/ \E created \in 0 .. now : ExecCall(t, c, created)
      PROVE  UNCHANGED rates
  BY <1>3 DEF PriceCall, ExecCall, Hit, Miss
<1>4. CASE Tick \/ UNCHANGED vars
  BY <1>4 DEF Tick, vars
<1>5. QED
  BY <1>1, <1>2, <1>3, <1>4 DEF Next, Resume

\* If the XRC repeats its answers, the cache is a book of rates.
THEOREM CacheIsBook ==
    ASSUME XrcRepeats
    PROVE  Spec => RateBookSpec
<1>1. IInv /\ [Next]_vars => [Book!Next]_rates
  BY StepBook
<1>2. Init => Book!Init
  BY DEF Init, Book!Init
<1>3. QED
  BY <1>1, <1>2, RateInvariant, PTL DEF Spec, RateBookSpec, Book!Spec
==============================================================================
