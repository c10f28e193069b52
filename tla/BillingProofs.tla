----------------------------- MODULE BillingProofs -----------------------------
(***************************************************************************)
(* Proofs about Billing, for any subnets, prices, periods, rates at which  *)
(* cycles were bought, lateness of the timer and shortage of cycles.       *)
(*                                                                         *)
(* The inductive invariant joins the types with three facts: what a top-up *)
(* read when it started is still the agreement when it ends (the guard     *)
(* keeps the timer, other calls and upgrades away), no more is burned than *)
(* was created, and an agreement has cycles until the last run of the      *)
(* timer before its deadline.                                              *)
(***************************************************************************)
EXTENDS BillingProperties, TLAPS

\* The copy of an open top-up is current, and an agreement has one open call.
CopyCurrent ==
    /\ \A f \in calls : agreements[f.subnet] # None
    /\ \A f \in calls : f.op = "topup" => f.copy = agreements[f.subnet]
    /\ \A f, g \in calls : f.subnet = g.subnet => f = g

BurnedWithinCreated ==
    \A s \in Subnet :
        agreements[s] # None => agreements[s].burned <= agreements[s].created

\* More than one interval before the deadline there are cycles left.
Funded(a, at) ==
    SecondsRemaining(a.paid, at) > CYCLES_BURN_INTERVAL_SECONDS
        => Remaining(a) > 0

FundedAhead == \A s \in Subnet : agreements[s] # None => Funded(agreements[s], now)

IInv ==
    /\ TypeOK
    /\ CopyCurrent
    /\ BurnedWithinCreated
    /\ FundedAhead
    /\ SwitchedOnce

------------------------------------------------------------------------------
(* Arithmetic *)

\* Integer division rounds down.
LEMMA DivFacts ==
    ASSUME NEW x \in Nat, NEW y \in Nat, y > 0
    PROVE  /\ x \div y \in Nat
           /\ (x \div y) * y <= x
           /\ x < (x \div y + 1) * y
<1>1. x \div y \in Nat
  OBVIOUS
<1>2. (x \div y) * y <= x
  OBVIOUS
<1>3. x < (x \div y + 1) * y
  OBVIOUS
<1>4. QED
  BY <1>1, <1>2, <1>3

\* It is monotonic.
LEMMA DivMonotonic ==
    ASSUME NEW x \in Nat, NEW z \in Nat, NEW y \in Nat, y > 0, x <= z
    PROVE  x \div y <= z \div y
OBVIOUS

LEMMA ProductNat == \A x, y \in Nat : x * y \in Nat
OBVIOUS

\* The floor of a sum.
LEMMA FloorSum ==
    ASSUME NEW x \in Nat, NEW n \in Nat, NEW y \in Nat, y > 0
    PROVE  (x + n) \div y \in {x \div y + n \div y, x \div y + n \div y + 1}
OBVIOUS

\* The quotient is the only number between its bounds.
LEMMA DivUnique ==
    ASSUME NEW x \in Nat, NEW y \in Nat, y > 0, NEW q \in Nat,
           q * y <= x, x < (q + 1) * y
    PROVE  x \div y = q
OBVIOUS

\* A common factor cancels.
LEMMA Cancel ==
    ASSUME NEW k \in Nat, NEW m \in Nat, m > 0, NEW b \in Nat, b > 0
    PROVE  (k * b) \div (m * b) = k \div m
<1> DEFINE q == k \div m
<1>1. q \in Nat /\ q * m <= k /\ k < (q + 1) * m
  BY DivFacts
<1> HIDE DEF q
<1>2. q * (m * b) <= k * b
  BY <1>1
<1>3. k * b < (q + 1) * (m * b)
  BY <1>1
<1>4. m * b \in Nat /\ m * b > 0 /\ k * b \in Nat
  OBVIOUS
<1>5. (k * b) \div (m * b) = q
  BY <1>1, <1>2, <1>3, <1>4, DivUnique
<1>6. QED
  BY <1>5 DEF q

\* Saturating subtraction.
LEMMA LessFacts ==
    ASSUME NEW a \in Nat, NEW b \in Nat
    PROVE  /\ Less(a, b) \in Nat
           /\ Less(a, b) <= a
           /\ a > b => Less(a, b) = a - b
           /\ a <= b => Less(a, b) = 0
BY DEF Less

\* Every condition costs at least a cycle per second.
LEMMA CostFacts ==
    ASSUME NEW c \in RentalConditionId
    PROVE  CostPerSecond(DailyCost[c]) \in Nat /\ CostPerSecond(DailyCost[c]) > 0
<1>1. DailyCost[c] \in Nat /\ DailyCost[c] >= SECONDS_PER_DAY
  BY ConditionAssumption
<1>2. SECONDS_PER_DAY \in Nat /\ SECONDS_PER_DAY > 0
  BY TimeAssumption
<1>3. DailyCost[c] \div SECONDS_PER_DAY \in Nat
  BY <1>1, <1>2, DivFacts
<1>4. SECONDS_PER_DAY \div SECONDS_PER_DAY <= DailyCost[c] \div SECONDS_PER_DAY
  BY <1>1, <1>2, DivMonotonic
<1>5. SECONDS_PER_DAY \div SECONDS_PER_DAY = 1
  BY <1>2
<1>6. QED
  BY <1>3, <1>4, <1>5 DEF CostPerSecond

\* Cycles pay for whole seconds, and no cycles pay for none.
LEMMA ChargedFacts ==
    ASSUME NEW c \in RentalConditionId, NEW cycles \in Nat
    PROVE  LET nanos == SecondsCharged(cycles, DailyCost[c]) * BILLION
           IN  nanos \in Nat /\ (cycles = 0 => nanos = 0)
<1> DEFINE cost == CostPerSecond(DailyCost[c])
<1>1. cost \in Nat /\ cost > 0
  BY CostFacts
<1> HIDE DEF cost
<1>2. cycles \div cost \in Nat
  BY <1>1, DivFacts
<1>3. cycles = 0 => cycles \div cost = 0
  BY <1>1
<1>4. (cycles \div cost) * BILLION \in Nat
  BY <1>2, TimeAssumption, ProductNat
<1>5. cycles = 0 => (cycles \div cost) * BILLION = 0
  BY <1>3, TimeAssumption
<1>6. QED
  BY <1>4, <1>5 DEF SecondsCharged, cost

\* A top-up never moves a deadline back, and without cycles not at all.
LEMMA ExtendedFacts ==
    ASSUME NEW c \in RentalConditionId, NEW cycles \in Nat, NEW paid \in Time,
           NEW at \in Time
    PROVE  LET new == Extended(paid, at, cycles, DailyCost[c])
           IN  new \in Time /\ new >= paid /\ (cycles = 0 => new = paid)
<1> DEFINE nanos == SecondsCharged(cycles, DailyCost[c]) * BILLION
<1>1. nanos \in Nat /\ (cycles = 0 => nanos = 0)
  BY ChargedFacts
<1> HIDE DEF nanos
<1>2. Extended(paid, at, cycles, DailyCost[c]) = Capped(paid + nanos)
  BY DEF Extended, nanos
<1>3. QED
  BY <1>1, <1>2, TimeAssumption DEF Capped, Least, Time

\* The migration leaves no time to an agreement without cycles.
LEMMA RepriceFacts ==
    ASSUME NEW c \in RentalConditionId, NEW cycles \in Nat, NEW at \in Time
    PROVE  LET new == Reprice(cycles, DailyCost[c], at)
           IN  new \in Time /\ (cycles = 0 => new = at)
<1> DEFINE nanos == SecondsCharged(cycles, DailyCost[c]) * BILLION
<1>1. nanos \in Nat /\ (cycles = 0 => nanos = 0)
  BY ChargedFacts
<1> HIDE DEF nanos
<1>2. Reprice(cycles, DailyCost[c], at) = Capped(at + nanos)
  BY CostFacts DEF Reprice, nanos
<1>3. QED
  BY <1>1, <1>2, TimeAssumption DEF Capped, Least, Time

\* One run of the timer burns no more than there is, and not all of it if the
\* deadline is further away than the next run.
LEMMA BurnedPerRunFacts ==
    ASSUME NEW remaining \in Nat, NEW seconds \in Nat, seconds > 0
    PROVE  /\ BurnedPerRun(remaining, seconds) \in Nat
           /\ BurnedPerRun(remaining, seconds) <= remaining
           /\ (remaining > 0 /\ seconds > CYCLES_BURN_INTERVAL_SECONDS)
                 => BurnedPerRun(remaining, seconds) < remaining
<1> DEFINE q == remaining \div seconds
           i == CYCLES_BURN_INTERVAL_SECONDS
<1>1. q \in Nat /\ q * seconds <= remaining
  BY DivFacts
<1>2. i \in Nat
  BY TimeAssumption
<1> HIDE DEF q, i
<1>3. q * i \in Nat
  BY <1>1, <1>2, ProductNat
<1>4. (remaining > 0 /\ seconds > i) => q * i < remaining
  BY <1>1, <1>2
<1>5. BurnedPerRun(remaining, seconds) = Least(q * i, remaining)
  BY DEF BurnedPerRun, q, i
<1>6. QED
  BY <1>3, <1>4, <1>5 DEF Least, i

\* The seconds before a deadline decrease with time and are none after it.
LEMMA SecondsFacts ==
    ASSUME NEW paid \in Nat, NEW at \in Nat
    PROVE  /\ SecondsRemaining(paid, at) \in Nat
           /\ paid <= at => SecondsRemaining(paid, at) = 0
           /\ SecondsRemaining(paid, at + 1) <= SecondsRemaining(paid, at)
<1>1. BILLION \in Nat /\ BILLION > 0
  BY TimeAssumption
<1>2. Less(paid, at) \in Nat /\ Less(paid, at + 1) \in Nat
  <2>1. at + 1 \in Nat
    OBVIOUS
  <2>2. QED
    BY <2>1, LessFacts
<1>3. Less(paid, at + 1) <= Less(paid, at)
  BY DEF Less
<1>4. Less(paid, at) \div BILLION \in Nat
  BY <1>1, <1>2, DivFacts
<1>5. paid <= at => Less(paid, at) \div BILLION = 0
  <2>1. paid <= at => Less(paid, at) = 0
    BY LessFacts
  <2>2. QED
    BY <2>1, <1>1
<1>6. Less(paid, at + 1) \div BILLION <= Less(paid, at) \div BILLION
  BY <1>1, <1>2, <1>3, DivMonotonic
<1>7. QED
  BY <1>4, <1>5, <1>6 DEF SecondsRemaining

------------------------------------------------------------------------------
(* What the steps make of an agreement *)

\* An agreement as the invariant has it, at a time.
Good(a, at) == a \in Agreement /\ a.burned <= a.created /\ Funded(a, at)

\* What is left of an agreement.
LEMMA RemainingFacts ==
    ASSUME NEW a \in Agreement
    PROVE  /\ Remaining(a) \in Nat
           /\ a.burned <= a.created => Remaining(a) = a.created - a.burned
BY LessFacts DEF Remaining, Less, Agreement

LEMMA GoodAgreements ==
    ASSUME IInv, NEW s \in Subnet, agreements[s] # None
    PROVE  Good(agreements[s], now)
BY DEF IInv, TypeOK, BurnedWithinCreated, FundedAhead, Good

\* An agreement starts with cycles and nothing burned.
LEMMA NewGood ==
    ASSUME TypeOK, NEW c \in RentalConditionId, NEW s \in Subnet,
           NEW cycles \in InitialCycles[s], NEW converted \in 0 .. now,
           now <= LastCreation
    PROVE  Good([cond |-> c, paid |-> converted + InitialPeriod,
                 created |-> cycles, burned |-> 0], now)
<1> DEFINE a == [cond |-> c, paid |-> converted + InitialPeriod,
                 created |-> cycles, burned |-> 0]
<1>1. InitialPeriod \in Nat
  BY ConditionAssumption, TimeAssumption, ProductNat
     DEF InitialPeriod, NANOS_PER_DAY
<1>2. converted + InitialPeriod \in Time
  BY <1>1, ClockAssumption, TimeAssumption DEF TypeOK, Time
<1>3. cycles \in Nat /\ cycles > 0
  BY CyclesAssumption
<1>4. a \in Agreement
  BY <1>2, <1>3 DEF Agreement
<1>5. Remaining(a) > 0
  BY <1>3 DEF Remaining, Less
<1>6. QED
  BY <1>3, <1>4, <1>5 DEF Good, Funded

\* A burn takes from what is left, and not the last of it ahead of the deadline.
LEMMA BurnGood ==
    ASSUME NEW a, NEW less \in Nat, now \in Time, Good(a, now), Remaining(a) > 0,
           PastDue(a) \/ SecondsRemaining(a.paid, now) > 0
    PROVE  LET b == [a EXCEPT !.burned = @ + Less(ToBurn(a), less)]
           IN  /\ Good(b, now)
               /\ b.cond = a.cond /\ b.paid = a.paid /\ b.created = a.created
               /\ b.burned >= a.burned
<1> DEFINE r == Remaining(a)
           seconds == SecondsRemaining(a.paid, now)
           taken == Less(ToBurn(a), less)
           b == [a EXCEPT !.burned = @ + taken]
<1>1. a \in Agreement /\ a.created \in Nat /\ a.burned \in Nat /\ a.paid \in Nat
  BY TimeAssumption DEF Good, Agreement, Time
<1>2. r \in Nat /\ r = a.created - a.burned
  BY <1>1, RemainingFacts DEF Good
<1>3. seconds \in Nat /\ (PastDue(a) => seconds = 0)
  <2>1. now \in Nat
    BY TimeAssumption DEF Time
  <2>2. PastDue(a) => a.paid <= now
    BY <1>1, <2>1 DEF PastDue
  <2>3. QED
    BY <1>1, <2>1, <2>2, SecondsFacts
<1>4. /\ ToBurn(a) \in Nat
      /\ ToBurn(a) <= r
      /\ seconds > CYCLES_BURN_INTERVAL_SECONDS => ToBurn(a) < r
  <2>1. CASE PastDue(a)
    BY <2>1, <1>2, <1>3, TimeAssumption DEF ToBurn
  <2>2. CASE ~PastDue(a)
    <3>1. seconds > 0
      BY <2>2
    <3>2. ToBurn(a) = BurnedPerRun(r, seconds)
      BY <2>2 DEF ToBurn
    <3>3. QED
      BY <3>1, <3>2, <1>2, <1>3, BurnedPerRunFacts
  <2>3. QED
    BY <2>1, <2>2
<1>5. taken \in Nat /\ taken <= ToBurn(a)
  BY <1>4, LessFacts
<1> HIDE DEF r, seconds, taken
<1>6. /\ b \in Agreement
      /\ b.cond = a.cond /\ b.paid = a.paid /\ b.created = a.created
      /\ b.burned = a.burned + taken
  BY <1>1, <1>5 DEF Agreement
<1>7. b.burned <= b.created /\ b.burned >= a.burned
  BY <1>1, <1>2, <1>4, <1>5, <1>6
<1> HIDE DEF b
<1>8. Remaining(b) = r - taken
  <2>1. Remaining(b) = b.created - b.burned
    BY <1>6, <1>7, RemainingFacts
  <2>2. QED
    BY <2>1, <1>1, <1>2, <1>5, <1>6
<1>9. Funded(b, now)
  BY <1>2, <1>3, <1>4, <1>5, <1>6, <1>8, TimeAssumption DEF Funded, seconds
<1>10. QED
  BY <1>6, <1>7, <1>9 DEF Good, taken, b

\* A top-up adds cycles and time, and burns nothing.
LEMMA TopUpGood ==
    ASSUME NEW a, NEW cycles \in Nat, now \in Time, Good(a, now)
    PROVE  LET b == ToppedUp(a, a, cycles)
           IN  /\ Good(b, now)
               /\ b.cond = a.cond /\ b.paid >= a.paid
               /\ b.created = a.created + cycles /\ b.burned = a.burned
<1> DEFINE paid == Extended(a.paid, now, cycles, DailyCost[a.cond])
           created == a.created + cycles
           b == [a EXCEPT !.created = created, !.paid = paid]
<1>1. /\ a \in Agreement /\ a.created \in Nat /\ a.burned \in Nat
      /\ a.paid \in Time /\ a.cond \in RentalConditionId
  BY DEF Good, Agreement
<1>2. paid \in Time /\ paid >= a.paid /\ (cycles = 0 => paid = a.paid)
  BY <1>1, ExtendedFacts
<1>3. created \in Nat
  BY <1>1
<1> HIDE DEF paid, created
<1>4. /\ b \in Agreement
       /\ b.cond = a.cond /\ b.paid = paid
       /\ b.created = created /\ b.burned = a.burned
  BY <1>1, <1>2, <1>3 DEF Agreement
<1>5. /\ b \in Agreement
      /\ b.cond = a.cond /\ b.paid = paid
      /\ b.created = a.created + cycles /\ b.burned = a.burned
  BY <1>4 DEF created
<1>6. b.burned <= b.created
  BY <1>1, <1>5 DEF Good
<1>7. Remaining(b) = Remaining(a) + cycles /\ Remaining(a) \in Nat
  <2>1. Remaining(b) = b.created - b.burned
    BY <1>5, <1>6, RemainingFacts
  <2>2. Remaining(a) = a.created - a.burned /\ Remaining(a) \in Nat
    BY <1>1, RemainingFacts DEF Good
  <2>3. QED
    BY <2>1, <2>2, <1>1, <1>5
<1>8. Funded(b, now)
  <2>1. CASE cycles = 0
    BY <2>1, <1>2, <1>5, <1>7 DEF Funded, Good
  <2>2. CASE cycles > 0
    BY <2>2, <1>7 DEF Funded
  <2>3. QED
    BY <2>1, <2>2
<1>9. ToppedUp(a, a, cycles) = b
  BY DEF ToppedUp, paid, created
<1>10. QED
  BY <1>2, <1>5, <1>6, <1>8, <1>9 DEF Good

\* The migration changes the condition and the deadline, to a funded one.
LEMMA SwitchGood ==
    ASSUME NEW a, now \in Time, Good(a, now)
    PROVE  LET b == Switched(a)
           IN  /\ Good(b, now)
               /\ b.cond = App7CH
               /\ b.created = a.created /\ b.burned = a.burned
<1> DEFINE paid == Reprice(Remaining(a), DailyCost[App7CH], now)
           b == [a EXCEPT !.cond = App7CH, !.paid = paid]
<1>1. a \in Agreement /\ Remaining(a) \in Nat
  BY RemainingFacts DEF Good
<1>2. App7CH \in RentalConditionId
  BY DEF RentalConditionId
<1>3. paid \in Time /\ (Remaining(a) = 0 => paid = now)
  BY <1>1, <1>2, RepriceFacts
<1> HIDE DEF paid
<1>4. /\ b \in Agreement
      /\ b.cond = App7CH /\ b.paid = paid
      /\ b.created = a.created /\ b.burned = a.burned
  BY <1>1, <1>2, <1>3 DEF Agreement
<1>5. Remaining(b) = Remaining(a)
  BY <1>4 DEF Remaining
<1>6. Funded(b, now)
  <2>1. CASE Remaining(a) = 0
    <3>1. paid = now /\ now \in Nat
      BY <2>1, <1>3, TimeAssumption DEF Time
    <3>2. SecondsRemaining(paid, now) = 0
      BY <3>1, SecondsFacts
    <3>3. QED
      BY <3>2, <1>4, TimeAssumption DEF Funded
  <2>2. CASE Remaining(a) # 0
    BY <2>2, <1>1, <1>5 DEF Funded
  <2>3. QED
    BY <2>1, <2>2
<1>7. Switched(a) = b
  BY DEF Switched, paid
<1>8. QED
  BY <1>4, <1>6, <1>7 DEF Good

\* Time passes.
LEMMA TickGood ==
    ASSUME NEW a, now \in Time, Good(a, now)
    PROVE  Good(a, now + 1)
<1>1. a.paid \in Nat /\ now \in Nat
  BY TimeAssumption DEF Good, Agreement, Time
<1>2. /\ SecondsRemaining(a.paid, now) \in Nat
      /\ SecondsRemaining(a.paid, now + 1) \in Nat
      /\ SecondsRemaining(a.paid, now + 1) <= SecondsRemaining(a.paid, now)
  <2>1. now + 1 \in Nat
    BY <1>1
  <2>2. QED
    BY <1>1, <2>1, SecondsFacts
<1>3. QED
  BY <1>2, TimeAssumption DEF Good, Funded

------------------------------------------------------------------------------
(* The steps *)

\* A step after which every agreement is good, the open calls and the switches
\* are as they should be, keeps the invariant.
LEMMA Conclude ==
    ASSUME now' \in Time,
           agreements' = [s \in Subnet |-> agreements'[s]],
           \A s \in Subnet : agreements'[s] = None \/ Good(agreements'[s], now'),
           calls' \subseteq Call, CopyCurrent',
           switches' \in [Subnet -> Nat], SwitchedOnce'
    PROVE  IInv'
<1>1. \A s \in Subnet : agreements'[s] # None =>
          agreements'[s] \in Agreement
          /\ agreements'[s].burned <= agreements'[s].created
          /\ Funded(agreements'[s], now')
  BY DEF Good
<1>2. agreements' \in [Subnet -> Agreement \cup {None}]
  BY <1>1
<1>3. BurnedWithinCreated'
  BY <1>1 DEF BurnedWithinCreated
<1>4. FundedAhead'
  BY <1>1 DEF FundedAhead, Funded, SecondsRemaining, Less, Remaining
<1>5. QED
  BY <1>2, <1>3, <1>4 DEF IInv, TypeOK

\* The invariant in the form the lemmas on steps use it.
LEMMA Unfold ==
    ASSUME IInv
    PROVE  /\ now \in Time
           /\ agreements \in [Subnet -> Agreement \cup {None}]
           /\ calls \subseteq Call
           /\ switches \in [Subnet -> Nat]
           /\ CopyCurrent
           /\ SwitchedOnce
           /\ \A s \in Subnet : agreements[s] = None \/ Good(agreements[s], now)
BY GoodAgreements DEF IInv, TypeOK

\* An agreement comes about.
LEMMA CreateStep ==
    ASSUME IInv, NEW s \in Subnet, CreateAgreement(s)
    PROVE  /\ IInv'
           /\ agreements[s] = None
           /\ agreements'[s].created > 0 /\ agreements'[s].burned = 0
           /\ agreements'[s] # None
           /\ agreements' = [agreements EXCEPT ![s] = agreements'[s]]
<1>1. PICK c \in RentalConditionId, cycles \in InitialCycles[s], converted \in 0 .. now :
          agreements' = [agreements EXCEPT ![s] =
              [cond |-> c, paid |-> converted + InitialPeriod,
               created |-> cycles, burned |-> 0]]
  BY DEF CreateAgreement
<1> DEFINE n == [cond |-> c, paid |-> converted + InitialPeriod,
                 created |-> cycles, burned |-> 0]
<1>2. Good(n, now)
  BY NewGood DEF CreateAgreement, IInv
<1>3. n # None /\ n.created > 0 /\ n.burned = 0
  <2>1. n \in Agreement
    BY <1>2 DEF Good
  <2>2. QED
    BY <2>1, NoneAssumption, CyclesAssumption
<1> HIDE DEF n
<1>4. agreements' = [agreements EXCEPT ![s] = n] /\ agreements'[s] = n
  BY <1>1, Unfold DEF n
<1>5. \A z \in Subnet : agreements'[z] = None \/ Good(agreements'[z], now)
  BY <1>2, <1>4, Unfold
<1>6. agreements[s] = None /\ now' = now /\ calls' = calls /\ switches' = switches
  BY DEF CreateAgreement
<1>7. \A z \in Subnet : agreements[z] # None => agreements'[z] = agreements[z]
  BY <1>4, <1>6, Unfold
<1>8. CopyCurrent'
  BY <1>6, <1>7, Unfold DEF CopyCurrent, Call
<1>9. SwitchedOnce'
  BY <1>6, <1>7, Unfold DEF SwitchedOnce
<1>10. IInv'
  BY <1>4, <1>5, <1>6, <1>8, <1>9, Unfold, Conclude
<1>11. QED
  BY <1>3, <1>4, <1>6, <1>10

\* A handler takes the guard of an agreement.
LEMMA EnterStep ==
    ASSUME IInv, NEW f \in Call, Enter(f),
           f.op = "topup" => f.copy = agreements[f.subnet]
    PROVE  IInv'
<1>1. /\ now' = now /\ agreements' = agreements /\ switches' = switches
      /\ calls' = calls \cup {f}
      /\ agreements[f.subnet] # None
      /\ \A g \in calls : g.subnet # f.subnet
  BY DEF Enter, Free
<1>2. CopyCurrent'
  BY <1>1, Unfold DEF CopyCurrent
<1>3. SwitchedOnce'
  BY <1>1, Unfold DEF SwitchedOnce
<1>4. QED
  BY <1>1, <1>2, <1>3, Unfold, Conclude

\* A top-up ends.
LEMMA TopUpStep ==
    ASSUME IInv, NEW f \in calls, TopUpDone(f)
    PROVE  LET s == f.subnet
               a == agreements[s]
               b == agreements'[s]
           IN  /\ IInv'
               /\ s \in Subnet /\ a # None /\ b # None
               /\ b.created \in Nat /\ a.created \in Nat /\ b.created >= a.created
               /\ b.burned = a.burned
               /\ b.cond = a.cond /\ b.paid >= a.paid
               /\ agreements' = [agreements EXCEPT ![s] = b]
<1> DEFINE s == f.subnet
           a == agreements[s]
<1>1. s \in Subnet /\ a # None /\ f.copy = a
  BY Unfold DEF Call, CopyCurrent, TopUpDone
<1>2. now \in Time /\ Good(a, now)
  BY <1>1, Unfold
<1>3. PICK cycles \in TopUpCycles[s] :
          agreements' = [agreements EXCEPT ![s] = ToppedUp(agreements[s], f.copy, cycles)]
  BY DEF TopUpDone
<1>4. cycles \in Nat
  BY <1>1, CyclesAssumption
<1> DEFINE b == ToppedUp(a, a, cycles)
<1>5. /\ Good(b, now)
      /\ b.cond = a.cond /\ b.paid >= a.paid
      /\ b.created = a.created + cycles /\ b.burned = a.burned
  BY <1>2, <1>4, TopUpGood
<1>6. b # None /\ b.created \in Nat /\ a.created \in Nat /\ b.created >= a.created
  BY <1>2, <1>4, <1>5, NoneAssumption DEF Good, Agreement
<1>7. agreements' = [agreements EXCEPT ![s] = b]
  BY <1>1, <1>3
<1> HIDE DEF b
<1>8. agreements'[s] = b
  BY <1>1, <1>7, Unfold
<1>9. \A z \in Subnet : agreements'[z] = None \/ Good(agreements'[z], now)
  BY <1>5, <1>7, <1>8, Unfold
<1>10. now' = now /\ switches' = switches /\ calls' = calls \ {f}
  BY DEF TopUpDone
<1>11. CopyCurrent'
  <2>1. \A g \in calls' : g.subnet \in Subnet /\ g.subnet # s
    BY <1>10, Unfold DEF CopyCurrent, Call
  <2>2. \A g \in calls' : agreements'[g.subnet] = agreements[g.subnet]
    BY <2>1, <1>7, Unfold
  <2>3. QED
    BY <2>2, <1>10, Unfold DEF CopyCurrent
<1>12. SwitchedOnce'
  BY <1>5, <1>6, <1>7, <1>8, <1>10, Unfold DEF SwitchedOnce
<1>13. IInv'
  BY <1>7, <1>9, <1>10, <1>11, <1>12, Unfold, Conclude
<1>14. QED
  BY <1>1, <1>5, <1>6, <1>7, <1>8, <1>13

\* A call ends and changes nothing.
LEMMA EndStep ==
    ASSUME IInv, NEW f \in calls, End(f)
    PROVE  IInv'
<1>1. /\ now' = now /\ agreements' = agreements /\ switches' = switches
      /\ calls' \subseteq calls
  BY DEF End
<1>2. CopyCurrent'
  BY <1>1, Unfold DEF CopyCurrent
<1>3. SwitchedOnce'
  BY <1>1, Unfold DEF SwitchedOnce
<1>4. QED
  BY <1>1, <1>2, <1>3, Unfold, Conclude

\* The timer runs.
LEMMA BurnStep ==
    ASSUME IInv, NEW short \in [Subnet -> 0 .. MaxShort], Burn(short)
    PROVE  /\ IInv'
           /\ \A s \in Subnet :
                 LET a == agreements[s]
                     b == agreements'[s]
                 IN  /\ a = None <=> b = None
                     /\ a # None => /\ b.cond = a.cond /\ b.paid = a.paid
                                    /\ b.created = a.created
                                    /\ b.burned \in a.burned .. a.created
<1>1. /\ now' = now /\ calls' = calls /\ switches' = switches
      /\ agreements' = [s \in Subnet |->
            IF s \in Burnable
            THEN [agreements[s] EXCEPT !.burned = @ + Less(ToBurn(agreements[s]), short[s])]
            ELSE agreements[s]]
      /\ \A s \in Burnable : \/ PastDue(agreements[s])
                             \/ SecondsRemaining(agreements[s].paid, now) > 0
  BY DEF Burn
<1>2. ASSUME NEW s \in Subnet, s \in Burnable
      PROVE  LET a == agreements[s]
                 b == agreements'[s]
             IN  /\ a # None /\ Free(s) /\ Good(a, now) /\ Good(b, now)
                 /\ b.cond = a.cond /\ b.paid = a.paid /\ b.created = a.created
                 /\ b.burned >= a.burned
  <2> DEFINE a == agreements[s]
             less == short[s]
             b == [a EXCEPT !.burned = @ + Less(ToBurn(a), less)]
  <2>1. a # None /\ Free(s) /\ Remaining(a) > 0
    BY <1>2 DEF Burnable
  <2>2. Good(a, now) /\ now \in Time
    BY <2>1, Unfold
  <2>3. less \in Nat
    BY CyclesAssumption
  <2>4. PastDue(a) \/ SecondsRemaining(a.paid, now) > 0
    BY <1>1, <1>2
  <2>5. agreements'[s] = b
    BY <1>1, <1>2
  <2> HIDE DEF a, less
  <2>6. /\ Good(b, now)
        /\ b.cond = a.cond /\ b.paid = a.paid /\ b.created = a.created
        /\ b.burned >= a.burned
    BY <2>1, <2>2, <2>3, <2>4, BurnGood
  <2>7. QED
    BY <2>1, <2>2, <2>5, <2>6 DEF a
<1>3. ASSUME NEW s \in Subnet, s \notin Burnable
      PROVE  agreements'[s] = agreements[s]
  BY <1>1, <1>3
<1>4. \A s \in Subnet : agreements'[s] = None \/ Good(agreements'[s], now)
  BY <1>2, <1>3, Unfold
<1>5. \A s \in Subnet :
          LET a == agreements[s]
              b == agreements'[s]
          IN  /\ a = None <=> b = None
              /\ a # None => /\ b.cond = a.cond /\ b.paid = a.paid
                             /\ b.created = a.created
                             /\ b.burned \in a.burned .. a.created
  <2> SUFFICES ASSUME NEW s \in Subnet
               PROVE  LET a == agreements[s]
                          b == agreements'[s]
                      IN  /\ a = None <=> b = None
                          /\ a # None => /\ b.cond = a.cond /\ b.paid = a.paid
                                         /\ b.created = a.created
                                         /\ b.burned \in a.burned .. a.created
    OBVIOUS
  <2>1. CASE s \in Burnable
    BY <2>1, <1>2, NoneAssumption DEF Good, Agreement
  <2>2. CASE s \notin Burnable
    BY <2>2, <1>3, Unfold DEF Good, Agreement
  <2>3. QED
    BY <2>1, <2>2
<1>6. CopyCurrent'
  <2>1. \A f \in calls : f.subnet \in Subnet /\ ~Free(f.subnet)
    BY Unfold DEF Call, Free
  <2>2. \A f \in calls : agreements'[f.subnet] = agreements[f.subnet]
    BY <2>1, <1>3 DEF Burnable
  <2>3. QED
    BY <2>2, <1>1, Unfold DEF CopyCurrent
<1>7. SwitchedOnce'
  BY <1>1, <1>5, Unfold DEF SwitchedOnce
<1>8. agreements' = [s \in Subnet |-> agreements'[s]]
  BY <1>1
<1>9. QED
  BY <1>1, <1>4, <1>5, <1>6, <1>7, <1>8, Unfold, Conclude

\* The canister is upgraded.
LEMMA UpgradeStep ==
    ASSUME IInv, Upgrade
    PROVE  /\ IInv'
           /\ \A s \in Subnet :
                 LET a == agreements[s]
                     b == agreements'[s]
                 IN  \/ b = a
                     \/ /\ a # None /\ b # None
                        /\ a.cond = App13CH /\ b.cond = App7CH
                        /\ b.created = a.created /\ b.burned = a.burned
<1>1. /\ now' = now /\ calls' = {}
      /\ agreements' = [s \in Subnet |->
            IF MustSwitch(s) THEN Switched(agreements[s]) ELSE agreements[s]]
      /\ switches' = [s \in Subnet |->
            IF MustSwitch(s) THEN switches[s] + 1 ELSE switches[s]]
  BY DEF Upgrade, Stopped
<1>2. ASSUME NEW s \in Subnet, MustSwitch(s)
      PROVE  LET a == agreements[s]
                 b == agreements'[s]
             IN  /\ s = TARGET_SUBNET
                 /\ a # None /\ b # None /\ Good(b, now)
                 /\ a.cond = App13CH /\ b.cond = App7CH
                 /\ b.created = a.created /\ b.burned = a.burned
                 /\ switches[s] = 0 /\ switches'[s] = 1
  <2> DEFINE a == agreements[s]
             b == Switched(a)
  <2>1. s = TARGET_SUBNET /\ a # None /\ a.cond = App13CH
    BY <1>2 DEF MustSwitch
  <2>2. Good(a, now) /\ now \in Time
    BY <2>1, Unfold
  <2>3. switches[s] = 0
    BY <2>1, Unfold, ConditionAssumption DEF SwitchedOnce
  <2>4. switches'[s] = 1
    BY <2>3, <1>1, <1>2
  <2>5. agreements'[s] = b
    BY <1>1, <1>2
  <2> HIDE DEF a
  <2>6. /\ Good(b, now) /\ b.cond = App7CH
        /\ b.created = a.created /\ b.burned = a.burned
    BY <2>2, SwitchGood
  <2>7. b # None
    BY <2>6, NoneAssumption DEF Good
  <2>8. QED
    BY <2>1, <2>3, <2>4, <2>5, <2>6, <2>7 DEF a
<1>3. ASSUME NEW s \in Subnet, ~MustSwitch(s)
      PROVE  agreements'[s] = agreements[s] /\ switches'[s] = switches[s]
  BY <1>1, <1>3
<1>4. \A s \in Subnet : agreements'[s] = None \/ Good(agreements'[s], now)
  BY <1>2, <1>3, Unfold
<1>5. CopyCurrent'
  BY <1>1 DEF CopyCurrent
<1>6. SwitchedOnce'
  BY <1>2, <1>3, Unfold DEF SwitchedOnce
<1>7. switches' \in [Subnet -> Nat]
  BY <1>1, Unfold
<1>8. agreements' = [s \in Subnet |-> agreements'[s]] /\ calls' \subseteq Call
  BY <1>1
<1>9. IInv'
  BY <1>1, <1>4, <1>5, <1>6, <1>7, <1>8, Unfold, Conclude
<1>10. QED
  BY <1>2, <1>3, <1>9

\* The clock ticks.
LEMMA TickStep ==
    ASSUME IInv, Tick
    PROVE  IInv'
<1>1. /\ now' = now + 1 /\ now < MaxTime
      /\ agreements' = agreements /\ calls' = calls /\ switches' = switches
  BY DEF Tick
<1>2. now' \in Time
  BY <1>1, Unfold, ClockAssumption, TimeAssumption DEF Time
<1>3. \A s \in Subnet : agreements'[s] = None \/ Good(agreements'[s], now')
  BY <1>1, Unfold, TickGood
<1>4. CopyCurrent' /\ SwitchedOnce'
  BY <1>1, Unfold DEF CopyCurrent, SwitchedOnce
<1>5. QED
  BY <1>1, <1>2, <1>3, <1>4, Unfold, Conclude

------------------------------------------------------------------------------
(* Invariance *)

LEMMA InitInvariant == Init => IInv
<1> SUFFICES ASSUME Init PROVE IInv
  OBVIOUS
<1>1. /\ now = 0 /\ calls = {}
      /\ agreements = [s \in Subnet |-> None]
      /\ switches = [s \in Subnet |-> 0]
  BY DEF Init
<1>2. TypeOK
  BY <1>1, TimeAssumption DEF TypeOK, Time
<1>3. CopyCurrent /\ BurnedWithinCreated /\ FundedAhead /\ SwitchedOnce
  BY <1>1 DEF CopyCurrent, BurnedWithinCreated, FundedAhead, SwitchedOnce
<1>4. QED
  BY <1>2, <1>3 DEF IInv

LEMMA StepInvariant == IInv /\ [Next]_vars => IInv'
<1> SUFFICES ASSUME IInv, [Next]_vars PROVE IInv'
  OBVIOUS
<1>1. CASE \E s \in Subnet : CreateAgreement(s)
  BY <1>1, CreateStep
<1>2. ASSUME NEW s \in Subnet, TopUpStart(s)
      PROVE  IInv'
  <2> DEFINE f == [op |-> "topup", subnet |-> s, copy |-> agreements[s]]
  <2>1. Enter(f)
    BY <1>2 DEF TopUpStart
  <2>2. agreements[s] \in Agreement
    BY <2>1, Unfold DEF Enter, Good
  <2>3. f \in Call
    BY <2>2 DEF Call
  <2>4. QED
    BY <2>1, <2>3, EnterStep
<1>3. ASSUME NEW s \in Subnet, AdminsStart(s)
      PROVE  IInv'
  <2> DEFINE f == [op |-> "admins", subnet |-> s]
  <2>1. Enter(f) /\ f \in Call /\ f.op # "topup"
    BY <1>3 DEF AdminsStart, Call
  <2>2. QED
    BY <2>1, EnterStep
<1>4. CASE \E f \in calls : TopUpDone(f)
  BY <1>4, TopUpStep
<1>5. CASE \E f \in calls : End(f)
  BY <1>5, EndStep
<1>6. CASE \E short \in [Subnet -> 0 .. MaxShort] : Burn(short)
  BY <1>6, BurnStep
<1>7. CASE Upgrade
  BY <1>7, UpgradeStep
<1>8. CASE Tick
  BY <1>8, TickStep
<1>9. CASE UNCHANGED vars
  <2>1. /\ now' = now /\ agreements' = agreements
        /\ calls' = calls /\ switches' = switches
    BY <1>9 DEF vars
  <2>2. CopyCurrent' /\ SwitchedOnce'
    BY <2>1, Unfold DEF CopyCurrent, SwitchedOnce
  <2>3. QED
    BY <2>1, <2>2, Unfold, Conclude
<1>10. QED
  BY <1>1, <1>2, <1>3, <1>4, <1>5, <1>6, <1>7, <1>8, <1>9 DEF Next

\* The inductive invariant holds of every behaviour.
THEOREM BillingInvariant == Spec => []IInv
BY InitInvariant, StepInvariant, PTL DEF Spec

\* Deadlines, totals and the copies of open calls keep their types, whatever
\* was topped up: the cap at u64::MAX in top_up_subnet and reprice is enough.
THEOREM BillingTypeCorrect == Spec => []TypeOK
<1>1. IInv => TypeOK
  BY DEF IInv
<1>2. QED
  BY <1>1, BillingInvariant, PTL

\* The switch of conditions happens once however many upgrades follow, as the
\* condition id that app13ch_to_app7ch looks at is the one it changes.
THEOREM MigratedOnce == Spec => []SwitchedOnce
<1>1. IInv => SwitchedOnce
  BY DEF IInv
<1>2. QED
  BY <1>1, BillingInvariant, PTL

\* What burn_cycles takes in one run is a share of what is left, so that an
\* agreement covered for a day has cycles, at any rate and any lateness.
THEOREM CoveredIsFunded == Spec => []CoveredMeansFunded
<1>1. ASSUME IInv, NEW s \in Subnet, agreements[s] # None,
             DaysRemaining(agreements[s].paid, now) >= 1
      PROVE  Remaining(agreements[s]) > 0
  <2> DEFINE left == Less(agreements[s].paid, now)
  <2>1. Good(agreements[s], now) /\ now \in Nat /\ agreements[s].paid \in Nat
    BY <1>1, Unfold, TimeAssumption DEF Good, Agreement, Time
  <2>2. left \in Nat
    BY <2>1, LessFacts
  <2>3. BILLION \in Nat /\ BILLION > 0 /\ SECONDS_PER_DAY \in Nat
        /\ NANOS_PER_DAY \in Nat /\ NANOS_PER_DAY > 0
    BY TimeAssumption DEF NANOS_PER_DAY
  <2>4. left \div NANOS_PER_DAY >= 1
    BY <1>1 DEF DaysRemaining
  <2> HIDE DEF left
  <2>5. left >= SECONDS_PER_DAY * BILLION
    BY <2>2, <2>3, <2>4, DivFacts DEF NANOS_PER_DAY
  <2>6. left \div BILLION >= SECONDS_PER_DAY
    BY <2>2, <2>3, <2>5
  <2>7. SecondsRemaining(agreements[s].paid, now) > CYCLES_BURN_INTERVAL_SECONDS
    BY <2>6, <2>2, <2>3, DivFacts, TimeAssumption DEF SecondsRemaining, left
  <2>8. QED
    BY <2>1, <2>7 DEF Good, Funded
<1>2. IInv => CoveredMeansFunded
  BY <1>1 DEF CoveredMeansFunded
<1>3. QED
  BY <1>2, BillingInvariant, PTL

------------------------------------------------------------------------------
(* Deadlines *)

\* No step moves a deadline back, except the switch of conditions.
LEMMA StepDeadline ==
    ASSUME IInv, [Next]_vars, NEW s \in Subnet, agreements[s] # None
    PROVE  \/ agreements'[s].paid >= agreements[s].paid
           \/ agreements[s].cond # agreements'[s].cond
<1>1. agreements[s].paid \in Nat
  BY Unfold, TimeAssumption DEF Good, Agreement, Time
<1>2. ASSUME agreements'[s] = agreements[s]
      PROVE  agreements'[s].paid >= agreements[s].paid
  BY <1>1, <1>2
<1>3. CASE \E z \in Subnet : CreateAgreement(z)
  <2>1. agreements'[s] = agreements[s]
    BY <1>3, CreateStep, Unfold
  <2>2. QED
    BY <1>2, <2>1
<1>4. CASE \E z \in Subnet : TopUpStart(z) \/ AdminsStart(z)
  BY <1>2, <1>4 DEF TopUpStart, AdminsStart, Enter
<1>5. ASSUME NEW f \in calls, TopUpDone(f)
      PROVE  agreements'[s].paid >= agreements[s].paid
  <2>1. CASE s = f.subnet
    BY <2>1, <1>5, TopUpStep
  <2>2. CASE s # f.subnet
    <3>1. agreements'[s] = agreements[s]
      BY <2>2, <1>5, TopUpStep, Unfold
    <3>2. QED
      BY <1>2, <3>1
  <2>3. QED
    BY <2>1, <2>2
<1>6. CASE \E f \in calls : End(f)
  BY <1>2, <1>6 DEF End
<1>7. CASE \E short \in [Subnet -> 0 .. MaxShort] : Burn(short)
  <2>1. agreements'[s].paid = agreements[s].paid
    BY <1>7, BurnStep
  <2>2. QED
    BY <2>1, <1>1
<1>8. CASE Upgrade
  <2>1. agreements'[s] = agreements[s] \/ agreements[s].cond # agreements'[s].cond
    BY <1>8, UpgradeStep, ConditionAssumption
  <2>2. QED
    BY <2>1, <1>2
<1>9. CASE Tick \/ UNCHANGED vars
  BY <1>2, <1>9 DEF Tick, vars
<1>10. QED
  BY <1>3, <1>4, <1>5, <1>6, <1>7, <1>8, <1>9 DEF Next

\* What a top-up read before its awaits is current after them, so that it adds
\* to the deadline there is; and neither the cap nor an upgrade takes from it,
\* but for the switch.
THEOREM DeadlinesKept == Spec => DeadlineKept
<1>1. IInv /\ [Next]_vars =>
          [\A s \in Subnet : agreements[s] # None =>
              \/ agreements'[s].paid >= agreements[s].paid
              \/ agreements[s].cond # agreements'[s].cond]_vars
  BY StepDeadline
<1>2. QED
  BY <1>1, BillingInvariant, PTL DEF Spec, DeadlineKept

\* The days a top-up reports are those by which it extends a deadline ahead.
LEMMA DaysFacts ==
    ASSUME NEW c \in RentalConditionId, NEW cycles \in Nat, NEW paid \in Time,
           NEW at \in Time, at < paid,
           Extended(paid, at, cycles, DailyCost[c]) # MAX_U64
    PROVE  LET new == Extended(paid, at, cycles, DailyCost[c])
               told == DaysAdded(cycles, DailyCost[c])
           IN  DaysRemaining(new, at) - DaysRemaining(paid, at) \in {told, told + 1}
<1> DEFINE seconds == SecondsCharged(cycles, DailyCost[c])
           new == Extended(paid, at, cycles, DailyCost[c])
           left == paid - at
<1>1. seconds \in Nat
  BY CostFacts, DivFacts DEF SecondsCharged
<1>2. /\ BILLION \in Nat /\ BILLION > 0
      /\ SECONDS_PER_DAY \in Nat /\ SECONDS_PER_DAY > 0
      /\ paid \in Nat /\ at \in Nat
  BY TimeAssumption DEF Time
<1>3. new = Capped(paid + seconds * BILLION)
  BY DEF Extended
<1> HIDE DEF seconds
<1>4. seconds * BILLION \in Nat
  BY <1>1, <1>2, ProductNat
<1>5. new = paid + seconds * BILLION
  BY <1>3, <1>4, TimeAssumption DEF Capped, Least
<1>6. left \in Nat
  BY <1>2
<1>7. Less(new, at) = left + seconds * BILLION /\ Less(paid, at) = left
  BY <1>2, <1>4, <1>5 DEF Less
<1>8. NANOS_PER_DAY \in Nat /\ NANOS_PER_DAY > 0
  BY <1>2 DEF NANOS_PER_DAY
<1>9. (seconds * BILLION) \div NANOS_PER_DAY = seconds \div SECONDS_PER_DAY
  BY <1>1, <1>2, Cancel DEF NANOS_PER_DAY
<1> HIDE DEF left, new
<1>10. (left + seconds * BILLION) \div NANOS_PER_DAY
          \in {left \div NANOS_PER_DAY + (seconds * BILLION) \div NANOS_PER_DAY,
               left \div NANOS_PER_DAY + (seconds * BILLION) \div NANOS_PER_DAY + 1}
  BY <1>4, <1>6, <1>8, FloorSum
<1>11. left \div NANOS_PER_DAY \in Nat /\ seconds \div SECONDS_PER_DAY \in Nat
  BY <1>1, <1>2, <1>6, <1>8, DivFacts
<1>12. DaysRemaining(new, at) - DaysRemaining(paid, at)
          \in {seconds \div SECONDS_PER_DAY, seconds \div SECONDS_PER_DAY + 1}
  BY <1>7, <1>9, <1>10, <1>11 DEF DaysRemaining
<1>13. QED
  BY <1>12 DEF DaysAdded, seconds, new

\* Only a finished top-up removes a call and adds cycles.
LEMMA StepTopUp ==
    ASSUME IInv, [Next]_vars, NEW f \in calls, NEW cycles \in 1 .. MaxCycles,
           TopUpEnds(f, cycles)
    PROVE  LET a == agreements[f.subnet]
               b == agreements'[f.subnet]
               added == DaysRemaining(b.paid, now) - DaysRemaining(a.paid, now)
               told == DaysAdded(cycles, DailyCost[a.cond])
           IN  \/ PastDue(a)
               \/ b.paid = MAX_U64
               \/ added \in {told, told + 1}
<1> DEFINE s == f.subnet
           a == agreements[s]
           b == agreements'[s]
<1>1. /\ f.op = "topup" /\ f \notin calls'
      /\ b.created = a.created + cycles /\ cycles \in Nat /\ cycles > 0
  BY CyclesAssumption DEF TopUpEnds
<1>2. /\ s \in Subnet /\ a # None /\ f.copy = a
      /\ now \in Time /\ Good(a, now)
  BY <1>1, Unfold DEF Call, CopyCurrent
<1>3. /\ a.created \in Nat /\ a.paid \in Time /\ a.cond \in RentalConditionId
  BY <1>2 DEF Good, Agreement
<1>4. b # a
  BY <1>1, <1>3
<1>5. CASE \E z \in Subnet : CreateAgreement(z) \/ TopUpStart(z) \/ AdminsStart(z)
  BY <1>1, <1>5 DEF CreateAgreement, TopUpStart, AdminsStart, Enter
<1>6. CASE (\E short \in [Subnet -> 0 .. MaxShort] : Burn(short)) \/ Upgrade \/ Tick
           \/ UNCHANGED vars
  BY <1>1, <1>6 DEF Burn, Upgrade, Stopped, Tick, vars
<1>7. CASE \E g \in calls : End(g)
  BY <1>4, <1>7 DEF End
<1>8. CASE \E g \in calls : TopUpDone(g)
  <2>1. TopUpDone(f)
    BY <1>1, <1>8 DEF TopUpDone
  <2>2. PICK c \in TopUpCycles[s] :
            agreements' = [agreements EXCEPT ![s] = ToppedUp(agreements[s], f.copy, c)]
    BY <2>1 DEF TopUpDone
  <2>3. b = ToppedUp(a, a, c)
    BY <2>2, <1>2, Unfold
  <2>4. c \in Nat
    BY <1>2, CyclesAssumption
  <2>5. b.created = a.created + c
    BY <2>3, <2>4, <1>2, TopUpGood
  <2>6. c = cycles
    BY <2>4, <2>5, <1>1, <1>3
  <2>7. b.paid = Extended(a.paid, now, cycles, DailyCost[a.cond])
    BY <2>3, <2>6, <1>2 DEF ToppedUp, Good, Agreement
  <2>8. CASE PastDue(a)
    BY <2>8
  <2>9. CASE ~PastDue(a) /\ b.paid # MAX_U64
    <3>1. now < a.paid
      BY <2>9, <1>2, <1>3, TimeAssumption DEF PastDue, Time
    <3>2. QED
      BY <3>1, <2>7, <2>9, <1>1, <1>2, <1>3, DaysFacts
  <2>10. QED
    BY <2>8, <2>9
<1>9. QED
  BY <1>5, <1>6, <1>7, <1>8 DEF Next

\* The rounding of top_up_subnet and of calculate_days_remaining fit together.
THEOREM TopUpsHonest == Spec => TopUpDaysHonest
<1> DEFINE Honest ==
        \A f \in calls, cycles \in 1 .. MaxCycles : TopUpEnds(f, cycles) =>
          LET a == agreements[f.subnet]
              b == agreements'[f.subnet]
              added == DaysRemaining(b.paid, now) - DaysRemaining(a.paid, now)
              told == DaysAdded(cycles, DailyCost[a.cond])
          IN  \/ PastDue(a)
              \/ b.paid = MAX_U64
              \/ added \in {told, told + 1}
<1>1. IInv /\ [Next]_vars => [Honest]_vars
  BY StepTopUp
<1>2. TopUpDaysHonest <=> [][Honest]_vars
  BY DEF TopUpDaysHonest
<1> HIDE DEF Honest
<1>3. QED
  BY <1>1, <1>2, BillingInvariant, PTL DEF Spec

------------------------------------------------------------------------------
(* Refinement *)

LEMMA InitAccount == Init => Account!Init
BY DEF Init, Account!Init, PaidIn, Drawn

\* A new agreement or a top-up is a deposit, a burn a draw; nothing else touches
\* the totals.
LEMMA StepAccount ==
    ASSUME IInv, [Next]_vars
    PROVE  [Account!Next]_<<PaidIn, Drawn>>
<1>1. ASSUME agreements' = agreements
      PROVE  UNCHANGED <<PaidIn, Drawn>>
  BY <1>1 DEF PaidIn, Drawn
<1>2. ASSUME NEW s \in Subnet, CreateAgreement(s)
      PROVE  Account!Deposit(s)
  <2>1. /\ agreements[s] = None /\ agreements'[s] # None
        /\ agreements'[s].created > 0 /\ agreements'[s].burned = 0
        /\ agreements' = [agreements EXCEPT ![s] = agreements'[s]]
    BY <1>2, CreateStep
  <2>2. \A z \in Subnet \ {s} : agreements'[z] = agreements[z]
    BY <2>1, Unfold
  <2>3. PaidIn'[s] > PaidIn[s]
    BY <2>1 DEF PaidIn
  <2>4. PaidIn' = [PaidIn EXCEPT ![s] = PaidIn'[s]]
    BY <2>2 DEF PaidIn
  <2>5. Drawn' = Drawn
    BY <2>1, <2>2 DEF Drawn
  <2>6. QED
    BY <2>3, <2>4, <2>5 DEF Account!Deposit
<1>3. CASE \E z \in Subnet : TopUpStart(z) \/ AdminsStart(z)
  BY <1>1, <1>3 DEF TopUpStart, AdminsStart, Enter
<1>4. ASSUME NEW f \in calls, TopUpDone(f)
      PROVE  [Account!Next]_<<PaidIn, Drawn>>
  <2> DEFINE s == f.subnet
  <2>1. /\ s \in Subnet /\ agreements[s] # None /\ agreements'[s] # None
        /\ agreements'[s].created \in Nat /\ agreements[s].created \in Nat
        /\ agreements'[s].created >= agreements[s].created
        /\ agreements'[s].burned = agreements[s].burned
        /\ agreements' = [agreements EXCEPT ![s] = agreements'[s]]
    BY <1>4, TopUpStep
  <2>2. \A z \in Subnet \ {s} : agreements'[z] = agreements[z]
    BY <2>1, Unfold
  <2> HIDE DEF s
  <2>3. Drawn' = Drawn
    BY <2>1, <2>2 DEF Drawn
  <2>4. PaidIn' = [PaidIn EXCEPT ![s] = PaidIn'[s]]
    BY <2>2 DEF PaidIn
  <2>5. PaidIn'[s] = agreements'[s].created /\ PaidIn[s] = agreements[s].created
    BY <2>1 DEF PaidIn
  <2>6. CASE agreements'[s].created = agreements[s].created
    <3>1. PaidIn' = PaidIn
      BY <2>4, <2>5, <2>6 DEF PaidIn
    <3>2. QED
      BY <3>1, <2>3
  <2>7. CASE agreements'[s].created > agreements[s].created
    <3>1. Account!Deposit(s)
      BY <2>3, <2>4, <2>5, <2>7 DEF Account!Deposit
    <3>2. QED
      BY <3>1, <2>1 DEF Account!Next
  <2>8. QED
    BY <2>1, <2>6, <2>7
<1>5. CASE \E f \in calls : End(f)
  BY <1>1, <1>5 DEF End
<1>6. ASSUME NEW short \in [Subnet -> 0 .. MaxShort], Burn(short)
      PROVE  Account!Draw
  <2>1. \A s \in Subnet :
            /\ agreements[s] = None <=> agreements'[s] = None
            /\ agreements[s] # None =>
                  /\ agreements'[s].created = agreements[s].created
                  /\ agreements'[s].burned
                        \in agreements[s].burned .. agreements[s].created
    BY <1>6, BurnStep
  <2>2. PaidIn' = PaidIn
    BY <2>1 DEF PaidIn
  <2>3. \A s \in Subnet : Drawn'[s] \in Drawn[s] .. PaidIn'[s]
    BY <2>1 DEF Drawn, PaidIn
  <2>4. Drawn' = [s \in Subnet |-> Drawn'[s]]
    BY DEF Drawn
  <2>5. QED
    BY <2>2, <2>3, <2>4 DEF Account!Draw
<1>7. CASE Upgrade
  <2>1. ASSUME NEW s \in Subnet
        PROVE  PaidIn'[s] = PaidIn[s] /\ Drawn'[s] = Drawn[s]
    <3>1. CASE agreements'[s] = agreements[s]
      BY <3>1 DEF PaidIn, Drawn
    <3>2. CASE agreements'[s] # agreements[s]
      <4>1. /\ agreements[s] # None /\ agreements'[s] # None
            /\ agreements'[s].created = agreements[s].created
            /\ agreements'[s].burned = agreements[s].burned
        BY <1>7, <3>2, UpgradeStep
      <4>2. QED
        BY <4>1 DEF PaidIn, Drawn
    <3>3. QED
      BY <3>1, <3>2
  <2>2. PaidIn' = PaidIn
    BY <2>1 DEF PaidIn
  <2>3. Drawn' = Drawn
    BY <2>1 DEF Drawn
  <2>4. QED
    BY <2>2, <2>3
<1>8. CASE Tick \/ UNCHANGED vars
  BY <1>1, <1>8 DEF Tick, vars
<1>9. QED
  BY <1>2, <1>3, <1>4, <1>5, <1>6, <1>7, <1>8 DEF Next, Account!Next

\* The books implement a prepaid account per subnet: deposits are never lost to
\* an older copy, and nothing is drawn that was not paid in.
THEOREM AccountRefinement == Spec => AccountSpec
<1>1. IInv /\ [Next]_vars => [Account!Next]_(Account!account)
  BY StepAccount DEF Account!account
<1>2. QED
  BY <1>1, InitAccount, BillingInvariant, PTL DEF Spec, AccountSpec, Account!Spec
==============================================================================
