---------------------------- MODULE HistoryProofs ----------------------------
(***************************************************************************)
(* Proofs about History, for any keys, versions of the code, clients, page *)
(* size and number of events.                                              *)
(*                                                                         *)
(* Every handler takes the store to one that has grown: old events keep    *)
(* their numbers and new ones get higher numbers and the time of the       *)
(* moment.  The inductive invariant adds to the properties that no event   *)
(* is of the future and that no client has begun beyond the newest event.  *)
(***************************************************************************)
EXTENDS HistoryProperties, FiniteSetTheorems, TLAPS

\* A store whose events are numbered.
StoreOK(s) ==
    /\ s.counters \in [Key -> Nat \cup {None}]
    /\ DOMAIN s.history \subseteq Key \X Nat
    /\ s.history \in [DOMAIN s.history -> Event]
    /\ \A k \in Key :
          /\ s.counters[k] # 0
          /\ \A n \in 0 .. Count(s.counters[k]) - 1 : <<k, n>> \in DOMAIN s.history
    /\ \A x \in DOMAIN s.history : x[2] < Count(s.counters[x[1]])

\* Store t has what s has, and its other events are newer and of this moment.
Grown(s, t) ==
    /\ \A k \in Key : Count(s.counters[k]) <= Count(t.counters[k])
    /\ \A x \in DOMAIN s.history :
          x \in DOMAIN t.history /\ t.history[x] = s.history[x]
    /\ \A x \in DOMAIN t.history \ DOMAIN s.history :
          x[2] >= Count(s.counters[x[1]]) /\ t.history[x].time = now

NotOfTheFuture == \A x \in DOMAIN history : history[x].time <= now

ReadersBehind ==
    \A r \in Reader : readers[r] # None =>
        readers[r].top <= Count(counters[readers[r].key])

IInv ==
    /\ TypeOK
    /\ Numbered
    /\ NotOfTheFuture
    /\ Chronological
    /\ ConditionsTold
    /\ ReadersBehind
    /\ PagesContiguous

------------------------------------------------------------------------------
(* The store *)

\* The count behind a counter is a natural number.
LEMMA CountNat ==
    ASSUME NEW c \in Nat \cup {None}
    PROVE  Count(c) \in Nat
BY DEF Count

\* TypeOK and Numbered are about the store.
LEMMA StoreTyped ==
    ASSUME TypeOK, Numbered
    PROVE  StoreOK(Store)
BY DEF TypeOK, Numbered, StoreOK, Store

\* An event of this moment is an event.
LEMMA StampedEvent ==
    ASSUME now \in Nat, NEW e \in Note \cup Change
    PROVE  Stamped(e) \in Event /\ Stamped(e).time = now /\ Stamped(e).event = e
BY DEF Stamped, Event

\* Store t is s with event e under number n of key k.
Puts(s, e, k, n, t) ==
    /\ t.counters = [s.counters EXCEPT ![k] = n + 1]
    /\ Count(t.counters[k]) = n + 1
    /\ \A j \in Key \ {k} : t.counters[j] = s.counters[j]
    /\ <<k, n>> \notin DOMAIN s.history
    /\ DOMAIN t.history = DOMAIN s.history \cup {<<k, n>>}
    /\ t.history[<<k, n>>] = e
    /\ \A x \in DOMAIN s.history : t.history[x] = s.history[x]
    /\ t.history = [x \in DOMAIN t.history |-> t.history[x]]

\* persist_event draws the next number of its key and puts the event there.
LEMMA PersistedFacts ==
    ASSUME NEW s, StoreOK(s), NEW e \in Event, NEW k \in Key,
           NEW t, t = Persisted(s, e, k),
           NEW n, n = Count(s.counters[k])
    PROVE  Puts(s, e, k, n, t)
<1>1. s.counters \in [Key -> Nat \cup {None}] /\ n \in Nat
  BY CountNat DEF StoreOK
<1>2. /\ t.counters = [s.counters EXCEPT ![k] = n + 1]
      /\ t.history = [x \in DOMAIN s.history \cup {<<k, n>>} |->
                         IF x = <<k, n>> THEN e ELSE s.history[x]]
  BY <1>1 DEF Persisted, NextSeq, Inserted
<1>3. /\ t.counters[k] = n + 1
      /\ \A j \in Key \ {k} : t.counters[j] = s.counters[j]
  BY <1>1, <1>2
<1>4. Count(t.counters[k]) = n + 1
  BY <1>1, <1>3, HistoryAssumption DEF Count
<1>5. <<k, n>> \notin DOMAIN s.history
  <2>1. SUFFICES ASSUME <<k, n>> \in DOMAIN s.history PROVE FALSE
    OBVIOUS
  <2>2. n < n
    BY <2>1 DEF StoreOK
  <2>3. QED
    BY <2>2, <1>1
<1>6. QED
  BY <1>2, <1>3, <1>4, <1>5 DEF Puts

\* It leaves a store whose events are numbered.
LEMMA PersistedOK ==
    ASSUME NEW s, StoreOK(s), NEW e \in Event, NEW k \in Key,
           NEW t, t = Persisted(s, e, k)
    PROVE  StoreOK(t)
<1> DEFINE n == Count(s.counters[k])
           p == <<k, n>>
<1>1. /\ t.counters = [s.counters EXCEPT ![k] = Count(s.counters[k]) + 1]
      /\ Count(t.counters[k]) = Count(s.counters[k]) + 1
      /\ \A j \in Key \ {k} : t.counters[j] = s.counters[j]
      /\ DOMAIN t.history = DOMAIN s.history \cup {p}
      /\ t.history[p] = e
      /\ \A x \in DOMAIN s.history : t.history[x] = s.history[x]
      /\ t.history = [x \in DOMAIN t.history |-> t.history[x]]
  <2>1. Puts(s, e, k, n, t)
    BY PersistedFacts
  <2>2. QED
    BY <2>1 DEF Puts
<1>2. /\ s.counters \in [Key -> Nat \cup {None}]
      /\ DOMAIN s.history \subseteq Key \X Nat
      /\ s.history \in [DOMAIN s.history -> Event]
      /\ Count(s.counters[k]) \in Nat
  BY CountNat DEF StoreOK
<1>3. t.counters \in [Key -> Nat \cup {None}]
  BY <1>1, <1>2
<1>4. DOMAIN t.history \subseteq Key \X Nat
  BY <1>1, <1>2
<1>5. t.history \in [DOMAIN t.history -> Event]
  <2>1. \A x \in DOMAIN t.history : t.history[x] \in Event
    BY <1>1, <1>2
  <2>2. QED
    BY <1>1, <2>1
<1>6. ASSUME NEW j \in Key
      PROVE  /\ t.counters[j] # 0
             /\ \A i \in 0 .. Count(t.counters[j]) - 1 : <<j, i>> \in DOMAIN t.history
  <2>1. CASE j = k
    <3>1. t.counters[k] = Count(s.counters[k]) + 1
      BY <1>1, <1>2
    <3>2. \A i \in 0 .. Count(s.counters[k]) - 1 : <<k, i>> \in DOMAIN s.history
      BY DEF StoreOK
    <3>3. ASSUME NEW i \in 0 .. Count(t.counters[k]) - 1
          PROVE  <<k, i>> \in DOMAIN t.history
      <4>0. /\ Count(t.counters[k]) = Count(s.counters[k]) + 1
            /\ Count(s.counters[k]) \in Nat
        BY <1>1, <1>2
      <4>1. i = Count(s.counters[k]) \/ i \in 0 .. Count(s.counters[k]) - 1
        BY <4>0
      <4>2. QED
        BY <4>1, <3>2, <1>1
    <3>4. QED
      BY <2>1, <3>1, <3>3, <1>2
  <2>2. CASE j # k
    BY <2>2, <1>1 DEF StoreOK
  <2>3. QED
    BY <2>1, <2>2
<1>7. ASSUME NEW x \in DOMAIN t.history
      PROVE  x[2] < Count(t.counters[x[1]])
  <2>1. CASE x = p
    <3>1. x[1] = k /\ x[2] = Count(s.counters[k])
      BY <2>1
    <3>2. QED
      BY <3>1, <1>1, <1>2
  <2>2. CASE x # p
    <3>1. /\ x \in DOMAIN s.history /\ x[1] \in Key /\ x[2] \in Nat
          /\ x[2] < Count(s.counters[x[1]])
      BY <2>2, <1>1, <1>2 DEF StoreOK
    <3>2. CASE x[1] = k
      BY <3>1, <3>2, <1>1, <1>2
    <3>3. CASE x[1] # k
      BY <3>1, <3>3, <1>1
    <3>4. QED
      BY <3>2, <3>3
  <2>3. QED
    BY <2>1, <2>2
<1>8. QED
  BY <1>3, <1>4, <1>5, <1>6, <1>7 DEF StoreOK

\* It lets the store grow.
LEMMA PersistedGrown ==
    ASSUME NEW s, StoreOK(s), NEW e \in Event, NEW k \in Key, e.time = now,
           NEW t, t = Persisted(s, e, k)
    PROVE  Grown(s, t)
<1> DEFINE n == Count(s.counters[k])
           p == <<k, n>>
<1>1. /\ t.counters = [s.counters EXCEPT ![k] = Count(s.counters[k]) + 1]
      /\ Count(t.counters[k]) = Count(s.counters[k]) + 1
      /\ \A j \in Key \ {k} : t.counters[j] = s.counters[j]
      /\ DOMAIN t.history = DOMAIN s.history \cup {p}
      /\ t.history[p] = e
      /\ \A x \in DOMAIN s.history : t.history[x] = s.history[x]
      /\ t.history = [x \in DOMAIN t.history |-> t.history[x]]
  <2>1. Puts(s, e, k, n, t)
    BY PersistedFacts
  <2>2. QED
    BY <2>1 DEF Puts
<1>2. \A j \in Key : Count(s.counters[j]) \in Nat
  BY CountNat DEF StoreOK
<1>3. \A j \in Key : Count(s.counters[j]) <= Count(t.counters[j])
  BY <1>1, <1>2
<1>4. p[1] = k /\ p[2] = Count(s.counters[k])
  OBVIOUS
<1>5. \A x \in DOMAIN t.history \ DOMAIN s.history :
          x[2] >= Count(s.counters[x[1]]) /\ t.history[x].time = now
  <2>1. SUFFICES ASSUME NEW x \in DOMAIN t.history \ DOMAIN s.history
                 PROVE  x[2] >= Count(s.counters[x[1]]) /\ t.history[x].time = now
    OBVIOUS
  <2>2. x = p
    BY <1>1
  <2>3. Count(s.counters[k]) >= Count(s.counters[k])
    BY <1>2
  <2>4. QED
    BY <2>2, <2>3, <1>1, <1>4
<1>6. QED
  BY <1>1, <1>3, <1>5 DEF Grown

\* Growing twice is growing.
LEMMA GrownTwice ==
    ASSUME NEW s, NEW t, NEW u, StoreOK(s), StoreOK(t), StoreOK(u),
           Grown(s, t), Grown(t, u)
    PROVE  Grown(s, u)
<1>1. \A k \in Key : /\ Count(s.counters[k]) \in Nat
                     /\ Count(t.counters[k]) \in Nat
                     /\ Count(u.counters[k]) \in Nat
  BY CountNat DEF StoreOK
<1>2. \A k \in Key : Count(s.counters[k]) <= Count(u.counters[k])
  BY <1>1 DEF Grown
<1>3. \A x \in DOMAIN s.history :
          x \in DOMAIN u.history /\ u.history[x] = s.history[x]
  BY DEF Grown
<1>4. ASSUME NEW x \in DOMAIN u.history \ DOMAIN s.history
      PROVE  x[2] >= Count(s.counters[x[1]]) /\ u.history[x].time = now
  <2>1. x[1] \in Key /\ x[2] \in Nat
    BY DEF StoreOK
  <2>2. CASE x \in DOMAIN t.history
    BY <2>2 DEF Grown
  <2>3. CASE x \notin DOMAIN t.history
    <3>1. x[2] >= Count(t.counters[x[1]]) /\ u.history[x].time = now
      BY <2>3 DEF Grown
    <3>2. Count(s.counters[x[1]]) <= Count(t.counters[x[1]])
      BY <2>1 DEF Grown
    <3>3. QED
      BY <3>1, <3>2, <2>1, <1>1
  <2>4. QED
    BY <2>2, <2>3
<1>5. QED
  BY <1>2, <1>3, <1>4 DEF Grown

\* set_initial_conditions appends two changes to any store.
LEMMA InitialConditionsFacts ==
    ASSUME now \in Nat, NEW s, StoreOK(s), NEW v \in Version
    PROVE  LET t == InitialConditions(s, v)
               n == Count(s.counters[NoPrincipal])
           IN  /\ StoreOK(t) /\ Grown(s, t)
               /\ Count(t.counters[NoPrincipal]) = n + 2
               /\ t.history[<<NoPrincipal, n>>].event
                     = [cond |-> App13CH, cost |-> DailyCost[v][App13CH]]
               /\ t.history[<<NoPrincipal, n + 1>>].event
                     = [cond |-> App7CH, cost |-> DailyCost[v][App7CH]]
<1> DEFINE n == Count(s.counters[NoPrincipal])
           e == ChangeTo(v, App13CH)
           f == ChangeTo(v, App7CH)
           t == Persisted(s, e, NoPrincipal)
           u == Persisted(t, f, NoPrincipal)
<1>1. /\ NoPrincipal \in Key /\ n \in Nat
      /\ [cond |-> App13CH, cost |-> DailyCost[v][App13CH]] \in Change
      /\ [cond |-> App7CH, cost |-> DailyCost[v][App7CH]] \in Change
  BY CountNat, HistoryAssumption DEF Change, RentalConditionId, StoreOK
<1>2. /\ e \in Event /\ e.time = now
      /\ e.event = [cond |-> App13CH, cost |-> DailyCost[v][App13CH]]
  BY <1>1, StampedEvent DEF ChangeTo
<1>3. /\ f \in Event /\ f.time = now
      /\ f.event = [cond |-> App7CH, cost |-> DailyCost[v][App7CH]]
  BY <1>1, StampedEvent DEF ChangeTo
<1> HIDE DEF e, f
<1>0. t = Persisted(s, e, NoPrincipal)
  OBVIOUS
<1>12. n = Count(s.counters[NoPrincipal])
  OBVIOUS
<1> HIDE DEF t, n
<1>4. StoreOK(t) /\ Grown(s, t)
  BY <1>0, <1>1, <1>2, PersistedOK, PersistedGrown
<1>5. /\ Count(t.counters[NoPrincipal]) = n + 1
      /\ t.history[<<NoPrincipal, n>>] = e
      /\ <<NoPrincipal, n>> \in DOMAIN t.history
  <2>1. Puts(s, e, NoPrincipal, n, t)
    BY <1>0, <1>1, <1>2, <1>12, PersistedFacts
  <2>2. QED
    BY <2>1 DEF Puts
<1>11. u = Persisted(t, f, NoPrincipal)
  OBVIOUS
<1> HIDE DEF u
<1>6. StoreOK(u) /\ Grown(t, u)
  BY <1>11, <1>1, <1>3, <1>4, PersistedOK, PersistedGrown
<1>7. /\ Count(u.counters[NoPrincipal]) = n + 2
      /\ u.history[<<NoPrincipal, n + 1>>] = f
      /\ u.history[<<NoPrincipal, n>>] = e
  <2>0. n + 1 = Count(t.counters[NoPrincipal])
    BY <1>5
  <2>1. /\ Count(u.counters[NoPrincipal]) = (n + 1) + 1
        /\ u.history[<<NoPrincipal, n + 1>>] = f
        /\ \A x \in DOMAIN t.history : u.history[x] = t.history[x]
    <3>1. Puts(t, f, NoPrincipal, n + 1, u)
      BY <2>0, <1>11, <1>1, <1>3, <1>4, PersistedFacts
    <3>2. QED
      BY <3>1 DEF Puts
  <2>2. QED
    BY <2>1, <1>1, <1>5
<1>8. Grown(s, u)
  BY <1>4, <1>6, GrownTwice
<1>9. u = InitialConditions(s, v)
  BY <1>0, <1>11 DEF e, f, InitialConditions
<1>10. QED
  BY <1>2, <1>3, <1>6, <1>7, <1>8, <1>9 DEF n

\* What every step does to the store.
LEMMA StepStore ==
    ASSUME TypeOK, Numbered, [Next]_vars
    PROVE  StoreOK(Store') /\ Grown(Store, Store')
<1>1. StoreOK(Store) /\ now \in Nat
  BY StoreTyped DEF TypeOK
<1>2. Grown(Store, Store)
  <2>1. \A k \in Key : Count(Store.counters[k]) <= Count(Store.counters[k])
    <3>1. \A k \in Key : Count(Store.counters[k]) \in Nat
      BY <1>1, CountNat DEF StoreOK
    <3>2. QED
      BY <3>1
  <2>2. QED
    BY <2>1 DEF Grown
<1>3. CASE UNCHANGED <<counters, history>>
  BY <1>1, <1>2, <1>3 DEF Store
<1>4. ASSUME NEW k \in Key, NEW n \in Note, Report(k, n)
      PROVE  StoreOK(Store') /\ Grown(Store, Store')
  <2>1. Store' = Persisted(Store, Stamped(n), k)
    BY <1>4 DEF Report, Stored, Store, Persisted
  <2>2. Stamped(n) \in Event /\ Stamped(n).time = now
    BY <1>1, StampedEvent
  <2>3. QED
    BY <2>1, <2>2, <1>1, PersistedOK, PersistedGrown
<1>5. ASSUME NEW v \in Version, Upgrade(v)
      PROVE  StoreOK(Store') /\ Grown(Store, Store')
  <2>1. Store' = InitialConditions(Store, v)
    BY <1>5 DEF Upgrade, Stored, Store, StableMemory, InitialConditions, Persisted
  <2>2. QED
    BY <2>1, <1>1, InitialConditionsFacts
<1>6. ASSUME NEW r \in Reader, NextPage(r) \/ Close(r) \/ \E k \in Key : FirstPage(r, k)
      PROVE  UNCHANGED <<counters, history>>
  BY <1>6 DEF NextPage, Close, FirstPage
<1>7. QED
  BY <1>3, <1>4, <1>5, <1>6 DEF Next, vars, Tick

------------------------------------------------------------------------------
(* Pages *)

\* The numbers of an interval in ascending order.
LEMMA AscendingInterval ==
    ASSUME NEW a \in Nat, NEW b \in Nat, a <= b
    PROVE  Ascending(a .. b - 1) = [i \in 1 .. b - a |-> a + i - 1]
<1> DEFINE S == a .. b - 1
<1>1. Cardinality(S) = b - a
  <2>1. a \in Int /\ b - 1 \in Int
    OBVIOUS
  <2>2. Cardinality(a .. b - 1) = IF a > b - 1 THEN 0 ELSE (b - 1) - a + 1
    BY <2>1, FS_Interval
  <2>3. QED
    BY <2>2
<1>2. ASSUME NEW n \in S
      PROVE  Cardinality({m \in S : m < n}) = n - a
  <2>1. {m \in S : m < n} = a .. n - 1
    OBVIOUS
  <2>2. Cardinality(a .. n - 1) = n - a
    <3>1. a \in Int /\ n - 1 \in Int
      OBVIOUS
    <3>2. Cardinality(a .. n - 1) = IF a > n - 1 THEN 0 ELSE (n - 1) - a + 1
      BY <3>1, FS_Interval
    <3>3. QED
      BY <3>2
  <2>3. QED
    BY <2>1, <2>2
<1>3. ASSUME NEW i \in 1 .. b - a
      PROVE  (CHOOSE n \in S : Cardinality({m \in S : m < n}) = i - 1) = a + i - 1
  <2>1. a + i - 1 \in S
    OBVIOUS
  <2>2. \A n \in S : Cardinality({m \in S : m < n}) = i - 1 <=> n = a + i - 1
    BY <1>2
  <2>3. QED
    BY <2>1, <2>2
<1>4. QED
  BY <1>1, <1>3 DEF Ascending

\* A page of numbered events has every event between its ends.
LEMMA EventsBetween ==
    ASSUME TypeOK, Numbered, NEW k \in Key, NEW low \in Nat, NEW high \in Nat,
           low <= high, high <= Count(counters[k])
    PROVE  Events(k, low, high) = [i \in 1 .. high - low |-> history[<<k, low + i - 1>>]]
<1>1. Count(counters[k]) \in Nat
  BY CountNat DEF TypeOK
<1>2. {n \in low .. high - 1 : <<k, n>> \in DOMAIN history} = low .. high - 1
  BY <1>1 DEF Numbered
<1> DEFINE order == Ascending(low .. high - 1)
<1>3. order = [i \in 1 .. high - low |-> low + i - 1]
  BY AscendingInterval
<1>4. Len(order) = high - low
  BY <1>3
<1>5. \A i \in 1 .. high - low : order[i] = low + i - 1
  BY <1>3
<1>6. Events(k, low, high) = [i \in 1 .. Len(order) |-> history[<<k, order[i]>>]]
  BY <1>2 DEF Events
<1> HIDE DEF order
<1>7. QED
  BY <1>4, <1>5, <1>6

\* The page before high ends where it should.
LEMMA LowSeqFacts ==
    ASSUME NEW high \in Nat
    PROVE  LowSeq(high) \in Nat /\ LowSeq(high) <= high
BY HistoryAssumption DEF LowSeq

\* A page is a sequence of events.
LEMMA EventsTyped ==
    ASSUME TypeOK, Numbered, NEW k \in Key, NEW low \in Nat, NEW high \in Nat,
           low <= high, high <= Count(counters[k])
    PROVE  Events(k, low, high) \in Seq(Event)
<1>1. Count(counters[k]) \in Nat
  BY CountNat DEF TypeOK
<1>2. \A i \in 1 .. high - low : history[<<k, low + i - 1>>] \in Event
  <2>1. SUFFICES ASSUME NEW i \in 1 .. high - low
                 PROVE  history[<<k, low + i - 1>>] \in Event
    OBVIOUS
  <2>2. low + i - 1 \in 0 .. Count(counters[k]) - 1
    BY <1>1
  <2>3. <<k, low + i - 1>> \in DOMAIN history
    BY <2>2 DEF Numbered
  <2>4. QED
    BY <2>3 DEF TypeOK
<1> DEFINE n == high - low
           page == [i \in 1 .. n |-> history[<<k, low + i - 1>>]]
<1>3. n \in Nat
  OBVIOUS
<1>4. Events(k, low, high) = page
  BY EventsBetween
<1>5. \A i \in 1 .. n : page[i] \in Event
  BY <1>2
<1> HIDE DEF n
<1>6. page \in Seq(Event)
  BY <1>3, <1>5
<1>7. QED
  BY <1>4, <1>6

------------------------------------------------------------------------------
(* The inductive invariant *)

\* Events of this moment behind ordered events of the past are in order.
LEMMA GrownChronological ==
    ASSUME now \in Nat, NEW s, NEW t, StoreOK(s), StoreOK(t), Grown(s, t),
           \A x \in DOMAIN s.history : s.history[x].time <= now,
           \A x, y \in DOMAIN s.history :
              (x[1] = y[1] /\ x[2] < y[2]) => s.history[x].time <= s.history[y].time
    PROVE  /\ \A x \in DOMAIN t.history : t.history[x].time <= now
           /\ \A x, y \in DOMAIN t.history :
                 (x[1] = y[1] /\ x[2] < y[2]) => t.history[x].time <= t.history[y].time
<1>1. ASSUME NEW x \in DOMAIN t.history
      PROVE  t.history[x].time <= now
  <2>1. CASE x \in DOMAIN s.history
    BY <2>1 DEF Grown
  <2>2. CASE x \notin DOMAIN s.history
    <3>1. t.history[x].time = now
      BY <2>2 DEF Grown
    <3>2. QED
      BY <3>1
  <2>3. QED
    BY <2>1, <2>2
<1>2. ASSUME NEW x \in DOMAIN t.history, NEW y \in DOMAIN t.history,
             x[1] = y[1], x[2] < y[2]
      PROVE  t.history[x].time <= t.history[y].time
  <2>1. CASE y \notin DOMAIN s.history
    <3>1. t.history[y].time = now
      BY <2>1 DEF Grown
    <3>2. QED
      BY <3>1, <1>1
  <2>2. CASE y \in DOMAIN s.history
    <3>1. /\ x[1] \in Key /\ x[2] \in Nat /\ y[2] \in Nat
          /\ y[2] < Count(s.counters[y[1]])
      BY <2>2 DEF StoreOK
    <3>2. Count(s.counters[x[1]]) \in Nat
      BY <3>1, CountNat DEF StoreOK
    <3>3. x[2] < Count(s.counters[x[1]])
      BY <3>1, <3>2, <1>2
    <3>4. x \in DOMAIN s.history
      <4>1. CASE x \notin DOMAIN s.history
        <5>1. x[2] >= Count(s.counters[x[1]])
          BY <4>1 DEF Grown
        <5>2. QED
          BY <5>1, <3>1, <3>2, <3>3
      <4>2. QED
        BY <4>1
    <3>5. s.history[x].time <= s.history[y].time
      BY <3>4, <2>2, <1>2
    <3>6. QED
      BY <3>4, <3>5, <2>2 DEF Grown
  <2>3. QED
    BY <2>1, <2>2
<1>3. QED
  BY <1>1, <1>2

\* ConditionsTold, of counters cs, history h and conditions d.
Told(cs, h, d) ==
    \A c \in RentalConditionId :
        \E n \in 0 .. Count(cs[NoPrincipal]) - 1 :
            /\ h[<<NoPrincipal, n>>].event = [cond |-> c, cost |-> d[c]]
            /\ \A m \in n + 1 .. Count(cs[NoPrincipal]) - 1 :
                  h[<<NoPrincipal, m>>].event.cond # c

\* Two changes at the end of a store tell the conditions of their version.
LEMMA ConditionsJustTold ==
    ASSUME NEW v \in Version, NEW n \in Nat, NEW cs, NEW h,
           Count(cs[NoPrincipal]) = n + 2,
           h[<<NoPrincipal, n>>].event
              = [cond |-> App13CH, cost |-> DailyCost[v][App13CH]],
           h[<<NoPrincipal, n + 1>>].event
              = [cond |-> App7CH, cost |-> DailyCost[v][App7CH]]
    PROVE  Told(cs, h, DailyCost[v])
<1>1. ASSUME NEW c \in RentalConditionId
      PROVE  \E i \in 0 .. Count(cs[NoPrincipal]) - 1 :
                /\ h[<<NoPrincipal, i>>].event = [cond |-> c, cost |-> DailyCost[v][c]]
                /\ \A m \in i + 1 .. Count(cs[NoPrincipal]) - 1 :
                      h[<<NoPrincipal, m>>].event.cond # c
  <2>1. CASE c = App13CH
    <3>1. n \in 0 .. Count(cs[NoPrincipal]) - 1
      OBVIOUS
    <3>2. ASSUME NEW m \in n + 1 .. Count(cs[NoPrincipal]) - 1
          PROVE  h[<<NoPrincipal, m>>].event.cond # c
      <4>1. m = n + 1
        OBVIOUS
      <4>2. h[<<NoPrincipal, m>>].event.cond = App7CH
        BY <4>1
      <4>3. QED
        BY <4>2, <2>1, HistoryAssumption
    <3>3. h[<<NoPrincipal, n>>].event = [cond |-> c, cost |-> DailyCost[v][c]]
      BY <2>1
    <3>4. QED
      BY <3>1, <3>2, <3>3
  <2>2. CASE c = App7CH
    <3>1. n + 1 \in 0 .. Count(cs[NoPrincipal]) - 1
      OBVIOUS
    <3>2. \A m \in (n + 1) + 1 .. Count(cs[NoPrincipal]) - 1 :
              h[<<NoPrincipal, m>>].event.cond # c
      OBVIOUS
    <3>3. h[<<NoPrincipal, n + 1>>].event = [cond |-> c, cost |-> DailyCost[v][c]]
      BY <2>2
    <3>4. QED
      BY <3>1, <3>2, <3>3
  <2>3. QED
    BY <2>1, <2>2 DEF RentalConditionId
<1>2. QED
  BY <1>1 DEF Told

\* The canister as init leaves it.
LEMMA InitInv == Init => IInv
<1> SUFFICES ASSUME Init PROVE IInv
  OBVIOUS
<1> DEFINE s == [counters |-> [k \in Key |-> None], history |-> <<>>]
<1>1. StoreOK(s)
  <2>1. DOMAIN s.history = {}
    OBVIOUS
  <2>2. s.history \in [DOMAIN s.history -> Event]
    BY <2>1
  <2>3. \A k \in Key : s.counters[k] = None /\ Count(s.counters[k]) = 0
    BY DEF Count
  <2>4. s.counters \in [Key -> Nat \cup {None}]
    OBVIOUS
  <2> HIDE DEF s
  <2>5. None # 0
    BY HistoryAssumption
  <2>6. QED
    BY <2>1, <2>2, <2>3, <2>4, <2>5 DEF StoreOK
<1>2. \A x \in DOMAIN s.history : FALSE
  OBVIOUS
<1>3. Count(s.counters[NoPrincipal]) = 0
  BY HistoryAssumption DEF Count
<1>4. now = 0 /\ now \in Nat
  BY DEF Init
<1>5. PICK v \in Version :
          /\ counters = InitialConditions(s, v).counters
          /\ history = InitialConditions(s, v).history
          /\ conditions = DailyCost[v]
  BY DEF Init
<1> HIDE DEF s
<1> DEFINE t == InitialConditions(s, v)
<1>6. /\ StoreOK(t) /\ Grown(s, t)
      /\ Count(t.counters[NoPrincipal]) = 0 + 2
      /\ t.history[<<NoPrincipal, 0>>].event
            = [cond |-> App13CH, cost |-> DailyCost[v][App13CH]]
      /\ t.history[<<NoPrincipal, 0 + 1>>].event
            = [cond |-> App7CH, cost |-> DailyCost[v][App7CH]]
  BY <1>1, <1>3, <1>4, InitialConditionsFacts
<1>7. counters = t.counters /\ history = t.history
  BY <1>5
<1> HIDE DEF t
<1>8. TypeOK
  <2>1. conditions \in [RentalConditionId -> Cost]
    BY <1>5, HistoryAssumption
  <2>2. readers \in [Reader -> Readings \cup {None}]
    BY DEF Init
  <2>3. QED
    BY <1>4, <1>6, <1>7, <2>1, <2>2 DEF TypeOK, StoreOK
<1>9. Numbered
  BY <1>6, <1>7 DEF Numbered, StoreOK
<1>10. NotOfTheFuture /\ Chronological
  BY <1>1, <1>2, <1>4, <1>6, <1>7, GrownChronological
     DEF NotOfTheFuture, Chronological
<1>11. ConditionsTold
  <2>1. 0 \in Nat
    OBVIOUS
  <2>2. QED
    <3>1. Told(counters, history, DailyCost[v])
      BY <2>1, <1>6, <1>7, ConditionsJustTold
    <3>2. QED
      BY <3>1, <1>5 DEF Told, ConditionsTold
<1>12. ReadersBehind /\ PagesContiguous
  BY DEF Init, ReadersBehind, PagesContiguous
<1>13. QED
  BY <1>8, <1>9, <1>10, <1>11, <1>12 DEF IInv

\* Every step keeps the types, the numbers and the order in time.
LEMMA StepStoreInv ==
    ASSUME IInv, [Next]_vars
    PROVE  /\ Numbered' /\ NotOfTheFuture' /\ Chronological'
           /\ now' \in Nat
           /\ counters' \in [Key -> Nat \cup {None}]
           /\ DOMAIN history' \subseteq Key \X Nat
           /\ history' \in [DOMAIN history' -> Event]
<1>1. StoreOK(Store) /\ StoreOK(Store') /\ Grown(Store, Store')
  BY StoreTyped, StepStore DEF IInv
<1>2. Store.history = history /\ Store'.history = history' /\ Store'.counters = counters'
  BY DEF Store
<1>3. now \in Nat /\ now' \in Nat /\ now <= now'
  <2>1. now \in Nat
    BY DEF IInv, TypeOK
  <2>2. now' = now \/ now' = now + 1
    BY DEF Next, vars, Report, Upgrade, FirstPage, NextPage, Close, Tick
  <2>3. QED
    BY <2>1, <2>2
<1> DEFINE s == Store
           t == Store'
<1>4. /\ \A x \in DOMAIN s.history : s.history[x].time <= now
      /\ \A x, y \in DOMAIN s.history :
            (x[1] = y[1] /\ x[2] < y[2]) => s.history[x].time <= s.history[y].time
  BY <1>2 DEF IInv, NotOfTheFuture, Chronological
<1>5. StoreOK(s) /\ StoreOK(t) /\ Grown(s, t)
  BY <1>1
<1>6. t.history = history' /\ t.counters = counters'
  BY <1>2
<1> HIDE DEF s, t
<1>7. /\ \A x \in DOMAIN t.history : t.history[x].time <= now
      /\ \A x, y \in DOMAIN t.history :
            (x[1] = y[1] /\ x[2] < y[2]) => t.history[x].time <= t.history[y].time
  BY <1>3, <1>4, <1>5, GrownChronological
<1>8. Chronological'
  BY <1>6, <1>7 DEF Chronological
<1>9. NotOfTheFuture'
  <2>1. SUFFICES ASSUME NEW x \in DOMAIN history' PROVE history'[x].time <= now'
    BY DEF NotOfTheFuture
  <2>2. history'[x].time <= now /\ history'[x].time \in Nat
    BY <1>5, <1>6, <1>7 DEF StoreOK, Event
  <2>3. QED
    BY <2>2, <1>3
<1>10. Numbered'
  BY <1>5, <1>6 DEF StoreOK, Numbered
<1>11. QED
  BY <1>3, <1>5, <1>6, <1>8, <1>9, <1>10 DEF StoreOK

\* Every step but an upgrade leaves the events of the rental conditions alone.
LEMMA StepConditions ==
    ASSUME IInv, [Next]_vars
    PROVE  ConditionsTold'
<1>1. /\ counters \in [Key -> Nat \cup {None}] /\ NoPrincipal \in Key
      /\ StoreOK(Store) /\ now \in Nat
  BY StoreTyped, HistoryAssumption DEF IInv, TypeOK
<1>2. ASSUME NEW v \in Version, Upgrade(v)
      PROVE  ConditionsTold'
  <2> DEFINE n == Count(counters[NoPrincipal])
             t == InitialConditions(Store, v)
  <2>1. n = Count(Store.counters[NoPrincipal]) /\ n \in Nat
    BY <1>1, CountNat DEF Store
  <2>2. /\ counters' = t.counters /\ history' = t.history
        /\ conditions' = DailyCost[v]
    BY <1>2 DEF Upgrade, Stored, StableMemory
  <2> HIDE DEF n
  <2>3. /\ Count(t.counters[NoPrincipal]) = n + 2
        /\ t.history[<<NoPrincipal, n>>].event
              = [cond |-> App13CH, cost |-> DailyCost[v][App13CH]]
        /\ t.history[<<NoPrincipal, n + 1>>].event
              = [cond |-> App7CH, cost |-> DailyCost[v][App7CH]]
    BY <1>1, <2>1, InitialConditionsFacts
  <2> HIDE DEF t
  <2>4. /\ Count(counters'[NoPrincipal]) = n + 2
        /\ history'[<<NoPrincipal, n>>].event
              = [cond |-> App13CH, cost |-> DailyCost[v][App13CH]]
        /\ history'[<<NoPrincipal, n + 1>>].event
              = [cond |-> App7CH, cost |-> DailyCost[v][App7CH]]
    BY <2>2, <2>3
  <2>5. Told(counters', history', DailyCost[v])
    BY <2>1, <2>4, ConditionsJustTold
  <2>6. QED
    BY <2>2, <2>5 DEF Told, ConditionsTold
<1>3. ASSUME /\ conditions' = conditions
             /\ counters'[NoPrincipal] = counters[NoPrincipal]
             /\ \A x \in DOMAIN history : history'[x] = history[x]
      PROVE  ConditionsTold'
  <2>1. \A n \in 0 .. Count(counters[NoPrincipal]) - 1 :
            <<NoPrincipal, n>> \in DOMAIN history
    BY <1>1 DEF IInv, Numbered
  <2>2. Count(counters[NoPrincipal]) \in Nat
    BY <1>1, CountNat
  <2>3. \A n \in 0 .. Count(counters[NoPrincipal]) - 1 :
            history'[<<NoPrincipal, n>>] = history[<<NoPrincipal, n>>]
    BY <2>1, <1>3
  <2>4. SUFFICES ASSUME NEW c \in RentalConditionId
                 PROVE  \E n \in 0 .. Count(counters[NoPrincipal]) - 1 :
            /\ history'[<<NoPrincipal, n>>].event = [cond |-> c, cost |-> conditions[c]]
            /\ \A m \in n + 1 .. Count(counters[NoPrincipal]) - 1 :
                  history'[<<NoPrincipal, m>>].event.cond # c
    BY <1>3 DEF ConditionsTold
  <2>5. PICK n \in 0 .. Count(counters[NoPrincipal]) - 1 :
            /\ history[<<NoPrincipal, n>>].event = [cond |-> c, cost |-> conditions[c]]
            /\ \A m \in n + 1 .. Count(counters[NoPrincipal]) - 1 :
                  history[<<NoPrincipal, m>>].event.cond # c
    BY DEF IInv, ConditionsTold
  <2>6. \A m \in n + 1 .. Count(counters[NoPrincipal]) - 1 :
            m \in 0 .. Count(counters[NoPrincipal]) - 1
    BY <2>2
  <2>7. QED
    BY <2>3, <2>5, <2>6
<1>4. ASSUME NEW k \in Key, NEW n \in Note, Report(k, n)
      PROVE  ConditionsTold'
  <2>1. Grown(Store, Store')
    BY <1>4, StepStore DEF IInv, Next
  <2>2. \A x \in DOMAIN history : history'[x] = history[x]
    BY <2>1 DEF Grown, Store
  <2>3. /\ conditions' = conditions
        /\ counters' = [counters EXCEPT ![k] = Count(counters[k]) + 1]
        /\ k # NoPrincipal
    BY <1>1, <1>4 DEF Report, Stored, Persisted, NextSeq, Store
  <2>4. counters'[NoPrincipal] = counters[NoPrincipal]
    BY <1>1, <2>3
  <2>5. QED
    BY <2>2, <2>3, <2>4, <1>3
<1>5. CASE UNCHANGED <<counters, history, conditions>>
  BY <1>5, <1>3
<1>6. ASSUME NEW r \in Reader, NextPage(r) \/ Close(r) \/ \E k \in Key : FirstPage(r, k)
      PROVE  UNCHANGED <<counters, history, conditions>>
  BY <1>6 DEF NextPage, Close, FirstPage
<1>7. QED
  BY <1>2, <1>4, <1>5, <1>6 DEF Next, vars, Tick

------------------------------------------------------------------------------
(* Readers *)

\* What holds of a client's reading f.
ReadingOK(f, c, h) ==
    /\ f \in Readings
    /\ f.top <= Count(c[f.key])
    /\ f.older <= f.top
    /\ f.got = [i \in 1 .. f.top - f.older |-> h[<<f.key, f.older + i - 1>>]]

\* The conjuncts about the clients are about each client's reading.
LEMMA ReadingsSplit ==
    (/\ readers \in [Reader -> Readings \cup {None}]
     /\ ReadersBehind /\ PagesContiguous)
    <=> /\ readers \in [Reader -> Readings \cup {None}]
        /\ \A r \in Reader : readers[r] # None => ReadingOK(readers[r], counters, history)
BY DEF ReadersBehind, PagesContiguous, ReadingOK

\* What is appended does not touch what a client has read.
LEMMA ReadingKept ==
    ASSUME IInv, [Next]_vars, NEW f, ReadingOK(f, counters, history)
    PROVE  ReadingOK(f, counters', history')
<1>1. StoreOK(Store) /\ StoreOK(Store') /\ Grown(Store, Store')
  BY StoreTyped, StepStore DEF IInv
<1>2. f.key \in Key /\ f.top \in Nat /\ f.older \in Nat
  BY DEF ReadingOK, Readings
<1>3. /\ Count(counters[f.key]) \in Nat /\ Count(counters'[f.key]) \in Nat
      /\ Count(counters[f.key]) <= Count(counters'[f.key])
  BY <1>1, <1>2, CountNat DEF StoreOK, Grown, Store
<1>4. f.top <= Count(counters'[f.key])
  BY <1>2, <1>3 DEF ReadingOK
<1>5. \A i \in 1 .. f.top - f.older :
          history'[<<f.key, f.older + i - 1>>] = history[<<f.key, f.older + i - 1>>]
  <2>1. SUFFICES ASSUME NEW i \in 1 .. f.top - f.older
                 PROVE  history'[<<f.key, f.older + i - 1>>]
                           = history[<<f.key, f.older + i - 1>>]
    OBVIOUS
  <2>2. f.older + i - 1 \in 0 .. Count(counters[f.key]) - 1
    BY <1>2, <1>3 DEF ReadingOK
  <2>3. <<f.key, f.older + i - 1>> \in DOMAIN history
    BY <2>2, <1>2 DEF IInv, Numbered
  <2>4. QED
    BY <2>3, <1>1 DEF Grown, Store
<1>6. QED
  BY <1>4, <1>5 DEF ReadingOK

\* A first page makes a reading.
LEMMA FirstReading ==
    ASSUME IInv, NEW k \in Key
    PROVE  ReadingOK([key |-> k, top |-> Count(counters[k]),
                      older |-> Page(k, NewestEnd(k)).continuation,
                      got |-> Page(k, NewestEnd(k)).events],
                     counters, history)
<1> DEFINE high == Count(counters[k])
           low == LowSeq(high)
<1>1. high \in Nat /\ high <= high
  <2>1. high \in Nat
    BY CountNat DEF IInv, TypeOK
  <2>2. QED
    BY <2>1
<1>2. low \in Nat /\ low <= high
  BY <1>1, LowSeqFacts
<1>3. /\ Page(k, NewestEnd(k)).continuation = low
      /\ Page(k, NewestEnd(k)).events = Events(k, low, high)
  BY DEF Page, NewestEnd
<1>4. /\ Events(k, low, high) \in Seq(Event)
      /\ Events(k, low, high) = [i \in 1 .. high - low |-> history[<<k, low + i - 1>>]]
  <2>1. TypeOK /\ Numbered
    BY DEF IInv
  <2>2. high <= Count(counters[k])
    BY <1>1
  <2> HIDE DEF high, low
  <2>3. QED
    BY <1>1, <1>2, <2>1, <2>2, EventsTyped, EventsBetween
<1> HIDE DEF high, low
<1>5. QED
  BY <1>1, <1>2, <1>3, <1>4 DEF ReadingOK, Readings, high

\* A sequence behind another.
LEMMA Concatenation ==
    ASSUME NEW S, NEW a \in Seq(S), NEW b \in Seq(S)
    PROVE  /\ a \o b \in Seq(S)
           /\ Len(a \o b) = Len(a) + Len(b)
           /\ \A i \in 1 .. Len(a) + Len(b) :
                 (a \o b)[i] = IF i <= Len(a) THEN a[i] ELSE b[i - Len(a)]
OBVIOUS

\* The page before continues it.
LEMMA NextReading ==
    ASSUME IInv, NEW f, ReadingOK(f, counters, history)
    PROVE  ReadingOK([key |-> f.key, top |-> f.top,
                      older |-> Page(f.key, f.older).continuation,
                      got |-> Page(f.key, f.older).events \o f.got],
                     counters, history)
<1> DEFINE low == LowSeq(f.older)
           page == Events(f.key, low, f.older)
           g == [key |-> f.key, top |-> f.top, older |-> low, got |-> page \o f.got]
<1>1. /\ f.key \in Key /\ f.top \in Nat /\ f.older \in Nat /\ f.got \in Seq(Event)
  BY DEF ReadingOK, Readings
<1>2. Count(counters[f.key]) \in Nat /\ f.older <= Count(counters[f.key])
  BY <1>1, CountNat DEF IInv, TypeOK, ReadingOK
<1>3. low \in Nat /\ low <= f.older
  BY <1>1, LowSeqFacts
<1>4. /\ page \in Seq(Event)
      /\ page = [i \in 1 .. f.older - low |-> history[<<f.key, low + i - 1>>]]
  BY <1>1, <1>2, <1>3, EventsTyped, EventsBetween DEF IInv
<1>5. /\ Page(f.key, f.older).continuation = low
      /\ Page(f.key, f.older).events = page
  BY DEF Page
<1> HIDE DEF low, page
<1>6. g.key = f.key /\ g.top = f.top /\ g.older = low /\ g.got = page \o f.got
  OBVIOUS
<1>7. Len(page) = f.older - low /\ Len(f.got) = f.top - f.older
  BY <1>1, <1>3, <1>4 DEF ReadingOK
<1>8. \A i \in 1 .. f.top - low : (page \o f.got)[i] = history[<<f.key, low + i - 1>>]
  <2> SUFFICES ASSUME NEW i \in 1 .. f.top - low
                 PROVE  (page \o f.got)[i] = history[<<f.key, low + i - 1>>]
    OBVIOUS
  <2>0. i \in 1 .. Len(page) + Len(f.got)
    BY <1>1, <1>3, <1>7
  <2>1. (page \o f.got)[i] = IF i <= Len(page) THEN page[i] ELSE f.got[i - Len(page)]
    BY <2>0, <1>1, <1>4, Concatenation
  <2>2. CASE i <= f.older - low
    <3>1. (page \o f.got)[i] = page[i]
      BY <2>1, <2>2, <1>7
    <3>2. QED
      BY <2>2, <3>1, <1>4, <1>1, <1>3
  <2>3. CASE i > f.older - low
    <3>1. i - (f.older - low) \in 1 .. f.top - f.older
      BY <2>3, <1>1, <1>3 DEF ReadingOK
    <3>2. (page \o f.got)[i] = f.got[i - (f.older - low)]
      BY <2>1, <2>3, <1>7, <1>1, <1>3
    <3>3. f.got[i - (f.older - low)]
             = history[<<f.key, f.older + (i - (f.older - low)) - 1>>]
      BY <3>1 DEF ReadingOK
    <3>4. f.older + (i - (f.older - low)) - 1 = low + i - 1
      BY <1>1, <1>3
    <3>5. QED
      BY <3>2, <3>3, <3>4
  <2>4. i <= f.older - low \/ i > f.older - low
    <3>1. i \in Int /\ f.older - low \in Int
      BY <1>1, <1>3
    <3>2. QED
      BY <3>1
  <2>5. QED
    BY <2>2, <2>3, <2>4
<1>9. page \o f.got \in Seq(Event) /\ Len(page \o f.got) = f.top - low
  BY <1>1, <1>3, <1>4, <1>7, Concatenation
<1>10. page \o f.got = [i \in 1 .. f.top - low |-> history[<<f.key, low + i - 1>>]]
  BY <1>8, <1>9
<1>11. g \in Readings
  BY <1>1, <1>3, <1>6, <1>9 DEF Readings
<1>12. low <= f.top /\ f.top <= Count(counters[f.key])
  BY <1>1, <1>3 DEF ReadingOK
<1> HIDE DEF g
<1>13. ReadingOK(g, counters, history)
  BY <1>6, <1>10, <1>11, <1>12 DEF ReadingOK
<1>14. QED
  BY <1>5, <1>13 DEF g

\* Every step keeps every client's reading right.
LEMMA StepReaders ==
    ASSUME IInv, [Next]_vars
    PROVE  /\ readers' \in [Reader -> Readings \cup {None}]
           /\ ReadersBehind' /\ PagesContiguous'
<1>1. /\ readers \in [Reader -> Readings \cup {None}]
      /\ \A r \in Reader : readers[r] # None => ReadingOK(readers[r], counters, history)
  BY ReadingsSplit DEF IInv, TypeOK
<1>2. SUFFICES /\ readers' \in [Reader -> Readings \cup {None}]
               /\ \A r \in Reader : readers'[r] # None => ReadingOK(readers'[r], counters', history')
  BY DEF ReadersBehind, PagesContiguous, ReadingOK
<1>3. \A f : ReadingOK(f, counters, history) => ReadingOK(f, counters', history')
  BY ReadingKept
<1>4. \A f : ReadingOK(f, counters, history) => f \in Readings
  BY DEF ReadingOK
<1>5. ASSUME NEW r \in Reader, NEW g, g = None \/ ReadingOK(g, counters, history),
             readers' = [readers EXCEPT ![r] = g]
      PROVE  /\ readers' \in [Reader -> Readings \cup {None}]
             /\ \A q \in Reader : readers'[q] # None => ReadingOK(readers'[q], counters', history')
  <2>1. \A q \in Reader : readers'[q] = IF q = r THEN g ELSE readers[q]
    BY <1>1, <1>5
  <2>2. readers' \in [Reader -> Readings \cup {None}]
    BY <1>1, <1>4, <1>5
  <2>3. ASSUME NEW q \in Reader, readers'[q] # None
        PROVE  ReadingOK(readers'[q], counters', history')
    <3>1. ReadingOK(readers'[q], counters, history)
      BY <2>1, <2>3, <1>1, <1>5
    <3>2. QED
      BY <3>1, <1>3
  <2>4. QED
    BY <2>2, <2>3
<1>6. ASSUME NEW r \in Reader, NEW k \in Key, FirstPage(r, k)
      PROVE  /\ readers' \in [Reader -> Readings \cup {None}]
             /\ \A q \in Reader : readers'[q] # None => ReadingOK(readers'[q], counters', history')
  BY <1>5, <1>6, FirstReading DEF FirstPage
<1>7. ASSUME NEW r \in Reader, NextPage(r)
      PROVE  /\ readers' \in [Reader -> Readings \cup {None}]
             /\ \A q \in Reader : readers'[q] # None => ReadingOK(readers'[q], counters', history')
  BY <1>1, <1>5, <1>7, NextReading DEF NextPage
<1>8. ASSUME NEW r \in Reader, Close(r)
      PROVE  /\ readers' \in [Reader -> Readings \cup {None}]
             /\ \A q \in Reader : readers'[q] # None => ReadingOK(readers'[q], counters', history')
  BY <1>5, <1>8 DEF Close
<1>9. CASE readers' = readers
  BY <1>1, <1>3, <1>9
<1>10. QED
  BY <1>6, <1>7, <1>8, <1>9 DEF Next, vars, Report, Upgrade, Tick

------------------------------------------------------------------------------
(* Theorems *)

\* The inductive invariant is inductive.
LEMMA StepInv == IInv /\ [Next]_vars => IInv'
<1> SUFFICES ASSUME IInv, [Next]_vars PROVE IInv'
  OBVIOUS
<1>1. conditions' \in [RentalConditionId -> Cost]
  <2>1. conditions \in [RentalConditionId -> Cost]
    BY DEF IInv, TypeOK
  <2>2. conditions' = conditions \/ \E v \in Version : conditions' = DailyCost[v]
    BY DEF Next, vars, Report, Upgrade, FirstPage, NextPage, Close, Tick
  <2>3. QED
    BY <2>1, <2>2, HistoryAssumption
<1>2. TypeOK'
  BY <1>1, StepStoreInv, StepReaders DEF TypeOK
<1>3. QED
  BY <1>2, StepStoreInv, StepReaders, StepConditions DEF IInv

\* The inductive invariant holds of every state of every behaviour.
THEOREM HistoryInvariant == Spec => []IInv
BY InitInv, StepInv, PTL DEF Spec

\* Every variable keeps its type.
THEOREM HistoryTypeCorrect == Spec => []TypeOK
<1>1. IInv => TypeOK
  BY DEF IInv
<1>2. QED
  BY <1>1, HistoryInvariant, PTL

\* Events are numbered without a gap, through every upgrade.
THEOREM EventsNumbered == Spec => []Numbered
<1>1. IInv => Numbered
  BY DEF IInv
<1>2. QED
  BY <1>1, HistoryInvariant, PTL

\* The order of the numbers is the order in time.
THEOREM EventsChronological == Spec => []Chronological
<1>1. IInv => Chronological
  BY DEF IInv
<1>2. QED
  BY <1>1, HistoryInvariant, PTL

\* The history tells the rental conditions in force.
THEOREM ConditionsAreTold == Spec => []ConditionsTold
<1>1. IInv => ConditionsTold
  BY DEF IInv
<1>2. QED
  BY <1>1, HistoryInvariant, PTL

\* What a client reads page by page has no gap and no repetition.
THEOREM PagesAreContiguous == Spec => []PagesContiguous
<1>1. IInv => PagesContiguous
  BY DEF IInv
<1>2. QED
  BY <1>1, HistoryInvariant, PTL

------------------------------------------------------------------------------
(* Refinement *)

\* The log of key k in store s.
LogIn(s, k) == [i \in 1 .. Count(s.counters[k]) |-> s.history[<<k, i - 1>>]]

\* It is a sequence of events.
LEMMA LogTyped ==
    ASSUME NEW s, StoreOK(s), NEW k \in Key
    PROVE  LogIn(s, k) \in Seq(Event) /\ Len(LogIn(s, k)) = Count(s.counters[k])
<1>1. PICK n \in Nat : n = Count(s.counters[k])
  BY CountNat DEF StoreOK
<1>2. \A i \in 1 .. n : s.history[<<k, i - 1>>] \in Event
  <2>1. SUFFICES ASSUME NEW i \in 1 .. n PROVE s.history[<<k, i - 1>>] \in Event
    OBVIOUS
  <2>2. i - 1 \in 0 .. n - 1
    OBVIOUS
  <2>3. <<k, i - 1>> \in DOMAIN s.history
    BY <1>1, <2>2 DEF StoreOK
  <2>4. QED
    BY <2>3 DEF StoreOK
<1> DEFINE log == [i \in 1 .. n |-> s.history[<<k, i - 1>>]]
<1>3. log \in Seq(Event) /\ Len(log) = n
  BY <1>2
<1>4. LogIn(s, k) = log
  BY <1>1 DEF LogIn
<1> HIDE DEF log
<1>5. QED
  BY <1>1, <1>3, <1>4

\* A store that grows extends its logs.
LEMMA GrownLog ==
    ASSUME NEW s, NEW t, StoreOK(s), StoreOK(t), Grown(s, t), NEW k \in Key
    PROVE  /\ Len(LogIn(s, k)) <= Len(LogIn(t, k))
           /\ \A i \in 1 .. Len(LogIn(s, k)) : LogIn(t, k)[i] = LogIn(s, k)[i]
<1>1. PICK n \in Nat, m \in Nat :
          n = Count(s.counters[k]) /\ m = Count(t.counters[k])
  BY CountNat DEF StoreOK
<1>2. n <= m
  BY <1>1 DEF Grown
<1>3. Len(LogIn(s, k)) = n /\ Len(LogIn(t, k)) = m
  BY <1>1, LogTyped
<1>4. ASSUME NEW i \in 1 .. n
      PROVE  LogIn(t, k)[i] = LogIn(s, k)[i]
  <2>1. i - 1 \in 0 .. n - 1 /\ i \in 1 .. m
    BY <1>2
  <2>2. <<k, i - 1>> \in DOMAIN s.history
    BY <1>1, <2>1 DEF StoreOK
  <2>3. t.history[<<k, i - 1>>] = s.history[<<k, i - 1>>]
    BY <2>2 DEF Grown
  <2>4. LogIn(s, k)[i] = s.history[<<k, i - 1>>]
    BY <1>1 DEF LogIn
  <2>5. LogIn(t, k)[i] = t.history[<<k, i - 1>>]
    BY <1>1, <2>1 DEF LogIn
  <2>6. QED
    BY <2>3, <2>4, <2>5
<1>5. QED
  BY <1>2, <1>3, <1>4

\* The canister starts with a log.
LEMMA InitLog == IInv => Log!Init
<1> SUFFICES ASSUME IInv PROVE Log!Init
  OBVIOUS
<1>1. StoreOK(Store)
  BY StoreTyped DEF IInv
<1>2. \A k \in Key : LogIn(Store, k) \in Seq(Event)
  BY <1>1, LogTyped
<1>3. \A k \in Key : LogOf(k) \in Seq(Event)
  BY <1>2 DEF LogIn, LogOf, Store
<1>4. QED
  BY <1>3 DEF Log!Init

\* Every step extends every log.
LEMMA StepLog ==
    ASSUME IInv, [Next]_vars
    PROVE  Log!Next
<1>1. StoreOK(Store) /\ StoreOK(Store') /\ Grown(Store, Store')
  BY StoreTyped, StepStore DEF IInv
<1>2. \A k \in Key : LogIn(Store', k) \in Seq(Event)
  BY <1>1, LogTyped
<1>3. \A k \in Key :
          /\ Len(LogIn(Store, k)) <= Len(LogIn(Store', k))
          /\ \A i \in 1 .. Len(LogIn(Store, k)) :
                LogIn(Store', k)[i] = LogIn(Store, k)[i]
  BY <1>1, GrownLog
<1>4. [k \in Key |-> LogOf(k)] = [k \in Key |-> LogIn(Store, k)]
  BY DEF LogIn, LogOf, Store
<1>5. [k \in Key |-> LogOf(k)]' = [k \in Key |-> LogIn(Store', k)]
  BY DEF LogIn, LogOf, Store
<1> DEFINE old == [k \in Key |-> LogIn(Store, k)]
           new == [k \in Key |-> LogIn(Store', k)]
<1>6. \A k \in Key : old[k] = LogIn(Store, k) /\ new[k] = LogIn(Store', k)
  OBVIOUS
<1>7. new \in [Key -> Seq(Event)]
  BY <1>2
<1>8. old = [k \in Key |-> LogOf(k)] /\ new = [k \in Key |-> LogOf(k)]'
  BY <1>4, <1>5
<1> HIDE DEF old, new
<1>9. \A k \in Key : Log!Extends(old[k], new[k])
  BY <1>3, <1>6 DEF Log!Extends
<1>10. QED
  BY <1>7, <1>8, <1>9 DEF Log!Next

\* The history implements an append-only log of each key.
THEOREM HistoryIsLog == Spec => LogSpec
<1>1. IInv /\ [Next]_vars => [Log!Next]_[k \in Key |-> LogOf(k)]
  BY StepLog
<1>2. Init => Log!Init
  BY InitInv, InitLog
<1>3. QED
  BY <1>1, <1>2, HistoryInvariant, PTL DEF Spec, LogSpec, Log!Spec
==============================================================================
