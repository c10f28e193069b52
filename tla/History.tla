------------------------------- MODULE History -------------------------------
(***************************************************************************)
(* The event history: events are numbered under a key, which is a user, a  *)
(* subnet, or nothing for the rental conditions; clients page back through *)
(* it with queries, while handlers append to it and upgrades of the        *)
(* canister put the rental conditions into it again.                       *)
(*                                                                         *)
(* The counters and the history are in stable memory, the rental           *)
(* conditions on the heap.                                                 *)
(***************************************************************************)
EXTENDS Integers, Sequences, FiniteSets

CONSTANTS
    Key,            \* Option<Principal>
    NoPrincipal,    \* the key of the rental conditions
    App13CH, App7CH,
    Cost,           \* daily costs
    Version,        \* versions of the code
    DailyCost,      \* DailyCost[v][c]: daily cost of condition c in version v
    Note,           \* the other events, told apart as far as needed
    Reader,         \* clients
    PAGE_SIZE,      \* events of a page; the code has 20
    None,           \* an absent entry (Option::None)
    MaxEvents,      \* bound on the events of a key
    MaxTime         \* bound on the clock

RentalConditionId == {App13CH, App7CH}

ASSUME HistoryAssumption ==
    /\ NoPrincipal \in Key
    /\ App13CH # App7CH
    /\ DailyCost \in [Version -> [RentalConditionId -> Cost]]
    /\ PAGE_SIZE \in Nat \ {0}
    /\ MaxEvents \in Nat
    /\ MaxTime \in Nat
    /\ None \notin Nat /\ None \notin Cost

VARIABLES
    now,            \* ic_cdk::api::time()
    counters,       \* EVENT_COUNTERS
    history,        \* HISTORY
    conditions,     \* RENTAL_CONDITIONS
    readers         \* what each client has read, and where it continues

vars == <<now, counters, history, conditions, readers>>

\* RentalConditionsChanged
Change == [cond : RentalConditionId, cost : Cost]

Event == [time : Nat, event : Note \cup Change]

------------------------------------------------------------------------------
(* The store *)

Store == [counters |-> counters, history |-> history]

\* unwrap_or_default
Count(counter) == IF counter = None THEN 0 ELSE counter

\* Variant: the number is drawn again and again.
SameSeq(s, k) == [s.counters EXCEPT ![k] = IF @ = None THEN 1 ELSE @]

\* next_seq, the counter it leaves behind.
NextSeq(s, k) == [s.counters EXCEPT ![k] = Count(@) + 1]

\* StableBTreeMap::insert
Inserted(m, key, value) ==
    [x \in DOMAIN m \cup {key} |-> IF x = key THEN value ELSE m[x]]

\* persist_event
Persisted(s, e, k) ==
    [counters |-> NextSeq(s, k),
     history  |-> Inserted(s.history, <<k, Count(s.counters[k])>>, e)]

\* The event of this moment (EventType::into).
Stamped(e) == [time |-> now, event |-> e]

Stored(s) == counters' = s.counters /\ history' = s.history

------------------------------------------------------------------------------
(* Handlers *)

\* Any handler that persists an event under a principal.
Report(k, n) ==
    /\ k # NoPrincipal
    /\ Count(counters[k]) < MaxEvents
    /\ Stored(Persisted(Store, Stamped(n), k))
    /\ UNCHANGED <<now, conditions, readers>>

ChangeTo(v, c) == Stamped([cond |-> c, cost |-> DailyCost[v][c]])

\* Variant: only the last entry's event is persisted.
LastInitialConditions(s, v) == Persisted(s, ChangeTo(v, App7CH), NoPrincipal)

\* set_initial_conditions, the events.
InitialConditions(s, v) ==
    Persisted(Persisted(s, ChangeTo(v, App13CH), NoPrincipal),
              ChangeTo(v, App7CH), NoPrincipal)

\* Variant: the counters are on the heap.
CountersOnHeap == [history |-> history, counters |-> [k \in Key |-> None]]

\* What an upgrade leaves of the counters and the history.
StableMemory == Store

\* post_upgrade, to version v of the code.
Upgrade(v) ==
    /\ Count(counters[NoPrincipal]) + 1 < MaxEvents
    /\ Stored(InitialConditions(StableMemory, v))
    /\ conditions' = DailyCost[v]
    /\ UNCHANGED <<now, readers>>

------------------------------------------------------------------------------
(* Queries *)

\* Variant: the newest event is left out.
ExclusiveSeq(k) == IF counters[k] = None THEN 0 ELSE counters[k] - 1

\* get_current_seq and what get_history_page makes of it.
NewestEnd(k) == Count(counters[k])

\* Variant: the difference does not saturate.
WrappedLowSeq(high) == high - PAGE_SIZE

\* Variant: a first page that is not full is left out.
FullPagesLowSeq(high) == IF high > PAGE_SIZE THEN high - PAGE_SIZE ELSE high

\* saturating_sub
LowSeq(high) == IF high > PAGE_SIZE THEN high - PAGE_SIZE ELSE 0

\* The numbers in a set from the least to the greatest.
Ascending(S) ==
    [i \in 1 .. Cardinality(S) |->
        CHOOSE n \in S : Cardinality({m \in S : m < n}) = i - 1]

\* The values of HISTORY.range((k, low)..(k, high)), in the order of their keys.
Events(k, low, high) ==
    LET order == Ascending({n \in low .. high - 1 : <<k, n>> \in DOMAIN history})
    IN  [i \in 1 .. Len(order) |-> history[<<k, order[i]>>]]

\* get_history_page: the page that ends before high, and the continuation.
Page(k, high) ==
    LET low == LowSeq(high) IN
    [events |-> Events(k, low, high), continuation |-> low]

\* A client asks for the most recent page of k (older_than: None).
FirstPage(r, k) ==
    LET p == Page(k, NewestEnd(k)) IN
    /\ readers[r] = None
    /\ readers' = [readers EXCEPT ![r] =
           [key |-> k, top |-> Count(counters[k]),
            older |-> p.continuation, got |-> p.events]]
    /\ UNCHANGED <<now, counters, history, conditions>>

\* It asks for the page before (older_than: Some(continuation)).
NextPage(r) ==
    LET f == readers[r]
        p == Page(f.key, f.older)
    IN
    /\ f # None
    /\ f.older # 0
    /\ readers' = [readers EXCEPT ![r] =
           [key |-> f.key, top |-> f.top,
            older |-> p.continuation, got |-> p.events \o f.got]]
    /\ UNCHANGED <<now, counters, history, conditions>>

\* It has come to the first event, and may begin anew.
Close(r) ==
    /\ readers[r] # None
    /\ readers[r].older = 0
    /\ readers' = [readers EXCEPT ![r] = None]
    /\ UNCHANGED <<now, counters, history, conditions>>

------------------------------------------------------------------------------
(* The specification *)

Tick ==
    /\ now < MaxTime
    /\ now' = now + 1
    /\ UNCHANGED <<counters, history, conditions, readers>>

\* The canister as init leaves it: set_initial_conditions on empty memory.
Init ==
    /\ now = 0
    /\ \E v \in Version :
          LET s == InitialConditions(
                      [counters |-> [k \in Key |-> None], history |-> <<>>], v)
          IN  /\ counters = s.counters
              /\ history = s.history
              /\ conditions = DailyCost[v]
    /\ readers = [r \in Reader |-> None]

Next ==
    \/ \E k \in Key, n \in Note : Report(k, n)
    \/ \E v \in Version : Upgrade(v)
    \/ \E r \in Reader : NextPage(r) \/ Close(r) \/ \E k \in Key : FirstPage(r, k)
    \/ Tick

Spec == Init /\ [][Next]_vars

\* A client that has begun to read goes on.
FairSpec == Spec /\ \A r \in Reader : WF_vars(NextPage(r))
==============================================================================
