-------------------------- MODULE HistoryProperties --------------------------
(***************************************************************************)
(* What the event history must keep.                                       *)
(***************************************************************************)
EXTENDS History

Readings == [key : Key, top : Nat, older : Nat, got : Seq(Event)]

\* Every variable has its type.
TypeOK ==
    /\ now \in Nat
    /\ counters \in [Key -> Nat \cup {None}]
    /\ DOMAIN history \subseteq Key \X Nat
    /\ history \in [DOMAIN history -> Event]
    /\ conditions \in [RentalConditionId -> Cost]
    /\ readers \in [Reader -> Readings \cup {None}]

\* The events of a key are numbered from 0 without a gap up to its counter, and
\* a counter that is there has been drawn from (get_current_seq asserts this in
\* tests), through every upgrade.
Numbered ==
    /\ \A k \in Key :
          /\ counters[k] # 0
          /\ \A n \in 0 .. Count(counters[k]) - 1 : <<k, n>> \in DOMAIN history
    /\ \A x \in DOMAIN history : x[2] < Count(counters[x[1]])

\* The numbers tell the order of the events: of two events of a key the one
\* with the lower number is not the later one.
Chronological ==
    \A x, y \in DOMAIN history :
        (x[1] = y[1] /\ x[2] < y[2]) => history[x].time <= history[y].time

\* The newest change of each rental condition in the history is the rental
\* condition that is in force, after init and after every upgrade.
ConditionsTold ==
    \A c \in RentalConditionId :
        \E n \in 0 .. Count(counters[NoPrincipal]) - 1 :
            /\ history[<<NoPrincipal, n>>].event = [cond |-> c, cost |-> conditions[c]]
            /\ \A m \in n + 1 .. Count(counters[NoPrincipal]) - 1 :
                  history[<<NoPrincipal, m>>].event.cond # c

\* What a client has put together from its pages is the history of its key from
\* where it will continue up to the newest event of the moment it began: no
\* event is missing, repeated or out of order, whatever was appended meanwhile.
PagesContiguous ==
    \A r \in Reader : readers[r] # None =>
        LET f == readers[r] IN
        /\ f.older <= f.top
        /\ f.got = [i \in 1 .. f.top - f.older |-> history[<<f.key, f.older + i - 1>>]]

------------------------------------------------------------------------------
(* Refinement *)

\* The events of key k in the order of their numbers.
LogOf(k) == [i \in 1 .. Count(counters[k]) |-> history[<<k, i - 1>>]]

Log == INSTANCE AppendOnlyLog WITH log <- [k \in Key |-> LogOf(k)]

\* The history is an audit log from the first event of init on: no handler and
\* no upgrade takes back, moves or rewrites what it has told, though HISTORY is
\* a map whose entries an insert could overwrite.
LogSpec == Log!Spec

------------------------------------------------------------------------------
(* Liveness *)

\* A client that pages back comes to the first event, however much is appended
\* while it reads.
ReaderFinishes ==
    \A r \in Reader :
        (readers[r] # None /\ readers[r].older # 0)
            ~> (readers[r] # None /\ readers[r].older = 0)
==============================================================================
