------------------------------- MODULE RateBook -------------------------------
(***************************************************************************)
(* What a cache of daily exchange rates promises: the rate of a day is     *)
(* entered once, and from then on it is the rate of that day.              *)
(***************************************************************************)
CONSTANTS Day,     \* the midnights rates are asked for
          Rate,    \* what a rate may be
          None     \* no rate entered

VARIABLE book      \* book[d]: the rate of day d, or None

Init == book = [d \in Day |-> None]

Enter(d, r) ==
    /\ book[d] = None
    /\ book' = [book EXCEPT ![d] = r]

Next == \E d \in Day, r \in Rate : Enter(d, r)

Spec == Init /\ [][Next]_book
==============================================================================
