---------------------------- MODULE AppendOnlyLog ----------------------------
(***************************************************************************)
(* What an audit log promises: one sequence of events for each key, which  *)
(* only ever grows at its end.                                             *)
(***************************************************************************)
EXTENDS Sequences, Naturals

CONSTANTS Key, Event

VARIABLE log     \* log[k]: the events of key k, oldest first

Init == log \in [Key -> Seq(Event)]

\* The events told so far stay, in their order and at their places.
Extends(old, new) ==
    /\ Len(old) <= Len(new)
    /\ \A i \in 1 .. Len(old) : new[i] = old[i]

Next ==
    /\ log' \in [Key -> Seq(Event)]
    /\ \A k \in Key : Extends(log[k], log'[k])

Spec == Init /\ [][Next]_log
==============================================================================
