---------------------------- MODULE PrepaidAccount ----------------------------
(***************************************************************************)
(* What an agreement's bookkeeping promises, with time, guards and prices  *)
(* left out: every subnet has an account that is paid into and drawn from, *)
(* nothing paid in is ever forgotten, and no more is drawn than was paid.  *)
(***************************************************************************)
EXTENDS Naturals

CONSTANT Subnet     \* the holders of an account

VARIABLES paidIn,   \* paidIn[s]: all that was ever paid in for subnet s
          drawn     \* drawn[s]: all that was ever drawn

account == <<paidIn, drawn>>

Init ==
    /\ paidIn = [s \in Subnet |-> 0]
    /\ drawn = [s \in Subnet |-> 0]

\* Somebody pays into the account of one subnet.
Deposit(s) ==
    /\ paidIn'[s] > paidIn[s]
    /\ paidIn' = [paidIn EXCEPT ![s] = paidIn'[s]]
    /\ UNCHANGED drawn

\* Some of what is left is drawn, for any number of subnets at once.
Draw ==
    /\ \A s \in Subnet : drawn'[s] \in drawn[s] .. paidIn[s]
    /\ drawn' = [s \in Subnet |-> drawn'[s]]
    /\ UNCHANGED paidIn

Next == Draw \/ \E s \in Subnet : Deposit(s)

Spec == Init /\ [][Next]_account
==============================================================================
