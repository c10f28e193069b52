--------------------------- MODULE RentalLifecycle ---------------------------
(***************************************************************************)
(* What the subnet rental canister promises, with every call, lock, ledger *)
(* transfer and timer left out: a user asks for a subnet, and then either  *)
(* withdraws or becomes the one tenant of one subnet, for good.            *)
(***************************************************************************)
CONSTANTS User,     \* principals that may rent
          Subnet,   \* subnets that may be rented
          None      \* no tenant

VARIABLES phase,    \* phase[u]: what user u is to the canister
          tenant    \* tenant[s]: the user renting subnet s, or None

lifecycle == <<phase, tenant>>

Phase == {"none", "requested", "renting"}

Init ==
    /\ phase = [u \in User |-> "none"]
    /\ tenant = [s \in Subnet |-> None]

\* A rental proposal is executed: the user has a rental request.
Request(u) ==
    /\ phase[u] = "none"
    /\ phase' = [phase EXCEPT ![u] = "requested"]
    /\ UNCHANGED tenant

\* The user takes the unconverted ICP back and gives up the request.
Cancel(u) ==
    /\ phase[u] = "requested"
    /\ phase' = [phase EXCEPT ![u] = "none"]
    /\ UNCHANGED tenant

\* The request becomes the agreement for a subnet nobody rents.
Rent(u, s) ==
    /\ phase[u] = "requested"
    /\ tenant[s] = None
    /\ phase' = [phase EXCEPT ![u] = "renting"]
    /\ tenant' = [tenant EXCEPT ![s] = u]

Next == \E u \in User :
    \/ Request(u)
    \/ Cancel(u)
    \/ \E s \in Subnet : Rent(u, s)

Spec == Init /\ [][Next]_lifecycle
==============================================================================
