------------------------ MODULE SubnetRentalProperties ------------------------
(***************************************************************************)
(* What the subnet rental canister must keep, whatever the order in which  *)
(* its handlers, its timer and the canisters it calls take their steps.    *)
(***************************************************************************)
EXTENDS SubnetRental

\* u rents some subnet.
Renting(u) == \E s \in Subnet : agreements[s] # None /\ agreements[s].user = u

------------------------------------------------------------------------------
(* Types *)

\* An open call has the local variables its handler uses.
CallOK(f) ==
    /\ f.op = "idle" <=> f = NoCall
    /\ f.op # "idle" => f.at # "none" /\ f.user \in User
    /\ f.op = "exec" => f.cond \in Condition
    /\ f.op \in {"create", "topup", "admins"} => f.subnet \in Subnet
    /\ f.op \in {"create", "lock"} => f.copy \in Request
    /\ f.op = "topup" => f.copy \in Agreement
    /\ f.at = "whitelist" => f.op = "create"
    /\ f.op = "lock" => f.snap \in [User -> Request \cup {None}]

\* Every variable has its type: in particular nothing the handlers subtract
\* (a transfer from a subaccount, the cycles burned by refund) goes below zero,
\* and a handler that needs its copy of a request or an agreement has one.
TypeOK ==
    /\ locks \subseteq (User \cup Subnet \cup {Anonymous})
                       \X {"request", "refund", "nns", "agreement"}
    /\ requests \in [User -> Request \cup {None}]
    /\ agreements \in [Subnet -> Agreement \cup {None}]
    /\ newest \in [User \cup Subnet -> EventKind]
    /\ calls \in [Task -> Call]
    /\ \A t \in Task : CallOK(calls[t])
    /\ now \in Nat
    /\ sub \in [User -> Nat]
    /\ deposited \in [User -> Nat]
    /\ cycles \in [User -> Nat]
    /\ whitelist \in [User -> Subnet \cup {None}]

------------------------------------------------------------------------------
(* Guards *)

\* The guards in the lock set are exactly those of the open calls, and no guard
\* has two owners: CallerGuard releases a guard on every way out of a handler,
\* the error returns and the traps included, and never somebody else's.
LocksOwned ==
    /\ locks = UNION {Held(calls[t]) : t \in Task}
    /\ \A t, d \in Task : t # d => Held(calls[t]) \cap Held(calls[d]) = {}

\* What the handler of call f has checked before its awaits.
CheckHolds(f) ==
    /\ f.op = "exec" => requests[f.user] = None /\ ~Renting(f.user)
    /\ f.op = "create" => requests[f.user] = f.copy /\ agreements[f.subnet] = None
    /\ f.op = "topup" => agreements[f.subnet] = f.copy
    /\ f.op \in {"topup", "admins"} =>
          agreements[f.subnet] # None /\ agreements[f.subnet].user = f.user

\* What a handler has checked before its awaits still holds after them, which
\* is what the "unwrap safety" and "Safe because we checked above" comments of
\* canister.rs rely on: no request appears under a running rental proposal, the
\* request and the free subnet of a creation stay what they were, and so do the
\* agreement of a top-up and the tenant of a change of admins.  (The locking
\* loop has no such guarantee: see RemovalStopsLocking.)
ChecksStillHold == \A t \in Task : CheckHolds(calls[t])

\* A user has a request or one agreement, never both and never two agreements,
\* though the two are kept in separate maps and checked in separate handlers.
UserExclusive ==
    /\ \A u \in User : requests[u] # None => ~Renting(u)
    /\ \A s, z \in Subnet :
          (/\ agreements[s] # None
           /\ agreements[z] # None
           /\ agreements[s].user = agreements[z].user) => s = z

\* Two pending requests never ask for the same rental conditions.
OneRequestPerCondition ==
    \A u, v \in User :
        (requests[u] # None /\ requests[v] # None
         /\ requests[u].cond = requests[v].cond) => u = v

------------------------------------------------------------------------------
(* History and whitelist *)

\* The newest event under a principal tells whether it has a request or an
\* agreement: an event that announces a request or another locked part is the
\* newest only while there is a request, one that cancels it only while there is
\* none, and a subnet has events if and only if it has an agreement.
HistoryTellsState ==
    /\ \A u \in User :
          /\ newest[u] \in {"RentalRequestCreated", "LockingSuccess"}
                => requests[u] # None
          /\ newest[u] \in {"none", "RentalRequestCancelled"} => requests[u] = None
    /\ \A s \in Subnet : newest[s] = "none" <=> agreements[s] = None

\* The CMC authorizes a user on the subnet of that user's agreement, and on no
\* subnet without one, but for the moment in which the agreement is created.
WhitelistMatches ==
    /\ \A s \in Subnet :
          agreements[s] # None => whitelist[agreements[s].user] = s
    /\ \A u \in User : whitelist[u] # None =>
          \/ agreements[whitelist[u]] # None /\ agreements[whitelist[u]].user = u
          \/ \E t \in Task : /\ Resumed(t, "create", "whitelist", "ok")
                             /\ calls[t].user = u
                             /\ calls[t].subnet = whitelist[u]

------------------------------------------------------------------------------
(* Refinement *)

Phases == [u \in User |-> IF requests[u] # None THEN "requested"
                          ELSE IF Renting(u) THEN "renting" ELSE "none"]

Tenants == [s \in Subnet |->
              IF agreements[s] = None THEN None ELSE agreements[s].user]

Lifecycle == INSTANCE RentalLifecycle WITH phase <- Phases, tenant <- Tenants

\* The canister implements the rental lifecycle: whatever its handlers and its
\* timer do, a request ends once, by a refund or by becoming the agreement of a
\* subnet that nobody rented, and an agreement is for good.
LifecycleSpec == Lifecycle!Spec

------------------------------------------------------------------------------
(* Liveness *)

\* Every call ends: a reject or an error of a callee never leaves one open.
CallsReturn == \A t \in Task : calls[t].op # "idle" ~> calls[t] = NoCall

\* Every guard is free again and again: no user is locked out of the request
\* handlers, no subnet out of its top-ups, and refunds are not blocked for all.
GuardsFreed ==
    /\ \A u \in User : []<>(<<u, "request">> \notin locks)
    /\ \A s \in Subnet : []<>(<<s, "agreement">> \notin locks)
    /\ []<>(<<Anonymous, "refund">> \notin locks)

------------------------------------------------------------------------------
(* What comments and docs of the source say, and the code does not do *)

\* canister.rs:663 "Removing the rental request will also stop the monthly
\* locking process which locks 10% of the initial cost": the locking loop
\* converts nothing for a user without a request.
RemovalStopsLocking ==
    \A t \in Task : Resumed(t, "lock", "transfer", "none")
                        => requests[calls[t].user] # None

\* canister.rs:597-598 "create a rental agreement from an existing rental
\* request.  1. The remaining ICP is converted to cycles": the cost of a request
\* was checked against the balance, so the conversion finds the ICP it needs.
CreationIsFunded ==
    \A t \in Task : ~Resumed(t, "create", "transfer", "err")

\* canister.rs:672 "If the calling user has a rental request, the rental request
\* will be deleted": a refund call that ends leaves its caller without one.
RefundDeletesRequest ==
    [][\A t \in Task :
          (calls[t].op = "refund" /\ calls'[t] = NoCall)
              => requests'[calls[t].user] = None]_vars

\* lib.rs:136 "Total amount of ICP that the user has paid": an agreement never
\* claims more than the user ever transferred to the canister.
PaidWithinDeposits ==
    \A s \in Subnet : agreements[s] # None =>
        agreements[s].paid <= deposited[agreements[s].user]
==============================================================================
