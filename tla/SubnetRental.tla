----------------------------- MODULE SubnetRental -----------------------------
(***************************************************************************)
(* The subnet rental canister (SRC): rental requests, rental agreements,   *)
(* the caller guards that serialise the calls working on them, and the     *)
(* canisters it calls.                                                     *)
(*                                                                         *)
(* A canister runs one message at a time, so a handler is atomic between   *)
(* two awaits and interleaves with every other handler at an await.  An    *)
(* open call is a record calls[t]: the handler it runs (op), the callee it *)
(* waits for (at), the reply, if there is one yet, and the local variables *)
(* that survive the await.  An await takes three steps: the handler sends, *)
(* the callee acts and replies, the handler goes on.                       *)
(*                                                                         *)
(* Amounts are in units of e8s.  The cycles minting canister (CMC) mints   *)
(* one cycle per e8 it receives: the properties tell where cycles come     *)
(* from, not at which rate.  Time is counted in days.                      *)
(***************************************************************************)
EXTENDS Integers, FiniteSets

CONSTANTS
    User,               \* principals that rent, numbered in the order in which
                        \* the stable map of rental requests lists them
    Subnet,             \* subnets that exist and may be handed to a tenant
    Condition,          \* keys of the rental conditions map
    Task,               \* identifiers of calls that may be open together
    None,               \* an absent entry (Option::None)
    Anonymous,          \* the anonymous principal, the key of the refund guard
    Prices,             \* initial rental costs the exchange rates lead to
    Deposits,           \* amounts a user may transfer to the payment account
    DEFAULT_FEE,        \* the ledger's transfer fee
    LOCK_PARTS,         \* a request is locked in this many parts: 10
    LOCK_PERIOD_DAYS,   \* days between two lockings: 30
    GovernanceSerializes, \* TRUE: governance executes one rental proposal at a time
    Faulty,             \* the callees that may fail or reject a call
    MaxDeposited,       \* bound on what each user deposits
    MaxDay,             \* bound on the clock
    MaxLockingRuns      \* bound on locking timers running together

Callee == {"rate", "balance", "transfer", "notify", "whitelist", "registry"}

ASSUME UserAssumption == User \subseteq Nat
ASSUME AnonymousAssumption == Anonymous \notin User
\* A subnet's principal is not a user's: events of the two have different keys.
ASSUME PrincipalAssumption == User \cap Subnet = {}
ASSUME AmountAssumption ==
    /\ DEFAULT_FEE \in Nat \ {0}
    /\ Prices \subseteq Nat
    /\ Deposits \subseteq Nat
ASSUME LockAssumption ==
    /\ LOCK_PARTS \in Nat \ {0}
    /\ LOCK_PERIOD_DAYS \in Nat \ {0}
ASSUME FaultAssumption ==
    /\ GovernanceSerializes \in BOOLEAN
    /\ Faulty \subseteq Callee
ASSUME BoundAssumption ==
    /\ MaxDeposited \in [User -> Nat]
    /\ MaxDay \in Nat
    /\ MaxLockingRuns \in Nat

\* There are finitely many subnets, and the replica bounds the open calls.
ASSUME FiniteAssumption == IsFiniteSet(Subnet) /\ IsFiniteSet(Task)

VARIABLES
    locks,       \* the guards held: pairs of a principal and a tag
    requests,    \* RENTAL_REQUESTS
    agreements,  \* RENTAL_AGREEMENTS
    newest,      \* the kind of the newest event in HISTORY under each principal
    calls,       \* the open calls
    now,         \* the current day
    sub,         \* the ledger: balance of each user's subaccount of the SRC
    deposited,   \* what each user has ever transferred to that subaccount
    cycles,      \* the SRC's cycles that were minted from each user's ICP
    whitelist    \* the CMC's authorized subnet of each user

state    == <<requests, agreements, newest>>
external == <<sub, deposited, cycles, whitelist>>
vars     == <<locks, requests, agreements, newest, calls, now, external>>

------------------------------------------------------------------------------
(* Data *)

Request == [cost : Nat, locked : Nat, cycles : Nat, cond : Condition,
            created : Nat, last : Nat]

Agreement == [user : User, cond : Condition, paid : Nat, cycles : Nat]

ASSUME NoneAssumption ==
    None \notin User \cup Subnet \cup Condition \cup Request \cup Agreement

EventKind == {"none", "RentalRequestFailed", "TransferSuccess",
              "RentalRequestCreated", "LockingSuccess", "LockingFailure",
              "RentalRequestCancelled", "RentalAgreementCreated",
              "SubnetTopUp", "SubnetTopUpFailed"}

Op    == {"idle", "exec", "create", "refund", "topup", "lock", "admins"}
Reply == {"none", "ok", "err", "reject"}

\* An open call.  amount is the ICP amount (for create, once converted, the
\* cycles) that the handler keeps across its awaits; copy is the request or
\* agreement it read when it started; snap and day are the locking loop's list
\* of requests and its clock.
Call == [op : Op, at : Callee \cup {"none"}, reply : Reply, val : Nat,
         user : User \cup {None}, subnet : Subnet \cup {None},
         cond : Condition \cup {None}, amount : Nat,
         copy : Request \cup Agreement \cup {None},
         snap : [User -> Request \cup {None}] \cup {None}, day : Nat]

NoCall == [op |-> "idle", at |-> "none", reply |-> "none", val |-> 0,
           user |-> None, subnet |-> None, cond |-> None, amount |-> 0,
           copy |-> None, snap |-> None, day |-> 0]

\* Variant: a subtraction that goes below zero.
Minus(a, b) == a - b

\* Tokens subtract without going below zero.
Less(a, b) == IF a > b THEN a - b ELSE 0

\* One tenth of a cost, rounded down: what a locking converts.
Share(cost) == cost \div LOCK_PARTS

------------------------------------------------------------------------------
(* Guards and awaits *)

\* Variant: a handler that forgets to take the guard.
NoGuard(f) == {}

\* The CallerGuards, by tag.
RequestGuard(f)   == {<<f.user, "request">>}
RefundGuard(f)    == {<<Anonymous, "refund">>}
NnsGuard(f)       == {<<f.subnet, "nns">>}
AgreementGuard(f) == {<<f.subnet, "agreement">>}

\* The guards a handler holds while it is open.
Held(f) ==
    CASE f.op \in {"exec", "lock"}     -> RequestGuard(f)
      [] f.op = "create"               -> RequestGuard(f) \cup NnsGuard(f)
      [] f.op = "refund"               -> RefundGuard(f) \cup RequestGuard(f)
      [] f.op \in {"topup", "admins"}  -> AgreementGuard(f)
      [] OTHER                         -> {}

Go(t, f) == calls' = [calls EXCEPT ![t] = f]

\* f once it has sent a call to callee c.
Await(f, c) == [f EXCEPT !.at = c, !.reply = "none", !.val = 0]

\* A handler takes its guards and sends its first call.
Enter(t, f, c) ==
    /\ calls[t] = NoCall
    /\ Held(f) \cap locks = {}
    /\ locks' = locks \cup Held(f)
    /\ Go(t, Await(f, c))

\* Variant: an end that does not drop the guards.
ReturnKeepingGuards(t) ==
    /\ UNCHANGED locks
    /\ Go(t, NoCall)

\* A handler ends, with a result or by a trap: its guards are dropped.
Return(t) ==
    /\ locks' = locks \ Held(calls[t])
    /\ Go(t, NoCall)

\* The handler op of call t runs again: callee c has replied r.
Resumed(t, op, c, r) ==
    /\ calls[t].op = op
    /\ calls[t].at = c
    /\ calls[t].reply = r

Record(p, kind) == newest' = [newest EXCEPT ![p] = kind]

------------------------------------------------------------------------------
(* Transfers: convert_icp_to_cycles, refund_user *)

\* The amount a handler asks to convert or to send back, the fee included.
Asked(f) ==
    CASE f.op = "exec"   -> Share(f.amount)
      [] f.op = "create" -> Less(f.copy.cost, f.copy.locked)
      [] f.op = "refund" -> f.amount
      [] f.op = "topup"  -> Less(f.amount, DEFAULT_FEE)
      [] f.op = "lock"   -> Share(f.copy.cost)
      [] OTHER -> 0

\* The amount the receiver gets: what is asked for without the fee.
Sent(f) == Less(Asked(f), DEFAULT_FEE)

\* convert_icp_to_cycles: the transfer went through, notify the CMC.
NotifyTopUp(t) ==
    /\ calls[t].at = "transfer"
    /\ calls[t].reply = "ok"
    /\ calls[t].op \in {"exec", "create", "topup", "lock"}
    /\ Go(t, Await(calls[t], "notify"))
    /\ UNCHANGED <<locks, state, now, external>>

\* Variant: only the CMC's error is handled.
NotifyFailed(t, op) == Resumed(t, op, "notify", "err")

\* The conversion of call t failed in either of its steps.
ConversionFailed(t, op) ==
    \/ Resumed(t, op, "transfer", "err")
    \/ Resumed(t, op, "notify", "err")

------------------------------------------------------------------------------
(* execute_rental_request_proposal *)

\* NNS governance executes a proposal: one at a time, if it serialises them.
MayPropose == GovernanceSerializes => \A t \in Task : calls[t].op # "exec"

\* Variants: the user's agreements, or the other requests, are not looked at.
MayRequestThoughRenting(u, c) ==
    /\ requests[u] = None
    /\ \A v \in User : requests[v] # None => requests[v].cond # c

MayRequestAnyCondition(u, c) ==
    /\ requests[u] = None
    /\ \A s \in Subnet : agreements[s] # None => agreements[s].user # u

\* The user has no request and no agreement, and the condition no request.
MayRequest(u, c) ==
    /\ requests[u] = None
    /\ \A s \in Subnet : agreements[s] # None => agreements[s].user # u
    /\ \A v \in User : requests[v] # None => requests[v].cond # c

\* The checks pass and the handler asks the XRC for the rate at the proposal's
\* midnight, or finds it in the cache and asks the ledger for the balance.
ExecStart(t, u, c) ==
    LET f == [NoCall EXCEPT !.op = "exec", !.user = u, !.cond = c] IN
    /\ MayPropose
    /\ MayRequest(u, c)
    /\ \/ Enter(t, f, "rate")
       \/ \E price \in Prices : Enter(t, [f EXCEPT !.amount = price], "balance")
    /\ UNCHANGED <<state, now, external>>

\* A check fails: the handler records it and ends in the same message.
ExecRefused(u, c) ==
    /\ MayPropose
    /\ ~MayRequest(u, c)
    /\ <<u, "request">> \notin locks
    /\ Record(u, "RentalRequestFailed")
    /\ UNCHANGED <<locks, requests, agreements, calls, now, external>>

\* The rate gives the initial cost; the handler asks for the balance.
ExecPriced(t) ==
    /\ Resumed(t, "exec", "rate", "ok")
    /\ Go(t, Await([calls[t] EXCEPT !.amount = calls[t].val], "balance"))
    /\ UNCHANGED <<locks, state, now, external>>

\* Variant: the balance need only cover the first part.
CoveredShare(f) == Share(f.amount) <= f.val

Covered(f) == f.amount <= f.val

\* The balance covers the whole cost; a tenth of it is converted.
ExecFunded(t) ==
    /\ Resumed(t, "exec", "balance", "ok")
    /\ Covered(calls[t])
    /\ Go(t, Await(calls[t], "transfer"))
    /\ UNCHANGED <<locks, state, now, external>>

\* No rate (or none that gives a price), not enough ICP, or no conversion.
ExecFailed(t) ==
    /\ \/ Resumed(t, "exec", "rate", "err")
       \/ Resumed(t, "exec", "balance", "ok") /\ ~Covered(calls[t])
       \/ ConversionFailed(t, "exec")
    /\ Record(calls[t].user, "RentalRequestFailed")
    /\ Return(t)
    /\ UNCHANGED <<requests, agreements, now, external>>

\* A tenth is converted: the request is persisted, with its event.
ExecDone(t) ==
    LET f == calls[t] IN
    /\ Resumed(t, "exec", "notify", "ok")
    /\ requests' = [requests EXCEPT ![f.user] =
           [cost |-> f.amount, locked |-> Share(f.amount), cycles |-> f.val,
            cond |-> f.cond, created |-> now, last |-> now]]
    /\ Record(f.user, "RentalRequestCreated")
    /\ Return(t)
    /\ UNCHANGED <<agreements, now, external>>

------------------------------------------------------------------------------
(* execute_create_rental_agreement *)

\* The user's request is there and the subnet is free: convert what is left.
CreateStart(t, u, s) ==
    /\ requests[u] # None
    /\ agreements[s] = None
    /\ Enter(t, [NoCall EXCEPT !.op = "create", !.user = u, !.subnet = s,
                               !.copy = requests[u]], "transfer")
    /\ UNCHANGED <<state, now, external>>

\* The conversion fails: governance gets the error, nothing is recorded.
CreateFailed(t) ==
    /\ ConversionFailed(t, "create")
    /\ Return(t)
    /\ UNCHANGED <<state, now, external>>

\* Variant: the conversion leaves no event.
CreateConvertedSilently(t) ==
    /\ Resumed(t, "create", "notify", "ok")
    /\ Go(t, Await([calls[t] EXCEPT !.amount = calls[t].val], "whitelist"))
    /\ UNCHANGED <<locks, state, now, external>>

\* The rest is converted: the CMC is asked to authorize the user.
CreateConverted(t) ==
    /\ Resumed(t, "create", "notify", "ok")
    /\ Record(calls[t].user, "TransferSuccess")
    /\ Go(t, Await([calls[t] EXCEPT !.amount = calls[t].val], "whitelist"))
    /\ UNCHANGED <<locks, requests, agreements, now, external>>

\* The request goes and the agreement comes, built from the copy.
CreateDone(t) ==
    LET f == calls[t] IN
    /\ Resumed(t, "create", "whitelist", "ok")
    /\ requests' = [requests EXCEPT ![f.user] = None]
    /\ agreements' = [agreements EXCEPT ![f.subnet] =
           [user |-> f.user, cond |-> f.copy.cond, paid |-> f.copy.cost,
            cycles |-> f.amount + f.copy.cycles]]
    /\ Record(f.subnet, "RentalAgreementCreated")
    /\ Return(t)
    /\ UNCHANGED <<now, external>>

------------------------------------------------------------------------------
(* refund *)

RefundStart(t, u) ==
    /\ Enter(t, [NoCall EXCEPT !.op = "refund", !.user = u], "balance")
    /\ UNCHANGED <<state, now, external>>

\* The subaccount does not even hold the fee: an error, and nothing else.
RefundTooLow(t) ==
    /\ Resumed(t, "refund", "balance", "ok")
    /\ calls[t].val < DEFAULT_FEE
    /\ Return(t)
    /\ UNCHANGED <<state, now, external>>

\* The whole balance, less the fee, is sent back.
RefundSend(t) ==
    /\ Resumed(t, "refund", "balance", "ok")
    /\ calls[t].val >= DEFAULT_FEE
    /\ Go(t, Await([calls[t] EXCEPT !.amount = calls[t].val], "transfer"))
    /\ UNCHANGED <<locks, state, now, external>>

RefundFailed(t) ==
    /\ Resumed(t, "refund", "transfer", "err")
    /\ Return(t)
    /\ UNCHANGED <<state, now, external>>

\* The ICP is back with the user.  A request, if there is one now, is removed
\* and its locked cycles are burned.
RefundDone(t) ==
    LET u == calls[t].user
        r == requests[u]
    IN
    /\ Resumed(t, "refund", "transfer", "ok")
    /\ \/ /\ r = None
          /\ Record(u, "TransferSuccess")
          /\ UNCHANGED <<requests, cycles>>
       \/ /\ r # None
          /\ requests' = [requests EXCEPT ![u] = None]
          /\ cycles' = [cycles EXCEPT ![u] = Less(@, r.cycles)]
          /\ Record(u, "RentalRequestCancelled")
    /\ Return(t)
    /\ UNCHANGED <<agreements, now, sub, deposited, whitelist>>

------------------------------------------------------------------------------
(* top_up_subnet and update_subnet_admins *)

\* The tenant's subaccount is about to be converted; the agreement is copied.
TopUpStart(t, s) ==
    /\ agreements[s] # None
    /\ Enter(t, [NoCall EXCEPT !.op = "topup", !.subnet = s,
                               !.user = agreements[s].user,
                               !.copy = agreements[s]], "balance")
    /\ UNCHANGED <<state, now, external>>

TopUpSend(t) ==
    /\ Resumed(t, "topup", "balance", "ok")
    /\ calls[t].val >= DEFAULT_FEE
    /\ Go(t, Await([calls[t] EXCEPT !.amount = calls[t].val], "transfer"))
    /\ UNCHANGED <<locks, state, now, external>>

TopUpFailed(t) ==
    /\ \/ Resumed(t, "topup", "balance", "ok") /\ calls[t].val < DEFAULT_FEE
       \/ ConversionFailed(t, "topup")
    /\ Record(calls[t].subnet, "SubnetTopUpFailed")
    /\ Return(t)
    /\ UNCHANGED <<requests, agreements, now, external>>

\* Agreement a after top-up f: the new total is computed from the copy, the ICP
\* is added to the agreement as it is now, the whole balance and the fee included.
ToppedUp(a, f) == [a EXCEPT !.cycles = f.copy.cycles + f.val,
                            !.paid = @ + f.amount]

TopUpDone(t) ==
    LET f == calls[t] IN
    /\ Resumed(t, "topup", "notify", "ok")
    /\ agreements' = [agreements EXCEPT ![f.subnet] = ToppedUp(@, f)]
    /\ Record(f.subnet, "SubnetTopUp")
    /\ Return(t)
    /\ UNCHANGED <<requests, now, external>>

\* The caller rents the subnet: the change of its admins goes to the registry.
AdminsStart(t, s) ==
    /\ agreements[s] # None
    /\ Enter(t, [NoCall EXCEPT !.op = "admins", !.subnet = s,
                               !.user = agreements[s].user], "registry")
    /\ UNCHANGED <<state, now, external>>

\* The registry's answer, an error and a reject included, goes to the caller.
AdminsDone(t) ==
    /\ calls[t].op = "admins"
    /\ calls[t].reply # "none"
    /\ Return(t)
    /\ UNCHANGED <<state, now, external>>

------------------------------------------------------------------------------
(* locking *)

\* Variant: the time of the last locking is not looked at.
DueAnyTime(r, day) ==
    /\ r # None
    /\ r.locked < Share(r.cost) * LOCK_PARTS

\* What the loop does with a request of its list: skip it for a month after the
\* last locking, and when all the parts are locked.
Due(r, day) ==
    /\ r # None
    /\ day - r.last >= LOCK_PERIOD_DAYS
    /\ r.locked < Share(r.cost) * LOCK_PARTS

\* The users the loop f still converts for, with held the guards held: those
\* after the user it is at whose request, in the loop's list, is due.
Pending(f, held) ==
    {u \in User : /\ f.user # None => u > f.user
                  /\ Due(f.snap[u], f.day)
                  /\ <<u, "request">> \notin held}

\* The loop goes on to the next of them, or ends; held are the guards held
\* without the one it had for the user it is done with.
NextInLoop(t, f, held) ==
    \/ \E u \in Pending(f, held) :
          /\ \A v \in Pending(f, held) : u <= v
          /\ locks' = held \cup {<<u, "request">>}
          /\ Go(t, Await([f EXCEPT !.user = u, !.copy = f.snap[u]], "transfer"))
    \/ /\ Pending(f, held) = {}
       /\ locks' = held
       /\ Go(t, NoCall)

\* The timer fires: the loop lists the requests there are now.
LockStart(t) ==
    LET f == [NoCall EXCEPT !.op = "lock", !.snap = requests, !.day = now] IN
    /\ calls[t] = NoCall
    /\ Cardinality({d \in Task : calls[d].op = "lock"}) < MaxLockingRuns
    /\ Pending(f, locks) # {}
    /\ NextInLoop(t, f, locks)
    /\ UNCHANGED <<state, now, external>>

\* No conversion for this user: record it and go on with the list.
LockFailed(t) ==
    LET f == calls[t] IN
    /\ ConversionFailed(t, "lock")
    /\ Record(f.user, "LockingFailure")
    /\ NextInLoop(t, f, locks \ Held(f))
    /\ UNCHANGED <<requests, agreements, now, external>>

\* The request is replaced by the listed one with another part locked.
Locked(f) == [f.copy EXCEPT !.locked = @ + Share(f.copy.cost),
                            !.cycles = @ + f.val, !.last = f.day]

LockDone(t) ==
    LET f == calls[t] IN
    /\ Resumed(t, "lock", "notify", "ok")
    /\ requests[f.user] # None
    /\ requests' = [requests EXCEPT ![f.user] = Locked(f)]
    /\ Record(f.user, "LockingSuccess")
    /\ NextInLoop(t, f, locks \ Held(f))
    /\ UNCHANGED <<agreements, now, external>>

\* The request is gone: the unwrap of its update panics, which undoes the
\* events of this message and ends the loop.
LockPanicked(t) ==
    LET f == calls[t] IN
    /\ Resumed(t, "lock", "notify", "ok")
    /\ requests[f.user] = None
    /\ Return(t)
    /\ UNCHANGED <<state, now, external>>

------------------------------------------------------------------------------
(* A rejected call: every handler but update_subnet_admins traps on it *)

Trap(t) ==
    /\ calls[t].reply = "reject"
    /\ calls[t].op # "admins"
    /\ Return(t)
    /\ UNCHANGED <<state, now, external>>

------------------------------------------------------------------------------
(* The exchange rate canister, the ledger, the CMC, the registry: external *)

\* Callee c, asked by call t, replies r with value v.
Answers(t, c, r, v) ==
    /\ calls[t].at = c
    /\ calls[t].reply = "none"
    /\ Go(t, [calls[t] EXCEPT !.reply = r, !.val = v])
    /\ UNCHANGED <<locks, state, now>>

XrcAnswers(t) ==
    /\ \E price \in Prices : Answers(t, "rate", "ok", price)
    /\ UNCHANGED external

LedgerBalance(t) ==
    /\ Answers(t, "balance", "ok", sub[calls[t].user])
    /\ UNCHANGED external

\* What is sent and the fee are debited, if the subaccount holds both.
LedgerTransfers(t) ==
    LET f     == calls[t]
        debit == Sent(f) + DEFAULT_FEE
    IN
    /\ f.at = "transfer"
    /\ sub[f.user] >= debit
    /\ Answers(t, "transfer", "ok", 0)
    /\ sub' = [sub EXCEPT ![f.user] = @ - debit]
    /\ UNCHANGED <<deposited, cycles, whitelist>>

LedgerRefuses(t) ==
    /\ calls[t].at = "transfer"
    /\ sub[calls[t].user] < Sent(calls[t]) + DEFAULT_FEE
    /\ Answers(t, "transfer", "err", 0)
    /\ UNCHANGED external

CmcMints(t) ==
    LET f == calls[t] IN
    /\ Answers(t, "notify", "ok", Sent(f))
    /\ cycles' = [cycles EXCEPT ![f.user] = @ + Sent(f)]
    /\ UNCHANGED <<sub, deposited, whitelist>>

CmcAuthorizes(t) ==
    LET f == calls[t] IN
    /\ Answers(t, "whitelist", "ok", 0)
    /\ whitelist' = [whitelist EXCEPT ![f.user] = f.subnet]
    /\ UNCHANGED <<sub, deposited, cycles>>

RegistryAnswers(t) ==
    /\ Answers(t, "registry", "ok", 0)
    /\ UNCHANGED external

\* A faulty callee fails without effect: it rejects the call or, where its
\* interface has an error result, returns that.
CalleeFails(t) ==
    /\ \E c \in Faulty :
          \/ Answers(t, c, "reject", 0)
          \/ c \notin {"balance", "whitelist"} /\ Answers(t, c, "err", 0)
    /\ UNCHANGED external

\* A user transfers ICP to the payment account.
Pay(u) ==
    /\ \E d \in Deposits :
          /\ deposited[u] + d <= MaxDeposited[u]
          /\ deposited' = [deposited EXCEPT ![u] = @ + d]
          /\ sub' = [sub EXCEPT ![u] = @ + d]
    /\ UNCHANGED <<locks, state, calls, now, cycles, whitelist>>

NewDay ==
    /\ now < MaxDay
    /\ now' = now + 1
    /\ UNCHANGED <<locks, state, calls, external>>

------------------------------------------------------------------------------
(* The specification *)

\* init and post_upgrade leave no request, no agreement and no guard.
Init ==
    /\ locks = {}
    /\ requests = [u \in User |-> None]
    /\ agreements = [s \in Subnet |-> None]
    /\ newest = [p \in User \cup Subnet |-> "none"]
    /\ calls = [t \in Task |-> NoCall]
    /\ now = 0
    /\ sub = [u \in User |-> 0]
    /\ deposited = [u \in User |-> 0]
    /\ cycles = [u \in User |-> 0]
    /\ whitelist = [u \in User |-> None]

\* A call arrives, or the locking timer fires.
Arrive(t) ==
    \/ \E u \in User :
          \/ \E c \in Condition : ExecStart(t, u, c)
          \/ \E s \in Subnet : CreateStart(t, u, s)
          \/ RefundStart(t, u)
    \/ \E s \in Subnet : TopUpStart(t, s) \/ AdminsStart(t, s)
    \/ LockStart(t)

\* The handler of call t goes on after an await.
Resume(t) ==
    \/ NotifyTopUp(t)
    \/ ExecPriced(t) \/ ExecFunded(t) \/ ExecFailed(t) \/ ExecDone(t)
    \/ CreateFailed(t) \/ CreateConverted(t) \/ CreateDone(t)
    \/ RefundTooLow(t) \/ RefundSend(t) \/ RefundFailed(t) \/ RefundDone(t)
    \/ TopUpSend(t) \/ TopUpFailed(t) \/ TopUpDone(t)
    \/ AdminsDone(t)
    \/ LockFailed(t) \/ LockDone(t) \/ LockPanicked(t)
    \/ Trap(t)

\* The canister called by call t acts and replies.
Answer(t) ==
    \/ XrcAnswers(t)
    \/ LedgerBalance(t) \/ LedgerTransfers(t) \/ LedgerRefuses(t)
    \/ CmcMints(t) \/ CmcAuthorizes(t)
    \/ RegistryAnswers(t)
    \/ CalleeFails(t)

Next ==
    \/ \E t \in Task : Arrive(t) \/ Resume(t) \/ Answer(t)
    \/ \E u \in User, c \in Condition : ExecRefused(u, c)
    \/ \E u \in User : Pay(u)
    \/ NewDay

Spec == Init /\ [][Next]_vars

\* Every call made with unbounded_wait gets a reply or a reject, and the
\* replica schedules every message it has received.
FairSpec == Spec /\ \A t \in Task : WF_vars(Resume(t)) /\ WF_vars(Answer(t))
==============================================================================
