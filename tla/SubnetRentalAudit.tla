--------------------------- MODULE SubnetRentalAudit ---------------------------
(***************************************************************************)
(* An audit of the subnet rental canister: where the ICP and the cycles of *)
(* its users are.                                                          *)
(*                                                                         *)
(* The history variables note three things that the canister does and does *)
(* not record, each at the step in which it happens, and count conversions.*)
(* They constrain nothing: the audited canister makes the steps of Next.   *)
(* Whatever the properties say of all users but those noted, they say that *)
(* nothing else goes astray.                                               *)
(***************************************************************************)
EXTENDS SubnetRentalProperties, Functions

VARIABLES
    outdated,   \* users for whom a locking has gone on with an entry of its list
                \* that was no longer their request
    orphaned,   \* users whose creation was rejected by the CMC's list after its
                \* conversion: no record tells of those cycles
    short,      \* users with a request from which a conversion took ICP that was
                \* not recorded: its notification or its creation failed
    converted   \* the parts that proposal and lockings have really converted for
                \* each user's request

audit     == <<outdated, orphaned, short, converted>>
auditVars == <<vars, audit>>

------------------------------------------------------------------------------
(* What is noted *)

\* A locking loop takes up user u: its guard is taken, its list is not read again.
TakesUp(t, u) ==
    /\ calls'[t].op = "lock" /\ calls'[t].user = u
    /\ ~(calls[t].op = "lock" /\ calls[t].user = u)

TakesUpOutdated(u) == \E t \in Task : TakesUp(t, u) /\ calls'[t].copy # requests'[u]

\* The CMC does not authorize the user of a creation.
Unauthorized(t) == calls[t].at = "whitelist" /\ calls[t].reply = "reject"

\* The CMC does not mint what a locking or a creation has sent.
Unminted(t) ==
    /\ calls[t].op \in {"lock", "create"}
    /\ calls[t].at = "notify"
    /\ calls[t].reply \in {"err", "reject"}

UsersOf(S) == {calls[t].user : t \in S}

\* The CMC mints for a locking of u.
LockingMinted(u) ==
    \E t \in Task : /\ Resumed(t, "lock", "notify", "none")
                    /\ calls[t].user = u
                    /\ calls'[t].reply = "ok"

Noted ==
    /\ outdated' = outdated \cup {u \in User : TakesUpOutdated(u)}
    /\ orphaned' = orphaned \cup UsersOf({t \in Task : Unauthorized(t)})'
    /\ short' = {u \in short \cup UsersOf({t \in Task : Unauthorized(t) \/ Unminted(t)})' :
                    requests'[u] # None}
    /\ converted' =
          [u \in User |->
              IF requests'[u] = None THEN 0
              ELSE IF requests[u] = None \/ LockingMinted(u) THEN converted[u] + 1
              ELSE converted[u]]

AuditInit ==
    /\ Init
    /\ outdated = {} /\ orphaned = {} /\ short = {}
    /\ converted = [u \in User |-> 0]

AuditNext == Next /\ Noted

AuditSpec == AuditInit /\ [][AuditNext]_auditVars

------------------------------------------------------------------------------
(* Locking *)

\* The locking loop works on the request there is from the moment it takes its
\* user up with a current entry until it is done: whatever other handlers and
\* other loops do meanwhile, the guard keeps the copy current.
LocksCurrent ==
    \A t \in Task : (calls[t].op = "lock" /\ calls[t].user \notin outdated)
                        => requests[calls[t].user] = calls[t].copy

\* A request has one part converted at the start and at most one more each
\* period, and never more than all of them: the parts that the CMC minted, not
\* those in the record, for loops that overlap and retry.  lib.rs:104 says so of
\* every user; a user whom a loop takes up with an outdated entry may have a
\* second part converted in a period, and one of the two recorded.
LockingPaced ==
    \A u \in User \ outdated :
        LET r == requests[u] IN
        r # None => /\ converted[u] <= LOCK_PARTS
                    /\ converted[u] <= 1 + (now - r.created) \div LOCK_PERIOD_DAYS

------------------------------------------------------------------------------
(* Cycles *)

\* Cycles minted for call t that are not in a request or an agreement yet.
Unrecorded(t) ==
    LET f == calls[t] IN
    CASE f.at = "notify" /\ f.reply = "ok" -> f.val
      [] f.op = "create" /\ f.at = "whitelist" -> f.amount
      [] OTHER -> 0

\* The cycles that user u's request, agreements and open calls speak of.
InRequest(u) == IF requests[u] = None THEN 0 ELSE requests[u].cycles

InAgreements(u) ==
    [s \in Subnet |-> IF agreements[s] # None /\ agreements[s].user = u
                      THEN agreements[s].cycles ELSE 0]

InCalls(u) ==
    [t \in Task |-> IF calls[t].user = u THEN Unrecorded(t) ELSE 0]

Accounted(u) ==
    InRequest(u) + SumFunction(InAgreements(u)) + SumFunction(InCalls(u))

\* Every cycle the SRC minted from a user's ICP and has not burned is in that
\* user's request or agreement, or about to be: no conversion is forgotten,
\* counted twice or overwritten by a handler working on an older copy, and a
\* failed one books nothing.
EveryCycleAccounted ==
    \A u \in User \ (outdated \cup orphaned) : cycles[u] = Accounted(u)

------------------------------------------------------------------------------
(* ICP *)

\* The amount call t has taken from the subaccount towards the request.
Debited(t) ==
    LET f == calls[t] IN
    IF /\ f.op \in {"lock", "create"}
       /\ \/ f.at = "transfer" /\ f.reply = "ok"
          \/ f.at \in {"notify", "whitelist"}
    THEN Asked(f)
    ELSE 0

\* The same, for the calls of user u.
DebitsOf(u) == [t \in Task |-> IF calls[t].user = u THEN Debited(t) ELSE 0]

\* A refund has been paid out to u, and is about to end u's request.
PaidBack(u) ==
    \E t \in Task : calls[t].user = u /\ Resumed(t, "refund", "transfer", "ok")

\* While a request stands, the subaccount holds all that is not locked yet, but
\* for what a locking or a creation is converting right now.
RequestCovered ==
    \A u \in User \ (outdated \cup short) :
        (requests[u] # None /\ ~PaidBack(u))
        => sub[u] + SumFunction(DebitsOf(u)) >= requests[u].cost - requests[u].locked

\* A proposal, a locking and a creation have seen enough ICP, days or months ago,
\* and find it when the ledger gets their transfer: whatever deposits, top-ups
\* and refunds came in between, no conversion that pays the fee can lack it.
ConversionsFunded ==
    \A t \in Task :
        LET f == calls[t] IN
        (/\ f.op \in {"exec", "lock", "create"}
         /\ f.user \notin outdated \cup short
         /\ f.at = "transfer" /\ f.reply = "none"
         /\ Asked(f) >= DEFAULT_FEE)
        => sub[f.user] >= Asked(f)

==============================================================================
