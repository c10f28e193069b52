-------------------------- MODULE SubnetRentalProofs --------------------------
(***************************************************************************)
(* Proofs about SubnetRental, for any number of users, subnets, conditions,*)
(* open calls and overlapping locking runs, and with any callee failing.   *)
(*                                                                         *)
(* The inductive invariant IInv joins the types of the variables, the      *)
(* ownership of the guards and the two facts the guards protect.  Each part*)
(* needs the others: a check survives an await of its handler because the  *)
(* guard has one owner, an agreement is updated with the right type because*)
(* the check survives, and a user's request and agreement exclude each     *)
(* other because both are written under checks that survive.               *)
(***************************************************************************)
EXTENDS SubnetRentalProperties, TLAPS

IInv ==
    /\ TypeOK
    /\ LocksOwned
    /\ ChecksStillHold
    /\ UserExclusive

------------------------------------------------------------------------------
(* Data *)

\* The tenth of a cost is an amount.
LEMMA ShareNat == \A c \in Nat : Share(c) \in Nat
BY LockAssumption DEF Share

\* So is what a saturating subtraction leaves.
LEMMA LessNat == \A a, b \in Nat : Less(a, b) \in Nat
BY DEF Less

\* No call: its type, and it holds no guard.
LEMMA NoCallFacts == NoCall \in Call /\ CallOK(NoCall) /\ Held(NoCall) = {}
BY DEF NoCall, Call, CallOK, Held, Op, Reply, Callee

\* What a handler converts or sends back is an amount.
LEMMA AskedNat ==
    ASSUME NEW f \in Call, CallOK(f)
    PROVE  Asked(f) \in Nat /\ Sent(f) \in Nat
<1>1. Asked(f) \in Nat
  BY ShareNat, LessNat, AmountAssumption
     DEF Asked, Call, CallOK, Request
<1>2. QED
  BY <1>1, LessNat, AmountAssumption DEF Sent

------------------------------------------------------------------------------
(* Guards *)

\* The guards of each handler.
LEMMA HeldFacts ==
    ASSUME NEW f
    PROVE  /\ f.op \in {"exec", "lock"} => Held(f) = {<<f.user, "request">>}
           /\ f.op = "create" =>
                 Held(f) = {<<f.user, "request">>, <<f.subnet, "nns">>}
           /\ f.op = "refund" =>
                 Held(f) = {<<Anonymous, "refund">>, <<f.user, "request">>}
           /\ f.op \in {"topup", "admins"} =>
                 Held(f) = {<<f.subnet, "agreement">>}
           /\ f.op = "idle" => Held(f) = {}
BY DEF Held, RequestGuard, RefundGuard, NnsGuard, AgreementGuard

\* A call that goes on: what identifies it stays, the rest may change.
Continues(g, f) ==
    /\ g.op = f.op
    /\ g.user = f.user
    /\ g.subnet = f.subnet
    /\ g.copy = f.copy

\* It keeps its guards, and its checks if nothing is written.
LEMMA HeldContinues ==
    ASSUME NEW f, NEW g, Continues(g, f)
    PROVE  Held(g) = Held(f)
BY DEF Continues, Held, RequestGuard, RefundGuard, NnsGuard, AgreementGuard

\* The guards of a well-formed call are pairs of a principal and a tag.
Guards == (User \cup Subnet \cup {Anonymous})
          \X {"request", "refund", "nns", "agreement"}

LEMMA HeldTyped ==
    ASSUME NEW f \in Call, CallOK(f)
    PROVE  Held(f) \subseteq Guards
<1>1. f.op \in Op
  BY DEF Call
<1>2. f.op # "idle" => f.user \in User
  BY DEF CallOK
<1>3. f.op \in {"create", "topup", "admins"} => f.subnet \in Subnet
  BY DEF CallOK
<1>4. QED
  BY <1>1, <1>2, <1>3, HeldFacts DEF Op, Guards

\* Any step that replaces one open call g by another and its guards with it,
\* taking only guards that nobody else holds, leaves every guard with its owner.
LEMMA LocksStep ==
    ASSUME calls \in [Task -> Call], LocksOwned, NEW t \in Task, NEW g,
           calls' = [calls EXCEPT ![t] = g],
           locks' = (locks \ Held(calls[t])) \cup Held(g),
           Held(g) \cap (locks \ Held(calls[t])) = {}
    PROVE  LocksOwned'
<1>1. calls'[t] = g /\ \A d \in Task : d # t => calls'[d] = calls[d]
  OBVIOUS
<1>2. \A d \in Task : d # t => Held(calls'[d]) = Held(calls[d])
  BY <1>1
<1>3. \A d \in Task : Held(calls[d]) \subseteq locks
  BY DEF LocksOwned
<1>4. \A d \in Task : d # t => Held(calls[d]) \subseteq locks \ Held(calls[t])
  BY <1>3 DEF LocksOwned
<1>5. \A d \in Task : d # t => Held(calls[d]) \cap Held(g) = {}
  BY <1>4
<1>6. locks' = UNION {Held(calls'[d]) : d \in Task}
  <2>1. ASSUME NEW x \in locks' PROVE \E d \in Task : x \in Held(calls'[d])
    <3>1. CASE x \in Held(g)
      BY <3>1, <1>1
    <3>2. CASE x \in locks \ Held(calls[t])
      <4>1. PICK d \in Task : x \in Held(calls[d])
        BY <3>2 DEF LocksOwned
      <4>2. d # t
        BY <4>1, <3>2
      <4>3. QED
        BY <4>1, <4>2, <1>2
    <3>3. QED
      BY <3>1, <3>2, <2>1
  <2>2. ASSUME NEW d \in Task, NEW x \in Held(calls'[d]) PROVE x \in locks'
    <3>1. CASE d = t
      BY <3>1, <1>1
    <3>2. CASE d # t
      BY <3>2, <1>2, <1>4
    <3>3. QED
      BY <3>1, <3>2
  <2>3. QED
    BY <2>1, <2>2
<1>7. ASSUME NEW d \in Task, NEW e \in Task, d # e
      PROVE  Held(calls'[d]) \cap Held(calls'[e]) = {}
  <2>1. CASE d = t
    BY <2>1, <1>7, <1>1, <1>2, <1>5
  <2>2. CASE e = t
    BY <2>2, <1>7, <1>1, <1>2, <1>5
  <2>3. CASE d # t /\ e # t
    BY <2>3, <1>7, <1>2 DEF LocksOwned
  <2>4. QED
    BY <2>1, <2>2, <2>3
<1>8. QED
  BY <1>6, <1>7 DEF LocksOwned

------------------------------------------------------------------------------
(* Checks *)

\* A step of call t that writes a request holds the guard of its user.
RequestsGuarded(t) ==
    \A v \in User :
        requests'[v] # requests[v] => <<v, "request">> \in Held(calls[t])

\* One that writes an agreement either makes it, under the subnet's nns guard
\* and the request guard of the tenant, or keeps the tenant of an existing one,
\* under its guard.
AgreementsGuarded(t) ==
    \A s \in Subnet : agreements'[s] # agreements[s] =>
        \/ /\ agreements[s] = None
           /\ <<s, "nns">> \in Held(calls[t])
           /\ <<agreements'[s].user, "request">> \in Held(calls[t])
        \/ /\ agreements[s] # None
           /\ agreements'[s] # None
           /\ agreements'[s].user = agreements[s].user
           /\ <<s, "agreement">> \in Held(calls[t])

\* Then the checks of every other open call survive the step.
LEMMA ChecksStep ==
    ASSUME calls \in [Task -> Call], \A d \in Task : CallOK(calls[d]),
           LocksOwned, ChecksStillHold, NEW t \in Task,
           \A d \in Task : d # t => calls'[d] = calls[d],
           RequestsGuarded(t), AgreementsGuarded(t), CheckHolds(calls[t])'
    PROVE  ChecksStillHold'
<1> SUFFICES ASSUME NEW d \in Task, d # t
             PROVE  CheckHolds(calls[d])'
  BY DEF ChecksStillHold
<1> DEFINE f == calls[d]
<1>1. calls'[d] = f
  OBVIOUS
<1>2. Held(f) \cap Held(calls[t]) = {}
  BY DEF LocksOwned
<1>3. CheckHolds(f) /\ CallOK(f)
  BY DEF ChecksStillHold
<1>4. CASE f.op = "exec"
  <2>1. f.user \in User /\ <<f.user, "request">> \in Held(f)
    BY <1>3, <1>4, HeldFacts DEF CallOK
  <2>2. requests'[f.user] = None
    BY <2>1, <1>2, <1>3, <1>4 DEF RequestsGuarded, CheckHolds
  <2>3. ~Renting(f.user)'
    BY <2>1, <1>1, <1>2, <1>3, <1>4 DEF AgreementsGuarded, CheckHolds, Renting
  <2>4. QED
    BY <2>2, <2>3, <1>1, <1>4 DEF CheckHolds
<1>5. CASE f.op = "create"
  <2>1. /\ f.user \in User /\ <<f.user, "request">> \in Held(f)
        /\ f.subnet \in Subnet /\ <<f.subnet, "nns">> \in Held(f)
    BY <1>3, <1>5, HeldFacts DEF CallOK
  <2>2. requests'[f.user] = f.copy
    BY <2>1, <1>2, <1>3, <1>5 DEF RequestsGuarded, CheckHolds
  <2>3. agreements'[f.subnet] = None
    BY <2>1, <1>2, <1>3, <1>5 DEF AgreementsGuarded, CheckHolds
  <2>4. QED
    BY <2>2, <2>3, <1>1, <1>5 DEF CheckHolds
<1>6. CASE f.op \in {"topup", "admins"}
  <2>1. f.subnet \in Subnet /\ <<f.subnet, "agreement">> \in Held(f)
    BY <1>3, <1>6, HeldFacts DEF CallOK
  <2>2. agreements[f.subnet] # None
    BY <1>3, <1>6 DEF CheckHolds
  <2>3. agreements'[f.subnet] = agreements[f.subnet]
    BY <2>1, <2>2, <1>2 DEF AgreementsGuarded
  <2>4. QED
    BY <2>3, <1>1, <1>3, <1>6 DEF CheckHolds
<1>7. CASE f.op \notin {"exec", "create", "topup", "admins"}
  BY <1>1, <1>7 DEF CheckHolds
<1>8. QED
  BY <1>4, <1>5, <1>6, <1>7

\* A call that goes on, in a step that writes no request and no agreement, and a
\* call that ends, keep their checks.
LEMMA CheckContinues ==
    ASSUME NEW f, NEW g, Continues(g, f), CheckHolds(f)
    PROVE  CheckHolds(g)
BY DEF Continues, CheckHolds

LEMMA CheckNoCall == CheckHolds(NoCall)
BY DEF CheckHolds, NoCall

------------------------------------------------------------------------------
(* Steps that write neither a request nor an agreement *)

\* The variables that no guard protects have their types.
RestOK ==
    /\ newest \in [User \cup Subnet -> EventKind]
    /\ now \in Nat
    /\ sub \in [User -> Nat]
    /\ deposited \in [User -> Nat]
    /\ cycles \in [User -> Nat]
    /\ whitelist \in [User -> Subnet \cup {None}]

LEMMA TypeParts ==
    TypeOK <=> /\ locks \subseteq Guards
               /\ requests \in [User -> Request \cup {None}]
               /\ agreements \in [Subnet -> Agreement \cup {None}]
               /\ calls \in [Task -> Call]
               /\ \A t \in Task : CallOK(calls[t])
               /\ RestOK
BY DEF TypeOK, RestOK, Guards

\* Call t becomes g, and its guards become g's, taken from the free ones.
Becomes(t, g) ==
    /\ calls' = [calls EXCEPT ![t] = g]
    /\ locks' = (locks \ Held(calls[t])) \cup Held(g)
    /\ Held(g) \cap (locks \ Held(calls[t])) = {}

LEMMA BecomesTyped ==
    ASSUME TypeOK, LocksOwned, NEW t \in Task, NEW g \in Call, CallOK(g),
           Becomes(t, g)
    PROVE  /\ locks' \subseteq Guards
           /\ calls' \in [Task -> Call]
           /\ \A d \in Task : CallOK(calls'[d])
           /\ calls'[t] = g
           /\ \A d \in Task : d # t => calls'[d] = calls[d]
           /\ LocksOwned'
<1>1. locks \subseteq Guards /\ calls \in [Task -> Call]
      /\ \A d \in Task : CallOK(calls[d])
  BY TypeParts
<1>2. Held(g) \subseteq Guards
  BY HeldTyped
<1>3. LocksOwned'
  BY <1>1, LocksStep DEF Becomes
<1>4. QED
  BY <1>1, <1>2, <1>3 DEF Becomes

LEMMA QuietStep ==
    ASSUME IInv, NEW t \in Task, NEW g \in Call, CallOK(g), CheckHolds(g),
           Becomes(t, g), UNCHANGED <<requests, agreements>>, RestOK'
    PROVE  IInv'
<1>1. TypeOK /\ LocksOwned /\ ChecksStillHold /\ UserExclusive
  BY DEF IInv
<1>2. TypeOK'
  BY <1>1, BecomesTyped DEF TypeOK, RestOK, Guards
<1>3. LocksOwned'
  BY <1>1, BecomesTyped
<1>4. ChecksStillHold'
  <2>1. \A d \in Task : calls'[d] = g \/ calls'[d] = calls[d]
    BY <1>1, BecomesTyped
  <2>2. QED
    BY <2>1, <1>1 DEF ChecksStillHold, CheckHolds, Renting
<1>5. UserExclusive'
  BY <1>1 DEF UserExclusive, Renting
<1>6. QED
  BY <1>2, <1>3, <1>4, <1>5 DEF IInv

\* A handler that starts or goes on has the local variables it needs.
LocalsOK(f) ==
    /\ f.op # "idle"
    /\ f.user \in User
    /\ f.op = "exec" => f.cond \in Condition
    /\ f.op \in {"create", "topup", "admins"} => f.subnet \in Subnet
    /\ f.op \in {"create", "lock"} => f.copy \in Request
    /\ f.op = "topup" => f.copy \in Agreement
    /\ f.op = "lock" => f.snap \in [User -> Request \cup {None}]

LEMMA AwaitTyped ==
    ASSUME NEW f \in Call, LocalsOK(f), NEW c \in Callee,
           c = "whitelist" => f.op = "create"
    PROVE  /\ Await(f, c) \in Call
           /\ CallOK(Await(f, c))
           /\ Continues(Await(f, c), f)
<1>1. Await(f, c) \in Call
  BY DEF Await, Call, Reply
<1>2. /\ Await(f, c).op = f.op /\ Await(f, c).user = f.user
      /\ Await(f, c).subnet = f.subnet /\ Await(f, c).copy = f.copy
      /\ Await(f, c).cond = f.cond /\ Await(f, c).snap = f.snap
      /\ Await(f, c).at = c
  BY DEF Await, Call
<1>3. Await(f, c) # NoCall
  BY <1>2 DEF LocalsOK, NoCall
<1>4. CallOK(Await(f, c))
  BY <1>2, <1>3 DEF LocalsOK, CallOK, Callee
<1>5. QED
  BY <1>1, <1>2, <1>4 DEF Continues

\* A call in progress has them, with whatever amount it keeps.
LEMMA LocalsKept ==
    ASSUME NEW f \in Call, CallOK(f), f.op # "idle", NEW n \in Nat
    PROVE  /\ LocalsOK(f)
           /\ [f EXCEPT !.amount = n] \in Call
           /\ LocalsOK([f EXCEPT !.amount = n])
           /\ Continues([f EXCEPT !.amount = n], f)
<1>1. LocalsOK(f)
  BY DEF LocalsOK, CallOK
<1>2. QED
  BY <1>1 DEF LocalsOK, Continues, Call

\* A call receives a reply or goes on to its next await.
LEMMA ContinueStep ==
    ASSUME IInv, NEW t \in Task, NEW g \in Call, CallOK(g),
           Continues(g, calls[t]), Go(t, g), UNCHANGED locks,
           UNCHANGED <<requests, agreements>>, RestOK'
    PROVE  IInv'
<1>1. Held(g) = Held(calls[t])
  BY HeldContinues
<1>2. Held(calls[t]) \subseteq locks
  BY DEF IInv, LocksOwned
<1>3. Becomes(t, g)
  BY <1>1, <1>2 DEF Becomes, Go
<1>4. CheckHolds(g)
  BY CheckContinues DEF IInv, ChecksStillHold
<1>5. QED
  BY <1>3, <1>4, QuietStep

LEMMA AwaitStep ==
    ASSUME IInv, NEW t \in Task, calls[t].op # "idle", NEW n \in Nat,
           NEW c \in Callee, c = "whitelist" => calls[t].op = "create",
           \/ Go(t, Await(calls[t], c))
           \/ Go(t, Await([calls[t] EXCEPT !.amount = n], c)),
           UNCHANGED locks, UNCHANGED <<requests, agreements>>, RestOK'
    PROVE  IInv'
<1> DEFINE f == calls[t]
<1> DEFINE e == [f EXCEPT !.amount = n]
<1>1. f \in Call /\ CallOK(f)
  BY DEF IInv, TypeOK
<1>2. LocalsOK(f) /\ e \in Call /\ LocalsOK(e) /\ Continues(e, f)
  BY <1>1, LocalsKept
<1>3. CASE Go(t, Await(f, c))
  BY <1>1, <1>2, <1>3, AwaitTyped, ContinueStep
<1>4. CASE Go(t, Await(e, c))
  <2>1. e.op = f.op
    BY <1>2 DEF Continues
  <2>2. Await(e, c) \in Call /\ CallOK(Await(e, c)) /\ Continues(Await(e, c), e)
    BY <1>2, <2>1, AwaitTyped
  <2>3. Continues(Await(e, c), f)
    BY <2>2, <1>2 DEF Continues
  <2>4. QED
    BY <1>4, <2>2, <2>3, ContinueStep
<1>5. QED
  BY <1>3, <1>4

\* A call ends without having written anything in this message.
LEMMA ReturnBecomes ==
    ASSUME NEW t \in Task, Return(t)
    PROVE  Becomes(t, NoCall)
BY NoCallFacts DEF Return, Becomes, Go

LEMMA ReturnStep ==
    ASSUME IInv, NEW t \in Task, Return(t),
           UNCHANGED <<requests, agreements>>, RestOK'
    PROVE  IInv'
BY ReturnBecomes, NoCallFacts, CheckNoCall, QuietStep

\* A handler starts and sends its first call.
LEMMA EnterStep ==
    ASSUME IInv, NEW t \in Task, NEW f \in Call, LocalsOK(f), CheckHolds(f),
           NEW c \in Callee \ {"whitelist"}, Enter(t, f, c),
           UNCHANGED <<requests, agreements>>, RestOK'
    PROVE  IInv'
<1>1. /\ Await(f, c) \in Call /\ CallOK(Await(f, c))
      /\ Continues(Await(f, c), f)
  BY AwaitTyped
<1>2. Held(Await(f, c)) = Held(f)
  BY <1>1, HeldContinues
<1>3. Held(calls[t]) = {}
  BY NoCallFacts DEF Enter
<1>4. Becomes(t, Await(f, c))
  BY <1>2, <1>3 DEF Enter, Becomes, Go
<1>5. CheckHolds(Await(f, c))
  BY <1>1, CheckContinues
<1>6. QED
  BY <1>1, <1>4, <1>5, QuietStep

\* What happens outside the maps of requests and agreements.
LEMMA RestUnchanged ==
    ASSUME IInv, UNCHANGED <<newest, now, external>>
    PROVE  RestOK'
BY DEF IInv, TypeOK, RestOK, external

LEMMA RestRecorded ==
    ASSUME IInv, NEW p \in User \cup Subnet, NEW kind \in EventKind,
           Record(p, kind), UNCHANGED <<now, external>>
    PROVE  RestOK'
BY DEF IInv, TypeOK, RestOK, external, Record

LEMMA CallTyped ==
    ASSUME IInv, NEW t \in Task
    PROVE  /\ calls[t] \in Call
           /\ CallOK(calls[t])
           /\ CheckHolds(calls[t])
           /\ calls[t].val \in Nat
           /\ calls[t].amount \in Nat
BY DEF IInv, TypeOK, ChecksStillHold, Call

\* An open call runs for a user.
LEMMA OpenCall ==
    ASSUME IInv, NEW t \in Task, calls[t].op # "idle" \/ calls[t].at # "none"
    PROVE  calls[t].op # "idle" /\ calls[t].user \in User
BY CallTyped DEF CallOK, NoCall

------------------------------------------------------------------------------
(* The steps of the handlers that write no request and no agreement *)

LEMMA NotifyTopUpStep ==
    ASSUME IInv, NEW t \in Task, NotifyTopUp(t)
    PROVE  IInv'
<1>1. RestOK'
  BY RestUnchanged DEF NotifyTopUp, state
<1>2. QED
  BY <1>1, AwaitStep DEF NotifyTopUp, state, Callee

LEMMA ExecStartStep ==
    ASSUME IInv, NEW t \in Task, NEW u \in User, NEW c \in Condition,
           ExecStart(t, u, c)
    PROVE  IInv'
<1> DEFINE f == [NoCall EXCEPT !.op = "exec", !.user = u, !.cond = c]
<1>1. RestOK' /\ UNCHANGED <<requests, agreements>>
  BY RestUnchanged DEF ExecStart, state
<1>2. f \in Call /\ LocalsOK(f)
  BY NoCallFacts DEF NoCall, Call, Op, LocalsOK
<1>3. CheckHolds(f)
  BY DEF ExecStart, MayRequest, CheckHolds, Renting, NoCall
<1>4. CASE Enter(t, f, "rate")
  BY <1>1, <1>2, <1>3, <1>4, EnterStep DEF Callee
<1>5. ASSUME NEW price \in Prices,
             Enter(t, [f EXCEPT !.amount = price], "balance")
      PROVE  IInv'
  <2> DEFINE e == [f EXCEPT !.amount = price]
  <2>1. price \in Nat
    BY AmountAssumption
  <2>2. /\ e.op = f.op /\ e.user = f.user /\ e.subnet = f.subnet
        /\ e.copy = f.copy /\ e.cond = f.cond /\ e.snap = f.snap
    BY DEF NoCall
  <2>3. e \in Call
    BY <2>1, <1>2 DEF Call
  <2>4. LocalsOK(e) /\ CheckHolds(e)
    BY <2>2, <1>2, <1>3 DEF LocalsOK, CheckHolds
  <2>5. QED
    BY <1>1, <1>5, <2>3, <2>4, EnterStep DEF Callee
<1>6. QED
  BY <1>4, <1>5 DEF ExecStart

LEMMA ExecRefusedStep ==
    ASSUME IInv, NEW u \in User, NEW c \in Condition, ExecRefused(u, c)
    PROVE  IInv'
<1>1. RestOK'
  BY RestRecorded DEF ExecRefused, EventKind
<1>2. UNCHANGED <<locks, requests, agreements, calls>>
  BY DEF ExecRefused
<1>3. QED
  BY <1>1, <1>2 DEF IInv, TypeOK, RestOK, LocksOwned, ChecksStillHold,
                    CheckHolds, UserExclusive, Renting

LEMMA ExecPricedStep ==
    ASSUME IInv, NEW t \in Task, ExecPriced(t)
    PROVE  IInv'
<1>1. RestOK'
  BY RestUnchanged DEF ExecPriced, state
<1>2. QED
  BY <1>1, CallTyped, AwaitStep DEF ExecPriced, Resumed, state, Callee

LEMMA ExecFundedStep ==
    ASSUME IInv, NEW t \in Task, ExecFunded(t)
    PROVE  IInv'
<1>1. RestOK'
  BY RestUnchanged DEF ExecFunded, state
<1>2. QED
  BY <1>1, AwaitStep DEF ExecFunded, Resumed, state, Callee

LEMMA ExecFailedStep ==
    ASSUME IInv, NEW t \in Task, ExecFailed(t)
    PROVE  IInv'
<1>1. calls[t].user \in User
  BY OpenCall DEF ExecFailed, ConversionFailed, Resumed
<1>2. RestOK'
  BY <1>1, RestRecorded DEF ExecFailed, EventKind
<1>3. QED
  BY <1>2, ReturnStep DEF ExecFailed

LEMMA CreateStartStep ==
    ASSUME IInv, NEW t \in Task, NEW u \in User, NEW s \in Subnet,
           CreateStart(t, u, s)
    PROVE  IInv'
<1> DEFINE f == [NoCall EXCEPT !.op = "create", !.user = u, !.subnet = s,
                               !.copy = requests[u]]
<1>1. RestOK' /\ UNCHANGED <<requests, agreements>>
  BY RestUnchanged DEF CreateStart, state
<1>2. requests[u] \in Request
  BY DEF CreateStart, IInv, TypeOK
<1>3. f \in Call /\ LocalsOK(f)
  BY <1>2, NoCallFacts DEF NoCall, Call, Op, LocalsOK
<1>4. CheckHolds(f)
  BY DEF CreateStart, CheckHolds, NoCall
<1>5. QED
  BY <1>1, <1>3, <1>4, EnterStep DEF CreateStart, Callee

LEMMA CreateFailedStep ==
    ASSUME IInv, NEW t \in Task, CreateFailed(t)
    PROVE  IInv'
<1>1. RestOK'
  BY RestUnchanged DEF CreateFailed, state
<1>2. QED
  BY <1>1, ReturnStep DEF CreateFailed, state

LEMMA CreateConvertedStep ==
    ASSUME IInv, NEW t \in Task, CreateConverted(t)
    PROVE  IInv'
<1>1. calls[t].user \in User
  BY OpenCall DEF CreateConverted, Resumed
<1>2. RestOK'
  BY <1>1, RestRecorded DEF CreateConverted, EventKind
<1>3. QED
  BY <1>2, CallTyped, AwaitStep DEF CreateConverted, Resumed, Callee

LEMMA RefundStartStep ==
    ASSUME IInv, NEW t \in Task, NEW u \in User, RefundStart(t, u)
    PROVE  IInv'
<1> DEFINE f == [NoCall EXCEPT !.op = "refund", !.user = u]
<1>1. RestOK' /\ UNCHANGED <<requests, agreements>>
  BY RestUnchanged DEF RefundStart, state
<1>2. f \in Call /\ LocalsOK(f)
  BY NoCallFacts DEF NoCall, Call, Op, LocalsOK
<1>3. CheckHolds(f)
  BY DEF CheckHolds, NoCall
<1>4. QED
  BY <1>1, <1>2, <1>3, EnterStep DEF RefundStart, Callee

LEMMA RefundTooLowStep ==
    ASSUME IInv, NEW t \in Task, RefundTooLow(t)
    PROVE  IInv'
<1>1. RestOK'
  BY RestUnchanged DEF RefundTooLow, state
<1>2. QED
  BY <1>1, ReturnStep DEF RefundTooLow, state

LEMMA RefundSendStep ==
    ASSUME IInv, NEW t \in Task, RefundSend(t)
    PROVE  IInv'
<1>1. RestOK'
  BY RestUnchanged DEF RefundSend, state
<1>2. QED
  BY <1>1, CallTyped, AwaitStep DEF RefundSend, Resumed, state, Callee

LEMMA RefundFailedStep ==
    ASSUME IInv, NEW t \in Task, RefundFailed(t)
    PROVE  IInv'
<1>1. RestOK'
  BY RestUnchanged DEF RefundFailed, state
<1>2. QED
  BY <1>1, ReturnStep DEF RefundFailed, state

LEMMA TopUpStartStep ==
    ASSUME IInv, NEW t \in Task, NEW s \in Subnet, TopUpStart(t, s)
    PROVE  IInv'
<1> DEFINE f == [NoCall EXCEPT !.op = "topup", !.subnet = s,
                               !.user = agreements[s].user, !.copy = agreements[s]]
<1>1. RestOK' /\ UNCHANGED <<requests, agreements>>
  BY RestUnchanged DEF TopUpStart, state
<1>2. agreements[s] \in Agreement /\ agreements[s] # None
  BY DEF TopUpStart, IInv, TypeOK
<1>3. agreements[s].user \in User
  BY <1>2 DEF Agreement
<1>4. f \in Call /\ LocalsOK(f)
  BY <1>2, <1>3, NoCallFacts DEF NoCall, Call, Op, LocalsOK
<1>5. CheckHolds(f)
  BY <1>2 DEF CheckHolds, NoCall
<1>6. QED
  BY <1>1, <1>4, <1>5, EnterStep DEF TopUpStart, Callee

LEMMA TopUpSendStep ==
    ASSUME IInv, NEW t \in Task, TopUpSend(t)
    PROVE  IInv'
<1>1. RestOK'
  BY RestUnchanged DEF TopUpSend, state
<1>2. QED
  BY <1>1, CallTyped, AwaitStep DEF TopUpSend, Resumed, state, Callee

LEMMA TopUpFailedStep ==
    ASSUME IInv, NEW t \in Task, TopUpFailed(t)
    PROVE  IInv'
<1>1. calls[t].subnet \in Subnet
  BY CallTyped DEF TopUpFailed, ConversionFailed, Resumed, CallOK
<1>2. RestOK'
  BY <1>1, RestRecorded DEF TopUpFailed, EventKind
<1>3. QED
  BY <1>2, ReturnStep DEF TopUpFailed

LEMMA AdminsStartStep ==
    ASSUME IInv, NEW t \in Task, NEW s \in Subnet, AdminsStart(t, s)
    PROVE  IInv'
<1> DEFINE f == [NoCall EXCEPT !.op = "admins", !.subnet = s,
                               !.user = agreements[s].user]
<1>1. RestOK' /\ UNCHANGED <<requests, agreements>>
  BY RestUnchanged DEF AdminsStart, state
<1>2. agreements[s] \in Agreement /\ agreements[s] # None
  BY DEF AdminsStart, IInv, TypeOK
<1>3. agreements[s].user \in User
  BY <1>2 DEF Agreement
<1>4. f \in Call /\ LocalsOK(f)
  BY <1>3, NoCallFacts DEF NoCall, Call, Op, LocalsOK
<1>5. CheckHolds(f)
  BY <1>2 DEF CheckHolds, NoCall
<1>6. QED
  BY <1>1, <1>4, <1>5, EnterStep DEF AdminsStart, Callee

LEMMA AdminsDoneStep ==
    ASSUME IInv, NEW t \in Task, AdminsDone(t)
    PROVE  IInv'
<1>1. RestOK'
  BY RestUnchanged DEF AdminsDone, state
<1>2. QED
  BY <1>1, ReturnStep DEF AdminsDone, state

LEMMA TrapStep ==
    ASSUME IInv, NEW t \in Task, Trap(t)
    PROVE  IInv'
<1>1. RestOK'
  BY RestUnchanged DEF Trap, state
<1>2. QED
  BY <1>1, ReturnStep DEF Trap, state

------------------------------------------------------------------------------
(* The locking loop *)

\* Where the loop goes: to a call of its own for another user, or to no call.
LEMMA LoopBecomes ==
    ASSUME NEW t \in Task, NEW f \in Call, f.op = "lock",
           f.snap \in [User -> Request \cup {None}],
           NextInLoop(t, f, locks \ Held(calls[t]))
    PROVE  \E g \in Call : /\ CallOK(g)
                          /\ Becomes(t, g)
                          /\ g.op \in {"lock", "idle"}
<1> DEFINE held == locks \ Held(calls[t])
<1>1. ASSUME NEW u \in Pending(f, held),
             locks' = held \cup {<<u, "request">>},
             Go(t, Await([f EXCEPT !.user = u, !.copy = f.snap[u]], "transfer"))
      PROVE  \E g \in Call : CallOK(g) /\ Becomes(t, g) /\ g.op \in {"lock", "idle"}
  <2> DEFINE e == [f EXCEPT !.user = u, !.copy = f.snap[u]]
  <2> DEFINE g == Await(e, "transfer")
  <2>1. u \in User /\ f.snap[u] \in Request /\ <<u, "request">> \notin held
    BY DEF Pending, Due
  <2>2. e \in Call /\ LocalsOK(e) /\ e.op = "lock" /\ e.user = u
    BY <2>1 DEF Call, LocalsOK
  <2>3. g \in Call /\ CallOK(g) /\ Continues(g, e)
    BY <2>2, AwaitTyped DEF Callee
  <2>4. g.op = "lock" /\ g.user = u
    BY <2>2, <2>3 DEF Continues
  <2>5. Held(g) = {<<u, "request">>}
    BY <2>4, HeldFacts
  <2>6. Becomes(t, g)
    BY <1>1, <2>1, <2>5 DEF Becomes, Go
  <2>7. QED
    BY <2>3, <2>4, <2>6
<1>2. CASE locks' = held /\ Go(t, NoCall)
  <2>1. Becomes(t, NoCall)
    BY <1>2, NoCallFacts DEF Becomes, Go
  <2>2. QED
    BY <2>1, NoCallFacts DEF NoCall
<1>3. QED
  BY <1>1, <1>2 DEF NextInLoop

LEMMA LockStartStep ==
    ASSUME IInv, NEW t \in Task, LockStart(t)
    PROVE  IInv'
<1> DEFINE f == [NoCall EXCEPT !.op = "lock", !.snap = requests, !.day = now]
<1>1. RestOK' /\ UNCHANGED <<requests, agreements>>
  BY RestUnchanged DEF LockStart, state
<1>2. requests \in [User -> Request \cup {None}] /\ now \in Nat
  BY DEF IInv, TypeOK
<1>3. f \in Call /\ f.op = "lock" /\ f.snap = requests
  BY <1>2, NoCallFacts DEF NoCall, Call, Op
<1>4. locks \ Held(calls[t]) = locks
  BY NoCallFacts DEF LockStart
<1>5. PICK g \in Call : CallOK(g) /\ Becomes(t, g) /\ g.op \in {"lock", "idle"}
  BY <1>2, <1>3, <1>4, LoopBecomes DEF LockStart
<1>6. CheckHolds(g)
  BY <1>5 DEF CheckHolds
<1>7. QED
  BY <1>1, <1>5, <1>6, QuietStep

LEMMA LockFailedStep ==
    ASSUME IInv, NEW t \in Task, LockFailed(t)
    PROVE  IInv'
<1>1. calls[t].op = "lock" /\ calls[t] \in Call /\ CallOK(calls[t])
  BY CallTyped DEF LockFailed, ConversionFailed, Resumed
<1>2. calls[t].user \in User /\ calls[t].snap \in [User -> Request \cup {None}]
  BY <1>1 DEF CallOK
<1>3. RestOK' /\ UNCHANGED <<requests, agreements>>
  BY <1>2, RestRecorded DEF LockFailed, EventKind
<1>4. PICK g \in Call : CallOK(g) /\ Becomes(t, g) /\ g.op \in {"lock", "idle"}
  BY <1>1, <1>2, LoopBecomes DEF LockFailed
<1>5. CheckHolds(g)
  BY <1>4 DEF CheckHolds
<1>6. QED
  BY <1>3, <1>4, <1>5, QuietStep

LEMMA LockPanickedStep ==
    ASSUME IInv, NEW t \in Task, LockPanicked(t)
    PROVE  IInv'
<1>1. RestOK'
  BY RestUnchanged DEF LockPanicked, state
<1>2. QED
  BY <1>1, ReturnStep DEF LockPanicked, state

------------------------------------------------------------------------------
(* The steps of the callees, of the users and of the clock *)

LEMMA AnswerStep ==
    ASSUME IInv, NEW t \in Task, NEW c \in Callee, NEW r \in Reply, NEW v \in Nat,
           Answers(t, c, r, v), RestOK'
    PROVE  IInv'
<1> DEFINE f == calls[t]
<1> DEFINE g == [f EXCEPT !.reply = r, !.val = v]
<1>1. f \in Call /\ CallOK(f) /\ f.at = c /\ f.op # "idle"
  BY CallTyped, OpenCall DEF Answers, Callee
<1>2. g \in Call
  BY <1>1 DEF Call
<1>3. Continues(g, f) /\ g.at = f.at /\ g.cond = f.cond /\ g.snap = f.snap
  BY <1>1 DEF Continues, Call
<1>4. CallOK(g)
  BY <1>1, <1>3 DEF CallOK, Continues, NoCall
<1>5. QED
  BY <1>2, <1>3, <1>4, ContinueStep DEF Answers, state

LEMMA AnswerRest ==
    ASSUME IInv, NEW t \in Task, NEW c, NEW r, NEW v, Answers(t, c, r, v)
    PROVE  UNCHANGED <<newest, now>>
BY DEF Answers, state

LEMMA XrcAnswersStep ==
    ASSUME IInv, NEW t \in Task, XrcAnswers(t)
    PROVE  IInv'
<1>1. PICK price \in Prices : Answers(t, "rate", "ok", price)
  BY DEF XrcAnswers
<1>2. RestOK'
  BY <1>1, AnswerRest, RestUnchanged DEF XrcAnswers
<1>3. QED
  BY <1>1, <1>2, AmountAssumption, AnswerStep DEF Callee, Reply

LEMMA LedgerBalanceStep ==
    ASSUME IInv, NEW t \in Task, LedgerBalance(t)
    PROVE  IInv'
<1>1. calls[t].user \in User
  BY OpenCall DEF LedgerBalance, Answers
<1>2. sub[calls[t].user] \in Nat
  BY <1>1 DEF IInv, TypeOK
<1>3. RestOK'
  BY AnswerRest, RestUnchanged DEF LedgerBalance
<1>4. QED
  BY <1>2, <1>3, AnswerStep DEF LedgerBalance, Callee, Reply

LEMMA LedgerTransfersStep ==
    ASSUME IInv, NEW t \in Task, LedgerTransfers(t)
    PROVE  IInv'
<1> DEFINE u == calls[t].user
<1> DEFINE debit == Sent(calls[t]) + DEFAULT_FEE
<1>1. u \in User
  BY OpenCall DEF LedgerTransfers
<1>2. debit \in Nat
  BY CallTyped, AskedNat, AmountAssumption
<1>3. sub \in [User -> Nat] /\ sub[u] - debit \in Nat
  BY <1>1, <1>2 DEF LedgerTransfers, IInv, TypeOK
<1>4. sub' \in [User -> Nat]
  BY <1>3 DEF LedgerTransfers
<1>5. RestOK'
  BY <1>4, AnswerRest DEF LedgerTransfers, IInv, TypeOK, RestOK
<1>6. QED
  BY <1>5, AnswerStep DEF LedgerTransfers, Callee, Reply

LEMMA LedgerRefusesStep ==
    ASSUME IInv, NEW t \in Task, LedgerRefuses(t)
    PROVE  IInv'
<1>1. RestOK'
  BY AnswerRest, RestUnchanged DEF LedgerRefuses
<1>2. QED
  BY <1>1, AnswerStep DEF LedgerRefuses, Callee, Reply

LEMMA CmcMintsStep ==
    ASSUME IInv, NEW t \in Task, CmcMints(t)
    PROVE  IInv'
<1>1. calls[t].user \in User
  BY OpenCall DEF CmcMints, Answers
<1>2. Sent(calls[t]) \in Nat
  BY CallTyped, AskedNat
<1>3. cycles' \in [User -> Nat]
  BY <1>1, <1>2 DEF CmcMints, IInv, TypeOK
<1>4. RestOK'
  BY <1>3, AnswerRest DEF CmcMints, IInv, TypeOK, RestOK
<1>5. QED
  BY <1>2, <1>4, AnswerStep DEF CmcMints, Callee, Reply

LEMMA CmcAuthorizesStep ==
    ASSUME IInv, NEW t \in Task, CmcAuthorizes(t)
    PROVE  IInv'
<1>1. calls[t].user \in User
  BY OpenCall DEF CmcAuthorizes, Answers
<1>2. calls[t].subnet \in Subnet
  BY CallTyped DEF CmcAuthorizes, Answers, CallOK
<1>3. whitelist' \in [User -> Subnet \cup {None}]
  BY <1>1, <1>2 DEF CmcAuthorizes, IInv, TypeOK
<1>4. RestOK'
  BY <1>3, AnswerRest DEF CmcAuthorizes, IInv, TypeOK, RestOK
<1>5. QED
  BY <1>4, AnswerStep DEF CmcAuthorizes, Callee, Reply

LEMMA RegistryAnswersStep ==
    ASSUME IInv, NEW t \in Task, RegistryAnswers(t)
    PROVE  IInv'
<1>1. RestOK'
  BY AnswerRest, RestUnchanged DEF RegistryAnswers
<1>2. QED
  BY <1>1, AnswerStep DEF RegistryAnswers, Callee, Reply

LEMMA CalleeFailsStep ==
    ASSUME IInv, NEW t \in Task, CalleeFails(t)
    PROVE  IInv'
<1>1. PICK c \in Faulty : \/ Answers(t, c, "reject", 0)
                          \/ Answers(t, c, "err", 0)
  BY DEF CalleeFails
<1>2. RestOK'
  BY <1>1, AnswerRest, RestUnchanged DEF CalleeFails
<1>3. c \in Callee
  BY FaultAssumption
<1>4. QED
  BY <1>1, <1>2, <1>3, AnswerStep DEF Reply

\* What no handler does leaves the calls, their guards and the maps alone.
LEMMA OutsideStep ==
    ASSUME IInv, UNCHANGED <<locks, requests, agreements, calls>>, RestOK'
    PROVE  IInv'
BY DEF IInv, TypeOK, RestOK, LocksOwned, ChecksStillHold, CheckHolds,
       UserExclusive, Renting

LEMMA PayStep ==
    ASSUME IInv, NEW u \in User, Pay(u)
    PROVE  IInv'
<1>1. PICK d \in Deposits : /\ deposited' = [deposited EXCEPT ![u] = @ + d]
                            /\ sub' = [sub EXCEPT ![u] = @ + d]
  BY DEF Pay
<1>2. d \in Nat
  BY AmountAssumption
<1>3. deposited' \in [User -> Nat] /\ sub' \in [User -> Nat]
  BY <1>1, <1>2 DEF IInv, TypeOK
<1>4. RestOK'
  BY <1>3 DEF Pay, state, IInv, TypeOK, RestOK
<1>5. QED
  BY <1>4, OutsideStep DEF Pay, state

LEMMA NewDayStep ==
    ASSUME IInv, NewDay
    PROVE  IInv'
<1>1. RestOK'
  BY DEF NewDay, state, external, IInv, TypeOK, RestOK
<1>2. QED
  BY <1>1, OutsideStep DEF NewDay, state

------------------------------------------------------------------------------
(* The steps that write a request or an agreement *)

LEMMA WriteStep ==
    ASSUME IInv, NEW t \in Task, NEW g \in Call, CallOK(g), Becomes(t, g),
           requests' \in [User -> Request \cup {None}],
           agreements' \in [Subnet -> Agreement \cup {None}],
           RestOK', RequestsGuarded(t), AgreementsGuarded(t),
           CheckHolds(calls[t])', UserExclusive'
    PROVE  IInv'
<1>1. TypeOK /\ LocksOwned /\ ChecksStillHold
  BY DEF IInv
<1>2. calls \in [Task -> Call] /\ \A d \in Task : CallOK(calls[d])
  BY <1>1 DEF TypeOK
<1>3. TypeOK'
  BY <1>1, BecomesTyped DEF TypeOK, RestOK, Guards
<1>4. LocksOwned' /\ \A d \in Task : d # t => calls'[d] = calls[d]
  BY <1>1, BecomesTyped
<1>5. ChecksStillHold'
  BY <1>1, <1>2, <1>4, ChecksStep
<1>6. QED
  BY <1>3, <1>4, <1>5 DEF IInv

\* A handler that returns has no check left to keep.
LEMMA ReturnCheck ==
    ASSUME IInv, NEW t \in Task, Return(t)
    PROVE  CheckHolds(calls[t])'
<1>1. calls'[t] = NoCall
  BY DEF Return, Go, IInv, TypeOK
<1>2. QED
  BY <1>1 DEF CheckHolds, NoCall

LEMMA ExecDoneStep ==
    ASSUME IInv, NEW t \in Task, ExecDone(t)
    PROVE  IInv'
<1> DEFINE f == calls[t]
<1> DEFINE r == [cost |-> f.amount, locked |-> Share(f.amount), cycles |-> f.val,
                 cond |-> f.cond, created |-> now, last |-> now]
<1>1. /\ f.op = "exec" /\ f.user \in User /\ f.cond \in Condition
      /\ f.val \in Nat /\ f.amount \in Nat /\ CheckHolds(f)
  BY CallTyped, OpenCall DEF ExecDone, Resumed, CallOK
<1>2. r \in Request
  BY <1>1, ShareNat DEF Request, IInv, TypeOK
<1>3. requests' = [requests EXCEPT ![f.user] = r] /\ UNCHANGED agreements
  BY DEF ExecDone
<1>4. requests' \in [User -> Request \cup {None}]
  BY <1>2, <1>3 DEF IInv, TypeOK
<1>5. agreements' \in [Subnet -> Agreement \cup {None}]
  BY <1>3 DEF IInv, TypeOK
<1>6. RestOK'
  BY <1>1, RestRecorded DEF ExecDone, EventKind
<1>7. RequestsGuarded(t)
  BY <1>1, <1>3, HeldFacts DEF RequestsGuarded, IInv, TypeOK
<1>8. AgreementsGuarded(t)
  BY <1>3 DEF AgreementsGuarded
<1>9. UserExclusive'
  <2>1. ~Renting(f.user)
    BY <1>1 DEF CheckHolds
  <2>2. \A u \in User : u # f.user => requests'[u] = requests[u]
    BY <1>3 DEF IInv, TypeOK
  <2>3. QED
    BY <1>3, <2>1, <2>2 DEF IInv, UserExclusive, Renting
<1>10. Becomes(t, NoCall) /\ CheckHolds(calls[t])'
  BY ReturnBecomes, ReturnCheck DEF ExecDone
<1>11. QED
  BY <1>4, <1>5, <1>6, <1>7, <1>8, <1>9, <1>10, NoCallFacts, WriteStep

LEMMA CreateDoneStep ==
    ASSUME IInv, NEW t \in Task, CreateDone(t)
    PROVE  IInv'
<1> DEFINE f == calls[t]
<1> DEFINE a == [user |-> f.user, cond |-> f.copy.cond, paid |-> f.copy.cost,
                 cycles |-> f.amount + f.copy.cycles]
<1>1. /\ f.op = "create" /\ f.user \in User /\ f.subnet \in Subnet
      /\ f.copy \in Request /\ f.amount \in Nat /\ CheckHolds(f)
  BY CallTyped, OpenCall DEF CreateDone, Resumed, CallOK
<1>2. a \in Agreement /\ a.user = f.user /\ a # None
  BY <1>1, NoneAssumption DEF Request, Agreement
<1>3. /\ requests' = [requests EXCEPT ![f.user] = None]
      /\ agreements' = [agreements EXCEPT ![f.subnet] = a]
  BY DEF CreateDone
<1>4. requests' \in [User -> Request \cup {None}]
  BY <1>3 DEF IInv, TypeOK
<1>5. agreements' \in [Subnet -> Agreement \cup {None}]
  BY <1>2, <1>3 DEF IInv, TypeOK
<1>6. /\ agreements'[f.subnet] = a
      /\ \A s \in Subnet : s # f.subnet => agreements'[s] = agreements[s]
  BY <1>1, <1>3 DEF IInv, TypeOK
<1>7. /\ requests'[f.user] = None
      /\ \A u \in User : u # f.user => requests'[u] = requests[u]
  BY <1>1, <1>3 DEF IInv, TypeOK
<1>8. RestOK'
  BY <1>1, RestRecorded DEF CreateDone, EventKind
<1>9. Held(f) = {<<f.user, "request">>, <<f.subnet, "nns">>}
  BY <1>1, HeldFacts
<1>10. RequestsGuarded(t)
  BY <1>7, <1>9 DEF RequestsGuarded
<1>11. AgreementsGuarded(t)
  BY <1>1, <1>2, <1>6, <1>9 DEF AgreementsGuarded, CheckHolds
<1>12. requests[f.user] # None
  BY <1>1, NoneAssumption DEF CheckHolds
<1>13. ~Renting(f.user)
  BY <1>1, <1>12 DEF IInv, UserExclusive
<1>14. UserExclusive'
  <2>1. ASSUME NEW u \in User, requests'[u] # None PROVE ~Renting(u)'
    <3>1. u # f.user /\ ~Renting(u)
      BY <1>7, <2>1 DEF IInv, UserExclusive
    <3>2. QED
      BY <1>2, <1>6, <3>1 DEF Renting
  <2>2. ASSUME NEW s \in Subnet, NEW z \in Subnet,
               agreements'[s] # None, agreements'[z] # None,
               agreements'[s].user = agreements'[z].user
        PROVE  s = z
    <3>1. CASE s = f.subnet \/ z = f.subnet
      BY <1>2, <1>6, <1>13, <2>2, <3>1 DEF Renting
    <3>2. CASE s # f.subnet /\ z # f.subnet
      BY <1>6, <2>2, <3>2 DEF IInv, UserExclusive
    <3>3. QED
      BY <3>1, <3>2
  <2>3. QED
    BY <2>1, <2>2 DEF UserExclusive
<1>15. Becomes(t, NoCall) /\ CheckHolds(calls[t])'
  BY ReturnBecomes, ReturnCheck DEF CreateDone
<1>16. QED
  BY <1>4, <1>5, <1>8, <1>10, <1>11, <1>14, <1>15, NoCallFacts, WriteStep

LEMMA RefundDoneStep ==
    ASSUME IInv, NEW t \in Task, RefundDone(t)
    PROVE  IInv'
<1> DEFINE u == calls[t].user
<1>1. calls[t].op = "refund" /\ u \in User
  BY OpenCall DEF RefundDone, Resumed
<1>2. Becomes(t, NoCall) /\ CheckHolds(calls[t])'
  BY ReturnBecomes, ReturnCheck DEF RefundDone
<1>3. CASE requests[u] = None
  <2>1. UNCHANGED <<requests, agreements>> /\ Return(t)
    BY <1>3 DEF RefundDone
  <2>2. RestOK'
    BY <1>1, <1>3, RestRecorded DEF RefundDone, EventKind, external
  <2>3. QED
    BY <2>1, <2>2, ReturnStep
<1>4. CASE requests[u] # None
  <2>1. requests[u] \in Request /\ requests[u].cycles \in Nat
    BY <1>1, <1>4 DEF IInv, TypeOK, Request
  <2>2. /\ requests' = [requests EXCEPT ![u] = None]
        /\ cycles' = [cycles EXCEPT ![u] = Less(@, requests[u].cycles)]
        /\ Record(u, "RentalRequestCancelled")
        /\ UNCHANGED <<agreements, now, sub, deposited, whitelist>>
    BY <1>4 DEF RefundDone
  <2>3. requests' \in [User -> Request \cup {None}]
    BY <2>2 DEF IInv, TypeOK
  <2>4. agreements' \in [Subnet -> Agreement \cup {None}]
    BY <2>2 DEF IInv, TypeOK
  <2>5. cycles' \in [User -> Nat]
    BY <1>1, <2>1, <2>2, LessNat DEF IInv, TypeOK
  <2>6. RestOK'
    BY <1>1, <2>2, <2>5 DEF IInv, TypeOK, RestOK, Record, EventKind
  <2>7. requests'[u] = None /\ \A v \in User : v # u => requests'[v] = requests[v]
    BY <1>1, <2>2 DEF IInv, TypeOK
  <2>8. RequestsGuarded(t)
    BY <1>1, <2>7, HeldFacts DEF RequestsGuarded
  <2>9. AgreementsGuarded(t)
    BY <2>2 DEF AgreementsGuarded
  <2>10. UserExclusive'
    BY <2>2, <2>7 DEF IInv, UserExclusive, Renting
  <2>11. QED
    BY <1>2, <2>3, <2>4, <2>6, <2>8, <2>9, <2>10, NoCallFacts, WriteStep
<1>5. QED
  BY <1>3, <1>4

LEMMA TopUpDoneStep ==
    ASSUME IInv, NEW t \in Task, TopUpDone(t)
    PROVE  IInv'
<1> DEFINE f == calls[t]
<1> DEFINE old == agreements[f.subnet]
<1> DEFINE a == ToppedUp(old, f)
<1>1. /\ f.op = "topup" /\ f.subnet \in Subnet /\ f.copy \in Agreement
      /\ f.val \in Nat /\ f.amount \in Nat /\ CheckHolds(f)
  BY CallTyped DEF TopUpDone, Resumed, CallOK
<1>2. old = f.copy /\ old # None
  BY <1>1 DEF CheckHolds
<1>3. a \in Agreement /\ a.user = old.user /\ a # None
  <2>1. old \in Agreement /\ f.copy.cycles + f.val \in Nat /\ old.paid + f.amount \in Nat
    BY <1>1, <1>2 DEF Agreement
  <2>2. a \in Agreement /\ a.user = old.user
    BY <2>1 DEF Agreement, ToppedUp
  <2>3. QED
    BY <2>2, NoneAssumption
<1>4. agreements' = [agreements EXCEPT ![f.subnet] = a] /\ UNCHANGED requests
  BY DEF TopUpDone
<1>5. agreements' \in [Subnet -> Agreement \cup {None}]
  BY <1>3, <1>4 DEF IInv, TypeOK
<1>6. requests' \in [User -> Request \cup {None}]
  BY <1>4 DEF IInv, TypeOK
<1>7. /\ agreements'[f.subnet] = a
      /\ \A s \in Subnet : s # f.subnet => agreements'[s] = agreements[s]
  BY <1>1, <1>4 DEF IInv, TypeOK
<1>8. RestOK'
  BY <1>1, RestRecorded DEF TopUpDone, EventKind
<1>9. RequestsGuarded(t)
  BY <1>4 DEF RequestsGuarded
<1>10. AgreementsGuarded(t)
  BY <1>1, <1>2, <1>3, <1>7, HeldFacts DEF AgreementsGuarded
<1>11. \A s \in Subnet : /\ agreements'[s] = None <=> agreements[s] = None
                         /\ agreements'[s].user = agreements[s].user
  BY <1>2, <1>3, <1>7
<1>12. UserExclusive'
  BY <1>4, <1>11 DEF IInv, UserExclusive, Renting
<1>13. Becomes(t, NoCall) /\ CheckHolds(calls[t])'
  BY ReturnBecomes, ReturnCheck DEF TopUpDone
<1>14. QED
  BY <1>5, <1>6, <1>8, <1>9, <1>10, <1>12, <1>13, NoCallFacts, WriteStep

LEMMA LockDoneStep ==
    ASSUME IInv, NEW t \in Task, LockDone(t)
    PROVE  IInv'
<1> DEFINE f == calls[t]
<1>1. /\ f \in Call /\ f.op = "lock" /\ f.user \in User /\ f.copy \in Request
      /\ f.val \in Nat /\ f.day \in Nat
      /\ f.snap \in [User -> Request \cup {None}]
  BY CallTyped, OpenCall DEF LockDone, Resumed, CallOK, Call
<1>2. Locked(f) \in Request
  <2>1. /\ f.copy.cost \in Nat /\ f.copy.locked \in Nat /\ f.copy.cycles \in Nat
    BY <1>1 DEF Request
  <2>2. /\ f.copy.locked + Share(f.copy.cost) \in Nat
        /\ f.copy.cycles + f.val \in Nat
    BY <1>1, <2>1, ShareNat
  <2>3. QED
    BY <1>1, <2>2 DEF Locked, Request
<1>3. /\ requests' = [requests EXCEPT ![f.user] = Locked(f)]
      /\ UNCHANGED agreements
  BY DEF LockDone
<1>4. requests' \in [User -> Request \cup {None}]
  BY <1>2, <1>3 DEF IInv, TypeOK
<1>5. agreements' \in [Subnet -> Agreement \cup {None}]
  BY <1>3 DEF IInv, TypeOK
<1>6. \A v \in User : v # f.user => requests'[v] = requests[v]
  BY <1>3 DEF IInv, TypeOK
<1>7. RestOK'
  BY <1>1, RestRecorded DEF LockDone, EventKind
<1>8. RequestsGuarded(t)
  BY <1>1, <1>6, HeldFacts DEF RequestsGuarded
<1>9. AgreementsGuarded(t)
  BY <1>3 DEF AgreementsGuarded
<1>10. UserExclusive'
  <2>1. requests[f.user] # None
    BY DEF LockDone
  <2>2. QED
    BY <1>1, <1>3, <1>6, <2>1 DEF IInv, UserExclusive, Renting
<1>11. PICK g \in Call : CallOK(g) /\ Becomes(t, g) /\ g.op \in {"lock", "idle"}
  BY <1>1, LoopBecomes DEF LockDone
<1>12. CheckHolds(calls[t])'
  <2>1. calls'[t] = g
    BY <1>11 DEF Becomes, IInv, TypeOK
  <2>2. QED
    BY <1>11, <2>1 DEF CheckHolds
<1>13. QED
  BY <1>4, <1>5, <1>7, <1>8, <1>9, <1>10, <1>11, <1>12, WriteStep

------------------------------------------------------------------------------
(* The invariant *)

LEMMA InitInvariant == Init => IInv
<1> SUFFICES ASSUME Init PROVE IInv
  OBVIOUS
<1> USE DEF Init
<1>1. \A t \in Task : calls[t] = NoCall
  OBVIOUS
<1>2. \A t \in Task : Held(calls[t]) = {}
  BY <1>1, NoCallFacts
<1>3. TypeOK
  BY <1>1, NoCallFacts DEF TypeOK, EventKind
<1>4. LocksOwned
  BY <1>2 DEF LocksOwned
<1>5. ChecksStillHold
  BY <1>1, CheckNoCall DEF ChecksStillHold
<1>6. UserExclusive
  BY DEF UserExclusive, Renting
<1>7. QED
  BY <1>3, <1>4, <1>5, <1>6 DEF IInv

LEMMA ArriveStep ==
    ASSUME IInv, NEW t \in Task, Arrive(t)
    PROVE  IInv'
BY ExecStartStep, CreateStartStep, RefundStartStep, TopUpStartStep,
   AdminsStartStep, LockStartStep DEF Arrive

LEMMA ResumeStep ==
    ASSUME IInv, NEW t \in Task, Resume(t)
    PROVE  IInv'
BY NotifyTopUpStep,
   ExecPricedStep, ExecFundedStep, ExecFailedStep, ExecDoneStep,
   CreateFailedStep, CreateConvertedStep, CreateDoneStep,
   RefundTooLowStep, RefundSendStep, RefundFailedStep, RefundDoneStep,
   TopUpSendStep, TopUpFailedStep, TopUpDoneStep, AdminsDoneStep,
   LockFailedStep, LockDoneStep, LockPanickedStep, TrapStep DEF Resume

LEMMA AnswersStep ==
    ASSUME IInv, NEW t \in Task, Answer(t)
    PROVE  IInv'
BY XrcAnswersStep, LedgerBalanceStep, LedgerTransfersStep, LedgerRefusesStep,
   CmcMintsStep, CmcAuthorizesStep, RegistryAnswersStep, CalleeFailsStep
   DEF Answer

LEMMA NextInvariant == IInv /\ [Next]_vars => IInv'
<1> SUFFICES ASSUME IInv, [Next]_vars PROVE IInv'
  OBVIOUS
<1>1. CASE UNCHANGED vars
  <2>1. RestOK'
    BY <1>1, RestUnchanged DEF vars
  <2>2. QED
    BY <1>1, <2>1, OutsideStep DEF vars
<1>2. ASSUME NEW t \in Task, Arrive(t) \/ Resume(t) \/ Answer(t) PROVE IInv'
  BY <1>2, ArriveStep, ResumeStep, AnswersStep
<1>3. ASSUME NEW u \in User, NEW c \in Condition, ExecRefused(u, c) PROVE IInv'
  BY <1>3, ExecRefusedStep
<1>4. ASSUME NEW u \in User, Pay(u) PROVE IInv'
  BY <1>4, PayStep
<1>5. CASE NewDay
  BY <1>5, NewDayStep
<1>6. QED
  BY <1>1, <1>2, <1>3, <1>4, <1>5 DEF Next

\* The inductive invariant: what every state of the canister satisfies.
THEOREM Invariant == Spec => []IInv
BY InitInvariant, NextInvariant, PTL DEF Spec

\* Type correctness: no subaccount or cycles balance goes below zero, and no
\* handler resumes without the copy it needs.
THEOREM TypeCorrect == Spec => []TypeOK
<1>1. IInv => TypeOK
  BY DEF IInv
<1>2. QED
  BY <1>1, Invariant, PTL

\* CallerGuard: every guard held has exactly one open call that owns it, and is
\* released when that call ends, on an error and on a trap as well.
THEOREM GuardsOwned == Spec => []LocksOwned
<1>1. IInv => LocksOwned
  BY DEF IInv
<1>2. QED
  BY <1>1, Invariant, PTL

\* The "unwrap safety" comments: the checks at the start of proposal execution,
\* creation, top-up and change of admins hold until these handlers end.
THEOREM UnwrapSafety == Spec => []ChecksStillHold
<1>1. IInv => ChecksStillHold
  BY DEF IInv
<1>2. QED
  BY <1>1, Invariant, PTL

\* A user has at most one of a request and an agreement, and one agreement.
THEOREM OneRentalPerUser == Spec => []UserExclusive
<1>1. IInv => UserExclusive
  BY DEF IInv
<1>2. QED
  BY <1>1, Invariant, PTL

------------------------------------------------------------------------------
(* Refinement *)

(***************************************************************************)
(* SubnetRental implements RentalLifecycle, for all values of the          *)
(* constants.  Three kinds of step are steps of the lifecycle: ExecDone is *)
(* Request, CreateDone is Rent, and a RefundDone that finds a request is   *)
(* Cancel.  Every other step, a locking from an outdated list included,    *)
(* leaves each user's phase and each subnet's tenant as they are.          *)
(***************************************************************************)

\* Phases and tenants depend on the two maps only.
LEMMA MapsUnchanged ==
    ASSUME UNCHANGED <<requests, agreements>>
    PROVE  UNCHANGED <<Phases, Tenants>>
BY DEF Phases, Tenants, Renting

\* A step that keeps which entries there are, and their users, is a stutter.
LEMMA SameEntries ==
    ASSUME \A u \in User : requests'[u] = None <=> requests[u] = None,
           \A s \in Subnet : /\ agreements'[s] = None <=> agreements[s] = None
                             /\ agreements[s] # None =>
                                   agreements'[s].user = agreements[s].user
    PROVE  UNCHANGED <<Phases, Tenants>>
<1>1. \A u \in User : Renting(u)' <=> Renting(u)
  BY DEF Renting
<1>2. Phases' = Phases
  BY <1>1 DEF Phases
<1>3. Tenants' = Tenants
  BY DEF Tenants
<1>4. QED
  BY <1>2, <1>3

\* A rental proposal that succeeds is a request.
LEMMA ExecDoneRequests ==
    ASSUME IInv, NEW t \in Task, ExecDone(t)
    PROVE  \E u \in User : Lifecycle!Request(u)
<1> DEFINE f == calls[t]
<1> DEFINE u == f.user
<1> DEFINE r == [cost |-> f.amount, locked |-> Share(f.amount), cycles |-> f.val,
                 cond |-> f.cond, created |-> now, last |-> now]
<1>1. /\ u \in User /\ f.cond \in Condition /\ f.amount \in Nat /\ f.val \in Nat
      /\ requests[u] = None /\ ~Renting(u)
  BY CallTyped, OpenCall DEF ExecDone, Resumed, CallOK, CheckHolds
<1>2. r \in Request
  BY <1>1, ShareNat DEF Request, IInv, TypeOK
<1>3. r # None
  BY <1>2, NoneAssumption
<1>4. requests' = [requests EXCEPT ![u] = r] /\ UNCHANGED agreements
  BY DEF ExecDone
<1>5. requests'[u] = r /\ \A v \in User : v # u => requests'[v] = requests[v]
  BY <1>1, <1>4 DEF IInv, TypeOK
<1>6. \A v \in User : Renting(v)' <=> Renting(v)
  BY <1>4 DEF Renting
<1>7. Phases[u] = "none"
  BY <1>1 DEF Phases
<1>8. Phases' = [Phases EXCEPT ![u] = "requested"]
  BY <1>1, <1>3, <1>5, <1>6 DEF Phases
<1>9. UNCHANGED Tenants
  BY <1>4 DEF Tenants
<1>10. QED
  BY <1>1, <1>7, <1>8, <1>9 DEF Lifecycle!Request

\* A creation that succeeds makes the requesting user the tenant.
LEMMA CreateDoneRents ==
    ASSUME IInv, NEW t \in Task, CreateDone(t)
    PROVE  \E u \in User, s \in Subnet : Lifecycle!Rent(u, s)
<1> DEFINE f == calls[t]
<1> DEFINE u == f.user
<1> DEFINE s == f.subnet
<1> DEFINE a == [user |-> u, cond |-> f.copy.cond, paid |-> f.copy.cost,
                 cycles |-> f.amount + f.copy.cycles]
<1>1. /\ u \in User /\ s \in Subnet /\ f.copy \in Request /\ f.amount \in Nat
      /\ requests[u] = f.copy /\ agreements[s] = None
  BY CallTyped, OpenCall DEF CreateDone, Resumed, CallOK, CheckHolds
<1>2. requests[u] # None
  BY <1>1, NoneAssumption
<1>3. a \in Agreement
  BY <1>1 DEF Request, Agreement
<1>4. a # None /\ a.user = u
  BY <1>3, NoneAssumption
<1>5. /\ requests' = [requests EXCEPT ![u] = None]
      /\ agreements' = [agreements EXCEPT ![s] = a]
  BY DEF CreateDone
<1>6. requests'[u] = None /\ \A v \in User : v # u => requests'[v] = requests[v]
  BY <1>1, <1>5 DEF IInv, TypeOK
<1>7. agreements'[s] = a /\ \A z \in Subnet : z # s => agreements'[z] = agreements[z]
  BY <1>1, <1>5 DEF IInv, TypeOK
<1>8. \A v \in User : Renting(v)' <=> v = u \/ Renting(v)
  <2>1. \A v \in User : v = u => Renting(v)'
    BY <1>1, <1>4, <1>7 DEF Renting
  <2>2. ASSUME NEW v \in User, v # u
        PROVE  Renting(v)' <=> Renting(v)
    <3>1. \A z \in Subnet :
              agreements'[z] # None /\ agreements'[z].user = v
                  <=> agreements[z] # None /\ agreements[z].user = v
      BY <1>1, <1>4, <1>7, <2>2
    <3>2. QED
      BY <3>1 DEF Renting
  <2>3. QED
    BY <2>1, <2>2
<1>9. Phases[u] = "requested"
  BY <1>1, <1>2 DEF Phases
<1>10. Phases' = [Phases EXCEPT ![u] = "renting"]
  <2>1. Phases'[u] = "renting"
    BY <1>1, <1>6, <1>8 DEF Phases
  <2>2. \A v \in User : v # u => Phases'[v] = Phases[v]
    BY <1>6, <1>8 DEF Phases
  <2>3. QED
    BY <2>1, <2>2 DEF Phases
<1>11. Tenants[s] = None
  BY <1>1 DEF Tenants
<1>12. Tenants' = [Tenants EXCEPT ![s] = u]
  BY <1>1, <1>4, <1>7 DEF Tenants
<1>13. QED
  BY <1>1, <1>9, <1>10, <1>11, <1>12 DEF Lifecycle!Rent

\* A refund that finds a request cancels it; one that finds none is a stutter.
LEMMA RefundDoneCancels ==
    ASSUME IInv, NEW t \in Task, RefundDone(t)
    PROVE  \/ \E u \in User : Lifecycle!Cancel(u)
           \/ UNCHANGED <<Phases, Tenants>>
<1> DEFINE u == calls[t].user
<1>1. u \in User
  BY OpenCall DEF RefundDone, Resumed
<1>2. CASE requests[u] = None
  <2>1. UNCHANGED <<requests, agreements>>
    BY <1>2 DEF RefundDone
  <2>2. QED
    BY <2>1, MapsUnchanged
<1>3. CASE requests[u] # None
  <2>1. requests' = [requests EXCEPT ![u] = None] /\ UNCHANGED agreements
    BY <1>3 DEF RefundDone
  <2>2. requests'[u] = None /\ \A v \in User : v # u => requests'[v] = requests[v]
    BY <1>1, <2>1 DEF IInv, TypeOK
  <2>3. ~Renting(u) /\ \A v \in User : Renting(v)' <=> Renting(v)
    BY <1>1, <1>3, <2>1 DEF IInv, UserExclusive, Renting
  <2>4. Phases[u] = "requested"
    BY <1>1, <1>3 DEF Phases
  <2>5. Phases' = [Phases EXCEPT ![u] = "none"]
    BY <1>1, <2>2, <2>3 DEF Phases
  <2>6. UNCHANGED Tenants
    BY <2>1 DEF Tenants
  <2>7. QED
    BY <1>1, <2>4, <2>5, <2>6 DEF Lifecycle!Cancel
<1>4. QED
  BY <1>2, <1>3

\* A top-up changes the totals of an agreement, not its tenant.
LEMMA TopUpDoneStutters ==
    ASSUME IInv, NEW t \in Task, TopUpDone(t)
    PROVE  UNCHANGED <<Phases, Tenants>>
<1> DEFINE f == calls[t]
<1> DEFINE old == agreements[f.subnet]
<1>1. /\ f.subnet \in Subnet /\ f.copy \in Agreement /\ old = f.copy
      /\ f.val \in Nat /\ f.amount \in Nat
  BY CallTyped DEF TopUpDone, Resumed, CallOK, CheckHolds
<1>2. f.copy.cycles + f.val \in Nat /\ old.paid + f.amount \in Nat
  BY <1>1 DEF Agreement
<1>3. ToppedUp(old, f) \in Agreement /\ ToppedUp(old, f).user = old.user
  BY <1>1, <1>2 DEF ToppedUp, Agreement
<1>4. old # None /\ ToppedUp(old, f) # None
  BY <1>1, <1>3, NoneAssumption
<1>5. agreements' = [agreements EXCEPT ![f.subnet] = ToppedUp(old, f)]
      /\ UNCHANGED requests
  BY DEF TopUpDone
<1>6. /\ agreements'[f.subnet] = ToppedUp(old, f)
      /\ \A s \in Subnet : s # f.subnet => agreements'[s] = agreements[s]
  BY <1>1, <1>5 DEF IInv, TypeOK
<1>7. \A s \in Subnet : /\ agreements'[s] = None <=> agreements[s] = None
                        /\ agreements[s] # None =>
                              agreements'[s].user = agreements[s].user
  BY <1>3, <1>4, <1>6
<1>8. QED
  BY <1>5, <1>7, SameEntries

\* A locking replaces a request by a request, even when it writes back an old one.
LEMMA LockDoneStutters ==
    ASSUME IInv, NEW t \in Task, LockDone(t)
    PROVE  UNCHANGED <<Phases, Tenants>>
<1> DEFINE f == calls[t]
<1>1. /\ f.user \in User /\ f.copy \in Request /\ f.val \in Nat /\ f.day \in Nat
      /\ requests[f.user] # None
  BY CallTyped, OpenCall DEF LockDone, Resumed, CallOK, Call
<1>2. /\ f.copy.cost \in Nat /\ f.copy.locked \in Nat /\ f.copy.cycles \in Nat
  BY <1>1 DEF Request
<1>3. /\ f.copy.locked + Share(f.copy.cost) \in Nat
      /\ f.copy.cycles + f.val \in Nat
  BY <1>1, <1>2, ShareNat
<1>4. Locked(f) \in Request
  BY <1>1, <1>3 DEF Locked, Request
<1>5. Locked(f) # None
  BY <1>4, NoneAssumption
<1>6. requests' = [requests EXCEPT ![f.user] = Locked(f)] /\ UNCHANGED agreements
  BY DEF LockDone
<1>7. \A u \in User : requests'[u] = None <=> requests[u] = None
  BY <1>1, <1>5, <1>6 DEF IInv, TypeOK
<1>8. QED
  BY <1>6, <1>7, SameEntries

\* Every step of the canister is a step of the lifecycle or a stutter.
LEMMA NextRefines == IInv /\ [Next]_vars => [Lifecycle!Next]_(Lifecycle!lifecycle)
<1> SUFFICES ASSUME IInv, [Next]_vars
             PROVE  Lifecycle!Next \/ UNCHANGED <<Phases, Tenants>>
  BY DEF Lifecycle!lifecycle
<1>1. CASE UNCHANGED <<requests, agreements>>
  BY <1>1, MapsUnchanged
<1>2. ASSUME NEW t \in Task, ExecDone(t)
      PROVE  Lifecycle!Next
  BY <1>2, ExecDoneRequests DEF Lifecycle!Next
<1>3. ASSUME NEW t \in Task, CreateDone(t)
      PROVE  Lifecycle!Next
  BY <1>3, CreateDoneRents DEF Lifecycle!Next
<1>4. ASSUME NEW t \in Task, RefundDone(t)
      PROVE  Lifecycle!Next \/ UNCHANGED <<Phases, Tenants>>
  BY <1>4, RefundDoneCancels DEF Lifecycle!Next
<1>5. ASSUME NEW t \in Task, TopUpDone(t) \/ LockDone(t)
      PROVE  UNCHANGED <<Phases, Tenants>>
  BY <1>5, TopUpDoneStutters, LockDoneStutters
<1>6. ASSUME NEW t \in Task, Arrive(t)
      PROVE  UNCHANGED <<requests, agreements>>
  BY <1>6 DEF Arrive, ExecStart, CreateStart, RefundStart, TopUpStart,
              AdminsStart, LockStart, state
<1>7. ASSUME NEW t \in Task, Answer(t)
      PROVE  UNCHANGED <<requests, agreements>>
  BY <1>7 DEF Answer, XrcAnswers, LedgerBalance, LedgerTransfers, LedgerRefuses,
              CmcMints, CmcAuthorizes, RegistryAnswers, CalleeFails, Answers, state
<1>8. ASSUME NEW t \in Task, Resume(t)
      PROVE  \/ UNCHANGED <<requests, agreements>>
             \/ ExecDone(t) \/ CreateDone(t) \/ RefundDone(t)
             \/ TopUpDone(t) \/ LockDone(t)
  BY <1>8 DEF Resume, NotifyTopUp, ExecPriced, ExecFunded, ExecFailed,
              CreateFailed, CreateConverted, RefundTooLow, RefundSend,
              RefundFailed, TopUpSend, TopUpFailed, AdminsDone, LockFailed,
              LockPanicked, Trap, state
<1>9. CASE UNCHANGED vars
  BY <1>1, <1>9 DEF vars
<1>10. CASE \E t \in Task : Arrive(t) \/ Resume(t) \/ Answer(t)
  BY <1>10, <1>1, <1>2, <1>3, <1>4, <1>5, <1>6, <1>7, <1>8
<1>11. CASE \E u \in User, c \in Condition : ExecRefused(u, c)
  BY <1>1, <1>11 DEF ExecRefused
<1>12. CASE (\E u \in User : Pay(u)) \/ NewDay
  BY <1>1, <1>12 DEF Pay, NewDay, state
<1>13. QED
  BY <1>9, <1>10, <1>11, <1>12 DEF Next

LEMMA InitRefines == Init => Lifecycle!Init
<1> SUFFICES ASSUME Init PROVE Lifecycle!Init
  OBVIOUS
<1>1. Phases = [u \in User |-> "none"]
  BY DEF Init, Phases, Renting
<1>2. Tenants = [s \in Subnet |-> None]
  BY DEF Init, Tenants
<1>3. QED
  BY <1>1, <1>2 DEF Lifecycle!Init

\* The canister implements the rental lifecycle: a request ends by a refund or by
\* becoming the agreement of a subnet without a tenant, and an agreement is for
\* good, whatever interleaves with execute_rental_request_proposal,
\* execute_create_rental_agreement, refund, top_up_subnet and the locking timer.
THEOREM Refinement == Spec => LifecycleSpec
BY InitRefines, NextRefines, Invariant, PTL
   DEF Spec, LifecycleSpec, Lifecycle!Spec
==============================================================================
