------------------------- MODULE SubnetRentalLocking -------------------------
(***************************************************************************)
(* What the monthly locking keeps, although its loop works with a list of  *)
(* requests that may be old by the time it gets to them: two requests never*)
(* ask for the same conditions, and the record of a request is paced.  That*)
(* the conversions are paced too is proved with the audit.                 *)
(***************************************************************************)
EXTENDS SubnetRentalRecords

------------------------------------------------------------------------------
(* One request for each of the conditions *)

(***************************************************************************)
(* Two requests never ask for the same rental conditions, although the     *)
(* request guard belongs to a user and nothing guards a condition.         *)
(*                                                                         *)
(* The check of execute_rental_request_proposal is made before its awaits, *)
(* so it is governance, executing one proposal at a time, that keeps it    *)
(* true until the request is there.  The locking loop writes requests too, *)
(* from the list it made when it started: if a user in that list cancelled *)
(* and asked for other conditions in the meantime, the loop would bring    *)
(* back the old ones, which somebody else may have by then.  That there    *)
(* are two conditions excludes it: the loop's list has two requests at     *)
(* most, and while it works on the first the second user can only ask for  *)
(* the conditions that user had.                                           *)
(***************************************************************************)

\* RentalConditionId has two values, App13CH and App7CH.
TwoConditions == \A c, d, e \in Condition : c = d \/ d = e \/ c = e

\* The loop f holds the request it is at as it was listed, under the same
\* conditions as the request there is now; that one is there, or is the last.
LoopFresh(f) == f.op = "lock" =>
    /\ f.copy = f.snap[f.user]
    /\ \A u, v \in User :
          (f.snap[u] # None /\ f.snap[v] # None /\ f.snap[u].cond = f.snap[v].cond)
              => u = v
    /\ requests[f.user] # None => requests[f.user].cond = f.copy.cond
    /\ requests[f.user] # None \/ \A v \in User : v > f.user => f.snap[v] = None

\* Nobody has the conditions that the proposal f is about to give away.
ExecFresh(f) == f.op = "exec" =>
    \A v \in User : requests[v] # None => requests[v].cond # f.cond

CInv ==
    /\ OneRequestPerCondition
    /\ \A t \in Task : LoopFresh(calls[t]) /\ ExecFresh(calls[t])
    /\ \A t, d \in Task : calls[t].op = "exec" /\ calls[d].op = "exec" => t = d

\* A step gives no conditions to a request that has not got them already.
ConditionsKept ==
    \A u \in User : requests'[u] # None =>
        requests[u] # None /\ requests'[u].cond = requests[u].cond

------------------------------------------------------------------------------
(* Steps that give no conditions *)

\* Call t does, under its own guards, and the other calls find their view right.
LEMMA OthersFresh ==
    ASSUME IInv, CInv, NEW t \in Task, RequestsGuarded(t),
           ConditionsKept \/ calls[t].op = "exec",
           NEW d \in Task, d # t, calls'[d] = calls[d]
    PROVE  (LoopFresh(calls[d]) /\ ExecFresh(calls[d]))'
<1> DEFINE f == calls[d]
<1>1. LoopFresh(f) /\ ExecFresh(f)
  BY DEF CInv
<1>2. CASE f.op = "lock"
  <2>1. f.user \in User /\ <<f.user, "request">> \in Held(f)
    BY <1>2, OpenCall, HeldFacts
  <2>2. requests'[f.user] = requests[f.user]
    BY <2>1 DEF RequestsGuarded, IInv, LocksOwned
  <2>3. QED
    BY <1>1, <1>2, <2>2 DEF LoopFresh, ExecFresh
<1>3. CASE f.op = "exec"
  <2>1. ConditionsKept
    BY <1>3 DEF CInv
  <2>2. QED
    BY <1>1, <1>3, <2>1 DEF LoopFresh, ExecFresh, ConditionsKept
<1>4. CASE f.op \notin {"exec", "lock"}
  BY <1>4 DEF LoopFresh, ExecFresh
<1>5. QED
  BY <1>2, <1>3, <1>4

LEMMA KeepingStep ==
    ASSUME IInv, CInv, NEW t \in Task, \A d \in Task : d # t => calls'[d] = calls[d],
           RequestsGuarded(t), ConditionsKept,
           LoopFresh(calls[t])', ExecFresh(calls[t])',
           calls'[t].op = "exec" => \A d \in Task : d # t => calls[d].op # "exec"
    PROVE  CInv'
<1>1. \A d \in Task : (LoopFresh(calls[d]) /\ ExecFresh(calls[d]))'
  BY OthersFresh
<1>2. OneRequestPerCondition'
  BY DEF CInv, OneRequestPerCondition, ConditionsKept
<1>3. \A d, e \in Task : calls'[d].op = "exec" /\ calls'[e].op = "exec" => d = e
  BY DEF CInv
<1>4. QED
  BY <1>1, <1>2, <1>3 DEF CInv

\* It keeps its view, unless it is a locking that writes its request.
LEMMA ViewKept ==
    ASSUME IInv, CInv, NEW t \in Task, \A d \in Task : d # t => calls'[d] = calls[d],
           RequestsGuarded(t), ConditionsKept,
           \/ calls'[t] = NoCall
           \/ SameView(calls'[t], calls[t]) /\ UNCHANGED requests
    PROVE  CInv'
<1>1. CASE calls'[t] = NoCall
  <2>1. LoopFresh(calls[t])' /\ ExecFresh(calls[t])' /\ calls'[t].op # "exec"
    BY <1>1 DEF LoopFresh, ExecFresh, NoCall
  <2>2. QED
    BY <2>1, KeepingStep
<1>2. CASE SameView(calls'[t], calls[t]) /\ UNCHANGED requests
  <2>1. LoopFresh(calls[t])' /\ ExecFresh(calls[t])'
    BY <1>2 DEF CInv, LoopFresh, ExecFresh, SameView
  <2>2. calls'[t].op = "exec" => \A d \in Task : d # t => calls[d].op # "exec"
    BY <1>2 DEF CInv, SameView
  <2>3. QED
    BY <2>1, <2>2, KeepingStep
<1>3. QED
  BY <1>1, <1>2

\* The other steps of the handlers leave the conditions.
LEMMA ConditionsGiven ==
    ASSUME IInv, NEW t \in Task, Resume(t), ~ExecDone(t), ~LockDone(t)
    PROVE  ConditionsKept
BY RequestsLeft DEF ConditionsKept

------------------------------------------------------------------------------
(* The locking loop and the proposal *)

\* The user the loop is at keeps the request, or what is left of the list is
\* empty: with two conditions the next user can only have the listed ones.
LEMMA LoopStep ==
    ASSUME IInv, CInv, TwoConditions, NEW t \in Task, Resume(t),
           calls[t].op = "lock", ConditionsKept,
           NEW held, NextInLoop(t, calls[t], held),
           \A v \in User : v # calls[t].user => requests'[v] = requests[v]
    PROVE  CInv'
<1> DEFINE f == calls[t]
<1> DEFINE g == calls'[t]
<1>1. /\ \A d \in Task : d # t => calls'[d] = calls[d]
      /\ RequestsGuarded(t)
  BY OthersKept, RequestsWritten
<1>2. /\ f \in Call /\ f.user \in User /\ f.user # None
      /\ f.copy \in Request /\ f.copy # None
      /\ f.snap \in [User -> Request \cup {None}]
  BY CallTyped, OpenCall, NoneAssumption DEF CallOK
<1>3. LoopFresh(f)
  BY DEF CInv
<1>4. CASE g = NoCall
  BY <1>1, <1>4, ViewKept
<1>5. ASSUME NEW u \in User, u > f.user, f.snap[u] # None, g.op = "lock",
             g.user = u, g.copy = f.snap[u], g.snap = f.snap
      PROVE  CInv'
  <2>1. requests[f.user] # None /\ requests[f.user].cond = f.snap[f.user].cond
    BY <1>3, <1>5 DEF LoopFresh
  <2>2. u # f.user /\ f.snap[f.user] # None
    BY <1>2, <1>3, <1>5, UserAssumption DEF LoopFresh
  <2>3. f.snap[u].cond # f.snap[f.user].cond
    BY <1>2, <1>3, <1>5, <2>2 DEF LoopFresh
  <2>4. \A v \in User : f.snap[v] # None => f.snap[v].cond \in Condition
    BY <1>2 DEF Request
  <2>5. requests'[u] # None => requests'[u].cond = f.snap[u].cond
    <3>1. SUFFICES ASSUME requests[u] # None PROVE requests[u].cond = f.snap[u].cond
      BY <2>2
    <3>2. requests[u].cond # f.snap[f.user].cond
      BY <1>2, <2>1, <2>2, <3>1 DEF CInv, OneRequestPerCondition
    <3>3. requests[u].cond \in Condition
      BY <3>1 DEF IInv, TypeOK, Request
    <3>4. QED
      BY <1>2, <1>5, <2>2, <2>3, <2>4, <3>2, <3>3 DEF TwoConditions
  <2>6. ASSUME NEW v \in User, v > u PROVE f.snap[v] = None
    <3>1. v # u /\ v # f.user
      BY <1>2, <1>5, <2>6, UserAssumption
    <3>2. SUFFICES ASSUME f.snap[v] # None PROVE FALSE
      OBVIOUS
    <3>3. f.snap[v].cond # f.snap[u].cond /\ f.snap[v].cond # f.snap[f.user].cond
      BY <1>2, <1>3, <1>5, <2>2, <3>1, <3>2 DEF LoopFresh
    <3>4. QED
      BY <1>2, <1>5, <2>2, <2>3, <2>4, <3>2, <3>3 DEF TwoConditions
  <2>7. LoopFresh(calls[t])'
    BY <1>3, <1>5, <2>5, <2>6 DEF LoopFresh
  <2>8. ExecFresh(calls[t])' /\ g.op # "exec"
    BY <1>5 DEF ExecFresh
  <2>9. QED
    BY <1>1, <2>7, <2>8, KeepingStep
<1>6. QED
  BY <1>2, <1>4, <1>5, LoopGoesOn DEF IInv, TypeOK

LEMMA LockFailedFresh ==
    ASSUME IInv, CInv, TwoConditions, NEW t \in Task, LockFailed(t)
    PROVE  CInv'
<1>1. Resume(t) /\ calls[t].op = "lock" /\ UNCHANGED requests
  BY DEF LockFailed, ConversionFailed, Resumed, Resume
<1>2. ConditionsKept
  BY <1>1 DEF ConditionsKept
<1>3. PICK held : NextInLoop(t, calls[t], held)
  BY DEF LockFailed
<1>4. QED
  BY <1>1, <1>2, <1>3, LoopStep

\* The locking writes the conditions that the request has already.
LEMMA LockDoneFresh ==
    ASSUME IInv, CInv, TwoConditions, NEW t \in Task, LockDone(t)
    PROVE  CInv'
<1> DEFINE f == calls[t]
<1>1. /\ Resume(t) /\ f.op = "lock" /\ f.user \in User /\ f.copy \in Request
  BY CallTyped, OpenCall DEF LockDone, Resumed, Resume, CallOK
<1>2. requests[f.user] # None /\ requests[f.user].cond = f.copy.cond
  BY <1>1 DEF LockDone, CInv, LoopFresh
<1>3. requests' = [requests EXCEPT ![f.user] = Locked(f)]
  BY DEF LockDone
<1>4. Locked(f).cond = f.copy.cond
  BY <1>1 DEF Locked, Request
<1>5. \A v \in User : v # f.user => requests'[v] = requests[v]
  BY <1>3 DEF IInv, TypeOK
<1>6. ConditionsKept
  BY <1>1, <1>2, <1>3, <1>4, <1>5 DEF ConditionsKept, IInv, TypeOK
<1>7. PICK held : NextInLoop(t, f, held)
  BY DEF LockDone
<1>8. QED
  BY <1>1, <1>5, <1>6, <1>7, LoopStep

\* The request comes with conditions that nobody has taken since the check.
LEMMA ExecDoneFresh ==
    ASSUME IInv, CInv, NEW t \in Task, ExecDone(t)
    PROVE  CInv'
<1> DEFINE f == calls[t]
<1> DEFINE r == [cost |-> f.amount, locked |-> Share(f.amount), cycles |-> f.val,
                 cond |-> f.cond, created |-> now, last |-> now]
<1>1. f.op = "exec" /\ f.user \in User /\ Resume(t)
  BY CallTyped, OpenCall DEF ExecDone, Resumed, Resume
<1>2. requests' = [requests EXCEPT ![f.user] = r] /\ r.cond = f.cond
  BY DEF ExecDone
<1>3. /\ requests'[f.user].cond = f.cond
      /\ \A v \in User : v # f.user => requests'[v] = requests[v]
  BY <1>1, <1>2 DEF IInv, TypeOK
<1>4. \A v \in User : requests[v] # None => requests[v].cond # f.cond
  BY <1>1 DEF CInv, ExecFresh
<1>5. OneRequestPerCondition'
  BY <1>3, <1>4 DEF CInv, OneRequestPerCondition
<1>6. calls'[t] = NoCall /\ \A d \in Task : d # t => calls'[d] = calls[d]
  BY <1>1, OthersKept DEF ExecDone, Return, Go, IInv, TypeOK
<1>7. \A d \in Task : (LoopFresh(calls[d]) /\ ExecFresh(calls[d]))'
  <2>1. (LoopFresh(calls[t]) /\ ExecFresh(calls[t]))'
    BY <1>6 DEF LoopFresh, ExecFresh, NoCall
  <2>2. QED
    BY <1>1, <1>6, <2>1, RequestsWritten, OthersFresh
<1>8. \A d, e \in Task : calls'[d].op = "exec" /\ calls'[e].op = "exec" => d = e
  BY <1>6 DEF CInv, NoCall
<1>9. QED
  BY <1>5, <1>7, <1>8 DEF CInv

\* A call that arrives, without having written a request.
LEMMA NewViewStep ==
    ASSUME IInv, CInv, NEW t \in Task, Arrive(t),
           LoopFresh(calls[t])', ExecFresh(calls[t])',
           calls'[t].op = "exec" => \A d \in Task : calls[d].op # "exec"
    PROVE  CInv'
<1>1. UNCHANGED requests /\ \A d \in Task : d # t => calls'[d] = calls[d]
  BY ArriveFacts, OthersKept
<1>2. RequestsGuarded(t) /\ ConditionsKept
  BY <1>1 DEF RequestsGuarded, ConditionsKept
<1>3. QED
  BY <1>1, <1>2, KeepingStep

\* The proposal has checked that nobody has the conditions, and is the only one.
LEMMA ExecStartFresh ==
    ASSUME IInv, CInv, GovernanceSerializes, NEW t \in Task, NEW u \in User,
           NEW c \in Condition, ExecStart(t, u, c)
    PROVE  CInv'
<1>1. Arrive(t) /\ UNCHANGED requests
  BY DEF Arrive, ExecStart, state
<1>2. calls'[t].op = "exec" /\ calls'[t].cond = c
  BY ExecArrives
<1>3. MayRequest(u, c) /\ \A d \in Task : calls[d].op # "exec"
  BY DEF ExecStart, MayPropose
<1>4. LoopFresh(calls[t])' /\ ExecFresh(calls[t])'
  BY <1>1, <1>2, <1>3 DEF LoopFresh, ExecFresh, MayRequest
<1>5. QED
  BY <1>1, <1>3, <1>4, NewViewStep

\* The loop starts with the requests there are.
LEMMA LockStartFresh ==
    ASSUME IInv, CInv, TwoConditions, NEW t \in Task, LockStart(t)
    PROVE  CInv'
<1> DEFINE f == [NoCall EXCEPT !.op = "lock", !.snap = requests, !.day = now]
<1> DEFINE g == calls'[t]
<1>1. Arrive(t) /\ UNCHANGED requests
  BY DEF Arrive, LockStart, state
<1>2. /\ requests \in [User -> Request \cup {None}] /\ now \in Nat
      /\ calls \in [Task -> Call]
  BY DEF IInv, TypeOK
<1>3. f \in Call /\ f.op = "lock" /\ f.snap = requests /\ f.user = None
  BY <1>2, NoCallFacts DEF NoCall, Call, Op
<1>4. NextInLoop(t, f, locks)
  BY DEF LockStart
<1>5. CASE g = NoCall
  BY <1>1, <1>5, NewViewStep DEF LoopFresh, ExecFresh, NoCall
<1>6. ASSUME NEW u \in User, requests[u] # None, g.op = "lock", g.user = u,
             g.copy = requests[u], g.snap = requests
      PROVE  CInv'
  <2>1. LoopFresh(calls[t])'
    BY <1>1, <1>6 DEF LoopFresh, CInv, OneRequestPerCondition
  <2>2. ExecFresh(calls[t])' /\ g.op # "exec"
    BY <1>6 DEF ExecFresh
  <2>3. QED
    BY <1>1, <2>1, <2>2, NewViewStep
<1>7. QED
  <2>1. \/ g = NoCall
        \/ \E u \in User : /\ f.snap[u] # None
                           /\ g.op = f.op
                           /\ g.user = u
                           /\ g.copy = f.snap[u]
                           /\ g.snap = f.snap
    BY <1>2, <1>3, <1>4, LoopGoesOn
  <2>2. QED
    BY <1>3, <1>5, <1>6, <2>1

\* The other calls write no request from a copy of theirs.
LEMMA OtherStartFresh ==
    ASSUME IInv, CInv, NEW t \in Task,
           \/ \E u \in User, s \in Subnet : CreateStart(t, u, s)
           \/ \E u \in User : RefundStart(t, u)
           \/ \E s \in Subnet : TopUpStart(t, s) \/ AdminsStart(t, s)
    PROVE  CInv'
<1>1. Arrive(t)
  BY DEF Arrive
<1>2. calls'[t].op \in {"create", "refund", "topup", "admins"}
  BY OthersArrive
<1>3. QED
  BY <1>1, <1>2, NewViewStep DEF LoopFresh, ExecFresh

------------------------------------------------------------------------------
(* The invariant *)

LEMMA ConditionStep ==
    ASSUME GovernanceSerializes, TwoConditions, IInv, CInv, [Next]_vars
    PROVE  CInv'
<1>1. ASSUME UNCHANGED <<requests, calls>> PROVE CInv'
  BY <1>1 DEF CInv, OneRequestPerCondition, LoopFresh, ExecFresh
<1>2. ASSUME NEW t \in Task, Arrive(t) PROVE CInv'
  BY <1>2, ExecStartFresh, LockStartFresh, OtherStartFresh DEF Arrive
<1>3. ASSUME NEW t \in Task, Resume(t) PROVE CInv'
  <2>1. CASE ExecDone(t) \/ LockDone(t) \/ LockFailed(t)
    BY <2>1, ExecDoneFresh, LockDoneFresh, LockFailedFresh
  <2>2. CASE ~ExecDone(t) /\ ~LockDone(t) /\ ~LockFailed(t)
    <3>1. calls'[t] = NoCall \/ SameView(calls'[t], calls[t])
      BY <1>3, <2>2, ResumeView
    <3>2. CreateDone(t) \/ RefundDone(t) => calls'[t] = NoCall
      BY DEF CreateDone, RefundDone, Return, Go, IInv, TypeOK
    <3>3. CreateDone(t) \/ RefundDone(t) \/ UNCHANGED requests
      BY <1>3, <2>2 DEF Resume, NotifyTopUp, ExecPriced, ExecFunded, ExecFailed,
         CreateFailed, CreateConverted, RefundTooLow, RefundSend, RefundFailed,
         TopUpSend, TopUpFailed, TopUpDone, AdminsDone, LockPanicked, Trap, state
    <3>4. QED
      BY <1>3, <2>2, <3>1, <3>2, <3>3, ConditionsGiven, OthersKept,
         RequestsWritten, ViewKept
  <2>3. QED
    BY <2>1, <2>2
<1>4. ASSUME NEW t \in Task, Answer(t) PROVE CInv'
  <2>1. UNCHANGED requests
    BY <1>4, AnswerFacts
  <2>2. RequestsGuarded(t) /\ ConditionsKept
    BY <2>1 DEF RequestsGuarded, ConditionsKept
  <2>3. QED
    BY <1>4, <2>1, <2>2, AnswerView, OthersKept, ViewKept
<1>5. ASSUME NEW u \in User, NEW c \in Condition, ExecRefused(u, c) PROVE CInv'
  BY <1>5, <1>1 DEF ExecRefused
<1>6. ASSUME NEW u \in User, Pay(u) PROVE CInv'
  BY <1>6, <1>1 DEF Pay, state
<1>7. CASE NewDay
  BY <1>7, <1>1 DEF NewDay, state
<1>8. CASE UNCHANGED vars
  BY <1>8, <1>1 DEF vars, state
<1>9. QED
  BY <1>2, <1>3, <1>4, <1>5, <1>6, <1>7, <1>8 DEF Next

\* Two pending requests never ask for the same conditions, if governance executes
\* one rental proposal at a time and there are no more than two conditions, with
\* any number of users and of locking loops under way.
THEOREM ConditionsApart ==
    ASSUME GovernanceSerializes, TwoConditions
    PROVE  Spec => []OneRequestPerCondition
<1>1. Init => CInv
  BY DEF Init, CInv, OneRequestPerCondition, LoopFresh, ExecFresh, NoCall
<1>2. IInv /\ CInv /\ [Next]_vars => CInv'
  BY ConditionStep
<1>3. CInv => OneRequestPerCondition
  BY DEF CInv
<1>4. QED
  BY <1>1, <1>2, <1>3, Invariant, PTL DEF Spec

------------------------------------------------------------------------------
(* The pace of the locking *)

(***************************************************************************)
(* The locking keeps its pace: one part at the start, one more each        *)
(* period, and never more than all the parts, although the loop works with *)
(* a list of requests that may be old by the time it gets to them, several *)
(* loops may be under way, and a locking overwrites the request it finds.  *)
(*                                                                         *)
(* The argument is that every copy of a request, in the map or in a list   *)
(* of a loop, keeps the pace by itself: what it has locked is justified by *)
(* the time between its own creation and its own last locking.  A locking  *)
(* is computed from one such copy, so it does not matter how old that is.  *)
(***************************************************************************)

\* What request r has locked is a number of whole parts, not more than there are
\* and not more than the periods up to its last locking.
Paced(r) ==
    /\ r.created <= r.last
    /\ \E k \in Nat :
          /\ r.locked = Share(r.cost) * k
          /\ k <= LOCK_PARTS
          /\ k <= 1 + ((r.last - r.created) \div LOCK_PERIOD_DAYS)

\* The loop f works on a listed request that was due, in a list that keeps the pace.
LoopPaced(f) == f.op = "lock" =>
    /\ Paced(f.copy)
    /\ Due(f.copy, f.day)
    /\ f.day <= now
    /\ \A u \in User : f.snap[u] # None => Paced(f.snap[u])

PInv ==
    /\ \A u \in User : requests[u] # None => Paced(requests[u]) /\ requests[u].last <= now
    /\ \A t \in Task : LoopPaced(calls[t])

------------------------------------------------------------------------------
(* Arithmetic *)

\* More parts, more locked.
LEMMA PartsMonotone == \A a, b, c \in Nat : b <= c => a * b <= a * c
<1> SUFFICES ASSUME NEW a \in Nat, NEW b \in Nat, NEW c \in Nat, b <= c
             PROVE  a * b <= a * c
  OBVIOUS
<1>1. c - b \in Nat /\ a * (c - b) \in Nat
  OBVIOUS
<1>2. a * c = a * b + a * (c - b)
  OBVIOUS
<1>3. a * b \in Nat /\ a * c \in Nat
  OBVIOUS
<1>4. QED
  BY <1>1, <1>2, <1>3

\* What is locked is below the total only if a part is left.
LEMMA PartLeft == \A a, b, c \in Nat : a * b < a * c => b + 1 <= c
<1> SUFFICES ASSUME NEW a \in Nat, NEW b \in Nat, NEW c \in Nat, a * b < a * c
             PROVE  b + 1 <= c
  OBVIOUS
<1>1. a * b \in Nat /\ a * c \in Nat
  OBVIOUS
<1>2. ~(c <= b)
  BY <1>1, PartsMonotone
<1>3. QED
  BY <1>2

\* Whole periods in a time: not fewer in a longer one, and one more after one more.
LEMMA PeriodsMonotone ==
    ASSUME NEW m \in Nat, NEW n \in Nat
    PROVE  /\ m \div LOCK_PERIOD_DAYS \in Nat
           /\ m <= n => m \div LOCK_PERIOD_DAYS <= n \div LOCK_PERIOD_DAYS
           /\ m + LOCK_PERIOD_DAYS <= n =>
                 (m \div LOCK_PERIOD_DAYS) + 1 <= n \div LOCK_PERIOD_DAYS
<1> DEFINE p == LOCK_PERIOD_DAYS
<1> DEFINE i == m \div p
<1> DEFINE j == n \div p
<1>1. p \in Nat /\ p > 0
  BY LockAssumption
<1>2. /\ i \in Nat /\ p * i <= m /\ m < p * (i + 1)
      /\ j \in Nat /\ p * j <= n /\ n < p * (j + 1)
  BY <1>1
<1>3. p * i \in Nat /\ p * (i + 1) \in Nat /\ p * j \in Nat /\ p * (j + 1) \in Nat
      /\ p * (i + 1) = p * i + p
  BY <1>1, <1>2
<1>4. m <= n => i <= j
  <2>1. m <= n => p * i < p * (j + 1)
    BY <1>2, <1>3
  <2>2. QED
    BY <1>1, <1>2, <2>1, PartLeft
<1>5. m + p <= n => i + 1 <= j
  <2>1. m + p <= n => p * (i + 1) < p * (j + 1)
    BY <1>1, <1>2, <1>3
  <2>2. QED
    BY <1>1, <1>2, <2>1, PartLeft
<1>6. QED
  BY <1>2, <1>4, <1>5

\* Another locking of a paced request that is due keeps the pace.
LEMMA LockedPaced ==
    ASSUME NEW f \in Call, f.copy \in Request, Paced(f.copy), Due(f.copy, f.day)
    PROVE  Paced(Locked(f)) /\ Locked(f).last = f.day
<1> DEFINE r == f.copy
<1> DEFINE s == Share(r.cost)
<1> DEFINE i == (r.last - r.created) \div LOCK_PERIOD_DAYS
<1> DEFINE j == (f.day - r.created) \div LOCK_PERIOD_DAYS
<1>1. /\ r.created \in Nat /\ r.last \in Nat /\ f.day \in Nat /\ s \in Nat
      /\ LOCK_PARTS \in Nat /\ LOCK_PERIOD_DAYS \in Nat
  BY ShareNat, LockAssumption DEF Request, Call
<1>2. r.last - r.created \in Nat /\ f.day - r.last >= LOCK_PERIOD_DAYS
  BY <1>1 DEF Paced, Due
<1>3. /\ f.day - r.created \in Nat
      /\ (r.last - r.created) + LOCK_PERIOD_DAYS <= f.day - r.created
  BY <1>1, <1>2
<1>4. i \in Nat /\ j \in Nat /\ i + 1 <= j
  BY <1>2, <1>3, PeriodsMonotone
<1>5. PICK k \in Nat : r.locked = s * k /\ k <= LOCK_PARTS /\ k <= 1 + i
  BY DEF Paced
<1>6. k + 1 <= LOCK_PARTS
  BY <1>1, <1>5, PartLeft DEF Due
<1>7. k + 1 <= 1 + j /\ k + 1 \in Nat
  BY <1>4, <1>5
<1>8. r.locked + s = s * (k + 1)
  BY <1>1, <1>5
<1>9. /\ Locked(f).cost = r.cost
      /\ Locked(f).locked = r.locked + s
      /\ Locked(f).created = r.created
      /\ Locked(f).last = f.day
  BY DEF Locked, Request
<1>10. r.created <= f.day
  BY <1>1, <1>3
<1>11. /\ Locked(f).locked = Share(Locked(f).cost) * (k + 1)
       /\ Locked(f).created <= Locked(f).last
       /\ k + 1 <= 1 + ((Locked(f).last - Locked(f).created) \div LOCK_PERIOD_DAYS)
  BY <1>7, <1>8, <1>9, <1>10
<1>12. QED
  BY <1>6, <1>7, <1>9, <1>11 DEF Paced

------------------------------------------------------------------------------
(* Steps *)

\* The clock goes on, requests stay, come with one part, or are replaced by one
\* that keeps the pace, and call t sees requests that do.
LEMMA PaceStep ==
    ASSUME IInv, PInv, now' \in Nat, now <= now', NEW t \in Task,
           \A d \in Task : d # t => calls'[d] = calls[d],
           \A u \in User : requests'[u] # None =>
               \/ requests'[u] = requests[u]
               \/ Paced(requests'[u]) /\ requests'[u].last <= now',
           LoopPaced(calls[t])'
    PROVE  PInv'
<1>1. ASSUME NEW u \in User, requests'[u] # None
      PROVE  Paced(requests'[u]) /\ requests'[u].last <= now'
  <2>1. CASE requests'[u] = requests[u]
    <3>1. requests[u].last \in Nat /\ now \in Nat
      BY <1>1, <2>1 DEF IInv, TypeOK, Request
    <3>2. QED
      BY <1>1, <2>1, <3>1 DEF PInv
  <2>2. QED
    BY <1>1, <2>1
<1>2. ASSUME NEW d \in Task, d # t PROVE LoopPaced(calls[d])'
  <2>1. calls[d].day \in Nat /\ now \in Nat
    BY DEF IInv, TypeOK, Call
  <2>2. QED
    BY <1>2, <2>1 DEF PInv, LoopPaced
<1>3. QED
  BY <1>1, <1>2 DEF PInv

\* The calls whose view does not change, or that are no loop any more.
LEMMA SameLoop ==
    ASSUME IInv, PInv, NEW t \in Task, UNCHANGED now,
           calls'[t].op # "lock" \/ SameView(calls'[t], calls[t])
    PROVE  LoopPaced(calls[t])'
BY DEF PInv, LoopPaced, SameView

\* The loop ends or goes on to a request of its list that is due.
LEMMA NextPaced ==
    ASSUME calls \in [Task -> Call], NEW t \in Task, NEW f \in Call, NEW held,
           NextInLoop(t, f, held), f.day <= now, UNCHANGED now,
           \A u \in User : f.snap[u] # None => Paced(f.snap[u])
    PROVE  LoopPaced(calls[t])'
<1>1. CASE Go(t, NoCall)
  BY <1>1 DEF Go, LoopPaced, NoCall
<1>2. ASSUME NEW u \in Pending(f, held),
             Go(t, Await([f EXCEPT !.user = u, !.copy = f.snap[u]], "transfer"))
      PROVE  LoopPaced(calls[t])'
  <2>1. u \in User /\ Due(f.snap[u], f.day) /\ f.snap[u] # None
    BY DEF Pending, Due
  <2>2. /\ calls'[t].copy = f.snap[u]
        /\ calls'[t].snap = f.snap
        /\ calls'[t].day = f.day
    BY <1>2 DEF Go, Await, Call
  <2>3. QED
    BY <2>1, <2>2 DEF LoopPaced
<1>3. QED
  BY <1>1, <1>2 DEF NextInLoop

LEMMA LockStartPaced ==
    ASSUME IInv, PInv, NEW t \in Task, LockStart(t)
    PROVE  LoopPaced(calls[t])'
<1> DEFINE f == [NoCall EXCEPT !.op = "lock", !.snap = requests, !.day = now]
<1>1. /\ requests \in [User -> Request \cup {None}] /\ now \in Nat
      /\ calls \in [Task -> Call]
  BY DEF IInv, TypeOK
<1>2. f \in Call /\ f.snap = requests /\ f.day = now
  BY <1>1, NoCallFacts DEF NoCall, Call, Op
<1>3. f.day <= now /\ \A u \in User : f.snap[u] # None => Paced(f.snap[u])
  BY <1>1, <1>2 DEF PInv
<1>4. NextInLoop(t, f, locks) /\ UNCHANGED now
  BY DEF LockStart
<1> HIDE DEF f
<1>5. QED
  BY <1>1, <1>2, <1>3, <1>4, NextPaced

LEMMA LoopOnPaced ==
    ASSUME IInv, PInv, NEW t \in Task, calls[t].op = "lock", UNCHANGED now,
           NEW held, NextInLoop(t, calls[t], held)
    PROVE  LoopPaced(calls[t])'
<1>1. calls \in [Task -> Call] /\ calls[t] \in Call
  BY DEF IInv, TypeOK
<1>2. /\ calls[t].day <= now
      /\ \A u \in User : calls[t].snap[u] # None => Paced(calls[t].snap[u])
  BY DEF PInv, LoopPaced
<1>3. QED
  BY <1>1, <1>2, NextPaced

\* The first part is locked with the request.
LEMMA ExecDonePaced ==
    ASSUME IInv, NEW t \in Task, ExecDone(t)
    PROVE  \A u \in User : requests'[u] # None =>
               \/ requests'[u] = requests[u]
               \/ Paced(requests'[u]) /\ requests'[u].last <= now
<1> DEFINE f == calls[t]
<1> DEFINE r == [cost |-> f.amount, locked |-> Share(f.amount), cycles |-> f.val,
                 cond |-> f.cond, created |-> now, last |-> now]
<1>1. f.user \in User /\ f.amount \in Nat /\ now \in Nat
  BY CallTyped, OpenCall DEF ExecDone, Resumed, IInv, TypeOK
<1>2. requests' = [requests EXCEPT ![f.user] = r]
  BY DEF ExecDone
<1>3. /\ requests'[f.user] = r
      /\ \A u \in User : u # f.user => requests'[u] = requests[u]
  BY <1>1, <1>2 DEF IInv, TypeOK
<1>4. Paced(r)
  <2>1. /\ r.created = now /\ r.last = now /\ r.cost = f.amount
        /\ r.locked = Share(f.amount)
    OBVIOUS
  <2>2. Share(f.amount) \in Nat
    BY <1>1, ShareNat
  <2>3. Share(f.amount) = Share(f.amount) * 1
    BY <2>2
  <2>4. 1 <= LOCK_PARTS /\ LOCK_PERIOD_DAYS \in Nat \ {0}
    BY LockAssumption
  <2>5. 1 <= 1 + ((now - now) \div LOCK_PERIOD_DAYS)
    <3>1. now - now = 0
      BY <1>1
    <3>2. 0 \div LOCK_PERIOD_DAYS \in Nat
      BY PeriodsMonotone
    <3>3. QED
      BY <3>1, <3>2
  <2>6. QED
    BY <1>1, <2>1, <2>3, <2>4, <2>5 DEF Paced
<1>5. r.last <= now
  BY <1>1
<1> HIDE DEF r
<1>6. QED
  BY <1>3, <1>4, <1>5

\* The locking replaces the request by its listed copy with another part.
LEMMA LockDonePaced ==
    ASSUME IInv, PInv, NEW t \in Task, LockDone(t)
    PROVE  \A u \in User : requests'[u] # None =>
               \/ requests'[u] = requests[u]
               \/ Paced(requests'[u]) /\ requests'[u].last <= now
<1> DEFINE f == calls[t]
<1>1. f \in Call /\ f.op = "lock" /\ f.user \in User /\ f.copy \in Request
  BY CallTyped, OpenCall DEF LockDone, Resumed, CallOK
<1>2. Paced(f.copy) /\ Due(f.copy, f.day) /\ f.day <= now
  BY <1>1 DEF PInv, LoopPaced
<1>3. Paced(Locked(f)) /\ Locked(f).last <= now
  BY <1>1, <1>2, LockedPaced
<1>4. /\ requests'[f.user] = Locked(f)
      /\ \A u \in User : u # f.user => requests'[u] = requests[u]
  BY <1>1 DEF LockDone, IInv, TypeOK
<1>5. QED
  BY <1>3, <1>4

\* Nothing but the clock's own step moves the clock.
LEMMA ClockStill ==
    ASSUME NEW t \in Task, Arrive(t) \/ Resume(t) \/ Answer(t)
    PROVE  UNCHANGED now
<1>1. Arrive(t) => UNCHANGED now
  BY DEF Arrive, ExecStart, CreateStart, RefundStart, TopUpStart, AdminsStart, LockStart
<1>2. Resume(t) => UNCHANGED now
  BY DEF Resume, NotifyTopUp, ExecPriced, ExecFunded, ExecFailed, ExecDone,
     CreateFailed, CreateConverted, CreateDone, RefundTooLow, RefundSend,
     RefundFailed, RefundDone, TopUpSend, TopUpFailed, TopUpDone, AdminsDone,
     LockFailed, LockDone, LockPanicked, Trap
<1>3. Answer(t) => UNCHANGED now
  BY DEF Answer, XrcAnswers, LedgerBalance, LedgerTransfers, LedgerRefuses,
     CmcMints, CmcAuthorizes, RegistryAnswers, CalleeFails, Answers
<1>4. QED
  BY <1>1, <1>2, <1>3

------------------------------------------------------------------------------
(* The invariant *)

LEMMA PacingStep == IInv /\ PInv /\ [Next]_vars => PInv'
<1> SUFFICES ASSUME IInv, PInv, [Next]_vars PROVE PInv'
  OBVIOUS
<1>1. now \in Nat
  BY DEF IInv, TypeOK
<1>2. ASSUME UNCHANGED <<requests, calls, now>> PROVE PInv'
  BY <1>2 DEF PInv, LoopPaced
<1>3. ASSUME NEW t \in Task, Arrive(t) PROVE PInv'
  <2>1. LoopPaced(calls[t])'
    <3>1. CASE LockStart(t)
      BY <3>1, LockStartPaced
    <3>2. CASE ~LockStart(t)
      BY <1>3, <3>2, ExecArrives, OthersArrive DEF Arrive, LoopPaced
    <3>3. QED
      BY <3>1, <3>2
  <2>2. QED
    BY <1>1, <1>3, <2>1, ArriveFacts, OthersKept, ClockStill, PaceStep
<1>4. ASSUME NEW t \in Task, Resume(t) PROVE PInv'
  <2>1. UNCHANGED now /\ \A d \in Task : d # t => calls'[d] = calls[d]
    BY <1>4, OthersKept, ClockStill
  <2>2. LoopPaced(calls[t])'
    <3>1. CASE LockFailed(t) \/ LockDone(t)
      <4>1. calls[t].op = "lock"
        BY <3>1 DEF LockFailed, LockDone, ConversionFailed, Resumed
      <4>2. PICK held : NextInLoop(t, calls[t], held)
        BY <3>1 DEF LockFailed, LockDone
      <4>3. QED
        BY <2>1, <4>1, <4>2, LoopOnPaced
    <3>2. CASE ~LockFailed(t) /\ ~LockDone(t)
      BY <1>4, <2>1, <3>2, ResumeView, SameLoop DEF NoCall
    <3>3. QED
      BY <3>1, <3>2
  <2>3. \A u \in User : requests'[u] # None =>
            \/ requests'[u] = requests[u]
            \/ Paced(requests'[u]) /\ requests'[u].last <= now
    BY <1>4, ExecDonePaced, LockDonePaced, RequestsLeft
  <2>4. QED
    BY <1>1, <2>1, <2>2, <2>3, PaceStep
<1>5. ASSUME NEW t \in Task, Answer(t) PROVE PInv'
  <2>1. LoopPaced(calls[t])'
    BY <1>5, AnswerView, ClockStill, SameLoop
  <2>2. QED
    BY <1>1, <1>5, <2>1, AnswerFacts, OthersKept, ClockStill, PaceStep
<1>6. ASSUME NEW u \in User, NEW c \in Condition, ExecRefused(u, c) PROVE PInv'
  BY <1>6, <1>2 DEF ExecRefused
<1>7. ASSUME NEW u \in User, Pay(u) PROVE PInv'
  BY <1>7, <1>2 DEF Pay, state
<1>8. CASE NewDay
  <2>1. now' = now + 1 /\ UNCHANGED <<requests, calls>>
    BY <1>8 DEF NewDay, state
  <2>2. \A u \in User : requests[u] # None => requests[u].last \in Nat
    BY DEF IInv, TypeOK, Request
  <2>3. \A t \in Task : calls[t].day \in Nat
    BY DEF IInv, TypeOK, Call
  <2>4. QED
    BY <1>1, <2>1, <2>2, <2>3 DEF PInv, LoopPaced
<1>9. CASE UNCHANGED vars
  BY <1>9, <1>2 DEF vars, state
<1>10. QED
  BY <1>3, <1>4, <1>5, <1>6, <1>7, <1>8, <1>9 DEF Next

\* Every copy of a request keeps the pace, from the start on.
LEMMA PaceInvariant == Spec => []PInv
<1>1. Init => PInv
  BY DEF Init, PInv, LoopPaced, NoCall
<1>2. QED
  BY <1>1, PacingStep, Invariant, PTL DEF Spec
==============================================================================
