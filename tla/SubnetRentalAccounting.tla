------------------------ MODULE SubnetRentalAccounting ------------------------
(***************************************************************************)
(* Where the cycles and the ICP are, for any number of users, subnets, open*)
(* calls and overlapping locking runs, and with any callee failing.        *)
(*                                                                         *)
(* A user's cycles are a sum over that user's request, agreements and open *)
(* calls, and the ICP of a request is a balance and a sum over calls.  A   *)
(* step is made by one call and writes one agreement at most, so it changes*)
(* a sum by what it changes in that call and that agreement (SumUpdate),   *)
(* and each action has a lemma that says where its amount goes from and to.*)
(*                                                                         *)
(* The lemmas are about one user.  What goes astray for a user is noted by *)
(* the audit when it happens: a locking that goes on with an old entry, a  *)
(* conversion that the CMC does not mint for, a creation that it rejects.  *)
(* No step takes anything from a user but those.                           *)
(***************************************************************************)
EXTENDS SubnetRentalLocking, SubnetRentalAudit, Sums

------------------------------------------------------------------------------
(* Steps of a call *)

\* An arriving call waits for the first answer, and converts nothing yet.
LEMMA ArriveWaits ==
    ASSUME IInv, NEW t \in Task, Arrive(t)
    PROVE  /\ calls'[t].reply = "none"
           /\ calls'[t].at \notin {"notify", "whitelist"}
           /\ calls'[t].op = "admins" => calls'[t].at = "registry"
           /\ calls'[t].op = "exec" =>
                 \/ calls'[t].at = "rate"
                 \/ calls'[t].at = "balance" /\ calls'[t].amount \in Prices
<1> DEFINE Waits ==
      /\ calls'[t].reply = "none"
      /\ calls'[t].at \notin {"notify", "whitelist"}
      /\ calls'[t].op = "admins" => calls'[t].at = "registry"
      /\ calls'[t].op = "exec" =>
            \/ calls'[t].at = "rate"
            \/ calls'[t].at = "balance" /\ calls'[t].amount \in Prices
<1> USE DEF Enter, Go, Await, NoCall, IInv, TypeOK
<1>1. ASSUME NEW u \in User, NEW c \in Condition, ExecStart(t, u, c) PROVE Waits
  <2> DEFINE f == [NoCall EXCEPT !.op = "exec", !.user = u, !.cond = c]
  <2>1. CASE Enter(t, f, "rate")
    <3>1. calls'[t] = Await(f, "rate")
      BY <2>1
    <3>2. QED
      BY <3>1
  <2>2. ASSUME NEW price \in Prices, Enter(t, [f EXCEPT !.amount = price], "balance")
        PROVE  Waits
    <3>1. calls'[t] = Await([f EXCEPT !.amount = price], "balance")
      BY <2>2
    <3>2. QED
      BY <3>1
  <2>3. QED
    BY <1>1, <2>1, <2>2 DEF ExecStart
<1>2. ASSUME NEW u \in User, NEW s \in Subnet, CreateStart(t, u, s) PROVE Waits
  <2> DEFINE f == [NoCall EXCEPT !.op = "create", !.user = u, !.subnet = s,
                                 !.copy = requests[u]]
  <2>1. calls'[t] = Await(f, "transfer")
    BY <1>2 DEF CreateStart
  <2>2. QED
    BY <2>1
<1>3. ASSUME NEW u \in User, RefundStart(t, u) PROVE Waits
  BY <1>3 DEF RefundStart
<1>4. ASSUME NEW s \in Subnet, TopUpStart(t, s) PROVE Waits
  <2> DEFINE f == [NoCall EXCEPT !.op = "topup", !.subnet = s,
                                 !.user = agreements[s].user,
                                 !.copy = agreements[s]]
  <2>1. calls'[t] = Await(f, "balance")
    BY <1>4 DEF TopUpStart
  <2>2. QED
    BY <2>1
<1>5. ASSUME NEW s \in Subnet, AdminsStart(t, s) PROVE Waits
  <2> DEFINE f == [NoCall EXCEPT !.op = "admins", !.subnet = s,
                                 !.user = agreements[s].user]
  <2>1. calls'[t] = Await(f, "registry")
    BY <1>5 DEF AdminsStart
  <2>2. QED
    BY <2>1
<1>6. CASE LockStart(t)
  <2> DEFINE f == [NoCall EXCEPT !.op = "lock", !.snap = requests, !.day = now]
  <2>1. CASE Go(t, NoCall)
    BY <2>1
  <2>2. ASSUME NEW u \in User,
               Go(t, Await([f EXCEPT !.user = u, !.copy = f.snap[u]], "transfer"))
        PROVE  Waits
    <3>1. calls'[t] = Await([f EXCEPT !.user = u, !.copy = f.snap[u]], "transfer")
      BY <2>2
    <3>2. QED
      BY <3>1
  <2>3. QED
    BY <1>6, <2>1, <2>2 DEF LockStart, NextInLoop, Pending
<1>7. QED
  BY <1>1, <1>2, <1>3, <1>4, <1>5, <1>6 DEF Arrive

\* A handler that goes on waits for another answer: for a conversion if it has
\* just sent the transfer's notification.
LEMMA ResumeWaits ==
    ASSUME IInv, NEW t \in Task, Resume(t)
    PROVE  /\ calls'[t].reply = "none"
           /\ calls'[t].at = "notify" => NotifyTopUp(t)
           /\ calls'[t].op # "admins"
<1> DEFINE Quiet == /\ calls'[t].reply = "none"
                    /\ calls'[t].at # "notify"
                    /\ calls'[t].op # "admins"
<1>1. calls \in [Task -> Call] /\ calls[t] \in Call /\ calls[t].val \in Nat
  BY CallTyped DEF IInv, TypeOK
<1>2. ASSUME calls[t].op # "admins", NEW c \in Callee \ {"notify"},
             Go(t, Await(calls[t], c))
      PROVE  Quiet
  BY <1>1, <1>2 DEF Go, Await, Call
<1>3. ASSUME calls[t].op # "admins", NEW c \in Callee \ {"notify"},
             Go(t, Await([calls[t] EXCEPT !.amount = calls[t].val], c))
      PROVE  Quiet
  BY <1>1, <1>3 DEF Go, Await, Call
<1>4. ASSUME Return(t) PROVE Quiet
  BY <1>1, <1>4 DEF Return, Go, NoCall
<1>5. ASSUME calls[t].op = "lock", NEW held, NextInLoop(t, calls[t], held) PROVE Quiet
  <2>1. CASE Go(t, NoCall)
    BY <1>1, <2>1 DEF Go, NoCall
  <2>2. ASSUME NEW u \in User,
               Go(t, Await([calls[t] EXCEPT !.user = u, !.copy = calls[t].snap[u]], "transfer"))
        PROVE  Quiet
    BY <1>1, <1>5, <2>2 DEF Go, Await, Call
  <2>3. QED
    BY <1>5, <2>1, <2>2 DEF NextInLoop, Pending
<1> HIDE DEF Quiet
<1>6. ASSUME ExecPriced(t) PROVE Quiet
  BY <1>6, <1>3 DEF ExecPriced, Resumed, Callee
<1>7. ASSUME ExecFunded(t) PROVE Quiet
  BY <1>7, <1>2 DEF ExecFunded, Resumed, Callee
<1>8. ASSUME CreateConverted(t) PROVE Quiet
  BY <1>8, <1>3 DEF CreateConverted, Resumed, Callee
<1>9. ASSUME RefundSend(t) PROVE Quiet
  BY <1>9, <1>3 DEF RefundSend, Resumed, Callee
<1>10. ASSUME TopUpSend(t) PROVE Quiet
  BY <1>10, <1>3 DEF TopUpSend, Resumed, Callee
<1>11. ASSUME ExecFailed(t) \/ ExecDone(t) \/ CreateFailed(t) \/ CreateDone(t)
              \/ RefundTooLow(t) \/ RefundFailed(t) \/ RefundDone(t)
              \/ TopUpFailed(t) \/ TopUpDone(t) \/ AdminsDone(t)
              \/ LockPanicked(t) \/ Trap(t)
       PROVE  Quiet
  BY <1>11, <1>4 DEF ExecFailed, ExecDone, CreateFailed, CreateDone, RefundTooLow,
     RefundFailed, RefundDone, TopUpFailed, TopUpDone, AdminsDone, LockPanicked, Trap
<1>12. ASSUME LockFailed(t) \/ LockDone(t) PROVE Quiet
  BY <1>12, <1>5 DEF LockFailed, LockDone, ConversionFailed, Resumed
<1>13. ASSUME NotifyTopUp(t) PROVE calls'[t].reply = "none" /\ calls'[t].op # "admins"
  BY <1>1, <1>13 DEF NotifyTopUp, Go, Await, Call
<1>14. Quiet \/ NotifyTopUp(t)
  BY <1>6, <1>7, <1>8, <1>9, <1>10, <1>11, <1>12 DEF Resume
<1>15. QED
  BY <1>13, <1>14 DEF Quiet

\* A callee changes the reply and its value, and nothing else of the call.
LEMMA AnswerKeeps ==
    ASSUME IInv, NEW t \in Task, Answer(t)
    PROVE  calls'[t].amount = calls[t].amount /\ calls'[t].copy = calls[t].copy
<1>1. ASSUME NEW c, NEW r, NEW v, Answers(t, c, r, v)
      PROVE  calls'[t].amount = calls[t].amount /\ calls'[t].copy = calls[t].copy
  BY <1>1 DEF Answers, Go, IInv, TypeOK, Call
<1>2. QED
  BY <1>1 DEF Answer, XrcAnswers, LedgerBalance, LedgerTransfers, LedgerRefuses,
              CmcMints, CmcAuthorizes, RegistryAnswers, CalleeFails

\* The admins are only ever changed by the registry.
AdminsAsked == \A t \in Task : calls[t].op = "admins" => calls[t].at = "registry"

LEMMA AdminsAskedStep == IInv /\ AdminsAsked /\ [Next]_vars => AdminsAsked'
<1> SUFFICES ASSUME IInv, AdminsAsked, [Next]_vars PROVE AdminsAsked'
  OBVIOUS
<1>1. ASSUME NEW t \in Task, Arrive(t) \/ Resume(t) \/ Answer(t) PROVE AdminsAsked'
  <2>1. calls'[t].op = "admins" => calls'[t].at = "registry"
    BY <1>1, ArriveWaits, ResumeWaits, AnswerFacts DEF AdminsAsked
  <2>2. QED
    BY <1>1, <2>1, OthersKept DEF AdminsAsked
<1>2. CASE UNCHANGED calls
  BY <1>2 DEF AdminsAsked
<1>3. QED
  BY <1>1, <1>2 DEF Next, ExecRefused, Pay, NewDay, vars

------------------------------------------------------------------------------
(* The audit *)

\* The audited canister makes the canister's steps.
LEMMA AuditStep == [AuditNext]_auditVars => [Next]_vars
BY DEF AuditNext, auditVars

LEMMA AuditBehaves == AuditSpec => Spec
BY AuditStep, PTL DEF AuditSpec, AuditInit, Spec

\* What is noted stays noted, as long as the request is there for short.
LEMMA NotesKept ==
    ASSUME [AuditNext]_auditVars, NEW u \in User
    PROVE  /\ u \in outdated => u \in outdated'
           /\ u \in orphaned => u \in orphaned'
           /\ u \in short /\ requests'[u] # None => u \in short'
BY DEF AuditNext, Noted, auditVars, audit

\* Call t has lost ICP or cycles of its user, which its handler is about to leave.
Lost(t) == Unauthorized(t) \/ Unminted(t)

\* The users of such calls are noted, and only requests have conversions.
Noticed ==
    /\ \A t \in Task : Unauthorized(t) => calls[t].user \in orphaned
    /\ \A t \in Task : Lost(t) /\ requests[calls[t].user] # None => calls[t].user \in short
    /\ converted \in [User -> Nat]
    /\ \A u \in User : requests[u] = None => converted[u] = 0

LEMMA NoticedStep ==
    ASSUME IInv', Noticed, [AuditNext]_auditVars
    PROVE  Noticed'
<1>1. CASE UNCHANGED auditVars
  BY <1>1 DEF Noticed, Lost, Unauthorized, Unminted, auditVars, vars, state, audit
<1>2. CASE Noted
  <2>1. ASSUME NEW t \in Task, Unauthorized(t)' PROVE calls'[t].user \in orphaned'
    BY <1>2, <2>1 DEF Noted, UsersOf
  <2>2. ASSUME NEW t \in Task, Lost(t)', requests'[calls'[t].user] # None
        PROVE  calls'[t].user \in short'
    BY <1>2, <2>2 DEF Noted, UsersOf, Lost
  <2>3. converted' \in [User -> Nat] /\ \A u \in User : requests'[u] = None => converted'[u] = 0
    BY <1>2 DEF Noted, Noticed
  <2>4. QED
    BY <2>1, <2>2, <2>3 DEF Noticed
<1>3. QED
  BY <1>1, <1>2 DEF AuditNext

LEMMA InitNoticed == AuditInit => Noticed
BY DEF AuditInit, Init, Noticed, Lost, Unauthorized, Unminted, NoCall

------------------------------------------------------------------------------
(* The lockings *)

\* Every locking for u works on the request there is.
Current(u) ==
    \A t \in Task : calls[t].op = "lock" /\ calls[t].user = u => requests[u] = calls[t].copy

LEMMA CurrentUsers ==
    ASSUME IInv
    PROVE  LocksCurrent <=> \A u \in User \ outdated : Current(u)
BY OpenCall DEF LocksCurrent, Current

\* A locking that goes on for its user finds the request as it was: only the step
\* that is done with that user writes it.
LEMMA LoopStays ==
    ASSUME IInv, NEW t \in Task, Resume(t), calls[t].op = "lock",
           calls'[t].op = "lock", calls'[t].user = calls[t].user
    PROVE  calls'[t].copy = calls[t].copy /\ UNCHANGED requests
<1>1. calls[t] \in Call /\ calls[t].user \in User /\ calls[t].user # None
  BY CallTyped, OpenCall, NoneAssumption
<1>2. ~LockFailed(t) /\ ~LockDone(t)
  <2>1. SUFFICES ASSUME NEW held, NextInLoop(t, calls[t], held) PROVE FALSE
    BY DEF LockFailed, LockDone
  <2>2. calls'[t].user > calls[t].user
    BY <1>1, <2>1, LoopGoesOn DEF NoCall, IInv, TypeOK
  <2>3. calls[t].user \in Nat /\ calls[t].user > calls[t].user
    BY <1>1, <2>2, UserAssumption
  <2>4. ASSUME NEW n \in Nat, n > n PROVE FALSE
    BY <2>4
  <2>5. QED
    BY <2>3, <2>4
<1>3. SameView(calls'[t], calls[t])
  BY <1>2, ResumeView DEF NoCall
<1>4. UNCHANGED requests
  BY <1>2 DEF Resume, NotifyTopUp, ExecPriced, ExecFunded, ExecFailed, ExecDone,
     CreateFailed, CreateConverted, CreateDone, RefundTooLow, RefundSend,
     RefundFailed, RefundDone, TopUpSend, TopUpFailed, TopUpDone, AdminsDone,
     LockPanicked, Trap, state, Resumed, ConversionFailed
<1>5. QED
  BY <1>3, <1>4 DEF SameView

\* Nobody else writes the request of a user that a locking is at, and one that
\* turns to a user is noted if its entry is old.
LEMMA CurrentStep ==
    ASSUME IInv, IInv', [AuditNext]_auditVars, NEW u \in User, Current(u),
           u \notin outdated'
    PROVE  Current(u)'
<1>1. CASE UNCHANGED <<requests, calls>>
  BY <1>1 DEF Current
<1>2. ASSUME Noted, NEW t \in Task, Arrive(t) \/ Resume(t) \/ Answer(t)
      PROVE  Current(u)'
  <2>1. SUFFICES ASSUME NEW d \in Task, calls'[d].op = "lock", calls'[d].user = u
                 PROVE  requests'[u] = calls'[d].copy
    BY DEF Current
  <2>2. CASE ~(calls[d].op = "lock" /\ calls[d].user = u)
    BY <1>2, <2>1, <2>2 DEF Noted, TakesUpOutdated, TakesUp
  <2>3. CASE calls[d].op = "lock" /\ calls[d].user = u
    <3>1. requests[u] = calls[d].copy
      BY <2>3 DEF Current
    <3>2. CASE d # t
      <4>1. RequestsGuarded(t)
        BY <1>2, RequestsWritten, ArriveFacts, AnswerFacts DEF RequestsGuarded
      <4>2. <<u, "request">> \in Held(calls[d])
        BY <2>3, HeldFacts
      <4>3. requests'[u] = requests[u]
        BY <3>2, <4>1, <4>2 DEF RequestsGuarded, IInv, LocksOwned
      <4>4. QED
        BY <1>2, <3>1, <3>2, <4>3, OthersKept
    <3>3. CASE d = t
      <4>1. ~Arrive(t)
        BY <2>3, <3>3, ArriveFacts DEF NoCall
      <4>2. CASE Resume(t)
        BY <2>1, <2>3, <3>1, <3>3, <4>2, LoopStays
      <4>3. CASE Answer(t)
        BY <3>1, <3>3, <4>3, AnswerFacts, AnswerView DEF SameView
      <4>4. QED
        BY <1>2, <4>1, <4>2, <4>3
    <3>4. QED
      BY <3>2, <3>3
  <2>4. QED
    BY <2>2, <2>3
<1>3. QED
  BY <1>1, <1>2 DEF AuditNext, Next, ExecRefused, Pay, NewDay, auditVars, vars, state

LEMMA LocksCurrentStep == IInv /\ LocksCurrent /\ [AuditNext]_auditVars => LocksCurrent'
<1> SUFFICES ASSUME IInv, LocksCurrent, [AuditNext]_auditVars PROVE LocksCurrent'
  OBVIOUS
<1>1. IInv'
  BY NextInvariant, AuditStep
<1>2. ASSUME NEW t \in Task, calls'[t].op = "lock", calls'[t].user \notin outdated'
      PROVE  requests'[calls'[t].user] = calls'[t].copy
  <2>1. calls'[t].user \in User
    BY <1>1, <1>2 DEF IInv, TypeOK, CallOK
  <2>2. calls'[t].user \notin outdated
    BY <1>2, <2>1, NotesKept
  <2>3. Current(calls'[t].user)
    BY <2>1, <2>2, CurrentUsers
  <2>4. QED
    <3> DEFINE u == calls'[t].user
    <3>1. \A v \in User : Current(v) /\ v \notin outdated' => Current(v)'
      BY <1>1, CurrentStep
    <3>2. \A v \in User : Current(v)' =>
             (calls'[t].op = "lock" /\ calls'[t].user = v => requests'[v] = calls'[t].copy)
      BY DEF Current
    <3>3. QED
      BY <1>2, <2>1, <2>3, <3>1, <3>2
<1>3. QED
  BY <1>2 DEF LocksCurrent

\* What every step of the audited canister keeps.
Base == IInv /\ Noticed /\ AdminsAsked /\ LocksCurrent

LEMMA BaseStep == Base /\ [AuditNext]_auditVars => Base'
BY NextInvariant, AuditStep, NoticedStep, AdminsAskedStep, LocksCurrentStep DEF Base

LEMMA BaseInvariant == AuditSpec => []Base
<1>1. AuditInit => Base
  <2>1. AuditInit => AdminsAsked /\ LocksCurrent
    BY DEF AuditInit, Init, AdminsAsked, LocksCurrent, NoCall
  <2>2. QED
    BY <2>1, InitInvariant, InitNoticed DEF AuditInit, Base
<1>2. QED
  BY <1>1, BaseStep, PTL DEF AuditSpec

\* A locking that has taken up its user with a current entry works on the
\* request there is until it is done, with any number of users and loops.
THEOREM LocksAreCurrent == AuditSpec => []LocksCurrent
<1>1. Base => LocksCurrent
  BY DEF Base
<1>2. QED
  BY <1>1, BaseInvariant, PTL

------------------------------------------------------------------------------
(* Where the cycles are *)

\* The amounts the account of a user is made of are natural numbers.
LEMMA AccountNat ==
    ASSUME IInv, NEW u \in User
    PROVE  /\ InRequest(u) \in Nat
           /\ \A s \in Subnet : InAgreements(u)[s] \in Nat
           /\ \A t \in Task : InCalls(u)[t] \in Nat
           /\ DOMAIN InAgreements(u) = Subnet
           /\ DOMAIN InCalls(u) = Task
<1>1. InRequest(u) \in Nat
  BY DEF InRequest, IInv, TypeOK, Request
<1>2. \A s \in Subnet : InAgreements(u)[s] \in Nat
  BY DEF InAgreements, IInv, TypeOK, Agreement
<1>3. \A t \in Task : Unrecorded(t) \in Nat
  BY DEF Unrecorded, IInv, TypeOK, Call
<1>4. QED
  BY <1>1, <1>2, <1>3 DEF InAgreements, InCalls

\* The account is a sum over all the subnets and all the calls.
LEMMA AccountSums ==
    ASSUME IInv, NEW u \in User
    PROVE  /\ Accounted(u) = InRequest(u) + SumFunctionOnSet(InAgreements(u), Subnet)
                                          + SumFunctionOnSet(InCalls(u), Task)
           /\ SumFunctionOnSet(InAgreements(u), Subnet) \in Nat
           /\ SumFunctionOnSet(InCalls(u), Task) \in Nat
BY AccountNat, SumNat, FiniteAssumption DEF Accounted, SumFunction

\* So are they after a step, and the account is the same sum.
LEMMA NextAccountSums ==
    ASSUME IInv', NEW u \in User
    PROVE  /\ InRequest(u)' \in Nat
           /\ \A s \in Subnet : InAgreements(u)'[s] \in Nat
           /\ \A t \in Task : InCalls(u)'[t] \in Nat
           /\ Accounted(u)' = InRequest(u)' + SumFunctionOnSet(InAgreements(u)', Subnet)
                                            + SumFunctionOnSet(InCalls(u)', Task)
<1>1. InRequest(u)' \in Nat
  BY DEF InRequest, IInv, TypeOK, Request
<1>2. \A s \in Subnet : InAgreements(u)'[s] \in Nat
  BY DEF InAgreements, IInv, TypeOK, Agreement
<1>3. \A t \in Task : Unrecorded(t)' \in Nat
  BY DEF Unrecorded, IInv, TypeOK, Call
<1>4. DOMAIN InAgreements(u)' = Subnet /\ DOMAIN InCalls(u)' = Task
  BY DEF InAgreements, InCalls
<1>5. QED
  BY <1>1, <1>2, <1>3, <1>4 DEF InAgreements, InCalls, Accounted, SumFunction

\* A step of one call changes the sum over the calls by its change in this call.
LEMMA CallsChange ==
    ASSUME IInv, IInv', NEW u \in User, NEW t \in Task,
           \A d \in Task : d # t => calls'[d] = calls[d]
    PROVE  SumFunctionOnSet(InCalls(u)', Task)
              = SumFunctionOnSet(InCalls(u), Task) - InCalls(u)[t] + InCalls(u)'[t]
<1> DEFINE c == InCalls(u)
           d == InCalls(u)'
<1>1. \A k \in Task : c[k] \in Nat /\ d[k] \in Nat
  BY AccountNat, NextAccountSums
<1>2. \A k \in Task : k # t => d[k] = c[k]
  BY DEF InCalls, Unrecorded
<1> HIDE DEF c, d
<1>3. SumFunctionOnSet(d, Task) = SumFunctionOnSet(c, Task) - c[t] + d[t]
  BY <1>1, <1>2, SumUpdate, FiniteAssumption
<1>4. QED
  BY <1>3 DEF c, d

\* If it writes no agreement, the account changes by what it changes in the
\* request and in that call.
LEMMA AccountKept ==
    ASSUME IInv, IInv', NEW u \in User, NEW t \in Task,
           \A d \in Task : d # t => calls'[d] = calls[d], UNCHANGED agreements
    PROVE  Accounted(u)' = Accounted(u) - InRequest(u) - InCalls(u)[t]
                              + InRequest(u)' + InCalls(u)'[t]
<1> DEFINE A == SumFunctionOnSet(InAgreements(u), Subnet)
           C == SumFunctionOnSet(InCalls(u), Task)
           x == InCalls(u)[t]
           y == InCalls(u)'[t]
<1>1. Accounted(u) = InRequest(u) + A + C /\ A \in Nat /\ C \in Nat
  BY AccountSums
<1>2. InAgreements(u)' = InAgreements(u)
  BY DEF InAgreements
<1>3. Accounted(u)' = InRequest(u)' + A + (C - x + y)
  BY <1>2, NextAccountSums, CallsChange
<1>4. InRequest(u) \in Nat /\ InRequest(u)' \in Nat /\ x \in Nat /\ y \in Nat
  BY AccountNat, NextAccountSums
<1> HIDE DEF A, C, x, y
<1>5. Accounted(u)' = Accounted(u) - InRequest(u) - x + InRequest(u)' + y
  BY <1>1, <1>3, <1>4
<1>6. QED
  BY <1>5 DEF x, y

\* If it writes one, by what it changes in that agreement as well.
LEMMA AccountChange ==
    ASSUME IInv, IInv', NEW u \in User, NEW t \in Task, NEW s \in Subnet,
           \A d \in Task : d # t => calls'[d] = calls[d],
           \A z \in Subnet : z # s => agreements'[z] = agreements[z]
    PROVE  Accounted(u)' = Accounted(u)
              - InRequest(u) - InAgreements(u)[s] - InCalls(u)[t]
              + InRequest(u)' + InAgreements(u)'[s] + InCalls(u)'[t]
<1> DEFINE a == InAgreements(u)
           b == InAgreements(u)'
           A == SumFunctionOnSet(InAgreements(u), Subnet)
           C == SumFunctionOnSet(InCalls(u), Task)
           x == InCalls(u)[t]
           y == InCalls(u)'[t]
<1>1. Accounted(u) = InRequest(u) + A + C /\ A \in Nat /\ C \in Nat
  BY AccountSums
<1>2. /\ \A z \in Subnet : a[z] \in Nat /\ b[z] \in Nat
      /\ InRequest(u) \in Nat /\ InRequest(u)' \in Nat /\ x \in Nat /\ y \in Nat
  BY AccountNat, NextAccountSums
<1>3. \A z \in Subnet : z # s => b[z] = a[z]
  BY DEF InAgreements
<1>4. SumFunctionOnSet(b, Subnet) = A - a[s] + b[s]
  <2> HIDE DEF a, b
  <2>1. SumFunctionOnSet(b, Subnet) = SumFunctionOnSet(a, Subnet) - a[s] + b[s]
    BY <1>2, <1>3, SumUpdate, FiniteAssumption
  <2>2. QED
    BY <2>1 DEF a
<1>5. Accounted(u)' = InRequest(u)' + (A - a[s] + b[s]) + (C - x + y)
  BY <1>4, NextAccountSums, CallsChange
<1> HIDE DEF a, b, A, C, x, y
<1>6. Accounted(u)' = Accounted(u) - InRequest(u) - a[s] - x + InRequest(u)' + b[s] + y
  BY <1>1, <1>2, <1>5
<1>7. QED
  BY <1>6 DEF a, b, x, y

\* The account covers the request, its part.
LEMMA RequestInAccount ==
    ASSUME IInv, NEW u \in User
    PROVE  Accounted(u) \in Nat /\ InRequest(u) <= Accounted(u)
BY AccountNat, AccountSums

------------------------------------------------------------------------------
(* The steps, one after the other *)

\* The account of u follows u's cycles.
Balanced(u) == cycles[u] = Accounted(u)

\* A step that writes neither a map nor the cycles, and after which the call
\* speaks of as many cycles of u as before.
LEMMA SameAccount ==
    ASSUME IInv, IInv', NEW u \in User, Balanced(u), NEW t \in Task,
           \A d \in Task : d # t => calls'[d] = calls[d],
           UNCHANGED <<requests, agreements, cycles>>,
           \/ InCalls(u)[t] = 0 /\ Unrecorded(t)' = 0
           \/ calls'[t].user = calls[t].user /\ Unrecorded(t)' = Unrecorded(t)
    PROVE  Balanced(u)'
<1>1. InRequest(u)' = InRequest(u)
  BY DEF InRequest
<1>2. InCalls(u)'[t] = InCalls(u)[t]
  BY DEF InCalls
<1>3. InRequest(u) \in Nat /\ InCalls(u)[t] \in Nat
  BY AccountNat
<1>4. Accounted(u)' = Accounted(u) - InRequest(u) - InCalls(u)[t] + InRequest(u) + InCalls(u)[t]
  BY <1>1, <1>2, AccountKept
<1>5. Accounted(u) \in Nat
  BY RequestInAccount
<1>6. Accounted(u)' = Accounted(u)
  BY <1>3, <1>4, <1>5
<1>7. QED
  BY <1>6 DEF Balanced

\* A lemma for each step.
LEMMA ArriveAccount ==
    ASSUME IInv, IInv', NEW u \in User, Balanced(u), NEW t \in Task, Arrive(t)
    PROVE  Balanced(u)'
<1>1. InCalls(u)[t] = 0
  BY ArriveFacts DEF Unrecorded, InCalls, NoCall
<1>2. Unrecorded(t)' = 0
  BY ArriveWaits DEF Unrecorded
<1>3. UNCHANGED cycles
  BY DEF Arrive, ExecStart, CreateStart, RefundStart, TopUpStart, AdminsStart,
         LockStart, external
<1>4. QED
  BY <1>1, <1>2, <1>3, ArriveFacts, OthersKept, SameAccount

\* The CMC mints what it is sent: the call that is answered speaks of it.
LEMMA CmcMintsAccount ==
    ASSUME IInv, IInv', NEW u \in User, Balanced(u), NEW t \in Task, CmcMints(t)
    PROVE  Balanced(u)'
<1> DEFINE f == calls[t]
           minted == Sent(calls[t])
<1>1. /\ Answer(t) /\ f \in Call /\ CallOK(f)
      /\ f.at = "notify" /\ f.reply = "none"
  BY CallTyped DEF Answer, CmcMints, Answers
<1>2. f.user \in User /\ minted \in Nat
  BY <1>1, OpenCall, AskedNat
<1>3. calls'[t] = [f EXCEPT !.reply = "ok", !.val = minted]
  BY DEF CmcMints, Answers, Go, IInv, TypeOK
<1>4. cycles' = [cycles EXCEPT ![f.user] = @ + minted] /\ UNCHANGED <<requests, agreements>>
  BY DEF CmcMints, Answers, state
<1>5. \A d \in Task : d # t => calls'[d] = calls[d]
  BY <1>1, OthersKept
<1> HIDE DEF minted
<1>6. Unrecorded(t) = 0 /\ Unrecorded(t)' = minted /\ calls'[t].user = f.user
  BY <1>1, <1>3 DEF Unrecorded, Call
<1>7. SUFFICES cycles'[u] = Accounted(u)'
  BY DEF Balanced
<1>8. /\ InRequest(u)' = InRequest(u) /\ InRequest(u) \in Nat
      /\ InCalls(u)[t] = 0
      /\ InCalls(u)'[t] = IF u = f.user THEN minted ELSE 0
  BY <1>4, <1>6, AccountNat DEF InRequest, InCalls
<1>9. cycles'[u] = cycles[u] + (IF u = f.user THEN minted ELSE 0)
  BY <1>2, <1>4 DEF IInv, TypeOK
<1>10. Accounted(u)' = Accounted(u) - InRequest(u) - InCalls(u)[t] + InRequest(u)' + InCalls(u)'[t]
  BY <1>4, <1>5, AccountKept
<1>11. Accounted(u) \in Nat /\ cycles[u] = Accounted(u)
  BY RequestInAccount DEF Balanced
<1>12. QED
  BY <1>2, <1>8, <1>9, <1>10, <1>11

\* The other answers change no amount.
LEMMA AnswerAccount ==
    ASSUME IInv, IInv', NEW u \in User, Balanced(u), NEW t \in Task, Answer(t)
    PROVE  Balanced(u)'
<1>1. CASE CmcMints(t)
  BY <1>1, CmcMintsAccount
<1>2. CASE ~CmcMints(t)
  <2>1. UNCHANGED cycles
    BY <1>2 DEF Answer, XrcAnswers, LedgerBalance, LedgerTransfers, LedgerRefuses,
       CmcAuthorizes, RegistryAnswers, CalleeFails, external
  <2>2. calls'[t].at = "notify" => calls'[t].reply # "ok"
    <3>1. ASSUME NEW c, NEW r, NEW v, Answers(t, c, r, v), r # "ok" \/ c # "notify"
          PROVE  calls'[t].at = "notify" => calls'[t].reply # "ok"
      BY <3>1 DEF Answers, Go, IInv, TypeOK, Call
    <3>2. QED
      BY <1>2, <3>1 DEF Answer, XrcAnswers, LedgerBalance, LedgerTransfers,
         LedgerRefuses, CmcAuthorizes, RegistryAnswers, CalleeFails
  <2>3. Unrecorded(t)' = Unrecorded(t) /\ calls'[t].user = calls[t].user
    BY <2>2, AnswerFacts, AnswerKeeps DEF Unrecorded
  <2>4. QED
    BY <2>1, <2>3, AnswerFacts, OthersKept, SameAccount
<1>3. QED
  BY <1>1, <1>2

\* The loop's panic is a request it does not find any more.
LEMMA NoPanic ==
    ASSUME IInv, NEW u \in User, Current(u), NEW t \in Task, LockPanicked(t)
    PROVE  calls[t].user # u
BY CallTyped, NoneAssumption DEF LockPanicked, Resumed, CallOK, Current

\* So do the steps of the handlers that neither write a map nor go on from a
\* conversion for u, if none leaves a creation of u's that has converted.
LEMMA QuietAccount ==
    ASSUME IInv, IInv', NEW u \in User, Balanced(u), Current(u), NEW t \in Task, Resume(t),
           ~ExecDone(t), ~CreateConverted(t), ~CreateDone(t), ~RefundDone(t),
           ~TopUpDone(t), ~LockDone(t),
           AdminsAsked, calls[t].user = u => ~Unauthorized(t)
    PROVE  Balanced(u)'
<1>1. UNCHANGED <<requests, agreements, cycles>>
  BY DEF Resume, NotifyTopUp, ExecPriced, ExecFunded, ExecFailed, CreateFailed,
         RefundTooLow, RefundSend, RefundFailed, TopUpSend, TopUpFailed,
         AdminsDone, LockFailed, LockPanicked, Trap, state, external
<1>2. InCalls(u)[t] = 0
  <2>1. SUFFICES ASSUME calls[t].user = u PROVE Unrecorded(t) = 0
    BY DEF InCalls
  <2>2. ~LockPanicked(t) /\ ~Unauthorized(t)
    BY <2>1, NoPanic
  <2>3. ~(calls[t].at = "notify" /\ calls[t].reply = "ok")
    BY <2>2 DEF AdminsAsked, Resume, NotifyTopUp, ExecPriced, ExecFunded, ExecFailed,
       CreateFailed, RefundTooLow, RefundSend, RefundFailed, TopUpSend, TopUpFailed,
       AdminsDone, LockFailed, Trap, Resumed, ConversionFailed
  <2>4. calls[t].at = "whitelist" => calls[t].op # "create"
    BY <2>2 DEF Resume, NotifyTopUp, ExecPriced, ExecFunded, ExecFailed, CreateFailed,
       RefundTooLow, RefundSend, RefundFailed, TopUpSend, TopUpFailed,
       AdminsDone, LockFailed, Trap, Resumed, ConversionFailed, Unauthorized
  <2>5. QED
    BY <2>3, <2>4 DEF Unrecorded
<1>3. Unrecorded(t)' = 0
  BY ResumeWaits, ResumeFacts DEF Unrecorded
<1>4. QED
  BY <1>1, <1>2, <1>3, OthersKept, SameAccount

\* A call that is going to end, or to go on to the CMC's list, with what its
\* conversion minted.
LEMMA Converted ==
    ASSUME IInv, NEW t \in Task, calls[t].at = "notify", calls[t].reply = "ok"
    PROVE  /\ calls[t].user \in User
           /\ Unrecorded(t) = calls[t].val
           /\ calls[t].val \in Nat
BY CallTyped, OpenCall DEF Unrecorded

\* A call that has ended speaks of no cycles.
LEMMA EndedUnrecorded ==
    ASSUME IInv, NEW t \in Task, Return(t)
    PROVE  Unrecorded(t)' = 0
BY DEF Return, Go, NoCall, Unrecorded, IInv, TypeOK

LEMMA CreateConvertedAccount ==
    ASSUME IInv, IInv', NEW u \in User, Balanced(u), NEW t \in Task, CreateConverted(t)
    PROVE  Balanced(u)'
<1>1. Resume(t) /\ calls[t] \in Call /\ calls[t].val \in Nat
  BY CallTyped DEF Resume, CreateConverted
<1>2. UNCHANGED <<requests, agreements, cycles>>
  BY DEF CreateConverted, external
<1>3. calls'[t] = Await([calls[t] EXCEPT !.amount = calls[t].val], "whitelist")
  BY DEF CreateConverted, Go, IInv, TypeOK
<1>4. /\ calls'[t].user = calls[t].user /\ calls'[t].op = "create"
      /\ calls'[t].at = "whitelist" /\ calls'[t].amount = calls[t].val
  BY <1>1, <1>3 DEF Await, Call, CreateConverted, Resumed
<1>5. Unrecorded(t)' = Unrecorded(t)
  BY <1>4, Converted DEF Unrecorded, CreateConverted, Resumed
<1>6. QED
  BY <1>1, <1>2, <1>4, <1>5, OthersKept, SameAccount

\* A new request takes over what its proposal has converted.
LEMMA ExecDoneAccount ==
    ASSUME IInv, IInv', NEW u \in User, Balanced(u), NEW t \in Task, ExecDone(t)
    PROVE  Balanced(u)'
<1> DEFINE f == calls[t]
           r == [cost |-> f.amount, locked |-> Share(f.amount), cycles |-> f.val,
                 cond |-> f.cond, created |-> now, last |-> now]
<1>1. Resume(t) /\ f.user \in User /\ Unrecorded(t) = f.val /\ f.val \in Nat
  BY Converted DEF Resume, ExecDone, Resumed
<1>2. Unrecorded(t)' = 0 /\ UNCHANGED <<agreements, cycles>>
  BY EndedUnrecorded DEF ExecDone, external
<1>3. requests[f.user] = None
  BY CallTyped DEF ExecDone, Resumed, CheckHolds
<1>4. requests' = [requests EXCEPT ![f.user] = r]
  BY DEF ExecDone
<1>5. r # None
  <2>1. f.cond \in Condition /\ f.amount \in Nat /\ now \in Nat
    BY CallTyped DEF ExecDone, Resumed, CallOK, IInv, TypeOK
  <2>2. r \in Request
    BY <1>1, <2>1, ShareNat DEF Request
  <2>3. QED
    BY <2>2, NoneAssumption
<1>6. /\ requests'[f.user] = r
      /\ \A v \in User : v # f.user => requests'[v] = requests[v]
  BY <1>1, <1>4 DEF IInv, TypeOK
<1>7. SUFFICES cycles'[u] = Accounted(u)'
  BY DEF Balanced
<1>8. Accounted(u)' = Accounted(u) - InRequest(u) - InCalls(u)[t] + InRequest(u)' + InCalls(u)'[t]
  BY <1>1, <1>2, OthersKept, AccountKept
<1>9. InCalls(u)[t] = (IF u = f.user THEN f.val ELSE 0) /\ InCalls(u)'[t] = 0
  BY <1>1, <1>2 DEF InCalls
<1>10. InRequest(u)' = IF u = f.user THEN f.val ELSE InRequest(u)
  BY <1>5, <1>6 DEF InRequest
<1>11. u = f.user => InRequest(u) = 0
  BY <1>3 DEF InRequest
<1>12. Accounted(u) \in Nat /\ cycles[u] = Accounted(u) /\ InRequest(u) \in Nat
  BY RequestInAccount, AccountNat DEF Balanced
<1> HIDE DEF f, r
<1>13. QED
  BY <1>1, <1>2, <1>8, <1>9, <1>10, <1>11, <1>12

\* A locking adds what it has converted to the request, if that is the one it read.
LEMMA LockDoneAccount ==
    ASSUME IInv, IInv', NEW u \in User, Balanced(u), Current(u), NEW t \in Task, LockDone(t)
    PROVE  Balanced(u)'
<1> DEFINE f == calls[t]
           r == Locked(f)
<1>1. Resume(t) /\ f.user \in User /\ Unrecorded(t) = f.val /\ f.val \in Nat
  BY Converted DEF Resume, LockDone, Resumed
<1>2. /\ Unrecorded(t)' = 0
      /\ UNCHANGED <<agreements, cycles>>
  BY <1>1, ResumeWaits, ResumeFacts DEF LockDone, external, Unrecorded, CreateConverted, Resumed
<1>3. f.copy \in Request /\ (u = f.user => requests[u] = f.copy)
  BY CallTyped DEF LockDone, Resumed, CallOK, Current
<1>4. requests' = [requests EXCEPT ![f.user] = r]
  BY DEF LockDone
<1>5. r.cycles = f.copy.cycles + f.val /\ r # None
  <2>1. f.day \in Nat
    BY CallTyped DEF Call
  <2>2. f.copy.locked + Share(f.copy.cost) \in Nat /\ f.copy.cycles + f.val \in Nat
    BY <1>1, <1>3, ShareNat DEF Request
  <2>3. r \in Request /\ r.cycles = f.copy.cycles + f.val
    BY <1>3, <2>1, <2>2 DEF Locked, Request
  <2>4. QED
    BY <2>3, NoneAssumption
<1>6. /\ requests'[f.user] = r
      /\ \A v \in User : v # f.user => requests'[v] = requests[v]
  BY <1>1, <1>4 DEF IInv, TypeOK
<1>7. SUFFICES cycles'[u] = Accounted(u)'
  BY DEF Balanced
<1>8. Accounted(u)' = Accounted(u) - InRequest(u) - InCalls(u)[t] + InRequest(u)' + InCalls(u)'[t]
  BY <1>1, <1>2, OthersKept, AccountKept
<1>9. InCalls(u)[t] = (IF u = f.user THEN f.val ELSE 0) /\ InCalls(u)'[t] = 0
  BY <1>1, <1>2 DEF InCalls
<1>10. InRequest(u)' = IF u = f.user THEN InRequest(u) + f.val ELSE InRequest(u)
  BY <1>3, <1>5, <1>6, NoneAssumption DEF InRequest
<1>11. Accounted(u) \in Nat /\ cycles[u] = Accounted(u) /\ InRequest(u) \in Nat
  BY RequestInAccount, AccountNat DEF Balanced
<1> HIDE DEF f, r
<1>12. QED
  BY <1>1, <1>2, <1>8, <1>9, <1>10, <1>11

\* A refund burns the cycles of the request it removes, all of them.
LEMMA RefundDoneAccount ==
    ASSUME IInv, IInv', NEW u \in User, Balanced(u), NEW t \in Task, RefundDone(t)
    PROVE  Balanced(u)'
<1> DEFINE f == calls[t]
<1>1. Resume(t) /\ f.user \in User
  BY OpenCall DEF Resume, RefundDone, Resumed
<1>2. Unrecorded(t) = 0 /\ Unrecorded(t)' = 0 /\ UNCHANGED agreements
  BY EndedUnrecorded DEF RefundDone, Resumed, Unrecorded
<1>3. CASE UNCHANGED <<requests, cycles>>
  BY <1>1, <1>2, <1>3, OthersKept, SameAccount DEF InCalls
<1>4. CASE /\ requests[f.user] # None
           /\ requests' = [requests EXCEPT ![f.user] = None]
           /\ cycles' = [cycles EXCEPT ![f.user] = Less(@, requests[f.user].cycles)]
  <2>1. SUFFICES cycles'[u] = Accounted(u)'
  BY DEF Balanced
  <2>2. Accounted(u)' = Accounted(u) - InRequest(u) - InCalls(u)[t] + InRequest(u)' + InCalls(u)'[t]
    BY <1>1, <1>2, OthersKept, AccountKept
  <2>3. InCalls(u)[t] = 0 /\ InCalls(u)'[t] = 0
    BY <1>2 DEF InCalls
  <2>4. /\ Accounted(u) \in Nat /\ cycles[u] = Accounted(u)
        /\ InRequest(u) \in Nat /\ InRequest(u) <= Accounted(u)
    BY RequestInAccount, AccountNat DEF Balanced
  <2>5. InRequest(u)' = IF u = f.user THEN 0 ELSE InRequest(u)
    BY <1>1, <1>4 DEF InRequest, IInv, TypeOK
  <2>6. cycles'[u] = IF u = f.user THEN Less(cycles[u], InRequest(u)) ELSE cycles[u]
    BY <1>1, <1>4 DEF InRequest, IInv, TypeOK
  <2>7. QED
    BY <2>2, <2>3, <2>4, <2>5, <2>6 DEF Less
<1>5. QED
  BY <1>3, <1>4 DEF RefundDone

\* An agreement takes over the cycles of the request it replaces and those that
\* its creation has converted.
LEMMA CreateDoneAccount ==
    ASSUME IInv, IInv', NEW u \in User, Balanced(u), NEW t \in Task, CreateDone(t)
    PROVE  Balanced(u)'
<1> DEFINE f == calls[t]
           a == [user |-> f.user, cond |-> f.copy.cond, paid |-> f.copy.cost,
                 cycles |-> f.amount + f.copy.cycles]
<1>1. /\ Resume(t) /\ f.op = "create" /\ f.at = "whitelist" /\ f.user \in User
      /\ f.subnet \in Subnet /\ f.copy \in Request /\ f.amount \in Nat
  BY CallTyped, OpenCall DEF Resume, CreateDone, Resumed, CallOK
<1>2. Unrecorded(t) = f.amount /\ Unrecorded(t)' = 0 /\ UNCHANGED cycles
  BY <1>1, EndedUnrecorded DEF Unrecorded, CreateDone, external
<1>3. requests[f.user] = f.copy /\ agreements[f.subnet] = None
  BY <1>1, CallTyped DEF CheckHolds
<1>4. /\ requests' = [requests EXCEPT ![f.user] = None]
      /\ agreements' = [agreements EXCEPT ![f.subnet] = a]
  BY DEF CreateDone
<1>5. a # None
  <2>1. a \in Agreement
    BY <1>1 DEF Agreement, Request
  <2>2. QED
    BY <2>1, NoneAssumption
<1>6. /\ requests'[f.user] = None
      /\ \A v \in User : v # f.user => requests'[v] = requests[v]
      /\ agreements'[f.subnet] = a
      /\ \A z \in Subnet : z # f.subnet => agreements'[z] = agreements[z]
  BY <1>1, <1>4 DEF IInv, TypeOK
<1>7. SUFFICES cycles'[u] = Accounted(u)'
  BY DEF Balanced
<1>8. Accounted(u)' = Accounted(u)
         - InRequest(u) - InAgreements(u)[f.subnet] - InCalls(u)[t]
         + InRequest(u)' + InAgreements(u)'[f.subnet] + InCalls(u)'[t]
  BY <1>1, <1>6, OthersKept, AccountChange
<1>9. InCalls(u)[t] = (IF u = f.user THEN f.amount ELSE 0) /\ InCalls(u)'[t] = 0
  BY <1>2 DEF InCalls
<1>10. u = f.user => InRequest(u) = f.copy.cycles
  BY <1>1, <1>3, NoneAssumption DEF InRequest
<1>11. InRequest(u)' = IF u = f.user THEN 0 ELSE InRequest(u)
  BY <1>6 DEF InRequest
<1>12. InAgreements(u)[f.subnet] = 0
  BY <1>1, <1>3 DEF InAgreements
<1>13. InAgreements(u)'[f.subnet] = IF u = f.user THEN f.amount + f.copy.cycles ELSE 0
  BY <1>1, <1>5, <1>6 DEF InAgreements
<1>14. Accounted(u) \in Nat /\ cycles[u] = Accounted(u) /\ InRequest(u) \in Nat
  BY RequestInAccount, AccountNat DEF Balanced
<1> HIDE DEF f, a
<1>15. QED
  BY <1>1, <1>2, <1>8, <1>9, <1>10, <1>11, <1>12, <1>13, <1>14

\* A top-up adds what it has converted to the agreement it has copied, which is
\* the agreement there is.
LEMMA TopUpDoneAccount ==
    ASSUME IInv, IInv', NEW u \in User, Balanced(u), NEW t \in Task, TopUpDone(t)
    PROVE  Balanced(u)'
<1> DEFINE f == calls[t]
           a == ToppedUp(agreements[f.subnet], f)
<1>1. /\ Resume(t) /\ f.op = "topup" /\ f.user \in User /\ f.subnet \in Subnet
      /\ f.copy \in Agreement /\ f.amount \in Nat /\ f.val \in Nat
      /\ Unrecorded(t) = f.val
  BY CallTyped, Converted DEF Resume, TopUpDone, Resumed, CallOK
<1>2. Unrecorded(t)' = 0 /\ UNCHANGED <<requests, cycles>>
  BY EndedUnrecorded DEF TopUpDone, external
<1>3. agreements[f.subnet] = f.copy /\ f.copy.user = f.user
  BY <1>1, CallTyped DEF CheckHolds
<1>4. agreements' = [agreements EXCEPT ![f.subnet] = a]
  BY DEF TopUpDone
<1>5. a # None /\ a.user = f.user /\ a.cycles = f.copy.cycles + f.val
  <2>1. f.copy.cycles + f.val \in Nat /\ f.copy.paid + f.amount \in Nat
    BY <1>1 DEF Agreement
  <2>2. a \in Agreement /\ a.user = f.user /\ a.cycles = f.copy.cycles + f.val
    BY <1>1, <1>3, <2>1 DEF Agreement, ToppedUp
  <2>3. QED
    BY <2>2, NoneAssumption
<1>6. /\ agreements'[f.subnet] = a
      /\ \A z \in Subnet : z # f.subnet => agreements'[z] = agreements[z]
  BY <1>1, <1>4 DEF IInv, TypeOK
<1>7. SUFFICES cycles'[u] = Accounted(u)'
  BY DEF Balanced
<1>8. Accounted(u)' = Accounted(u)
         - InRequest(u) - InAgreements(u)[f.subnet] - InCalls(u)[t]
         + InRequest(u)' + InAgreements(u)'[f.subnet] + InCalls(u)'[t]
  BY <1>1, <1>6, OthersKept, AccountChange
<1>9. InCalls(u)[t] = (IF u = f.user THEN f.val ELSE 0) /\ InCalls(u)'[t] = 0
  BY <1>1, <1>2 DEF InCalls
<1>10. InRequest(u)' = InRequest(u)
  BY <1>2 DEF InRequest
<1>11. InAgreements(u)[f.subnet] = IF u = f.user THEN f.copy.cycles ELSE 0
  BY <1>1, <1>3, NoneAssumption DEF InAgreements
<1>12. InAgreements(u)'[f.subnet] = IF u = f.user THEN f.copy.cycles + f.val ELSE 0
  BY <1>1, <1>5, <1>6 DEF InAgreements
<1>13. /\ Accounted(u) \in Nat /\ cycles[u] = Accounted(u) /\ InRequest(u) \in Nat
       /\ f.copy.cycles \in Nat
  BY <1>1, RequestInAccount, AccountNat DEF Balanced, Agreement
<1> HIDE DEF f, a
<1>14. QED
  BY <1>1, <1>2, <1>8, <1>9, <1>10, <1>11, <1>12, <1>13

\* What no call does leaves the account.
LEMMA OutsideAccount ==
    ASSUME NEW u \in User, Balanced(u), UNCHANGED <<requests, agreements, calls, cycles>>
    PROVE  Balanced(u)'
BY DEF Balanced, Accounted, InRequest, InAgreements, InCalls, Unrecorded

LEMMA BalanceStep ==
    ASSUME Base, Base', [AuditNext]_auditVars, NEW u \in User, Balanced(u),
           u \notin outdated', u \notin orphaned'
    PROVE  Balanced(u)'
<1>1. IInv /\ IInv' /\ AdminsAsked
  BY DEF Base
<1>2. Current(u)
  BY NotesKept, CurrentUsers DEF Base
<1>3. \A t \in Task : calls[t].user = u => ~Unauthorized(t)
  BY NotesKept DEF Base, Noticed
<1>4. ASSUME NEW t \in Task, Arrive(t) PROVE Balanced(u)'
  BY <1>1, <1>4, ArriveAccount
<1>5. ASSUME NEW t \in Task, Resume(t) PROVE Balanced(u)'
  BY <1>1, <1>2, <1>3, <1>5, ExecDoneAccount, CreateConvertedAccount,
     CreateDoneAccount, RefundDoneAccount, TopUpDoneAccount, LockDoneAccount, QuietAccount
<1>6. ASSUME NEW t \in Task, Answer(t) PROVE Balanced(u)'
  BY <1>1, <1>6, AnswerAccount
<1>7. CASE UNCHANGED <<requests, agreements, calls, cycles>>
  BY <1>7, OutsideAccount
<1>8. QED
  BY <1>4, <1>5, <1>6, <1>7, AuditStep
     DEF Next, ExecRefused, Pay, NewDay, vars, state, external

\* At the start nobody has cycles, and nothing speaks of any.
LEMMA InitBalance ==
    ASSUME Init, NEW u \in User
    PROVE  Balanced(u)
<1>1. IInv
  BY InitInvariant
<1>2. InRequest(u) = 0 /\ cycles[u] = 0
  BY DEF Init, InRequest
<1>3. SumFunctionOnSet(InAgreements(u), Subnet) = 0
  <2>1. \A s \in Subnet : InAgreements(u)[s] = 0
    BY DEF Init, InAgreements
  <2>2. QED
    BY <2>1, SumZero, FiniteAssumption
<1>4. SumFunctionOnSet(InCalls(u), Task) = 0
  <2>1. \A t \in Task : InCalls(u)[t] = 0
    BY DEF Init, InCalls, Unrecorded, NoCall
  <2>2. QED
    BY <2>1, SumZero, FiniteAssumption
<1>5. QED
  BY <1>1, <1>2, <1>3, <1>4, AccountSums DEF Balanced

\* No cycle that was minted is forgotten, counted twice or overwritten, by any
\* number of handlers and loops working for any number of users, whichever callees
\* fail: but for the users whom a locking has overtaken, and those whose creation
\* the CMC rejected after it had minted.
THEOREM CyclesAccounted == AuditSpec => []EveryCycleAccounted
<1>1. AuditInit => EveryCycleAccounted
  BY InitBalance DEF AuditInit, EveryCycleAccounted, Balanced
<1>2. Base /\ Base' /\ EveryCycleAccounted /\ [AuditNext]_auditVars => EveryCycleAccounted'
  <2> SUFFICES ASSUME Base, Base', EveryCycleAccounted, [AuditNext]_auditVars,
                      NEW u \in User, u \notin outdated', u \notin orphaned'
               PROVE  cycles'[u] = Accounted(u)'
    BY DEF EveryCycleAccounted
  <2>1. Balanced(u)
    BY NotesKept DEF EveryCycleAccounted, Balanced
  <2>2. Balanced(u)'
    BY <2>1, BalanceStep
  <2>3. QED
    BY <2>2 DEF Balanced
<1>3. QED
  BY <1>1, <1>2, BaseInvariant, PTL DEF AuditSpec

------------------------------------------------------------------------------
(* Where the ICP is *)

\* What a proposal knows of its price and of the balance: the price comes from
\* the rates, the balance covers it, and what is not converted stays there.
ExecCovered(f) ==
    f.op = "exec" =>
        /\ f.at = "rate" /\ f.reply = "ok" => f.val \in Prices
        /\ f.at # "rate" => f.amount \in Prices
        /\ f.at = "balance" /\ f.reply = "ok" => f.val <= sub[f.user]
        /\ f.at = "transfer" /\ f.reply = "none" => f.amount <= sub[f.user]
        /\ f.at = "transfer" /\ f.reply = "ok" =>
               f.amount - Share(f.amount) <= sub[f.user]
        /\ f.at = "notify" => f.amount - Share(f.amount) <= sub[f.user]

\* The request of u costs what some rate leads to, and is covered.
Priced(u) == requests[u] # None => requests[u].cost \in Prices

CoveredFor(u) ==
    (requests[u] # None /\ ~PaidBack(u))
    => sub[u] + SumFunction(DebitsOf(u)) >= requests[u].cost - requests[u].locked

\* The debits of a user's calls, all of them.
Debits(u) == SumFunctionOnSet(DebitsOf(u), Task)

\* They are amounts, and what RequestCovered adds up.
LEMMA DebitsNat ==
    ASSUME IInv, NEW u \in User
    PROVE  /\ \A t \in Task : DebitsOf(u)[t] \in Nat
           /\ SumFunction(DebitsOf(u)) = Debits(u)
           /\ Debits(u) \in Nat
<1>1. \A t \in Task : Debited(t) \in Nat
  BY CallTyped, AskedNat DEF Debited
<1>2. \A t \in Task : DebitsOf(u)[t] \in Nat
  BY <1>1 DEF DebitsOf
<1>3. SumFunction(DebitsOf(u)) = Debits(u)
  BY DEF SumFunction, Debits, DebitsOf
<1>4. QED
  BY <1>2, <1>3, SumNat, FiniteAssumption DEF Debits

\* So they are after a step.
LEMMA NextDebitsNat ==
    ASSUME IInv', NEW u \in User
    PROVE  /\ \A t \in Task : DebitsOf(u)'[t] \in Nat
           /\ SumFunction(DebitsOf(u))' = Debits(u)'
           /\ Debits(u)' \in Nat
<1>1. \A t \in Task : calls'[t] \in Call /\ CallOK(calls[t])'
  BY DEF IInv, TypeOK
<1>2. ASSUME NEW t \in Task PROVE Debited(t)' \in Nat
  <2>1. CallOK(calls'[t])
    BY <1>1 DEF CallOK
  <2>2. Asked(calls'[t]) \in Nat
    BY <1>1, <2>1, AskedNat
  <2>3. QED
    BY <2>2 DEF Debited
<1>3. \A t \in Task : DebitsOf(u)'[t] \in Nat
  BY <1>2 DEF DebitsOf
<1>4. SumFunction(DebitsOf(u))' = Debits(u)'
  BY DEF SumFunction, Debits, DebitsOf
<1>5. Debits(u)' \in Nat
  <2> DEFINE d == DebitsOf(u)'
  <2>1. \A t \in Task : d[t] \in Nat
    BY <1>3
  <2> HIDE DEF d
  <2>2. SumFunctionOnSet(d, Task) \in Nat
    BY <2>1, SumNat, FiniteAssumption
  <2>3. QED
    BY <2>2 DEF d, Debits
<1>6. QED
  BY <1>3, <1>4, <1>5

\* A step of one call changes their sum by its change in this call.
LEMMA DebitsChange ==
    ASSUME IInv, IInv', NEW u \in User, NEW t \in Task,
           \A d \in Task : d # t => calls'[d] = calls[d]
    PROVE  Debits(u)' = Debits(u) - DebitsOf(u)[t] + DebitsOf(u)'[t]
<1> DEFINE c == DebitsOf(u)
           d == DebitsOf(u)'
<1>1. \A k \in Task : c[k] \in Nat /\ d[k] \in Nat
  BY DebitsNat, NextDebitsNat
<1>2. \A k \in Task : k # t => d[k] = c[k]
  BY DEF DebitsOf, Debited
<1> HIDE DEF c, d
<1>3. SumFunctionOnSet(d, Task) = SumFunctionOnSet(c, Task) - c[t] + d[t]
  BY <1>1, <1>2, SumUpdate, FiniteAssumption
<1>4. QED
  BY <1>3 DEF c, d, Debits

\* No debit exceeds their sum.
LEMMA DebitInSum ==
    ASSUME IInv', NEW u \in User, NEW t \in Task
    PROVE  DebitsOf(u)'[t] <= Debits(u)'
<1> DEFINE d == DebitsOf(u)'
<1>1. \A k \in Task : d[k] \in Nat
  BY NextDebitsNat
<1> HIDE DEF d
<1>2. d[t] <= SumFunctionOnSet(d, Task)
  BY <1>1, SumAtLeast, FiniteAssumption
<1>3. QED
  BY <1>2 DEF d, Debits

\* A request stays covered if its balance and what call t has debited lose no
\* more than it has left to lock, or if they cover it by themselves.
LEMMA CoveredStep ==
    ASSUME IInv, IInv', NEW u \in User, CoveredFor(u), NEW t \in Task,
           \A d \in Task : d # t => calls'[d] = calls[d],
           requests'[u] # None /\ ~PaidBack(u)' =>
               \/ /\ requests[u] # None /\ ~PaidBack(u)
                  /\ sub'[u] + DebitsOf(u)'[t] - (requests'[u].cost - requests'[u].locked)
                        >= sub[u] + DebitsOf(u)[t] - (requests[u].cost - requests[u].locked)
               \/ sub'[u] + DebitsOf(u)'[t] >= requests'[u].cost - requests'[u].locked
    PROVE  CoveredFor(u)'
<1> SUFFICES ASSUME requests'[u] # None, ~PaidBack(u)'
             PROVE  sub'[u] + SumFunction(DebitsOf(u))' >= requests'[u].cost - requests'[u].locked
  BY DEF CoveredFor
<1> DEFINE x == DebitsOf(u)[t]
           y == DebitsOf(u)'[t]
           S == Debits(u)
           T == Debits(u)'
           need == requests[u].cost - requests[u].locked
           left == requests'[u].cost - requests'[u].locked
<1>1. /\ x \in Nat /\ y \in Nat /\ S \in Nat /\ T \in Nat
      /\ SumFunction(DebitsOf(u)) = S /\ SumFunction(DebitsOf(u))' = T
  BY DebitsNat, NextDebitsNat
<1>2. T = S - x + y /\ y <= T
  BY DebitsChange, DebitInSum
<1>3. /\ sub[u] \in Nat /\ sub'[u] \in Nat /\ left \in Int
      /\ requests[u] # None => need \in Int
  BY DEF IInv, TypeOK, Request
<1>4. requests[u] # None /\ ~PaidBack(u) => sub[u] + S >= need
  BY <1>1 DEF CoveredFor
<1>5. \/ requests[u] # None /\ ~PaidBack(u) /\ sub'[u] + y - left >= sub[u] + x - need
      \/ sub'[u] + y >= left
  OBVIOUS
<1> HIDE DEF x, y, S, T, need, left
<1>6. sub'[u] + T >= left
  BY <1>1, <1>2, <1>3, <1>4, <1>5
<1>7. QED
  BY <1>1, <1>6 DEF left

\* A refund stays paid out until its handler goes on.
LEMMA StillPaidBack ==
    ASSUME NEW t \in Task, \A d \in Task : d # t => calls'[d] = calls[d],
           NEW u \in User, PaidBack(u),
           ~(calls[t].user = u /\ Resumed(t, "refund", "transfer", "ok"))
    PROVE  PaidBack(u)'
BY DEF PaidBack, Resumed

\* A step that writes no request and no balance.
LEMMA SameCovered ==
    ASSUME IInv, IInv', NEW u \in User, CoveredFor(u), NEW t \in Task,
           \A d \in Task : d # t => calls'[d] = calls[d],
           UNCHANGED <<requests, sub>>,
           ~Resumed(t, "refund", "transfer", "ok"),
           \/ DebitsOf(u)[t] = 0
           \/ calls'[t].user = calls[t].user /\ Debited(t)' = Debited(t)
    PROVE  CoveredFor(u)'
<1>1. ASSUME requests'[u] # None, ~PaidBack(u)'
      PROVE  /\ requests[u] # None /\ ~PaidBack(u)
             /\ sub'[u] + DebitsOf(u)'[t] - (requests'[u].cost - requests'[u].locked)
                   >= sub[u] + DebitsOf(u)[t] - (requests[u].cost - requests[u].locked)
  <2>1. ~PaidBack(u)
    BY <1>1, StillPaidBack
  <2>2. DebitsOf(u)[t] \in Nat /\ DebitsOf(u)'[t] \in Nat
    BY DebitsNat, NextDebitsNat
  <2>3. DebitsOf(u)'[t] >= DebitsOf(u)[t]
    BY <2>2 DEF DebitsOf
  <2>4. sub[u] \in Nat /\ requests[u].cost \in Nat /\ requests[u].locked \in Nat
    BY <1>1 DEF IInv, TypeOK, Request
  <2>5. QED
    BY <1>1, <2>1, <2>2, <2>3, <2>4
<1>2. QED
  BY <1>1, CoveredStep

\* Whoever converts or pays back for a user, nothing is taken from a user whose
\* proposal is running, but by that proposal.
LEMMA ProposalAlone ==
    ASSUME IInv, NEW t \in Task, NEW d \in Task, t # d,
           calls[t].op = "exec", calls[d].at = "transfer", AdminsAsked
    PROVE  calls[d].user # calls[t].user
<1>1. calls[d].op \in {"exec", "create", "refund", "lock"} => calls[d].user # calls[t].user
  BY OneCallPerRequest
<1>2. CASE calls[d].op = "topup"
  <2>1. /\ calls[d].subnet \in Subnet /\ agreements[calls[d].subnet] # None
        /\ agreements[calls[d].subnet].user = calls[d].user
    BY <1>2, CallTyped DEF CheckHolds, CallOK
  <2>2. ~Renting(calls[t].user)
    BY CallTyped DEF CheckHolds
  <2>3. QED
    BY <2>1, <2>2 DEF Renting
<1>3. calls[d].op \in Op /\ calls[d].op # "idle" /\ calls[d].op # "admins"
  BY OpenCall, CallTyped DEF Call, AdminsAsked
<1>4. QED
  BY <1>1, <1>2, <1>3 DEF Op

\* What the ledger debits: the amount that is asked for, if that pays the fee.
LEMMA DebitFacts ==
    ASSUME NEW f \in Call, CallOK(f)
    PROVE  /\ Sent(f) + DEFAULT_FEE \in Nat
           /\ Sent(f) + DEFAULT_FEE >= Asked(f)
           /\ Asked(f) >= DEFAULT_FEE => Sent(f) + DEFAULT_FEE = Asked(f)
<1>1. Asked(f) \in Nat /\ DEFAULT_FEE \in Nat
  BY AskedNat, AmountAssumption
<1>2. QED
  BY <1>1 DEF Sent, Less

\* A part of a cost is at most the cost.
LEMMA ShareBelow == \A c \in Nat : Share(c) <= c
BY LockAssumption DEF Share

\* A debit for a proposal or a refund leaves no uncovered request behind, one for
\* a locking or a creation is told by the call.
LEMMA LedgerTransfersCovered ==
    ASSUME IInv, IInv', AdminsAsked, NEW u \in User, CoveredFor(u), Priced(u), Current(u),
           NEW t \in Task, LedgerTransfers(t),
           \A p \in Prices : Share(p) >= DEFAULT_FEE
    PROVE  CoveredFor(u)'
<1> DEFINE f == calls[t]
           debit == Sent(f) + DEFAULT_FEE
<1>1. /\ Answer(t) /\ f \in Call /\ CallOK(f) /\ CheckHolds(f)
      /\ f.at = "transfer" /\ f.reply = "none" /\ f.user \in User /\ f.op # "idle"
  BY CallTyped, OpenCall DEF Answer, LedgerTransfers, Answers
<1>2. /\ sub' = [sub EXCEPT ![f.user] = @ - debit] /\ sub[f.user] >= debit
      /\ calls'[t] = [f EXCEPT !.reply = "ok", !.val = 0]
      /\ UNCHANGED requests
  BY DEF LedgerTransfers, Answers, Go, state, IInv, TypeOK
<1>3. \A d \in Task : d # t => calls'[d] = calls[d]
  BY <1>1, OthersKept
<1>4. /\ calls'[t].op = f.op /\ calls'[t].user = f.user /\ calls'[t].copy = f.copy
      /\ calls'[t].at = "transfer" /\ calls'[t].reply = "ok"
      /\ calls'[t].amount = f.amount
  BY <1>1, <1>2 DEF Call
<1>5. Debited(t) = 0
  BY <1>1 DEF Debited
<1>6. f.op \in {"lock", "create"} => Debited(t)' = Asked(f)
  BY <1>4 DEF Debited, Asked
<1>7. debit \in Nat /\ Asked(f) \in Nat /\ debit >= Asked(f)
      /\ (Asked(f) >= DEFAULT_FEE => debit = Asked(f))
  BY <1>1, DebitFacts, AskedNat
<1>8. sub \in [User -> Nat] /\ requests \in [User -> Request \cup {None}]
  BY DEF IInv, TypeOK
<1>9. ASSUME requests'[u] # None, ~PaidBack(u)'
      PROVE  \/ /\ requests[u] # None /\ ~PaidBack(u)
                /\ sub'[u] + DebitsOf(u)'[t] - (requests'[u].cost - requests'[u].locked)
                      >= sub[u] + DebitsOf(u)[t] - (requests[u].cost - requests[u].locked)
             \/ sub'[u] + DebitsOf(u)'[t] >= requests'[u].cost - requests'[u].locked
  <2>1. ~PaidBack(u) /\ requests[u] # None
    BY <1>1, <1>2, <1>3, <1>9, StillPaidBack DEF Resumed
  <2>2. requests[u].cost \in Nat /\ requests[u].locked \in Nat /\ requests[u].cost \in Prices
    BY <1>8, <2>1 DEF Request, Priced
  <2>3. DebitsOf(u)[t] = 0 /\ DebitsOf(u)'[t] \in Nat
    BY <1>5, NextDebitsNat DEF DebitsOf
  <2>4. CASE u # f.user
    <3>1. sub'[u] = sub[u]
      BY <1>2, <1>8, <2>4
    <3>2. QED
      BY <1>2, <1>8, <2>1, <2>2, <2>3, <3>1
  <2>5. CASE u = f.user
    <3>1. f.op = "lock" \/ f.op = "create"
      <4>1. f.op # "refund"
        BY <1>4, <1>9, <2>5 DEF PaidBack, Resumed
      <4>2. f.op # "exec"
        BY <1>1, <2>1, <2>5 DEF CheckHolds
      <4>3. f.op # "topup"
        <5>1. f.op = "topup" => Renting(u)
          BY <1>1, <2>5 DEF CheckHolds, CallOK, Renting
        <5>2. QED
          BY <2>1, <5>1 DEF IInv, UserExclusive
      <4>4. f.op # "admins"
        BY <1>1 DEF AdminsAsked
      <4>5. QED
        BY <1>1, <4>1, <4>2, <4>3, <4>4 DEF Call, Op
    <3>2. DebitsOf(u)'[t] = Asked(f) /\ sub'[u] = sub[u] - debit /\ sub[u] >= debit
      BY <1>2, <1>4, <1>6, <1>8, <2>5, <3>1 DEF DebitsOf
    <3>3. CASE f.op = "lock"
      <4>1. requests[u] = f.copy
        BY <2>5, <3>3 DEF Current
      <4>2. Asked(f) = Share(requests[u].cost)
        BY <3>3, <4>1 DEF Asked
      <4>3. debit = Asked(f)
        BY <1>7, <2>2, <4>2
      <4> HIDE DEF debit
      <4>4. QED
        BY <1>2, <1>7, <1>8, <2>1, <2>2, <2>3, <3>2, <4>3
    <3>4. CASE f.op = "create"
      <4>1. requests[u] = f.copy
        BY <1>1, <2>5, <3>4 DEF CheckHolds
      <4>2. Asked(f) = Less(requests[u].cost, requests[u].locked)
        BY <3>4, <4>1 DEF Asked
      <4>3. Asked(f) >= requests[u].cost - requests[u].locked
        BY <2>2, <4>2 DEF Less
      <4> HIDE DEF debit
      <4>4. QED
        BY <1>2, <1>7, <1>8, <2>2, <3>2, <4>3
    <3>5. QED
      BY <3>1, <3>3, <3>4
  <2>6. QED
    BY <2>4, <2>5
<1>10. QED
  BY <1>3, <1>9, CoveredStep

\* The other answers take nothing from a subaccount.
LEMMA AnswerCovered ==
    ASSUME IInv, IInv', AdminsAsked, NEW u \in User, CoveredFor(u), Priced(u), Current(u),
           NEW t \in Task, Answer(t),
           \A p \in Prices : Share(p) >= DEFAULT_FEE
    PROVE  CoveredFor(u)'
<1>1. CASE LedgerTransfers(t)
  BY <1>1, LedgerTransfersCovered
<1>2. CASE ~LedgerTransfers(t)
  <2>1. UNCHANGED sub
    BY <1>2 DEF Answer, XrcAnswers, LedgerBalance, LedgerRefuses, CmcMints,
       CmcAuthorizes, RegistryAnswers, CalleeFails, external
  <2>2. calls'[t].at = "transfer" => calls'[t].reply # "ok"
    <3>1. ASSUME NEW c, NEW r, NEW v, Answers(t, c, r, v), r # "ok" \/ c # "transfer"
          PROVE  calls'[t].at = "transfer" => calls'[t].reply # "ok"
      BY <3>1 DEF Answers, Go, IInv, TypeOK, Call
    <3>2. QED
      BY <1>2, <3>1 DEF Answer, XrcAnswers, LedgerBalance, LedgerRefuses, CmcMints,
         CmcAuthorizes, RegistryAnswers, CalleeFails
  <2>3. calls[t].reply = "none"
    BY AnswerFacts
  <2>4. Debited(t)' = Debited(t) /\ calls'[t].user = calls[t].user
    BY <2>2, <2>3, AnswerFacts, AnswerKeeps DEF Debited, Asked
  <2>5. UNCHANGED requests
    BY AnswerFacts
  <2>6. QED
    BY <2>1, <2>3, <2>4, <2>5, OthersKept, SameCovered DEF Resumed
<1>3. QED
  BY <1>1, <1>2

LEMMA ArriveCovered ==
    ASSUME IInv, IInv', NEW u \in User, CoveredFor(u), NEW t \in Task, Arrive(t)
    PROVE  CoveredFor(u)'
<1>1. DebitsOf(u)[t] = 0 /\ ~Resumed(t, "refund", "transfer", "ok")
  BY ArriveFacts DEF DebitsOf, Debited, NoCall, Resumed
<1>2. UNCHANGED <<requests, sub>>
  BY DEF Arrive, ExecStart, CreateStart, RefundStart, TopUpStart, AdminsStart,
         LockStart, state, external
<1>3. QED
  BY <1>1, <1>2, OthersKept, SameCovered

\* No handler touches a subaccount itself.
LEMMA LedgerExternal ==
    ASSUME NEW t \in Task, Resume(t)
    PROVE  UNCHANGED sub
BY DEF Resume, NotifyTopUp, ExecPriced, ExecFunded, ExecFailed, ExecDone,
       CreateFailed, CreateConverted, CreateDone, RefundTooLow, RefundSend,
       RefundFailed, RefundDone, TopUpSend, TopUpFailed, TopUpDone, AdminsDone,
       LockFailed, LockDone, LockPanicked, Trap, external

\* A handler that goes on with what it has debited still tells it.
LEMMA StillDebited ==
    ASSUME IInv, NEW t \in Task, NotifyTopUp(t) \/ CreateConverted(t)
    PROVE  calls'[t].user = calls[t].user /\ Debited(t)' = Debited(t)
<1>1. calls[t] \in Call /\ calls[t].val \in Nat /\ calls \in [Task -> Call]
  BY CallTyped DEF IInv, TypeOK
<1>2. CASE NotifyTopUp(t)
  <2>1. calls'[t] = Await(calls[t], "notify")
    BY <1>1, <1>2 DEF NotifyTopUp, Go
  <2>2. /\ calls'[t].op = calls[t].op /\ calls'[t].user = calls[t].user
        /\ calls'[t].copy = calls[t].copy /\ calls'[t].amount = calls[t].amount
        /\ calls'[t].at = "notify"
    BY <1>1, <2>1 DEF Await, Call
  <2>3. QED
    BY <1>2, <2>2 DEF NotifyTopUp, Debited, Asked
<1>3. CASE CreateConverted(t)
  <2>1. calls'[t] = Await([calls[t] EXCEPT !.amount = calls[t].val], "whitelist")
    BY <1>1, <1>3 DEF CreateConverted, Go
  <2>2. /\ calls'[t].op = calls[t].op /\ calls'[t].user = calls[t].user
        /\ calls'[t].copy = calls[t].copy /\ calls'[t].at = "whitelist"
    BY <1>1, <2>1 DEF Await, Call
  <2>3. QED
    BY <1>3, <2>2 DEF CreateConverted, Resumed, Debited, Asked
<1>4. QED
  BY <1>2, <1>3

\* A locking that is done has locked what it had debited.
LEMMA LockDoneCovered ==
    ASSUME IInv, IInv', NEW u \in User, CoveredFor(u), Current(u), NEW t \in Task, LockDone(t)
    PROVE  CoveredFor(u)'
<1> DEFINE f == calls[t]
           share == Share(f.copy.cost)
<1>1. /\ Resume(t) /\ f.op = "lock" /\ f.at = "notify" /\ f.user \in User
      /\ f.copy \in Request /\ f.val \in Nat /\ f.day \in Nat
      /\ (u = f.user => requests[u] = f.copy)
  BY CallTyped, OpenCall DEF Resume, LockDone, Resumed, CallOK, Current, Call
<1>2. /\ requests' = [requests EXCEPT ![f.user] = Locked(f)]
      /\ sub' = sub
  BY <1>1, LedgerExternal DEF LockDone
<1>3. Debited(t) = share /\ share \in Nat
  BY <1>1, ShareNat DEF Debited, Asked, Request
<1>4. Debited(t)' = 0
  BY <1>1, ResumeWaits, ResumeFacts DEF LockDone, NotifyTopUp, CreateConverted,
     Resumed, Debited
<1>5. Locked(f).cost = f.copy.cost /\ Locked(f).locked = f.copy.locked + share
  BY <1>1 DEF Locked, Request
<1>6. /\ sub \in [User -> Nat] /\ requests \in [User -> Request \cup {None}]
      /\ f.copy.cost \in Nat /\ f.copy.locked \in Nat
  BY <1>1 DEF IInv, TypeOK, Request
<1> HIDE DEF share
<1>7. ASSUME requests'[u] # None, ~PaidBack(u)'
      PROVE  /\ requests[u] # None /\ ~PaidBack(u)
             /\ sub'[u] + DebitsOf(u)'[t] - (requests'[u].cost - requests'[u].locked)
                   >= sub[u] + DebitsOf(u)[t] - (requests[u].cost - requests[u].locked)
  <2>1. ~PaidBack(u)
    BY <1>1, <1>7, OthersKept, StillPaidBack DEF Resumed
  <2>2. DebitsOf(u)'[t] = 0
    BY <1>4 DEF DebitsOf
  <2>3. CASE u # f.user
    <3>1. requests'[u] = requests[u] /\ DebitsOf(u)[t] = 0
      BY <1>2, <1>6, <2>3 DEF DebitsOf
    <3>2. requests[u].cost \in Nat /\ requests[u].locked \in Nat /\ sub[u] \in Nat
      BY <1>6, <1>7, <3>1 DEF Request
    <3>3. QED
      BY <1>2, <1>7, <2>1, <2>2, <3>1, <3>2
  <2>4. CASE u = f.user
    <3>1. requests'[u] = Locked(f) /\ DebitsOf(u)[t] = share /\ requests[u] = f.copy
      BY <1>1, <1>2, <1>3, <1>6, <2>4 DEF DebitsOf
    <3>2. requests[u] # None
      BY <1>1, <3>1, NoneAssumption
    <3>3. QED
      BY <1>2, <1>3, <1>5, <1>6, <2>1, <2>2, <3>1, <3>2
  <2>5. QED
    BY <2>3, <2>4
<1>8. QED
  BY <1>1, <1>7, OthersKept, CoveredStep

\* A new request needs what its proposal has left in the subaccount.
LEMMA ExecDoneCovered ==
    ASSUME IInv, IInv', NEW u \in User, CoveredFor(u), Priced(u),
           NEW t \in Task, ExecDone(t), ExecCovered(calls[t])
    PROVE  CoveredFor(u)' /\ Priced(u)'
<1> DEFINE f == calls[t]
           r == [cost |-> f.amount, locked |-> Share(f.amount), cycles |-> f.val,
                 cond |-> f.cond, created |-> now, last |-> now]
<1>1. /\ Resume(t) /\ f.op = "exec" /\ f.at = "notify" /\ f.user \in User
      /\ f.amount \in Nat
  BY CallTyped, OpenCall DEF Resume, ExecDone, Resumed
<1>2. requests' = [requests EXCEPT ![f.user] = r] /\ sub' = sub
  BY <1>1, LedgerExternal DEF ExecDone
<1>3. f.amount \in Prices /\ f.amount - Share(f.amount) <= sub[f.user]
  BY <1>1 DEF ExecCovered
<1>4. Debited(t) = 0
  BY <1>1 DEF Debited
<1>5. sub \in [User -> Nat] /\ requests \in [User -> Request \cup {None}]
  BY DEF IInv, TypeOK
<1>6. /\ requests'[f.user] = r
      /\ \A v \in User : v # f.user => requests'[v] = requests[v]
  BY <1>1, <1>2, <1>5
<1>7. r.cost = f.amount /\ r.locked = Share(f.amount) /\ Share(f.amount) \in Nat
  BY <1>1, ShareNat
<1> HIDE DEF r
<1>8. ASSUME requests'[u] # None, ~PaidBack(u)'
      PROVE  \/ /\ requests[u] # None /\ ~PaidBack(u)
                /\ sub'[u] + DebitsOf(u)'[t] - (requests'[u].cost - requests'[u].locked)
                      >= sub[u] + DebitsOf(u)[t] - (requests[u].cost - requests[u].locked)
             \/ sub'[u] + DebitsOf(u)'[t] >= requests'[u].cost - requests'[u].locked
  <2>1. ~PaidBack(u)
    BY <1>1, <1>8, OthersKept, StillPaidBack DEF Resumed
  <2>2. DebitsOf(u)[t] = 0 /\ DebitsOf(u)'[t] \in Nat /\ sub[u] \in Nat
    BY <1>4, <1>5, NextDebitsNat DEF DebitsOf
  <2>3. CASE u # f.user
    <3>1. requests'[u] = requests[u]
      BY <1>6, <2>3
    <3>2. requests[u].cost \in Nat /\ requests[u].locked \in Nat
      BY <1>5, <1>8, <3>1 DEF Request
    <3>3. QED
      BY <1>2, <1>8, <2>1, <2>2, <3>1, <3>2
  <2>4. CASE u = f.user
    BY <1>1, <1>2, <1>3, <1>6, <1>7, <2>2, <2>4
  <2>5. QED
    BY <2>3, <2>4
<1>9. CoveredFor(u)'
  BY <1>1, <1>8, OthersKept, CoveredStep
<1>10. Priced(u)'
  BY <1>3, <1>6, <1>7 DEF Priced
<1>11. QED
  BY <1>9, <1>10

\* A refund and a creation end the request that they have taken the ICP of.
LEMMA RequestEndsCovered ==
    ASSUME IInv, IInv', NEW u \in User, CoveredFor(u), NEW t \in Task,
           CreateDone(t) \/ RefundDone(t)
    PROVE  CoveredFor(u)'
<1> DEFINE f == calls[t]
<1>1. /\ Resume(t) /\ f.user \in User /\ f.op # "idle"
      /\ requests'[f.user] = None
      /\ \A v \in User : v # f.user => requests'[v] = requests[v]
  BY OpenCall DEF Resume, CreateDone, RefundDone, Resumed, IInv, TypeOK
<1>2. sub' = sub
  BY <1>1, LedgerExternal
<1>3. ASSUME requests'[u] # None, ~PaidBack(u)'
      PROVE  /\ requests[u] # None /\ ~PaidBack(u)
             /\ sub'[u] + DebitsOf(u)'[t] - (requests'[u].cost - requests'[u].locked)
                   >= sub[u] + DebitsOf(u)[t] - (requests[u].cost - requests[u].locked)
  <2>1. u # f.user /\ requests'[u] = requests[u]
    BY <1>1, <1>3
  <2>2. ~PaidBack(u)
    BY <1>1, <1>3, <2>1, OthersKept, StillPaidBack
  <2>3. DebitsOf(u)[t] = 0 /\ DebitsOf(u)'[t] \in Nat
    BY <2>1, NextDebitsNat DEF DebitsOf
  <2>4. sub[u] \in Nat /\ requests[u].cost \in Nat /\ requests[u].locked \in Nat
    BY <1>3, <2>1 DEF IInv, TypeOK, Request
  <2>5. QED
    BY <1>2, <1>3, <2>1, <2>2, <2>3, <2>4
<1>4. QED
  BY <1>1, <1>3, OthersKept, CoveredStep

\* The other steps of the handlers have debited nothing, or still tell it, unless
\* a conversion for u is given up halfway.
LEMMA QuietCovered ==
    ASSUME IInv, IInv', AdminsAsked, NEW u \in User, CoveredFor(u), Current(u),
           NEW t \in Task, Resume(t),
           ~ExecDone(t), ~CreateDone(t), ~RefundDone(t), ~LockDone(t),
           calls[t].user = u => ~Lost(t)
    PROVE  CoveredFor(u)'
<1>1. UNCHANGED <<requests, sub>>
  BY LedgerExternal DEF Resume, NotifyTopUp, ExecPriced, ExecFunded, ExecFailed,
     CreateFailed, CreateConverted, RefundTooLow, RefundSend, RefundFailed,
     TopUpSend, TopUpFailed, TopUpDone, AdminsDone, LockFailed, LockPanicked,
     Trap, state
<1>2. ~Resumed(t, "refund", "transfer", "ok")
  BY DEF Resume, NotifyTopUp, ExecPriced, ExecFunded, ExecFailed, CreateFailed,
     CreateConverted, RefundTooLow, RefundSend, RefundFailed, TopUpSend,
     TopUpFailed, TopUpDone, AdminsDone, LockFailed, LockPanicked, Trap,
     Resumed, ConversionFailed
<1>3. CASE NotifyTopUp(t) \/ CreateConverted(t)
  BY <1>1, <1>2, <1>3, OthersKept, StillDebited, SameCovered
<1>4. CASE ~NotifyTopUp(t) /\ ~CreateConverted(t)
  <2>1. DebitsOf(u)[t] = 0
    <3>1. SUFFICES ASSUME calls[t].user = u PROVE Debited(t) = 0
      BY DEF DebitsOf
    <3>2. ~LockPanicked(t) /\ ~Unauthorized(t) /\ ~Unminted(t)
      BY <3>1, NoPanic DEF Lost
    <3>3. QED
      BY <1>4, <3>2 DEF Resume, ExecPriced, ExecFunded, ExecFailed, CreateFailed,
         RefundTooLow, RefundSend, RefundFailed, TopUpSend, TopUpFailed, TopUpDone,
         AdminsDone, LockFailed, Trap, Resumed, ConversionFailed, Debited,
         Unauthorized, Unminted
  <2>2. QED
    BY <1>1, <1>2, <2>1, OthersKept, SameCovered
<1>5. QED
  BY <1>3, <1>4

\* Every request costs what some rate leads to.
LEMMA CostsKept ==
    ASSUME IInv, NEW u \in User, Priced(u), Current(u), NEW t \in Task, Resume(t),
           ~ExecDone(t)
    PROVE  Priced(u)'
<1>1. CASE LockDone(t)
  <2> DEFINE f == calls[t]
  <2>1. f.user \in User /\ f.copy \in Request /\ f.op = "lock"
    BY <1>1, CallTyped, OpenCall DEF LockDone, Resumed, CallOK
  <2>2. requests' = [requests EXCEPT ![f.user] = Locked(f)]
    BY <1>1 DEF LockDone
  <2>3. CASE u = f.user
    <3>1. requests[u] = f.copy /\ requests[u] # None
      BY <2>1, <2>3, NoneAssumption DEF Current
    <3>2. Locked(f).cost = f.copy.cost
      BY <2>1 DEF Locked, Request
    <3>3. requests'[u].cost = requests[u].cost
      BY <2>1, <2>2, <2>3, <3>1, <3>2 DEF IInv, TypeOK
    <3>4. QED
      BY <3>1, <3>3 DEF Priced
  <2>4. CASE u # f.user
    BY <2>1, <2>2, <2>4 DEF Priced, IInv, TypeOK
  <2>5. QED
    BY <2>3, <2>4
<1>2. CASE ~LockDone(t)
  BY <1>2, RequestsLeft DEF Priced
<1>3. QED
  BY <1>1, <1>2

\* A step of another call takes nothing from a proposal's user.
LEMMA OtherExecCovered ==
    ASSUME IInv, AdminsAsked, NEW t \in Task, Arrive(t) \/ Resume(t) \/ Answer(t),
           NEW d \in Task, d # t, ExecCovered(calls[d])
    PROVE  ExecCovered(calls[d])'
<1>1. calls'[d] = calls[d]
  BY OthersKept
<1>2. CASE UNCHANGED sub
  BY <1>1, <1>2 DEF ExecCovered
<1>3. CASE LedgerTransfers(t)
  <2>1. SUFFICES ASSUME calls[d].op = "exec" PROVE ExecCovered(calls[d])'
    BY <1>1 DEF ExecCovered
  <2>2. calls[t].at = "transfer"
    BY <1>3 DEF LedgerTransfers
  <2>3. calls[t].user # calls[d].user /\ calls[d].user \in User
    BY <2>1, <2>2, ProposalAlone, OpenCall
  <2>4. sub'[calls[d].user] = sub[calls[d].user]
    BY <1>3, <2>3 DEF LedgerTransfers, IInv, TypeOK
  <2>5. QED
    BY <1>1, <2>4 DEF ExecCovered
<1>4. UNCHANGED sub \/ LedgerTransfers(t)
  <2>1. Arrive(t) => UNCHANGED sub
    BY DEF Arrive, ExecStart, CreateStart, RefundStart, TopUpStart, AdminsStart,
       LockStart, external
  <2>2. Resume(t) => UNCHANGED sub
    BY LedgerExternal
  <2>3. Answer(t) => UNCHANGED sub \/ LedgerTransfers(t)
    BY DEF Answer, XrcAnswers, LedgerBalance, LedgerRefuses, CmcMints,
       CmcAuthorizes, RegistryAnswers, CalleeFails, external
  <2>4. QED
    BY <2>1, <2>2, <2>3
<1>5. QED
  BY <1>2, <1>3, <1>4

\* A proposal goes on when it has a price, then when the balance covers it, then
\* when a tenth of it is with the CMC.
LEMMA ResumeExecCovered ==
    ASSUME IInv, NEW t \in Task, Resume(t), ExecCovered(calls[t])
    PROVE  ExecCovered(calls[t])'
<1> DEFINE f == calls[t]
<1>1. /\ f \in Call /\ f.val \in Nat /\ f.amount \in Nat /\ ExecCovered(f)
      /\ calls \in [Task -> Call]
  BY CallTyped DEF IInv, TypeOK
<1>2. sub' = sub
  BY LedgerExternal
<1>3. SUFFICES ASSUME calls'[t].op = "exec" PROVE ExecCovered(calls[t])'
  BY DEF ExecCovered
<1>4. calls'[t] # NoCall
  BY <1>3 DEF NoCall
<1>5. ~LockFailed(t) /\ ~LockDone(t)
  <2>1. ASSUME LockFailed(t) \/ LockDone(t) PROVE FALSE
    <3>1. f.op = "lock" /\ \E held : NextInLoop(t, f, held)
      BY <2>1 DEF LockFailed, LockDone, ConversionFailed, Resumed
    <3>2. QED
      BY <1>1, <1>3, <1>4, <3>1, LoopGoesOn
  <2>2. QED
    BY <2>1
<1>6. f.op = "exec"
  BY <1>3, <1>4, <1>5, ResumeView DEF SameView
<1>7. ~Return(t)
  BY <1>1, <1>4 DEF Return, Go
<1>8. ExecPriced(t) \/ ExecFunded(t) \/ NotifyTopUp(t)
  BY <1>5, <1>6, <1>7 DEF Resume, ExecFailed, ExecDone, CreateFailed,
     CreateConverted, CreateDone, RefundTooLow, RefundSend, RefundFailed,
     RefundDone, TopUpSend, TopUpFailed, TopUpDone, AdminsDone, LockPanicked,
     Trap, Resumed, ConversionFailed
<1>9. CASE ExecPriced(t)
  <2>1. calls'[t] = Await([f EXCEPT !.amount = f.val], "balance") /\ f.val \in Prices
    BY <1>1, <1>9 DEF ExecPriced, Go, Resumed, ExecCovered
  <2>2. /\ calls'[t].at = "balance" /\ calls'[t].reply = "none"
        /\ calls'[t].amount \in Prices
    BY <1>1, <2>1 DEF Await, Call
  <2>3. QED
    BY <2>2 DEF ExecCovered
<1>10. CASE ExecFunded(t)
  <2>1. /\ calls'[t] = Await(f, "transfer")
        /\ f.at = "balance" /\ f.amount <= f.val /\ f.amount \in Prices
        /\ f.val <= sub[f.user]
    BY <1>1, <1>10 DEF ExecFunded, Go, Resumed, ExecCovered, Covered
  <2>2. /\ calls'[t].at = "transfer" /\ calls'[t].reply = "none"
        /\ calls'[t].amount = f.amount /\ calls'[t].user = f.user
    BY <1>1, <2>1 DEF Await, Call
  <2>3. sub[f.user] \in Nat
    BY <1>6, OpenCall DEF IInv, TypeOK
  <2>4. f.amount <= sub[f.user]
    BY <1>1, <2>1, <2>3
  <2>5. QED
    BY <1>2, <2>1, <2>2, <2>4 DEF ExecCovered
<1>11. CASE NotifyTopUp(t)
  <2>1. /\ calls'[t] = Await(f, "notify")
        /\ f.amount \in Prices /\ f.amount - Share(f.amount) <= sub[f.user]
    BY <1>1, <1>6, <1>11 DEF NotifyTopUp, Go, ExecCovered
  <2>2. /\ calls'[t].at = "notify" /\ calls'[t].amount = f.amount
        /\ calls'[t].user = f.user
    BY <1>1, <2>1 DEF Await, Call
  <2>3. QED
    BY <1>2, <2>1, <2>2 DEF ExecCovered
<1>12. QED
  BY <1>8, <1>9, <1>10, <1>11

\* The XRC answers with a price, the ledger with the balance; a transfer leaves
\* all but the tenth that is asked for.
LEMMA AnswerExecCovered ==
    ASSUME IInv, NEW t \in Task, Answer(t), ExecCovered(calls[t]),
           \A p \in Prices : Share(p) >= DEFAULT_FEE
    PROVE  ExecCovered(calls[t])'
<1> DEFINE f == calls[t]
<1>1. /\ f \in Call /\ CallOK(f) /\ f.amount \in Nat /\ ExecCovered(f)
      /\ calls \in [Task -> Call]
  BY CallTyped DEF IInv, TypeOK
<1>2. /\ f.reply = "none" /\ calls'[t].op = f.op /\ calls'[t].at = f.at
      /\ calls'[t].user = f.user /\ calls'[t].amount = f.amount
  BY AnswerFacts, AnswerKeeps
<1>3. SUFFICES ASSUME f.op = "exec" PROVE ExecCovered(calls[t])'
  BY <1>2 DEF ExecCovered
<1>4. f.user \in User /\ sub \in [User -> Nat] /\ sub[f.user] \in Nat
  BY <1>3, OpenCall DEF IInv, TypeOK
<1>5. ASSUME NEW c, NEW r, NEW v, Answers(t, c, r, v)
      PROVE  f.at = c /\ calls'[t].reply = r /\ calls'[t].val = v
  BY <1>1, <1>5 DEF Answers, Go, Call
<1>6. CASE XrcAnswers(t)
  <2>1. f.at = "rate" /\ calls'[t].val \in Prices
    BY <1>5, <1>6 DEF XrcAnswers
  <2>2. QED
    BY <1>2, <2>1 DEF ExecCovered
<1>7. CASE LedgerBalance(t)
  <2>1. f.at = "balance" /\ calls'[t].val = sub[f.user] /\ sub' = sub
    BY <1>5, <1>7 DEF LedgerBalance, external
  <2>2. QED
    BY <1>1, <1>2, <1>3, <1>4, <2>1 DEF ExecCovered
<1>8. CASE LedgerTransfers(t)
  <2>1. f.at = "transfer" /\ calls'[t].reply = "ok"
    BY <1>5, <1>8 DEF LedgerTransfers
  <2>2. f.amount \in Prices /\ f.amount <= sub[f.user]
    BY <1>1, <1>2, <1>3, <2>1 DEF ExecCovered
  <2>3. Sent(f) + DEFAULT_FEE = Share(f.amount)
    BY <1>1, <1>3, <2>2, DebitFacts DEF Asked
  <2>4. sub'[f.user] = sub[f.user] - Share(f.amount)
    BY <1>4, <1>8, <2>3 DEF LedgerTransfers
  <2>5. f.amount - Share(f.amount) <= sub'[f.user]
    BY <1>1, <1>4, <2>2, <2>4, ShareNat
  <2>6. QED
    BY <1>2, <2>1, <2>2, <2>5 DEF ExecCovered
<1>9. CASE ~XrcAnswers(t) /\ ~LedgerBalance(t) /\ ~LedgerTransfers(t)
  <2>1. sub' = sub
    BY <1>9 DEF Answer, LedgerRefuses, CmcMints, CmcAuthorizes, RegistryAnswers,
       CalleeFails, external
  <2>2. calls'[t].reply = "ok" => f.at \in {"notify", "whitelist", "registry"}
    BY <1>5, <1>9 DEF Answer, LedgerRefuses, CmcMints, CmcAuthorizes,
       RegistryAnswers, CalleeFails
  <2>3. calls'[t].reply # "none"
    BY <1>5, <1>9 DEF Answer, LedgerRefuses, CmcMints, CmcAuthorizes,
       RegistryAnswers, CalleeFails
  <2>4. QED
    BY <1>1, <1>2, <1>3, <2>1, <2>2, <2>3 DEF ExecCovered
<1>10. QED
  BY <1>6, <1>7, <1>8, <1>9

\* A payment takes nothing from anybody.
LEMMA PayAdds ==
    ASSUME IInv, NEW u \in User, Pay(u)
    PROVE  \A v \in User : sub'[v] >= sub[v]
<1>1. PICK d \in Deposits : sub' = [sub EXCEPT ![u] = @ + d]
  BY DEF Pay
<1>2. QED
  BY <1>1, AmountAssumption DEF IInv, TypeOK

\* What the proposals know of the ICP stays true, whoever works beside them.
ExecsCovered == \A t \in Task : ExecCovered(calls[t])

LEMMA ExecsCoveredStep ==
    ASSUME \A p \in Prices : Share(p) >= DEFAULT_FEE,
           IInv, AdminsAsked, ExecsCovered, [Next]_vars
    PROVE  ExecsCovered'
<1>1. IInv'
  BY NextInvariant
<1>2. ASSUME NEW t \in Task, Arrive(t) \/ Resume(t) \/ Answer(t) PROVE ExecsCovered'
  <2>1. ExecCovered(calls[t])'
    BY <1>2, ArriveWaits, ResumeExecCovered, AnswerExecCovered DEF ExecsCovered, ExecCovered
  <2>2. \A d \in Task : d # t => ExecCovered(calls[d])'
    BY <1>2, OtherExecCovered DEF ExecsCovered
  <2>3. QED
    BY <2>1, <2>2 DEF ExecsCovered
<1>3. ASSUME UNCHANGED calls, \A v \in User : sub'[v] >= sub[v] PROVE ExecsCovered'
  <2>1. SUFFICES ASSUME NEW t \in Task, calls[t].op = "exec"
                 PROVE  ExecCovered(calls[t])'
    BY <1>3 DEF ExecsCovered, ExecCovered
  <2>2. calls[t].user \in User /\ calls[t].val \in Nat /\ calls[t].amount \in Nat
    BY <2>1, CallTyped, OpenCall
  <2>3. Share(calls[t].amount) \in Nat
    BY <2>2, ShareNat
  <2>4. sub[calls[t].user] \in Nat /\ sub'[calls[t].user] \in Nat
    BY <1>1, <2>2 DEF IInv, TypeOK
  <2>5. QED
    BY <1>3, <2>2, <2>3, <2>4 DEF ExecsCovered, ExecCovered
<1>4. ASSUME UNCHANGED <<calls, sub>> PROVE ExecsCovered'
  BY <1>4 DEF ExecsCovered, ExecCovered
<1>5. ASSUME NEW u \in User, Pay(u) PROVE ExecsCovered'
  BY <1>3, <1>5, PayAdds DEF Pay
<1>6. QED
  BY <1>2, <1>4, <1>5 DEF Next, ExecRefused, NewDay, vars, external

LEMMA CoverageStep ==
    ASSUME \A p \in Prices : Share(p) >= DEFAULT_FEE,
           Base, Base', ExecsCovered, [AuditNext]_auditVars,
           NEW u \in User, CoveredFor(u), Priced(u), u \notin outdated',
           requests'[u] # None => u \notin short'
    PROVE  CoveredFor(u)' /\ Priced(u)'
<1>1. IInv /\ IInv' /\ AdminsAsked
  BY DEF Base
<1>2. Current(u)
  BY NotesKept, CurrentUsers DEF Base
<1>3. SUFFICES ASSUME requests'[u] # None
               PROVE  CoveredFor(u)' /\ Priced(u)'
  BY DEF CoveredFor, Priced
<1>4. u \notin short
  BY <1>3, NotesKept
<1>5. ASSUME NEW t \in Task, calls[t].user = u, Lost(t) PROVE requests[u] = None
  BY <1>4, <1>5 DEF Base, Noticed
<1>6. ASSUME NEW t \in Task, Arrive(t) PROVE CoveredFor(u)' /\ Priced(u)'
  BY <1>1, <1>6, ArriveCovered, ArriveFacts DEF Priced
<1>7. ASSUME NEW t \in Task, Resume(t) PROVE CoveredFor(u)' /\ Priced(u)'
  <2>1. CASE ExecDone(t)
    BY <1>1, <2>1, ExecDoneCovered DEF ExecsCovered
  <2>2. CASE ~ExecDone(t)
    <3>1. Priced(u)'
      BY <1>1, <1>2, <1>7, <2>2, CostsKept
    <3>2. CASE LockDone(t)
      BY <1>1, <1>2, <3>1, <3>2, LockDoneCovered
    <3>3. CASE ~LockDone(t)
      <4>1. requests[u] # None
        BY <1>1, <1>3, <1>7, <2>2, <3>3, RequestsLeft
      <4>2. calls[t].user = u => ~Lost(t)
        BY <1>5, <4>1
      <4>3. CoveredFor(u)'
        BY <1>1, <1>2, <1>7, <2>2, <3>3, <4>2, RequestEndsCovered, QuietCovered
      <4>4. QED
        BY <3>1, <4>3
    <3>4. QED
      BY <3>2, <3>3
  <2>3. QED
    BY <2>1, <2>2
<1>8. ASSUME NEW t \in Task, Answer(t) PROVE CoveredFor(u)' /\ Priced(u)'
  BY <1>1, <1>2, <1>8, AnswerCovered, AnswerFacts DEF Priced
<1>9. ASSUME UNCHANGED <<requests, calls>>, sub'[u] >= sub[u]
      PROVE  CoveredFor(u)' /\ Priced(u)'
  <2>1. Debits(u)' = Debits(u) /\ requests'[u] = requests[u]
    BY <1>9 DEF Debits, DebitsOf, Debited
  <2>2. PaidBack(u)' = PaidBack(u)
    BY <1>9 DEF PaidBack, Resumed
  <2>3. /\ SumFunction(DebitsOf(u)) = Debits(u) /\ SumFunction(DebitsOf(u))' = Debits(u)'
        /\ Debits(u) \in Nat
    BY <1>1, DebitsNat, NextDebitsNat
  <2>4. /\ sub[u] \in Nat /\ sub'[u] \in Nat
        /\ requests[u].cost \in Nat /\ requests[u].locked \in Nat
    BY <1>1, <1>3, <2>1 DEF IInv, TypeOK, Request
  <2>5. CoveredFor(u)'
    BY <1>9, <2>1, <2>2, <2>3, <2>4 DEF CoveredFor
  <2>6. QED
    BY <2>1, <2>5 DEF Priced
<1>10. ASSUME UNCHANGED <<requests, calls, sub>> PROVE CoveredFor(u)' /\ Priced(u)'
  BY <1>1, <1>9, <1>10 DEF IInv, TypeOK
<1>11. ASSUME NEW v \in User, Pay(v) PROVE CoveredFor(u)' /\ Priced(u)'
  BY <1>1, <1>9, <1>11, PayAdds DEF Pay, state
<1>12. QED
  BY <1>6, <1>7, <1>8, <1>10, <1>11, AuditStep
     DEF Next, ExecRefused, NewDay, vars, state, external

\* What the theorem on the ICP is shown by.
CoverInv ==
    /\ ExecsCovered
    /\ RequestCovered
    /\ \A u \in User \ (outdated \cup short) : Priced(u)

LEMMA CoverInvStep ==
    ASSUME \A p \in Prices : Share(p) >= DEFAULT_FEE
    PROVE  Base /\ Base' /\ CoverInv /\ [AuditNext]_auditVars => CoverInv'
<1> SUFFICES ASSUME Base, Base', CoverInv, [AuditNext]_auditVars PROVE CoverInv'
  OBVIOUS
<1>1. ExecsCovered'
  BY ExecsCoveredStep, AuditStep DEF Base, CoverInv
<1>2. ASSUME NEW u \in User, u \notin outdated', u \notin short'
      PROVE  CoveredFor(u)' /\ Priced(u)'
  <2>1. CASE requests'[u] = None
    BY <2>1 DEF CoveredFor, Priced
  <2>2. CASE requests'[u] # None
    <3>1. u \notin outdated /\ u \notin short
      BY <1>2, <2>2, NotesKept
    <3>2. CoveredFor(u) /\ Priced(u)
      BY <3>1 DEF CoverInv, RequestCovered, CoveredFor
    <3>3. QED
      BY <1>2, <3>2, CoverageStep DEF CoverInv
  <2>3. QED
    BY <2>1, <2>2
<1>3. RequestCovered'
  BY <1>2 DEF RequestCovered, CoveredFor
<1>4. QED
  BY <1>1, <1>2, <1>3 DEF CoverInv

LEMMA CoverInvariant ==
    ASSUME \A p \in Prices : Share(p) >= DEFAULT_FEE
    PROVE  AuditSpec => []CoverInv
<1>1. AuditInit => CoverInv
  BY DEF AuditInit, Init, CoverInv, ExecsCovered, RequestCovered, Priced, ExecCovered, NoCall
<1>2. Base /\ Base' /\ CoverInv /\ [AuditNext]_auditVars => CoverInv'
  BY CoverInvStep
<1>3. QED
  BY <1>1, <1>2, BaseInvariant, PTL DEF AuditSpec

\* If a tenth of a price pays the transfer fee, the subaccount of every user with
\* a request holds all that is not locked yet, whatever deposits, top-ups, refunds
\* and lockings are under way and whichever callees fail: but for the users whom a
\* locking has overtaken, and the requests that the CMC did not mint for.
THEOREM RequestsCovered ==
    ASSUME \A p \in Prices : Share(p) >= DEFAULT_FEE
    PROVE  AuditSpec => []RequestCovered
<1>1. CoverInv => RequestCovered
  BY DEF CoverInv
<1>2. QED
  BY <1>1, CoverInvariant, PTL

------------------------------------------------------------------------------
(* No conversion lacks the ICP *)

\* The parts of a cost are not more than the cost.
LEMMA PartsBelow == \A c \in Nat : Share(c) * LOCK_PARTS <= c
<1> SUFFICES ASSUME NEW c \in Nat PROVE (c \div LOCK_PARTS) * LOCK_PARTS <= c
  BY DEF Share
<1>1. QED
  BY LockAssumption

\* A request that is due has at least one part left to lock.
LEMMA PartToLock ==
    ASSUME NEW r \in Request, Paced(r), NEW day, Due(r, day)
    PROVE  Share(r.cost) <= r.cost - r.locked
<1>1. /\ r.cost \in Nat /\ r.locked \in Nat /\ Share(r.cost) \in Nat
      /\ LOCK_PARTS \in Nat /\ r.locked < Share(r.cost) * LOCK_PARTS
  BY ShareNat, LockAssumption DEF Request, Due
<1>2. PICK k \in Nat : r.locked = Share(r.cost) * k
  BY DEF Paced
<1>3. k + 1 <= LOCK_PARTS
  BY <1>1, <1>2, PartLeft
<1>4. Share(r.cost) * (k + 1) <= Share(r.cost) * LOCK_PARTS
  BY <1>1, <1>3, PartsMonotone, k + 1 \in Nat
<1>5. Share(r.cost) * (k + 1) = r.locked + Share(r.cost)
  BY <1>1, <1>2
<1>6. Share(r.cost) * LOCK_PARTS <= r.cost
  BY <1>1, PartsBelow
<1>7. Share(r.cost) * LOCK_PARTS \in Nat
  BY <1>1
<1>8. QED
  BY <1>1, <1>4, <1>5, <1>6, <1>7

\* While a locking or a creation waits for the ledger, nothing else has debited
\* the request's user, and no refund has been paid back.
LEMMA NothingElseDebited ==
    ASSUME IInv, NEW t \in Task, calls[t].op \in {"lock", "create"},
           calls[t].at = "transfer", calls[t].reply = "none"
    PROVE  Debits(calls[t].user) = 0 /\ ~PaidBack(calls[t].user)
<1> DEFINE u == calls[t].user
<1>1. ASSUME NEW d \in Task, calls[d].user = u,
             calls[d].op \in {"lock", "create", "refund"}
      PROVE  d = t
  BY <1>1, OneCallPerRequest
<1>2. ~PaidBack(u)
  BY <1>1 DEF PaidBack, Resumed
<1>3. \A d \in Task : DebitsOf(u)[d] = 0
  BY <1>1 DEF DebitsOf, Debited
<1>4. QED
  BY <1>2, <1>3, SumZero, FiniteAssumption DEF Debits

\* The conversion is the only debit, so the balance has what is not locked: a
\* creation asks for just that, and by the pace a locking asks for no more.
LEMMA CoveredFunds == Base /\ CoverInv /\ PInv => ConversionsFunded
<1> SUFFICES ASSUME IInv, LocksCurrent, CoverInv, PInv, NEW t \in Task,
                    calls[t].user \notin outdated, calls[t].user \notin short,
                    calls[t].op \in {"exec", "lock", "create"},
                    calls[t].at = "transfer", calls[t].reply = "none",
                    Asked(calls[t]) >= DEFAULT_FEE
             PROVE  sub[calls[t].user] >= Asked(calls[t])
  BY DEF ConversionsFunded, Base
<1> DEFINE f == calls[t]
           u == calls[t].user
<1>1. /\ f \in Call /\ CallOK(f) /\ CheckHolds(f) /\ f.amount \in Nat
      /\ u \in User /\ sub[u] \in Nat
  BY CallTyped, OpenCall DEF IInv, TypeOK
<1>2. CASE f.op = "exec"
  <2>1. f.amount <= sub[u] /\ Asked(f) = Share(f.amount)
    BY <1>2 DEF CoverInv, ExecsCovered, ExecCovered, Asked
  <2>2. Share(f.amount) <= f.amount /\ Share(f.amount) \in Nat
    BY <1>1, ShareBelow, ShareNat
  <2>3. QED
    BY <1>1, <2>1, <2>2
<1>3. CASE f.op \in {"lock", "create"}
  <2>1. requests[u] = f.copy /\ f.copy \in Request /\ f.copy # None
    BY <1>1, <1>3, NoneAssumption DEF CallOK, CheckHolds, LocksCurrent
  <2>2. f.copy.cost \in Nat /\ f.copy.locked \in Nat
    BY <2>1 DEF Request
  <2>3. sub[u] >= f.copy.cost - f.copy.locked
    <3>1. Debits(u) = 0 /\ ~PaidBack(u) /\ SumFunction(DebitsOf(u)) = Debits(u)
      BY <1>1, <1>3, NothingElseDebited, DebitsNat
    <3>2. sub[u] + SumFunction(DebitsOf(u)) >= f.copy.cost - f.copy.locked
      BY <1>1, <2>1, <3>1 DEF CoverInv, RequestCovered
    <3>3. QED
      BY <1>1, <2>2, <3>1, <3>2
  <2>4. CASE f.op = "lock"
    <3>1. Asked(f) = Share(f.copy.cost)
      BY <2>4 DEF Asked
    <3>2. Share(f.copy.cost) <= f.copy.cost - f.copy.locked
      BY <2>1, <2>4, PartToLock DEF PInv, LoopPaced
    <3>3. Share(f.copy.cost) \in Nat
      BY <2>2, ShareNat
    <3>4. QED
      BY <1>1, <2>2, <2>3, <3>1, <3>2, <3>3
  <2>5. CASE f.op = "create"
    <3>1. Asked(f) = Less(f.copy.cost, f.copy.locked)
      BY <2>5 DEF Asked
    <3>2. DEFAULT_FEE \in Nat \ {0}
      BY AmountAssumption
    <3>3. QED
      BY <1>1, <2>2, <2>3, <3>1, <3>2 DEF Less
  <2>6. QED
    BY <1>3, <2>4, <2>5
<1>4. QED
  BY <1>2, <1>3

\* Under the same condition the ledger never refuses the conversion of a proposal,
\* a locking or a creation that pays the fee, for any of those users: what was
\* checked when the request was made holds through all the months of its lockings.
THEOREM FundsThere ==
    ASSUME \A p \in Prices : Share(p) >= DEFAULT_FEE
    PROVE  AuditSpec => []ConversionsFunded
<1>1. AuditSpec => []Base /\ []CoverInv /\ []PInv
  BY BaseInvariant, CoverInvariant, AuditBehaves, PaceInvariant, PTL
<1>2. QED
  BY <1>1, CoveredFunds, PTL

------------------------------------------------------------------------------
(* The pace of the conversions *)

(***************************************************************************)
(* A request's conversions are as many as its record says, and one more    *)
(* while a locking of it goes from the CMC's answer to the record.  That   *)
(* the locking may be only one is the guard's doing, that it counts on the *)
(* record is that its entry is current, and what the record of a current   *)
(* entry says was paced when it was made (PInv).                           *)
(***************************************************************************)

\* The CMC has minted for a locking of u that is not in the record yet.
MintedUnrecorded(u) ==
    \E t \in Task : calls[t].user = u /\ Resumed(t, "lock", "notify", "ok")

\* The parts converted for u that are in the record.
Recorded(u) == IF MintedUnrecorded(u) THEN converted[u] - 1 ELSE converted[u]

\* Whole parts are locked, and no more than the periods up to the last locking.
KeepsPace(r, k) ==
    /\ k \in Nat
    /\ r.locked = Share(r.cost) * k
    /\ k <= LOCK_PARTS
    /\ k <= 1 + ((r.last - r.created) \div LOCK_PERIOD_DAYS)

PacedFor(u) == requests[u] # None => KeepsPace(requests[u], Recorded(u))

\* A request that comes has one part converted and recorded.
LEMMA FirstPart ==
    ASSUME Base, Base', [AuditNext]_auditVars, NEW t \in Task, ExecDone(t),
           NEW u \in User, calls[t].user = u
    PROVE  PacedFor(u)'
<1> DEFINE f == calls[t]
           r == [cost |-> f.amount, locked |-> Share(f.amount), cycles |-> f.val,
                 cond |-> f.cond, created |-> now, last |-> now]
<1>1. /\ Resume(t) /\ IInv /\ f.op = "exec" /\ f.amount \in Nat
      /\ now \in Nat /\ requests[u] = None
  BY CallTyped, OpenCall DEF Resume, ExecDone, Resumed, Base, CheckHolds, IInv, TypeOK
<1>2. requests'[u] = r
  BY <1>1 DEF ExecDone, IInv, TypeOK
<1>3. r.cost = f.amount /\ r.locked = Share(f.amount) /\ r.last - r.created = 0
  BY <1>1
<1> HIDE DEF r
<1>4. SUFFICES ASSUME requests'[u] # None PROVE KeepsPace(requests'[u], Recorded(u)')
  BY DEF PacedFor
<1>5. calls'[t] # calls[t]
  BY <1>1 DEF ExecDone, Return, Go, NoCall, IInv, TypeOK
<1>6. converted'[u] = 1
  <2>1. Noted
    BY <1>5 DEF AuditNext, auditVars, vars
  <2>2. converted[u] = 0
    BY <1>1 DEF Base, Noticed
  <2>3. QED
    BY <1>1, <1>4, <2>1, <2>2 DEF Noted
<1>7. ~MintedUnrecorded(u)'
  <2>1. ASSUME NEW d \in Task, calls'[d].user = u, calls'[d].op = "lock" PROVE FALSE
    <3>1. calls'[t].op # "lock"
      BY <1>1 DEF ExecDone, Return, Go, NoCall, IInv, TypeOK
    <3>2. d # t
      BY <2>1, <3>1
    <3>3. calls'[d] = calls[d]
      BY <1>1, <3>2, OthersKept
    <3>4. QED
      BY <1>1, <2>1, <3>2, <3>3, OneCallPerRequest
  <2>2. QED
    BY <2>1 DEF MintedUnrecorded, Resumed
<1>8. Recorded(u)' = 1
  BY <1>6, <1>7 DEF Recorded
<1>9. 1 <= 1 + (0 \div LOCK_PERIOD_DAYS) /\ 1 <= LOCK_PARTS
  BY PeriodsMonotone, LockAssumption
<1>10. Share(f.amount) = Share(f.amount) * 1
  BY <1>1, ShareNat
<1>11. QED
  BY <1>2, <1>3, <1>8, <1>9, <1>10 DEF KeepsPace

\* The parts and periods that a due copy leaves room for.
LEMMA RoomForPart ==
    ASSUME NEW r \in Request, NEW k, KeepsPace(r, k), NEW day \in Nat, Due(r, day),
           r.created <= r.last
    PROVE  /\ k + 1 <= LOCK_PARTS
           /\ day - r.created \in Nat
           /\ k + 1 <= 1 + ((day - r.created) \div LOCK_PERIOD_DAYS)
<1> DEFINE s == Share(r.cost)
           i == (r.last - r.created) \div LOCK_PERIOD_DAYS
           j == (day - r.created) \div LOCK_PERIOD_DAYS
<1>1. /\ r.created \in Nat /\ r.last \in Nat /\ s \in Nat /\ k \in Nat
      /\ LOCK_PARTS \in Nat /\ LOCK_PERIOD_DAYS \in Nat
  BY ShareNat, LockAssumption DEF Request, KeepsPace
<1>2. /\ r.last - r.created \in Nat /\ day - r.created \in Nat
      /\ (r.last - r.created) + LOCK_PERIOD_DAYS <= day - r.created
  BY <1>1 DEF Due
<1>3. i \in Nat /\ j \in Nat /\ i + 1 <= j
  BY <1>2, PeriodsMonotone
<1>4. s * k < s * LOCK_PARTS
  BY DEF Due, KeepsPace
<1>5. k + 1 <= LOCK_PARTS
  BY <1>1, <1>4, PartLeft
<1>6. k <= 1 + i
  BY DEF KeepsPace
<1> HIDE DEF i, j
<1>7. k + 1 <= 1 + j
  BY <1>1, <1>3, <1>6
<1>8. QED
  BY <1>2, <1>5, <1>7 DEF j

LEMMA OnePartMore == ASSUME NEW s \in Nat, NEW k \in Nat PROVE s * k + s = s * (k + 1)
OBVIOUS

\* The one call that a locking of u is.
LEMMA OneLocking ==
    ASSUME IInv, NEW t \in Task, NEW d \in Task, calls[t].op = "lock", calls[d].op = "lock",
           calls[t].user = calls[d].user
    PROVE  t = d
BY OneCallPerRequest

\* A locking that is done records the part that it has converted.
LEMMA PartRecorded ==
    ASSUME Base, Base', PInv, [AuditNext]_auditVars, NEW t \in Task, LockDone(t),
           NEW u \in User, calls[t].user = u, Current(u), PacedFor(u)
    PROVE  PacedFor(u)'
<1> DEFINE f == calls[t]
           k == Recorded(u)
           r == calls[t].copy
<1> SUFFICES ASSUME requests'[u] # None PROVE KeepsPace(requests'[u], Recorded(u)')
  BY DEF PacedFor
<1>1. /\ Resume(t) /\ IInv /\ f.op = "lock" /\ f.at = "notify" /\ f.reply = "ok"
      /\ r \in Request /\ f.day \in Nat /\ requests[u] = r /\ r # None
  BY CallTyped, OpenCall, NoneAssumption
     DEF Resume, LockDone, Resumed, Base, CallOK, Call, Current
<1>2. MintedUnrecorded(u)
  BY <1>1 DEF MintedUnrecorded, Resumed
<1>3. KeepsPace(r, k) /\ k = converted[u] - 1
  BY <1>1, <1>2 DEF PacedFor, Recorded
<1>4. Due(r, f.day) /\ r.created <= r.last
  BY <1>1 DEF PInv, LoopPaced, Paced
<1>5. /\ requests'[u] = Locked(f)
      /\ Locked(f).cost = r.cost /\ Locked(f).locked = r.locked + Share(r.cost)
      /\ Locked(f).last = f.day /\ Locked(f).created = r.created
  BY <1>1 DEF LockDone, Locked, Request, IInv, TypeOK
<1>6. \A d \in Task : calls'[d].user = u => ~(calls'[d].op = "lock" /\ calls'[d].reply = "ok")
  <2>1. calls'[t].reply # "ok"
    BY <1>1, ResumeWaits
  <2>2. ASSUME NEW d \in Task, d # t, calls'[d].user = u, calls'[d].op = "lock" PROVE FALSE
    BY <1>1, <2>2, OthersKept, OneLocking
  <2>3. QED
    BY <2>1, <2>2
<1>7. ~MintedUnrecorded(u)' /\ ~LockingMinted(u)
  <2>1. ~MintedUnrecorded(u)'
    BY <1>6 DEF MintedUnrecorded, Resumed
  <2>2. ASSUME NEW d \in Task, Resumed(d, "lock", "notify", "none"), calls[d].user = u
        PROVE  FALSE
    BY <1>1, <2>2, OneLocking DEF Resumed
  <2>3. QED
    BY <2>1, <2>2 DEF LockingMinted
<1>8. converted'[u] = converted[u]
  <2>1. calls'[t] # calls[t]
    BY <1>1, ResumeWaits
  <2>2. Noted
    BY <2>1 DEF AuditNext, auditVars, vars
  <2>3. QED
    BY <1>1, <1>7, <2>2 DEF Noted
<1>9. Recorded(u)' = k + 1
  <2>1. converted[u] \in Nat
    BY <1>1 DEF Base, Noticed
  <2>2. QED
    BY <1>3, <1>7, <1>8, <2>1 DEF Recorded
<1> HIDE DEF k
<1>10. /\ k + 1 <= LOCK_PARTS /\ k \in Nat
       /\ k + 1 <= 1 + ((f.day - r.created) \div LOCK_PERIOD_DAYS)
       /\ r.locked = Share(r.cost) * k
  BY <1>1, <1>3, <1>4, RoomForPart DEF KeepsPace
<1>11. r.locked + Share(r.cost) = Share(r.cost) * (k + 1)
  <2>1. Share(r.cost) \in Nat
    BY <1>1, ShareNat DEF Request
  <2>2. QED
    BY <1>10, <2>1, OnePartMore
<1>12. QED
  BY <1>5, <1>9, <1>10, <1>11 DEF KeepsPace

\* What is converted and not recorded yet is told by the open calls.
LEMMA RecordedKept ==
    ASSUME Base, [AuditNext]_auditVars, NEW u \in User,
           requests[u] # None, requests'[u] # None,
           \/ ~LockingMinted(u) /\ (MintedUnrecorded(u)' <=> MintedUnrecorded(u))
           \/ LockingMinted(u) /\ ~MintedUnrecorded(u) /\ MintedUnrecorded(u)'
    PROVE  Recorded(u)' = Recorded(u)
<1>1. converted[u] \in Nat
  BY DEF Base, Noticed
<1>2. converted'[u] = IF LockingMinted(u) THEN converted[u] + 1 ELSE converted[u]
  <2>1. CASE Noted
    BY <2>1 DEF Noted
  <2>2. CASE UNCHANGED auditVars
    BY <2>2 DEF LockingMinted, Resumed, auditVars, vars, audit
  <2>3. QED
    BY <2>1, <2>2 DEF AuditNext
<1>3. QED
  BY <1>1, <1>2 DEF Recorded

\* A call's other steps leave it, and so does the CMC, whose part is converted
\* and not recorded.
LEMMA OtherPace ==
    ASSUME Base, [AuditNext]_auditVars, NEW u \in User, Current(u),
           requests[u] # None, requests'[u] # None,
           NEW t \in Task, Arrive(t) \/ Resume(t) \/ Answer(t),
           ~(LockDone(t) /\ calls[t].user = u)
    PROVE  Recorded(u)' = Recorded(u)
<1> DEFINE Minted(d) == calls[d].user = u /\ Resumed(d, "lock", "notify", "ok")
           Mints(d) == /\ Resumed(d, "lock", "notify", "none")
                       /\ calls[d].user = u
                       /\ calls'[d].reply = "ok"
<1>1. IInv /\ \A d \in Task : d # t => calls'[d] = calls[d]
  BY OthersKept DEF Base
<1>2. \A d \in Task : d # t => ~Mints(d) /\ (Minted(d)' <=> Minted(d))
  BY <1>1 DEF Resumed
<1>3. /\ LockingMinted(u) <=> \E d \in Task : Mints(d)
      /\ MintedUnrecorded(u) <=> \E d \in Task : Minted(d)
      /\ MintedUnrecorded(u)' <=> \E d \in Task : Minted(d)'
  BY DEF LockingMinted, MintedUnrecorded
<1>4. CASE Mints(t)
  <2>1. Answer(t)
    BY <1>1, <1>4, ArriveFacts, ResumeWaits DEF NoCall, Resumed
  <2>2. Minted(t)'
    BY <1>1, <1>4, <2>1, AnswerFacts DEF Resumed
  <2>3. ASSUME NEW d \in Task, Minted(d) PROVE FALSE
    BY <1>1, <1>4, <2>3, OneLocking DEF Resumed
  <2>4. LockingMinted(u) /\ ~MintedUnrecorded(u) /\ MintedUnrecorded(u)'
    BY <1>3, <1>4, <2>2, <2>3
  <2>5. QED
    BY <2>4, RecordedKept
<1>5. CASE ~Mints(t)
  <2>1. Minted(t)' <=> Minted(t)
    <3>1. CASE Arrive(t)
      BY <1>1, <3>1, ArriveFacts, ArriveWaits DEF NoCall, Resumed
    <3>2. CASE Resume(t)
      <4>1. ~Minted(t)'
        BY <1>1, <3>2, ResumeWaits DEF Resumed
      <4>2. ASSUME Minted(t) PROVE FALSE
        <5>1. ~LockPanicked(t)
          BY <1>1, <4>2, NoPanic
        <5>2. ~LockDone(t)
          BY <4>2
        <5>3. QED
          BY <3>2, <4>2, <5>1, <5>2 DEF Resume, NotifyTopUp, ExecPriced, ExecFunded,
             ExecFailed, ExecDone, CreateFailed, CreateConverted, CreateDone,
             RefundTooLow, RefundSend, RefundFailed, RefundDone, TopUpSend,
             TopUpFailed, TopUpDone, AdminsDone, LockFailed, Trap, Resumed,
             ConversionFailed
      <4>3. QED
        BY <4>1, <4>2
    <3>3. CASE Answer(t)
      BY <1>1, <1>5, <3>3, AnswerFacts DEF Resumed
    <3>4. QED
      BY <3>1, <3>2, <3>3
  <2>2. \A d \in Task : ~Mints(d) /\ (Minted(d)' <=> Minted(d))
    BY <1>2, <1>5, <2>1
  <2>3. ~LockingMinted(u) /\ (MintedUnrecorded(u)' <=> MintedUnrecorded(u))
    BY <1>3, <2>2
  <2>4. QED
    BY <2>3, RecordedKept
<1>6. QED
  BY <1>4, <1>5

LEMMA PacedForStep ==
    ASSUME Base, Base', PInv, [AuditNext]_auditVars, NEW u \in User, PacedFor(u),
           u \notin outdated'
    PROVE  PacedFor(u)'
<1>1. IInv /\ Current(u)
  BY NotesKept, CurrentUsers DEF Base
<1>2. SUFFICES ASSUME requests'[u] # None PROVE PacedFor(u)'
  BY DEF PacedFor
<1>3. ASSUME requests'[u] = requests[u], Recorded(u)' = Recorded(u) PROVE PacedFor(u)'
  BY <1>3 DEF PacedFor, KeepsPace
<1>4. ASSUME NEW t \in Task, Arrive(t) \/ Answer(t) PROVE PacedFor(u)'
  <2>1. requests'[u] = requests[u] /\ ~(LockDone(t) /\ calls[t].user = u)
    BY <1>1, <1>4, ArriveFacts, AnswerFacts DEF LockDone, Resumed, NoCall
  <2>2. QED
    BY <1>1, <1>2, <1>3, <1>4, <2>1, OtherPace
<1>5. ASSUME NEW t \in Task, Resume(t) PROVE PacedFor(u)'
  <2>1. CASE (ExecDone(t) \/ LockDone(t)) /\ calls[t].user = u
    BY <1>1, <2>1, FirstPart, PartRecorded
  <2>2. CASE ~((ExecDone(t) \/ LockDone(t)) /\ calls[t].user = u)
    <3>1. requests'[u] = requests[u]
      <4>1. CASE ~ExecDone(t) /\ ~LockDone(t)
        BY <1>1, <1>2, <1>5, <4>1, RequestsLeft
      <4>2. CASE ExecDone(t) \/ LockDone(t)
        BY <2>2, <4>2 DEF ExecDone, LockDone, Base, IInv, TypeOK
      <4>3. QED
        BY <4>1, <4>2
    <3>2. QED
      BY <1>1, <1>2, <1>3, <1>5, <2>2, <3>1, OtherPace
  <2>3. QED
    BY <2>1, <2>2
<1>6. CASE UNCHANGED <<requests, calls>>
  <2>1. ~LockingMinted(u) /\ (MintedUnrecorded(u)' <=> MintedUnrecorded(u))
    BY <1>6 DEF LockingMinted, MintedUnrecorded, Resumed
  <2>2. QED
    BY <1>2, <1>3, <1>6, <2>1, RecordedKept
<1>7. QED
  BY <1>4, <1>5, <1>6, AuditStep DEF Next, ExecRefused, Pay, NewDay, vars, state

\* What a paced request has converted, the part that is not recorded included.
LEMMA PaceBounds ==
    ASSUME Base, PInv, NEW u \in User, requests[u] # None, u \notin outdated, PacedFor(u)
    PROVE  /\ converted[u] <= LOCK_PARTS
           /\ converted[u] <= 1 + (now - requests[u].created) \div LOCK_PERIOD_DAYS
<1> DEFINE r == requests[u]
           k == Recorded(u)
           j == (now - r.created) \div LOCK_PERIOD_DAYS
<1>1. /\ r \in Request /\ now \in Nat /\ r.created \in Nat /\ r.last \in Nat
      /\ r.created <= r.last /\ r.last <= now /\ converted[u] \in Nat
  BY DEF Base, IInv, TypeOK, Request, PInv, Paced, Noticed
<1>2. KeepsPace(r, k)
  BY DEF PacedFor
<1>3. CASE MintedUnrecorded(u)
  <2>1. PICK t \in Task : calls[t].user = u /\ Resumed(t, "lock", "notify", "ok")
    BY <1>3 DEF MintedUnrecorded
  <2>2. calls[t].copy = r /\ Due(r, calls[t].day) /\ calls[t].day <= now
    BY <2>1 DEF Base, LocksCurrent, PInv, LoopPaced, Resumed
  <2>3. calls[t].day \in Nat
    BY DEF Base, IInv, TypeOK, Call
  <2> DEFINE i == (calls[t].day - r.created) \div LOCK_PERIOD_DAYS
  <2>4. k + 1 <= LOCK_PARTS /\ calls[t].day - r.created \in Nat /\ k + 1 <= 1 + i
    BY <1>1, <1>2, <2>2, <2>3, RoomForPart
  <2>5. now - r.created \in Nat /\ calls[t].day - r.created <= now - r.created
    BY <1>1, <2>2, <2>3
  <2>6. i \in Nat /\ j \in Nat /\ i <= j
    BY <2>4, <2>5, PeriodsMonotone
  <2>7. converted[u] = k + 1
    BY <1>1, <1>3 DEF Recorded
  <2> HIDE DEF i, j, k
  <2>8. converted[u] <= LOCK_PARTS /\ converted[u] <= 1 + j
    BY <1>1, <2>4, <2>6, <2>7
  <2>9. QED
    BY <2>8 DEF j
<1>4. CASE ~MintedUnrecorded(u)
  <2> DEFINE i == (r.last - r.created) \div LOCK_PERIOD_DAYS
  <2>1. r.last - r.created \in Nat /\ now - r.created \in Nat
        /\ r.last - r.created <= now - r.created
    BY <1>1
  <2>2. i \in Nat /\ j \in Nat /\ i <= j
    BY <2>1, PeriodsMonotone
  <2>3. converted[u] = k /\ k <= LOCK_PARTS /\ k <= 1 + i
    BY <1>2, <1>4 DEF Recorded, KeepsPace
  <2> HIDE DEF i, j, k
  <2>4. converted[u] <= LOCK_PARTS /\ converted[u] <= 1 + j
    BY <1>1, <2>2, <2>3
  <2>5. QED
    BY <2>4 DEF j
<1>5. QED
  BY <1>3, <1>4

\* The locking timer: the CMC has never minted more parts for a request than
\* periods have passed since it was made, plus the first, and never more than all
\* of them, whatever overlapping loops list and however often they retry: but for
\* the users whom a locking has overtaken.
THEOREM PaceKept == AuditSpec => []LockingPaced
<1> DEFINE AllPaced == \A u \in User \ outdated : PacedFor(u)
<1>1. AuditInit => AllPaced
  BY DEF AuditInit, Init, PacedFor
<1>2. Base /\ Base' /\ PInv /\ AllPaced /\ [AuditNext]_auditVars => AllPaced'
  <2> SUFFICES ASSUME Base, Base', PInv, AllPaced, [AuditNext]_auditVars,
                      NEW u \in User, u \notin outdated'
               PROVE  PacedFor(u)'
    OBVIOUS
  <2>1. PacedFor(u)
    BY NotesKept
  <2>2. QED
    BY <2>1, PacedForStep
<1>3. Base /\ PInv /\ AllPaced => LockingPaced
  BY PaceBounds DEF LockingPaced
<1> HIDE DEF AllPaced
<1>4. AuditSpec => []Base /\ []PInv
  BY BaseInvariant, AuditBehaves, PaceInvariant, PTL
<1>5. QED
  BY <1>1, <1>2, <1>3, <1>4, PTL DEF AuditSpec
==============================================================================
