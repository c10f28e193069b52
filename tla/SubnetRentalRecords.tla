-------------------------- MODULE SubnetRentalRecords --------------------------
(***************************************************************************)
(* What others read about the rental state is right: the list of the CMC   *)
(* and the newest events of the history agree with the agreements and the  *)
(* requests, for any number of users, subnets and open calls, and with any *)
(* callee failing.                                                         *)
(***************************************************************************)
EXTENDS SubnetRentalProofs

\* Call t is a creation that the CMC has answered.
Authorized(t) == Resumed(t, "create", "whitelist", "ok")

\* The subnet it has been authorized for is still the user's on the CMC's list.
AuthorizedKept ==
    \A t \in Task : Authorized(t) => whitelist[calls[t].user] = calls[t].subnet

\* A creation that waits for the CMC has told the conversion as the newest event.
ConversionTold ==
    \A t \in Task : calls[t].at = "whitelist"
        => newest[calls[t].user] = "TransferSuccess"

WInv == WhitelistMatches /\ AuthorizedKept
HInv == HistoryTellsState /\ ConversionTold

------------------------------------------------------------------------------
(* Calls *)

\* A step of one call leaves the others as they are.
LEMMA OthersKept ==
    ASSUME IInv, NEW t \in Task, Arrive(t) \/ Resume(t) \/ Answer(t)
    PROVE  \A d \in Task : d # t => calls'[d] = calls[d]
<1> DEFINE Kept == \A d \in Task : d # t => calls'[d] = calls[d]
<1>1. calls \in [Task -> Call]
  BY DEF IInv, TypeOK
<1>2. ASSUME NEW g, Go(t, g) PROVE Kept
  BY <1>1, <1>2 DEF Go
<1>3. ASSUME NEW f, NEW c, Enter(t, f, c) PROVE Kept
  BY <1>3, <1>2 DEF Enter
<1>4. ASSUME Return(t) PROVE Kept
  BY <1>4, <1>2 DEF Return
<1>5. ASSUME NEW f, NEW held, NextInLoop(t, f, held) PROVE Kept
  BY <1>5, <1>2 DEF NextInLoop
<1>6. ASSUME NEW c, NEW r, NEW v, Answers(t, c, r, v) PROVE Kept
  BY <1>6, <1>2 DEF Answers
<1> HIDE DEF Kept
<1>7. ASSUME Arrive(t) PROVE Kept
  <2>1. ASSUME NEW u \in User, NEW c \in Condition, ExecStart(t, u, c)
        PROVE  Kept
    BY <2>1, <1>3 DEF ExecStart
  <2>2. ASSUME NEW u \in User, NEW s \in Subnet, CreateStart(t, u, s)
        PROVE  Kept
    BY <2>2, <1>3 DEF CreateStart
  <2>3. ASSUME NEW u \in User, RefundStart(t, u)
        PROVE  Kept
    BY <2>3, <1>3 DEF RefundStart
  <2>4. ASSUME NEW s \in Subnet, TopUpStart(t, s)
        PROVE  Kept
    BY <2>4, <1>3 DEF TopUpStart
  <2>5. ASSUME NEW s \in Subnet, AdminsStart(t, s)
        PROVE  Kept
    BY <2>5, <1>3 DEF AdminsStart
  <2>6. ASSUME LockStart(t)
        PROVE  Kept
    BY <2>6, <1>5 DEF LockStart
  <2>7. QED
    BY <1>7, <2>1, <2>2, <2>3, <2>4, <2>5, <2>6 DEF Arrive
<1>8. ASSUME Resume(t) PROVE Kept
  <2>1. ASSUME NotifyTopUp(t) PROVE Kept
    BY <2>1, <1>2 DEF NotifyTopUp
  <2>2. ASSUME ExecPriced(t) PROVE Kept
    BY <2>2, <1>2 DEF ExecPriced
  <2>3. ASSUME ExecFunded(t) PROVE Kept
    BY <2>3, <1>2 DEF ExecFunded
  <2>4. ASSUME CreateConverted(t) PROVE Kept
    BY <2>4, <1>2 DEF CreateConverted
  <2>5. ASSUME RefundSend(t) PROVE Kept
    BY <2>5, <1>2 DEF RefundSend
  <2>6. ASSUME TopUpSend(t) PROVE Kept
    BY <2>6, <1>2 DEF TopUpSend
  <2>7. ASSUME ExecFailed(t) PROVE Kept
    BY <2>7, <1>4 DEF ExecFailed
  <2>8. ASSUME ExecDone(t) PROVE Kept
    BY <2>8, <1>4 DEF ExecDone
  <2>9. ASSUME CreateFailed(t) PROVE Kept
    BY <2>9, <1>4 DEF CreateFailed
  <2>10. ASSUME CreateDone(t) PROVE Kept
    BY <2>10, <1>4 DEF CreateDone
  <2>11. ASSUME RefundTooLow(t) PROVE Kept
    BY <2>11, <1>4 DEF RefundTooLow
  <2>12. ASSUME RefundFailed(t) PROVE Kept
    BY <2>12, <1>4 DEF RefundFailed
  <2>13. ASSUME RefundDone(t) PROVE Kept
    BY <2>13, <1>4 DEF RefundDone
  <2>14. ASSUME TopUpFailed(t) PROVE Kept
    BY <2>14, <1>4 DEF TopUpFailed
  <2>15. ASSUME TopUpDone(t) PROVE Kept
    BY <2>15, <1>4 DEF TopUpDone
  <2>16. ASSUME AdminsDone(t) PROVE Kept
    BY <2>16, <1>4 DEF AdminsDone
  <2>17. ASSUME LockPanicked(t) PROVE Kept
    BY <2>17, <1>4 DEF LockPanicked
  <2>18. ASSUME Trap(t) PROVE Kept
    BY <2>18, <1>4 DEF Trap
  <2>19. ASSUME LockFailed(t) PROVE Kept
    BY <2>19, <1>5 DEF LockFailed
  <2>20. ASSUME LockDone(t) PROVE Kept
    BY <2>20, <1>5 DEF LockDone
  <2>21. QED
    BY <1>8, <2>1, <2>2, <2>3, <2>4, <2>5, <2>6, <2>7, <2>8, <2>9, <2>10, <2>11, <2>12, <2>13, <2>14, <2>15, <2>16, <2>17, <2>18, <2>19, <2>20 DEF Resume
<1>9. ASSUME Answer(t) PROVE Kept
  <2>1. ASSUME XrcAnswers(t) PROVE Kept
    BY <2>1, <1>6 DEF XrcAnswers
  <2>2. ASSUME LedgerBalance(t) PROVE Kept
    BY <2>2, <1>6 DEF LedgerBalance
  <2>3. ASSUME LedgerTransfers(t) PROVE Kept
    BY <2>3, <1>6 DEF LedgerTransfers
  <2>4. ASSUME LedgerRefuses(t) PROVE Kept
    BY <2>4, <1>6 DEF LedgerRefuses
  <2>5. ASSUME CmcMints(t) PROVE Kept
    BY <2>5, <1>6 DEF CmcMints
  <2>6. ASSUME CmcAuthorizes(t) PROVE Kept
    BY <2>6, <1>6 DEF CmcAuthorizes
  <2>7. ASSUME RegistryAnswers(t) PROVE Kept
    BY <2>7, <1>6 DEF RegistryAnswers
  <2>8. ASSUME CalleeFails(t) PROVE Kept
    BY <2>8, <1>6 DEF CalleeFails
  <2>9. QED
    BY <1>9, <2>1, <2>2, <2>3, <2>4, <2>5, <2>6, <2>7, <2>8 DEF Answer
<1>10. QED
  BY <1>7, <1>8, <1>9 DEF Kept

\* A call that arrives was none, and does not wait for the CMC.
LEMMA ArriveFacts ==
    ASSUME IInv, NEW t \in Task, Arrive(t)
    PROVE  /\ calls[t] = NoCall
           /\ calls'[t].at # "whitelist"
           /\ UNCHANGED <<requests, agreements, newest, whitelist>>
<1>1. calls[t] = NoCall
  BY DEF Arrive, ExecStart, CreateStart, RefundStart, TopUpStart, AdminsStart,
         LockStart, Enter
<1>2. UNCHANGED <<requests, agreements, newest, whitelist>>
  BY DEF Arrive, ExecStart, CreateStart, RefundStart, TopUpStart, AdminsStart,
         LockStart, state, external
<1>3. calls'[t].at # "whitelist"
  <2> USE DEF Enter, Go, Await, NoCall, IInv, TypeOK
  <2>1. ASSUME NEW u \in User, NEW c \in Condition, ExecStart(t, u, c)
        PROVE  calls'[t].at # "whitelist"
    <3> DEFINE f == [NoCall EXCEPT !.op = "exec", !.user = u, !.cond = c]
    <3>1. CASE Enter(t, f, "rate")
      <4>1. calls'[t] = Await(f, "rate")
        BY <3>1
      <4>2. QED
        BY <4>1
    <3>2. ASSUME NEW price \in Prices,
                 Enter(t, [f EXCEPT !.amount = price], "balance")
          PROVE  calls'[t].at # "whitelist"
      <4>1. calls'[t] = Await([f EXCEPT !.amount = price], "balance")
        BY <3>2
      <4>2. QED
        BY <4>1
    <3>3. QED
      BY <2>1, <3>1, <3>2 DEF ExecStart
  <2>2. ASSUME NEW u \in User, NEW s \in Subnet, CreateStart(t, u, s)
        PROVE  calls'[t].at # "whitelist"
    <3> DEFINE f == [NoCall EXCEPT !.op = "create", !.user = u, !.subnet = s,
                                   !.copy = requests[u]]
    <3>1. DOMAIN f = DOMAIN NoCall
      OBVIOUS
    <3>2. calls'[t] = Await(f, "transfer")
      BY <2>2 DEF CreateStart
    <3>3. QED
      BY <3>1, <3>2
  <2>3. ASSUME NEW u \in User, RefundStart(t, u)
        PROVE  calls'[t].at # "whitelist"
    BY <2>3 DEF RefundStart
  <2>4. ASSUME NEW s \in Subnet, TopUpStart(t, s) \/ AdminsStart(t, s)
        PROVE  calls'[t].at # "whitelist"
    BY <2>4 DEF TopUpStart, AdminsStart
  <2>5. CASE LockStart(t)
    <3> DEFINE f == [NoCall EXCEPT !.op = "lock", !.snap = requests, !.day = now]
    <3>1. requests \in [User -> Request \cup {None}] /\ now \in Nat
      OBVIOUS
    <3>2. f \in Call /\ f.op = "lock" /\ f.snap = requests
      BY <3>1, NoCallFacts DEF Call, Op
    <3>3. locks \ Held(calls[t]) = locks
      BY <2>5, NoCallFacts DEF LockStart
    <3>4. PICK g \in Call : CallOK(g) /\ Becomes(t, g) /\ g.op \in {"lock", "idle"}
      BY <2>5, <3>1, <3>2, <3>3, LoopBecomes DEF LockStart
    <3>5. calls'[t] = g
      BY <3>4 DEF Becomes
    <3>6. QED
      BY <3>4, <3>5 DEF CallOK
  <2>6. QED
    BY <2>1, <2>2, <2>3, <2>4, <2>5 DEF Arrive
<1>4. QED
  BY <1>1, <1>2, <1>3

\* A callee answers a call that waits, and the call stays where it is.
LEMMA AnswerFacts ==
    ASSUME IInv, NEW t \in Task, Answer(t)
    PROVE  /\ calls[t].reply = "none"
           /\ calls'[t].op = calls[t].op
           /\ calls'[t].at = calls[t].at
           /\ calls'[t].user = calls[t].user
           /\ calls'[t].subnet = calls[t].subnet
           /\ UNCHANGED <<requests, agreements, newest>>
<1>1. ASSUME NEW c, NEW r, NEW v, Answers(t, c, r, v)
      PROVE  /\ calls[t].reply = "none"
             /\ calls'[t].op = calls[t].op
             /\ calls'[t].at = calls[t].at
             /\ calls'[t].user = calls[t].user
             /\ calls'[t].subnet = calls[t].subnet
             /\ UNCHANGED <<requests, agreements, newest>>
  BY <1>1 DEF Answers, Go, state, IInv, TypeOK, Call
<1>2. QED
  BY <1>1 DEF Answer, XrcAnswers, LedgerBalance, LedgerTransfers, LedgerRefuses,
              CmcMints, CmcAuthorizes, RegistryAnswers, CalleeFails

\* The calls that get a user's request guard exclude each other.
LEMMA OneCallPerRequest ==
    ASSUME IInv, NEW t \in Task, NEW d \in Task, t # d,
           calls[t].op \in {"exec", "create", "refund", "lock"},
           calls[d].op \in {"exec", "create", "refund", "lock"}
    PROVE  calls[t].user # calls[d].user
<1>1. /\ <<calls[t].user, "request">> \in Held(calls[t])
      /\ <<calls[d].user, "request">> \in Held(calls[d])
  BY HeldFacts
<1>2. QED
  BY <1>1 DEF IInv, LocksOwned

\* Only a creation that has converted the rest of its request asks the CMC to
\* authorize the user; it then has no answer yet.
LEMMA ResumeFacts ==
    ASSUME IInv, NEW t \in Task, Resume(t)
    PROVE  /\ calls'[t].at = "whitelist" => CreateConverted(t)
           /\ ~Authorized(t)'
<1> DEFINE Elsewhere == calls'[t].at # "whitelist"
<1>1. /\ calls \in [Task -> Call] /\ calls[t] \in Call /\ CallOK(calls[t])
      /\ calls[t].val \in Nat
  BY CallTyped DEF IInv, TypeOK
<1>2. ASSUME NEW c \in Callee \ {"whitelist"}, Go(t, Await(calls[t], c))
      PROVE  Elsewhere
  BY <1>1, <1>2 DEF Go, Await, Call
<1>3. ASSUME NEW c \in Callee \ {"whitelist"},
             Go(t, Await([calls[t] EXCEPT !.amount = calls[t].val], c))
      PROVE  Elsewhere
  BY <1>1, <1>3 DEF Go, Await, Call
<1>4. ASSUME Return(t) PROVE Elsewhere
  BY <1>1, <1>4 DEF Return, Go, NoCall
<1>5. ASSUME calls[t].op = "lock", NextInLoop(t, calls[t], locks \ Held(calls[t]))
      PROVE  Elsewhere
  <2>1. calls[t].snap \in [User -> Request \cup {None}]
    BY <1>1, <1>5 DEF CallOK
  <2>2. PICK g \in Call : CallOK(g) /\ Becomes(t, g) /\ g.op \in {"lock", "idle"}
    BY <1>1, <1>5, <2>1, LoopBecomes
  <2>3. calls'[t] = g
    BY <1>1, <2>2 DEF Becomes
  <2>4. QED
    BY <2>2, <2>3 DEF CallOK
<1> HIDE DEF Elsewhere
<1>6. ASSUME NotifyTopUp(t) PROVE Elsewhere
  BY <1>6, <1>2 DEF NotifyTopUp, Callee
<1>7. ASSUME ExecFunded(t) PROVE Elsewhere
  BY <1>7, <1>2 DEF ExecFunded, Callee
<1>8. ASSUME ExecPriced(t) PROVE Elsewhere
  BY <1>8, <1>3 DEF ExecPriced, Callee
<1>9. ASSUME RefundSend(t) PROVE Elsewhere
  BY <1>9, <1>3 DEF RefundSend, Callee
<1>10. ASSUME TopUpSend(t) PROVE Elsewhere
  BY <1>10, <1>3 DEF TopUpSend, Callee
<1>11. ASSUME ExecFailed(t) PROVE Elsewhere
  BY <1>11, <1>4 DEF ExecFailed
<1>12. ASSUME ExecDone(t) PROVE Elsewhere
  BY <1>12, <1>4 DEF ExecDone
<1>13. ASSUME CreateFailed(t) PROVE Elsewhere
  BY <1>13, <1>4 DEF CreateFailed
<1>14. ASSUME CreateDone(t) PROVE Elsewhere
  BY <1>14, <1>4 DEF CreateDone
<1>15. ASSUME RefundTooLow(t) PROVE Elsewhere
  BY <1>15, <1>4 DEF RefundTooLow
<1>16. ASSUME RefundFailed(t) PROVE Elsewhere
  BY <1>16, <1>4 DEF RefundFailed
<1>17. ASSUME RefundDone(t) PROVE Elsewhere
  BY <1>17, <1>4 DEF RefundDone
<1>18. ASSUME TopUpFailed(t) PROVE Elsewhere
  BY <1>18, <1>4 DEF TopUpFailed
<1>19. ASSUME TopUpDone(t) PROVE Elsewhere
  BY <1>19, <1>4 DEF TopUpDone
<1>20. ASSUME AdminsDone(t) PROVE Elsewhere
  BY <1>20, <1>4 DEF AdminsDone
<1>21. ASSUME LockPanicked(t) PROVE Elsewhere
  BY <1>21, <1>4 DEF LockPanicked
<1>22. ASSUME Trap(t) PROVE Elsewhere
  BY <1>22, <1>4 DEF Trap
<1>23. ASSUME LockFailed(t) PROVE Elsewhere
  BY <1>23, <1>5 DEF LockFailed, Resumed, ConversionFailed
<1>24. ASSUME LockDone(t) PROVE Elsewhere
  BY <1>24, <1>5 DEF LockDone, Resumed, ConversionFailed
<1>25. calls'[t].at = "whitelist" => CreateConverted(t)
  <2>1. Elsewhere \/ CreateConverted(t)
    BY <1>6, <1>7, <1>8, <1>9, <1>10, <1>11, <1>12, <1>13, <1>14, <1>15, <1>16, <1>17, <1>18, <1>19, <1>20, <1>21, <1>22, <1>23, <1>24 DEF Resume
  <2>2. QED
    BY <2>1 DEF Elsewhere
<1>26. CreateConverted(t) => calls'[t].reply = "none"
  BY <1>1 DEF CreateConverted, Go, Await, Call
<1>27. QED
  BY <1>25, <1>26 DEF Authorized, Resumed

\* A creation that the CMC has answered goes on by making the agreement.
LEMMA AuthorizedGoesOn ==
    ASSUME NEW t \in Task, Resume(t), Authorized(t)
    PROVE  CreateDone(t)
BY DEF Authorized, Resume, Resumed, ConversionFailed, NotifyTopUp, ExecPriced,
       ExecFunded, ExecFailed, ExecDone, CreateFailed, CreateConverted,
       RefundTooLow, RefundSend, RefundFailed, RefundDone, TopUpSend,
       TopUpFailed, TopUpDone, AdminsDone, LockFailed, LockDone, LockPanicked,
       Trap

\* The CMC's list is written by its answer alone, and by every answer of it that
\* is not an error.
LEMMA ListWritten ==
    ASSUME IInv, NEW t \in Task, Answer(t), ~CmcAuthorizes(t)
    PROVE  UNCHANGED whitelist /\ ~Authorized(t)'
<1>1. UNCHANGED whitelist
  BY DEF Answer, XrcAnswers, LedgerBalance, LedgerTransfers, LedgerRefuses,
         CmcMints, RegistryAnswers, CalleeFails, external
<1>2. ASSUME NEW c \in Callee \ {"whitelist"}, NEW r, NEW v, Answers(t, c, r, v)
      PROVE  ~Authorized(t)'
  BY <1>2, AnswerFacts DEF Answers, Authorized, Resumed
<1>3. ASSUME NEW c, NEW r \in Reply \ {"ok"}, NEW v, Answers(t, c, r, v)
      PROVE  ~Authorized(t)'
  BY <1>3 DEF Answers, Go, Authorized, Resumed, IInv, TypeOK, Call
<1>4. ~Authorized(t)'
  BY <1>2, <1>3 DEF Answer, XrcAnswers, LedgerBalance, LedgerTransfers,
     LedgerRefuses, CmcMints, RegistryAnswers, CalleeFails, Callee, Reply
<1>5. QED
  BY <1>1, <1>4

\* A call that goes on with the locals that outlive an await.
SameView(g, f) ==
    /\ g.op = f.op
    /\ g.user = f.user
    /\ g.cond = f.cond
    /\ g.copy = f.copy
    /\ g.snap = f.snap
    /\ g.day = f.day

\* Every step of a handler but those of the loop ends it or keeps its view.
LEMMA ResumeView ==
    ASSUME IInv, NEW t \in Task, Resume(t), ~LockFailed(t), ~LockDone(t)
    PROVE  calls'[t] = NoCall \/ SameView(calls'[t], calls[t])
<1> DEFINE View == calls'[t] = NoCall \/ SameView(calls'[t], calls[t])
<1>1. calls \in [Task -> Call] /\ calls[t] \in Call
  BY DEF IInv, TypeOK
<1>2. ASSUME NEW c, Go(t, Await(calls[t], c)) PROVE View
  BY <1>1, <1>2 DEF Go, Await, Call, SameView
<1>3. ASSUME NEW c, NEW n, Go(t, Await([calls[t] EXCEPT !.amount = n], c)) PROVE View
  BY <1>1, <1>3 DEF Go, Await, Call, SameView
<1>4. ASSUME Return(t) PROVE View
  BY <1>1, <1>4 DEF Return, Go
<1> HIDE DEF View
<1>5. ASSUME NotifyTopUp(t) PROVE View
  BY <1>5, <1>2 DEF NotifyTopUp
<1>6. ASSUME ExecFunded(t) PROVE View
  BY <1>6, <1>2 DEF ExecFunded
<1>7. ASSUME ExecPriced(t) PROVE View
  BY <1>7, <1>3 DEF ExecPriced
<1>8. ASSUME CreateConverted(t) PROVE View
  BY <1>8, <1>3 DEF CreateConverted
<1>9. ASSUME RefundSend(t) PROVE View
  BY <1>9, <1>3 DEF RefundSend
<1>10. ASSUME TopUpSend(t) PROVE View
  BY <1>10, <1>3 DEF TopUpSend
<1>11. ASSUME ExecFailed(t) PROVE View
  BY <1>11, <1>4 DEF ExecFailed
<1>12. ASSUME ExecDone(t) PROVE View
  BY <1>12, <1>4 DEF ExecDone
<1>13. ASSUME CreateFailed(t) PROVE View
  BY <1>13, <1>4 DEF CreateFailed
<1>14. ASSUME CreateDone(t) PROVE View
  BY <1>14, <1>4 DEF CreateDone
<1>15. ASSUME RefundTooLow(t) PROVE View
  BY <1>15, <1>4 DEF RefundTooLow
<1>16. ASSUME RefundFailed(t) PROVE View
  BY <1>16, <1>4 DEF RefundFailed
<1>17. ASSUME RefundDone(t) PROVE View
  BY <1>17, <1>4 DEF RefundDone
<1>18. ASSUME TopUpFailed(t) PROVE View
  BY <1>18, <1>4 DEF TopUpFailed
<1>19. ASSUME TopUpDone(t) PROVE View
  BY <1>19, <1>4 DEF TopUpDone
<1>20. ASSUME AdminsDone(t) PROVE View
  BY <1>20, <1>4 DEF AdminsDone
<1>21. ASSUME LockPanicked(t) PROVE View
  BY <1>21, <1>4 DEF LockPanicked
<1>22. ASSUME Trap(t) PROVE View
  BY <1>22, <1>4 DEF Trap
<1>23. View
  BY <1>5, <1>6, <1>7, <1>8, <1>9, <1>10, <1>11, <1>12, <1>13, <1>14, <1>15, <1>16, <1>17, <1>18, <1>19, <1>20, <1>21, <1>22 DEF Resume
<1>24. QED
  BY <1>23 DEF View

\* So does the answer of a callee.
LEMMA AnswerView ==
    ASSUME IInv, NEW t \in Task, Answer(t)
    PROVE  SameView(calls'[t], calls[t])
<1>1. ASSUME NEW c, NEW r, NEW v, Answers(t, c, r, v)
      PROVE  SameView(calls'[t], calls[t])
  BY <1>1 DEF Answers, Go, SameView, IInv, TypeOK, Call
<1>2. QED
  BY <1>1 DEF Answer, XrcAnswers, LedgerBalance, LedgerTransfers, LedgerRefuses,
              CmcMints, CmcAuthorizes, RegistryAnswers, CalleeFails

\* A proposal arrives with the conditions it has checked.
LEMMA ExecArrives ==
    ASSUME IInv, NEW t \in Task, NEW u \in User, NEW c \in Condition,
           ExecStart(t, u, c)
    PROVE  calls'[t].op = "exec" /\ calls'[t].cond = c
<1> DEFINE f == [NoCall EXCEPT !.op = "exec", !.user = u, !.cond = c]
<1> USE DEF Enter, Go, Await, NoCall, IInv, TypeOK
<1>1. CASE Enter(t, f, "rate")
  <2>1. calls'[t] = Await(f, "rate")
    BY <1>1
  <2>2. QED
    BY <2>1
<1>2. ASSUME NEW price \in Prices, Enter(t, [f EXCEPT !.amount = price], "balance")
      PROVE  calls'[t].op = "exec" /\ calls'[t].cond = c
  <2>1. calls'[t] = Await([f EXCEPT !.amount = price], "balance")
    BY <1>2
  <2>2. QED
    BY <2>1
<1>3. QED
  BY <1>1, <1>2 DEF ExecStart

\* The other calls of the users and of governance arrive under their own names.
LEMMA OthersArrive ==
    ASSUME IInv, NEW t \in Task,
           \/ \E u \in User, s \in Subnet : CreateStart(t, u, s)
           \/ \E u \in User : RefundStart(t, u)
           \/ \E s \in Subnet : TopUpStart(t, s) \/ AdminsStart(t, s)
    PROVE  calls'[t].op \in {"create", "refund", "topup", "admins"}
<1> USE DEF Enter, Go, Await, NoCall, IInv, TypeOK
<1>1. ASSUME NEW u \in User, NEW s \in Subnet, CreateStart(t, u, s)
      PROVE  calls'[t].op = "create"
  <2> DEFINE f == [NoCall EXCEPT !.op = "create", !.user = u, !.subnet = s,
                                 !.copy = requests[u]]
  <2>1. calls'[t] = Await(f, "transfer")
    BY <1>1 DEF CreateStart
  <2>2. QED
    BY <2>1
<1>2. ASSUME NEW u \in User, RefundStart(t, u) PROVE calls'[t].op = "refund"
  BY <1>2 DEF RefundStart
<1>3. ASSUME NEW s \in Subnet, TopUpStart(t, s) PROVE calls'[t].op = "topup"
  <2> DEFINE f == [NoCall EXCEPT !.op = "topup", !.subnet = s,
                                 !.user = agreements[s].user,
                                 !.copy = agreements[s]]
  <2>1. calls'[t] = Await(f, "balance")
    BY <1>3 DEF TopUpStart
  <2>2. QED
    BY <2>1
<1>4. ASSUME NEW s \in Subnet, AdminsStart(t, s) PROVE calls'[t].op = "admins"
  <2> DEFINE f == [NoCall EXCEPT !.op = "admins", !.subnet = s,
                                 !.user = agreements[s].user]
  <2>1. calls'[t] = Await(f, "registry")
    BY <1>4 DEF AdminsStart
  <2>2. QED
    BY <2>1
<1>5. QED
  BY <1>1, <1>2, <1>3, <1>4

\* Only the end of a proposal and a locking write a request; a creation and a
\* refund remove one.
LEMMA RequestsLeft ==
    ASSUME IInv, NEW t \in Task, Resume(t), ~ExecDone(t), ~LockDone(t)
    PROVE  \A u \in User : requests'[u] # None => requests'[u] = requests[u]
<1>1. CASE CreateDone(t)
  BY <1>1 DEF CreateDone, IInv, TypeOK
<1>2. CASE RefundDone(t)
  BY <1>2 DEF RefundDone, IInv, TypeOK
<1>3. CASE ~CreateDone(t) /\ ~RefundDone(t)
  BY <1>3 DEF Resume, NotifyTopUp, ExecPriced, ExecFunded, ExecFailed,
     CreateFailed, CreateConverted, RefundTooLow, RefundSend, RefundFailed,
     TopUpSend, TopUpFailed, TopUpDone, AdminsDone, LockFailed, LockPanicked,
     Trap, state
<1>4. QED
  BY <1>1, <1>2, <1>3

\* A handler writes the request of the user whose guard it holds, and no other.
LEMMA RequestsWritten ==
    ASSUME IInv, NEW t \in Task, Resume(t)
    PROVE  RequestsGuarded(t)
<1> DEFINE u == calls[t].user
<1>1. requests \in [User -> Request \cup {None}]
  BY DEF IInv, TypeOK
<1>2. ASSUME calls[t].op \in {"exec", "create", "refund", "lock"},
             NEW r, requests' = [requests EXCEPT ![u] = r]
      PROVE  RequestsGuarded(t)
  <2>1. <<u, "request">> \in Held(calls[t])
    BY <1>2, HeldFacts
  <2>2. \A v \in User : v # u => requests'[v] = requests[v]
    BY <1>1, <1>2
  <2>3. QED
    BY <2>1, <2>2 DEF RequestsGuarded
<1>3. ASSUME UNCHANGED requests PROVE RequestsGuarded(t)
  BY <1>3 DEF RequestsGuarded
<1> HIDE DEF u
<1>4. CASE ExecDone(t)
  BY <1>4, <1>2 DEF ExecDone, Resumed, u
<1>5. CASE CreateDone(t)
  BY <1>5, <1>2 DEF CreateDone, Resumed, u
<1>6. CASE RefundDone(t)
  BY <1>6, <1>2, <1>3 DEF RefundDone, Resumed, u
<1>7. CASE LockDone(t)
  BY <1>7, <1>2 DEF LockDone, Resumed, u
<1>8. CASE ~ExecDone(t) /\ ~CreateDone(t) /\ ~RefundDone(t) /\ ~LockDone(t)
  <2>1. UNCHANGED requests
    BY <1>8 DEF Resume, NotifyTopUp, ExecPriced, ExecFunded, ExecFailed,
       CreateFailed, CreateConverted, RefundTooLow, RefundSend, RefundFailed,
       TopUpSend, TopUpFailed, TopUpDone, AdminsDone, LockFailed, LockPanicked,
       Trap, state
  <2>2. QED
    BY <2>1, <1>3
<1>9. QED
  BY <1>4, <1>5, <1>6, <1>7, <1>8

\* The loop ends or goes on to a later user of its list.
LEMMA LoopGoesOn ==
    ASSUME calls \in [Task -> Call], NEW t \in Task, NEW f \in Call, NEW held,
           NextInLoop(t, f, held)
    PROVE  \/ calls'[t] = NoCall
           \/ \E u \in User :
                 /\ f.user # None => u > f.user
                 /\ f.snap[u] # None
                 /\ calls'[t].op = f.op
                 /\ calls'[t].user = u
                 /\ calls'[t].copy = f.snap[u]
                 /\ calls'[t].snap = f.snap
<1>1. CASE Go(t, NoCall)
  BY <1>1 DEF Go
<1>2. ASSUME NEW u \in Pending(f, held),
             Go(t, Await([f EXCEPT !.user = u, !.copy = f.snap[u]], "transfer"))
      PROVE  \E v \in User :
                 /\ f.user # None => v > f.user
                 /\ f.snap[v] # None
                 /\ calls'[t].op = f.op
                 /\ calls'[t].user = v
                 /\ calls'[t].copy = f.snap[v]
                 /\ calls'[t].snap = f.snap
  <2>1. u \in User /\ (f.user # None => u > f.user) /\ f.snap[u] # None
    BY DEF Pending, Due
  <2>2. /\ calls'[t].op = f.op
        /\ calls'[t].user = u
        /\ calls'[t].copy = f.snap[u]
        /\ calls'[t].snap = f.snap
    BY <1>2 DEF Go, Await, Call
  <2>3. QED
    BY <2>1, <2>2
<1>3. QED
  BY <1>1, <1>2 DEF NextInLoop

------------------------------------------------------------------------------
(* The CMC's list *)

\* A step that leaves the list, the tenants and the answered creations.
LEMMA ListFrame ==
    ASSUME IInv, WInv, UNCHANGED whitelist,
           \A s \in Subnet : /\ agreements'[s] = None <=> agreements[s] = None
                             /\ agreements[s] # None =>
                                   agreements'[s].user = agreements[s].user,
           \A d \in Task : Authorized(d) \/ Authorized(d)' => calls'[d] = calls[d]
    PROVE  WInv'
<1>1. \A d \in Task : Authorized(d)' <=> Authorized(d)
  BY DEF Authorized, Resumed
<1>2. AuthorizedKept'
  BY <1>1 DEF WInv, AuthorizedKept
<1>3. ASSUME NEW u \in User, whitelist'[u] # None
      PROVE  \/ /\ agreements'[whitelist'[u]] # None
                /\ agreements'[whitelist'[u]].user = u
             \/ \E d \in Task : /\ Authorized(d)'
                                /\ calls'[d].user = u
                                /\ calls'[d].subnet = whitelist'[u]
  <2>1. whitelist[u] \in Subnet
    BY <1>3 DEF IInv, TypeOK
  <2>2. \/ agreements[whitelist[u]] # None /\ agreements[whitelist[u]].user = u
        \/ \E d \in Task : /\ Authorized(d)
                           /\ calls[d].user = u
                           /\ calls[d].subnet = whitelist[u]
    BY <1>3 DEF WInv, WhitelistMatches, Authorized
  <2>3. QED
    BY <2>1, <2>2, <1>1
<1>4. \A s \in Subnet : agreements'[s] # None => whitelist'[agreements'[s].user] = s
  BY DEF WInv, WhitelistMatches
<1>5. WhitelistMatches'
  BY <1>3, <1>4 DEF WhitelistMatches, Authorized
<1>6. QED
  BY <1>2, <1>5 DEF WInv

\* The CMC authorizes a user who has a request, hence no agreement, and for whom
\* no other creation is under way.
LEMMA CmcAuthorizesList ==
    ASSUME IInv, WInv, NEW t \in Task, CmcAuthorizes(t)
    PROVE  WInv'
<1> DEFINE f == calls[t]
<1>1. /\ f.at = "whitelist" /\ f.reply = "none"
      /\ whitelist' = [whitelist EXCEPT ![f.user] = f.subnet]
      /\ UNCHANGED <<requests, agreements>>
  BY DEF CmcAuthorizes, Answers, state
<1>2. f.op = "create" /\ f.user \in User /\ f.subnet \in Subnet
      /\ f.copy \in Request /\ CheckHolds(f)
  BY <1>1, CallTyped, OpenCall DEF CallOK
<1>3. /\ whitelist'[f.user] = f.subnet
      /\ \A u \in User : u # f.user => whitelist'[u] = whitelist[u]
  BY <1>1, <1>2 DEF IInv, TypeOK
<1>4. ~Renting(f.user)
  BY <1>2, NoneAssumption DEF CheckHolds, IInv, UserExclusive
<1>5. Authorized(t)' /\ calls'[t].user = f.user /\ calls'[t].subnet = f.subnet
  BY <1>1, <1>2 DEF CmcAuthorizes, Answers, Go, Authorized, Resumed, IInv,
                    TypeOK, Call
<1>6. \A d \in Task : d # t => calls'[d] = calls[d]
  BY OthersKept DEF Answer
<1>7. ~Authorized(t)
  BY <1>1 DEF Authorized, Resumed
<1>8. AuthorizedKept'
  <2> SUFFICES ASSUME NEW d \in Task, d # t, Authorized(d)
               PROVE  whitelist'[calls[d].user] = calls[d].subnet
    BY <1>3, <1>5, <1>6 DEF AuthorizedKept, Authorized, Resumed
  <2>1. calls[d].op = "create" /\ calls[d].user \in User
    BY OpenCall DEF Authorized, Resumed
  <2>2. calls[d].user # f.user
    BY <1>2, <2>1, OneCallPerRequest
  <2>3. QED
    BY <1>3, <2>1, <2>2 DEF WInv, AuthorizedKept
<1>9. ASSUME NEW s \in Subnet, agreements[s] # None
      PROVE  whitelist'[agreements[s].user] = s
  <2>1. agreements[s].user \in User /\ agreements[s].user # f.user
    BY <1>4, <1>9 DEF Renting, IInv, TypeOK, Agreement
  <2>2. QED
    BY <1>3, <1>9, <2>1 DEF WInv, WhitelistMatches
<1>10. ASSUME NEW u \in User, whitelist'[u] # None
       PROVE  \/ /\ agreements[whitelist'[u]] # None
                 /\ agreements[whitelist'[u]].user = u
              \/ \E d \in Task : /\ Authorized(d)'
                                 /\ calls'[d].user = u
                                 /\ calls'[d].subnet = whitelist'[u]
  <2>1. CASE u = f.user
    BY <1>3, <1>5, <2>1
  <2>2. CASE u # f.user
    <3>1. \/ agreements[whitelist[u]] # None /\ agreements[whitelist[u]].user = u
          \/ \E d \in Task : /\ Authorized(d)
                             /\ calls[d].user = u
                             /\ calls[d].subnet = whitelist[u]
      BY <1>3, <1>10, <2>2 DEF WInv, WhitelistMatches, Authorized
    <3>2. QED
      BY <1>3, <1>6, <1>7, <2>2, <3>1 DEF Authorized, Resumed
  <2>3. QED
    BY <2>1, <2>2
<1>11. WhitelistMatches'
  BY <1>1, <1>9, <1>10 DEF WhitelistMatches, Authorized
<1>12. QED
  BY <1>8, <1>11 DEF WInv

\* The agreement comes that the user has been authorized for.
LEMMA CreateDoneList ==
    ASSUME IInv, WInv, NEW t \in Task, CreateDone(t)
    PROVE  WInv'
<1> DEFINE f == calls[t]
<1>1. /\ f.op = "create" /\ f.user \in User /\ f.subnet \in Subnet
      /\ f.copy \in Request /\ f.amount \in Nat /\ CheckHolds(f) /\ Authorized(t)
  BY CallTyped, OpenCall DEF CreateDone, Authorized, Resumed, CallOK
<1>2. UNCHANGED whitelist /\ whitelist[f.user] = f.subnet
  BY <1>1 DEF CreateDone, external, WInv, AuthorizedKept
<1>3. /\ agreements'[f.subnet] # None /\ agreements'[f.subnet].user = f.user
      /\ \A s \in Subnet : s # f.subnet => agreements'[s] = agreements[s]
  <2> DEFINE a == [user |-> f.user, cond |-> f.copy.cond, paid |-> f.copy.cost,
                   cycles |-> f.amount + f.copy.cycles]
  <2>1. a \in Agreement /\ a.user = f.user /\ a # None
    BY <1>1, NoneAssumption DEF Request, Agreement
  <2>2. agreements' = [agreements EXCEPT ![f.subnet] = a]
    BY DEF CreateDone
  <2>3. QED
    BY <1>1, <2>1, <2>2 DEF IInv, TypeOK
<1>4. agreements[f.subnet] = None
  BY <1>1 DEF CheckHolds
<1>5. calls'[t] = NoCall /\ \A d \in Task : d # t => calls'[d] = calls[d]
  BY OthersKept DEF Resume, CreateDone, Return, Go, IInv, TypeOK
<1>6. ~Authorized(t)'
  BY <1>5 DEF Authorized, Resumed, NoCall
<1>7. AuthorizedKept'
  BY <1>2, <1>5, <1>6 DEF WInv, AuthorizedKept, Authorized, Resumed
<1>8. \A s \in Subnet : agreements'[s] # None => whitelist'[agreements'[s].user] = s
  BY <1>2, <1>3 DEF WInv, WhitelistMatches
<1>9. ASSUME NEW u \in User, whitelist'[u] # None
      PROVE  \/ /\ agreements'[whitelist'[u]] # None
                /\ agreements'[whitelist'[u]].user = u
             \/ \E d \in Task : /\ Authorized(d)'
                                /\ calls'[d].user = u
                                /\ calls'[d].subnet = whitelist'[u]
  <2>1. whitelist[u] \in Subnet
    BY <1>2, <1>9 DEF IInv, TypeOK
  <2>2. \/ agreements[whitelist[u]] # None /\ agreements[whitelist[u]].user = u
        \/ \E d \in Task : /\ Authorized(d)
                           /\ calls[d].user = u
                           /\ calls[d].subnet = whitelist[u]
    BY <1>2, <1>9 DEF WInv, WhitelistMatches, Authorized
  <2>3. CASE agreements[whitelist[u]] # None /\ agreements[whitelist[u]].user = u
    BY <1>2, <1>3, <1>4, <2>1, <2>3
  <2>4. ASSUME NEW d \in Task, Authorized(d), calls[d].user = u,
               calls[d].subnet = whitelist[u]
        PROVE  \/ /\ agreements'[whitelist'[u]] # None
                  /\ agreements'[whitelist'[u]].user = u
               \/ \E e \in Task : /\ Authorized(e)'
                                  /\ calls'[e].user = u
                                  /\ calls'[e].subnet = whitelist'[u]
    <3>1. CASE d = t
      BY <1>2, <1>3, <2>4, <3>1
    <3>2. CASE d # t
      BY <1>2, <1>5, <2>4, <3>2 DEF Authorized, Resumed
    <3>3. QED
      BY <3>1, <3>2
  <2>5. QED
    BY <2>2, <2>3, <2>4
<1>10. WhitelistMatches'
  BY <1>8, <1>9 DEF WhitelistMatches, Authorized
<1>11. QED
  BY <1>7, <1>10 DEF WInv

\* A top-up keeps the tenant.
LEMMA TopUpTenant ==
    ASSUME IInv, NEW t \in Task, TopUpDone(t)
    PROVE  \A s \in Subnet : /\ agreements'[s] = None <=> agreements[s] = None
                             /\ agreements'[s].user = agreements[s].user
<1> DEFINE f == calls[t]
<1> DEFINE old == agreements[f.subnet]
<1> DEFINE a == ToppedUp(old, f)
<1>1. /\ f.op = "topup" /\ f.subnet \in Subnet /\ f.copy \in Agreement
      /\ f.val \in Nat /\ f.amount \in Nat /\ CheckHolds(f)
  BY CallTyped DEF TopUpDone, Resumed, CallOK
<1>2. old = f.copy /\ old # None
  BY <1>1 DEF CheckHolds
<1>3. a \in Agreement /\ a.user = old.user
  <2>1. f.copy.cycles + f.val \in Nat /\ old.paid + f.amount \in Nat
    BY <1>1, <1>2 DEF Agreement
  <2>2. QED
    BY <1>1, <1>2, <2>1 DEF Agreement, ToppedUp
<1>4. a # None
  BY <1>3, NoneAssumption
<1>5. agreements' = [agreements EXCEPT ![f.subnet] = a]
  BY DEF TopUpDone
<1>6. QED
  BY <1>1, <1>2, <1>3, <1>4, <1>5 DEF IInv, TypeOK

\* Only the end of a creation and of a top-up write an agreement.
LEMMA AgreementsWritten ==
    ASSUME NEW t \in Task, Resume(t), ~CreateDone(t), ~TopUpDone(t)
    PROVE  UNCHANGED agreements
BY DEF Resume, NotifyTopUp, ExecPriced, ExecFunded, ExecFailed, ExecDone,
       CreateFailed, CreateConverted, RefundTooLow, RefundSend, RefundFailed,
       RefundDone, TopUpSend, TopUpFailed, AdminsDone, LockFailed, LockDone,
       LockPanicked, Trap, state

\* No handler writes the CMC's list itself.
LEMMA ListExternal ==
    ASSUME NEW t \in Task, Resume(t)
    PROVE  UNCHANGED whitelist
BY DEF Resume, NotifyTopUp, ExecPriced, ExecFunded, ExecFailed, ExecDone,
       CreateFailed, CreateConverted, CreateDone, RefundTooLow, RefundSend,
       RefundFailed, RefundDone, TopUpSend, TopUpFailed, TopUpDone, AdminsDone,
       LockFailed, LockDone, LockPanicked, Trap, external

\* Every step keeps the list.
LEMMA ListStep == IInv /\ WInv /\ [Next]_vars => WInv'
<1> SUFFICES ASSUME IInv, WInv, [Next]_vars PROVE WInv'
  OBVIOUS
<1>1. ASSUME UNCHANGED <<agreements, calls, whitelist>> PROVE WInv'
  BY <1>1, ListFrame
<1>2. ASSUME NEW t \in Task, Arrive(t) PROVE WInv'
  <2>1. ~Authorized(t) /\ ~Authorized(t)' /\ UNCHANGED <<agreements, whitelist>>
    BY <1>2, ArriveFacts DEF Authorized, Resumed, NoCall
  <2>2. \A d \in Task : d # t => calls'[d] = calls[d]
    BY <1>2, OthersKept
  <2>3. QED
    BY <2>1, <2>2, ListFrame
<1>3. ASSUME NEW t \in Task, Resume(t) PROVE WInv'
  <2>1. UNCHANGED whitelist /\ \A d \in Task : d # t => calls'[d] = calls[d]
    BY <1>3, OthersKept, ListExternal
  <2>2. CASE CreateDone(t)
    BY <2>2, CreateDoneList
  <2>3. CASE ~CreateDone(t)
    <3>1. ~Authorized(t) /\ ~Authorized(t)'
      BY <1>3, <2>3, ResumeFacts, AuthorizedGoesOn
    <3>2. CASE TopUpDone(t)
      BY <2>1, <3>1, <3>2, TopUpTenant, ListFrame
    <3>3. CASE ~TopUpDone(t)
      BY <1>3, <2>1, <2>3, <3>1, <3>3, AgreementsWritten, ListFrame
    <3>4. QED
      BY <3>2, <3>3
  <2>4. QED
    BY <2>2, <2>3
<1>4. ASSUME NEW t \in Task, Answer(t) PROVE WInv'
  <2>1. CASE CmcAuthorizes(t)
    BY <2>1, CmcAuthorizesList
  <2>2. CASE ~CmcAuthorizes(t)
    <3>1. ~Authorized(t) /\ ~Authorized(t)' /\ UNCHANGED <<agreements, whitelist>>
      BY <1>4, <2>2, AnswerFacts, ListWritten DEF Authorized, Resumed
    <3>2. \A d \in Task : d # t => calls'[d] = calls[d]
      BY <1>4, OthersKept
    <3>3. QED
      BY <3>1, <3>2, ListFrame
  <2>3. QED
    BY <2>1, <2>2
<1>5. ASSUME NEW u \in User, NEW c \in Condition, ExecRefused(u, c) PROVE WInv'
  BY <1>5, <1>1 DEF ExecRefused, external
<1>6. ASSUME NEW u \in User, Pay(u) PROVE WInv'
  BY <1>6, <1>1 DEF Pay, state
<1>7. CASE NewDay
  BY <1>7, <1>1 DEF NewDay, state, external
<1>8. CASE UNCHANGED vars
  BY <1>8, <1>1 DEF vars, state, external
<1>9. QED
  BY <1>2, <1>3, <1>4, <1>5, <1>6, <1>7, <1>8 DEF Next

\* The CMC's list: the tenant of every subnet is authorized on it, and nobody is
\* authorized elsewhere, but between the CMC's answer and the end of a creation.
THEOREM WhitelistAgrees == Spec => []WhitelistMatches
<1>1. Init => WInv
  BY DEF Init, WInv, WhitelistMatches, AuthorizedKept, Authorized, Resumed, NoCall
<1>2. WInv => WhitelistMatches
  BY DEF WInv
<1>3. QED
  BY <1>1, <1>2, ListStep, Invariant, PTL DEF Spec

------------------------------------------------------------------------------
(* The newest events *)

\* A user's key and a subnet's key of the history differ.
LEMMA KeysDiffer ==
    ASSUME IInv, NEW p \in User \cup Subnet, NEW kind, Record(p, kind)
    PROVE  /\ newest'[p] = kind
           /\ \A q \in User \cup Subnet : q # p => newest'[q] = newest[q]
           /\ p \in User => \A s \in Subnet : newest'[s] = newest[s]
           /\ p \in Subnet => \A u \in User : newest'[u] = newest[u]
<1>1. newest \in [User \cup Subnet -> EventKind]
  BY DEF IInv, TypeOK
<1>2. QED
  BY <1>1, PrincipalAssumption DEF Record

\* A step that writes no event, no request and no agreement.
LEMMA EventFrame ==
    ASSUME HInv, UNCHANGED <<requests, agreements, newest>>,
           \A d \in Task : calls'[d].at = "whitelist" =>
               calls[d].at = "whitelist" /\ calls'[d].user = calls[d].user
    PROVE  HInv'
BY DEF HInv, HistoryTellsState, ConversionTold

\* An event under a user, with what it says about that user's request.
LEMMA UserEvent ==
    ASSUME IInv, HInv, NEW u \in User, NEW kind, Record(u, kind),
           UNCHANGED agreements,
           \A v \in User : v # u => requests'[v] = requests[v],
           kind \in {"RentalRequestCreated", "LockingSuccess"} => requests'[u] # None,
           kind \in {"none", "RentalRequestCancelled"} => requests'[u] = None,
           \A d \in Task : calls'[d].at = "whitelist" =>
               \/ calls'[d].user = u /\ kind = "TransferSuccess"
               \/ /\ calls'[d] = calls[d]
                  /\ calls[d].user \in User \ {u}
    PROVE  HInv'
<1>1. /\ newest'[u] = kind
      /\ \A v \in User : v # u => newest'[v] = newest[v]
      /\ \A s \in Subnet : newest'[s] = newest[s]
  BY KeysDiffer
<1>2. HistoryTellsState'
  BY <1>1 DEF HInv, HistoryTellsState
<1>3. ConversionTold'
  BY <1>1 DEF HInv, ConversionTold
<1>4. QED
  BY <1>2, <1>3 DEF HInv

\* An event under a subnet that has an agreement now; a request that ends with it
\* has been converted.
LEMMA SubnetEvent ==
    ASSUME IInv, HInv, NEW s \in Subnet, NEW kind, kind # "none", Record(s, kind),
           agreements'[s] # None,
           \A z \in Subnet : z # s => agreements'[z] = agreements[z],
           \A v \in User :
               \/ requests'[v] = requests[v]
               \/ requests'[v] = None /\ newest[v] = "TransferSuccess",
           \A d \in Task : calls'[d].at = "whitelist" =>
               calls'[d] = calls[d] /\ calls[d].user \in User
    PROVE  HInv'
<1>1. /\ newest'[s] = kind
      /\ \A z \in Subnet : z # s => newest'[z] = newest[z]
      /\ \A u \in User : newest'[u] = newest[u]
  BY KeysDiffer
<1>2. HistoryTellsState'
  BY <1>1 DEF HInv, HistoryTellsState
<1>3. ConversionTold'
  BY <1>1 DEF HInv, ConversionTold
<1>4. QED
  BY <1>2, <1>3 DEF HInv

\* While a call holds a user's request guard, another call that waits for the CMC
\* runs for another user.
LEMMA WaitingElsewhere ==
    ASSUME IInv, NEW t \in Task, Resume(t),
           calls[t].op \in {"exec", "create", "refund", "lock"},
           ~CreateConverted(t)
    PROVE  \A d \in Task : calls'[d].at = "whitelist" =>
               calls'[d] = calls[d] /\ calls[d].user \in User \ {calls[t].user}
<1> SUFFICES ASSUME NEW d \in Task, calls'[d].at = "whitelist"
             PROVE  calls'[d] = calls[d] /\ calls[d].user \in User \ {calls[t].user}
  OBVIOUS
<1>1. d # t
  BY ResumeFacts
<1>2. calls'[d] = calls[d]
  BY <1>1, OthersKept
<1>3. calls[d].op = "create" /\ calls[d].user \in User
  BY <1>2, CallTyped, OpenCall DEF CallOK
<1>4. QED
  BY <1>1, <1>2, <1>3, OneCallPerRequest

LEMMA ExecRefusedEvent ==
    ASSUME IInv, HInv, NEW u \in User, NEW c \in Condition, ExecRefused(u, c)
    PROVE  HInv'
<1>1. ASSUME NEW d \in Task, calls[d].at = "whitelist"
      PROVE  calls[d].user \in User \ {u}
  <2>1. calls[d].op = "create" /\ calls[d].user \in User
    BY <1>1, CallTyped, OpenCall DEF CallOK
  <2>2. <<calls[d].user, "request">> \in locks
    BY <2>1, HeldFacts DEF IInv, LocksOwned
  <2>3. QED
    BY <2>1, <2>2 DEF ExecRefused
<1>2. Record(u, "RentalRequestFailed") /\ UNCHANGED <<requests, agreements, calls>>
  BY DEF ExecRefused
<1>3. QED
  BY <1>1, <1>2, UserEvent

LEMMA ExecFailedEvent ==
    ASSUME IInv, HInv, NEW t \in Task, ExecFailed(t)
    PROVE  HInv'
<1>1. calls[t].op = "exec" /\ calls[t].user \in User /\ Resume(t)
  BY OpenCall DEF ExecFailed, ConversionFailed, Resumed, Resume
<1>2. \A d \in Task : calls'[d].at = "whitelist" =>
          calls'[d] = calls[d] /\ calls[d].user \in User \ {calls[t].user}
  BY <1>1, WaitingElsewhere DEF CreateConverted, Resumed
<1>3. Record(calls[t].user, "RentalRequestFailed") /\ UNCHANGED <<requests, agreements>>
  BY DEF ExecFailed
<1>4. QED
  BY <1>1, <1>2, <1>3, UserEvent

LEMMA ExecDoneEvent ==
    ASSUME IInv, HInv, NEW t \in Task, ExecDone(t)
    PROVE  HInv'
<1> DEFINE f == calls[t]
<1> DEFINE r == [cost |-> f.amount, locked |-> Share(f.amount), cycles |-> f.val,
                 cond |-> f.cond, created |-> now, last |-> now]
<1>1. /\ f.op = "exec" /\ f.user \in User /\ f.cond \in Condition
      /\ f.val \in Nat /\ f.amount \in Nat /\ Resume(t)
  BY CallTyped, OpenCall DEF ExecDone, Resumed, CallOK, Resume
<1>2. r # None
  <2>1. r \in Request
    BY <1>1, ShareNat DEF Request, IInv, TypeOK
  <2>2. QED
    BY <2>1, NoneAssumption
<1>3. /\ requests'[f.user] # None
      /\ \A v \in User : v # f.user => requests'[v] = requests[v]
  <2>1. requests' = [requests EXCEPT ![f.user] = r]
    BY DEF ExecDone
  <2>2. QED
    BY <1>1, <1>2, <2>1 DEF IInv, TypeOK
<1>4. \A d \in Task : calls'[d].at = "whitelist" =>
          calls'[d] = calls[d] /\ calls[d].user \in User \ {f.user}
  BY <1>1, WaitingElsewhere DEF CreateConverted, Resumed
<1>5. Record(f.user, "RentalRequestCreated") /\ UNCHANGED agreements
  BY DEF ExecDone
<1>6. QED
  BY <1>1, <1>3, <1>4, <1>5, UserEvent

LEMMA CreateConvertedEvent ==
    ASSUME IInv, HInv, NEW t \in Task, CreateConverted(t)
    PROVE  HInv'
<1>1. /\ calls[t] \in Call /\ calls[t].op = "create" /\ calls[t].user \in User
      /\ calls[t].val \in Nat
  BY CallTyped, OpenCall DEF CreateConverted, Resumed
<1>2. calls'[t].user = calls[t].user
  BY <1>1 DEF CreateConverted, Go, Await, Call, IInv, TypeOK
<1>3. ASSUME NEW d \in Task, d # t, calls'[d].at = "whitelist"
      PROVE  calls'[d] = calls[d] /\ calls[d].user \in User \ {calls[t].user}
  <2>1. calls'[d] = calls[d]
    BY <1>3, OthersKept DEF Resume
  <2>2. calls[d].op = "create" /\ calls[d].user \in User
    BY <1>3, <2>1, CallTyped, OpenCall DEF CallOK
  <2>3. QED
    BY <1>1, <1>3, <2>1, <2>2, OneCallPerRequest
<1>4. Record(calls[t].user, "TransferSuccess") /\ UNCHANGED <<requests, agreements>>
  BY DEF CreateConverted
<1>5. QED
  BY <1>1, <1>2, <1>3, <1>4, UserEvent

LEMMA CreateDoneEvent ==
    ASSUME IInv, HInv, NEW t \in Task, CreateDone(t)
    PROVE  HInv'
<1> DEFINE f == calls[t]
<1> DEFINE a == [user |-> f.user, cond |-> f.copy.cond, paid |-> f.copy.cost,
                 cycles |-> f.amount + f.copy.cycles]
<1>1. /\ f.op = "create" /\ f.at = "whitelist" /\ f.user \in User
      /\ f.subnet \in Subnet /\ f.copy \in Request /\ f.amount \in Nat /\ Resume(t)
  BY CallTyped, OpenCall DEF CreateDone, Resumed, CallOK, Resume
<1>2. a # None
  <2>1. a \in Agreement
    BY <1>1 DEF Request, Agreement
  <2>2. QED
    BY <2>1, NoneAssumption
<1>3. /\ requests' = [requests EXCEPT ![f.user] = None]
      /\ agreements' = [agreements EXCEPT ![f.subnet] = a]
      /\ Record(f.subnet, "RentalAgreementCreated")
  BY DEF CreateDone
<1>4. /\ agreements'[f.subnet] # None
      /\ \A z \in Subnet : z # f.subnet => agreements'[z] = agreements[z]
  BY <1>1, <1>2, <1>3 DEF IInv, TypeOK
<1>5. newest[f.user] = "TransferSuccess"
  BY <1>1 DEF HInv, ConversionTold
<1>6. \A v \in User : \/ requests'[v] = requests[v]
                      \/ requests'[v] = None /\ newest[v] = "TransferSuccess"
  BY <1>1, <1>3, <1>5 DEF IInv, TypeOK
<1>7. \A d \in Task : calls'[d].at = "whitelist" =>
          calls'[d] = calls[d] /\ calls[d].user \in User
  BY <1>1, WaitingElsewhere DEF CreateConverted, CreateDone, Resumed
<1>8. QED
  BY <1>1, <1>3, <1>4, <1>6, <1>7, SubnetEvent

LEMMA RefundDoneEvent ==
    ASSUME IInv, HInv, NEW t \in Task, RefundDone(t)
    PROVE  HInv'
<1> DEFINE u == calls[t].user
<1>1. calls[t].op = "refund" /\ u \in User /\ Resume(t)
  BY OpenCall DEF RefundDone, Resumed, Resume
<1>2. \A d \in Task : calls'[d].at = "whitelist" =>
          calls'[d] = calls[d] /\ calls[d].user \in User \ {u}
  BY <1>1, WaitingElsewhere DEF CreateConverted, Resumed
<1>3. CASE requests[u] = None
  <2>1. Record(u, "TransferSuccess") /\ UNCHANGED <<requests, agreements>>
    BY <1>3 DEF RefundDone
  <2>2. QED
    BY <1>1, <1>2, <2>1, UserEvent
<1>4. CASE requests[u] # None
  <2>1. /\ requests' = [requests EXCEPT ![u] = None] /\ UNCHANGED agreements
        /\ Record(u, "RentalRequestCancelled")
    BY <1>4 DEF RefundDone
  <2>2. requests'[u] = None /\ \A v \in User : v # u => requests'[v] = requests[v]
    BY <1>1, <2>1 DEF IInv, TypeOK
  <2>3. QED
    BY <1>1, <1>2, <2>1, <2>2, UserEvent
<1>5. QED
  BY <1>3, <1>4

\* A top-up writes no request, and what waits for the CMC stays as it is.
LEMMA TopUpApart ==
    ASSUME IInv, NEW t \in Task, TopUpFailed(t) \/ TopUpDone(t)
    PROVE  /\ UNCHANGED requests
           /\ calls[t].subnet \in Subnet /\ agreements[calls[t].subnet] # None
           /\ \A d \in Task : calls'[d].at = "whitelist" =>
                  calls'[d] = calls[d] /\ calls[d].user \in User
<1>1. calls[t].op = "topup" /\ Resume(t)
  BY DEF TopUpFailed, TopUpDone, ConversionFailed, Resumed, Resume
<1>2. UNCHANGED requests
  BY DEF TopUpFailed, TopUpDone
<1>3. calls[t].subnet \in Subnet /\ agreements[calls[t].subnet] # None
  BY <1>1, CallTyped DEF CallOK, CheckHolds
<1>4. ASSUME NEW d \in Task, calls'[d].at = "whitelist"
      PROVE  calls'[d] = calls[d] /\ calls[d].user \in User
  <2>1. d # t
    BY <1>1, <1>4, ResumeFacts DEF CreateConverted, Resumed
  <2>2. calls'[d] = calls[d]
    BY <1>1, <2>1, OthersKept
  <2>3. QED
    BY <1>4, <2>2, OpenCall
<1>5. QED
  BY <1>2, <1>3, <1>4

LEMMA TopUpFailedEvent ==
    ASSUME IInv, HInv, NEW t \in Task, TopUpFailed(t)
    PROVE  HInv'
<1>1. Record(calls[t].subnet, "SubnetTopUpFailed") /\ UNCHANGED agreements
  BY DEF TopUpFailed
<1>2. QED
  BY <1>1, TopUpApart, SubnetEvent

LEMMA TopUpDoneEvent ==
    ASSUME IInv, HInv, NEW t \in Task, TopUpDone(t)
    PROVE  HInv'
<1> DEFINE s == calls[t].subnet
<1>1. Record(s, "SubnetTopUp")
  BY DEF TopUpDone
<1>2. s \in Subnet /\ agreements'[s] # None
  BY TopUpApart, TopUpTenant
<1>3. \A z \in Subnet : z # s => agreements'[z] = agreements[z]
  BY DEF TopUpDone, IInv, TypeOK
<1>4. QED
  BY <1>1, <1>2, <1>3, TopUpApart, SubnetEvent

LEMMA LockFailedEvent ==
    ASSUME IInv, HInv, NEW t \in Task, LockFailed(t)
    PROVE  HInv'
<1>1. calls[t].op = "lock" /\ calls[t].user \in User /\ Resume(t)
  BY OpenCall DEF LockFailed, ConversionFailed, Resumed, Resume
<1>2. \A d \in Task : calls'[d].at = "whitelist" =>
          calls'[d] = calls[d] /\ calls[d].user \in User \ {calls[t].user}
  BY <1>1, WaitingElsewhere DEF CreateConverted, Resumed
<1>3. Record(calls[t].user, "LockingFailure") /\ UNCHANGED <<requests, agreements>>
  BY DEF LockFailed
<1>4. QED
  BY <1>1, <1>2, <1>3, UserEvent

LEMMA LockDoneEvent ==
    ASSUME IInv, HInv, NEW t \in Task, LockDone(t)
    PROVE  HInv'
<1> DEFINE f == calls[t]
<1>1. /\ f.op = "lock" /\ f.user \in User /\ f.copy \in Request /\ Resume(t)
  BY CallTyped, OpenCall DEF LockDone, Resumed, CallOK, Resume
<1>2. Locked(f) # None
  <2>1. f.val \in Nat /\ f.day \in Nat
    BY CallTyped DEF Call
  <2>2. f.copy.locked + Share(f.copy.cost) \in Nat /\ f.copy.cycles + f.val \in Nat
    BY <1>1, <2>1, ShareNat DEF Request
  <2>3. Locked(f) \in Request
    BY <1>1, <2>1, <2>2 DEF Locked, Request
  <2>4. QED
    BY <2>3, NoneAssumption
<1>3. /\ requests' = [requests EXCEPT ![f.user] = Locked(f)] /\ UNCHANGED agreements
      /\ Record(f.user, "LockingSuccess")
  BY DEF LockDone
<1>4. /\ requests'[f.user] # None
      /\ \A v \in User : v # f.user => requests'[v] = requests[v]
  BY <1>1, <1>2, <1>3 DEF IInv, TypeOK
<1>5. \A d \in Task : calls'[d].at = "whitelist" =>
          calls'[d] = calls[d] /\ calls[d].user \in User \ {f.user}
  BY <1>1, WaitingElsewhere DEF CreateConverted, Resumed
<1>6. QED
  BY <1>1, <1>3, <1>4, <1>5, UserEvent

\* The handlers that record nothing write no request and no agreement.
LEMMA NothingRecorded ==
    ASSUME NEW t \in Task, Resume(t), ~ExecFailed(t), ~ExecDone(t),
           ~CreateConverted(t), ~CreateDone(t), ~RefundDone(t), ~TopUpFailed(t),
           ~TopUpDone(t), ~LockFailed(t), ~LockDone(t)
    PROVE  UNCHANGED <<requests, agreements, newest>>
BY DEF Resume, NotifyTopUp, ExecPriced, ExecFunded, CreateFailed, RefundTooLow,
       RefundSend, RefundFailed, TopUpSend, AdminsDone, LockPanicked, Trap, state

\* Every step keeps the newest events in line with the requests and agreements.
LEMMA EventStep == IInv /\ HInv /\ [Next]_vars => HInv'
<1> SUFFICES ASSUME IInv, HInv, [Next]_vars PROVE HInv'
  OBVIOUS
<1>1. ASSUME UNCHANGED <<requests, agreements, newest, calls>> PROVE HInv'
  BY <1>1, EventFrame
<1>2. ASSUME NEW t \in Task, Arrive(t) PROVE HInv'
  BY <1>2, ArriveFacts, OthersKept, EventFrame
<1>3. ASSUME NEW t \in Task, Resume(t) PROVE HInv'
  <2>1. CASE \/ ExecFailed(t) \/ ExecDone(t) \/ CreateConverted(t) \/ CreateDone(t)
             \/ RefundDone(t) \/ TopUpFailed(t) \/ TopUpDone(t) \/ LockFailed(t)
             \/ LockDone(t)
    BY <2>1, ExecFailedEvent, ExecDoneEvent, CreateConvertedEvent, CreateDoneEvent,
       RefundDoneEvent, TopUpFailedEvent, TopUpDoneEvent, LockFailedEvent,
       LockDoneEvent
  <2>2. CASE /\ ~ExecFailed(t) /\ ~ExecDone(t) /\ ~CreateConverted(t)
             /\ ~CreateDone(t) /\ ~RefundDone(t) /\ ~TopUpFailed(t)
             /\ ~TopUpDone(t) /\ ~LockFailed(t) /\ ~LockDone(t)
    <3>1. UNCHANGED <<requests, agreements, newest>>
      BY <1>3, <2>2, NothingRecorded
    <3>2. calls'[t].at # "whitelist"
      BY <1>3, <2>2, ResumeFacts
    <3>3. QED
      BY <1>3, <3>1, <3>2, OthersKept, EventFrame
  <2>3. QED
    BY <2>1, <2>2
<1>4. ASSUME NEW t \in Task, Answer(t) PROVE HInv'
  BY <1>4, AnswerFacts, OthersKept, EventFrame
<1>5. ASSUME NEW u \in User, NEW c \in Condition, ExecRefused(u, c) PROVE HInv'
  BY <1>5, ExecRefusedEvent
<1>6. ASSUME NEW u \in User, Pay(u) PROVE HInv'
  BY <1>6, <1>1 DEF Pay, state
<1>7. CASE NewDay
  BY <1>7, <1>1 DEF NewDay, state
<1>8. CASE UNCHANGED vars
  BY <1>8, <1>1 DEF vars, state
<1>9. QED
  BY <1>2, <1>3, <1>4, <1>5, <1>6, <1>7, <1>8 DEF Next

\* The history: the newest event under a user never announces a request that is
\* gone nor the end of one that is there, and a subnet has events if and only if
\* it has an agreement.
THEOREM HistoryAgrees == Spec => []HistoryTellsState
<1>1. Init => HInv
  BY DEF Init, HInv, HistoryTellsState, ConversionTold, NoCall
<1>2. HInv => HistoryTellsState
  BY DEF HInv
<1>3. QED
  BY <1>1, <1>2, EventStep, Invariant, PTL DEF Spec
==============================================================================
