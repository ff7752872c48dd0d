------------------------ MODULE RewardIssuanceProofs ------------------------
(***************************************************************************)
(* What holds of RewardIssuance for every number of cards, users, pool     *)
(* slots, retries and faults: first whatever the upstream does (LateBinds  *)
(* and Denied are arbitrary), then what needs assumptions on the upstream. *)
(***************************************************************************)
EXTENDS RewardIssuance, TLAPS

(* Subscription ids, however they are filtered, are numbers.               *)
LEMMA IdsAreNumbers ==
  ASSUME UpstreamTypes, NEW S, NEW p, NEW u
  PROVE  OnPlan(S, p) \subseteq Nat /\ ActiveOf(u) \subseteq Nat
BY DEF UpstreamTypes, OnPlan, ActiveOf, SubRec

(* The initial state satisfies the invariant.                              *)
LEMMA WorkerInit == Init => TypeOK /\ WorkerInv
<1> SUFFICES ASSUME Init PROVE TypeOK /\ WorkerInv
  OBVIOUS
<1> USE SizeAssumption DEF Init, NoSlot, NoSub, NoPlan
<1>1. TableTypes
  BY DEF TableTypes
<1>2. UpstreamTypes
  BY DEF UpstreamTypes
<1>3. WorkerTypes
  BY DEF WorkerTypes
<1>4. LeaseInv
  BY DEF LeaseInv, OneLeasePerCard, WorksOnOwnSlot, HoldsSlot
<1>5. RowInv
  BY DEF RowInv, DoneIsIssued, HoldsSlot
<1>6. SubInv
  BY DEF SubInv, IssuedIsReal, HasSnapshot
<1> QED
  BY <1>1, <1>2, <1>3, <1>4, <1>5, <1>6 DEF TypeOK, WorkerInv

(* Every step keeps the types, given that the worker works on a slot of    *)
(* the pool.                                                               *)
LEMMA TypeStep == TypeOK /\ LeaseInv /\ [Next]_vars => TypeOK'
<1> SUFFICES ASSUME TypeOK, LeaseInv, [Next]_vars PROVE TypeOK'
  OBVIOUS
<1> USE SizeAssumption, PrizeAssumption
    DEF TypeOK, TableTypes, UpstreamTypes, WorkerTypes, queueVars, poolVars,
        subVars, callVars, Fault, EndAttempt, NoSub, NoSlot
<1>1. ASSUME NEW c \in Cards, Enqueue(c) PROVE TypeOK'
  BY <1>1 DEF Enqueue
<1>2. CASE StartPass
  BY <1>2 DEF StartPass, Pending
<1>3. ASSUME NEW c \in Cards, Take(c) PROVE TypeOK'
  BY <1>3 DEF Take
<1>4. CASE AlreadyIssued
  BY <1>4 DEF AlreadyIssued, Release
<1>5. CASE NotIssued
  BY <1>5 DEF NotIssued
<1>6. CASE LoadSubscriptions
  BY <1>6, IdsAreNumbers DEF LoadSubscriptions
<1>7. CASE ResumeLease
  BY <1>7 DEF ResumeLease, LeasedTo
<1>8. CASE AcquireLease
  BY <1>8 DEF AcquireLease, LowestIdle, IdleSlots
<1>9. CASE PoolBusy
  BY <1>9 DEF PoolBusy
<1>10. CASE ConfigurePlan
  BY <1>10 DEF ConfigurePlan
<1>11. CASE RecogniseBind
  BY <1>11, IdsAreNumbers DEF RecogniseBind, Newest, NewlyBound
<1>12. CASE AwaitBind
  BY <1>12 DEF AwaitBind, LeaseInv, HoldsSlot
<1>13. CASE PrepareBind
  BY <1>13, IdsAreNumbers DEF PrepareBind
<1>14. CASE BindAccepted
  BY <1>14 DEF BindAccepted, Grant, SubRec, LeaseInv, HoldsSlot
<1>15. CASE BindUnanswered
  BY <1>15 DEF BindUnanswered, Grant, SubRec, LeaseInv, HoldsSlot
<1>16. CASE BindRefused
  BY <1>16 DEF BindRefused
<1>17. CASE Observed
  BY <1>17, IdsAreNumbers DEF Observed, Newest, NewlyBound
<1>18. CASE NotObserved
  BY <1>18 DEF NotObserved
<1>19. CASE SaveIssuance
  BY <1>19 DEF SaveIssuance
<1>20. CASE CallFails
  BY <1>20 DEF CallFails
<1>21. CASE RetryAttempt
  <2>1. TableTypes' /\ UpstreamTypes'
    BY <1>21 DEF RetryAttempt, LeaveAttempt, Release
  <2>2. held' = FALSE /\ tries' \in Nat /\ faults' \in Nat
    BY <1>21 DEF RetryAttempt, LeaveAttempt, Release
  <2>3. WorkerTypes'
    BY <1>21, <2>2, Zenon DEF RetryAttempt, LeaveAttempt, Release
  <2> QED
    BY <2>1, <2>3
<1>22. CASE FinishAddQuota
  <2>1. TableTypes' /\ UpstreamTypes'
    BY <1>22 DEF FinishAddQuota, LeaveAttempt, Release
  <2>2. held' = FALSE /\ tries' \in Nat /\ faults' \in Nat
    BY <1>22 DEF FinishAddQuota, LeaveAttempt, Release
  <2>3. WorkerTypes'
    BY <1>22, <2>2, Zenon DEF FinishAddQuota, LeaveAttempt, Release
  <2> QED
    BY <2>1, <2>3
<1>23. CASE SettleRow
  <2>1. TableTypes' /\ UpstreamTypes'
    BY <1>23 DEF SettleRow, NextRow
  <2>2. WorkerTypes'
    BY <1>23 DEF SettleRow, NextRow
  <2> QED
    BY <2>1, <2>2
<1>24. CASE SettleLost
  <2>1. TableTypes' /\ UpstreamTypes'
    BY <1>24 DEF SettleLost, NextRow
  <2>2. held' = FALSE /\ tries' \in Nat /\ faults' \in Nat
    BY <1>24 DEF SettleLost, NextRow
  <2>3. WorkerTypes'
    BY <1>24, <2>2, Zenon DEF SettleLost, NextRow
  <2> QED
    BY <2>1, <2>3
<1>25. CASE Crash
  <2>1. TableTypes' /\ UpstreamTypes'
    BY <1>25 DEF Crash, NextRow
  <2>2. held' = FALSE /\ tries' \in Nat /\ faults' \in Nat
    BY <1>25 DEF Crash, NextRow
  <2>3. WorkerTypes'
    BY <1>25, <2>2, Zenon DEF Crash, NextRow
  <2> QED
    BY <2>1, <2>3
<1>26. ASSUME NEW c \in Cards, LateBindLands(c) PROVE TypeOK'
  BY <1>26 DEF LateBindLands, Grant, SubRec
<1>27. ASSUME NEW c \in Cards, LateBindDropped(c) PROVE TypeOK'
  BY <1>27 DEF LateBindDropped
<1>28. ASSUME NEW s \in Slots, CooldownEnds(s) PROVE TypeOK'
  BY <1>28 DEF CooldownEnds
<1>29. ASSUME NEW c \in Cards, SubscriptionEnds(c) PROVE TypeOK'
  BY <1>29 DEF SubscriptionEnds
<1>30. CASE ReleaseFails
  <2>1. TableTypes' /\ UpstreamTypes'
    BY <1>30 DEF ReleaseFails
  <2>2. held' \in BOOLEAN /\ res' \in {"ok", "transient", "permanent"}
    BY <1>30, Zenon DEF ReleaseFails
  <2>3. pc' \in {"return", "settle"} /\ cur \in Cards /\ faults' \in Nat
    BY <1>30 DEF ReleaseFails
  <2>4. WorkerTypes'
    BY <1>30, <2>2, <2>3, Zenon DEF ReleaseFails
  <2> QED
    BY <2>1, <2>4
<1>31. CASE UNCHANGED vars
  BY <1>31 DEF vars
<1> QED
  BY <1>1, <1>2, <1>3, <1>4, <1>5, <1>6, <1>7, <1>8, <1>9, <1>10, <1>11,
     <1>12, <1>13, <1>14, <1>15, <1>16, <1>17, <1>18, <1>19, <1>20, <1>21,
     <1>22, <1>23, <1>24, <1>25, <1>26, <1>27, <1>28, <1>29, <1>30, <1>31
  DEF Next, Worker, Environment

(* Every step keeps what LeaseInv says of the pool: only the worker writes *)
(* it, and it takes a slot only for a card that has none.                  *)
LEMMA LeaseStep == TypeOK /\ LeaseInv /\ [Next]_vars => LeaseInv'
<1> SUFFICES ASSUME TypeOK, LeaseInv, [Next]_vars PROVE LeaseInv'
  OBVIOUS
<1> USE CardsAssumption, SizeAssumption
    DEF TypeOK, TableTypes, UpstreamTypes, WorkerTypes, LeaseInv,
        OneLeasePerCard, WorksOnOwnSlot, HoldsSlot, queueVars, poolVars,
        subVars, callVars, Fault, EndAttempt, NoSub, NoSlot
<1>1. ASSUME NEW c \in Cards, Enqueue(c) PROVE LeaseInv'
  BY <1>1 DEF Enqueue
<1>2. CASE StartPass
  BY <1>2 DEF StartPass
<1>3. ASSUME NEW c \in Cards, Take(c) PROVE LeaseInv'
  BY <1>3 DEF Take
<1>4. CASE AlreadyIssued
  BY <1>4 DEF AlreadyIssued, Release
<1>5. CASE NotIssued
  BY <1>5 DEF NotIssued
<1>6. CASE LoadSubscriptions
  BY <1>6 DEF LoadSubscriptions
<1>7. CASE ResumeLease
  BY <1>7 DEF ResumeLease, LeasedTo
<1>8. CASE AcquireLease
  BY <1>8 DEF AcquireLease, LeasedTo, LowestIdle, IdleSlots
<1>9. CASE PoolBusy
  BY <1>9 DEF PoolBusy
<1>10. CASE ConfigurePlan
  BY <1>10 DEF ConfigurePlan
<1>11. CASE RecogniseBind
  BY <1>11 DEF RecogniseBind
<1>12. CASE AwaitBind
  BY <1>12 DEF AwaitBind
<1>13. CASE PrepareBind
  BY <1>13 DEF PrepareBind
<1>14. CASE BindAccepted
  BY <1>14 DEF BindAccepted, Grant
<1>15. CASE BindUnanswered
  BY <1>15 DEF BindUnanswered, Grant
<1>16. CASE BindRefused
  BY <1>16 DEF BindRefused
<1>17. CASE Observed
  BY <1>17 DEF Observed
<1>18. CASE NotObserved
  BY <1>18 DEF NotObserved
<1>19. CASE SaveIssuance
  BY <1>19 DEF SaveIssuance
<1>20. CASE CallFails
  BY <1>20 DEF CallFails
<1>21. CASE RetryAttempt
  BY <1>21 DEF RetryAttempt, LeaveAttempt, Release
<1>22. CASE FinishAddQuota
  <2>1. pc' = "settle" /\ ~held' /\ slot' = slot /\ cur' = cur /\ plan' = plan
    BY <1>22 DEF FinishAddQuota
  <2>2. CASE UNCHANGED poolVars
    BY <2>1, <2>2
  <2>3. CASE Release(cur)
    BY <2>1, <2>3 DEF Release
  <2> QED
    BY <1>22, <2>2, <2>3 DEF FinishAddQuota, LeaveAttempt
<1>23. CASE SettleRow
  BY <1>23 DEF SettleRow, NextRow
<1>24. CASE SettleLost
  BY <1>24 DEF SettleLost, NextRow
<1>25. CASE Crash
  BY <1>25 DEF Crash, NextRow
<1>26. ASSUME NEW c \in Cards, LateBindLands(c) PROVE LeaseInv'
  BY <1>26 DEF LateBindLands, Grant
<1>27. ASSUME NEW c \in Cards, LateBindDropped(c) PROVE LeaseInv'
  BY <1>27 DEF LateBindDropped
<1>28. ASSUME NEW s \in Slots, CooldownEnds(s) PROVE LeaseInv'
  BY <1>28 DEF CooldownEnds
<1>29. ASSUME NEW c \in Cards, SubscriptionEnds(c) PROVE LeaseInv'
  BY <1>29 DEF SubscriptionEnds
<1>30. CASE ReleaseFails
  BY <1>30 DEF ReleaseFails
<1>31. CASE UNCHANGED vars
  BY <1>31 DEF vars
<1> QED
  BY <1>1, <1>2, <1>3, <1>4, <1>5, <1>6, <1>7, <1>8, <1>9, <1>10, <1>11,
     <1>12, <1>13, <1>14, <1>15, <1>16, <1>17, <1>18, <1>19, <1>20, <1>21,
     <1>22, <1>23, <1>24, <1>25, <1>26, <1>27, <1>28, <1>29, <1>30, <1>31
  DEF Next, Worker, Environment

(* Every step keeps what SubInv says of the upstream subscriptions and of  *)
(* the worker's knowledge of them.                                         *)
LEMMA SubStep == TypeOK /\ LeaseInv /\ SubInv /\ [Next]_vars => SubInv'
<1> SUFFICES ASSUME TypeOK, LeaseInv, SubInv, [Next]_vars PROVE SubInv'
  OBVIOUS
<1> USE CardsAssumption, SizeAssumption
    DEF TypeOK, TableTypes, UpstreamTypes, WorkerTypes, SubInv, IssuedIsReal,
        HasSnapshot, queueVars, poolVars, subVars, callVars, Fault,
        EndAttempt, NoSub
<1>1. ASSUME NEW c \in Cards, Enqueue(c) PROVE SubInv'
  BY <1>1 DEF Enqueue
<1>2. CASE StartPass
  BY <1>2 DEF StartPass
<1>3. ASSUME NEW c \in Cards, Take(c) PROVE SubInv'
  BY <1>3 DEF Take
<1>4. CASE AlreadyIssued
  BY <1>4 DEF AlreadyIssued
<1>5. CASE NotIssued
  BY <1>5 DEF NotIssued
<1>6. CASE LoadSubscriptions
  BY <1>6 DEF LoadSubscriptions, ActiveOf
<1>7. CASE ResumeLease
  BY <1>7 DEF ResumeLease
<1>8. CASE AcquireLease
  BY <1>8 DEF AcquireLease
<1>9. CASE PoolBusy
  BY <1>9 DEF PoolBusy
<1>10. CASE ConfigurePlan
  BY <1>10 DEF ConfigurePlan
<1>11. CASE RecogniseBind
  BY <1>11 DEF RecogniseBind, Newest, NewlyBound, OnPlan
<1>12. CASE AwaitBind
  BY <1>12 DEF AwaitBind
<1>13. CASE PrepareBind
  BY <1>13 DEF PrepareBind
<1>14. CASE BindAccepted
  BY <1>14 DEF BindAccepted, Grant, SubRec
<1>15. CASE BindUnanswered
  BY <1>15 DEF BindUnanswered, Grant, SubRec
<1>16. CASE BindRefused
  BY <1>16 DEF BindRefused
<1>17. CASE Observed
  BY <1>17 DEF Observed, Newest, NewlyBound, OnPlan, ActiveOf
<1>18. CASE NotObserved
  BY <1>18 DEF NotObserved
<1>19. CASE SaveIssuance
  <2>1. IssuedIsReal'
    <3>1. PICK t \in subs : t.id = found /\ t.user = UserOf[cur]
      BY <1>19 DEF SaveIssuance
    <3>2. issued' = [issued EXCEPT ![cur] = found] /\ subs' = subs
      BY <1>19 DEF SaveIssuance
    <3> QED
      BY <3>1, <3>2
  <2>2. pc' = "return" /\ UNCHANGED <<subs, lastSub>>
    BY <1>19 DEF SaveIssuance
  <2> QED
    BY <2>1, <2>2
<1>20. CASE CallFails
  BY <1>20 DEF CallFails
<1>21. CASE RetryAttempt
  BY <1>21 DEF RetryAttempt
<1>22. CASE FinishAddQuota
  BY <1>22 DEF FinishAddQuota
<1>23. CASE SettleRow
  BY <1>23 DEF SettleRow, NextRow
<1>24. CASE SettleLost
  BY <1>24 DEF SettleLost, NextRow
<1>25. CASE Crash
  BY <1>25 DEF Crash, NextRow
<1>26. ASSUME NEW c \in Cards, LateBindLands(c) PROVE SubInv'
  BY <1>26 DEF LateBindLands, Grant, SubRec
<1>27. ASSUME NEW c \in Cards, LateBindDropped(c) PROVE SubInv'
  BY <1>27 DEF LateBindDropped
<1>28. ASSUME NEW s \in Slots, CooldownEnds(s) PROVE SubInv'
  BY <1>28 DEF CooldownEnds
<1>29. ASSUME NEW c \in Cards, SubscriptionEnds(c) PROVE SubInv'
  BY <1>29 DEF SubscriptionEnds
<1>30. CASE ReleaseFails
  BY <1>30 DEF ReleaseFails
<1>31. CASE UNCHANGED vars
  BY <1>31 DEF vars
<1> QED
  BY <1>1, <1>2, <1>3, <1>4, <1>5, <1>6, <1>7, <1>8, <1>9, <1>10, <1>11,
     <1>12, <1>13, <1>14, <1>15, <1>16, <1>17, <1>18, <1>19, <1>20, <1>21,
     <1>22, <1>23, <1>24, <1>25, <1>26, <1>27, <1>28, <1>29, <1>30, <1>31
  DEF Next, Worker, Environment

(* Every step keeps what RowInv says of the queue rows.                    *)
LEMMA RowStep == TypeOK /\ RowInv /\ SubInv /\ [Next]_vars => RowInv'
<1> SUFFICES ASSUME TypeOK, RowInv, SubInv, [Next]_vars PROVE RowInv'
  OBVIOUS
<1> USE CardsAssumption, SizeAssumption
    DEF TypeOK, TableTypes, UpstreamTypes, WorkerTypes, RowInv, DoneIsIssued,
        HoldsSlot, queueVars, poolVars, subVars, callVars, Fault, EndAttempt,
        NoSub
<1>1. ASSUME NEW c \in Cards, Enqueue(c) PROVE RowInv'
  BY <1>1 DEF Enqueue
<1>2. CASE StartPass
  BY <1>2 DEF StartPass, Pending
<1>3. ASSUME NEW c \in Cards, Take(c) PROVE RowInv'
  BY <1>3 DEF Take
<1>4. CASE AlreadyIssued
  BY <1>4 DEF AlreadyIssued
<1>5. CASE NotIssued
  BY <1>5 DEF NotIssued
<1>6. CASE LoadSubscriptions
  BY <1>6 DEF LoadSubscriptions
<1>7. CASE ResumeLease
  BY <1>7 DEF ResumeLease
<1>8. CASE AcquireLease
  BY <1>8 DEF AcquireLease
<1>9. CASE PoolBusy
  BY <1>9 DEF PoolBusy
<1>10. CASE ConfigurePlan
  BY <1>10 DEF ConfigurePlan
<1>11. CASE RecogniseBind
  BY <1>11 DEF RecogniseBind
<1>12. CASE AwaitBind
  BY <1>12 DEF AwaitBind
<1>13. CASE PrepareBind
  BY <1>13 DEF PrepareBind
<1>14. CASE BindAccepted
  BY <1>14 DEF BindAccepted
<1>15. CASE BindUnanswered
  BY <1>15 DEF BindUnanswered
<1>16. CASE BindRefused
  BY <1>16 DEF BindRefused
<1>17. CASE Observed
  BY <1>17 DEF Observed
<1>18. CASE NotObserved
  BY <1>18 DEF NotObserved
<1>19. CASE SaveIssuance
  BY <1>19 DEF SaveIssuance, SubInv
<1>20. CASE CallFails
  BY <1>20 DEF CallFails
<1>21. CASE RetryAttempt
  BY <1>21 DEF RetryAttempt, LeaveAttempt
<1>22. CASE FinishAddQuota
  BY <1>22 DEF FinishAddQuota, LeaveAttempt
<1>23. CASE SettleRow
  BY <1>23 DEF SettleRow, NextRow
<1>24. CASE SettleLost
  BY <1>24 DEF SettleLost, NextRow
<1>25. CASE Crash
  BY <1>25 DEF Crash, NextRow
<1>26. ASSUME NEW c \in Cards, LateBindLands(c) PROVE RowInv'
  BY <1>26 DEF LateBindLands
<1>27. ASSUME NEW c \in Cards, LateBindDropped(c) PROVE RowInv'
  BY <1>27 DEF LateBindDropped
<1>28. ASSUME NEW s \in Slots, CooldownEnds(s) PROVE RowInv'
  BY <1>28 DEF CooldownEnds
<1>29. ASSUME NEW c \in Cards, SubscriptionEnds(c) PROVE RowInv'
  BY <1>29 DEF SubscriptionEnds
<1>30. CASE ReleaseFails
  BY <1>30 DEF ReleaseFails
<1>31. CASE UNCHANGED vars
  BY <1>31 DEF vars
<1> QED
  BY <1>1, <1>2, <1>3, <1>4, <1>5, <1>6, <1>7, <1>8, <1>9, <1>10, <1>11,
     <1>12, <1>13, <1>14, <1>15, <1>16, <1>17, <1>18, <1>19, <1>20, <1>21,
     <1>22, <1>23, <1>24, <1>25, <1>26, <1>27, <1>28, <1>29, <1>30, <1>31
  DEF Next, Worker, Environment

(* In every reachable state the tables, the upstream records and the       *)
(* worker's variables have their types, and the worker may rely on what    *)
(* WorkerInv says of its program point.                                    *)
THEOREM WorkerSafe == Spec => [](TypeOK /\ WorkerInv)
<1>1. TypeOK /\ WorkerInv /\ [Next]_vars => (TypeOK /\ WorkerInv)'
  BY TypeStep, LeaseStep, RowStep, SubStep DEF WorkerInv
<1> QED
  BY WorkerInit, <1>1, PTL DEF Spec

THEOREM TypeCorrect == Spec => []TypeOK
BY WorkerSafe, PTL

(* No card ever holds two slots of the reward plan pool, so the evidence   *)
(* of an earlier bind is found again by every retry and every restart.     *)
THEOREM LeaseIsUnique == Spec => []OneLeasePerCard
<1>1. TypeOK /\ WorkerInv => OneLeasePerCard
  BY DEF WorkerInv, LeaseInv
<1> QED
  BY WorkerSafe, <1>1, PTL

(* The worker configures, binds and observes only the plan of a slot its   *)
(* card holds, and binds it only while it carries that card's prize.       *)
THEOREM WorksOnlyOnOwnSlot == Spec => []WorksOnOwnSlot
<1>1. TypeOK /\ WorkerInv => WorksOnOwnSlot
  BY DEF WorkerInv, LeaseInv
<1> QED
  BY WorkerSafe, <1>1, PTL

(* Every recorded reward is a subscription of the winner that exists.      *)
THEOREM RecordsAreReal == Spec => []IssuedIsReal
<1>1. TypeOK /\ WorkerInv => IssuedIsReal
  BY DEF WorkerInv, SubInv
<1> QED
  BY WorkerSafe, <1>1, PTL

(* A row is closed as done only for a recorded reward.                     *)
THEOREM DoneRowsAreIssued == Spec => []DoneIsIssued
<1>1. TypeOK /\ WorkerInv => DoneIsIssued
  BY DEF WorkerInv, RowInv
<1> QED
  BY WorkerSafe, <1>1, PTL

(* With one card per user, the record names the card's own bind.           *)
THEOREM RecordsAreOwn == ASSUME DistinctUsers PROVE Spec => []IssuedIsOwn
<1>1. TypeOK /\ WorkerInv => IssuedIsOwn
  BY DistinctUsers
  DEF DistinctUsers, TypeOK, UpstreamTypes, SubRec, WorkerInv, SubInv,
      IssuedIsReal, IssuedIsOwn
<1> QED
  BY WorkerSafe, <1>1, PTL

(* Only an enqueue and the settling of a row change a row's status, and    *)
(* only the recording of a reward changes reward_issuance.                 *)
LEMMA SettledOnce == TypeOK /\ RowInv /\ [Next]_vars => SettledStep
<1> SUFFICES ASSUME TypeOK, RowInv, [Next]_vars PROVE SettledStep
  OBVIOUS
<1> USE DEF TypeOK, TableTypes, WorkerTypes, RowInv, HoldsSlot, SettledStep,
        Settled, queueVars, EndAttempt, NoSub
<1>1. ASSUME NEW c \in Cards, Enqueue(c) PROVE SettledStep
  BY <1>1 DEF Enqueue
<1>2. CASE StartPass
  BY <1>2 DEF StartPass
<1>3. ASSUME NEW c \in Cards, Take(c) PROVE SettledStep
  BY <1>3 DEF Take
<1>4. CASE AlreadyIssued
  BY <1>4 DEF AlreadyIssued
<1>5. CASE NotIssued
  BY <1>5 DEF NotIssued
<1>6. CASE LoadSubscriptions
  BY <1>6 DEF LoadSubscriptions
<1>7. CASE ResumeLease
  BY <1>7 DEF ResumeLease
<1>8. CASE AcquireLease
  BY <1>8 DEF AcquireLease
<1>9. CASE PoolBusy
  BY <1>9 DEF PoolBusy
<1>10. CASE ConfigurePlan
  BY <1>10 DEF ConfigurePlan
<1>11. CASE RecogniseBind
  BY <1>11 DEF RecogniseBind
<1>12. CASE AwaitBind
  BY <1>12 DEF AwaitBind
<1>13. CASE PrepareBind
  BY <1>13 DEF PrepareBind
<1>14. CASE BindAccepted
  BY <1>14 DEF BindAccepted
<1>15. CASE BindUnanswered
  BY <1>15 DEF BindUnanswered
<1>16. CASE BindRefused
  BY <1>16 DEF BindRefused
<1>17. CASE Observed
  BY <1>17 DEF Observed
<1>18. CASE NotObserved
  BY <1>18 DEF NotObserved
<1>19. CASE SaveIssuance
  BY <1>19 DEF SaveIssuance
<1>20. CASE CallFails
  BY <1>20 DEF CallFails
<1>21. CASE RetryAttempt
  BY <1>21 DEF RetryAttempt
<1>22. CASE FinishAddQuota
  BY <1>22 DEF FinishAddQuota
<1>23. CASE SettleRow
  BY <1>23 DEF SettleRow
<1>24. CASE SettleLost
  BY <1>24 DEF SettleLost
<1>25. CASE Crash
  BY <1>25 DEF Crash
<1>26. ASSUME NEW c \in Cards, LateBindLands(c) PROVE SettledStep
  BY <1>26 DEF LateBindLands
<1>27. ASSUME NEW c \in Cards, LateBindDropped(c) PROVE SettledStep
  BY <1>27 DEF LateBindDropped
<1>28. ASSUME NEW s \in Slots, CooldownEnds(s) PROVE SettledStep
  BY <1>28 DEF CooldownEnds
<1>29. ASSUME NEW c \in Cards, SubscriptionEnds(c) PROVE SettledStep
  BY <1>29 DEF SubscriptionEnds
<1>30. CASE ReleaseFails
  BY <1>30 DEF ReleaseFails
<1>31. CASE UNCHANGED vars
  BY <1>31 DEF vars
<1> QED
  BY <1>1, <1>2, <1>3, <1>4, <1>5, <1>6, <1>7, <1>8, <1>9, <1>10, <1>11,
     <1>12, <1>13, <1>14, <1>15, <1>16, <1>17, <1>18, <1>19, <1>20, <1>21,
     <1>22, <1>23, <1>24, <1>25, <1>26, <1>27, <1>28, <1>29, <1>30, <1>31
  DEF Next, Worker, Environment

(* A closed row stays as it is and a recorded reward is never overwritten. *)
THEOREM StaysSettled == Spec => SettledForGood
<1>1. TypeOK /\ WorkerInv /\ [Next]_vars => SettledStep
  BY SettledOnce DEF WorkerInv
<1> QED
  BY WorkerSafe, <1>1, PTL DEF Spec, SettledForGood

(***************************************************************************)
(* Before the first fault                                                  *)
(***************************************************************************)

\* A recorded reward of a row that is done is one of the subscriptions.
LEMMA DoneIdsAreOld ==
  ASSUME TypeOK, WorkerInv, NEW c \in Cards, status[c] = "done"
  PROVE  issued[c] \in 1..lastSub
BY DEF WorkerInv, RowInv, DoneIsIssued, SubInv, IssuedIsReal

\* A step that is not a fault keeps UncloudedInv: the steps of the worker before the bind ...
LEMMA UncloudedBefore ==
  ASSUME TypeOK, WorkerInv, UncloudedInv, faults = 0,
         \/ StartPass \/ (\E c \in Cards : Take(c))
         \/ AlreadyIssued \/ NotIssued \/ LoadSubscriptions
         \/ ResumeLease \/ AcquireLease \/ PoolBusy \/ ConfigurePlan
  PROVE  UncloudedInv'
<1> USE SizeAssumption, CardsAssumption
    DEF TypeOK, TableTypes, UpstreamTypes, WorkerTypes, UncloudedInv, queueVars, poolVars,
        subVars, callVars, EndAttempt, HoldsSlot
<1>1. CASE StartPass
  BY <1>1 DEF StartPass
<1>2. ASSUME NEW c \in Cards, Take(c) PROVE UncloudedInv'
  BY <1>2 DEF Take
<1>3. CASE AlreadyIssued
  BY <1>3 DEF AlreadyIssued, Release
<1>4. CASE NotIssued
  BY <1>4 DEF NotIssued
<1>5. CASE LoadSubscriptions
  BY <1>5 DEF LoadSubscriptions
<1>6. CASE ResumeLease
  BY <1>6 DEF ResumeLease, LeasedTo
<1>7. CASE AcquireLease
  BY <1>7 DEF AcquireLease, LowestIdle, IdleSlots
<1>8. CASE PoolBusy
  <2>1. 1 \in Slots /\ lease[1] = NoCard
    BY <1>8 DEF PoolBusy, Slots
  <2> QED
    BY <1>8, <2>1 DEF PoolBusy, IdleSlots
<1>9. CASE ConfigurePlan
  BY <1>9 DEF ConfigurePlan
<1> QED
  BY <1>1, <1>2, <1>3, <1>4, <1>5, <1>6, <1>7, <1>8, <1>9

\* ... those from the bind on ...
LEMMA UncloudedAfter ==
  ASSUME TypeOK, WorkerInv, UncloudedInv, faults = 0, faults' = 0,
         \/ RecogniseBind \/ AwaitBind \/ PrepareBind \/ BindAccepted
         \/ Observed \/ NotObserved \/ SaveIssuance
         \/ RetryAttempt \/ FinishAddQuota \/ SettleRow
  PROVE  UncloudedInv'
<1> USE SizeAssumption, CardsAssumption
    DEF TypeOK, TableTypes, UpstreamTypes, WorkerTypes, UncloudedInv, queueVars, poolVars,
        subVars, callVars, EndAttempt, HoldsSlot
<1>1. CASE RecogniseBind
  BY <1>1 DEF RecogniseBind
<1>2. CASE AwaitBind
  BY <1>2 DEF AwaitBind
<1>3. CASE PrepareBind
  <2>1. OnPlan(seen, slot) = {}
    BY <1>3 DEF PrepareBind, NewlyBound
  <2> QED
    BY <1>3, <2>1 DEF PrepareBind
<1>4. CASE BindAccepted
  <2> DEFINE new == [id |-> lastSub + 1, user |-> UserOf[cur], slot |-> slot,
                     quota |-> plan[slot], card |-> cur]
  <2>1. /\ pc = "bind" /\ new \in subs' /\ lastSub' = lastSub + 1 /\ pc' = "observe"
        /\ UNCHANGED <<status, issued, lease, baseline, cooling, ended, inflight, cur, slot,
                       before, held>>
    BY <1>4 DEF BindAccepted, Grant
  <2>2. new.id \notin ended /\ \A c \in Cards : status[c] = "done" => issued[c] # new.id
    BY DoneIdsAreOld
  <2>3. new.slot = slot /\ new.user = UserOf[cur]
    OBVIOUS
  <2>4. \A i \in ended' : i <= lastSub'
    BY <2>1
  <2> HIDE DEF new
  <2> QED
    BY <2>1, <2>2, <2>3, <2>4
<1>5. CASE Observed
  BY <1>5 DEF Observed
<1>6. CASE NotObserved
  <2>1. PICK s \in subs : s.slot = slot /\ s.user = UserOf[cur] /\ s.id \notin ended
    BY <1>6 DEF NotObserved
  <2>2. s.id \in ActiveOf(UserOf[cur])
    BY <2>1 DEF ActiveOf
  <2>3. s.id \in OnPlan(ActiveOf(UserOf[cur]), slot)
    BY <2>1, <2>2 DEF OnPlan
  <2> QED
    BY <1>6, <2>3 DEF NotObserved, NewlyBound
<1>7. CASE SaveIssuance
  BY <1>7 DEF SaveIssuance
<1>8. CASE RetryAttempt
  BY <1>8 DEF RetryAttempt
<1>9. CASE FinishAddQuota
  <2>1. /\ pc = "return" /\ pc' = "settle" /\ res' = res /\ LeaveAttempt
        /\ UNCHANGED <<status, inflight, ended, lastSub>>
    BY <1>9 DEF FinishAddQuota
  <2>2. res = "ok" /\ \A s \in Slots : lease[s] # NoCard => lease[s] = cur /\ held
    BY <2>1
  <2>3. \A s \in Slots : lease'[s] = NoCard
    <3>1. CASE held
      <4>1. lease' = [s \in Slots |-> IF lease[s] = cur THEN NoCard ELSE lease[s]]
        BY <2>1, <2>2, <3>1 DEF LeaveAttempt, Release
      <4> QED
        BY <2>2, <4>1
    <3>2. CASE ~held
      <4>1. lease' = lease
        BY <2>1, <3>2 DEF LeaveAttempt
      <4> QED
        BY <2>2, <3>2, <4>1
    <3> QED
      BY <3>1, <3>2
  <2> QED
    BY <2>1, <2>2, <2>3
<1>10. CASE SettleRow
  BY <1>10 DEF SettleRow, NextRow
<1> QED
  BY <1>1, <1>2, <1>3, <1>4, <1>5, <1>6, <1>7, <1>8, <1>9, <1>10

\* ... and those of the upstream and the clock.
LEMMA UncloudedOutside ==
  ASSUME TypeOK, WorkerInv, UncloudedInv,
         \/ \E c \in Cards : \/ Enqueue(c) \/ LateBindLands(c)
                             \/ LateBindDropped(c) \/ SubscriptionEnds(c)
         \/ \E s \in Slots : CooldownEnds(s)
         \/ UNCHANGED vars
  PROVE  UncloudedInv'
<1> USE CardsAssumption
    DEF TypeOK, TableTypes, UpstreamTypes, WorkerTypes, UncloudedInv, queueVars, poolVars,
        subVars, callVars, HoldsSlot
<1>1. ASSUME NEW c \in Cards, Enqueue(c) PROVE UncloudedInv'
  BY <1>1 DEF Enqueue
<1>2. ASSUME NEW c \in Cards, LateBindLands(c) \/ LateBindDropped(c) PROVE FALSE
  BY <1>2 DEF LateBindLands, LateBindDropped
<1>3. ASSUME NEW c \in Cards, SubscriptionEnds(c) PROVE UncloudedInv'
  <2>1. issued[c] \in 1..lastSub
    BY <1>3, DoneIdsAreOld DEF SubscriptionEnds
  <2>2. \A i \in ended' : i <= lastSub'
    BY <1>3, <2>1 DEF SubscriptionEnds
  <2> QED
    BY <1>3, <2>2 DEF SubscriptionEnds
<1>4. ASSUME NEW s \in Slots, CooldownEnds(s) PROVE UncloudedInv'
  BY <1>4 DEF CooldownEnds
<1>5. CASE UNCHANGED vars
  BY <1>5 DEF vars
<1> QED
  BY <1>1, <1>2, <1>3, <1>4, <1>5

LEMMA UncloudedStep ==
  TypeOK /\ WorkerInv /\ (faults = 0 => UncloudedInv) /\ [Next]_vars
    => (faults' = 0 => UncloudedInv')
<1> SUFFICES ASSUME TypeOK, WorkerInv, faults = 0 => UncloudedInv, [Next]_vars, faults' = 0
             PROVE  UncloudedInv'
  OBVIOUS
<1>1. ~Fault
  BY DEF Fault, TypeOK, WorkerTypes
<1>2. ~(BindUnanswered \/ BindRefused \/ CallFails \/ ReleaseFails \/ SettleLost \/ Crash)
  BY <1>1 DEF BindUnanswered, BindRefused, CallFails, ReleaseFails, SettleLost, Crash
<1>3. CASE \/ StartPass \/ (\E c \in Cards : Take(c))
           \/ AlreadyIssued \/ NotIssued \/ LoadSubscriptions
           \/ ResumeLease \/ AcquireLease \/ PoolBusy \/ ConfigurePlan
  <2>1. faults = 0
    BY <1>3 DEF StartPass, Take, AlreadyIssued, NotIssued, LoadSubscriptions, ResumeLease,
                AcquireLease, PoolBusy, ConfigurePlan
  <2> QED
    BY <1>3, <2>1, UncloudedBefore
<1>4. CASE \/ RecogniseBind \/ AwaitBind \/ PrepareBind \/ BindAccepted
           \/ Observed \/ NotObserved \/ SaveIssuance
           \/ RetryAttempt \/ FinishAddQuota \/ SettleRow
  <2>1. faults = 0
    BY <1>1, <1>4 DEF RecogniseBind, AwaitBind, PrepareBind, BindAccepted, Observed, NotObserved,
                      SaveIssuance, RetryAttempt, FinishAddQuota, SettleRow
  <2> QED
    BY <1>4, <2>1, UncloudedAfter
<1>5. CASE \/ \E c \in Cards : \/ Enqueue(c) \/ LateBindLands(c)
                               \/ LateBindDropped(c) \/ SubscriptionEnds(c)
           \/ \E s \in Slots : CooldownEnds(s)
           \/ UNCHANGED vars
  <2>1. faults = 0
    BY <1>5 DEF Enqueue, LateBindLands, LateBindDropped, SubscriptionEnds, CooldownEnds, vars
  <2> QED
    BY <1>5, <2>1, UncloudedOutside
<1> QED
  BY <1>2, <1>3, <1>4, <1>5 DEF Next, Worker, Environment

(* As long as nothing fails, no winner is turned away, however many of     *)
(* them share users and however few plans they take turns on: neither a    *)
(* busy pool nor a subscription that is not seen ends a row as failed.     *)
THEOREM WinnersArePaid == Spec => []FaultFreeIsPaid
<1> DEFINE Inv == TypeOK /\ WorkerInv /\ (faults = 0 => UncloudedInv)
<1>1. Init => UncloudedInv
  BY CardsAssumption DEF Init, UncloudedInv, HoldsSlot
<1>2. Inv /\ [Next]_vars => Inv'
  BY TypeStep, LeaseStep, RowStep, SubStep, UncloudedStep DEF WorkerInv
<1>3. Inv => FaultFreeIsPaid
  BY DEF UncloudedInv, FaultFreeIsPaid
<1> QED
  BY WorkerInit, <1>1, <1>2, <1>3, PTL DEF Spec

(***************************************************************************)
(* Payment: that a prize is paid at most once and with the amount won, for *)
(* every number of cards, slots, retries and faults, under OnTimeUpstream: *)
(* every card has a user of its own, an unanswered bind does not land after*)
(* the cooldown of its lease (nor does the cooldown end while an attempt   *)
(* holds an older list of subscriptions), and the plan and subscription    *)
(* calls are never answered with a permanent error.                        *)
(***************************************************************************)

(* The subscriptions of a card that is not recorded yet, and the bind of   *)
(* it that may still land, are on the one slot the card leases.            *)
LEMMA OwnSlot ==
  ASSUME TypeOK, WorkerInv, PayInv, NEW c \in Cards, NEW p \in Slots,
         lease[p] = c
  PROVE  /\ \A s \in subs : s.card = c /\ issued[c] = NoSub => s.slot = p
         /\ inflight[c] # NoSlot => inflight[c] = p
BY CardsAssumption
DEF TypeOK, TableTypes, UpstreamTypes, SubRec, WorkerInv, LeaseInv,
    OneLeasePerCard, PayInv, Recognisable, LandsInCooldown

(* A recorded card has been bound, and no bind of it may land any more.    *)
LEMMA RecordedIsBound ==
  ASSUME OnTimeUpstream, TypeOK, WorkerInv, PayInv, NEW c \in Cards,
         issued[c] # NoSub
  PROVE  /\ \E s \in subs : s.id = issued[c] /\ s.card = c
         /\ inflight[c] = NoSlot
<1>1. \E s \in subs : s.id = issued[c] /\ s.card = c
  BY DEF OnTimeUpstream, DistinctUsers, TypeOK, UpstreamTypes, SubRec,
         WorkerInv, SubInv, IssuedIsReal
<1> QED
  BY <1>1 DEF PayInv, LandsInCooldown

(* A bind that takes effect for a card not bound before, on the slot the   *)
(* card leases and with the plan set to its prize, is a first and right    *)
(* payment that can be recognised afterwards.                              *)
LEMMA GrantPays ==
  ASSUME TypeOK, WorkerInv, PayInv, NEW c \in Cards, NEW p \in Slots,
         lease[p] = c, plan[p] = Prize[c], \A s \in subs : s.card # c,
         Grant(c, p), UNCHANGED <<lease, baseline, ended, issued>>
  PROVE  AtMostOneGrant' /\ RightQuota' /\ Recognisable' /\ OldIds'
<1> DEFINE new == [id |-> lastSub + 1, user |-> UserOf[c], slot |-> p,
                   quota |-> plan[p], card |-> c]
<1>1. subs' = subs \cup {new} /\ lastSub' = lastSub + 1
  BY DEF Grant
<1>2. AtMostOneGrant'
  BY <1>1 DEF PayInv, AtMostOneGrant
<1>3. RightQuota'
  BY <1>1 DEF PayInv, RightQuota
<1>4. new.id \notin baseline[p] \cup ended
  BY DEF TypeOK, TableTypes, UpstreamTypes, PayInv, OldIds
<1>5. Recognisable'
  BY <1>1, <1>4 DEF PayInv, Recognisable
<1>6. OldIds'
  BY <1>1 DEF TypeOK, TableTypes, UpstreamTypes, PayInv, OldIds
<1> QED
  BY <1>2, <1>3, <1>5, <1>6

(* Giving back the lease of a card that is recorded, or was never bound,   *)
(* loses no evidence of a payment.                                         *)
LEMMA ReleaseIsHarmless ==
  ASSUME OnTimeUpstream, TypeOK, WorkerInv, PayInv, cur \in Cards,
         issued[cur] # NoSub \/ Untouched(cur), Release(cur),
         UNCHANGED <<subs, lastSub, ended, inflight, plan, issued>>
  PROVE  Recognisable' /\ LandsInCooldown' /\ OldIds'
<1>1. inflight[cur] = NoSlot
  BY RecordedIsBound DEF Untouched
<1>2. \A s \in subs : issued[s.card] = NoSub => s.card # cur
  BY DEF Untouched
<1>3. Recognisable'
  BY <1>2 DEF Release, TypeOK, TableTypes, UpstreamTypes, SubRec, PayInv,
              Recognisable
<1>4. LandsInCooldown'
  BY <1>1 DEF Release, TypeOK, TableTypes, UpstreamTypes, NoSlot, PayInv,
              LandsInCooldown
<1>5. OldIds'
  BY DEF Release, TypeOK, TableTypes, PayInv, OldIds
<1> QED
  BY <1>3, <1>4, <1>5

(* Every step keeps PayInv.                                                *)
LEMMA PayStep ==
  ASSUME OnTimeUpstream, TypeOK, WorkerInv, PayInv, [Next]_vars
  PROVE  PayInv'
<1> USE OnTimeUpstream, CardsAssumption, PrizeAssumption, SizeAssumption
    DEF OnTimeUpstream, TypeOK, TableTypes, UpstreamTypes, WorkerTypes,
        SubRec, WorkerInv, LeaseInv, OneLeasePerCard, WorksOnOwnSlot, RowInv,
        HoldsSlot, HasSnapshot, PayInv, AtMostOneGrant, RightQuota,
        Recognisable, LandsInCooldown, MissedStillCools, BindsUntouched,
        OldIds, Untouched, queueVars, poolVars, subVars, callVars, Fault,
        EndAttempt, NoSub, NoSlot
<1>1. ASSUME NEW c \in Cards, Enqueue(c) PROVE PayInv'
  BY <1>1 DEF Enqueue
<1>2. CASE StartPass
  BY <1>2 DEF StartPass
<1>3. ASSUME NEW c \in Cards, Take(c) PROVE PayInv'
  BY <1>3 DEF Take
<1>4. CASE AlreadyIssued
  <2>1. Release(cur) /\ (issued[cur] # NoSub \/ Untouched(cur))
    BY <1>4 DEF AlreadyIssued
  <2>2. Recognisable' /\ LandsInCooldown' /\ OldIds'
    BY <1>4, <2>1, ReleaseIsHarmless DEF AlreadyIssued
  <2> QED
    BY <1>4, <2>2 DEF AlreadyIssued
<1>5. CASE NotIssued
  BY <1>5 DEF NotIssued
<1>6. CASE LoadSubscriptions
  <2>1. \A s \in subs : s.card = cur => s.user = UserOf[cur] /\ s.id \notin ended
    BY <1>6 DEF LoadSubscriptions, SubInv
  <2>2. MissedStillCools'
    BY <1>6, <2>1 DEF LoadSubscriptions, ActiveOf
  <2> QED
    BY <1>6, <2>2 DEF LoadSubscriptions
<1>7. CASE ResumeLease
  BY <1>7 DEF ResumeLease
<1>8. CASE AcquireLease
  <2>1. issued[cur] = NoSub
    BY <1>8 DEF AcquireLease
  <2>2. \A s \in subs : s.card # cur
    BY <1>8, <2>1 DEF AcquireLease, LeasedTo
  <2>3. lease[slot'] = NoCard
    BY <1>8 DEF AcquireLease, LowestIdle, IdleSlots
  <2>4. Recognisable'
    BY <1>8, <2>3 DEF AcquireLease
  <2>5. LandsInCooldown'
    BY <1>8, <2>3 DEF AcquireLease
  <2>6. OldIds'
    BY <1>8 DEF AcquireLease
  <2>7. MissedStillCools'
    BY <1>8, <2>2 DEF AcquireLease
  <2> QED
    BY <1>8, <2>4, <2>5, <2>6, <2>7 DEF AcquireLease
<1>9. CASE PoolBusy
  BY <1>9 DEF PoolBusy
<1>10. CASE ConfigurePlan
  BY <1>10 DEF ConfigurePlan
<1>11. CASE RecogniseBind
  BY <1>11 DEF RecogniseBind
<1>12. CASE AwaitBind
  BY <1>12 DEF AwaitBind
<1>13. CASE PrepareBind
  <2>1. issued[cur] = NoSub /\ slot \in Slots /\ lease[slot] = cur
    BY <1>13 DEF PrepareBind
  <2>2. inflight[cur] = NoSlot
    BY <1>13, <2>1, OwnSlot DEF PrepareBind
  <2>3. ASSUME NEW s \in subs, s.card = cur PROVE FALSE
    <3>1. s.slot = slot /\ s.id \notin baseline[slot]
      BY <2>1, <2>3, OwnSlot
    <3>2. s.id \in seen
      BY <1>13, <2>3, <3>1 DEF PrepareBind
    <3> QED
      BY <1>13, <3>1, <3>2 DEF PrepareBind, NewlyBound, OnPlan
  <2>4. Untouched(cur)
    BY <2>2, <2>3
  <2>5. Recognisable'
    BY <1>13, <2>1, <2>3 DEF PrepareBind
  <2>6. LandsInCooldown'
    BY <1>13 DEF PrepareBind
  <2>7. BindsUntouched'
    BY <1>13, <2>1, <2>4 DEF PrepareBind
  <2>8. OldIds'
    <3>1. \A i \in OnPlan(seen, slot) : i <= lastSub
      BY DEF SubInv, OnPlan
    <3> QED
      BY <1>13, <3>1 DEF PrepareBind
  <2> QED
    BY <1>13, <2>5, <2>6, <2>7, <2>8 DEF PrepareBind
<1>14. CASE BindAccepted
  <2>1. /\ slot \in Slots /\ lease[slot] = cur /\ plan[slot] = Prize[cur]
        /\ cur \in Cards /\ status[cur] = "pending"
        /\ \A s \in subs : s.card # cur
        /\ inflight[cur] = NoSlot
    BY <1>14 DEF BindAccepted
  <2>2. AtMostOneGrant' /\ RightQuota' /\ Recognisable' /\ OldIds'
    BY <1>14, <2>1, GrantPays DEF BindAccepted
  <2>3. \A s \in subs' : s \in subs \/ s.card = cur
    BY <1>14 DEF BindAccepted, Grant
  <2>4. LandsInCooldown' /\ BindsUntouched'
    BY <1>14, <2>1, <2>3 DEF BindAccepted
  <2> QED
    BY <1>14, <2>2, <2>4 DEF BindAccepted
<1>15. CASE BindUnanswered
  <2>1. /\ slot \in Slots /\ lease[slot] = cur /\ plan[slot] = Prize[cur]
        /\ cur \in Cards /\ status[cur] = "pending" /\ cooling[slot]
        /\ \A s \in subs : s.card # cur
        /\ inflight[cur] = NoSlot
    BY <1>15 DEF BindUnanswered
  <2>2. /\ pc' = "observe" /\ fallback' = "transient"
        /\ UNCHANGED <<lease, baseline, cooling, plan, ended, issued, status, cur>>
    BY <1>15 DEF BindUnanswered
  <2>3. CASE Grant(cur, slot) /\ UNCHANGED inflight
    <3>1. AtMostOneGrant' /\ RightQuota' /\ Recognisable' /\ OldIds'
      BY <2>1, <2>2, <2>3, GrantPays
    <3>2. \A s \in subs' : s \in subs \/ s.card = cur
      BY <2>3 DEF Grant
    <3>3. LandsInCooldown' /\ BindsUntouched'
      BY <2>1, <2>2, <2>3, <3>2
    <3> QED
      BY <2>2, <3>1, <3>3
  <2>4. CASE UNCHANGED <<subs, lastSub, inflight>>
    BY <2>1, <2>2, <2>4
  <2>5. CASE /\ LateBinds # "none"
             /\ inflight' = [inflight EXCEPT ![cur] = slot]
             /\ UNCHANGED <<subs, lastSub>>
    BY <2>1, <2>2, <2>5
  <2> QED
    BY <1>15, <2>3, <2>4, <2>5 DEF BindUnanswered
<1>16. CASE BindRefused
  BY <1>16 DEF BindRefused
<1>17. CASE Observed
  BY <1>17 DEF Observed
<1>18. CASE NotObserved
  BY <1>18 DEF NotObserved
<1>19. CASE SaveIssuance
  BY <1>19 DEF SaveIssuance
<1>20. CASE CallFails
  <2>1. /\ pc' = "return" /\ held' = held
        /\ UNCHANGED <<subs, lastSub, ended, inflight, issued, status, cur,
                       lease, baseline, cooling>>
    BY <1>20 DEF CallFails
  <2>2. res' = "permanent" => pc = "load"
    BY <1>20, UpstreamAssumption DEF CallFails
  <2>3. LandsInCooldown'
    BY <1>20, <2>1 DEF CallFails
  <2>4. BindsUntouched'
    BY <2>1, <2>2
  <2> QED
    BY <2>1, <2>3, <2>4
<1>21. CASE RetryAttempt
  <2>1. UNCHANGED <<subs, lastSub, ended, inflight, plan, issued, status,
                    lease, baseline, cooling>>
    BY <1>21 DEF RetryAttempt, LeaveAttempt
  <2>2. pc' = "check"
    BY <1>21 DEF RetryAttempt
  <2> QED
    BY <2>1, <2>2
<1>22. CASE FinishAddQuota
  <2>1. CASE held /\ res # "transient"
    <3>1. issued[cur] # NoSub \/ Untouched(cur)
      BY <1>22, <2>1 DEF FinishAddQuota
    <3>2. Release(cur)
      BY <1>22, <2>1 DEF FinishAddQuota, LeaveAttempt
    <3>3. UNCHANGED <<subs, lastSub, ended, inflight, plan, issued, status>>
      BY <1>22 DEF FinishAddQuota
    <3>4. Recognisable' /\ LandsInCooldown' /\ OldIds'
      BY <1>22, <3>1, <3>2, <3>3, ReleaseIsHarmless DEF FinishAddQuota
    <3>5. pc' = "settle"
      BY <1>22 DEF FinishAddQuota
    <3> QED
      BY <3>3, <3>4, <3>5
  <2>2. CASE ~(held /\ res # "transient")
    <3>1. UNCHANGED <<subs, lastSub, ended, inflight, plan, issued, status,
                      lease, baseline, cooling>>
      BY <1>22, <2>2 DEF FinishAddQuota, LeaveAttempt
    <3>2. pc' = "settle"
      BY <1>22 DEF FinishAddQuota
    <3> QED
      BY <3>1, <3>2
  <2> QED
    BY <2>1, <2>2
<1>23. CASE SettleRow
  <2>1. /\ pc' = "idle" /\ UNCHANGED <<subs, lastSub, ended, inflight, issued, plan, lease, baseline, cooling>>
        /\ \A c \in Cards : status'[c] = "none" => status[c] = "none"
    BY <1>23 DEF SettleRow, NextRow
  <2> QED
    BY <2>1
<1>24. CASE SettleLost
  <2>1. /\ pc' = "idle" /\ UNCHANGED <<subs, lastSub, ended, inflight, issued, plan, lease, baseline, cooling>>
        /\ \A c \in Cards : status'[c] = "none" => status[c] = "none"
    BY <1>24 DEF SettleLost, NextRow
  <2> QED
    BY <2>1
<1>25. CASE Crash
  <2>1. /\ pc' = "idle" /\ UNCHANGED <<subs, lastSub, ended, inflight, issued, plan, lease, baseline, cooling>>
        /\ \A c \in Cards : status'[c] = "none" => status[c] = "none"
    BY <1>25 DEF Crash, NextRow
  <2> QED
    BY <2>1
<1>26. ASSUME NEW c \in Cards, LateBindLands(c) PROVE PayInv'
  <2>1. /\ inflight[c] \in Slots /\ lease[inflight[c]] = c
        /\ cooling[inflight[c]] /\ plan[inflight[c]] = Prize[c]
        /\ \A s \in subs : s.card # c
        /\ LateBinds # "none"
    BY <1>26 DEF LateBindLands
  <2>2. AtMostOneGrant' /\ RightQuota' /\ Recognisable' /\ OldIds'
    BY <1>26, <2>1, GrantPays DEF LateBindLands
  <2>3. /\ inflight' = [inflight EXCEPT ![c] = NoSlot]
        /\ UNCHANGED <<status, issued, lease, baseline, cooling, plan, ended,
                       pc, cur, seen, slot, held, res, fallback>>
    BY <1>26 DEF LateBindLands
  <2>4. \A s \in subs' : s \in subs \/ (s.card = c /\ s.slot = inflight[c])
    BY <1>26 DEF LateBindLands, Grant
  <2>5. LandsInCooldown'
    BY <2>1, <2>3, <2>4
  <2>6. MissedStillCools'
    BY <2>1, <2>3, <2>4
  <2>7. BindsUntouched'
    BY <1>26, <2>3, <2>4 DEF LateBindLands
  <2> QED
    BY <2>2, <2>5, <2>6, <2>7
<1>27. ASSUME NEW c \in Cards, LateBindDropped(c) PROVE PayInv'
  BY <1>27 DEF LateBindDropped
<1>28. ASSUME NEW s \in Slots, CooldownEnds(s) PROVE PayInv'
  BY <1>28 DEF CooldownEnds
<1>29. ASSUME NEW c \in Cards, SubscriptionEnds(c) PROVE PayInv'
  <2>1. issued[c] # NoSub
    BY <1>29 DEF SubscriptionEnds, DoneIsIssued
  <2>2. PICK t \in subs : t.id = issued[c] /\ t.card = c
    BY <2>1, RecordedIsBound
  <2>3. \A s \in subs : s.id = issued[c] => s.card = c
    BY <2>2 DEF SubInv
  <2>4. issued[c] <= lastSub
    BY <2>2 DEF SubInv
  <2>5. /\ ended' = ended \cup {issued[c]}
        /\ UNCHANGED <<status, issued, lease, baseline, cooling, plan, subs,
                       lastSub, inflight, pc, cur, seen, slot, held, res,
                       fallback>>
    BY <1>29 DEF SubscriptionEnds
  <2>6. Recognisable'
    BY <2>1, <2>3, <2>5
  <2>7. OldIds'
    BY <2>4, <2>5
  <2> QED
    BY <2>5, <2>6, <2>7
<1>30. CASE ReleaseFails
  BY <1>30 DEF ReleaseFails
<1>31. CASE UNCHANGED vars
  BY <1>31 DEF vars
<1> QED
  BY <1>1, <1>2, <1>3, <1>4, <1>5, <1>6, <1>7, <1>8, <1>9, <1>10, <1>11,
     <1>12, <1>13, <1>14, <1>15, <1>16, <1>17, <1>18, <1>19, <1>20, <1>21,
     <1>22, <1>23, <1>24, <1>25, <1>26, <1>27, <1>28, <1>29, <1>30, <1>31
  DEF Next, Worker, Environment

(* In the initial state nothing was bound.                                 *)
LEMMA PayInit == Init => PayInv
BY DEF Init, PayInv, AtMostOneGrant, RightQuota, Recognisable,
   LandsInCooldown, MissedStillCools, BindsUntouched, OldIds, Untouched,
   HasSnapshot, NoSlot

(* What the payment rests on, in every reachable state.                    *)
THEOREM PaymentSafe ==
  ASSUME OnTimeUpstream PROVE Spec => [](TypeOK /\ WorkerInv /\ PayInv)
<1>1. TypeOK /\ WorkerInv /\ [Next]_vars => (TypeOK /\ WorkerInv)'
  BY TypeStep, LeaseStep, RowStep, SubStep DEF WorkerInv
<1>2. TypeOK /\ WorkerInv /\ PayInv /\ [Next]_vars => PayInv'
  BY PayStep, OnTimeUpstream
<1> QED
  BY WorkerInit, PayInit, <1>1, <1>2, PTL DEF Spec

(* No card is ever paid twice, whatever fails, is lost or is repeated.     *)
THEOREM PaidAtMostOnce ==
  ASSUME OnTimeUpstream PROVE Spec => []AtMostOneGrant
<1>1. PayInv => AtMostOneGrant
  BY DEF PayInv
<1> QED
  BY PaymentSafe, <1>1, PTL

(* Every subscription a bind created carries the quota its card won.       *)
THEOREM PaidRightQuota ==
  ASSUME OnTimeUpstream PROVE Spec => []RightQuota
<1>1. PayInv => RightQuota
  BY DEF PayInv
<1> QED
  BY PaymentSafe, <1>1, PTL

(* No bind goes out while an earlier one of the card may still land.       *)
THEOREM NoSecondBindInFlight ==
  ASSUME OnTimeUpstream PROVE Spec => []NoBindWhileUnsettled
<1>1. TypeOK /\ WorkerInv /\ PayInv => NoBindWhileUnsettled
  BY DEF TypeOK, WorkerTypes, WorkerInv, LeaseInv, HoldsSlot, PayInv,
         BindsUntouched, Untouched, NoBindWhileUnsettled, NoSlot, Slots
<1> QED
  BY PaymentSafe, <1>1, PTL

(* A bind that takes effect is a payment of RewardPromise.                 *)
LEMMA GrantIsPay ==
  ASSUME TypeOK, PayInv, NEW c \in Cards, NEW p \in Slots,
         plan[p] = Prize[c], \A s \in subs : s.card # c,
         status[c] # "none", Grant(c, p), UNCHANGED status
  PROVE  Promise!Next
<1> DEFINE new == [id |-> lastSub + 1, user |-> UserOf[c], slot |-> p,
                   quota |-> plan[p], card |-> c]
           pay == [id |-> lastSub + 1, quota |-> Prize[c]]
<1>1. subs' = subs \cup {new}
  BY DEF Grant
<1>2. new.card = c /\ new.id = lastSub + 1 /\ new.quota = Prize[c]
  OBVIOUS
<1>3. Paid(c) = {} /\ Paid(c)' = {pay}
  BY <1>1, <1>2 DEF Paid
<1>4. \A d \in Cards : d # c => Paid(d)' = Paid(d)
  BY <1>1, <1>2 DEF Paid
<1>5. [d \in Cards |-> Paid(d)]' = [[d \in Cards |-> Paid(d)] EXCEPT ![c] = {pay}]
  BY <1>3, <1>4
<1>6. Promise!Pay(c, pay.id)
  BY <1>3, <1>5 DEF Promise!Pay
<1>7. pay \in [d \in Cards |-> Paid(d)]'[c]
  BY <1>3
<1> QED
  BY <1>6, <1>7 DEF Promise!Next

(* Every step of the service is a step of RewardPromise or changes none of *)
(* its variables.                                                          *)
LEMMA PromiseStep ==
  ASSUME OnTimeUpstream, TypeOK, WorkerInv, PayInv, [Next]_vars
  PROVE  [Promise!Next]_(Promise!vars)
<1> USE DEF queueVars, subVars
<1>1. ASSUME UNCHANGED <<status, subs>> PROVE UNCHANGED Promise!vars
  BY <1>1 DEF Promise!vars, Paid
<1>2. ASSUME NEW c \in Cards, Enqueue(c) PROVE Promise!Next
  <2>1. UNCHANGED [d \in Cards |-> Paid(d)]
    BY <1>2 DEF Enqueue, Paid
  <2>2. Promise!Win(c)
    BY <1>2, <2>1 DEF Enqueue, Promise!Win
  <2> QED
    BY <2>2 DEF Promise!Next
<1>3. CASE SettleRow
  <2>1. UNCHANGED [d \in Cards |-> Paid(d)]
    BY <1>3 DEF SettleRow, Paid
  <2>2. cur \in Cards /\ status[cur] = "pending"
    BY <1>3 DEF SettleRow, TypeOK, WorkerTypes, WorkerInv, RowInv
  <2>3. CASE res = "ok"
    <3>1. issued[cur] # NoSub
      BY <1>3, <2>3 DEF SettleRow, WorkerInv, RowInv
    <3>2. PICK s \in subs : s.card = cur
      BY <2>2, <3>1, RecordedIsBound
    <3>3. [id |-> s.id, quota |-> s.quota] \in Paid(cur)
      BY <3>2 DEF Paid
    <3>4. Paid(cur) # {}
      BY <3>3
    <3>5. status' = [status EXCEPT ![cur] = "done"]
      BY <1>3, <2>3 DEF SettleRow
    <3>6. Promise!Close(cur, "done")
      BY <2>1, <2>2, <3>4, <3>5 DEF Promise!Close
    <3> QED
      BY <2>2, <3>6 DEF Promise!Next
  <2>4. CASE res # "ok" /\ status'[cur] = "failed"
    <3>1. status' = [status EXCEPT ![cur] = "failed"]
      BY <1>3, <2>2, <2>4 DEF SettleRow, TypeOK, TableTypes
    <3>2. Promise!Close(cur, "failed")
      BY <2>1, <2>2, <3>1 DEF Promise!Close
    <3> QED
      BY <2>2, <3>2 DEF Promise!Next
  <2>5. CASE res # "ok" /\ status'[cur] # "failed"
    <3>1. UNCHANGED status
      BY <1>3, <2>2, <2>5 DEF SettleRow, TypeOK, TableTypes
    <3> QED
      BY <1>1, <1>3, <3>1 DEF SettleRow
  <2> QED
    BY <2>3, <2>4, <2>5
<1>4. ASSUME BindAccepted \/ BindUnanswered, ~UNCHANGED subs
      PROVE  Promise!Next
  <2>1. pc = "bind" /\ Grant(cur, slot) /\ UNCHANGED status
    BY <1>4 DEF BindAccepted, BindUnanswered
  <2>2. /\ cur \in Cards /\ slot \in Slots /\ plan[slot] = Prize[cur]
        /\ status[cur] # "none" /\ \A s \in subs : s.card # cur
    BY <2>1 DEF TypeOK, WorkerTypes, WorkerInv, LeaseInv, WorksOnOwnSlot,
                RowInv, HoldsSlot, PayInv, BindsUntouched, Untouched
  <2> QED
    BY <2>1, <2>2, GrantIsPay
<1>5. ASSUME NEW c \in Cards, LateBindLands(c) PROVE Promise!Next
  <2>1. Grant(c, inflight[c]) /\ inflight[c] # NoSlot /\ UNCHANGED status
    BY <1>5 DEF LateBindLands
  <2>2. /\ inflight[c] \in Slots /\ plan[inflight[c]] = Prize[c]
        /\ status[c] # "none" /\ \A s \in subs : s.card # c
    BY <2>1 DEF TypeOK, UpstreamTypes, PayInv, LandsInCooldown,
                BindsUntouched, Untouched
  <2> QED
    BY <2>1, <2>2, GrantIsPay
<1>6. \/ UNCHANGED <<status, subs>>
      \/ \E c \in Cards : Enqueue(c) \/ LateBindLands(c)
      \/ SettleRow
      \/ (BindAccepted \/ BindUnanswered) /\ ~UNCHANGED subs
  BY DEF Next, Worker, Environment, vars, StartPass, Take, AlreadyIssued,
     NotIssued, LoadSubscriptions, ResumeLease, AcquireLease, PoolBusy,
     ConfigurePlan, RecogniseBind, AwaitBind, PrepareBind, BindAccepted,
     BindUnanswered, BindRefused, Observed, NotObserved, SaveIssuance,
     CallFails, RetryAttempt, FinishAddQuota, ReleaseFails, SettleLost, Crash,
     LateBindDropped, CooldownEnds, SubscriptionEnds
<1> QED
  BY <1>1, <1>2, <1>3, <1>4, <1>5, <1>6

(* The service implements RewardPromise: at most one payment per prize,    *)
(* with the amount won, and no row closed as done before it.               *)
THEOREM ServiceKeepsPromise ==
  ASSUME OnTimeUpstream PROVE Spec => KeepsPromise
<1>1. Init => Promise!Init
  BY DEF Init, Promise!Init, Paid
<1>2. TypeOK /\ WorkerInv /\ PayInv /\ [Next]_vars =>
        [Promise!Next]_(Promise!vars)
  BY PromiseStep, OnTimeUpstream
<1> QED
  BY PaymentSafe, <1>1, <1>2, PTL DEF Spec, KeepsPromise, Promise!Spec
=============================================================================
