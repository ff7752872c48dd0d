--------------------------- MODULE RewardIssuance ---------------------------
(***************************************************************************)
(* How the activity service pays a prize won on a SUBSCRIPTION card        *)
(* (apps/fufu-act: credit_worker.go, subscription_reward.go,               *)
(* reward_plan_pool.go, reward_issuance.go).                               *)
(*                                                                         *)
(* One goroutine, the credit worker, takes pending rows of credit_queue.   *)
(* For each row it leases one of a few reusable upstream plans, sets that  *)
(* plan to the prize, binds it to the winner upstream, looks for the       *)
(* subscription the bind created, records it in reward_issuance, gives the *)
(* plan back and marks the row.  Every upstream call may fail, lose its    *)
(* answer or (bind) take effect late; the process may stop between any two *)
(* steps.  What survives a stop is the SQLite tables and the upstream.     *)
(***************************************************************************)
EXTENDS Integers, FiniteSets

CONSTANTS
  Cards,       \* subscription cards that win a prize
  NoCard,      \* the NULL of reward_plan_pool.lease_card_key
  UserOf,      \* UserOf[c]: the upstream user who owns card c
  Prize,       \* Prize[c]: the quota won on card c
  PoolSize,    \* rewardPlanPoolSize
  MaxRetries,  \* maxCreditRetries
  Attempts,    \* subscriptionRewardRetryAttempts
  BatchLimit,  \* creditBatchLimit
  LateBinds,   \* until when an unanswered bind may take effect upstream:
               \*   "none": it takes effect before its timeout or never;
               \*   "cooldown": before next_bind_at;
               \*   "attempt": before next_bind_at, which moreover does not
               \*     pass in the middle of an attempt of the leasing card;
               \*   "any": no limit
  Denied,      \* upstream calls that may be answered with a permanent 4xx
  MaxFaults    \* bound: failures, lost answers and crashes in a behaviour

ASSUME CardsAssumption == NoCard \notin Cards
ASSUME PrizeAssumption == Prize \in [Cards -> Nat \ {0}]
ASSUME SizeAssumption ==
  /\ PoolSize \in Nat \ {0}
  /\ MaxRetries \in Nat \ {0}
  /\ Attempts \in Nat \ {0}
  /\ BatchLimit \in Nat \ {0}
  /\ MaxFaults \in Nat
ASSUME UpstreamAssumption ==
  /\ LateBinds \in {"none", "attempt", "cooldown", "any"}
  /\ Denied \subseteq {"load", "plan", "bind", "observe"}

VARIABLES
  status,    \* credit_queue.status of the card's row ("none": no row yet)
  retries,   \* credit_queue.retries
  issued,    \* reward_issuance.reward_subscription_id (NoSub: no row)
  lease,     \* reward_plan_pool.lease_card_key per slot (NoCard: idle)
  baseline,  \* reward_plan_pool.baseline_subscription_ids per slot
  cooling,   \* per slot: next_bind_at is still in the future
  plan,      \* upstream: total_amount of the slot's pool plan (NoPlan: absent)
  subs,      \* upstream: every reward subscription ever created
  lastSub,   \* upstream: the newest subscription id
  ended,     \* upstream: ids of subscriptions that are no longer active
  inflight,  \* slot of a bind of the card that timed out but may still land
  batch,     \* worker: rows of this pass not yet taken
  pc, cur, tries, seen, slot, before, held, found, res, fallback,  \* worker
  faults     \* failures so far

queueVars == <<status, retries>>
poolVars  == <<lease, baseline, cooling>>
subVars   == <<subs, lastSub, ended, inflight>>
callVars  == <<cur, tries, seen, slot, before, held, found, fallback>>
vars == <<status, retries, issued, lease, baseline, cooling, plan, subs,
          lastSub, ended, inflight, batch, pc, cur, tries, seen, slot, before,
          held, found, res, fallback, faults>>

Slots  == 1..PoolSize
NoSlot == 0
NoSub  == 0
NoPlan == 0

-----------------------------------------------------------------------------
(* What the code computes from a list of subscriptions.                    *)

\* Seeded fault: the list is not filtered by user.
ActiveOf_AnyUser(u) == {s.id : s \in subs} \ ended

\* Ids of the active subscriptions of user u, as the admin API lists them.
ActiveOf(u) == {s.id : s \in {t \in subs : t.user = u}} \ ended

\* activeUserSubscriptionIDsForPlan: the ids of S that are on plan p.
OnPlan(S, p) == {s.id : s \in {t \in subs : t.slot = p /\ t.id \in S}}

\* findNewlyBoundRewardSubscription: ids of S on plan p that are not in base.
NewlyBound(S, p, base) == OnPlan(S, p) \ base

\* ... of which it returns the greatest.
Newest(S) == {i \in S : \A j \in S : j <= i}

IdleSlots == {s \in Slots : lease[s] = NoCard}

\* Seeded fault: the lease of an earlier attempt is not looked for.
LeasedTo_Forgotten(c) == {}

LeasedTo(c) == {s \in Slots : lease[s] = c}
LowestIdle == {s \in IdleSlots : \A t \in IdleSlots : s <= t}

\* releaseRewardPlanLease(c): plan_id, and so the plan itself, is kept.
Release(c) ==
  /\ lease' = [s \in Slots |-> IF lease[s] = c THEN NoCard ELSE lease[s]]
  /\ baseline' = [s \in Slots |-> IF lease[s] = c THEN {} ELSE baseline[s]]
  /\ cooling' = [s \in Slots |-> IF lease[s] = c THEN FALSE ELSE cooling[s]]

\* The upstream creates a subscription of card c's user on the plan of slot p.
\* Field card is history: which card's bind request created it.
Grant(c, p) ==
  /\ lastSub' = lastSub + 1
  /\ subs' = subs \cup {[id |-> lastSub + 1, user |-> UserOf[c], slot |-> p,
                         quota |-> plan[p], card |-> c]}

Fault == faults < MaxFaults /\ faults' = faults + 1

\* End of an attempt of addQuotaToSubscriptionRewardOnce with result r.
EndAttempt(r) == pc' = "return" /\ res' = r

-----------------------------------------------------------------------------
Init ==
  /\ status = [c \in Cards |-> "none"]
  /\ retries = [c \in Cards |-> 0]
  /\ issued = [c \in Cards |-> NoSub]
  /\ lease = [s \in Slots |-> NoCard]
  /\ baseline = [s \in Slots |-> {}]
  /\ cooling = [s \in Slots |-> FALSE]
  /\ plan = [s \in Slots |-> NoPlan]
  /\ subs = {} /\ lastSub = 0 /\ ended = {}
  /\ inflight = [c \in Cards |-> NoSlot]
  /\ batch = {} /\ pc = "idle" /\ cur = NoCard /\ tries = 0 /\ seen = {}
  /\ slot = NoSlot /\ before = {} /\ held = FALSE /\ found = NoSub
  /\ res = "ok" /\ fallback = "transient" /\ faults = 0

(* enqueueCreditWith: the card's last round queues what it won.            *)
Enqueue(c) ==
  /\ status[c] = "none"
  /\ status' = [status EXCEPT ![c] = "pending"]
  /\ UNCHANGED <<retries, issued, poolVars, plan, subVars, batch, pc,
                 callVars, res, faults>>

(* processCreditsWith: a pass reads the rows Pending returns ...           *)
\* Seeded fault: the status is not part of the query.
Pending_AnyStatus == {c \in Cards : status[c] # "none" /\ retries[c] < MaxRetries}

\* Seeded fault: a row that failed once is not read again.
Pending_FirstTry == {c \in Cards : status[c] = "pending" /\ retries[c] = 0}

Pending == {c \in Cards : status[c] = "pending" /\ retries[c] < MaxRetries}

StartPass ==
  /\ pc = "idle" /\ batch = {}
  /\ \E B \in SUBSET Pending :
       /\ B # {}
       /\ Cardinality(B) <= BatchLimit
       /\ B # Pending => Cardinality(B) = BatchLimit
       /\ batch' = B
  /\ UNCHANGED <<queueVars, issued, poolVars, plan, subVars, pc, callVars,
                 res, faults>>

(* ... and pays them one by one: AddQuota starts its first attempt.        *)
Take(c) ==
  /\ pc = "idle" /\ c \in batch
  /\ batch' = batch \ {c}
  /\ cur' = c /\ tries' = 1 /\ held' = FALSE /\ pc' = "check"
  /\ UNCHANGED <<queueVars, issued, poolVars, plan, subVars, seen, slot,
                 before, found, res, fallback, faults>>

(* lookupRewardIssuance: an issued reward ends the attempt at once, and    *)
(* gives back a lease a stopped process may have left.                     *)
AlreadyIssued ==
  /\ pc = "check" /\ issued[cur] # NoSub
  /\ Release(cur)
  /\ EndAttempt("ok")
  /\ UNCHANGED <<queueVars, issued, plan, subVars, batch, callVars, faults>>

NotIssued ==
  /\ pc = "check" /\ issued[cur] = NoSub
  /\ pc' = "load"
  /\ UNCHANGED <<queueVars, issued, poolVars, plan, subVars, batch, callVars,
                 res, faults>>

(* loadSubscriptionSummariesForReward (and the list of plans).             *)
LoadSubscriptions ==
  /\ pc = "load"
  /\ seen' = ActiveOf(UserOf[cur])
  /\ pc' = "acquire"
  /\ UNCHANGED <<queueVars, issued, poolVars, plan, subVars, batch, cur,
                 tries, slot, before, held, found, res, fallback, faults>>

(* acquireOrResumeRewardPlanLease.                                         *)
ResumeLease ==
  /\ pc = "acquire"
  /\ \E s \in LeasedTo(cur) : slot' = s
  /\ held' = TRUE /\ pc' = "plan"
  /\ UNCHANGED <<queueVars, issued, poolVars, plan, subVars, batch, cur,
                 tries, seen, before, found, res, fallback, faults>>

AcquireLease ==
  /\ pc = "acquire" /\ LeasedTo(cur) = {}
  /\ slot' \in LowestIdle
  /\ lease' = [lease EXCEPT ![slot'] = cur]
  /\ baseline' = [baseline EXCEPT ![slot'] = {}]
  /\ cooling' = [cooling EXCEPT ![slot'] = FALSE]
  /\ held' = TRUE /\ pc' = "plan"
  /\ UNCHANGED <<queueVars, issued, plan, subVars, batch, cur, tries, seen,
                 before, found, res, fallback, faults>>

PoolBusy ==
  /\ pc = "acquire" /\ LeasedTo(cur) = {} /\ IdleSlots = {}
  /\ EndAttempt("transient")
  /\ UNCHANGED <<queueVars, issued, poolVars, plan, subVars, batch, callVars,
                 faults>>

\* Seeded fault: an existing plan is used as it is.
ConfigurePlan_IfAbsent ==
  /\ pc = "plan"
  /\ plan' = IF plan[slot] = NoPlan THEN [plan EXCEPT ![slot] = Prize[cur]] ELSE plan
  /\ pc' = "decide"
  /\ UNCHANGED <<queueVars, issued, poolVars, subVars, batch, callVars, res,
                 faults>>

(* ensureRewardPoolPlanConfigured: the slot's plan, created if it is       *)
(* absent, gets the prize of the card that leases it.                      *)
ConfigurePlan ==
  /\ pc = "plan"
  /\ plan' = [plan EXCEPT ![slot] = Prize[cur]]
  /\ pc' = "decide"
  /\ UNCHANGED <<queueVars, issued, poolVars, subVars, batch, callVars, res,
                 faults>>

(* A subscription on the plan that the lease's baseline does not list is   *)
(* taken for the one an earlier bind of this lease created.                *)
RecogniseBind ==
  /\ pc = "decide"
  /\ found' \in Newest(NewlyBound(seen, slot, baseline[slot]))
  /\ pc' = "save"
  /\ UNCHANGED <<queueVars, issued, poolVars, plan, subVars, batch, cur,
                 tries, seen, slot, before, held, res, fallback, faults>>

(* next_bind_at not reached: only look whether the earlier bind landed.    *)
AwaitBind ==
  /\ pc = "decide"
  /\ NewlyBound(seen, slot, baseline[slot]) = {}
  /\ cooling[slot]
  /\ before' = baseline[slot] /\ fallback' = "transient" /\ pc' = "observe"
  /\ UNCHANGED <<queueVars, issued, poolVars, plan, subVars, batch, cur,
                 tries, seen, slot, held, found, res, faults>>

\* Seeded fault: the cooldown is not looked at.
PrepareBind_NoCooldown ==
  /\ pc = "decide"
  /\ NewlyBound(seen, slot, baseline[slot]) = {}
  /\ before' = OnPlan(seen, slot)
  /\ baseline' = [baseline EXCEPT ![slot] = OnPlan(seen, slot)]
  /\ cooling' = [cooling EXCEPT ![slot] = TRUE]
  /\ pc' = "bind"
  /\ UNCHANGED <<queueVars, issued, lease, plan, subVars, batch, cur, tries,
                 seen, slot, held, found, res, fallback, faults>>

(* prepareRewardPlanLeaseForBind: persist the baseline and the cooldown    *)
(* before the bind request goes out.                                       *)
PrepareBind ==
  /\ pc = "decide"
  /\ NewlyBound(seen, slot, baseline[slot]) = {}
  /\ ~cooling[slot]
  /\ before' = OnPlan(seen, slot)
  /\ baseline' = [baseline EXCEPT ![slot] = OnPlan(seen, slot)]
  /\ cooling' = [cooling EXCEPT ![slot] = TRUE]
  /\ pc' = "bind"
  /\ UNCHANGED <<queueVars, issued, lease, plan, subVars, batch, cur, tries,
                 seen, slot, held, found, res, fallback, faults>>

(* bindRewardSubscriptionPlan, answered with success.                      *)
BindAccepted ==
  /\ pc = "bind"
  /\ Grant(cur, slot)
  /\ fallback' = "transient" /\ pc' = "observe"
  /\ UNCHANGED <<queueVars, issued, poolVars, plan, ended, inflight, batch,
                 cur, tries, seen, slot, before, held, found, res, faults>>

(* No answer or a 5xx: the bind was applied, or not, or will be later.     *)
(* At most one unanswered bind of a card is kept in flight (a bound).      *)
BindUnanswered ==
  /\ pc = "bind" /\ Fault
  /\ \/ Grant(cur, slot) /\ UNCHANGED inflight
     \/ UNCHANGED <<subs, lastSub, inflight>>
     \/ /\ LateBinds # "none" /\ inflight[cur] = NoSlot
        /\ inflight' = [inflight EXCEPT ![cur] = slot]
        /\ UNCHANGED <<subs, lastSub>>
  /\ fallback' = "transient" /\ pc' = "observe"
  /\ UNCHANGED <<queueVars, issued, poolVars, plan, ended, batch, cur, tries,
                 seen, slot, before, held, found, res>>

(* A 4xx answer: nothing was bound; the error is permanent.                *)
BindRefused ==
  /\ pc = "bind" /\ "bind" \in Denied /\ Fault
  /\ fallback' = "permanent" /\ pc' = "observe"
  /\ UNCHANGED <<queueVars, issued, poolVars, plan, subVars, batch, cur,
                 tries, seen, slot, before, held, found, res>>

(* observeRewardSubscriptionAfterBind: is there a new subscription now?    *)
Observed ==
  /\ pc = "observe"
  /\ found' \in Newest(NewlyBound(ActiveOf(UserOf[cur]), slot, before))
  /\ pc' = "save"
  /\ UNCHANGED <<queueVars, issued, poolVars, plan, subVars, batch, cur,
                 tries, seen, slot, before, held, res, fallback, faults>>

\* Seeded fault: an accepted bind counts as paid, seen or not.
NotObserved_TrustsAnswer ==
  /\ pc = "observe"
  /\ NewlyBound(ActiveOf(UserOf[cur]), slot, before) = {}
  /\ EndAttempt(IF fallback = "transient" THEN "ok" ELSE "permanent")
  /\ UNCHANGED <<queueVars, issued, poolVars, plan, subVars, batch, callVars,
                 faults>>

NotObserved ==
  /\ pc = "observe"
  /\ NewlyBound(ActiveOf(UserOf[cur]), slot, before) = {}
  /\ EndAttempt(fallback)
  /\ UNCHANGED <<queueVars, issued, poolVars, plan, subVars, batch, callVars,
                 faults>>

(* saveRewardIssuance.                                                     *)
SaveIssuance ==
  /\ pc = "save"
  /\ issued' = [issued EXCEPT ![cur] = found]
  /\ EndAttempt("ok")
  /\ UNCHANGED <<queueVars, poolVars, plan, subVars, batch, callVars, faults>>

(* Any call of an attempt may fail: a database error, a timeout or 5xx     *)
(* (transient), or a 4xx (permanent).  A failed plan update may have       *)
(* changed the plan all the same.                                          *)
CallFails ==
  /\ pc \in {"check", "load", "acquire", "plan", "decide", "observe", "save"}
  /\ Fault
  /\ \E r \in {"transient", "permanent"} :
       /\ r = "permanent" => pc \in Denied
       /\ EndAttempt(r)
  /\ \/ plan' = plan
     \/ pc = "plan" /\ plan' = [plan EXCEPT ![slot] = Prize[cur]]
  /\ UNCHANGED <<queueVars, issued, poolVars, subVars, batch, callVars>>

(* The deferred function gives the lease back after success or a permanent *)
(* error, if this attempt got as far as holding it; then                   *)
(* addQuotaToSubscriptionReward retries a transient error.                 *)
\* Seeded fault: the lease is given back after any error.
LeaveAttempt_Always == IF held THEN Release(cur) ELSE UNCHANGED poolVars

\* Seeded fault: the lease is never given back.
LeaveAttempt_Never == UNCHANGED poolVars

LeaveAttempt ==
  IF held /\ res # "transient" THEN Release(cur) ELSE UNCHANGED poolVars

RetryAttempt ==
  /\ pc = "return" /\ res = "transient" /\ tries < Attempts
  /\ LeaveAttempt
  /\ tries' = tries + 1 /\ held' = FALSE /\ pc' = "check"
  /\ UNCHANGED <<queueVars, issued, plan, subVars, batch, cur, seen, slot,
                 before, found, res, fallback, faults>>

\* The 30 s context of AddQuota may also run out before the next attempt.
FinishAddQuota ==
  /\ pc = "return"
  /\ \/ (res # "transient" \/ tries >= Attempts) /\ UNCHANGED faults
     \/ (res = "transient" /\ tries < Attempts) /\ Fault
  /\ LeaveAttempt
  /\ held' = FALSE /\ pc' = "settle"
  /\ UNCHANGED <<queueVars, issued, plan, subVars, batch, cur, tries, seen,
                 slot, before, found, res, fallback>>

(* releaseRewardPlanLease itself fails: its error is dropped both after    *)
(* lookupRewardIssuance and in the deferred function, and the slot stays   *)
(* leased to the card.                                                     *)
ReleaseFails ==
  /\ Fault
  /\ \/ pc = "check" /\ issued[cur] # NoSub /\ EndAttempt("ok") /\ UNCHANGED held
     \/ /\ pc = "return" /\ held /\ res # "transient"
        /\ pc' = "settle" /\ held' = FALSE /\ UNCHANGED res
  /\ UNCHANGED <<queueVars, issued, poolVars, plan, subVars, batch, cur, tries,
                 seen, slot, before, found, fallback>>

(* MarkDone, or MarkQuotaFailed with buildCreditFailureUpdate.             *)
\* The worker's local variables go with the row.
NextRow ==
  /\ pc' = "idle" /\ cur' = NoCard /\ tries' = 0 /\ seen' = {}
  /\ slot' = NoSlot /\ before' = {} /\ held' = FALSE /\ found' = NoSub
  /\ res' = "ok" /\ fallback' = "transient"

SettleRow ==
  /\ pc = "settle"
  /\ \/ /\ res = "ok"
        /\ status' = [status EXCEPT ![cur] = "done"]
        /\ UNCHANGED retries
     \/ /\ res # "ok"
        /\ retries' = [retries EXCEPT ![cur] = @ + 1]
        /\ status' = [status EXCEPT ![cur] =
             IF res = "permanent" \/ retries[cur] + 1 >= MaxRetries
             THEN "failed" ELSE "pending"]
  /\ NextRow
  /\ UNCHANGED <<issued, poolVars, plan, subVars, batch, faults>>

\* Both errors are dropped ("_ = store.Mark..."): the row stays as it was.
SettleLost ==
  /\ pc = "settle" /\ Fault
  /\ NextRow
  /\ UNCHANGED <<queueVars, issued, poolVars, plan, subVars, batch>>

(* The process stops; the next one starts with what the tables hold.       *)
Crash ==
  /\ pc # "idle" \/ batch # {}
  /\ Fault
  /\ batch' = {} /\ NextRow
  /\ UNCHANGED <<queueVars, issued, poolVars, plan, subVars>>

-----------------------------------------------------------------------------
(* The upstream and the clock.                                             *)

\* A bind whose request timed out takes effect late, with the plan as it
\* is by then ...
LateBindLands(c) ==
  /\ inflight[c] # NoSlot
  /\ Grant(c, inflight[c])
  /\ inflight' = [inflight EXCEPT ![c] = NoSlot]
  /\ UNCHANGED <<queueVars, issued, poolVars, plan, ended, batch, pc,
                 callVars, res, faults>>

\* ... or is dropped for good.
LateBindDropped(c) ==
  /\ inflight[c] # NoSlot
  /\ inflight' = [inflight EXCEPT ![c] = NoSlot]
  /\ UNCHANGED <<queueVars, issued, poolVars, plan, subs, lastSub, ended,
                 batch, pc, callVars, res, faults>>

\* next_bind_at passes.  Unless LateBinds = "any", a bind sent under the lease
\* has been answered, landed or been dropped by then (the request itself
\* times out after 5 s of the 30 s).
CooldownEnds(s) ==
  /\ cooling[s]
  /\ LateBinds # "any" => /\ \A c \in Cards : inflight[c] # s
                          /\ ~(pc = "bind" /\ slot = s)
  /\ LateBinds = "attempt" =>
       ~(pc \in {"acquire", "plan", "decide"} /\ lease[s] = cur)
  /\ cooling' = [cooling EXCEPT ![s] = FALSE]
  /\ UNCHANGED <<queueVars, issued, lease, baseline, plan, subVars, batch,
                 pc, callVars, res, faults>>

\* A reward subscription runs out: days after it was recorded, whereas a row
\* is paid within minutes.
SubscriptionEnds(c) ==
  /\ status[c] = "done" /\ issued[c] \notin ended
  /\ ended' = ended \cup {issued[c]}
  /\ UNCHANGED <<queueVars, issued, poolVars, plan, subs, lastSub, inflight,
                 batch, pc, callVars, res, faults>>

-----------------------------------------------------------------------------
Worker ==
  \/ StartPass \/ \E c \in Cards : Take(c)
  \/ AlreadyIssued \/ NotIssued \/ LoadSubscriptions
  \/ ResumeLease \/ AcquireLease \/ PoolBusy \/ ConfigurePlan
  \/ RecogniseBind \/ AwaitBind \/ PrepareBind
  \/ BindAccepted \/ BindUnanswered \/ BindRefused
  \/ Observed \/ NotObserved \/ SaveIssuance \/ CallFails
  \/ RetryAttempt \/ FinishAddQuota \/ ReleaseFails \/ SettleRow \/ SettleLost

Environment ==
  \/ \E c \in Cards : \/ Enqueue(c) \/ LateBindLands(c)
                      \/ LateBindDropped(c) \/ SubscriptionEnds(c)
  \/ \E s \in Slots : CooldownEnds(s)
  \/ Crash

Next == Worker \/ Environment

Spec == Init /\ [][Next]_vars

(* The worker's ticker loop never stops by itself, the clock advances and  *)
(* a request does not stay in flight for ever.  Nobody promises a win, an  *)
(* expiry, a failure or a crash.                                           *)
Fairness ==
  /\ WF_vars(Worker)
  /\ \A s \in Slots : WF_vars(CooldownEnds(s))
  /\ \A c \in Cards : WF_vars(LateBindLands(c) \/ LateBindDropped(c))

FairSpec == Spec /\ Fairness

-----------------------------------------------------------------------------
(* Properties.                                                             *)

SubRec == [id : Nat, user : {UserOf[c] : c \in Cards}, slot : Slots,
           quota : Nat, card : Cards]

TableTypes ==
  /\ status \in [Cards -> {"none", "pending", "done", "failed"}]
  /\ retries \in [Cards -> Nat]
  /\ issued \in [Cards -> Nat]
  /\ lease \in [Slots -> Cards \cup {NoCard}]
  /\ baseline \in [Slots -> SUBSET Nat]
  /\ cooling \in [Slots -> BOOLEAN]

UpstreamTypes ==
  /\ plan \in [Slots -> Nat]
  /\ subs \subseteq SubRec
  /\ lastSub \in Nat
  /\ ended \subseteq Nat
  /\ inflight \in [Cards -> Slots \cup {NoSlot}]

WorkerTypes ==
  /\ batch \subseteq Cards
  /\ pc \in {"idle", "check", "load", "acquire", "plan", "decide", "bind",
             "observe", "save", "return", "settle"}
  /\ cur \in Cards \cup {NoCard}
  /\ pc # "idle" => cur \in Cards
  /\ tries \in Nat
  /\ seen \subseteq Nat
  /\ slot \in Slots \cup {NoSlot}
  /\ before \subseteq Nat
  /\ held \in BOOLEAN
  /\ found \in Nat
  /\ res \in {"ok", "transient", "permanent"}
  /\ fallback \in {"transient", "permanent"}
  /\ faults \in Nat

(* Every table row, upstream record and worker variable has its type.      *)
TypeOK == TableTypes /\ UpstreamTypes /\ WorkerTypes

(* A card never holds two pool slots: a retry, or a restart after a crash, *)
(* resumes the slot of the earlier attempt and the evidence (baseline) in  *)
(* it instead of taking a second one (acquireOrResumeRewardPlanLease).     *)
OneLeasePerCard ==
  \A s, t \in Slots : lease[s] = lease[t] /\ lease[s] # NoCard => s = t

(* From configuring the plan to looking for the bound subscription, the    *)
(* worker's card holds the slot it works on, so no other card's attempt    *)
(* can be using the same upstream plan; when the bind goes out the plan    *)
(* carries exactly this card's prize.                                      *)
WorksOnOwnSlot ==
  /\ pc \in {"plan", "decide", "bind", "observe"} =>
       slot \in Slots /\ lease[slot] = cur
  /\ pc \in {"decide", "bind"} => plan[slot] = Prize[cur]

(* What reward_issuance records exists: a subscription of the card's own   *)
(* user was really created upstream under the recorded id, whatever was    *)
(* lost, late or interrupted on the way.                                   *)
IssuedIsReal ==
  \A c \in Cards : issued[c] # NoSub =>
    \E s \in subs : s.id = issued[c] /\ s.user = UserOf[c]

(* A queue row is marked done only for a card whose reward is recorded.    *)
DoneIsIssued == \A c \in Cards : status[c] = "done" => issued[c] # NoSub

(* When no two cards belong to one user, the recorded subscription is the  *)
(* one this card's own bind created.                                       *)
DistinctUsers == \A c, d \in Cards : UserOf[c] = UserOf[d] => c = d

IssuedIsOwn ==
  \A c \in Cards : issued[c] # NoSub =>
    \E s \in subs : s.id = issued[c] /\ s.card = c

Settled(c) == status[c] \in {"done", "failed"}

SettledStep ==
  \A c \in Cards : /\ issued[c] # NoSub => issued'[c] = issued[c]
                   /\ Settled(c) => status'[c] = status[c]

(* A recorded reward is never overwritten by a later attempt, and a row    *)
(* that is done or failed is never taken up again.                         *)
SettledForGood == [][SettledStep]_vars

(* While a bind of a card may still land, no second bind of it goes out:   *)
(* what the persisted next_bind_at is for.                                 *)
NoBindWhileUnsettled == pc = "bind" => inflight[cur] # slot

(* A card is paid at most once.                                            *)
AtMostOneGrant == \A s, t \in subs : s.card = t.card => s = t

(* Every subscription carries the quota its card won, although the same    *)
(* upstream plans are reconfigured for one winner after another.           *)
RightQuota == \A s \in subs : s.quota = Prize[s.card]

(* WorkerInv is inductive for every choice of the constants: it says what  *)
(* the worker may rely on at each of its steps.                            *)
HoldsSlot == {"plan", "decide", "bind", "observe", "save"}
HasSnapshot == {"acquire", "plan", "decide"}

LeaseInv ==
  /\ OneLeasePerCard /\ WorksOnOwnSlot
  /\ pc \in HoldsSlot => slot \in Slots /\ lease[slot] = cur
  /\ pc \in {"check", "load", "acquire"} => ~held

RowInv ==
  /\ DoneIsIssued
  /\ pc \in HoldsSlot \cup {"load", "acquire"} => issued[cur] = NoSub
  /\ pc \in {"return", "settle"} /\ res = "ok" => issued[cur] # NoSub
  /\ pc # "idle" => status[cur] = "pending" /\ cur \notin batch
  /\ \A c \in batch : status[c] = "pending"

SubInv ==
  /\ IssuedIsReal
  /\ \A s \in subs : s.id \in 1..lastSub /\ s.user = UserOf[s.card]
  /\ \A s, t \in subs : s.id = t.id => s = t
  /\ pc \in HasSnapshot =>
       \A i \in seen : \E s \in subs : s.id = i /\ s.user = UserOf[cur]
  /\ pc = "save" => \E s \in subs : s.id = found /\ s.user = UserOf[cur]

WorkerInv == LeaseInv /\ RowInv /\ SubInv

(* PayInv makes AtMostOneGrant and RightQuota inductive when every card    *)
(* has a user of its own, a bind does not land after its cooldown and a    *)
(* permanent error is never reported while a bind may have been applied.   *)
OnTimeUpstream ==
  /\ DistinctUsers
  /\ LateBinds \in {"none", "attempt"}
  /\ Denied \cap {"plan", "observe"} = {}

Untouched(c) == inflight[c] = NoSlot /\ \A s \in subs : s.card # c

\* What was bound but not recorded can still be told from the baseline.
Recognisable ==
  \A s \in subs : issued[s.card] = NoSub =>
    lease[s.slot] = s.card /\ s.id \notin baseline[s.slot] \cup ended

\* What may still land, lands on a plan kept for it and during a cooldown.
LandsInCooldown ==
  \A c \in Cards : inflight[c] # NoSlot =>
    /\ lease[inflight[c]] = c /\ cooling[inflight[c]]
    /\ plan[inflight[c]] = Prize[c]
    /\ \A s \in subs : s.card # c
    /\ LateBinds # "none"

\* What landed after the list was loaded still cools down.
MissedStillCools ==
  pc \in HasSnapshot => \A s \in subs :
    s.card = cur /\ s.id \notin seen => cooling[s.slot] /\ LateBinds # "none"

\* A bind that is about to go out, or was refused, is the card's only one.
BindsUntouched ==
  /\ pc = "bind" => cooling[slot] /\ Untouched(cur)
  /\ \/ pc = "observe" /\ fallback = "permanent"
     \/ pc = "return" /\ res = "permanent" /\ held
     => Untouched(cur)
  /\ \A c \in Cards : status[c] = "none" => Untouched(c)

OldIds ==
  /\ \A i \in ended : i <= lastSub
  /\ \A s \in Slots : \A i \in baseline[s] : i <= lastSub

PayInv ==
  /\ AtMostOneGrant /\ RightQuota /\ Recognisable /\ LandsInCooldown
  /\ MissedStillCools /\ BindsUntouched /\ OldIds

\* Before the first fault only the row at work leases a slot, which it finds clean, and a
\* bind that went out has created a subscription that cannot run out yet.
UncloudedInv ==
  /\ \A c \in Cards : status[c] # "failed" /\ inflight[c] = NoSlot
  /\ \A i \in ended : i <= lastSub
  /\ \A s \in Slots : lease[s] # NoCard =>
       /\ lease[s] = cur /\ pc \in HoldsSlot \cup {"return"} /\ held
  /\ pc \in HoldsSlot => held
  /\ pc \in {"plan", "decide"} => baseline[slot] = {} /\ ~cooling[slot]
  /\ pc \in {"bind", "observe"} => before = {}
  /\ pc = "observe" =>
       \E s \in subs : /\ s.slot = slot /\ s.user = UserOf[cur] /\ s.id \notin ended
                       /\ \A c \in Cards : status[c] = "done" => issued[c] # s.id
  /\ pc \in {"return", "settle"} => res = "ok"

(* Every queued prize is eventually settled, paid or reported as failed.   *)
EventuallySettled == \A c \in Cards : status[c] = "pending" ~> Settled(c)

(* As long as nothing fails, what is settled is paid: the reuse of a few   *)
(* plans alone never turns a winner away.                                  *)
FaultFreeIsPaid == faults = 0 => \A c \in Cards : status[c] # "failed"

(* Sequential winners each get a subscription of their own                 *)
(* (credit_quota_test.go:495 expects two binds for two winners).           *)
DoneIsBound ==
  \A c \in Cards : status[c] = "done" => \E s \in subs : s.card = c

(* The service keeps the promise of RewardPromise.                         *)
Paid(c) == {[id |-> s.id, quota |-> s.quota] : s \in {t \in subs : t.card = c}}
Promise == INSTANCE RewardPromise WITH
             stage <- status, paid <- [c \in Cards |-> Paid(c)]
KeepsPromise == Promise!Spec
=============================================================================
