---------------------------- MODULE SaleRestock ----------------------------
(***************************************************************************)
(* The scheduler that keeps the shop stocked with cards (apps/fufu-act:    *)
(* sale_card_scheduler.go, sale_card_restock_jobs.go, card_listing.go).    *)
(*                                                                         *)
(* One goroutine wakes up twice a minute.  A pass queues a row for every   *)
(* job whose minute it is, then runs the rows that are not locked: it asks *)
(* the shop for the stock, makes the missing cards, uploads them and looks *)
(* at the stock again.  Calls fail or time out, perhaps after they were    *)
(* applied; the process may stop; customers buy.                           *)
(*                                                                         *)
(* Time is abstract: a lock runs out, and a job's minute begins and ends,  *)
(* at some moment.                                                         *)
(***************************************************************************)
EXTENDS Integers, FiniteSets

CONSTANTS
  Jobs,         \* restock jobs: a plan on a business day
  NoJob,        \* no job
  Plans,        \* plans of the shop
  PlanOf,       \* PlanOf[j]: what job j restocks
  Target,       \* Target[j]: target_stock
  MaxUpload,    \* saleCardRestockMaxUploadPerJob
  MaxTimeouts,  \* saleCardRestockMaxTimeouts
  MaxPerPass,   \* saleCardRestockMaxJobsPerPass
  MaxSales,     \* bound: cards customers buy in a behaviour
  MaxFaults     \* bound: failures and crashes in a behaviour

ASSUME JobsAssumption ==
  NoJob \notin Jobs /\ PlanOf \in [Jobs -> Plans] /\ Target \in [Jobs -> Nat \ {0}]
ASSUME LimitsAssumption ==
  /\ MaxUpload \in Nat \ {0} /\ MaxTimeouts \in Nat \ {0} /\ MaxPerPass \in Nat \ {0}
  /\ MaxSales \in Nat /\ MaxFaults \in Nat

VARIABLES
  stock,     \* the shop: unsold cards of each plan
  late,      \* the shop: cards of timed out uploads that are still under way
  strays,    \* history: plans for which such an upload was applied
  status,    \* sale_card_restock_jobs.status ("none": no row yet)
  timeouts,  \* consecutive_timeouts
  locked,    \* whether locked_until is still in the future
  minute,    \* the job's minute: "before", "now", "seen" (by a pass), "past"
  pc, open, left, cur, keys, outcome,  \* scheduler
  sales, faults

rowVars == <<status, timeouts, locked>>
shop    == <<stock, late, strays>>
vars == <<stock, late, strays, status, timeouts, locked, minute, pc, open, left, cur,
          keys, outcome, sales, faults>>

Fault == faults < MaxFaults /\ faults' = faults + 1

\* Where the scheduler is while it runs a row, for up to five minutes.
Running == {"query", "create", "upload", "verify", "recheck_timeout", "recheck_error",
            "settle"}

\* The stock of the current job's plan, as the shop reports it.
Stock == stock[PlanOf[cur]]

\* The rows a pass that starts now may claim, given their statuses.
Claimable(st) == {j \in Jobs : st[j] \in {"pending", "running"} /\ ~locked[j]}

-----------------------------------------------------------------------------
Init ==
  /\ stock = [p \in Plans |-> 0] /\ late = [p \in Plans |-> 0] /\ strays = {}
  /\ status = [j \in Jobs |-> "none"]
  /\ timeouts = [j \in Jobs |-> 0]
  /\ locked = [j \in Jobs |-> FALSE]
  /\ minute = [j \in Jobs |-> "before"]
  /\ pc = "idle" /\ open = {} /\ left = 0 /\ cur = NoJob
  /\ keys = 0 /\ outcome = "none"
  /\ sales = 0 /\ faults = 0

\* Seeded fault: the insert replaces a row of the same day.
Queued_OrReplaced(Q) ==
  [j \in Jobs |-> IF j \in Q THEN "pending" ELSE status[j]]

\* INSERT OR IGNORE: one row per business day, slot and plan.
Queued(Q) ==
  [j \in Jobs |-> IF j \in Q /\ status[j] = "none" THEN "pending" ELSE status[j]]

(* runSaleCardSchedulerOnce: queue the jobs whose minute it is (an insert  *)
(* may fail), then work on the rows that are claimable at this time.       *)
StartPass ==
  /\ pc = "idle"
  /\ LET due == {j \in Jobs : minute[j] \in {"now", "seen"}} IN
       /\ \/ status' = Queued(due) /\ UNCHANGED faults
          \/ due # {} /\ Fault /\ \E Q \in SUBSET due : status' = Queued(Q)
       /\ minute' = [j \in Jobs |-> IF j \in due THEN "seen" ELSE minute[j]]
  /\ open' = Claimable(status') /\ left' = MaxPerPass
  /\ pc' = "next"
  /\ UNCHANGED <<shop, timeouts, locked, cur, keys, outcome, sales>>

(* claimNextSaleCardRestockJob: also a row an interrupted pass left        *)
(* running.                                                                *)
Claim(j) ==
  /\ pc = "next" /\ left > 0 /\ j \in open
  /\ status' = [status EXCEPT ![j] = "running"]
  /\ locked' = [locked EXCEPT ![j] = TRUE]
  /\ open' = open \ {j} /\ left' = left - 1
  /\ cur' = j /\ keys' = 0 /\ pc' = "query"
  /\ UNCHANGED <<shop, timeouts, minute, outcome, sales, faults>>

\* Nothing is left to claim, or the claim failed.
EndPass ==
  /\ pc = "next"
  /\ \/ (open = {} \/ left = 0) /\ UNCHANGED faults
     \/ Fault
  /\ pc' = "idle" /\ open' = {} /\ left' = 0
  /\ UNCHANGED <<shop, rowVars, minute, cur, keys, outcome, sales>>

\* The run of the claimed row goes on at `to`, or ends with outcome o.
Goes(to) == pc' = to /\ UNCHANGED outcome
Ends(o) == pc' = "settle" /\ outcome' = o

Deficit == IF Target[cur] > Stock THEN Target[cur] - Stock ELSE 0

\* Seeded fault: the target is made, whatever the stock is.
ToUpload_Target == Target[cur]

\* capSaleCardRestockUploadCount.
ToUpload == IF Deficit <= MaxUpload THEN Deficit ELSE MaxUpload

(* generateAndUploadSaleCards: how many cards are missing ...              *)
QueryStock ==
  /\ pc = "query"
  /\ keys' = ToUpload
  /\ IF ToUpload = 0 THEN Ends("succeeded") ELSE Goes("create")
  /\ UNCHANGED <<shop, rowVars, minute, open, left, cur, sales, faults>>

(* ... they are made upstream ...                                          *)
CreateKeys ==
  /\ pc = "create"
  /\ Goes("upload")
  /\ UNCHANGED <<shop, rowVars, minute, open, left, cur, keys, sales, faults>>

\* The shop lists the cards.
List == stock' = [stock EXCEPT ![PlanOf[cur]] = @ + keys]

(* ... and uploaded.                                                       *)
Upload ==
  /\ pc = "upload"
  /\ List
  /\ Goes("verify")
  /\ UNCHANGED <<late, strays, rowVars, minute, open, left, cur, keys, sales, faults>>

(* One of these calls fails, with a timeout or otherwise.                  *)
RunFails ==
  /\ pc \in {"query", "create", "upload"} /\ Fault
  /\ pc' \in {"recheck_timeout", "recheck_error"} /\ UNCHANGED outcome
  /\ \/ UNCHANGED <<stock, late>>
     \/ pc = "upload" /\ List /\ UNCHANGED late
     \/ /\ pc = "upload"
        /\ late' = [late EXCEPT ![PlanOf[cur]] = @ + keys] /\ UNCHANGED stock
  /\ UNCHANGED <<strays, rowVars, minute, open, left, cur, keys, sales>>

\* What becomes of a row that is still short of its target after a run that
\* timed out: it is tried again, a limited number of times.
AfterTimeout ==
  Ends(IF timeouts[cur] + 1 >= MaxTimeouts THEN "failed_timeout" ELSE "retry_timeout")

(* verifySaleCardRestockStock after an upload that was answered ...        *)
\* Seeded fault: a row that is still short of its target fails.
Verify_OrFail ==
  /\ pc = "verify"
  /\ Ends(IF Stock >= Target[cur] THEN "succeeded" ELSE "failed")
  /\ UNCHANGED <<shop, rowVars, minute, open, left, cur, keys, sales, faults>>

Verify ==
  /\ pc = "verify"
  /\ Ends(IF Stock >= Target[cur] THEN "succeeded" ELSE "retry")
  /\ UNCHANGED <<shop, rowVars, minute, open, left, cur, keys, sales, faults>>

VerifyFails ==
  /\ pc = "verify" /\ Fault
  /\ Ends("failed")
  /\ UNCHANGED <<shop, rowVars, minute, open, left, cur, keys, sales>>

(* ... and after an error: the cards may be there all the same.            *)
Recheck ==
  /\ pc \in {"recheck_timeout", "recheck_error"}
  /\ \/ Stock >= Target[cur] /\ Ends("succeeded") /\ UNCHANGED faults
     \/ /\ (Stock < Target[cur] /\ UNCHANGED faults) \/ Fault
        /\ IF pc = "recheck_timeout" THEN AfterTimeout ELSE Ends("failed")
  /\ UNCHANGED <<shop, rowVars, minute, open, left, cur, keys, sales>>

\* The scheduler forgets the row and claims the next one.
Forget == pc' = "next" /\ cur' = NoJob /\ keys' = 0 /\ outcome' = "none"

Retried == outcome \in {"retry", "retry_timeout"}
TimedOut == outcome \in {"retry_timeout", "failed_timeout"}

(* succeed-, requeue- or failSaleCardRestockJob; a retry is locked for a   *)
(* while.                                                                  *)
Settle ==
  /\ pc = "settle"
  /\ status' = [status EXCEPT ![cur] =
       IF outcome = "succeeded" THEN "succeeded"
       ELSE IF Retried THEN "pending" ELSE "failed"]
  /\ timeouts' = [timeouts EXCEPT ![cur] = IF TimedOut THEN @ + 1 ELSE @]
  /\ locked' = [locked EXCEPT ![cur] = Retried]
  /\ Forget
  /\ UNCHANGED <<shop, minute, open, left, sales, faults>>

\* The write fails, which is only logged.
SettleLost ==
  /\ pc = "settle" /\ Fault
  /\ Forget
  /\ UNCHANGED <<shop, rowVars, minute, open, left, sales>>

-----------------------------------------------------------------------------
(* The process stops and starts again.                                     *)
Crash ==
  /\ pc # "idle" /\ Fault
  /\ pc' = "idle" /\ open' = {} /\ left' = 0
  /\ cur' = NoJob /\ keys' = 0 /\ outcome' = "none"
  /\ UNCHANGED <<shop, rowVars, minute, sales>>

Sell(p) ==
  /\ stock[p] > 0 /\ sales < MaxSales
  /\ stock' = [stock EXCEPT ![p] = @ - 1] /\ sales' = sales + 1
  /\ UNCHANGED <<late, strays, rowVars, minute, pc, open, left, cur, keys, outcome, faults>>

LateUploadLands(p) ==
  /\ late[p] > 0
  /\ stock' = [stock EXCEPT ![p] = @ + late[p]]
  /\ late' = [late EXCEPT ![p] = 0] /\ strays' = strays \cup {p}
  /\ UNCHANGED <<rowVars, minute, pc, open, left, cur, keys, outcome, sales, faults>>

\* Seeded fault: a retry is locked for ever.
LockExpires_IfRunning(j) ==
  /\ locked[j] /\ status[j] = "running"
  /\ locked' = [locked EXCEPT ![j] = FALSE]
  /\ UNCHANGED <<shop, status, timeouts, minute, pc, open, left, cur, keys,
                 outcome, sales, faults>>

\* locked_until passes.
LockExpires(j) ==
  /\ locked[j]
  /\ locked' = [locked EXCEPT ![j] = FALSE]
  /\ UNCHANGED <<shop, status, timeouts, minute, pc, open, left, cur, keys,
                 outcome, sales, faults>>

MinuteStarts(j) ==
  /\ minute[j] = "before"
  /\ minute' = [minute EXCEPT ![j] = "now"]
  /\ UNCHANGED <<shop, rowVars, pc, open, left, cur, keys, outcome, sales, faults>>

\* The scheduler wakes up every 30 s, so it starts a pass before the minute is
\* over, unless it is in the middle of a run all the time.
MinuteEnds(j) ==
  /\ minute[j] \in {"now", "seen"}
  /\ minute[j] = "now" => pc \in Running
  /\ minute' = [minute EXCEPT ![j] = "past"]
  /\ UNCHANGED <<shop, rowVars, pc, open, left, cur, keys, outcome, sales, faults>>

-----------------------------------------------------------------------------
Scheduler ==
  \/ StartPass \/ \E j \in Jobs : Claim(j)
  \/ EndPass \/ QueryStock \/ CreateKeys \/ Upload \/ RunFails
  \/ Verify \/ VerifyFails \/ Recheck \/ Settle \/ SettleLost

Environment ==
  \/ \E p \in Plans : Sell(p) \/ LateUploadLands(p)
  \/ \E j \in Jobs : LockExpires(j) \/ MinuteStarts(j) \/ MinuteEnds(j)
  \/ Crash

Next == Scheduler \/ Environment

Spec == Init /\ [][Next]_vars

(* The scheduler's loop never ends by itself, every call it makes has a    *)
(* timeout, and time passes.                                               *)
FairSpec ==
  /\ Spec
  /\ WF_vars(Scheduler)
  /\ \A j \in Jobs : WF_vars(LockExpires(j))

-----------------------------------------------------------------------------
(* Properties.                                                             *)

Statuses == {"none", "pending", "running", "succeeded", "failed"}
Outcomes == {"none", "succeeded", "failed", "retry", "failed_timeout", "retry_timeout"}
\* Every variable keeps its type.
TypeOK ==
  /\ stock \in [Plans -> Nat] /\ late \in [Plans -> Nat] /\ strays \subseteq Plans
  /\ status \in [Jobs -> Statuses]
  /\ timeouts \in [Jobs -> Nat]
  /\ locked \in [Jobs -> BOOLEAN]
  /\ minute \in [Jobs -> {"before", "now", "seen", "past"}]
  /\ pc \in {"idle", "next"} \cup Running
  /\ open \subseteq Jobs /\ left \in Nat /\ keys \in Nat
  /\ IF pc \in Running THEN cur \in Jobs ELSE cur = NoJob
  /\ outcome \in Outcomes /\ (pc = "settle" <=> outcome # "none")
  /\ sales \in Nat /\ faults \in Nat

(* Topping up is idempotent (sale_card_scheduler.go:31-33): however often  *)
(* a job is repeated - after a timeout, a crash, a lost write, for several *)
(* days at once - the shop never holds more cards of a plan than the       *)
(* greatest target asked for, unless an upload that had timed out was      *)
(* applied after the stock had been looked at again.                       *)
Within(p, n) == \E j \in Jobs : PlanOf[j] = p /\ n <= Target[j]
StockWithinTarget == \A p \in Plans \ strays : stock[p] = 0 \/ Within(p, stock[p])

Settled(j) == status[j] \in {"succeeded", "failed"}

(* A job is done with once a day: neither another pass in its minute nor a *)
(* restart runs it again.                                                  *)
SettledForGood == [][\A j \in Jobs : Settled(j) => status'[j] = status[j]]_vars

(* Every queued job is settled, although runs of it are cut short, lost or *)
(* leave it short of its target.                                           *)
EventuallySettled == \A j \in Jobs : status[j] = "pending" ~> Settled(j)

(* Selling meanwhile, a large deficit or another job of the same plan      *)
(* never make a job fail: only failed calls do.                            *)
FaultFreeSucceeds == faults = 0 => \A j \in Jobs : status[j] # "failed"

(* RestockInv is inductive.  It makes StockWithinTarget so: what is about  *)
(* to be listed still fits, since nobody else lists cards and sales only   *)
(* make room.  A row that is run or may be claimed is not settled; without *)
(* a fault no run gets on the way to a failure.                            *)
RoomLeft ==
  pc \in {"create", "upload"} /\ PlanOf[cur] \notin strays
    => Within(PlanOf[cur], Stock + keys)

RowInv ==
  /\ cur \notin open
  /\ \A j \in open : ~Settled(j)
  /\ pc \in Running => ~Settled(cur)

FaultFreeInv ==
  /\ FaultFreeSucceeds
  /\ faults = 0 => /\ pc \notin {"recheck_timeout", "recheck_error"}
                   /\ outcome \in {"none", "succeeded", "retry"}

RestockInv == StockWithinTarget /\ RoomLeft /\ RowInv /\ FaultFreeInv
=============================================================================
