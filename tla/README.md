# TLA+ models of fufu-toolskit

fufu-toolskit runs one production service, `apps/fufu-tool-site`, which embeds the activity
backend `apps/fufu-act` and mounts the card-merging tool `packages/go/fufu/combine`. Customers
play games with cards they bought and win quota; staff and customers merge cards; a scheduler
keeps a shop stocked with cards. Money-like quota lives *upstream* (a New API server) and in a
*shop* (MCY), both reached over HTTP with timeouts. The service itself keeps SQLite tables and
in-memory tables. What makes it hard is that an upstream call can be applied although its answer
is lost, that several goroutines work on the same card, and that the process may stop between two
steps.

This directory holds TLA+ modules translated from that code, TLC configurations that check them
on small instances, and TLAPS proofs of the main safety properties for all instances.
`PROJECT.json` maps every definition to the source lines it stands for and lists the hazards,
runs, seeded faults, findings and theorems.

To run: `tlc -config RewardPaysOnce.cfg MCRewardIssuance`, `tlapm PlayProofs.tla`, and so on;
the runs and their modules are in the table below.

## 1. Inventory of the system

| Component (source) | State | Operations | Hard behaviour | What makes it correct | Modules |
|---|---|---|---|---|---|
| Reward issuance (`credit_worker.go`, `subscription_reward.go`, `reward_plan_pool.go`, `reward_issuance.go`, `credit_quota.go`) | tables `credit_queue`, `reward_issuance`, `reward_plan_pool`; upstream plans, subscriptions and tokens | worker pass every 3 s: for a subscription card look up the issuance, lease a plan, configure it, bind, observe, record, release; for a token card read the quota and write the sum; mark the row | lost and late answers, retries, crash at any step, plan reuse, busy pool, the customer spends meanwhile | paid at most once, the right quota, every row settled, no lease leaked | `RewardIssuance`, `RewardPromise`, `TokenQuota` |
| Card play (`spin_*`, `scratch*`, `dragonboat*`, `login_store.go`, `credit.go`) | tables `cards`, `scratch_games`, `dragonboat_games`, `credit_queue` | spin; start, reveal, cash out, reset; fish, peel; login inserts or resizes the card | read, draw, write in separate steps; logins resize the card and staff change its game meanwhile | no extra rounds, winnings queued once and in full as long as logins and staff leave the card alone | `CardPlay` |
| Card locks (`routes.go`) | registry of counted mutex entries | acquire, release | entry dropped while another request is about to use it | exclusion per card, no leak, no starvation | `CardLock` |
| Prize pool ledgers (`prize_pool_store.go`, `login*.go`, `poolfundcore`) | ledger tables | deposit at login, move at a resize, payout at a draw, balance | balance read outside the payout's transaction, or not at all; a resize during a draw | deposits follow the cards; draws one after the other that know the balance never overdraw | `PoolLedger` |
| Failure limiters (`login_rate_limit.go`, `auth_rate_limit.go`, `search_rate_limit.go`, `admin_login_rate_limit.go`) | windowed counters with lockout | allow, record, clear | asked before an upstream call, told after it | bounded attempts | `Limiters` |
| Login (`login_*.go`) | `cards` | find the token or subscription, read its title, plan the card, insert or resize | two logins at once; titles in words | one card per subscription, of the tier that was sold | `LoginRules`, `ActivityConfig`, `PoolLedger` |
| Drawing rules and activity configuration (`spincore`, `probabilitycore`, `prizepoolcore`, `dragonboatcore`, `activity`) | the stored configuration | normalise, store, read back; draw; cast | rounding, missing and odd values | worth its target, covered by the fund, the same after a restart | `DrawRules`, `DragonScene`, `ActivityConfig` |
| Card merging (`combine/merge*.go`, `jobs.go`, `handlers.go`) | in memory `mergeJobs`, `mergeLocks`; upstream cards | submit, resolve, lock, verify, create, rename, delete, roll back | partial failure, lost answers, crash, concurrent merges, staff deletions that ignore the lock | no quota lost, duplication only where reported, locks released | `TokenMerge` |
| Merge rules (`combinecore`, `merge_*.go`) | none (pure) | eligibility, target of a merge, pasted keys | keys pasted twice, cards that changed | nobody gains by merging | `MergeRules` |
| Merge trace (`trace_*.go`) | SQLite records | write, prune, search | write failures, crash, pruning under a merge | a card never vanishes without a record, no record is untrue | `MergeTrace`, `MergeRules` |
| Shop restocking (`sale_card_scheduler.go`, `sale_card_restock_jobs.go`, `card_listing.go`, `salecore`) | table `sale_card_restock_jobs`; the stored schedule; the shop's stock | queue due jobs, claim, query stock, create keys, upload, verify, settle, retry; save a schedule | timeouts applied late, crash with a claimed row, sales meanwhile | never overstocked, each job settled once | `SaleRestock`, `SaleSchedule` |
| Shop session (`shop_session.go`, `shop_login.go`, `mcy_config.go`) | cookie behind a read-write lock, a login lock | ensure, refresh after expiry, change the account | single-flight login; calls that clash are told that the session is over | one login per expiry or clash, no fresh cookie thrown away | `ShopSession` |
| Token service (`tokens/*.go`) | none; upstream tokens | create, find by key, complete a masked key, batch search, add quota | workers that fail and are cancelled, masked answers | whole and own keys, honest errors | `TokenService`, `BatchSearch`, `TokenQuota` |
| Model status (`model_status_*.go`, `modelcore`) | cache, shared build | get, build, reset | single flight, panics, clients that leave, a save meanwhile | one build at a time, nothing half-built kept | `ModelStatus`, `ModelRules` |
| Manual check (`model_manual*.go`) | cooldowns, results | prune, reserve, test, withdraw | pruning beside a reservation | one test an hour | `ManualTest`, `ModelRules` |
| Site configuration (`admin_config_*.go`, `config_store_db.go`, `admin_runtime.go`, `runtime.go`, `combine_routes.go`) | SQLite row, legacy file, snapshots in the modules | start, migrate, save, apply, replace the card merger | save and apply in two steps, crash between them, requests under way; the row is read over the environment | what runs is what is stored, blanks aside | `SiteConfig`, `SiteRules` |
| Sessions, connectivity, navigation, static pages, legacy, scripts | none that another step could come between | - | - | - | - |

Winners queued by card play are paid by reward issuance, deposits of logins feed the ledgers that
draws take from, restocking and logins go through the shop session, restocking and merging make
cards through the token service, and the site configuration replaces what all of them run with.
The hazards of this code, each at its line with the properties that watch it, are listed under
`hazards` in `PROJECT.json`.

## 2. Plan

Written, the most important behaviour first: `RewardIssuance` with the abstract specification
`RewardPromise`, `CardPlay`, `CardLock`, `TokenMerge`, `SaleRestock`, then `TokenQuota`,
`ShopSession`, `PoolLedger`, `Limiters`, `BatchSearch`, `MergeTrace`, `ModelStatus`, `ManualTest`,
`SiteConfig` and the rule modules. Proved: every safety property the runs check of a module with
state, and the properties of the rules except one (see Proofs).

Worth doing next: the one that is left, on titles;
an amount-carrying variant of `TokenMerge`; merges that outlive a replacement of the combine application; `CardPlay` and the
payment of its rows composed over one queue.

## 3. Modules

Every model has one action per operation or per step between two calls; a section under one mutex
or one database transaction is one step. Counters such as `faults`, `sales` and `changes` with their
`Max...` constants bound the behaviours TLC explores; the proofs hold for every value of them.
Definitions marked "Seeded fault" are variants of the definition below them with a plausible
mistake in it. No run uses them: each is there to show that a property notices that mistake
(`mutants` in `PROJECT.json`).

### RewardIssuance, RewardPromise
`status`, `retries` are columns of `credit_queue`, one row per card; `issued` is
`reward_issuance`; `lease`, `baseline`, `cooling` are `reward_plan_pool` (`cooling` says whether
`next_bind_at` is in the future: time is only that). `plan`, `subs`, `lastSub`, `ended` are
upstream; `inflight` is a bind whose client gave up and which may still land. `pc` and the other
worker variables follow `addQuotaToSubscriptionRewardOnce` call by call. `CallFails` is an error
of any call; `BindUnanswered` a bind that was applied, was not, or will be; `LateBindLands` and
`LateBindDropped` its later fate; `Crash` forgets the worker's variables. Not modelled: plan
durations, the wording of errors, `MarkScanFailed` (a row that cannot be read).

`LateBinds` names what is assumed about the upstream. The code relies on `next_bind_at`, 30 s
after a request that times out after 5 s. "attempt": an unanswered bind lands before
`next_bind_at` or never, and `next_bind_at` does not pass between loading the subscriptions
and comparing it with the clock (`subscription_reward.go:95` and `:132`). With "cooldown" the
second half is dropped, and payment is no longer exact on the model: a bind that lands between
those two lines, as the cooldown ends, is neither seen nor waited for, and a second bind goes out.
"any" assumes nothing.
`Denied` lists calls that may get a permanent 4xx. A permanent error of "plan" or "observe"
releases a lease on which a bind may already have been applied, so payment is exact only without it.

`RewardPromise` is what a customer sees: a prize is paid at most once with the amount won, a row
is done only after payment, a closed row stays closed. `KeepsPromise` is the refinement, with
`stage <- status` and `paid` the subscriptions whose bind was sent for the card.

### TokenQuota
The rows of one token card are paid one after the other; `worker` holds the row and the remaining
quota it read. The code's write is not idempotent: it sets a sum that was computed from an earlier
read. `doubts` counts the faults that hide a payment from the worker (a lost answer, a row that
was not marked, a crash in between); a prize is added at most once more than that.

### CardPlay
One card: `total`, `used`, `won` are its row in `cards`, `scratch` and `dragon` its games, `rows`
its rows in `credit_queue`, `req` what each request under way has read. A handler is
`Enter` (take the lock), `LookCard` (the card's row and the test of its tier) and `LookGame` (its
game's row), in the order of the handler, and the action of its transaction, which uses the values
it has read where the code does, and current ones where the code reads again. `Leave`
stands for every way to end without a write. `Sync` (a login resizes an unused card, perhaps to
another game, and deletes its games), `Reroute` (staff give the tier another game) and `Settle` take
no lock and happen at any time, as in the code. A drawn prize is any member of `Prizes`; which
cells are mines and what a fish catches is free.

Two histories say what the properties excuse. `crossed` is the operation that wrote its decision on a
card which a login had changed since it was read (`behind`); it matters for a spin or a peeling,
which count against the card as read, but for a scratch round only on a card that has become a
dragon-boat card, for `finishScratchRound` reads the card again. `reroutes` counts the changes of
the game of a card that has been used or is in use; a change before that is not counted. `Undisturbed` is
neither. What happens otherwise stands under Known limits. That no dragon-boat game casts, catches or
peels too much, that a card has one active row and that no row is above what was won hold all the same.

### PoolLedger, Limiters
`PoolLedger`: logins walk the user's subscriptions and make or resize cards with their deposits,
draws read the balance and record a payout. A card is written anew only if its tier or its draws
are others now (`login_store.go:73`); `DepositFollowsCard` therefore speaks of the plan the row was
written from, whose game and share may no longer be those of the tier. `Draw` is capped by the balance
it read; `DrawFixed` is the draw from the fixed prizes, with dynamic prizes off or, but for scratch
rounds, when the balance cannot be read (`spin_rules.go:12`). `OverdraftHasCause` names the three
ways to overdraw. `Limiters`: a client's requests ask, work and tell;
`begun` remembers, for the property, when the searches of the last window began. `DoorAssumption` asks that a lookup ends before a lockout would (a call of the client may last
60 s, and so does a lockout): `record` writes `BlockedUntil` from the time at which the request
began, so an answer as slow as a lockout would end it.

### CardLock, ShopSession
`locks` is the registry, `refs` and `locked` an entry's count and mutex. `Acquire` is the
section under the registry's mutex; `Enter` is `entry.mu.Lock`; `Unlock`, `Drop` are `release`.
In `ShopSession` a request reads the cookie, calls, and after an "expired" answer takes the login
lock, looks again and logs in. The shop gives that answer when the session is over (`SaysExpired`)
and also, to a living session, when another call of it is under way (`Clashes`, the comment at
`shop_inventory.go:21`). A login tries up to three endpoints: an answer without an error is followed by a look at the
cookie (`LoginLooks`), an error of some kinds by the next endpoint without one (`LoginErrs`).
`SetConfig` is a save of another account or of a pasted cookie.

### TokenMerge, MergeTrace
A merge m is a goroutine at `pc[m]`, and the card it makes. `content` follows the quota: a card
carries the quota of a set of original cards. `Lost` names calls that may be applied although
they report an error. Verification of all cards is one step, and the cards are deleted in any order
(the code goes in the order of the request). Not modelled: amounts, the expiry of finished
jobs (30 min, whereas a job is cut off after 5), customised quotas. `MergeTrace` follows the rows a
merge writes about itself; which cards may be merged is `MergeRules`.

### SaleRestock
A job is a plan on a business day and slot; `status`, `timeouts`, `locked` are its row
(`locked`: whether `locked_until` is in the future), `minute` where the clock is in relation to
its slot. `stock` is the shop's; `late` are uploads that timed out and may still be applied.
Not modelled: jobs whose plan was removed from the templates (they fail at once), the switch that
disables the integration, several slots of a day (they are jobs of their own), batches of keys.

### BatchSearch, ModelStatus, ManualTest, SiteConfig
`BatchSearch` is the feeder, the workers, the one-place error channel and the shared context of a
search for several keys; what a search answers per key is in `TokenService`. `ModelStatus` is the
cache with its shared build: the key is constant while the process runs, a build that panics
releases those who wait, and a build cut short because its client left is handed to them as it is,
but not kept (`CachedIsWhole`, `ToldIsWholeUnlessLeft`). A status that was being built while the sites were saved is stored after
the reset (`StaleNeedsOverlap` in `StatusIsSound`, told by the field `crossed` of a built status), although `docs/requirements.md:42` has a saved
configuration take effect at once; the property allows exactly that window.
`ManualTest` is one cell of the table with two testers. The steps of a tester before its test take
less than an hour together. `SiteConfig` follows a save from the request to the row, the snapshot
and the modules, beside readers of the card merger, migrations and crashes. A configuration has two
parts named by the save they come from, and `cookie`, which stands for the fields of the shop that a
blank leaves out of the row: `Decoded` reads the row over the environment of the start, which differs
from start to start, as `decodeStoredToolConfig` does. `acked` is what the handlers were asked to
save; `Keeps` is what may become of it.

### DrawRules, ActivityConfig, DragonScene, LoginRules, SaleSchedule, MergeRules, TokenService, SiteRules, ModelRules, Lists, Rules
Operators only, each with a property that compares the rule with what it is for. `Rules` makes one
behaviour of each case (an input of one of them) and names what is assumed about inputs, and
`Lists` has the forms the loops of the code take: the members of a set in order, the entries
of a list at some positions, the positions of entries that are new, the lists of a list one after
the other, a total. They are defined by position and cardinality, and by a fold,
instead of by recursion over the list, so that facts about them can be proved for every length. A title is a
sequence of classified characters, a date or a time of day a number, a rational a pair, money an
integer number of cents (the roundings of the code are kept). A user's name is the amount before
"-act-" and the words after it: a test user is planned at that amount whatever was sold (`AsToken`), and
`PlannedAsSold` says so. Titles are compared by their length in bytes, as `len` does. Details worth knowing: the code drops
"." from titles, so a title with a fraction such as "0.1" reads as 1; `NormalizeConfig` is not
idempotent after one pass, but reading a stored configuration applies it twice and that is; a search
through the trace is complete only if the merges fit its limit of steps (`TraceFindsRelated`
asks for 2R - 1 <= max).

### Instances
`PlayParts` (play, ledger, door), `AccessParts` (lock, shop) and `SiteParts` (quota, search, trace,
status, manual, config) put together parts that share no state: the variable `focus` says which part
a behaviour is about, the others stay at their start and fairness is asked of the part in focus only.
Each instance carries the named assumptions on its constants that its proofs use. `MCCardPlay`,
`MCSite`, `MCRewardIssuance` and `MCSaleRestock` give values, and `MCRules` gives the inputs of the
rules.

## 4. Runs

| Run | Module / cfg | Shows | Distinct states |
|---|---|---|---|
| `reward_any_fault` | MCRewardIssuance / RewardAnyFault | bookkeeping and termination under any two faults | 100 736 |
| `reward_pays_once` | MCRewardIssuance / RewardPaysOnce | exact payment, refinement of RewardPromise | 822 685 |
| `card_play` | MCCardPlay / CardPlay | rounds, queue and winnings of a card; ledgers; limiters | 1 300 089 |
| `access` | AccessParts / Access | exclusion per card, one login per expiry or clash, no starvation | 145 321 |
| `merge` | TokenMerge / TokenMerge | locks, quota, duplicates, termination | 514 234 |
| `sale_restock` | MCSaleRestock / SaleRestock | stock bounds, settlement | 322 534 |
| `site` | MCSite / Site | token payments, batch search, trace, status, manual tests, configuration | 314 525 |
| `rules` | MCRules / Rules | the pure rules, case by case | 154 184 |
| `reward_shared_user`, `dragon_last_miss`, `merge_lost_delete`, `shop_stale_login` | | a violation each: see Findings | |

Bounds and why they suffice to be interesting:
- Rewards: two pool plans and three winners make every third winner reuse a plan, or wait for it; two
  faults give a lost bind plus a crash or a failed retry; two retries reach the limit. One attempt
  per pass in `reward_pays_once` (the second attempt repeats the next pass's).
- Card play: two requests (a third only waits for the lock), one or two rounds, prizes 0 and 1,
  reveal limits 1 and 2, two rows (a reset test card), one change of the game of a card in use, and
  any number of resizes and of changes of the game of an untouched card. Requests are symmetric. Ledgers: one
  subscription and one key, one change of the configuration, which may give the tier another game
  and share but the same draws, other draws, switch dynamic prizes, or move the subscription to
  another tier or to none; one failed access, which may be the reading of a balance. Limiters: limits
  of 2 and 3, a window and a lockout of 3 ticks, 7 ticks: a lockout begins, ends and begins again.
- Access: three requests and two cards give a user, a waiter and a newcomer; three entries are as many
  as can be in use. Two requests to the shop, one expiry, one clash, one change of account, one failed call.
- Merges: three merges of two cards allow a merge of a merge's result beside a competing one;
  the limits on active jobs (2) and on a guest's (1) are reached; one fault.
- Restocking: two jobs of one plan with targets 1 and 3, two cards a run, so the larger
  target needs two runs; two faults, two timeouts allowed, two sales, one job a pass.
- Site: two prizes and two retries on a token; four keys for three workers and two failures; two
  merges with three cards, a retention of one tick, two failures; two requests, two saves, one
  leaver, one panic; two testers over two cooldowns; two saves, one reader, two failures, two
  environments (one with a cookie, one without).
- Rules: small pools and configurations with every kind of row, balances on both sides of each
  rounding, all titles from 1 to 1200 and some larger ones, names of ordinary and of test users,
  lists of up to two or three entries.
  Amounts are small because TLC's integers have 32 bits.

`CHECK_DEADLOCK FALSE` is set where the system really may stop: all winners paid, all merges over,
all days past with the bounds used up.

Fairness. Worker and scheduler are `for` loops on a ticker which never return, and each of their
calls has a timeout: weak fairness of `Worker`, `Scheduler` and `Work`. Clocks advance: weak fairness
of `CooldownEnds` and `LockExpires`. A request does not stay in flight for ever. A merge's goroutine,
the goroutines of a search, a request for the status and a save go on for the same reason. In
`CardLock` strong fairness of `Enter`, and in `ShopSession` strong fairness of a request's step, is
what Go's `sync.Mutex` gives (a waiter that has starved gets the mutex handed over). Nothing is
assumed about customers, staff, faults and crashes. `EveryoneServed` and `WorkEnds` speak of one
watched request; requests are alike.

## 5. Proofs

TLAPS proves, for all values of the constants:

- `RewardIssuanceProofs`: `TypeOK`, the inductive `WorkerInv`, and from it `OneLeasePerCard`,
  `WorksOnOwnSlot`, `IssuedIsReal`, `DoneIsIssued`, `IssuedIsOwn` (for a user per card),
  `SettledForGood`. No assumption on the upstream. `WorkerInv` adds to the properties what the
  worker relies on at each step: which slot it holds, that its row is pending and not in the batch,
  that what it has seen belongs to its user. `FaultFreeIsPaid` needs `UncloudedInv`: before the first
  fault only the row at work leases a slot, which it finds clean, and a bind that went out has
  created a subscription that cannot have run out.
- `RewardIssuanceProofs`, payment: under `OnTimeUpstream` (a user per card, `LateBinds` "none" or
  "attempt", no permanent error of "plan" or "observe") the inductive `PayInv` and from it `AtMostOneGrant`,
  `RightQuota`, `NoBindWhileUnsettled` and the refinement `KeepsPromise`. `AtMostOneGrant` alone is
  not inductive: one needs that whatever was bound but not recorded can still be told from the
  baseline (`Recognisable`), that whatever may still land does so during a cooldown on a plan that
  still carries the prize (`LandsInCooldown`, `MissedStillCools`), and that a bind about to go out
  is the card's only one (`BindsUntouched`).
- `PlayProofs`, the play of a card: the inductive `CardInv` and `RoundsBounded`,
  `OneActiveRow`, `QueuedIsWon`, `FinishedIsQueued`, `FrozenOnceQueued`, with logins and changes of the
  game at any time. The key is `SeenInv`: what a request has read still is the card, or else a login
  changed the card (`behind`), which then is as good as new; `CountInv`: the rounds that were drawn
  are those the card counts; and `QueueInv`: an undisturbed queued card has no round left.
- `PlayProofs`, the ledgers: the inductive `LedgerInv`, `DepositFollowsCard` and the action property
  `OverdraftHasCause`. `Excuse` and `Uncapped` say that a draw whose prize was not capped comes of a
  fault, of prizes that are not dynamic, or of a change of the configuration. `Informed` says what a login carries from its reading of the configuration
  to its writes; the balance is a sum over identities, which the prover handles as the
  cardinality of a set of units (`Sum` in `PoolLedger`, `SumGrows`).
- `PlayProofs`, the limiters: the inductive `DoorInv` and `AttemptsBounded`. The bound on failures
  counts lockouts: after the n-th lockout of a record n - 1 gaps of `Lockout - Delay` have gone by
  since its first failure (`Locked`), the requests let in before it add at most one failure each,
  and only so many gaps fit into the window. The bound on searches splits those of the last
  window into those of the limiter's window and those of the one before (`Windows`).
  `PlayIsSound` states all of it of the composition that TLC checks.
- `AccessProofs`: `LockInv`, hence `MutualExclusion` and `NoIdleEntry`. The users of a key all
  use the registry's entry and the count is their number, so that the last one, and only the
  last one, removes it. And the inductive `ShopInv`, hence `SessionIsShared`: a login is owed to an
  expiry, a clash or a change whenever the cookie is not a living session of a login (`Owed`), and a
  request that wants another session has been told the end of the one it takes for stale (`Stale`).
  `AccessIsSound` states both of the composition.
- `SiteProofs`: `StatusIsSound` (`StatusInv`: a status is whole unless its client has left, and as
  many have left as are counted), `DoubleTestNeedsRace` (`ManualInv`: who holds the
  reservation is the only tester, and what a request pruned stays away), `ConfigIsSound`
  (`ConfigInv`: how far a save that nobody crossed has got, and that reading, posting and storing
  keep what was saved in the sense of `Keeps`), `SearchIsHonest` (`SearchInv`: no key
  that was fed and no failure is forgotten, and what failed by itself is told before the
  cancellation it causes), `TraceIsSound` (`TraceInv`: nothing is deleted before its row is
  written, nothing counted that is not deleted, the record completed last). `SiteIsSound` states
  them of the composition.
- `SiteProofs`, token payments: the inductive `QuotaInv` and `QuotaIsSafe`. `PaidKnown`
  bounds how often a prize is paid: once for each write whose answer was lost, and once more if its
  row is done or the worker is about to mark it (`Accounted`).
- `TokenMergeProofs`: `TypeOK`, the inductive `MergeInv`, and from it `LocksExact`,
  `DuplicatesReported`, `HalfwayNeedsFault`; and `NoQuotaLost` under the assumption that a deletion
  that fails was not applied (`"delete" \notin Lost`; without it the run `merge_lost_delete`
  shows how quota is lost). The argument: nobody can name a merge's new card before the merge
  is over (`NamedAreOld`), and its old cards are locked, so a merge finds its cards as it left them,
  or taken by itself or by hand (`Undisturbed`). `PresentInv` strengthens `DuplicatesReported` to
  the cards a merge still carries over, which staff may have deleted meanwhile.
- `SaleRestockProofs`: `TypeOK`, the inductive `RestockInv`, `StockWithinTarget`,
  `FaultFreeSucceeds`, `SettledForGood`. What is about to be listed still fits (`RoomLeft`)
  because one goroutine lists and sales only make room.

- `OperatorProofs`: what the operators of the rules give, for lists and sets of any size: of `Lists`
  first, then of merges, traces, tokens, schedules, the table of models, scenes and draws. A total is the fold of the
  library; that the fold exists and may start with any member is proved from its definition
  (`TotalOfAny`, `TotalStep`), by an induction over finite sets stated as a fact about sets of sets
  (`SetInduction`). From it: totals of parts, of renamed members, of picked entries; and of
  positions, that the members of a set in order are each there once and ascend (`InOrderIs`,
  `AscendingIs`), what picking twice gives (`PickedTwice`), and what the lists of a list hold one
  after the other, the first entry of the first list in front (`FlatFirst`).
- `RulesProofs`: for every set of cases that `Rules` allows, `MergesStayFair`, `TokensStayFound`,
  `TableStaysRight`, `GamesStayFair` and `SavedConfigKeepsWorking`, which has the parts
  `ConfigurationsStay`, `SchedulesKeepWorking` and `SitesKeepWorking`. A behaviour of `Rules` is one
  case, so each is a fact about the operators (the areas above in `OperatorProofs`, funds,
  configuration and sites here):
  - Merges: the total of the new card is that of the old ones, and an excess or a longer period
    needs an administrator; keys pasted twice count once, for they find the same card.
  - Tokens: every way to a key ends at the token itself; names of a batch fit and differ, for a
    slug of any length; a search through the trace reaches every merge that is connected, for its
    rounds grow until nothing new is found or the limit is met.
  - Models: counts of a column are the totals of its rows, over any logs and channels, and a
    manual test adds one.
  - Draws: the shares of a rebalanced weight add up to it exactly (`Shared`: what rounding leaves
    over is less than the number of rows), so that the value of a draw is off its target by at most
    the rounding of one weight (`NeutralIs`, `BalancedPays`).
  - Fund: every row of a slot's pool that carries a rank has, after two normalisations, at most the
    share of the balance that its rank is given, rebalancing changes weights only, and a roll finds
    a row of the pool (`DynamicAfforded`, `AffordedBalance`, `RollFinds`); the rewards of a
    scratch card never fall and end at the full prize, a tenth of the balance at most (`ScaledIs`).
  - Scene: a cast takes the first zongzi on its way that is still there, so the caught ones
    differ.
  - Schedules: normalising keeps the slots and jobs that pass its checks.
  - Configuration: normalising a second time changes nothing, shown part by part (pool, games,
    routes, guarantees, tiers, spins, fund); draws counted in the old form change the draws of
    routes only, and a login is offered no card without rounds.
  - Sites: cleaning and merging a list that was stored gives the list again, for its sites have
    clean addresses, names and tokens of their own. A line is in the site of its token, and the
    first line of a head stays the first, so that all modules call the same site; the candidates
    for a line are those of its site, each once, the preferred one first.

The argument is the same everywhere: the initial states satisfy the inductive invariant, each action
keeps it (a lemma per action), it implies the property. TLC checked every invariant before it was
proved. Assumptions on constants are named and TLC evaluates them: the bounds are numbers, sets
are finite, null values differ from what they stand beside (`LedgerAssumption`, `SearchAssumption`,
`SavesAssumption`, `ConfigAssumption`, `ManualAssumption`, `ShopAssumption`); `TraceAssumption` says that a merge names
finitely many cards; `DoorAssumption` is the one that says something of the surroundings
(see Limiters). Of the rules, `DefaultIsNormal` says that the built-in configuration is what
normalising it gives (its pool carries its ranks, its lists are of numbers), `HostAssumption` that
the slots of a day have names of their own, each plan is listed once and the host knows the zone
of the shop, and the others what an input is: requests and cards as the
upstream may answer them, the card with the number that was asked for (`MergeInputs`), records that
are sets of card numbers (`TraceInputs`), an upstream that tells the truth about the token it
made (`TokenInputs`), at most as many names as a schedule may ask for (`NameInputs`), objects with
names of their own at whole coordinates (`SceneInputs`), prizes, rates and balances that are
whole numbers (`DrawInputs`, `PrizeInputs`), posts and lines with the fields of the code's types
(`ScheduleInputs`, `StatusInputs`), configurations with the fields of the code's types
(`ConfigInputs`), lists of sites with lists of lines (`SiteInputs`, `KindsHaveLines`). Of the
surroundings: every game carries its own name among those it is known by (`GamesHaveNames`),
an absent list is no list (`NilIsNothing`), the rest of the built-in configuration is what
normalising gives, too (`DefaultIsComplete`), and `AddressesAreClean`: cleaning an address twice
is cleaning it once, which holds of `NormalizeHTTPBaseURL` (`admincore.go:28`) unless a blank stands
before trailing slashes; addresses hold no blanks. What a theorem assumes beyond that stands in its statement:
`OnTimeUpstream`, `DistinctUsers`, `"delete" \notin Lost`.

Some definitions had to be said more sharply before anything could be proved about them, because a
CASE with overlapping guards leaves its value open and two merges may name the same card: the
guards of the searches and of the site modules are exclusive now, and `MergeTrace` follows deletions
per merge. The proof of what the fund pays found `Covered`, and that of the sites `AreSites`, to say
less than they were meant to (an implication that took in the conjunct before it); both say it in full
now, and TLC checked them again.

Only model-checked: liveness (`EventuallySettled` of rewards and of restocking, `EveryoneServed`,
`EveryMergeEnds`, `WorkEnds`), which is out of the prover's reach; and
`TitlesAreRead`: which number is read from a title depends on the names the shop gave its plans, and
a theorem would have to assume of them most of what it shows. TLC reads the titles that say 1 to
1200 times, in digits and in words, beside plans whose names occur inside them.

## 6. Findings

1. `reward_shared_user`: a user's second card on a reused pool plan is marked done because an older
   active reward subscription counts as newly bound (the lease starts with an empty baseline).
2. `dragon_last_miss`: winnings of a dragon-boat card are never queued when the last cast
   misses after all catches were peeled.
3. `merge_lost_delete`: a merge reports that no old card was deleted although one is gone, and
   rolls the new card back.
4. `shop_stale_login`: a login that is under way while the shop's account is changed stores the
   old account's session, contrary to the comment in `mcy_config.go:25`.

## 7. Known limits

Behaviour of the code that the models show and that contradicts no document of the repository:

- A row given up after transient errors keeps its lease on a pool plan
  (`subscription_reward.go:110`); that plan is not used again.
- When staff lower the number of reveals under a scratch game that is already further, the game can
  neither go on nor be started anew, although the message asks to reopen it (`scratch_rules.go:192`,
  `scratchcore.go:112`).
- A restocking slot's minute can pass unseen while the only goroutine is busy with another run
  (`sale_card_scheduler.go:48`, whose comment at `:16` counts on a sub-minute tick to see each slot).
- Locks of merges belong to one combine application. Saving other sites makes a new one
  (`combine_routes.go:34`), which does not know the merges that still run in the old one.
- A bind that lands just as its cooldown ends may be missed (see `LateBinds` above).
- A lookup that takes as long as a lockout ends it early (see Limiters above).
- A login that resizes a card in the middle of its first spin or peeling (`login_store.go:92`; the
  request decides on the card as read, `spin_store.go:25` and `:50`): the credit may be queued before the last
  round, or never. If the login makes a dragon-boat card of it during the first round, one
  round more is drawn, for its casts start at 0.
- Staff give a card in play another game (`activity.go:233`): rounds of the new game are counted from its
  own row (`dragonboat_store.go:51` sets `used_spins` to its casts), so the card may play more rounds than
  it has, also after it was queued, and winnings may never be queued, for instance of a half-peeled dragon-boat
  card which becomes a slot card.
- A change of the game or the share of a tier which leaves its dollars and draws alone does not move
  the deposits of its unused cards (`login_store.go:73`); their prizes come out of the other ledger.
- A slot or dragon-boat draw that cannot read the balance is not capped by it (`spin_rules.go:12`), but its payout
  is recorded (`prize_pool_store.go:71`).
- Calls that share a shop session may be told that it has expired although it lives, which costs a
  login each (`shop_inventory.go:21`); the second such answer fails the request.
- A client that leaves while others wait for the status it builds spoils theirs, too
  (`model_status_cache_flow.go:28`); it is not kept.
- Fields of the shop that staff blank (`admin_config.go:25-28`), and likewise those of the navigation that a
  blank leaves out, come back from the environment or the built-in defaults at the next start
  (`admin_config_store_db.go:54`), and the next save writes them into the row. The comment at `admin_config_store.go:20` and
  `docs/requirements.md:92` say that the environment only seeds the first start.
- A user whose name is that of a test (`55-act-test`) is planned at the tier in the name with any
  subscription that qualifies (`login_plan.go:95`, `activity.go:999`).
- A record of a merge is pruned by two statements, not one transaction (`trace_write.go:33`); `MergeTrace`
  has them as one step, for what lies between is within what `TraceIsSound` excuses.
- `DuplicatesReported` is content with a merge that reports that its card was not created although it
  was (its id is unknown); `DoubleTestNeedsRace` excuses every deletion of a reservation by a request that did
  not make it: the pruning, and the withdrawals and clears after a test of more than an hour.

## 8. Not modelled

Each component without a module, and what is left out of the others, is listed with its reason in
`PROJECT.json` (`components`). Out of scope are how often a prize comes up, HTTP routing and
parsing, masks in the answers to `GetTokenKey` and batches, the encryption of the shop's login form,
the calls a status build makes, manual tests inside a build, sessions (a look-up and a comparison),
static pages, the legacy application and the scripts.
