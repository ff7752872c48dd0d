----------------------------- MODULE PoolLedger -----------------------------
(***************************************************************************)
(* Cards made by logins and the ledgers of the dynamic prizes              *)
(* (login.go, login_subscription.go, login_purchase.go, login_store.go,    *)
(* prize_pool_store.go, spin_rules.go, spin_store.go, dragonboat_store.go, *)
(* scratch_store.go).                                                      *)
(*                                                                         *)
(* A login makes the card of an identity, or adapts a card nobody played   *)
(* to a changed configuration, and pays a share of its price into the      *)
(* ledger of its game; a draw reads the balance of the ledger to know what *)
(* may be won, and takes the prize out when it is recorded.  Logins hold   *)
(* no lock, draws hold the lock of their card only.                        *)
(*                                                                         *)
(* An identity is the subscription of a user or a card key; all the        *)
(* subscriptions belong to one user, who logs in for all of them.          *)
(***************************************************************************)
EXTENDS Integers, Sequences, FiniteSets

CONSTANTS
  Requests,    \* requests of handlers
  Subs,        \* the user's subscriptions, in the order of the upstream
  Keys,        \* card keys
  Tiers,       \* dollars a card may be worth
  NoTier,      \* an identity that does not take part
  Configs,     \* configurations of staff, with the tiers they give: see ConfigType
  NoCard,      \* no row in cards
  MaxPrize,    \* bound: the largest prize
  MaxChanges,  \* bound: configurations staff save
  MaxFaults    \* bound: accesses to the database that fail

Ids == {Subs[i] : i \in DOMAIN Subs} \cup Keys

VARIABLES
  config,    \* the runtime configuration
  card,      \* rows of cards: [plan, used], by identity
  deposit,   \* rows of kind deposit, by ledger and identity; 0 for no row
  payout,    \* sum of the rows of kind payout, by ledger
  req, changes, faults

vars == <<config, card, deposit, payout, req, changes, faults>>

\* Slot and dragon-boat prizes come out of one ledger, scratch prizes out of another.
Games == {"slot", "scratch", "dragon"}
Ledgers == {"prize_pool", "scratch"}
LedgerOf(game) == IF game = "scratch" THEN "scratch" ELSE "prize_pool"

\* Whether prizes are dynamic; the tier of an identity; the draws of a tier, its game and
\* the share of its price that goes to the prizes.
ConfigType ==
  [dynamic : BOOLEAN, tier : [Ids -> Tiers \cup {NoTier}],
   rule : [Tiers -> [draws : Nat, game : Games, share : Nat]]]

\* What a card is planned as.  Tier and draws are columns of its row; its game and its share
\* only go into its deposit.
Plans == [tier : Tiers, draws : Nat, game : Games, share : Nat]

Qualifies(cfg, id) == cfg.tier[id] # NoTier /\ cfg.rule[cfg.tier[id]].draws > 0

\* PlanLoginCard; without dynamic prizes there is no contribution.
PlanOf(cfg, id) ==
  LET tier == cfg.tier[id]  rule == cfg.rule[tier]
  IN  [tier |-> tier, draws |-> rule.draws, game |-> rule.game,
       share |-> IF cfg.dynamic THEN rule.share ELSE 0]

\* A sum over the identities, as the number of its units.
Sum(f) == Cardinality(UNION {{id} \X (1..f[id]) : id \in Ids})

Balance(ledger) == Sum(deposit[ledger]) - payout[ledger]

Rows == [plan : Plans, used : Nat]
MaxTries == 5

RequestType ==
  [at : {"idle", "look", "sync", "create", "draw", "drawn"}, i : 0..(Len(Subs) + 1),
   cfg : Configs \cup {<<>>}, create : Ids \cup {NoCard}, seen : Rows \cup {NoCard},
   id : Ids \cup {NoCard}, game : Games, prize : Nat, capped : BOOLEAN, balance : Int,
   tries : 0..(MaxTries - 1)]

\* What a request knows: the configuration and rows it read, the game it plays, the balance
\* it drew on.
Fresh == [at |-> "idle", i |-> 0, cfg |-> <<>>, create |-> NoCard, seen |-> NoCard,
          id |-> NoCard, game |-> "slot", prize |-> 0, capped |-> FALSE, balance |-> 0,
          tries |-> 0]

Init ==
  /\ config \in Configs
  /\ card = [id \in Ids |-> NoCard]
  /\ deposit = [ledger \in Ledgers |-> [id \in Ids |-> 0]]
  /\ payout = [ledger \in Ledgers |-> 0]
  /\ req = [r \in Requests |-> Fresh]
  /\ changes = 0 /\ faults = 0

Set(r, new) == req' = [req EXCEPT ![r] = new]
Done(r) == Set(r, Fresh)

Store == <<card, deposit, payout>>
Staff == <<config, changes>>

(***************************************************************************)
(* The transactions of a login                                             *)
(***************************************************************************)

\* Seeded fault: only the ledger of the new game is cleared.
Deposited_NewLedger(id, p) ==
  [deposit EXCEPT ![LedgerOf(p.game)][id] = p.share]

\* recordPrizePoolDepositWith after older deposits of the card were deleted.
Deposited(id, p) ==
  [ledger \in Ledgers |->
     [deposit[ledger] EXCEPT ![id] = IF ledger = LedgerOf(p.game) THEN p.share ELSE 0]]

InsertCard(id, p) ==
  /\ card[id] = NoCard
  /\ card' = [card EXCEPT ![id] = [plan |-> p, used |-> 0]]
  /\ deposit' = Deposited(id, p)

\* The UPDATE names a row nobody played; without such a row nothing else is changed.
UpdateUnused(id, p) ==
  IF card[id].used = 0
  THEN card' = [card EXCEPT ![id].plan = p] /\ deposit' = Deposited(id, p)
  ELSE UNCHANGED <<card, deposit>>

(***************************************************************************)
(* Login with a user: the subscriptions are looked at one by one.          *)
(***************************************************************************)

LoginUser(r) ==
  /\ req[r].at = "idle" /\ Subs # <<>>
  /\ Set(r, [Fresh EXCEPT !.at = "look", !.i = 1, !.cfg = config])
  /\ UNCHANGED <<Store, Staff, faults>>

\* The row of the next subscription; the first one without a row may get one later.
Look(r) ==
  LET q == req[r]  id == Subs[q.i]  next == [q EXCEPT !.i = @ + 1]
  IN  /\ q.at = "look" /\ q.i <= Len(Subs)
      /\ IF ~Qualifies(q.cfg, id) THEN Set(r, next)
         ELSE IF card[id] # NoCard THEN Set(r, [q EXCEPT !.at = "sync", !.seen = card[id]])
         ELSE Set(r, IF q.create = NoCard THEN [next EXCEPT !.create = id] ELSE next)
      /\ UNCHANGED <<Store, Staff, faults>>

\* syncUnusedSubscriptionCardPlan: a card that nobody played and whose dollars or draws are
\* others now is written anew, and its row read again.  A card with draws left is the answer.
SyncPlan(r) ==
  LET q == req[r]  id == Subs[q.i]  p == PlanOf(q.cfg, id)
      stays == \/ q.seen.used # 0
               \/ q.seen.plan.tier = p.tier /\ q.seen.plan.draws = p.draws
      row == IF stays THEN q.seen ELSE card'[id]
  IN  /\ q.at = "sync"
      /\ IF stays THEN UNCHANGED <<card, deposit>> ELSE UpdateUnused(id, p)
      /\ IF row.plan.draws > row.used THEN Done(r)
         ELSE Set(r, [q EXCEPT !.at = "look", !.i = @ + 1, !.seen = NoCard])
      /\ UNCHANGED <<payout, Staff, faults>>

\* No card with draws was found: a row is made, or the login ends.
LookedAtAll(r) ==
  LET q == req[r]
  IN  /\ q.at = "look" /\ q.i > Len(Subs)
      /\ IF q.create = NoCard THEN Done(r)
         ELSE Set(r, [q EXCEPT !.at = "create", !.id = q.create])
      /\ UNCHANGED <<Store, Staff, faults>>

(***************************************************************************)
(* Login with a card key: an existing row is the answer.                   *)
(***************************************************************************)

LoginKey(r) ==
  /\ req[r].at = "idle" /\ UNCHANGED <<Store, Staff, faults>>
  /\ \E key \in Keys :
       /\ card[key] = NoCard /\ Qualifies(config, key)
       /\ Set(r, [Fresh EXCEPT !.at = "create", !.id = key, !.cfg = config])

\* A row that another login made meanwhile is taken by a user's login, and an error for
\* a card key.
Create(r) ==
  LET q == req[r]
  IN  /\ q.at = "create"
      /\ \/ InsertCard(q.id, PlanOf(q.cfg, q.id))
         \/ card[q.id] # NoCard /\ UNCHANGED <<card, deposit>>
      /\ Done(r)
      /\ UNCHANGED <<payout, Staff, faults>>

\* The transaction fails: a user's login tries five times, under another key.
CreateFails(r) ==
  LET q == req[r]
  IN  /\ q.at = "create" /\ faults < MaxFaults /\ faults' = faults + 1
      /\ IF q.id \in Keys \/ q.tries + 1 = MaxTries THEN Done(r)
         ELSE Set(r, [q EXCEPT !.tries = @ + 1])
      /\ UNCHANGED <<Store, Staff>>

(***************************************************************************)
(* Draws                                                                   *)
(***************************************************************************)

\* The card's lock: one draw of a card at a time.
Drawing(id) == \E r \in Requests : req[r].at \in {"draw", "drawn"} /\ req[r].id = id

\* The handler of the card's game reads the row, and what its tier plays now.
Begin(r, id) ==
  /\ req[r].at = "idle" /\ ~Drawing(id)
  /\ card[id] # NoCard /\ card[id].used < card[id].plan.draws
  /\ LET rule == config.rule[card[id].plan.tier]
     IN  rule.draws > 0 /\ Set(r, [Fresh EXCEPT !.at = "draw", !.id = id, !.game = rule.game])
  /\ UNCHANGED <<Store, Staff, faults>>

\* Seeded fault: the prizes are not cut to the balance.
Affordable_Any(balance) == 0..MaxPrize

\* What may be won for a balance (PrizeAmount and ScratchRewards in the other modules).
Affordable(balance) == {amount \in 0..MaxPrize : amount = 0 \/ amount <= balance}

\* The prize is drawn, dynamic prizes for the balance read now.
Draw(r) ==
  LET q == req[r]  balance == Balance(LedgerOf(q.game))
  IN  /\ q.at = "draw" /\ config.dynamic
      /\ \E prize \in Affordable(balance) :
           Set(r, [q EXCEPT !.at = "drawn", !.prize = prize, !.capped = TRUE,
                            !.balance = balance])
      /\ UNCHANGED <<Store, Staff, faults>>

\* Prizes of the fixed pool: dynamic prizes are off, or the balance could not be read, for
\* which a scratch round is refused but a slot or a dragon-boat round is not.
DrawFixed(r) ==
  LET q == req[r]
  IN  /\ q.at = "draw"
      /\ \/ ~config.dynamic /\ UNCHANGED faults
         \/ config.dynamic /\ q.game # "scratch" /\ faults < MaxFaults /\ faults' = faults + 1
      /\ \E prize \in 0..MaxPrize : Set(r, [q EXCEPT !.at = "drawn", !.prize = prize])
      /\ UNCHANGED <<Store, Staff>>

\* One transaction counts the round and records the payout, if prizes are dynamic by then.
Record(r) ==
  LET q == req[r]
  IN  /\ q.at = "drawn"
      /\ card' = [card EXCEPT ![q.id].used = @ + 1]
      /\ payout' = IF config.dynamic THEN [payout EXCEPT ![LedgerOf(q.game)] = @ + q.prize]
                   ELSE payout
      /\ Done(r)
      /\ UNCHANGED <<deposit, Staff, faults>>

\* An access of a request to the database fails, and the request with it.
Fails(r) ==
  /\ req[r].at \in {"look", "sync", "draw", "drawn"} /\ faults < MaxFaults /\ faults' = faults + 1
  /\ Done(r)
  /\ UNCHANGED <<Store, Staff>>

(***************************************************************************)
(* Staff save another configuration.                                       *)
(***************************************************************************)

Configure(cfg) ==
  /\ changes < MaxChanges /\ changes' = changes + 1
  /\ config' = cfg
  /\ UNCHANGED <<Store, req, faults>>

Next ==
  \/ \E r \in Requests :
       \/ LoginUser(r) \/ Look(r) \/ SyncPlan(r) \/ LookedAtAll(r)
       \/ LoginKey(r) \/ Create(r) \/ CreateFails(r)
       \/ \E id \in Ids : Begin(r, id)
       \/ Draw(r) \/ DrawFixed(r) \/ Record(r) \/ Fails(r)
  \/ \E cfg \in Configs : Configure(cfg)

Spec == Init /\ [][Next]_vars

(***************************************************************************)
(* Properties                                                              *)
(***************************************************************************)

TypeOK ==
  /\ config \in Configs /\ card \in [Ids -> Rows \cup {NoCard}]
  /\ deposit \in [Ledgers -> [Ids -> Nat]] /\ payout \in [Ledgers -> Nat]
  /\ req \in [Requests -> RequestType]
  /\ changes \in 0..MaxChanges /\ faults \in 0..MaxFaults

\* However logins with different configurations overtake each other, a card has paid
\* exactly the share of the plan its row was written from into the ledger of that plan's
\* game, and nothing into the other ledger (insertLoginCard, syncUnusedSubscriptionCardPlan).
DepositFollowsCard ==
  \A id \in Ids, ledger \in Ledgers :
    deposit[ledger][id] =
      IF card[id] # NoCard /\ LedgerOf(card[id].plan.game) = ledger
      THEN card[id].plan.share ELSE 0

\* A ledger is overdrawn in three ways only: by a draw whose balance was spent by another
\* between its reading and its recording; by a draw from the fixed prizes, which takes that
\* the balance could not be read or that staff switched dynamic prizes on before it was
\* recorded; or by a login that takes back the deposit of an unused card after it was won by
\* others (spin_rules.go, recordPrizePoolPayoutWith).
HasCause(ledger) ==
  (Balance(ledger) >= 0 /\ Balance(ledger)' < 0) =>
    \/ \E r \in Requests :
         /\ req[r].at = "drawn" /\ req'[r].at = "idle" /\ LedgerOf(req[r].game) = ledger
         /\ IF req[r].capped THEN req[r].balance > Balance(ledger)
            ELSE faults > 0 \/ changes > 0
    \/ \E id \in Ids : deposit'[ledger][id] < deposit[ledger][id]

OverdraftHasCause == [][\A ledger \in Ledgers : HasCause(ledger)]_vars
=============================================================================
