------------------------------ MODULE DrawRules ------------------------------
(***************************************************************************)
(* Which prize a draw yields: the expected-value feedback that rebalances  *)
(* the weights of a prize pool (probabilitycore), the pool itself          *)
(* (prizepoolcore), a slot draw with its guarantees and its jackpot limit  *)
(* (spincore), and the share of the ledger a dynamic prize may take        *)
(* (poolfundcore).                                                         *)
(*                                                                         *)
(* Operators only.  A prize is a record [type, dollars, weight, rank,      *)
(* adv]; a rational is a pair <<numerator, denominator>>; rates are        *)
(* percentages and amounts of money in the ledger are cents, so that the   *)
(* roundings of the code are exact here.  The random number is a parameter *)
(* of a draw.                                                              *)
(***************************************************************************)
EXTENDS Lists, FiniteSetsExt

(***************************************************************************)
(* Pools                                                                   *)
(***************************************************************************)

Ranks == {"jackpot", "second", "third"}

\* Texts; the provers do not know of a literal that it is one.
Texts == STRING \cup Ranks \cup {"", "win", "miss", "retry"}

PrizeRows == [type : Texts, dollars : Int, weight : Int, rank : Texts, adv : BOOLEAN]
Rationals == Int \X (Nat \ {0})

Miss == [type |-> "miss", dollars |-> 0, weight |-> 0, rank |-> "", adv |-> FALSE]

\* A row without a type is a win if it has dollars; only wins have dollars.
Typed(p) ==
  LET type == IF p.type # "" THEN p.type ELSE IF p.dollars > 0 THEN "win" ELSE "miss"
  IN  [type |-> type, dollars |-> IF type = "win" THEN p.dollars ELSE 0,
       weight |-> p.weight, rank |-> p.rank, adv |-> p.adv]

\* An advertised row stays in the pool even when it cannot be drawn.
WithRows(pool) == Picked(pool, {i \in DOMAIN pool : pool[i].weight > 0 \/ pool[i].adv})

Normalize(pool) ==
  LET kept == WithRows(pool) IN [i \in DOMAIN kept |-> Typed(kept[i])]

Value(p) == IF p.type = "win" /\ p.dollars > 0 THEN p.dollars ELSE 0

Live(pool) == {i \in DOMAIN pool : pool[i].weight > 0}

WeightOf(pool, rows) == Total([i \in DOMAIN pool |-> pool[i].weight], rows)
ValueOf(pool, rows) == Total([i \in DOMAIN pool |-> Value(pool[i]) * pool[i].weight], rows)

\* The expected value of a draw, <<0, 1>> for a pool that cannot be drawn from.
ExpectedValue(pool) ==
  IF Live(pool) = {} THEN <<0, 1>>
  ELSE <<ValueOf([i \in DOMAIN pool |-> Typed(pool[i])], Live(pool)), WeightOf(pool, Live(pool))>>

(***************************************************************************)
(* Rebalancing: the expected value of one draw is steered to a target by   *)
(* changing the weights of the rows that pay nothing.                      *)
(***************************************************************************)

\* What one draw should be worth: the target is corrected by the distance of the
\* value actually paid so far, and spread over the draws of a card.
TargetPerDraw(target, actual, draws) ==
  LET planned == 2 * target[1] * actual[2] - actual[1] * target[2]
  IN  IF target[1] <= 0 \/ planned < 0 THEN <<0, 1>>
      ELSE <<planned, target[2] * actual[2] * (IF draws <= 0 THEN 1 ELSE draws)>>

\* newTotal is split among rows in proportion to their weights: each gets the whole
\* part of its share, the rows with the largest remainders one more.
Allocate(pool, rows, oldTotal, newTotal) ==
  LET base == [i \in rows |-> (newTotal * pool[i].weight) \div oldTotal]
      rest == [i \in rows |-> (newTotal * pool[i].weight) % oldTotal]
      left == newTotal - Total(base, rows)
      ahead(i) == {j \in rows : rest[j] > rest[i] \/ (rest[j] = rest[i] /\ j < i)}
  IN  [i \in rows |-> base[i] + (IF Cardinality(ahead(i)) < left THEN 1 ELSE 0)]

\* Seeded fault: the whole weight goes to the rows that pay nothing.
NeutralWeight_Whole(value, weight, t) == (2 * value * t[2] + t[1]) \div (2 * t[1])

\* The weight the rows that pay nothing need for a target per draw t, rounded.
NeutralWeight(value, weight, t) ==
  IF t[1] * weight >= value * t[2] THEN 0
  ELSE (2 * (value * t[2] - t[1] * weight) + t[1]) \div (2 * t[1])

\* The weights of the rows that can be drawn, for a target per draw t.
BalanceWeights(pool, t) ==
  LET live     == Live(pool)
      paying   == {i \in live : Value(pool[i]) > 0}
      neutral  == live \ paying
      weight   == WeightOf(pool, paying)
      value    == ValueOf(pool, paying)
      ev       == ExpectedValue(pool)
      asIs     == [i \in live |-> pool[i].weight]
      balanced == Allocate(pool, neutral, WeightOf(pool, neutral), NeutralWeight(value, weight, t))
      nothing  == [i \in live |-> IF i \in neutral THEN pool[i].weight
                                  ELSE IF neutral = {} /\ i = Min(live) THEN 1 ELSE 0]
  IN  IF live = {} \/ ev[1] * t[2] = t[1] * ev[2] THEN asIs
      ELSE IF paying = {} THEN asIs
      ELSE IF t[1] <= 0 THEN nothing
      ELSE IF neutral = {} THEN asIs    \* the code's "neutral" row belongs to no prize
      ELSE [i \in live |-> IF i \in paying THEN pool[i].weight ELSE balanced[i]]

BalancePool(rawPool, target, actual, draws) ==
  LET pool    == Normalize(rawPool)
      weights == BalanceWeights(pool, TargetPerDraw(target, actual, draws))
  IN  WithRows([i \in DOMAIN pool |->
                  IF i \in DOMAIN weights THEN [pool[i] EXCEPT !.weight = weights[i]]
                  ELSE pool[i]])

\* The row the random number n falls on; a pool without weight is a miss.
Roll(rawPool, n) ==
  LET pool  == Normalize(rawPool)
      total == WeightOf(pool, Live(pool))
      upTo(i) == WeightOf(pool, {j \in Live(pool) : j <= i})
      k     == Max({0, Min({n, total - 1})})
  IN  IF total <= 0 THEN Miss
      ELSE pool[Min({i \in Live(pool) : k < upTo(i)})]

(***************************************************************************)
(* A slot draw.  cfg has the fields target, actual, draws, pool,           *)
(* guarantees, jackpot, eligible.                                          *)
(***************************************************************************)

Win(amount) == [type |-> "win", dollars |-> amount, weight |-> 0, rank |-> "", adv |-> FALSE]

Guarantees(rules, tier, remaining, maxWon) ==
  Picked(rules, {i \in DOMAIN rules : LET r == rules[i] IN
                   /\ r.tier > 0 /\ r.tier = tier
                   /\ r.remaining > 0 => remaining = r.remaining
                   /\ r.below > 0 => maxWon < r.below
                   /\ r.prize > 0})

BlockedJackpot(cfg, p, tier, hasJackpot) ==
  /\ p.type = "win" /\ cfg.jackpot > 0 /\ p.dollars = cfg.jackpot
  /\ hasJackpot \/ tier \notin cfg.eligible

\* The pool a draw is made from: rebalanced when a target is configured.
DrawPool(cfg) ==
  IF cfg.target[1] > 0 THEN BalancePool(cfg.pool, cfg.target, cfg.actual, cfg.draws) ELSE cfg.pool

Unblocked(cfg, p, tier, hasJackpot) ==
  IF BlockedJackpot(cfg, p, tier, hasJackpot) THEN [Miss EXCEPT !.type = "retry"] ELSE p

Spin(cfg, tier, hasJackpot, used, total, maxWon, force, n) ==
  LET sure == Guarantees(cfg.guarantees, tier, total - used, maxWon)
  IN  IF force > 0 THEN Win(force)
      ELSE IF sure # <<>> THEN Win(sure[1].prize)
      ELSE Unblocked(cfg, Roll(DrawPool(cfg), n), tier, hasJackpot)

(***************************************************************************)
(* The fund behind the dynamic prizes.  fund has the fields enabled,       *)
(* contribution, share (a rate per rank) and economics (a sequence of      *)
(* [tier, revenue, cost]).                                                 *)
(***************************************************************************)

Funds == [enabled : BOOLEAN, contribution : Int, share : [Ranks -> Int],
          economics : Seq([tier : Int, revenue : Int, cost : Int])]

ClampRate(r) == Max({0, Min({100, r})})

NormalizeFund(fund) ==
  LET kept == Picked(fund.economics, {i \in DOMAIN fund.economics : fund.economics[i].tier > 0})
  IN  [enabled |-> fund.enabled, contribution |-> ClampRate(fund.contribution),
       share |-> [r \in Ranks |-> ClampRate(fund.share[r])],
       economics |-> [i \in DOMAIN kept |-> [tier    |-> kept[i].tier,
                                              revenue |-> Max({0, kept[i].revenue}),
                                              cost    |-> Max({0, kept[i].cost})]]]

\* Cents a card of the tier pays into the fund; only a profit is shared.
Contribution(fund, tier) ==
  LET all   == NormalizeFund(fund).economics
      known == Picked(all, {i \in DOMAIN all : all[i].tier = tier})
      net   == known[1].revenue - known[1].cost
  IN  IF ~fund.enabled \/ known = <<>> \/ net <= 0 THEN 0 ELSE net * ClampRate(fund.contribution)

\* Seeded fault: rounded to the nearest dollar.
PrizeAmount_Rounded(fund, balance, rank) ==
  IF ~fund.enabled \/ balance <= 0 THEN 0
  ELSE (balance * ClampRate(fund.share[rank]) + 5000) \div 10000

\* Whole dollars of a balance of cents that the prize of a rank is worth.
PrizeAmount(fund, balance, rank) ==
  IF ~fund.enabled \/ balance <= 0 THEN 0 ELSE (balance * ClampRate(fund.share[rank])) \div 10000

\* Prizes that are paid out of the fund.
IsPayoutPrize(p) == p.type = "win" /\ p.dollars > 0 /\ p.adv /\ p.rank \in Ranks

(***************************************************************************)
(* Properties                                                              *)
(***************************************************************************)

\* The rows a draw can pay.
Paid(pool) == Picked(pool, {i \in Live(pool) : Value(pool[i]) > 0})

\* A rebalanced pool is worth its target: with rows of both kinds, the weights of the
\* paying rows stay and the total weight is the one closest to value / target, or there
\* are no blanks left because the paying rows are not even worth the target; without a
\* target left (too much was paid so far) nothing can be won.
BalancedPaysTarget(pool, target, actual, draws) ==
  LET t      == TargetPerDraw(target, actual, draws)
      after  == BalancePool(pool, target, actual, draws)
      before == Paid(Normalize(pool))
      total  == WeightOf(after, Live(after))
      value  == ValueOf(before, DOMAIN before)
      off    == 2 * (total * t[1] - value * t[2])
      mixed  == before # <<>> /\ \E p \in {pool[i] : i \in DOMAIN pool} :
                                  p.weight > 0 /\ Value(Typed(p)) = 0
  IN  mixed =>
        IF t[1] <= 0 THEN ExpectedValue(after) = <<0, total>>
        ELSE /\ Paid(after) = before
             /\ \/ off \in -t[1]..t[1]
                \/ total = WeightOf(before, DOMAIN before) /\ off >= 0
=============================================================================
