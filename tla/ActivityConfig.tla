--------------------------- MODULE ActivityConfig ---------------------------
(***************************************************************************)
(* The configuration of the activity (activity.go): how a configuration    *)
(* typed in by staff is normalised, stored as JSON and read back, what it  *)
(* says about a card of some tier (which game, how many draws), which card *)
(* a login creates, and which prizes it offers for a balance of the fund.  *)
(*                                                                         *)
(* Operators only.  A list the code may find to be nil is Nil here.        *)
(* A date is a number; a date in text form is 0 when it cannot be read.    *)
(* Staff may write a game under several names, GameNames maps them.        *)
(***************************************************************************)
EXTENDS DrawRules

CONSTANTS
  Nil,         \* a list or map that is absent
  GameNames,   \* function: a written name -> the game, "" for an unknown name
  Default      \* the default configuration, a record

\* The games, in the order in which defaults list them.
Games == <<"slot", "scratch", "dragonboat">>

ScratchCells == 9
ScratchMines == 2
DefaultMaxReveals == 6

OrElse(list, default) == IF list = Nil THEN default ELSE list

(***************************************************************************)
(* Normalising the parts                                                   *)
(***************************************************************************)

\* A window's end: the text wins over the number, the number over the default.
Window(text, ts, default) == IF text > 0 THEN text ELSE IF ts > 0 THEN ts ELSE default

NormalSpinMap(map) ==
  LET kept == {d \in DOMAIN map : d > 0 /\ map[d] > 0} IN [d \in kept |-> map[d]]

\* The amounts of the advertised prizes name a rank that a row left out.
WithDefaultRank(p) ==
  LET rank == IF p.type # "win" \/ p.dollars <= 0 THEN ""
              ELSE IF p.dollars = Default.jackpot THEN "jackpot"
              ELSE IF p.dollars = Default.second THEN "second"
              ELSE IF p.dollars = Default.third THEN "third"
              ELSE ""
  IN  IF rank = "" THEN p
      ELSE [type |-> p.type, dollars |-> p.dollars, weight |-> p.weight,
            rank |-> IF p.rank = "" THEN rank ELSE p.rank, adv |-> TRUE]

\* Unlike Normalize, this drops every row that has no weight.
NormalPool(pool) ==
  LET kept == Picked(pool, Live(pool))
  IN  [i \in DOMAIN kept |-> WithDefaultRank(Typed(kept[i]))]

GameRows == [game : DOMAIN GameNames, target : Rationals, actual : Rationals]
RouteRows == [tier : Int, game : DOMAIN GameNames, draws : Int]
GuaranteeRows == [tier : Int, remaining : Int, below : Int, prize : Int]
MappingRows(titles) == [plan : Int, title : titles,
                        match : Texts \cup {"exact", "contains"}, dollars : Int]

\* What is written stands for a game or for none, and every game is written as itself.
ASSUME GamesHaveNames ==
  /\ GameNames \in [DOMAIN GameNames -> {Games[i] : i \in DOMAIN Games} \cup {""}]
  /\ \A i \in DOMAIN Games : Games[i] \in DOMAIN GameNames /\ GameNames[Games[i]] = Games[i]

\* What is absent is none of the lists there are.
ASSUME NilIsNothing ==
  /\ Nil \notin Seq(PrizeRows) /\ Nil \notin Seq(GameRows) /\ Nil \notin Seq(RouteRows)
  /\ Nil \notin Seq(GuaranteeRows) /\ Nil \notin Seq(Int)

\* The code's own configuration: normalising its pool changes nothing.
ASSUME DefaultIsNormal ==
  /\ Default.pool \in Seq(PrizeRows) /\ NormalPool(Default.pool) = Default.pool
  /\ Default.games \in Seq(GameRows) /\ Default.rewards \in Seq(Nat \ {0}) /\ Default.fund \in Funds

\* A game without a target aims at what the default pool is worth.
NormalGame(g) ==
  [game   |-> GameNames[g.game],
   target |-> IF g.target[1] <= 0 THEN ExpectedValue(Default.pool) ELSE g.target,
   actual |-> IF g.actual[1] < 0 THEN <<0, 1>> ELSE g.actual]

\* One entry per game, in the order of Games: the last one of a list.
NormalGames(all) ==
  LET of(game) == {i \in DOMAIN all : GameNames[all[i].game] = game}
      present  == Picked(Games, {i \in DOMAIN Games : of(Games[i]) # {}})
  IN  [k \in DOMAIN present |-> NormalGame(all[Max(of(present[k]))])]

NormalGuarantees(rules) ==
  LET kept == Picked(rules, {i \in DOMAIN rules : rules[i].tier > 0 /\ rules[i].prize > 0})
  IN  [i \in DOMAIN kept |->
         [kept[i] EXCEPT !.remaining = Max({0, @}), !.below = Max({0, @})]]

NormalMaxReveals(n) ==
  IF n <= 0 THEN DefaultMaxReveals ELSE Min({n, ScratchCells - ScratchMines})

\* One route per tier in ascending order, the last one given.
NormalRoutes(routes) ==
  LET valid == {i \in DOMAIN routes : routes[i].tier > 0 /\ GameNames[routes[i].game] # ""}
      tiers == Ascending({routes[i].tier : i \in valid})
      last(tier) == routes[Max({i \in valid : routes[i].tier = tier})]
  IN  [k \in DOMAIN tiers |-> [tier  |-> tiers[k],
                               game  |-> GameNames[last(tiers[k]).game],
                               draws |-> Max({0, last(tiers[k]).draws})]]

\* The older form of routes: scratch tiers, in the order given, without repetitions.
RoutesFromTiers(tiers) ==
  LET first == {i \in DOMAIN tiers : tiers[i] > 0 /\ \A j \in 1..(i - 1) : tiers[j] # tiers[i]}
      order == Picked(tiers, first)
  IN  [k \in DOMAIN order |-> [tier |-> order[k], game |-> "scratch", draws |-> 0]]

ScratchTiers(routes) ==
  LET all     == NormalRoutes(routes)
      scratch == Picked(all, {i \in DOMAIN all : all[i].game = "scratch"})
  IN  [i \in DOMAIN scratch |-> scratch[i].tier]

NormalMappings(mappings) ==
  LET kept == Picked(mappings, {i \in DOMAIN mappings : /\ mappings[i].dollars > 0
                                                        /\ mappings[i].plan > 0 \/ mappings[i].title # <<>>})
  IN  [i \in DOMAIN kept |->
         [kept[i] EXCEPT !.match = IF @ = "" /\ kept[i].title = <<>> THEN ""
                                   ELSE IF @ = "exact" THEN "exact" ELSE "contains"]]

PositiveOf(rewards) == Picked(rewards, {i \in DOMAIN rewards : rewards[i] > 0})

IsZeroFund(fund) ==
  /\ ~fund.enabled /\ fund.contribution = 0 /\ fund.economics = <<>>
  /\ \A r \in Ranks : fund.share[r] = 0

(***************************************************************************)
(* The whole configuration                                                 *)
(***************************************************************************)

GamesNamed(games, game) == Picked(games, {i \in DOMAIN games : games[i].game = game})

\* The target of the slot game stands for a target that was left out.
TargetOr(value, games, field) ==
  LET slot == GamesNamed(games, "slot")
  IN  IF value[1] > 0 THEN value ELSE IF slot = <<>> THEN <<0, 1>> ELSE slot[1][field]

\* What is given overrides the defaults; without any, two games aim at the pool's worth.
GamesOf(cfg, worth) ==
  NormalGames(IF cfg.games # Nil THEN Default.games \o cfg.games
              ELSE << [game |-> "slot", target |-> worth, actual |-> worth],
                      [game |-> "scratch", target |-> worth, actual |-> worth] >>)

RoutesOf(cfg) ==
  IF cfg.routes # Nil THEN NormalRoutes(cfg.routes)
  ELSE IF cfg.scratchTiers # Nil THEN RoutesFromTiers(cfg.scratchTiers)
  ELSE Default.routes

\* The configuration with its normalised pool, games and routes.
Complete(cfg, pool, games, routes) ==
  LET start == Window(cfg.startText, cfg.startTS, Default.start)
      end   == Window(cfg.endText, cfg.endTS, Default.end)
  IN  [disabled |-> cfg.disabled,
       startText |-> start, startTS |-> start, endText |-> end, endTS |-> end,
       target |-> TargetOr(cfg.target, games, "target"),
       actual |-> TargetOr(cfg.actual, games, "actual"),
       spinMap |-> IF cfg.spinMap = Nil THEN Default.spinMap ELSE NormalSpinMap(cfg.spinMap),
       games |-> games,
       pool |-> pool,
       guarantees |-> IF cfg.guarantees = Nil THEN Default.guarantees
                      ELSE NormalGuarantees(cfg.guarantees),
       jackpot |-> IF cfg.jackpot <= 0 THEN Default.jackpot ELSE cfg.jackpot,
       eligible |-> IF cfg.eligible = Nil THEN Default.eligible
                    ELSE {d \in cfg.eligible : d > 0},
       fund |-> NormalizeFund(IF IsZeroFund(cfg.fund) THEN Default.fund ELSE cfg.fund),
       rewards |-> PositiveOf(OrElse(cfg.rewards, Default.rewards)),
       maxReveals |-> NormalMaxReveals(cfg.maxReveals),
       routes |-> routes,
       scratchTiers |-> ScratchTiers(routes),
       mappings |-> NormalMappings(cfg.mappings)]

NormalizeConfig(cfg) ==
  LET pool == IF cfg.pool = Nil THEN Default.pool ELSE NormalPool(cfg.pool)
  IN  Complete(cfg, pool, GamesOf(cfg, ExpectedValue(pool)), RoutesOf(cfg))

\* A number of draws for each of some tiers; no map is what is absent.
IsSpinMap(map) ==
  DOMAIN map \in SUBSET Int /\ map \in [DOMAIN map -> Int] /\ NormalSpinMap(map) # Nil

\* A set of tiers; none is what is absent.
IsTierSet(tiers) == tiers \in SUBSET Int /\ {d \in tiers : d > 0} # Nil

\* The rest of the code's own configuration: normalising it changes nothing either.
ASSUME DefaultIsComplete ==
  /\ Default.start \in Int /\ Default.end \in Int /\ Default.jackpot \in Int
  /\ Default.routes \in Seq(RouteRows) /\ NormalRoutes(Default.routes) = Default.routes
  /\ Default.guarantees \in Seq(GuaranteeRows)
  /\ NormalGuarantees(Default.guarantees) = Default.guarantees
  /\ IsTierSet(Default.eligible) /\ \A d \in Default.eligible : d > 0
  /\ IsSpinMap(Default.spinMap) /\ NormalSpinMap(Default.spinMap) = Default.spinMap

\* What a configuration that is typed in may be; each part may be absent.
IsTyped(raw) ==
  /\ raw.startText \in Int /\ raw.startTS \in Int /\ raw.endText \in Int /\ raw.endTS \in Int
  /\ raw.target \in Rationals /\ raw.actual \in Rationals
  /\ raw.spinMap = Nil \/ IsSpinMap(raw.spinMap)
  /\ raw.games \in {Nil} \cup Seq(GameRows) /\ raw.pool \in {Nil} \cup Seq(PrizeRows)
  /\ raw.guarantees \in {Nil} \cup Seq(GuaranteeRows) /\ raw.jackpot \in Int
  /\ raw.eligible = Nil \/ IsTierSet(raw.eligible)
  /\ raw.fund \in Funds
  /\ raw.rewards \in {Nil} \cup Seq(Int) /\ raw.maxReveals \in Int
  /\ raw.routes \in {Nil} \cup Seq(RouteRows) /\ raw.scratchTiers \in {Nil} \cup Seq(Int)
  /\ raw.mappings \in Seq(MappingRows({raw.mappings[i].title : i \in DOMAIN raw.mappings}))

\* Older configurations counted draws per game: the counts go to the routes of the
\* game that have none.  legacy is a function from some of the games.
RoutesWith(legacy, routes) ==
  [i \in DOMAIN routes |-> IF routes[i].draws = 0 /\ routes[i].game \in DOMAIN legacy
                           THEN [routes[i] EXCEPT !.draws = legacy[routes[i].game]]
                           ELSE routes[i]]

WithLegacyDraws(cfg, legacy) ==
  LET with == RoutesWith(legacy, NormalRoutes(cfg.routes))
  IN  IF DOMAIN legacy = {} THEN cfg
      ELSE [cfg EXCEPT !.routes = with, !.scratchTiers = ScratchTiers(with)]

\* Reading a stored configuration, and storing one.
UnmarshalJSON(raw, legacy) ==
  NormalizeConfig(WithLegacyDraws(NormalizeConfig(raw),
    [g \in {x \in DOMAIN legacy : x # "" /\ legacy[x] > 0} |-> legacy[g]]))

\* Seeded fault: the older form is stored, scratch tiers instead of routes.
MarshalJSON_OldForm(cfg) == [NormalizeConfig(cfg) EXCEPT !.routes = Nil]

MarshalJSON(cfg) == NormalizeConfig(cfg)

(***************************************************************************)
(* What a configuration says about a tier                                  *)
(***************************************************************************)

RouteOf(cfg, tier) == Picked(cfg.routes, {i \in DOMAIN cfg.routes : cfg.routes[i].tier = tier})

SpinsOf(cfg, tier) == IF tier \in DOMAIN cfg.spinMap THEN cfg.spinMap[tier] ELSE 0

GameForTier(raw, tier) ==
  LET route == RouteOf(NormalizeConfig(raw), tier)
  IN  IF route = <<>> THEN "slot" ELSE route[1].game

TierConfigured(raw, tier) ==
  LET cfg == NormalizeConfig(raw) IN SpinsOf(cfg, tier) > 0 \/ RouteOf(cfg, tier) # <<>>

\* The draws of a configured tier, given its route and its number of spins.
DrawsOn(route, spins) ==
  IF route = <<>> THEN spins
  ELSE IF route[1].draws > 0 THEN route[1].draws
  ELSE IF route[1].game = "slot" /\ spins > 0 THEN spins
  ELSE 1

DrawCountForTier(raw, tier) ==
  LET cfg == NormalizeConfig(raw)
  IN  IF TierConfigured(cfg, tier) THEN DrawsOn(RouteOf(cfg, tier), SpinsOf(cfg, tier)) ELSE 0

GameConfigFor(raw, game) ==
  LET known == GamesNamed(NormalizeConfig(raw).games, game)
  IN  IF known = <<>> THEN [game |-> game, target |-> <<0, 1>>, actual |-> <<0, 1>>]
      ELSE known[1]

(***************************************************************************)
(* Planning the card of a login                                            *)
(***************************************************************************)

\* quota / unit, rounded to the nearest whole number.
DollarsTier(quota, unit) == IF unit <= 0 THEN 0 ELSE (2 * quota + unit) \div (2 * unit)

\* token: [status, test, quota, created]; test is the tier a test card's name says, 0
\* for other names; purchase is the shop's date of sale, 0 for none.
PlanCard(token, purchase, cfg, tier, draws) ==
  LET inWindow == token.created >= cfg.startTS /\ token.created <= cfg.endTS
      sold     == purchase > 0 /\ purchase >= cfg.startText /\ purchase <= cfg.endText
      reject(why) == [ok |-> FALSE, why |-> why]
  IN  IF token.status # 1 THEN reject("disabled")
      ELSE IF token.test = 0 /\ ~inWindow /\ ~sold THEN reject("outside_window")
      ELSE IF tier = 0 \/ draws <= 0 THEN reject("ineligible")
      ELSE [ok |-> TRUE, tier |-> tier, draws |-> draws,
                     game |-> GameForTier(cfg, tier),
                     contribution |-> Contribution(cfg.fund, tier)]

PlanLoginCard(token, purchase, raw, unit) ==
  LET cfg  == NormalizeConfig(raw)
      tier == IF token.test > 0 THEN token.test ELSE DollarsTier(token.quota, unit)
  IN  PlanCard(token, purchase, cfg, tier, DrawCountForTier(cfg, tier))

(***************************************************************************)
(* The prizes a configuration offers for a balance of the fund             *)
(***************************************************************************)

Awarded(p, fund, balance) ==
  LET amount == PrizeAmount(fund, balance, p.rank)
  IN  IF p.rank \notin Ranks THEN p
      ELSE [type |-> p.type, dollars |-> amount, weight |-> IF amount <= 0 THEN 0 ELSE p.weight,
            rank |-> p.rank, adv |-> p.adv]

DynamicPool(cfg, balance) ==
  IF ~cfg.fund.enabled THEN cfg.pool
  ELSE NormalPool([i \in DOMAIN cfg.pool |-> Awarded(cfg.pool[i], cfg.fund, balance)])

PoolWithDynamicAwards(raw, balance) == DynamicPool(NormalizeConfig(raw), balance)

\* What a slot draw works with; without a dynamic fund the balance is not looked at.
SlotConfig(cfg, game, pool, draws) ==
  LET top == Picked(pool, {i \in DOMAIN pool : pool[i].rank = "jackpot"})
  IN  [target |-> game.target, actual |-> game.actual,
       draws  |-> draws, pool   |-> pool, guarantees |-> cfg.guarantees,
       jackpot |-> IF cfg.fund.enabled /\ top # <<>> /\ top[1].dollars > 0
                   THEN top[1].dollars ELSE cfg.jackpot,
       eligible |-> cfg.eligible]

SpinConfig(raw, tier, total, balance) ==
  LET cfg == NormalizeConfig(raw)
  IN  SlotConfig(cfg, GameConfigFor(cfg, "slot"), PoolWithDynamicAwards(cfg, balance),
        IF total > 0 \/ cfg.fund.enabled THEN total ELSE DrawCountForTier(cfg, tier))

\* One reward per safe cell: the configured ones if their number fits, else the
\* defaults, else 1, 2, 3...
FixedProfile(rewards, steps) ==
  LET clean == PositiveOf(rewards)
  IN  IF Len(clean) = steps THEN clean
      ELSE IF Len(Default.rewards) >= steps THEN SubSeq(Default.rewards, 1, steps)
      ELSE [i \in 1..steps |-> i]

\* The profile scaled to a full prize, never falling from one cell to the next.
ScaledProfile(rewards, full) ==
  LET cap == Max(Range(rewards))
      share(i) == (2 * rewards[i] * full + cap) \div (2 * cap)
      n == Len(rewards)
  IN  [i \in 1..n |-> IF i = n THEN full
                      ELSE Min({full, Max({1} \cup {share(j) : j \in 1..i})})]

\* A scratch card pays at most a tenth of the fund, and at most its configured top.
Affordable(base, enabled, balance) ==
  LET full == Min({(2 * Max({0, balance}) + 1000) \div 2000, Max(Range(base))})
  IN  IF ~enabled THEN base
      ELSE IF full <= 0 THEN [i \in DOMAIN base |-> 0]
      ELSE ScaledProfile(base, full)

ScratchRewards(raw, balance) ==
  LET cfg == NormalizeConfig(raw)
  IN  Affordable(FixedProfile(cfg.rewards, cfg.maxReveals), cfg.fund.enabled, balance)

(***************************************************************************)
(* Properties                                                              *)
(***************************************************************************)

ReadsTheSame(raw, legacy, cfg, again, tiers, tokens) ==
  /\ again = cfg
  /\ \A tier \in tiers :
       /\ TierConfigured(cfg, tier) <=> DrawCountForTier(cfg, tier) > 0
       /\ GameForTier(raw, tier) = GameForTier(again, tier)
       /\ DOMAIN legacy = {} => DrawCountForTier(raw, tier) = DrawCountForTier(again, tier)
  /\ \A token \in tokens : LET plan == PlanLoginCard(token, 0, cfg, 1)
                          IN  plan.ok => plan.draws > 0 /\ plan.game \in Range(Games)

\* A configuration is stored and read back as it was, every tier means the same before
\* and after, and a tier the configuration knows has a draw: a card that a login accepts
\* is never one without rounds.
ConfigSurvives(raw, legacy, tiers, tokens) ==
  LET cfg == UnmarshalJSON(raw, legacy)
  IN  ReadsTheSame(raw, legacy, cfg, UnmarshalJSON(MarshalJSON(cfg), << >>), tiers, tokens)

Covered(prize, rewards, balance) ==
  /\ IsPayoutPrize(prize) => 100 * prize.dollars <= balance
  /\ \A i \in DOMAIN rewards :
       /\ 100 * rewards[i] <= Max({0, balance})
       /\ i > 1 => rewards[i - 1] <= rewards[i]

\* Whatever is configured, a prize paid out of the fund is no larger than its balance:
\* the prizes of a slot draw and the rewards of a scratch card, which never fall from
\* one cell to the next.
PrizesAreCovered(raw, tier, balance, n) ==
  NormalizeConfig(raw).fund.enabled =>
    Covered(Spin(SpinConfig(raw, tier, 2, balance), tier, FALSE, 0, 2, 0, 0, n),
            ScratchRewards(raw, balance), balance)

=============================================================================
