-------------------------------- MODULE Rules --------------------------------
(***************************************************************************)
(* What the rules of the system must give, for every input.  A behaviour   *)
(* is one case: an area and an input of it are chosen, and the invariants  *)
(* say of the input what the rules of its area must give.                  *)
(*                                                                         *)
(* The inputs are constants: MCRules has small sets of them for TLC, and   *)
(* RulesProofs proves what is assumed here to be enough, for all others.   *)
(***************************************************************************)
EXTENDS ActivityConfig, DragonScene, SaleSchedule, MergeRules, TokenService, ModelRules, SiteRules

CONSTANTS
  \* The inputs of each area, records whose field area names it.
  DrawCases, ConfigCases, PrizeCases, TitleCases, SceneCases, SaleCases, MergeCases,
  TraceCases, TokenCases, SiteCases, StatusCases,
  Tiers,     \* tiers a configuration is asked about
  Tokens,    \* tokens that log in
  Own,       \* the token that is made
  Alphabet,  \* the order of the names of groups
  Signs,     \* the letters of a slug
  Unit,      \* the amount a card counts in
  \* Titles of plans (LoginRules)
  PlanNames

VARIABLE case

Login == INSTANCE LoginRules WITH Templates <- PlanNames

Cases == DrawCases \cup ConfigCases \cup PrizeCases \cup TitleCases \cup SceneCases \cup SaleCases
         \cup MergeCases \cup TraceCases \cup TokenCases \cup SiteCases \cup StatusCases

(***************************************************************************)
(* What the code passes to the rules                                       *)
(***************************************************************************)

ASSUME NamedCases == \A c \in Cases : c.area # "none"

\* Pools, what they aim at and what was paid; amounts are numbers.
ASSUME DrawInputs ==
  \A c \in Cases : c.area = "draw" =>
    c.pool \in Seq(PrizeRows) /\ c.target \in Rationals /\ c.actual \in Rationals /\ c.draws \in Int

\* What staff may have typed in of a configuration's prizes; each part may be absent.
ASSUME PrizeInputs ==
  \A c \in Cases : c.area = "prize" =>
    /\ c.raw.pool \in {Nil} \cup Seq(PrizeRows) /\ c.raw.games \in {Nil} \cup Seq(GameRows)
    /\ c.raw.fund \in Funds /\ c.raw.rewards \in {Nil} \cup Seq(Int) /\ c.raw.maxReveals \in Int
    /\ c.balance \in Int /\ c.n \in Int

\* Lists of sites: what an administrator posts, and what was posted before.
ASSUME SiteInputs ==
  \A c \in Cases : c.area = "sites" => AreSites(c.posted) /\ AreSites(c.before)

\* Configurations that are typed in, and the draws an older form counted per game.
ASSUME ConfigInputs ==
  \A c \in Cases : c.area = "config" => IsTyped(c.raw) /\ c.legacy \in [DOMAIN c.legacy -> Int]

\* A merge: what a request says, and cards as the upstream answers them.
ASSUME MergeInputs ==
  /\ \A c \in Cases : c.area = "merge" => c.request \in Request /\ c.cards \in Seq(Card)
  /\ \A c \in Cases : c.area = "paste" =>
       c.request \in Request /\ c.parts \in Seq(Nat) /\ Answered(c.parts, c.upstream, c.fetched)

\* Records of merges, each the keys it is stored under.
ASSUME TraceInputs ==
  \A c \in Cases : c.area = "trace" => c.records \in Seq(SUBSET Nat) /\ c.max \in Nat

\* The upstream tells the truth about the token it made.
ASSUME TokenInputs ==
  \A c \in Cases : c.area = "token" =>
    /\ TellsTruth(Own, c.name, c.up)
    /\ ~c.up.create.failed => DOMAIN c.up.create.value \in SUBSET Nat
    /\ ~c.up.search.failed => DOMAIN c.up.search.value \in SUBSET Nat

ASSUME NameInputs ==
  \A c \in Cases : c.area = "name" => c.slug \in Seq(Signs) /\ c.total \in 1..MaxTarget

\* The objects of a scene have names of their own.
ASSUME SceneInputs ==
  \A c \in Cases : c.area = "scene" =>
    WellLaid(c.layout) /\ c.total \in Nat /\ c.targets \in Seq(Points)

ASSUME ScheduleInputs == \A c \in Cases : c.area = "schedule" => c.posted \in Schedules

ASSUME StatusInputs ==
  \A c \in Cases : c.area = "status" => LinesAnswer(c.lines) /\ c.tests \in Seq(Range(c.tests))

(***************************************************************************)
(* Draws and the configuration                                             *)
(***************************************************************************)

\* A rebalanced pool is worth its target (prizepoolcore, probabilitycore).
PaysTarget ==
  case.area = "draw" => BalancedPaysTarget(case.pool, case.target, case.actual, case.draws)

\* A configuration survives being stored, and offers no card without rounds (activity).
ConfigStays == case.area = "config" => ConfigSurvives(case.raw, case.legacy, Tiers, Tokens)

\* No prize paid out of the fund exceeds its balance (poolfundcore, activity, spincore).
FundCovers ==
  case.area = "prize" => PrizesAreCovered(case.raw, case.tier, case.balance, case.n)

(***************************************************************************)
(* Titles of subscriptions                                                 *)
(***************************************************************************)

\* A title that says n times.
Says(n) == Login!Digits(n) \o <<Login!Times>>

\* The card a subscription is given at login: its tier, 0 if it gets none.
TierOn(card) == IF card.ok THEN card.tier ELSE 0

TierGiven(sub, name, n, cfg) ==
  IF Login!Qualifies(sub, 1, {9}, cfg)
  THEN TierOn(PlanLoginCard(Login!AsToken(sub, name, Says(n), cfg, Unit), 0, cfg, Unit)) ELSE 0

TierOf(sub, n, raw) == TierGiven(sub, case.user, n, UnmarshalJSON(raw, <<>>))

\* The tier is the one the user's name, the mappings that apply, or the title, say.
SoldTo(tier, apply) ==
  LET test == Login!ActTestDollarsFromName(case.user)
  IN  tier # 0 => /\ tier = IF test > 0 THEN test
                            ELSE IF apply = <<>> THEN case.n ELSE apply[1].dollars
                  /\ case.sub.user = 1 /\ case.sub.plan = 4 /\ case.sub.start \in 10..20
                  /\ case.sub.active /\ case.sub.total > 0

\* A subscription gives the card its plan was sold as: the tier staff mapped the plan to,
\* else the one its title says, whatever amount is left on it; what is mapped for other
\* plans or titles does not matter; prizes, other users' and ended subscriptions and
\* those of another time give none.  A user whose name says so is given the tier of a test
\* instead, for any such subscription (login_subscription.go, login_plan.go).
PlannedAsSold ==
  case.area = "sub" =>
    LET apply == SelectSeq(case.raw.mappings, LAMBDA m :
                   m.dollars > 0 /\ (m.plan = 4 \/ (m.plan = 0 /\ m.match # "exact")))
    IN  /\ SoldTo(TierOf(case.sub, case.n, case.raw), apply)
        /\ TierOf(case.sub, case.n, [case.raw EXCEPT !.mappings = apply])
             = TierOf(case.sub, case.n, case.raw)

\* A plan whose title says a number of draws gives as many, and a subscription to it is
\* given the card of that tier, unless its user plays a test (login_plan.go).
TitlesAreRead ==
  /\ case.area = "title" => Login!TitleSaysHowMany(case.n, case.spelled, case.card)
  /\ PlannedAsSold

(***************************************************************************)
(* The dragon-boat scene; schedules and names of cards on sale             *)
(***************************************************************************)

\* However a card is cast, no zongzi is caught twice or through an obstacle (dragonboatcore).
ZongziCaughtOnce ==
  case.area = "scene" => EachZongziOnce(case.layout, case.total, case.targets)

\* A schedule that was accepted restocks what it says (salecore, sale_card_schedule_store).
SchedulesWork == case.area = "schedule" => SavedScheduleWorks(case.posted, case.minute)

\* The names of a batch of cards are accepted upstream and differ (salecore).
NamesFit == case.area = "name" => BatchNamesFit(case.slug, case.total)

(***************************************************************************)
(* Merges, traces, new tokens, sites and models                            *)
(***************************************************************************)

\* Nobody but an administrator makes quota or a longer period by merging, and the cards
\* whose keys were pasted count once each, all of them, with what is on them now
\* (combinecore, merge.go).
MergesAreFair ==
  /\ case.area = "merge" => MergeIsFair(case.request, case.cards, Unit, Alphabet)
  /\ case.area = "paste" => PastedCountOnce(case.request, case.parts, case.upstream,
                                            case.fetched, Unit, Alphabet)

\* The merges connected with a card are found, and no others (trace_read.go).
TracesAreFound == case.area = "trace" => TraceFindsRelated(case.records, case.keys, case.max)

\* A new token is reported with its own whole key or not at all (tokens).
CreatedKeysAreOwn == case.area = "token" => CreatedKeyIsOwn(Own, case.name, case.up)

\* A list of sites that was accepted boots as it was saved, every line is called with the
\* token of its own site, and all modules agree on the site to call.
SitesWork == case.area = "sites" => SavedSitesWork(case.posted, case.before)

\* The table of models adds up, before and after manual tests (modelcore).
TableAddsUp == case.area = "status" => StatusAddsUp(case.lines, case.tests)

(***************************************************************************)
(* The checks of one subject, together                                     *)
(***************************************************************************)

\* What is drawn, paid and caught is worth what the configuration says, and the fund has it.
GamesPayFairly == PaysTarget /\ FundCovers /\ ZongziCaughtOnce

\* What an administrator saves of the activity, the sites and the schedule is what runs, now
\* and after a restart; the shop's part is SiteConfig's (activity.go,
\* admin_config_store_normalize.go, sale_card_schedule_store.go).
SavedConfigWorks == ConfigStays /\ SitesWork /\ SchedulesWork

\* A card is found by its key, its name and its merges, and told from all others
\* (tokens, salecore, trace_read.go).
TokensAreFound == CreatedKeysAreOwn /\ NamesFit /\ TracesAreFound

(***************************************************************************)
(* The cases                                                               *)
(***************************************************************************)

Init == case = [area |-> "none"]

Draws   == case.area = "none" /\ case' \in DrawCases
Configs == case.area = "none" /\ case' \in ConfigCases
Prizes  == case.area = "none" /\ case' \in PrizeCases
Titles  == case.area = "none" /\ case' \in TitleCases
Scenes  == case.area = "none" /\ case' \in SceneCases
Sales   == case.area = "none" /\ case' \in SaleCases
Merges  == case.area = "none" /\ case' \in MergeCases
Traces  == case.area = "none" /\ case' \in TraceCases
MadeKeys == case.area = "none" /\ case' \in TokenCases
SiteLists == case.area = "none" /\ case' \in SiteCases
Tables   == case.area = "none" /\ case' \in StatusCases

Next == Draws \/ Configs \/ Prizes \/ Titles \/ Scenes \/ Sales \/ Merges \/ Traces \/ MadeKeys
        \/ SiteLists \/ Tables

Spec == Init /\ [][Next]_case
=============================================================================
