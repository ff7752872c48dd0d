------------------------------ MODULE MCRules ------------------------------
(***************************************************************************)
(* Small sets of inputs of the rules, for TLC.                             *)
(***************************************************************************)
EXTENDS Rules, SequencesExt

(***************************************************************************)
(* Draws and the configuration                                             *)
(***************************************************************************)

Prize(type, dollars, weight, rank, adv) ==
  [type |-> type, dollars |-> dollars, weight |-> weight, rank |-> rank, adv |-> adv]

\* The configuration of the code, with smaller amounts and weights.
MCDefault ==
  [pool |-> <<Prize("miss", 0, 2, "", FALSE), Prize("retry", 0, 1, "", FALSE),
              Prize("win", 1, 3, "", FALSE), Prize("win", 3, 2, "third", TRUE),
              Prize("win", 9, 1, "jackpot", TRUE)>>,
   jackpot |-> 9, second |-> 5, third |-> 3,
   games |-> [i \in 1..3 |-> [game |-> <<"slot", "scratch", "dragonboat">>[i],
                              target |-> <<18, 9>>, actual |-> <<18, 9>>]],
   spinMap |-> (1 :> 1) @@ (5 :> 3),
   routes |-> <<[tier |-> 2, game |-> "scratch", draws |-> 1]>>,
   start |-> 10, end |-> 20,
   guarantees |-> <<[tier |-> 5, remaining |-> 1, below |-> 3, prize |-> 2]>>,
   eligible |-> {5},
   fund |-> [enabled |-> FALSE, contribution |-> 30, economics |-> <<>>,
             share |-> [jackpot |-> 50, second |-> 30, third |-> 20]],
   rewards |-> <<1, 2, 3, 4, 6, 8>>]

MCGameNames == [n \in {"slot", "scratch", "dragonboat", "dragon-boat", "", "?"} |->
            CASE n = "dragon-boat" -> "dragonboat" [] n = "?" -> "" [] OTHER -> n]

\* Pools of up to three rows, with the values paid so far and the draws of a card.
Rows == {Prize("miss", 0, 2, "", FALSE), Prize("", 1, 1, "", FALSE), Prize("win", 4, 3, "", FALSE),
         Prize("retry", 5, 1, "", FALSE), Prize("win", 9, 0, "jackpot", TRUE)}
MCDrawCases ==
  [area : {"draw"}, pool : UNION {[1..n -> Rows] : n \in 0..3},
   target : {<<0, 1>>, <<1, 2>>, <<3, 1>>, <<7, 1>>}, actual : {<<1, 1>>, <<5, 2>>, <<3, 1>>},
   draws : {0, 2}]

\* What a raw configuration may say; the rest is left out.
Blank == [disabled |-> FALSE, startText |-> 0, startTS |-> 0, endText |-> 0, endTS |-> 0,
          target |-> <<0, 1>>, actual |-> <<0, 1>>, spinMap |-> Nil, games |-> Nil, pool |-> Nil,
          guarantees |-> Nil, jackpot |-> 0, eligible |-> Nil,
          fund |-> [enabled |-> FALSE, contribution |-> 0, economics |-> <<>>,
                    share |-> [jackpot |-> 0, second |-> 0, third |-> 0]],
          rewards |-> Nil, maxReveals |-> 0, routes |-> Nil, scratchTiers |-> Nil,
          mappings |-> <<>>]

Fund(share, economics) == [enabled |-> TRUE, contribution |-> 130, economics |-> economics,
                           share |-> [jackpot |-> share, second |-> 40, third |-> -1]]
RawGames == {Nil, <<>>, <<[game |-> "dragon-boat", target |-> <<-1, 1>>, actual |-> <<2, 1>>],
                          [game |-> "?", target |-> <<1, 1>>, actual |-> <<1, 1>>],
                          [game |-> "slot", target |-> <<3, 2>>, actual |-> <<-2, 1>>]>>}
RawRoutes == {Nil, <<>>, <<[tier |-> 5, game |-> "dragon-boat", draws |-> 0],
                           [tier |-> 2, game |-> "?", draws |-> 2],
                           [tier |-> 1, game |-> "slot", draws |-> -1],
                           [tier |-> 5, game |-> "scratch", draws |-> 4]>>}
RawPools == {Nil, <<>>, <<Prize("", 5, 2, "", FALSE), Prize("miss", 3, 1, "", FALSE),
                          Prize("win", 9, 1, "", FALSE), Prize("win", 2, 0, "second", TRUE)>>}
RawFunds == {Blank.fund, Fund(50, <<>>),
             Fund(150, <<[tier |-> 1, revenue |-> 3, cost |-> 1], [tier |-> 0, revenue |-> 1, cost |-> 0],
                         [tier |-> 5, revenue |-> 2, cost |-> -1]>>)}
RawMaps == {Nil, <<>>, (1 :> 2) @@ (5 :> 0) @@ (-1 :> 1) @@ (3 :> 1)}
RawLegacy == {<<>>, [slot |-> 2, scratch |-> 0, dragonboat |-> 3]}

MCConfigCases ==
  {[area |-> "config", legacy |-> legacy,
    raw |-> [Blank EXCEPT !.games = games, !.routes = routes, !.scratchTiers = tiers,
                          !.pool = pool, !.fund = fund, !.spinMap = map,
                          !.endTS = 15, !.guarantees = <<[tier |-> 5, remaining |-> -1,
                                                          below |-> 0, prize |-> 4]>>,
                          !.eligible = {1, 0}]] :
    games \in RawGames, routes \in RawRoutes, tiers \in {Nil, <<3, 0, 1, 3>>}, pool \in RawPools,
    fund \in {Blank.fund, Fund(150, <<>>)}, map \in RawMaps, legacy \in RawLegacy}

MCTiers == 0..5
MCTokens == [status : {0, 1}, test : {0, 2}, quota : {0, 1, 5}, created : {9, 12, 16}]

MCPrizeCases ==
  {[area |-> "prize", balance |-> balance, n |-> n, tier |-> tier,
    raw |-> [Blank EXCEPT !.pool = pool, !.fund = fund, !.maxReveals = reveals, !.games = games]] :
    pool \in RawPools, fund \in RawFunds, games \in RawGames, reveals \in {0, 3, 9},
    balance \in {-100, 0, 90, 360, 499, 500, 2350, 30000}, n \in {-1, 0, 2, 5, 9}, tier \in {1, 5}}

(***************************************************************************)
(* Titles of subscriptions                                                 *)
(***************************************************************************)

Ch(kind, value) == [kind |-> kind, value |-> value]
Monthly == Ch("other", 1)

\* The names of the shop's plans, and the number that ends their identifiers.
MCPlanNames ==
  <<[dollars |-> 55, names |-> <<<<Monthly, Ch("digit", 5), Ch("digit", 5), Ch("times", 0), Monthly>>>>],
    [dollars |-> 100, names |-> <<<<Monthly, Ch("numeral", 1), Ch("unit", 100), Ch("times", 0), Ch("card", 0)>>>>],
    [dollars |-> 150, names |-> <<<<Monthly, Ch("numeral", 1), Ch("unit", 100), Ch("numeral", 5),
                                    Ch("unit", 10), Ch("times", 0), Ch("card", 0)>>>>],
    [dollars |-> 1000, names |-> <<<<Monthly, Ch("numeral", 1), Ch("unit", 1000), Ch("times", 0), Ch("card", 0)>>>>]>>

Spelled == [area : {"title"}, n : (1..1200) \cup {1999, 2050, 3007, 5500, 9010, 9999},
               spelled : BOOLEAN, card : BOOLEAN]

\* Subscriptions of user 1 to plan 4 whose title says n times; plan 9 is a prize.
Subs == [user : {1, 2}, plan : {4, 9}, active : BOOLEAN, start : {9, 12}, total : {0, 3, 30}]
Mapping(plan, title, match, dollars) ==
  [plan |-> plan, title |-> title, match |-> match, dollars |-> dollars]
Mappings(n) == {Mapping(4, <<>>, "", 1), Mapping(7, Says(n), "contains", 1),
                Mapping(0, Says(n) \o <<Monthly>>, "exact", 1), Mapping(0, Says(n), "=", 5),
                Mapping(-1, <<>>, "", 1), Mapping(4, <<>>, "", 0)}
\* A name without a number or test, one of a test of tier 2, and one that says no test.
Users == [dollars : {0}, words : {{}}] \cup [dollars : {2}, words : {{"test"}, {"x"}}]
MCTitleCases == Spelled \cup
  UNION {[area : {"sub"}, n : {n}, sub : Subs, user : Users,
          raw : {[Blank EXCEPT !.mappings = m] : m \in SeqOf(Mappings(n), 2)}] : n \in {2, 5, 15}}

(***************************************************************************)
(* The dragon-boat scene                                                   *)
(***************************************************************************)

At(id, x, y, r) == [id |-> id, x |-> x, y |-> y, r |-> r]
Obstacles == {At("o1", 50, 40, 4), At("o2", 61, 40, 5), At("o3", 50, 75, 6)}
Zongzi == {At("z1", 50, 60, 5), At("z2", 50, 80, 6), At("z3", 72, 60, 5)}
Targets == {[x |-> 50, y |-> 90], [x |-> 72, y |-> 60], [x |-> 75, y |-> 130], [x |-> 50, y |-> 18]}

MCSceneCases ==
  {[area |-> "scene", total |-> total, targets |-> targets,
    layout |-> [obstacles |-> SetToSeq(o), zongzi |-> SetToSeq(z)]] :
     o \in SUBSET Obstacles, z \in SUBSET Zongzi, total \in {0, 2, 4},
     targets \in UNION {[1..n -> Targets] : n \in 1..3}}

(***************************************************************************)
(* Posts and names of cards on sale                                        *)
(***************************************************************************)

MCGroups == <<[group |-> "day", time |-> 540], [group |-> "month", time |-> 570]>>
MCTemplates == [p \in {"d55", "m100", "m300"} |-> IF p = "d55" THEN "day" ELSE "month"]
MCPlanOrder == <<"m300", "d55", "m100">>
MCZones == {"Asia/Shanghai", "UTC"}

Job(plan, target) == [plan |-> plan, target |-> target, enabled |-> TRUE]
JobLists == {<<>>, <<Job("d55", 3)>>, <<Job("m100", 2000), Job("m300", 0)>>,
             <<Job("m300", 1), Job("m300", 2)>>, <<Job("m100", 2001)>>, <<Job("x", 1)>>}
MCSlots == [group : {"day", "month", "?"}, time : {-1, 540, 1440}, enabled : BOOLEAN, jobs : JobLists]

Posts ==
  {[area |-> "schedule", minute |-> minute,
    posted |-> [enabled |-> TRUE, zone |-> zone, slots |-> slots]] :
     zone \in {"", "UTC", "Mars"}, slots \in {<<>>} \cup [1..1 -> MCSlots], minute \in {540, 570}}
  \cup
  {[area |-> "schedule", minute |-> 540,
    posted |-> [enabled |-> TRUE, zone |-> "", slots |-> <<a, b>>]] :
     a \in {s \in MCSlots : s.enabled}, b \in {s \in MCSlots : s.time = 540 /\ s.enabled}}

MCSigns == {"x", "-", "_"}
Slugs ==
  {[area |-> "name", total |-> total,
    slug |-> a \o [i \in 1..n |-> IF i = 9 THEN sign ELSE "x"] \o b] :
     a, b \in UNION {[1..k -> MCSigns] : k \in 0..2}, n \in {0, 1, 7, 8, 9, 10, 11, 14},
     sign \in MCSigns, total \in {1, 2}}
  \cup {[area |-> "name", total |-> 101, slug |-> [i \in 1..12 |-> "x"]]}

MCSaleCases == Posts \cup Slugs

(***************************************************************************)
(* Merges, traces and new tokens                                           *)
(***************************************************************************)

MCard(id, remain, used, unit, group, status) ==
  [id |-> id, key |-> id, remain |-> remain, used |-> used, unit |-> unit, group |-> group,
   status |-> status]
Cards == {MCard(1, 2, 0, 3, "a", 1), MCard(2, 3, 0, 3, "", 1), MCard(3, 2, 1, 3, "b", 1),
          MCard(4, 2, 0, 8, "b", 1), MCard(5, 0, 0, 9, "a", 1), MCard(6, 4, 0, 3, "a", 2),
          MCard(0, 4, 0, 3, "a", 1)}
Requests == [role : {"guest", "user", "admin"}, unit : {3, 8, 9, 1}, quota : {<<>>, <<9>>},
             name : {<<>>, <<1>>}, custom : BOOLEAN]
Merged ==
  [area : {"merge"}, request : Requests, cards : UNION {[1..n -> Cards] : n \in 0..2}]
  \cup [area : {"merge"}, request : {r \in Requests : r.unit \in {8, 9} /\ r.name = <<>>},
        cards : [1..3 -> Cards]]

\* Pasted keys: key k finds card k, unless it finds none or another; a card may have
\* changed when it is fetched.
Own1 == MCard(1, 2, 0, 3, "a", 1)
Upstreams == LET all == [k \in 1..3 |-> <<MCard(k, 2, 0, 3, "a", 1)>>]
             IN  {all, [all EXCEPT ![2] = <<>>], [all EXCEPT ![3] = <<Own1>>]}
Pasted ==
  [area : {"paste"}, parts : SeqOf(0..3, 3), upstream : Upstreams,
   request : {[role |-> role, unit |-> 8, quota |-> <<>>, name |-> <<>>, custom |-> FALSE] :
                role \in {"guest", "user", "admin"}},
   fetched : {[k \in 1..3 |-> IF k = 1 THEN c ELSE MCard(k, 2, 0, 3, "a", 1)] :
                c \in {Own1, [Own1 EXCEPT !.remain = 5], [Own1 EXCEPT !.used = 1],
                        [Own1 EXCEPT !.key = 9], [Own1 EXCEPT !.status = 0],
                        [Own1 EXCEPT !.status = 2]}}]

MCMergeCases == Merged \cup Pasted

MCAlphabet == [g \in {"a", "b", "mix"} |-> CASE g = "a" -> 1 [] g = "b" -> 2 [] OTHER -> 3]

MCTraceCases ==
  [area : {"trace"}, records : UNION {[1..n -> kSubset(2, 1..5)] : n \in 0..4},
   keys : {{1}, {1, 5}}, max : {1, 3, 7}]

Tok(id, name, bare, mask) == [id |-> id, name |-> name, key |-> [bare |-> bare, mask |-> mask]]
MCOwn == Tok(7, "n", "k7", FALSE)
Views == {MCOwn, Tok(7, "n", "k7", TRUE), Tok(7, "n", "", FALSE), Tok(0, "n", "k7", FALSE),
          Tok(7, "", "", FALSE)}
Whole == [bare |-> "k7", mask |-> FALSE]
Answers ==
  [create : {Failed, Answer(<<>>), Answer(<<Tok(0, "", "", FALSE), MCOwn>>)}
            \cup {Answer(<<v>>) : v \in Views},
   search : {Failed, Answer(<<>>)} \cup
            {Answer(<<Tok(8, "n-1", "k8", FALSE), v>>) : v \in Views},
   batch : {Failed, Answer(7 :> Whole), Answer((7 :> EmptyKey) @@ (8 :> [Whole EXCEPT !.bare = "k8"]))},
   single : {Failed, Answer(Whole), Answer(EmptyKey)},
   detail : {Failed} \cup {Answer(v) : v \in Views}]
MCTokenCases == [area : {"token"}, name : {"", "n"}, up : Answers]

(***************************************************************************)
(* The list of sites                                                       *)
(***************************************************************************)

MCBaseURL == [u \in {"u1", "u1/", "u2", "u3", "lan", "ftp", ""} |->
                CASE u = "u1/" -> "u1" [] u = "ftp" -> "" [] OTHER -> u]
MCTokenNames == {"token-fufu"}
MCPublic == {"u1", "u2", "u3"}
MCExplicit == [k \in {"api", "token"} |-> IF k = "token" THEN <<"u3", "u2">> ELSE <<>>]
MCDefaults == [k \in {"api", "token"} |-> IF k = "api" THEN <<"u3", "u1">> ELSE <<"u2">>]
MCStandardKind == ("times" :> "api") @@ ("token-fufu" :> "token")

Site(name, category, urls, url, token) ==
  [name |-> name, category |-> category, urls |-> urls, url |-> url, token |-> token,
   kind |-> "", unit |-> 0]
U(name, url) == [name |-> IF name = "" THEN <<>> ELSE <<name>>, url |-> url]
Stored == {<<>>, <<Site("x", "api", <<U("", "u1")>>, "", "t1"), Site("token-fufu", "", <<>>, "u3", "t2")>>,
           <<Site("x", "token", <<>>, "u2", "t2"), Site("x", "api", <<>>, "lan", "t1")>>}
Posted == {Site(name, category, urls, url, token) :
             name \in {"x", "times", "token-fufu"}, category \in {"", "token"},
             urls \in {<<>>, <<U("", "u1/"), U("b", "u1"), U("", "lan")>>, <<U("a", "ftp"), U("b", "u2")>>},
             url \in {"", "u3"}, token \in {"", "t1", "t3"}}
MCSiteCases ==
  [area : {"sites"}, posted : {<<s>> : s \in Posted}, before : Stored]
  \cup [area : {"sites"}, before : Stored,
        posted : {<<a, b>> : a \in {s \in Posted : s.url = "u3" /\ s.urls # <<>> /\ s.category = ""},
                           b \in {s \in Posted : s.url = "" /\ s.urls # <<>> /\ s.name # "times"}}]

(***************************************************************************)
(* The status of models                                                    *)
(***************************************************************************)

MCFixedGroups == [s \in {"a", "b"} |-> IF s = "b" THEN {"mix"} ELSE {}]

Logged(id, model, groups) == [id |-> id, model |-> model, groups |-> groups]
Offer(id, on, models, groups, time) ==
  [id |-> id, on |-> on, models |-> models, groups |-> groups, time |-> time]
OkLogs == {<<>>, <<Logged(1, "m", {"mix"}), Logged(2, "m", {"mix", "g"}), Logged(3, "n", {"g"})>>,
           [i \in 1..5 |-> Logged(i, "m", {"mix"})]}
BadLogs == {<<>>, <<Logged(7, "m", {"mix"}), Logged(7, "m", {"mix"})>>, <<Logged(8, "n", {"g"})>>}
Channels == {<<Offer(1, TRUE, {"m", "n"}, {"mix"}, 0), Offer(2, FALSE, {"n"}, {"g"}, 3)>>,
             <<Offer(2, TRUE, {"m"}, {"g", "mix"}, 9), Offer(1, TRUE, {"m"}, {"mix"}, 4)>>}
LineData == [site : {"a", "b"}, ok : OkLogs, bad : BadLogs, channels : Channels]
Tests == [site : {"a", "b"}, model : {"m"}, group : {"", "mix"}, ok : BOOLEAN]
MCStatusCases ==
  [area : {"status"}, lines : [1..1 -> LineData],
   tests : {<<>>} \cup {<<t>> : t \in Tests} \cup {<<t, t, t>> : t \in Tests}]
  \cup [area : {"status"}, tests : {<<>>} \cup {<<t>> : t \in Tests},
        lines : {<<a, b>> : a \in {l \in LineData : l.bad # <<>>}, b \in {l \in LineData : l.ok # <<>>}}]

=============================================================================
