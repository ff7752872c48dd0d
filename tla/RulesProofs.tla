----------------------------- MODULE RulesProofs -----------------------------
(***************************************************************************)
(* Theorems about Rules: what the rules give for every input, of any size, *)
(* and not only for the small ones of MCRules.  A behaviour is one case,   *)
(* so that what holds of every input the assumptions of Rules allow holds  *)
(* of the specification; the work is in the lemmas on the rules of each    *)
(* area, of which OperatorProofs has those not about the configuration.    *)
(***************************************************************************)
EXTENDS Rules, OperatorProofs

(***************************************************************************)
(* The rewards of a scratch card                                           *)
(***************************************************************************)

\* The smaller and the larger of two numbers, and the largest of several.
LEMMA OfTwo ==
  ASSUME NEW a \in Int, NEW b \in Int
  PROVE  /\ Min({a, b}) = IF a <= b THEN a ELSE b
         /\ Max({a, b}) = IF a >= b THEN a ELSE b
<1> DEFINE S == {a, b}
           least == IF a <= b THEN a ELSE b
           most == IF a >= b THEN a ELSE b
<1>1. least \in S /\ most \in S /\ \A y \in S : least <= y /\ most >= y
  OBVIOUS
<1>2. \A x \in S : (\A y \in S : x <= y) => x = least
  OBVIOUS
<1>3. \A x \in S : (\A y \in S : x >= y) => x = most
  OBVIOUS
<1> HIDE DEF S, least, most
<1>4. Min(S) \in S /\ \A y \in S : Min(S) <= y
  BY ONLY <1>1 DEF Min
<1>5. Max(S) \in S /\ \A y \in S : Max(S) >= y
  BY ONLY <1>1 DEF Max
<1>6. Min(S) = least /\ Max(S) = most
  BY ONLY <1>2, <1>3, <1>4, <1>5
<1> QED
  BY <1>6 DEF S, least, most

\* A profile of rewards.
LEMMA ProfileIs ==
  ASSUME NEW rewards \in Seq(Int), NEW n \in Nat \ {0}
  PROVE  FixedProfile(rewards, n) \in Seq(Nat \ {0}) /\ Len(FixedProfile(rewards, n)) = n
<1> DEFINE clean == PositiveOf(rewards)
           at == {i \in DOMAIN rewards : rewards[i] > 0}
<1>1. clean \in Seq(Nat \ {0})
  <2>1. clean = Picked(rewards, at) /\ at \in SUBSET DOMAIN rewards
    BY DEF PositiveOf
  <2>2. \A i \in at : rewards[i] \in Nat \ {0}
    <3> TAKE i \in at
    <3>1. rewards[i] \in Int
      BY Entry
    <3> QED
      BY <3>1
  <2> HIDE DEF at
  <2>3. /\ Picked(rewards, at) \in Seq(Int)
        /\ \A k \in DOMAIN Picked(rewards, at) : \E i \in at : Picked(rewards, at)[k] = rewards[i]
    BY <2>1, PickedSeq
  <2>4. \A k \in DOMAIN clean : clean[k] \in Nat \ {0}
    BY <2>1, <2>2, <2>3
  <2>5. clean \in Seq(Int)
    BY <2>1, <2>3
  <2> HIDE DEF clean
  <2>6. clean = [k \in DOMAIN clean |-> clean[k]]
    BY <2>5
  <2>7. clean \in [DOMAIN clean -> Nat \ {0}]
    BY <2>4, <2>6
  <2> QED
    BY <2>5, <2>7, SameLength
<1> DEFINE first == SubSeq(Default.rewards, 1, n)
           steps == [i \in 1..n |-> i]
<1>2. Len(Default.rewards) >= n => first \in Seq(Nat \ {0}) /\ Len(first) = n
  BY DefaultIsNormal
<1>3. steps \in Seq(Nat \ {0}) /\ Len(steps) = n
  OBVIOUS
<1> HIDE DEF clean, first, steps
<1>4. FixedProfile(rewards, n) = IF Len(clean) = n THEN clean
                                 ELSE IF Len(Default.rewards) >= n THEN first ELSE steps
  BY DEF FixedProfile, clean, first, steps
<1> QED
  BY <1>1, <1>2, <1>3, <1>4

\* A thousandth, rounded, is at most a hundredth.
LEMMA TenthIsThere ==
  ASSUME NEW m \in Nat, NEW full \in Int, full > 0, full <= (2 * m + 1000) \div 2000
  PROVE  100 * full <= m
<1>1. (2 * m + 1000) \div 2000 \in Int
  OBVIOUS
<1>2. 2000 * ((2 * m + 1000) \div 2000) <= 2 * m + 1000
  OBVIOUS
<1> QED
  BY <1>1, <1>2

\* The scaled profile never pays more than the full prize, and never falls.
LEMMA ScaledIs ==
  ASSUME NEW base \in Seq(Nat \ {0}), Len(base) > 0, NEW full \in Nat \ {0}
  PROVE  LET out == ScaledProfile(base, full)
         IN  /\ DOMAIN out = 1..Len(base)
             /\ \A i \in 1..Len(base) : /\ out[i] \in Int /\ out[i] <= full
                                        /\ i > 1 => out[i - 1] <= out[i]
<1> DEFINE n == Len(base)
           cap == Max(Range(base))
           share == [i \in 1..n |-> (2 * base[i] * full + cap) \div (2 * cap)]
           shares(i) == {share[j] : j \in 1..i}
           upTo(i) == {1} \cup shares(i)
           out == ScaledProfile(base, full)
<1>1. out = [i \in 1..n |-> IF i = n THEN full ELSE Min({full, Max(upTo(i))})]
  <2> DEFINE each(j) == (2 * base[j] * full + cap) \div (2 * cap)
  <2>1. out = [i \in 1..n |-> IF i = n THEN full
                              ELSE Min({full, Max({1} \cup {each(j) : j \in 1..i})})]
    BY DEF ScaledProfile
  <2>2. \A j \in 1..n : share[j] = each(j)
    OBVIOUS
  <2> HIDE DEF share, each, out, cap
  <2>3. \A i \in 1..n : 1..i \in SUBSET (1..n)
    OBVIOUS
  <2>4. \A i \in 1..n : {each(j) : j \in 1..i} = shares(i)
    BY <2>2, <2>3
  <2> HIDE DEF shares
  <2> QED
    BY ONLY <2>1, <2>4
<1>2. n \in Nat /\ n > 0 /\ DOMAIN base = 1..n
  OBVIOUS
<1>3. cap \in Nat /\ cap > 0
  <2>1. Range(base) \in SUBSET Nat /\ Range(base) # {} /\ IsFiniteSet(Range(base))
    <3>1. \A i \in DOMAIN base : base[i] \in Nat
      BY Entry
    <3>2. base[1] \in Range(base)
      BY <1>2 DEF Range
    <3> QED
      <4>1. Range(base) = {base[i] : i \in DOMAIN base}
        BY DEF Range
      <4>2. IsFiniteSet(DOMAIN base)
        BY Positions
      <4>3. IsFiniteSet({base[i] : i \in DOMAIN base})
        BY ONLY <4>2, Values
      <4> QED
        BY ONLY <3>1, <3>2, <4>1, <4>3
  <2>2. cap \in Range(base)
    BY <2>1, LastOf
  <2> QED
    BY <2>2, Entry DEF Range
<1> HIDE DEF cap
<1>4. \A j \in 1..n : share[j] \in Nat
  <2> TAKE j \in 1..n
  <2>1. base[j] \in Int /\ base[j] > 0
    BY <1>2, Entry
  <2>2. 2 * base[j] \in Int /\ 2 * base[j] >= 0
    BY <2>1
  <2>3. 2 * base[j] * full \in Int /\ 2 * base[j] * full >= 0
    BY <2>2, Product
  <2> QED
    <3> DEFINE a == 2 * base[j] * full + cap
               b == 2 * cap
    <3>1. a \in Int /\ a >= 0 /\ b \in Int /\ b > 0
      BY <1>3, <2>3
    <3>2. share[j] = a \div b
      OBVIOUS
    <3> HIDE DEF a, b, share
    <3> QED
      BY ONLY <3>1, <3>2, Divided
<1> HIDE DEF share
<1>5. \A i \in 1..n : upTo(i) \in SUBSET Nat /\ upTo(i) # {} /\ IsFiniteSet(upTo(i))
  <2> TAKE i \in 1..n
  <2>1. 1..i \in SUBSET (1..n)
    BY <1>2
  <2>2. IsFiniteSet(1..i)
    BY FS_Interval
  <2>3. IsFiniteSet(shares(i))
    BY <2>2, Values
  <2>4. shares(i) \in SUBSET Nat
    BY <1>4, <2>1
  <2> HIDE DEF shares
  <2>5. IsFiniteSet({1} \cup shares(i))
    BY <2>3, FS_Singleton, FS_Union
  <2> QED
    BY <2>4, <2>5
<1> DEFINE top(i) == Max(upTo(i))
<1>6. \A i \in 1..n : top(i) \in upTo(i) /\ top(i) \in Nat /\ \A m \in upTo(i) : m <= top(i)
  BY <1>5, LastOf
<1>7. \A i \in 1..n : i > 1 => i - 1 \in 1..n /\ upTo(i - 1) \in SUBSET upTo(i)
  <2> TAKE i \in 1..n
  <2>1. 1..(i - 1) \in SUBSET (1..i)
    BY <1>2
  <2>2. shares(i - 1) \in SUBSET shares(i)
    BY <2>1
  <2> HIDE DEF shares
  <2> QED
    BY <1>2, <2>2
<1> HIDE DEF upTo
<1>8. \A i \in 1..n : i > 1 => top(i - 1) <= top(i)
  BY <1>6, <1>7
<1> HIDE DEF top
<1>9. \A i \in 1..n : out[i] = IF i = n \/ full <= top(i) THEN full ELSE top(i)
  <2> TAKE i \in 1..n
  <2>1. Min({full, top(i)}) = IF full <= top(i) THEN full ELSE top(i)
    BY <1>6, OfTwo
  <2> QED
    BY <1>1, <2>1 DEF top
<1> HIDE DEF out
<1>10. ASSUME NEW i \in 1..n
       PROVE  out[i] \in Int /\ out[i] <= full /\ (i > 1 => out[i - 1] <= out[i])
  <2>1. out[i] \in Int /\ out[i] <= full
    BY <1>6, <1>9
  <2>2. ASSUME i > 1 PROVE out[i - 1] <= out[i]
    <3>1. i - 1 \in 1..n /\ i - 1 # n /\ top(i - 1) <= top(i)
      BY <1>2, <1>7, <1>8, <2>2
    <3>2. top(i) \in Nat /\ top(i - 1) \in Nat
      BY <1>6, <3>1
    <3> QED
      BY <1>9, <3>1, <3>2
  <2> QED
    BY <2>1, <2>2
<1>11. DOMAIN out = 1..n
  BY <1>1
<1> QED
  BY <1>10, <1>11 DEF out

\* The parts of a normalised configuration that prizes are made of.
LEMMA NormalizedIs ==
  ASSUME NEW raw
  PROVE  LET cfg == NormalizeConfig(raw)
             pool == IF raw.pool = Nil THEN Default.pool ELSE NormalPool(raw.pool)
         IN  /\ cfg.pool = pool
             /\ cfg.games = GamesOf(raw, ExpectedValue(pool))
             /\ cfg.fund = NormalizeFund(IF IsZeroFund(raw.fund) THEN Default.fund ELSE raw.fund)
             /\ cfg.rewards = PositiveOf(OrElse(raw.rewards, Default.rewards))
             /\ cfg.maxReveals = NormalMaxReveals(raw.maxReveals)
BY DEF NormalizeConfig, Complete

LEMMA RevealsIs ==
  ASSUME NEW n \in Int
  PROVE  NormalMaxReveals(n) \in Nat \ {0}
<1>1. Min({n, ScratchCells - ScratchMines}) = IF n <= 7 THEN n ELSE 7
  BY OfTwo DEF ScratchCells, ScratchMines
<1> QED
  BY <1>1 DEF NormalMaxReveals, DefaultMaxReveals

\* What a scratch card pays is there, and does not fall from one cell to the next.
LEMMA RewardsCovered ==
  ASSUME NEW raw, raw.rewards \in {Nil} \cup Seq(Int), raw.maxReveals \in Int,
         NEW balance \in Int, NormalizeConfig(raw).fund.enabled
  PROVE  LET rewards == ScratchRewards(raw, balance)
         IN  \A i \in DOMAIN rewards : /\ 100 * rewards[i] <= Max({0, balance})
                                       /\ i > 1 => rewards[i - 1] <= rewards[i]
<1> DEFINE cfg == NormalizeConfig(raw)
           base == FixedProfile(cfg.rewards, cfg.maxReveals)
           m == Max({0, balance})
           full == Min({(2 * m + 1000) \div 2000, Max(Range(base))})
           none == [i \in DOMAIN base |-> 0]
           out == ScratchRewards(raw, balance)
           Right == \A i \in DOMAIN out : 100 * out[i] <= m /\ (i > 1 => out[i - 1] <= out[i])
<1>1. cfg.maxReveals \in Nat \ {0}
  BY NormalizedIs, RevealsIs
<1>2. cfg.rewards \in Seq(Int)
  <2> DEFINE given == OrElse(raw.rewards, Default.rewards)
             at == {i \in DOMAIN given : given[i] > 0}
  <2>0. Default.rewards \in Seq(Int)
    <3>1. \A i \in DOMAIN Default.rewards : Default.rewards[i] \in Int
      BY DefaultIsNormal, Entry
    <3>2. Default.rewards \in [DOMAIN Default.rewards -> Int]
      BY <3>1, DefaultIsNormal
    <3> QED
      BY <3>2, DefaultIsNormal, SameLength
  <2>1. given \in Seq(Int)
    BY <2>0 DEF OrElse
  <2>2. cfg.rewards = Picked(given, at) /\ at \in SUBSET DOMAIN given
    BY NormalizedIs DEF PositiveOf
  <2> HIDE DEF given, at, cfg
  <2> QED
    BY <2>1, <2>2, PickedSeq
<1>3. base \in Seq(Nat \ {0}) /\ Len(base) > 0
  <2> HIDE DEF cfg
  <2> QED
    BY <1>1, <1>2, ProfileIs
<1>4. m \in Nat
  <2>1. Max({0, balance}) = IF 0 >= balance THEN 0 ELSE balance
    BY ONLY 0 \in Int, balance \in Int, OfTwo
  <2> HIDE DEF cfg
  <2> QED
    BY ONLY <2>1, balance \in Int
<1>5. out = IF full <= 0 THEN none ELSE ScaledProfile(base, full)
  BY DEF ScratchRewards, Affordable
<1> HIDE DEF cfg, base, m, out
<1>6. full \in Int /\ full <= (2 * m + 1000) \div 2000
  <2>1. Max(Range(base)) \in Int
    <3>1. Range(base) = {base[i] : i \in DOMAIN base} /\ IsFiniteSet(DOMAIN base)
      BY <1>3, Positions DEF Range
    <3>2. IsFiniteSet(Range(base))
      BY ONLY <3>1, Values
    <3>3. Range(base) \in SUBSET Nat /\ Range(base) # {}
      BY <1>3, <3>1, Entry
    <3> QED
      BY <3>2, <3>3, LastOf
  <2>2. (2 * m + 1000) \div 2000 \in Int
    BY <1>4
  <2> QED
    BY <2>1, <2>2, OfTwo
<1> HIDE DEF full
<1>7. ASSUME full <= 0 PROVE Right
  <2>1. out = none
    BY <1>5, <1>7
  <2>2. \A i \in DOMAIN base : i \in Nat /\ (i > 1 => i - 1 \in DOMAIN base)
    BY <1>3
  <2> HIDE DEF out
  <2> QED
    BY ONLY <1>4, <2>1, <2>2
<1>8. ASSUME full > 0 PROVE Right
  <2>1. 100 * full <= m
    BY <1>4, <1>6, <1>8, TenthIsThere
  <2>2. full \in Nat \ {0}
    BY <1>6, <1>8
  <2>3. out = ScaledProfile(base, full)
    BY <1>5, <1>6, <1>8
  <2>4. /\ DOMAIN out = 1..Len(base)
        /\ \A i \in 1..Len(base) : /\ out[i] \in Int /\ out[i] <= full
                                   /\ i > 1 => out[i - 1] <= out[i]
    BY <1>3, <2>2, <2>3, ScaledIs
  <2> QED
    BY <1>4, <1>6, <2>1, <2>4
<1>9. Right
  <2> HIDE DEF Right
  <2> QED
    BY <1>6, <1>7, <1>8
<1> QED
  BY <1>9 DEF out, m

(***************************************************************************)
(* The prizes of a pool                                                    *)
(***************************************************************************)

\* A ranked prize is no larger than a balance.
Afforded(p, balance) == p.rank \in Ranks /\ p.dollars > 0 => 100 * p.dollars <= balance
AllAfforded(pool, balance) == \A i \in DOMAIN pool : Afforded(pool[i], balance)

LEMMA TypedDollars ==
  ASSUME NEW p \in PrizeRows
  PROVE  /\ Typed(p).dollars \in {p.dollars, 0} /\ Typed(p).rank = p.rank
         /\ p.dollars \in Int /\ Typed(p) \in PrizeRows
<1>1. Typed(p).dollars \in {p.dollars, 0}
  BY DEF Typed
<1>2. Typed(p).rank = p.rank /\ Typed(p) \in PrizeRows
  BY TypedIs
<1> QED
  BY <1>1, <1>2, ValueIs

LEMMA AffordedTyped ==
  ASSUME NEW p \in PrizeRows, NEW balance \in Int, Afforded(p, balance)
  PROVE  Afforded(Typed(p), balance)
BY ONLY p \in PrizeRows, balance \in Int, Afforded(p, balance), TypedDollars DEF Afforded

LEMMA AffordedPicked ==
  ASSUME NEW pool \in Seq(PrizeRows), NEW balance, AllAfforded(pool, balance),
         NEW at \in SUBSET DOMAIN pool
  PROVE  Picked(pool, at) \in Seq(PrizeRows) /\ AllAfforded(Picked(pool, at), balance)
<1> DEFINE out == Picked(pool, at)
<1>1. out \in Seq(PrizeRows) /\ \A k \in DOMAIN out : \E i \in at : out[k] = pool[i]
  BY PickedSeq
<1> HIDE DEF out
<1>2. \A k \in DOMAIN out : Afforded(out[k], balance)
  BY ONLY <1>1, at \in SUBSET DOMAIN pool, AllAfforded(pool, balance) DEF AllAfforded
<1>3. AllAfforded(out, balance)
  BY ONLY <1>2 DEF AllAfforded
<1> QED
  BY ONLY <1>1, <1>3 DEF out

LEMMA AffordedNormalize ==
  ASSUME NEW pool \in Seq(PrizeRows), NEW balance \in Int, AllAfforded(pool, balance)
  PROVE  AllAfforded(Normalize(pool), balance)
<1> DEFINE kept == WithRows(pool)
           at == {i \in DOMAIN pool : pool[i].weight > 0 \/ pool[i].adv}
<1>1. kept = Picked(pool, at) /\ at \in SUBSET DOMAIN pool
  BY DEF WithRows
<1> HIDE DEF at
<1>2. kept \in Seq(PrizeRows) /\ AllAfforded(kept, balance)
  BY <1>1, AffordedPicked
<1> DEFINE all == [k \in DOMAIN kept |-> Typed(kept[k])]
<1>3. Normalize(pool) = all
  BY DEF Normalize
<1> HIDE DEF kept
<1>4. \A k \in DOMAIN kept : kept[k] \in PrizeRows /\ Afforded(kept[k], balance)
  BY <1>2, Entry DEF AllAfforded
<1>5. \A k \in DOMAIN kept : Afforded(Typed(kept[k]), balance)
  BY <1>4, AffordedTyped
<1>6. AllAfforded(all, balance)
  BY <1>5 DEF AllAfforded
<1> QED
  BY <1>3, <1>6

\* Whatever the pool, the weights of its rows stay numbers.
LEMMA AnyWeights ==
  ASSUME NEW pool \in Seq(PrizeRows), \A i \in DOMAIN pool : Value(Typed(pool[i])) = Value(pool[i]),
         NEW t \in Nat \X (Nat \ {0})
  PROVE  LET W == BalanceWeights(pool, t)
         IN  DOMAIN W = Live(pool) /\ \A i \in Live(pool) : W[i] \in Nat
<1> DEFINE W == BalanceWeights(pool, t)
           live == Live(pool)
           paying == Paying(pool)
           neutral == live \ paying
           ev == ExpectedValue(pool)
           asIs == [i \in live |-> pool[i].weight]
           balanced == Allocate(pool, neutral, WeightOf(pool, neutral),
                         NeutralWeight(ValueOf(pool, paying), WeightOf(pool, paying), t))
           nothing == [i \in live |-> IF i \in neutral THEN pool[i].weight
                                      ELSE IF neutral = {} /\ i = Min(live) THEN 1 ELSE 0]
           mixed == [i \in live |-> IF i \in paying THEN pool[i].weight ELSE balanced[i]]
<1>1. W = IF live = {} \/ ev[1] * t[2] = t[1] * ev[2] THEN asIs
          ELSE IF paying = {} THEN asIs
          ELSE IF t[1] <= 0 THEN nothing
          ELSE IF neutral = {} THEN asIs
          ELSE mixed
  BY DEF BalanceWeights, Paying
<1>2. CASE paying # {} /\ neutral # {}
  BY <1>2, BalancedIs
<1>3. ASSUME ~(paying # {} /\ neutral # {})
      PROVE  DOMAIN W = live /\ \A i \in live : W[i] \in Nat
  <2> HIDE DEF ev, balanced, W, paying, live
  <2>1. W \in {asIs, nothing}
    BY ONLY <1>1, <1>3
  <2>2. \A i \in live : pool[i].weight \in Nat
    BY Weighed DEF live
  <2>3. DOMAIN asIs = live /\ \A i \in live : asIs[i] \in Nat
    BY ONLY <2>2
  <2>4. DOMAIN nothing = live /\ \A i \in live : nothing[i] \in Nat
    BY ONLY <2>2
  <2> HIDE DEF asIs, nothing
  <2> QED
    BY ONLY <2>1, <2>3, <2>4
<1> QED
  BY <1>2, <1>3

LEMMA AffordedReweigh ==
  ASSUME NEW pool \in Seq(PrizeRows), NEW balance, AllAfforded(pool, balance),
         NEW W, DOMAIN W = Live(pool), \A i \in Live(pool) : W[i] \in Nat
  PROVE  Reweigh(pool, W) \in Seq(PrizeRows) /\ AllAfforded(Reweigh(pool, W), balance)
<1> DEFINE other == Reweigh(pool, W)
<1>1. other \in Seq(PrizeRows) /\ DOMAIN other = DOMAIN pool
  BY ReweighIs
<1>2. other = [i \in DOMAIN pool |-> IF i \in DOMAIN W THEN [pool[i] EXCEPT !.weight = W[i]]
                                     ELSE pool[i]]
  BY DEF Reweigh
<1> HIDE DEF other
<1>3. \A i \in DOMAIN pool : pool[i] \in PrizeRows /\ Afforded(pool[i], balance)
  BY Entry DEF AllAfforded
<1>4. ASSUME NEW i \in DOMAIN pool PROVE Afforded(other[i], balance)
  <2>1. other[i] = pool[i] \/ other[i] = [pool[i] EXCEPT !.weight = W[i]]
    BY ONLY <1>2, <1>4
  <2>2. other[i].rank = pool[i].rank /\ other[i].dollars = pool[i].dollars
    BY ONLY <1>3, <1>4, <2>1 DEF PrizeRows
  <2> QED
    BY ONLY <1>3, <1>4, <2>2 DEF Afforded
<1>5. AllAfforded(other, balance)
  BY ONLY <1>1, <1>4 DEF AllAfforded
<1> QED
  BY ONLY <1>1, <1>5 DEF other

LEMMA AffordedBalance ==
  ASSUME NEW pool \in Seq(PrizeRows), NEW balance \in Int, AllAfforded(pool, balance),
         NEW target \in Rationals, NEW actual \in Rationals, NEW draws \in Int
  PROVE  LET after == BalancePool(pool, target, actual, draws)
         IN  after \in Seq(PrizeRows) /\ AllAfforded(after, balance)
<1> DEFINE t == TargetPerDraw(target, actual, draws)
           P == Normalize(pool)
           W == BalanceWeights(P, t)
           other == Reweigh(P, W)
           at == {i \in DOMAIN other : other[i].weight > 0 \/ other[i].adv}
<1>1. t \in Nat \X (Nat \ {0})
  BY TargetIs
<1>2. /\ P \in Seq(PrizeRows) /\ AllAfforded(P, balance)
      /\ \A i \in DOMAIN P : Value(Typed(P[i])) = Value(P[i])
  <2>1. P \in Seq(PrizeRows) /\ \A i \in DOMAIN P : P[i].type # ""
    BY NormalizeIs
  <2>2. AllAfforded(P, balance)
    BY AffordedNormalize
  <2> HIDE DEF P
  <2>3. \A i \in DOMAIN P : P[i] \in PrizeRows
    BY <2>1, Entry
  <2> QED
    BY <2>1, <2>2, <2>3, TypedIs
<1>3. BalancePool(pool, target, actual, draws) = WithRows(other)
  BY DEF BalancePool, Reweigh
<1>4. WithRows(other) = Picked(other, at) /\ at \in SUBSET DOMAIN other
  BY DEF WithRows
<1> HIDE DEF t, P, at
<1>5. DOMAIN W = Live(P) /\ \A i \in Live(P) : W[i] \in Nat
  BY ONLY <1>1, <1>2, AnyWeights
<1> HIDE DEF W
<1>6. other \in Seq(PrizeRows) /\ AllAfforded(other, balance)
  BY ONLY <1>2, <1>5, AffordedReweigh
<1> HIDE DEF other
<1>7. Picked(other, at) \in Seq(PrizeRows) /\ AllAfforded(Picked(other, at), balance)
  BY ONLY <1>4, <1>6, AffordedPicked
<1> QED
  BY ONLY <1>3, <1>4, <1>7

\* A roll finds a row of the pool, or there is nothing to be drawn.
LEMMA RollFinds ==
  ASSUME NEW pool \in Seq(PrizeRows), NEW n \in Int
  PROVE  Roll(pool, n) = Miss \/ \E i \in DOMAIN Normalize(pool) : Roll(pool, n) = Normalize(pool)[i]
<1> DEFINE P == Normalize(pool)
           live == Live(P)
           f == [i \in DOMAIN P |-> P[i].weight]
           total == WeightOf(P, live)
           upTo(i) == WeightOf(P, {j \in live : j <= i})
           k == Max({0, Min({n, total - 1})})
           hit == {i \in live : k < upTo(i)}
<1>1. Roll(pool, n) = IF total <= 0 THEN Miss ELSE P[Min(hit)]
  BY DEF Roll
<1>2. P \in Seq(PrizeRows)
  BY NormalizeIs
<1> HIDE DEF P
<1>3. /\ live \in SUBSET DOMAIN P /\ IsFiniteSet(live) /\ live \in SUBSET Nat
      /\ \A i \in live : f[i] \in Int
  <2>1. live \in SUBSET DOMAIN P /\ IsFiniteSet(live)
    BY <1>2, Weighed
  <2>2. \A i \in DOMAIN P : i \in Nat /\ f[i] \in Int
    BY <1>2, Weighed, Entry
  <2> HIDE DEF live, f
  <2> QED
    BY ONLY <2>1, <2>2
<1>4. total = Total(f, live)
  BY DEF WeightOf
<1> HIDE DEF f, live
<1>5. total \in Int
  BY ONLY <1>3, <1>4, TotalInt
<1>6. ASSUME ~(total <= 0) PROVE Min(hit) \in DOMAIN P
  <2>1. live # {}
    <3>1. ASSUME live = {} PROVE FALSE
      <4>1. total = 0
        BY ONLY <1>4, <3>1, TotalEmpty
      <4> QED
        BY ONLY <1>6, <4>1
    <3> QED
      BY <3>1
  <2> DEFINE last == Max(live)
  <2>2. last \in live /\ \A j \in live : j <= last
    BY ONLY <1>3, <2>1, LastOf
  <2> HIDE DEF last
  <2>3. {j \in live : j <= last} = live
    BY ONLY <2>2
  <2>4. upTo(last) = total
    BY <2>3
  <2>5. k < total
    <3>1. total - 1 \in Int
      BY ONLY <1>5
    <3>2. Min({n, total - 1}) = IF n <= total - 1 THEN n ELSE total - 1
      BY ONLY n \in Int, <3>1, OfTwo
    <3> DEFINE m == Min({n, total - 1})
    <3>3. m \in Int /\ m <= total - 1
      BY ONLY n \in Int, <1>5, <3>2
    <3> HIDE DEF m, total
    <3>4. Max({0, m}) = IF 0 >= m THEN 0 ELSE m
      BY ONLY 0 \in Int, <3>3, OfTwo
    <3>5. Max({0, m}) < total
      BY ONLY <1>5, <1>6, <3>3, <3>4
    <3> QED
      BY <3>5 DEF m
  <2> HIDE DEF k, upTo, total
  <2>6. last \in hit /\ hit \in SUBSET live
    BY <2>2, <2>4, <2>5
  <2> HIDE DEF hit
  <2>7. hit \in SUBSET Nat /\ hit # {}
    BY ONLY <1>3, <2>6
  <2>8. Min(hit) \in hit
    BY ONLY <2>7, Least DEF Min
  <2> QED
    BY ONLY <1>3, <2>6, <2>8
<1> HIDE DEF hit, total
<1>7. Roll(pool, n) = Miss \/ \E i \in DOMAIN P : Roll(pool, n) = P[i]
  BY ONLY <1>1, <1>6
<1> QED
  BY ONLY <1>7 DEF P

LEMMA MissIs == Miss.dollars = 0
BY DEF Miss

LEMMA AffordedRoll ==
  ASSUME NEW pool \in Seq(PrizeRows), NEW balance \in Int, AllAfforded(pool, balance), NEW n \in Int
  PROVE  Afforded(Roll(pool, n), balance)
<1>1. CASE Roll(pool, n) = Miss
  BY ONLY <1>1, MissIs DEF Afforded
<1>2. CASE \E i \in DOMAIN Normalize(pool) : Roll(pool, n) = Normalize(pool)[i]
  BY ONLY <1>2, pool \in Seq(PrizeRows), balance \in Int, AllAfforded(pool, balance), AffordedNormalize
     DEF AllAfforded
<1> QED
  BY ONLY <1>1, <1>2, pool \in Seq(PrizeRows), n \in Int, RollFinds

\* Whatever a slot draw yields, it is paid for.
LEMMA SpinPaid ==
  ASSUME NEW cfg, NEW balance \in Int, cfg.pool \in Seq(PrizeRows), AllAfforded(cfg.pool, balance),
         cfg.target \in Rationals, cfg.actual \in Rationals, cfg.draws \in Int,
         NEW tier, NEW hasJackpot, NEW used, NEW total, NEW maxWon, NEW n \in Int,
         LET p == Spin(cfg, tier, hasJackpot, used, total, maxWon, 0, n) IN IsPayoutPrize(p)
  PROVE  100 * Spin(cfg, tier, hasJackpot, used, total, maxWon, 0, n).dollars <= balance
<1> DEFINE p == Spin(cfg, tier, hasJackpot, used, total, maxWon, 0, n)
           sure == Guarantees(cfg.guarantees, tier, total - used, maxWon)
           rolled == Roll(DrawPool(cfg), n)
<1>1. \/ p = Win(sure[1].prize)
      \/ p = Unblocked(cfg, rolled, tier, hasJackpot)
  BY DEF Spin
<1> HIDE DEF sure
<1>2. IsPayoutPrize(p)
  OBVIOUS
<1>3. p # Win(sure[1].prize)
  <2>1. ~Win(sure[1].prize).adv
    BY DEF Win
  <2> HIDE DEF p
  <2> QED
    BY ONLY <1>2, <2>1 DEF IsPayoutPrize
<1>4. DrawPool(cfg) \in Seq(PrizeRows) /\ AllAfforded(DrawPool(cfg), balance)
  <2>1. LET after == BalancePool(cfg.pool, cfg.target, cfg.actual, cfg.draws)
        IN  after \in Seq(PrizeRows) /\ AllAfforded(after, balance)
    BY AffordedBalance
  <2>2. DrawPool(cfg) \in {cfg.pool, BalancePool(cfg.pool, cfg.target, cfg.actual, cfg.draws)}
    BY DEF DrawPool
  <2> QED
    BY <2>1, <2>2
<1>5. Afforded(rolled, balance)
  <2> DEFINE pool == DrawPool(cfg)
  <2> HIDE DEF pool
  <2>1. pool \in Seq(PrizeRows) /\ AllAfforded(pool, balance)
    BY <1>4 DEF pool
  <2>2. Afforded(Roll(pool, n), balance)
    BY ONLY <2>1, balance \in Int, n \in Int, AffordedRoll
  <2> QED
    BY <2>2 DEF pool
<1> HIDE DEF p, rolled
<1>6. Afforded(p, balance)
  <2>1. p \in {[Miss EXCEPT !.type = "retry"], rolled}
    BY ONLY <1>1, <1>3 DEF Unblocked
  <2>2. [Miss EXCEPT !.type = "retry"].dollars = 0
    BY DEF Miss
  <2>3. Afforded([Miss EXCEPT !.type = "retry"], balance)
    BY ONLY <2>2 DEF Afforded
  <2> QED
    BY ONLY <1>5, <2>1, <2>3
<1>7. p.rank \in Ranks /\ p.dollars > 0
  BY ONLY <1>2 DEF IsPayoutPrize
<1>8. 100 * p.dollars <= balance
  BY ONLY <1>6, <1>7 DEF Afforded
<1> QED
  BY ONLY <1>8 DEF p

(***************************************************************************)
(* The prizes a configuration offers                                       *)
(***************************************************************************)

\* The rank an amount stands for.
DefaultRank(type, dollars) ==
  IF type # "win" \/ dollars <= 0 THEN ""
  ELSE IF dollars = Default.jackpot THEN "jackpot"
  ELSE IF dollars = Default.second THEN "second"
  ELSE IF dollars = Default.third THEN "third"
  ELSE ""

LEMMA DefaultRankIs ==
  ASSUME NEW type, NEW dollars
  PROVE  DefaultRank(type, dollars) \in Ranks \cup {""}
BY DEF DefaultRank, Ranks

LEMMA RanksAreTexts == Ranks \in SUBSET Texts /\ "" \in Texts /\ "" \notin Ranks
BY DEF Texts, Ranks

LEMMA WithRankIs ==
  ASSUME NEW p \in PrizeRows
  PROVE  LET q == WithDefaultRank(p)
             d == DefaultRank(p.type, p.dollars)
         IN  /\ q \in PrizeRows /\ q.type = p.type /\ q.dollars = p.dollars
             /\ q.rank = IF d # "" /\ p.rank = "" THEN d ELSE p.rank
<1> DEFINE d == DefaultRank(p.type, p.dollars)
           none == ""
           q == [type |-> p.type, dollars |-> p.dollars, weight |-> p.weight,
                 rank |-> IF p.rank = none THEN d ELSE p.rank, adv |-> TRUE]
<1>1. WithDefaultRank(p) = IF d = none THEN p ELSE q
  BY DEF WithDefaultRank, DefaultRank
<1>2. d \in Texts
  BY DefaultRankIs, RanksAreTexts
<1> HIDE DEF d, none
<1>3. /\ p.type \in Texts /\ p.dollars \in Int /\ p.weight \in Int /\ p.rank \in Texts
      /\ p.adv \in BOOLEAN
  BY ONLY p \in PrizeRows DEF PrizeRows
<1>4. q \in PrizeRows
  BY ONLY <1>2, <1>3 DEF PrizeRows
<1>5. LET r == WithDefaultRank(p)
      IN  /\ r \in PrizeRows /\ r.type = p.type /\ r.dollars = p.dollars
          /\ r.rank = IF d # none /\ p.rank = none THEN d ELSE p.rank
  <2>1. CASE d = none
    BY ONLY <1>1, <2>1, p \in PrizeRows
  <2>2. CASE d # none
    BY ONLY <1>1, <1>4, <2>2
  <2> QED
    BY ONLY <2>1, <2>2
<1> QED
  BY <1>5 DEF d, none

\* A row of a normalised pool.
NormalRow(p) == WithDefaultRank(Typed(p))

LEMMA NormalRowIs ==
  ASSUME NEW p \in PrizeRows
  PROVE  LET q == NormalRow(p)
         IN  /\ q \in PrizeRows /\ q.dollars \in {p.dollars, 0}
             /\ NormalRow(q).rank = q.rank
<1> DEFINE t == Typed(p)
           q == NormalRow(p)
           u == Typed(q)
           r == NormalRow(q)
           none == ""
           win == "win"
           d == DefaultRank(t.type, t.dollars)
<1>1. t \in PrizeRows /\ t.dollars \in {p.dollars, 0} /\ t.type # none
  BY TypedDollars, TypedIs
<1>2. t.type # win => t.dollars = 0
  <2>1. t.dollars = IF t.type = win THEN p.dollars ELSE 0
    BY DEF Typed
  <2> HIDE DEF t, win
  <2> QED
    BY ONLY <2>1
<1> HIDE DEF t, d
<1>3. /\ q \in PrizeRows /\ q.type = t.type /\ q.dollars = t.dollars
      /\ q.rank = IF d # none /\ t.rank = none THEN d ELSE t.rank
  <2> DEFINE w == WithDefaultRank(t)
  <2>1. /\ w \in PrizeRows /\ w.type = t.type /\ w.dollars = t.dollars
        /\ w.rank = IF d # none /\ t.rank = none THEN d ELSE t.rank
    BY ONLY <1>1, WithRankIs DEF d
  <2>2. q = w
    BY DEF NormalRow, t
  <2> QED
    BY ONLY <2>1, <2>2
<1> HIDE DEF q
<1>4. u \in PrizeRows /\ u.rank = q.rank /\ u.type = q.type /\ u.dollars = q.dollars
  <2>1. u \in PrizeRows /\ u.rank = q.rank
    BY <1>3, TypedDollars
  <2>2. u.type = IF q.type # none THEN q.type ELSE IF q.dollars > 0 THEN win ELSE "miss"
    BY DEF Typed
  <2>3. u.dollars = IF u.type = win THEN q.dollars ELSE 0
    BY DEF Typed
  <2> HIDE DEF u, none, win
  <2>4. u.type = q.type
    BY ONLY <1>1, <1>3, <2>2
  <2>5. u.dollars = q.dollars
    BY ONLY <1>2, <1>3, <2>3, <2>4
  <2> QED
    BY ONLY <2>1, <2>4, <2>5
<1> HIDE DEF u
<1>5. DefaultRank(u.type, u.dollars) = d
  BY ONLY <1>3, <1>4 DEF d
<1>6. r.rank = IF d # none /\ u.rank = none THEN d ELSE u.rank
  <2> DEFINE w == WithDefaultRank(u)
             e == DefaultRank(u.type, u.dollars)
  <2>1. w.rank = IF e # none /\ u.rank = none THEN e ELSE u.rank
    BY ONLY <1>4, WithRankIs
  <2>2. r = w
    BY DEF NormalRow, u
  <2> HIDE DEF r, w
  <2> QED
    BY ONLY <1>5, <2>1, <2>2
<1> HIDE DEF r, none, win
<1>7. r.rank = q.rank
  BY ONLY <1>3, <1>4, <1>6
<1> QED
  BY ONLY <1>1, <1>3, <1>7 DEF q, r

LEMMA NormalPoolIs ==
  ASSUME NEW pool \in Seq(PrizeRows)
  PROVE  /\ NormalPool(pool) \in Seq(PrizeRows)
         /\ \A k \in DOMAIN NormalPool(pool) :
              \E i \in DOMAIN pool : NormalPool(pool)[k] = NormalRow(pool[i])
<1> DEFINE kept == Picked(pool, Live(pool))
           all == [k \in DOMAIN kept |-> NormalRow(kept[k])]
<1>1. /\ kept \in Seq(PrizeRows)
      /\ \A k \in DOMAIN kept : \E i \in Live(pool) : kept[k] = pool[i]
  BY Weighed, PickedSeq
<1>2. NormalPool(pool) = all
  BY DEF NormalPool, NormalRow
<1>3. Live(pool) \in SUBSET DOMAIN pool
  BY Weighed
<1> HIDE DEF kept
<1>4. \A k \in DOMAIN kept : NormalRow(kept[k]) \in PrizeRows
  BY <1>1, Entry, NormalRowIs
<1>5. all \in [DOMAIN kept -> PrizeRows]
  BY ONLY <1>4
<1>6. \A k \in DOMAIN all : \E i \in DOMAIN pool : all[k] = NormalRow(pool[i])
  BY ONLY <1>1, <1>3
<1> HIDE DEF all
<1>7. all \in Seq(PrizeRows)
  BY ONLY <1>1, <1>5, SameLength
<1> QED
  BY ONLY <1>2, <1>6, <1>7

LEMMA ClampIs ==
  ASSUME NEW r \in Int
  PROVE  ClampRate(r) \in 0..100
<1>1. Min({100, r}) = IF 100 <= r THEN 100 ELSE r
  BY ONLY 100 \in Int, r \in Int, OfTwo
<1> DEFINE m == Min({100, r})
<1>2. m \in Int /\ m <= 100
  BY ONLY <1>1, r \in Int
<1> HIDE DEF m
<1>3. Max({0, m}) = IF 0 >= m THEN 0 ELSE m
  BY ONLY 0 \in Int, <1>2, OfTwo
<1>4. Max({0, m}) \in 0..100
  BY ONLY <1>2, <1>3
<1> QED
  BY <1>4 DEF ClampRate, m

LEMMA ShareIsThere ==
  ASSUME NEW balance \in Nat, NEW r \in 0..100
  PROVE  LET a == (balance * r) \div 10000 IN a \in Int /\ 100 * a <= balance
<1> DEFINE x == balance * r
           a == x \div 10000
<1>1. x \in Int /\ x <= 100 * balance
  <2>1. r \in Int /\ r >= 0 /\ r <= 100
    OBVIOUS
  <2>2. balance * (100 - r) \in Int /\ balance * (100 - r) >= 0
    BY ONLY balance \in Nat, <2>1, Product
  <2>3. balance * (100 - r) = 100 * balance - balance * r /\ balance * r \in Int
    BY ONLY balance \in Nat, <2>1
  <2> QED
    BY ONLY balance \in Nat, <2>2, <2>3
<1> HIDE DEF x
<1>2. a \in Int /\ 10000 * a <= x
  BY ONLY <1>1
<1> HIDE DEF a
<1>3. a \in Int /\ 100 * a <= balance
  BY ONLY <1>1, <1>2, balance \in Nat
<1> QED
  BY ONLY <1>3 DEF a, x

\* What the prize of a rank is worth is there.
LEMMA AmountIsThere ==
  ASSUME NEW fund, fund.share \in [Ranks -> Int], NEW balance \in Int, NEW rank \in Ranks
  PROVE  LET a == PrizeAmount(fund, balance, rank)
         IN  a \in Int /\ (a > 0 => 100 * a <= balance)
<1> DEFINE r == ClampRate(fund.share[rank])
           a == PrizeAmount(fund, balance, rank)
<1>1. r \in 0..100
  <2>1. fund.share[rank] \in Int
    OBVIOUS
  <2> QED
    BY <2>1, ClampIs
<1>2. a = IF ~fund.enabled \/ balance <= 0 THEN 0 ELSE (balance * r) \div 10000
  BY DEF PrizeAmount
<1> HIDE DEF r, a
<1>3. CASE balance <= 0
  <2>1. a = 0
    BY ONLY <1>2, <1>3
  <2> QED
    BY ONLY <2>1 DEF a
<1>4. CASE ~(balance <= 0)
  <2>1. balance \in Nat
    BY ONLY <1>4, balance \in Int
  <2> DEFINE b == (balance * r) \div 10000
  <2>2. b \in Int /\ 100 * b <= balance
    BY ONLY <1>1, <2>1, ShareIsThere
  <2>3. a = 0 \/ a = b
    BY ONLY <1>2
  <2> HIDE DEF b
  <2>4. a \in Int /\ (a > 0 => 100 * a <= balance)
    BY ONLY <2>2, <2>3
  <2> QED
    BY ONLY <2>4 DEF a
<1> QED
  BY ONLY <1>3, <1>4

\* The dynamic rows of a normalised pool can be paid.
LEMMA DynamicAfforded ==
  ASSUME NEW given \in Seq(PrizeRows), NEW cfg, cfg.pool = NormalPool(given),
         cfg.fund.enabled, cfg.fund.share \in [Ranks -> Int], NEW balance \in Int
  PROVE  DynamicPool(cfg, balance) \in Seq(PrizeRows) /\ AllAfforded(DynamicPool(cfg, balance), balance)
<1> DEFINE pool == cfg.pool
           fund == cfg.fund
           all == [i \in DOMAIN pool |-> Awarded(pool[i], fund, balance)]
           amount(i) == PrizeAmount(fund, balance, pool[i].rank)
<1>1. DynamicPool(cfg, balance) = NormalPool(all)
  BY DEF DynamicPool
<1>2. /\ pool \in Seq(PrizeRows)
      /\ \A k \in DOMAIN pool : \E i \in DOMAIN given : pool[k] = NormalRow(given[i])
  BY NormalPoolIs
<1>3. fund.share \in [Ranks -> Int]
  OBVIOUS
<1> HIDE DEF pool, fund
<1>4. \A k \in DOMAIN pool : pool[k] \in PrizeRows /\ NormalRow(pool[k]).rank = pool[k].rank
  <2> TAKE k \in DOMAIN pool
  <2>1. PICK i \in DOMAIN given : pool[k] = NormalRow(given[i])
    BY <1>2
  <2>2. given[i] \in PrizeRows
    BY Entry
  <2> QED
    BY <2>1, <2>2, NormalRowIs
<1>5. \A i \in DOMAIN pool : pool[i].rank \in Ranks =>
        amount(i) \in Int /\ (amount(i) > 0 => 100 * amount(i) <= balance)
  BY ONLY <1>3, balance \in Int, AmountIsThere
<1>6. ASSUME NEW i \in DOMAIN pool
      PROVE  all[i] \in PrizeRows /\ Afforded(NormalRow(all[i]), balance)
  <2> DEFINE p == pool[i]
             a == amount(i)
             q == [type |-> p.type, dollars |-> a, weight |-> IF a <= 0 THEN 0 ELSE p.weight,
                   rank |-> p.rank, adv |-> p.adv]
  <2>1. all[i] = IF p.rank \notin Ranks THEN p ELSE q
    BY <1>6 DEF Awarded
  <2>2. p \in PrizeRows /\ NormalRow(p).rank = p.rank
    BY <1>4
  <2>3. p.rank \in Ranks => a \in Int /\ (a > 0 => 100 * a <= balance)
    BY <1>5
  <2> HIDE DEF p, a, all
  <2>4. CASE p.rank \notin Ranks
    <3>1. all[i] = p
      BY ONLY <2>1, <2>4
    <3>2. Afforded(NormalRow(p), balance)
      BY ONLY <2>2, <2>4 DEF Afforded
    <3> QED
      BY ONLY <2>2, <3>1, <3>2
  <2>5. CASE p.rank \in Ranks
    <3>1. all[i] = q
      BY ONLY <2>1, <2>5
    <3>2. q \in PrizeRows
      <4>1. p.type \in Texts /\ p.weight \in Int /\ p.rank \in Texts /\ p.adv \in BOOLEAN
        BY ONLY <2>2 DEF PrizeRows
      <4> QED
        BY ONLY <2>3, <2>5, <4>1 DEF PrizeRows
    <3>3. NormalRow(q).dollars \in {a, 0}
      <4>1. NormalRow(q).dollars \in {q.dollars, 0}
        BY ONLY <3>2, NormalRowIs
      <4> QED
        BY ONLY <4>1
    <3> HIDE DEF q
    <3>4. Afforded(NormalRow(q), balance)
      BY ONLY <2>3, <2>5, <3>3 DEF Afforded
    <3> QED
      BY ONLY <3>1, <3>2, <3>4
  <2> QED
    BY ONLY <2>4, <2>5
<1>7. all \in Seq(PrizeRows)
  <2>1. all \in [DOMAIN pool -> PrizeRows]
    <3>1. all = [i \in DOMAIN pool |-> all[i]] /\ DOMAIN all = DOMAIN pool
      OBVIOUS
    <3> HIDE DEF all
    <3> QED
      BY ONLY <1>6, <3>1
  <2> HIDE DEF all
  <2> QED
    BY ONLY <1>2, <2>1, SameLength
<1>8. DOMAIN all = DOMAIN pool
  OBVIOUS
<1> HIDE DEF all
<1>9. /\ NormalPool(all) \in Seq(PrizeRows)
      /\ \A k \in DOMAIN NormalPool(all) : \E i \in DOMAIN all : NormalPool(all)[k] = NormalRow(all[i])
  BY ONLY <1>7, NormalPoolIs
<1>10. AllAfforded(NormalPool(all), balance)
  BY ONLY <1>6, <1>8, <1>9 DEF AllAfforded
<1> QED
  BY ONLY <1>1, <1>9, <1>10

LEMMA NormalFundIs ==
  ASSUME NEW fund, fund.share \in [Ranks -> Int]
  PROVE  /\ NormalizeFund(fund).share \in [Ranks -> Int]
         /\ NormalizeFund(fund).enabled = fund.enabled
<1>1. \A r \in Ranks : ClampRate(fund.share[r]) \in Int
  <2> TAKE r \in Ranks
  <2>1. fund.share[r] \in Int
    OBVIOUS
  <2>2. ClampRate(fund.share[r]) \in 0..100
    BY ONLY <2>1, ClampIs
  <2> QED
    BY ONLY <2>2
<1>2. NormalizeFund(fund).share = [r \in Ranks |-> ClampRate(fund.share[r])]
  BY DEF NormalizeFund
<1>3. NormalizeFund(fund).enabled = fund.enabled
  BY DEF NormalizeFund
<1> QED
  BY ONLY <1>1, <1>2, <1>3

\* What a draw of a pool is worth is a rational number.
LEMMA WorthIsRational ==
  ASSUME NEW pool \in Seq(PrizeRows)
  PROVE  ExpectedValue(pool) \in Rationals
<1> DEFINE live == Live(pool)
           typed == [i \in DOMAIN pool |-> Typed(pool[i])]
           s == [i \in DOMAIN typed |-> Value(typed[i]) * typed[i].weight]
           f == [i \in DOMAIN pool |-> pool[i].weight]
           v == ValueOf(typed, live)
           w == WeightOf(pool, live)
<1>1. ExpectedValue(pool) = IF live = {} THEN <<0, 1>> ELSE <<v, w>>
  BY DEF ExpectedValue
<1>2. /\ live \in SUBSET DOMAIN pool /\ IsFiniteSet(live)
      /\ \A i \in live : f[i] \in Int /\ f[i] > 0
  BY Weighed
<1>3. \A i \in live : s[i] \in Int
  <2> TAKE i \in live
  <2>1. pool[i] \in PrizeRows /\ i \in DOMAIN pool
    BY Weighed
  <2>2. Typed(pool[i]) \in PrizeRows
    BY <2>1, TypedIs
  <2>3. Value(typed[i]) \in Int /\ typed[i].weight \in Int
    BY <2>1, <2>2, ValueIs
  <2>4. s[i] = Value(typed[i]) * typed[i].weight
    BY <2>1
  <2> HIDE DEF s, typed
  <2> QED
    BY ONLY <2>3, <2>4, Product
<1>4. v = Total(s, live) /\ w = Total(f, live)
  BY DEF ValueOf, WeightOf
<1> HIDE DEF v, w, s, f, live
<1>5. v \in Int
  BY ONLY <1>2, <1>3, <1>4, TotalInt
<1>6. w \in Nat /\ \A i \in live : f[i] <= w
  <2>1. \A i \in live : f[i] \in Int /\ f[i] >= 0
    BY ONLY <1>2
  <2> QED
    BY ONLY <1>2, <1>4, <2>1, TotalPositive
<1>7. live # {} => w \in Nat \ {0}
  BY ONLY <1>2, <1>6
<1>8. <<0, 1>> \in Rationals
  BY DEF Rationals
<1>9. live # {} => <<v, w>> \in Rationals
  BY ONLY <1>5, <1>7 DEF Rationals
<1> QED
  BY ONLY <1>1, <1>8, <1>9

(***************************************************************************)
(* The games of a configuration                                            *)
(***************************************************************************)

TheGames == {Games[i] : i \in DOMAIN Games}
AimedGames == [game : DOMAIN GameNames \cup TheGames, target : Rationals, actual : Rationals]

LEMMA GamesAre == Games \in Seq(TheGames) /\ Games[1] = "slot" /\ Games[2] = "scratch"
                  /\ "slot" \in TheGames /\ "scratch" \in TheGames
<1>1. DOMAIN Games = 1..3
  BY DEF Games
<1>2. Games[1] = "slot" /\ Games[2] = "scratch"
  BY DEF Games
<1>3. Games[1] \in TheGames /\ Games[2] \in TheGames
  BY <1>1 DEF TheGames
<1>4. Games \in Seq(TheGames)
  <2> DEFINE a == "slot"
             b == "scratch"
             c == "dragonboat"
  <2>1. Games = <<a, b, c>>
    BY DEF Games
  <2>2. Games[1] = a /\ Games[2] = b /\ Games[3] = c
    BY <2>1
  <2>3. a \in TheGames /\ b \in TheGames /\ c \in TheGames
    <3> HIDE DEF a, b, c
    <3> QED
      BY ONLY <1>1, <2>2 DEF TheGames
  <2> HIDE DEF a, b, c
  <2> QED
    BY ONLY <2>1, <2>3
<1> QED
  BY ONLY <1>2, <1>3, <1>4

\* The last one of a list's entries for each game has an aim.
LEMMA NormalGamesAre ==
  ASSUME NEW all \in Seq(AimedGames)
  PROVE  NormalGames(all) \in Seq(AimedGames)
<1> DEFINE of(game) == {i \in DOMAIN all : GameNames[all[i].game] = game}
           at == {i \in DOMAIN Games : of(Games[i]) # {}}
           present == Picked(Games, at)
           last(k) == all[Max(of(present[k]))]
           out == [k \in DOMAIN present |-> NormalGame(last(k))]
<1>1. NormalGames(all) = out
  BY DEF NormalGames
<1>2. /\ present \in Seq(TheGames)
      /\ \A k \in DOMAIN present : \E i \in at : present[k] = Games[i]
  <2>1. at \in SUBSET DOMAIN Games
    OBVIOUS
  <2> HIDE DEF at
  <2> QED
    BY ONLY <2>1, GamesAre, PickedSeq
<1>3. \A k \in DOMAIN present : present[k] \in TheGames /\ of(present[k]) # {}
  <2> TAKE k \in DOMAIN present
  <2>1. PICK i \in at : present[k] = Games[i]
    BY ONLY <1>2
  <2> QED
    BY ONLY <2>1 DEF TheGames
<1> HIDE DEF present
<1>4. \A i \in DOMAIN all : i \in Nat /\ all[i] \in AimedGames
  BY Entry
<1>5. IsFiniteSet(DOMAIN all)
  BY Positions
<1>6. ASSUME NEW k \in DOMAIN present PROVE NormalGame(last(k)) \in AimedGames
  <2> DEFINE S == of(present[k])
             m == Max(S)
             g == all[m]
  <2>1. S \in SUBSET DOMAIN all /\ \A i \in S : GameNames[all[i].game] = present[k]
    OBVIOUS
  <2> HIDE DEF S
  <2>2. S \in SUBSET Nat /\ S # {} /\ IsFiniteSet(S)
    <3>1. S # {}
      BY ONLY <1>3, <1>6 DEF S
    <3> QED
      BY ONLY <1>4, <1>5, <2>1, <3>1, FS_Subset
  <2>3. m \in S
    BY ONLY <2>2, LastOf
  <2> HIDE DEF m
  <2>4. g \in AimedGames /\ GameNames[g.game] = present[k]
    BY ONLY <1>4, <2>1, <2>3
  <2> HIDE DEF g
  <2>5. GameNames[g.game] \in TheGames
    BY ONLY <1>3, <1>6, <2>4
  <2>6. g.target \in Rationals /\ g.actual \in Rationals
    BY ONLY <2>4 DEF AimedGames
  <2>7. ExpectedValue(Default.pool) \in Rationals /\ <<0, 1>> \in Rationals
    <3>1. Default.pool \in Seq(PrizeRows)
      BY DefaultIsNormal
    <3>2. <<0, 1>> \in Rationals
      BY ONLY TRUE DEF Rationals
    <3> QED
      BY ONLY <3>1, <3>2, WorthIsRational
  <2>8. NormalGame(g) \in AimedGames
    <3> DEFINE target == IF g.target[1] <= 0 THEN ExpectedValue(Default.pool) ELSE g.target
               actual == IF g.actual[1] < 0 THEN <<0, 1>> ELSE g.actual
    <3>1. target \in Rationals /\ actual \in Rationals
      BY ONLY <2>6, <2>7
    <3>2. NormalGame(g) = [game |-> GameNames[g.game], target |-> target, actual |-> actual]
      BY ONLY TRUE DEF NormalGame
    <3> HIDE DEF target, actual
    <3> QED
      BY ONLY <2>5, <3>1, <3>2 DEF AimedGames
  <2>9. last(k) = g
    BY ONLY TRUE DEF g, m, S
  <2> QED
    BY ONLY <2>8, <2>9
<1>7. out \in [DOMAIN present -> AimedGames]
  BY ONLY <1>6
<1> HIDE DEF out
<1>8. out \in Seq(AimedGames)
  BY ONLY <1>2, <1>7, SameLength
<1> QED
  BY ONLY <1>1, <1>8

LEMMA GamesOfAre ==
  ASSUME NEW cfg, cfg.games \in {Nil} \cup Seq(AimedGames), NEW worth \in Rationals
  PROVE  GamesOf(cfg, worth) \in Seq(AimedGames)
<1> DEFINE slot == [game |-> "slot", target |-> worth, actual |-> worth]
           scratch == [game |-> "scratch", target |-> worth, actual |-> worth]
<1>1. slot \in AimedGames /\ scratch \in AimedGames
  <2>1. "slot" \in TheGames /\ "scratch" \in TheGames
    BY ONLY GamesAre
  <2> QED
    BY ONLY <2>1, worth \in Rationals DEF AimedGames
<1>2. Default.games \in Seq(AimedGames)
  <2>1. GameRows \in SUBSET AimedGames
    BY DEF GameRows, AimedGames
  <2>2. Default.games \in Seq(GameRows)
    BY DefaultIsNormal
  <2> QED
    BY ONLY <2>1, <2>2
<1> DEFINE list == IF cfg.games # Nil THEN Default.games \o cfg.games ELSE <<slot, scratch>>
<1>3. GamesOf(cfg, worth) = NormalGames(list)
  BY DEF GamesOf
<1> HIDE DEF slot, scratch
<1>4. <<slot, scratch>> \in Seq(AimedGames)
  BY ONLY <1>1
<1>5. cfg.games # Nil => Default.games \o cfg.games \in Seq(AimedGames)
  BY ONLY <1>2, cfg.games \in {Nil} \cup Seq(AimedGames)
<1>6. list \in Seq(AimedGames)
  BY ONLY <1>4, <1>5
<1> HIDE DEF list
<1> QED
  BY ONLY <1>3, <1>6, NormalGamesAre

(***************************************************************************)
(* The fund                                                                *)
(***************************************************************************)

\* What configurations that are typed in are made of, as far as prizes go.
PrizeConfig(raw) ==
  /\ raw.pool \in {Nil} \cup Seq(PrizeRows)
  /\ raw.games \in {Nil} \cup Seq(AimedGames)
  /\ raw.fund.share \in [Ranks -> Int]

\* A normalised configuration is one of them, and normalising it again keeps its fund open.
LEMMA NormalizedAgain ==
  ASSUME NEW raw, PrizeConfig(raw)
  PROVE  LET cfg == NormalizeConfig(raw)
         IN  /\ PrizeConfig(cfg)
             /\ cfg.fund.share \in [Ranks -> Int]
             /\ raw.fund.enabled => cfg.fund.enabled
             /\ cfg.games \in Seq(AimedGames)
             /\ \E given \in Seq(PrizeRows) : cfg.pool = NormalPool(given)
<1> DEFINE cfg == NormalizeConfig(raw)
           pool == IF raw.pool = Nil THEN Default.pool ELSE NormalPool(raw.pool)
           fund == IF IsZeroFund(raw.fund) THEN Default.fund ELSE raw.fund
<1>1. /\ cfg.pool = pool
      /\ cfg.games = GamesOf(raw, ExpectedValue(pool))
      /\ cfg.fund = NormalizeFund(fund)
  BY NormalizedIs
<1> HIDE DEF cfg
<1>2. /\ raw.pool \in {Nil} \cup Seq(PrizeRows) /\ raw.games \in {Nil} \cup Seq(AimedGames)
      /\ raw.fund.share \in [Ranks -> Int]
  BY DEF PrizeConfig
<1>3. \E given \in Seq(PrizeRows) : pool = NormalPool(given)
  <2>1. CASE raw.pool = Nil
    BY <2>1, DefaultIsNormal
  <2>2. CASE raw.pool # Nil
    BY <1>2, <2>2
  <2> QED
    BY <2>1, <2>2
<1> HIDE DEF pool
<1>4. pool \in Seq(PrizeRows)
  BY <1>3, NormalPoolIs
<1>5. cfg.games \in Seq(AimedGames)
  <2>1. ExpectedValue(pool) \in Rationals
    BY <1>4, WorthIsRational
  <2> QED
    BY ONLY <1>1, <1>2, <2>1, GamesOfAre
<1>6. fund.share \in [Ranks -> Int]
  <2>1. Default.fund.share \in [Ranks -> Int]
    BY ONLY DefaultIsNormal DEF Funds
  <2> QED
    BY <1>2, <2>1
<1>7. raw.fund.enabled => fund.enabled
  BY DEF IsZeroFund
<1> HIDE DEF fund
<1>8. cfg.fund.share \in [Ranks -> Int] /\ cfg.fund.enabled = fund.enabled
  BY ONLY <1>1, <1>6, NormalFundIs
<1>9. PrizeConfig(cfg)
  BY ONLY <1>1, <1>4, <1>5, <1>8 DEF PrizeConfig
<1> QED
  BY ONLY <1>1, <1>3, <1>5, <1>7, <1>8, <1>9 DEF cfg

\* What a slot draw works with.
LEMMA SpinConfigIs ==
  ASSUME NEW raw, PrizeConfig(raw), NormalizeConfig(raw).fund.enabled,
         NEW tier, NEW balance \in Int, NEW total \in Int
  PROVE  LET cfg == SpinConfig(raw, tier, total, balance)
         IN  /\ cfg.pool \in Seq(PrizeRows) /\ AllAfforded(cfg.pool, balance)
             /\ cfg.target \in Rationals /\ cfg.actual \in Rationals /\ cfg.draws \in Int
<1> DEFINE once == NormalizeConfig(raw)
           twice == NormalizeConfig(once)
           game == GameConfigFor(once, "slot")
           pool == DynamicPool(twice, balance)
           sc == SpinConfig(raw, tier, total, balance)
<1>1. /\ sc.pool = pool /\ sc.target = game.target /\ sc.actual = game.actual
      /\ sc.draws = total
  <2> DEFINE draws == IF total > 0 \/ once.fund.enabled THEN total ELSE DrawCountForTier(once, tier)
  <2>1. sc = SlotConfig(once, game, pool, draws)
    BY DEF SpinConfig, PoolWithDynamicAwards
  <2>2. draws = total
    OBVIOUS
  <2> HIDE DEF once, game, pool, draws, sc
  <2> QED
    BY ONLY <2>1, <2>2 DEF SlotConfig
<1>2. PrizeConfig(once) /\ once.fund.enabled
  BY NormalizedAgain
<1> HIDE DEF once, sc
<1>3. /\ twice.fund.share \in [Ranks -> Int] /\ twice.fund.enabled
      /\ twice.games \in Seq(AimedGames)
      /\ \E given \in Seq(PrizeRows) : twice.pool = NormalPool(given)
  BY ONLY <1>2, NormalizedAgain
<1> HIDE DEF twice
<1>4. pool \in Seq(PrizeRows) /\ AllAfforded(pool, balance)
  BY ONLY <1>3, balance \in Int, DynamicAfforded
<1>5. game.target \in Rationals /\ game.actual \in Rationals
  <2> DEFINE at == {i \in DOMAIN twice.games : twice.games[i].game = "slot"}
             known == Picked(twice.games, at)
             none == [game |-> "slot", target |-> <<0, 1>>, actual |-> <<0, 1>>]
  <2>1. game = IF known = <<>> THEN none ELSE known[1]
    BY DEF GameConfigFor, GamesNamed, twice
  <2>2. at \in SUBSET DOMAIN twice.games
    OBVIOUS
  <2> HIDE DEF game, at
  <2>3. known \in Seq(AimedGames)
    BY ONLY <1>3, <2>2, PickedSeq
  <2>4. none.target \in Rationals /\ none.actual \in Rationals
    BY DEF Rationals
  <2> HIDE DEF known, none
  <2>5. known # <<>> => known[1] \in AimedGames
    BY ONLY <2>3
  <2>6. known # <<>> => known[1].target \in Rationals /\ known[1].actual \in Rationals
    BY ONLY <2>5 DEF AimedGames
  <2> QED
    BY ONLY <2>1, <2>4, <2>6
<1> QED
  BY ONLY <1>1, <1>4, <1>5, total \in Int DEF sc

\* Whatever is configured, what is paid out of the fund is there.
LEMMA FundPays ==
  ASSUME NEW raw, PrizeConfig(raw), raw.rewards \in {Nil} \cup Seq(Int), raw.maxReveals \in Int,
         NEW tier, NEW balance \in Int, NEW n \in Int
  PROVE  PrizesAreCovered(raw, tier, balance, n)
<1> DEFINE sc == SpinConfig(raw, tier, 2, balance)
           prize == Spin(sc, tier, FALSE, 0, 2, 0, 0, n)
           rewards == ScratchRewards(raw, balance)
<1>1. SUFFICES ASSUME NormalizeConfig(raw).fund.enabled
               PROVE  Covered(prize, rewards, balance)
  BY DEF PrizesAreCovered
<1>2. /\ sc.pool \in Seq(PrizeRows) /\ AllAfforded(sc.pool, balance)
      /\ sc.target \in Rationals /\ sc.actual \in Rationals /\ sc.draws \in Int
  <2>1. 2 \in Int
    OBVIOUS
  <2> QED
    BY ONLY <1>1, <2>1, PrizeConfig(raw), balance \in Int, SpinConfigIs
<1> HIDE DEF sc
<1>3. IsPayoutPrize(prize) => 100 * prize.dollars <= balance
  BY ONLY <1>2, balance \in Int, n \in Int, SpinPaid
<1>4. \A i \in DOMAIN rewards : /\ 100 * rewards[i] <= Max({0, balance})
                                /\ i > 1 => rewards[i - 1] <= rewards[i]
  BY ONLY <1>1, raw.rewards \in {Nil} \cup Seq(Int), raw.maxReveals \in Int, balance \in Int,
     RewardsCovered
<1> HIDE DEF prize, rewards
<1> QED
  BY ONLY <1>3, <1>4 DEF Covered

(***************************************************************************)
(* Lists that are cleaned: some entries are kept, and each is put right    *)
(***************************************************************************)

\* The good entries of a list, each as F puts it.
Cleaned(list, good, F) ==
  LET kept == Picked(list, {i \in DOMAIN list : list[i] \in good})
  IN  [i \in DOMAIN kept |-> F[kept[i]]]

LEMMA CleanedIs ==
  ASSUME NEW X, NEW Y, NEW list \in Seq(X), NEW good, NEW F, \A x \in X \cap good : F[x] \in Y
  PROVE  /\ Cleaned(list, good, F) \in Seq(Y)
         /\ \A k \in DOMAIN Cleaned(list, good, F) :
              \E x \in X \cap good : Cleaned(list, good, F)[k] = F[x]
<1> DEFINE at == {i \in DOMAIN list : list[i] \in good}
           kept == Picked(list, at)
           out == [i \in DOMAIN kept |-> F[kept[i]]]
<1>1. Cleaned(list, good, F) = out
  BY DEF Cleaned
<1>2. at \in SUBSET DOMAIN list /\ \A i \in at : list[i] \in X \cap good
  BY Entry
<1> HIDE DEF at
<1>3. kept \in Seq(X) /\ \A k \in DOMAIN kept : \E i \in at : kept[k] = list[i]
  BY ONLY <1>2, list \in Seq(X), PickedSeq
<1> HIDE DEF kept
<1>4. \A k \in DOMAIN kept : kept[k] \in X \cap good
  BY ONLY <1>2, <1>3
<1>5. out \in [DOMAIN kept -> Y]
  BY ONLY <1>4, \A x \in X \cap good : F[x] \in Y
<1>6. \A k \in DOMAIN out : \E x \in X \cap good : out[k] = F[x]
  BY ONLY <1>4
<1> HIDE DEF out
<1>7. out \in Seq(Y)
  BY ONLY <1>3, <1>5, SameLength
<1> QED
  BY ONLY <1>1, <1>6, <1>7

\* A list of good entries that are right stays as it is.
LEMMA CleanStays ==
  ASSUME NEW X, NEW list \in Seq(X), NEW good, NEW F,
         \A i \in DOMAIN list : list[i] \in good /\ F[list[i]] = list[i]
  PROVE  Cleaned(list, good, F) = list
<1> DEFINE at == {i \in DOMAIN list : list[i] \in good}
<1>1. at = DOMAIN list
  OBVIOUS
<1>2. Picked(list, at) = list
  BY ONLY <1>1, list \in Seq(X), PickedAll
<1> HIDE DEF at
<1>3. Cleaned(list, good, F) = [i \in DOMAIN list |-> F[list[i]]]
  BY ONLY <1>2 DEF Cleaned, at
<1>4. list = [i \in DOMAIN list |-> list[i]]
  OBVIOUS
<1> QED
  BY ONLY <1>3, <1>4, \A i \in DOMAIN list : list[i] \in good /\ F[list[i]] = list[i]

\* Cleaning twice is cleaning once, if what is right stays right.
LEMMA CleanedTwice ==
  ASSUME NEW X, NEW list \in Seq(X), NEW good, NEW F,
         \A x \in X \cap good : F[x] \in X \cap good /\ F[F[x]] = F[x]
  PROVE  /\ Cleaned(list, good, F) \in Seq(X)
         /\ Cleaned(Cleaned(list, good, F), good, F) = Cleaned(list, good, F)
<1> DEFINE out == Cleaned(list, good, F)
<1>1. out \in Seq(X) /\ \A k \in DOMAIN out : \E x \in X \cap good : out[k] = F[x]
  BY CleanedIs
<1> HIDE DEF out
<1>2. \A k \in DOMAIN out : out[k] \in good /\ F[out[k]] = out[k]
  BY ONLY <1>1, \A x \in X \cap good : F[x] \in X \cap good /\ F[F[x]] = F[x]
<1>3. Cleaned(out, good, F) = out
  BY ONLY <1>1, <1>2, CleanStays
<1> QED
  BY ONLY <1>1, <1>3 DEF out

(***************************************************************************)
(* The parts of a configuration, normalised twice                          *)
(***************************************************************************)

LEMMA PositiveTwice ==
  ASSUME NEW rewards \in Seq(Int)
  PROVE  PositiveOf(rewards) \in Seq(Int) /\ PositiveOf(PositiveOf(rewards)) = PositiveOf(rewards)
<1> DEFINE good == {n \in Int : n > 0}
           F == [n \in Int |-> n]
<1>1. ASSUME NEW list \in Seq(Int) PROVE PositiveOf(list) = Cleaned(list, good, F)
  <2> DEFINE at == {i \in DOMAIN list : list[i] > 0}
             kept == Picked(list, at)
  <2>1. at = {i \in DOMAIN list : list[i] \in good}
    <3>1. \A i \in DOMAIN list : list[i] \in Int
      BY Entry
    <3> QED
      BY ONLY <3>1
  <2>2. PositiveOf(list) = kept
    BY DEF PositiveOf
  <2>3. kept \in Seq(Int)
    <3>1. at \in SUBSET DOMAIN list
      OBVIOUS
    <3> HIDE DEF at
    <3> QED
      BY ONLY <1>1, <3>1, PickedSeq
  <2>4. Cleaned(list, good, F) = [i \in DOMAIN kept |-> F[kept[i]]]
    <3> HIDE DEF at, good, F
    <3> QED
      BY ONLY <2>1 DEF Cleaned
  <2> HIDE DEF kept, good
  <2>5. \A i \in DOMAIN kept : F[kept[i]] = kept[i]
    BY ONLY <2>3, Entry
  <2>6. kept = [i \in DOMAIN kept |-> kept[i]]
    BY ONLY <2>3
  <2> HIDE DEF F
  <2> QED
    BY ONLY <2>2, <2>4, <2>5, <2>6
<1>2. \A n \in Int \cap good : F[n] \in Int \cap good /\ F[F[n]] = F[n]
  OBVIOUS
<1> HIDE DEF good, F
<1>3. /\ Cleaned(rewards, good, F) \in Seq(Int)
      /\ Cleaned(Cleaned(rewards, good, F), good, F) = Cleaned(rewards, good, F)
  BY ONLY <1>2, rewards \in Seq(Int), CleanedTwice
<1>4. PositiveOf(rewards) = Cleaned(rewards, good, F)
  BY ONLY <1>1, rewards \in Seq(Int)
<1>5. PositiveOf(PositiveOf(rewards)) = Cleaned(PositiveOf(rewards), good, F)
  BY ONLY <1>1, <1>3, <1>4
<1> QED
  BY ONLY <1>3, <1>4, <1>5

\* A row that is normal stays as it is.
LEMMA RowTwice ==
  ASSUME NEW p \in PrizeRows
  PROVE  /\ NormalRow(p) \in PrizeRows /\ NormalRow(p).weight = p.weight
         /\ NormalRow(NormalRow(p)) = NormalRow(p)
<1> DEFINE t == Typed(p)
           none == ""
           win == "win"
           d == DefaultRank(t.type, t.dollars)
           ranked == [type |-> t.type, dollars |-> t.dollars, weight |-> t.weight,
                      rank |-> IF t.rank = none THEN d ELSE t.rank, adv |-> TRUE]
           q == NormalRow(p)
<1>1. t \in PrizeRows /\ t.type # none /\ t.weight = p.weight
  BY TypedIs
<1>2. t.dollars = IF t.type = win THEN p.dollars ELSE 0
  BY DEF Typed
<1>3. q = IF d = none THEN t ELSE ranked
  BY DEF NormalRow, WithDefaultRank, DefaultRank
<1>4. q \in PrizeRows
  BY NormalRowIs
<1> HIDE DEF t
<1>5. t.type # win => t.dollars = 0
  <2> HIDE DEF win
  <2> QED
    BY ONLY <1>2
<1>6. q.type = t.type /\ q.dollars = t.dollars /\ q.weight = t.weight
  <2> HIDE DEF d, none, q
  <2> QED
    BY ONLY <1>3
<1>7. d # none => q.rank # none /\ q.adv = TRUE
  <2> HIDE DEF d, none, q
  <2> QED
    BY ONLY <1>3
<1> HIDE DEF q, d, none, win, ranked
<1>8. Typed(q) = [type |-> q.type, dollars |-> q.dollars, weight |-> q.weight, rank |-> q.rank,
                  adv |-> q.adv]
  <2>1. Typed(q) = [type |-> IF q.type # none THEN q.type
                             ELSE IF q.dollars > 0 THEN win ELSE "miss",
                    dollars |-> IF (IF q.type # none THEN q.type
                                    ELSE IF q.dollars > 0 THEN win ELSE "miss") = win
                                THEN q.dollars ELSE 0,
                    weight |-> q.weight, rank |-> q.rank, adv |-> q.adv]
    BY ONLY TRUE DEF Typed, none, win
  <2> QED
    BY ONLY <1>1, <1>5, <1>6, <2>1
<1>9. q = [type |-> q.type, dollars |-> q.dollars, weight |-> q.weight, rank |-> q.rank,
           adv |-> q.adv]
  BY ONLY <1>4 DEF PrizeRows
<1>10. Typed(q) = q
  BY ONLY <1>8, <1>9
<1>11. WithDefaultRank(q) = IF d = none THEN q
         ELSE [type |-> q.type, dollars |-> q.dollars, weight |-> q.weight,
               rank |-> IF q.rank = none THEN d ELSE q.rank, adv |-> TRUE]
  <2>1. DefaultRank(q.type, q.dollars) = d
    BY ONLY <1>6 DEF d
  <2>2. WithDefaultRank(q) = IF DefaultRank(q.type, q.dollars) = none THEN q
         ELSE [type |-> q.type, dollars |-> q.dollars, weight |-> q.weight,
               rank |-> IF q.rank = none THEN DefaultRank(q.type, q.dollars) ELSE q.rank, adv |-> TRUE]
    BY ONLY TRUE DEF WithDefaultRank, DefaultRank, none
  <2> QED
    BY ONLY <2>1, <2>2
<1>12. WithDefaultRank(q) = q
  BY ONLY <1>7, <1>9, <1>11
<1>13. NormalRow(q) = q
  BY ONLY <1>10, <1>12 DEF NormalRow
<1> QED
  BY ONLY <1>1, <1>4, <1>6, <1>13 DEF q

LEMMA PoolTwice ==
  ASSUME NEW pool \in Seq(PrizeRows)
  PROVE  NormalPool(pool) \in Seq(PrizeRows) /\ NormalPool(NormalPool(pool)) = NormalPool(pool)
<1> DEFINE good == {p \in PrizeRows : p.weight > 0}
           F == [p \in PrizeRows |-> NormalRow(p)]
<1>1. ASSUME NEW list \in Seq(PrizeRows) PROVE NormalPool(list) = Cleaned(list, good, F)
  <2> DEFINE kept == Picked(list, Live(list))
  <2>1. \A i \in DOMAIN list : list[i] \in PrizeRows
    BY Entry
  <2>2. Live(list) = {i \in DOMAIN list : list[i] \in good}
    BY ONLY <2>1 DEF Live
  <2>3. NormalPool(list) = [i \in DOMAIN kept |-> NormalRow(kept[i])]
    BY DEF NormalPool, NormalRow
  <2>4. kept \in Seq(PrizeRows)
    BY Weighed, PickedSeq
  <2>5. Cleaned(list, good, F) = [i \in DOMAIN kept |-> F[kept[i]]]
    <3> HIDE DEF good, F
    <3> QED
      BY ONLY <2>2 DEF Cleaned
  <2> HIDE DEF kept, good
  <2>6. \A i \in DOMAIN kept : F[kept[i]] = NormalRow(kept[i])
    BY ONLY <2>4, Entry
  <2> HIDE DEF F
  <2> QED
    BY ONLY <2>3, <2>5, <2>6
<1>2. \A p \in PrizeRows \cap good : F[p] \in PrizeRows \cap good /\ F[F[p]] = F[p]
  <2> TAKE p \in PrizeRows \cap good
  <2>1. /\ NormalRow(p) \in PrizeRows /\ NormalRow(p).weight = p.weight
        /\ NormalRow(NormalRow(p)) = NormalRow(p)
    BY RowTwice
  <2>2. F[p] = NormalRow(p) /\ F[NormalRow(p)] = NormalRow(NormalRow(p))
    BY ONLY <2>1, p \in PrizeRows \cap good
  <2>3. NormalRow(p) \in good
    BY ONLY <2>1, p \in PrizeRows \cap good
  <2> HIDE DEF F, good
  <2> QED
    BY ONLY <2>1, <2>2, <2>3
<1> HIDE DEF good, F
<1>3. /\ Cleaned(pool, good, F) \in Seq(PrizeRows)
      /\ Cleaned(Cleaned(pool, good, F), good, F) = Cleaned(pool, good, F)
  BY ONLY <1>2, pool \in Seq(PrizeRows), CleanedTwice
<1>4. NormalPool(pool) = Cleaned(pool, good, F)
  BY ONLY <1>1, pool \in Seq(PrizeRows)
<1>5. NormalPool(NormalPool(pool)) = Cleaned(NormalPool(pool), good, F)
  BY ONLY <1>1, <1>3, <1>4
<1> QED
  BY ONLY <1>3, <1>4, <1>5

LEMMA AtLeastNone ==
  ASSUME NEW n \in Int
  PROVE  Max({0, n}) \in Nat /\ (n >= 0 => Max({0, n}) = n) /\ Max({0, Max({0, n})}) = Max({0, n})
<1>1. \A k \in Int : Max({0, k}) = IF 0 >= k THEN 0 ELSE k
  <2> TAKE k \in Int
  <2> QED
    BY ONLY 0 \in Int, k \in Int, OfTwo
<1> DEFINE m == Max({0, n})
<1>2. m \in Nat /\ (n >= 0 => m = n)
  BY ONLY <1>1, n \in Int
<1> HIDE DEF m
<1>3. Max({0, m}) = m
  BY ONLY <1>1, <1>2
<1> QED
  BY ONLY <1>2, <1>3 DEF m

LEMMA RuleWith ==
  ASSUME NEW g \in GuaranteeRows, NEW a, NEW b
  PROVE  [g EXCEPT !.remaining = a, !.below = b]
           = [tier |-> g.tier, remaining |-> a, below |-> b, prize |-> g.prize]
<1> DEFINE h == [g EXCEPT !.remaining = a]
<1>1. g = [tier |-> g.tier, remaining |-> g.remaining, below |-> g.below, prize |-> g.prize]
  BY DEF GuaranteeRows
<1>2. [g EXCEPT !.remaining = a, !.below = b] = [h EXCEPT !.below = b]
  OBVIOUS
<1>3. h = [tier |-> g.tier, remaining |-> a, below |-> g.below, prize |-> g.prize]
  BY ONLY <1>1
<1>4. [h EXCEPT !.below = b]
        = [tier |-> h.tier, remaining |-> h.remaining, below |-> b, prize |-> h.prize]
  <2>1. h = [tier |-> h.tier, remaining |-> h.remaining, below |-> h.below, prize |-> h.prize]
    BY ONLY <1>3
  <2> HIDE DEF h
  <2> QED
    BY ONLY <2>1
<1> QED
  BY ONLY <1>2, <1>3, <1>4

LEMMA GuaranteesTwice ==
  ASSUME NEW rules \in Seq(GuaranteeRows)
  PROVE  /\ NormalGuarantees(rules) \in Seq(GuaranteeRows)
         /\ NormalGuarantees(NormalGuarantees(rules)) = NormalGuarantees(rules)
<1> DEFINE good == {g \in GuaranteeRows : g.tier > 0 /\ g.prize > 0}
           right(g) == [g EXCEPT !.remaining = Max({0, @}), !.below = Max({0, @})]
           F == [g \in GuaranteeRows |-> right(g)]
<1>1. ASSUME NEW list \in Seq(GuaranteeRows) PROVE NormalGuarantees(list) = Cleaned(list, good, F)
  <2> DEFINE at == {i \in DOMAIN list : list[i].tier > 0 /\ list[i].prize > 0}
             kept == Picked(list, at)
  <2>1. at = {i \in DOMAIN list : list[i] \in good}
    <3>1. \A i \in DOMAIN list : list[i] \in GuaranteeRows
      BY Entry
    <3> QED
      BY ONLY <3>1
  <2>2. NormalGuarantees(list) = [i \in DOMAIN kept |-> right(kept[i])]
    BY DEF NormalGuarantees
  <2>3. kept \in Seq(GuaranteeRows)
    <3>1. at \in SUBSET DOMAIN list
      OBVIOUS
    <3> HIDE DEF at
    <3> QED
      BY ONLY <1>1, <3>1, PickedSeq
  <2>4. Cleaned(list, good, F) = [i \in DOMAIN kept |-> F[kept[i]]]
    <3> HIDE DEF at, good, F
    <3> QED
      BY ONLY <2>1 DEF Cleaned
  <2> HIDE DEF kept, good, right
  <2>5. \A i \in DOMAIN kept : F[kept[i]] = right(kept[i])
    BY ONLY <2>3, Entry
  <2> HIDE DEF F
  <2> QED
    BY ONLY <2>2, <2>4, <2>5
<1>2. ASSUME NEW g \in GuaranteeRows \cap good
      PROVE  F[g] \in GuaranteeRows \cap good /\ F[F[g]] = F[g]
  <2> DEFINE a == Max({0, g.remaining})
             b == Max({0, g.below})
             h == [tier |-> g.tier, remaining |-> a, below |-> b, prize |-> g.prize]
  <2>1. g.tier \in Int /\ g.remaining \in Int /\ g.below \in Int /\ g.prize \in Int
    BY ONLY <1>2 DEF GuaranteeRows
  <2>2. a \in Nat /\ b \in Nat /\ Max({0, a}) = a /\ Max({0, b}) = b
    BY ONLY <2>1, AtLeastNone
  <2>3. right(g) = h
    <3>1. right(g) = [g EXCEPT !.remaining = a, !.below = b]
      BY ONLY TRUE
    <3> HIDE DEF a, b, right
    <3> QED
      BY ONLY <1>2, <3>1, RuleWith
  <2> HIDE DEF a, b
  <2>4. h \in GuaranteeRows /\ h \in good
    BY ONLY <1>2, <2>1, <2>2 DEF GuaranteeRows
  <2>5. right(h) = h
    <3> DEFINE c == Max({0, h.remaining})
               e == Max({0, h.below})
    <3>1. right(h) = [h EXCEPT !.remaining = c, !.below = e]
      BY ONLY TRUE
    <3>2. c = a /\ e = b
      BY ONLY <2>2
    <3> HIDE DEF c, e, right
    <3>3. right(h) = [tier |-> h.tier, remaining |-> c, below |-> e, prize |-> h.prize]
      <4>1. h \in GuaranteeRows
        BY ONLY <2>4
      <4> HIDE DEF h
      <4> QED
        BY ONLY <3>1, <4>1, RuleWith
    <3> QED
      BY ONLY <3>2, <3>3
  <2> HIDE DEF h, right
  <2>6. F[g] = h /\ F[h] = h
    BY ONLY <1>2, <2>3, <2>4, <2>5
  <2> QED
    BY ONLY <2>4, <2>6
<1> HIDE DEF good, F
<1>3. /\ Cleaned(rules, good, F) \in Seq(GuaranteeRows)
      /\ Cleaned(Cleaned(rules, good, F), good, F) = Cleaned(rules, good, F)
  BY ONLY <1>2, rules \in Seq(GuaranteeRows), CleanedTwice
<1>4. NormalGuarantees(rules) = Cleaned(rules, good, F)
  BY ONLY <1>1, rules \in Seq(GuaranteeRows)
<1>5. NormalGuarantees(NormalGuarantees(rules)) = Cleaned(NormalGuarantees(rules), good, F)
  BY ONLY <1>1, <1>3, <1>4
<1> QED
  BY ONLY <1>3, <1>4, <1>5

LEMMA MappingWith ==
  ASSUME NEW titles, NEW m \in MappingRows(titles), NEW a
  PROVE  [m EXCEPT !.match = a]
           = [plan |-> m.plan, title |-> m.title, match |-> a, dollars |-> m.dollars]
BY DEF MappingRows

LEMMA MatchesAre ==
  /\ "" \in Texts \cup {"exact", "contains"} /\ "exact" \in Texts \cup {"exact", "contains"}
  /\ "contains" \in Texts \cup {"exact", "contains"}
  /\ "exact" # "" /\ "contains" # "" /\ "contains" # "exact"
BY DEF Texts

LEMMA MappingsTwice ==
  ASSUME NEW titles, NEW mappings \in Seq(MappingRows(titles))
  PROVE  /\ NormalMappings(mappings) \in Seq(MappingRows(titles))
         /\ NormalMappings(NormalMappings(mappings)) = NormalMappings(mappings)
<1> DEFINE rows == MappingRows(titles)
           none == ""
           exact == "exact"
           contains == "contains"
           good == {m \in rows : m.dollars > 0 /\ (m.plan > 0 \/ m.title # <<>>)}
           how(m) == IF m.match = none /\ m.title = <<>> THEN none
                     ELSE IF m.match = exact THEN exact ELSE contains
           right(m) == [m EXCEPT !.match = how(m)]
           F == [m \in rows |-> right(m)]
           matches == Texts \cup {"exact", "contains"}
<1>0. /\ none \in matches /\ exact \in matches /\ contains \in matches
      /\ exact # none /\ contains # none /\ contains # exact
  BY MatchesAre
<1>1. ASSUME NEW list \in Seq(rows) PROVE NormalMappings(list) = Cleaned(list, good, F)
  <2> DEFINE at == {i \in DOMAIN list : /\ list[i].dollars > 0
                                        /\ list[i].plan > 0 \/ list[i].title # <<>>}
             kept == Picked(list, at)
  <2>1. at = {i \in DOMAIN list : list[i] \in good}
    <3>1. \A i \in DOMAIN list : list[i] \in rows
      BY Entry
    <3> HIDE DEF rows
    <3> QED
      BY ONLY <3>1
  <2>2. NormalMappings(list) = [i \in DOMAIN kept |-> right(kept[i])]
    BY DEF NormalMappings
  <2>3. kept \in Seq(rows)
    <3>1. at \in SUBSET DOMAIN list
      OBVIOUS
    <3> HIDE DEF at, rows
    <3> QED
      BY ONLY <1>1, <3>1, PickedSeq
  <2>4. Cleaned(list, good, F) = [i \in DOMAIN kept |-> F[kept[i]]]
    <3> HIDE DEF at, good, F
    <3> QED
      BY ONLY <2>1 DEF Cleaned
  <2> HIDE DEF kept, good, right, rows
  <2>5. \A i \in DOMAIN kept : F[kept[i]] = right(kept[i])
    BY ONLY <2>3, Entry
  <2> HIDE DEF F
  <2> QED
    BY ONLY <2>2, <2>4, <2>5
<1>2. ASSUME NEW m \in rows \cap good
      PROVE  F[m] \in rows \cap good /\ F[F[m]] = F[m]
  <2> DEFINE a == how(m)
             h == [plan |-> m.plan, title |-> m.title, match |-> a, dollars |-> m.dollars]
  <2>1. m.plan \in Int /\ m.title \in titles /\ m.match \in matches /\ m.dollars \in Int
    BY ONLY <1>2 DEF MappingRows
  <2>2. right(m) = h
    <3>1. right(m) = [m EXCEPT !.match = a]
      BY ONLY TRUE
    <3>2. m \in MappingRows(titles)
      BY ONLY <1>2
    <3> HIDE DEF a, right
    <3> QED
      BY ONLY <3>1, <3>2, MappingWith
  <2> HIDE DEF none, exact, contains, matches
  <2>3. a \in matches
    BY ONLY <1>0
  <2>4. (IF a = none /\ m.title = <<>> THEN none ELSE IF a = exact THEN exact ELSE contains) = a
    BY ONLY <1>0
  <2> HIDE DEF a
  <2>5. h \in rows /\ h \in good
    <3>1. h \in rows
      BY ONLY <2>1, <2>3 DEF MappingRows, matches
    <3>2. m.dollars > 0 /\ (m.plan > 0 \/ m.title # <<>>)
      BY ONLY <1>2
    <3> HIDE DEF rows
    <3> QED
      BY ONLY <3>1, <3>2
  <2>6. right(h) = h
    <3> DEFINE c == how(h)
    <3>1. right(h) = [h EXCEPT !.match = c]
      BY ONLY TRUE
    <3>2. c = a
      BY ONLY <2>4
    <3>3. h \in MappingRows(titles)
      BY ONLY <2>5
    <3> HIDE DEF c, right
    <3>4. right(h) = [plan |-> h.plan, title |-> h.title, match |-> c, dollars |-> h.dollars]
      <4> HIDE DEF h
      <4> QED
        BY ONLY <3>1, <3>3, MappingWith
    <3> QED
      BY ONLY <3>2, <3>4
  <2> HIDE DEF h
  <2>7. F[m] = h /\ F[h] = h
    <3> HIDE DEF rows, good, right
    <3> QED
      BY ONLY <1>2, <2>2, <2>5, <2>6
  <2> QED
    BY ONLY <2>5, <2>7
<1> HIDE DEF good, F
<1>3. /\ Cleaned(mappings, good, F) \in Seq(rows)
      /\ Cleaned(Cleaned(mappings, good, F), good, F) = Cleaned(mappings, good, F)
  <2> HIDE DEF rows
  <2>1. mappings \in Seq(rows)
    BY DEF rows
  <2> QED
    BY ONLY <1>2, <2>1, CleanedTwice
<1>4. NormalMappings(mappings) = Cleaned(mappings, good, F)
  BY ONLY <1>1, mappings \in Seq(MappingRows(titles))
<1>5. NormalMappings(NormalMappings(mappings)) = Cleaned(NormalMappings(mappings), good, F)
  BY ONLY <1>1, <1>3, <1>4
<1> QED
  BY ONLY <1>3, <1>4, <1>5

LEMMA SpinMapTwice ==
  ASSUME NEW map, IsSpinMap(map)
  PROVE  /\ IsSpinMap(NormalSpinMap(map))
         /\ NormalSpinMap(NormalSpinMap(map)) = NormalSpinMap(map)
<1> DEFINE kept == {d \in DOMAIN map : d > 0 /\ map[d] > 0}
           out == [d \in kept |-> map[d]]
<1>1. NormalSpinMap(map) = out
  BY DEF NormalSpinMap
<1>2. DOMAIN map \in SUBSET Int /\ map \in [DOMAIN map -> Int] /\ out # Nil
  BY <1>1 DEF IsSpinMap
<1>3. kept \in SUBSET Int /\ kept \in SUBSET DOMAIN map /\ \A d \in kept : d > 0 /\ map[d] > 0
  BY ONLY <1>2
<1> HIDE DEF kept
<1>4. DOMAIN out = kept /\ out \in [kept -> Int] /\ \A d \in kept : d > 0 /\ out[d] > 0
  BY ONLY <1>2, <1>3
<1> HIDE DEF out
<1>5. NormalSpinMap(out) = out
  <2> DEFINE again == {d \in DOMAIN out : d > 0 /\ out[d] > 0}
  <2>1. again = kept
    BY ONLY <1>4
  <2>2. NormalSpinMap(out) = [d \in again |-> out[d]]
    BY DEF NormalSpinMap
  <2> HIDE DEF again
  <2> QED
    BY ONLY <1>4, <2>1, <2>2
<1>6. IsSpinMap(out)
  BY ONLY <1>2, <1>3, <1>4, <1>5 DEF IsSpinMap
<1> QED
  BY ONLY <1>1, <1>5, <1>6

\* What a card of a tier brings in and costs.
Economics == [tier : Int, revenue : Int, cost : Int]

LEMMA EconomicsTwice ==
  ASSUME NEW fund, fund.economics \in Seq(Economics)
  PROVE  LET out == NormalizeFund(fund).economics
         IN  out \in Seq(Economics) /\ NormalizeFund(NormalizeFund(fund)).economics = out
<1> DEFINE good == {e \in Economics : e.tier > 0}
           right(e) == [tier |-> e.tier, revenue |-> Max({0, e.revenue}), cost |-> Max({0, e.cost})]
           F == [e \in Economics |-> right(e)]
<1>1. ASSUME NEW f, f.economics \in Seq(Economics)
      PROVE  NormalizeFund(f).economics = Cleaned(f.economics, good, F)
  <2> DEFINE list == f.economics
             at == {i \in DOMAIN list : list[i].tier > 0}
             kept == Picked(list, at)
  <2>0. list \in Seq(Economics)
    BY ONLY <1>1
  <2>1. at = {i \in DOMAIN list : list[i] \in good}
    <3>1. \A i \in DOMAIN list : list[i] \in Economics
      BY <2>0, Entry
    <3> HIDE DEF list
    <3> QED
      BY ONLY <3>1
  <2>2. NormalizeFund(f).economics = [i \in DOMAIN kept |-> right(kept[i])]
    BY DEF NormalizeFund
  <2> HIDE DEF list
  <2>3. kept \in Seq(Economics)
    <3>1. at \in SUBSET DOMAIN list
      OBVIOUS
    <3> HIDE DEF at
    <3> QED
      BY ONLY <2>0, <3>1, PickedSeq
  <2>4. Cleaned(list, good, F) = [i \in DOMAIN kept |-> F[kept[i]]]
    <3> HIDE DEF at, good, F
    <3> QED
      BY ONLY <2>1 DEF Cleaned
  <2> HIDE DEF kept, good, right
  <2>5. \A i \in DOMAIN kept : F[kept[i]] = right(kept[i])
    BY ONLY <2>3, Entry
  <2> HIDE DEF F
  <2>6. NormalizeFund(f).economics = Cleaned(list, good, F)
    BY ONLY <2>2, <2>4, <2>5
  <2> QED
    BY ONLY <2>6 DEF list
<1>2. ASSUME NEW e \in Economics \cap good
      PROVE  F[e] \in Economics \cap good /\ F[F[e]] = F[e]
  <2> DEFINE a == Max({0, e.revenue})
             b == Max({0, e.cost})
             h == [tier |-> e.tier, revenue |-> a, cost |-> b]
  <2>1. e.tier \in Int /\ e.revenue \in Int /\ e.cost \in Int
    BY ONLY <1>2 DEF Economics
  <2>2. a \in Nat /\ b \in Nat /\ Max({0, a}) = a /\ Max({0, b}) = b
    BY ONLY <2>1, AtLeastNone
  <2>3. right(e) = h
    BY ONLY TRUE
  <2> HIDE DEF a, b
  <2>4. h \in Economics /\ h \in good
    BY ONLY <1>2, <2>1, <2>2 DEF Economics
  <2>5. right(h) = h
    <3> DEFINE c == Max({0, h.revenue})
               d == Max({0, h.cost})
    <3>1. c = a /\ d = b
      BY ONLY <2>2
    <3>2. right(h) = [tier |-> h.tier, revenue |-> c, cost |-> d]
      BY ONLY TRUE
    <3> HIDE DEF c, d, right
    <3> QED
      BY ONLY <3>1, <3>2
  <2> HIDE DEF h, right
  <2>6. F[e] = h /\ F[h] = h
    BY ONLY <1>2, <2>3, <2>4, <2>5
  <2> QED
    BY ONLY <2>4, <2>6
<1> HIDE DEF good, F
<1> DEFINE out == Cleaned(fund.economics, good, F)
           next == NormalizeFund(fund)
<1>3. out \in Seq(Economics) /\ Cleaned(out, good, F) = out
  BY ONLY <1>2, fund.economics \in Seq(Economics), CleanedTwice
<1>4. next.economics = out
  BY ONLY <1>1, fund.economics \in Seq(Economics)
<1> HIDE DEF out, next
<1>5. NormalizeFund(next).economics = Cleaned(next.economics, good, F)
  BY ONLY <1>1, <1>3, <1>4
<1> QED
  BY ONLY <1>3, <1>4, <1>5 DEF next

LEMMA ClampTwice ==
  ASSUME NEW r \in Int
  PROVE  ClampRate(r) \in Int /\ ClampRate(ClampRate(r)) = ClampRate(r)
<1>1. \A k \in Int : ClampRate(k) = IF k >= 100 THEN 100 ELSE IF k >= 0 THEN k ELSE 0
  <2> TAKE k \in Int
  <2> DEFINE m == Min({100, k})
  <2>1. m = IF 100 <= k THEN 100 ELSE k
    BY ONLY 100 \in Int, k \in Int, OfTwo
  <2>2. ClampRate(k) = Max({0, m})
    BY DEF ClampRate
  <2> HIDE DEF m
  <2>3. m \in Int
    BY ONLY <2>1, k \in Int
  <2>4. Max({0, m}) = IF 0 >= m THEN 0 ELSE m
    BY ONLY 0 \in Int, <2>3, OfTwo
  <2> QED
    BY ONLY <2>1, <2>2, <2>4, k \in Int
<1> QED
  BY ONLY <1>1, r \in Int

LEMMA FundTwice ==
  ASSUME NEW fund \in Funds
  PROVE  NormalizeFund(fund) \in Funds /\ NormalizeFund(NormalizeFund(fund)) = NormalizeFund(fund)
<1> DEFINE next == NormalizeFund(fund)
           last == NormalizeFund(next)
<1>1. /\ fund.enabled \in BOOLEAN /\ fund.contribution \in Int /\ fund.share \in [Ranks -> Int]
      /\ fund.economics \in Seq(Economics)
  BY DEF Funds, Economics
<1>2. next.economics \in Seq(Economics) /\ last.economics = next.economics
  BY ONLY <1>1, EconomicsTwice
<1>3. /\ next = [enabled |-> next.enabled, contribution |-> next.contribution,
                 share |-> next.share, economics |-> next.economics]
      /\ last = [enabled |-> last.enabled, contribution |-> last.contribution,
                 share |-> last.share, economics |-> last.economics]
  BY DEF NormalizeFund
<1>4. /\ next.enabled = fund.enabled /\ next.contribution = ClampRate(fund.contribution)
      /\ next.share = [r \in Ranks |-> ClampRate(fund.share[r])]
  BY DEF NormalizeFund
<1>5. /\ last.enabled = next.enabled /\ last.contribution = ClampRate(next.contribution)
      /\ last.share = [r \in Ranks |-> ClampRate(next.share[r])]
  BY DEF NormalizeFund
<1> HIDE DEF next, last
<1>6. next.contribution \in Int /\ last.contribution = next.contribution
  BY ONLY <1>1, <1>4, <1>5, ClampTwice
<1>7. next.share \in [Ranks -> Int] /\ last.share = next.share
  <2>1. \A r \in Ranks : next.share[r] \in Int /\ ClampRate(next.share[r]) = next.share[r]
    <3> TAKE r \in Ranks
    <3>1. fund.share[r] \in Int
      BY ONLY <1>1
    <3>2. next.share[r] = ClampRate(fund.share[r])
      BY ONLY <1>4
    <3> QED
      BY ONLY <3>1, <3>2, ClampTwice
  <2> QED
    BY ONLY <1>4, <1>5, <2>1
<1>8. next \in Funds
  BY ONLY <1>1, <1>2, <1>3, <1>4, <1>6, <1>7 DEF Funds, Economics
<1>9. last = next
  BY ONLY <1>2, <1>3, <1>5, <1>6, <1>7
<1> QED
  BY ONLY <1>8, <1>9 DEF next, last

(***************************************************************************)
(* Routes                                                                  *)
(***************************************************************************)

LEMMA NamesAre ==
  /\ \A g \in TheGames : g \in DOMAIN GameNames /\ GameNames[g] = g /\ g # ""
  /\ \A n \in DOMAIN GameNames : GameNames[n] # "" => GameNames[n] \in TheGames
  /\ TheGames = Range(Games)
<1>1. \A i \in DOMAIN Games : Games[i] # ""
  <2> DEFINE empty == ""
  <2>1. DOMAIN Games = 1..3
    BY DEF Games
  <2>2. Games[1] # empty /\ Games[2] # empty /\ Games[3] # empty
    BY DEF Games
  <2> HIDE DEF empty
  <2>3. \A i \in DOMAIN Games : Games[i] # empty
    BY ONLY <2>1, <2>2
  <2> QED
    BY ONLY <2>3 DEF empty
<1>2. TheGames = Range(Games)
  BY DEF TheGames, Range
<1> DEFINE none == ""
<1>3. \A i \in DOMAIN Games : /\ Games[i] \in DOMAIN GameNames /\ GameNames[Games[i]] = Games[i]
                              /\ Games[i] # none
  BY <1>1, GamesHaveNames
<1>4. \A n \in DOMAIN GameNames : GameNames[n] \in TheGames \cup {none}
  BY GamesHaveNames DEF TheGames
<1> HIDE DEF none
<1>5. \A g \in TheGames : g \in DOMAIN GameNames /\ GameNames[g] = g /\ g # none
  BY ONLY <1>3 DEF TheGames
<1>6. \A n \in DOMAIN GameNames : GameNames[n] # none => GameNames[n] \in TheGames
  BY ONLY <1>4
<1> QED
  BY ONLY <1>2, <1>5, <1>6 DEF none

\* A route that leads somewhere, and what it is put as.
Leads(r) == r.tier > 0 /\ GameNames[r.game] # ""
Right(r) == [tier |-> r.tier, game |-> GameNames[r.game], draws |-> Max({0, r.draws})]

\* Routes that lead somewhere, one for each tier.
RightRows == {r \in RouteRows : r.tier > 0 /\ r.game \in TheGames /\ r.draws >= 0}
Clear(routes) ==
  /\ routes \in Seq(RightRows)
  /\ \A i, j \in DOMAIN routes : routes[i].tier = routes[j].tier => i = j
InTiers(routes) == \A i, j \in DOMAIN routes : i < j => routes[i].tier < routes[j].tier

LEMMA RightIs ==
  ASSUME NEW r \in RouteRows, Leads(r)
  PROVE  Right(r) \in RightRows /\ Right(r).tier = r.tier /\ (r \in RightRows => Right(r) = r)
<1>1. r.tier \in Int /\ r.game \in DOMAIN GameNames /\ r.draws \in Int
  BY DEF RouteRows
<1>2. GameNames[r.game] \in TheGames
  BY ONLY <1>1, Leads(r), NamesAre DEF Leads
<1>3. GameNames[r.game] \in DOMAIN GameNames
  BY ONLY <1>2, NamesAre
<1>4. r.tier > 0
  BY DEF Leads
<1> DEFINE d == Max({0, r.draws})
           h == [tier |-> r.tier, game |-> GameNames[r.game], draws |-> d]
<1>5. d \in Nat /\ (r.draws >= 0 => d = r.draws)
  BY ONLY <1>1, AtLeastNone
<1>6. Right(r) = h
  BY DEF Right
<1> HIDE DEF d
<1>7. h \in RightRows
  BY ONLY <1>1, <1>2, <1>3, <1>4, <1>5 DEF RightRows, RouteRows
<1>8. r \in RightRows => h = r
  <2> SUFFICES ASSUME r \in RightRows PROVE h = r
    OBVIOUS
  <2>1. r.game \in TheGames /\ r.draws >= 0
    BY ONLY r \in RightRows DEF RightRows
  <2>2. GameNames[r.game] = r.game
    BY ONLY <2>1, NamesAre
  <2>3. r = [tier |-> r.tier, game |-> r.game, draws |-> r.draws]
    BY ONLY r \in RouteRows DEF RouteRows
  <2> QED
    BY ONLY <1>5, <2>1, <2>2, <2>3
<1> QED
  BY ONLY <1>6, <1>7, <1>8

LEMMA RightLeads ==
  ASSUME NEW r \in RightRows
  PROVE  r \in RouteRows /\ Leads(r)
<1>1. r \in RouteRows /\ r.tier > 0 /\ r.game \in TheGames
  BY DEF RightRows
<1>2. GameNames[r.game] # ""
  BY ONLY <1>1, NamesAre
<1> QED
  BY ONLY <1>1, <1>2 DEF Leads

\* The last route of each tier, the tiers ascending.
LEMMA NormalRoutesAre ==
  ASSUME NEW routes \in Seq(RouteRows)
  PROVE  LET out == NormalRoutes(routes)
         IN  /\ Clear(out) /\ InTiers(out)
             /\ \A k \in DOMAIN out : \E i \in DOMAIN routes : out[k] = Right(routes[i]) /\ Leads(routes[i])
             /\ \A i \in DOMAIN routes : Leads(routes[i]) => \E k \in DOMAIN out : out[k].tier = routes[i].tier
<1> DEFINE valid == {i \in DOMAIN routes : routes[i].tier > 0 /\ GameNames[routes[i].game] # ""}
           Tset == {routes[i].tier : i \in valid}
           tiers == Ascending(Tset)
           of(tier) == {i \in valid : routes[i].tier = tier}
           last(tier) == routes[Max(of(tier))]
           out == NormalRoutes(routes)
<1>1. out = [k \in DOMAIN tiers |-> [tier  |-> tiers[k],
                                    game  |-> GameNames[last(tiers[k]).game],
                                    draws |-> Max({0, last(tiers[k]).draws})]]
  BY DEF NormalRoutes
<1>2. valid = {i \in DOMAIN routes : Leads(routes[i])}
  BY DEF Leads
<1>3. \A i \in DOMAIN routes : i \in Nat /\ routes[i] \in RouteRows
  BY Entry
<1>4. IsFiniteSet(valid) /\ valid \in SUBSET DOMAIN routes
  <2>1. IsFiniteSet(DOMAIN routes)
    BY Positions
  <2>2. valid \in SUBSET DOMAIN routes
    BY ONLY <1>2
  <2> HIDE DEF valid
  <2> QED
    BY ONLY <2>1, <2>2, FS_Subset
<1> HIDE DEF valid, out
<1>5. Tset \in SUBSET Int /\ IsFiniteSet(Tset)
  <2>1. \A i \in valid : routes[i].tier \in Int
    BY ONLY <1>3, <1>4 DEF RouteRows
  <2> DEFINE h == [i \in valid |-> routes[i].tier]
  <2>2. Tset = {h[i] : i \in valid}
    OBVIOUS
  <2> HIDE DEF h
  <2>3. IsFiniteSet({h[i] : i \in valid})
    BY ONLY <1>4, Values
  <2> QED
    BY ONLY <2>1, <2>2, <2>3
<1>6. \A tier \in Tset : of(tier) # {}
  BY ONLY TRUE
<1>7. \A t \in Tset : t = t
  OBVIOUS
<1> DEFINE n == Cardinality(Tset)
<1>8. /\ tiers \in [1..n -> Tset] /\ n \in Nat
      /\ \A x \in Tset : \E k \in 1..n : tiers[k] = x
      /\ \A j, k \in 1..n : j < k => tiers[j] < tiers[k]
  <2> HIDE DEF Tset
  <2>1. n \in Nat
    BY ONLY <1>5, FS_CardinalityType
  <2>2. /\ tiers \in [1..n -> Tset]
        /\ \A x \in Tset : \E k \in 1..n : tiers[k] = x
        /\ \A j, k \in 1..n : j < k => tiers[j] < tiers[k]
    BY ONLY <1>5, AscendingIs
  <2> QED
    BY ONLY <2>1, <2>2
<1> HIDE DEF tiers, n
<1>9. ASSUME NEW k \in 1..n
      PROVE  \E i \in valid : routes[i].tier = tiers[k] /\ out[k] = Right(routes[i])
  <2> DEFINE S == of(tiers[k])
             m == Max(S)
  <2>1. S # {} /\ S \in SUBSET valid /\ \A i \in S : routes[i].tier = tiers[k]
    BY ONLY <1>6, <1>8, <1>9
  <2> HIDE DEF S
  <2>2. S \in SUBSET Nat /\ IsFiniteSet(S)
    BY ONLY <1>3, <1>4, <2>1, FS_Subset
  <2>3. m \in S
    BY ONLY <2>1, <2>2, LastOf
  <2>4. last(tiers[k]) = routes[m]
    BY DEF S
  <2> HIDE DEF m
  <2>5. m \in valid /\ routes[m].tier = tiers[k]
    BY ONLY <2>1, <2>3
  <2>6. out[k] = [tier |-> tiers[k], game |-> GameNames[last(tiers[k]).game],
                  draws |-> Max({0, last(tiers[k]).draws})]
    <3> HIDE DEF last
    <3> QED
      BY ONLY <1>1, <1>8, <1>9
  <2> HIDE DEF last
  <2>7. out[k] = Right(routes[m])
    BY ONLY <2>4, <2>5, <2>6 DEF Right
  <2> QED
    BY ONLY <2>5, <2>7
<1>10. \A i \in valid : /\ routes[i] \in RouteRows /\ Leads(routes[i]) /\ i \in DOMAIN routes
                        /\ Right(routes[i]) \in RightRows /\ Right(routes[i]).tier = routes[i].tier
  BY ONLY <1>2, <1>3, RightIs
<1>11. \A k \in 1..n : out[k] \in RightRows /\ out[k].tier = tiers[k]
  BY ONLY <1>9, <1>10
<1>12. DOMAIN out = 1..n
  BY ONLY <1>1, <1>8
<1>13. out \in Seq(RightRows)
  <2>1. out = [k \in DOMAIN tiers |-> out[k]]
    BY ONLY <1>1
  <2>2. out \in [1..n -> RightRows]
    BY ONLY <1>8, <1>11, <2>1
  <2> QED
    BY ONLY <1>8, <2>2
<1>14. InTiers(out)
  BY ONLY <1>8, <1>11, <1>12 DEF InTiers
<1>15. \A j, k \in DOMAIN out : out[j].tier = out[k].tier => j = k
  <2>1. \A k \in 1..n : tiers[k] \in Int
    BY ONLY <1>5, <1>8
  <2>2. \A j, k \in 1..n : tiers[j] = tiers[k] => j = k
    BY ONLY <1>8, <2>1
  <2> QED
    BY ONLY <1>11, <1>12, <2>2
<1>16. Clear(out)
  BY ONLY <1>13, <1>15 DEF Clear
<1>17. \A k \in DOMAIN out : \E i \in DOMAIN routes : out[k] = Right(routes[i]) /\ Leads(routes[i])
  BY ONLY <1>9, <1>10, <1>12
<1>18. \A i \in DOMAIN routes : Leads(routes[i]) => \E k \in DOMAIN out : out[k].tier = routes[i].tier
  <2> TAKE i \in DOMAIN routes
  <2> HAVE Leads(routes[i])
  <2>1. routes[i].tier \in Tset
    BY ONLY <1>2, i \in DOMAIN routes, Leads(routes[i])
  <2> HIDE DEF Tset
  <2>2. PICK k \in 1..n : tiers[k] = routes[i].tier
    BY ONLY <1>8, <2>1
  <2>3. out[k].tier = tiers[k]
    BY ONLY <1>11
  <2> HIDE DEF of, last, out
  <2>4. k \in DOMAIN out
    BY ONLY <1>12
  <2> QED
    BY ONLY <2>2, <2>3, <2>4
<1> QED
  BY ONLY <1>14, <1>16, <1>17, <1>18 DEF out

\* Routes in the order of their tiers, one for each, stay as they are.
LEMMA RoutesStay ==
  ASSUME NEW routes, Clear(routes), InTiers(routes)
  PROVE  NormalRoutes(routes) = routes
<1> DEFINE T == [i \in DOMAIN routes |-> routes[i].tier]
           all == {T[i] : i \in DOMAIN routes}
           n == Len(routes)
           valid == {i \in DOMAIN routes : routes[i].tier > 0 /\ GameNames[routes[i].game] # ""}
           of(tier) == {i \in valid : routes[i].tier = tier}
           last(tier) == routes[Max(of(tier))]
<1>1. routes \in Seq(RightRows) /\ \A i, j \in DOMAIN routes : routes[i].tier = routes[j].tier => i = j
  BY DEF Clear
<1>2. DOMAIN routes = 1..n /\ n \in Nat
  BY ONLY <1>1
<1>3. \A i \in 1..n : /\ routes[i] \in RightRows /\ routes[i] \in RouteRows /\ Leads(routes[i])
                      /\ T[i] = routes[i].tier /\ T[i] \in Int
  <2> TAKE i \in 1..n
  <2>1. routes[i] \in RightRows
    BY ONLY <1>1, <1>2, Entry
  <2>2. routes[i] \in RouteRows /\ Leads(routes[i])
    BY ONLY <2>1, RightLeads
  <2>3. routes[i].tier \in Int
    BY ONLY <2>2 DEF RouteRows
  <2> QED
    BY ONLY <1>2, <2>1, <2>2, <2>3
<1>4. valid = 1..n
  BY ONLY <1>2, <1>3 DEF Leads
<1>5. \A i, j \in 1..n : i < j => T[i] < T[j]
  BY ONLY <1>2, <1>3, InTiers(routes) DEF InTiers
<1> HIDE DEF n
<1>6. all \in SUBSET Int /\ IsFiniteSet(all) /\ Cardinality(all) = n
  <2>1. IsFiniteSet(1..n) /\ Cardinality(1..n) = n
    BY ONLY <1>2, FS_Interval
  <2>2. \A i, j \in 1..n : T[i] = T[j] => i = j
    BY ONLY <1>1, <1>2, <1>3
  <2> DEFINE D == 1..n
  <2>3. all = {T[i] : i \in D}
    BY ONLY <1>2
  <2> HIDE DEF T, D, all
  <2>4. IsFiniteSet(D) /\ \A i, j \in D : T[i] = T[j] => i = j
    BY ONLY <2>1, <2>2 DEF D
  <2>5. IsFiniteSet({T[i] : i \in D}) /\ Cardinality({T[i] : i \in D}) = Cardinality(D)
    BY ONLY <2>4, SameNumber
  <2>6. \A i \in D : T[i] \in Int
    BY ONLY <1>3 DEF D
  <2>7. Cardinality(D) = n
    BY ONLY <2>1 DEF D
  <2> QED
    BY ONLY <2>3, <2>5, <2>6, <2>7
<1>7. ASSUME NEW k \in 1..n PROVE Ascending(all)[k] = T[k]
  <2> DEFINE before == {y \in all : y < T[k]}
             early == 1..(k - 1)
  <2>1. early \in SUBSET (1..n) /\ IsFiniteSet(early) /\ Cardinality(early) = k - 1
    BY ONLY <1>2, <1>7, FS_Interval
  <2> HIDE DEF T
  <2>2. before = {T[i] : i \in early}
    <3>1. \A i \in 1..n : T[i] < T[k] <=> i \in early
      <4> TAKE i \in 1..n
      <4>1. i < k => T[i] < T[k]
        BY ONLY <1>5, <1>7
      <4>2. k < i => T[k] < T[i]
        BY ONLY <1>5, <1>7
      <4>3. T[i] \in Int /\ T[k] \in Int
        BY ONLY <1>3, <1>7
      <4> QED
        BY ONLY <1>2, <1>7, <4>1, <4>2, <4>3
    <3> QED
      BY ONLY <1>2, <2>1, <3>1
  <2>3. \A i, j \in early : T[i] = T[j] => i = j
    BY ONLY <1>1, <1>2, <1>3, <2>1
  <2> HIDE DEF before, early
  <2>4. Cardinality({T[i] : i \in early}) = Cardinality(early)
    BY ONLY <2>1, <2>3, SameNumber
  <2>5. Cardinality(before) = k - 1
    BY ONLY <2>1, <2>2, <2>4
  <2>6. T[k] \in all
    BY ONLY <1>2, <1>7
  <2>7. k \in 1..Cardinality(all)
    BY ONLY <1>6, <1>7
  <2>8. Cardinality({y \in all : y < T[k]}) = k - 1
    BY ONLY <2>5 DEF before
  <2> HIDE DEF all
  <2> QED
    BY ONLY <1>6, <2>6, <2>7, <2>8, AscendingAt
<1> DEFINE tiers == Ascending({routes[i].tier : i \in valid})
<1>8. tiers = Ascending(all) /\ DOMAIN tiers = 1..n
  <2>1. {routes[i].tier : i \in valid} = all
    BY ONLY <1>2, <1>3, <1>4
  <2>2. tiers = Ascending(all)
    BY ONLY <2>1
  <2>3. DOMAIN Ascending(all) = 1..Cardinality(all)
    BY DEF Ascending
  <2> QED
    BY ONLY <1>6, <2>2, <2>3
<1>9. NormalRoutes(routes) = [k \in DOMAIN tiers |-> [tier  |-> tiers[k],
                                game  |-> GameNames[last(tiers[k]).game],
                                draws |-> Max({0, last(tiers[k]).draws})]]
  BY DEF NormalRoutes
<1>10. ASSUME NEW k \in 1..n PROVE tiers[k] = routes[k].tier /\ last(tiers[k]) = routes[k]
  <2>1. tiers[k] = routes[k].tier
    BY ONLY <1>3, <1>7, <1>8, <1>10
  <2>2. of(tiers[k]) = {k}
    BY ONLY <1>1, <1>2, <1>4, <1>10, <2>1
  <2>3. {k} \in SUBSET Nat /\ {k} # {} /\ IsFiniteSet({k})
    <3>1. k \in Nat
      BY ONLY <1>2, <1>10
    <3>2. IsFiniteSet({k})
      BY ONLY FS_Singleton
    <3> QED
      BY ONLY <3>1, <3>2
  <2>4. Max({k}) \in {k}
    BY ONLY <2>3, LastOf
  <2>5. Max(of(tiers[k])) = k
    BY ONLY <2>2, <2>4
  <2> QED
    BY ONLY <2>1, <2>5
<1> HIDE DEF tiers, last
<1>11. \A k \in 1..n : [tier  |-> tiers[k], game  |-> GameNames[last(tiers[k]).game],
                        draws |-> Max({0, last(tiers[k]).draws})] = routes[k]
  <2> TAKE k \in 1..n
  <2>1. tiers[k] = routes[k].tier /\ last(tiers[k]) = routes[k]
    BY ONLY <1>10
  <2>2. Right(routes[k]) = routes[k]
    BY ONLY <1>3, RightIs
  <2> QED
    BY ONLY <2>1, <2>2 DEF Right
<1>12. routes = [k \in 1..n |-> routes[k]]
  BY ONLY <1>1, <1>2
<1> QED
  BY ONLY <1>8, <1>9, <1>11, <1>12

\* The routes of a tier.
RouteIn(routes, tier) == Picked(routes, {i \in DOMAIN routes : routes[i].tier = tier})

\* Of clear routes, a tier has its one or none.
LEMMA RouteInIs ==
  ASSUME NEW routes, Clear(routes), NEW tier
  PROVE  /\ \A i \in DOMAIN routes : routes[i].tier = tier => RouteIn(routes, tier) = <<routes[i]>>
         /\ (\A i \in DOMAIN routes : routes[i].tier # tier) => RouteIn(routes, tier) = <<>>
<1> DEFINE at == {i \in DOMAIN routes : routes[i].tier = tier}
<1>0. routes \in Seq(RightRows) /\ \A i, j \in DOMAIN routes : routes[i].tier = routes[j].tier => i = j
  BY DEF Clear
<1>1. RouteIn(routes, tier) = Picked(routes, at)
  BY DEF RouteIn
<1>2. ASSUME NEW i \in DOMAIN routes, routes[i].tier = tier
      PROVE  RouteIn(routes, tier) = <<routes[i]>>
  <2>1. at = {i}
    BY ONLY <1>0, <1>2
  <2> HIDE DEF at
  <2> DEFINE out == Picked(routes, {i})
             alone == {i}
  <2>2. alone \in SUBSET DOMAIN routes /\ i \in alone /\ \A j \in alone : i <= j
    <3>1. i \in Nat
      BY ONLY <1>0, <1>2
    <3> QED
      BY ONLY <1>2, <3>1
  <2>3. Cardinality(alone) = 1
    BY ONLY FS_Singleton
  <2> HIDE DEF alone
  <2>4. /\ Picked(routes, alone) \in Seq(RightRows) /\ Len(Picked(routes, alone)) = 1
        /\ Picked(routes, alone)[1] = routes[i]
    <3>1. routes \in Seq(RightRows) /\ alone \in SUBSET DOMAIN routes
      BY ONLY <1>0, <2>2
    <3>2. Picked(routes, alone) \in Seq(RightRows) /\ Len(Picked(routes, alone)) = Cardinality(alone)
      BY ONLY <3>1, PickedSeq
    <3>3. Picked(routes, alone)[1] = routes[i]
      BY ONLY <2>2, <3>1, PickedFirst
    <3> QED
      BY ONLY <2>3, <3>2, <3>3
  <2>5. out \in Seq(RightRows) /\ Len(out) = 1 /\ out[1] = routes[i]
    BY ONLY <2>4 DEF alone
  <2> HIDE DEF out
  <2>6. out = <<routes[i]>>
    BY ONLY <2>5
  <2> QED
    BY ONLY <1>1, <2>1, <2>6 DEF out
<1>3. ASSUME \A i \in DOMAIN routes : routes[i].tier # tier PROVE RouteIn(routes, tier) = <<>>
  <2>1. at = {}
    BY ONLY <1>3
  <2> HIDE DEF at
  <2> QED
    BY ONLY <1>1, <2>1, PickedNone
<1> QED
  BY ONLY <1>2, <1>3

\* Two lists that say the same of every tier.
LEMMA RouteInSame ==
  ASSUME NEW routes, Clear(routes), NEW other, Clear(other),
         \A i \in DOMAIN routes : \E k \in DOMAIN other : other[k] = routes[i],
         \A k \in DOMAIN other : \E i \in DOMAIN routes : other[k] = routes[i], NEW tier
  PROVE  RouteIn(other, tier) = RouteIn(routes, tier)
<1>1. CASE \E i \in DOMAIN routes : routes[i].tier = tier
  <2>1. PICK i \in DOMAIN routes : routes[i].tier = tier
    BY ONLY <1>1
  <2>2. PICK k \in DOMAIN other : other[k] = routes[i]
    BY ONLY \A j \in DOMAIN routes : \E m \in DOMAIN other : other[m] = routes[j]
  <2>3. RouteIn(routes, tier) = <<routes[i]>>
    BY ONLY <2>1, Clear(routes), RouteInIs
  <2>4. RouteIn(other, tier) = <<other[k]>>
    BY ONLY <2>1, <2>2, Clear(other), RouteInIs
  <2> QED
    BY ONLY <2>2, <2>3, <2>4
<1>2. CASE \A i \in DOMAIN routes : routes[i].tier # tier
  <2>1. \A k \in DOMAIN other : other[k].tier # tier
    BY ONLY <1>2, \A m \in DOMAIN other : \E j \in DOMAIN routes : other[m] = routes[j]
  <2>2. RouteIn(routes, tier) = <<>> /\ RouteIn(other, tier) = <<>>
    BY ONLY <1>2, <2>1, Clear(routes), Clear(other), RouteInIs
  <2> QED
    BY ONLY <2>2
<1> QED
  BY ONLY <1>1, <1>2

\* Putting clear routes in order keeps what they say.
LEMMA RoutesKept ==
  ASSUME NEW routes, Clear(routes)
  PROVE  /\ Clear(NormalRoutes(routes)) /\ InTiers(NormalRoutes(routes))
         /\ NormalRoutes(NormalRoutes(routes)) = NormalRoutes(routes)
         /\ \A tier : RouteIn(NormalRoutes(routes), tier) = RouteIn(routes, tier)
<1> DEFINE out == NormalRoutes(routes)
<1>1. routes \in Seq(RightRows) /\ \A i, j \in DOMAIN routes : routes[i].tier = routes[j].tier => i = j
  BY DEF Clear
<1>2. routes \in Seq(RouteRows)
  <2>1. RightRows \in SUBSET RouteRows
    BY DEF RightRows
  <2> QED
    BY ONLY <1>1, <2>1
<1>3. \A i \in DOMAIN routes : Leads(routes[i]) /\ Right(routes[i]) = routes[i]
  <2> TAKE i \in DOMAIN routes
  <2>1. routes[i] \in RightRows
    BY ONLY <1>1, Entry
  <2> QED
    BY ONLY <2>1, RightLeads, RightIs
<1>4. /\ Clear(out) /\ InTiers(out)
      /\ \A k \in DOMAIN out : \E i \in DOMAIN routes : out[k] = Right(routes[i]) /\ Leads(routes[i])
      /\ \A i \in DOMAIN routes : Leads(routes[i]) => \E k \in DOMAIN out : out[k].tier = routes[i].tier
  BY ONLY <1>2, NormalRoutesAre
<1> HIDE DEF out
<1>5. \A k \in DOMAIN out : \E i \in DOMAIN routes : out[k] = routes[i]
  BY ONLY <1>3, <1>4
<1>6. \A i \in DOMAIN routes : \E k \in DOMAIN out : out[k] = routes[i]
  <2> TAKE i \in DOMAIN routes
  <2>1. PICK k \in DOMAIN out : out[k].tier = routes[i].tier
    BY ONLY <1>3, <1>4
  <2>2. PICK j \in DOMAIN routes : out[k] = routes[j]
    BY ONLY <1>5
  <2>3. j = i
    BY ONLY <1>1, <2>1, <2>2
  <2> QED
    BY ONLY <2>2, <2>3
<1>7. \A tier : RouteIn(out, tier) = RouteIn(routes, tier)
  BY ONLY <1>4, <1>5, <1>6, Clear(routes), RouteInSame
<1>8. NormalRoutes(out) = out
  BY ONLY <1>4, RoutesStay
<1> QED
  BY ONLY <1>4, <1>7, <1>8 DEF out

LEMMA RoutesFromTiersAre ==
  ASSUME NEW tiers \in Seq(Int)
  PROVE  Clear(RoutesFromTiers(tiers))
<1> DEFINE first == {i \in DOMAIN tiers : tiers[i] > 0 /\ \A j \in 1..(i - 1) : tiers[j] # tiers[i]}
           order == Picked(tiers, first)
           scratch == "scratch"
           out == [k \in DOMAIN order |-> [tier |-> order[k], game |-> scratch, draws |-> 0]]
<1>1. RoutesFromTiers(tiers) = out
  BY DEF RoutesFromTiers
<1>2. scratch \in TheGames /\ scratch \in DOMAIN GameNames
  BY GamesAre, NamesAre
<1> HIDE DEF scratch
<1>3. /\ first \in SUBSET DOMAIN tiers
      /\ \A i \in first : tiers[i] > 0 /\ \A j \in 1..(i - 1) : tiers[j] # tiers[i]
  BY ONLY TRUE
<1> HIDE DEF first
<1>4. /\ order \in Seq(Int) /\ first \in SUBSET Nat /\ IsFiniteSet(first)
      /\ DOMAIN order = 1..Cardinality(first)
      /\ \A k \in DOMAIN order : \E i \in first : order[k] = tiers[i]
  BY ONLY <1>3, tiers \in Seq(Int), PickedSeq
<1> DEFINE n == Cardinality(first)
<1>5. PICK o \in [1..n -> first] : /\ order = [k \in 1..n |-> tiers[o[k]]]
                                   /\ \A j, k \in 1..n : j < k => o[j] < o[k]
  <2>1. first \in SUBSET Int /\ IsFiniteSet(first)
    BY ONLY <1>4
  <2> QED
    BY ONLY <2>1, PickedIs
<1>6. \A i \in DOMAIN tiers : i \in Nat /\ i >= 1 /\ tiers[i] \in Int
  BY Entry
<1> HIDE DEF order
<1>7. n \in Nat
  BY ONLY <1>4, FS_CardinalityType
<1> HIDE DEF n
<1>8. \A j, k \in 1..n : j < k => order[j] # order[k]
  <2> TAKE j, k \in 1..n
  <2> HAVE j < k
  <2>1. o[j] < o[k] /\ o[j] \in first /\ o[k] \in first
    BY ONLY <1>5, j < k
  <2>2. o[j] \in 1..(o[k] - 1)
    BY ONLY <1>3, <1>6, <2>1
  <2>3. tiers[o[j]] # tiers[o[k]]
    BY ONLY <1>3, <2>1, <2>2
  <2> QED
    BY ONLY <1>5, <2>3
<1>9. DOMAIN order = 1..n
  BY ONLY <1>5
<1>10. \A k \in 1..n : [tier |-> order[k], game |-> scratch, draws |-> 0] \in RightRows
  <2> TAKE k \in 1..n
  <2>1. order[k] \in Int /\ order[k] > 0
    BY ONLY <1>3, <1>4, <1>6, <1>9
  <2>2. [tier |-> order[k], game |-> scratch, draws |-> 0] \in RouteRows
    BY ONLY <1>2, <2>1 DEF RouteRows
  <2> QED
    BY ONLY <1>2, <2>1, <2>2 DEF RightRows
<1>11. out \in [1..n -> RightRows]
  BY ONLY <1>9, <1>10
<1>12. \A k \in 1..n : out[k].tier = order[k]
  BY ONLY <1>9
<1> HIDE DEF out
<1>13. out \in Seq(RightRows) /\ DOMAIN out = 1..n
  BY ONLY <1>7, <1>11
<1>14. \A j, k \in 1..n : order[j] = order[k] => j = k
  BY ONLY <1>7, <1>8
<1>15. Clear(out)
  BY ONLY <1>12, <1>13, <1>14 DEF Clear
<1> QED
  BY ONLY <1>1, <1>15

\* The routes a configuration says are clear.
LEMMA RoutesOfAre ==
  ASSUME NEW cfg, cfg.routes \in {Nil} \cup Seq(RouteRows), cfg.scratchTiers \in {Nil} \cup Seq(Int)
  PROVE  Clear(RoutesOf(cfg))
<1>1. CASE cfg.routes # Nil
  <2>1. cfg.routes \in Seq(RouteRows)
    BY ONLY <1>1, cfg.routes \in {Nil} \cup Seq(RouteRows)
  <2>2. RoutesOf(cfg) = NormalRoutes(cfg.routes)
    BY <1>1 DEF RoutesOf
  <2> QED
    BY ONLY <2>1, <2>2, NormalRoutesAre
<1>2. CASE cfg.routes = Nil /\ cfg.scratchTiers # Nil
  <2>1. cfg.scratchTiers \in Seq(Int)
    BY ONLY <1>2, cfg.scratchTiers \in {Nil} \cup Seq(Int)
  <2>2. RoutesOf(cfg) = RoutesFromTiers(cfg.scratchTiers)
    BY <1>2 DEF RoutesOf
  <2> QED
    BY ONLY <2>1, <2>2, RoutesFromTiersAre
<1>3. CASE cfg.routes = Nil /\ cfg.scratchTiers = Nil
  <2>1. RoutesOf(cfg) = Default.routes
    BY <1>3 DEF RoutesOf
  <2>2. Default.routes \in Seq(RouteRows) /\ NormalRoutes(Default.routes) = Default.routes
    BY DefaultIsComplete
  <2>3. Clear(NormalRoutes(Default.routes))
    BY ONLY <2>2, NormalRoutesAre
  <2> QED
    BY ONLY <2>1, <2>2, <2>3
<1> QED
  BY ONLY <1>1, <1>2, <1>3

\* Draws counted per game go to routes; these stay clear and in order, and their games.
LEMMA RoutesWithAre ==
  ASSUME NEW routes, Clear(routes), InTiers(routes), NEW legacy,
         \A g \in DOMAIN legacy : legacy[g] \in Int /\ legacy[g] > 0
  PROVE  LET with == RoutesWith(legacy, routes)
         IN  /\ Clear(with) /\ InTiers(with)
             /\ DOMAIN with = DOMAIN routes
             /\ \A i \in DOMAIN routes : with[i].tier = routes[i].tier /\ with[i].game = routes[i].game
<1> DEFINE new(i) == IF routes[i].draws = 0 /\ routes[i].game \in DOMAIN legacy
                     THEN [routes[i] EXCEPT !.draws = legacy[routes[i].game]] ELSE routes[i]
           with == RoutesWith(legacy, routes)
<1>1. routes \in Seq(RightRows) /\ \A i, j \in DOMAIN routes : routes[i].tier = routes[j].tier => i = j
  BY DEF Clear
<1>2. with = [i \in DOMAIN routes |-> new(i)]
  BY DEF RoutesWith
<1> HIDE DEF with
<1>3. ASSUME NEW i \in DOMAIN routes
      PROVE  new(i) \in RightRows /\ new(i).tier = routes[i].tier /\ new(i).game = routes[i].game
  <2>1. routes[i] \in RightRows
    BY ONLY <1>1, <1>3, Entry
  <2>2. CASE routes[i].draws = 0 /\ routes[i].game \in DOMAIN legacy
    <3> DEFINE r == routes[i]
               d == legacy[r.game]
    <3>1. d \in Int /\ d > 0
      BY ONLY <2>2, \A g \in DOMAIN legacy : legacy[g] \in Int /\ legacy[g] > 0
    <3>2. new(i) = [r EXCEPT !.draws = d]
      BY ONLY <2>2
    <3>3. r \in RightRows
      BY ONLY <2>1
    <3> HIDE DEF r, d, new
    <3>4. [r EXCEPT !.draws = d] \in RightRows /\ [r EXCEPT !.draws = d].tier = r.tier
          /\ [r EXCEPT !.draws = d].game = r.game
      BY ONLY <3>1, <3>3 DEF RightRows, RouteRows
    <3> QED
      BY ONLY <3>2, <3>4 DEF r
  <2>3. CASE ~(routes[i].draws = 0 /\ routes[i].game \in DOMAIN legacy)
    <3>1. new(i) = routes[i]
      BY ONLY <2>3
    <3> QED
      BY ONLY <2>1, <3>1
  <2> QED
    BY ONLY <2>2, <2>3
<1> HIDE DEF new
<1>4. DOMAIN with = DOMAIN routes /\ with \in [DOMAIN routes -> RightRows]
  BY ONLY <1>2, <1>3
<1>5. \A i \in DOMAIN routes : with[i].tier = routes[i].tier /\ with[i].game = routes[i].game
  BY ONLY <1>2, <1>3
<1>6. with \in Seq(RightRows)
  BY ONLY <1>1, <1>4, SameLength
<1>7. InTiers(with)
  BY ONLY <1>4, <1>5, InTiers(routes) DEF InTiers
<1>8. Clear(with)
  BY ONLY <1>1, <1>4, <1>5, <1>6 DEF Clear
<1> QED
  BY ONLY <1>4, <1>5, <1>7, <1>8 DEF with

(***************************************************************************)
(* Games                                                                   *)
(***************************************************************************)

LEMMA GamesDiffer == \A i, j \in DOMAIN Games : Games[i] = Games[j] => i = j
<1>1. DOMAIN Games = 1..3
  BY DEF Games
<1>2. Games[1] # Games[2] /\ Games[1] # Games[3] /\ Games[2] # Games[3]
  BY DEF Games
<1> QED
  BY ONLY <1>1, <1>2

LEMMA AimedAre == AimedGames = GameRows
<1>1. TheGames \in SUBSET DOMAIN GameNames
  BY NamesAre
<1>2. DOMAIN GameNames \cup TheGames = DOMAIN GameNames
  BY <1>1
<1> QED
  BY ONLY <1>2 DEF AimedGames, GameRows

\* A game that is aimed stays as it is.
LEMMA GameTwice ==
  ASSUME NEW g, GameNames[g.game] \in TheGames
  PROVE  NormalGame(NormalGame(g)) = NormalGame(g)
<1> DEFINE aim == ExpectedValue(Default.pool)
           target == IF g.target[1] <= 0 THEN aim ELSE g.target
           actual == IF g.actual[1] < 0 THEN <<0, 1>> ELSE g.actual
           name == GameNames[g.game]
           h == NormalGame(g)
<1>1. h = [game |-> name, target |-> target, actual |-> actual]
  BY DEF NormalGame
<1>2. NormalGame(h) = [game |-> GameNames[h.game],
                       target |-> IF h.target[1] <= 0 THEN aim ELSE h.target,
                       actual |-> IF h.actual[1] < 0 THEN <<0, 1>> ELSE h.actual]
  BY DEF NormalGame
<1>3. GameNames[name] = name
  BY NamesAre
<1> HIDE DEF aim, name
<1>4. (IF target[1] <= 0 THEN aim ELSE target) = target
  OBVIOUS
<1>5. (IF actual[1] < 0 THEN <<0, 1>> ELSE actual) = actual
  OBVIOUS
<1> HIDE DEF target, actual, h
<1>6. h.game = name /\ h.target = target /\ h.actual = actual
  BY ONLY <1>1
<1> QED
  BY ONLY <1>1, <1>2, <1>3, <1>4, <1>5, <1>6 DEF h

\* The games that a list has entries of, and the last entry of each.
Present(all) == {i \in DOMAIN Games : \E j \in DOMAIN all : GameNames[all[j].game] = Games[i]}
IsLast(all, game, j) ==
  /\ j \in DOMAIN all /\ GameNames[all[j].game] = game
  /\ \A i \in DOMAIN all : GameNames[all[i].game] = game => i <= j

LEMMA NormalGamesHave ==
  ASSUME NEW all \in Seq(AimedGames)
  PROVE  LET names == Picked(Games, Present(all))
             out == NormalGames(all)
         IN  /\ out \in Seq(AimedGames) /\ DOMAIN out = DOMAIN names
             /\ names \in Seq(TheGames)
             /\ \A i \in Present(all) : \E k \in DOMAIN names : names[k] = Games[i]
             /\ \A k \in DOMAIN names : \E i \in Present(all) : names[k] = Games[i]
             /\ \A j, k \in DOMAIN names : names[j] = names[k] => j = k
             /\ \A k \in DOMAIN out, j \in DOMAIN all :
                  IsLast(all, names[k], j) => out[k] = NormalGame(all[j])
             /\ \A k \in DOMAIN out : \E j \in DOMAIN all : IsLast(all, names[k], j)
<1> DEFINE of(game) == {i \in DOMAIN all : GameNames[all[i].game] = game}
           at == {i \in DOMAIN Games : of(Games[i]) # {}}
           names == Picked(Games, at)
           out == NormalGames(all)
<1>1. out = [k \in DOMAIN names |-> NormalGame(all[Max(of(names[k]))])]
  BY DEF NormalGames
<1>2. at = Present(all)
  BY DEF Present
<1>3. at \in SUBSET DOMAIN Games
  OBVIOUS
<1>4. out \in Seq(AimedGames)
  BY NormalGamesAre
<1>5. \A i \in DOMAIN all : i \in Nat
  BY Entry
<1>6. IsFiniteSet(DOMAIN all)
  BY Positions
<1>7. \A i \in at : of(Games[i]) # {}
  OBVIOUS
<1> HIDE DEF at, out
<1>8. /\ names \in Seq(TheGames) /\ IsFiniteSet(at) /\ at \in SUBSET Nat
      /\ DOMAIN names = 1..Cardinality(at)
      /\ \A i \in at : \E k \in DOMAIN names : names[k] = Games[i]
      /\ \A k \in DOMAIN names : \E i \in at : names[k] = Games[i]
  <2>1. Games \in Seq(TheGames)
    BY ONLY GamesAre
  <2> QED
    BY ONLY <1>3, <2>1, PickedSeq
<1> DEFINE n == Cardinality(at)
<1>9. \A j, k \in DOMAIN names : names[j] = names[k] => j = k
  <2>1. at \in SUBSET Int /\ IsFiniteSet(at)
    BY ONLY <1>8
  <2>2. PICK o \in [1..n -> at] : /\ names = [k \in 1..n |-> Games[o[k]]]
                                  /\ \A j, k \in 1..n : j < k => o[j] < o[k]
    BY ONLY <2>1, PickedIs
  <2>3. n \in Nat
    BY ONLY <1>8, FS_CardinalityType
  <2> HIDE DEF names, n
  <2>4. \A j, k \in 1..n : o[j] = o[k] => j = k
    <3>1. 1..n \in SUBSET Int
      BY ONLY <2>3, NumbersUpTo
    <3>2. at \in SUBSET Int
      BY ONLY <2>1
    <3>3. o \in [1..n -> at] /\ \A j, k \in 1..n : j < k => o[j] < o[k]
      BY ONLY <2>2
    <3> QED
      BY ONLY <3>1, <3>2, <3>3, GrowingIsOnce
  <2>5. \A j, k \in 1..n : names[j] = names[k] => o[j] = o[k]
    BY ONLY <1>3, <2>2, GamesDiffer
  <2> QED
    BY ONLY <2>2, <2>4, <2>5
<1>10. \A k \in DOMAIN names : of(names[k]) # {}
  <2> TAKE k \in DOMAIN names
  <2>1. PICK i \in at : names[k] = Games[i]
    BY ONLY <1>8
  <2> HIDE DEF names
  <2>2. of(names[k]) = of(Games[i])
    BY ONLY <2>1
  <2>3. of(Games[i]) # {}
    BY ONLY <1>7, i \in at
  <2> HIDE DEF of
  <2> QED
    BY ONLY <2>2, <2>3
<1> HIDE DEF names
<1>11. \A k \in DOMAIN names : IsLast(all, names[k], Max(of(names[k])))
  <2> TAKE k \in DOMAIN names
  <2> DEFINE S == of(names[k])
  <2>1. S # {} /\ S \in SUBSET DOMAIN all
        /\ \A i \in DOMAIN all : i \in S <=> GameNames[all[i].game] = names[k]
    BY ONLY <1>10
  <2> HIDE DEF S
  <2>2. S \in SUBSET Nat /\ IsFiniteSet(S)
    BY ONLY <1>5, <1>6, <2>1, FS_Subset
  <2>3. Max(S) \in S /\ \A m \in S : m <= Max(S)
    BY ONLY <2>1, <2>2, LastOf
  <2>4. IsLast(all, names[k], Max(S))
    BY ONLY <2>1, <2>3 DEF IsLast
  <2> QED
    BY ONLY <2>4 DEF S
<1>12. \A game : \A i, j \in DOMAIN all : IsLast(all, game, i) /\ IsLast(all, game, j) => i = j
  BY ONLY <1>5 DEF IsLast
<1> DEFINE last(k) == Max(of(names[k]))
<1>13. DOMAIN out = DOMAIN names /\ \A k \in DOMAIN names : out[k] = NormalGame(all[last(k)])
  BY ONLY <1>1
<1> HIDE DEF last
<1>14. \A k \in DOMAIN names : IsLast(all, names[k], last(k)) /\ last(k) \in DOMAIN all
  BY ONLY <1>11 DEF last, IsLast
<1>15. \A k \in DOMAIN out, j \in DOMAIN all : IsLast(all, names[k], j) => out[k] = NormalGame(all[j])
  BY ONLY <1>12, <1>13, <1>14
<1>16. \A k \in DOMAIN out : \E j \in DOMAIN all : IsLast(all, names[k], j)
  BY ONLY <1>13, <1>14
<1> QED
  BY ONLY <1>2, <1>4, <1>8, <1>9, <1>13, <1>15, <1>16 DEF names, out

\* Games that were normalised stay as they are, behind the defaults.
LEMMA GamesTwice ==
  ASSUME NEW given \in Seq(AimedGames)
  PROVE  LET out == NormalGames(Default.games \o given)
         IN  NormalGames(Default.games \o out) = out
<1> DEFINE D == Default.games
           all == D \o given
           out == NormalGames(all)
           again == D \o out
           last == NormalGames(again)
           names == Picked(Games, Present(all))
<1>1. D \in Seq(AimedGames)
  BY DefaultIsNormal, AimedAre
<1> HIDE DEF D
<1>2. /\ all \in Seq(AimedGames)
      /\ \A i \in DOMAIN D : i \in DOMAIN all /\ all[i] = D[i]
  BY ONLY <1>1, given \in Seq(AimedGames), TwoLists
<1> HIDE DEF all
<1>3. /\ out \in Seq(AimedGames) /\ DOMAIN out = DOMAIN names /\ names \in Seq(TheGames)
      /\ \A i \in Present(all) : \E k \in DOMAIN names : names[k] = Games[i]
      /\ \A k \in DOMAIN names : \E i \in Present(all) : names[k] = Games[i]
      /\ \A j, k \in DOMAIN names : names[j] = names[k] => j = k
      /\ \A k \in DOMAIN out, j \in DOMAIN all :
           IsLast(all, names[k], j) => out[k] = NormalGame(all[j])
      /\ \A k \in DOMAIN out : \E j \in DOMAIN all : IsLast(all, names[k], j)
  BY ONLY <1>2, NormalGamesHave
<1> HIDE DEF out
<1>4. /\ again \in Seq(AimedGames)
      /\ \A i \in DOMAIN D : i \in DOMAIN again /\ again[i] = D[i]
      /\ \A k \in DOMAIN out : Len(D) + k \in DOMAIN again /\ again[Len(D) + k] = out[k]
      /\ \A j \in DOMAIN again : j \in DOMAIN D \/ \E k \in DOMAIN out : j = Len(D) + k
      /\ \A i \in DOMAIN D, k \in DOMAIN out : i <= Len(D) + k
  BY ONLY <1>1, <1>3, TwoLists
<1> HIDE DEF again
<1>5. /\ last \in Seq(AimedGames)
      /\ DOMAIN last = DOMAIN Picked(Games, Present(again))
      /\ \A k \in DOMAIN last, j \in DOMAIN again :
           IsLast(again, Picked(Games, Present(again))[k], j) => last[k] = NormalGame(again[j])
  BY ONLY <1>4, NormalGamesHave
<1> HIDE DEF last, names
<1>6. \A k \in DOMAIN out : /\ names[k] \in TheGames /\ GameNames[out[k].game] = names[k]
                            /\ NormalGame(out[k]) = out[k]
  <2> TAKE k \in DOMAIN out
  <2>1. PICK j \in DOMAIN all : IsLast(all, names[k], j)
    BY ONLY <1>3
  <2>2. out[k] = NormalGame(all[j])
    BY ONLY <1>3, <2>1
  <2>3. names[k] \in TheGames
    BY ONLY <1>3, Entry
  <2>4. GameNames[all[j].game] = names[k]
    BY ONLY <2>1 DEF IsLast
  <2>5. out[k].game = GameNames[all[j].game]
    BY ONLY <2>2 DEF NormalGame
  <2>6. GameNames[names[k]] = names[k]
    BY ONLY <2>3, NamesAre
  <2>7. NormalGame(out[k]) = out[k]
    BY ONLY <2>2, <2>3, <2>4, GameTwice
  <2> QED
    BY ONLY <2>3, <2>4, <2>5, <2>6, <2>7
<1>7. Present(again) = Present(all)
  <2>1. ASSUME NEW i \in DOMAIN Games, i \in Present(all) PROVE i \in Present(again)
    <3>1. PICK k \in DOMAIN out : names[k] = Games[i]
      BY ONLY <1>3, <2>1
    <3>2. GameNames[again[Len(D) + k].game] = Games[i] /\ Len(D) + k \in DOMAIN again
      BY ONLY <1>4, <1>6, <3>1
    <3> QED
      BY ONLY <2>1, <3>2 DEF Present
  <2>2. ASSUME NEW i \in DOMAIN Games, i \in Present(again) PROVE i \in Present(all)
    <3>1. PICK j \in DOMAIN again : GameNames[again[j].game] = Games[i]
      BY ONLY <2>2 DEF Present
    <3>2. CASE j \in DOMAIN D
      <4>1. j \in DOMAIN all /\ GameNames[all[j].game] = Games[i]
        BY ONLY <1>2, <1>4, <3>1, <3>2
      <4> QED
        BY ONLY <2>2, <4>1 DEF Present
    <3>3. CASE \E k \in DOMAIN out : j = Len(D) + k
      <4>1. PICK k \in DOMAIN out : j = Len(D) + k
        BY ONLY <3>3
      <4>2. names[k] = Games[i]
        BY ONLY <1>4, <1>6, <3>1, <4>1
      <4>3. PICK m \in Present(all) : names[k] = Games[m]
        BY ONLY <1>3
      <4>4. m \in DOMAIN Games
        BY DEF Present
      <4>5. m = i
        BY ONLY <2>2, <4>2, <4>3, <4>4, GamesDiffer
      <4> QED
        BY ONLY <4>5
    <3> QED
      BY ONLY <1>4, <3>2, <3>3
  <2>3. Present(all) \in SUBSET DOMAIN Games /\ Present(again) \in SUBSET DOMAIN Games
    BY DEF Present
  <2> QED
    BY ONLY <2>1, <2>2, <2>3
<1>8. DOMAIN last = DOMAIN out /\ Picked(Games, Present(again)) = names
  BY ONLY <1>3, <1>5, <1>7 DEF names
<1>9. ASSUME NEW k \in DOMAIN out PROVE last[k] = out[k]
  <2> DEFINE j == Len(D) + k
  <2>1. j \in DOMAIN again /\ again[j] = out[k]
    BY ONLY <1>4, <1>9
  <2>2. ASSUME NEW i \in DOMAIN again, GameNames[again[i].game] = names[k] PROVE i <= j
    <3>1. CASE i \in DOMAIN D
      BY ONLY <1>4, <1>9, <3>1
    <3>2. CASE \E m \in DOMAIN out : i = Len(D) + m
      <4>1. PICK m \in DOMAIN out : i = Len(D) + m
        BY ONLY <3>2
      <4>2. names[m] = names[k]
        BY ONLY <1>4, <1>6, <2>2, <4>1
      <4>3. m = k
        BY ONLY <1>3, <1>9, <4>2
      <4>4. Len(D) \in Nat /\ k \in Nat
        <5>1. Len(D) \in Nat
          BY ONLY <1>1
        <5> QED
          BY ONLY <1>3, <1>9, <5>1, Entry
      <4> QED
        BY ONLY <4>1, <4>3, <4>4
    <3> QED
      BY ONLY <1>4, <2>2, <3>1, <3>2
  <2> HIDE DEF j
  <2>3. IsLast(again, names[k], j)
    BY ONLY <1>6, <1>9, <2>1, <2>2 DEF IsLast
  <2>4. last[k] = NormalGame(again[j])
    BY ONLY <1>5, <1>8, <1>9, <2>1, <2>3
  <2> QED
    BY ONLY <1>6, <1>9, <2>1, <2>4
<1>10. last = [k \in DOMAIN last |-> last[k]] /\ out = [k \in DOMAIN out |-> out[k]]
  BY ONLY <1>3, <1>5
<1>11. last = out
  BY ONLY <1>8, <1>9, <1>10
<1> QED
  BY ONLY <1>11 DEF last, out, again, all, D

(***************************************************************************)
(* The whole configuration                                                 *)
(***************************************************************************)

\* The fund of a normalised configuration.
FundOf(fund) == NormalizeFund(IF IsZeroFund(fund) THEN Default.fund ELSE fund)

\* The parts of a normalised configuration, one by one.
LEMMA FieldsAre ==
  ASSUME NEW raw
  PROVE  LET cfg == NormalizeConfig(raw)
         IN  /\ cfg.startText = Window(raw.startText, raw.startTS, Default.start)
             /\ cfg.startTS = cfg.startText
             /\ cfg.endText = Window(raw.endText, raw.endTS, Default.end)
             /\ cfg.endTS = cfg.endText
             /\ cfg.target = TargetOr(raw.target, cfg.games, "target")
             /\ cfg.actual = TargetOr(raw.actual, cfg.games, "actual")
             /\ cfg.disabled = raw.disabled
             /\ cfg.pool = IF raw.pool = Nil THEN Default.pool ELSE NormalPool(raw.pool)
             /\ cfg.games = GamesOf(raw, ExpectedValue(cfg.pool))
             /\ cfg.fund = FundOf(raw.fund)
             /\ cfg.rewards = PositiveOf(OrElse(raw.rewards, Default.rewards))
             /\ cfg.maxReveals = NormalMaxReveals(raw.maxReveals)
<1> DEFINE pool == IF raw.pool = Nil THEN Default.pool ELSE NormalPool(raw.pool)
           games == GamesOf(raw, ExpectedValue(pool))
           routes == RoutesOf(raw)
           fund == FundOf(raw.fund)
<1>1. NormalizeConfig(raw) = Complete(raw, pool, games, routes)
  BY DEF NormalizeConfig
<1> HIDE DEF pool, games, routes
<1> DEFINE cfg == Complete(raw, pool, games, routes)
<1>2. /\ cfg.startText = Window(raw.startText, raw.startTS, Default.start)
      /\ cfg.startTS = cfg.startText
      /\ cfg.endText = Window(raw.endText, raw.endTS, Default.end)
      /\ cfg.endTS = cfg.endText
      /\ cfg.target = TargetOr(raw.target, games, "target")
      /\ cfg.actual = TargetOr(raw.actual, games, "actual")
      /\ cfg.disabled = raw.disabled
  BY DEF Complete
<1>3. /\ cfg.pool = pool /\ cfg.games = games
      /\ cfg.fund = fund
      /\ cfg.rewards = PositiveOf(OrElse(raw.rewards, Default.rewards))
      /\ cfg.maxReveals = NormalMaxReveals(raw.maxReveals)
  BY DEF Complete, FundOf
<1> HIDE DEF cfg
<1> QED
  BY ONLY <1>1, <1>2, <1>3 DEF cfg, pool, games, fund

LEMMA MoreFieldsAre ==
  ASSUME NEW raw
  PROVE  LET cfg == NormalizeConfig(raw)
         IN  /\ cfg.spinMap = IF raw.spinMap = Nil THEN Default.spinMap ELSE NormalSpinMap(raw.spinMap)
             /\ cfg.guarantees = IF raw.guarantees = Nil THEN Default.guarantees
                                 ELSE NormalGuarantees(raw.guarantees)
             /\ cfg.jackpot = IF raw.jackpot <= 0 THEN Default.jackpot ELSE raw.jackpot
             /\ cfg.eligible = IF raw.eligible = Nil THEN Default.eligible
                               ELSE {d \in raw.eligible : d > 0}
             /\ cfg.routes = RoutesOf(raw)
             /\ cfg.scratchTiers = ScratchTiers(cfg.routes)
             /\ cfg.mappings = NormalMappings(raw.mappings)
<1> DEFINE pool == IF raw.pool = Nil THEN Default.pool ELSE NormalPool(raw.pool)
           games == GamesOf(raw, ExpectedValue(pool))
           routes == RoutesOf(raw)
<1>1. NormalizeConfig(raw) = Complete(raw, pool, games, routes)
  BY DEF NormalizeConfig
<1> HIDE DEF pool, games, routes
<1> DEFINE cfg == Complete(raw, pool, games, routes)
<1>2. /\ cfg.spinMap = IF raw.spinMap = Nil THEN Default.spinMap ELSE NormalSpinMap(raw.spinMap)
      /\ cfg.guarantees = IF raw.guarantees = Nil THEN Default.guarantees
                          ELSE NormalGuarantees(raw.guarantees)
      /\ cfg.jackpot = IF raw.jackpot <= 0 THEN Default.jackpot ELSE raw.jackpot
      /\ cfg.eligible = IF raw.eligible = Nil THEN Default.eligible
                        ELSE {d \in raw.eligible : d > 0}
  BY DEF Complete
<1>3. /\ cfg.routes = routes /\ cfg.scratchTiers = ScratchTiers(routes)
      /\ cfg.mappings = NormalMappings(raw.mappings)
  BY DEF Complete
<1> HIDE DEF cfg
<1> QED
  BY ONLY <1>1, <1>2, <1>3 DEF cfg, routes

\* The end of a window, a target, a number of reveals and a fund are normalised once.
LEMMA WindowTwice ==
  ASSUME NEW a \in Int, NEW b \in Int, NEW d \in Int
  PROVE  /\ Window(a, b, d) \in Int
         /\ Window(Window(a, b, d), Window(a, b, d), d) = Window(a, b, d)
BY DEF Window

LEMMA TargetTwice ==
  ASSUME NEW value, NEW games, NEW field
  PROVE  TargetOr(TargetOr(value, games, field), games, field) = TargetOr(value, games, field)
<1> DEFINE slot == GamesNamed(games, "slot")
           else == IF slot = <<>> THEN <<0, 1>> ELSE slot[1][field]
<1>1. \A v : TargetOr(v, games, field) = IF v[1] > 0 THEN v ELSE else
  BY DEF TargetOr
<1> HIDE DEF else
<1> QED
  BY ONLY <1>1

LEMMA RevealsTwice ==
  ASSUME NEW n \in Int
  PROVE  /\ NormalMaxReveals(n) \in Int
         /\ NormalMaxReveals(NormalMaxReveals(n)) = NormalMaxReveals(n)
<1> DEFINE most == ScratchCells - ScratchMines
           m == IF n <= 0 THEN DefaultMaxReveals ELSE Min({n, most})
<1>1. most \in Int /\ most = 7 /\ DefaultMaxReveals = 6
  BY DEF ScratchCells, ScratchMines, DefaultMaxReveals
<1> HIDE DEF most
<1>2. \A k \in Int : Min({k, most}) = IF k <= most THEN k ELSE most
  BY ONLY <1>1, OfTwo
<1>3. \A k : NormalMaxReveals(k) = IF k <= 0 THEN DefaultMaxReveals ELSE Min({k, most})
  BY DEF NormalMaxReveals, most
<1>4. NormalMaxReveals(n) = IF n <= 0 THEN 6 ELSE IF n <= 7 THEN n ELSE 7
  BY ONLY <1>1, <1>2, <1>3
<1>5. NormalMaxReveals(n) \in Int /\ NormalMaxReveals(n) > 0 /\ NormalMaxReveals(n) <= 7
  BY ONLY <1>4
<1> DEFINE once == NormalMaxReveals(n)
<1>6. NormalMaxReveals(once) = IF once <= 0 THEN 6 ELSE IF once <= 7 THEN once ELSE 7
  BY ONLY <1>1, <1>2, <1>3, <1>5
<1> QED
  BY ONLY <1>5, <1>6

LEMMA FundOfTwice ==
  ASSUME NEW fund \in Funds
  PROVE  /\ FundOf(fund) \in Funds /\ NormalizeFund(FundOf(fund)) = FundOf(fund)
         /\ FundOf(FundOf(FundOf(fund))) = FundOf(FundOf(fund))
<1>1. Default.fund \in Funds
  BY DefaultIsNormal
<1>2. \A f \in Funds : NormalizeFund(f) \in Funds /\ NormalizeFund(NormalizeFund(f)) = NormalizeFund(f)
  BY FundTwice
<1>3. \A f : FundOf(f) = IF IsZeroFund(f) THEN NormalizeFund(Default.fund) ELSE NormalizeFund(f)
  BY DEF FundOf
<1>4. FundOf(fund) \in Funds /\ NormalizeFund(FundOf(fund)) = FundOf(fund)
  BY ONLY <1>1, <1>2, <1>3
<1>5. FundOf(FundOf(FundOf(fund))) = FundOf(FundOf(fund))
  BY ONLY <1>1, <1>2, <1>3, <1>4
<1> QED
  BY ONLY <1>4, <1>5

\* What normalising a configuration leaves as it is, but for the defaults of the games
\* and the order of the routes.
Normal(cfg) ==
  /\ cfg.startText \in Int /\ cfg.startTS = cfg.startText
  /\ cfg.endText \in Int /\ cfg.endTS = cfg.endText
  /\ cfg.pool \in Seq(PrizeRows) /\ NormalPool(cfg.pool) = cfg.pool
  /\ cfg.games \in Seq(AimedGames)
  /\ IsSpinMap(cfg.spinMap) /\ NormalSpinMap(cfg.spinMap) = cfg.spinMap
  /\ cfg.guarantees \in Seq(GuaranteeRows) /\ NormalGuarantees(cfg.guarantees) = cfg.guarantees
  /\ IsTierSet(cfg.eligible) /\ \A d \in cfg.eligible : d > 0
  /\ cfg.fund \in Funds /\ NormalizeFund(cfg.fund) = cfg.fund
  /\ FundOf(FundOf(cfg.fund)) = FundOf(cfg.fund)
  /\ cfg.rewards \in Seq(Int) /\ PositiveOf(cfg.rewards) = cfg.rewards
  /\ cfg.maxReveals \in Int
  /\ Clear(cfg.routes)
  /\ NormalMappings(cfg.mappings) = cfg.mappings

\* Tiers without those that are none.
LEMMA TiersTwice ==
  ASSUME NEW tiers, IsTierSet(tiers)
  PROVE  LET out == {d \in tiers : d > 0}
         IN  IsTierSet(out) /\ (\A d \in out : d > 0) /\ out # Nil /\ {d \in out : d > 0} = out
<1> DEFINE out == {d \in tiers : d > 0}
<1>1. tiers \in SUBSET Int /\ out # Nil
  BY DEF IsTierSet
<1>2. {d \in out : d > 0} = out /\ out \in SUBSET Int /\ \A d \in out : d > 0
  BY <1>1
<1> HIDE DEF out
<1>3. IsTierSet(out)
  BY ONLY <1>1, <1>2 DEF IsTierSet
<1> QED
  BY ONLY <1>1, <1>2, <1>3 DEF out

\* Every configuration that is typed in is made normal.
LEMMA NormalAfter ==
  ASSUME NEW raw, IsTyped(raw)
  PROVE  Normal(NormalizeConfig(raw))
<1> DEFINE cfg == NormalizeConfig(raw)
           titles == {raw.mappings[i].title : i \in DOMAIN raw.mappings}
<1>0. /\ raw.startText \in Int /\ raw.startTS \in Int /\ raw.endText \in Int /\ raw.endTS \in Int
      /\ raw.spinMap = Nil \/ IsSpinMap(raw.spinMap)
      /\ raw.games \in {Nil} \cup Seq(GameRows) /\ raw.pool \in {Nil} \cup Seq(PrizeRows)
      /\ raw.guarantees \in {Nil} \cup Seq(GuaranteeRows)
      /\ raw.eligible = Nil \/ IsTierSet(raw.eligible)
      /\ raw.fund \in Funds
      /\ raw.rewards \in {Nil} \cup Seq(Int) /\ raw.maxReveals \in Int
      /\ raw.routes \in {Nil} \cup Seq(RouteRows) /\ raw.scratchTiers \in {Nil} \cup Seq(Int)
      /\ raw.mappings \in Seq(MappingRows(titles))
  BY DEF IsTyped
<1> HIDE DEF titles
<1>1. /\ cfg.startText = Window(raw.startText, raw.startTS, Default.start)
      /\ cfg.startTS = cfg.startText
      /\ cfg.endText = Window(raw.endText, raw.endTS, Default.end)
      /\ cfg.endTS = cfg.endText
      /\ cfg.pool = IF raw.pool = Nil THEN Default.pool ELSE NormalPool(raw.pool)
      /\ cfg.games = GamesOf(raw, ExpectedValue(cfg.pool))
      /\ cfg.fund = FundOf(raw.fund)
      /\ cfg.rewards = PositiveOf(OrElse(raw.rewards, Default.rewards))
      /\ cfg.maxReveals = NormalMaxReveals(raw.maxReveals)
  BY ONLY FieldsAre
<1>2. /\ cfg.spinMap = IF raw.spinMap = Nil THEN Default.spinMap ELSE NormalSpinMap(raw.spinMap)
      /\ cfg.guarantees = IF raw.guarantees = Nil THEN Default.guarantees
                          ELSE NormalGuarantees(raw.guarantees)
      /\ cfg.eligible = IF raw.eligible = Nil THEN Default.eligible
                        ELSE {d \in raw.eligible : d > 0}
      /\ cfg.routes = RoutesOf(raw)
      /\ cfg.mappings = NormalMappings(raw.mappings)
  BY ONLY MoreFieldsAre
<1> HIDE DEF cfg
<1>3. cfg.startText \in Int /\ cfg.endText \in Int
  <2>1. Default.start \in Int /\ Default.end \in Int
    BY ONLY DefaultIsComplete
  <2>2. /\ raw.startText \in Int /\ raw.startTS \in Int
        /\ raw.endText \in Int /\ raw.endTS \in Int
    BY ONLY <1>0
  <2>3. /\ cfg.startText = Window(raw.startText, raw.startTS, Default.start)
        /\ cfg.endText = Window(raw.endText, raw.endTS, Default.end)
    BY ONLY <1>1
  <2>4. /\ Window(raw.startText, raw.startTS, Default.start) \in Int
        /\ Window(raw.endText, raw.endTS, Default.end) \in Int
    BY ONLY <2>1, <2>2 DEF Window
  <2> QED
    BY ONLY <2>3, <2>4
<1>4. cfg.pool \in Seq(PrizeRows) /\ NormalPool(cfg.pool) = cfg.pool
  BY ONLY <1>0, <1>1, DefaultIsNormal, PoolTwice
<1>5. cfg.games \in Seq(AimedGames)
  <2>1. raw.games \in {Nil} \cup Seq(AimedGames)
    BY ONLY <1>0, AimedAre
  <2>2. ExpectedValue(cfg.pool) \in Rationals
    BY ONLY <1>4, WorthIsRational
  <2> QED
    BY ONLY <1>1, <2>1, <2>2, GamesOfAre
<1>6. IsSpinMap(cfg.spinMap) /\ NormalSpinMap(cfg.spinMap) = cfg.spinMap
  BY ONLY <1>0, <1>2, DefaultIsComplete, SpinMapTwice
<1>7. cfg.guarantees \in Seq(GuaranteeRows) /\ NormalGuarantees(cfg.guarantees) = cfg.guarantees
  BY ONLY <1>0, <1>2, DefaultIsComplete, GuaranteesTwice
<1>8. IsTierSet(cfg.eligible) /\ \A d \in cfg.eligible : d > 0
  BY ONLY <1>0, <1>2, DefaultIsComplete, TiersTwice
<1>9. /\ cfg.fund \in Funds /\ NormalizeFund(cfg.fund) = cfg.fund
      /\ FundOf(FundOf(cfg.fund)) = FundOf(cfg.fund)
  BY ONLY <1>0, <1>1, FundOfTwice
<1>10. cfg.rewards \in Seq(Int) /\ PositiveOf(cfg.rewards) = cfg.rewards
  <2>1. OrElse(raw.rewards, Default.rewards) \in Seq(Int)
    <3>1. Default.rewards \in Seq(Int)
      BY ONLY DefaultIsNormal
    <3> QED
      BY ONLY <1>0, <3>1 DEF OrElse
  <2> QED
    BY ONLY <1>1, <2>1, PositiveTwice
<1>11. cfg.maxReveals \in Int
  BY ONLY <1>0, <1>1, RevealsTwice
<1>12. Clear(cfg.routes)
  BY ONLY <1>0, <1>2, RoutesOfAre
<1>13. NormalMappings(cfg.mappings) = cfg.mappings
  BY ONLY <1>0, <1>2, MappingsTwice
<1>14. Normal(cfg)
  BY ONLY <1>1, <1>3, <1>4, <1>5, <1>6, <1>7, <1>8, <1>9, <1>10, <1>11, <1>12, <1>13 DEF Normal
<1> QED
  BY ONLY <1>14 DEF cfg

\* The parts of a configuration.
Parts == {"disabled", "startText", "startTS", "endText", "endTS", "target", "actual", "spinMap",
          "games", "pool", "guarantees", "jackpot", "eligible", "fund", "rewards", "maxReveals",
          "routes", "scratchTiers", "mappings"}

LEMMA PartsAre ==
  ASSUME NEW raw
  PROVE  DOMAIN NormalizeConfig(raw) = Parts
<1> DEFINE pool == IF raw.pool = Nil THEN Default.pool ELSE NormalPool(raw.pool)
           games == GamesOf(raw, ExpectedValue(pool))
           routes == RoutesOf(raw)
<1>1. NormalizeConfig(raw) = Complete(raw, pool, games, routes)
  BY DEF NormalizeConfig
<1> HIDE DEF pool, games, routes
<1>2. DOMAIN Complete(raw, pool, games, routes) = Parts
  BY DEF Complete, Parts
<1> QED
  BY ONLY <1>1, <1>2

Rerouted(cfg, routes, tiers) == [cfg EXCEPT !.routes = routes, !.scratchTiers = tiers]

\* Other routes leave the other parts of a configuration as they are.
LEMMA ReroutedIs ==
  ASSUME NEW cfg, NEW a, NEW b, DOMAIN cfg = Parts
  PROVE  /\ Rerouted(cfg, a, b).routes = a
         /\ \A f \in Parts \ {"routes", "scratchTiers"} : Rerouted(cfg, a, b)[f] = cfg[f]
<1> DEFINE x == Rerouted(cfg, a, b)
           y == [cfg EXCEPT !.routes = a]
<1>1. x = [y EXCEPT !.scratchTiers = b]
  BY DEF Rerouted
<1>2. "routes" \in Parts /\ "scratchTiers" # "routes"
  BY DEF Parts
<1> HIDE DEF x
<1>3. DOMAIN y = Parts /\ y.routes = a /\ \A f \in Parts \ {"routes"} : y[f] = cfg[f]
  BY <1>2
<1> HIDE DEF y
<1>4. x.routes = a /\ \A f \in Parts \ {"routes", "scratchTiers"} : x[f] = cfg[f]
  BY <1>1, <1>2, <1>3
<1> QED
  BY ONLY <1>4 DEF x

\* Draws of an older form change the draws of routes and nothing else.
LEMMA WithLegacyIs ==
  ASSUME NEW cfg, NEW legacy, Normal(cfg), \A g \in DOMAIN legacy : legacy[g] \in Int /\ legacy[g] > 0,
         DOMAIN cfg = Parts
  PROVE  LET x == WithLegacyDraws(cfg, legacy)
         IN  /\ Normal(x)
             /\ x.spinMap = cfg.spinMap
             /\ \A tier : /\ RouteIn(x.routes, tier) = <<>> <=> RouteIn(cfg.routes, tier) = <<>>
                          /\ RouteIn(x.routes, tier) # <<>> =>
                               RouteIn(x.routes, tier)[1].game = RouteIn(cfg.routes, tier)[1].game
             /\ DOMAIN legacy = {} => x = cfg
<1> DEFINE x == WithLegacyDraws(cfg, legacy)
           kept == NormalRoutes(cfg.routes)
           with == RoutesWith(legacy, kept)
<1>1. Clear(cfg.routes)
  BY ONLY Normal(cfg) DEF Normal
<1>2. Clear(kept) /\ InTiers(kept) /\ \A tier : RouteIn(kept, tier) = RouteIn(cfg.routes, tier)
  BY ONLY <1>1, RoutesKept
<1> HIDE DEF kept
<1>3. /\ Clear(with) /\ DOMAIN with = DOMAIN kept
      /\ \A i \in DOMAIN kept : with[i].tier = kept[i].tier /\ with[i].game = kept[i].game
  BY ONLY <1>2, \A g \in DOMAIN legacy : legacy[g] \in Int /\ legacy[g] > 0, RoutesWithAre
<1>4. x = IF DOMAIN legacy = {} THEN cfg
          ELSE [cfg EXCEPT !.routes = with, !.scratchTiers = ScratchTiers(with)]
  BY DEF WithLegacyDraws, with, kept
<1> HIDE DEF with, x
<1>5. ASSUME NEW tier
      PROVE  /\ RouteIn(with, tier) = <<>> <=> RouteIn(kept, tier) = <<>>
             /\ RouteIn(with, tier) # <<>> => RouteIn(with, tier)[1].game = RouteIn(kept, tier)[1].game
  <2>1. CASE \A i \in DOMAIN kept : kept[i].tier # tier
    <3>1. \A i \in DOMAIN with : with[i].tier # tier
      BY ONLY <1>3, <2>1
    <3>2. RouteIn(with, tier) = <<>> /\ RouteIn(kept, tier) = <<>>
      BY ONLY <1>2, <1>3, <2>1, <3>1, RouteInIs
    <3> QED
      BY ONLY <3>2
  <2>2. CASE \E i \in DOMAIN kept : kept[i].tier = tier
    <3>1. PICK i \in DOMAIN kept : kept[i].tier = tier
      BY ONLY <2>2
    <3>2. i \in DOMAIN with /\ with[i].tier = tier /\ with[i].game = kept[i].game
      BY ONLY <1>3, <3>1
    <3>3. RouteIn(kept, tier) = <<kept[i]>>
      BY ONLY <1>2, <3>1, RouteInIs
    <3>4. RouteIn(with, tier) = <<with[i]>>
      BY ONLY <1>3, <3>2, RouteInIs
    <3> QED
      BY ONLY <3>2, <3>3, <3>4
  <2> QED
    BY ONLY <2>1, <2>2
<1>6. CASE DOMAIN legacy = {}
  <2>1. x = cfg
    BY ONLY <1>4, <1>6
  <2> QED
    BY ONLY <2>1, Normal(cfg) DEF x
<1>7. CASE DOMAIN legacy # {}
  <2> DEFINE tiers == ScratchTiers(with)
  <2>1. x = Rerouted(cfg, with, tiers)
    BY ONLY <1>4, <1>7 DEF Rerouted
  <2> HIDE DEF tiers
  <2>2. x.routes = with /\ \A f \in Parts \ {"routes", "scratchTiers"} : x[f] = cfg[f]
    BY ONLY <2>1, DOMAIN cfg = Parts, ReroutedIs
  <2>3. /\ x.startText = cfg.startText /\ x.startTS = cfg.startTS
        /\ x.endText = cfg.endText /\ x.endTS = cfg.endTS
        /\ x.pool = cfg.pool /\ x.games = cfg.games /\ x.spinMap = cfg.spinMap
        /\ x.guarantees = cfg.guarantees /\ x.eligible = cfg.eligible /\ x.fund = cfg.fund
        /\ x.rewards = cfg.rewards /\ x.maxReveals = cfg.maxReveals /\ x.mappings = cfg.mappings
    BY ONLY <2>2 DEF Parts
  <2>4. Normal(x)
    BY ONLY <1>3, <2>2, <2>3, Normal(cfg) DEF Normal
  <2>5. \A tier : /\ RouteIn(x.routes, tier) = <<>> <=> RouteIn(cfg.routes, tier) = <<>>
                  /\ RouteIn(x.routes, tier) # <<>> =>
                       RouteIn(x.routes, tier)[1].game = RouteIn(cfg.routes, tier)[1].game
    BY ONLY <1>2, <1>5, <2>2
  <2> QED
    BY ONLY <1>7, <2>3, <2>4, <2>5 DEF x
<1> QED
  BY ONLY <1>6, <1>7

\* Configurations whose parts are normalised to the same are.
LEMMA SameParts ==
  ASSUME NEW a, NEW b, NEW pool, NEW games, NEW routes,
         a.disabled = b.disabled,
         Window(a.startText, a.startTS, Default.start) = Window(b.startText, b.startTS, Default.start),
         Window(a.endText, a.endTS, Default.end) = Window(b.endText, b.endTS, Default.end),
         TargetOr(a.target, games, "target") = TargetOr(b.target, games, "target"),
         TargetOr(a.actual, games, "actual") = TargetOr(b.actual, games, "actual"),
         (IF a.spinMap = Nil THEN Default.spinMap ELSE NormalSpinMap(a.spinMap))
           = (IF b.spinMap = Nil THEN Default.spinMap ELSE NormalSpinMap(b.spinMap)),
         (IF a.guarantees = Nil THEN Default.guarantees ELSE NormalGuarantees(a.guarantees))
           = (IF b.guarantees = Nil THEN Default.guarantees ELSE NormalGuarantees(b.guarantees)),
         (IF a.jackpot <= 0 THEN Default.jackpot ELSE a.jackpot)
           = (IF b.jackpot <= 0 THEN Default.jackpot ELSE b.jackpot),
         (IF a.eligible = Nil THEN Default.eligible ELSE {d \in a.eligible : d > 0})
           = (IF b.eligible = Nil THEN Default.eligible ELSE {d \in b.eligible : d > 0}),
         FundOf(a.fund) = FundOf(b.fund),
         PositiveOf(OrElse(a.rewards, Default.rewards)) = PositiveOf(OrElse(b.rewards, Default.rewards)),
         NormalMaxReveals(a.maxReveals) = NormalMaxReveals(b.maxReveals),
         NormalMappings(a.mappings) = NormalMappings(b.mappings)
  PROVE  Complete(a, pool, games, routes) = Complete(b, pool, games, routes)
BY DEF Complete, FundOf

LEMMA ClearIsThere ==
  ASSUME NEW routes, Clear(routes)
  PROVE  routes # Nil
<1>1. routes \in Seq(RightRows)
  BY DEF Clear
<1>2. RightRows \in SUBSET RouteRows
  BY DEF RightRows
<1>3. routes \in Seq(RouteRows)
  BY ONLY <1>1, <1>2
<1> QED
  BY ONLY <1>3, NilIsNothing

\* A configuration that was normalised before is not changed again.
LEMMA TwiceIsOnce ==
  ASSUME NEW x, Normal(x)
  PROVE  NormalizeConfig(NormalizeConfig(x)) = NormalizeConfig(x)
<1> DEFINE cfg == NormalizeConfig(x)
<1>0. /\ x.startText \in Int /\ x.startTS = x.startText
      /\ x.endText \in Int /\ x.endTS = x.endText
      /\ x.pool \in Seq(PrizeRows) /\ NormalPool(x.pool) = x.pool
      /\ x.games \in Seq(AimedGames)
      /\ IsSpinMap(x.spinMap) /\ NormalSpinMap(x.spinMap) = x.spinMap
      /\ x.guarantees \in Seq(GuaranteeRows) /\ NormalGuarantees(x.guarantees) = x.guarantees
      /\ IsTierSet(x.eligible) /\ \A d \in x.eligible : d > 0
      /\ FundOf(FundOf(x.fund)) = FundOf(x.fund)
      /\ x.rewards \in Seq(Int) /\ PositiveOf(x.rewards) = x.rewards
      /\ x.maxReveals \in Int
      /\ Clear(x.routes)
      /\ NormalMappings(x.mappings) = x.mappings
  BY ONLY Normal(x) DEF Normal
<1>1. /\ cfg.startText = Window(x.startText, x.startTS, Default.start)
      /\ cfg.startTS = cfg.startText
      /\ cfg.endText = Window(x.endText, x.endTS, Default.end)
      /\ cfg.endTS = cfg.endText
      /\ cfg.target = TargetOr(x.target, cfg.games, "target")
      /\ cfg.actual = TargetOr(x.actual, cfg.games, "actual")
      /\ cfg.disabled = x.disabled
      /\ cfg.pool = IF x.pool = Nil THEN Default.pool ELSE NormalPool(x.pool)
      /\ cfg.games = GamesOf(x, ExpectedValue(cfg.pool))
      /\ cfg.fund = FundOf(x.fund)
      /\ cfg.rewards = PositiveOf(OrElse(x.rewards, Default.rewards))
      /\ cfg.maxReveals = NormalMaxReveals(x.maxReveals)
  BY ONLY FieldsAre
<1>2. /\ cfg.spinMap = IF x.spinMap = Nil THEN Default.spinMap ELSE NormalSpinMap(x.spinMap)
      /\ cfg.guarantees = IF x.guarantees = Nil THEN Default.guarantees
                          ELSE NormalGuarantees(x.guarantees)
      /\ cfg.jackpot = IF x.jackpot <= 0 THEN Default.jackpot ELSE x.jackpot
      /\ cfg.eligible = IF x.eligible = Nil THEN Default.eligible
                        ELSE {d \in x.eligible : d > 0}
      /\ cfg.routes = RoutesOf(x)
      /\ cfg.mappings = NormalMappings(x.mappings)
  BY ONLY MoreFieldsAre
<1>3. cfg = Complete(x, cfg.pool, cfg.games, cfg.routes)
  <2> DEFINE pool == IF x.pool = Nil THEN Default.pool ELSE NormalPool(x.pool)
             games == GamesOf(x, ExpectedValue(pool))
             routes == RoutesOf(x)
  <2>1. cfg = Complete(x, pool, games, routes)
    BY DEF NormalizeConfig
  <2>2. pool = cfg.pool /\ games = cfg.games /\ routes = cfg.routes
    BY ONLY <1>1, <1>2
  <2> HIDE DEF pool, games, routes
  <2> QED
    BY ONLY <2>1, <2>2
<1> DEFINE again == NormalizeConfig(cfg)
           pool2 == IF cfg.pool = Nil THEN Default.pool ELSE NormalPool(cfg.pool)
           games2 == GamesOf(cfg, ExpectedValue(pool2))
           routes2 == RoutesOf(cfg)
<1>4. again = Complete(cfg, pool2, games2, routes2)
  BY DEF NormalizeConfig
<1> HIDE DEF cfg, again
<1>5. cfg.pool = x.pool /\ x.pool # Nil /\ pool2 = cfg.pool
  BY ONLY <1>0, <1>1, NilIsNothing
<1> HIDE DEF pool2
<1>6. games2 = cfg.games
  <2>1. Nil \notin Seq(AimedGames)
    BY ONLY NilIsNothing, AimedAre
  <2>2. cfg.games = NormalGames(Default.games \o x.games)
    BY ONLY <1>0, <1>1, <2>1 DEF GamesOf
  <2>3. x.games \in Seq(AimedGames)
    BY ONLY <1>0
  <2>4. cfg.games \in Seq(AimedGames)
    <3>1. x.pool \in Seq(PrizeRows) /\ x.games \in {Nil} \cup Seq(AimedGames)
      BY ONLY <1>0
    <3>2. ExpectedValue(x.pool) \in Rationals
      BY ONLY <3>1, WorthIsRational
    <3>3. GamesOf(x, ExpectedValue(x.pool)) \in Seq(AimedGames)
      BY ONLY <3>1, <3>2, GamesOfAre
    <3> QED
      BY ONLY <1>1, <1>5, <3>3
  <2>5. NormalGames(Default.games \o NormalGames(Default.games \o x.games))
          = NormalGames(Default.games \o x.games)
    BY ONLY <2>3, GamesTwice
  <2>6. games2 = NormalGames(Default.games \o cfg.games)
    BY ONLY <2>1, <2>4 DEF GamesOf
  <2> QED
    BY ONLY <2>2, <2>5, <2>6
<1>7. routes2 = cfg.routes
  <2>1. \A routes : Clear(routes) => routes # Nil
    BY ONLY ClearIsThere
  <2>2. cfg.routes = NormalRoutes(x.routes)
    BY ONLY <1>0, <1>2, <2>1 DEF RoutesOf
  <2>3. Clear(cfg.routes) /\ NormalRoutes(cfg.routes) = cfg.routes
    BY ONLY <1>0, <2>2, RoutesKept
  <2> QED
    BY ONLY <2>1, <2>3 DEF RoutesOf
<1> HIDE DEF games2, routes2
<1>8. again = Complete(cfg, cfg.pool, cfg.games, cfg.routes)
  BY ONLY <1>4, <1>5, <1>6, <1>7
<1>9. Complete(x, cfg.pool, cfg.games, cfg.routes) = Complete(cfg, cfg.pool, cfg.games, cfg.routes)
  <2>1. cfg.disabled = x.disabled
    BY ONLY <1>1
  <2>2. Window(cfg.startText, cfg.startTS, Default.start) = Window(x.startText, x.startTS, Default.start)
    <3>1. x.startText \in Int /\ x.startTS \in Int /\ Default.start \in Int
      BY ONLY <1>0, DefaultIsComplete
    <3> QED
      BY ONLY <1>1, <3>1 DEF Window
  <2>3. Window(cfg.endText, cfg.endTS, Default.end) = Window(x.endText, x.endTS, Default.end)
    <3>1. x.endText \in Int /\ x.endTS \in Int /\ Default.end \in Int
      BY ONLY <1>0, DefaultIsComplete
    <3> QED
      BY ONLY <1>1, <3>1 DEF Window
  <2>4. TargetOr(cfg.target, cfg.games, "target") = TargetOr(x.target, cfg.games, "target")
    BY ONLY <1>1, TargetTwice
  <2>5. TargetOr(cfg.actual, cfg.games, "actual") = TargetOr(x.actual, cfg.games, "actual")
    BY ONLY <1>1, TargetTwice
  <2>6. cfg.spinMap = x.spinMap
    BY ONLY <1>0, <1>2 DEF IsSpinMap
  <2>7. cfg.guarantees = x.guarantees
    BY ONLY <1>0, <1>2, NilIsNothing
  <2>8. (IF cfg.jackpot <= 0 THEN Default.jackpot ELSE cfg.jackpot)
          = (IF x.jackpot <= 0 THEN Default.jackpot ELSE x.jackpot)
    BY ONLY <1>2
  <2>9. cfg.eligible = x.eligible
    <3>1. x.eligible \in SUBSET Int /\ {d \in x.eligible : d > 0} = x.eligible /\ x.eligible # Nil
      BY ONLY <1>0 DEF IsTierSet
    <3> QED
      BY ONLY <1>2, <3>1
  <2>10. FundOf(cfg.fund) = FundOf(x.fund)
    BY ONLY <1>0, <1>1
  <2>11. cfg.rewards = x.rewards
    BY ONLY <1>0, <1>1, NilIsNothing DEF OrElse
  <2>12. NormalMaxReveals(cfg.maxReveals) = NormalMaxReveals(x.maxReveals)
    BY ONLY <1>0, <1>1, RevealsTwice
  <2>13. cfg.mappings = x.mappings
    BY ONLY <1>0, <1>2
  <2>14. /\ (IF cfg.spinMap = Nil THEN Default.spinMap ELSE NormalSpinMap(cfg.spinMap))
              = (IF x.spinMap = Nil THEN Default.spinMap ELSE NormalSpinMap(x.spinMap))
         /\ (IF cfg.guarantees = Nil THEN Default.guarantees ELSE NormalGuarantees(cfg.guarantees))
              = (IF x.guarantees = Nil THEN Default.guarantees ELSE NormalGuarantees(x.guarantees))
         /\ (IF cfg.eligible = Nil THEN Default.eligible ELSE {d \in cfg.eligible : d > 0})
              = (IF x.eligible = Nil THEN Default.eligible ELSE {d \in x.eligible : d > 0})
         /\ PositiveOf(OrElse(cfg.rewards, Default.rewards)) = PositiveOf(OrElse(x.rewards, Default.rewards))
         /\ NormalMappings(cfg.mappings) = NormalMappings(x.mappings)
    BY ONLY <2>6, <2>7, <2>9, <2>11, <2>13
  <2> DEFINE games == cfg.games
             routes == cfg.routes
             pool == cfg.pool
  <2>15. Complete(cfg, pool, games, routes) = Complete(x, pool, games, routes)
    BY ONLY <2>1, <2>2, <2>3, <2>4, <2>5, <2>8, <2>10, <2>12, <2>14, SameParts
  <2> QED
    BY ONLY <2>15
<1>10. again = cfg
  BY ONLY <1>3, <1>8, <1>9
<1> QED
  BY ONLY <1>10 DEF again, cfg

\* What a normalised configuration says about the cards of a login.
LEMMA PlansHaveDraws ==
  ASSUME NEW cfg, NormalizeConfig(cfg) = cfg, Clear(cfg.routes)
  PROVE  /\ \A tier : TierConfigured(cfg, tier) <=> DrawCountForTier(cfg, tier) > 0
         /\ \A tier : GameForTier(cfg, tier) \in Range(Games)
         /\ \A token : LET plan == PlanLoginCard(token, 0, cfg, 1)
                       IN  plan.ok => plan.draws > 0 /\ plan.game \in Range(Games)
<1>1. \A tier : DrawCountForTier(cfg, tier)
                  = IF TierConfigured(cfg, tier)
                    THEN DrawsOn(RouteOf(cfg, tier), SpinsOf(cfg, tier)) ELSE 0
  BY DEF DrawCountForTier
<1>2. \A tier : TierConfigured(cfg, tier) <=> SpinsOf(cfg, tier) > 0 \/ RouteOf(cfg, tier) # <<>>
  BY DEF TierConfigured
<1>3. \A route, spins : spins > 0 \/ route # <<>> => DrawsOn(route, spins) > 0
  <2> DEFINE slot(route) == route[1].game = "slot"
  <2>1. \A route, spins : DrawsOn(route, spins)
                            = IF route = <<>> THEN spins
                              ELSE IF route[1].draws > 0 THEN route[1].draws
                              ELSE IF slot(route) /\ spins > 0 THEN spins ELSE 1
    BY DEF DrawsOn
  <2> HIDE DEF slot
  <2>2. 1 > 0
    OBVIOUS
  <2> QED
    BY ONLY <2>1, <2>2
<1>4. \A tier : TierConfigured(cfg, tier) <=> DrawCountForTier(cfg, tier) > 0
  <2>1. ~(0 > 0)
    OBVIOUS
  <2> QED
    BY ONLY <1>1, <1>2, <1>3, <2>1
<1>5. ASSUME NEW tier
      PROVE  GameForTier(cfg, tier) \in TheGames
  <2>1. GameForTier(cfg, tier) = IF RouteOf(cfg, tier) = <<>> THEN "slot" ELSE RouteOf(cfg, tier)[1].game
    BY DEF GameForTier
  <2>2. RouteOf(cfg, tier) = RouteIn(cfg.routes, tier)
    BY DEF RouteOf, RouteIn
  <2> DEFINE routes == cfg.routes
  <2>3. Clear(routes)
    BY ONLY Clear(cfg.routes)
  <2>4. \A i \in DOMAIN routes : routes[i].game \in TheGames
    <3>1. routes \in Seq(RightRows)
      BY ONLY <2>3 DEF Clear
    <3>2. \A i \in DOMAIN routes : routes[i] \in RightRows
      BY ONLY <3>1, Entry
    <3> QED
      BY ONLY <3>2 DEF RightRows
  <2> HIDE DEF routes
  <2>5. RouteIn(routes, tier) = <<>> \/ \E i \in DOMAIN routes : RouteIn(routes, tier) = <<routes[i]>>
    BY ONLY <2>3, RouteInIs
  <2>6. RouteIn(routes, tier) # <<>> => RouteIn(routes, tier)[1].game \in TheGames
    BY ONLY <2>4, <2>5
  <2> QED
    BY ONLY <2>1, <2>2, <2>6, GamesAre DEF routes
<1>6. ASSUME NEW token, PlanLoginCard(token, 0, cfg, 1).ok
      PROVE  /\ PlanLoginCard(token, 0, cfg, 1).draws > 0
             /\ PlanLoginCard(token, 0, cfg, 1).game \in TheGames
  <2> DEFINE tier == IF token.test > 0 THEN token.test ELSE DollarsTier(token.quota, 1)
             draws == DrawCountForTier(cfg, tier)
             plan == PlanCard(token, 0, cfg, tier, draws)
             pays == Contribution(cfg.fund, tier)
             game == GameForTier(cfg, tier)
  <2>1. PlanLoginCard(token, 0, cfg, 1) = plan
    BY DEF PlanLoginCard
  <2>2. plan.ok => ~(draws <= 0) /\ plan.draws = draws /\ plan.game = game
    <3> HIDE DEF tier, draws
    <3> DEFINE out == token.test = 0
                      /\ ~(token.created >= cfg.startTS /\ token.created <= cfg.endTS)
                      /\ ~(0 > 0 /\ 0 >= cfg.startText /\ 0 <= cfg.endText)
               none == tier = 0 \/ draws <= 0
    <3>1. plan = IF token.status # 1 THEN [ok |-> FALSE, why |-> "disabled"]
                 ELSE IF out THEN [ok |-> FALSE, why |-> "outside_window"]
                 ELSE IF none THEN [ok |-> FALSE, why |-> "ineligible"]
                 ELSE [ok |-> TRUE, tier |-> tier, draws |-> draws, game |-> game,
                       contribution |-> pays]
      BY DEF PlanCard
    <3> HIDE DEF plan, out, none, game, pays
    <3>2. plan.ok => ~none /\ plan.draws = draws /\ plan.game = game
      BY ONLY <3>1
    <3> QED
      BY ONLY <3>2 DEF none
  <2>3. plan.ok
    BY ONLY <1>6, <2>1
  <2>4. game \in TheGames
    BY ONLY <1>5
  <2> HIDE DEF plan, game
  <2>5. draws > 0
    <3>1. ~(draws <= 0)
      BY ONLY <2>2, <2>3
    <3>2. draws = 0 \/ TierConfigured(cfg, tier)
      BY ONLY <1>1
    <3>3. ~(0 <= 0) => FALSE
      OBVIOUS
    <3> QED
      BY ONLY <1>4, <3>1, <3>2, <3>3
  <2> QED
    BY ONLY <2>1, <2>2, <2>3, <2>4, <2>5
<1>7. TheGames = Range(Games)
  BY ONLY NamesAre
<1> QED
  BY ONLY <1>4, <1>5, <1>6, <1>7

\* Every configuration that is typed in is read back as it was stored, and means the same.
LEMMA ConfigSurvivesAlways ==
  ASSUME NEW raw, IsTyped(raw), NEW legacy, legacy \in [DOMAIN legacy -> Int], NEW tiers, NEW tokens
  PROVE  ConfigSurvives(raw, legacy, tiers, tokens)
<1> DEFINE once == NormalizeConfig(raw)
           named == {g \in DOMAIN legacy : g # "" /\ legacy[g] > 0}
           draws == [g \in named |-> legacy[g]]
           x == WithLegacyDraws(once, draws)
           cfg == NormalizeConfig(x)
           again == UnmarshalJSON(MarshalJSON(cfg), << >>)
<1>1. Normal(once) /\ DOMAIN once = Parts
  BY ONLY IsTyped(raw), NormalAfter, PartsAre
<1>2. UnmarshalJSON(raw, legacy) = cfg
  BY DEF UnmarshalJSON
<1>3. DOMAIN draws = named /\ \A g \in DOMAIN draws : draws[g] \in Int /\ draws[g] > 0
  <2> DEFINE none == ""
  <2>1. named = {g \in DOMAIN legacy : g # none /\ legacy[g] > 0}
    OBVIOUS
  <2> HIDE DEF named, none
  <2> QED
    BY ONLY <2>1, legacy \in [DOMAIN legacy -> Int]
<1>4. DOMAIN legacy = {} => DOMAIN draws = {}
  OBVIOUS
<1> HIDE DEF once, draws
<1>5. /\ Normal(x) /\ x.spinMap = once.spinMap
      /\ \A tier : /\ RouteIn(x.routes, tier) = <<>> <=> RouteIn(once.routes, tier) = <<>>
                   /\ RouteIn(x.routes, tier) # <<>> =>
                        RouteIn(x.routes, tier)[1].game = RouteIn(once.routes, tier)[1].game
      /\ DOMAIN draws = {} => x = once
  BY ONLY <1>1, <1>3, WithLegacyIs
<1> HIDE DEF x
<1>6. NormalizeConfig(cfg) = cfg
  BY ONLY <1>5, TwiceIsOnce
<1>7. Clear(x.routes)
  BY ONLY <1>5 DEF Normal
<1>8. /\ Clear(cfg.routes)
      /\ \A tier : RouteIn(cfg.routes, tier) = RouteIn(x.routes, tier)
  <2>1. cfg.routes = RoutesOf(x)
    BY ONLY MoreFieldsAre
  <2>2. RoutesOf(x) = NormalRoutes(x.routes)
    BY ONLY <1>7, ClearIsThere DEF RoutesOf
  <2> HIDE DEF cfg
  <2> QED
    BY ONLY <1>7, <2>1, <2>2, RoutesKept
<1>9. cfg.spinMap = once.spinMap
  <2>1. cfg.spinMap = IF x.spinMap = Nil THEN Default.spinMap ELSE NormalSpinMap(x.spinMap)
    BY ONLY MoreFieldsAre
  <2>2. IsSpinMap(x.spinMap) /\ NormalSpinMap(x.spinMap) = x.spinMap
    BY ONLY <1>5 DEF Normal
  <2> HIDE DEF cfg
  <2> QED
    BY ONLY <1>5, <2>1, <2>2 DEF IsSpinMap
<1> HIDE DEF cfg
<1>10. again = cfg
  <2> DEFINE empty == [g \in {y \in DOMAIN <<>> : y # "" /\ <<>>[y] > 0} |-> <<>>[g]]
  <2>1. again = NormalizeConfig(WithLegacyDraws(NormalizeConfig(MarshalJSON(cfg)), empty))
    BY DEF UnmarshalJSON
  <2>2. DOMAIN empty = {}
    OBVIOUS
  <2> HIDE DEF empty, again
  <2>3. WithLegacyDraws(cfg, empty) = cfg
    BY ONLY <2>2 DEF WithLegacyDraws
  <2>4. MarshalJSON(cfg) = cfg
    BY ONLY <1>6 DEF MarshalJSON
  <2> QED
    BY ONLY <1>6, <2>1, <2>3, <2>4
<1> HIDE DEF again
<1>11. /\ \A tier : RouteOf(once, tier) = RouteIn(once.routes, tier)
       /\ \A tier : RouteOf(cfg, tier) = RouteIn(cfg.routes, tier)
  BY DEF RouteOf, RouteIn
<1>12. ASSUME NEW tier
       PROVE  GameForTier(raw, tier) = GameForTier(again, tier)
  <2>1. GameForTier(raw, tier) = IF RouteOf(once, tier) = <<>> THEN "slot" ELSE RouteOf(once, tier)[1].game
    BY DEF GameForTier, once
  <2>2. GameForTier(cfg, tier) = IF RouteOf(cfg, tier) = <<>> THEN "slot" ELSE RouteOf(cfg, tier)[1].game
    BY <1>6 DEF GameForTier
  <2> QED
    BY ONLY <1>5, <1>8, <1>10, <1>11, <2>1, <2>2
<1>13. ASSUME NEW tier, DOMAIN legacy = {}
       PROVE  DrawCountForTier(raw, tier) = DrawCountForTier(again, tier)
  <2>1. x = once /\ cfg = NormalizeConfig(once)
    BY ONLY <1>4, <1>5, <1>13 DEF cfg
  <2>2. RouteOf(once, tier) = RouteOf(cfg, tier)
    BY ONLY <1>8, <1>11, <2>1
  <2>3. SpinsOf(once, tier) = SpinsOf(cfg, tier)
    BY ONLY <1>9 DEF SpinsOf
  <2>4. TierConfigured(once, tier) = TierConfigured(cfg, tier)
    BY ONLY <1>6, <2>1 DEF TierConfigured
  <2>5. DrawCountForTier(raw, tier)
          = IF TierConfigured(once, tier) THEN DrawsOn(RouteOf(once, tier), SpinsOf(once, tier)) ELSE 0
    BY DEF DrawCountForTier, once
  <2>6. DrawCountForTier(cfg, tier)
          = IF TierConfigured(cfg, tier) THEN DrawsOn(RouteOf(cfg, tier), SpinsOf(cfg, tier)) ELSE 0
    BY <1>6 DEF DrawCountForTier
  <2> QED
    BY ONLY <1>10, <2>2, <2>3, <2>4, <2>5, <2>6
<1>14. /\ \A tier : TierConfigured(cfg, tier) <=> DrawCountForTier(cfg, tier) > 0
       /\ \A token : LET plan == PlanLoginCard(token, 0, cfg, 1)
                     IN  plan.ok => plan.draws > 0 /\ plan.game \in Range(Games)
  BY ONLY <1>6, <1>8, PlansHaveDraws
<1>15. ReadsTheSame(raw, legacy, cfg, again, tiers, tokens)
  BY ONLY <1>10, <1>12, <1>13, <1>14 DEF ReadsTheSame
<1> QED
  BY ONLY <1>2, <1>15 DEF ConfigSurvives, again

(***************************************************************************)
(* Sites: what is saved boots as it is, and no line loses its site         *)
(***************************************************************************)

\* A line as it is stored: a name, and an address in its normal form.
LineOK(u) ==
  /\ u = [name |-> u.name, url |-> u.url]
  /\ u.name # <<>> /\ u.url # "" /\ u.url \in DOMAIN BaseURL /\ BaseURL[u.url] = u.url

\* The lines of a stored site: each address once.
WellLined(urls) ==
  /\ urls \in Seq(Range(urls))
  /\ \A i \in DOMAIN urls : LineOK(urls[i])
  /\ \A i, j \in DOMAIN urls : urls[i].url = urls[j].url => i = j

\* Addresses as they are posted.
Addressed(urls) == urls \in Seq(Range(urls)) /\ \A u \in Range(urls) : u.url \in DOMAIN BaseURL

\* A list has the members it has.
LEMMA RangeOf ==
  ASSUME NEW X, NEW list \in Seq(X)
  PROVE  list \in Seq(Range(list)) /\ \A i \in DOMAIN list : list[i] \in Range(list) /\ Range(list) \subseteq X
<1> DEFINE n == Len(list)
<1>1. n \in Nat /\ list = [k \in 1..n |-> list[k]] /\ DOMAIN list = 1..n /\ \A k \in 1..n : list[k] \in X
  OBVIOUS
<1> HIDE DEF n
<1>2. list \in Seq(Range(list))
  BY ONLY <1>1, ListOf
<1> QED
  BY ONLY <1>1, <1>2 DEF Range

\* NamedURLs keeps each address once, in its normal form.
LEMMA LinesAreNamed ==
  ASSUME NEW urls, NEW legacy, Addressed(urls), legacy # "" => legacy \in DOMAIN BaseURL
  PROVE  WellLined(NamedURLs(urls, legacy))
<1> DEFINE R == Range(urls)
           last == [name |-> <<>>, url |-> legacy]
           X == R \cup {last}
           all == IF legacy = "" THEN urls ELSE urls \o <<last>>
           address == [i \in DOMAIN all |-> BaseURL[all[i].url]]
           at == {i \in NewAt(address) : address[i] # ""}
           kept == Picked(all, at)
           out == NamedURLs(urls, legacy)
<1>1. urls \in Seq(X) /\ last \in X /\ \A u \in R : u.url \in DOMAIN BaseURL
  <2>1. urls \in Seq(R) /\ \A u \in R : u.url \in DOMAIN BaseURL
    BY DEF Addressed
  <2> HIDE DEF R, last
  <2> QED
    BY ONLY <2>1
<1>2. all \in Seq(X) /\ \A i \in DOMAIN all : all[i].url \in DOMAIN BaseURL
  <2>1. CASE legacy = ""
    <3>1. all = urls
      BY ONLY <2>1
    <3>2. \A i \in DOMAIN urls : urls[i] \in R
      BY DEF Range
    <3> HIDE DEF all, X, R
    <3> QED
      BY ONLY <1>1, <3>1, <3>2
  <2>2. CASE legacy # ""
    <3>1. all = urls \o <<last>> /\ last.url \in DOMAIN BaseURL
      BY <2>2
    <3>2. \A i \in DOMAIN urls : urls[i] \in R
      BY DEF Range
    <3> HIDE DEF all, X, last, R
    <3>3. /\ urls \o <<last>> \in Seq(X)
          /\ DOMAIN (urls \o <<last>>) = DOMAIN urls \cup {Len(urls) + 1}
          /\ \A i \in DOMAIN urls : (urls \o <<last>>)[i] = urls[i]
          /\ (urls \o <<last>>)[Len(urls) + 1] = last
      BY ONLY <1>1, AddedAt
    <3> QED
      BY ONLY <1>1, <3>1, <3>2, <3>3
  <2> QED
    BY ONLY <2>1, <2>2
<1>3. out = [k \in DOMAIN kept |-> [name |-> IF kept[k].name # <<>> THEN kept[k].name ELSE LineName(k),
                                    url |-> BaseURL[kept[k].url]]]
  BY DEF NamedURLs
<1> HIDE DEF all, X, last, R, out
<1>4. address \in Seq(Range(BaseURL)) /\ DOMAIN address = DOMAIN all
  <2>1. \A i \in DOMAIN all : BaseURL[all[i].url] \in Range(BaseURL)
    BY ONLY <1>2 DEF Range
  <2>2. address \in [DOMAIN all -> Range(BaseURL)]
    BY ONLY <2>1
  <2> HIDE DEF address
  <2> QED
    BY ONLY <1>2, <2>2, SameLength
<1>5. \A i \in DOMAIN all : address[i] = BaseURL[all[i].url]
  OBVIOUS
<1> HIDE DEF address
<1>6. /\ NewAt(address) \in SUBSET DOMAIN all
      /\ \A i, j \in NewAt(address) : address[i] = address[j] => i = j
  BY ONLY <1>4, NewIs
<1>7. at \in SUBSET DOMAIN all /\ \A i \in at : address[i] # ""
  BY ONLY <1>6
<1>8. \A i, j \in at : address[i] = address[j] => i = j
  BY ONLY <1>6
<1> HIDE DEF at
<1>9. /\ IsFiniteSet(at) /\ at \in SUBSET Int /\ kept \in Seq(X)
      /\ \A k \in DOMAIN kept : \E i \in at : kept[k] = all[i]
  <2>1. /\ IsFiniteSet(at) /\ at \in SUBSET Nat /\ kept \in Seq(X)
        /\ \A k \in DOMAIN kept : \E i \in at : kept[k] = all[i]
    BY ONLY <1>2, <1>7, PickedSeq
  <2> QED
    BY ONLY <2>1
<1> DEFINE alike == {p \in X \X X : BaseURL[p[1].url] = BaseURL[p[2].url]}
<1>10. \A x, y \in X : <<x, y>> \in alike <=> BaseURL[x.url] = BaseURL[y.url]
  BY ONLY TRUE
<1> HIDE DEF alike
<1>11. \A i, j \in at : <<all[i], all[j]>> \in alike => i = j
  <2> TAKE i, j \in at
  <2>1. all[i] \in X /\ all[j] \in X /\ i \in DOMAIN all /\ j \in DOMAIN all
    BY ONLY <1>2, <1>7, Entry
  <2> QED
    BY ONLY <1>5, <1>8, <1>10, <2>1
<1>12. \A j, k \in DOMAIN kept : <<kept[j], kept[k]>> \in alike => j = k
  BY ONLY <1>9, <1>11, PickedDiffer
<1>13. \A k \in DOMAIN kept : /\ kept[k] \in X /\ kept[k].url \in DOMAIN BaseURL
                              /\ BaseURL[kept[k].url] # ""
  <2> TAKE k \in DOMAIN kept
  <2>1. PICK i \in at : kept[k] = all[i]
    BY ONLY <1>9
  <2>2. i \in DOMAIN all /\ address[i] # ""
    BY ONLY <1>7
  <2>3. all[i] \in X
    BY ONLY <1>2, <2>2, Entry
  <2> QED
    BY ONLY <1>2, <1>5, <2>1, <2>2, <2>3
<1> HIDE DEF kept
<1>14. DOMAIN out = DOMAIN kept /\ out = [k \in DOMAIN kept |-> out[k]]
  BY ONLY <1>3
<1>15. \A k \in DOMAIN kept : out[k].url = BaseURL[kept[k].url]
  BY ONLY <1>3
<1>16. \A k \in DOMAIN kept : LineOK(out[k])
  <2> TAKE k \in DOMAIN kept
  <2>1. LineName(k) # <<>>
    BY ONLY TRUE DEF LineName
  <2> DEFINE name == IF kept[k].name # <<>> THEN kept[k].name ELSE LineName(k)
             url == BaseURL[kept[k].url]
  <2>2. name # <<>>
    BY ONLY <2>1
  <2>3. out[k] = [name |-> name, url |-> url]
    BY ONLY <1>3
  <2>4. url # "" /\ url \in DOMAIN BaseURL /\ BaseURL[url] = url
    BY ONLY <1>13, AddressesAreClean
  <2> HIDE DEF name, url
  <2>5. out[k].name = name /\ out[k].url = url
    BY ONLY <2>3
  <2> QED
    BY ONLY <2>2, <2>3, <2>4, <2>5 DEF LineOK
<1>17. \A j, k \in DOMAIN kept : out[j].url = out[k].url => j = k
  <2> TAKE j, k \in DOMAIN kept
  <2>1. HAVE out[j].url = out[k].url
  <2>2. BaseURL[kept[j].url] = BaseURL[kept[k].url] /\ kept[j] \in X /\ kept[k] \in X
    BY ONLY <1>13, <1>15, <2>1
  <2>3. <<kept[j], kept[k]>> \in alike
    BY ONLY <1>10, <2>2
  <2> QED
    BY ONLY <1>12, <2>3
<1>18. out \in Seq(Range(out))
  <2> DEFINE n == Len(kept)
  <2>1. n \in Nat /\ DOMAIN kept = 1..n
    BY ONLY <1>9
  <2> HIDE DEF n
  <2>2. out = [k \in 1..n |-> out[k]]
    BY ONLY <1>14, <2>1
  <2> QED
    BY ONLY <2>1, <2>2, ListOf
<1>19. WellLined(out)
  BY ONLY <1>14, <1>16, <1>17, <1>18 DEF WellLined
<1> QED
  BY ONLY <1>19 DEF out

\* Lines that were named stay as they are, behind them the address of the first.
LEMMA NamedStays ==
  ASSUME NEW urls, WellLined(urls), 1 \in DOMAIN urls
  PROVE  NamedURLs(urls, urls[1].url) = urls
<1> DEFINE R == Range(urls)
           legacy == urls[1].url
           last == [name |-> <<>>, url |-> legacy]
           X == R \cup {last}
           all == IF legacy = "" THEN urls ELSE urls \o <<last>>
           address == [i \in DOMAIN all |-> BaseURL[all[i].url]]
           at == {i \in NewAt(address) : address[i] # ""}
           kept == Picked(all, at)
           out == NamedURLs(urls, legacy)
           n == Len(urls)
<1>1. /\ urls \in Seq(R) /\ n \in Nat /\ DOMAIN urls = 1..n /\ urls = [k \in 1..n |-> urls[k]]
      /\ 1 \in 1..n
  <2>1. urls \in Seq(R)
    BY DEF WellLined
  <2> HIDE DEF R
  <2> QED
    BY ONLY <2>1, 1 \in DOMAIN urls
<1>2. \A i \in 1..n : LineOK(urls[i])
  BY <1>1 DEF WellLined
<1>3. \A i, j \in 1..n : urls[i].url = urls[j].url => i = j
  BY <1>1 DEF WellLined
<1>4. legacy # "" /\ BaseURL[legacy] = legacy
  BY <1>1, <1>2 DEF LineOK
<1>5. all = urls \o <<last>>
  BY ONLY <1>4
<1>6. out = [k \in DOMAIN kept |-> [name |-> IF kept[k].name # <<>> THEN kept[k].name ELSE LineName(k),
                                    url |-> BaseURL[kept[k].url]]]
  BY DEF NamedURLs
<1>7. urls \in Seq(X) /\ last \in X /\ last.url = legacy
  <2> HIDE DEF R, legacy
  <2> QED
    BY ONLY <1>1
<1> HIDE DEF all, X, R, out, n, last
<1>8. /\ all \in Seq(X) /\ DOMAIN all = (1..n) \cup {n + 1}
      /\ \A i \in 1..n : all[i] = urls[i]
      /\ all[n + 1] = last
  <2>1. /\ urls \o <<last>> \in Seq(X)
        /\ DOMAIN (urls \o <<last>>) = DOMAIN urls \cup {Len(urls) + 1}
        /\ \A i \in DOMAIN urls : (urls \o <<last>>)[i] = urls[i]
        /\ (urls \o <<last>>)[Len(urls) + 1] = last
    BY ONLY <1>7, AddedAt
  <2> QED
    BY ONLY <1>1, <1>5, <2>1 DEF n
<1>9. \A i \in 1..n : /\ address[i] = urls[i].url /\ address[i] # ""
                      /\ i \in DOMAIN address
  <2> TAKE i \in 1..n
  <2>1. urls[i].url # "" /\ BaseURL[urls[i].url] = urls[i].url
    BY ONLY <1>2 DEF LineOK
  <2> QED
    BY ONLY <1>8, <2>1
<1>10. address[n + 1] = legacy /\ DOMAIN address = (1..n) \cup {n + 1}
  BY ONLY <1>4, <1>7, <1>8
<1> HIDE DEF address
<1>11. address[1] = legacy
  BY ONLY <1>1, <1>9
<1>12. n + 1 \notin NewAt(address)
  <2>1. 1 \in 1..((n + 1) - 1)
    BY ONLY <1>1
  <2> QED
    BY ONLY <1>10, <1>11, <2>1 DEF NewAt
<1>13. \A i \in 1..n : i \in NewAt(address)
  <2> TAKE i \in 1..n
  <2>1. \A j \in 1..(i - 1) : j \in 1..n /\ j # i
    BY ONLY <1>1
  <2> QED
    BY ONLY <1>3, <1>9, <2>1 DEF NewAt
<1>14. NewAt(address) \in SUBSET ((1..n) \cup {n + 1})
  BY ONLY <1>10 DEF NewAt
<1>15. at = 1..n
  BY ONLY <1>9, <1>12, <1>13, <1>14
<1>16. kept = [k \in 1..n |-> all[k]]
  <2> HIDE DEF at
  <2>1. Ascending(at) = [k \in 1..n |-> k]
    BY ONLY <1>1, <1>15, AscendingNumbers
  <2>2. kept = [k \in DOMAIN Ascending(at) |-> all[Ascending(at)[k]]]
    BY ONLY TRUE DEF Picked
  <2> QED
    BY ONLY <2>1, <2>2
<1> HIDE DEF kept
<1>17. \A k \in 1..n : kept[k] = urls[k] /\ BaseURL[urls[k].url] = urls[k].url /\ urls[k].name # <<>>
                       /\ urls[k] = [name |-> urls[k].name, url |-> urls[k].url]
  BY ONLY <1>2, <1>8, <1>16 DEF LineOK
<1>18. \A k \in 1..n : [name |-> IF kept[k].name # <<>> THEN kept[k].name ELSE LineName(k),
                        url |-> BaseURL[kept[k].url]] = urls[k]
  <2> TAKE k \in 1..n
  <2>1. /\ kept[k] = urls[k] /\ BaseURL[urls[k].url] = urls[k].url /\ urls[k].name # <<>>
        /\ urls[k] = [name |-> urls[k].name, url |-> urls[k].url]
    BY ONLY <1>17
  <2> DEFINE a == IF kept[k].name # <<>> THEN kept[k].name ELSE LineName(k)
             b == BaseURL[kept[k].url]
  <2>2. a = urls[k].name /\ b = urls[k].url
    BY ONLY <2>1
  <2> HIDE DEF a, b
  <2>3. [name |-> a, url |-> b] = urls[k]
    BY ONLY <2>1, <2>2
  <2> QED
    BY ONLY <2>3 DEF a, b
<1>19. DOMAIN kept = 1..n
  BY ONLY <1>16
<1>20. out = [k \in 1..n |-> urls[k]]
  BY ONLY <1>6, <1>18, <1>19
<1> QED
  BY ONLY <1>1, <1>20 DEF out

\* A site as it is stored.
GoodSite(s) ==
  /\ s = [name |-> s.name, category |-> s.category, urls |-> s.urls, url |-> s.url,
          token |-> s.token, kind |-> s.kind, unit |-> s.unit]
  /\ s.category \in {"api", "token"} /\ s.name # "" /\ s.token # "" /\ s.kind \in Kinds
  /\ s.unit \in Int /\ s.unit > 0
  /\ WellLined(s.urls) /\ 1 \in DOMAIN s.urls /\ s.url = s.urls[1].url

\* A list has a first entry unless it is the empty one.
LEMMA HasFirst ==
  ASSUME NEW X, NEW list \in Seq(X)
  PROVE  list # <<>> <=> 1 \in DOMAIN list
<1>1. Len(list) \in Nat /\ DOMAIN list = 1..Len(list)
  OBVIOUS
<1>2. list = <<>> <=> Len(list) = 0
  OBVIOUS
<1> QED
  BY ONLY <1>1, <1>2

\* A posted site that is accepted is good after it was cleaned.
LEMMA CleanIsGood ==
  ASSUME NEW s, NEW previous, Addressed(s.urls), s.url # "" => s.url \in DOMAIN BaseURL, s.unit \in Int,
         Acceptable(Clean(s, previous))
  PROVE  GoodSite(Clean(s, previous))
<1> DEFINE urls == NamedURLs(s.urls, s.url)
           name == s.name
           category == CategoryOf(s)
           url == IF urls = <<>> THEN "" ELSE urls[1].url
           token == IF s.token # "" THEN s.token ELSE MatchingToken(s.name, CategoryOf(s), previous)
           kind == IF s.kind = "" THEN "api" ELSE s.kind
           unit == IF s.unit <= 0 THEN DefaultQuotaUnit ELSE s.unit
           out == Clean(s, previous)
<1>1. out = [name |-> name, category |-> category, urls |-> urls, url |-> url,
             token |-> token, kind |-> kind, unit |-> unit]
  BY DEF Clean
<1>2. WellLined(urls)
  BY LinesAreNamed
<1>3. unit \in Int /\ unit > 0
  <2>1. DefaultQuotaUnit \in Int /\ DefaultQuotaUnit > 0
    BY ONLY TRUE DEF DefaultQuotaUnit
  <2>2. s.unit \in Int
    OBVIOUS
  <2> QED
    BY ONLY <2>1, <2>2
<1>4. Acceptable(out)
  OBVIOUS
<1>5. urls # <<>> => url = urls[1].url
  OBVIOUS
<1> HIDE DEF urls, name, category, url, token, kind, unit, out
<1>6. /\ out.name = name /\ out.category = category /\ out.urls = urls /\ out.url = url
      /\ out.token = token /\ out.kind = kind /\ out.unit = unit
  BY ONLY <1>1
<1>7. urls # <<>> /\ category \in {"api", "token"} /\ name # "" /\ token # "" /\ kind \in Kinds
  BY ONLY <1>4, <1>6 DEF Acceptable
<1>8. 1 \in DOMAIN urls
  <2>1. urls \in Seq(Range(urls))
    BY ONLY <1>2 DEF WellLined
  <2> QED
    BY ONLY <1>7, <2>1, HasFirst
<1>9. GoodSite(out)
  BY ONLY <1>1, <1>2, <1>3, <1>5, <1>6, <1>7, <1>8 DEF GoodSite
<1> QED
  BY ONLY <1>9 DEF out

\* Cleaning a good site changes nothing.
LEMMA CleanSiteStays ==
  ASSUME NEW s, NEW previous, GoodSite(s)
  PROVE  Clean(s, previous) = s /\ Acceptable(s)
<1> DEFINE urls == NamedURLs(s.urls, s.url)
           url == IF urls = <<>> THEN "" ELSE urls[1].url
           token == IF s.token # "" THEN s.token ELSE MatchingToken(s.name, CategoryOf(s), previous)
           kind == IF s.kind = "" THEN "api" ELSE s.kind
           unit == IF s.unit <= 0 THEN DefaultQuotaUnit ELSE s.unit
<1>1. /\ s.category \in {"api", "token"} /\ s.name # "" /\ s.token # "" /\ s.kind \in Kinds
      /\ s.unit \in Int /\ s.unit > 0
      /\ WellLined(s.urls) /\ 1 \in DOMAIN s.urls /\ s.url = s.urls[1].url
  BY DEF GoodSite
<1>2. urls = s.urls
  BY ONLY <1>1, NamedStays
<1>3. s.urls # <<>>
  <2>1. s.urls \in Seq(Range(s.urls))
    BY ONLY <1>1 DEF WellLined
  <2> QED
    BY ONLY <1>1, <2>1, HasFirst
<1>4. token = s.token
  BY ONLY <1>1
<1>5. kind = s.kind
  BY ONLY <1>1 DEF Kinds
<1>6. unit = s.unit
  <2>1. s.unit \in Int /\ s.unit > 0
    BY ONLY <1>1
  <2>2. ~(s.unit <= 0)
    BY ONLY <2>1
  <2> QED
    BY ONLY <2>2
<1>7. CategoryOf(s) = s.category
  BY ONLY <1>1 DEF CategoryOf
<1>8. Clean(s, previous) = [name |-> s.name, category |-> CategoryOf(s), urls |-> urls, url |-> url,
                            token |-> token, kind |-> kind, unit |-> unit]
  BY ONLY TRUE DEF Clean
<1> HIDE DEF urls
<1>9. url = s.url
  BY ONLY <1>1, <1>2, <1>3
<1> HIDE DEF url, token, kind, unit
<1>10. Clean(s, previous) = s
  <2>1. s = [name |-> s.name, category |-> s.category, urls |-> s.urls, url |-> s.url,
             token |-> s.token, kind |-> s.kind, unit |-> s.unit]
    BY DEF GoodSite
  <2> DEFINE c == CategoryOf(s)
  <2> HIDE DEF c
  <2>2. c = s.category
    BY ONLY <1>7 DEF c
  <2>3. [name |-> s.name, category |-> c, urls |-> urls, url |-> url,
         token |-> token, kind |-> kind, unit |-> unit]
        = [name |-> s.name, category |-> s.category, urls |-> s.urls, url |-> s.url,
           token |-> s.token, kind |-> s.kind, unit |-> s.unit]
    BY ONLY <1>2, <1>4, <1>5, <1>6, <1>9, <2>2
  <2> QED
    BY ONLY <1>8, <2>1, <2>3 DEF c
<1>11. Acceptable(s)
  BY ONLY <1>1, <1>3 DEF Acceptable
<1> QED
  BY ONLY <1>10, <1>11

\* Sites as they are stored, before those of one token are merged.
GoodSites(sites) == sites \in Seq(Range(sites)) /\ \A i \in DOMAIN sites : GoodSite(sites[i])

\* The first entry of a list of lists is the first one of the first list.
LEMMA FlatBegins ==
  ASSUME NEW X, NEW lists \in Seq(Seq(X)), 1 \in DOMAIN lists, 1 \in DOMAIN lists[1]
  PROVE  1 \in DOMAIN Flat(lists) /\ Flat(lists)[1] = lists[1][1]
<1> DEFINE out == Flat(lists)
<1>1. PICK k \in DOMAIN out :
        /\ k \in Nat /\ k >= 1 /\ out[k] = lists[1][1]
        /\ \A m \in 1..(k - 1) : \E h \in DOMAIN lists : \E j \in DOMAIN lists[h] :
             h < 1 /\ out[m] = lists[h][j]
  BY FlatFirst
<1> HIDE DEF out
<1>2. \A h \in DOMAIN lists : h \in Nat /\ h >= 1
  BY Entry
<1>3. k = 1
  <2>1. k # 1 => 1 \in 1..(k - 1)
    BY ONLY <1>1
  <2>2. \A h \in DOMAIN lists : ~(h < 1)
    BY ONLY <1>2
  <2> QED
    BY ONLY <1>1, <2>1, <2>2
<1> QED
  BY ONLY <1>1, <1>3 DEF out

\* The joined lines of some sites: each address once, the first line first.
LEMMA LinesAreJoined ==
  ASSUME NEW sites, GoodSites(sites), 1 \in DOMAIN sites
  PROVE  LET out == JoinedURLs(sites)
         IN  /\ WellLined(out) /\ 1 \in DOMAIN out /\ out[1] = sites[1].urls[1]
             /\ \A i \in DOMAIN sites : \A j \in DOMAIN sites[i].urls :
                  \E k \in DOMAIN out : out[k].url = sites[i].urls[j].url
<1> DEFINE lists == [i \in DOMAIN sites |-> sites[i].urls]
           L == UNION {Range(sites[i].urls) : i \in DOMAIN sites}
           all == Flat(lists)
           address == [i \in DOMAIN all |-> all[i].url]
           at == NewAt(address)
           out == Picked(all, at)
<1>1. \A i \in DOMAIN sites : WellLined(sites[i].urls) /\ 1 \in DOMAIN sites[i].urls
  BY DEF GoodSites, GoodSite
<1>2. lists \in Seq(Seq(L)) /\ DOMAIN lists = DOMAIN sites
  <2>1. ASSUME NEW i \in DOMAIN sites
        PROVE  sites[i].urls \in Seq(L)
    <3>1. sites[i].urls \in Seq(Range(sites[i].urls))
      BY ONLY <1>1 DEF WellLined
    <3>2. Range(sites[i].urls) \subseteq L
      BY ONLY TRUE
    <3> HIDE DEF L
    <3> QED
      BY ONLY <3>1, <3>2
  <2> HIDE DEF L
  <2>2. lists \in [DOMAIN sites -> Seq(L)]
    BY ONLY <2>1
  <2>3. sites \in Seq(Range(sites))
    BY DEF GoodSites
  <2> HIDE DEF lists
  <2> QED
    BY ONLY <2>2, <2>3, SameLength
<1>3. \A i \in DOMAIN sites : lists[i] = sites[i].urls
  BY ONLY TRUE
<1> HIDE DEF lists, L
<1>4. /\ all \in Seq(L)
      /\ \A i \in DOMAIN lists : \A j \in DOMAIN lists[i] : \E k \in DOMAIN all : all[k] = lists[i][j]
      /\ \A k \in DOMAIN all : \E i \in DOMAIN lists : \E j \in DOMAIN lists[i] : all[k] = lists[i][j]
  BY ONLY <1>2, FlatHas
<1>5. 1 \in DOMAIN all /\ all[1] = lists[1][1]
  BY ONLY <1>1, <1>2, <1>3, 1 \in DOMAIN sites, FlatBegins
<1> HIDE DEF all
<1>6. \A k \in DOMAIN all : LineOK(all[k])
  <2> TAKE k \in DOMAIN all
  <2>1. PICK i \in DOMAIN lists : \E j \in DOMAIN lists[i] : all[k] = lists[i][j]
    BY ONLY <1>4
  <2>2. PICK j \in DOMAIN lists[i] : all[k] = lists[i][j]
    BY ONLY <2>1
  <2> QED
    BY ONLY <1>1, <1>2, <1>3, <2>2 DEF WellLined
<1>7. address \in Seq(Range(address)) /\ DOMAIN address = DOMAIN all
  <2> DEFINE n == Len(all)
  <2>1. n \in Nat /\ DOMAIN all = 1..n
    BY ONLY <1>4
  <2> HIDE DEF n
  <2>2. address = [k \in 1..n |-> address[k]]
    BY ONLY <2>1
  <2> HIDE DEF address
  <2> QED
    BY ONLY <2>1, <2>2, ListOf
<1>8. \A i \in DOMAIN all : address[i] = all[i].url
  BY ONLY TRUE
<1> HIDE DEF address
<1>9. /\ at \in SUBSET DOMAIN all
      /\ \A i \in DOMAIN all : \E j \in at : address[j] = address[i]
      /\ \A i, j \in at : address[i] = address[j] => i = j
  <2>1. /\ at \in SUBSET DOMAIN address
        /\ \A i \in DOMAIN address : \E j \in at : j <= i /\ address[j] = address[i]
        /\ \A i, j \in at : address[i] = address[j] => i = j
    BY ONLY <1>7, NewIs
  <2> QED
    BY ONLY <1>7, <2>1
<1>10. 1 \in at
  <2>1. \A j \in 1..(1 - 1) : FALSE
    OBVIOUS
  <2> QED
    BY ONLY <1>5, <1>7, <2>1 DEF NewAt
<1> HIDE DEF at
<1>11. /\ IsFiniteSet(at) /\ at \in SUBSET Nat /\ out \in Seq(L)
       /\ \A i \in at : \E k \in DOMAIN out : out[k] = all[i]
       /\ \A k \in DOMAIN out : \E i \in at : out[k] = all[i]
  BY ONLY <1>4, <1>9, PickedSeq
<1>12. out[1] = all[1]
  <2>1. \A j \in at : 1 <= j
    <3> TAKE j \in at
    <3>1. j \in DOMAIN all
      BY ONLY <1>9
    <3> QED
      BY ONLY <1>4, <3>1, Entry
  <2> QED
    BY ONLY <1>4, <1>9, <1>10, <2>1, PickedFirst
<1> DEFINE alike == {p \in L \X L : p[1].url = p[2].url}
<1>13. \A x, y \in L : <<x, y>> \in alike <=> x.url = y.url
  BY ONLY TRUE
<1> HIDE DEF alike
<1>14. \A i, j \in at : <<all[i], all[j]>> \in alike => i = j
  <2> TAKE i, j \in at
  <2>1. all[i] \in L /\ all[j] \in L /\ i \in DOMAIN all /\ j \in DOMAIN all
    BY ONLY <1>4, <1>9, Entry
  <2> QED
    BY ONLY <1>8, <1>9, <1>13, <2>1
<1>15. \A j, k \in DOMAIN out : <<out[j], out[k]>> \in alike => j = k
  <2>1. at \in SUBSET Int
    BY ONLY <1>11
  <2> QED
    BY ONLY <1>11, <1>14, <2>1, PickedDiffer
<1> HIDE DEF out
<1>16. \A j, k \in DOMAIN out : out[j].url = out[k].url => j = k
  <2> TAKE j, k \in DOMAIN out
  <2>1. HAVE out[j].url = out[k].url
  <2>2. out[j] \in L /\ out[k] \in L
    BY ONLY <1>11, Entry
  <2> QED
    BY ONLY <1>13, <1>15, <2>1, <2>2
<1>17. WellLined(out)
  <2>1. \A k \in DOMAIN out : LineOK(out[k])
    BY ONLY <1>6, <1>9, <1>11
  <2>2. out \in Seq(Range(out))
    BY ONLY <1>11, RangeOf
  <2> QED
    BY ONLY <1>16, <2>1, <2>2 DEF WellLined
<1>18. 1 \in DOMAIN out
  <2>1. \E k \in DOMAIN out : TRUE
    BY ONLY <1>10, <1>11
  <2>2. out # <<>>
    BY ONLY <2>1
  <2> QED
    BY ONLY <1>11, <2>2, HasFirst
<1>19. ASSUME NEW i \in DOMAIN sites, NEW j \in DOMAIN sites[i].urls
       PROVE  \E k \in DOMAIN out : out[k].url = sites[i].urls[j].url
  <2>1. PICK m \in DOMAIN all : all[m] = sites[i].urls[j]
    BY ONLY <1>2, <1>3, <1>4, <1>19
  <2>2. PICK h \in at : address[h] = address[m]
    BY ONLY <1>9
  <2>3. PICK k \in DOMAIN out : out[k] = all[h]
    BY ONLY <1>11
  <2> QED
    BY ONLY <1>8, <1>9, <2>1, <2>2, <2>3
<1>20. JoinedURLs(sites) = out
  BY ONLY TRUE DEF JoinedURLs, lists, all, address, at, out
<1>21. out[1] = sites[1].urls[1]
  BY ONLY <1>3, <1>5, <1>12, 1 \in DOMAIN sites
<1> QED
  BY ONLY <1>17, <1>18, <1>19, <1>20, <1>21

\* A site with other lines, the first of them the same.
Relined(s, urls) == [s EXCEPT !.urls = urls]

LEMMA RelinedIsGood ==
  ASSUME NEW s, GoodSite(s), NEW urls, WellLined(urls), 1 \in DOMAIN urls, urls[1] = s.urls[1]
  PROVE  GoodSite(Relined(s, urls)) /\ SameSite(Relined(s, urls), s) /\ Relined(s, urls).urls = urls
<1> DEFINE out == Relined(s, urls)
<1>1. s = [name |-> s.name, category |-> s.category, urls |-> s.urls, url |-> s.url,
           token |-> s.token, kind |-> s.kind, unit |-> s.unit]
  BY DEF GoodSite
<1>2. out = [name |-> s.name, category |-> s.category, urls |-> urls, url |-> s.url,
             token |-> s.token, kind |-> s.kind, unit |-> s.unit]
  BY ONLY <1>1 DEF Relined
<1>3. /\ s.category \in {"api", "token"} /\ s.name # "" /\ s.token # "" /\ s.kind \in Kinds
      /\ s.unit \in Int /\ s.unit > 0 /\ s.url = s.urls[1].url
  BY DEF GoodSite
<1> HIDE DEF out
<1>4. /\ out.name = s.name /\ out.category = s.category /\ out.urls = urls /\ out.url = s.url
      /\ out.token = s.token /\ out.kind = s.kind /\ out.unit = s.unit
  BY ONLY <1>2
<1>5. out = [name |-> out.name, category |-> out.category, urls |-> out.urls, url |-> out.url,
             token |-> out.token, kind |-> out.kind, unit |-> out.unit]
  BY ONLY <1>2, <1>4
<1>6. GoodSite(out)
  <2>1. out.unit \in Int /\ out.unit > 0
    BY ONLY <1>3, <1>4
  <2>2. /\ out.category \in {"api", "token"} /\ out.name # "" /\ out.token # "" /\ out.kind \in Kinds
        /\ out.url = out.urls[1].url
    BY ONLY <1>3, <1>4, urls[1] = s.urls[1]
  <2>3. WellLined(out.urls) /\ 1 \in DOMAIN out.urls
    BY ONLY <1>4, WellLined(urls), 1 \in DOMAIN urls
  <2> QED
    BY ONLY <1>5, <2>1, <2>2, <2>3 DEF GoodSite
<1>7. SameSite(out, s)
  BY ONLY <1>4 DEF SameSite
<1> QED
  BY ONLY <1>4, <1>6, <1>7 DEF out

\* The first site of each token, and what is alike.
Heads(sites) == {i \in DOMAIN sites : \A j \in 1..(i - 1) : ~SameSite(sites[j], sites[i])}
Alike(sites, s) == {i \in DOMAIN sites : SameSite(sites[i], s)}

\* The sites of a head begin with it, and each site has a head.
LEMMA HeadsAre ==
  ASSUME NEW sites, GoodSites(sites)
  PROVE  /\ Heads(sites) \in SUBSET DOMAIN sites
         /\ \A i \in DOMAIN sites : \E h \in Heads(sites) : SameSite(sites[h], sites[i])
         /\ \A h, i \in Heads(sites) : SameSite(sites[h], sites[i]) => h = i
         /\ \A h \in Heads(sites) : h \in Alike(sites, sites[h]) /\ \A i \in Alike(sites, sites[h]) : h <= i
<1>1. Heads(sites) \in SUBSET DOMAIN sites
  BY DEF Heads
<1>2. \A i \in DOMAIN sites : i \in Nat /\ i >= 1
  <2>1. sites \in Seq(Range(sites))
    BY DEF GoodSites
  <2> QED
    BY ONLY <2>1, Entry
<1>3. ASSUME NEW i \in DOMAIN sites
      PROVE  \E h \in Heads(sites) : SameSite(sites[h], sites[i])
  <2> DEFINE S == {j \in DOMAIN sites : SameSite(sites[j], sites[i])}
  <2>1. S \in SUBSET Nat /\ S # {}
    BY ONLY <1>2, <1>3 DEF SameSite
  <2>2. PICK h \in S : \A j \in S : h <= j
    <3> HIDE DEF S
    <3> QED
      BY ONLY <2>1, Least
  <2>3. h \in DOMAIN sites /\ SameSite(sites[h], sites[i]) /\ h \in Nat /\ h >= 1
    BY ONLY <1>2, <2>2
  <2>4. \A j \in 1..(h - 1) : ~SameSite(sites[j], sites[h])
    <3> SUFFICES ASSUME NEW j \in 1..(h - 1), SameSite(sites[j], sites[h])
                 PROVE  FALSE
      OBVIOUS
    <3>1. j \in DOMAIN sites
      <4>1. sites \in Seq(Range(sites))
        BY DEF GoodSites
      <4> QED
        BY ONLY <2>3, <4>1, Before
    <3>2. SameSite(sites[j], sites[i])
      BY ONLY <2>3, SameSite(sites[j], sites[h]) DEF SameSite
    <3>3. j \in S
      BY ONLY <3>1, <3>2
    <3>4. h <= j
      BY ONLY <2>2, <3>3
    <3> QED
      BY ONLY <2>3, <3>4
  <2> QED
    BY ONLY <2>3, <2>4 DEF Heads
<1>4. ASSUME NEW h \in Heads(sites), NEW i \in DOMAIN sites, SameSite(sites[h], sites[i])
      PROVE  h <= i
  <2>1. h \in Nat /\ h >= 1 /\ i \in Nat /\ i >= 1
    BY ONLY <1>1, <1>2, <1>4
  <2>2. i < h => i \in 1..(h - 1)
    BY ONLY <2>1
  <2>3. SameSite(sites[i], sites[h])
    BY ONLY <1>4 DEF SameSite
  <2>4. ~(i < h)
    BY ONLY <1>4, <2>2, <2>3 DEF Heads
  <2> QED
    BY ONLY <2>1, <2>4
<1>5. ASSUME NEW h \in Heads(sites), NEW i \in Heads(sites), SameSite(sites[h], sites[i])
      PROVE  h = i
  <2>1. h <= i /\ i <= h
    BY ONLY <1>1, <1>4, <1>5 DEF SameSite
  <2>2. h \in Nat /\ i \in Nat
    BY ONLY <1>1, <1>2, <1>5
  <2> QED
    BY ONLY <2>1, <2>2
<1>6. ASSUME NEW h \in Heads(sites)
      PROVE  h \in Alike(sites, sites[h]) /\ \A i \in Alike(sites, sites[h]) : h <= i
  <2>1. h \in Alike(sites, sites[h])
    BY ONLY <1>1, <1>6 DEF Alike, SameSite
  <2>2. ASSUME NEW i \in Alike(sites, sites[h]) PROVE h <= i
    <3>1. i \in DOMAIN sites /\ SameSite(sites[h], sites[i])
      BY ONLY <2>2 DEF Alike, SameSite
    <3> QED
      BY ONLY <1>4, <1>6, <3>1
  <2> QED
    BY ONLY <2>1, <2>2
<1> QED
  BY ONLY <1>1, <1>3, <1>5, <1>6

\* The site a head becomes: good, of its token, with the lines of all that are alike.
LEMMA HeadIsJoined ==
  ASSUME NEW sites, GoodSites(sites), NEW h \in Heads(sites)
  PROVE  LET out == Relined(sites[h], JoinedURLs(Picked(sites, Alike(sites, sites[h]))))
         IN  /\ GoodSite(out) /\ SameSite(out, sites[h])
             /\ \A i \in Alike(sites, sites[h]) : \A j \in DOMAIN sites[i].urls :
                  \E m \in DOMAIN out.urls : out.urls[m].url = sites[i].urls[j].url
<1> DEFINE at == Alike(sites, sites[h])
           same == Picked(sites, at)
           urls == JoinedURLs(same)
           X == Range(sites)
<1>1. sites \in Seq(X) /\ \A i \in DOMAIN sites : GoodSite(sites[i])
  BY DEF GoodSites
<1>2. at \in SUBSET DOMAIN sites
  BY DEF Alike
<1>3. h \in at /\ (\A i \in at : h <= i) /\ h \in DOMAIN sites
  BY HeadsAre
<1> HIDE DEF at, X
<1>4. /\ same \in Seq(X)
      /\ \A i \in at : \E k \in DOMAIN same : same[k] = sites[i]
      /\ \A k \in DOMAIN same : \E i \in at : same[k] = sites[i]
  BY ONLY <1>1, <1>2, PickedSeq
<1>5. same[1] = sites[h]
  BY ONLY <1>1, <1>2, <1>3, PickedFirst
<1> HIDE DEF same
<1>6. GoodSites(same)
  <2>1. same \in Seq(Range(same))
    BY ONLY <1>4, RangeOf
  <2>2. \A k \in DOMAIN same : GoodSite(same[k])
    BY ONLY <1>1, <1>2, <1>4
  <2> QED
    BY ONLY <2>1, <2>2 DEF GoodSites
<1>7. 1 \in DOMAIN same
  <2>1. \E k \in DOMAIN same : TRUE
    BY ONLY <1>3, <1>4
  <2>2. same # <<>>
    BY ONLY <2>1
  <2> QED
    BY ONLY <1>4, <2>2, HasFirst
<1>8. /\ WellLined(urls) /\ 1 \in DOMAIN urls /\ urls[1] = same[1].urls[1]
      /\ \A i \in DOMAIN same : \A j \in DOMAIN same[i].urls :
           \E k \in DOMAIN urls : urls[k].url = same[i].urls[j].url
  BY ONLY <1>6, <1>7, LinesAreJoined
<1> HIDE DEF urls
<1> DEFINE out == Relined(sites[h], urls)
<1>9. GoodSite(out) /\ SameSite(out, sites[h]) /\ out.urls = urls
  <2>1. GoodSite(sites[h])
    BY ONLY <1>1, <1>3
  <2>2. urls[1] = sites[h].urls[1]
    BY ONLY <1>5, <1>8
  <2> QED
    BY ONLY <1>8, <2>1, <2>2, RelinedIsGood
<1> HIDE DEF out
<1>10. ASSUME NEW i \in at, NEW j \in DOMAIN sites[i].urls
       PROVE  \E m \in DOMAIN out.urls : out.urls[m].url = sites[i].urls[j].url
  <2>1. PICK k \in DOMAIN same : same[k] = sites[i]
    BY ONLY <1>4, <1>10
  <2> QED
    BY ONLY <1>8, <1>9, <1>10, <2>1
<1> QED
  BY ONLY <1>9, <1>10 DEF out, urls, same, at

\* One good site per category and token, and every line in the site of its token.
LEMMA SitesAreMerged ==
  ASSUME NEW sites, GoodSites(sites)
  PROVE  LET merged == MergedByToken(sites)
         IN  /\ GoodSites(merged)
             /\ \A j, k \in DOMAIN merged : SameSite(merged[j], merged[k]) => j = k
             /\ \A i \in DOMAIN sites : \E k \in DOMAIN merged :
                  /\ SameSite(merged[k], sites[i])
                  /\ \A j \in DOMAIN sites[i].urls :
                       \E m \in DOMAIN merged[k].urls : merged[k].urls[m].url = sites[i].urls[j].url
<1> DEFINE at == Heads(sites)
           heads == Picked(sites, at)
           of(s) == Relined(s, JoinedURLs(Picked(sites, Alike(sites, s))))
           merged == MergedByToken(sites)
           X == Range(sites)
<1>1. sites \in Seq(X) /\ \A i \in DOMAIN sites : GoodSite(sites[i])
  BY DEF GoodSites
<1>2. /\ at \in SUBSET DOMAIN sites
      /\ \A i \in DOMAIN sites : \E h \in at : SameSite(sites[h], sites[i])
      /\ \A h, i \in at : SameSite(sites[h], sites[i]) => h = i
  BY HeadsAre
<1>3. \A h \in at : /\ GoodSite(of(sites[h])) /\ SameSite(of(sites[h]), sites[h])
                    /\ \A i \in Alike(sites, sites[h]) : \A j \in DOMAIN sites[i].urls :
                         \E m \in DOMAIN of(sites[h]).urls : of(sites[h]).urls[m].url = sites[i].urls[j].url
  BY HeadIsJoined
<1>4. merged = [k \in DOMAIN heads |-> of(heads[k])]
  BY DEF MergedByToken, Relined, Heads, Alike
<1> HIDE DEF at, of, merged, X
<1>5. /\ IsFiniteSet(at) /\ at \in SUBSET Nat /\ heads \in Seq(X)
      /\ \A i \in at : \E k \in DOMAIN heads : heads[k] = sites[i]
      /\ \A k \in DOMAIN heads : \E i \in at : heads[k] = sites[i]
  BY ONLY <1>1, <1>2, PickedSeq
<1> DEFINE alike == {p \in X \X X : SameSite(p[1], p[2])}
<1>6. \A x, y \in X : <<x, y>> \in alike <=> SameSite(x, y)
  BY ONLY TRUE
<1> HIDE DEF alike
<1>7. \A i, j \in at : <<sites[i], sites[j]>> \in alike => i = j
  <2> TAKE i, j \in at
  <2>1. sites[i] \in X /\ sites[j] \in X
    BY ONLY <1>1, <1>2, Entry
  <2> QED
    BY ONLY <1>2, <1>6, <2>1
<1>8. \A j, k \in DOMAIN heads : <<heads[j], heads[k]>> \in alike => j = k
  <2>1. at \in SUBSET Int
    BY ONLY <1>5
  <2> QED
    BY ONLY <1>5, <1>7, <2>1, PickedDiffer
<1> HIDE DEF heads
<1>9. DOMAIN merged = DOMAIN heads /\ \A k \in DOMAIN heads : merged[k] = of(heads[k])
  BY ONLY <1>4
<1>10. \A k \in DOMAIN heads : GoodSite(merged[k]) /\ SameSite(merged[k], heads[k])
  <2> TAKE k \in DOMAIN heads
  <2>1. PICK h \in at : heads[k] = sites[h]
    BY ONLY <1>5
  <2> QED
    BY ONLY <1>3, <1>9, <2>1
<1>11. GoodSites(merged)
  <2> DEFINE n == Len(heads)
  <2>1. n \in Nat /\ DOMAIN heads = 1..n
    BY ONLY <1>5
  <2> HIDE DEF n
  <2>2. merged = [k \in 1..n |-> merged[k]]
    BY ONLY <1>4, <2>1
  <2>3. merged \in Seq(Range(merged))
    BY ONLY <2>1, <2>2, ListOf
  <2> QED
    BY ONLY <1>9, <1>10, <2>3 DEF GoodSites
<1>12. \A j, k \in DOMAIN merged : SameSite(merged[j], merged[k]) => j = k
  <2> TAKE j, k \in DOMAIN merged
  <2>1. HAVE SameSite(merged[j], merged[k])
  <2>2. j \in DOMAIN heads /\ k \in DOMAIN heads
    BY ONLY <1>9
  <2>3. SameSite(merged[j], heads[j]) /\ SameSite(merged[k], heads[k])
    BY ONLY <1>10, <2>2
  <2>4. SameSite(heads[j], heads[k])
    BY ONLY <2>1, <2>3 DEF SameSite
  <2>5. heads[j] \in X /\ heads[k] \in X
    BY ONLY <1>5, <2>2, Entry
  <2> QED
    BY ONLY <1>6, <1>8, <2>2, <2>4, <2>5
<1>13. ASSUME NEW i \in DOMAIN sites
       PROVE  \E k \in DOMAIN merged :
                  /\ SameSite(merged[k], sites[i])
                  /\ \A j \in DOMAIN sites[i].urls :
                       \E m \in DOMAIN merged[k].urls : merged[k].urls[m].url = sites[i].urls[j].url
  <2>1. PICK h \in at : SameSite(sites[h], sites[i])
    BY ONLY <1>2, <1>13
  <2>2. PICK k \in DOMAIN heads : heads[k] = sites[h]
    BY ONLY <1>5
  <2>3. merged[k] = of(sites[h]) /\ k \in DOMAIN merged
    BY ONLY <1>9, <2>2
  <2>4. i \in Alike(sites, sites[h])
    BY ONLY <1>13, <2>1 DEF Alike, SameSite
  <2>5. SameSite(merged[k], sites[i])
    BY ONLY <1>10, <2>1, <2>2 DEF SameSite
  <2>6. \A j \in DOMAIN sites[i].urls :
          \E m \in DOMAIN merged[k].urls : merged[k].urls[m].url = sites[i].urls[j].url
    BY ONLY <1>3, <2>3, <2>4
  <2> QED
    BY ONLY <2>3, <2>5, <2>6
<1> QED
  BY ONLY <1>11, <1>12, <1>13 DEF merged

\* One entry is picked.
LEMMA PickedOne ==
  ASSUME NEW X, NEW list \in Seq(X), NEW k \in DOMAIN list
  PROVE  Picked(list, {k}) = <<list[k]>>
<1> DEFINE at == {k}
           out == Picked(list, at)
<1>1. at \in SUBSET DOMAIN list /\ k \in at /\ \A j \in at : k <= j
  <2>1. k \in Nat
    BY Entry
  <2> QED
    BY <2>1
<1>2. Cardinality(at) = 1
  BY FS_Singleton
<1> HIDE DEF at
<1>3. out \in Seq(X) /\ Len(out) = Cardinality(at)
  BY ONLY <1>1, list \in Seq(X), PickedSeq
<1>4. out[1] = list[k]
  BY ONLY <1>1, list \in Seq(X), PickedFirst
<1> HIDE DEF out
<1>5. out = <<list[k]>>
  BY ONLY <1>2, <1>3, <1>4
<1> QED
  BY ONLY <1>5 DEF out, at

\* The lines of one site are joined to what they are.
LEMMA JoinedOnce ==
  ASSUME NEW s, GoodSite(s)
  PROVE  JoinedURLs(<<s>>) = s.urls
<1> DEFINE urls == s.urls
           lists == [i \in DOMAIN <<s>> |-> <<s>>[i].urls]
           address(all) == [i \in DOMAIN all |-> all[i].url]
           n == Len(urls)
<1>1. /\ urls \in Seq(Range(urls))
      /\ \A i, j \in DOMAIN urls : urls[i].url = urls[j].url => i = j
  BY DEF GoodSite, WellLined
<1>2. lists = <<urls>>
  BY ONLY TRUE
<1> HIDE DEF urls
<1>3. Flat(<<urls>>) = urls
  BY ONLY <1>1, FlatOfOne
<1>4. n \in Nat /\ DOMAIN urls = 1..n
  BY ONLY <1>1
<1> HIDE DEF n
<1>5. address(urls) = [i \in 1..n |-> urls[i].url]
  BY ONLY <1>4
<1> DEFINE a == address(urls)
<1>6. DOMAIN a = 1..n /\ (\A i \in 1..n : a[i] = urls[i].url) /\ a = [i \in 1..n |-> a[i]]
  BY ONLY <1>5
<1> HIDE DEF a
<1>7. a \in Seq(Range(a))
  BY ONLY <1>4, <1>6, ListOf
<1>8. \A i, j \in DOMAIN a : a[i] = a[j] => i = j
  BY ONLY <1>1, <1>4, <1>6
<1>9. NewAt(a) = DOMAIN urls
  <2>1. NewAt(a) = DOMAIN a
    BY ONLY <1>7, <1>8, AllNew
  <2> QED
    BY ONLY <1>4, <1>6, <2>1
<1>10. Picked(urls, DOMAIN urls) = urls
  BY ONLY <1>1, PickedAll
<1>11. Picked(urls, NewAt(address(urls))) = urls
  BY ONLY <1>9, <1>10 DEF a
<1>12. JoinedURLs(<<s>>) = Picked(Flat(lists), NewAt(address(Flat(lists))))
  BY ONLY TRUE DEF JoinedURLs
<1> HIDE DEF lists, address
<1>13. Picked(Flat(lists), NewAt(address(Flat(lists)))) = Picked(urls, NewAt(address(urls)))
  BY ONLY <1>2, <1>3
<1> QED
  BY ONLY <1>11, <1>12, <1>13 DEF urls

\* Sites of different tokens are merged to what they are.
LEMMA MergedOnce ==
  ASSUME NEW sites, GoodSites(sites),
         \A i, j \in DOMAIN sites : SameSite(sites[i], sites[j]) => i = j
  PROVE  MergedByToken(sites) = sites
<1> DEFINE X == Range(sites)
           at == Heads(sites)
           heads == Picked(sites, at)
           of(s) == Relined(s, JoinedURLs(Picked(sites, Alike(sites, s))))
           merged == MergedByToken(sites)
           n == Len(sites)
<1>1. /\ sites \in Seq(X) /\ \A i \in DOMAIN sites : GoodSite(sites[i])
      /\ \A i, j \in DOMAIN sites : SameSite(sites[i], sites[j]) => i = j
  BY DEF GoodSites
<1>2. merged = [k \in DOMAIN heads |-> of(heads[k])]
  BY DEF MergedByToken, Relined, Heads, Alike
<1>3. at = DOMAIN sites
  <2>1. \A i \in DOMAIN sites : \A j \in 1..(i - 1) : j \in DOMAIN sites /\ j # i
    <3> TAKE i \in DOMAIN sites
    <3> TAKE j \in 1..(i - 1)
    <3>1. i \in Nat
      BY ONLY <1>1, Entry
    <3>2. j \in DOMAIN sites
      BY ONLY <1>1, Before
    <3> QED
      BY ONLY <3>1, <3>2
  <2> QED
    BY ONLY <1>1, <2>1 DEF Heads
<1> HIDE DEF X
<1>4. heads = sites
  BY ONLY <1>1, <1>3, PickedAll
<1>5. \A i \in DOMAIN sites : of(sites[i]) = sites[i]
  <2> TAKE i \in DOMAIN sites
  <2> DEFINE s == sites[i]
  <2>1. GoodSite(s)
    BY ONLY <1>1
  <2>2. Alike(sites, s) = {i}
    BY ONLY <1>1 DEF Alike, SameSite
  <2>3. Picked(sites, {i}) = <<s>>
    BY ONLY <1>1, PickedOne
  <2> HIDE DEF s
  <2>4. JoinedURLs(<<s>>) = s.urls
    BY ONLY <2>1, JoinedOnce
  <2>5. s = [name |-> s.name, category |-> s.category, urls |-> s.urls, url |-> s.url,
             token |-> s.token, kind |-> s.kind, unit |-> s.unit]
    BY ONLY <2>1 DEF GoodSite
  <2>6. Relined(s, s.urls) = s
    BY ONLY <2>5 DEF Relined
  <2>7. of(s) = s
    BY ONLY <2>2, <2>3, <2>4, <2>6
  <2> QED
    BY ONLY <2>7 DEF s
<1> HIDE DEF of, merged, heads
<1>6. merged = [k \in DOMAIN sites |-> sites[k]]
  BY ONLY <1>2, <1>4, <1>5
<1>7. sites = [k \in DOMAIN sites |-> sites[k]]
  BY ONLY <1>1
<1> QED
  BY ONLY <1>6, <1>7 DEF merged

\* The list of sites as it is stored.
StoredSites(sites) ==
  /\ GoodSites(sites) /\ NamesDiffer(sites)
  /\ \A i, j \in DOMAIN sites : SameSite(sites[i], sites[j]) => i = j

\* Normalising a stored list changes nothing, whatever was stored before.
LEMMA NormalStays ==
  ASSUME NEW sites, StoredSites(sites), NEW previous
  PROVE  Normalized(sites, previous) = [ok |-> TRUE, sites |-> sites]
<1> DEFINE clean == [i \in DOMAIN sites |-> Clean(sites[i], previous)]
<1>1. /\ GoodSites(sites) /\ NamesDiffer(sites)
      /\ \A i, j \in DOMAIN sites : SameSite(sites[i], sites[j]) => i = j
  BY DEF StoredSites
<1>2. sites \in Seq(Range(sites)) /\ \A i \in DOMAIN sites : GoodSite(sites[i])
  BY ONLY <1>1 DEF GoodSites
<1>3. \A i \in DOMAIN sites : Clean(sites[i], previous) = sites[i] /\ Acceptable(sites[i])
  <2> TAKE i \in DOMAIN sites
  <2> DEFINE s == sites[i]
  <2>1. GoodSite(s)
    BY ONLY <1>2
  <2> HIDE DEF s
  <2>2. Clean(s, previous) = s /\ Acceptable(s)
    BY ONLY <2>1, CleanSiteStays
  <2> QED
    BY ONLY <2>2 DEF s
<1>4. clean = sites
  <2>1. sites = [i \in DOMAIN sites |-> sites[i]]
    BY ONLY <1>2
  <2> QED
    BY ONLY <1>3, <2>1
<1>5. MergedByToken(sites) = sites
  BY ONLY <1>1, MergedOnce
<1>6. Normalized(sites, previous) = Accepted(clean, MergedByToken(clean))
  BY ONLY TRUE DEF Normalized
<1> HIDE DEF clean
<1>7. Accepted(sites, sites) = [ok |-> TRUE, sites |-> sites]
  BY ONLY <1>1, <1>3 DEF Accepted
<1> QED
  BY ONLY <1>4, <1>5, <1>6, <1>7

\* What normalising a posted list gives, if it is accepted.
LEMMA NormalIsStored ==
  ASSUME NEW posted, AreSites(posted), NEW previous, Normalized(posted, previous).ok
  PROVE  LET saved == Normalized(posted, previous).sites
         IN  /\ Normalized(posted, previous) = [ok |-> TRUE, sites |-> saved]
             /\ StoredSites(saved)
             /\ \A i \in DOMAIN posted : Acceptable(Clean(posted[i], previous))
             /\ \A i \in DOMAIN posted : \E k \in DOMAIN saved :
                  LET s == Clean(posted[i], previous)
                  IN  /\ SameSite(saved[k], s)
                      /\ \A j \in DOMAIN s.urls :
                           \E m \in DOMAIN saved[k].urls : saved[k].urls[m].url = s.urls[j].url
<1> DEFINE clean == [i \in DOMAIN posted |-> Clean(posted[i], previous)]
           merged == MergedByToken(clean)
           given == Normalized(posted, previous)
<1>1. posted \in Seq(Range(posted))
  BY DEF AreSites
<1>2. ASSUME NEW i \in DOMAIN posted
      PROVE  /\ Addressed(posted[i].urls) /\ posted[i].unit \in Int
             /\ posted[i].url # "" => posted[i].url \in DOMAIN BaseURL
  <2>1. posted[i] \in Range(posted)
    BY ONLY <1>1, <1>2, RangeOf
  <2> QED
    BY ONLY <2>1, AreSites(posted) DEF AreSites, Addressed
<1>3. given = Accepted(clean, merged)
  BY ONLY TRUE DEF Normalized
<1>4. DOMAIN clean = DOMAIN posted /\ \A i \in DOMAIN posted : clean[i] = Clean(posted[i], previous)
  BY ONLY TRUE
<1>5. clean = [i \in DOMAIN posted |-> clean[i]]
  BY ONLY TRUE
<1>6. given.ok
  OBVIOUS
<1> HIDE DEF clean, merged, given
<1>7. (\A i \in DOMAIN clean : Acceptable(clean[i])) /\ NamesDiffer(merged)
  <2>1. ~((\A i \in DOMAIN clean : Acceptable(clean[i])) /\ NamesDiffer(merged)) => given = Rejected
    BY ONLY <1>3 DEF Accepted
  <2>2. Rejected.ok = FALSE
    BY ONLY TRUE DEF Rejected
  <2> QED
    BY ONLY <1>6, <2>1, <2>2
<1>8. given = [ok |-> TRUE, sites |-> merged]
  BY ONLY <1>3, <1>7 DEF Accepted
<1>9. \A i \in DOMAIN clean : GoodSite(clean[i])
  <2> TAKE i \in DOMAIN clean
  <2> DEFINE s == posted[i]
  <2>1. clean[i] = Clean(s, previous) /\ Acceptable(Clean(s, previous))
    BY ONLY <1>4, <1>7
  <2>2. Addressed(s.urls) /\ s.unit \in Int /\ (s.url # "" => s.url \in DOMAIN BaseURL)
    BY ONLY <1>2, <1>4
  <2> HIDE DEF s
  <2>3. GoodSite(Clean(s, previous))
    BY ONLY <2>1, <2>2, CleanIsGood
  <2> QED
    BY ONLY <2>1, <2>3
<1>10. GoodSites(clean)
  <2> DEFINE n == Len(posted)
  <2>1. n \in Nat /\ DOMAIN posted = 1..n
    BY ONLY <1>1
  <2> HIDE DEF n
  <2>2. clean = [k \in 1..n |-> clean[k]]
    BY ONLY <1>5, <2>1
  <2>3. clean \in Seq(Range(clean))
    BY ONLY <2>1, <2>2, ListOf
  <2> QED
    BY ONLY <1>9, <2>3 DEF GoodSites
<1>11. /\ GoodSites(merged)
       /\ \A j, k \in DOMAIN merged : SameSite(merged[j], merged[k]) => j = k
       /\ \A i \in DOMAIN clean : \E k \in DOMAIN merged :
            /\ SameSite(merged[k], clean[i])
            /\ \A j \in DOMAIN clean[i].urls :
                 \E m \in DOMAIN merged[k].urls : merged[k].urls[m].url = clean[i].urls[j].url
  BY ONLY <1>10, SitesAreMerged DEF merged
<1>12. StoredSites(merged)
  BY ONLY <1>7, <1>11 DEF StoredSites
<1>13. given.sites = merged
  BY ONLY <1>8
<1>14. \A i \in DOMAIN posted : Acceptable(Clean(posted[i], previous))
  BY ONLY <1>4, <1>7
<1>15. \A i \in DOMAIN posted : \E k \in DOMAIN merged :
            /\ SameSite(merged[k], Clean(posted[i], previous))
            /\ \A j \in DOMAIN Clean(posted[i], previous).urls :
                 \E m \in DOMAIN merged[k].urls : merged[k].urls[m].url = Clean(posted[i], previous).urls[j].url
  BY ONLY <1>4, <1>11
<1> QED
  BY ONLY <1>8, <1>12, <1>13, <1>14, <1>15 DEF given

\* What a stored list of sites consists of.
LEMMA StoredHave ==
  ASSUME NEW sites, StoredSites(sites)
  PROVE  /\ sites \in Seq(Range(sites)) /\ DOMAIN sites = 1..Len(sites) /\ Len(sites) \in Nat
         /\ \A i \in DOMAIN sites :
              /\ sites[i].category \in {"api", "token"}
              /\ sites[i].urls \in Seq(Range(sites[i].urls)) /\ 1 \in DOMAIN sites[i].urls
              /\ \A j \in DOMAIN sites[i].urls : sites[i].urls[j].url \in DOMAIN BaseURL
<1>1. sites \in Seq(Range(sites)) /\ \A i \in DOMAIN sites : GoodSite(sites[i])
  BY DEF StoredSites, GoodSites
<1>2. DOMAIN sites = 1..Len(sites) /\ Len(sites) \in Nat
  BY ONLY <1>1
<1>3. \A i \in DOMAIN sites :
              /\ sites[i].category \in {"api", "token"}
              /\ sites[i].urls \in Seq(Range(sites[i].urls)) /\ 1 \in DOMAIN sites[i].urls
              /\ \A j \in DOMAIN sites[i].urls : sites[i].urls[j].url \in DOMAIN BaseURL
  BY ONLY <1>1 DEF GoodSite, WellLined, LineOK
<1> QED
  BY ONLY <1>1, <1>2, <1>3

\* A blank token is that of a site stored with this name and category.
LEMMA TokenIsMatched ==
  ASSUME NEW X, NEW previous \in Seq(X), NEW name, NEW category,
         MatchingToken(name, category, previous) # ""
  PROVE  \E p \in Range(previous) : /\ p.name = name /\ p.category = category
                                    /\ p.token = MatchingToken(name, category, previous)
<1> DEFINE at == {i \in DOMAIN previous : /\ previous[i].name = name
                                          /\ previous[i].category = category
                                          /\ previous[i].token # ""}
           same == Picked(previous, at)
<1>1. MatchingToken(name, category, previous) = IF same = <<>> THEN "" ELSE same[1].token
  BY ONLY TRUE DEF MatchingToken
<1>2. at \in SUBSET DOMAIN previous
  OBVIOUS
<1>3. \A i \in at : previous[i].name = name /\ previous[i].category = category
  OBVIOUS
<1> HIDE DEF at
<1>4. same \in Seq(X) /\ \A k \in DOMAIN same : \E i \in at : same[k] = previous[i]
  BY ONLY <1>2, previous \in Seq(X), PickedSeq
<1> HIDE DEF same
<1>5. same # <<>> /\ MatchingToken(name, category, previous) = same[1].token
  BY ONLY <1>1, MatchingToken(name, category, previous) # ""
<1>6. 1 \in DOMAIN same
  BY ONLY <1>4, <1>5, HasFirst
<1>7. PICK i \in at : same[1] = previous[i]
  BY ONLY <1>4, <1>6
<1>8. previous[i] \in Range(previous)
  BY ONLY <1>2, previous \in Seq(X), RangeOf
<1> QED
  BY ONLY <1>3, <1>5, <1>7, <1>8

\* No posted line is lost, and none is called with the token of another site.
LEMMA TokensAreKept ==
  ASSUME NEW posted, AreSites(posted), NEW X, NEW previous \in Seq(X), Normalized(posted, previous).ok
  PROVE  LinesKeepTheirToken(posted, previous, Normalized(posted, previous).sites)
<1> DEFINE saved == Normalized(posted, previous).sites
<1>1. /\ StoredSites(saved)
      /\ \A i \in DOMAIN posted : Acceptable(Clean(posted[i], previous))
      /\ \A i \in DOMAIN posted : \E k \in DOMAIN saved :
            LET s == Clean(posted[i], previous)
            IN  /\ SameSite(saved[k], s)
                /\ \A j \in DOMAIN s.urls :
                     \E m \in DOMAIN saved[k].urls : saved[k].urls[m].url = s.urls[j].url
  BY NormalIsStored
<1> HIDE DEF saved
<1>2. ASSUME NEW i \in DOMAIN posted
      PROVE  \E s \in Range(saved) :
               /\ s.category = CategoryOf(posted[i])
               /\ {u.url : u \in Range(NamedURLs(posted[i].urls, posted[i].url))} \subseteq {u.url : u \in Range(s.urls)}
               /\ IF posted[i].token # "" THEN s.token = posted[i].token
                  ELSE \E p \in Range(previous) : p.name = posted[i].name /\ p.category = s.category
                                                  /\ p.token = s.token
  <2> DEFINE p == posted[i]
             c == Clean(p, previous)
             lines == NamedURLs(p.urls, p.url)
             match == MatchingToken(p.name, CategoryOf(p), previous)
  <2>1. PICK k \in DOMAIN saved : /\ SameSite(saved[k], c)
                                  /\ \A j \in DOMAIN c.urls :
                                       \E m \in DOMAIN saved[k].urls : saved[k].urls[m].url = c.urls[j].url
    BY ONLY <1>1, <1>2
  <2>2. Acceptable(c)
    BY ONLY <1>1, <1>2
  <2>3. /\ c.category = CategoryOf(p) /\ c.urls = lines
        /\ c.token = IF p.token # "" THEN p.token ELSE match
    BY ONLY TRUE DEF Clean
  <2>4. saved[k] \in Range(saved)
    BY ONLY k \in DOMAIN saved DEF Range
  <2>5. c.token # ""
    BY ONLY <2>2 DEF Acceptable
  <2> HIDE DEF p, lines
  <2>6. p.token = "" => \E q \in Range(previous) : /\ q.name = p.name /\ q.category = CategoryOf(p)
                                                   /\ q.token = match
    <3> DEFINE category == CategoryOf(p)
               name == p.name
    <3>1. p.token = "" => match # ""
      BY ONLY <2>3, <2>5
    <3> HIDE DEF category, name
    <3>2. MatchingToken(name, category, previous) # "" =>
            \E q \in Range(previous) : /\ q.name = name /\ q.category = category
                                       /\ q.token = MatchingToken(name, category, previous)
      BY ONLY previous \in Seq(X), TokenIsMatched
    <3> QED
      BY ONLY <3>1, <3>2 DEF category, name
  <2> HIDE DEF c, match
  <2>7. saved[k].category = c.category /\ saved[k].token = c.token
    BY ONLY <2>1 DEF SameSite
  <2>8. {u.url : u \in Range(lines)} \subseteq {u.url : u \in Range(saved[k].urls)}
    <3> SUFFICES ASSUME NEW u \in Range(lines)
                 PROVE  \E v \in Range(saved[k].urls) : v.url = u.url
      OBVIOUS
    <3>1. PICK j \in DOMAIN lines : lines[j] = u
      BY ONLY u \in Range(lines) DEF Range
    <3>2. PICK m \in DOMAIN saved[k].urls : saved[k].urls[m].url = u.url
      BY ONLY <2>1, <2>3, <3>1
    <3>3. saved[k].urls[m] \in Range(saved[k].urls)
      BY ONLY m \in DOMAIN saved[k].urls DEF Range
    <3> QED
      BY ONLY <3>2, <3>3
  <2>9. IF p.token # "" THEN saved[k].token = p.token
        ELSE \E q \in Range(previous) : q.name = p.name /\ q.category = saved[k].category
                                        /\ q.token = saved[k].token
    BY ONLY <2>3, <2>6, <2>7
  <2>10. saved[k].category = CategoryOf(p)
    BY ONLY <2>3, <2>7
  <2> QED
    BY ONLY <2>4, <2>8, <2>9, <2>10 DEF p, lines
<1>3. LinesKeepTheirToken(posted, previous, saved)
  BY ONLY <1>2 DEF LinesKeepTheirToken
<1> QED
  BY ONLY <1>3 DEF saved

\* Who is called first in a list of lists of lines: the first line of the first list of
\* the category, if there is one.
LEMMA FlatCategory ==
  ASSUME NEW X, NEW lists \in Seq(Seq(X)), NEW i \in DOMAIN lists, 1 \in DOMAIN lists[i],
         NEW C, lists[i][1] \in C,
         \A h \in DOMAIN lists : h < i => \A j \in DOMAIN lists[h] : lists[h][j] \notin C
  PROVE  LET out == Flat(lists)
             found == Picked(out, {k \in DOMAIN out : out[k] \in C})
         IN  found # <<>> /\ found[1] = lists[i][1]
<1> DEFINE out == Flat(lists)
           at == {k \in DOMAIN out : out[k] \in C}
           found == Picked(out, at)
<1>1. out \in Seq(X)
  BY FlatHas
<1>2. PICK k \in DOMAIN out :
        /\ k \in Nat /\ k >= 1 /\ out[k] = lists[i][1]
        /\ \A m \in 1..(k - 1) : \E h \in DOMAIN lists : \E j \in DOMAIN lists[h] :
             h < i /\ out[m] = lists[h][j]
  BY FlatFirst
<1> HIDE DEF out
<1>3. k \in at /\ at \in SUBSET DOMAIN out
  BY ONLY <1>2, lists[i][1] \in C
<1>4. \A m \in at : k <= m
  <2> TAKE m \in at
  <2>1. m \in DOMAIN out /\ out[m] \in C
    OBVIOUS
  <2>2. m \in Nat /\ m >= 1
    BY ONLY <1>1, <2>1, Entry
  <2>3. m < k => m \in 1..(k - 1)
    BY ONLY <1>2, <2>2
  <2>4. m \notin 1..(k - 1)
    BY ONLY <1>2, <2>1, \A h \in DOMAIN lists : h < i => \A j \in DOMAIN lists[h] : lists[h][j] \notin C
  <2> QED
    BY ONLY <1>2, <2>2, <2>3, <2>4
<1> HIDE DEF at
<1>5. found[1] = out[k]
  BY ONLY <1>1, <1>3, <1>4, PickedFirst
<1>6. found # <<>>
  <2>1. \E m \in DOMAIN found : found[m] = out[k]
    BY ONLY <1>1, <1>3, PickedSeq
  <2> HIDE DEF found
  <2> QED
    BY ONLY <2>1
<1> QED
  BY ONLY <1>2, <1>5, <1>6 DEF found, at, out

\* The lines of a stored list of sites, site by site.
SiteLines(sites) == [i \in DOMAIN sites |-> Lines(sites[i])]

LEMMA LinesAre ==
  ASSUME NEW sites, StoredSites(sites)
  PROVE  LET lists == SiteLines(sites)
         IN  /\ \E L : lists \in Seq(Seq(L))
             /\ DOMAIN lists = DOMAIN sites
             /\ \A i \in DOMAIN sites :
                  /\ lists[i] = Lines(sites[i]) /\ DOMAIN lists[i] = DOMAIN sites[i].urls
                  /\ 1 \in DOMAIN lists[i]
                  /\ \A j \in DOMAIN lists[i] :
                       /\ lists[i][j].name = sites[i].name /\ lists[i][j].category = sites[i].category
                       /\ lists[i][j].token = sites[i].token /\ lists[i][j].url = sites[i].urls[j].url
<1> DEFINE lists == SiteLines(sites)
           L == UNION {Range(Lines(sites[i])) : i \in DOMAIN sites}
<1>1. /\ sites \in Seq(Range(sites))
      /\ \A i \in DOMAIN sites : /\ sites[i].urls \in Seq(Range(sites[i].urls))
                                 /\ 1 \in DOMAIN sites[i].urls
  BY StoredHave
<1>2. DOMAIN lists = DOMAIN sites /\ \A i \in DOMAIN sites : lists[i] = Lines(sites[i])
  BY ONLY TRUE DEF SiteLines
<1>3. \A i \in DOMAIN sites :
        /\ DOMAIN Lines(sites[i]) = DOMAIN sites[i].urls
        /\ \A j \in DOMAIN sites[i].urls :
             Lines(sites[i])[j] = [name |-> sites[i].name, category |-> sites[i].category,
                                   url |-> sites[i].urls[j].url, token |-> sites[i].token]
  BY ONLY TRUE DEF Lines
<1>4. \A i \in DOMAIN sites : Lines(sites[i]) \in Seq(L)
  <2> TAKE i \in DOMAIN sites
  <2> DEFINE urls == sites[i].urls
             n == Len(urls)
             out == Lines(sites[i])
  <2>1. n \in Nat /\ DOMAIN urls = 1..n
    BY ONLY <1>1
  <2>2. out = [j \in DOMAIN urls |-> out[j]]
    BY ONLY TRUE DEF Lines
  <2>3. Range(out) \subseteq L
    BY ONLY TRUE
  <2> HIDE DEF n, urls, out, L
  <2>4. out = [j \in 1..n |-> out[j]]
    BY ONLY <2>1, <2>2
  <2>5. out \in Seq(Range(out))
    BY ONLY <2>1, <2>4, ListOf
  <2>6. out \in Seq(L)
    BY ONLY <2>3, <2>5
  <2> QED
    BY ONLY <2>6 DEF out
<1>5. lists \in [DOMAIN sites -> Seq(L)]
  <2> HIDE DEF L
  <2> QED
    BY ONLY <1>4 DEF SiteLines
<1> HIDE DEF L, lists
<1>6. lists \in Seq(Seq(L))
  BY ONLY <1>1, <1>5, SameLength
<1>7. ASSUME NEW i \in DOMAIN sites
      PROVE  /\ DOMAIN lists[i] = DOMAIN sites[i].urls /\ 1 \in DOMAIN lists[i]
             /\ \A j \in DOMAIN lists[i] :
                       /\ lists[i][j].name = sites[i].name /\ lists[i][j].category = sites[i].category
                       /\ lists[i][j].token = sites[i].token /\ lists[i][j].url = sites[i].urls[j].url
  <2>1. DOMAIN lists[i] = DOMAIN sites[i].urls
    BY ONLY <1>2, <1>3, <1>7
  <2>2. \A j \in DOMAIN sites[i].urls :
             lists[i][j] = [name |-> sites[i].name, category |-> sites[i].category,
                            url |-> sites[i].urls[j].url, token |-> sites[i].token]
    BY ONLY <1>2, <1>3, <1>7
  <2>3. 1 \in DOMAIN lists[i]
    BY ONLY <1>1, <1>7, <2>1
  <2>4. ASSUME NEW j \in DOMAIN lists[i]
        PROVE  /\ lists[i][j].name = sites[i].name /\ lists[i][j].category = sites[i].category
               /\ lists[i][j].token = sites[i].token /\ lists[i][j].url = sites[i].urls[j].url
    <3>1. lists[i][j] = [name |-> sites[i].name, category |-> sites[i].category,
                            url |-> sites[i].urls[j].url, token |-> sites[i].token]
      BY ONLY <2>1, <2>2, <2>4
    <3> QED
      BY ONLY <3>1
  <2> QED
    BY ONLY <2>1, <2>3, <2>4
<1> QED
  BY ONLY <1>2, <1>6, <1>7 DEF lists

\* The card merger and the activity work on the same upstream.
LEMMA PrimariesAgreeAlways ==
  ASSUME NEW sites, StoredSites(sites)
  PROVE  PrimariesAgree(sites)
<1> DEFINE lists == SiteLines(sites)
           all == Flat(lists)
           firsts == SitesForActivity(sites)
           api(list) == Picked(list, {i \in DOMAIN list : list[i].category = "api"})
           n == Len(sites)
<1>1. PICK L : lists \in Seq(Seq(L))
  BY LinesAre
<1>2. /\ DOMAIN lists = DOMAIN sites
      /\ \A i \in DOMAIN sites :
           /\ lists[i] = Lines(sites[i]) /\ 1 \in DOMAIN lists[i]
           /\ \A j \in DOMAIN lists[i] : lists[i][j].category = sites[i].category
  BY LinesAre
<1>3. DOMAIN sites = 1..n /\ n \in Nat
  BY StoredHave
<1>4. PrimarySite(sites) = FirstSite(api(all), FirstSite(all, NoSite))
  BY ONLY TRUE DEF PrimarySite, ManagedSites, SiteLines, InCategory
<1>5. RuntimeSite(sites) = FirstSite(api(firsts), FirstSite(firsts, NoSite))
  BY ONLY TRUE DEF RuntimeSite, InCategory
<1>6. firsts = [i \in DOMAIN sites |-> lists[i][1]]
  BY ONLY <1>2 DEF SitesForActivity
<1> HIDE DEF lists, firsts, n
<1>7. firsts \in Seq(Range(firsts)) /\ DOMAIN firsts = 1..n /\ \A i \in 1..n : firsts[i] = lists[i][1]
  <2>1. firsts = [i \in 1..n |-> firsts[i]]
    BY ONLY <1>3, <1>6
  <2>2. firsts \in Seq(Range(firsts)) /\ DOMAIN firsts = 1..n
    BY ONLY <1>3, <2>1, ListOf
  <2> QED
    BY ONLY <1>3, <1>6, <2>2
<1>8. /\ all \in Seq(L)
      /\ \A k \in DOMAIN all : \E i \in DOMAIN lists : \E j \in DOMAIN lists[i] : all[k] = lists[i][j]
  BY ONLY <1>1, FlatHas
<1>9. \A i \in 1..n : firsts[i].category = sites[i].category
  BY ONLY <1>2, <1>3, <1>7
<1>10. CASE \E i \in 1..n : sites[i].category = "api"
  <2> DEFINE S == {i \in 1..n : sites[i].category = "api"}
             C == {l \in L : l.category = "api"}
  <2>1. S \in SUBSET Nat /\ S # {}
    BY ONLY <1>3, <1>10
  <2>2. PICK i \in S : \A h \in S : i <= h
    <3> HIDE DEF S
    <3> QED
      BY ONLY <2>1, Least
  <2>3. i \in 1..n /\ i \in Nat /\ sites[i].category = "api"
    BY ONLY <1>3, <2>2
  <2>4. \A l \in L : l \in C <=> l.category = "api"
    BY ONLY TRUE
  <2>5. \A h \in DOMAIN lists : \A j \in DOMAIN lists[h] : lists[h][j] \in L
    <3> TAKE h \in DOMAIN lists
    <3>1. lists[h] \in Seq(L)
      BY ONLY <1>1, Entry
    <3> QED
      BY ONLY <3>1, Entry
  <2>6. \A h \in DOMAIN lists : h < i => \A j \in DOMAIN lists[h] : lists[h][j] \notin C
    <3> TAKE h \in DOMAIN lists
    <3> HAVE h < i
    <3> TAKE j \in DOMAIN lists[h]
    <3>1. h \in 1..n /\ h \in Nat
      BY ONLY <1>2, <1>3
    <3>2. ~(i <= h)
      BY ONLY <2>3, <3>1, h < i
    <3>3. sites[h].category # "api"
      BY ONLY <2>2, <3>1, <3>2
    <3>4. lists[h][j].category # "api"
      BY ONLY <1>2, <3>3
    <3> QED
      BY ONLY <2>4, <2>5, <3>4
  <2>7. lists[i][1] \in C /\ i \in DOMAIN lists /\ 1 \in DOMAIN lists[i]
    BY ONLY <1>2, <1>3, <2>3, <2>4, <2>5
  <2> HIDE DEF C, all
  <2>8. LET found == Picked(all, {k \in DOMAIN all : all[k] \in C})
        IN  found # <<>> /\ found[1] = lists[i][1]
    BY ONLY <1>1, <2>6, <2>7, FlatCategory DEF all
  <2>9. {k \in DOMAIN all : all[k] \in C} = {k \in DOMAIN all : all[k].category = "api"}
    <3>1. \A k \in DOMAIN all : all[k] \in L
      BY ONLY <1>8, Entry
    <3> QED
      BY ONLY <2>4, <3>1
  <2>10. api(all) # <<>> /\ api(all)[1] = lists[i][1]
    BY ONLY <2>8, <2>9
  <2>11. S = {k \in DOMAIN firsts : firsts[k].category = "api"}
    BY ONLY <1>7, <1>9
  <2>12. S \in SUBSET DOMAIN firsts
    BY ONLY <1>7
  <2> HIDE DEF S
  <2>13. Picked(firsts, S)[1] = firsts[i]
    BY ONLY <1>7, <2>2, <2>12, PickedFirst
  <2>14. Picked(firsts, S) # <<>>
    <3>1. \E k \in DOMAIN Picked(firsts, S) : Picked(firsts, S)[k] = firsts[i]
      BY ONLY <1>7, <2>2, <2>12, PickedSeq
    <3> DEFINE out == Picked(firsts, S)
    <3> HIDE DEF out
    <3>2. \E k \in DOMAIN out : TRUE
      BY ONLY <3>1 DEF out
    <3>3. out # <<>>
      BY ONLY <3>2
    <3> QED
      BY ONLY <3>3 DEF out
  <2>15. api(firsts) # <<>> /\ api(firsts)[1] = lists[i][1]
    BY ONLY <1>7, <2>3, <2>11, <2>13, <2>14
  <2> HIDE DEF api
  <2> QED
    BY ONLY <1>4, <1>5, <2>10, <2>15 DEF PrimariesAgree, FirstSite
<1>11. CASE ~ \E i \in 1..n : sites[i].category = "api"
  <2>1. {k \in DOMAIN firsts : firsts[k].category = "api"} = {}
    BY ONLY <1>7, <1>9, <1>11
  <2>2. {k \in DOMAIN all : all[k].category = "api"} = {}
    <3> SUFFICES ASSUME NEW k \in DOMAIN all, all[k].category = "api"
                 PROVE  FALSE
      OBVIOUS
    <3>1. PICK i \in DOMAIN lists : \E j \in DOMAIN lists[i] : all[k] = lists[i][j]
      BY ONLY <1>8
    <3> HIDE DEF all
    <3>2. all[k].category = sites[i].category
      BY ONLY <1>2, <3>1
    <3> QED
      BY ONLY <1>2, <1>3, <1>11, <3>2, all[k].category = "api"
  <2> HIDE DEF all
  <2>3. api(firsts) = <<>> /\ api(all) = <<>>
    BY ONLY <2>1, <2>2, PickedNone
  <2>4. FirstSite(all, NoSite) = FirstSite(firsts, NoSite)
    <3>1. CASE n = 0
      <4>1. DOMAIN lists = {} /\ DOMAIN firsts = {}
        BY ONLY <1>2, <1>3, <1>7, <3>1
      <4>2. DOMAIN all = {}
        BY ONLY <1>8, <4>1
      <4>3. all = <<>> /\ firsts = <<>>
        BY ONLY <1>7, <1>8, <4>1, <4>2
      <4> QED
        BY ONLY <4>3
    <3>2. CASE n # 0
      <4>1. 1 \in 1..n
        BY ONLY <1>3, <3>2
      <4>2. 1 \in DOMAIN all /\ all[1] = lists[1][1]
        BY ONLY <1>1, <1>2, <1>3, <4>1, FlatBegins DEF all
      <4>3. all # <<>>
        BY ONLY <1>8, <4>2, HasFirst
      <4>4. firsts # <<>>
        BY ONLY <1>7, <4>1, HasFirst
      <4>5. firsts[1] = lists[1][1]
        BY ONLY <1>7, <4>1
      <4> QED
        BY ONLY <4>2, <4>3, <4>4, <4>5 DEF FirstSite
    <3> QED
      BY ONLY <3>1, <3>2
  <2> HIDE DEF api
  <2> QED
    BY ONLY <1>4, <1>5, <2>3, <2>4 DEF PrimariesAgree, FirstSite
<1> QED
  BY ONLY <1>10, <1>11

\* Each entry once: all are there, none twice.
LEMMA OnceEach ==
  ASSUME NEW X, NEW list \in Seq(X)
  PROVE  LET out == EachOnce(list)
         IN  /\ out \in Seq(X) /\ Range(list) \subseteq Range(out)
             /\ \A i, j \in DOMAIN out : out[i] = out[j] => i = j
<1> DEFINE at == NewAt(list)
           out == Picked(list, at)
           alike == {p \in X \X X : p[1] = p[2]}
<1>1. /\ at \in SUBSET DOMAIN list
      /\ \A i \in DOMAIN list : \E j \in at : list[j] = list[i]
      /\ \A i, j \in at : list[i] = list[j] => i = j
  BY NewIs
<1> HIDE DEF at
<1>2. /\ IsFiniteSet(at) /\ at \in SUBSET Nat /\ out \in Seq(X)
      /\ \A i \in at : \E k \in DOMAIN out : out[k] = list[i]
  BY ONLY <1>1, list \in Seq(X), PickedSeq
<1>3. \A x, y \in X : <<x, y>> \in alike <=> x = y
  BY ONLY TRUE
<1> HIDE DEF alike
<1>4. \A i, j \in at : <<list[i], list[j]>> \in alike => i = j
  <2> TAKE i, j \in at
  <2>1. list[i] \in X /\ list[j] \in X
    BY ONLY <1>1, list \in Seq(X), Entry
  <2> QED
    BY ONLY <1>1, <1>3, <2>1
<1>5. \A j, k \in DOMAIN out : <<out[j], out[k]>> \in alike => j = k
  <2>1. at \in SUBSET Int
    BY ONLY <1>2
  <2> QED
    BY ONLY <1>2, <1>4, <2>1, PickedDiffer
<1> HIDE DEF out
<1>6. \A j, k \in DOMAIN out : out[j] = out[k] => j = k
  <2> TAKE j, k \in DOMAIN out
  <2>1. out[j] \in X /\ out[k] \in X
    BY ONLY <1>2, Entry
  <2> QED
    BY ONLY <1>3, <1>5, <2>1
<1>7. Range(list) \subseteq Range(out)
  <2> SUFFICES ASSUME NEW i \in DOMAIN list PROVE \E k \in DOMAIN out : out[k] = list[i]
    BY DEF Range
  <2>1. PICK j \in at : list[j] = list[i]
    BY ONLY <1>1
  <2> QED
    BY ONLY <1>2, <2>1
<1> QED
  BY ONLY <1>2, <1>6, <1>7 DEF out, at, EachOnce

\* Putting an entry first neither loses nor doubles any.
LEMMA PreferredFirst ==
  ASSUME NEW X, NEW list \in Seq(X), \A i, j \in DOMAIN list : list[i] = list[j] => i = j, NEW x
  PROVE  LET out == Ordered(list, x)
         IN  /\ Range(list) \subseteq Range(out) /\ IsInjective(out)
             /\ x \in Range(out) => out[1] = x
<1> DEFINE A == {i \in DOMAIN list : list[i] = x}
           B == {i \in DOMAIN list : list[i] # x}
           a == Picked(list, A)
           b == Picked(list, B)
           out == a \o b
           alike == {p \in X \X X : p[1] = p[2]}
<1>1. /\ A \in SUBSET DOMAIN list /\ B \in SUBSET DOMAIN list
      /\ \A i \in DOMAIN list : i \in A \/ i \in B
      /\ (\A i \in A : list[i] = x) /\ (\A i \in B : list[i] # x)
  OBVIOUS
<1>2. \A y, z \in X : <<y, z>> \in alike <=> y = z
  BY ONLY TRUE
<1> HIDE DEF alike, A, B
<1>3. \A i, j \in DOMAIN list : <<list[i], list[j]>> \in alike => i = j
  <2> TAKE i, j \in DOMAIN list
  <2>1. list[i] \in X /\ list[j] \in X
    BY ONLY list \in Seq(X), Entry
  <2> QED
    BY ONLY <1>2, <2>1, \A k, m \in DOMAIN list : list[k] = list[m] => k = m
<1>4. ASSUME NEW at \in SUBSET DOMAIN list
      PROVE  /\ Picked(list, at) \in Seq(X)
             /\ \A i \in at : \E k \in DOMAIN Picked(list, at) : Picked(list, at)[k] = list[i]
             /\ \A k \in DOMAIN Picked(list, at) : \E i \in at : Picked(list, at)[k] = list[i]
             /\ \A j, k \in DOMAIN Picked(list, at) : Picked(list, at)[j] = Picked(list, at)[k] => j = k
  <2> DEFINE p == Picked(list, at)
  <2>1. /\ IsFiniteSet(at) /\ at \in SUBSET Nat /\ p \in Seq(X)
        /\ \A i \in at : \E k \in DOMAIN p : p[k] = list[i]
        /\ \A k \in DOMAIN p : \E i \in at : p[k] = list[i]
    BY ONLY <1>4, list \in Seq(X), PickedSeq
  <2>2. at \in SUBSET Int /\ \A i, j \in at : <<list[i], list[j]>> \in alike => i = j
    BY ONLY <1>3, <1>4, <2>1
  <2>3. \A j, k \in DOMAIN p : <<p[j], p[k]>> \in alike => j = k
    BY ONLY <2>1, <2>2, PickedDiffer
  <2> HIDE DEF p
  <2>4. \A j, k \in DOMAIN p : p[j] = p[k] => j = k
    <3> TAKE j, k \in DOMAIN p
    <3>1. p[j] \in X /\ p[k] \in X
      BY ONLY <2>1, Entry
    <3> QED
      BY ONLY <1>2, <2>3, <3>1
  <2> QED
    BY ONLY <2>1, <2>4 DEF p
<1>5. /\ a \in Seq(X) /\ b \in Seq(X)
      /\ \A i \in A : \E k \in DOMAIN a : a[k] = list[i]
      /\ \A i \in B : \E k \in DOMAIN b : b[k] = list[i]
      /\ \A k \in DOMAIN a : a[k] = x
      /\ \A k \in DOMAIN b : b[k] # x
      /\ \A j, k \in DOMAIN a : a[j] = a[k] => j = k
      /\ \A j, k \in DOMAIN b : b[j] = b[k] => j = k
  BY ONLY <1>1, <1>4
<1> HIDE DEF a, b
<1>6. /\ out \in Seq(X)
      /\ \A i \in DOMAIN a : i \in DOMAIN out /\ out[i] = a[i]
      /\ \A k \in DOMAIN b : Len(a) + k \in DOMAIN out /\ out[Len(a) + k] = b[k]
      /\ \A j \in DOMAIN out : j \in DOMAIN a \/ \E k \in DOMAIN b : j = Len(a) + k
  BY ONLY <1>5, TwoLists
<1> HIDE DEF out
<1>7. Range(list) \subseteq Range(out)
  <2> SUFFICES ASSUME NEW i \in DOMAIN list PROVE \E k \in DOMAIN out : out[k] = list[i]
    BY DEF Range
  <2>1. CASE i \in A
    BY ONLY <1>5, <1>6, <2>1
  <2>2. CASE i \in B
    BY ONLY <1>5, <1>6, <2>2
  <2> QED
    BY ONLY <1>1, <2>1, <2>2
<1>8. ASSUME NEW i \in DOMAIN out, NEW j \in DOMAIN out, out[i] = out[j]
      PROVE  i = j
  <2>1. CASE i \in DOMAIN a /\ j \in DOMAIN a
    BY ONLY <1>5, <1>6, <1>8, <2>1
  <2>2. CASE i \in DOMAIN a /\ \E k \in DOMAIN b : j = Len(a) + k
    BY ONLY <1>5, <1>6, <1>8, <2>2
  <2>3. CASE j \in DOMAIN a /\ \E k \in DOMAIN b : i = Len(a) + k
    BY ONLY <1>5, <1>6, <1>8, <2>3
  <2>4. CASE (\E k \in DOMAIN b : i = Len(a) + k) /\ \E k \in DOMAIN b : j = Len(a) + k
    <3>1. PICK k \in DOMAIN b : i = Len(a) + k
      BY ONLY <2>4
    <3>2. PICK m \in DOMAIN b : j = Len(a) + m
      BY ONLY <2>4
    <3>3. b[k] = b[m]
      BY ONLY <1>6, <1>8, <3>1, <3>2
    <3> QED
      BY ONLY <1>5, <3>1, <3>2, <3>3
  <2> QED
    BY ONLY <1>6, <1>8, <2>1, <2>2, <2>3, <2>4
<1>9. ASSUME x \in Range(out)
      PROVE  out[1] = x
  <2>1. PICK i \in DOMAIN out : out[i] = x
    BY ONLY <1>9 DEF Range
  <2>2. i \in DOMAIN a
    BY ONLY <1>5, <1>6, <2>1
  <2>3. a # <<>>
    BY ONLY <2>2
  <2>4. 1 \in DOMAIN a
    BY ONLY <1>5, <2>3, HasFirst
  <2> QED
    BY ONLY <1>5, <1>6, <2>4
<1>10. IsInjective(out)
  BY ONLY <1>8 DEF IsInjective
<1> QED
  BY ONLY <1>7, <1>9, <1>10 DEF out, a, b, A, B, Ordered

\* A line is of one of the two kinds.
LEMMA KindIs ==
  ASSUME NEW line, line.category \in {"api", "token"}
  PROVE  KindOf(line) \in {"api", "token"}
<1>1. line.name \in DOMAIN StandardKind => StandardKind[line.name] \in {"api", "token"}
  BY ONLY KindsHaveLines DEF KindsHaveLines
<1>2. KindOf(line) = IF line.name \in DOMAIN StandardKind THEN StandardKind[line.name]
                     ELSE IF line.url \in Range(Defaults["api"]) THEN "api"
                     ELSE IF line.url \in Range(Defaults["token"]) THEN "token"
                     ELSE line.category
  BY ONLY TRUE DEF KindOf
<1> QED
  BY ONLY <1>1, <1>2, line.category \in {"api", "token"}

\* A public line that fails has all the lines of its site to fall back on, each once.
LEMMA CandidatesHave ==
  ASSUME NEW sites, StoredSites(sites), NEW s \in Range(sites), NEW line \in Range(Lines(s)),
         line.url \in Public
  PROVE  LET out == Candidates(line, ManagedSites(sites))
         IN  /\ out \in Seq(DOMAIN BaseURL)
             /\ {u.url : u \in Range(s.urls)} \subseteq Range(out)
             /\ \A i, j \in DOMAIN out : out[i] = out[j] => i = j
<1> DEFINE X == DOMAIN BaseURL
           lists == SiteLines(sites)
           all == ManagedSites(sites)
           at == {i \in DOMAIN all : SameSite(all[i], line) /\ all[i].name = line.name}
           same == Picked(all, at)
           configured == Explicit[KindOf(line)]
           kind == IF configured # <<>> THEN configured
                   ELSE IF IsStandard(line) THEN Defaults[KindOf(line)] ELSE <<>>
           urls == [i \in DOMAIN same |-> same[i].url]
           given == (kind \o urls) \o <<line.url>>
           out == Candidates(line, all)
<1>1. PICK h \in DOMAIN sites : s = sites[h]
  BY DEF Range
<1>2. PICK L : lists \in Seq(Seq(L))
  BY LinesAre
<1>3. /\ DOMAIN lists = DOMAIN sites
      /\ \A i \in DOMAIN sites :
           /\ lists[i] = Lines(sites[i]) /\ DOMAIN lists[i] = DOMAIN sites[i].urls
           /\ \A j \in DOMAIN lists[i] :
                /\ lists[i][j].name = sites[i].name /\ lists[i][j].category = sites[i].category
                /\ lists[i][j].token = sites[i].token /\ lists[i][j].url = sites[i].urls[j].url
  BY LinesAre
<1>4. \A i \in DOMAIN sites :
              /\ sites[i].category \in {"api", "token"}
              /\ \A j \in DOMAIN sites[i].urls : sites[i].urls[j].url \in X
  BY StoredHave
<1>5. all = Flat(lists)
  BY ONLY TRUE DEF ManagedSites, SiteLines
<1>6. PICK g \in DOMAIN lists[h] : line = lists[h][g]
  BY ONLY <1>1, <1>3, line \in Range(Lines(s)) DEF Range
<1>7. /\ line.name = s.name /\ line.category = s.category /\ line.token = s.token
      /\ line.url \in X /\ line.category \in {"api", "token"}
  BY ONLY <1>1, <1>3, <1>4, <1>6
<1>8. out = EachOnce(kind \o urls \o <<line.url>>)
  BY ONLY line.url \in Public DEF Candidates
<1>9. at \in SUBSET DOMAIN all /\ \A i \in DOMAIN all :
        (i \in at <=> SameSite(all[i], line) /\ all[i].name = line.name)
  BY ONLY TRUE
<1> HIDE DEF lists, all, at
<1>10. /\ all \in Seq(L)
       /\ \A i \in DOMAIN lists : \A j \in DOMAIN lists[i] : \E k \in DOMAIN all : all[k] = lists[i][j]
       /\ \A k \in DOMAIN all : \E i \in DOMAIN lists : \E j \in DOMAIN lists[i] : all[k] = lists[i][j]
  BY ONLY <1>2, <1>5, FlatHas
<1>11. /\ same \in Seq(L)
       /\ \A i \in at : \E k \in DOMAIN same : same[k] = all[i]
       /\ \A k \in DOMAIN same : \E i \in at : same[k] = all[i]
  BY ONLY <1>9, <1>10, PickedSeq
<1> HIDE DEF same
<1>12. kind \in Seq(X)
  <2>1. KindOf(line) \in {"api", "token"}
    BY ONLY <1>7, KindIs
  <2>2. configured \in Seq(X) /\ Defaults[KindOf(line)] \in Seq(X)
    BY ONLY <2>1, KindsHaveLines DEF KindsHaveLines
  <2>3. <<>> \in Seq(X)
    OBVIOUS
  <2> HIDE DEF configured, X
  <2> QED
    BY ONLY <2>2, <2>3
<1> HIDE DEF kind
<1>13. \A k \in DOMAIN same : same[k].url \in X
  <2> TAKE k \in DOMAIN same
  <2>1. PICK m \in at : same[k] = all[m]
    BY ONLY <1>11
  <2>2. m \in DOMAIN all
    BY ONLY <1>9
  <2>3. PICK i \in DOMAIN lists : \E j \in DOMAIN lists[i] : all[m] = lists[i][j]
    BY ONLY <1>10, <2>2
  <2>4. PICK j \in DOMAIN lists[i] : all[m] = lists[i][j]
    BY ONLY <2>3
  <2>5. lists[i][j].url = sites[i].urls[j].url /\ sites[i].urls[j].url \in X
    BY ONLY <1>3, <1>4
  <2> QED
    BY ONLY <2>1, <2>4, <2>5
<1>14. urls \in Seq(X) /\ DOMAIN urls = DOMAIN same /\ \A k \in DOMAIN same : urls[k] = same[k].url
  <2>1. urls \in [DOMAIN same -> X]
    BY ONLY <1>13
  <2>2. DOMAIN urls = DOMAIN same /\ \A k \in DOMAIN same : urls[k] = same[k].url
    BY ONLY TRUE
  <2> HIDE DEF urls, X
  <2>3. urls \in Seq(X)
    BY ONLY <1>11, <2>1, SameLength
  <2> QED
    BY ONLY <2>2, <2>3
<1> HIDE DEF urls, X
<1>15. /\ kind \o urls \in Seq(X)
       /\ \A k \in DOMAIN urls : Len(kind) + k \in DOMAIN (kind \o urls) /\ (kind \o urls)[Len(kind) + k] = urls[k]
  BY ONLY <1>12, <1>14, TwoLists
<1> DEFINE both == kind \o urls
<1> HIDE DEF both
<1>16. both \in Seq(X) /\ \A k \in DOMAIN urls : \E m \in DOMAIN both : both[m] = urls[k]
  BY ONLY <1>15 DEF both
<1>17. /\ both \o <<line.url>> \in Seq(X)
       /\ \A i \in DOMAIN both : i \in DOMAIN (both \o <<line.url>>) /\ (both \o <<line.url>>)[i] = both[i]
  <2> DEFINE x == line.url
  <2>1. x \in X
    BY ONLY <1>7
  <2> HIDE DEF x
  <2>2. /\ both \o <<x>> \in Seq(X)
        /\ DOMAIN (both \o <<x>>) = DOMAIN both \cup {Len(both) + 1}
        /\ \A i \in DOMAIN both : (both \o <<x>>)[i] = both[i]
    BY ONLY <1>16, <2>1, AddedAt
  <2> QED
    BY ONLY <2>2 DEF x
<1> DEFINE most == both \o <<line.url>>
<1> HIDE DEF most
<1>18. most \in Seq(X) /\ \A k \in DOMAIN urls : \E m \in DOMAIN most : most[m] = urls[k]
  BY ONLY <1>16, <1>17 DEF most
<1>19. out = EachOnce(most)
  BY ONLY <1>8 DEF most, both
<1> HIDE DEF out
<1>20. /\ out \in Seq(X) /\ Range(most) \subseteq Range(out)
       /\ \A i, j \in DOMAIN out : out[i] = out[j] => i = j
  BY ONLY <1>18, <1>19, OnceEach
<1>21. {u.url : u \in Range(s.urls)} \subseteq Range(most)
  <2> SUFFICES ASSUME NEW u \in Range(s.urls) PROVE u.url \in Range(most)
    OBVIOUS
  <2>1. PICK j \in DOMAIN s.urls : u = s.urls[j]
    BY ONLY u \in Range(s.urls) DEF Range
  <2>2. j \in DOMAIN lists[h] /\ lists[h][j].url = u.url
    BY ONLY <1>1, <1>3, <2>1
  <2>3. PICK m \in DOMAIN all : all[m] = lists[h][j]
    BY ONLY <1>3, <1>10, <2>2
  <2>4. m \in at
    BY ONLY <1>1, <1>3, <1>7, <1>9, <2>2, <2>3 DEF SameSite
  <2>5. PICK k \in DOMAIN same : same[k] = all[m]
    BY ONLY <1>11, <2>4
  <2>6. k \in DOMAIN urls /\ urls[k] = u.url
    BY ONLY <1>14, <2>2, <2>3, <2>5
  <2>7. PICK i \in DOMAIN most : most[i] = u.url
    BY ONLY <1>18, <2>6
  <2> QED
    BY ONLY <2>7 DEF Range
<1> QED
  BY ONLY <1>20, <1>21 DEF out, all, X

LEMMA FallsBackAlways ==
  ASSUME NEW sites, StoredSites(sites)
  PROVE  FallsBackOnItsSite(sites)
<1>1. ASSUME NEW s \in Range(sites), NEW line \in Range(Lines(s)), line.url \in Public,
             NEW preferred \in Public
      PROVE  LET order == Ordered(Candidates(line, ManagedSites(sites)), preferred)
             IN  /\ {u.url : u \in Range(s.urls)} \subseteq Range(order)
                 /\ IsInjective(order)
                 /\ preferred \in Range(order) => order[1] = preferred
  <2> DEFINE urls == Candidates(line, ManagedSites(sites))
             order == Ordered(urls, preferred)
             X == DOMAIN BaseURL
  <2>1. /\ urls \in Seq(X)
        /\ {u.url : u \in Range(s.urls)} \subseteq Range(urls)
        /\ \A i, j \in DOMAIN urls : urls[i] = urls[j] => i = j
    BY <1>1, CandidatesHave
  <2> HIDE DEF urls, X
  <2>2. /\ Range(urls) \subseteq Range(order) /\ IsInjective(order)
        /\ preferred \in Range(order) => order[1] = preferred
    BY ONLY <2>1, PreferredFirst
  <2> HIDE DEF order
  <2>3. {u.url : u \in Range(s.urls)} \subseteq Range(order)
    BY ONLY <2>1, <2>2
  <2> QED
    BY ONLY <2>2, <2>3 DEF order, urls
<1> QED
  BY ONLY <1>1 DEF FallsBackOnItsSite

\* What is saved of any posted list, over any list stored before, works.
LEMMA SavedSitesWorkAlways ==
  ASSUME NEW posted, AreSites(posted), NEW before, AreSites(before)
  PROVE  SavedSitesWork(posted, before)
<1> DEFINE previous == Normalized(before, <<>>).sites
           first == Normalized(posted, previous)
           saved == Saved(posted, previous)
<1>1. \E X : previous \in Seq(X)
  <2>1. CASE Normalized(before, <<>>).ok
    <3>1. StoredSites(previous)
      BY ONLY <2>1, AreSites(before), NormalIsStored
    <3> QED
      BY ONLY <3>1, StoredHave
  <2>2. CASE ~ Normalized(before, <<>>).ok
    <3> DEFINE clean == [i \in DOMAIN before |-> Clean(before[i], <<>>)]
    <3>1. Normalized(before, <<>>) = Accepted(clean, MergedByToken(clean))
      BY ONLY TRUE DEF Normalized
    <3> HIDE DEF clean
    <3>2. Normalized(before, <<>>) = Rejected
      <4>1. [ok |-> TRUE, sites |-> MergedByToken(clean)].ok = TRUE
        BY ONLY TRUE
      <4> QED
        BY ONLY <2>2, <3>1, <4>1 DEF Accepted
    <3>3. previous = <<>>
      BY ONLY <3>2 DEF Rejected
    <3>4. <<>> \in Seq({})
      OBVIOUS
    <3> QED
      BY ONLY <3>3, <3>4
  <2> QED
    BY ONLY <2>1, <2>2
<1>2. PICK X : previous \in Seq(X)
  BY ONLY <1>1
<1>3. SavedSitesWork(posted, before) <=> Works(posted, previous, saved)
  BY ONLY TRUE DEF SavedSitesWork
<1>4. saved = IF first.ok THEN Normalized(first.sites, previous) ELSE Rejected
  BY ONLY TRUE DEF Saved
<1> HIDE DEF previous, first, saved
<1>5. CASE first.ok
  <2> DEFINE sites == first.sites
  <2>1. first = [ok |-> TRUE, sites |-> sites] /\ StoredSites(sites)
    BY ONLY <1>5, AreSites(posted), NormalIsStored DEF first
  <2>2. LinesKeepTheirToken(posted, previous, sites)
    BY ONLY <1>2, <1>5, AreSites(posted), TokensAreKept DEF first
  <2> HIDE DEF sites
  <2>3. Normalized(sites, previous) = [ok |-> TRUE, sites |-> sites]
    BY ONLY <2>1, NormalStays
  <2>4. Normalized(sites, <<>>) = [ok |-> TRUE, sites |-> sites]
    BY ONLY <2>1, NormalStays
  <2>5. saved = [ok |-> TRUE, sites |-> sites]
    BY ONLY <1>4, <1>5, <2>3 DEF sites
  <2>6. saved.sites = sites
    BY ONLY <2>5
  <2>7. BootsAsSaved(sites)
    BY ONLY <2>4 DEF BootsAsSaved, Booted
  <2>8. PrimariesAgree(sites) /\ FallsBackOnItsSite(sites)
    BY ONLY <2>1, PrimariesAgreeAlways, FallsBackAlways
  <2> QED
    BY ONLY <1>3, <2>2, <2>6, <2>7, <2>8 DEF Works
<1>6. CASE ~ first.ok
  <2>1. saved = Rejected
    BY ONLY <1>4, <1>6
  <2>2. ~ saved.ok
    BY ONLY <2>1 DEF Rejected
  <2> QED
    BY ONLY <1>3, <2>2 DEF Works
<1> QED
  BY ONLY <1>5, <1>6

(***************************************************************************)
(* The cases                                                               *)
(***************************************************************************)

\* Every behaviour is a case, or none yet.
IsCase == case \in Cases \cup {[area |-> "none"]}

LEMMA CasesOnly == Spec => []IsCase
<1>1. Init => IsCase
  BY DEF Init, IsCase
<1>2. IsCase /\ [Next]_case => IsCase'
  BY DEF IsCase, Next, Cases, Draws, Configs, Prizes, Titles, Scenes, Sales, Merges, Traces,
         MadeKeys, SiteLists, Tables
<1> QED
  BY <1>1, <1>2, PTL DEF Spec

LEMMA CaseOf ==
  ASSUME IsCase, NEW area, area # "none", case.area = area
  PROVE  case \in Cases
BY DEF IsCase

LEMMA TheirAreas ==
  /\ "merge" # "none" /\ "paste" # "none" /\ "trace" # "none" /\ "token" # "none"
  /\ "name" # "none" /\ "status" # "none" /\ "scene" # "none" /\ "schedule" # "none"
  /\ "draw" # "none" /\ "prize" # "none"
OBVIOUS

\* Nobody but an administrator makes quota or a longer period by merging, and the cards
\* whose keys were pasted count once each, all of them, with what is on them now.
THEOREM MergesStayFair == Spec => []MergesAreFair
<1>1. IsCase => MergesAreFair
  <2> SUFFICES ASSUME IsCase PROVE MergesAreFair
    OBVIOUS
  <2>1. ASSUME case.area = "merge"
        PROVE  MergeIsFair(case.request, case.cards, Unit, Alphabet)
    <3>1. case \in Cases
      BY <2>1, CaseOf, TheirAreas
    <3>2. case.request \in Request /\ case.cards \in Seq(Card)
      BY <2>1, <3>1, MergeInputs
    <3> QED
      BY <3>2, MergesAreFairAlways
  <2>2. ASSUME case.area = "paste"
        PROVE  PastedCountOnce(case.request, case.parts, case.upstream, case.fetched,
                               Unit, Alphabet)
    <3>1. case \in Cases
      BY <2>2, CaseOf, TheirAreas
    <3>2. /\ case.request \in Request /\ case.parts \in Seq(Nat)
          /\ Answered(case.parts, case.upstream, case.fetched)
      BY <2>2, <3>1, MergeInputs
    <3> QED
      BY <3>2, PastedCountOnceAlways
  <2> QED
    BY <2>1, <2>2 DEF MergesAreFair
<1> QED
  BY <1>1, CasesOnly, PTL

\* A card is found by its key, its name and its merges, and told from all others.
THEOREM TokensStayFound == Spec => []TokensAreFound
<1>1. IsCase => TokensAreFound
  <2> SUFFICES ASSUME IsCase PROVE TokensAreFound
    OBVIOUS
  <2>1. CreatedKeysAreOwn
    <3> SUFFICES ASSUME case.area = "token" PROVE CreatedKeyIsOwn(Own, case.name, case.up)
      BY DEF CreatedKeysAreOwn
    <3>1. case \in Cases
      BY CaseOf, TheirAreas
    <3>2. /\ TellsTruth(Own, case.name, case.up)
          /\ ~case.up.create.failed => DOMAIN case.up.create.value \in SUBSET Nat
          /\ ~case.up.search.failed => DOMAIN case.up.search.value \in SUBSET Nat
      BY <3>1, TokenInputs
    <3> QED
      BY <3>2, CreatedKeysAreOwnAlways
  <2>2. NamesFit
    <3> SUFFICES ASSUME case.area = "name" PROVE BatchNamesFit(case.slug, case.total)
      BY DEF NamesFit
    <3>1. case \in Cases
      BY CaseOf, TheirAreas
    <3>2. case.slug \in Seq(Signs) /\ case.total \in 1..MaxTarget
      BY <3>1, NameInputs
    <3> QED
      BY <3>2, BatchNamesFitAlways
  <2>3. TracesAreFound
    <3> SUFFICES ASSUME case.area = "trace"
                 PROVE  TraceFindsRelated(case.records, case.keys, case.max)
      BY DEF TracesAreFound
    <3>1. case \in Cases
      BY CaseOf, TheirAreas
    <3>2. case.records \in Seq(SUBSET Nat) /\ case.max \in Nat
      BY <3>1, TraceInputs
    <3> QED
      BY <3>2, TracesAreFoundAlways
  <2> QED
    BY <2>1, <2>2, <2>3 DEF TokensAreFound
<1> QED
  BY <1>1, CasesOnly, PTL

\* The table of models adds up, before and after manual tests, whatever the lines answer.
THEOREM TableStaysRight == Spec => []TableAddsUp
<1>1. IsCase => TableAddsUp
  <2> SUFFICES ASSUME IsCase, case.area = "status" PROVE StatusAddsUp(case.lines, case.tests)
    BY DEF TableAddsUp
  <2>1. case \in Cases
    BY CaseOf, TheirAreas
  <2>2. LinesAnswer(case.lines) /\ case.tests \in Seq(Range(case.tests))
    BY <2>1, StatusInputs
  <2> QED
    BY <2>2, StatusAddsUpAlways
<1> QED
  BY <1>1, CasesOnly, PTL

\* However a card is cast in whatever scene, no zongzi is caught twice or through an obstacle.
THEOREM ZongziStayCaughtOnce == Spec => []ZongziCaughtOnce
<1>1. IsCase => ZongziCaughtOnce
  <2> SUFFICES ASSUME IsCase, case.area = "scene"
               PROVE  EachZongziOnce(case.layout, case.total, case.targets)
    BY DEF ZongziCaughtOnce
  <2>1. case \in Cases
    BY CaseOf, TheirAreas
  <2>2. WellLaid(case.layout) /\ case.total \in Nat /\ case.targets \in Seq(Points)
    BY <2>1, SceneInputs
  <2> QED
    BY <2>2, EachZongziOnceAlways
<1> QED
  BY <1>1, CasesOnly, PTL

\* A rebalanced pool is worth its target, whatever the pool, its target and what was paid.
THEOREM PoolsPayTheirTarget == Spec => []PaysTarget
<1>1. IsCase => PaysTarget
  <2> SUFFICES ASSUME IsCase, case.area = "draw"
               PROVE  BalancedPaysTarget(case.pool, case.target, case.actual, case.draws)
    BY DEF PaysTarget
  <2>1. case \in Cases
    BY CaseOf, TheirAreas
  <2>2. /\ case.pool \in Seq(PrizeRows) /\ case.target \in Rationals /\ case.actual \in Rationals
        /\ case.draws \in Int
    BY <2>1, DrawInputs
  <2> QED
    BY ONLY <2>2, BalancedPays
<1> QED
  BY <1>1, CasesOnly, PTL

\* Whatever staff configure, no prize paid out of the fund exceeds its balance.
THEOREM FundStaysCovered == Spec => []FundCovers
<1>1. IsCase => FundCovers
  <2> SUFFICES ASSUME IsCase, case.area = "prize"
               PROVE  PrizesAreCovered(case.raw, case.tier, case.balance, case.n)
    BY DEF FundCovers
  <2>1. case \in Cases
    BY CaseOf, TheirAreas
  <2>2. /\ case.raw.pool \in {Nil} \cup Seq(PrizeRows) /\ case.raw.games \in {Nil} \cup Seq(GameRows)
        /\ case.raw.fund \in Funds /\ case.raw.rewards \in {Nil} \cup Seq(Int)
        /\ case.raw.maxReveals \in Int /\ case.balance \in Int /\ case.n \in Int
    BY <2>1, PrizeInputs
  <2>3. PrizeConfig(case.raw)
    <3>1. case.raw.fund.share \in [Ranks -> Int]
      BY ONLY <2>2 DEF Funds
    <3>2. GameRows \in SUBSET AimedGames
      BY DEF GameRows, AimedGames
    <3>3. case.raw.games \in {Nil} \cup Seq(AimedGames)
      BY ONLY <2>2, <3>2
    <3> QED
      BY ONLY <2>2, <3>1, <3>3 DEF PrizeConfig
  <2> QED
    BY ONLY <2>2, <2>3, FundPays
<1> QED
  BY <1>1, CasesOnly, PTL

\* What is drawn, paid and caught is worth what the configuration says, and the fund has it.
THEOREM GamesStayFair == Spec => []GamesPayFairly
<1>1. PaysTarget /\ FundCovers /\ ZongziCaughtOnce => GamesPayFairly
  BY DEF GamesPayFairly
<1> QED
  BY <1>1, PoolsPayTheirTarget, FundStaysCovered, ZongziStayCaughtOnce, PTL

\* Every schedule that is accepted restocks what it says, whatever it is made of.
THEOREM SchedulesKeepWorking == Spec => []SchedulesWork
<1>1. IsCase => SchedulesWork
  <2> SUFFICES ASSUME IsCase, case.area = "schedule"
               PROVE  SavedScheduleWorks(case.posted, case.minute)
    BY DEF SchedulesWork
  <2>1. case \in Cases
    BY CaseOf, TheirAreas
  <2>2. case.posted \in Schedules
    BY <2>1, ScheduleInputs
  <2> QED
    BY <2>2, SavedScheduleWorksAlways
<1> QED
  BY <1>1, CasesOnly, PTL

\* Whatever staff type in, a configuration is read back as it was stored and means the
\* same for every tier, and a login is offered no card without rounds.
THEOREM ConfigurationsStay == Spec => []ConfigStays
<1>1. IsCase => ConfigStays
  <2> SUFFICES ASSUME IsCase, case.area = "config"
               PROVE  ConfigSurvives(case.raw, case.legacy, Tiers, Tokens)
    BY DEF ConfigStays
  <2>1. case \in Cases
    BY CaseOf, TheirAreas
  <2>2. IsTyped(case.raw) /\ case.legacy \in [DOMAIN case.legacy -> Int]
    BY <2>1, ConfigInputs
  <2> QED
    BY ONLY <2>2, ConfigSurvivesAlways
<1> QED
  BY <1>1, CasesOnly, PTL

\* Every list of sites that is accepted boots as it was saved, every line keeps the token
\* of its site, all modules call the same site, and a line that fails has its whole site
\* to fall back on.
THEOREM SitesKeepWorking == Spec => []SitesWork
<1>1. IsCase => SitesWork
  <2> SUFFICES ASSUME IsCase, case.area = "sites"
               PROVE  SavedSitesWork(case.posted, case.before)
    BY DEF SitesWork
  <2>1. case \in Cases
    BY CaseOf, TheirAreas
  <2>2. AreSites(case.posted) /\ AreSites(case.before)
    BY <2>1, SiteInputs
  <2> QED
    BY ONLY <2>2, SavedSitesWorkAlways
<1> QED
  BY <1>1, CasesOnly, PTL

\* What an administrator saves is what runs, now and after a restart.
THEOREM SavedConfigKeepsWorking == Spec => []SavedConfigWorks
<1>1. ConfigStays /\ SitesWork /\ SchedulesWork => SavedConfigWorks
  BY DEF SavedConfigWorks
<1> QED
  BY <1>1, ConfigurationsStay, SitesKeepWorking, SchedulesKeepWorking, PTL
=============================================================================
