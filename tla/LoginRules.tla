----------------------------- MODULE LoginRules -----------------------------
(***************************************************************************)
(* Which card a subscription stands for (login_plan.go,                    *)
(* login_subscription.go): the number of draws is read from the title of   *)
(* the subscription's plan, unless staff mapped the plan to a tier, or the *)
(* user's name says that this is a test.                                   *)
(*                                                                         *)
(* Operators only.  A title is a sequence of characters, a character a     *)
(* record [kind, value]: an Arabic "digit", a Chinese "numeral", a "unit"  *)
(* (ten, hundred, thousand, ten thousand), the word "times", the word      *)
(* "card" that may follow it, a "dot", a Latin "letter" or another         *)
(* character.  A user's name is [dollars, words]: the number before        *)
(* "-act-", 0 if there is none, and the set of words after it.             *)
(***************************************************************************)
EXTENDS Integers, Sequences, SequencesExt

CONSTANT
  Templates   \* the shop's plans: a sequence of [names, dollars], names a sequence of titles

Times == [kind |-> "times", value |-> 0]
Card  == [kind |-> "card", value |-> 0]

(***************************************************************************)
(* Numbers in a title                                                      *)
(***************************************************************************)

\* Signs between letters do not count, the point of a number included.
Token(title) == SelectSeq(title, LAMBDA c : c.kind # "dot")

Within(title, token) ==
  \E i \in 0..(Len(title) - Len(token)) : SubSeq(title, i + 1, i + Len(token)) = token

Unread == [total |-> 0, section |-> 0, number |-> 0]

\* Seeded fault: a unit needs a digit before it.
ReadNumeral_DigitNeeded(acc, c) ==
  CASE c.kind = "numeral" -> [acc EXCEPT !.number = c.value]
    [] c.value = 10000 -> [Unread EXCEPT !.total = acc.total + (acc.section + acc.number) * 10000]
    [] OTHER -> [acc EXCEPT !.section = @ + acc.number * c.value, !.number = 0]

\* A unit without a digit before it counts once: "ten" is "one ten".
ReadNumeral(acc, c) ==
  LET section == acc.section + acc.number
  IN  CASE c.kind = "numeral" -> [acc EXCEPT !.number = c.value]
        [] c.value = 10000 ->
             [Unread EXCEPT !.total = acc.total + (IF section = 0 THEN 1 ELSE section) * 10000]
        [] OTHER ->
             [acc EXCEPT !.section = @ + (IF acc.number = 0 THEN 1 ELSE acc.number) * c.value,
                         !.number = 0]

\* The value of a Chinese numeral; 0 is no number.
ReadOff(read) == read.total + read.section + read.number
ParseNumeral(text) == ReadOff(FoldLeft(ReadNumeral, Unread, text))

ReadDigits(text) == FoldLeft(LAMBDA n, c : 10 * n + c.value, 0, text)

\* The longest run of characters of some kinds that ends before position i.
RunBefore(title, i, kinds) ==
  LET starts == {s \in 1..i : \A k \in s..(i - 1) : title[k].kind \in kinds}
  IN  SubSeq(title, CHOOSE s \in starts : \A t \in starts : s <= t, i - 1)

\* What follows a number: the word for times and, if it is there, the word for card.
Suffix(title, i) ==
  IF i < Len(title) /\ title[i + 1].kind = "card" THEN <<title[i], title[i + 1]>> ELSE <<title[i]>>

\* The numbers of draws a title mentions in one script: a set of [token, dollars].
Arabic  == {"digit"}
Chinese == {"numeral", "unit"}

NumberBefore(title, i, script) ==
  LET text == RunBefore(title, i, script)
  IN  [text |-> text, value |-> IF script = Arabic THEN ReadDigits(text) ELSE ParseNumeral(text)]

MentionOf(number, suffix) == [token |-> number.text \o suffix, dollars |-> number.value]

Mentioned(title, script) ==
  {m \in {MentionOf(NumberBefore(title, i, script), Suffix(title, i)) :
            i \in {k \in DOMAIN title : title[k].kind = "times"}} : m.dollars > 0}

QuotaCandidates(title) == Mentioned(title, Arabic) \cup Mentioned(title, Chinese)

(***************************************************************************)
(* The tier of a subscription; 0 if its plan does not say                  *)
(***************************************************************************)

Digits(n) == LET d(v) == [kind |-> "digit", value |-> v]
             IN  IF n < 10 THEN <<d(n)>>
                 ELSE IF n < 100 THEN <<d(n \div 10), d(n % 10)>>
                 ELSE IF n < 1000 THEN <<d(n \div 100), d((n \div 10) % 10), d(n % 10)>>
                 ELSE <<d(n \div 1000), d((n \div 100) % 10), d((n \div 10) % 10), d(n % 10)>>

\* How a number below ten thousand is written in Chinese, zeros between digits said once.
Spelled(n) ==
  LET n1(v) == [kind |-> "numeral", value |-> v]
      Part(k, unit) == IF k = 0 THEN <<>> ELSE <<n1(k), [kind |-> "unit", value |-> unit]>>
      thousands == n \div 1000   hundreds == (n \div 100) % 10
      tens == (n \div 10) % 10   ones == n % 10
      gap1 == IF thousands > 0 /\ hundreds = 0 /\ n % 100 > 0 THEN <<n1(0)>> ELSE <<>>
      gap2 == IF hundreds > 0 /\ tens = 0 /\ ones > 0 THEN <<n1(0)>> ELSE <<>>
  IN  Part(thousands, 1000) \o Part(hundreds, 100) \o gap1 \o
      (IF n \in 10..19 THEN <<[kind |-> "unit", value |-> 10]>> ELSE Part(tens, 10)) \o
      gap2 \o (IF ones = 0 THEN <<>> ELSE <<n1(ones)>>)

\* subscriptionQuotaTitleAliases: the number of draws in digits and, for the tiers on sale, in
\* Chinese, where a hundred and a thousand need no "one".
Aliases(dollars) ==
  LET one == Spelled(dollars)
      numbers == {Digits(dollars)}
        \cup (IF dollars \in {55, 100, 150, 300, 500, 1000} THEN {one} ELSE {})
        \cup (IF dollars \in {100, 1000} THEN {Tail(one)} ELSE {})
  IN  {n \o suffix : n \in numbers, suffix \in {<<Times>>, <<Times, Card>>}}

\* The order in which candidates are listed does not decide between them.
TemplateCandidates ==
  UNION {{[token |-> Token(name), dollars |-> t.dollars] :
            name \in Range(t.names) \cup Aliases(t.dollars)} : t \in Range(Templates)}

\* len: a Chinese character has three bytes.
Bytes(token) ==
  3 * Len(token) - 2 * Len(SelectSeq(token, LAMBDA c : c.kind \in {"digit", "letter"}))

\* The longest text found says most; of two such the larger number is taken.
Preferred(a, b) ==
  \/ Bytes(a.token) > Bytes(b.token)
  \/ Bytes(a.token) = Bytes(b.token) /\ a.dollars >= b.dollars

BestOf(found) ==
  IF found = {} THEN 0 ELSE (CHOOSE c \in found : \A d \in found : Preferred(c, d)).dollars

FoundIn(title, candidates) == {c \in candidates : c.token # <<>> /\ Within(title, c.token)}

DollarsFromTitle(rawTitle) ==
  LET title == Token(rawTitle)
  IN  BestOf(FoundIn(title, TemplateCandidates \cup QuotaCandidates(title)))

\* Seeded fault: a mapping that names another plan is tried by its title, too.
Fits_ByTitleToo(mapping, plan, title) ==
  mapping.dollars > 0 /\ (mapping.plan = plan \/ Within(Token(title), Token(mapping.title)))

\* mapping: [plan, title, match, dollars]; the first that fits is taken, and one that
\* names a plan looks at nothing else.
Fits(mapping, plan, title) ==
  /\ mapping.dollars > 0
  /\ \/ mapping.plan > 0 /\ mapping.plan = plan
     \/ /\ mapping.plan <= 0 /\ Token(mapping.title) # <<>> /\ Token(title) # <<>>
        /\ IF mapping.match = "exact" THEN Token(title) = Token(mapping.title)
           ELSE Within(Token(title), Token(mapping.title))

MappedDollars(plan, title, mappings) ==
  LET fit == SelectSeq(mappings, LAMBDA m : Fits(m, plan, title))
  IN  IF fit = <<>> THEN 0 ELSE fit[1].dollars

SubscriptionDollars(plan, title, mappings) ==
  LET mapped == MappedDollars(plan, title, mappings)
  IN  IF mapped > 0 THEN mapped ELSE DollarsFromTitle(title)

(***************************************************************************)
(* The subscriptions a login considers.  sub: [user, plan, active, start,  *)
(* total]; titles of reward plans mark subscriptions won in the activity.  *)
(***************************************************************************)

Qualifies(sub, user, rewardPlans, cfg) ==
  /\ sub.user = user /\ sub.plan \notin rewardPlans
  /\ sub.active /\ sub.start >= cfg.startTS /\ sub.start <= cfg.endTS
  /\ sub.total > 0

\* "1000-act-test" plays a test of tier 1000.
ActTestDollarsFromName(name) == IF "test" \in name.words THEN name.dollars ELSE 0

\* The token a subscription is planned as: the user's name is the token's, and the
\* subscription's amount stands in for an unknown tier.
AsToken(sub, name, title, cfg, unit) ==
  LET dollars == SubscriptionDollars(sub.plan, title, cfg.mappings)
  IN  [status |-> IF sub.active THEN 1 ELSE 0, test |-> ActTestDollarsFromName(name),
       created |-> sub.start, quota |-> IF dollars > 0 THEN dollars * unit ELSE sub.total]

(***************************************************************************)
(* Properties                                                              *)
(***************************************************************************)

\* A plan titled with a number of draws, in digits or in Chinese, gives that many,
\* although the names of smaller plans occur inside the title of a larger one.
TitleSaysHowMany(n, spelled, card) ==
  LET number == IF spelled THEN Spelled(n) ELSE Digits(n)
  IN  DollarsFromTitle(number \o <<Times>> \o (IF card THEN <<Card>> ELSE <<>>)) = n
=============================================================================
