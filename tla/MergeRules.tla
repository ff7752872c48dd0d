----------------------------- MODULE MergeRules -----------------------------
(***************************************************************************)
(* The rules of merging cards (combinecore.go and the helpers of combine): *)
(* which cards a request names, who may merge them into what, and how the  *)
(* past merges of a card are found again (trace_read.go).                  *)
(*                                                                         *)
(* Operators only.  A card is a record [id, key, remain, used, unit,       *)
(* group, status]; a request [role, unit, quota, name, custom], its quota  *)
(* and name empty sequences when they are not given.  A unit is the period *)
(* of a card: 3 a day, 8 a week, 9 a month.                                *)
(***************************************************************************)
EXTENDS Lists

Day == 3
Week == 8
Month == 9

NoKey == 0

\* Cards and requests, as far as the rules look at them.
Card == [id : Int, key : Nat, remain : Int, used : Int, unit : Int, group : STRING, status : Int]
Request == [role : {"guest", "user", "admin"}, unit : Int, quota : Seq(Int), name : Seq(Nat),
            custom : BOOLEAN]

Ids(cards) == {cards[i].id : i \in DOMAIN cards}
Units(cards) == {cards[i].unit : i \in DOMAIN cards}

Remaining(cards) == Total([i \in DOMAIN cards |-> cards[i].remain], DOMAIN cards)

\* What a search for a key finds, and what is fetched for a card that was found.
Answered(parts, upstream, fetched) ==
  \A k \in Range(parts) \ {NoKey} :
    /\ upstream[k] \in Seq(Card) /\ Len(upstream[k]) <= 1
    /\ upstream[k] # <<>> => LET id == upstream[k][1].id
                            IN  fetched[id] \in Card /\ fetched[id].id = id

(***************************************************************************)
(* Keys and cards as the upstream answers them                             *)
(***************************************************************************)

\* The keys among the pasted parts, each once, in order; NoKey is a part too short for one.
NormalizeKeys(parts) ==
  Picked(parts, {i \in DOMAIN parts :
                   parts[i] # NoKey /\ \A j \in 1..(i - 1) : parts[j] # parts[i]})

\* A token without a status is enabled.
FromRaw(raw) == [raw EXCEPT !.status = IF @ = 0 THEN 1 ELSE @]

\* The answers of a search in the order of the keys: found cards and keys without one.
Found(results) ==
  LET cards == Picked(results, {k \in DOMAIN results : results[k].card # <<>>})
  IN  [i \in DOMAIN cards |-> cards[i].card[1]]
Missing(results) ==
  LET none == Picked(results, {k \in DOMAIN results : results[k].card = <<>>})
  IN  [i \in DOMAIN none |-> none[i].key]

\* Seeded fault: only guests' cards need be enabled.
SourceFault_KeyOnly(requested, verified) ==
  IF requested.key # verified.key THEN "changed" ELSE ""

\* A card found is still that card when it is fetched by its number.
SourceFault(requested, verified) ==
  IF requested.key # verified.key THEN "changed"
  ELSE IF verified.status # 1 THEN "disabled"
  ELSE ""

(***************************************************************************)
(* Who may merge what                                                      *)
(***************************************************************************)

\* Reasons why a guest may not merge the cards, none if they may.
PublicReasons(cards) ==
  LET of(i) == (IF cards[i].status # 1 THEN {"disabled"} ELSE {})
               \cup (IF cards[i].unit # Day THEN {"no day card"} ELSE {})
               \cup (IF cards[i].used > 0 THEN {"used"} ELSE {})
               \cup (IF cards[i].remain <= 0 THEN {"empty"} ELSE {})
  IN  (IF Len(cards) < 2 THEN {"too few"} ELSE {}) \cup UNION {of(i) : i \in DOMAIN cards}

GuestMay(request, cards) ==
  /\ ~request.custom /\ request.quota = <<>> /\ request.name = <<>>
  /\ request.unit = Week
  /\ PublicReasons(cards) = {}

\* Several cards become weeks if a day or a week is among them, months if a month is.
UserMay(request, cards) ==
  /\ Len(cards) = 1 => request.unit = cards[1].unit
  /\ Len(cards) > 1 => \/ request.unit = Week /\ Units(cards) \cap {Day, Week} # {}
                       \/ request.unit = Month /\ Month \in Units(cards)

MayMerge(request, cards) ==
  /\ \A i \in DOMAIN cards : cards[i].id > 0
  /\ request.unit \in {Day, Week, Month}
  /\ request.role = "guest" => GuestMay(request, cards)
  /\ request.role = "user" => UserMay(request, cards)
  /\ request.role # "admin" => ~request.custom

(***************************************************************************)
(* What the merged card is                                                 *)
(***************************************************************************)

\* The group most cards are in; of several, the first in the alphabet (here: by number).
MajorityGroup(cards, rank) ==
  LET group(i) == IF cards[i].group = "" THEN "mix" ELSE cards[i].group
      groups == {group(i) : i \in DOMAIN cards}
      size(g) == Cardinality({i \in DOMAIN cards : group(i) = g})
  IN  IF groups = {} THEN "mix"
      ELSE CHOOSE g \in groups : \A h \in groups :
             size(g) > size(h) \/ (size(g) = size(h) /\ rank[g] <= rank[h])

\* Seeded fault: whoever is logged in sets the amount.
QuotaAsked_ByUsers(request) == IF request.role # "guest" THEN request.quota ELSE <<>>

\* Only an administrator who asks for it sets the amount.
QuotaAsked(request) ==
  IF request.role = "admin" /\ request.custom THEN request.quota ELSE <<>>

NameAsked(request) == IF request.role = "guest" THEN <<>> ELSE request.name

\* Without a name the card is called after its dollars, rounded.
TargetPlan(request, cards, unit, rank) ==
  LET asked == QuotaAsked(request)
      quota == IF asked = <<>> THEN Remaining(cards) ELSE asked[1]
  IN  IF quota <= 0 \/ unit <= 0 THEN [ok |-> FALSE]
      ELSE [ok |-> TRUE, quota |-> quota, group |-> MajorityGroup(cards, rank),
            unit |-> request.unit,
            name |-> IF NameAsked(request) # <<>> THEN NameAsked(request)
                     ELSE << (2 * quota + unit) \div (2 * unit) >>]

\* The verified cards of a request become one; nothing happens if a rule is broken.
MergePlan(request, cards, unit, rank) ==
  IF Cardinality(Ids(cards)) = Len(cards) /\ MayMerge(request, cards)
  THEN TargetPlan(request, cards, unit, rank) ELSE [ok |-> FALSE]

\* A request with pasted keys: upstream[key] is what a search for the key finds, none or
\* one token, and fetched[id] the token when it is looked at again.
MergePasted(request, parts, upstream, fetched, unit, rank) ==
  LET keys     == NormalizeKeys(parts)
      results  == [k \in DOMAIN keys |-> [key |-> keys[k], card |-> upstream[keys[k]]]]
      found    == Found(results)
      verified == [i \in DOMAIN found |-> FromRaw(fetched[found[i].id])]
  IN  IF \/ keys = <<>> \/ Missing(results) # <<>>
         \/ \E i \in DOMAIN found : SourceFault(found[i], verified[i]) # ""
      THEN [ok |-> FALSE] ELSE MergePlan(request, verified, unit, rank)

(***************************************************************************)
(* Past merges of a card: records is a sequence (by age) of sets of keys.  *)
(* Starting from the keys asked for, the records that mention a key are    *)
(* read, then those that mention the other keys of these, and so on.       *)
(***************************************************************************)

\* The oldest records that mention one of the keys, no more than limit.
RecordsOf(records, keys, limit) ==
  LET all == {m \in DOMAIN records : records[m] \cap keys # {}}
  IN  {m \in all : Cardinality({l \in all : l < m}) < limit}

\* Seeded fault: the keys of what was found are not looked up in turn.
TraceStep_OneHop(records, max, state) ==
  [state EXCEPT !.found = @ \cup RecordsOf(records, state.frontier, max - Cardinality(@)),
                !.frontier = {}]

TraceStep(records, max, state) ==
  LET hits == RecordsOf(records, state.frontier, max - Cardinality(state.found))
      new  == hits \ state.found
      keys == (UNION {records[m] : m \in new}) \ state.seen
  IN  IF state.frontier = {} \/ Cardinality(state.found) >= max \/ new = {}
      THEN [state EXCEPT !.frontier = {}]
      ELSE [found |-> state.found \cup new, seen |-> state.seen \cup keys, frontier |-> keys]

\* Each step but the last finds a record, so one step per record is enough.
TracesForKeys(records, keys, max) ==
  LET state[n \in 0..Len(records)] ==
        IF n = 0 THEN [found |-> {}, seen |-> keys, frontier |-> keys]
        ELSE TraceStep(records, max, state[n - 1])
  IN  state[Len(records)].found

(***************************************************************************)
(* Properties                                                              *)
(***************************************************************************)

\* A merge that goes ahead never makes quota, except for an administrator who sets it;
\* a guest's merge turns unused day cards into a week, and nobody else's turns cards
\* into a period none of them has, except days into weeks.
MergeIsFair(request, cards, unit, rank) ==
  LET plan == MergePlan(request, cards, unit, rank)
  IN  (plan.ok /\ request.role # "admin") =>
        /\ plan.quota = Remaining(cards) /\ plan.quota > 0
        /\ plan.unit \in Units(cards) \/ (plan.unit = Week /\ Day \in Units(cards))
        /\ request.role = "guest" => \A i \in DOMAIN cards :
             cards[i].used <= 0 /\ cards[i].unit = Day /\ cards[i].status = 1

\* A merge of pasted keys that goes ahead takes the card of every key, unchanged since it
\* was found, and each card once, with the quota it has when it is fetched.
PastedCountOnce(request, parts, upstream, fetched, unit, rank) ==
  LET plan == MergePasted(request, parts, upstream, fetched, unit, rank)
      keys == Range(parts) \ {NoKey}
      ids  == {upstream[k][1].id : k \in keys}
  IN  plan.ok =>
        /\ \A k \in keys : upstream[k] # <<>>
        /\ \A k \in keys : fetched[upstream[k][1].id].key = upstream[k][1].key
        /\ \A i \in ids : fetched[i].status # 2
        /\ QuotaAsked(request) = <<>> =>
             plan.quota = Total([i \in ids |-> fetched[i].remain], ids)

\* The records connected with the keys, which the search is held against: the smallest set
\* with every record that mentions one of the keys or a key of a record of the set.
Connected(records, keys, M) ==
  \A m \in DOMAIN records :
    records[m] \cap (keys \cup UNION {records[l] : l \in M}) # {} => m \in M

Related(records, keys) ==
  {m \in DOMAIN records :
     \A M \in SUBSET DOMAIN records : Connected(records, keys, M) => m \in M}

\* A search finds only merges connected with the card and no more than the limit, and
\* finds them all if there are few enough of them.  (The rows of a step are limited by
\* what is left of the limit although some of them were found before: a search may stop
\* early when half of the limit is reached.)
TraceFindsRelated(records, keys, max) ==
  LET found   == TracesForKeys(records, keys, max)
      related == Related(records, keys)
  IN  /\ found \subseteq related /\ Cardinality(found) <= max
      /\ 2 * Cardinality(related) - 1 <= max => found = related
=============================================================================
