------------------------------ MODULE CardPlay ------------------------------
(***************************************************************************)
(* One card of the activity service and everything that changes it         *)
(* (apps/fufu-act: spin_runner.go, spin_store.go, scratch.go,              *)
(* scratch_store.go, dragonboat.go, dragonboat_store.go, login_store.go,   *)
(* credit.go; packages/go/fufu: scratchcore, dragonboatcore).              *)
(*                                                                         *)
(* The game handlers of a card exclude each other with withCardLock; each  *)
(* reads the card's row and its game's row, one after the other, and       *)
(* writes them back in a transaction later.  Logins, the operator's        *)
(* configuration and the credit worker take no lock.  Cards share no state *)
(* but the prize pool, which only bounds the size of a prize, so one card  *)
(* is enough; a drawn prize is any member of Prizes.                       *)
(***************************************************************************)
EXTENDS Integers, Sequences

CONSTANTS
  Reqs,         \* concurrent requests for the card
  Totals,       \* draw counts a tier may have
  Prizes,       \* dollars a round may win
  RevealLimits, \* values the operator gives ScratchMaxReveals, at any time
  MaxRows,      \* bound: a test card is reset while it has fewer queue rows
  MaxReroutes   \* bound: changes of the game of a card in use

ASSUME TotalsAssumption == Totals \subseteq Nat \ {0}
ASSUME PrizesAssumption == Prizes \subseteq Nat
ASSUME RevealsAssumption == RevealLimits \subseteq Nat \ {0}
ASSUME BoundsAssumption == MaxRows \in Nat \ {0} /\ MaxReroutes \in Nat

VARIABLES
  isTest,      \* isTestCardName: the card may be reset
  game,        \* GameForTier of the card's tier
  total,       \* cards.total_spins (0: the card has not logged in yet)
  used,        \* cards.used_spins
  won,         \* cards.total_won
  scratch,     \* the scratch_games row: [status, safe]
  dragon,      \* the dragonboat_games row: [made, fished, caught, peeled]
  rows,        \* the card's credit_queue rows, oldest first: [prize, status]
  req,         \* per request: [at, op, seen, behind]: where it is, the
               \* operation it was sent for, what it has read of the card and
               \* whether a login has changed the card since
  reroutes,    \* history: changes of the game of a card in use
  rounds,      \* history: rounds that were drawn before such a change
  crossed      \* history: the operation that wrote, before such a change, on
               \* a card which a login had changed since it was read

cardVars == <<total, used, won, scratch, dragon>>
envVars  == <<isTest, game, reroutes>>
history  == <<rounds, crossed>>
vars == <<isTest, game, total, used, won, scratch, dragon, rows, req, rounds,
          reroutes, crossed>>

Games == {"slot", "scratch", "dragon"}
Ops == {"spin", "start", "reveal", "cashout", "reset", "launch", "fish", "peel"}

\* The operations whose handler looks at the game before it looks at the card.
GameFirst == {"reveal", "cashout"}

\* isSpinDollarTier, isScratchDollarTier, isDragonBoatDollarTier.
Eligible(o) ==
  \/ o = "spin" /\ game = "slot"
  \/ o \in {"start", "reveal", "cashout"} /\ game = "scratch"
  \/ o \in {"launch", "fish", "peel"} /\ game = "dragon"
  \/ o = "reset"

NoScratch == [status |-> "none", safe |-> 0]
NewScratch == [status |-> "playing", safe |-> 0]
NoDragon == [made |-> FALSE, fished |-> 0, caught |-> 0, peeled |-> 0]
NewDragon == [NoDragon EXCEPT !.made = TRUE]

Card == [total |-> total, used |-> used, won |-> won, scratch |-> scratch,
         dragon |-> dragon]
NoCard == [total |-> 0, used |-> 0, won |-> 0, scratch |-> NoScratch,
           dragon |-> NoDragon]

Idle == [at |-> "idle", op |-> "none", seen |-> NoCard, behind |-> FALSE]

\* The requests that hold the card's lock.
Inside == {r \in Reqs : req[r].at # "idle"}

-----------------------------------------------------------------------------
(* credit_queue.                                                           *)
Active(row) == row.status \in {"pending", "done"}
HasActiveRow == \E i \in DOMAIN rows : Active(rows[i])

\* Seeded fault: an active row is not looked for.
Enqueue_Always(prize) ==
  rows' = Append(rows, [prize |-> prize, status |-> "pending"])

\* enqueueCreditWith: at most one row of a card is pending or done.
Enqueue(prize) ==
  rows' = IF HasActiveRow THEN rows
          ELSE Append(rows, [prize |-> prize, status |-> "pending"])

-----------------------------------------------------------------------------
Init ==
  /\ isTest \in BOOLEAN /\ game \in Games
  /\ total = 0 /\ used = 0 /\ won = 0
  /\ scratch = NoScratch /\ dragon = NoDragon
  /\ rows = <<>>
  /\ req = [r \in Reqs |-> Idle]
  /\ rounds = 0 /\ reroutes = 0 /\ crossed = "none"

(* withCardLock: one request of the card at a time.                        *)
\* Seeded fault: the lock is not taken.
Enter_NoLock(r, o) ==
  /\ req[r].at = "idle"
  /\ req' = [req EXCEPT ![r] = [Idle EXCEPT !.at = "entered", !.op = o]]
  /\ UNCHANGED <<envVars, cardVars, rows, history>>

Enter(r, o) ==
  /\ Inside = {}
  /\ req' = [req EXCEPT ![r] = [Idle EXCEPT !.at = "entered", !.op = o]]
  /\ UNCHANGED <<envVars, cardVars, rows, history>>

(* lookupCard and the test of its tier.  The configuration is read after   *)
(* the row and nothing of it is used but the tier, so the two are one step.*)
LookCard(r) ==
  LET q == req[r] IN
  /\ q.at = IF q.op \in GameFirst THEN "half" ELSE "entered"
  /\ total > 0 /\ Eligible(q.op)
  /\ req' = [req EXCEPT ![r].at = IF q.op \in GameFirst \cup {"spin"}
                                  THEN "read" ELSE "half",
                        ![r].seen.total = total, ![r].seen.used = used,
                        ![r].seen.won = won]
  /\ UNCHANGED <<envVars, cardVars, rows, history>>

(* lookupScratch, lookupDragonBoat.  Launching and fishing insert the row  *)
(* of a dragon-boat game that does not exist.                              *)
LookGame(r) ==
  LET q == req[r] IN
  /\ q.op # "spin" /\ q.at = IF q.op \in GameFirst THEN "entered" ELSE "half"
  /\ q.op \in GameFirst => scratch.status = "playing"
  /\ dragon' = IF q.op \in {"launch", "fish"} /\ ~dragon.made
               THEN NewDragon ELSE dragon
  /\ req' = [req EXCEPT ![r].at = IF q.op \in GameFirst THEN "half" ELSE "read",
                        ![r].seen.scratch = scratch, ![r].seen.dragon = dragon']
  /\ UNCHANGED <<envVars, total, used, won, scratch, rows, history>>

(* The request ends without a further write: it was refused, the draw said *)
(* "once more", the game of a repeated start is shown again, an error      *)
(* rolled the transaction back, or the process stopped.                    *)
Leave(r) ==
  /\ req[r].at # "idle"
  /\ req' = [req EXCEPT ![r] = Idle]
  /\ UNCHANGED <<envVars, cardVars, rows, history>>

\* The request's transaction commits and it releases the lock.
Commits(r, o) ==
  /\ req[r].at = "read" /\ req[r].op = o
  /\ req' = [req EXCEPT ![r] = Idle]
  /\ UNCHANGED envVars

\* History, kept until the game of a card in use is changed: a round is drawn; a decision is
\* written on a card that has changed.
Drawn == rounds' = IF reroutes = 0 THEN rounds + 1 ELSE rounds
Crossing(r) == crossed' = IF reroutes = 0 /\ req[r].behind THEN req[r].op ELSE crossed

(* recordSpinResult: the credit decision is made on the card as read.      *)
\* Seeded fault: the prize of the last round is not part of the credit.
SpinRow_WithoutLastPrize(s, prize) ==
  IF s.total - s.used - 1 <= 0 /\ s.won > 0
  THEN Enqueue(s.won) ELSE UNCHANGED rows

SpinRow(s, prize) ==
  IF s.total - s.used - 1 <= 0 /\ s.won + prize > 0
  THEN Enqueue(s.won + prize) ELSE UNCHANGED rows

Spin(r, prize) ==
  /\ Commits(r, "spin")
  /\ req[r].seen.total - req[r].seen.used > 0
  /\ used' = used + 1 /\ won' = won + prize
  /\ SpinRow(req[r].seen, prize)
  /\ Drawn /\ Crossing(r)
  /\ UNCHANGED <<total, scratch, dragon>>

(* handleScratchStart: a first game, or the next one of a card with rounds *)
(* left.                                                                   *)
ScratchStart(r) ==
  /\ Commits(r, "start")
  /\ req[r].seen.scratch.status # "playing"
  /\ req[r].seen.used < req[r].seen.total
  /\ scratch' = NewScratch
  /\ UNCHANGED <<total, used, won, dragon, rows, history>>

\* An UPDATE of the game's row, which a login may have deleted meanwhile.
PutScratch(status, safe) ==
  scratch' = IF scratch.status = "none" THEN scratch
             ELSE [status |-> status, safe |-> safe]

(* finishScratchRound: the card is read again in the transaction.          *)
\* Seeded fault: the totals of the first look at the card are used.
FinishScratch_Stale(r, prize, safe) ==
  /\ PutScratch("over", safe)
  /\ used' = used + 1 /\ won' = won + prize
  /\ IF req[r].seen.used + 1 >= req[r].seen.total /\ won + prize > 0
     THEN Enqueue(won + prize) ELSE UNCHANGED rows
  /\ Drawn /\ Crossing(r)
  /\ UNCHANGED <<total, dragon>>

FinishScratch(r, prize, safe) ==
  /\ PutScratch("over", safe)
  /\ used' = used + 1 /\ won' = won + prize
  /\ IF used + 1 >= total /\ won + prize > 0
     THEN Enqueue(won + prize) ELSE UNCHANGED rows
  /\ Drawn /\ Crossing(r)
  /\ UNCHANGED <<total, dragon>>

(* handleScratchReveal and handleScratchCashout on the game as read.  More *)
(* revealed cells than the limit allows now make it invalid.               *)
Playing(s, limit) ==
  /\ s.scratch.status = "playing" /\ s.scratch.safe <= limit

RevealMine(r, limit) ==
  /\ Commits(r, "reveal") /\ Playing(req[r].seen, limit)
  /\ FinishScratch(r, 0, req[r].seen.scratch.safe)

\* There is no prize for more cells than the limit.
RevealSafe(r, prize, limit) ==
  LET n == req[r].seen.scratch.safe + 1 IN
  /\ Commits(r, "reveal") /\ Playing(req[r].seen, limit)
  /\ \/ n < limit /\ PutScratch("playing", n)
        /\ UNCHANGED <<total, used, won, dragon, rows, history>>
     \/ n = limit /\ FinishScratch(r, prize, n)

Cashout(r, prize, limit) ==
  /\ Commits(r, "cashout") /\ Playing(req[r].seen, limit)
  /\ req[r].seen.scratch.safe > 0
  /\ FinishScratch(r, prize, req[r].seen.scratch.safe)

Archived(row) ==
  IF row.status = "done" THEN [row EXCEPT !.status = "archived"] ELSE row

(* handleScratchReset, for test cards of any game: done rows no longer     *)
(* count, the rounds start again.                                          *)
Reset(r) ==
  /\ Commits(r, "reset") /\ isTest /\ Len(rows) < MaxRows
  /\ req[r].seen.scratch.status # "playing"
  /\ rows' = [i \in DOMAIN rows |-> Archived(rows[i])]
  /\ scratch' = NoScratch /\ used' = 0 /\ won' = 0
  /\ rounds' = 0 /\ crossed' = "none"
  /\ UNCHANGED <<total, dragon>>

\* An UPDATE of the dragon-boat row, which a login may have deleted.
PutDragon(d) == dragon' = IF dragon.made THEN d ELSE dragon

(* handleDragonBoatFish: used_spins is set to the casts of the game.       *)
Fish(r, hit) ==
  LET d == req[r].seen.dragon
      caught == IF hit THEN d.caught + 1 ELSE d.caught IN
  /\ Commits(r, "fish")
  /\ d.fished < req[r].seen.total
  /\ PutDragon([d EXCEPT !.fished = @ + 1, !.caught = caught])
  /\ used' = d.fished + 1
  /\ Drawn /\ Crossing(r)
  /\ UNCHANGED <<total, won, scratch, rows>>

(* finishDragonBoatPeel: the last open catch queues what the card won.     *)
\* Seeded fault: catches that are not peeled yet are ignored.
PeelRow_ByCasts(s, prize) ==
  IF s.dragon.fished >= s.total /\ s.won + prize > 0
  THEN Enqueue(s.won + prize) ELSE UNCHANGED rows

PeelRow(s, prize) ==
  IF /\ s.dragon.fished >= s.total
     /\ s.dragon.peeled + 1 >= s.dragon.caught
     /\ s.won + prize > 0
  THEN Enqueue(s.won + prize) ELSE UNCHANGED rows

Peel(r, prize) ==
  LET d == req[r].seen.dragon IN
  /\ Commits(r, "peel")
  /\ d.made /\ d.peeled < d.caught
  /\ PutDragon([d EXCEPT !.peeled = @ + 1])
  /\ used' = d.fished /\ won' = won + prize
  /\ PeelRow(req[r].seen, prize)
  /\ Crossing(r)
  /\ UNCHANGED <<total, scratch, rounds>>

-----------------------------------------------------------------------------
(* What happens without the lock.                                          *)

\* The first login of the card inserts its row (insertLoginCard).
Login(n) ==
  /\ total = 0
  /\ total' = n
  /\ UNCHANGED <<envVars, used, won, scratch, dragon, rows, req, history>>

\* Requests that have read a row are behind a change of the card.
FallBehind ==
  req' = [r \in Reqs |-> [req[r] EXCEPT !.behind = @ \/ req[r].at \in {"half", "read"}]]

\* Seeded fault: whether the card is unused is not asked.
Sync_EvenPlayed(n, g) ==
  /\ total # 0
  /\ total' = n /\ game' = g /\ scratch' = NoScratch /\ dragon' = NoDragon
  /\ FallBehind
  /\ UNCHANGED <<isTest, reroutes, used, won, rows, history>>

(* syncUnusedSubscriptionCardPlan: a login moves an unused card to the     *)
(* present tier of its subscription, with the draws and the game of that   *)
(* tier, and deletes its games, whatever requests are under way.           *)
Sync(n, g) ==
  /\ total # 0 /\ used = 0 /\ won = 0
  /\ total' = n /\ game' = g /\ scratch' = NoScratch /\ dragon' = NoDragon
  /\ FallBehind
  /\ UNCHANGED <<isTest, reroutes, used, won, rows, history>>

\* A card nobody has played, nor plays.
Fresh == used = 0 /\ won = 0 /\ scratch = NoScratch /\ dragon = NoDragon
Untouched == Fresh /\ Inside = {}

(* The operator gives the card's tier another game, at any time: the       *)
(* handlers ask for it at every request.                                   *)
Reroute(g) ==
  /\ g # game /\ game' = g
  /\ reroutes' = reroutes + IF Untouched THEN 0 ELSE 1
  /\ reroutes' <= MaxReroutes
  /\ rounds' = 0 /\ crossed' = "none"
  /\ UNCHANGED <<isTest, cardVars, rows, req>>

\* The credit worker closes a pending row.
Settle(i, status) ==
  /\ rows[i].status = "pending"
  /\ rows' = [rows EXCEPT ![i].status = status]
  /\ UNCHANGED <<envVars, cardVars, req, history>>

-----------------------------------------------------------------------------
Handler(r) ==
  \/ \E o \in Ops : Enter(r, o)
  \/ LookCard(r) \/ LookGame(r) \/ Leave(r)
  \/ ScratchStart(r) \/ Reset(r)
  \/ \E limit \in RevealLimits :
       \/ RevealMine(r, limit)
       \/ \E prize \in Prizes : RevealSafe(r, prize, limit) \/ Cashout(r, prize, limit)
  \/ \E prize \in Prizes : Spin(r, prize) \/ Peel(r, prize)
  \/ \E hit \in BOOLEAN : Fish(r, hit)

Others ==
  \/ \E n \in Totals : Login(n) \/ \E g \in Games : Sync(n, g)
  \/ \E g \in Games : Reroute(g)
  \/ \E i \in DOMAIN rows : \E status \in {"done", "failed"} : Settle(i, status)

Next == (\E r \in Reqs : Handler(r)) \/ Others

Spec == Init /\ [][Next]_vars

-----------------------------------------------------------------------------
(* Properties.                                                             *)

ScratchType == [status : {"none", "playing", "over"}, safe : Nat]
DragonType == [made : BOOLEAN, fished : Nat, caught : Nat, peeled : Nat]
CardType == [total : Nat, used : Nat, won : Nat, scratch : ScratchType,
             dragon : DragonType]
ReqType == [at : {"idle", "entered", "half", "read"}, op : Ops \cup {"none"},
            seen : CardType, behind : BOOLEAN]
RowType == [prize : Nat, status : {"pending", "done", "failed", "archived"}]

\* Every variable keeps its type.
TypeOK ==
  /\ isTest \in BOOLEAN /\ game \in Games
  /\ total \in Nat /\ used \in Nat /\ won \in Nat
  /\ scratch \in ScratchType /\ dragon \in DragonType
  /\ rows \in Seq(RowType)
  /\ req \in [Reqs -> ReqType]
  /\ rounds \in Nat /\ reroutes \in Nat /\ crossed \in Ops \cup {"none"}

\* The decisions about the card's queue row were made on the card as it is: the operator
\* gave a card in use no other game, and no login changed the card between the reading and
\* the writing of a request that decides on what it has read (a slot round or a peeling, or
\* a scratch round that ends on a card which is a dragon-boat card by then).
Undisturbed ==
  /\ reroutes = 0
  /\ crossed \notin {"spin", "peel"}
  /\ crossed \in GameFirst => game # "dragon"

(* Whatever requests arrive at once and whatever logins and the operator   *)
(* change meanwhile, a dragon-boat game never peels more than it caught,   *)
(* catches more than it cast or casts more often than its card allows.     *)
(* While its game stays, a card draws no more rounds than its tier gives;  *)
(* one more if a login made a dragon-boat card of it during its first      *)
(* round.  (Of test cards, which staff reset: if no login crossed them.)   *)
RoundsBounded ==
  /\ dragon.peeled <= dragon.caught /\ dragon.caught <= dragon.fished
  /\ dragon.fished <= total
  /\ reroutes = 0 /\ (isTest => crossed = "none") =>
       /\ used <= total
       /\ rounds <= total + IF crossed # "none" /\ game = "dragon" THEN 1 ELSE 0

(* credit_queue never holds two rows of a card that may still pay or have  *)
(* paid (what the unique index credit_queue_active_card_key_idx enforces). *)
OneActiveRow ==
  \A i, j \in DOMAIN rows : Active(rows[i]) /\ Active(rows[j]) => i = j

(* A row queued for a customer's card never carries more than the card has *)
(* won, and carries all of it, the last round's prize included, unless a   *)
(* login or a change of the game got between the reading and the writing   *)
(* of a round.                                                             *)
QueuedIsWon ==
  ~isTest => \A i \in DOMAIN rows :
    rows[i].prize <= won /\ (Undisturbed => rows[i].prize = won)

(* Once a card has played all its rounds and won something, its credit has *)
(* been queued: no interleaving of handlers loses the winnings, nor do     *)
(* logins that change a scratch card between the steps of a handler, which *)
(* reads the card again as it writes (finishScratchRound).  Logins within  *)
(* a slot round or a peeling and changes of the game may (Undisturbed).    *)
(* (Slot and scratch cards; DragonFinishedIsQueued is the third game.)     *)
FinishedIsQueued ==
  Undisturbed /\ game # "dragon" /\ total > 0 /\ used >= total /\ won > 0
    => \E i \in DOMAIN rows : rows[i].status \in {"pending", "done", "failed"}

(* After a customer's card was queued for payment neither a request still  *)
(* under way nor a login changes its rounds or its winnings again, unless  *)
(* a login or a change of the game got between the reading and the writing *)
(* of an earlier round.                                                    *)
FrozenStep ==
  ~isTest /\ rows # <<>> /\ Undisturbed => UNCHANGED <<total, used, won>>
FrozenOnceQueued == [][FrozenStep]_vars

(* The test TestDragonBoatPeelRecordsPrizeAndQueuesAfterAllFishingIsResolved*)
(* (dragonboat_test.go:215) has the winnings queued once all casts are     *)
(* used and every catch is peeled.                                         *)
DragonFinishedIsQueued ==
  (/\ reroutes = 0 /\ crossed = "none"
   /\ game = "dragon" /\ total > 0 /\ won > 0
   /\ dragon.fished >= total /\ dragon.peeled >= dragon.caught)
    => \E i \in DOMAIN rows : rows[i].status \in {"pending", "done", "failed"}

-----------------------------------------------------------------------------
(* The inductive invariant behind the properties above.                    *)

LockInv == \A q, r \in Inside : q = r

\* What a request has read.
SawCard(q) == q.at = "read" \/ (q.at = "half" /\ q.op \notin GameFirst)
SawGame(q) == (q.at = "read" /\ q.op # "spin") \/ (q.at = "half" /\ q.op \in GameFirst)

\* A request knows the rounds and winnings of the card, and all of it if no login changed
\* the card since; a card that a login changed is unused.
SeenInv ==
  \A r \in Reqs :
    LET q == req[r] IN
    /\ SawCard(q) =>
         /\ total > 0 /\ q.seen.total > 0 /\ q.seen.used = used /\ q.seen.won = won
         /\ ~q.behind => q.seen.total = total /\ (reroutes = 0 => Eligible(q.op))
    /\ SawGame(q) =>
         /\ q.seen.scratch = scratch \/ (q.behind /\ scratch = NoScratch)
         /\ q.seen.dragon = dragon \/ (q.behind /\ dragon = NoDragon)
         /\ q.seen.dragon.peeled <= q.seen.dragon.caught
         /\ q.seen.dragon.caught <= q.seen.dragon.fished
         /\ ~isTest /\ used = 0 => q.seen.dragon.fished = 0
         /\ q.op = "fish" => q.seen.dragon.made
    /\ q.behind =>
         /\ q.at \in {"half", "read"} /\ total > 0 /\ used = 0 /\ won = 0
         /\ scratch = NoScratch /\ dragon \in {NoDragon, NewDragon}

\* Rounds, winnings and games of a card belong together.
GameInv ==
  /\ total = 0 => Fresh /\ rows = <<>>
  /\ ~dragon.made => dragon = NoDragon
  /\ used = 0 => rounds = 0 /\ crossed = "none"
  /\ ~isTest /\ used = 0 => won = 0 /\ rows = <<>> /\ dragon.fished = 0
  /\ reroutes = 0 /\ game = "scratch" /\ scratch.status = "playing" => used < total

\* The rounds drawn are those the card counts; a dragon-boat card counts its casts.
CountInv ==
  reroutes = 0 /\ (isTest => crossed = "none") =>
    /\ game # "dragon" => rounds = used
    /\ game = "dragon" =>
         /\ rounds <= dragon.fished + IF crossed # "none" THEN 1 ELSE 0
         /\ \/ used = dragon.fished \/ (isTest /\ used = 0)
            \/ crossed # "none" /\ dragon.fished = 0 /\ used = 1

QueueInv ==
  ~isTest /\ Undisturbed /\ rows # <<>> =>
    /\ total > 0 /\ used = total
    /\ game = "dragon" => dragon.fished = total /\ dragon.peeled = dragon.caught

CardInv ==
  /\ LockInv /\ SeenInv /\ GameInv /\ CountInv /\ QueueInv
  /\ RoundsBounded /\ OneActiveRow /\ QueuedIsWon /\ FinishedIsQueued
=============================================================================
