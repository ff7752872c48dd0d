----------------------------- MODULE PlayProofs -----------------------------
(***************************************************************************)
(* Theorems about the play of a card, the ledgers of the prizes and the    *)
(* limiters at the doors, for any number of requests, rounds, prizes,      *)
(* subscriptions, configurations and clients' attempts.                    *)
(*                                                                         *)
(* CardInv, LedgerInv and DoorInv are inductive.                           *)
(***************************************************************************)
EXTENDS PlayParts, FiniteSetTheorems, FunctionTheorems, TLAPS

-----------------------------------------------------------------------------
(* Lemmas about the queue.                                                 *)

LEMMA EnqueueEffect ==
  ASSUME NEW prize \in Nat, rows \in Seq(RowType), OneActiveRow, Enqueue(prize)
  PROVE  /\ rows' \in Seq(RowType) /\ OneActiveRow'
         /\ rows' # <<>>
         /\ \E i \in DOMAIN rows' : Active(rows'[i])
         /\ rows = <<>> => \A i \in DOMAIN rows' : rows'[i].prize = prize
         /\ \A i \in DOMAIN rows' :
              rows'[i].prize = prize \/ (i \in DOMAIN rows /\ rows'[i] = rows[i])
<1> DEFINE row == [prize |-> prize, status |-> "pending"]
<1>1. row \in RowType /\ Active(row) /\ row.prize = prize BY DEF RowType, Active
<1>2. CASE HasActiveRow
  BY <1>2 DEF Enqueue, HasActiveRow, OneActiveRow
<1>3. CASE ~HasActiveRow
  <2>1. rows' = Append(rows, row) BY <1>3 DEF Enqueue
  <2>2. /\ rows' \in Seq(RowType) /\ Len(rows') = Len(rows) + 1
        /\ \A i \in 1..Len(rows) : rows'[i] = rows[i]
        /\ rows'[Len(rows) + 1] = row
        /\ DOMAIN rows' = 1..(Len(rows) + 1) /\ DOMAIN rows = 1..Len(rows)
    BY <1>1, <2>1
  <2> HIDE DEF row
  <2>3. \A i \in DOMAIN rows' : Active(rows'[i]) => i = Len(rows) + 1
    BY <1>3, <2>2 DEF HasActiveRow
  <2>4. OneActiveRow' BY <2>3 DEF OneActiveRow, Active
  <2>5. rows = <<>> => Len(rows) = 0 OBVIOUS
  <2> QED BY <1>1, <2>2, <2>4, <2>5
<1> QED BY <1>2, <1>3

LEMMA PrizesQueued ==
  ASSUME rows \in Seq(RowType)
  PROVE  \A i \in DOMAIN rows : rows[i].prize \in Nat
<1>1. \A i \in DOMAIN rows : rows[i] \in RowType OBVIOUS
<1> QED BY <1>1 DEF RowType

-----------------------------------------------------------------------------
(* What a request knows.                                                   *)

\* A request that is about to write knows the rounds and winnings of the card.
LEMMA Believed ==
  ASSUME TypeOK, CardInv, NEW r \in Reqs, req[r].at = "read"
  PROVE  /\ req[r].seen \in CardType /\ req[r].behind \in BOOLEAN
         /\ total > 0 /\ req[r].seen.total > 0
         /\ req[r].seen.used = used /\ req[r].seen.won = won
         /\ ~req[r].behind => /\ req[r].seen.total = total
                              /\ reroutes = 0 => Eligible(req[r].op)
         /\ req[r].behind => /\ used = 0 /\ won = 0 /\ rounds = 0 /\ crossed = "none"
                             /\ scratch = NoScratch /\ dragon \in {NoDragon, NewDragon}
<1>1. req[r] \in ReqType BY DEF TypeOK
<1>2. SawCard(req[r]) BY DEF SawCard
<1> QED BY <1>1, <1>2 DEF ReqType, CardInv, SeenInv, GameInv

\* It knows the game it plays.
LEMMA GameBelieved ==
  ASSUME TypeOK, CardInv, NEW r \in Reqs, req[r].at = "read", req[r].op # "spin"
  PROVE  /\ req[r].seen.scratch = scratch \/ (req[r].behind /\ scratch = NoScratch)
         /\ req[r].seen.dragon = dragon \/ (req[r].behind /\ dragon = NoDragon)
         /\ req[r].seen.dragon.peeled <= req[r].seen.dragon.caught
         /\ req[r].seen.dragon.caught <= req[r].seen.dragon.fished
         /\ ~isTest /\ used = 0 => req[r].seen.dragon.fished = 0
         /\ req[r].op = "fish" => req[r].seen.dragon.made
<1>1. SawGame(req[r]) BY DEF SawGame
<1> QED BY <1>1 DEF CardInv, SeenInv

\* When a request commits, nobody is inside afterwards.
LEMMA CommitEnds ==
  ASSUME TypeOK, LockInv, SeenInv, NEW r \in Reqs,
         req[r].at # "idle", req' = [req EXCEPT ![r] = Idle]
  PROVE  req' \in [Reqs -> ReqType] /\ LockInv' /\ SeenInv'
<1>1. Idle \in ReqType /\ Idle.at = "idle" /\ ~Idle.behind
  BY DEF Idle, ReqType, Ops, NoCard, CardType, NoScratch, NoDragon, ScratchType, DragonType
<1>2. req' \in [Reqs -> ReqType] BY <1>1 DEF TypeOK
<1>3. \A q \in Reqs : req'[q] = Idle \/ (req'[q] = req[q] /\ req[q].at = "idle")
  BY DEF TypeOK, LockInv, Inside
<1>4. \A q \in Reqs : req'[q].at = "idle" BY <1>1, <1>3
<1>5. SeenInv'
  <2> SUFFICES ASSUME NEW q \in Reqs
               PROVE  /\ ~SawCard(req'[q]) /\ ~SawGame(req'[q])
                      /\ ~req'[q].behind
    BY DEF SeenInv
  <2> QED BY <1>1, <1>3, <1>4 DEF SawCard, SawGame, SeenInv
<1> QED BY <1>2, <1>4, <1>5 DEF LockInv, Inside

-----------------------------------------------------------------------------
(* What holds of the card and its queue, requests left aside.              *)

CardTypes ==
  /\ isTest \in BOOLEAN /\ game \in Games
  /\ total \in Nat /\ used \in Nat /\ won \in Nat
  /\ scratch \in ScratchType /\ dragon \in DragonType
  /\ rows \in Seq(RowType)
  /\ rounds \in Nat /\ reroutes \in Nat /\ crossed \in Ops \cup {"none"}

PlayInv ==
  /\ GameInv /\ CountInv /\ QueueInv
  /\ RoundsBounded /\ OneActiveRow /\ QueuedIsWon /\ FinishedIsQueued

LEMMA StateParts ==
  /\ TypeOK <=> CardTypes /\ req \in [Reqs -> ReqType]
  /\ CardInv <=> LockInv /\ SeenInv /\ PlayInv
BY DEF TypeOK, CardTypes, CardInv, PlayInv

\* What a request that writes does to the history.
LEMMA Crosses ==
  ASSUME TypeOK, CardInv, NEW r \in Reqs, req[r].at = "read", req[r].op # "none",
         Crossing(r), UNCHANGED <<reroutes, game>>
  PROVE  /\ crossed' \in Ops \cup {"none"}
         /\ req[r].behind /\ reroutes = 0 => crossed' = req[r].op /\ crossed' # "none"
         /\ ~req[r].behind => crossed' = crossed
         /\ Undisturbed' => Undisturbed /\ reroutes = 0
         /\ Undisturbed' /\ req[r].behind =>
              req[r].op \notin {"spin", "peel"} /\ (req[r].op \in GameFirst => game # "dragon")
         /\ reroutes = 0 /\ isTest /\ crossed' = "none" => crossed = "none" /\ ~req[r].behind
<1>1. req[r].op \in Ops \cup {"none"} /\ crossed \in Ops \cup {"none"}
  BY DEF TypeOK, ReqType
<1>2. req[r].behind => crossed = "none" BY Believed
<1> QED BY <1>1, <1>2 DEF Crossing, Undisturbed, GameFirst

\* A card in its first rounds has nothing queued.
LEMMA OpenIsUnqueued ==
  ASSUME CardTypes, PlayInv, ~isTest, Undisturbed, used < total
  PROVE  rows = <<>>
BY DEF CardTypes, PlayInv, QueueInv

\* A slot or scratch round: b, whether a login changed the card since it was read; c, whether
\* its winnings are queued.
LEMMA RoundStep ==
  ASSUME CardTypes, PlayInv, NEW prize \in Nat, NEW b \in BOOLEAN, NEW c \in BOOLEAN,
         total > 0, scratch' \in ScratchType,
         reroutes = 0 => used < total,
         reroutes = 0 /\ ~b => game # "dragon",
         reroutes = 0 /\ game = "scratch" => scratch'.status # "playing",
         b => used = 0 /\ rounds = 0 /\ dragon.fished = 0,
         crossed' \in Ops \cup {"none"},
         b /\ reroutes = 0 => crossed' # "none",
         reroutes = 0 /\ isTest /\ crossed' = "none" => crossed = "none",
         Undisturbed' => Undisturbed /\ reroutes = 0,
         Undisturbed' /\ b => game # "dragon",
         Undisturbed' => (c <=> used + 1 >= total /\ won + prize > 0),
         IF c THEN Enqueue(won + prize) ELSE UNCHANGED rows,
         UNCHANGED <<isTest, game, total, dragon, reroutes>>,
         used' = used + 1, won' = won + prize, Drawn
  PROVE  CardTypes' /\ PlayInv'
<1>1. /\ won + prize \in Nat /\ used + 1 \in Nat /\ rounds' \in Nat
      /\ dragon.fished \in Nat /\ reroutes \in Nat /\ won <= won + prize
  BY DEF CardTypes, Drawn, DragonType
<1>2. GameInv'
  BY <1>1 DEF CardTypes, PlayInv, GameInv
<1>3. reroutes = 0 => rounds' = rounds + 1 BY DEF Drawn
<1>4. CountInv'
  <2> SUFFICES ASSUME reroutes = 0, isTest => crossed' = "none"
               PROVE  /\ game # "dragon" => rounds' = used'
                      /\ game = "dragon" => /\ b /\ rounds' = 1 /\ used' = 1
                                            /\ crossed' # "none" /\ dragon.fished = 0
    BY <1>1 DEF CountInv
  <2>1. game # "dragon" => rounds = used BY DEF PlayInv, CountInv
  <2>2. game = "dragon" => b OBVIOUS
  <2> QED BY <1>3, <2>1, <2>2
<1>5. RoundsBounded'
  <2>1. /\ dragon.peeled <= dragon.caught /\ dragon.caught <= dragon.fished
        /\ dragon.fished <= total
    BY DEF PlayInv, RoundsBounded
  <2>2. ASSUME reroutes = 0, isTest => crossed' = "none"
        PROVE  /\ used' <= total
               /\ rounds' <= total + IF crossed' # "none" /\ game = "dragon" THEN 1 ELSE 0
    <3>1. used' <= total BY <2>2 DEF CardTypes
    <3>2. CASE game # "dragon"
      <4>1. rounds' = used' BY <1>4, <2>2, <3>2 DEF CountInv
      <4>2. used' \in Nat /\ total \in Nat BY <1>1 DEF CardTypes
      <4> QED BY <3>1, <3>2, <4>1, <4>2
    <3>3. CASE game = "dragon"
      <4>1. b /\ crossed' # "none" /\ rounds' = 1 BY <1>3, <2>2, <3>3
      <4> QED BY <3>1, <3>3, <4>1 DEF CardTypes
    <3> QED BY <3>2, <3>3
  <2> QED BY <2>1, <2>2 DEF RoundsBounded
<1>6. ~isTest /\ Undisturbed' => rows = <<>> BY OpenIsUnqueued
<1>7. CASE c
  <2>1. /\ rows' \in Seq(RowType) /\ OneActiveRow'
        /\ \E i \in DOMAIN rows' : Active(rows'[i])
        /\ rows = <<>> => \A i \in DOMAIN rows' : rows'[i].prize = won + prize
        /\ \A i \in DOMAIN rows' :
             rows'[i].prize = won + prize \/ (i \in DOMAIN rows /\ rows'[i] = rows[i])
    BY <1>1, <1>7, EnqueueEffect DEF CardTypes, PlayInv
  <2>2. CardTypes' BY <1>1, <2>1 DEF CardTypes
  <2>3. FinishedIsQueued' BY <2>1 DEF FinishedIsQueued, Active
  <2>4. QueuedIsWon'
    <3>1. ~isTest => \A i \in DOMAIN rows : rows[i].prize <= won
      BY DEF PlayInv, QueuedIsWon
    <3>2. \A i \in DOMAIN rows : rows[i].prize \in Nat BY PrizesQueued DEF CardTypes
    <3>3. ~isTest => \A i \in DOMAIN rows' : rows'[i].prize <= won + prize
      BY <1>1, <2>1, <3>1, <3>2 DEF CardTypes
    <3> QED BY <1>6, <2>1, <3>3 DEF QueuedIsWon
  <2>5. QueueInv'
    <3> SUFFICES ASSUME ~isTest, Undisturbed'
                 PROVE  used + 1 = total /\ game # "dragon"
      BY DEF QueueInv
    <3>1. used < total /\ used + 1 >= total BY <1>7
    <3> QED BY <3>1 DEF CardTypes
  <2> QED BY <1>2, <1>4, <1>5, <2>1, <2>2, <2>3, <2>4, <2>5 DEF PlayInv
<1>8. CASE ~c
  <2>1. rows' = rows BY <1>8
  <2>2. CardTypes' BY <1>1, <2>1 DEF CardTypes
  <2>3. OneActiveRow' BY <2>1 DEF PlayInv, OneActiveRow
  <2>4. FinishedIsQueued' BY <1>8 DEF FinishedIsQueued
  <2>5. QueuedIsWon'
    <3>1. ~isTest => \A i \in DOMAIN rows : rows[i].prize <= won
      BY DEF PlayInv, QueuedIsWon
    <3>2. \A i \in DOMAIN rows : rows[i].prize \in Nat BY PrizesQueued DEF CardTypes
    <3>3. ~isTest => \A i \in DOMAIN rows : rows[i].prize <= won + prize
      BY <1>1, <3>1, <3>2 DEF CardTypes
    <3> QED BY <1>6, <2>1, <3>3 DEF QueuedIsWon
  <2>6. QueueInv' BY <1>6, <2>1 DEF QueueInv
  <2> QED BY <1>2, <1>4, <1>5, <2>2, <2>3, <2>4, <2>5, <2>6 DEF PlayInv
<1> QED BY <1>7, <1>8

-----------------------------------------------------------------------------
(* The handlers.                                                           *)

LEMMA SpinStep ==
  ASSUME TypeOK, CardInv, NEW r \in Reqs, NEW prize \in Prizes, Spin(r, prize)
  PROVE  TypeOK' /\ CardInv'
<1> DEFINE s == req[r].seen
           b == req[r].behind
           c == s.total - s.used - 1 <= 0 /\ s.won + prize > 0
<1>1. /\ req[r].at = "read" /\ req[r].op = "spin" /\ s.total - s.used > 0
      /\ UNCHANGED <<isTest, game, reroutes, total, scratch, dragon>>
      /\ used' = used + 1 /\ won' = won + prize /\ Drawn /\ Crossing(r)
      /\ SpinRow(s, prize) /\ req' = [req EXCEPT ![r] = Idle]
  BY DEF Spin, Commits, envVars
<1>2. prize \in Nat BY PrizesAssumption
<1>3. /\ b \in BOOLEAN /\ c \in BOOLEAN /\ total > 0
      /\ s.used = used /\ s.won = won /\ s.total \in Nat
      /\ ~b => s.total = total /\ (reroutes = 0 => game = "slot")
      /\ b => /\ used = 0 /\ rounds = 0 /\ scratch = NoScratch
              /\ dragon \in {NoDragon, NewDragon}
  BY <1>1, Believed DEF Eligible, CardType
<1>4. /\ crossed' \in Ops \cup {"none"}
      /\ b /\ reroutes = 0 => crossed' # "none"
      /\ Undisturbed' => Undisturbed /\ reroutes = 0 /\ ~b
      /\ reroutes = 0 /\ isTest /\ crossed' = "none" => crossed = "none"
  BY <1>1, <1>3, Crosses
<1>5. b => dragon.fished = 0 BY <1>3 DEF NoDragon, NewDragon
<1>6. used < total
  <2>1. CASE b BY <1>3, <2>1
  <2>2. CASE ~b BY <1>1, <1>3, <2>2 DEF TypeOK
  <2> QED BY <2>1, <2>2
<1>7. Undisturbed' => (c <=> used + 1 >= total /\ won + prize > 0)
  BY <1>3, <1>4 DEF TypeOK
<1>8. IF c THEN Enqueue(won + prize) ELSE UNCHANGED rows
  BY <1>1, <1>3 DEF SpinRow
<1>9. reroutes = 0 /\ game = "scratch" => scratch'.status # "playing"
  BY <1>1, <1>3 DEF NoScratch
<1>10. scratch' \in ScratchType BY <1>1 DEF TypeOK
<1>11. reroutes = 0 /\ ~b => game # "dragon" BY <1>3
<1>12. CardTypes /\ PlayInv BY StateParts
<1> HIDE DEF b, c, s
<1>13. CardTypes' /\ PlayInv'
  BY <1>1, <1>2, <1>3, <1>4, <1>5, <1>6, <1>7, <1>8, <1>9, <1>10, <1>11, <1>12, RoundStep
<1>14. req' \in [Reqs -> ReqType] /\ LockInv' /\ SeenInv'
  BY <1>1, CommitEnds DEF CardInv
<1> QED BY <1>13, <1>14, StateParts DEF TypeOK, CardTypes, CardInv, PlayInv

LEMMA ScratchEnd ==
  ASSUME TypeOK, CardInv, NEW r \in Reqs, NEW prize \in Nat, NEW safe \in Nat,
         NEW o \in GameFirst, Commits(r, o), req[r].seen.scratch.status = "playing",
         FinishScratch(r, prize, safe)
  PROVE  TypeOK' /\ CardInv'
<1> DEFINE s == req[r].seen
           b == req[r].behind
           c == used + 1 >= total /\ won + prize > 0
<1>1. /\ req[r].at = "read" /\ req[r].op = o /\ o \in {"reveal", "cashout"}
      /\ UNCHANGED <<isTest, game, reroutes, total, dragon>>
      /\ used' = used + 1 /\ won' = won + prize /\ Drawn /\ Crossing(r)
      /\ req' = [req EXCEPT ![r] = Idle]
      /\ scratch' = (IF scratch.status = "none" THEN scratch
                     ELSE [status |-> "over", safe |-> safe])
  BY DEF Commits, envVars, FinishScratch, PutScratch, GameFirst
<1>2. /\ b \in BOOLEAN /\ c \in BOOLEAN /\ total > 0
      /\ ~b => (reroutes = 0 => game = "scratch")
      /\ b => used = 0 /\ rounds = 0 /\ dragon \in {NoDragon, NewDragon}
  BY <1>1, Believed DEF Eligible
<1>3. /\ crossed' \in Ops \cup {"none"}
      /\ b /\ reroutes = 0 => crossed' # "none"
      /\ Undisturbed' => Undisturbed /\ reroutes = 0
      /\ Undisturbed' /\ b => game # "dragon"
      /\ reroutes = 0 /\ isTest /\ crossed' = "none" => crossed = "none"
  BY <1>1, Crosses DEF GameFirst
<1>4. b => dragon.fished = 0 BY <1>2 DEF NoDragon, NewDragon
<1>5. reroutes = 0 => used < total
  <2>1. CASE b BY <1>2, <2>1
  <2>2. CASE ~b /\ reroutes = 0
    <3>1. scratch.status = "playing" BY <1>1, <2>2, GameBelieved
    <3> QED BY <1>2, <2>2, <3>1 DEF CardInv, GameInv
  <2> QED BY <2>1, <2>2
<1>6. Undisturbed' => (c <=> used + 1 >= total /\ won + prize > 0) OBVIOUS
<1>7. IF c THEN Enqueue(won + prize) ELSE UNCHANGED rows BY DEF FinishScratch
<1>8. scratch' \in ScratchType /\ scratch'.status # "playing"
  BY <1>1 DEF TypeOK, ScratchType
<1>9. CardTypes /\ PlayInv BY StateParts
<1>10. reroutes = 0 /\ ~b => game # "dragon" BY <1>2
<1> HIDE DEF b, c, s
<1>11. CardTypes' /\ PlayInv'
  BY <1>1, <1>2, <1>3, <1>4, <1>5, <1>6, <1>7, <1>8, <1>9, <1>10, RoundStep
<1>12. req' \in [Reqs -> ReqType] /\ LockInv' /\ SeenInv'
  BY <1>1, CommitEnds DEF CardInv
<1> QED BY <1>11, <1>12, StateParts DEF TypeOK, CardTypes, CardInv, PlayInv

\* A step that leaves the rounds, the winnings and the dragon-boat game alone.
LEMMA ScratchOnly ==
  ASSUME CardTypes, PlayInv, total > 0, scratch' \in ScratchType,
         reroutes = 0 /\ game = "scratch" /\ scratch'.status = "playing" => used < total,
         UNCHANGED <<envVars, total, used, won, dragon, rows, history>>
  PROVE  CardTypes' /\ PlayInv'
<1>1. CardTypes' BY DEF CardTypes, envVars, history
<1>2. GameInv' BY DEF PlayInv, GameInv, envVars, history, CardTypes
<1> QED BY <1>1, <1>2 DEF PlayInv, CountInv, QueueInv, RoundsBounded, OneActiveRow, QueuedIsWon,
            FinishedIsQueued, Undisturbed, envVars, history

LEMMA RevealStep ==
  ASSUME TypeOK, CardInv, NEW r \in Reqs, NEW prize \in Prizes, NEW limit \in RevealLimits,
         RevealMine(r, limit) \/ RevealSafe(r, prize, limit) \/ Cashout(r, prize, limit)
  PROVE  TypeOK' /\ CardInv'
<1> DEFINE seen == req[r].seen
           n == seen.scratch.safe + 1
<1>0. seen \in CardType /\ prize \in Nat BY PrizesAssumption DEF TypeOK, ReqType
<1>1. seen.scratch.safe \in Nat /\ n \in Nat BY <1>0 DEF CardType, ScratchType
<1>2. CASE RevealMine(r, limit)
  BY <1>1, <1>2, ScratchEnd DEF RevealMine, Playing, GameFirst
<1>3. CASE Cashout(r, prize, limit)
  BY <1>0, <1>1, <1>3, ScratchEnd DEF Cashout, Playing, GameFirst
<1>4. CASE RevealSafe(r, prize, limit)
  <2>1. Commits(r, "reveal") /\ seen.scratch.status = "playing"
    BY <1>4 DEF RevealSafe, Playing
  <2>2. CASE FinishScratch(r, prize, n)
    BY <1>0, <1>1, <2>1, <2>2, ScratchEnd DEF GameFirst
  <2>3. CASE /\ PutScratch("playing", n)
             /\ UNCHANGED <<total, used, won, dragon, rows, history>>
    <3>1. /\ req[r].at = "read" /\ req[r].op = "reveal" /\ UNCHANGED envVars
          /\ req' = [req EXCEPT ![r] = Idle]
      BY <2>1 DEF Commits
    <3>2. scratch' \in ScratchType
      BY <1>1, <2>3 DEF PutScratch, ScratchType, TypeOK
    <3>3. scratch'.status = "playing" => scratch.status = "playing"
      BY <2>1, <2>3, <3>1, GameBelieved DEF PutScratch, NoScratch
    <3>4. reroutes = 0 /\ game = "scratch" /\ scratch'.status = "playing" => used < total
      BY <3>3 DEF CardInv, GameInv
    <3>5. CardTypes' /\ PlayInv'
      BY <2>3, <3>1, <3>2, <3>4, Believed, StateParts, ScratchOnly
    <3>6. req' \in [Reqs -> ReqType] /\ LockInv' /\ SeenInv'
      BY <3>1, CommitEnds DEF CardInv
    <3> QED BY <3>5, <3>6, StateParts DEF TypeOK, CardTypes, CardInv, PlayInv
  <2> QED BY <1>4, <2>2, <2>3 DEF RevealSafe
<1> QED BY <1>2, <1>3, <1>4

LEMMA ScratchStartStep ==
  ASSUME TypeOK, CardInv, NEW r \in Reqs, ScratchStart(r)
  PROVE  TypeOK' /\ CardInv'
<1>1. /\ req[r].at = "read" /\ req[r].op = "start" /\ req[r].seen.used < req[r].seen.total
      /\ UNCHANGED <<envVars, total, used, won, dragon, rows, history>>
      /\ scratch' = NewScratch /\ req' = [req EXCEPT ![r] = Idle]
  BY DEF ScratchStart, Commits
<1>2. used < total /\ total > 0 BY <1>1, Believed
<1>3. scratch' \in ScratchType BY <1>1 DEF NewScratch, ScratchType
<1>4. CardTypes' /\ PlayInv' BY <1>1, <1>2, <1>3, StateParts, ScratchOnly
<1>5. req' \in [Reqs -> ReqType] /\ LockInv' /\ SeenInv'
  BY <1>1, CommitEnds DEF CardInv
<1> QED BY <1>4, <1>5, StateParts DEF TypeOK, CardTypes, CardInv, PlayInv

LEMMA ResetStep ==
  ASSUME TypeOK, CardInv, NEW r \in Reqs, Reset(r)
  PROVE  TypeOK' /\ CardInv'
<1>1. /\ req[r].at = "read" /\ isTest /\ req' = [req EXCEPT ![r] = Idle]
      /\ UNCHANGED <<envVars, total, dragon>>
      /\ scratch' = NoScratch /\ used' = 0 /\ won' = 0
      /\ rounds' = 0 /\ crossed' = "none"
      /\ rows' = [i \in DOMAIN rows |-> Archived(rows[i])]
  BY DEF Reset, Commits
<1>2. \A row \in RowType : Archived(row) \in RowType /\ (Active(Archived(row)) => Active(row))
  BY DEF Archived, RowType, Active
<1>3. DOMAIN rows = 1..Len(rows) /\ \A i \in DOMAIN rows : rows[i] \in RowType
  BY DEF TypeOK
<1>4. rows' \in Seq(RowType) BY <1>1, <1>2, <1>3 DEF TypeOK
<1>5. CardTypes' BY <1>1, <1>4, StateParts DEF CardTypes, envVars, NoScratch, ScratchType
<1>6. OneActiveRow' BY <1>1, <1>2, <1>3, StateParts DEF PlayInv, OneActiveRow
<1>7. total > 0 BY <1>1, Believed
<1>8. GameInv'
  BY <1>1, <1>7, StateParts DEF PlayInv, GameInv, envVars, NoScratch
<1>9. dragon.fished \in Nat /\ total \in Nat BY DEF TypeOK, DragonType
<1>10. CountInv' /\ RoundsBounded'
  BY <1>1, <1>9, StateParts DEF PlayInv, CountInv, RoundsBounded, envVars
<1>11. QueueInv' /\ QueuedIsWon' /\ FinishedIsQueued'
  BY <1>1 DEF QueueInv, QueuedIsWon, FinishedIsQueued, envVars
<1>12. req' \in [Reqs -> ReqType] /\ LockInv' /\ SeenInv'
  BY <1>1, CommitEnds DEF CardInv
<1> QED BY <1>5, <1>6, <1>8, <1>10, <1>11, <1>12, StateParts
        DEF TypeOK, CardTypes, CardInv, PlayInv

LEMMA FishStep ==
  ASSUME TypeOK, CardInv, NEW r \in Reqs, NEW hit \in BOOLEAN, Fish(r, hit)
  PROVE  TypeOK' /\ CardInv'
<1> DEFINE s == req[r].seen
           d == s.dragon
           b == req[r].behind
           caught == IF hit THEN d.caught + 1 ELSE d.caught
<1>1. /\ req[r].at = "read" /\ req[r].op = "fish" /\ d.fished < s.total
      /\ UNCHANGED <<isTest, game, reroutes, total, won, scratch, rows>>
      /\ dragon' = (IF dragon.made THEN [d EXCEPT !.fished = @ + 1, !.caught = caught]
                    ELSE dragon)
      /\ used' = d.fished + 1 /\ Drawn /\ Crossing(r) /\ req' = [req EXCEPT ![r] = Idle]
  BY DEF Fish, Commits, PutDragon, envVars
<1>2. /\ b \in BOOLEAN /\ total > 0 /\ s \in CardType /\ d \in DragonType
      /\ ~b => s.total = total /\ (reroutes = 0 => game = "dragon")
      /\ b => /\ used = 0 /\ won = 0 /\ rounds = 0 /\ crossed = "none"
              /\ scratch = NoScratch /\ dragon \in {NoDragon, NewDragon}
  BY <1>1, Believed DEF Eligible, CardType
<1>3. /\ d = dragon \/ (b /\ dragon = NoDragon)
      /\ d.peeled <= d.caught /\ d.caught <= d.fished /\ d.made
      /\ ~isTest /\ used = 0 => d.fished = 0
  BY <1>1, GameBelieved
<1>4. /\ crossed' \in Ops \cup {"none"}
      /\ b /\ reroutes = 0 => crossed' # "none"
      /\ ~b => crossed' = crossed
      /\ Undisturbed' => Undisturbed /\ reroutes = 0
      /\ reroutes = 0 /\ isTest /\ crossed' = "none" => crossed = "none" /\ ~b
  BY <1>1, Crosses
<1>5. /\ d.fished \in Nat /\ d.caught \in Nat /\ d.peeled \in Nat /\ caught \in Nat
      /\ caught <= d.caught + 1 /\ d.caught <= caught
      /\ dragon.fished \in Nat /\ s.total \in Nat /\ total \in Nat /\ rounds \in Nat
      /\ dragon \in DragonType
  BY <1>2 DEF DragonType, TypeOK, CardType
<1> HIDE DEF caught
<1>6. ASSUME dragon.made
      PROVE  /\ dragon' \in DragonType /\ dragon'.made
             /\ dragon'.fished = d.fished + 1 /\ dragon'.caught = caught
             /\ dragon'.peeled = d.peeled /\ d = dragon
  <2>1. dragon' = [made |-> d.made, fished |-> d.fished + 1, caught |-> caught,
                   peeled |-> d.peeled]
    BY <1>1, <1>2, <1>6 DEF DragonType
  <2>2. d.fished + 1 \in Nat BY <1>5
  <2>3. d = dragon BY <1>3, <1>6 DEF NoDragon
  <2> QED BY <1>3, <1>5, <2>1, <2>2, <2>3 DEF DragonType
<1>7. ~dragon.made => dragon' = dragon /\ b /\ dragon.fished = 0
  BY <1>1, <1>3 DEF NoDragon
<1>8. dragon.made /\ b => d.fished = 0
  BY <1>2, <1>6 DEF NoDragon, NewDragon
<1> HIDE DEF s, d, b
<1>9. dragon' \in DragonType /\ used' \in Nat /\ rounds' \in Nat /\ crossed' \in Ops \cup {"none"}
  BY <1>1, <1>4, <1>5, <1>6, <1>7 DEF Drawn
<1>10. CardTypes' BY <1>1, <1>9, StateParts DEF CardTypes
<1>11. GameInv'
  <2>1. used' # 0 BY <1>1, <1>5
  <2>2. ~dragon'.made => dragon' = NoDragon
    BY <1>6, <1>7, StateParts DEF PlayInv, GameInv
  <2>3. reroutes = 0 /\ game = "scratch" => scratch'.status # "playing"
    BY <1>1, <1>2 DEF NoScratch
  <2> QED BY <1>1, <1>2, <2>1, <2>2, <2>3 DEF GameInv
\* The rounds, when their number is bounded.
<1>12. ASSUME reroutes = 0, isTest => crossed' = "none"
       PROVE  /\ used' <= total
              /\ ~b => /\ game = "dragon" /\ used' = dragon'.fished
                       /\ rounds' <= dragon'.fished + IF crossed' # "none" THEN 1 ELSE 0
              /\ b => /\ rounds' = 1 /\ used' = 1 /\ crossed' # "none"
                      /\ dragon'.fished = 1 \/ dragon'.fished = 0
  <2>1. rounds' = rounds + 1 BY <1>1, <1>12 DEF Drawn
  <2>2. CASE ~b
    <3>1. dragon.made /\ game = "dragon" /\ s.total = total /\ crossed' = crossed
      BY <1>2, <1>4, <1>7, <1>12, <2>2
    <3>2. rounds <= dragon.fished + IF crossed # "none" THEN 1 ELSE 0
      BY <1>4, <1>12, <3>1, StateParts DEF PlayInv, CountInv
    <3>3. dragon'.fished = dragon.fished + 1 BY <1>6, <3>1
    <3> QED BY <1>1, <1>5, <1>6, <2>1, <2>2, <3>1, <3>2, <3>3
  <2>3. CASE b
    <3>1. ~isTest /\ used = 0 /\ rounds = 0 BY <1>2, <1>4, <1>12, <2>3
    <3>2. d.fished = 0 BY <1>3, <3>1
    <3>3. dragon'.fished = 1 \/ dragon'.fished = 0
      BY <1>6, <1>7, <3>2
    <3> QED BY <1>1, <1>2, <1>4, <1>5, <1>12, <2>1, <2>3, <3>1, <3>2, <3>3
  <2> QED BY <2>2, <2>3
<1>13. CountInv'
  <2> SUFFICES ASSUME reroutes = 0, isTest => crossed' = "none"
               PROVE  /\ game # "dragon" => rounds' = used'
                      /\ game = "dragon" =>
                           /\ rounds' <= dragon'.fished + IF crossed' # "none" THEN 1 ELSE 0
                           /\ \/ used' = dragon'.fished
                              \/ crossed' # "none" /\ dragon'.fished = 0 /\ used' = 1
    BY <1>1 DEF CountInv
  <2> QED BY <1>12
<1>14. RoundsBounded'
  <2>1. /\ dragon'.peeled <= dragon'.caught /\ dragon'.caught <= dragon'.fished
        /\ dragon'.fished <= total
    <3>1. CASE dragon.made
      <4>1. d.fished + 1 <= total BY <1>1, <1>2, <1>5, <1>8, <3>1
      <4> QED BY <1>3, <1>5, <1>6, <3>1, <4>1
    <3>2. CASE ~dragon.made
      BY <1>7, <3>2, StateParts DEF PlayInv, RoundsBounded
    <3> QED BY <3>1, <3>2
  <2>2. ASSUME reroutes = 0, isTest => crossed' = "none"
        PROVE  rounds' <= total + IF crossed' # "none" /\ game = "dragon" THEN 1 ELSE 0
    <3>1. dragon'.fished \in Nat BY <1>9 DEF DragonType
    <3>2. CASE b BY <1>2, <1>5, <1>12, <2>2, <3>2
    <3>3. CASE ~b BY <1>5, <1>9, <1>12, <2>1, <2>2, <3>1, <3>3
    <3> QED BY <3>2, <3>3
  <2> QED BY <1>1, <1>12, <2>1, <2>2 DEF RoundsBounded
<1>15. ~isTest /\ Undisturbed' => rows = <<>>
  <2> SUFFICES ASSUME ~isTest, Undisturbed', rows # <<>> PROVE FALSE OBVIOUS
  <2>1. ~b BY <1>2, StateParts DEF PlayInv, GameInv
  <2>2. /\ used = total
        /\ game = "dragon" => dragon.fished = total
    BY <1>4, StateParts DEF PlayInv, QueueInv
  <2> QED BY <1>1, <1>2, <1>3, <1>4, <1>5, <2>1, <2>2
<1>16. QueueInv' BY <1>1, <1>15 DEF QueueInv
<1>17. QueuedIsWon' BY <1>1, <1>4, StateParts DEF PlayInv, QueuedIsWon
<1>18. FinishedIsQueued' BY <1>1, <1>2, <1>4 DEF FinishedIsQueued
<1>19. OneActiveRow' BY <1>1, StateParts DEF PlayInv, OneActiveRow
<1>20. req' \in [Reqs -> ReqType] /\ LockInv' /\ SeenInv'
  BY <1>1, CommitEnds DEF CardInv
<1> QED BY <1>10, <1>11, <1>13, <1>14, <1>16, <1>17, <1>18, <1>19, <1>20, StateParts
        DEF TypeOK, CardTypes, CardInv, PlayInv

LEMMA PeelStep ==
  ASSUME TypeOK, CardInv, NEW r \in Reqs, NEW prize \in Prizes, Peel(r, prize)
  PROVE  TypeOK' /\ CardInv'
<1> DEFINE s == req[r].seen
           d == s.dragon
           b == req[r].behind
           c == d.fished >= s.total /\ d.peeled + 1 >= d.caught /\ s.won + prize > 0
<1>1. /\ req[r].at = "read" /\ req[r].op = "peel" /\ d.made /\ d.peeled < d.caught
      /\ UNCHANGED <<isTest, game, reroutes, total, scratch, rounds>>
      /\ dragon' = (IF dragon.made THEN [d EXCEPT !.peeled = @ + 1] ELSE dragon)
      /\ used' = d.fished /\ won' = won + prize
      /\ Crossing(r) /\ req' = [req EXCEPT ![r] = Idle] /\ PeelRow(s, prize)
  BY DEF Peel, Commits, PutDragon, envVars
<1>2. /\ b \in BOOLEAN /\ c \in BOOLEAN /\ total > 0 /\ s \in CardType /\ d \in DragonType
      /\ s.used = used /\ s.won = won
      /\ ~b => s.total = total /\ (reroutes = 0 => game = "dragon")
      /\ b => used = 0 /\ won = 0 /\ scratch = NoScratch
  BY <1>1, Believed DEF Eligible, CardType
<1>3. /\ d = dragon \/ (b /\ dragon = NoDragon)
      /\ d.peeled <= d.caught /\ d.caught <= d.fished
      /\ ~isTest /\ used = 0 => d.fished = 0
  BY <1>1, GameBelieved
<1>4. /\ crossed' \in Ops \cup {"none"}
      /\ ~b => crossed' = crossed
      /\ Undisturbed' => Undisturbed /\ reroutes = 0 /\ ~b
      /\ reroutes = 0 /\ isTest /\ crossed' = "none" => crossed = "none" /\ ~b
  BY <1>1, Crosses
<1>5. /\ d.fished \in Nat /\ d.caught \in Nat /\ d.peeled \in Nat
      /\ dragon.fished \in Nat /\ total \in Nat /\ rounds \in Nat
      /\ prize \in Nat /\ won \in Nat /\ won + prize \in Nat /\ won <= won + prize
      /\ dragon \in DragonType /\ d.fished > 0
  <2>1. /\ d.fished \in Nat /\ d.caught \in Nat /\ d.peeled \in Nat
        /\ dragon \in DragonType /\ dragon.fished \in Nat
    BY <1>2 DEF DragonType, TypeOK
  <2>2. total \in Nat /\ rounds \in Nat /\ won \in Nat /\ prize \in Nat
    BY PrizesAssumption DEF TypeOK
  <2>3. d.peeled < d.caught /\ d.caught <= d.fished BY <1>1, <1>3
  <2> HIDE DEF d
  <2> QED BY <2>1, <2>2, <2>3
<1>6. ~isTest => ~b BY <1>2, <1>3, <1>5
<1>7. IF c THEN Enqueue(won + prize) ELSE UNCHANGED rows BY <1>1, <1>2 DEF PeelRow
<1>8. ~b => dragon = d /\ dragon.made BY <1>1, <1>3
<1>9. ASSUME dragon.made
      PROVE  /\ dragon' \in DragonType /\ dragon'.made
             /\ dragon'.fished = d.fished /\ dragon'.caught = d.caught
             /\ dragon'.peeled = d.peeled + 1 /\ d = dragon
  <2>1. dragon' = [made |-> d.made, fished |-> d.fished, caught |-> d.caught,
                   peeled |-> d.peeled + 1]
    BY <1>1, <1>2, <1>9 DEF DragonType
  <2>2. d.peeled + 1 \in Nat BY <1>5
  <2>3. d = dragon BY <1>3, <1>9 DEF NoDragon
  <2> QED BY <1>1, <1>5, <2>1, <2>2, <2>3 DEF DragonType
<1>10. ~dragon.made => dragon' = dragon BY <1>1
<1>11. c => d.fished >= s.total /\ d.peeled + 1 >= d.caught OBVIOUS
<1>12. won' = won + prize /\ won' \in Nat BY <1>1, <1>5
<1> HIDE DEF s, d, b, c
<1>13. dragon' \in DragonType BY <1>5, <1>9, <1>10
<1>14. GameInv'
  <2>1. used' # 0 BY <1>1, <1>5
  <2>2. ~dragon'.made => dragon' = NoDragon
    BY <1>9, <1>10, StateParts DEF PlayInv, GameInv
  <2>3. reroutes = 0 /\ game = "scratch" => scratch'.status # "playing"
    BY <1>1, <1>2 DEF NoScratch
  <2> QED BY <1>1, <1>2, <2>1, <2>2, <2>3 DEF GameInv
<1>15. /\ dragon'.peeled <= dragon'.caught /\ dragon'.caught <= dragon'.fished
       /\ dragon'.fished <= total
  <2>1. CASE dragon.made
    <3>1. d.fished <= total BY <1>9, <2>1, StateParts DEF PlayInv, RoundsBounded
    <3> QED BY <1>1, <1>3, <1>5, <1>9, <2>1, <3>1
  <2>2. CASE ~dragon.made
    BY <1>10, <2>2, StateParts DEF PlayInv, RoundsBounded
  <2> QED BY <2>1, <2>2
<1>16. ASSUME reroutes = 0, isTest => crossed' = "none"
       PROVE  /\ game = "dragon" /\ used' = dragon'.fished /\ used' <= total
              /\ rounds' <= dragon'.fished + IF crossed' # "none" THEN 1 ELSE 0
  <2>1. ~b /\ crossed' = crossed BY <1>4, <1>6, <1>16
  <2>2. game = "dragon" /\ dragon = d /\ dragon.made BY <1>2, <1>8, <1>16, <2>1
  <2>3. rounds <= dragon.fished + IF crossed # "none" THEN 1 ELSE 0
    BY <1>4, <1>16, <2>1, <2>2, StateParts DEF PlayInv, CountInv
  <2> QED BY <1>1, <1>9, <1>15, <2>1, <2>2, <2>3
<1>17. CountInv' BY <1>1, <1>16 DEF CountInv
<1>18. RoundsBounded'
  <2>1. ASSUME reroutes = 0, isTest => crossed' = "none"
        PROVE  rounds' <= total + IF crossed' # "none" /\ game = "dragon" THEN 1 ELSE 0
    <3>1. dragon'.fished \in Nat BY <1>13 DEF DragonType
    <3> QED BY <1>1, <1>5, <1>15, <1>16, <2>1, <3>1
  <2> QED BY <1>1, <1>15, <1>16, <2>1 DEF RoundsBounded
\* A customer's card with a catch to peel has nothing queued.
<1>19. ~isTest /\ Undisturbed' => rows = <<>>
  <2> SUFFICES ASSUME ~isTest, Undisturbed', rows # <<>> PROVE FALSE OBVIOUS
  <2>1. ~b /\ reroutes = 0 /\ Undisturbed BY <1>4
  <2>2. game = "dragon" /\ dragon = d BY <1>2, <1>8, <2>1
  <2>3. dragon.peeled = dragon.caught
    BY <2>1, <2>2, StateParts DEF PlayInv, QueueInv
  <2> QED BY <1>1, <1>5, <2>2, <2>3
<1>20. FinishedIsQueued'
  BY <1>1, <1>2, <1>4 DEF FinishedIsQueued
<1>21. req' \in [Reqs -> ReqType] /\ LockInv' /\ SeenInv'
  BY <1>1, CommitEnds DEF CardInv
<1>22. used' \in Nat /\ rounds' \in Nat BY <1>1, <1>5
<1>23. CASE c
  <2>1. /\ rows' \in Seq(RowType) /\ OneActiveRow'
        /\ rows = <<>> => \A i \in DOMAIN rows' : rows'[i].prize = won + prize
        /\ \A i \in DOMAIN rows' :
             rows'[i].prize = won + prize \/ (i \in DOMAIN rows /\ rows'[i] = rows[i])
    BY <1>5, <1>7, <1>23, EnqueueEffect, StateParts DEF CardTypes, PlayInv
  <2>2. CardTypes' BY <1>1, <1>4, <1>12, <1>13, <1>22, <2>1, StateParts DEF CardTypes
  <2>3. QueuedIsWon'
    <3>1. ~isTest => \A i \in DOMAIN rows : rows[i].prize <= won
      BY StateParts DEF PlayInv, QueuedIsWon
    <3>2. \A i \in DOMAIN rows : rows[i].prize \in Nat BY PrizesQueued DEF TypeOK
    <3>3. ~isTest => \A i \in DOMAIN rows' : rows'[i].prize <= won + prize
      BY <1>5, <2>1, <3>1, <3>2
    <3> QED BY <1>1, <1>12, <1>19, <2>1, <3>3 DEF QueuedIsWon
  <2>4. QueueInv'
    <3> SUFFICES ASSUME ~isTest, Undisturbed'
                 PROVE  total > 0 /\ used' = total /\ dragon'.fished = total
                        /\ dragon'.peeled = dragon'.caught
      BY <1>1 DEF QueueInv
    <3>1. ~b /\ dragon = d /\ dragon.made /\ s.total = total BY <1>2, <1>4, <1>8
    <3>2. dragon'.fished = d.fished /\ d.fished <= total BY <1>9, <1>15, <3>1
    <3>3. d.fished >= total /\ d.peeled + 1 >= d.caught BY <1>11, <1>23, <3>1
    <3> QED BY <1>1, <1>2, <1>5, <1>9, <3>1, <3>2, <3>3
  <2> QED BY <1>14, <1>17, <1>18, <1>20, <1>21, <2>1, <2>2, <2>3, <2>4, StateParts
          DEF TypeOK, CardTypes, CardInv, PlayInv
<1>24. CASE ~c
  <2>1. rows' = rows BY <1>7, <1>24
  <2>2. CardTypes' BY <1>1, <1>4, <1>12, <1>13, <1>22, <2>1, StateParts DEF CardTypes
  <2>3. OneActiveRow' BY <2>1, StateParts DEF PlayInv, OneActiveRow
  <2>4. QueuedIsWon'
    <3>1. ~isTest => \A i \in DOMAIN rows : rows[i].prize <= won
      BY StateParts DEF PlayInv, QueuedIsWon
    <3>2. \A i \in DOMAIN rows : rows[i].prize \in Nat BY PrizesQueued DEF TypeOK
    <3>3. ~isTest => \A i \in DOMAIN rows : rows[i].prize <= won + prize
      BY <1>5, <3>1, <3>2
    <3> QED BY <1>1, <1>12, <1>19, <2>1, <3>3 DEF QueuedIsWon
  <2>5. QueueInv' BY <1>1, <1>19, <2>1 DEF QueueInv
  <2> QED BY <1>14, <1>17, <1>18, <1>20, <1>21, <2>2, <2>3, <2>4, <2>5, StateParts
          DEF TypeOK, CardTypes, CardInv, PlayInv
<1> QED BY <1>23, <1>24

\* A step that changes nothing but the requests.
LEMMA CardAlone ==
  ASSUME CardTypes, PlayInv, UNCHANGED <<envVars, cardVars, rows, history>>
  PROVE  CardTypes' /\ PlayInv'
<1>1. CardTypes' BY DEF CardTypes, envVars, cardVars, history
<1>2. GameInv' BY DEF PlayInv, GameInv, envVars, cardVars, history, Fresh
<1> QED BY <1>1, <1>2 DEF PlayInv, CountInv, QueueInv, RoundsBounded, OneActiveRow, QueuedIsWon,
            FinishedIsQueued, Undisturbed, envVars, cardVars, history

\* Entering, reading and leaving.
LEMMA EnterStep ==
  ASSUME TypeOK, CardInv, NEW r \in Reqs, NEW o \in Ops, Enter(r, o)
  PROVE  TypeOK' /\ CardInv'
<1> DEFINE new == [Idle EXCEPT !.at = "entered", !.op = o]
<1>1. /\ Inside = {} /\ UNCHANGED <<envVars, cardVars, rows, history>>
      /\ req' = [req EXCEPT ![r] = new]
  BY DEF Enter
<1>2. CardTypes' /\ PlayInv' BY <1>1, StateParts, CardAlone
<1>3. new \in ReqType /\ new.at = "entered" /\ ~new.behind
  BY DEF Idle, ReqType, Ops, NoCard, CardType, NoScratch, NoDragon, ScratchType, DragonType
<1> HIDE DEF new
<1>4. req' \in [Reqs -> ReqType] /\ \A q \in Reqs : req'[q] = IF q = r THEN new ELSE req[q]
  BY <1>1, <1>3 DEF TypeOK
<1>5. \A q \in Reqs : req[q].at = "idle" BY <1>1 DEF Inside
<1>6. LockInv' BY <1>4, <1>5 DEF LockInv, Inside
<1>7. SeenInv'
  <2> SUFFICES ASSUME NEW q \in Reqs
               PROVE  ~SawCard(req'[q]) /\ ~SawGame(req'[q]) /\ ~req'[q].behind
    BY DEF SeenInv
  <2>1. ~req[q].behind BY <1>5 DEF CardInv, SeenInv
  <2>2. req'[q].at \in {"entered", "idle"} /\ ~req'[q].behind BY <1>3, <1>4, <1>5, <2>1
  <2> QED BY <2>2 DEF SawCard, SawGame
<1> QED BY <1>2, <1>4, <1>6, <1>7, StateParts DEF TypeOK, CardTypes, CardInv, PlayInv

LEMMA LeaveStep ==
  ASSUME TypeOK, CardInv, NEW r \in Reqs, Leave(r)
  PROVE  TypeOK' /\ CardInv'
<1>1. CardTypes' /\ PlayInv' BY StateParts, CardAlone DEF Leave
<1>2. req' \in [Reqs -> ReqType] /\ LockInv' /\ SeenInv'
  BY CommitEnds DEF Leave, CardInv
<1> QED BY <1>1, <1>2, StateParts DEF TypeOK, CardTypes, CardInv, PlayInv

\* What a request that goes on means for the lock, and for what the others have read.
LEMMA GoesOn ==
  ASSUME TypeOK, CardInv, NEW r \in Reqs, NEW q \in ReqType, req[r].at # "idle",
         req' = [req EXCEPT ![r] = q]
  PROVE  /\ req' \in [Reqs -> ReqType] /\ LockInv' /\ req'[r] = q
         /\ \A p \in Reqs : p # r => /\ req'[p] = req[p]
                                     /\ ~SawCard(req[p]) /\ ~SawGame(req[p]) /\ ~req[p].behind
<1>1. req' \in [Reqs -> ReqType] /\ \A p \in Reqs : req'[p] = IF p = r THEN q ELSE req[p]
  BY DEF TypeOK
<1>2. \A p \in Reqs : p # r => req[p].at = "idle" BY DEF CardInv, LockInv, Inside
<1>3. \A p \in Reqs : p # r => ~req[p].behind BY <1>2 DEF CardInv, SeenInv
<1>4. LockInv' BY <1>1, <1>2 DEF LockInv, Inside
<1> QED BY <1>1, <1>2, <1>3, <1>4 DEF SawCard, SawGame

LEMMA LookCardStep ==
  ASSUME TypeOK, CardInv, NEW r \in Reqs, LookCard(r)
  PROVE  TypeOK' /\ CardInv'
<1> DEFINE q == req[r]
           at == IF q.op \in GameFirst \cup {"spin"} THEN "read" ELSE "half"
           new == [q EXCEPT !.at = at, !.seen.total = total, !.seen.used = used,
                            !.seen.won = won]
<1>1. /\ q.at = IF q.op \in GameFirst THEN "half" ELSE "entered"
      /\ total > 0 /\ Eligible(q.op)
      /\ req' = [req EXCEPT ![r] = new]
      /\ UNCHANGED <<envVars, cardVars, rows, history>>
  BY DEF LookCard
<1>2. q \in ReqType /\ total \in Nat /\ used \in Nat /\ won \in Nat BY DEF TypeOK
<1>3. /\ new \in ReqType /\ new.at = at /\ new.op = q.op /\ new.behind = q.behind
      /\ new.seen.total = total /\ new.seen.used = used /\ new.seen.won = won
      /\ new.seen.scratch = q.seen.scratch /\ new.seen.dragon = q.seen.dragon
  BY <1>2 DEF ReqType, CardType
<1>4. CardTypes' /\ PlayInv' BY <1>1, StateParts, CardAlone
<1> HIDE DEF new
<1>5. /\ req' \in [Reqs -> ReqType] /\ LockInv' /\ req'[r] = new
      /\ \A p \in Reqs : p # r => /\ req'[p] = req[p]
                                  /\ ~SawCard(req[p]) /\ ~SawGame(req[p]) /\ ~req[p].behind
  BY <1>1, <1>3, GoesOn
<1>6. UNCHANGED <<isTest, game, reroutes, total, used, won, scratch, dragon>>
  BY <1>1 DEF envVars, cardVars
<1>8. SawGame(new) => SawGame(q)
  BY <1>1, <1>3 DEF SawGame, GameFirst
<1>9. q.behind => q.at = "half" BY <1>1 DEF CardInv, SeenInv
<1>10. SeenInv'
  <2> SUFFICES
        /\ SawCard(new) =>
             /\ total > 0 /\ new.seen.total > 0 /\ new.seen.used = used /\ new.seen.won = won
             /\ ~new.behind => new.seen.total = total /\ (reroutes = 0 => Eligible(new.op))
        /\ SawGame(new) =>
             /\ new.seen.scratch = scratch \/ (new.behind /\ scratch = NoScratch)
             /\ new.seen.dragon = dragon \/ (new.behind /\ dragon = NoDragon)
             /\ new.seen.dragon.peeled <= new.seen.dragon.caught
             /\ new.seen.dragon.caught <= new.seen.dragon.fished
             /\ ~isTest /\ used = 0 => new.seen.dragon.fished = 0
             /\ new.op = "fish" => new.seen.dragon.made
        /\ new.behind =>
             /\ new.at \in {"half", "read"} /\ total > 0 /\ used = 0 /\ won = 0
             /\ scratch = NoScratch /\ dragon \in {NoDragon, NewDragon}
    BY <1>5, <1>6 DEF SeenInv, SawCard, SawGame, Eligible
  <2> QED BY <1>1, <1>3, <1>8, <1>9 DEF CardInv, SeenInv
<1> QED BY <1>4, <1>5, <1>10, StateParts DEF TypeOK, CardTypes, CardInv, PlayInv

LEMMA LookGameStep ==
  ASSUME TypeOK, CardInv, NEW r \in Reqs, LookGame(r)
  PROVE  TypeOK' /\ CardInv'
<1> DEFINE q == req[r]
           at == IF q.op \in GameFirst THEN "half" ELSE "read"
           new == [q EXCEPT !.at = at, !.seen.scratch = scratch, !.seen.dragon = dragon']
<1>1. /\ q.op # "spin" /\ q.at = IF q.op \in GameFirst THEN "entered" ELSE "half"
      /\ req' = [req EXCEPT ![r] = new]
      /\ dragon' = (IF q.op \in {"launch", "fish"} /\ ~dragon.made THEN NewDragon ELSE dragon)
      /\ UNCHANGED <<isTest, game, reroutes, total, used, won, scratch, rows, rounds, crossed>>
  BY DEF LookGame, envVars, history
<1>2. q \in ReqType /\ scratch \in ScratchType /\ dragon \in DragonType /\ NewDragon \in DragonType
  BY DEF TypeOK, NewDragon, NoDragon, DragonType
<1>3. dragon' \in DragonType BY <1>1, <1>2
<1>4. /\ new \in ReqType /\ new.at = at /\ new.op = q.op /\ new.behind = q.behind
      /\ new.seen.total = q.seen.total /\ new.seen.used = q.seen.used
      /\ new.seen.won = q.seen.won
      /\ new.seen.scratch = scratch /\ new.seen.dragon = dragon'
  BY <1>2, <1>3 DEF ReqType, CardType
<1>5. ASSUME ~dragon.made
      PROVE  /\ dragon = NoDragon /\ dragon'.fished = dragon.fished
             /\ dragon'.caught = dragon.caught /\ dragon'.peeled = dragon.peeled
             /\ dragon' \in {NoDragon, NewDragon}
  <2>1. dragon = NoDragon BY <1>5 DEF CardInv, GameInv
  <2> QED BY <1>1, <2>1 DEF NewDragon, NoDragon
<1>6. dragon.made => dragon' = dragon BY <1>1
<1>7. /\ dragon'.fished = dragon.fished /\ dragon'.caught = dragon.caught
      /\ dragon'.peeled = dragon.peeled
  BY <1>5, <1>6
<1>8. dragon' # dragon => total > 0 /\ dragon' = NewDragon
  <2> SUFFICES ASSUME dragon' # dragon PROVE total > 0 /\ dragon' = NewDragon OBVIOUS
  <2>1. q.op \in {"launch", "fish"} /\ dragon' = NewDragon BY <1>1
  <2>2. SawCard(q) BY <1>1, <2>1 DEF SawCard, GameFirst
  <2> QED BY <2>1, <2>2 DEF CardInv, SeenInv
<1>9. CardTypes' BY <1>1, <1>3, StateParts DEF CardTypes
<1>10. PlayInv'
  <2>1. GameInv'
    <3>1. ~dragon'.made => dragon' = NoDragon
      BY <1>5, <1>6, <1>8, StateParts DEF PlayInv, GameInv, NewDragon, NoDragon
    <3>2. total = 0 => dragon' = dragon BY <1>8
    <3> QED BY <1>1, <1>7, <3>1, <3>2, StateParts DEF PlayInv, GameInv, Fresh
  <2>2. CountInv' /\ QueueInv' /\ RoundsBounded' /\ FinishedIsQueued' /\ QueuedIsWon'
    BY <1>1, <1>7, StateParts
    DEF PlayInv, CountInv, QueueInv, RoundsBounded, FinishedIsQueued, QueuedIsWon, Undisturbed
  <2> QED BY <1>1, <2>1, <2>2, StateParts DEF PlayInv, OneActiveRow
<1> HIDE DEF new
<1>11. /\ req' \in [Reqs -> ReqType] /\ LockInv' /\ req'[r] = new
       /\ \A p \in Reqs : p # r => /\ req'[p] = req[p]
                                   /\ ~SawCard(req[p]) /\ ~SawGame(req[p]) /\ ~req[p].behind
  BY <1>1, <1>4, GoesOn
<1>12. SawCard(new) => SawCard(q) BY <1>1, <1>4 DEF SawCard, GameFirst
<1>13. q.behind => q.at = "half" BY <1>1 DEF CardInv, SeenInv
<1>14. new.op = "fish" => dragon'.made BY <1>1, <1>4 DEF NewDragon
<1>15. /\ dragon'.peeled <= dragon'.caught /\ dragon'.caught <= dragon'.fished
       /\ ~isTest /\ used = 0 => dragon'.fished = 0
  BY <1>7 DEF CardInv, RoundsBounded, GameInv
<1>16. dragon \in {NoDragon, NewDragon} => dragon' \in {NoDragon, NewDragon} BY <1>8
<1>17. SeenInv'
  <2> SUFFICES
        /\ SawCard(new) =>
             /\ total > 0 /\ new.seen.total > 0 /\ new.seen.used = used /\ new.seen.won = won
             /\ ~new.behind => new.seen.total = total /\ (reroutes = 0 => Eligible(new.op))
        /\ new.seen.scratch = scratch /\ new.seen.dragon = dragon'
        /\ dragon'.peeled <= dragon'.caught /\ dragon'.caught <= dragon'.fished
        /\ ~isTest /\ used = 0 => dragon'.fished = 0
        /\ new.op = "fish" => dragon'.made
        /\ new.behind =>
             /\ new.at \in {"half", "read"} /\ total > 0 /\ used = 0 /\ won = 0
             /\ scratch = NoScratch /\ dragon' \in {NoDragon, NewDragon}
    BY <1>1, <1>11 DEF SeenInv, SawCard, SawGame, Eligible
  <2> QED BY <1>1, <1>4, <1>12, <1>13, <1>14, <1>15, <1>16 DEF CardInv, SeenInv
<1> QED BY <1>9, <1>10, <1>11, <1>17, StateParts DEF TypeOK, CardTypes, CardInv, PlayInv

-----------------------------------------------------------------------------
(* Logins, the operator and the credit worker.                             *)

LEMMA LoginStep ==
  ASSUME TypeOK, CardInv, NEW n \in Totals, Login(n)
  PROVE  TypeOK' /\ CardInv'
<1>1. /\ total = 0 /\ total' = n /\ n \in Nat /\ n > 0
      /\ UNCHANGED <<isTest, game, reroutes, used, won, scratch, dragon, rows, req, rounds,
                     crossed>>
  BY TotalsAssumption DEF Login, envVars, history
<1>2. /\ used = 0 /\ won = 0 /\ scratch = NoScratch /\ dragon = NoDragon /\ rows = <<>>
      /\ rounds = 0
  BY <1>1 DEF CardInv, GameInv, Fresh
<1>3. TypeOK' BY <1>1 DEF TypeOK
<1>4. LockInv' BY <1>1 DEF CardInv, LockInv, Inside
<1>5. SeenInv'
  <2>1. \A r \in Reqs : ~SawCard(req[r]) /\ ~req[r].behind BY <1>1 DEF CardInv, SeenInv
  <2> QED BY <1>1, <2>1 DEF CardInv, SeenInv, SawCard, SawGame
<1>6. GameInv' BY <1>1, <1>2 DEF CardInv, GameInv, Fresh, NoScratch
<1>7. CountInv' /\ QueueInv' /\ OneActiveRow' /\ QueuedIsWon' /\ FinishedIsQueued'
  BY <1>1, <1>2 DEF CardInv, CountInv, QueueInv, OneActiveRow, QueuedIsWon, FinishedIsQueued
<1>8. RoundsBounded' BY <1>1, <1>2 DEF CardInv, RoundsBounded, NoDragon
<1> QED BY <1>3, <1>4, <1>5, <1>6, <1>7, <1>8 DEF CardInv

LEMMA SyncStep ==
  ASSUME TypeOK, CardInv, NEW n \in Totals, NEW g \in Games, Sync(n, g)
  PROVE  TypeOK' /\ CardInv'
<1>1. /\ total > 0 /\ total' = n /\ n \in Nat /\ n > 0 /\ game' = g
      /\ used = 0 /\ won = 0 /\ scratch' = NoScratch /\ dragon' = NoDragon
      /\ UNCHANGED <<isTest, reroutes, used, won, rows, rounds, crossed>>
      /\ req' = [r \in Reqs |-> [req[r] EXCEPT !.behind = @ \/ req[r].at \in {"half", "read"}]]
  BY TotalsAssumption DEF Sync, FallBehind, history, TypeOK
<1>2. \A r \in Reqs :
        /\ req'[r] \in ReqType /\ req'[r].at = req[r].at /\ req'[r].op = req[r].op
        /\ req'[r].seen = req[r].seen
        /\ req'[r].behind <=> req[r].behind \/ req[r].at \in {"half", "read"}
  <2> SUFFICES ASSUME NEW r \in Reqs
               PROVE  /\ req'[r] \in ReqType /\ req'[r].at = req[r].at /\ req'[r].op = req[r].op
                      /\ req'[r].seen = req[r].seen
                      /\ req'[r].behind <=> req[r].behind \/ req[r].at \in {"half", "read"}
    OBVIOUS
  <2>1. req[r] \in ReqType BY DEF TypeOK
  <2>2. req'[r] = [req[r] EXCEPT !.behind = @ \/ req[r].at \in {"half", "read"}] BY <1>1
  <2>3. (req[r].behind \/ req[r].at \in {"half", "read"}) \in BOOLEAN OBVIOUS
  <2> QED BY <2>1, <2>2, <2>3 DEF ReqType
<1>3. req' \in [Reqs -> ReqType] BY <1>1, <1>2
<1>4. /\ rounds = 0 /\ crossed = "none"
      /\ ~isTest => rows = <<>>
      /\ NoDragon.fished = 0 /\ NoDragon.caught = 0 /\ NoDragon.peeled = 0 /\ ~NoDragon.made
      /\ NoScratch.status = "none"
  BY <1>1 DEF CardInv, GameInv, NoDragon, NoScratch
<1>5. NoScratch \in ScratchType /\ NoDragon \in DragonType
  BY DEF NoScratch, NoDragon, ScratchType, DragonType
<1>6. TypeOK' BY <1>1, <1>3, <1>5 DEF TypeOK
<1>7. LockInv' BY <1>2 DEF CardInv, LockInv, Inside
<1>8. SeenInv'
  <2> SUFFICES ASSUME NEW r \in Reqs
               PROVE  /\ SawCard(req'[r]) =>
                           /\ req'[r].behind /\ req'[r].seen.total > 0
                           /\ req'[r].seen.used = used /\ req'[r].seen.won = won
                      /\ SawGame(req'[r]) =>
                           /\ req'[r].behind
                           /\ req'[r].seen.dragon.peeled <= req'[r].seen.dragon.caught
                           /\ req'[r].seen.dragon.caught <= req'[r].seen.dragon.fished
                           /\ ~isTest /\ used = 0 => req'[r].seen.dragon.fished = 0
                           /\ req'[r].op = "fish" => req'[r].seen.dragon.made
                      /\ req'[r].behind => req'[r].at \in {"half", "read"}
    BY <1>1 DEF SeenInv, SawCard, SawGame
  <2>1. SawCard(req'[r]) => SawCard(req[r]) /\ req[r].at \in {"half", "read"}
    BY <1>2 DEF SawCard
  <2>2. SawGame(req'[r]) => SawGame(req[r]) /\ req[r].at \in {"half", "read"}
    BY <1>2 DEF SawGame
  <2> QED BY <1>2, <2>1, <2>2 DEF CardInv, SeenInv
<1>9. GameInv' BY <1>1, <1>4 DEF CardInv, GameInv
<1>10. CountInv' /\ RoundsBounded'
  BY <1>1, <1>4 DEF CountInv, RoundsBounded
<1>11. QueueInv' /\ QueuedIsWon' /\ FinishedIsQueued'
  BY <1>1, <1>4 DEF QueueInv, QueuedIsWon, FinishedIsQueued
<1>12. OneActiveRow' BY <1>1 DEF CardInv, OneActiveRow
<1> QED BY <1>6, <1>7, <1>8, <1>9, <1>10, <1>11, <1>12 DEF CardInv

LEMMA RerouteStep ==
  ASSUME TypeOK, CardInv, NEW g \in Games, Reroute(g)
  PROVE  TypeOK' /\ CardInv'
<1>1. /\ game' = g /\ rounds' = 0 /\ crossed' = "none"
      /\ reroutes' = reroutes + (IF Untouched THEN 0 ELSE 1)
      /\ UNCHANGED <<isTest, total, used, won, scratch, dragon, rows, req>>
  BY DEF Reroute, cardVars
<1>2. reroutes \in Nat /\ reroutes' \in Nat BY <1>1 DEF TypeOK
<1>3. TypeOK' BY <1>1, <1>2 DEF TypeOK
<1>4. LockInv' /\ OneActiveRow' BY <1>1 DEF CardInv, LockInv, Inside, OneActiveRow
<1>5. CASE Untouched
  <2>1. /\ used = 0 /\ won = 0 /\ scratch = NoScratch /\ dragon = NoDragon
        /\ \A r \in Reqs : req[r].at = "idle"
    BY <1>5 DEF Untouched, Fresh, Inside
  <2>2. /\ ~isTest => rows = <<>>
        /\ NoDragon.fished = 0 /\ NoDragon.caught = 0 /\ NoDragon.peeled = 0
        /\ NoScratch.status = "none"
    BY <2>1 DEF CardInv, GameInv, NoDragon, NoScratch
  <2>3. SeenInv'
    <3> SUFFICES ASSUME NEW r \in Reqs
                 PROVE  ~SawCard(req[r]) /\ ~SawGame(req[r]) /\ ~req[r].behind
      BY <1>1 DEF SeenInv, SawCard, SawGame
    <3> QED BY <2>1 DEF SawCard, SawGame, CardInv, SeenInv
  <2>4. GameInv' BY <1>1, <2>1, <2>2 DEF CardInv, GameInv, Fresh
  <2>5. total \in Nat BY DEF TypeOK
  <2>6. CountInv' /\ RoundsBounded'
    BY <1>1, <2>1, <2>2, <2>5 DEF CountInv, RoundsBounded
  <2>7. QueueInv' /\ QueuedIsWon' /\ FinishedIsQueued'
    BY <1>1, <2>1, <2>2 DEF QueueInv, QueuedIsWon, FinishedIsQueued
  <2> QED BY <1>3, <1>4, <2>3, <2>4, <2>6, <2>7 DEF CardInv
<1>6. CASE ~Untouched
  <2>1. reroutes' # 0 BY <1>1, <1>2, <1>6
  <2>2. ~Undisturbed' BY <2>1 DEF Undisturbed
  <2>3. SeenInv' BY <1>1, <2>1 DEF CardInv, SeenInv, SawCard, SawGame
  <2>4. GameInv' BY <1>1, <2>1 DEF CardInv, GameInv, Fresh
  <2>5. CountInv' BY <2>1 DEF CountInv
  <2>6. RoundsBounded' BY <1>1, <2>1 DEF CardInv, RoundsBounded
  <2>7. QueueInv' /\ QueuedIsWon' /\ FinishedIsQueued'
    BY <1>1, <2>2 DEF CardInv, QueueInv, QueuedIsWon, FinishedIsQueued
  <2> QED BY <1>3, <1>4, <2>3, <2>4, <2>5, <2>6, <2>7 DEF CardInv
<1> QED BY <1>5, <1>6

LEMMA SettleStep ==
  ASSUME TypeOK, CardInv, NEW i \in DOMAIN rows, NEW status \in {"done", "failed"},
         Settle(i, status)
  PROVE  TypeOK' /\ CardInv'
<1>1. /\ rows[i].status = "pending" /\ rows' = [rows EXCEPT ![i].status = status]
      /\ UNCHANGED <<isTest, game, reroutes, total, used, won, scratch, dragon, req, rounds,
                     crossed>>
  BY DEF Settle, envVars, cardVars, history
<1>2. /\ DOMAIN rows = 1..Len(rows) /\ Len(rows) \in Nat
      /\ \A j \in DOMAIN rows : rows[j] \in RowType
  BY DEF TypeOK
<1>3. /\ DOMAIN rows' = DOMAIN rows
      /\ \A j \in DOMAIN rows : rows'[j] = IF j = i
                                           THEN [rows[i] EXCEPT !.status = status]
                                           ELSE rows[j]
  BY <1>1, <1>2
<1>4. [rows[i] EXCEPT !.status = status] \in RowType
      /\ [rows[i] EXCEPT !.status = status].prize = rows[i].prize
      /\ [rows[i] EXCEPT !.status = status].status = status
  BY <1>2 DEF RowType
<1>5. TypeOK'
  <2>1. rows' \in Seq(RowType) BY <1>1, <1>2, <1>3, <1>4 DEF TypeOK
  <2> QED BY <1>1, <2>1 DEF TypeOK
<1>6. LockInv' BY <1>1 DEF CardInv, LockInv, Inside
<1>7. rows # <<>> BY <1>2
<1>8. SeenInv' BY <1>1 DEF CardInv, SeenInv, SawCard, SawGame, Eligible
<1>9. OneActiveRow'
  <2>1. \A j \in DOMAIN rows : Active(rows'[j]) => Active(rows[j])
    BY <1>1, <1>3 DEF Active
  <2> QED BY <1>3, <2>1 DEF CardInv, OneActiveRow
<1>10. QueuedIsWon' BY <1>1, <1>3, <1>4 DEF CardInv, QueuedIsWon, Undisturbed
<1>11. FinishedIsQueued'
  BY <1>1, <1>3, <1>4 DEF CardInv, FinishedIsQueued, Undisturbed
<1>12. GameInv' /\ QueueInv' /\ RoundsBounded' /\ CountInv'
  BY <1>1, <1>7 DEF CardInv, GameInv, QueueInv, RoundsBounded, CountInv, Fresh, Undisturbed
<1> QED BY <1>5, <1>6, <1>8, <1>9, <1>10, <1>11, <1>12 DEF CardInv

LEMMA IdleStep ==
  ASSUME TypeOK, CardInv, UNCHANGED vars
  PROVE  TypeOK' /\ CardInv'
BY DEF vars, TypeOK, CardInv, LockInv, Inside, SeenInv, SawCard, SawGame, Eligible, Fresh,
       GameInv, CountInv, QueueInv, RoundsBounded, OneActiveRow, QueuedIsWon,
       FinishedIsQueued, Undisturbed

-----------------------------------------------------------------------------
(* The theorems.                                                           *)

LEMMA CardInit == Init => TypeOK /\ CardInv
<1> SUFFICES ASSUME Init PROVE TypeOK /\ CardInv OBVIOUS
<1>1. TypeOK
  BY DEF Init, TypeOK, Idle, ReqType, Ops, NoCard, CardType, NoScratch, NoDragon,
      ScratchType, DragonType
<1>2. \A r \in Reqs : req[r].at = "idle" /\ ~req[r].behind BY DEF Init, Idle
<1>3. LockInv /\ SeenInv BY <1>2 DEF LockInv, Inside, SeenInv, SawCard, SawGame
<1>4. PlayInv
  BY DEF Init, PlayInv, GameInv, CountInv, QueueInv, RoundsBounded, OneActiveRow,
         QueuedIsWon, FinishedIsQueued, Fresh, NoScratch, NoDragon
<1> QED BY <1>1, <1>3, <1>4, StateParts

LEMMA CardStep ==
  ASSUME TypeOK, CardInv, [Next]_vars
  PROVE  TypeOK' /\ CardInv'
<1>1. ASSUME NEW r \in Reqs, Handler(r) PROVE TypeOK' /\ CardInv'
  <2>1. CASE \E o \in Ops : Enter(r, o) BY <2>1, EnterStep
  <2>2. CASE LookCard(r) BY <2>2, LookCardStep
  <2>3. CASE LookGame(r) BY <2>3, LookGameStep
  <2>4. CASE Leave(r) BY <2>4, LeaveStep
  <2>5. CASE ScratchStart(r) BY <2>5, ScratchStartStep
  <2>6. CASE Reset(r) BY <2>6, ResetStep
  <2>7. ASSUME NEW limit \in RevealLimits, RevealMine(r, limit) PROVE TypeOK' /\ CardInv'
    <3>1. 0 \in Nat /\ req[r].seen.scratch.safe \in Nat
      BY DEF TypeOK, ReqType, CardType, ScratchType
    <3> QED BY <2>7, <3>1, ScratchEnd DEF RevealMine, Playing, GameFirst
  <2>8. CASE \E limit \in RevealLimits : \E prize \in Prizes :
               RevealSafe(r, prize, limit) \/ Cashout(r, prize, limit)
    BY <2>8, RevealStep
  <2>9. CASE \E prize \in Prizes : Spin(r, prize) \/ Peel(r, prize) BY <2>9, SpinStep, PeelStep
  <2>10. CASE \E hit \in BOOLEAN : Fish(r, hit) BY <2>10, FishStep
  <2> QED BY <1>1, <2>1, <2>2, <2>3, <2>4, <2>5, <2>6, <2>7, <2>8, <2>9, <2>10
          DEF Handler
<1>2. CASE \E n \in Totals : Login(n) \/ \E g \in Games : Sync(n, g)
  BY <1>2, LoginStep, SyncStep
<1>3. CASE \E g \in Games : Reroute(g) BY <1>3, RerouteStep
<1>4. CASE \E i \in DOMAIN rows : \E status \in {"done", "failed"} : Settle(i, status)
  BY <1>4, SettleStep
<1>5. CASE UNCHANGED vars BY <1>5, IdleStep
<1> QED BY <1>1, <1>2, <1>3, <1>4, <1>5 DEF Next, Others

(* Whatever requests for a card, logins and changes of its game interleave,*)
(* the card's state keeps its types and the inductive invariant.           *)
THEOREM CardSafe == Spec => [](TypeOK /\ CardInv)
<1>1. TypeOK /\ CardInv /\ [Next]_vars => (TypeOK /\ CardInv)'
  BY CardStep
<1> QED BY <1>1, CardInit, PTL DEF Spec

(* Every variable of the card model keeps its type.                        *)
THEOREM CardTypeCorrect == Spec => []TypeOK
BY CardSafe, PTL

(* withCardLock and the guards of the three games: while its game stays, a *)
(* card plays no more rounds than it has, whatever logins come in between; *)
(* and no game ever peels what it has not caught.                          *)
THEOREM NoExtraRounds == Spec => []RoundsBounded
<1>1. CardInv => RoundsBounded BY DEF CardInv
<1> QED BY <1>1, CardSafe, PTL

(* enqueueCreditWith never gives a card two rows that pay.                 *)
THEOREM CreditedOnce == Spec => []OneActiveRow
<1>1. CardInv => OneActiveRow BY DEF CardInv
<1> QED BY <1>1, CardSafe, PTL

(* What is queued for a customer's card is never more than it has won, and *)
(* all of it unless a login or a change of game cut into a round.          *)
THEOREM CreditIsWhole == Spec => []QueuedIsWon
<1>1. CardInv => QueuedIsWon BY DEF CardInv
<1> QED BY <1>1, CardSafe, PTL

(* The winnings of a slot or scratch card that used all its rounds are in  *)
(* the queue, unless a login or a change of game cut into a round.         *)
THEOREM WinningsAreQueued == Spec => []FinishedIsQueued
<1>1. CardInv => FinishedIsQueued BY DEF CardInv
<1> QED BY <1>1, CardSafe, PTL

LEMMA NothingAfterQueueing ==
  ASSUME TypeOK, CardInv, [Next]_vars PROVE FrozenStep
<1> SUFFICES ASSUME ~isTest, rows # <<>>, Undisturbed PROVE UNCHANGED <<total, used, won>>
  BY DEF FrozenStep
<1>1. /\ total > 0 /\ used = total /\ reroutes = 0
      /\ game = "dragon" => dragon.fished = total /\ dragon.peeled = dragon.caught
      /\ total \in Nat /\ used \in Nat
  BY DEF CardInv, QueueInv, Undisturbed, TypeOK
<1>2. ASSUME NEW r \in Reqs, Handler(r) PROVE UNCHANGED <<total, used, won>>
  <2>1. ASSUME req[r].at = "read"
        PROVE  /\ ~req[r].behind /\ Eligible(req[r].op)
               /\ req[r].seen.total = total /\ req[r].seen.used = used
    BY <1>1, <2>1, Believed
  <2>2. ASSUME req[r].at = "read", req[r].op # "spin"
        PROVE  req[r].seen.scratch = scratch /\ req[r].seen.dragon = dragon
    BY <2>1, <2>2, GameBelieved
  <2>3. \A prize \in Prizes : ~Spin(r, prize)
    BY <1>1, <2>1 DEF Spin, Commits
  <2>4. ASSUME req[r].op \in GameFirst, Commits(r, req[r].op)
        PROVE  req[r].seen.scratch.status # "playing"
    <3>1. game = "scratch" /\ req[r].seen.scratch = scratch
      BY <2>1, <2>2, <2>4 DEF Commits, Eligible, GameFirst
    <3> QED BY <1>1, <3>1 DEF CardInv, GameInv
  <2>5. \A limit \in RevealLimits :
          /\ ~RevealMine(r, limit)
          /\ \A prize \in Prizes : ~Cashout(r, prize, limit) /\ ~RevealSafe(r, prize, limit)
    BY <2>4 DEF RevealMine, RevealSafe, Cashout, Playing, Commits, GameFirst
  <2>6. \A hit \in BOOLEAN : ~Fish(r, hit)
    BY <1>1, <2>1, <2>2 DEF Fish, Commits, Eligible
  <2>7. \A prize \in Prizes : ~Peel(r, prize)
    <3> SUFFICES ASSUME NEW prize \in Prizes, Peel(r, prize) PROVE FALSE OBVIOUS
    <3>1. dragon.peeled < dragon.caught /\ game = "dragon"
      BY <2>1, <2>2 DEF Peel, Commits, Eligible
    <3> QED BY <1>1, <3>1 DEF TypeOK, DragonType
  <2>8. ~Reset(r) BY DEF Reset
  <2> QED BY <1>2, <2>3, <2>5, <2>6, <2>7, <2>8
          DEF Handler, Enter, LookCard, LookGame, Leave, ScratchStart, cardVars
<1>3. \A n \in Totals : ~Login(n) /\ \A g \in Games : ~Sync(n, g)
  BY <1>1 DEF Login, Sync
<1>4. CASE Others
  BY <1>3, <1>4 DEF Others, Reroute, Settle, cardVars
<1>5. CASE UNCHANGED vars BY <1>5 DEF vars
<1> QED BY <1>2, <1>4, <1>5 DEF Next

(* After a customer's card is queued for payment, its rounds and winnings  *)
(* stay what they are, unless a login or a change of game cut into a round.*)
THEOREM CreditFreezesCard == Spec => FrozenOnceQueued
<1>1. TypeOK /\ CardInv /\ [Next]_vars => [FrozenStep]_vars
  BY NothingAfterQueueing
<1> QED BY <1>1, CardSafe, PTL DEF Spec, FrozenOnceQueued

(***************************************************************************)
(* The ledgers of the prizes                                               *)
(***************************************************************************)

\* The instance counts with the operator of FiniteSets, and so do the library's theorems.
LEMMA SameSize == \A S : Ledger!Cardinality(S) = Cardinality(S)
BY DEF Ledger!Cardinality, Cardinality

LEMMA IdsFinite == IsFiniteSet(Ledger!Ids)
<1> DEFINE S == {Subs[i] : i \in DOMAIN Subs}
           f == [i \in 1..Len(Subs) |-> Subs[i]]
<1>1. IsFiniteSet(1..Len(Subs)) BY LedgerAssumption, FS_Interval
<1>2. f \in Surjection(1..Len(Subs), S) BY LedgerAssumption DEF Surjection
<1>3. IsFiniteSet(S) BY <1>1, <1>2, FS_Surjection
<1> QED BY <1>3, LedgerAssumption, FS_Union DEF Ledger!Ids

\* The units of what the identities pay.
Units(f) == UNION {{id} \X (1..f[id]) : id \in Ledger!Ids}

LEMMA UnitsFinite ==
  ASSUME NEW f \in [Ledger!Ids -> Nat]
  PROVE  IsFiniteSet(Units(f)) /\ Ledger!Sum(f) = Cardinality(Units(f))
<1> DEFINE of == [id \in Ledger!Ids |-> {id} \X (1..f[id])]
           T  == {{id} \X (1..f[id]) : id \in Ledger!Ids}
<1>1. of \in Surjection(Ledger!Ids, T) BY DEF Surjection
<1>2. IsFiniteSet(T) BY <1>1, IdsFinite, FS_Surjection
<1>3. ASSUME NEW id \in Ledger!Ids PROVE IsFiniteSet({id} \X (1..f[id]))
  <2>1. IsFiniteSet({id}) BY FS_Singleton
  <2>2. IsFiniteSet(1..f[id]) BY FS_Interval
  <2> QED BY <2>1, <2>2, FS_Product
<1>4. IsFiniteSet(UNION T) BY <1>2, <1>3, FS_UNION
<1> QED BY <1>4, SameSize DEF Units, Ledger!Sum

LEMMA SumGrows ==
  ASSUME NEW f \in [Ledger!Ids -> Nat], NEW g \in [Ledger!Ids -> Nat],
         \A id \in Ledger!Ids : f[id] <= g[id]
  PROVE  /\ Ledger!Sum(f) \in Nat /\ Ledger!Sum(g) \in Nat
         /\ Ledger!Sum(f) <= Ledger!Sum(g)
<1>1. ASSUME NEW id \in Ledger!Ids PROVE {id} \X (1..f[id]) \subseteq {id} \X (1..g[id])
  BY <1>1
<1>2. Units(f) \subseteq Units(g) BY <1>1 DEF Units
<1> QED BY <1>2, UnitsFinite, FS_Subset, FS_CardinalityType

\* What a request at work knows: the identity it comes to has a plan, and a row once it read one.
Informed(q, table) ==
  /\ q.at \in {"look", "sync", "create"} => q.cfg \in Configs
  /\ q.at \in {"look", "sync"} => q.i \in 1..(Len(Subs) + 1)
  /\ q.at = "look" /\ q.create # NoRow => Ledger!Qualifies(q.cfg, q.create)
  /\ q.at = "sync" =>
       /\ q.i \in 1..Len(Subs) /\ Ledger!Qualifies(q.cfg, Subs[q.i])
       /\ table[Subs[q.i]] # NoRow
       /\ q.create # NoRow => Ledger!Qualifies(q.cfg, q.create)
  /\ q.at = "create" => q.id \in Ledger!Ids /\ Ledger!Qualifies(q.cfg, q.id)
  /\ q.at \in {"draw", "drawn"} => q.id \in Ledger!Ids /\ table[q.id] # NoRow
  /\ q.at = "draw" => ~q.capped
  /\ q.at = "drawn" /\ q.capped => q.prize = 0 \/ q.prize <= q.balance

\* A prize drawn without a balance has a reason.
Excuse == faults > 0 \/ changes > 0 \/ ~config.dynamic

Uncapped(q) == q.at = "drawn" /\ ~q.capped

\* The inductive invariant.
LedgerInv ==
  /\ Ledger!TypeOK /\ DepositFollowsCard
  /\ \A r \in Reqs : Informed(ledgerReq[r], card) /\ (Uncapped(ledgerReq[r]) => Excuse)

LEMMA PlanOfType ==
  ASSUME NEW cfg \in Configs, NEW id \in Ledger!Ids, Ledger!Qualifies(cfg, id)
  PROVE  Ledger!PlanOf(cfg, id) \in Ledger!Plans
<1>1. cfg \in Ledger!ConfigType BY LedgerAssumption
<1>2. cfg.tier[id] \in Tiers BY <1>1 DEF Ledger!ConfigType, Ledger!Qualifies
<1>3. cfg.rule[cfg.tier[id]] \in [draws : Nat, game : Ledger!Games, share : Nat]
  BY <1>1, <1>2 DEF Ledger!ConfigType
<1> QED BY <1>2, <1>3 DEF Ledger!PlanOf, Ledger!Plans

LEMMA FreshRequest ==
  /\ Ledger!Fresh \in Ledger!RequestType
  /\ \A table : Informed(Ledger!Fresh, table)
  /\ Ledger!Fresh.at = "idle"
<1>1. /\ Len(Subs) + 1 \in Nat /\ 0 \in 0..(Len(Subs) + 1) /\ 0 \in 0..(Ledger!MaxTries - 1)
      /\ 0 \in Nat /\ 0 \in Int
  BY LedgerAssumption DEF Ledger!MaxTries
<1>2. Ledger!Fresh \in Ledger!RequestType
  BY <1>1 DEF Ledger!Fresh, Ledger!RequestType, Ledger!Games
<1>3. Ledger!Fresh.at = "idle" BY DEF Ledger!Fresh
<1> QED BY <1>2, <1>3 DEF Informed

LEMMA LedgerStarts == Ledger!Init => LedgerInv
<1> SUFFICES ASSUME Ledger!Init PROVE LedgerInv
  OBVIOUS
<1>1. Ledger!TypeOK
  BY FreshRequest, LedgerAssumption DEF Ledger!Init, Ledger!TypeOK
<1>2. DepositFollowsCard
  BY DEF Ledger!Init, DepositFollowsCard, Ledger!DepositFollowsCard
<1> QED BY <1>1, <1>2, FreshRequest DEF LedgerInv, Ledger!Init, Uncapped, Excuse

LEMMA SubsAreIds == \A i \in 1..Len(Subs) : Subs[i] \in Ledger!Ids
BY LedgerAssumption DEF Ledger!Ids

LEMMA LedgerFacts ==
  ASSUME LedgerInv, NEW r \in Reqs
  PROVE  /\ ledgerReq[r] \in Ledger!RequestType /\ Informed(ledgerReq[r], card)
         /\ Len(Subs) \in Nat /\ faults \in 0..MaxFaults /\ MaxFaults \in Nat
         /\ config \in Configs
         /\ card \in [Ledger!Ids -> Ledger!Rows \cup {NoRow}]
BY LedgerAssumption DEF LedgerInv, Ledger!TypeOK

\* A step of one request that keeps the table of the cards, or adds to them.
LEMMA OneLogin ==
  ASSUME LedgerInv, NEW r \in Reqs, NEW new \in Ledger!RequestType, Ledger!Set(r, new),
         card' \in [Ledger!Ids -> Ledger!Rows \cup {NoRow}],
         \A id \in Ledger!Ids : card[id] # NoRow => card'[id] # NoRow,
         deposit' \in [Ledger!Ledgers -> [Ledger!Ids -> Nat]],
         payout' \in [Ledger!Ledgers -> Nat],
         DepositFollowsCard', UNCHANGED Ledger!Staff,
         faults' \in 0..MaxFaults, faults <= faults',
         Informed(new, card'), Uncapped(new) => Excuse'
  PROVE  LedgerInv'
<1>1. /\ \A q \in Reqs \ {r} : ledgerReq'[q] = ledgerReq[q]
      /\ ledgerReq'[r] = new
      /\ ledgerReq' \in [Reqs -> Ledger!RequestType]
  BY DEF LedgerInv, Ledger!TypeOK, Ledger!Set
<1>2. Ledger!TypeOK' BY <1>1 DEF LedgerInv, Ledger!TypeOK, Ledger!Staff
<1>3. ASSUME NEW q \in Reqs PROVE Informed(ledgerReq'[q], card') /\ (Uncapped(ledgerReq[q]) => Excuse)'
  <2>1. CASE q = r BY <1>1, <2>1 DEF Uncapped, Excuse
  <2>2. CASE q # r
    <3>1. Informed(ledgerReq[q], card) /\ (Uncapped(ledgerReq[q]) => Excuse) BY DEF LedgerInv
    <3>2. Informed(ledgerReq'[q], card')
      BY <1>1, <2>2, <3>1, SubsAreIds DEF Informed
    <3>3. faults \in Nat /\ faults' \in Nat BY LedgerFacts
    <3>4. (Uncapped(ledgerReq[q]) => Excuse)'
      BY <1>1, <2>2, <3>1, <3>3 DEF Excuse, Uncapped, Ledger!Staff
    <3> QED BY <3>2, <3>4
  <2> QED BY <2>1, <2>2
<1>4. \A q \in Reqs : (Informed(ledgerReq[q], card) /\ (Uncapped(ledgerReq[q]) => Excuse))'
  BY <1>3 DEF Informed
<1> QED BY <1>2, <1>4 DEF LedgerInv

\* A step of one request that leaves the cards and ledgers alone.
LEMMA OnlyReading ==
  ASSUME LedgerInv, NEW r \in Reqs, NEW new \in Ledger!RequestType, Ledger!Set(r, new),
         UNCHANGED <<Ledger!Store, Ledger!Staff>>, faults' \in 0..MaxFaults,
         faults <= faults', Informed(new, card), Uncapped(new) => Excuse'
  PROVE  LedgerInv'
<1>1. UNCHANGED <<card, deposit, payout>> /\ UNCHANGED Ledger!Staff BY DEF Ledger!Store
<1>2. DepositFollowsCard'
  BY <1>1 DEF LedgerInv, DepositFollowsCard, Ledger!DepositFollowsCard
<1>3. Informed(new, card') BY <1>1
<1> QED BY <1>1, <1>2, <1>3, OneLogin DEF LedgerInv, Ledger!TypeOK

LEMMA DoneStep ==
  ASSUME LedgerInv, NEW r \in Reqs, Ledger!Done(r),
         UNCHANGED <<Ledger!Store, Ledger!Staff>>, faults' \in 0..MaxFaults, faults <= faults'
  PROVE  LedgerInv'
BY FreshRequest, OnlyReading DEF Ledger!Done, Uncapped, Excuse

\* A step that is no draw needs no excuse.
LEMMA NoDraw ==
  ASSUME LedgerInv, NEW r \in Reqs, NEW new \in Ledger!RequestType, Ledger!Set(r, new),
         UNCHANGED <<Ledger!Store, Ledger!Staff, faults>>, Informed(new, card),
         new.at # "drawn" \/ new.capped
  PROVE  LedgerInv'
<1>1. UNCHANGED <<Ledger!Store, Ledger!Staff>> /\ faults' = faults OBVIOUS
<1>2. faults' \in 0..MaxFaults /\ faults <= faults' BY <1>1, LedgerFacts
<1>3. Uncapped(new) => Excuse' BY DEF Uncapped, Excuse
<1> QED BY <1>1, <1>2, <1>3, OnlyReading

LEMMA LoginUserStep ==
  ASSUME LedgerInv, NEW r \in Reqs, Ledger!LoginUser(r)
  PROVE  LedgerInv'
<1> DEFINE new == [Ledger!Fresh EXCEPT !.at = "look", !.i = 1, !.cfg = config]
<1>1. 1 \in 0..(Len(Subs) + 1) /\ 1 \in 1..(Len(Subs) + 1) BY LedgerFacts
<1>2. config \in Configs BY LedgerFacts
<1>3. Ledger!Fresh.create = NoRow BY DEF Ledger!Fresh
<1>4. /\ new \in Ledger!RequestType /\ new.at = "look" /\ new.i = 1 /\ new.cfg = config
      /\ new.create = NoRow
  BY <1>1, <1>2, <1>3, FreshRequest DEF Ledger!RequestType
<1>5. Ledger!Set(r, new) /\ UNCHANGED <<Ledger!Store, Ledger!Staff, faults>>
  BY DEF Ledger!LoginUser
<1> HIDE DEF new
<1>6. Informed(new, card) BY <1>1, <1>2, <1>4 DEF Informed
<1> QED BY <1>4, <1>5, <1>6, NoDraw

LEMMA LookedAtAllStep ==
  ASSUME LedgerInv, NEW r \in Reqs, Ledger!LookedAtAll(r)
  PROVE  LedgerInv'
<1> DEFINE q == ledgerReq[r]
           new == [q EXCEPT !.at = "create", !.id = q.create]
<1>1. /\ q.at = "look" /\ UNCHANGED <<Ledger!Store, Ledger!Staff, faults>>
      /\ faults' \in 0..MaxFaults /\ faults <= faults'
      /\ q \in Ledger!RequestType /\ Informed(q, card)
  BY LedgerFacts DEF Ledger!LookedAtAll
<1>2. CASE q.create = NoRow
  BY <1>1, <1>2, DoneStep DEF Ledger!LookedAtAll
<1>3. CASE q.create # NoRow
  <2>1. /\ new \in Ledger!RequestType /\ new.at = "create" /\ new.id = q.create
        /\ new.cfg = q.cfg /\ new.id \in Ledger!Ids
    BY <1>1, <1>3 DEF Ledger!RequestType
  <2>2. Ledger!Set(r, new) BY <1>3 DEF Ledger!LookedAtAll
  <2> HIDE DEF new
  <2>3. Informed(new, card) BY <1>1, <1>3, <2>1 DEF Informed
  <2> QED BY <1>1, <2>1, <2>2, <2>3, NoDraw
<1> QED BY <1>2, <1>3

LEMMA LoginKeyStep ==
  ASSUME LedgerInv, NEW r \in Reqs, Ledger!LoginKey(r)
  PROVE  LedgerInv'
<1>1. PICK key \in Keys :
        /\ Ledger!Qualifies(config, key)
        /\ Ledger!Set(r, [Ledger!Fresh EXCEPT !.at = "create", !.id = key, !.cfg = config])
  BY DEF Ledger!LoginKey
<1> DEFINE new == [Ledger!Fresh EXCEPT !.at = "create", !.id = key, !.cfg = config]
<1>2. key \in Ledger!Ids /\ config \in Configs
  BY LedgerFacts DEF Ledger!Ids
<1>3. /\ new \in Ledger!RequestType /\ new.at = "create" /\ new.id = key /\ new.cfg = config
  BY <1>2, FreshRequest DEF Ledger!RequestType
<1>4. Ledger!Set(r, new) /\ UNCHANGED <<Ledger!Store, Ledger!Staff, faults>>
  BY <1>1 DEF Ledger!LoginKey
<1> HIDE DEF new
<1>5. Informed(new, card) BY <1>1, <1>2, <1>3 DEF Informed
<1> QED BY <1>3, <1>4, <1>5, NoDraw

LEMMA LookStep ==
  ASSUME LedgerInv, NEW r \in Reqs, Ledger!Look(r)
  PROVE  LedgerInv'
<1> DEFINE q  == ledgerReq[r]
           id == Subs[q.i]
<1>1. /\ q.at = "look" /\ q.i <= Len(Subs)
      /\ UNCHANGED <<Ledger!Store, Ledger!Staff, faults>>
      /\ q \in Ledger!RequestType /\ Informed(q, card)
  BY LedgerFacts DEF Ledger!Look
<1>2. /\ q.i \in 1..Len(Subs) /\ q.i + 1 \in 1..(Len(Subs) + 1)
      /\ q.i + 1 \in 0..(Len(Subs) + 1)
  <2>1. q.i \in 1..(Len(Subs) + 1) BY <1>1 DEF Informed
  <2> QED BY <1>1, <2>1, LedgerAssumption
<1>3. id \in Ledger!Ids /\ q.cfg \in Configs /\ q.create \in Ledger!Ids \cup {NoRow}
  BY <1>1, <1>2, SubsAreIds DEF Informed, Ledger!RequestType
<1>4. q.create # NoRow => Ledger!Qualifies(q.cfg, q.create)
  BY <1>1 DEF Informed
<1> DEFINE next == [q EXCEPT !.i = @ + 1]
<1>5. /\ next \in Ledger!RequestType /\ next.at = "look" /\ next.i = q.i + 1
      /\ next.cfg = q.cfg /\ next.create = q.create
  BY <1>1, <1>2 DEF Ledger!RequestType
<1>6. CASE Ledger!Set(r, next)
  <2> HIDE DEF next
  <2>1. Informed(next, card) BY <1>2, <1>3, <1>4, <1>5 DEF Informed
  <2> QED BY <1>1, <1>5, <1>6, <2>1, NoDraw
<1>7. CASE /\ Ledger!Qualifies(q.cfg, id) /\ card[id] # NoRow
           /\ Ledger!Set(r, [q EXCEPT !.at = "sync", !.seen = card[id]])
  <2> DEFINE new == [q EXCEPT !.at = "sync", !.seen = card[id]]
  <2>1. card[id] \in Ledger!Rows BY <1>3, <1>7, LedgerFacts
  <2>2. /\ new \in Ledger!RequestType /\ new.at = "sync" /\ new.i = q.i
        /\ new.cfg = q.cfg /\ new.create = q.create
    BY <1>1, <2>1 DEF Ledger!RequestType
  <2>4. Ledger!Set(r, new) BY <1>7
  <2> HIDE DEF new
  <2>5. Informed(new, card)
    <3>1. /\ new.i \in 1..(Len(Subs) + 1) /\ new.i \in 1..Len(Subs)
          /\ new.cfg \in Configs
          /\ Ledger!Qualifies(new.cfg, Subs[new.i]) /\ card[Subs[new.i]] # NoRow
          /\ (new.create # NoRow => Ledger!Qualifies(new.cfg, new.create))
      BY <1>2, <1>3, <1>4, <1>7, <2>2, LedgerAssumption
    <3> QED BY <2>2, <3>1, Zenon DEF Informed
  <2> QED BY <1>1, <2>2, <2>4, <2>5, NoDraw
<1>8. CASE /\ Ledger!Qualifies(q.cfg, id)
           /\ Ledger!Set(r, [next EXCEPT !.create = id])
  <2> DEFINE new == [next EXCEPT !.create = id]
  <2>1. next \in Ledger!RequestType BY <1>5
  <2>2. Ledger!Set(r, new) BY <1>8
  <2> HIDE DEF next
  <2>3. /\ new \in Ledger!RequestType /\ new.at = next.at /\ new.i = next.i
        /\ new.cfg = next.cfg /\ new.create = id
    BY <1>3, <2>1 DEF Ledger!RequestType
  <2> HIDE DEF new
  <2>5. Informed(new, card)
    BY <1>2, <1>3, <1>5, <1>8, <2>3 DEF Informed
  <2> QED BY <1>1, <1>5, <2>2, <2>3, <2>5, NoDraw
<1>9. \/ Ledger!Set(r, next)
      \/ /\ Ledger!Qualifies(q.cfg, id) /\ card[id] # NoRow
         /\ Ledger!Set(r, [q EXCEPT !.at = "sync", !.seen = card[id]])
      \/ /\ Ledger!Qualifies(q.cfg, id)
         /\ Ledger!Set(r, [next EXCEPT !.create = id])
  BY DEF Ledger!Look
<1> QED BY <1>6, <1>7, <1>8, <1>9

\* Older deposits are deleted with every deposit.
LEMMA DepositMoves ==
  ASSUME LedgerInv, NEW id \in Ledger!Ids, NEW p \in Ledger!Plans, NEW n \in Nat,
         card' = [card EXCEPT ![id] = [plan |-> p, used |-> n]],
         deposit' = Ledger!Deposited(id, p)
  PROVE  /\ card' \in [Ledger!Ids -> Ledger!Rows \cup {NoRow}]
         /\ \A c \in Ledger!Ids : card[c] # NoRow => card'[c] # NoRow
         /\ deposit' \in [Ledger!Ledgers -> [Ledger!Ids -> Nat]]
         /\ DepositFollowsCard'
<1> DEFINE row == [plan |-> p, used |-> n]
<1>1. row \in Ledger!Rows /\ row # NoRow /\ row.plan = p
  BY LedgerAssumption DEF Ledger!Rows
<1>2. p.share \in Nat /\ Ledger!LedgerOf(p.game) \in Ledger!Ledgers
  BY DEF Ledger!Plans, Ledger!LedgerOf, Ledger!Ledgers
<1>3. /\ card \in [Ledger!Ids -> Ledger!Rows \cup {NoRow}]
      /\ deposit \in [Ledger!Ledgers -> [Ledger!Ids -> Nat]]
  BY DEF LedgerInv, Ledger!TypeOK
<1>4. card' = [card EXCEPT ![id] = row] OBVIOUS
<1> HIDE DEF row
<1>5. /\ card' \in [Ledger!Ids -> Ledger!Rows \cup {NoRow}]
      /\ card'[id] = row /\ \A c \in Ledger!Ids \ {id} : card'[c] = card[c]
  BY <1>1, <1>3, <1>4
<1>6. ASSUME NEW ledger \in Ledger!Ledgers
      PROVE  /\ deposit'[ledger] \in [Ledger!Ids -> Nat]
             /\ deposit'[ledger][id] = IF ledger = Ledger!LedgerOf(p.game) THEN p.share ELSE 0
             /\ \A c \in Ledger!Ids \ {id} : deposit'[ledger][c] = deposit[ledger][c]
  BY <1>2, <1>3 DEF Ledger!Deposited
<1>7. deposit' \in [Ledger!Ledgers -> [Ledger!Ids -> Nat]]
  BY <1>6 DEF Ledger!Deposited
<1>8. DepositFollowsCard'
  BY <1>1, <1>5, <1>6 DEF LedgerInv, DepositFollowsCard, Ledger!DepositFollowsCard
<1> QED BY <1>1, <1>5, <1>7, <1>8

\* A card whose plan is the same keeps its deposit.
LEMMA DepositStays ==
  ASSUME LedgerInv, UNCHANGED deposit,
         card' \in [Ledger!Ids -> Ledger!Rows \cup {NoRow}],
         \A id \in Ledger!Ids : card[id] # NoRow <=> card'[id] # NoRow,
         \A id \in Ledger!Ids : card[id] # NoRow => card'[id].plan = card[id].plan
  PROVE  DepositFollowsCard'
BY DEF LedgerInv, DepositFollowsCard, Ledger!DepositFollowsCard

LEMMA SyncPlanStep ==
  ASSUME LedgerInv, NEW r \in Reqs, Ledger!SyncPlan(r)
  PROVE  LedgerInv'
<1> DEFINE q  == ledgerReq[r]
           id == Subs[q.i]
           new == [q EXCEPT !.at = "look", !.i = @ + 1, !.seen = NoRow]
<1>1. /\ q.at = "sync" /\ q \in Ledger!RequestType /\ Informed(q, card)
      /\ UNCHANGED <<payout, Ledger!Staff, faults>> /\ faults' \in 0..MaxFaults
      /\ payout' \in [Ledger!Ledgers -> Nat]
      /\ card \in [Ledger!Ids -> Ledger!Rows \cup {NoRow}]
      /\ deposit \in [Ledger!Ledgers -> [Ledger!Ids -> Nat]]
  BY LedgerFacts DEF Ledger!SyncPlan, LedgerInv, Ledger!TypeOK
<1>2. /\ q.i \in 1..Len(Subs) /\ id \in Ledger!Ids /\ Ledger!Qualifies(q.cfg, id)
      /\ card[id] \in Ledger!Rows /\ q.cfg \in Configs
      /\ q.create # NoRow => Ledger!Qualifies(q.cfg, q.create)
  BY <1>1, SubsAreIds DEF Informed
<1> DEFINE p == Ledger!PlanOf(q.cfg, id)
<1>0. p \in Ledger!Plans BY <1>2, PlanOfType
<1> HIDE DEF p
<1>3. /\ card' \in [Ledger!Ids -> Ledger!Rows \cup {NoRow}]
      /\ \A c \in Ledger!Ids : card[c] # NoRow => card'[c] # NoRow
      /\ deposit' \in [Ledger!Ledgers -> [Ledger!Ids -> Nat]]
      /\ DepositFollowsCard'
  <2>1. CASE UNCHANGED <<card, deposit>>
    BY <1>1, <2>1, DepositStays
  <2>2. CASE ~UNCHANGED <<card, deposit>>
    <3> DEFINE row == [plan |-> p, used |-> card[id].used]
    <3>1. /\ card' = [card EXCEPT ![id].plan = p]
          /\ deposit' = Ledger!Deposited(id, p)
      BY <2>2 DEF Ledger!SyncPlan, Ledger!UpdateUnused, p
    <3>2. [card[id] EXCEPT !.plan = p] = row /\ card[id].used \in Nat
      BY <1>2 DEF Ledger!Rows
    <3>3. card' = [card EXCEPT ![id] = row] BY <3>1, <3>2
    <3> QED BY <1>0, <1>2, <3>1, <3>2, <3>3, DepositMoves
  <2> QED BY <2>1, <2>2
<1>6. faults <= faults' BY <1>1, LedgerFacts
<1>4. CASE Ledger!Done(r)
  BY <1>1, <1>3, <1>4, <1>6, FreshRequest, OneLogin DEF Ledger!Done, Uncapped, Excuse
<1>5. CASE Ledger!Set(r, new)
  <2>1. /\ q.i + 1 \in 0..(Len(Subs) + 1) /\ q.i + 1 \in 1..(Len(Subs) + 1)
    BY <1>2, LedgerAssumption
  <2>2. /\ new \in Ledger!RequestType /\ new.at = "look" /\ new.i = q.i + 1
        /\ new.cfg = q.cfg /\ new.create = q.create
    BY <1>1, <2>1 DEF Ledger!RequestType
  <2> HIDE DEF new
  <2>3. Informed(new, card') BY <1>2, <2>1, <2>2 DEF Informed
  <2>4. Uncapped(new) => Excuse' BY <2>2 DEF Uncapped, Excuse
  <2> QED BY <1>1, <1>3, <1>5, <1>6, <2>2, <2>3, <2>4, OneLogin
<1> QED BY <1>4, <1>5 DEF Ledger!SyncPlan

LEMMA CreateStep ==
  ASSUME LedgerInv, NEW r \in Reqs, Ledger!Create(r)
  PROVE  LedgerInv'
<1> DEFINE q == ledgerReq[r]
<1> DEFINE p == Ledger!PlanOf(q.cfg, q.id)
<1>0. q.at = "create" /\ Informed(q, card) BY LedgerFacts DEF Ledger!Create
<1>1. /\ q.id \in Ledger!Ids /\ q.cfg \in Configs /\ Ledger!Qualifies(q.cfg, q.id)
      /\ Ledger!Done(r) /\ payout' = payout /\ faults' \in 0..MaxFaults
      /\ UNCHANGED Ledger!Staff
      /\ payout' \in [Ledger!Ledgers -> Nat]
      /\ card \in [Ledger!Ids -> Ledger!Rows \cup {NoRow}]
      /\ deposit \in [Ledger!Ledgers -> [Ledger!Ids -> Nat]]
      /\ faults <= faults'
  BY <1>0, LedgerFacts DEF Ledger!Create, LedgerInv, Ledger!TypeOK, Informed
<1>2. /\ card' \in [Ledger!Ids -> Ledger!Rows \cup {NoRow}]
      /\ \A c \in Ledger!Ids : card[c] # NoRow => card'[c] # NoRow
      /\ deposit' \in [Ledger!Ledgers -> [Ledger!Ids -> Nat]]
      /\ DepositFollowsCard'
  <2>1. CASE UNCHANGED <<card, deposit>>
    BY <1>1, <2>1, DepositStays
  <2>2. CASE Ledger!InsertCard(q.id, p)
    <3>1. p \in Ledger!Plans BY <1>1, PlanOfType
    <3> QED BY <1>1, <2>2, <3>1, DepositMoves DEF Ledger!InsertCard
  <2> QED BY <2>1, <2>2 DEF Ledger!Create
<1> QED BY <1>1, <1>2, FreshRequest, OneLogin DEF Ledger!Done, Uncapped, Excuse

LEMMA CreateFailsStep ==
  ASSUME LedgerInv, NEW r \in Reqs, Ledger!CreateFails(r)
  PROVE  LedgerInv'
<1> DEFINE q == ledgerReq[r]
           new == [q EXCEPT !.tries = @ + 1]
<1>1. /\ q.at = "create" /\ q \in Ledger!RequestType /\ Informed(q, card)
      /\ UNCHANGED <<Ledger!Store, Ledger!Staff>> /\ faults < MaxFaults /\ faults' = faults + 1
  BY LedgerFacts DEF Ledger!CreateFails
<1>2. faults' \in 0..MaxFaults /\ faults <= faults' BY <1>1, LedgerFacts
<1>3. CASE Ledger!Done(r) BY <1>1, <1>2, <1>3, DoneStep
<1>4. CASE q.tries + 1 # Ledger!MaxTries /\ Ledger!Set(r, new)
  <2>1. q.tries \in 0..(Ledger!MaxTries - 1) BY <1>1 DEF Ledger!RequestType
  <2>2. q.tries + 1 \in 0..(Ledger!MaxTries - 1) BY <1>4, <2>1 DEF Ledger!MaxTries
  <2>3. /\ new \in Ledger!RequestType /\ new.at = q.at /\ new.id = q.id /\ new.cfg = q.cfg
    BY <1>1, <2>2 DEF Ledger!RequestType
  <2> HIDE DEF new
  <2>4. Informed(new, card) BY <1>1, <2>3 DEF Informed
  <2>5. Uncapped(new) => Excuse' BY <1>1, <2>3 DEF Uncapped, Excuse
  <2> QED BY <1>1, <1>2, <1>4, <2>3, <2>4, <2>5, OnlyReading
<1> QED BY <1>3, <1>4 DEF Ledger!CreateFails

LEMMA BalanceIsInt ==
  ASSUME LedgerInv, NEW ledger \in Ledger!Ledgers
  PROVE  Ledger!Balance(ledger) \in Int
<1>1. deposit[ledger] \in [Ledger!Ids -> Nat] /\ payout[ledger] \in Nat
  BY DEF LedgerInv, Ledger!TypeOK
<1>2. \A f \in [Ledger!Ids -> Nat] : \A i \in Ledger!Ids : f[i] <= f[i]
  OBVIOUS
<1>3. Ledger!Sum(deposit[ledger]) \in Nat BY <1>1, <1>2, SumGrows
<1> QED BY <1>1, <1>3 DEF Ledger!Balance

LEMMA BeginStep ==
  ASSUME LedgerInv, NEW r \in Reqs, NEW id \in Ledger!Ids, Ledger!Begin(r, id)
  PROVE  LedgerInv'
<1> DEFINE rule == config.rule[card[id].plan.tier]
           new  == [Ledger!Fresh EXCEPT !.at = "draw", !.id = id, !.game = rule.game]
<1>1. /\ card[id] # NoRow /\ card[id] \in Ledger!Rows /\ config \in Ledger!ConfigType
      /\ UNCHANGED <<Ledger!Store, Ledger!Staff, faults>> /\ Ledger!Set(r, new)
  BY LedgerFacts, LedgerAssumption DEF Ledger!Begin
<1>2. rule.game \in Ledger!Games
  BY <1>1 DEF Ledger!ConfigType, Ledger!Rows, Ledger!Plans
<1> HIDE DEF rule
<1>3. new \in Ledger!RequestType /\ new.at = "draw" /\ new.id = id /\ ~new.capped
  BY <1>2, FreshRequest DEF Ledger!RequestType, Ledger!Fresh
<1> HIDE DEF new
<1>4. Informed(new, card) BY <1>1, <1>3 DEF Informed
<1> QED BY <1>1, <1>3, <1>4, NoDraw

LEMMA DrawStep ==
  ASSUME LedgerInv, NEW r \in Reqs, Ledger!Draw(r)
  PROVE  LedgerInv'
<1> DEFINE q == ledgerReq[r]
           balance == Ledger!Balance(Ledger!LedgerOf(q.game))
<1>1. PICK prize \in Ledger!Affordable(balance) :
        Ledger!Set(r, [q EXCEPT !.at = "drawn", !.prize = prize, !.capped = TRUE,
                                !.balance = balance])
  BY DEF Ledger!Draw
<1>2. /\ q.at = "draw" /\ q \in Ledger!RequestType /\ Informed(q, card)
      /\ UNCHANGED <<Ledger!Store, Ledger!Staff, faults>>
  BY LedgerFacts DEF Ledger!Draw
<1>3. balance \in Int BY BalanceIsInt DEF Ledger!LedgerOf, Ledger!Ledgers
<1> HIDE DEF balance
<1>4. prize \in Nat /\ (prize = 0 \/ prize <= balance)
  BY <1>1, LedgerAssumption DEF Ledger!Affordable
<1> DEFINE new == [q EXCEPT !.at = "drawn", !.prize = prize, !.capped = TRUE,
                            !.balance = balance]
<1>5. /\ new \in Ledger!RequestType /\ new.at = "drawn" /\ new.id = q.id /\ new.capped
      /\ new.prize = prize /\ new.balance = balance
  BY <1>2, <1>3, <1>4 DEF Ledger!RequestType
<1>6. Ledger!Set(r, new) BY <1>1
<1> HIDE DEF new
<1>7. Informed(new, card) BY <1>2, <1>4, <1>5 DEF Informed
<1> QED BY <1>2, <1>5, <1>6, <1>7, NoDraw

\* A draw from the fixed prizes takes a fault, or a time without dynamic prizes.
LEMMA DrawFixedStep ==
  ASSUME LedgerInv, NEW r \in Reqs, Ledger!DrawFixed(r)
  PROVE  LedgerInv'
<1> DEFINE q == ledgerReq[r]
<1>1. PICK prize \in 0..MaxPrize :
        Ledger!Set(r, [q EXCEPT !.at = "drawn", !.prize = prize])
  BY DEF Ledger!DrawFixed
<1>2. /\ q.at = "draw" /\ q \in Ledger!RequestType /\ Informed(q, card)
      /\ UNCHANGED <<Ledger!Store, Ledger!Staff>> /\ prize \in Nat
      /\ faults \in 0..MaxFaults /\ MaxFaults \in Nat
  BY LedgerFacts, LedgerAssumption DEF Ledger!DrawFixed
<1>3. /\ faults' \in 0..MaxFaults /\ faults <= faults'
      /\ faults' > 0 \/ ~config.dynamic
  BY <1>2 DEF Ledger!DrawFixed
<1> DEFINE new == [q EXCEPT !.at = "drawn", !.prize = prize]
<1>4. /\ new \in Ledger!RequestType /\ new.at = "drawn" /\ new.id = q.id
      /\ new.capped = q.capped
  BY <1>2 DEF Ledger!RequestType
<1>5. Ledger!Set(r, new) BY <1>1
<1> HIDE DEF new
<1>6. ~q.capped BY <1>2 DEF Informed
<1>7. Informed(new, card) BY <1>2, <1>4, <1>6 DEF Informed
<1>8. Uncapped(new) => Excuse' BY <1>2, <1>3 DEF Excuse, Uncapped, Ledger!Staff
<1> QED BY <1>2, <1>3, <1>4, <1>5, <1>7, <1>8, OnlyReading

LEMMA RecordStep ==
  ASSUME LedgerInv, NEW r \in Reqs, Ledger!Record(r)
  PROVE  LedgerInv'
<1> DEFINE q == ledgerReq[r]
           row == [card[q.id] EXCEPT !.used = @ + 1]
<1>0. q.at = "drawn" /\ Informed(q, card) /\ q \in Ledger!RequestType
  BY LedgerFacts DEF Ledger!Record
<1>1. /\ q.id \in Ledger!Ids /\ card[q.id] # NoRow
      /\ card' = [card EXCEPT ![q.id] = row]
      /\ \/ payout' = [payout EXCEPT ![Ledger!LedgerOf(q.game)] = @ + q.prize]
         \/ payout' = payout
      /\ Ledger!Done(r) /\ UNCHANGED <<deposit, Ledger!Staff>>
      /\ faults' \in 0..MaxFaults /\ faults <= faults'
      /\ card \in [Ledger!Ids -> Ledger!Rows \cup {NoRow}]
      /\ payout \in [Ledger!Ledgers -> Nat]
      /\ deposit \in [Ledger!Ledgers -> [Ledger!Ids -> Nat]]
  BY <1>0, LedgerFacts DEF Ledger!Record, LedgerInv, Ledger!TypeOK, Informed
<1>2. row \in Ledger!Rows /\ row.plan = card[q.id].plan /\ row # NoRow
  <2>1. card[q.id] \in Ledger!Rows BY <1>1
  <2>2. row \in Ledger!Rows /\ row.plan = card[q.id].plan
    <3> HIDE DEF q
    <3> QED BY <2>1 DEF Ledger!Rows
  <2> HIDE DEF row
  <2> QED BY <2>2, LedgerAssumption
<1> HIDE DEF row
<1>3. /\ card' \in [Ledger!Ids -> Ledger!Rows \cup {NoRow}]
      /\ \A c \in Ledger!Ids : card[c] # NoRow <=> card'[c] # NoRow
      /\ \A c \in Ledger!Ids : card[c] # NoRow => card'[c].plan = card[c].plan
  BY <1>1, <1>2
<1>4. DepositFollowsCard' BY <1>1, <1>3, DepositStays
<1>5. payout' \in [Ledger!Ledgers -> Nat]
  <2>1. q.prize \in Nat BY <1>0 DEF Ledger!RequestType
  <2>2. payout[Ledger!LedgerOf(q.game)] + q.prize \in Nat
    BY <1>1, <2>1 DEF Ledger!LedgerOf, Ledger!Ledgers
  <2> QED BY <1>1, <2>2
<1>6. ~Uncapped(Ledger!Fresh) BY FreshRequest DEF Uncapped
<1> QED BY <1>1, <1>3, <1>4, <1>5, <1>6, FreshRequest, OneLogin DEF Ledger!Done

LEMMA FailsStep ==
  ASSUME LedgerInv, NEW r \in Reqs, Ledger!Fails(r)
  PROVE  LedgerInv'
<1>1. faults' \in 0..MaxFaults /\ faults <= faults' BY LedgerFacts DEF Ledger!Fails
<1> QED BY <1>1, DoneStep DEF Ledger!Fails

LEMMA ConfigureStep ==
  ASSUME LedgerInv, NEW cfg \in Configs, Ledger!Configure(cfg)
  PROVE  LedgerInv'
<1>1. /\ changes < MaxChanges /\ changes' = changes + 1 /\ config' = cfg
      /\ UNCHANGED <<card, deposit, payout, ledgerReq, faults>>
  BY DEF Ledger!Configure, Ledger!Store
<1>2. changes' \in 0..MaxChanges /\ changes' > 0
  BY <1>1, LedgerAssumption DEF LedgerInv, Ledger!TypeOK
<1>3. Ledger!TypeOK'
  BY <1>1, <1>2 DEF LedgerInv, Ledger!TypeOK
<1>4. DepositFollowsCard'
  BY <1>1 DEF LedgerInv, DepositFollowsCard, Ledger!DepositFollowsCard
<1>5. \A r \in Reqs : (Informed(ledgerReq[r], card) /\ (Uncapped(ledgerReq[r]) => Excuse))'
  BY <1>1, <1>2 DEF LedgerInv, Informed, Uncapped, Excuse
<1> QED BY <1>3, <1>4, <1>5 DEF LedgerInv

LEMMA LedgerStep ==
  ASSUME LedgerInv, [Ledger!Next]_(Ledger!vars)
  PROVE  LedgerInv'
<1>1. CASE UNCHANGED Ledger!vars
  <2>1. UNCHANGED <<config, card, deposit, payout, ledgerReq, changes, faults>>
    BY <1>1 DEF Ledger!vars
  <2>2. Ledger!TypeOK' BY <2>1 DEF LedgerInv, Ledger!TypeOK
  <2>3. DepositFollowsCard'
    BY <2>1 DEF LedgerInv, DepositFollowsCard, Ledger!DepositFollowsCard
  <2>4. \A r \in Reqs : (Informed(ledgerReq[r], card) /\ (Uncapped(ledgerReq[r]) => Excuse))'
    BY <2>1 DEF LedgerInv, Informed, Uncapped, Excuse
  <2> QED BY <2>2, <2>3, <2>4 DEF LedgerInv
<1>2. CASE \E cfg \in Configs : Ledger!Configure(cfg)
  BY <1>2, ConfigureStep
<1>3. ASSUME NEW r \in Reqs,
             \/ Ledger!LoginUser(r) \/ Ledger!Look(r) \/ Ledger!SyncPlan(r)
             \/ Ledger!LookedAtAll(r) \/ Ledger!LoginKey(r) \/ Ledger!Create(r)
             \/ Ledger!CreateFails(r) \/ (\E id \in Ledger!Ids : Ledger!Begin(r, id))
             \/ Ledger!Draw(r) \/ Ledger!DrawFixed(r) \/ Ledger!Record(r) \/ Ledger!Fails(r)
      PROVE  LedgerInv'
  BY <1>3, LoginUserStep, LookStep, SyncPlanStep, LookedAtAllStep, LoginKeyStep, CreateStep,
     CreateFailsStep, BeginStep, DrawStep, DrawFixedStep, RecordStep, FailsStep
<1> QED BY <1>1, <1>2, <1>3 DEF Ledger!Next

\* However logins read the configuration and the rows, and whatever staff change meanwhile:
\* a card's deposit is that of the plan its row was written from, in the ledger of that
\* plan's game, in full, and in no other (insertLoginCard, syncUnusedSubscriptionCardPlan):
\* for any subscriptions, keys and configurations.
THEOREM DepositsFollowCards == Ledger!Spec => []DepositFollowsCard
<1>1. LedgerInv => DepositFollowsCard BY DEF LedgerInv
<1>2. QED BY LedgerStarts, LedgerStep, <1>1, PTL DEF Ledger!Spec

\* A step that neither draws nor takes a deposit back leaves no ledger overdrawn.
LEMMA OverdrawnStep ==
  ASSUME LedgerInv, LedgerInv', Ledger!Next, NEW ledger \in Ledger!Ledgers
  PROVE  Ledger!HasCause(ledger)
<1> SUFFICES ASSUME Ledger!Balance(ledger) >= 0, Ledger!Balance(ledger)' < 0,
                    \A id \in Ledger!Ids : ~(deposit'[ledger][id] < deposit[ledger][id])
             PROVE  \E r \in Reqs :
                      /\ ledgerReq[r].at = "drawn" /\ ledgerReq'[r].at = "idle"
                      /\ Ledger!LedgerOf(ledgerReq[r].game) = ledger
                      /\ IF ledgerReq[r].capped
                         THEN ledgerReq[r].balance > Ledger!Balance(ledger)
                         ELSE faults > 0 \/ changes > 0
  BY DEF Ledger!HasCause
<1>1. /\ deposit[ledger] \in [Ledger!Ids -> Nat] /\ deposit'[ledger] \in [Ledger!Ids -> Nat]
      /\ payout[ledger] \in Nat /\ payout'[ledger] \in Nat
  BY DEF LedgerInv, Ledger!TypeOK
<1>2. /\ Ledger!Sum(deposit[ledger]) \in Nat /\ Ledger!Sum(deposit'[ledger]) \in Nat
      /\ Ledger!Sum(deposit[ledger]) <= Ledger!Sum(deposit'[ledger])
  <2>1. \A id \in Ledger!Ids : deposit[ledger][id] <= deposit'[ledger][id]
    BY <1>1
  <2> QED BY <1>1, <2>1, SumGrows
<1>3. /\ Ledger!Balance(ledger) = Ledger!Sum(deposit[ledger]) - payout[ledger]
      /\ Ledger!Balance(ledger)' = Ledger!Sum(deposit'[ledger]) - payout'[ledger]
  BY DEF Ledger!Balance
<1>4. payout'[ledger] > payout[ledger] BY <1>1, <1>2, <1>3
<1>5. PICK r \in Reqs : Ledger!Record(r)
  <2>1. payout' # payout BY <1>1, <1>4
  <2>2. ASSUME NEW r \in Reqs
        PROVE  /\ ~Ledger!LoginUser(r) /\ ~Ledger!Look(r) /\ ~Ledger!LookedAtAll(r)
               /\ ~Ledger!LoginKey(r) /\ ~Ledger!CreateFails(r) /\ ~Ledger!Fails(r)
               /\ ~Ledger!Draw(r) /\ ~Ledger!DrawFixed(r)
               /\ \A id : ~Ledger!Begin(r, id)
    BY <2>1 DEF Ledger!LoginUser, Ledger!Look, Ledger!LookedAtAll, Ledger!LoginKey,
       Ledger!CreateFails, Ledger!Fails, Ledger!Draw, Ledger!DrawFixed, Ledger!Begin,
       Ledger!Store
  <2>3. ASSUME NEW r \in Reqs PROVE ~Ledger!SyncPlan(r) /\ ~Ledger!Create(r)
    BY <2>1 DEF Ledger!SyncPlan, Ledger!Create
  <2>4. \A cfg : ~Ledger!Configure(cfg) BY <2>1 DEF Ledger!Configure, Ledger!Store
  <2> QED BY <2>2, <2>3, <2>4 DEF Ledger!Next
<1> DEFINE q == ledgerReq[r]
<1>6. /\ q.at = "drawn" /\ ledgerReq' = [ledgerReq EXCEPT ![r] = Ledger!Fresh]
      /\ payout' = IF config.dynamic
                   THEN [payout EXCEPT ![Ledger!LedgerOf(q.game)] = @ + q.prize]
                   ELSE payout
      /\ deposit' = deposit
      /\ q \in Ledger!RequestType /\ Informed(q, card) /\ (Uncapped(q) => Excuse)
  BY <1>5, LedgerFacts DEF Ledger!Record, Ledger!Done, Ledger!Set, LedgerInv
<1>7. ledgerReq'[r].at = "idle"
  BY <1>6 DEF LedgerInv, Ledger!TypeOK, Ledger!Fresh
<1>8. /\ config.dynamic /\ payout'[ledger] = payout[ledger] + q.prize
      /\ Ledger!LedgerOf(q.game) = ledger
  BY <1>1, <1>4, <1>6 DEF LedgerInv, Ledger!TypeOK
<1>9. ASSUME q.capped PROVE q.balance > Ledger!Balance(ledger)
  <2>1. q.prize \in Nat /\ q.balance \in Int /\ (q.prize = 0 \/ q.prize <= q.balance)
    BY <1>6, <1>9 DEF Informed, Ledger!RequestType
  <2>2. q.prize > Ledger!Balance(ledger) /\ q.prize <= q.balance
    BY <1>1, <1>2, <1>3, <1>4, <1>6, <1>8, <2>1
  <2> QED BY <1>1, <1>2, <1>3, <2>1, <2>2
<1>10. ASSUME ~q.capped PROVE faults > 0 \/ changes > 0
  BY <1>6, <1>8, <1>10 DEF Uncapped, Excuse
<1> QED BY <1>6, <1>7, <1>8, <1>9, <1>10

\* A ledger is overdrawn only by a draw whose balance another draw spent meanwhile, by one
\* from the fixed prizes that had a failed access or another configuration before it, or by a
\* login that takes back the deposit of an unused card (spin_rules.go, prize_pool_store.go).
THEOREM OverdraftsHaveCauses == Ledger!Spec => OverdraftHasCause
<1>1. ASSUME LedgerInv, LedgerInv', [Ledger!Next]_(Ledger!vars)
      PROVE  [\A ledger \in Ledger!Ledgers : Ledger!HasCause(ledger)]_(Ledger!vars)
  BY <1>1, OverdrawnStep
<1>2. QED
  BY LedgerStarts, LedgerStep, <1>1, PTL
     DEF Ledger!Spec, OverdraftHasCause, Ledger!OverdraftHasCause

(***************************************************************************)
(* The limiters at the doors: failures                                     *)
(***************************************************************************)

LEMMA ProductsGrow == \A a, b, c \in Nat : b <= c => a * b <= a * c
  BY SMT

LEMMA OneMore == \A a, b \in Int : a * (b + 1) = a * b + a /\ (b + 1) * a = b * a + a
  BY SMT

LEMMA Quotient == \A a \in Nat, b \in Nat \ {0} : a \div b \in Nat /\ a < (a \div b + 1) * b
  BY SMT

LEMMA FitsIn ==
  ASSUME NEW a \in Nat, NEW b \in Nat \ {0}, NEW m \in Nat, m * b <= a
  PROVE  m <= a \div b
<1> DEFINE q == a \div b
<1>1. q \in Nat /\ a < (q + 1) * b
  BY Quotient
<1>2. CASE m > q
  <2>1. m - (q + 1) \in Nat
    BY <1>1, <1>2
  <2> HIDE DEF q
  <2>2. b * (q + 1) <= b * m
    BY <2>1, <1>1, <1>2, ProductsGrow
  <2> QED
    BY <1>1, <2>2
<1> QED
  BY <1>1, <1>2

\* The shortest time between two lockouts of a key.
Gap == Lockout - Delay

\* The requests that may still tell the limiter of a failure under this key.
Looking(k) == {r \in Reqs : doorReq[r].at = "looking" /\ k \in Door!Range(doorReq[r].keys)}

\* A record after n lockouts, at time t with so many requests under way: the n-th began
\* at the earliest after n - 1 gaps, and while it lasts only those fail who had been let
\* in before.
Locked(rec, limit, t, looking, n) ==
  /\ (n - 1) * Gap <= Window + Delay
  /\ rec.first + (n - 1) * Gap <= t
  /\ rec.first + n * Gap <= rec.until
  /\ rec.count + (IF t < rec.until THEN looking ELSE 0)
       <= limit - 1 + Cardinality(Reqs) * n

Counts(rec, limit, t, looking) ==
  /\ rec.first <= t
  /\ IF rec.count < limit THEN rec.until = 0
     ELSE \E n \in Nat \ {0} : Locked(rec, limit, t, looking, n)

Searching(q) == q.at \in {"asking", "searching"}

\* A request under way began no longer than Delay ago, at its own door.
Timely(q, t) ==
  /\ q.at # "idle" => q.time \in 1..t /\ t <= q.time + Delay
  /\ Searching(q) <=> (q.at # "idle" /\ door = "search")

\* Searches come one by one; those of the last SearchWindow are of this window of the
\* limiter, which counts them, or of the one before.
Windows ==
  /\ \A r, s \in Reqs : (Searching(doorReq[r]) /\ Searching(doorReq[s])) => r = s
  /\ searches.count <= SearchLimit /\ searches.start <= now
  /\ searches.start = 0 => begun = <<>>
  /\ \A i \in 1..Len(begun) : begun[i] + SearchWindow > now
  /\ \A r \in Reqs : doorReq[r].at = "asking" =>
       /\ searches.start <= doorReq[r].time
       /\ \A i \in 1..Len(begun) : begun[i] <= doorReq[r].time
  /\ \E n \in 0..Len(begun) :
       /\ n <= SearchLimit /\ Len(begun) - n <= searches.count
       /\ \A i \in 1..n : begun[i] <= searches.start

\* The inductive invariant.
DoorInv ==
  /\ Door!TypeOK
  /\ \A r \in Reqs : Timely(doorReq[r], now)
  /\ \A k \in Door!Limited : Counts(record[k], Door!Limit(k), now, Cardinality(Looking(k)))
  /\ Windows

LEMMA DoorFacts ==
  /\ Gap \in Nat \ {0} /\ Window \in Nat /\ Lockout \in Nat /\ Delay \in Nat
  /\ Cardinality(Reqs) \in Nat /\ IsFiniteSet(Reqs) /\ Lockout = Gap + Delay
  /\ \A k : Door!Limit(k) \in Nat \ {0}
<1>1. Cardinality(Reqs) \in Nat
  BY DoorAssumption, FS_CardinalityType
<1> QED
  BY <1>1, DoorAssumption DEF Gap, Door!Limit

LEMMA DoorCounts == \A S : Door!Cardinality(S) = Cardinality(S)
  BY DEF Door!Cardinality, Cardinality

LEMMA CleanCounts ==
  ASSUME NEW limit \in Nat \ {0}, NEW t \in Nat, NEW looking \in Nat
  PROVE  Counts(Door!NoRecord, limit, t, looking)
BY DEF Counts, Door!NoRecord

\* Time passes and requests leave; new ones come when the key is not locked.
LEMMA CountsKept ==
  ASSUME NEW rec \in Door!RecordType, NEW limit \in Nat \ {0},
         NEW t \in Nat, NEW u \in Nat, t <= u, NEW before \in Nat, NEW after \in Nat,
         after <= before \/ t >= rec.until,
         Counts(rec, limit, t, before)
  PROVE  Counts(rec, limit, u, after)
<1>1. rec.first \in Nat /\ rec.count \in Nat /\ rec.until \in Nat
  BY DEF Door!RecordType
<1>2. rec.first <= u
  BY <1>1 DEF Counts
<1>3. CASE rec.count < limit
  BY <1>2, <1>3 DEF Counts
<1>4. CASE ~(rec.count < limit)
  <2>1. PICK n \in Nat \ {0} : Locked(rec, limit, t, before, n)
    BY <1>4 DEF Counts
  <2>2. (n - 1) * Gap \in Nat /\ n * Gap \in Nat /\ Cardinality(Reqs) * n \in Nat
    BY DoorFacts
  <2> DEFINE past == (n - 1) * Gap
             most == limit - 1 + Cardinality(Reqs) * n
  <2>3. rec.first + past <= t /\ past \in Nat /\ most \in Int
    BY <2>1, <2>2 DEF Locked
  <2>4. rec.count + (IF t < rec.until THEN before ELSE 0) <= most
    BY <2>1 DEF Locked
  <2>5. rec.first + past <= u
    BY <2>3, <1>1
  <2>6. rec.count + (IF u < rec.until THEN after ELSE 0) <= most
    <3> HIDE DEF most
    <3> QED BY <2>4, <2>3, <1>1
  <2>7. Locked(rec, limit, u, after, n)
    BY <2>1, <2>5, <2>6 DEF Locked
  <2> QED
    BY <1>2, <1>4, <2>7 DEF Counts
<1> QED
  BY <1>3, <1>4

\* What a failure does to a record.
LEMMA NotedAnew ==
  ASSUME NEW rec \in Door!RecordType, NEW k, NEW time \in Nat,
         rec.first = 0 \/ time - rec.first > Window
  PROVE  Door!Noted(rec, k, time) = [count |-> 1, first |-> time,
                                     until |-> IF 1 >= Door!Limit(k) THEN time + Lockout ELSE 0]
<1>1. [Door!NoRecord EXCEPT !.first = time] = [count |-> 0, first |-> time, until |-> 0]
  BY DEF Door!NoRecord
<1> DEFINE base == [count |-> 0, first |-> time, until |-> 0]
<1>2. Door!Noted(rec, k, time)
        = [base EXCEPT !.count = @ + 1,
                       !.until = IF base.count + 1 >= Door!Limit(k) THEN time + Lockout ELSE @]
  BY <1>1 DEF Door!Noted
<1>3. base.count + 1 = 1
  OBVIOUS
<1> QED
  BY <1>2, <1>3

LEMMA NotedAgain ==
  ASSUME NEW rec \in Door!RecordType, NEW k, NEW time \in Nat,
         ~(rec.first = 0 \/ time - rec.first > Window)
  PROVE  Door!Noted(rec, k, time)
           = [count |-> rec.count + 1, first |-> rec.first,
              until |-> IF rec.count + 1 >= Door!Limit(k) THEN time + Lockout ELSE rec.until]
<1>1. Door!Noted(rec, k, time)
        = [rec EXCEPT !.count = @ + 1,
                      !.until = IF rec.count + 1 >= Door!Limit(k) THEN time + Lockout ELSE @]
  BY DEF Door!Noted
<1> QED
  BY <1>1 DEF Door!RecordType

\* One of those under way tells of its failure.
LEMMA CountsNoted ==
  ASSUME NEW rec \in Door!RecordType, NEW k, NEW t \in Nat, NEW time \in 1..t, t <= time + Delay,
         NEW looking \in Nat \ {0}, looking <= Cardinality(Reqs),
         Counts(rec, Door!Limit(k), t, looking)
  PROVE  /\ Door!Noted(rec, k, time) \in Door!RecordType
         /\ Counts(Door!Noted(rec, k, time), Door!Limit(k), t, looking - 1)
<1> DEFINE limit == Door!Limit(k)
           noted == Door!Noted(rec, k, time)
           R     == Cardinality(Reqs)
<1>1. /\ rec.first \in Nat /\ rec.count \in Nat /\ rec.until \in Nat
      /\ limit \in Nat \ {0} /\ R \in Nat /\ rec.first <= t
      /\ Counts(rec, limit, t, looking) /\ looking - 1 \in Nat /\ looking <= R
  BY DoorFacts DEF Door!RecordType, Counts
<1> SUFFICES noted \in Door!RecordType /\ Counts(noted, limit, t, looking - 1)
  OBVIOUS
<1>a. (rec.first = 0 \/ time - rec.first > Window) =>
        /\ noted.first = time /\ noted.count = 1
        /\ noted.until = IF 1 >= limit THEN time + Lockout ELSE 0
        /\ noted \in Door!RecordType
  BY <1>1, NotedAnew, DoorFacts DEF Door!RecordType
<1>b. ~(rec.first = 0 \/ time - rec.first > Window) =>
        /\ noted.first = rec.first /\ noted.count = rec.count + 1
        /\ noted.until = IF rec.count + 1 >= limit THEN time + Lockout ELSE rec.until
        /\ noted \in Door!RecordType
  BY <1>1, NotedAgain, DoorFacts DEF Door!RecordType
<1> HIDE DEF noted, limit, R
<1>2. CASE rec.first = 0 \/ time - rec.first > Window
  <2>1. /\ noted.first = time /\ noted.count = 1
        /\ noted.until = IF 1 >= limit THEN time + Lockout ELSE 0
        /\ noted \in Door!RecordType
    BY <1>2, <1>a
  <2>2. CASE limit > 1
    BY <1>1, <2>1, <2>2 DEF Counts
  <2>3. CASE limit = 1
    <3>1. Locked(noted, limit, t, looking - 1, 1)
      BY <1>1, <2>1, <2>3, DoorFacts DEF Locked, R
    <3> QED
      BY <1>1, <2>1, <2>3, <3>1 DEF Counts
  <2> QED
    BY <1>1, <2>1, <2>2, <2>3
<1>3. CASE ~(rec.first = 0 \/ time - rec.first > Window)
  <2>1. /\ noted.first = rec.first /\ noted.count = rec.count + 1
        /\ noted.until = IF rec.count + 1 >= limit THEN time + Lockout ELSE rec.until
        /\ noted \in Door!RecordType
    BY <1>3, <1>b
  <2>2. CASE rec.count + 1 < limit
    BY <1>1, <2>1, <2>2 DEF Counts
  <2>3. CASE rec.count + 1 = limit
    <3>1. Locked(noted, limit, t, looking - 1, 1)
      BY <1>1, <2>1, <2>3, DoorFacts DEF Locked, R
    <3> QED
      BY <1>1, <2>1, <2>3, <3>1 DEF Counts
  <2>4. CASE rec.count >= limit
    <3>1. PICK n \in Nat \ {0} : Locked(rec, limit, t, looking, n)
      BY <1>1, <2>4 DEF Counts
    <3> DEFINE past == (n - 1) * Gap
               rest == n * Gap
               more == (n + 1) * Gap
               most == R * n
               next == R * (n + 1)
    <3>2. /\ past \in Nat /\ rest = past + Gap /\ more = rest + Gap
          /\ most \in Nat /\ next = most + R
      BY <1>1, DoorFacts, OneMore
    <3>3. /\ past <= Window + Delay /\ rec.first + past <= t
          /\ rec.first + rest <= rec.until
          /\ rec.count + (IF t < rec.until THEN looking ELSE 0) <= limit - 1 + most
      BY <3>1 DEF Locked, R
    <3>4. noted.until \in Nat /\ noted.until >= t + Gap
      BY <1>1, <2>1, <2>4, DoorFacts
    <3>5. Gap \in Nat \ {0} /\ Window \in Nat /\ Delay \in Nat /\ looking <= R
      BY <1>1, DoorFacts
    <3> HIDE DEF past, rest, more, most, next
    <3>6. CASE t < rec.until
      <4>1. /\ noted.first + past <= t /\ noted.first + rest <= noted.until
            /\ noted.count + (IF t < noted.until THEN looking - 1 ELSE 0) <= limit - 1 + most
        BY <1>1, <2>1, <3>2, <3>3, <3>4, <3>5, <3>6
      <4>2. Locked(noted, limit, t, looking - 1, n)
        BY <3>3, <4>1 DEF Locked, past, rest, most, R
      <4> QED
        BY <1>1, <2>1, <2>4, <4>2 DEF Counts
    <3>7. CASE t >= rec.until
      <4>1. rest <= Window + Delay
        BY <1>1, <1>3, <3>2, <3>3, <3>5, <3>7
      <4>2. /\ noted.first + rest <= t /\ noted.first + more <= noted.until
            /\ noted.count + (IF t < noted.until THEN looking - 1 ELSE 0) <= limit - 1 + next
        BY <1>1, <2>1, <3>2, <3>3, <3>4, <3>5, <3>7
      <4>3. Locked(noted, limit, t, looking - 1, n + 1)
        BY <4>1, <4>2 DEF Locked, rest, more, next, R
      <4> QED
        BY <1>1, <2>1, <2>4, <4>3 DEF Counts
    <3> QED
      BY <1>1, <3>6, <3>7
  <2> QED
    BY <1>1, <2>1, <2>2, <2>3, <2>4
<1> QED
  BY <1>2, <1>3

LEMMA IdleIsTimely ==
  Door!Idle \in Door!RequestType /\ ~Searching(Door!Idle) /\ Door!Idle.at = "idle"
    /\ Timely(Door!Idle, now)
BY DEF Timely, Searching, Door!Idle, Door!RequestType

LEMMA DoorStarts == Door!Init => DoorInv
<1> SUFFICES ASSUME Door!Init PROVE DoorInv
  OBVIOUS
<1>1. /\ door \in Door!Doors /\ now = 1 /\ begun = <<>>
      /\ searches.count = 0 /\ searches.start = 0
      /\ \A k \in Door!Limited : record[k] = Door!NoRecord
      /\ \A r \in Reqs : doorReq[r] = Door!Idle
  BY DEF Door!Init
<1>2. Door!TypeOK
  <2>1. Door!NoRecord \in Door!RecordType
    BY DEF Door!NoRecord, Door!RecordType
  <2>2. Door!Idle \in Door!RequestType
    BY DEF Door!Idle, Door!RequestType
  <2>3. record \in [Door!Limited -> Door!RecordType] /\ doorReq \in [Reqs -> Door!RequestType]
    BY <2>1, <2>2 DEF Door!Init
  <2>4. searches \in Door!SearchType /\ begun \in Seq(1..now) /\ now \in 1..MaxTime
    BY DoorAssumption DEF Door!Init, Door!SearchType
  <2> QED
    BY <1>1, <2>3, <2>4 DEF Door!TypeOK
<1>3. \A r \in Reqs : Timely(doorReq[r], now)
  BY <1>1, IdleIsTimely
<1>4. \A k \in Door!Limited : Counts(record[k], Door!Limit(k), now, Cardinality(Looking(k)))
  <2> TAKE k \in Door!Limited
  <2>1. Looking(k) \subseteq Reqs
    BY DEF Looking
  <2>2. Cardinality(Looking(k)) \in Nat
    BY <2>1, DoorFacts, FS_Subset, FS_CardinalityType
  <2> QED
    BY <1>1, <2>2, DoorFacts, CleanCounts
<1>5. Windows
  <2>1. \A r \in Reqs : ~Searching(doorReq[r])
    BY <1>1, IdleIsTimely
  <2>2. Len(begun) = 0
    BY <1>1
  <2> QED
    BY <1>1, <2>1, <2>2, DoorAssumption DEF Windows, Searching
<1> QED
  BY <1>2, <1>3, <1>4, <1>5 DEF DoorInv

LEMMA DoorTyped ==
  ASSUME DoorInv
  PROVE  /\ now \in Nat \ {0} /\ door \in Door!Doors
         /\ record \in [Door!Limited -> Door!RecordType] /\ searches \in Door!SearchType
         /\ doorReq \in [Reqs -> Door!RequestType] /\ begun \in Seq(1..now)
         /\ \A k \in Door!Limited : /\ IsFiniteSet(Looking(k)) /\ Cardinality(Looking(k)) \in Nat
                                    /\ Cardinality(Looking(k)) <= Cardinality(Reqs)
<1>1. ASSUME NEW k \in Door!Limited
      PROVE  /\ IsFiniteSet(Looking(k)) /\ Cardinality(Looking(k)) \in Nat
             /\ Cardinality(Looking(k)) <= Cardinality(Reqs)
  <2>1. Looking(k) \subseteq Reqs
    BY DEF Looking
  <2> QED
    BY <2>1, DoorFacts, FS_Subset, FS_CardinalityType
<1> QED
  BY <1>1, DoorAssumption DEF DoorInv, Door!TypeOK

\* One request moves on.
LEMMA OneVisit ==
  ASSUME DoorInv, NEW r \in Reqs, NEW new \in Door!RequestType,
         doorReq' = [doorReq EXCEPT ![r] = new], UNCHANGED <<door, now>>, Timely(new, now),
         record' \in [Door!Limited -> Door!RecordType], searches' \in Door!SearchType,
         begun' \in Seq(1..now), Windows',
         \A k \in Door!Limited :
           Counts(record'[k], Door!Limit(k), now, Cardinality(Looking(k)'))
  PROVE  DoorInv'
<1>1. doorReq' \in [Reqs -> Door!RequestType]
  BY DoorTyped
<1>2. Door!TypeOK'
  BY <1>1, DoorTyped DEF Door!TypeOK, DoorInv
<1>3. ASSUME NEW s \in Reqs PROVE Timely(doorReq'[s], now)
  BY DoorTyped DEF DoorInv
<1>4. \A s \in Reqs : Timely(doorReq[s], now)'
  BY <1>3 DEF Timely
<1>5. \A k \in Door!Limited : Counts(record[k], Door!Limit(k), now, Cardinality(Looking(k)))'
  <2> TAKE k \in Door!Limited
  <2>1. Counts(record'[k], Door!Limit(k), now, Cardinality(Looking(k)'))
    OBVIOUS
  <2> QED
    BY <2>1 DEF Counts, Locked
<1> QED
  BY <1>2, <1>4, <1>5 DEF DoorInv

\* Who may tell of a failure once a request moves on.
LEMMA LookingLess ==
  ASSUME DoorInv, NEW r \in Reqs, NEW new, doorReq' = [doorReq EXCEPT ![r] = new],
         NEW k \in Door!Limited, new.at # "looking" \/ k \notin Door!Range(new.keys)
  PROVE  /\ Cardinality(Looking(k)') \in Nat
         /\ Cardinality(Looking(k)') <= Cardinality(Looking(k))
         /\ r \in Looking(k) => /\ Cardinality(Looking(k)) \in Nat \ {0}
                                /\ Cardinality(Looking(k)') = Cardinality(Looking(k)) - 1
<1>1. Looking(k)' = Looking(k) \ {r}
  BY DoorTyped DEF Looking
<1>2. IsFiniteSet(Looking(k)) /\ Cardinality(Looking(k)) \in Nat
  BY DoorTyped
<1>3. CASE r \in Looking(k)
  <2>1. Cardinality(Looking(k) \ {r}) = Cardinality(Looking(k)) - 1
    BY <1>2, <1>3, FS_RemoveElement
  <2>2. Cardinality(Looking(k)) # 0
    BY <1>2, <1>3, FS_EmptySet
  <2> QED
    BY <1>1, <1>2, <2>1, <2>2
<1>4. CASE r \notin Looking(k)
  <2>1. Looking(k) \ {r} = Looking(k)
    BY <1>4
  <2>2. Cardinality(Looking(k)') = Cardinality(Looking(k))
    BY <1>1, <2>1
  <2> QED
    BY <1>2, <1>4, <2>2
<1> QED
  BY <1>3, <1>4

\* A request that is not about a search leaves the searches alone.
LEMMA WindowsKept ==
  ASSUME DoorInv, NEW r \in Reqs, NEW new, doorReq' = [doorReq EXCEPT ![r] = new],
         ~Searching(new), UNCHANGED <<now, searches, begun>>
  PROVE  Windows'
<1>1. \A s \in Reqs : Searching(doorReq'[s]) => doorReq'[s] = doorReq[s]
  BY DoorTyped
<1>2. \A s \in Reqs : doorReq'[s].at = "asking" => doorReq'[s] = doorReq[s]
  BY <1>1 DEF Searching
<1>3. \A s, t \in Reqs : (Searching(doorReq'[s]) /\ Searching(doorReq'[t])) => s = t
  BY <1>1 DEF DoorInv, Windows
<1>4. \A s \in Reqs : doorReq'[s].at = "asking" =>
        /\ searches.start <= doorReq'[s].time
        /\ \A i \in 1..Len(begun) : begun[i] <= doorReq'[s].time
  BY <1>2 DEF DoorInv, Windows
<1> QED
  BY <1>3, <1>4 DEF DoorInv, Windows

\* Records are kept or forgotten.
LEMMA RecordsKept ==
  ASSUME DoorInv, NEW k \in Door!Limited, NEW rec \in {record[k], Door!NoRecord},
         NEW looking \in Nat,
         looking <= Cardinality(Looking(k)) \/ now >= record[k].until
  PROVE  rec \in Door!RecordType /\ Counts(rec, Door!Limit(k), now, looking)
<1>1. record[k] \in Door!RecordType /\ Door!NoRecord \in Door!RecordType
  BY DoorTyped DEF Door!NoRecord, Door!RecordType
<1>2. Counts(record[k], Door!Limit(k), now, looking)
  <2>1. Counts(record[k], Door!Limit(k), now, Cardinality(Looking(k)))
    BY DEF DoorInv
  <2>2. now \in Nat /\ Cardinality(Looking(k)) \in Nat /\ Door!Limit(k) \in Nat \ {0}
    BY DoorTyped, DoorFacts
  <2> QED
    BY <1>1, <2>1, <2>2, CountsKept
<1>3. Counts(Door!NoRecord, Door!Limit(k), now, looking)
  BY DoorTyped, DoorFacts, CleanCounts
<1> QED
  BY <1>1, <1>2, <1>3

LEMMA LookedKeeps ==
  ASSUME DoorInv, NEW keys, NEW k \in Door!Limited
  PROVE  Door!Looked(keys)[k] \in {record[k], Door!NoRecord}
BY DEF Door!Looked

LEMMA RefuseStep ==
  ASSUME DoorInv, NEW r \in Reqs, NEW tried \in Cards, Door!Refuse(r, tried)
  PROVE  DoorInv'
<1>1. /\ door # "search" /\ doorReq[r].at = "idle"
      /\ UNCHANGED <<door, now, searches, doorReq, begun>>
      /\ \E keys : record' = Door!Looked(keys)
  BY DEF Door!Refuse
<1>2. PICK keys : record' = Door!Looked(keys)
  BY <1>1
<1>3. doorReq' = [doorReq EXCEPT ![r] = doorReq[r]]
  BY <1>1, DoorTyped
<1>4. \A k \in Door!Limited : Looking(k)' = Looking(k)
  BY <1>1 DEF Looking
<1>5. ASSUME NEW k \in Door!Limited
      PROVE  /\ record'[k] \in Door!RecordType
             /\ Counts(record'[k], Door!Limit(k), now, Cardinality(Looking(k)'))
  <2>1. record'[k] \in {record[k], Door!NoRecord}
    BY <1>2, LookedKeeps
  <2>2. Cardinality(Looking(k)') \in Nat /\ Cardinality(Looking(k)') <= Cardinality(Looking(k))
    BY <1>4, DoorTyped
  <2> QED
    BY <2>1, <2>2, RecordsKept
<1>6. record' \in [Door!Limited -> Door!RecordType]
  <2>1. record' = [k \in Door!Limited |-> record'[k]]
    BY <1>2 DEF Door!Looked
  <2> QED
    BY <2>1, <1>5
<1>7. Windows'
  BY <1>1 DEF DoorInv, Windows
<1>8. doorReq[r] \in Door!RequestType /\ Timely(doorReq[r], now)
  BY DoorTyped DEF DoorInv
<1>9. searches' \in Door!SearchType /\ begun' \in Seq(1..now)
  BY <1>1, DoorTyped
<1> QED
  BY <1>1, <1>3, <1>5, <1>6, <1>7, <1>8, <1>9, OneVisit

LEMMA AdmitStep ==
  ASSUME DoorInv, NEW r \in Reqs, NEW tried \in Cards, Door!Admit(r, tried)
  PROVE  DoorInv'
<1> DEFINE keys == Door!KeysOf(tried)
           new  == [at |-> "looking", keys |-> keys, time |-> now]
<1>1. /\ door # "search" /\ doorReq[r].at = "idle"
      /\ UNCHANGED <<door, now, searches, begun>>
      /\ record' = Door!Looked(keys) /\ doorReq' = [doorReq EXCEPT ![r] = new]
      /\ \A k \in Door!Range(keys) : ~Door!Blocked(k)
  BY DEF Door!Admit
<1>2. keys \in Seq(Door!Limited)
  <2>1. CASE door = "login"
    BY <2>1 DEF Door!KeysOf, Door!Limited
  <2>2. CASE door \in {"admin", "auth"}
    BY <2>2 DEF Door!KeysOf, Door!Limited
  <2> QED
    BY <1>1, <2>1, <2>2, DoorTyped DEF Door!Doors
<1> HIDE DEF keys
<1>3. new.at = "looking" /\ new.time = now /\ new.keys = keys /\ new \in Door!RequestType
  BY <1>2, DoorTyped DEF Door!RequestType
<1> HIDE DEF new
<1>4. ~Searching(new)
  BY <1>3 DEF Searching
<1>5. Timely(new, now)
  <2>1. now \in 1..now /\ now <= now + Delay
    BY DoorTyped, DoorFacts
  <2> QED
    BY <1>1, <1>3, <1>4, <2>1 DEF Timely
<1>6. ASSUME NEW k \in Door!Limited
      PROVE  /\ record'[k] \in Door!RecordType
             /\ Counts(record'[k], Door!Limit(k), now, Cardinality(Looking(k)'))
  <2>1. record'[k] \in {record[k], Door!NoRecord}
    BY <1>1, LookedKeeps
  <2>2. Looking(k)' \subseteq Reqs
    BY DEF Looking
  <2>3. Cardinality(Looking(k)') \in Nat
    BY <2>2, DoorFacts, FS_Subset, FS_CardinalityType
  <2>4. CASE k \in Door!Range(keys)
    <3>1. record[k].until \in Nat /\ (record[k].until = 0 \/ ~(now < record[k].until))
      BY <1>1, <2>4, DoorTyped DEF Door!Blocked, Door!RecordType
    <3>2. now >= record[k].until
      BY <3>1, DoorTyped
    <3> QED
      BY <2>1, <2>3, <3>2, RecordsKept
  <2>5. CASE k \notin Door!Range(keys)
    <3>1. Cardinality(Looking(k)') <= Cardinality(Looking(k))
      BY <1>1, <1>3, <2>5, LookingLess
    <3> QED
      BY <2>1, <2>3, <3>1, RecordsKept
  <2> QED
    BY <2>4, <2>5
<1>7. record' \in [Door!Limited -> Door!RecordType]
  <2>1. record' = [k \in Door!Limited |-> record'[k]]
    BY <1>1 DEF Door!Looked
  <2> QED
    BY <2>1, <1>6
<1>8. Windows'
  BY <1>1, <1>4, WindowsKept
<1>9. searches' \in Door!SearchType /\ begun' \in Seq(1..now)
  BY <1>1, DoorTyped
<1> QED
  BY <1>1, <1>3, <1>5, <1>6, <1>7, <1>8, <1>9, OneVisit

\* A request that was let in leaves, and the records are kept or forgotten.
LEMMA LeaveDoor ==
  ASSUME DoorInv, NEW r \in Reqs, doorReq' = [doorReq EXCEPT ![r] = Door!Idle],
         UNCHANGED <<door, now, searches, begun>>,
         record' \in [Door!Limited -> Door!RecordType],
         \A k \in Door!Limited : record'[k] \in {record[k], Door!NoRecord}
  PROVE  DoorInv'
<1>1. ASSUME NEW k \in Door!Limited
      PROVE  Counts(record'[k], Door!Limit(k), now, Cardinality(Looking(k)'))
  <2>1. Cardinality(Looking(k)') \in Nat /\ Cardinality(Looking(k)') <= Cardinality(Looking(k))
    BY IdleIsTimely, LookingLess
  <2> QED
    BY <2>1, RecordsKept
<1>2. Windows'
  BY IdleIsTimely, WindowsKept
<1>3. searches' \in Door!SearchType /\ begun' \in Seq(1..now)
  BY DoorTyped
<1> QED
  BY <1>1, <1>2, <1>3, IdleIsTimely, OneVisit

LEMMA SucceedStep ==
  ASSUME DoorInv, NEW r \in Reqs, Door!Succeed(r)
  PROVE  DoorInv'
<1> DEFINE last == Door!Last(doorReq[r].keys)
<1>1. /\ record' = [record EXCEPT ![last] = Door!NoRecord]
      /\ doorReq' = [doorReq EXCEPT ![r] = Door!Idle]
      /\ UNCHANGED <<door, now, searches, begun>>
  BY DEF Door!Succeed
<1> HIDE DEF last
<1>2. Door!NoRecord \in Door!RecordType
  BY DEF Door!NoRecord, Door!RecordType
<1>3. /\ record' \in [Door!Limited -> Door!RecordType]
      /\ \A k \in Door!Limited : record'[k] \in {record[k], Door!NoRecord}
  BY <1>1, <1>2, DoorTyped
<1> QED
  BY <1>1, <1>3, LeaveDoor

LEMMA BreakStep ==
  ASSUME DoorInv, NEW r \in Reqs, Door!Break(r)
  PROVE  DoorInv'
<1>1. /\ doorReq' = [doorReq EXCEPT ![r] = Door!Idle]
      /\ UNCHANGED <<door, now, record, searches, begun>>
  BY DEF Door!Break
<1>2. /\ record' \in [Door!Limited -> Door!RecordType]
      /\ \A k \in Door!Limited : record'[k] \in {record[k], Door!NoRecord}
  BY <1>1, DoorTyped
<1> QED
  BY <1>1, <1>2, LeaveDoor

LEMMA FailStep ==
  ASSUME DoorInv, NEW r \in Reqs, Door!Fail(r)
  PROVE  DoorInv'
<1> DEFINE keys == doorReq[r].keys
           time == doorReq[r].time
<1>1. /\ doorReq[r].at = "looking" /\ doorReq' = [doorReq EXCEPT ![r] = Door!Idle]
      /\ record' = [k \in Door!Limited |-> IF k \in Door!Range(keys)
                                           THEN Door!Noted(record[k], k, time) ELSE record[k]]
      /\ UNCHANGED <<door, now, searches, begun>>
  BY DEF Door!Fail
<1>2. time \in 1..now /\ now <= time + Delay
  BY <1>1 DEF DoorInv, Timely
<1>3. ASSUME NEW k \in Door!Limited
      PROVE  /\ record'[k] \in Door!RecordType
             /\ Counts(record'[k], Door!Limit(k), now, Cardinality(Looking(k)'))
  <2>1. /\ Cardinality(Looking(k)') \in Nat
        /\ Cardinality(Looking(k)') <= Cardinality(Looking(k))
        /\ r \in Looking(k) => /\ Cardinality(Looking(k)) \in Nat \ {0}
                               /\ Cardinality(Looking(k)') = Cardinality(Looking(k)) - 1
    BY <1>1, IdleIsTimely, LookingLess
  <2>2. CASE k \in Door!Range(keys)
    <3>1. r \in Looking(k)
      BY <1>1, <2>2 DEF Looking
    <3>2. record'[k] = Door!Noted(record[k], k, time)
      BY <1>1, <2>2
    <3>3. record[k] \in Door!RecordType /\ now \in Nat
      BY DoorTyped
    <3>4. Counts(record[k], Door!Limit(k), now, Cardinality(Looking(k)))
      BY DEF DoorInv
    <3>5. Cardinality(Looking(k)) <= Cardinality(Reqs)
      BY DoorTyped
    <3> HIDE DEF time
    <3> QED
      BY <1>2, <2>1, <3>1, <3>2, <3>3, <3>4, <3>5, CountsNoted
  <2>3. CASE k \notin Door!Range(keys)
    <3>1. record'[k] = record[k]
      BY <1>1, <2>3
    <3> QED
      BY <2>1, <3>1, RecordsKept
  <2> QED
    BY <2>2, <2>3
<1>4. record' \in [Door!Limited -> Door!RecordType]
  <2>1. record' = [k \in Door!Limited |-> record'[k]]
    BY <1>1
  <2> QED
    BY <2>1, <1>3
<1>5. Windows'
  BY <1>1, IdleIsTimely, WindowsKept
<1>6. searches' \in Door!SearchType /\ begun' \in Seq(1..now)
  BY <1>1, DoorTyped
<1> QED
  BY <1>1, <1>3, <1>4, <1>5, <1>6, IdleIsTimely, OneVisit

(***************************************************************************)
(* The limiters at the doors: searches                                     *)
(***************************************************************************)

\* A step of a request about a search leaves the failures alone.
LEMMA SearchVisit ==
  ASSUME DoorInv, NEW r \in Reqs, NEW new \in Door!RequestType,
         doorReq' = [doorReq EXCEPT ![r] = new], UNCHANGED <<door, now, record>>,
         Timely(new, now), Searching(new), searches' \in Door!SearchType,
         begun' \in Seq(1..now), Windows'
  PROVE  DoorInv'
<1>1. ASSUME NEW k \in Door!Limited
      PROVE  Counts(record'[k], Door!Limit(k), now, Cardinality(Looking(k)'))
  <2>1. new.at # "looking"
    BY DEF Searching
  <2>2. Cardinality(Looking(k)') \in Nat /\ Cardinality(Looking(k)') <= Cardinality(Looking(k))
    BY <2>1, LookingLess
  <2> QED
    BY <2>2, RecordsKept
<1>2. record' \in [Door!Limited -> Door!RecordType]
  BY DoorTyped
<1> QED
  BY <1>1, <1>2, OneVisit

LEMMA BeginSearchStep ==
  ASSUME DoorInv, NEW r \in Reqs, Door!BeginSearch(r)
  PROVE  DoorInv'
<1> DEFINE new == [at |-> "asking", keys |-> <<>>, time |-> now]
<1>1. /\ door = "search" /\ doorReq' = [doorReq EXCEPT ![r] = new]
      /\ \A s \in Reqs : doorReq[s].at = "idle"
      /\ UNCHANGED <<door, now, record, searches, begun>>
  BY DEF Door!BeginSearch
<1>2. new \in Door!RequestType /\ new.at = "asking" /\ new.time = now
  BY DoorTyped DEF Door!RequestType
<1> HIDE DEF new
<1>3. Searching(new)
  BY <1>2 DEF Searching
<1>4. Timely(new, now)
  <2>1. now \in 1..now /\ now <= now + Delay
    BY DoorTyped, DoorFacts
  <2> QED
    BY <1>1, <1>2, <1>3, <2>1 DEF Timely
<1>5. \A s \in Reqs : doorReq'[s] = new \/ doorReq'[s].at = "idle"
  BY <1>1, DoorTyped
<1>6. \A s \in Reqs : (s # r) => doorReq'[s].at = "idle"
  BY <1>1, DoorTyped
<1>7. Windows'
  <2>1. \A s, t \in Reqs : (Searching(doorReq'[s]) /\ Searching(doorReq'[t])) => s = t
    BY <1>6 DEF Searching
  <2>2. searches.start <= now /\ \A i \in 1..Len(begun) : begun[i] <= now
    BY DoorTyped DEF DoorInv, Windows
  <2>3. \A s \in Reqs : doorReq'[s].at = "asking" =>
          /\ searches.start <= doorReq'[s].time
          /\ \A i \in 1..Len(begun) : begun[i] <= doorReq'[s].time
    BY <1>2, <1>5, <2>2
  <2> QED
    BY <1>1, <2>1, <2>3 DEF DoorInv, Windows
<1>8. searches' \in Door!SearchType /\ begun' \in Seq(1..now)
  BY <1>1, DoorTyped
<1> QED
  BY <1>1, <1>2, <1>3, <1>4, <1>7, <1>8, SearchVisit

\* The searches that count when another is let in.
LEMMA WindowMoves ==
  ASSUME DoorInv, NEW time \in 1..now,
         searches.start <= time, \A i \in 1..Len(begun) : begun[i] <= time,
         Door!Counted(searches, time).count <= SearchLimit
  PROVE  LET counted == Door!Counted(searches, time)
         IN  /\ counted \in Door!SearchType /\ counted.start \in 1..now
             /\ \E n \in 0..(Len(begun) + 1) :
                  /\ n <= SearchLimit /\ Len(begun) + 1 - n <= counted.count
                  /\ \A i \in 1..n : i <= Len(begun) /\ begun[i] <= counted.start
<1> DEFINE counted == Door!Counted(searches, time)
<1> SUFFICES /\ counted \in Door!SearchType /\ counted.start \in 1..now
             /\ \E n \in 0..(Len(begun) + 1) :
                  /\ n <= SearchLimit /\ Len(begun) + 1 - n <= counted.count
                  /\ \A i \in 1..n : i <= Len(begun) /\ begun[i] <= counted.start
  OBVIOUS
<1>1. /\ searches.count \in Nat /\ searches.start \in Nat /\ now \in Nat \ {0}
      /\ Len(begun) \in Nat /\ SearchWindow \in Nat /\ SearchLimit \in Nat
      /\ \A i \in 1..Len(begun) : begun[i] \in 1..now
  BY DoorTyped, DoorAssumption DEF Door!SearchType
<1>2. /\ searches.count <= SearchLimit /\ searches.start <= now
      /\ searches.start = 0 => Len(begun) = 0
      /\ \A i \in 1..Len(begun) : begun[i] + SearchWindow > now
  BY DEF DoorInv, Windows
<1>3. PICK n \in 0..Len(begun) :
        /\ n <= SearchLimit /\ Len(begun) - n <= searches.count
        /\ \A i \in 1..n : begun[i] <= searches.start
  BY DEF DoorInv, Windows
<1>4. CASE searches.start = 0 \/ time >= searches.start + SearchWindow
  <2>1. counted.count = 1 /\ counted.start = time /\ counted \in Door!SearchType
    BY <1>4 DEF Door!Counted, Door!SearchType
  <2> HIDE DEF counted
  <2>2. n = 0
    <3>1. ASSUME n >= 1 PROVE FALSE
      <4>1. 1 \in 1..Len(begun) /\ 1 \in 1..n
        BY <1>1, <1>3, <3>1
      <4>2. begun[1] <= searches.start /\ begun[1] + SearchWindow > now /\ Len(begun) # 0
        BY <1>1, <1>2, <1>3, <4>1
      <4> QED
        BY <1>1, <1>2, <1>4, <4>1, <4>2
    <3> QED
      BY <1>1, <1>3, <3>1
  <2>3. Len(begun) <= SearchLimit
    BY <1>1, <1>2, <1>3, <2>2
  <2>4. /\ Len(begun) \in 0..(Len(begun) + 1)
        /\ Len(begun) + 1 - Len(begun) <= counted.count
        /\ \A i \in 1..Len(begun) : i <= Len(begun) /\ begun[i] <= counted.start
    BY <1>1, <2>1
  <2> QED
    BY <2>1, <2>3, <2>4
<1>5. CASE ~(searches.start = 0 \/ time >= searches.start + SearchWindow)
  <2>1. /\ counted.count = searches.count + 1 /\ counted.start = searches.start
        /\ counted \in Door!SearchType
    BY <1>5, <1>1, DoorTyped DEF Door!Counted, Door!SearchType
  <2> HIDE DEF counted
  <2>2. /\ n \in 0..(Len(begun) + 1) /\ Len(begun) + 1 - n <= counted.count
        /\ \A i \in 1..n : i <= Len(begun) /\ begun[i] <= counted.start
    BY <1>1, <1>3, <2>1
  <2>3. counted.start \in 1..now
    BY <1>1, <1>2, <1>5, <2>1
  <2> QED
    BY <1>3, <2>1, <2>2, <2>3
<1> QED
  BY <1>4, <1>5

LEMMA CountSearchStep ==
  ASSUME DoorInv, NEW r \in Reqs, Door!CountSearch(r)
  PROVE  DoorInv'
<1> DEFINE time    == doorReq[r].time
           counted == Door!Counted(searches, time)
           new     == [doorReq[r] EXCEPT !.at = "searching"]
<1>1. doorReq[r].at = "asking" /\ UNCHANGED <<door, now, record>>
  BY DEF Door!CountSearch
<1>2. \/ /\ counted.count <= SearchLimit
         /\ searches' = counted /\ begun' = Append(begun, now)
         /\ doorReq' = [doorReq EXCEPT ![r] = new]
      \/ doorReq' = [doorReq EXCEPT ![r] = Door!Idle] /\ UNCHANGED <<searches, begun>>
  BY DEF Door!CountSearch
<1>3. CASE doorReq' = [doorReq EXCEPT ![r] = Door!Idle] /\ UNCHANGED <<searches, begun>>
  <2>1. /\ record' \in [Door!Limited -> Door!RecordType]
        /\ \A k \in Door!Limited : record'[k] \in {record[k], Door!NoRecord}
    BY <1>1, DoorTyped
  <2> QED
    BY <1>1, <1>3, <2>1, LeaveDoor
<1>4. CASE /\ counted.count <= SearchLimit
           /\ searches' = counted /\ begun' = Append(begun, now)
           /\ doorReq' = [doorReq EXCEPT ![r] = new]
  <2>1. new \in Door!RequestType /\ new.at = "searching" /\ new.time = time
    BY DoorTyped DEF Door!RequestType
  <2> HIDE DEF new
  <2>2. /\ time \in 1..now /\ now <= time + Delay /\ door = "search"
        /\ searches.start <= time /\ \A i \in 1..Len(begun) : begun[i] <= time
    BY <1>1 DEF DoorInv, Timely, Windows, Searching
  <2>3. Searching(new) /\ Timely(new, now)
    BY <2>1, <2>2 DEF Searching, Timely
  <2> HIDE DEF time
  <2>4. /\ counted \in Door!SearchType /\ counted.start \in 1..now
        /\ \E n \in 0..(Len(begun) + 1) :
             /\ n <= SearchLimit /\ Len(begun) + 1 - n <= counted.count
             /\ \A i \in 1..n : i <= Len(begun) /\ begun[i] <= counted.start
    BY <1>4, <2>2, WindowMoves
  <2> HIDE DEF counted
  <2>5. /\ begun' \in Seq(1..now) /\ Len(begun') = Len(begun) + 1
        /\ \A i \in 1..Len(begun) : begun'[i] = begun[i]
        /\ begun'[Len(begun) + 1] = now
    BY <1>4, DoorTyped
  <2>6. /\ now \in Nat \ {0} /\ Len(begun) \in Nat /\ SearchWindow \in Nat \ {0}
        /\ \A i \in 1..Len(begun) : begun[i] + SearchWindow > now
    BY DoorTyped, DoorAssumption DEF DoorInv, Windows
  <2>7. Windows'
    <3>1. \A s \in Reqs : Searching(doorReq[s]) => s = r
      BY <1>1 DEF DoorInv, Windows, Searching
    <3>2. \A s \in Reqs : Searching(doorReq'[s]) => s = r /\ doorReq'[s] = new
      BY <1>4, <3>1, DoorTyped
    <3>3. \A s, t \in Reqs : (Searching(doorReq'[s]) /\ Searching(doorReq'[t])) => s = t
      BY <3>2
    <3>4. \A s \in Reqs : doorReq'[s].at # "asking"
      BY <2>1, <3>2 DEF Searching
    <3>5. \A i \in 1..Len(begun') : begun'[i] + SearchWindow > now
      <4> TAKE i \in 1..Len(begun')
      <4>1. CASE i = Len(begun) + 1
        BY <2>5, <2>6, <4>1
      <4>2. CASE i \in 1..Len(begun)
        BY <2>5, <2>6, <4>2
      <4> QED
        BY <2>5, <2>6, <4>1, <4>2
    <3>6. /\ searches'.count <= SearchLimit /\ searches'.start <= now /\ searches'.start # 0
      BY <1>4, <2>4, <2>6
    <3>7. \E n \in 0..Len(begun') :
            /\ n <= SearchLimit /\ Len(begun') - n <= searches'.count
            /\ \A i \in 1..n : begun'[i] <= searches'.start
      <4>1. PICK n \in 0..(Len(begun) + 1) :
              /\ n <= SearchLimit /\ Len(begun) + 1 - n <= counted.count
              /\ \A i \in 1..n : i <= Len(begun) /\ begun[i] <= counted.start
        BY <2>4
      <4>2. \A i \in 1..n : begun'[i] = begun[i]
        BY <2>5, <2>6, <4>1
      <4> QED
        BY <1>4, <2>5, <4>1, <4>2
    <3> QED
      BY <1>1, <3>3, <3>4, <3>5, <3>6, <3>7 DEF Windows
  <2> QED
    BY <1>1, <1>4, <2>1, <2>3, <2>4, <2>5, <2>7, SearchVisit
<1> QED
  BY <1>2, <1>3, <1>4

LEMMA EndSearchStep ==
  ASSUME DoorInv, NEW r \in Reqs, Door!EndSearch(r)
  PROVE  DoorInv'
<1>1. /\ doorReq' = [doorReq EXCEPT ![r] = Door!Idle]
      /\ UNCHANGED <<door, now, record, searches, begun>>
  BY DEF Door!EndSearch
<1>2. /\ record' \in [Door!Limited -> Door!RecordType]
      /\ \A k \in Door!Limited : record'[k] \in {record[k], Door!NoRecord}
  BY <1>1, DoorTyped
<1> QED
  BY <1>1, <1>2, LeaveDoor

(***************************************************************************)
(* The limiters at the doors: time, and the theorem                        *)
(***************************************************************************)

LEMMA TickStep ==
  ASSUME DoorInv, Door!Tick
  PROVE  DoorInv'
<1> DEFINE later == now + 1
<1>1. /\ now < MaxTime /\ now' = later /\ UNCHANGED <<door, record, searches, doorReq>>
      /\ \A r \in Reqs : doorReq[r].at # "idle" => now < doorReq[r].time + Delay
  BY DEF Door!Tick
<1>2. PICK i \in 0..Len(begun) :
        /\ \A j \in 1..Len(begun) : j > i <=> begun[j] + SearchWindow > now + 1
        /\ begun' = SubSeq(begun, i + 1, Len(begun))
  BY DEF Door!Tick
<1>3. /\ now \in Nat \ {0} /\ later \in Nat \ {0} /\ Len(begun) \in Nat /\ begun \in Seq(1..now)
      /\ now <= later /\ later \in 1..MaxTime /\ Delay \in Nat /\ MaxTime \in Nat
      /\ searches.start \in Nat /\ searches.count \in Nat /\ SearchLimit \in Nat
  BY <1>1, DoorTyped, DoorAssumption DEF Door!SearchType
<1>4. /\ begun' \in Seq(1..later) /\ Len(begun') = Len(begun) - i
      /\ \A j \in 1..Len(begun') : begun'[j] = begun[i + j]
  <2>1. /\ Len(begun') = Len(begun) - i
        /\ begun' = [j \in 1..(Len(begun) - i) |-> begun[i + j]]
    BY <1>2, <1>3
  <2>2. \A j \in 1..(Len(begun) - i) : begun[i + j] \in 1..later
    BY <1>2, <1>3
  <2> DEFINE m == Len(begun) - i
  <2>3. m \in Nat
    BY <1>2, <1>3
  <2> HIDE DEF m
  <2>4. [j \in 1..m |-> begun[i + j]] \in Seq(1..later)
    BY <2>2, <2>3 DEF m
  <2>5. \A j \in 1..m : [l \in 1..m |-> begun[i + l]][j] = begun[i + j]
    OBVIOUS
  <2> QED
    BY <2>1, <2>4, <2>5 DEF m
<1>5. ASSUME NEW r \in Reqs PROVE Timely(doorReq[r], later)
  <2>1. Timely(doorReq[r], now) /\ doorReq[r].time \in Nat
    BY DoorTyped DEF DoorInv, Door!RequestType
  <2>2. doorReq[r].at # "idle" => doorReq[r].time \in 1..later /\ later <= doorReq[r].time + Delay
    <3>1. CASE doorReq[r].at # "idle"
      <4>1. now < doorReq[r].time + Delay /\ doorReq[r].time \in 1..now
        BY <1>1, <2>1, <3>1 DEF Timely
      <4> QED
        BY <1>3, <2>1, <4>1
    <3> QED
      BY <3>1
  <2> QED
    BY <2>1, <2>2 DEF Timely
<1>6. \A r \in Reqs : Timely(doorReq[r], now)'
  BY <1>1, <1>5 DEF Timely
<1>7. ASSUME NEW k \in Door!Limited
      PROVE  Counts(record[k], Door!Limit(k), later, Cardinality(Looking(k)))
  <2>1. Counts(record[k], Door!Limit(k), now, Cardinality(Looking(k)))
    BY DEF DoorInv
  <2>2. /\ record[k] \in Door!RecordType /\ Door!Limit(k) \in Nat \ {0}
        /\ Cardinality(Looking(k)) \in Nat
    BY DoorTyped, DoorFacts
  <2> HIDE DEF later
  <2> QED
    BY <1>3, <2>1, <2>2, CountsKept
<1>8. \A k \in Door!Limited : Counts(record[k], Door!Limit(k), now, Cardinality(Looking(k)))'
  <2> TAKE k \in Door!Limited
  <2>1. Looking(k)' = Looking(k)
    BY <1>1 DEF Looking
  <2> QED
    BY <1>1, <1>7, <2>1 DEF Counts, Locked
<1>9. Windows'
  <2>1. \A r, s \in Reqs : (Searching(doorReq'[r]) /\ Searching(doorReq'[s])) => r = s
    BY <1>1 DEF DoorInv, Windows
  <2>2. searches'.count <= SearchLimit /\ searches'.start <= later
    BY <1>1, <1>3 DEF DoorInv, Windows
  <2>3. searches'.start = 0 => begun' = <<>>
    <3>1. CASE searches.start = 0
      <4>1. begun = <<>>
        BY <3>1 DEF DoorInv, Windows
      <4>2. Len(begun') = 0
        BY <1>3, <1>4, <4>1
      <4> QED
        BY <1>4, <4>2
    <3> QED
      BY <1>1, <3>1
  <2>4. \A j \in 1..Len(begun') : begun'[j] + SearchWindow > later
    <3> TAKE j \in 1..Len(begun')
    <3>1. i + j \in 1..Len(begun) /\ i + j > i /\ begun'[j] = begun[i + j]
      BY <1>2, <1>3, <1>4
    <3> QED
      BY <1>2, <3>1
  <2>5. ASSUME NEW r \in Reqs, doorReq'[r].at = "asking"
        PROVE  /\ searches'.start <= doorReq'[r].time
               /\ \A j \in 1..Len(begun') : begun'[j] <= doorReq'[r].time
    <3>1. /\ searches.start <= doorReq[r].time
          /\ \A j \in 1..Len(begun) : begun[j] <= doorReq[r].time
      BY <1>1, <2>5 DEF DoorInv, Windows
    <3>2. \A j \in 1..Len(begun') : i + j \in 1..Len(begun)
      BY <1>2, <1>3, <1>4
    <3> QED
      BY <1>1, <1>4, <3>1, <3>2
  <2>6. \E n \in 0..Len(begun') :
          /\ n <= SearchLimit /\ Len(begun') - n <= searches'.count
          /\ \A j \in 1..n : begun'[j] <= searches'.start
    <3>1. PICK n \in 0..Len(begun) :
            /\ n <= SearchLimit /\ Len(begun) - n <= searches.count
            /\ \A j \in 1..n : begun[j] <= searches.start
      BY DEF DoorInv, Windows
    <3>2. CASE n <= i
      <4>1. 0 \in 0..Len(begun') /\ 0 <= SearchLimit /\ Len(begun') - 0 <= searches'.count
        BY <1>1, <1>2, <1>3, <1>4, <3>1, <3>2
      <4> QED
        BY <4>1
    <3>3. CASE n > i
      <4>1. /\ n - i \in 0..Len(begun') /\ n - i <= SearchLimit
            /\ Len(begun') - (n - i) <= searches'.count
        BY <1>1, <1>2, <1>3, <1>4, <3>1, <3>3
      <4>2. \A j \in 1..(n - i) : /\ i + j \in 1..n /\ j \in 1..Len(begun')
        BY <1>2, <1>3, <1>4, <3>1, <3>3
      <4>3. \A j \in 1..(n - i) : begun'[j] <= searches'.start
        BY <1>1, <1>4, <3>1, <4>2
      <4> QED
        BY <4>1, <4>3
    <3>4. n <= i \/ n > i
      BY <1>2, <1>3, <3>1
    <3> QED
      BY <3>2, <3>3, <3>4
  <2> QED
    BY <1>1, <2>1, <2>2, <2>3, <2>4, <2>5, <2>6 DEF Windows
<1>10. Door!TypeOK'
  BY <1>1, <1>3, <1>4, DoorTyped DEF Door!TypeOK, DoorInv
<1> QED
  BY <1>6, <1>8, <1>9, <1>10 DEF DoorInv

LEMMA DoorStep == DoorInv /\ [Door!Next]_(Door!vars) => DoorInv'
<1> SUFFICES ASSUME DoorInv, [Door!Next]_(Door!vars) PROVE DoorInv'
  OBVIOUS
<1>1. ASSUME NEW r \in Reqs, NEW tried \in Cards, Door!Refuse(r, tried) \/ Door!Admit(r, tried)
      PROVE  DoorInv'
  BY <1>1, RefuseStep, AdmitStep
<1>2. ASSUME NEW r \in Reqs, Door!Fail(r) \/ Door!Succeed(r) \/ Door!Break(r)
      PROVE  DoorInv'
  BY <1>2, FailStep, SucceedStep, BreakStep
<1>3. ASSUME NEW r \in Reqs, Door!BeginSearch(r) \/ Door!CountSearch(r) \/ Door!EndSearch(r)
      PROVE  DoorInv'
  BY <1>3, BeginSearchStep, CountSearchStep, EndSearchStep
<1>4. ASSUME UNCHANGED Door!vars PROVE DoorInv'
  <2>1. UNCHANGED <<door, now, record, searches, doorReq, begun>>
    BY <1>4 DEF Door!vars
  <2>2. Door!TypeOK'
    BY <2>1 DEF DoorInv, Door!TypeOK
  <2>3. \A r \in Reqs : Timely(doorReq[r], now)'
    BY <2>1 DEF DoorInv, Timely
  <2>4. ASSUME NEW k \in Door!Limited
        PROVE  Counts(record[k], Door!Limit(k), now, Cardinality(Looking(k)))'
    <3>1. Looking(k)' = Looking(k)
      BY <2>1 DEF Looking
    <3> QED
      BY <2>1, <3>1 DEF DoorInv, Counts, Locked
  <2>5. Windows'
    BY <2>1 DEF DoorInv, Windows
  <2> QED
    BY <2>2, <2>3, <2>4, <2>5 DEF DoorInv
<1> QED
  BY <1>1, <1>2, <1>3, <1>4, TickStep DEF Door!Next

LEMMA DoorBound ==
  ASSUME DoorInv
  PROVE  AttemptsBounded
<1>1. ASSUME NEW k \in Door!Limited
      PROVE  record[k].count <= Door!Limit(k) - 1
               + Door!Cardinality(Reqs) * (1 + (Window + Delay) \div (Lockout - Delay))
  <2> DEFINE R     == Cardinality(Reqs)
             fits  == (Window + Delay) \div Gap
             limit == Door!Limit(k)
             most  == R * (1 + fits)
  <2>1. /\ R \in Nat /\ limit \in Nat \ {0} /\ Gap \in Nat \ {0} /\ Window + Delay \in Nat
        /\ record[k].count \in Nat /\ Cardinality(Looking(k)) \in Nat
    BY DoorFacts, DoorTyped DEF Door!RecordType
  <2>2. fits \in Nat
    BY <2>1, Quotient
  <2>3. Counts(record[k], limit, now, Cardinality(Looking(k)))
    BY DEF DoorInv
  <2>4. record[k].count <= limit - 1 + most
    <3>1. most \in Nat
      BY <2>1, <2>2
    <3>2. CASE record[k].count < limit
      <4> HIDE DEF most, limit
      <4> QED BY <2>1, <3>1, <3>2
    <3>3. CASE ~(record[k].count < limit)
      <4>1. PICK n \in Nat \ {0} : Locked(record[k], limit, now, Cardinality(Looking(k)), n)
        BY <2>3, <3>3 DEF Counts
      <4>2. (n - 1) * Gap <= Window + Delay
        BY <4>1 DEF Locked
      <4>3. n - 1 <= fits
        BY <2>1, <4>2, FitsIn
      <4>4. n <= 1 + fits
        <5> HIDE DEF fits
        <5> QED BY <2>2, <4>3
      <4>5. R * n <= most /\ R * n \in Nat
        <5> HIDE DEF fits, R
        <5> QED BY <2>1, <2>2, <4>4, ProductsGrow
      <4>6. record[k].count + (IF now < record[k].until THEN Cardinality(Looking(k)) ELSE 0)
              <= limit - 1 + R * n
        BY <4>1 DEF Locked
      <4> DEFINE product == R * n
      <4>7. product \in Nat /\ product <= most /\ record[k].count <= limit - 1 + product
        <5>1. product \in Nat
          BY <4>5
        <5> HIDE DEF R
        <5> HIDE DEF product, limit
        <5> QED BY <2>1, <4>5, <4>6, <5>1 DEF product
      <4> HIDE DEF product, most, limit
      <4> QED
        BY <2>1, <3>1, <4>7
    <3> QED
      BY <3>2, <3>3
  <2> QED
    BY <2>4, DoorCounts DEF Gap
<1>2. Door!LookupsBounded
  BY <1>1 DEF Door!LookupsBounded
<1>3. Len(begun) <= 2 * SearchLimit
  <2>1. PICK n \in 0..Len(begun) : n <= SearchLimit /\ Len(begun) - n <= searches.count
    BY DEF DoorInv, Windows
  <2>2. searches.count <= SearchLimit /\ searches.count \in Nat /\ SearchLimit \in Nat
    BY DoorTyped, DoorAssumption DEF DoorInv, Windows, Door!SearchType
  <2>3. Len(begun) \in Nat
    BY DoorTyped
  <2> QED
    BY <2>1, <2>2, <2>3
<1>4. \A r, s \in Reqs : (doorReq[r].at = "searching" /\ doorReq[s].at = "searching") => r = s
  BY DEF DoorInv, Windows, Searching
<1> QED
  BY <1>2, <1>3, <1>4 DEF AttemptsBounded, Door!AttemptsBounded, Door!SearchesBounded

\* Nobody tries codes, passwords or keys faster than the limiters mean to allow: for every
\* number of concurrent requests, every limit, window and lockout, a client's failures within
\* a window and its searches within a search window are bounded (login_rate_limit.go,
\* admin_login_rate_limit.go, auth_rate_limit.go, search_rate_limit.go).
THEOREM AttemptsAreBounded == Door!Spec => []AttemptsBounded
<1>1. Door!Init => DoorInv
  BY DoorStarts
<1>2. DoorInv /\ [Door!Next]_(Door!vars) => DoorInv'
  BY DoorStep
<1>3. DoorInv => AttemptsBounded
  BY DoorBound
<1> QED
  BY <1>1, <1>2, <1>3, PTL DEF Door!Spec

(***************************************************************************)
(* The three together                                                      *)
(***************************************************************************)

\* What the runs check of the play, of the ledgers and of the limiters holds of all three.
THEOREM PlayIsSound ==
         PartsSpec => /\ [](RoundsBounded /\ OneActiveRow /\ QueuedIsWon /\ FinishedIsQueued)
                      /\ [](DepositFollowsCard /\ AttemptsBounded)
                      /\ FrozenOnceQueued /\ OverdraftHasCause
<1>1. PartsInit => Init /\ Ledger!Init /\ Door!Init BY DEF PartsInit
<1>2. [PartsNext]_allVars => [Next]_vars BY DEF PartsNext, allVars
<1>3. [PartsNext]_allVars => [Ledger!Next]_(Ledger!vars)
  BY DEF PartsNext, allVars, ledgerVars, Ledger!vars
<1>4. [PartsNext]_allVars => [Door!Next]_(Door!vars)
  BY DEF PartsNext, allVars, doorVars, Door!vars
<1>5. PartsSpec => Spec /\ Ledger!Spec /\ Door!Spec
  BY <1>1, <1>2, <1>3, <1>4, PTL DEF PartsSpec, Spec, Ledger!Spec, Door!Spec
<1>6. QED
  BY <1>5, NoExtraRounds, CreditedOnce, CreditIsWhole, WinningsAreQueued, CreditFreezesCard,
     DepositsFollowCards, OverdraftsHaveCauses, AttemptsAreBounded, PTL
=============================================================================
