--------------------------- MODULE RewardPromise ---------------------------
(***************************************************************************)
(* What the payment of subscription winnings promises, with no worker, no  *)
(* lease pool and no network: a prize that was won is paid at most once    *)
(* and with the amount won, a row is closed as done only after its prize   *)
(* was paid, and a closed row stays closed.  (A row given up as failed may *)
(* have been paid: a bind can land after the last retry.)                  *)
(***************************************************************************)
CONSTANTS Cards, Prize

VARIABLES
  stage,  \* how far the card's queue row is
  paid    \* the payments made for the card, as records [id, quota]

vars == <<stage, paid>>

Init ==
  /\ stage = [c \in Cards |-> "none"]
  /\ paid = [c \in Cards |-> {}]

Win(c) ==
  /\ stage[c] = "none"
  /\ stage' = [stage EXCEPT ![c] = "pending"]
  /\ UNCHANGED paid

Pay(c, id) ==
  /\ stage[c] # "none" /\ paid[c] = {}
  /\ paid' = [paid EXCEPT ![c] = {[id |-> id, quota |-> Prize[c]]}]
  /\ UNCHANGED stage

Close(c, to) ==
  /\ stage[c] = "pending"
  /\ to = "done" => paid[c] # {}
  /\ stage' = [stage EXCEPT ![c] = to]
  /\ UNCHANGED paid

Next ==
  \E c \in Cards :
    \/ Win(c)
    \/ \E to \in {"done", "failed"} : Close(c, to)
    \/ \E p \in paid'[c] : Pay(c, p.id)

Spec == Init /\ [][Next]_vars
=============================================================================
