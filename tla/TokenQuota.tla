----------------------------- MODULE TokenQuota -----------------------------
(***************************************************************************)
(* Paying the prizes of a card that is a token (tokens/mutations.go        *)
(* AddQuota, credit_worker.go, credit_store.go, credit_rules.go).          *)
(*                                                                         *)
(* The worker reads the token and writes it back with the sum as its       *)
(* remaining quota, while the customer goes on spending.  The write may be *)
(* applied although its answer is lost, the row may not be marked as done  *)
(* although it was paid, and the process may stop anywhere.                *)
(***************************************************************************)
EXTENDS Integers, Sequences

CONSTANTS
  Prizes,        \* prizes of the card's rows in credit_queue, in the order of their ids
  InitialQuota,  \* quota of the token at first
  MaxRetries,    \* maxCreditRetries
  MaxFaults      \* bound: calls, writes and processes that fail

ASSUME QuotaAssumption ==
  /\ Prizes \in Seq(Nat \ {0}) /\ InitialQuota \in Nat
  /\ MaxRetries \in Nat \ {0} /\ MaxFaults \in Nat

VARIABLES
  token,       \* at the upstream: [remain, spent, deleted]
  row,         \* credit_queue: [status, retries] by row
  worker,      \* [at, row, read]: the row it pays and the remaining quota it read
  paid, added, \* history: how often a row's prize was added, and their sum
  faults, doubts   \* history: faults, and those that hide a payment from the worker

vars == <<token, row, worker, paid, added, faults, doubts>>

History == <<paid, added>>

RowIds == DOMAIN Prizes
Off == [at |-> "off", row |-> 0, read |-> 0]

Init ==
  /\ token = [remain |-> InitialQuota, spent |-> 0, deleted |-> FALSE]
  /\ row = [i \in RowIds |-> [status |-> "pending", retries |-> 0]]
  /\ worker = Off
  /\ paid = [i \in RowIds |-> 0] /\ added = 0
  /\ faults = 0 /\ doubts = 0

Fault == faults < MaxFaults /\ faults' = faults + 1

\* Seeded fault: rows that were paid are taken again.
Pending_UnlessFailed(i) == row[i].status # "failed" /\ row[i].retries < MaxRetries

\* Seeded fault: a row that failed once is not taken again.
Pending_FirstTry(i) == row[i].status = "pending" /\ row[i].retries = 0

Pending(i) == row[i].status = "pending" /\ row[i].retries < MaxRetries

\* The earliest pending row of the card.
Take ==
  /\ worker.at = "off"
  /\ \E i \in RowIds :
       /\ Pending(i) /\ \A j \in RowIds : Pending(j) => i <= j
       /\ worker' = [at |-> "search", row |-> i, read |-> 0]
  /\ UNCHANGED <<token, row, History, faults, doubts>>

\* SearchTokenByKey answers with the token as it is now.
Search ==
  /\ worker.at = "search" /\ ~token.deleted
  /\ worker' = [worker EXCEPT !.at = "put", !.read = token.remain]
  /\ UNCHANGED <<token, row, History, faults, doubts>>

\* buildCreditFailureUpdate: the last retry gives the row up.
Failed(i) ==
  [row EXCEPT ![i] = [status |-> IF @.retries + 1 >= MaxRetries THEN "failed" ELSE "pending",
                      retries |-> @.retries + 1]]

\* The token is gone, or the call is refused or gets no answer.
SearchFails ==
  /\ worker.at = "search" /\ (IF token.deleted THEN UNCHANGED faults ELSE Fault)
  /\ row' = Failed(worker.row) /\ worker' = Off
  /\ UNCHANGED <<token, History, doubts>>

PutFails ==
  /\ worker.at = "put" /\ (IF token.deleted THEN UNCHANGED faults ELSE Fault)
  /\ row' = Failed(worker.row) /\ worker' = Off
  /\ UNCHANGED <<token, History, doubts>>

\* Seeded fault: the sum is written as the prize alone.
Sum_PrizeAlone(read, prize) == prize

\* The raw token with another remaining quota.
Sum(read, prize) == read + prize

Written ==
  /\ worker.at = "put" /\ ~token.deleted
  /\ token' = [token EXCEPT !.remain = Sum(worker.read, Prizes[worker.row])]
  /\ paid' = [paid EXCEPT ![worker.row] = @ + 1]
  /\ added' = added + Prizes[worker.row]

Put ==
  /\ Written
  /\ worker' = [worker EXCEPT !.at = "mark"]
  /\ UNCHANGED <<row, faults, doubts>>

\* The write is applied and the answer lost.
PutLost ==
  /\ Written /\ Fault /\ doubts' = doubts + 1
  /\ row' = Failed(worker.row) /\ worker' = Off

\* MarkDone; its error is ignored.
Mark ==
  /\ worker.at = "mark" /\ worker' = Off
  /\ \/ row' = [row EXCEPT ![worker.row].status = "done"] /\ UNCHANGED <<faults, doubts>>
     \/ Fault /\ doubts' = doubts + 1 /\ UNCHANGED row
  /\ UNCHANGED <<token, History>>

\* The process stops; the next one starts with the queue.
Crash ==
  /\ worker.at # "off" /\ Fault
  /\ doubts' = IF worker.at = "mark" THEN doubts + 1 ELSE doubts
  /\ worker' = Off
  /\ UNCHANGED <<token, row, History>>

\* The customer uses the token.
Spend ==
  /\ ~token.deleted /\ token.remain > 0
  /\ token' = [token EXCEPT !.remain = @ - 1, !.spent = @ + 1]
  /\ UNCHANGED <<row, worker, History, faults, doubts>>

\* The token is merged into another one, or staff delete it.
Delete ==
  /\ ~token.deleted
  /\ token' = [token EXCEPT !.deleted = TRUE]
  /\ UNCHANGED <<row, worker, History, faults, doubts>>

Work == Take \/ Search \/ SearchFails \/ PutFails \/ Put \/ PutLost \/ Mark

Next == Work \/ Crash \/ Spend \/ Delete

\* The worker passes every three seconds, and its calls end after 30 seconds.
Fairness == WF_vars(Work)

Spec == Init /\ [][Next]_vars /\ Fairness

(***************************************************************************)
(* Properties                                                              *)
(***************************************************************************)

TypeOK ==
  /\ token \in [remain : Nat, spent : Nat, deleted : BOOLEAN]
  /\ row \in [RowIds -> [status : {"pending", "done", "failed"}, retries : 0..MaxRetries]]
  /\ worker \in [at : {"off", "search", "put", "mark"}, row : RowIds \cup {0}, read : Nat]
  /\ paid \in [RowIds -> Nat] /\ added \in Nat /\ faults \in 0..MaxFaults /\ doubts \in 0..MaxFaults

\* A prize is added twice only if the worker could not know of its payment: the answer of
\* the write was lost, the row was not marked, or the process stopped in between.
PaidTwiceNeedsDoubt ==
  \A i \in RowIds : paid[i] <= 1 + doubts

\* The write names a sum that may be stale: it gives back what the customer spent
\* meanwhile, but it never takes anything from the token, neither quota the customer had
\* nor a prize that was added before, and every row marked as done was paid (AddQuota).
NothingTaken ==
  /\ token.remain + token.spent >= InitialQuota + added
  /\ \A i \in RowIds : row[i].status = "done" => paid[i] >= 1

\* Both: paying a card adds each prize and takes nothing, within what the worker can know.
QuotaIsSafe == PaidTwiceNeedsDoubt /\ NothingTaken

\* Every row is settled.
Settled == \A i \in RowIds : row[i].status # "pending"
=============================================================================
