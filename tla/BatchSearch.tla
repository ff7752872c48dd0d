---------------------------- MODULE BatchSearch ----------------------------
(***************************************************************************)
(* Looking up several keys at once (tokens/search.go BatchSearch and       *)
(* combine/api.go searchTokensConcurrent, which share their shape).        *)
(*                                                                         *)
(* The caller feeds the indices of the keys to workers over an unbuffered  *)
(* channel.  The first failure is put into a channel with room for one     *)
(* error, the others are dropped, and a context that all calls share is    *)
(* cancelled; the caller's own context may be cancelled as well.           *)
(***************************************************************************)
EXTENDS Integers, FiniteSets

CONSTANTS
  Count,      \* number of keys
  Workers,    \* goroutines: at most the concurrency, at most one per key
  NoError,    \* nothing in errCh, no error to return
  MaxFaults   \* bound: calls that fail by themselves

VARIABLES
  next,       \* the index the caller feeds next
  closed,     \* the channel of jobs is closed
  worker,     \* per worker: [at, key, err]
  errCh,      \* the error in the channel
  cancelled,  \* searchCtx
  parent,     \* the caller's context is cancelled
  results,    \* indices whose result is stored
  caller,     \* "feeding", "waiting" for the workers with what it will say, "returned"
  outcome,    \* what the caller says: "ok", an error, or NoError with no results
  faults

vars == <<next, closed, worker, errCh, cancelled, parent, results, caller, outcome, faults>>

Errors == {"failure", "context canceled"}
Indices == 1..Count
Ready == [at |-> "ready", key |-> 0, err |-> NoError]

Init ==
  /\ next = 1 /\ closed = FALSE
  /\ worker = [w \in Workers |-> Ready]
  /\ errCh = NoError /\ cancelled = FALSE /\ parent = FALSE
  /\ results = {} /\ caller = "feeding" /\ outcome = NoError /\ faults = 0

Ctx == <<cancelled, parent>>
Told == <<caller, outcome>>

(***************************************************************************)
(* The workers                                                             *)
(***************************************************************************)

Answer(w) ==
  /\ worker[w].at = "searching"
  /\ results' = results \cup {worker[w].key}
  /\ worker' = [worker EXCEPT ![w] = Ready]
  /\ UNCHANGED <<next, closed, errCh, Ctx, Told, faults>>

\* The call fails, or notices that the context is cancelled.
Fail(w) ==
  /\ worker[w].at = "searching"
  /\ \/ /\ faults < MaxFaults /\ faults' = faults + 1
        /\ worker' = [worker EXCEPT ![w].at = "failed", ![w].err = "failure"]
     \/ /\ cancelled /\ UNCHANGED faults
        /\ worker' = [worker EXCEPT ![w].at = "failed", ![w].err = "context canceled"]
  /\ UNCHANGED <<next, closed, errCh, Ctx, results, Told>>

\* Seeded fault: the context is cancelled before the error is sent.
Report_CancelFirst(w) ==
  \/ /\ worker[w].at = "failed" /\ cancelled' = TRUE
     /\ worker' = [worker EXCEPT ![w].at = "reported"] /\ UNCHANGED errCh
  \/ /\ worker[w].at = "reported"
     /\ errCh' = IF errCh = NoError THEN worker[w].err ELSE errCh
     /\ worker' = [worker EXCEPT ![w].at = "done"] /\ UNCHANGED cancelled

\* Send unless the channel is full, then cancel, then end.
Report(w) ==
  \/ /\ worker[w].at = "failed"
     /\ errCh' = IF errCh = NoError THEN worker[w].err ELSE errCh
     /\ worker' = [worker EXCEPT ![w].at = "reported"] /\ UNCHANGED cancelled
  \/ /\ worker[w].at = "reported" /\ cancelled' = TRUE
     /\ worker' = [worker EXCEPT ![w].at = "done"] /\ UNCHANGED errCh

Tell(w) == Report(w) /\ UNCHANGED <<next, closed, parent, results, Told, faults>>

\* No more jobs.
End(w) ==
  /\ worker[w].at = "ready" /\ closed
  /\ worker' = [worker EXCEPT ![w].at = "done"]
  /\ UNCHANGED <<next, closed, errCh, Ctx, results, Told, faults>>

(***************************************************************************)
(* The caller                                                              *)
(***************************************************************************)

\* jobs <- i
Feed(w) ==
  /\ caller = "feeding" /\ next <= Count /\ worker[w].at = "ready"
  /\ worker' = [worker EXCEPT ![w] = [Ready EXCEPT !.at = "searching", !.key = next]]
  /\ next' = next + 1
  /\ UNCHANGED <<closed, errCh, Ctx, results, Told, faults>>

\* <-errCh while feeding: the error is kept for the end.
TakeError ==
  /\ caller = "feeding" /\ next <= Count /\ errCh # NoError
  /\ outcome' = errCh /\ errCh' = NoError /\ cancelled' = TRUE
  /\ closed' = TRUE /\ caller' = "stopped"
  /\ UNCHANGED <<next, worker, parent, results, faults>>

\* <-searchCtx.Done() while feeding.
SeeDone ==
  /\ caller = "feeding" /\ next <= Count /\ cancelled
  /\ closed' = TRUE /\ caller' = "aborted"
  /\ UNCHANGED <<next, worker, errCh, Ctx, results, outcome, faults>>

FedAll ==
  /\ caller = "feeding" /\ next > Count
  /\ closed' = TRUE /\ caller' = "fed"
  /\ UNCHANGED <<next, worker, errCh, Ctx, results, outcome, faults>>

\* What is said once wg.Wait returns.
Verdict ==
  CASE caller = "stopped"                       -> outcome
    [] caller # "stopped" /\ errCh # NoError    -> errCh
    [] caller = "fed" /\ errCh = NoError        -> "ok"
    [] caller = "aborted" /\ errCh = NoError    -> IF parent THEN "context canceled" ELSE NoError

Return ==
  /\ caller \in {"stopped", "aborted", "fed"} /\ \A w \in Workers : worker[w].at = "done"
  /\ outcome' = Verdict /\ caller' = "returned"
  /\ UNCHANGED <<next, closed, worker, errCh, Ctx, results, faults>>

\* The client goes away, or the time of the job is up.
CancelParent ==
  /\ caller # "returned" /\ ~parent
  /\ parent' = TRUE /\ cancelled' = TRUE
  /\ UNCHANGED <<next, closed, worker, errCh, results, Told, faults>>

Work == \/ \E w \in Workers : Answer(w) \/ Fail(w) \/ Tell(w) \/ End(w) \/ Feed(w)
        \/ TakeError \/ SeeDone \/ FedAll \/ Return

Next == Work \/ CancelParent

\* Goroutines run on, and calls end at the latest with the client's timeout.
Fairness == WF_vars(Work)

Spec == Init /\ [][Next]_vars /\ Fairness

(***************************************************************************)
(* Properties                                                              *)
(***************************************************************************)

WorkerType == [at : {"ready", "searching", "failed", "reported", "done"},
               key : Indices \cup {0}, err : Errors \cup {NoError}]

TypeOK ==
  /\ next \in 1..Count + 1 /\ results \subseteq Indices
  /\ errCh \in Errors \cup {NoError} /\ outcome \in Errors \cup {"ok", NoError}
  /\ caller \in {"feeding", "stopped", "aborted", "fed", "returned"}
  /\ worker \in [Workers -> WorkerType] /\ faults \in 0..MaxFaults
  /\ closed \in BOOLEAN /\ cancelled \in BOOLEAN /\ parent \in BOOLEAN

\* The answer covers every key; a failure is neither swallowed nor hidden behind the
\* cancellation it caused: "context canceled" is said only if the caller's own context
\* was cancelled; and no goroutine outlives the call (BatchSearch).
SearchIsHonest ==
  caller = "returned" =>
    /\ outcome # NoError
    /\ outcome = "ok" => results = Indices /\ faults = 0
    /\ outcome = "failure" => faults > 0
    /\ outcome = "context canceled" => parent
    /\ \A w \in Workers : worker[w].at = "done"

\* The call is over.
Returned == caller = "returned"
=============================================================================
