----------------------------- MODULE MergeTrace -----------------------------
(***************************************************************************)
(* The record a merge keeps of itself (combine/trace_write.go,             *)
(* trace_schema.go, merge.go, merge_delete.go, merge_rollback.go).         *)
(*                                                                         *)
(* Every write of the record may fail.  A merge stops when its record or   *)
(* the row of an old card cannot be written; all other failures are only   *)
(* logged.  The process may stop between any two calls, and a new merge    *)
(* throws away what was completed long ago.  What decides over the cards   *)
(* themselves is in TokenMerge; here a call of the upstream succeeds, is   *)
(* refused, or succeeds without an answer.                                 *)
(***************************************************************************)
EXTENDS Integers, FiniteSets

CONSTANTS
  CardsOf,    \* the old cards of each merge, a function
  NoCard,     \* no card
  Retention,  \* traceRetention
  MaxTime,    \* bound: the clock
  MaxFaults   \* bound: writes, calls and processes that fail

VARIABLES
  gone,       \* per merge: the old cards it deleted
  fresh,      \* per merge: whether its new card exists
  record,     \* merge_records: [status, counted, undone, finished]; NoRecord: no row
  rows,       \* merge_tokens of kind source: what delete_ok says, by merge and card
  job,        \* per merge: [at, todo, card, ok, deleted, failed], as mergeCards knows it
  now, faults

vars == <<gone, fresh, record, rows, job, now, faults>>

Merges == DOMAIN CardsOf
Exists(c) == \A m \in Merges : c \notin gone[m]

\* finished is the time of completed_at, 0 for none; a pruned record leaves its mark for
\* the properties.
NoRecord == [status |-> "none", counted |-> 0, undone |-> FALSE, finished |-> 0]
Pruned   == [NoRecord EXCEPT !.status = "pruned"]
NoRows(m) == [c \in CardsOf[m] |-> "none"]

Init ==
  /\ gone = [m \in Merges |-> {}] /\ fresh = [m \in Merges |-> FALSE]
  /\ record = [m \in Merges |-> NoRecord]
  /\ rows = [m \in Merges |-> NoRows(m)]
  /\ job = [m \in Merges |-> [at |-> "queued", todo |-> CardsOf[m], card |-> NoCard,
                              ok |-> FALSE, deleted |-> 0, failed |-> 0]]
  /\ now = 1 /\ faults = 0

Fault == faults < MaxFaults /\ faults' = faults + 1
Fine  == UNCHANGED faults

Go(m, place) == job' = [job EXCEPT ![m].at = place]

\* A write of the record that is logged when it fails.
Note(m, new) ==
  \/ record' = [record EXCEPT ![m] = new] /\ Fine
  \/ UNCHANGED record /\ Fault

(***************************************************************************)
(* createMergeTrace                                                        *)
(***************************************************************************)

\* Seeded fault: records are pruned by their age, completed or not.
Old_Unfinished(m) == record[m].status # "none" /\ now > Retention

Old(m) == record[m].finished # 0 /\ record[m].finished + Retention < now

\* pruneExpiredTraceRows, which may fail.
Start(m) ==
  /\ job[m].at = "queued" /\ Go(m, "recording")
  /\ \/ /\ record' = [o \in Merges |-> IF Old(o) THEN Pruned ELSE record[o]]
        /\ rows' = [o \in Merges |-> IF Old(o) THEN NoRows(o) ELSE rows[o]] /\ Fine
     \/ UNCHANGED <<record, rows>> /\ Fault
  /\ UNCHANGED <<gone, fresh, now>>

MakeRecord(m) ==
  /\ job[m].at = "recording"
  /\ \/ /\ record' = [record EXCEPT ![m] = [NoRecord EXCEPT !.status = "started"]]
        /\ Go(m, "verifying") /\ Fine
     \/ Go(m, "ended") /\ Fault /\ UNCHANGED record
  /\ UNCHANGED <<gone, fresh, rows, now>>

(***************************************************************************)
(* mergeCards                                                              *)
(***************************************************************************)

\* Seeded fault: the row of an old card that cannot be written is only logged.
RowFails_Logged(m, c) == job' = [job EXCEPT ![m].todo = @ \ {c}]

\* The merge stops when the row of an old card cannot be written.
RowFails(m, c) == Go(m, "failing")

Verify(m) ==
  /\ job[m].at = "verifying"
  /\ \E c \in {d \in job[m].todo : Exists(d)} :
       \/ /\ rows' = [rows EXCEPT ![m][c] = "null"]
          /\ job' = [job EXCEPT ![m].todo = @ \ {c}] /\ Fine
       \/ RowFails(m, c) /\ Fault /\ UNCHANGED rows
  /\ UNCHANGED <<gone, fresh, record, now>>

\* A card is missing, busy or not as expected, or the rules forbid the merge.
Refuse(m) ==
  /\ job[m].at = "verifying" /\ Go(m, "failing")
  /\ UNCHANGED <<gone, fresh, record, rows, now, faults>>

\* A new card nobody got an answer about is left behind.
Create(m) ==
  /\ job[m].at = "verifying" /\ job[m].todo = {}
  /\ \/ fresh' = [fresh EXCEPT ![m] = TRUE] /\ Go(m, "renaming") /\ Fine
     \/ fresh' \in {fresh, [fresh EXCEPT ![m] = TRUE]} /\ Go(m, "failing") /\ Fault
  /\ UNCHANGED <<gone, record, rows, now>>

Rename(m) ==
  /\ job[m].at = "renaming"
  /\ \/ job' = [job EXCEPT ![m].at = "deleting", ![m].todo = CardsOf[m]] /\ Fine
     \/ Go(m, "rollback") /\ Fault
  /\ UNCHANGED <<gone, fresh, record, rows, now>>

\* An old card is deleted, or it is refused or its answer is lost, which look the same;
\* a card that somebody else deleted since it was verified is refused as well.
Delete(m) ==
  /\ job[m].at = "deleting"
  /\ \E c \in job[m].todo :
       LET told == [job[m] EXCEPT !.at = "counting", !.todo = @ \ {c}, !.card = c]
           Erase == Exists(c) /\ gone' = [gone EXCEPT ![m] = @ \cup {c}]
       IN  \/ /\ Erase /\ Fine
              /\ job' = [job EXCEPT ![m] = [told EXCEPT !.ok = TRUE, !.deleted = @ + 1]]
           \/ /\ \/ ~Exists(c) /\ UNCHANGED gone /\ Fine
                 \/ (Erase \/ UNCHANGED gone) /\ Fault
              /\ job' = [job EXCEPT ![m] = [told EXCEPT !.ok = FALSE, !.failed = @ + 1]]
  /\ UNCHANGED <<fresh, record, rows, now>>

\* setTraceDeletedCount, after a confirmed deletion only.
Count(m) ==
  /\ job[m].at = "counting" /\ Go(m, "marking")
  /\ IF job[m].ok THEN Note(m, [record[m] EXCEPT !.counted = job[m].deleted])
     ELSE UNCHANGED <<record, faults>>
  /\ UNCHANGED <<gone, fresh, rows, now>>

\* Seeded fault: what an answer did not confirm is recorded as deleted.
Mark_Hopeful(ok) == "yes"

Mark(ok) == IF ok THEN "yes" ELSE "no"

\* setTraceTokenDeleteResult
MarkRow(m) ==
  /\ job[m].at = "marking" /\ Go(m, "deleting")
  /\ \/ rows' = [rows EXCEPT ![m][job[m].card] = Mark(job[m].ok)] /\ Fine
     \/ UNCHANGED rows /\ Fault
  /\ UNCHANGED <<gone, fresh, record, now>>

\* All are deleted, some are, or none is known to be: then the new card is taken back.
EndDelete(m) ==
  /\ job[m].at = "deleting" /\ job[m].todo = {}
  /\ Go(m, IF job[m].failed = 0 THEN "finishing"
           ELSE IF job[m].deleted = 0 THEN "rollback" ELSE "failing")
  /\ UNCHANGED <<gone, fresh, record, rows, now, faults>>

\* attemptRollback and setTraceRollback.
Rollback(m) ==
  /\ job[m].at = "rollback" /\ fresh' = [fresh EXCEPT ![m] = FALSE]
  /\ Go(m, "failing") /\ Note(m, [record[m] EXCEPT !.undone = TRUE])
  /\ UNCHANGED <<gone, rows, now>>

\* The deletion of the new card fails, or nobody knows.
RollbackFails(m) ==
  /\ job[m].at = "rollback" /\ fresh' \in {fresh, [fresh EXCEPT ![m] = FALSE]}
  /\ Go(m, "failing") /\ Fault
  /\ UNCHANGED <<gone, record, rows, now>>

\* finishTrace in the deferred function.
Finish(m) ==
  /\ job[m].at \in {"finishing", "failing"} /\ Go(m, "ended")
  /\ Note(m, [record[m] EXCEPT !.finished = now,
                               !.status = IF job[m].at = "finishing" THEN "done" ELSE "error"])
  /\ UNCHANGED <<gone, fresh, rows, now>>

(***************************************************************************)
(* Surroundings                                                            *)
(***************************************************************************)

\* The process stops: nobody goes on with the merges under way.
Crash ==
  /\ Fault
  /\ job' = [m \in Merges |-> IF job[m].at = "queued" THEN job[m]
                              ELSE [job[m] EXCEPT !.at = "ended"]]
  /\ UNCHANGED <<gone, fresh, record, rows, now>>

Tick == now < MaxTime /\ now' = now + 1 /\ UNCHANGED <<gone, fresh, record, rows, job, faults>>

Next ==
  \/ \E m \in Merges :
       \/ Start(m) \/ MakeRecord(m) \/ Verify(m) \/ Refuse(m) \/ Create(m) \/ Rename(m)
       \/ Delete(m) \/ Count(m) \/ MarkRow(m) \/ EndDelete(m)
       \/ Rollback(m) \/ RollbackFails(m) \/ Finish(m)
  \/ Crash \/ Tick

Spec == Init /\ [][Next]_vars

(***************************************************************************)
(* Properties                                                              *)
(***************************************************************************)

RecordType == [status : {"none", "pruned", "started", "done", "error"}, counted : Nat,
               undone : BOOLEAN, finished : 0..MaxTime]

Places == {"queued", "recording", "verifying", "renaming", "deleting", "counting", "marking",
           "rollback", "finishing", "failing", "ended"}

JobType(m) ==
  [at : Places, todo : SUBSET CardsOf[m], card : CardsOf[m] \cup {NoCard}, ok : BOOLEAN,
   deleted : Nat, failed : Nat]

TypeOK ==
  /\ DOMAIN gone = Merges /\ DOMAIN rows = Merges /\ DOMAIN job = Merges
  /\ fresh \in [Merges -> BOOLEAN] /\ record \in [Merges -> RecordType]
  /\ \A m \in Merges : /\ gone[m] \subseteq CardsOf[m] /\ job[m] \in JobType(m)
                       /\ rows[m] \in [CardsOf[m] -> {"none", "null", "yes", "no"}]
  /\ now \in 1..MaxTime

\* Whatever fails or stops, a card that a merge deleted is found in the record of that
\* merge, until the record was completed and its retention is over: it never vanishes
\* without a trace (upsertTraceToken, pruneExpiredTraceRows).
DeletedIsTraced ==
  \A m \in Merges : \A c \in gone[m] : record[m].status = "pruned" \/ rows[m][c] # "none"

\* A record is thrown away only if its merge is over.
OnlyOldPruned ==
  \A m \in Merges : record[m].status = "pruned" => job[m].at = "ended" /\ now > Retention

\* The record may know less than what happened, never more: what it calls deleted or
\* counts is deleted, a merge it calls done deleted all its cards and left a new one, and
\* a new card it calls undone is gone (setTraceDeletedCount, setTraceTokenDeleteResult,
\* setTraceRollback, finishTrace).
TraceTellsTruth ==
  \A m \in Merges :
    /\ \A c \in CardsOf[m] : rows[m][c] = "yes" => c \in gone[m]
    /\ record[m].counted <= Cardinality(gone[m])
    /\ record[m].status = "done" => gone[m] = CardsOf[m] /\ fresh[m]
    /\ record[m].undone => ~fresh[m]

\* All of them: staff can follow every card that disappeared, as long as records are kept,
\* and are never told of a deletion or a rollback that did not happen (trace_write.go).
TraceIsSound == DeletedIsTraced /\ OnlyOldPruned /\ TraceTellsTruth
=============================================================================
