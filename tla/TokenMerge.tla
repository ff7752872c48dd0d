----------------------------- MODULE TokenMerge -----------------------------
(***************************************************************************)
(* Merging cards into a new one (packages/go/fufu/combine: handlers.go,    *)
(* jobs.go, merge.go, merge_delete.go, merge_rollback.go;                  *)
(* packages/go/fufu/tokens/mutations.go).                                  *)
(*                                                                         *)
(* Every merge is a goroutine that talks to the upstream, where the cards  *)
(* are: it looks the cards up, locks them in memory, verifies them, makes  *)
(* a new card with their quota, renames it and deletes the old ones.  A    *)
(* call may fail or be applied although its answer is lost; staff delete   *)
(* cards by hand, without the lock; the process may stop.                  *)
(*                                                                         *)
(* Quota is not counted but followed: a card carries the quota of a set of *)
(* original cards.  Merge m's new card is called m.                        *)
(***************************************************************************)
EXTENDS Integers, FiniteSets

CONSTANTS
  Sources,    \* cards that exist at the start
  Merges,     \* merge jobs, and the cards they make
  Guests,     \* the merges of one client that is not logged in
  MaxActive,  \* maxActiveMergeJobs
  MaxGuest,   \* maxActivePublicMergeJobsPerClient
  Removable,  \* cards that staff may delete by hand
  Lost,       \* calls that may be applied although they return an error
  MaxFaults   \* bound: failed calls and crashes in a behaviour

Cards == Sources \cup Merges

ASSUME CardsAssumption == Sources \cap Merges = {} /\ IsFiniteSet(Merges)
ASSUME LimitsAssumption ==
  /\ Guests \subseteq Merges /\ Removable \subseteq Cards
  /\ MaxActive \in Nat \ {0} /\ MaxGuest \in Nat \ {0} /\ MaxFaults \in Nat
ASSUME LostAssumption == Lost \subseteq {"create", "delete", "rollback"}

VARIABLES
  alive,    \* upstream: the cards that exist
  content,  \* upstream: whose quota the card of a merge carries
  removed,  \* history: the cards deleted by hand
  locks,    \* mergeLocks
  job,      \* mergeJobs: "none", "active", "done", "error"
  pc,       \* where the goroutine of a merge is
  want,     \* the cards the merge was asked to merge
  todo,     \* verified cards whose deletion was not tried yet
  deleted,  \* verified cards whose deletion was confirmed (oldDeleted)
  failed,   \* verified cards whose deletion failed (deleteFailures)
  verdict,  \* how the merge ends, as its result or its error says
  faults    \* failures so far

upstream == <<alive, content, removed>>
memory   == <<locks, job>>
locals   == <<want, todo, deleted, failed, verdict>>
vars == <<alive, content, removed, locks, job, pc, want, todo, deleted,
          failed, verdict, faults>>

Carries(c) == IF c \in Sources THEN {c} ELSE content[c]

Active(J) == {m \in J : job[m] = "active"}

\* A customer can name the original cards and those of merges that ended.
Known == Sources \cup {m \in Merges : pc[m] \in {"ended", "crashed"}}

Fault == faults < MaxFaults /\ faults' = faults + 1

At(m, from, to) == pc[m] = from /\ pc' = [pc EXCEPT ![m] = to]

\* The merge returns an error that says v.
Says(m, v) == verdict' = [verdict EXCEPT ![m] = v]

-----------------------------------------------------------------------------
Init ==
  /\ alive = Sources /\ content = [m \in Merges |-> {}] /\ removed = {}
  /\ locks = {} /\ job = [m \in Merges |-> "none"]
  /\ pc = [m \in Merges |-> "none"]
  /\ want = [m \in Merges |-> {}]
  /\ todo = [m \in Merges |-> {}]
  /\ deleted = [m \in Merges |-> {}]
  /\ failed = [m \in Merges |-> {}]
  /\ verdict = [m \in Merges |-> "none"]
  /\ faults = 0

(* handleMerge and handlePublicMerge: queue a job and start its goroutine. *)
Submit(m, K) ==
  /\ Cardinality(Active(Merges)) < MaxActive
  /\ m \in Guests => Cardinality(Active(Guests)) < MaxGuest
  /\ At(m, "none", "queued")
  /\ want' = [want EXCEPT ![m] = K]
  /\ job' = [job EXCEPT ![m] = "active"]
  /\ UNCHANGED <<upstream, locks, todo, deleted, failed, verdict, faults>>

(* resolveTokensStrict: all cards are found ...                            *)
Resolve(m) ==
  /\ At(m, "queued", "resolved")
  /\ want[m] \subseteq alive
  /\ UNCHANGED <<upstream, memory, locals, faults>>

\* An error before the lock is taken ends the merge.
Abort(m) ==
  /\ Says(m, "refused")
  /\ job' = [job EXCEPT ![m] = "error"]
  /\ UNCHANGED <<upstream, locks, want, todo, deleted, failed, faults>>

(* ... or one is missing, or a lookup or the trace's record failed.        *)
ResolveFails(m) == At(m, "queued", "ended") /\ Abort(m)

(* acquireMergeLock: all cards or none.                                    *)
\* Seeded fault: cards that are locked already are taken too.
Acquire_Shared(m) ==
  /\ At(m, "resolved", "verify")
  /\ locks' = locks \cup want[m]
  /\ UNCHANGED <<upstream, job, locals, faults>>

Acquire(m) ==
  /\ At(m, "resolved", "verify")
  /\ want[m] \cap locks = {}
  /\ locks' = locks \cup want[m]
  /\ UNCHANGED <<upstream, job, locals, faults>>

AcquireFails(m) ==
  /\ At(m, "resolved", "ended")
  /\ want[m] \cap locks # {}
  /\ Abort(m)

(* fetchVerifiedToken for every card, now under the lock ...               *)
Verify(m) ==
  /\ At(m, "verify", "create")
  /\ want[m] \subseteq alive
  /\ UNCHANGED <<upstream, memory, locals, faults>>

(* ... of which one is gone or disabled, or the role may not merge them so *)
(* (ValidateExecuteMergeRequest, BuildMergeTargetPlan).                    *)
VerifyFails(m) ==
  /\ At(m, "verify", "failing")
  /\ Says(m, "refused")
  /\ UNCHANGED <<upstream, memory, want, todo, deleted, failed, faults>>

\* The upstream makes the new card, with the quota of the verified ones.
MakeCard(m) ==
  /\ alive' = alive \cup {m}
  /\ content' = [content EXCEPT ![m] = UNION {Carries(c) : c \in want[m]}]
  /\ UNCHANGED removed

(* createTokenAndResolveKey.                                               *)
Create(m) ==
  /\ At(m, "create", "created")
  /\ MakeCard(m)
  /\ UNCHANGED <<memory, locals, faults>>

\* The card may exist, but its id is not known: there is no rollback.
CreateFails(m) ==
  /\ At(m, "create", "failing") /\ Fault
  /\ \/ UNCHANGED upstream
     \/ "create" \in Lost /\ MakeCard(m)
  /\ Says(m, "not_created")
  /\ UNCHANGED <<memory, want, todo, deleted, failed>>

(* updateTokenRaw gives the card its final name; the deletions follow.     *)
Rename(m) ==
  /\ At(m, "created", "delete")
  /\ todo' = [todo EXCEPT ![m] = want[m]]
  /\ UNCHANGED <<upstream, memory, want, deleted, failed, verdict, faults>>

RenameFails(m) ==
  /\ At(m, "created", "rollback") /\ Fault
  /\ UNCHANGED <<upstream, memory, locals>>

\* deleteToken(c) by the upstream.
Erase(c) == alive' = alive \ {c} /\ UNCHANGED <<content, removed>>

(* The old cards are deleted one by one.                                   *)
DeleteOld(m, c) ==
  /\ pc[m] = "delete" /\ c \in todo[m] \cap alive
  /\ Erase(c)
  /\ todo' = [todo EXCEPT ![m] = @ \ {c}]
  /\ deleted' = [deleted EXCEPT ![m] = @ \cup {c}]
  /\ UNCHANGED <<memory, pc, want, failed, verdict, faults>>

\* buildMergeDeleteOutcome without success.
\* Seeded fault: a card that is not there any more is tried again.
NoteFailure_Retries(m, c) ==
  /\ todo' = [todo EXCEPT ![m] = IF c \in alive THEN @ \ {c} ELSE @]
  /\ failed' = [failed EXCEPT ![m] = @ \cup {c}]

\* Seeded fault: a deletion that failed is not noted.
NoteFailure_Forgets(m, c) ==
  /\ todo' = [todo EXCEPT ![m] = @ \ {c}]
  /\ UNCHANGED failed

NoteFailure(m, c) ==
  /\ todo' = [todo EXCEPT ![m] = @ \ {c}]
  /\ failed' = [failed EXCEPT ![m] = @ \cup {c}]

\* The card is not there any more: the upstream answers with an error ...
DeleteMissing(m, c) ==
  /\ pc[m] = "delete" /\ c \in todo[m] \ alive
  /\ NoteFailure(m, c)
  /\ UNCHANGED <<upstream, memory, pc, want, deleted, verdict, faults>>

\* ... or the call failed, perhaps after it was applied.
DeleteFails(m, c) ==
  /\ pc[m] = "delete" /\ c \in todo[m] /\ Fault
  /\ \/ UNCHANGED upstream
     \/ "delete" \in Lost /\ Erase(c)
  /\ NoteFailure(m, c)
  /\ UNCHANGED <<memory, pc, want, deleted, verdict>>

Deletions(m) == \E c \in todo[m] : DeleteOld(m, c) \/ DeleteMissing(m, c) \/ DeleteFails(m, c)

(* All are deleted: the job is done, while the lock is still held.         *)
Complete(m) ==
  /\ At(m, "delete", "closing")
  /\ todo[m] = {} /\ failed[m] = {}
  /\ verdict' = [verdict EXCEPT ![m] = "done"]
  /\ job' = [job EXCEPT ![m] = "done"]
  /\ UNCHANGED <<upstream, locks, want, todo, deleted, failed, faults>>

(* Some are deleted, some are not: the new card is kept.                   *)
\* Seeded fault: whether an old card is gone already is not asked.
MayUndo_Always(m) == TRUE

MayUndo(m) == deleted[m] = {}

Keep(m) ==
  /\ At(m, "delete", "failing")
  /\ todo[m] = {} /\ failed[m] # {} /\ ~MayUndo(m)
  /\ Says(m, "kept")
  /\ UNCHANGED <<upstream, memory, want, todo, deleted, failed, faults>>

(* None was deleted: the new card is rolled back.                          *)
Undo(m) ==
  /\ At(m, "delete", "rollback")
  /\ todo[m] = {} /\ failed[m] # {} /\ MayUndo(m)
  /\ UNCHANGED <<upstream, memory, locals, faults>>

(* attemptRollback: one attempt to delete the new card.                    *)
Rollback(m) ==
  /\ At(m, "rollback", "failing")
  /\ m \in alive
  /\ Erase(m)
  /\ Says(m, "undone")
  /\ UNCHANGED <<memory, want, todo, deleted, failed, faults>>

RollbackFails(m) ==
  /\ At(m, "rollback", "failing")
  /\ Fault
  /\ \/ UNCHANGED upstream
     \/ "rollback" \in Lost /\ Erase(m)
  /\ Says(m, "not_undone")
  /\ UNCHANGED <<memory, want, todo, deleted, failed>>

(* The deferred releaseMergeLock; then the job's error is stored.          *)
\* Seeded fault: the lock is released on success only.
Unlock_IfDone(m) ==
  /\ pc[m] \in {"closing", "failing"}
  /\ pc' = [pc EXCEPT ![m] = "ended"]
  /\ locks' = IF pc[m] = "closing" THEN locks \ want[m] ELSE locks
  /\ job' = IF pc[m] = "failing" THEN [job EXCEPT ![m] = "error"] ELSE job
  /\ UNCHANGED <<upstream, locals, faults>>

Unlock(m) ==
  /\ pc[m] \in {"closing", "failing"}
  /\ pc' = [pc EXCEPT ![m] = "ended"]
  /\ locks' = locks \ want[m]
  /\ job' = IF pc[m] = "failing" THEN [job EXCEPT ![m] = "error"] ELSE job
  /\ UNCHANGED <<upstream, locals, faults>>

-----------------------------------------------------------------------------
Under(m) == pc[m] \notin {"none", "ended", "crashed"}

(* The process stops: jobs and locks are gone, the upstream remains.       *)
Crash ==
  /\ \E m \in Merges : Under(m)
  /\ Fault
  /\ pc' = [m \in Merges |-> IF Under(m) THEN "crashed" ELSE pc[m]]
  /\ locks' = {} /\ job' = [m \in Merges |-> "none"]
  /\ UNCHANGED <<upstream, locals>>

(* handleDeleteToken: staff delete a card; no lock is looked at.           *)
DeleteByHand(c) ==
  /\ c \in Removable \cap alive \cap Known
  /\ alive' = alive \ {c} /\ removed' = removed \cup {c}
  /\ UNCHANGED <<content, memory, pc, locals, faults>>

Goroutine(m) ==
  \/ Resolve(m) \/ ResolveFails(m) \/ Acquire(m) \/ AcquireFails(m)
  \/ Verify(m) \/ VerifyFails(m) \/ Create(m) \/ CreateFails(m)
  \/ Rename(m) \/ RenameFails(m) \/ Deletions(m)
  \/ Complete(m) \/ Keep(m) \/ Undo(m)
  \/ Rollback(m) \/ RollbackFails(m) \/ Unlock(m)

Next ==
  \/ \E m \in Merges : \/ \E K \in (SUBSET Known) \ {{}} : Submit(m, K)
                       \/ Goroutine(m)
  \/ \E c \in Cards : DeleteByHand(c)
  \/ Crash

Spec == Init /\ [][Next]_vars

\* A goroutine goes on: every call it makes ends with an answer or a timeout.
FairSpec == Spec /\ \A m \in Merges : WF_vars(Goroutine(m))

-----------------------------------------------------------------------------
(* Properties.                                                             *)

Verdicts == {"none", "done", "refused", "not_created", "kept", "undone", "not_undone"}
Places == {"none", "queued", "resolved", "verify", "create", "created", "delete",
           "rollback", "closing", "failing", "ended", "crashed"}

\* Every variable keeps its type.
TypeOK ==
  /\ alive \subseteq Cards /\ removed \subseteq Cards /\ locks \subseteq Cards
  /\ content \in [Merges -> SUBSET Sources]
  /\ job \in [Merges -> {"none", "active", "done", "error"}]
  /\ pc \in [Merges -> Places]
  /\ want \in [Merges -> SUBSET Cards]
  /\ todo \in [Merges -> SUBSET Cards]
  /\ deleted \in [Merges -> SUBSET Cards]
  /\ failed \in [Merges -> SUBSET Cards]
  /\ verdict \in [Merges -> Verdicts]
  /\ faults \in Nat

Holding == {"verify", "create", "created", "delete", "rollback", "closing", "failing"}

(* No card is in the hands of two merges, and the lock table holds exactly *)
(* the cards of the merges under way: none is locked for ever by a merge   *)
(* that ended, however it ended.                                           *)
LocksExact ==
  /\ locks = UNION {want[m] : m \in {n \in Merges : pc[n] \in Holding}}
  /\ \A m, n \in Merges : pc[m] \in Holding /\ pc[n] \in Holding /\ m # n
       => want[m] \cap want[n] = {}

(* The quota of every original card is on some card that exists, whatever  *)
(* merges, failed calls and crashes there were - unless staff deleted a    *)
(* card that carried it, or a deletion was applied without an answer.      *)
Forfeited == UNION {Carries(c) : c \in removed}
NoQuotaLost ==
  \A s \in Sources : s \in Forfeited \/ \E c \in alive : s \in Carries(c)

(* Quota is on two cards at once only while a merge replaces one by the    *)
(* other, or after a merge of that quota was reported as failed half-way   *)
(* or was cut short by a crash.                                            *)
Half(m) == verdict[m] \in {"not_created", "kept", "not_undone"} \/ pc[m] = "crashed"
Replacing(m, c) == pc[m] \in Holding /\ c \in want[m]
DuplicatesReported ==
  \A c, d \in alive : \A s \in Carries(c) \cap Carries(d) :
    \/ c = d
    \/ c \in Merges /\ Replacing(c, d)
    \/ d \in Merges /\ Replacing(d, c)
    \/ \E m \in Merges : Half(m) /\ s \in content[m]

(* Without a failed call or a card deleted by hand no merge ends half-way: *)
(* other merges, of the same cards or not, never get in the way.           *)
HalfwayNeedsFault ==
  faults = 0 /\ removed = {} =>
    \A m \in Merges : verdict[m] \in {"none", "done", "refused"}

(* Every merge that was accepted ends, with a result, an error or a crash. *)
EveryMergeEnds ==
  \A m \in Merges : pc[m] = "queued" ~> pc[m] \in {"ended", "crashed"}

(* "No old card was deleted, the new card was rolled back"                 *)
(* (merge_delete.go:40) is true when a merge says so.                      *)
UndoneIsIntact ==
  \A m \in Merges : verdict[m] = "undone" => want[m] \subseteq alive \cup removed
=============================================================================
