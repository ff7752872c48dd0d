-------------------------- MODULE TokenMergeProofs --------------------------
(***************************************************************************)
(* Theorems about TokenMerge, for any number of cards, merges and faults.  *)
(***************************************************************************)
EXTENDS TokenMerge, TLAPS

-----------------------------------------------------------------------------
(* The inductive invariant behind the properties above.  A merge finds its *)
(* cards as it verified them, or deleted by itself or by hand, since it    *)
(* holds their locks and since nobody can name its new card before it has  *)
(* ended.                                                                  *)

Unmade  == {"none", "queued", "resolved", "verify", "create"}
Made    == {"created", "delete", "rollback"}
Working == {"create"} \cup Made
Over    == {"ended", "crashed"}

\* Only cards of merges that are over can be named or deleted by hand.
NamedAreOld ==
  /\ \A m, c \in Merges : c \in want[m] => pc[c] \in Over
  /\ \A c \in Merges : c \in removed => pc[c] \in Over

\* The new card exists from its creation to its rollback, with the quota of the old ones.
NewCard(m) ==
  /\ pc[m] \in Unmade => m \notin alive /\ content[m] = {}
  /\ pc[m] \in Made => m \in alive /\ content[m] = UNION {Carries(c) : c \in want[m]}
  /\ pc[m] = "failing" => m \notin alive \/ Half(m)
  /\ pc[m] \in Unmade \cup Made => verdict[m] = "none"

\* Every old card is still to be deleted, was deleted or could not be.
OldCards(m) ==
  /\ todo[m] \cup deleted[m] \cup failed[m] \subseteq want[m]
  /\ pc[m] \in Unmade \cup {"created"} => todo[m] \cup deleted[m] \cup failed[m] = {}
  /\ pc[m] = "delete" => want[m] = todo[m] \cup deleted[m] \cup failed[m]
  /\ pc[m] = "delete" => todo[m] \cap (deleted[m] \cup failed[m]) = {}
  /\ pc[m] = "rollback" => deleted[m] = {}
  /\ pc[m] = "closing" => want[m] \cap alive = {}
  /\ deleted[m] \cap alive = {}

\* Nobody else takes the cards of a merge away.
Vanished(m) == removed \cup deleted[m] \cup (IF "delete" \in Lost THEN failed[m] ELSE {})
Undisturbed(m) == pc[m] \in Working => want[m] \subseteq alive \cup Vanished(m)

FaultFreeInv ==
  faults = 0 /\ removed = {} =>
    \A m \in Merges : /\ failed[m] = {} /\ pc[m] # "rollback"
                      /\ verdict[m] \in {"none", "done", "refused"}

\* Cards that are deleted by hand while they are merged count as present.
Present == alive \cup UNION {want[m] : m \in {n \in Merges : pc[n] \in Working}}
Reported(s) == \E m \in Merges : Half(m) /\ s \in content[m]
PresentInv ==
  \A c, d \in Present : \A s \in Carries(c) \cap Carries(d) :
    \/ c = d
    \/ c \in Merges /\ Replacing(c, d)
    \/ d \in Merges /\ Replacing(d, c)
    \/ Reported(s)

MergeInv ==
  /\ LocksExact /\ NamedAreOld
  /\ \A m \in Merges : NewCard(m) /\ OldCards(m) /\ Undisturbed(m)
  /\ FaultFreeInv /\ PresentInv

-----------------------------------------------------------------------------

LEMMA MergeInit == Init => TypeOK /\ MergeInv
<1> SUFFICES ASSUME Init PROVE TypeOK /\ MergeInv
  OBVIOUS
<1> USE DEF Init
<1>1. TypeOK BY DEF TypeOK, Cards, Places, Verdicts
<1>2. LocksExact BY DEF LocksExact, Holding
<1>3. NamedAreOld BY DEF NamedAreOld
<1>4. \A m \in Merges : NewCard(m) BY CardsAssumption DEF NewCard, Unmade, Made
<1>5. \A m \in Merges : OldCards(m) BY DEF OldCards, Unmade
<1>6. \A m \in Merges : Undisturbed(m) BY DEF Undisturbed, Working, Made
<1>7. FaultFreeInv BY DEF FaultFreeInv
<1>8. PresentInv
  <2>1. Present = Sources BY DEF Present, Working, Made
  <2> QED BY <2>1 DEF PresentInv, Carries
<1> QED BY <1>1, <1>2, <1>3, <1>4, <1>5, <1>6, <1>7, <1>8 DEF MergeInv

LEMMA CarriesType == ASSUME TypeOK, NEW c \in Cards PROVE Carries(c) \subseteq Sources
BY DEF TypeOK, Carries, Cards

LEMMA MakeCardType ==
  ASSUME TypeOK, NEW m \in Merges, MakeCard(m)
  PROVE  alive' \subseteq Cards /\ content' \in [Merges -> SUBSET Sources] /\ removed' = removed
<1>1. UNION {Carries(c) : c \in want[m]} \subseteq Sources
  BY CarriesType DEF TypeOK
<1> QED BY <1>1 DEF MakeCard, TypeOK, Cards

LEMMA TypeStep == TypeOK /\ [Next]_vars => TypeOK'
<1> SUFFICES ASSUME TypeOK, [Next]_vars PROVE TypeOK'
  OBVIOUS
<1> USE DEF At, Says, upstream, memory, locals
<1>1. ASSUME NEW m \in Merges, NEW K \in (SUBSET Known) \ {{}}, Submit(m, K)
      PROVE  TypeOK'
  BY <1>1 DEF Submit, Known, TypeOK, Cards, Places
<1>2. ASSUME NEW m \in Merges, Resolve(m) \/ ResolveFails(m) \/ Acquire(m) \/ AcquireFails(m)
      PROVE  TypeOK'
  BY <1>2 DEF Resolve, ResolveFails, Acquire, AcquireFails, Abort, TypeOK, Places, Verdicts
<1>3. ASSUME NEW m \in Merges, Verify(m) \/ VerifyFails(m) \/ Rename(m) \/ RenameFails(m)
      PROVE  TypeOK'
  <2>1. CASE Verify(m) BY <2>1 DEF Verify, TypeOK, Places
  <2>2. CASE VerifyFails(m) BY <2>2 DEF VerifyFails, TypeOK, Places, Verdicts
  <2>3. CASE Rename(m) BY <2>3 DEF Rename, TypeOK, Places
  <2>4. CASE RenameFails(m) BY <2>4 DEF RenameFails, Fault, TypeOK, Places
  <2> QED BY <1>3, <2>1, <2>2, <2>3, <2>4
<1>4. ASSUME NEW m \in Merges, Create(m) PROVE TypeOK'
  <2>1. alive' \subseteq Cards /\ content' \in [Merges -> SUBSET Sources] /\ removed' = removed
    BY <1>4, MakeCardType DEF Create
  <2> QED BY <1>4, <2>1 DEF Create, TypeOK, Places
<1>5. ASSUME NEW m \in Merges, CreateFails(m) PROVE TypeOK'
  <2>1. alive' \subseteq Cards /\ content' \in [Merges -> SUBSET Sources] /\ removed' = removed
    BY <1>5, MakeCardType DEF CreateFails, TypeOK
  <2>2. pc' \in [Merges -> Places] /\ verdict' \in [Merges -> Verdicts] /\ faults' \in Nat
    <3>1. /\ pc' = [pc EXCEPT ![m] = "failing"] /\ faults' = faults + 1
          /\ verdict' = [verdict EXCEPT ![m] = "not_created"]
      BY <1>5 DEF CreateFails, Fault
    <3> QED BY <3>1 DEF TypeOK, Places, Verdicts
  <2> QED BY <1>5, <2>1, <2>2 DEF CreateFails, TypeOK
<1>6. ASSUME NEW m \in Merges, Deletions(m) PROVE TypeOK'
  BY <1>6 DEF Deletions, DeleteOld, DeleteMissing, DeleteFails, NoteFailure, Erase, Fault, TypeOK
<1>7. ASSUME NEW m \in Merges, Complete(m) \/ Keep(m) \/ Undo(m)
      PROVE  TypeOK'
  BY <1>7 DEF Complete, Keep, Undo, TypeOK, Places, Verdicts
<1>8. ASSUME NEW m \in Merges, Rollback(m) \/ RollbackFails(m) \/ Unlock(m)
      PROVE  TypeOK'
  <2>1. CASE Rollback(m) BY <2>1 DEF Rollback, Erase, TypeOK, Places, Verdicts
  <2>2. CASE RollbackFails(m)
    <3>1. /\ pc' = [pc EXCEPT ![m] = "failing"] /\ faults' = faults + 1
          /\ verdict' = [verdict EXCEPT ![m] = "not_undone"]
          /\ alive' \subseteq alive
          /\ UNCHANGED <<content, removed, locks, job, want, todo, deleted, failed>>
      BY <2>2 DEF RollbackFails, Erase, Fault
    <3> QED BY <3>1 DEF TypeOK, Places, Verdicts
  <2>3. CASE Unlock(m) BY <2>3 DEF Unlock, TypeOK, Places
  <2> QED BY <1>8, <2>1, <2>2, <2>3
<1>9. ASSUME NEW c \in Cards, DeleteByHand(c) PROVE TypeOK'
  BY <1>9 DEF DeleteByHand, TypeOK
<1>10. CASE Crash BY <1>10 DEF Crash, Fault, TypeOK, Places
<1>11. CASE UNCHANGED vars BY <1>11 DEF vars, TypeOK
<1> QED BY <1>1, <1>2, <1>3, <1>4, <1>5, <1>6, <1>7, <1>8, <1>9, <1>10, <1>11
        DEF Next, Goroutine

-----------------------------------------------------------------------------
(* Locks.  Only a merge that takes its cards or ends changes them.         *)

LEMMA LocksKept ==
  ASSUME LocksExact, locks' = locks,
         \A n \in Merges : pc'[n] \in Holding <=> pc[n] \in Holding,
         \A n \in Merges : pc[n] \in Holding => want'[n] = want[n]
  PROVE  LocksExact'
<1>1. {n \in Merges : pc'[n] \in Holding} = {n \in Merges : pc[n] \in Holding}
  OBVIOUS
<1>2. UNION {want'[m] : m \in {n \in Merges : pc'[n] \in Holding}}
      = UNION {want[m] : m \in {n \in Merges : pc[n] \in Holding}}
  BY <1>1
<1> QED BY <1>2 DEF LocksExact

LEMMA LockStep == TypeOK /\ LocksExact /\ [Next]_vars => LocksExact'
<1> SUFFICES ASSUME TypeOK, LocksExact, [Next]_vars PROVE LocksExact'
  OBVIOUS
<1> USE DEF At, memory, locals
<1>1. ASSUME NEW m \in Merges, NEW K \in (SUBSET Known) \ {{}}, Submit(m, K)
      PROVE  LocksExact'
  BY <1>1, LocksKept DEF Submit, TypeOK, Holding
<1>2. ASSUME NEW m \in Merges, Resolve(m) \/ ResolveFails(m) \/ AcquireFails(m)
      PROVE  LocksExact'
  BY <1>2, LocksKept DEF Resolve, ResolveFails, AcquireFails, Abort, TypeOK, Holding
<1>3. ASSUME NEW m \in Merges, Acquire(m) PROVE LocksExact'
  <2>1. /\ pc[m] \notin Holding
        /\ \A n \in Merges : pc'[n] \in Holding <=> n = m \/ pc[n] \in Holding
        /\ want' = want /\ want[m] \cap locks = {} /\ locks' = locks \cup want[m]
    BY <1>3 DEF Acquire, TypeOK, Holding
  <2>2. \A n \in Merges : pc[n] \in Holding => want[n] \subseteq locks
    BY DEF LocksExact
  <2>3. \A n \in Merges : pc[n] \in Holding => want[n] \cap want[m] = {}
    BY <2>1, <2>2
  <2>4. locks' = UNION {want'[k] : k \in {n \in Merges : pc'[n] \in Holding}}
    BY <2>1 DEF LocksExact
  <2> QED BY <2>1, <2>3, <2>4 DEF LocksExact
<1>4. ASSUME NEW m \in Merges,
             Verify(m) \/ VerifyFails(m) \/ Create(m) \/ CreateFails(m) \/ Rename(m) \/ RenameFails(m)
      PROVE  LocksExact'
  BY <1>4, LocksKept
     DEF Verify, VerifyFails, Create, CreateFails, Rename, RenameFails, TypeOK, Holding
<1>5. ASSUME NEW m \in Merges, Deletions(m) PROVE LocksExact'
  BY <1>5, LocksKept DEF Deletions, DeleteOld, DeleteMissing, DeleteFails
<1>6. ASSUME NEW m \in Merges,
             Complete(m) \/ Keep(m) \/ Undo(m) \/ Rollback(m) \/ RollbackFails(m)
      PROVE  LocksExact'
  BY <1>6, LocksKept DEF Complete, Keep, Undo, Rollback, RollbackFails, TypeOK, Holding
<1>7. ASSUME NEW m \in Merges, Unlock(m) PROVE LocksExact'
  <2>1. /\ pc[m] \in Holding
        /\ \A n \in Merges : pc'[n] \in Holding <=> n # m /\ pc[n] \in Holding
        /\ want' = want /\ locks' = locks \ want[m]
    BY <1>7 DEF Unlock, TypeOK, Holding
  <2>2. \A n \in Merges : pc[n] \in Holding /\ n # m => want[n] \cap want[m] = {}
    BY <2>1 DEF LocksExact
  <2>3. locks' = UNION {want'[k] : k \in {n \in Merges : pc'[n] \in Holding}}
    BY <2>1, <2>2 DEF LocksExact
  <2> QED BY <2>1, <2>3 DEF LocksExact
<1>8. ASSUME NEW c \in Cards, DeleteByHand(c) PROVE LocksExact'
  BY <1>8, LocksKept DEF DeleteByHand
<1>9. CASE Crash
  <2>1. locks' = {} /\ \A n \in Merges : pc'[n] \notin Holding
    BY <1>9 DEF Crash, Under, TypeOK, Holding
  <2> QED BY <2>1 DEF LocksExact
<1>10. CASE UNCHANGED vars BY <1>10, LocksKept DEF vars
<1> QED BY <1>1, <1>2, <1>3, <1>4, <1>5, <1>6, <1>7, <1>8, <1>9, <1>10 DEF Next, Goroutine

-----------------------------------------------------------------------------
(* The cards of a merge: what is over stays over.                          *)

LEMMA OverForGood ==
  ASSUME TypeOK, [Next]_vars, NEW m \in Merges, pc[m] \in Over
  PROVE  pc'[m] \in Over /\ want'[m] = want[m] /\ content'[m] = content[m]
<1> USE DEF At, upstream, memory, locals
<1>1. ASSUME NEW n \in Merges, NEW K \in (SUBSET Known) \ {{}}, Submit(n, K)
      PROVE  pc'[m] \in Over /\ want'[m] = want[m] /\ content'[m] = content[m]
  BY <1>1 DEF Submit, TypeOK, Over
<1>2. ASSUME NEW n \in Merges, Resolve(n) \/ ResolveFails(n) \/ Acquire(n) \/ AcquireFails(n)
      PROVE  pc'[m] \in Over /\ want'[m] = want[m] /\ content'[m] = content[m]
  BY <1>2 DEF Resolve, ResolveFails, Acquire, AcquireFails, Abort, TypeOK, Over
<1>3. ASSUME NEW n \in Merges, Verify(n) \/ VerifyFails(n) \/ Rename(n) \/ RenameFails(n)
      PROVE  pc'[m] \in Over /\ want'[m] = want[m] /\ content'[m] = content[m]
  BY <1>3 DEF Verify, VerifyFails, Rename, RenameFails, TypeOK, Over
<1>4. ASSUME NEW n \in Merges, Create(n) \/ CreateFails(n)
      PROVE  pc'[m] \in Over /\ want'[m] = want[m] /\ content'[m] = content[m]
  BY <1>4 DEF Create, CreateFails, MakeCard, TypeOK, Over
<1>5. ASSUME NEW n \in Merges, Deletions(n)
      PROVE  pc'[m] \in Over /\ want'[m] = want[m] /\ content'[m] = content[m]
  BY <1>5 DEF Deletions, DeleteOld, DeleteMissing, DeleteFails, Erase
<1>6. ASSUME NEW n \in Merges, Complete(n) \/ Keep(n) \/ Undo(n) \/ Unlock(n)
      PROVE  pc'[m] \in Over /\ want'[m] = want[m] /\ content'[m] = content[m]
  BY <1>6 DEF Complete, Keep, Undo, Unlock, TypeOK, Over
<1>7. ASSUME NEW n \in Merges, Rollback(n) \/ RollbackFails(n)
      PROVE  pc'[m] \in Over /\ want'[m] = want[m] /\ content'[m] = content[m]
  BY <1>7 DEF Rollback, RollbackFails, Erase, TypeOK, Over
<1>8. ASSUME NEW c \in Cards, DeleteByHand(c)
      PROVE  pc'[m] \in Over /\ want'[m] = want[m] /\ content'[m] = content[m]
  BY <1>8 DEF DeleteByHand
<1>9. CASE Crash BY <1>9 DEF Crash, Under, TypeOK, Over
<1>10. CASE UNCHANGED vars BY <1>10 DEF vars
<1> QED BY <1>1, <1>2, <1>3, <1>4, <1>5, <1>6, <1>7, <1>8, <1>9, <1>10 DEF Next, Goroutine

\* Cards enter "want" and "removed" only while they are known.
LEMMA NamesAreKnown ==
  ASSUME TypeOK, [Next]_vars
  PROVE  /\ \A m \in Merges : want'[m] \subseteq want[m] \cup Known
         /\ removed' \subseteq removed \cup Known
<1> USE DEF upstream, locals
<1>1. ASSUME NEW n \in Merges, NEW K \in (SUBSET Known) \ {{}}, Submit(n, K)
      PROVE  removed' = removed /\ \A m \in Merges : want'[m] \subseteq want[m] \cup Known
  BY <1>1 DEF Submit, TypeOK
<1>2. ASSUME NEW n \in Merges, Goroutine(n) PROVE want' = want /\ removed' = removed
  <2>1. CASE Resolve(n) \/ ResolveFails(n) \/ Acquire(n) \/ AcquireFails(n)
    BY <2>1 DEF Resolve, ResolveFails, Acquire, AcquireFails, Abort
  <2>2. CASE Verify(n) \/ VerifyFails(n) \/ Create(n) \/ CreateFails(n)
    BY <2>2 DEF Verify, VerifyFails, Create, CreateFails, MakeCard
  <2>3. CASE Rename(n) \/ RenameFails(n) \/ Deletions(n)
    BY <2>3 DEF Rename, RenameFails, Deletions, DeleteOld, DeleteMissing, DeleteFails, Erase
  <2>4. CASE Complete(n) \/ Keep(n) \/ Undo(n) \/ Rollback(n) \/ RollbackFails(n) \/ Unlock(n)
    BY <2>4 DEF Complete, Keep, Undo, Rollback, RollbackFails, Unlock, Erase
  <2> QED BY <1>2, <2>1, <2>2, <2>3, <2>4 DEF Goroutine
<1>3. ASSUME NEW c \in Cards, DeleteByHand(c)
      PROVE  want' = want /\ removed' \subseteq removed \cup Known
  BY <1>3 DEF DeleteByHand
<1>4. CASE Crash BY <1>4 DEF Crash
<1>5. CASE UNCHANGED vars BY <1>5 DEF vars
<1> QED BY <1>1, <1>2, <1>3, <1>4, <1>5 DEF Next

LEMMA NamedStep == TypeOK /\ NamedAreOld /\ [Next]_vars => NamedAreOld'
<1> SUFFICES ASSUME TypeOK, NamedAreOld, [Next]_vars PROVE NamedAreOld'
  OBVIOUS
<1>1. \A c \in Merges : c \in Known => pc[c] \in Over
  BY CardsAssumption DEF Known, Over
<1>2. \A c \in Merges : pc[c] \in Over => pc'[c] \in Over
  BY OverForGood
<1> QED BY <1>1, <1>2, NamesAreKnown DEF NamedAreOld

-----------------------------------------------------------------------------
(* A step of one merge, as the others see it.                              *)

Moves(n) == Goroutine(n) \/ \E K \in (SUBSET Known) \ {{}} : Submit(n, K)

LEMMA OthersKept ==
  ASSUME TypeOK, NEW n \in Merges, Moves(n), NEW m \in Merges, m # n
  PROVE  /\ pc'[m] = pc[m] /\ content'[m] = content[m] /\ verdict'[m] = verdict[m]
         /\ want'[m] = want[m] /\ todo'[m] = todo[m]
         /\ deleted'[m] = deleted[m] /\ failed'[m] = failed[m]
<1> DEFINE Goal == /\ pc'[m] = pc[m] /\ content'[m] = content[m] /\ verdict'[m] = verdict[m]
                   /\ want'[m] = want[m] /\ todo'[m] = todo[m]
                   /\ deleted'[m] = deleted[m] /\ failed'[m] = failed[m]
<1> USE DEF At, Says, upstream, memory, locals, TypeOK
<1>1. ASSUME NEW K \in (SUBSET Known) \ {{}}, Submit(n, K) PROVE Goal
  BY <1>1 DEF Submit
<1>2. CASE Resolve(n) \/ ResolveFails(n) \/ Acquire(n) \/ AcquireFails(n)
  BY <1>2 DEF Resolve, ResolveFails, Acquire, AcquireFails, Abort
<1>3. CASE Verify(n) \/ VerifyFails(n) \/ Rename(n) \/ RenameFails(n)
  BY <1>3 DEF Verify, VerifyFails, Rename, RenameFails
<1>4. CASE Create(n) \/ CreateFails(n)
  BY <1>4 DEF Create, CreateFails, MakeCard
<1>5. CASE Deletions(n)
  BY <1>5 DEF Deletions, DeleteOld, DeleteMissing, DeleteFails, NoteFailure, Erase
<1>6. CASE Complete(n) \/ Keep(n) \/ Undo(n) \/ Unlock(n)
  BY <1>6 DEF Complete, Keep, Undo, Unlock
<1>7. CASE Rollback(n) \/ RollbackFails(n)
  BY <1>7 DEF Rollback, RollbackFails, Erase
<1> HIDE DEF Goal
<1> QED BY <1>1, <1>2, <1>3, <1>4, <1>5, <1>6, <1>7 DEF Moves, Goroutine, Goal

\* What it does to the upstream: it makes its card, deletes the old ones or the new one.
LEMMA AliveStep ==
  ASSUME TypeOK, NEW n \in Merges, OldCards(n), Moves(n)
  PROVE  /\ \A c \in alive : c \in alive' \/ (pc[n] = "delete" /\ c \in want[n])
                                          \/ (pc[n] = "rollback" /\ c = n)
         /\ \A c \in alive' : c \in alive \/ (pc[n] = "create" /\ c = n)
         /\ removed' = removed
<1> DEFINE Goal == /\ \A c \in alive : c \in alive' \/ (pc[n] = "delete" /\ c \in want[n])
                                                    \/ (pc[n] = "rollback" /\ c = n)
                   /\ \A c \in alive' : c \in alive \/ (pc[n] = "create" /\ c = n)
                   /\ removed' = removed
<1> USE DEF At, upstream
<1>1. ASSUME NEW K \in (SUBSET Known) \ {{}}, Submit(n, K) PROVE Goal
  BY <1>1 DEF Submit
<1>2. CASE Resolve(n) \/ ResolveFails(n) \/ Acquire(n) \/ AcquireFails(n)
  BY <1>2 DEF Resolve, ResolveFails, Acquire, AcquireFails, Abort
<1>3. CASE Verify(n) \/ VerifyFails(n) \/ Rename(n) \/ RenameFails(n)
  BY <1>3 DEF Verify, VerifyFails, Rename, RenameFails
<1>4. CASE Create(n) \/ CreateFails(n)
  BY <1>4 DEF Create, CreateFails, MakeCard
<1>5. CASE Deletions(n)
  BY <1>5 DEF Deletions, DeleteOld, DeleteMissing, DeleteFails, Erase, OldCards
<1>6. CASE Complete(n) \/ Keep(n) \/ Undo(n) \/ Unlock(n)
  BY <1>6 DEF Complete, Keep, Undo, Unlock
<1>7. CASE Rollback(n) \/ RollbackFails(n)
  BY <1>7 DEF Rollback, RollbackFails, Erase
<1> HIDE DEF Goal
<1> QED BY <1>1, <1>2, <1>3, <1>4, <1>5, <1>6, <1>7 DEF Moves, Goroutine, Goal

\* Every card a merge was asked for keeps its quota.
LEMMA OldCarriesKept ==
  ASSUME TypeOK, NamedAreOld, [Next]_vars, NEW m \in Merges, NEW c \in want[m]
  PROVE  Carries(c)' = Carries(c)
<1>1. c \in Cards BY DEF TypeOK
<1>2. CASE c \in Sources BY <1>2 DEF Carries
<1>3. CASE c \in Merges /\ c \notin Sources
  <2>1. pc[c] \in Over BY <1>3 DEF NamedAreOld
  <2> QED BY <1>3, <2>1, OverForGood DEF Carries
<1> QED BY <1>1, <1>2, <1>3 DEF Cards
LEMMA MovesIsStep == ASSUME NEW n \in Merges, Moves(n) PROVE [Next]_vars
BY DEF Moves, Next

\* The quota a new card replaces does not change while it is being replaced.
LEMMA QuotaKept ==
  ASSUME TypeOK, NamedAreOld, [Next]_vars, NEW m \in Merges
  PROVE  UNION {Carries(c)' : c \in want[m]} = UNION {Carries(c) : c \in want[m]}
<1>1. \A c \in want[m] : Carries(c)' = Carries(c)
  BY OldCarriesKept
<1> QED BY <1>1

\* While one merge moves, the cards of another stay as they are: its new card cannot be
\* named by anybody, and its old ones are locked.
LEMMA OthersStep ==
  ASSUME TypeOK, MergeInv, NEW n \in Merges, Moves(n), NEW m \in Merges, m # n
  PROVE  NewCard(m)' /\ OldCards(m)' /\ Undisturbed(m)'
<1>1. /\ pc'[m] = pc[m] /\ content'[m] = content[m] /\ verdict'[m] = verdict[m]
      /\ want'[m] = want[m] /\ todo'[m] = todo[m]
      /\ deleted'[m] = deleted[m] /\ failed'[m] = failed[m]
  BY OthersKept
<1>2. /\ \A c \in alive : c \in alive' \/ (pc[n] = "delete" /\ c \in want[n])
                                       \/ (pc[n] = "rollback" /\ c = n)
      /\ \A c \in alive' : c \in alive \/ (pc[n] = "create" /\ c = n)
      /\ removed' = removed
  BY AliveStep DEF MergeInv
<1>3. [Next]_vars BY MovesIsStep
<1>4. NewCard(m) /\ OldCards(m) /\ Undisturbed(m) /\ NamedAreOld /\ LocksExact
  BY DEF MergeInv
<1>5. pc[n] \in {"create", "delete", "rollback"} => n \notin want[m]
  BY <1>4 DEF NamedAreOld, Over
<1>6. pc[m] \notin Over => m \notin want[n]
  BY <1>4 DEF NamedAreOld
<1>7. NewCard(m)'
  <2>1. pc[m] \in Made => m \in alive'
    BY <1>2, <1>4, <1>6 DEF NewCard, Made, Over
  <2>2. m \notin alive => m \notin alive'
    BY <1>2
  <2>3. UNION {Carries(c)' : c \in want[m]} = UNION {Carries(c) : c \in want[m]}
    BY <1>3, <1>4, QuotaKept DEF MergeInv
  <2>4. UNION {Carries(c) : c \in want[m]}' = UNION {Carries(c) : c \in want[m]}
    BY <1>1, <2>3
  <2>5. Half(m)' <=> Half(m)
    BY <1>1 DEF Half
  <2> QED BY <1>1, <1>4, <2>1, <2>2, <2>4, <2>5 DEF NewCard
<1>8. OldCards(m)'
  <2>1. \A c \in want[m] : c \notin alive => c \notin alive'
    BY <1>2, <1>5
  <2> QED BY <1>1, <1>4, <2>1 DEF OldCards
<1>9. Undisturbed(m)'
  <2>1. ASSUME pc[m] \in Working, NEW c \in want[m], c \in alive PROVE c \in alive'
    <3>1. pc[n] = "delete" => c \notin want[n]
      BY <1>4, <2>1 DEF LocksExact, Holding, Working, Made
    <3> QED BY <1>2, <1>5, <2>1, <3>1
  <2>2. Vanished(m)' = Vanished(m)
    BY <1>1, <1>2 DEF Vanished
  <2> QED BY <1>1, <1>4, <2>1, <2>2 DEF Undisturbed
<1> QED BY <1>7, <1>8, <1>9

\* The moving merge itself.
LEMMA OwnStep ==
  ASSUME TypeOK, MergeInv, NEW n \in Merges, Moves(n)
  PROVE  NewCard(n)' /\ OldCards(n)' /\ Undisturbed(n)'
<1> DEFINE Goal == NewCard(n)' /\ OldCards(n)' /\ Undisturbed(n)'
<1>0. /\ NewCard(n) /\ OldCards(n) /\ Undisturbed(n)
      /\ [Next]_vars /\ NamedAreOld
  BY MovesIsStep DEF MergeInv
<1>a. UNION {Carries(c)' : c \in want[n]} = UNION {Carries(c) : c \in want[n]}
  BY <1>0, QuotaKept
<1>b. pc[n] \notin Over => n \notin want[n]
  BY <1>0 DEF NamedAreOld
<1> USE <1>0 DEF At, Says, upstream, memory, locals
<1>1. ASSUME NEW K \in (SUBSET Known) \ {{}}, Submit(n, K) PROVE Goal
  BY <1>1 DEF Submit, TypeOK, NewCard, OldCards, Undisturbed, Unmade, Made, Working, Half
<1>2. CASE Resolve(n) \/ Acquire(n)
  BY <1>2 DEF Resolve, Acquire, TypeOK, NewCard, OldCards, Undisturbed, Unmade, Made, Working, Half
<1>3. CASE ResolveFails(n) \/ AcquireFails(n)
  BY <1>3 DEF ResolveFails, AcquireFails, Abort, TypeOK, NewCard, OldCards, Undisturbed,
              Unmade, Made, Working, Half
<1>4. CASE Verify(n)
  BY <1>4 DEF Verify, TypeOK, NewCard, OldCards, Undisturbed, Unmade, Made, Working, Half
<1>5. CASE VerifyFails(n)
  BY <1>5 DEF VerifyFails, TypeOK, NewCard, OldCards, Undisturbed, Unmade, Made, Working, Half
<1>6. CASE Create(n)
  <2>1. /\ pc[n] = "create" /\ pc'[n] = "created" /\ n \in alive' /\ alive \subseteq alive'
        /\ content'[n] = UNION {Carries(c) : c \in want[n]}
        /\ UNCHANGED <<removed, want, todo, deleted, failed, verdict>>
    BY <1>6 DEF Create, MakeCard, TypeOK
  <2>2. NewCard(n)'
    BY <2>1, <1>a DEF NewCard, Unmade, Made
  <2>3. OldCards(n)'
    BY <2>1 DEF OldCards, Unmade
  <2>4. Undisturbed(n)'
    BY <2>1 DEF Undisturbed, Working, Made, Vanished
  <2> QED BY <2>2, <2>3, <2>4
<1>7. CASE CreateFails(n)
  <2>1. /\ pc[n] = "create" /\ pc'[n] = "failing" /\ verdict'[n] = "not_created"
        /\ UNCHANGED <<want, todo, deleted, failed>>
    BY <1>7 DEF CreateFails, TypeOK
  <2>2. NewCard(n)'
    BY <2>1 DEF NewCard, Unmade, Made, Half
  <2>3. OldCards(n)'
    BY <2>1 DEF OldCards, Unmade
  <2>4. Undisturbed(n)'
    BY <2>1 DEF Undisturbed, Working, Made
  <2> QED BY <2>2, <2>3, <2>4
<1>8. CASE Rename(n)
  <2>1. /\ pc[n] = "created" /\ pc'[n] = "delete" /\ todo'[n] = want[n]
        /\ UNCHANGED <<alive, content, removed, want, deleted, failed, verdict>>
    BY <1>8 DEF Rename, TypeOK
  <2>2. NewCard(n)'
    BY <2>1, <1>a DEF NewCard, Unmade, Made
  <2>3. OldCards(n)'
    BY <2>1 DEF OldCards, Unmade
  <2>4. Undisturbed(n)'
    BY <2>1 DEF Undisturbed, Working, Made, Vanished
  <2> QED BY <2>2, <2>3, <2>4
<1>9. CASE RenameFails(n) \/ Undo(n)
  <2>1. /\ pc[n] \in {"created", "delete"} /\ pc'[n] = "rollback" /\ deleted[n] = {}
        /\ UNCHANGED <<alive, content, removed, want, todo, deleted, failed, verdict>>
    BY <1>9 DEF RenameFails, Undo, MayUndo, TypeOK, OldCards, Unmade
  <2>2. NewCard(n)'
    BY <2>1, <1>a DEF NewCard, Unmade, Made
  <2>3. OldCards(n)'
    BY <2>1 DEF OldCards, Unmade
  <2>4. Undisturbed(n)'
    BY <2>1 DEF Undisturbed, Working, Made, Vanished
  <2> QED BY <2>2, <2>3, <2>4
<1>10. CASE Deletions(n)
  <2> SUFFICES ASSUME NEW c \in todo[n], DeleteOld(n, c) \/ DeleteMissing(n, c) \/ DeleteFails(n, c)
               PROVE  Goal
    BY <1>10 DEF Deletions
  <2>1. /\ pc[n] = "delete" /\ pc'[n] = "delete" /\ todo'[n] = todo[n] \ {c}
        /\ UNCHANGED <<content, removed, want, verdict>>
        /\ alive \ {c} \subseteq alive' /\ alive' \subseteq alive
    BY DEF DeleteOld, DeleteMissing, DeleteFails, NoteFailure, Erase, TypeOK
  <2>2. \/ /\ deleted'[n] = deleted[n] \cup {c} /\ failed'[n] = failed[n]
           /\ c \notin alive'
        \/ /\ deleted'[n] = deleted[n] /\ failed'[n] = failed[n] \cup {c}
           /\ c \in alive => c \in alive' \/ "delete" \in Lost
    BY DEF DeleteOld, DeleteMissing, DeleteFails, NoteFailure, Erase, TypeOK
  <2>3. c \in want[n]
    BY DEF OldCards
  <2>4. NewCard(n)'
    <3>1. n \in alive'
      BY <2>1, <2>3, <1>b DEF NewCard, Made, Over
    <3> QED BY <2>1, <3>1, <1>a DEF NewCard, Unmade, Made
  <2>5. OldCards(n)'
    BY <2>1, <2>2, <2>3 DEF OldCards, Unmade
  <2>6. Undisturbed(n)'
    <3>1. Vanished(n) \subseteq Vanished(n)'
      BY <2>1, <2>2 DEF Vanished
    <3>2. c \in alive' \/ c \in Vanished(n)' \/ c \notin alive
      BY <2>2 DEF Vanished
    <3>3. want[n] \subseteq alive \cup Vanished(n)
      BY <2>1 DEF Undisturbed, Working, Made
    <3> QED BY <2>1, <3>1, <3>2, <3>3 DEF Undisturbed
  <2> QED BY <2>4, <2>5, <2>6
<1>11. CASE Complete(n)
  <2>1. /\ pc[n] = "delete" /\ pc'[n] = "closing" /\ todo[n] = {} /\ failed[n] = {}
        /\ UNCHANGED <<alive, content, removed, want, todo, deleted, failed>>
    BY <1>11 DEF Complete, TypeOK
  <2> QED BY <2>1 DEF NewCard, OldCards, Undisturbed, Unmade, Made, Working
<1>12. CASE Keep(n)
  <2>1. /\ pc'[n] = "failing" /\ verdict'[n] = "kept"
        /\ UNCHANGED <<alive, content, removed, want, todo, deleted, failed>>
    BY <1>12 DEF Keep, TypeOK
  <2> QED BY <2>1 DEF NewCard, OldCards, Undisturbed, Unmade, Made, Working, Half
<1>13. CASE Rollback(n) \/ RollbackFails(n)
  <2>1. /\ pc'[n] = "failing" /\ alive' \subseteq alive
        /\ n \notin alive' \/ verdict'[n] = "not_undone"
        /\ UNCHANGED <<content, removed, want, todo, deleted, failed>>
    BY <1>13 DEF Rollback, RollbackFails, Erase, TypeOK
  <2> QED BY <2>1 DEF NewCard, OldCards, Undisturbed, Unmade, Made, Working, Half
<1>14. CASE Unlock(n)
  <2>1. /\ pc'[n] = "ended"
        /\ UNCHANGED <<alive, content, removed, want, todo, deleted, failed, verdict>>
    BY <1>14 DEF Unlock, TypeOK
  <2> QED BY <2>1 DEF NewCard, OldCards, Undisturbed, Unmade, Made, Working
<1> HIDE DEF Goal
<1> QED BY <1>1, <1>2, <1>3, <1>4, <1>5, <1>6, <1>7, <1>8, <1>9, <1>10, <1>11, <1>12, <1>13,
           <1>14 DEF Moves, Goroutine, Goal

\* Staff delete only cards of merges that are over, and of those the merge is told.
LEMMA ByHandStep ==
  ASSUME TypeOK, MergeInv, NEW c \in Cards, DeleteByHand(c), NEW m \in Merges
  PROVE  NewCard(m)' /\ OldCards(m)' /\ Undisturbed(m)'
<1>1. /\ alive' = alive \ {c} /\ removed' = removed \cup {c}
      /\ UNCHANGED <<content, pc, want, todo, deleted, failed, verdict>>
  BY DEF DeleteByHand, locals
<1>2. NewCard(m) /\ OldCards(m) /\ Undisturbed(m)
  BY DEF MergeInv
<1>3. pc[m] \notin Over => m # c
  BY CardsAssumption DEF DeleteByHand, Known, Over
<1>4. NewCard(m)'
  <2>1. \A d : Carries(d)' = Carries(d)
    BY <1>1 DEF Carries
  <2>2. UNION {Carries(d) : d \in want[m]}' = UNION {Carries(d) : d \in want[m]}
    BY <1>1, <2>1
  <2> QED BY <1>1, <1>2, <1>3, <2>2 DEF NewCard, Made, Over, Half
<1>5. OldCards(m)'
  BY <1>1, <1>2 DEF OldCards
<1>6. Undisturbed(m)'
  BY <1>1, <1>2 DEF Undisturbed, Vanished
<1> QED BY <1>4, <1>5, <1>6

LEMMA CrashStep ==
  ASSUME TypeOK, MergeInv, Crash, NEW m \in Merges
  PROVE  NewCard(m)' /\ OldCards(m)' /\ Undisturbed(m)'
<1>1. /\ pc'[m] = IF pc[m] \in Over \cup {"none"} THEN pc[m] ELSE "crashed"
      /\ UNCHANGED <<alive, content, removed, want, todo, deleted, failed, verdict>>
  BY DEF Crash, Under, Over, upstream, locals
<1>2. NewCard(m) /\ OldCards(m) /\ Undisturbed(m)
  BY DEF MergeInv
<1> QED BY <1>1, <1>2 DEF NewCard, OldCards, Undisturbed, Unmade, Made, Working, Over

LEMMA CardsStep ==
  ASSUME TypeOK, MergeInv, [Next]_vars
  PROVE  \A m \in Merges : NewCard(m)' /\ OldCards(m)' /\ Undisturbed(m)'
<1> SUFFICES ASSUME NEW m \in Merges PROVE NewCard(m)' /\ OldCards(m)' /\ Undisturbed(m)'
  OBVIOUS
<1>1. ASSUME NEW n \in Merges, Moves(n) PROVE NewCard(m)' /\ OldCards(m)' /\ Undisturbed(m)'
  BY <1>1, OthersStep, OwnStep
<1>2. CASE \E c \in Cards : DeleteByHand(c)
  BY <1>2, ByHandStep
<1>3. CASE Crash
  BY <1>3, CrashStep
<1>4. CASE UNCHANGED vars
  <2>1. NewCard(m) /\ OldCards(m) /\ Undisturbed(m) BY DEF MergeInv
  <2>2. \A d : Carries(d)' = Carries(d)
    BY <1>4 DEF vars, Carries
  <2>3. UNION {Carries(d) : d \in want[m]}' = UNION {Carries(d) : d \in want[m]}
    BY <1>4, <2>2 DEF vars
  <2> QED BY <1>4, <2>1, <2>3 DEF vars, NewCard, OldCards, Undisturbed, Half, Vanished
<1> QED BY <1>1, <1>2, <1>3, <1>4 DEF Next, Moves

-----------------------------------------------------------------------------
(* Without faults nothing goes half-way.                                   *)

LEMMA FaultsKept ==
  ASSUME TypeOK, [Next]_vars, faults' = 0, removed' = {}
  PROVE  /\ faults = 0 /\ removed = {} /\ ~Crash
         /\ \A n \in Merges : /\ ~CreateFails(n) /\ ~RenameFails(n) /\ ~RollbackFails(n)
                              /\ \A c \in Cards : ~DeleteFails(n, c)
         /\ \A c \in Cards : ~DeleteByHand(c)
<1> USE DEF Fault, upstream, locals
<1>1. ~Fault BY DEF TypeOK
<1>2. ~Crash /\ \A n \in Merges : /\ ~CreateFails(n) /\ ~RenameFails(n) /\ ~RollbackFails(n)
                                  /\ \A c \in Cards : ~DeleteFails(n, c)
  BY <1>1 DEF Crash, CreateFails, RenameFails, RollbackFails, DeleteFails
<1>3. \A c \in Cards : ~DeleteByHand(c)
  BY DEF DeleteByHand
<1>4. ASSUME NEW n \in Merges, Moves(n) PROVE faults = 0 /\ removed = {}
  <2>1. CASE \E K \in (SUBSET Known) \ {{}} : Submit(n, K)
    BY <2>1 DEF Submit
  <2>2. CASE Resolve(n) \/ ResolveFails(n) \/ Acquire(n) \/ AcquireFails(n)
    BY <2>2 DEF Resolve, ResolveFails, Acquire, AcquireFails, Abort
  <2>3. CASE Verify(n) \/ VerifyFails(n) \/ Create(n) \/ Rename(n)
    BY <2>3 DEF Verify, VerifyFails, Create, Rename, MakeCard
  <2>4. CASE Deletions(n)
    BY <2>4, <1>2 DEF Deletions, DeleteOld, DeleteMissing, Erase, TypeOK
  <2>5. CASE Complete(n) \/ Keep(n) \/ Undo(n) \/ Rollback(n) \/ Unlock(n)
    BY <2>5 DEF Complete, Keep, Undo, Rollback, Unlock, Erase
  <2> QED BY <1>2, <1>4, <2>1, <2>2, <2>3, <2>4, <2>5 DEF Moves, Goroutine
<1>5. ASSUME UNCHANGED vars PROVE faults = 0 /\ removed = {} BY <1>5 DEF vars
<1> QED BY <1>2, <1>3, <1>4, <1>5 DEF Next, Moves

LEMMA FaultFreeStep == TypeOK /\ MergeInv /\ [Next]_vars => FaultFreeInv'
<1> SUFFICES ASSUME TypeOK, MergeInv, [Next]_vars, faults' = 0, removed' = {}, NEW m \in Merges
             PROVE  /\ failed'[m] = {} /\ pc'[m] # "rollback"
                    /\ verdict'[m] \in {"none", "done", "refused"}
  BY DEF FaultFreeInv
<1> DEFINE Fine == /\ failed'[m] = {} /\ pc'[m] # "rollback"
                   /\ verdict'[m] \in {"none", "done", "refused"}
<1>1. /\ faults = 0 /\ removed = {} /\ ~Crash
      /\ \A n \in Merges : /\ ~CreateFails(n) /\ ~RenameFails(n) /\ ~RollbackFails(n)
                           /\ \A c \in Cards : ~DeleteFails(n, c)
      /\ \A c \in Cards : ~DeleteByHand(c)
  BY FaultsKept
<1>2. /\ failed[m] = {} /\ pc[m] # "rollback" /\ verdict[m] \in {"none", "done", "refused"}
      /\ OldCards(m) /\ Undisturbed(m)
  BY <1>1 DEF MergeInv, FaultFreeInv
<1>3. ASSUME NEW n \in Merges, Moves(n) PROVE Fine
  <2>1. CASE n # m BY <1>2, <1>3, <2>1, OthersKept
  <2>2. CASE n = m
    <3> USE DEF At, Says, locals
    <3>1. ASSUME NEW K \in (SUBSET Known) \ {{}}, Submit(m, K) PROVE Fine
      BY <3>1, <1>2 DEF Submit, TypeOK
    <3>2. CASE Resolve(m) \/ ResolveFails(m) \/ Acquire(m) \/ AcquireFails(m)
      BY <3>2, <1>2 DEF Resolve, ResolveFails, Acquire, AcquireFails, Abort, TypeOK
    <3>3. CASE Verify(m) \/ VerifyFails(m) \/ Create(m) \/ Rename(m)
      BY <3>3, <1>2 DEF Verify, VerifyFails, Create, Rename, TypeOK
    <3>4. CASE Deletions(m)
      <4>1. PICK c \in todo[m] : DeleteOld(m, c) \/ DeleteMissing(m, c)
        BY <3>4, <1>1 DEF Deletions, TypeOK
      <4>2. ~DeleteMissing(m, c)
        BY <1>1, <1>2 DEF DeleteMissing, Undisturbed, Vanished, OldCards, Working, Made
      <4> QED BY <1>2, <4>1, <4>2 DEF DeleteOld
    <3>5. CASE Complete(m) \/ Unlock(m)
      BY <3>5, <1>2 DEF Complete, Unlock, TypeOK
    <3>6. ~Keep(m) /\ ~Undo(m) /\ ~Rollback(m)
      BY <1>2 DEF Keep, Undo, Rollback
    <3> QED BY <1>1, <1>3, <2>2, <3>1, <3>2, <3>3, <3>4, <3>5, <3>6 DEF Moves, Goroutine
  <2> QED BY <2>1, <2>2
<1>4. CASE UNCHANGED vars BY <1>2, <1>4 DEF vars
<1> QED BY <1>1, <1>3, <1>4 DEF Next, Moves

-----------------------------------------------------------------------------
(* Where quota is.                                                         *)

\* Once a merge is decided, its verdict and the content of its card are final.
LEMMA DecidedKept ==
  ASSUME TypeOK, [Next]_vars, NEW m \in Merges, pc[m] \notin Unmade \cup Made
  PROVE  /\ verdict'[m] = verdict[m] /\ content'[m] = content[m]
         /\ pc[m] = "crashed" => pc'[m] = "crashed"
<1> DEFINE Goal == /\ verdict'[m] = verdict[m] /\ content'[m] = content[m]
                   /\ pc[m] = "crashed" => pc'[m] = "crashed"
<1>1. ASSUME NEW n \in Merges, Moves(n) PROVE Goal
  <2>1. CASE n # m BY <1>1, <2>1, OthersKept
  <2>2. CASE n = m
    <3>1. Unlock(m)
      BY <1>1, <2>2 DEF Moves, Goroutine, Submit, Resolve, ResolveFails, Acquire, AcquireFails, Verify,
         VerifyFails, Create, CreateFails, Rename, RenameFails, Deletions, DeleteOld, DeleteMissing,
         DeleteFails, Complete, Keep, Undo, Rollback, RollbackFails, At, Unmade, Made
    <3> QED BY <3>1 DEF Unlock, upstream, locals
  <2> QED BY <2>1, <2>2
<1>2. CASE \E c \in Cards : DeleteByHand(c) BY <1>2 DEF DeleteByHand, locals
<1>3. CASE Crash BY <1>3 DEF Crash, Under, TypeOK, upstream, locals
<1>4. CASE UNCHANGED vars BY <1>4 DEF vars
<1> QED BY <1>1, <1>2, <1>3, <1>4 DEF Next, Moves

\* What was reported stays reported.
LEMMA ReportedKept ==
  ASSUME TypeOK, MergeInv, [Next]_vars, NEW s, Reported(s)
  PROVE  Reported(s)'
<1>1. PICK m \in Merges : Half(m) /\ s \in content[m]
  BY DEF Reported
<1>2. pc[m] \notin Unmade \cup Made
  BY <1>1 DEF MergeInv, NewCard, Half, Unmade, Made
<1>3. Half(m)' /\ s \in content'[m]
  BY <1>1, <1>2, DecidedKept DEF Half
<1> QED BY <1>3 DEF Reported

LEMMA PresentKept ==
  ASSUME PresentInv, Present' \subseteq Present,
         \A c \in Present : Carries(c)' = Carries(c),
         \A s : Reported(s) => Reported(s)',
         \A c \in Merges : \A d : \A s \in content[c] :
           Replacing(c, d) /\ c \in Present' /\ d \in Present' => Replacing(c, d)' \/ Reported(s)',
         \A c \in Merges \cap Present : Carries(c) = content[c]
  PROVE  PresentInv'
<1> SUFFICES ASSUME NEW c \in Present', NEW d \in Present',
                    NEW s \in Carries(c)' \cap Carries(d)', c # d
             PROVE  \/ c \in Merges /\ Replacing(c, d)'
                    \/ d \in Merges /\ Replacing(d, c)'
                    \/ Reported(s)'
  BY DEF PresentInv
<1>1. c \in Present /\ d \in Present /\ s \in Carries(c) \cap Carries(d)
  OBVIOUS
<1>2. \/ c \in Merges /\ Replacing(c, d)
      \/ d \in Merges /\ Replacing(d, c)
      \/ Reported(s)
  BY <1>1 DEF PresentInv
<1> QED BY <1>1, <1>2

\* What a step of a merge does to its own cards, short of making one.
LEMMA MoveStep ==
  ASSUME TypeOK, NEW n \in Merges, Moves(n)
  PROVE  /\ pc'[n] \in Working => want'[n] = want[n] /\ (pc[n] \in Working \/ want[n] \subseteq alive)
         /\ pc[n] \in Holding /\ ~Unlock(n) => want'[n] = want[n] /\ pc'[n] \in Holding
         /\ content' = content \/ (MakeCard(n) /\ (Create(n) \/ CreateFails(n)))
<1> DEFINE Goal ==
      /\ pc'[n] \in Working => want'[n] = want[n] /\ (pc[n] \in Working \/ want[n] \subseteq alive)
      /\ pc[n] \in Holding /\ ~Unlock(n) => want'[n] = want[n] /\ pc'[n] \in Holding
      /\ content' = content \/ (MakeCard(n) /\ (Create(n) \/ CreateFails(n)))
<1> USE DEF At, upstream, locals, Working, Made, Holding, TypeOK
<1>1. ASSUME NEW K \in (SUBSET Known) \ {{}}, Submit(n, K) PROVE Goal
  BY <1>1 DEF Submit
<1>2. CASE Resolve(n) \/ ResolveFails(n) \/ Acquire(n) \/ AcquireFails(n)
  BY <1>2 DEF Resolve, ResolveFails, Acquire, AcquireFails, Abort
<1>3. CASE Verify(n) \/ VerifyFails(n) \/ Rename(n) \/ RenameFails(n)
  BY <1>3 DEF Verify, VerifyFails, Rename, RenameFails
<1>4. CASE Create(n) \/ CreateFails(n)
  BY <1>4 DEF Create, CreateFails
<1>5. CASE Deletions(n)
  BY <1>5 DEF Deletions, DeleteOld, DeleteMissing, DeleteFails, Erase
<1>6. CASE Complete(n) \/ Keep(n) \/ Undo(n)
  BY <1>6 DEF Complete, Keep, Undo
<1>7. CASE Unlock(n)
  BY <1>7 DEF Unlock
<1>8. CASE Rollback(n) \/ RollbackFails(n)
  BY <1>8 DEF Rollback, RollbackFails, Erase
<1> HIDE DEF Goal
<1> QED BY <1>1, <1>2, <1>3, <1>4, <1>5, <1>6, <1>7, <1>8 DEF Moves, Goroutine, Goal

\* Only a new card is new among the cards present.
LEMMA PresentStep ==
  ASSUME TypeOK, MergeInv, NEW n \in Merges, Moves(n)
  PROVE  /\ Present' \subseteq Present \cup {n}
         /\ pc[n] # "create" => Present' \subseteq Present
         /\ alive' = alive => Present' \subseteq Present
<1>1. \A c \in alive' : c \in alive \/ (pc[n] = "create" /\ c = n)
  BY AliveStep DEF MergeInv
<1>2. ASSUME NEW m \in Merges, pc'[m] \in Working PROVE want'[m] \subseteq Present
  <2>1. CASE m = n
    BY <1>2, <2>1, MoveStep DEF Present
  <2>2. CASE m # n
    BY <1>2, <2>2, OthersKept DEF Present
  <2> QED BY <2>1, <2>2
<1>3. alive \subseteq Present
  BY DEF Present
<1>4. \A c \in Present' : c \in alive' \/ \E m \in Merges : pc'[m] \in Working /\ c \in want'[m]
  BY DEF Present
<1> QED BY <1>1, <1>2, <1>3, <1>4

\* A merge that releases its cards has deleted them, was rolled back or is reported.
LEMMA PresentUnlock ==
  ASSUME TypeOK, MergeInv, NEW n \in Merges, Unlock(n), NEW d \in want[n], NEW s \in content[n],
         n \in Present', d \in Present'
  PROVE  Reported(s)'
<1>1. /\ pc[n] \in {"closing", "failing"} /\ pc' = [pc EXCEPT ![n] = "ended"]
      /\ UNCHANGED <<alive, want, content, verdict>>
  BY DEF Unlock, upstream, locals
<1>2. Moves(n) /\ [Next]_vars
  BY MovesIsStep DEF Moves, Goroutine
<1>3. n \in Present /\ n \in Merges
  BY <1>1, <1>2, PresentStep
<1>4. ASSUME NEW m \in Merges, pc[m] \in Working PROVE n \notin want[m] /\ want[m] \cap want[n] = {}
  BY <1>1, <1>4 DEF MergeInv, LocksExact, NamedAreOld, Over, Working, Made, Holding
<1>5. n \in alive
  BY <1>3, <1>4 DEF Present
<1>6. d \in alive
  BY <1>1, <1>4 DEF Present, TypeOK, Working, Made
<1>7. Half(n)
  BY <1>1, <1>5, <1>6 DEF MergeInv, NewCard, OldCards
<1>8. Reported(s)
  BY <1>7 DEF Reported
<1> QED BY <1>2, <1>8, ReportedKept

LEMMA PresentMake ==
  ASSUME TypeOK, MergeInv, NEW n \in Merges, MakeCard(n), Create(n) \/ CreateFails(n)
  PROVE  PresentInv'
<1>1. /\ pc[n] = "create" /\ pc'[n] \in Holding /\ want' = want
      /\ \A m \in Merges : m # n => pc'[m] = pc[m]
  BY DEF Create, CreateFails, At, locals, TypeOK, Holding
<1>2. Moves(n) /\ [Next]_vars
  BY MovesIsStep DEF Moves, Goroutine
<1>3. Present' \subseteq Present \cup {n}
  BY <1>2, PresentStep
<1>4. n \notin Present
  BY <1>1 DEF MergeInv, NewCard, NamedAreOld, Present, Unmade, Over
<1>5. \A c \in Cards : c # n => Carries(c)' = Carries(c)
  BY DEF Carries, MakeCard, TypeOK, Cards
<1>6. Carries(n)' = UNION {Carries(e) : e \in want[n]}
  BY CardsAssumption DEF Carries, MakeCard, TypeOK
<1>7. Present \subseteq Cards /\ want[n] \subseteq Present
  BY <1>1 DEF Present, TypeOK, Working
<1>8. ASSUME NEW d \in Present, NEW s \in Carries(n)' \cap Carries(d)'
      PROVE  Replacing(n, d)' \/ Reported(s)'
  <2>1. PICK e \in want[n] : s \in Carries(e)
    BY <1>6, <1>8
  <2>2. s \in Carries(d)
    BY <1>4, <1>5, <1>7, <1>8
  <2>3. CASE d \in want[n]
    BY <1>1, <2>3 DEF Replacing
  <2>4. CASE d \notin want[n]
    <3>1. \/ e \in Merges /\ Replacing(e, d)
          \/ d \in Merges /\ Replacing(d, e)
          \/ Reported(s)
      BY <1>7, <2>1, <2>2, <2>4 DEF MergeInv, PresentInv
    <3>2. ~(e \in Merges /\ Replacing(e, d))
      BY <2>1 DEF MergeInv, NamedAreOld, Replacing, Over, Holding
    <3>3. ~(d \in Merges /\ Replacing(d, e))
      BY <1>1, <1>4, <2>1 DEF MergeInv, LocksExact, Replacing, Holding
    <3> QED BY <1>2, <3>1, <3>2, <3>3, ReportedKept
  <2> QED BY <2>3, <2>4
<1>9. ASSUME NEW c \in Present, NEW d \in Present, c # d, NEW s \in Carries(c)' \cap Carries(d)'
      PROVE  \/ c \in Merges /\ Replacing(c, d)'
             \/ d \in Merges /\ Replacing(d, c)'
             \/ Reported(s)'
  <2>1. s \in Carries(c) \cap Carries(d)
    BY <1>4, <1>5, <1>7, <1>9
  <2>2. \/ c \in Merges /\ Replacing(c, d)
        \/ d \in Merges /\ Replacing(d, c)
        \/ Reported(s)
    BY <1>9, <2>1 DEF MergeInv, PresentInv
  <2>3. \A a \in Merges : Replacing(a, c) /\ a # n => Replacing(a, c)'
    BY <1>1 DEF Replacing
  <2>4. \A a \in Merges : Replacing(a, d) /\ a # n => Replacing(a, d)'
    BY <1>1 DEF Replacing
  <2> QED BY <1>2, <1>4, <2>2, <2>3, <2>4, ReportedKept
<1> QED BY <1>3, <1>8, <1>9 DEF PresentInv

LEMMA PresentInvStep == TypeOK /\ MergeInv /\ [Next]_vars => PresentInv'
<1> SUFFICES ASSUME TypeOK, MergeInv, [Next]_vars PROVE PresentInv'
  OBVIOUS
<1>1. PresentInv BY DEF MergeInv
<1>2. \A s : Reported(s) => Reported(s)'
  BY ReportedKept
<1>3. \A c \in Merges \cap Present : Carries(c) = content[c]
  BY CardsAssumption DEF Carries
<1>4. content' = content => \A c \in Present : Carries(c)' = Carries(c)
  BY DEF Carries
<1>5. ASSUME NEW n \in Merges, Moves(n) PROVE PresentInv'
  <2>1. CASE MakeCard(n) /\ (Create(n) \/ CreateFails(n))
    BY <2>1, PresentMake
  <2>2. CASE content' = content /\ ~(MakeCard(n) /\ (Create(n) \/ CreateFails(n)))
    <3>1. Present' \subseteq Present
      <4>1. pc[n] = "create" => alive' = alive
        BY <1>5, <2>2
           DEF Moves, Goroutine, Submit, Resolve, ResolveFails, Acquire, AcquireFails, Verify,
               VerifyFails, Create, CreateFails, Rename, RenameFails, Deletions, DeleteOld,
               DeleteMissing, DeleteFails, Complete, Keep, Undo, Rollback, RollbackFails, Unlock,
               At, upstream
      <4> QED BY <1>5, <4>1, PresentStep
    <3>2. ASSUME NEW c \in Merges, NEW d, NEW s \in content[c], Replacing(c, d),
                 c \in Present', d \in Present'
          PROVE  Replacing(c, d)' \/ Reported(s)'
      <4>1. CASE c = n /\ Unlock(n)
        BY <3>2, <4>1, PresentUnlock DEF Replacing
      <4>2. CASE c # n
        BY <1>5, <3>2, <4>2, OthersKept DEF Replacing
      <4>3. CASE c = n /\ ~Unlock(n)
        BY <1>5, <3>2, <4>3, MoveStep DEF Replacing
      <4> QED BY <4>1, <4>2, <4>3
    <3> QED BY <1>1, <1>2, <1>3, <1>4, <2>2, <3>1, <3>2, PresentKept
  <2> QED BY <1>5, <2>1, <2>2, MoveStep
<1>6. ASSUME NEW c \in Cards, DeleteByHand(c) PROVE PresentInv'
  <2>1. alive' \subseteq alive /\ UNCHANGED <<content, pc, want>>
    BY <1>6 DEF DeleteByHand, locals
  <2>2. Present' \subseteq Present
    BY <2>1 DEF Present
  <2>3. \A b, d : Replacing(b, d) => Replacing(b, d)'
    BY <2>1 DEF Replacing
  <2> QED BY <1>1, <1>2, <1>3, <1>4, <2>1, <2>2, <2>3, PresentKept
<1>7. CASE Crash
  <2>1. /\ UNCHANGED <<alive, content, want>>
        /\ \A m \in Merges : pc'[m] \notin Working /\ (pc[m] \in Holding => pc'[m] = "crashed")
    BY <1>7 DEF Crash, Under, TypeOK, Working, Made, Holding, upstream, locals
  <2>2. Present' \subseteq Present
    BY <2>1 DEF Present
  <2>3. ASSUME NEW c \in Merges, NEW d, NEW s \in content[c], Replacing(c, d) PROVE Reported(s)'
    BY <2>1, <2>3 DEF Replacing, Reported, Half
  <2> QED BY <1>1, <1>2, <1>3, <1>4, <2>1, <2>2, <2>3, PresentKept
<1>8. CASE UNCHANGED vars
  <2>1. /\ UNCHANGED <<alive, content, pc, want>>
    BY <1>8 DEF vars
  <2>2. Present' \subseteq Present
    BY <2>1 DEF Present
  <2>3. \A b, d : Replacing(b, d) => Replacing(b, d)'
    BY <2>1 DEF Replacing
  <2> QED BY <1>1, <1>2, <1>3, <1>4, <2>1, <2>2, <2>3, PresentKept
<1> QED BY <1>5, <1>6, <1>7, <1>8 DEF Next, Moves

LEMMA MergeStep == TypeOK /\ MergeInv /\ [Next]_vars => MergeInv'
<1> SUFFICES ASSUME TypeOK, MergeInv, [Next]_vars PROVE MergeInv'
  OBVIOUS
<1>1. LocksExact' BY LockStep DEF MergeInv
<1>2. NamedAreOld' BY NamedStep DEF MergeInv
<1>3. \A m \in Merges : NewCard(m)' /\ OldCards(m)' /\ Undisturbed(m)' BY CardsStep
<1>4. FaultFreeInv' BY FaultFreeStep
<1>5. PresentInv' BY PresentInvStep
<1> QED BY <1>1, <1>2, <1>3, <1>4, <1>5 DEF MergeInv

-----------------------------------------------------------------------------

(* Every variable of the card merger keeps its type.                       *)
THEOREM MergeTypeCorrect == Spec => []TypeOK
<1>1. Init => TypeOK BY MergeInit
<1>2. TypeOK /\ [Next]_vars => TypeOK' BY TypeStep
<1> QED BY <1>1, <1>2, PTL DEF Spec

(* The inductive invariant holds: a merge finds its cards as it left them, *)
(* whatever other merges, staff and crashes do (merge.go).                 *)
THEOREM MergeSafe == Spec => []MergeInv
<1>1. Init => MergeInv BY MergeInit
<1>2. TypeOK /\ MergeInv /\ [Next]_vars => MergeInv' BY MergeStep
<1> QED BY <1>1, <1>2, MergeTypeCorrect, PTL DEF Spec

(* The lock table holds the cards of the merges under way and nothing      *)
(* else, and no card is in the hands of two (acquireMergeLock).            *)
THEOREM LocksAreExact == Spec => []LocksExact
<1>1. MergeInv => LocksExact BY DEF MergeInv
<1> QED BY <1>1, MergeSafe, PTL

(* Quota that is on two cards is being moved, or was reported (merge.go).  *)
THEOREM DuplicatesAreReported == Spec => []DuplicatesReported
<1>1. MergeInv => DuplicatesReported
  <2> SUFFICES ASSUME PresentInv PROVE DuplicatesReported
    BY DEF MergeInv
  <2>1. alive \subseteq Present BY DEF Present
  <2> QED BY <2>1 DEF PresentInv, DuplicatesReported, Reported
<1> QED BY <1>1, MergeSafe, PTL

(* Merges alone never make each other end half-way (merge_delete.go).      *)
THEOREM HalfwayIsAFault == Spec => []HalfwayNeedsFault
<1>1. MergeInv => HalfwayNeedsFault BY DEF MergeInv, FaultFreeInv, HalfwayNeedsFault
<1> QED BY <1>1, MergeSafe, PTL

-----------------------------------------------------------------------------
(* Quota is not lost, unless a deletion is applied whose answer is lost    *)
(* (then it can be: the rollback deletes the only card left).              *)

LEMMA ForfeitedGrows ==
  ASSUME TypeOK, NamedAreOld, [Next]_vars, removed \subseteq removed'
  PROVE  Forfeited \subseteq Forfeited'
<1>1. \A c \in removed : Carries(c)' = Carries(c)
  <2> SUFFICES ASSUME NEW c \in removed PROVE Carries(c)' = Carries(c)
    OBVIOUS
  <2>1. c \in Cards BY DEF TypeOK
  <2>2. CASE c \in Sources BY <2>2 DEF Carries
  <2>3. CASE c \in Merges
    <3>1. pc[c] \in Over BY <2>3 DEF NamedAreOld
    <3> QED BY <2>3, <3>1, OverForGood DEF Carries
  <2> QED BY <2>1, <2>2, <2>3 DEF Cards
<1> QED BY <1>1 DEF Forfeited

LEMMA QuotaStep ==
  ASSUME "delete" \notin Lost, TypeOK, MergeInv, NoQuotaLost, [Next]_vars
  PROVE  NoQuotaLost'
<1> SUFFICES ASSUME NEW s \in Sources PROVE s \in Forfeited' \/ \E c \in alive' : s \in Carries(c)'
  BY DEF NoQuotaLost
<1> DEFINE Goal == s \in Forfeited' \/ \E c \in alive' : s \in Carries(c)'
<1>1. s \in Forfeited \/ \E c \in alive : s \in Carries(c)
  BY DEF NoQuotaLost
<1>2. NamedAreOld /\ \A m \in Merges : NewCard(m) /\ OldCards(m) /\ Undisturbed(m)
  BY DEF MergeInv
<1>3. ASSUME NEW n \in Merges, Moves(n) PROVE Goal
  <2>1. /\ \A c \in alive : c \in alive' \/ (pc[n] = "delete" /\ c \in want[n])
                                         \/ (pc[n] = "rollback" /\ c = n)
        /\ removed' = removed
    BY <1>2, <1>3, AliveStep
  <2>2. Forfeited \subseteq Forfeited'
    BY <1>2, <2>1, ForfeitedGrows
  <2>3. \A c \in alive : Carries(c)' = Carries(c)
    <3>1. CASE content' = content BY <3>1 DEF Carries
    <3>2. CASE MakeCard(n) /\ (Create(n) \/ CreateFails(n))
      <4>1. pc[n] = "create" BY <3>2 DEF Create, CreateFails, At
      <4>2. n \notin alive BY <1>2, <4>1 DEF NewCard, Unmade
      <4> QED BY <3>2, <4>2 DEF Carries, MakeCard, TypeOK, Cards
    <3> QED BY <1>3, <3>1, <3>2, MoveStep
  <2>4. CASE s \in Forfeited BY <2>2, <2>4
  <2>5. CASE \E c \in alive : s \in Carries(c)
    <3>1. PICK c \in alive : s \in Carries(c) BY <2>5
    <3>2. CASE c \in alive' BY <2>3, <3>1, <3>2
    <3>3. CASE pc[n] = "delete" /\ c \in want[n]
      <4>1. n \in alive /\ n \notin want[n] /\ content[n] = UNION {Carries(d) : d \in want[n]}
        BY <1>2, <3>3 DEF NewCard, NamedAreOld, Made, Over
      <4>2. n \in alive'
        BY <2>1, <3>3, <4>1
      <4>3. s \in Carries(n)
        BY <3>1, <3>3, <4>1, CardsAssumption DEF Carries
      <4> QED BY <2>3, <4>1, <4>2, <4>3
    <3>4. CASE pc[n] = "rollback" /\ c = n
      <4>1. /\ content[n] = UNION {Carries(d) : d \in want[n]} /\ n \notin want[n]
            /\ deleted[n] = {} /\ want[n] \subseteq alive \cup removed
        BY <1>2, <3>4 DEF NewCard, NamedAreOld, OldCards, Undisturbed, Vanished, Made, Working, Over
      <4>2. s \in content[n]
        BY <3>1, <3>4, CardsAssumption DEF Carries
      <4>3. PICK d \in want[n] : s \in Carries(d)
        BY <4>1, <4>2
      <4>4. CASE d \in removed
        BY <2>2, <4>3, <4>4 DEF Forfeited
      <4>5. CASE d \in alive
        BY <2>1, <2>3, <3>4, <4>1, <4>3, <4>5
      <4> QED BY <4>1, <4>4, <4>5
    <3> QED BY <2>1, <3>2, <3>3, <3>4
  <2> QED BY <1>1, <2>4, <2>5
<1>4. ASSUME NEW c \in Cards, DeleteByHand(c) PROVE Goal
  <2>1. alive' = alive \ {c} /\ removed' = removed \cup {c} /\ content' = content
    BY <1>4 DEF DeleteByHand
  <2>2. \A d : Carries(d)' = Carries(d)
    BY <2>1 DEF Carries
  <2>3. Forfeited' = Forfeited \cup Carries(c)
    BY <2>1, <2>2 DEF Forfeited
  <2> QED BY <1>1, <2>1, <2>2, <2>3
<1>5. ASSUME Crash \/ UNCHANGED vars PROVE Goal
  <2>1. UNCHANGED <<alive, content, removed>>
    BY <1>5 DEF Crash, upstream, vars
  <2>2. \A d : Carries(d)' = Carries(d)
    BY <2>1 DEF Carries
  <2>3. Forfeited' = Forfeited
    BY <2>1, <2>2 DEF Forfeited
  <2> QED BY <1>1, <2>1, <2>2, <2>3
<1> QED BY <1>3, <1>4, <1>5 DEF Next, Moves

(* No quota is lost by merges, failed calls and crashes (merge_delete.go,  *)
(* merge_rollback.go), where a deletion that fails was not applied.        *)
THEOREM MergesLoseNothing ==
  ASSUME "delete" \notin Lost PROVE Spec => []NoQuotaLost
<1>1. Init => NoQuotaLost
  BY DEF Init, NoQuotaLost, Carries
<1>2. TypeOK /\ MergeInv /\ NoQuotaLost /\ [Next]_vars => NoQuotaLost'
  BY QuotaStep
<1> QED BY <1>1, <1>2, MergeTypeCorrect, MergeSafe, PTL DEF Spec
=============================================================================
