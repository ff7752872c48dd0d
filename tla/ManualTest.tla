----------------------------- MODULE ManualTest -----------------------------
(***************************************************************************)
(* Testing a model by hand (model_manual_runner.go).                       *)
(*                                                                         *)
(* A test reserves its cell of the table for an hour; the reservation is   *)
(* given back if no channel was tested.  Reservations and results are      *)
(* values of two sync.Maps, whose single calls are atomic and nothing      *)
(* else is.  Every test, and every build of the status, first prunes what  *)
(* has expired.  The module is about one cell.                             *)
(***************************************************************************)
EXTENDS Integers, FiniteSets

CONSTANTS
  Testers,   \* requests, and builds, which only prune
  Cooldown,  \* modelTestCooldown
  MaxTime    \* bound: the clock

VARIABLES
  now,
  cooldown,  \* testCooldowns: when the next test is allowed, 0 if not set
  result,    \* testResults: NextAllowedAt of the record, 0 if there is none
  tester,    \* per tester: [at, start], with the time it read at first
  grants,    \* history: reservations that were not given back, [by, until]
  raced      \* history: a reservation was deleted that was meant for another test

vars == <<now, cooldown, result, tester, grants, raced>>

Idle == [at |-> "idle", start |-> 0]
Until(t) == tester[t].start + Cooldown

Init ==
  /\ now = 1 /\ cooldown = 0 /\ result = 0
  /\ tester = [t \in Testers |-> Idle] /\ grants = {} /\ raced = FALSE

Go(t, place) == tester' = [tester EXCEPT ![t].at = place]

Begin(t) ==
  /\ tester[t].at = "idle"
  /\ tester' = [tester EXCEPT ![t] = [at |-> "prune cooldowns", start |-> now]]
  /\ UNCHANGED <<now, cooldown, result, grants, raced>>

\* Delete of the reservation, whoever's it is by now.
Deleted == cooldown' = 0 /\ raced' = (raced \/ cooldown > now)

(***************************************************************************)
(* pruneManualTestCache                                                    *)
(***************************************************************************)

\* Range shows an expired reservation, which is deleted in another step.
PruneCooldowns(t) ==
  \/ /\ tester[t].at = "prune cooldowns"
     /\ IF cooldown # 0 /\ cooldown <= tester[t].start THEN Go(t, "drop cooldown")
        ELSE Go(t, "prune results")
     /\ UNCHANGED <<now, cooldown, result, grants, raced>>
  \/ /\ tester[t].at = "drop cooldown" /\ Go(t, "prune results")
     /\ Deleted /\ result' = 0 /\ UNCHANGED <<now, grants>>

\* The same from the results.
PruneResults(t) ==
  \/ /\ tester[t].at = "prune results"
     /\ IF result # 0 /\ result <= tester[t].start THEN Go(t, "drop result")
        ELSE Go(t, "check") \/ Go(t, "idle")
     /\ UNCHANGED <<now, cooldown, result, grants, raced>>
  \/ /\ tester[t].at = "drop result" /\ (Go(t, "check") \/ Go(t, "idle"))
     /\ Deleted /\ result' = 0 /\ UNCHANGED <<now, grants>>

(***************************************************************************)
(* reserveModelTestCooldown                                                *)
(***************************************************************************)

Held(t) == cooldown > tester[t].start

Check(t) ==
  /\ tester[t].at = "check" /\ Go(t, IF Held(t) THEN "idle" ELSE "reserve")
  /\ UNCHANGED <<now, cooldown, result, grants, raced>>

Granted(t) ==
  /\ cooldown' = Until(t) /\ Go(t, "testing")
  /\ grants' = grants \cup {[by |-> t, until |-> Until(t)]}

\* Seeded fault: the reservation is stored without looking again.
Reserve_Blindly(t) == Granted(t)

\* LoadOrStore.  The Store over a reservation that is there but has expired is never
\* reached: the test has pruned those, and what was stored since has not expired.
Reserve(t) ==
  \/ cooldown = 0 /\ Granted(t)
  \/ cooldown # 0 /\ Go(t, "idle") /\ UNCHANGED <<cooldown, grants>>

Load(t) == tester[t].at = "reserve" /\ Reserve(t) /\ UNCHANGED <<now, result, raced>>

(***************************************************************************)
(* testModel                                                               *)
(***************************************************************************)

\* The result is stored; the reservation stays.
Test(t) ==
  /\ tester[t].at = "testing" /\ Go(t, "idle") /\ result' = Until(t)
  /\ UNCHANGED <<now, cooldown, grants, raced>>

\* No channel could be loaded or tested, or the client went away:
\* clearManualTestCooldownReservation looks, and deletes in another step.
GiveUp(t) ==
  \/ /\ tester[t].at = "testing" /\ Go(t, IF cooldown = Until(t) THEN "clear" ELSE "idle")
     /\ grants' = grants \ {[by |-> t, until |-> Until(t)]}
     /\ UNCHANGED <<now, cooldown, result, raced>>
  \/ /\ tester[t].at = "clear" /\ Go(t, "idle")
     /\ cooldown' = 0 /\ raced' = (raced \/ cooldown \notin {0, Until(t)})
     /\ UNCHANGED <<now, result, grants>>

\* The client goes away at the very end: the reservation is deleted without looking.
Withdraw(t) ==
  /\ tester[t].at = "testing" /\ Go(t, "idle")
  /\ grants' = grants \ {[by |-> t, until |-> Until(t)]}
  /\ cooldown' = 0 /\ raced' = (raced \/ cooldown \notin {0, Until(t)})
  /\ UNCHANGED <<now, result>>

\* Time passes; the steps before a test only touch memory, and take no hour together.
Tick ==
  /\ now < MaxTime /\ now' = now + 1
  /\ \A t \in Testers : tester[t].at \in {"idle", "testing"} \/ now' < Until(t)
  /\ UNCHANGED <<cooldown, result, tester, grants, raced>>

Next ==
  \/ Tick
  \/ \E t \in Testers : Begin(t) \/ PruneCooldowns(t) \/ PruneResults(t) \/ Check(t) \/ Load(t)
                        \/ Test(t) \/ GiveUp(t) \/ Withdraw(t)

Spec == Init /\ [][Next]_vars

(***************************************************************************)
(* Properties                                                              *)
(***************************************************************************)

Places == {"idle", "prune cooldowns", "drop cooldown", "prune results", "drop result", "check",
           "reserve", "testing", "clear"}
Ends == 0..MaxTime + Cooldown
TesterType == [at : Places, start : 0..MaxTime]

TypeOK ==
  /\ now \in 1..MaxTime /\ cooldown \in Ends /\ result \in Ends /\ raced \in BOOLEAN
  /\ tester \in [Testers -> TesterType]
  /\ grants \subseteq [by : Testers, until : Ends]

\* A cell is tested again within the hour only if a request that had seen an expired
\* reservation, or whose own had expired under its test, deleted the new one in its place: the
\* cooldown is kept by LoadOrStore and lost by deletions that go by the key alone
\* (reserveModelTestCooldown, pruneManualTestCache, clearManualTestCooldownReservation).
DoubleTestNeedsRace ==
  ~raced => /\ \A g, h \in {e \in grants : e.until > now} : g = h
            /\ \A t \in Testers : tester[t].at = "reserve" /\ cooldown # 0 => Held(t)
=============================================================================
