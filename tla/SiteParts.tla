----------------------------- MODULE SiteParts ------------------------------
(***************************************************************************)
(* What the site does with tokens, records, caches and its configuration.  *)
(* The parts share no state, so a behaviour is about one of them, its      *)
(* focus, and leaves the others at their start; fairness is asked of the   *)
(* focus alone.                                                            *)
(***************************************************************************)
EXTENDS TokenQuota, FiniteSets

CONSTANTS
  Parts,      \* parts that a behaviour may be about
  Watched,    \* requests and saves that are asked to be served in the end
  KeyCount, Goroutines, NoError,                           \* BatchSearch
  CardsOf, NoCard, Retention, MaxTraceTime,             \* MergeTrace
  Requests, NoRequest, NoStatus, MaxLeaves, MaxPanics,  \* ModelStatus
  Testers, Cooldown, MaxTime,                           \* ManualTest
  Handlers, Readers, NoConfig,                          \* SiteConfig
  MaxSaves                                              \* saves of ModelStatus and SiteConfig

ASSUME SearchAssumption == KeyCount \in Nat /\ NoError \notin {"ok", "failure", "context canceled"}

ASSUME TraceAssumption ==
  /\ \A m \in DOMAIN CardsOf : IsFiniteSet(CardsOf[m])
  /\ Retention \in Nat /\ MaxTraceTime \in Nat \ {0}

ASSUME SavesAssumption == MaxSaves \in Nat /\ NoRequest \notin Requests

ASSUME ConfigAssumption == NoConfig \notin [rest : Int, sites : Int, cookie : Int]

ASSUME ManualAssumption == Cooldown \in Nat \ {0} /\ MaxTime \in Nat \ {0}

VARIABLES
  focus,
  next, closed, searcher, errCh, cancelled, parent, results, caller, outcome, searchFaults,
  gone, fresh, record, rows, job, traceTime, traceFaults,
  saved, resets, cache, inflight, req, leaves, panics,
  now, cooldown, result, tester, grants, raced,
  disk, legacy, process, store, runtime, combine, save, reader, saves, saveFaults, acked, crossed

Batch == INSTANCE BatchSearch
  WITH Count <- KeyCount, Workers <- Goroutines, worker <- searcher, faults <- searchFaults

Trace == INSTANCE MergeTrace
  WITH MaxTime <- MaxTraceTime, now <- traceTime, faults <- traceFaults

Status == INSTANCE ModelStatus

Manual == INSTANCE ManualTest

Site == INSTANCE SiteConfig WITH faults <- saveFaults

searchVars == <<next, closed, searcher, errCh, cancelled, parent, results, caller, outcome,
                searchFaults>>
traceVars  == <<gone, fresh, record, rows, job, traceTime, traceFaults>>
statusVars == <<saved, resets, cache, inflight, req, leaves, panics>>
manualVars == <<now, cooldown, result, tester, grants, raced>>
siteVars   == <<disk, legacy, process, store, runtime, combine, save, reader, saves, saveFaults,
                acked, crossed>>
allVars    == <<focus, vars, searchVars, traceVars, statusVars, manualVars, siteVars>>

PartsInit ==
  /\ focus \in Parts
  /\ Init /\ Batch!Init /\ Trace!Init /\ Status!Init /\ Manual!Init
  /\ Site!Init /\ (focus # "config" => ~legacy)

PartsNext ==
  /\ UNCHANGED focus
  /\ \/ focus = "quota" /\ Next
        /\ UNCHANGED <<searchVars, traceVars, statusVars, manualVars, siteVars>>
     \/ focus = "search" /\ Batch!Next
        /\ UNCHANGED <<vars, traceVars, statusVars, manualVars, siteVars>>
     \/ focus = "trace" /\ Trace!Next
        /\ UNCHANGED <<vars, searchVars, statusVars, manualVars, siteVars>>
     \/ focus = "status" /\ Status!Next
        /\ UNCHANGED <<vars, searchVars, traceVars, manualVars, siteVars>>
     \/ focus = "manual" /\ Manual!Next
        /\ UNCHANGED <<vars, searchVars, traceVars, statusVars, siteVars>>
     \/ focus = "config" /\ Site!Next
        /\ UNCHANGED <<vars, searchVars, traceVars, statusVars, manualVars>>

PartsFairness ==
  /\ WF_vars(focus = "quota" /\ Work)
  /\ WF_searchVars(focus = "search" /\ Batch!Work)
  /\ Status!Fairness
  /\ Site!Fairness

PartsSpec == PartsInit /\ [][PartsNext]_allVars /\ PartsFairness

\* A search for several keys answers in full or says what went wrong (BatchSearch).
SearchIsHonest == Batch!SearchIsHonest

\* No card disappears without a record, and records say nothing untrue (trace_write.go).
TraceIsSound == Trace!TraceIsSound

\* The status kept for later requests is whole, and stale only if a save came in between;
\* those who wait may be handed one cut short by a client that left
\* (model_status_cache_flow.go).
StatusIsSound == Status!StatusIsSound

\* A model is tested twice an hour only if pruning, or the end of a test that took longer
\* than its reservation, deleted one made meanwhile (model_manual_runner.go).
DoubleTestNeedsRace == Manual!DoubleTestNeedsRace

\* What was saved is stored, runs and is served, unless saves cross (admin_config_routes.go).
ConfigIsSound == Site!ConfigIsSound

\* What was begun ends: the rows of a card are paid or given up (credit_worker.go), a search
\* for several keys returns however its workers fail (BatchSearch), a request for the
\* status does not wait for a build that panicked (getModelStatus), and a save reaches the
\* modules however many requests the card merger serves (replaceCombineRuntime).  Requests are
\* alike, and so are saves: one of each is watched.
WorkEnds ==
  /\ focus = "quota" => <>Settled
  /\ focus = "search" => <>Batch!Returned
  /\ \A r \in Watched : req[r].at = "wait" ~> req[r].at # "wait"
  /\ \A h \in Watched : save[h].at # "idle" ~> save[h].at = "idle"
=============================================================================
