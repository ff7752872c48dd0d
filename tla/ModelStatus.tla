---------------------------- MODULE ModelStatus -----------------------------
(***************************************************************************)
(* The cache of the models' status (model_status_cache_flow.go,            *)
(* runtime_state.go, admin_runtime.go).                                    *)
(*                                                                         *)
(* The first request that finds nothing fresh builds the status; those     *)
(* that come meanwhile wait for it and share it.  A client may go away at  *)
(* any time, which cuts the calls of a build it leads: those who wait with *)
(* it are handed what it got, but nobody later is.  An administrator may   *)
(* save other sites, which clears the cache.  The key of the cache hashes  *)
(* the environment and files, which do not change while the process runs,  *)
(* so there is one key.                                                    *)
(***************************************************************************)
EXTENDS Integers, FiniteSets

CONSTANTS
  Requests,   \* calls of getModelStatus
  NoRequest,  \* no build is shared
  NoStatus,   \* nil
  MaxSaves,   \* bound: saves of the sites
  MaxLeaves,  \* bound: clients that go away
  MaxPanics   \* bound: builds that panic

VARIABLES
  saved,      \* version of the stored sites
  resets,     \* saves whose resetModelStatusCache is to come
  cache,      \* modelCache: [status, age]; "fresh" until ForceRefreshAfter, "open" until Expires
  inflight,   \* modelCache.Inflight: the request that builds
  req,        \* per request: [at, force, told, done, sites, left]
  leaves, panics

vars == <<saved, resets, cache, inflight, req, leaves, panics>>

Admin == <<saved, resets>>
Bounds == <<leaves, panics>>

Empty == [status |-> NoStatus, age |-> "gone"]
Idle == [at |-> "idle", force |-> FALSE, told |-> NoStatus, done |-> FALSE, sites |-> 0,
         left |-> FALSE]

Init ==
  /\ saved = 0 /\ resets = 0 /\ cache = Empty /\ inflight = NoRequest
  /\ req = [r \in Requests |-> Idle] /\ leaves = 0 /\ panics = 0

Go(r, place) == req' = [req EXCEPT ![r].at = place]
Served(r) == req' = [req EXCEPT ![r] = Idle]

Arrive(r) ==
  /\ req[r].at = "idle"
  /\ \E force \in BOOLEAN : req' = [req EXCEPT ![r] = [Idle EXCEPT !.at = "ask", !.force = force]]
  /\ UNCHANGED <<Admin, cache, inflight, Bounds>>

\* The client goes away: r.Context() is cancelled.
GoAway(r) ==
  /\ req[r].at # "idle" /\ ~req[r].left /\ leaves < MaxLeaves
  /\ req' = [req EXCEPT ![r].left = TRUE] /\ leaves' = leaves + 1
  /\ UNCHANGED <<Admin, cache, inflight, panics>>

\* A forced refresh takes what is less than a minute old.
Usable(force) ==
  cache.status # NoStatus /\ cache.age \in (IF force THEN {"fresh"} ELSE {"fresh", "open"})

\* Under the lock of the cache: take the status, join the build, or lead one.
Ask(r) ==
  /\ req[r].at = "ask"
  /\ \/ Usable(req[r].force) /\ Served(r) /\ UNCHANGED inflight
     \/ ~Usable(req[r].force) /\ inflight # NoRequest /\ Go(r, "wait") /\ UNCHANGED inflight
     \/ ~Usable(req[r].force) /\ inflight = NoRequest /\ Go(r, "lead") /\ inflight' = r
  /\ UNCHANGED <<Admin, cache, Bounds>>

\* newModelStatusBuildPlan reads the stored sites.
Plan(r) ==
  /\ req[r].at \in {"lead", "alone"}
  /\ req' = [req EXCEPT ![r].at = IF @ = "lead" THEN "build" ELSE "build alone",
                        ![r].sites = saved]
  /\ UNCHANGED <<Admin, cache, inflight, Bounds>>

\* What a build gives: whole unless its calls were cut; crossed if other sites were saved
\* meanwhile.
Built(r) ==
  {[sites |-> req[r].sites, crossed |-> req[r].sites # saved, whole |-> whole] :
     whole \in IF req[r].left THEN BOOLEAN ELSE {TRUE}}

\* Seeded fault: the status is stored although its client is gone.
Stores_Always(r) == TRUE

Stores(r) == ~req[r].left

\* Seeded fault: the waiting requests are told by a build that ends well only.
Tell_Finished(r, status) ==
  /\ inflight' = NoRequest
  /\ req' = [q \in Requests |->
               IF q = r THEN Idle
               ELSE IF req[q].at = "wait" /\ status # NoStatus
                    THEN [req[q] EXCEPT !.told = status, !.done = TRUE]
               ELSE req[q]]

\* The deferred end of a build: the waiting requests are told what it got, were it cut short.
Tell(r, status) ==
  /\ inflight' = NoRequest
  /\ req' = [q \in Requests |->
               IF q = r THEN Idle
               ELSE IF req[q].at = "wait" THEN [req[q] EXCEPT !.told = status, !.done = TRUE]
               ELSE req[q]]

Finish(r) ==
  /\ req[r].at = "build"
  /\ \E status \in Built(r) :
       /\ Tell(r, status)
       /\ cache' = IF Stores(r) THEN [status |-> status, age |-> "fresh"] ELSE cache
  /\ UNCHANGED <<Admin, Bounds>>

\* The build panics: nobody gets a status.
Panic(r) ==
  /\ req[r].at \in {"lead", "build"} /\ panics < MaxPanics /\ panics' = panics + 1
  /\ Tell(r, NoStatus)
  /\ UNCHANGED <<Admin, cache, leaves>>

\* <-done: the shared status, or another round without force.
Told(r) ==
  /\ req[r].at = "wait" /\ req[r].done
  /\ IF req[r].told # NoStatus THEN Served(r)
     ELSE req' = [req EXCEPT ![r] = [Idle EXCEPT !.at = "ask", !.left = req[r].left]]
  /\ UNCHANGED <<Admin, cache, inflight, Bounds>>

\* <-ctx.Done(): a build of one's own, which is not stored.
BuildAlone(r) ==
  /\ req[r].at = "wait" /\ req[r].left /\ Go(r, "alone")
  /\ UNCHANGED <<Admin, cache, inflight, Bounds>>

FinishAlone(r) ==
  /\ req[r].at = "build alone" /\ Served(r)
  /\ UNCHANGED <<Admin, cache, inflight, Bounds>>

\* Time passes.
Age ==
  /\ cache.age # "gone"
  /\ cache' = [cache EXCEPT !.age = IF @ = "fresh" THEN "open" ELSE "gone"]
  /\ UNCHANGED <<Admin, inflight, req, Bounds>>

\* SavePatch stores the sites; applyToolConfigSnapshot clears the cache later.
Save ==
  /\ saved < MaxSaves /\ saved' = saved + 1 /\ resets' = resets + 1
  /\ UNCHANGED <<cache, inflight, req, Bounds>>

\* Seeded fault: what was stored just now is kept.
Cleared_UnlessFresh == IF cache.age = "fresh" THEN cache ELSE Empty

Cleared == Empty

\* resetModelStatusCache; a build under way goes on.
Reset ==
  /\ resets > 0 /\ resets' = resets - 1 /\ cache' = Cleared
  /\ UNCHANGED <<saved, inflight, req, Bounds>>

Handle(r) == Ask(r) \/ Plan(r) \/ Finish(r) \/ Told(r) \/ BuildAlone(r) \/ FinishAlone(r)

Next ==
  \/ Reset \/ Age \/ Save
  \/ \E r \in Requests : Handle(r) \/ Arrive(r) \/ GoAway(r) \/ Panic(r)

\* A goroutine runs on; a build's calls end with the client's timeout.
Fairness == \A r \in Requests : WF_vars(Handle(r))

Spec == Init /\ [][Next]_vars /\ Fairness

(***************************************************************************)
(* Properties                                                              *)
(***************************************************************************)

Places == {"idle", "ask", "wait", "lead", "build", "alone", "build alone"}
Built_ == [sites : 0..MaxSaves, crossed : BOOLEAN, whole : BOOLEAN]
Statuses == Built_ \cup {NoStatus}
RequestType == [at : Places, force : BOOLEAN, told : Statuses, done : BOOLEAN,
                sites : 0..MaxSaves, left : BOOLEAN]
CacheType == [status : Statuses, age : {"fresh", "open", "gone"}]

TypeOK ==
  /\ saved \in 0..MaxSaves /\ resets \in 0..MaxSaves
  /\ cache \in CacheType /\ inflight \in Requests \cup {NoRequest}
  /\ req \in [Requests -> RequestType] /\ leaves \in Nat

\* One build is shared at a time, and whoever waits is waiting for one or was told.
SingleFlight ==
  /\ \A r \in Requests : req[r].at \in {"lead", "build"} <=> inflight = r
  /\ \A r \in Requests : req[r].at = "wait" /\ ~req[r].done => inflight # NoRequest

\* A status that was cut short because its client went away is never kept for requests that
\* come later.
CachedIsWhole == cache.status # NoStatus => cache.status.whole

\* Those who waited for it are handed it as it is, but only then: as long as no client has
\* gone away, everybody who waits is handed a whole one.
ToldIsWholeUnlessLeft ==
  leaves = 0 => \A r \in Requests :
    /\ ~req[r].left
    /\ req[r].told # NoStatus => req[r].told.whole

\* The cache shows other sites than the stored ones only until the save has cleared it,
\* or if the save came while the status was being built, which the clearing cannot reach.
StaleNeedsOverlap ==
  cache.status # NoStatus /\ cache.status.sites # saved /\ resets = 0 => cache.status.crossed

\* All of them: nothing that a single request spoiled is kept for later ones, and those that
\* wait for a build get what it got (model_status_cache_flow.go).
StatusIsSound == SingleFlight /\ CachedIsWhole /\ ToldIsWholeUnlessLeft /\ StaleNeedsOverlap
=============================================================================
