---------------------------- MODULE SiteProofs -----------------------------
EXTENDS SiteParts, FiniteSetTheorems, TLAPS

(***************************************************************************)
(* ModelStatus                                                             *)
(***************************************************************************)

\* The inductive invariant: the types, and that every reset of the cache answers a save.
StatusInv == Status!TypeOK /\ resets <= saved /\ StatusIsSound

LEMMA IdleRequest ==
  /\ Status!Idle \in Status!RequestType
  /\ Status!Idle.at = "idle" /\ Status!Idle.told = NoStatus /\ ~Status!Idle.left
BY SavesAssumption DEF Status!Idle, Status!Places, Status!RequestType, Status!Statuses

LEMMA NothingCached ==
  Status!Empty \in Status!CacheType /\ Status!Empty.status = NoStatus
BY DEF Status!CacheType, Status!Empty, Status!Statuses

LEMMA StatusInit == Status!Init => StatusInv
BY SavesAssumption, IdleRequest, NothingCached
   DEF Status!Init, StatusInv, Status!TypeOK, StatusIsSound, Status!StatusIsSound,
      Status!SingleFlight, Status!CachedIsWhole, Status!ToldIsWholeUnlessLeft,
     Status!StaleNeedsOverlap

\* What a request has left or was told tells nothing new about the clients.
Alike(new, old) ==
  /\ new.left => old.left
  /\ new.told \in {NoStatus, old.told}

LEMMA StatusOfOne ==
  ASSUME StatusInv, NEW r \in Requests, NEW new \in Status!RequestType,
         req' = [req EXCEPT ![r] = new], UNCHANGED <<saved, resets, cache>>,
         leaves' \in Nat, leaves' = 0 => leaves = 0 /\ Alike(new, req[r]),
         inflight' \in {inflight, r},
         new.at \in {"lead", "build"} <=> inflight' = r,
         inflight' # inflight => inflight = NoRequest,
         new.at = "wait" /\ ~new.done => inflight' # NoRequest
  PROVE  StatusInv'
<1>1. Status!TypeOK'
  BY DEF StatusInv, Status!TypeOK
<1>2. \A q \in Requests : q # r => req'[q] = req[q]
  BY DEF StatusInv, Status!TypeOK
<1>3. req'[r] = new
  BY DEF StatusInv, Status!TypeOK
<1>4. Status!SingleFlight'
  BY <1>2, <1>3, SavesAssumption DEF StatusInv, StatusIsSound, Status!StatusIsSound,
     Status!SingleFlight
<1>5. Status!ToldIsWholeUnlessLeft'
  BY <1>2, <1>3 DEF Alike, StatusInv, StatusIsSound, Status!StatusIsSound,
     Status!ToldIsWholeUnlessLeft
<1> QED
  BY <1>1, <1>4, <1>5 DEF StatusInv, StatusIsSound, Status!StatusIsSound, Status!CachedIsWhole,
     Status!ToldIsWholeUnlessLeft, Status!StaleNeedsOverlap

LEMMA PlaceOfOne ==
  ASSUME NEW q \in Status!RequestType, NEW place \in Status!Places
  PROVE  /\ [q EXCEPT !.at = place] \in Status!RequestType
         /\ [q EXCEPT !.at = place].at = place
         /\ [q EXCEPT !.at = place].done = q.done
         /\ Alike([q EXCEPT !.at = place], q)
BY DEF Status!RequestType, Alike

LEMMA IdleIsAlike == ASSUME NEW old PROVE Alike(Status!Idle, old)
BY IdleRequest DEF Alike

LEMMA LeavesCounted == ASSUME StatusInv PROVE leaves \in Nat
BY DEF StatusInv, Status!TypeOK

LEMMA AskStep ==
  ASSUME StatusInv, NEW r \in Requests, Status!Ask(r)
  PROVE  StatusInv'
<1>1. req[r] \in Status!RequestType /\ req[r].at = "ask" /\ inflight # r
  BY DEF StatusInv, Status!TypeOK, Status!Ask, StatusIsSound, Status!StatusIsSound,
     Status!SingleFlight
<1>2. "wait" \in Status!Places /\ "lead" \in Status!Places BY DEF Status!Places
<1>6. leaves \in Nat /\ leaves' = leaves
  BY LeavesCounted DEF Status!Ask, Status!Bounds
<1>3. CASE Status!Served(r) /\ UNCHANGED inflight
  BY <1>1, <1>3, <1>6, IdleRequest, IdleIsAlike, StatusOfOne
     DEF Status!Ask, Status!Served, Status!Admin
<1>4. CASE inflight # NoRequest /\ Status!Go(r, "wait") /\ UNCHANGED inflight
  BY <1>1, <1>2, <1>4, <1>6, PlaceOfOne, StatusOfOne DEF Status!Ask, Status!Go, Status!Admin
<1>5. CASE inflight = NoRequest /\ Status!Go(r, "lead") /\ inflight' = r
  BY <1>1, <1>2, <1>5, <1>6, PlaceOfOne, StatusOfOne DEF Status!Ask, Status!Go, Status!Admin
<1> QED BY <1>3, <1>4, <1>5 DEF Status!Ask

LEMMA PlanStep ==
  ASSUME StatusInv, NEW r \in Requests, Status!Plan(r)
  PROVE  StatusInv'
<1> DEFINE place == IF req[r].at = "lead" THEN "build" ELSE "build alone"
           new == [req[r] EXCEPT !.at = place, !.sites = saved]
<1>1. /\ req[r] \in Status!RequestType /\ req[r].at \in {"lead", "alone"}
      /\ saved \in 0..MaxSaves /\ req' = [req EXCEPT ![r] = new]
      /\ UNCHANGED <<saved, resets, cache, inflight, leaves>> /\ leaves \in Nat
  BY DEF StatusInv, Status!TypeOK, Status!Plan, Status!Admin, Status!Bounds
<1>2. new \in Status!RequestType /\ new.at = place /\ Alike(new, req[r])
  BY <1>1 DEF Status!RequestType, Status!Places, Alike
<1>3. req[r].at \in {"lead", "build"} <=> inflight = r
  BY DEF StatusInv, StatusIsSound, Status!StatusIsSound, Status!SingleFlight
<1> HIDE DEF new
<1> QED BY <1>1, <1>2, <1>3, StatusOfOne

LEMMA TellStep ==
  ASSUME StatusInv, NEW r \in Requests, NEW status \in Status!Statuses,
         inflight = r, Status!Tell(r, status), UNCHANGED leaves,
         leaves = 0 /\ status # NoStatus => status.whole
  PROVE  /\ req' \in [Requests -> Status!RequestType] /\ Status!SingleFlight'
         /\ Status!ToldIsWholeUnlessLeft'
<1> DEFINE told(q) == [req[q] EXCEPT !.told = status, !.done = TRUE]
<1>1. /\ req \in [Requests -> Status!RequestType] /\ inflight' = NoRequest
      /\ req' = [q \in Requests |-> IF q = r THEN Status!Idle
                                   ELSE IF req[q].at = "wait" THEN told(q) ELSE req[q]]
  BY DEF StatusInv, Status!TypeOK, Status!Tell
<1>2. ASSUME NEW q \in Requests
      PROVE  /\ told(q) \in Status!RequestType /\ told(q).at = req[q].at /\ told(q).done
             /\ told(q).left = req[q].left /\ told(q).told = status
  BY <1>1 DEF Status!RequestType
<1> HIDE DEF told
<1>3. req' \in [Requests -> Status!RequestType] BY <1>1, <1>2, IdleRequest
<1>4. \A q \in Requests : req[q].at \in {"lead", "build"} => q = r
  BY DEF StatusInv, StatusIsSound, Status!StatusIsSound, Status!SingleFlight
<1>5. \A q \in Requests : req'[q].at \notin {"lead", "build"}
  BY <1>1, <1>2, <1>4, IdleRequest
<1>6. \A q \in Requests : req'[q].at = "wait" => req'[q].done
  BY <1>1, <1>2, IdleRequest
<1>7. Status!ToldIsWholeUnlessLeft'
  <2>1. ASSUME leaves = 0, NEW q \in Requests
        PROVE  ~req'[q].left /\ (req'[q].told # NoStatus => req'[q].told.whole)
    <3>1. ~req[q].left /\ (req[q].told # NoStatus => req[q].told.whole)
      BY <2>1 DEF StatusInv, StatusIsSound, Status!StatusIsSound, Status!ToldIsWholeUnlessLeft
    <3> QED BY <1>1, <1>2, <2>1, <3>1, IdleRequest
  <2> QED BY <2>1 DEF Status!ToldIsWholeUnlessLeft
<1> QED BY <1>1, <1>3, <1>5, <1>6, <1>7, SavesAssumption DEF Status!SingleFlight

LEMMA FinishStep ==
  ASSUME StatusInv, NEW r \in Requests, Status!Finish(r)
  PROVE  StatusInv'
<1>1. PICK status \in Status!Built(r) :
        /\ Status!Tell(r, status)
        /\ cache' = IF Status!Stores(r) THEN [status |-> status, age |-> "fresh"] ELSE cache
  BY DEF Status!Finish
<1>2. /\ req[r] \in Status!RequestType /\ inflight = r /\ inflight' = NoRequest
      /\ saved \in 0..MaxSaves /\ UNCHANGED <<saved, resets, leaves>> /\ leaves \in Nat
      /\ leaves = 0 => ~req[r].left
  BY <1>1 DEF StatusInv, Status!TypeOK, Status!Finish, Status!Tell, Status!Admin,
     Status!Bounds, StatusIsSound, Status!StatusIsSound, Status!SingleFlight,
     Status!ToldIsWholeUnlessLeft
<1>3. /\ status \in Status!Statuses
      /\ status.sites = req[r].sites /\ status.crossed = (req[r].sites # saved)
      /\ ~req[r].left => status.whole
  <2>1. PICK whole \in BOOLEAN :
          /\ status = [sites |-> req[r].sites, crossed |-> req[r].sites # saved, whole |-> whole]
          /\ ~req[r].left => whole
    BY <1>1 DEF Status!Built
  <2>2. req[r].sites \in 0..MaxSaves BY <1>2 DEF Status!RequestType
  <2> QED BY <2>1, <2>2 DEF Status!Built_, Status!Statuses
<1>4. /\ req' \in [Requests -> Status!RequestType] /\ Status!SingleFlight'
      /\ Status!ToldIsWholeUnlessLeft'
  BY <1>1, <1>2, <1>3, TellStep
<1>5. CASE Status!Stores(r)
  <2>1. cache'.status = status /\ cache' \in Status!CacheType
    BY <1>1, <1>3, <1>5 DEF Status!CacheType
  <2> QED
    BY <1>2, <1>3, <1>4, <1>5, <2>1 DEF StatusInv, Status!TypeOK, Status!Stores, StatusIsSound,
       Status!StatusIsSound, Status!CachedIsWhole, Status!ToldIsWholeUnlessLeft,
     Status!StaleNeedsOverlap
<1>6. CASE ~Status!Stores(r)
  BY <1>1, <1>2, <1>4, <1>6 DEF StatusInv, Status!TypeOK, StatusIsSound,
     Status!StatusIsSound, Status!CachedIsWhole, Status!ToldIsWholeUnlessLeft,
     Status!StaleNeedsOverlap
<1> QED BY <1>5, <1>6

LEMMA PanicStep ==
  ASSUME StatusInv, NEW r \in Requests, Status!Panic(r)
  PROVE  StatusInv'
<1>1. /\ inflight = r /\ Status!Tell(r, NoStatus) /\ NoStatus \in Status!Statuses
      /\ UNCHANGED <<saved, resets, cache, leaves>>
  BY DEF StatusInv, Status!Panic, Status!Admin, Status!Statuses, StatusIsSound,
     Status!StatusIsSound, Status!SingleFlight
<1>2. /\ req' \in [Requests -> Status!RequestType] /\ Status!SingleFlight'
      /\ Status!ToldIsWholeUnlessLeft'
  BY <1>1, TellStep
<1> QED
  BY <1>1, <1>2 DEF StatusInv, Status!TypeOK, Status!Tell, StatusIsSound,
     Status!StatusIsSound, Status!CachedIsWhole, Status!ToldIsWholeUnlessLeft,
     Status!StaleNeedsOverlap

\* A request that waited, was told, goes on alone, arrives or is left by its client.
LEMMA OtherRequestStep ==
  ASSUME StatusInv, NEW r \in Requests,
         \/ Status!Told(r) \/ Status!BuildAlone(r) \/ Status!FinishAlone(r)
         \/ Status!Arrive(r) \/ Status!GoAway(r)
  PROVE  StatusInv'
<1>1. /\ req[r] \in Status!RequestType
      /\ req[r].at \in {"lead", "build"} <=> inflight = r
      /\ req[r].at = "wait" /\ ~req[r].done => inflight # NoRequest
      /\ UNCHANGED <<saved, resets, cache, inflight>>
      /\ leaves \in Nat /\ leaves' = IF Status!GoAway(r) THEN leaves + 1 ELSE leaves
  BY DEF StatusInv, Status!TypeOK, StatusIsSound, Status!StatusIsSound, Status!SingleFlight,
     Status!Told, Status!BuildAlone, Status!FinishAlone, Status!Arrive, Status!GoAway,
     Status!Admin, Status!Bounds
<1>3. leaves' \in Nat /\ (leaves' = 0 => leaves = 0 /\ ~Status!GoAway(r)) BY <1>1
<1>2. SUFFICES ASSUME NEW new \in Status!RequestType, req' = [req EXCEPT ![r] = new],
                      Status!GoAway(r) \/ Alike(new, req[r]),
                      new.at \in {"lead", "build"} <=> inflight = r,
                      new.at = "wait" /\ ~new.done => inflight # NoRequest
               PROVE  StatusInv'
  <2>1. CASE Status!Served(r) /\ inflight # r
    BY <2>1, <1>2, IdleRequest, IdleIsAlike DEF Status!Served
  <2>2. CASE Status!Told(r) /\ ~Status!Served(r)
    <3> DEFINE new == [Status!Idle EXCEPT !.at = "ask", !.left = req[r].left]
    <3>1. req' = [req EXCEPT ![r] = new] /\ inflight # r BY <1>1, <2>2 DEF Status!Told
    <3>2. new \in Status!RequestType /\ new.at = "ask" /\ Alike(new, req[r])
      BY <1>1, IdleRequest DEF Status!RequestType, Status!Places, Alike
    <3> QED BY <1>2, <3>1, <3>2
  <2>3. CASE Status!BuildAlone(r)
    <3>1. "alone" \in Status!Places /\ inflight # r
      BY <1>1, <2>3 DEF Status!Places, Status!BuildAlone
    <3> QED BY <1>1, <1>2, <2>3, <3>1, PlaceOfOne DEF Status!BuildAlone, Status!Go
  <2>4. CASE Status!Arrive(r)
    <3>1. PICK force \in BOOLEAN :
            req' = [req EXCEPT ![r] = [Status!Idle EXCEPT !.at = "ask", !.force = force]]
      BY <2>4 DEF Status!Arrive
    <3> DEFINE new == [Status!Idle EXCEPT !.at = "ask", !.force = force]
    <3>2. new \in Status!RequestType /\ new.at = "ask" /\ Alike(new, req[r])
      BY IdleRequest DEF Status!RequestType, Status!Places, Alike
    <3>3. inflight # r BY <1>1, <2>4 DEF Status!Arrive
    <3> QED BY <1>2, <3>1, <3>2, <3>3
  <2>5. CASE Status!GoAway(r)
    <3> DEFINE new == [req[r] EXCEPT !.left = TRUE]
    <3>1. req' = [req EXCEPT ![r] = new] BY <2>5 DEF Status!GoAway
    <3>2. new \in Status!RequestType /\ new.at = req[r].at /\ new.done = req[r].done
      BY <1>1 DEF Status!RequestType
    <3> QED BY <1>1, <1>2, <2>5, <3>1, <3>2
  <2>6. Status!FinishAlone(r) => Status!Served(r) /\ inflight # r
    BY <1>1 DEF Status!FinishAlone
  <2>7. Status!Told(r) => inflight # r BY <1>1 DEF Status!Told
  <2> QED BY <2>1, <2>2, <2>3, <2>4, <2>5, <2>6, <2>7
<1> QED BY <1>1, <1>2, <1>3, StatusOfOne

LEMMA StatusStep ==
  ASSUME StatusInv, [Status!Next]_(Status!vars)
  PROVE  StatusInv'
<1>1. CASE Status!Reset
  <2>1. /\ cache' \in Status!CacheType /\ cache'.status = NoStatus
        /\ resets' \in 0..MaxSaves /\ resets' <= saved /\ UNCHANGED <<saved, inflight, req, leaves>>
    BY <1>1, NothingCached, SavesAssumption
       DEF Status!Reset, Status!Cleared, StatusInv, Status!TypeOK, Status!Bounds
  <2> QED
    BY <2>1 DEF StatusInv, Status!TypeOK, StatusIsSound, Status!StatusIsSound,
       Status!SingleFlight, Status!CachedIsWhole, Status!ToldIsWholeUnlessLeft,
     Status!StaleNeedsOverlap
<1>2. CASE Status!Age
  <2>1. cache' \in Status!CacheType /\ cache'.status = cache.status
    BY <1>2 DEF Status!Age, Status!CacheType, StatusInv, Status!TypeOK
  <2> QED
    BY <1>2, <2>1 DEF Status!Age, Status!Admin, Status!Bounds, StatusInv, Status!TypeOK, StatusIsSound,
       Status!StatusIsSound, Status!SingleFlight, Status!CachedIsWhole, Status!ToldIsWholeUnlessLeft,
     Status!StaleNeedsOverlap
<1>3. CASE Status!Save
  BY <1>3, SavesAssumption DEF Status!Save, Status!Bounds, StatusInv, Status!TypeOK, StatusIsSound,
     Status!StatusIsSound, Status!SingleFlight, Status!CachedIsWhole, Status!ToldIsWholeUnlessLeft,
     Status!StaleNeedsOverlap
<1>4. CASE UNCHANGED Status!vars
  BY <1>4 DEF Status!vars, StatusInv, Status!TypeOK, StatusIsSound, Status!StatusIsSound,
     Status!SingleFlight, Status!CachedIsWhole, Status!ToldIsWholeUnlessLeft,
     Status!StaleNeedsOverlap
<1> QED
  BY <1>1, <1>2, <1>3, <1>4, AskStep, PlanStep, FinishStep, PanicStep, OtherRequestStep
     DEF Status!Next, Status!Handle

\* However requests, saves and builds that panic interleave: one build runs at a time for those
\* that wait; what is kept for later requests was collected in full; those that wait are
\* told something cut short only if a client has left; and only a save during a build leaves
\* the cache older than the configuration (model_status_cache_flow.go).
THEOREM StatusShared == Status!Spec => []StatusIsSound
<1>1. StatusInv => StatusIsSound BY DEF StatusInv
<1>2. QED BY StatusInit, StatusStep, <1>1, PTL DEF Status!Spec

(***************************************************************************)
(* ManualTest                                                              *)
(***************************************************************************)

\* A test that is under way, or is about to give its reservation back, within its hour.
Holds(t) == tester[t].at \in {"testing", "clear"} /\ now < Manual!Until(t)
Lasting(g) == now < g.until

\* The clock of a request that has not got to its test.
Punctual ==
  \A t \in Testers :
    /\ tester[t].start <= now
    /\ tester[t].at \notin {"idle", "testing", "clear"} => now < Manual!Until(t)

\* What a request pruned stays away, or is replaced by what lasts longer.
PrunedBehind ==
  \A t \in Testers :
    tester[t].at \in {"prune results", "drop result", "check", "reserve"} =>
      cooldown = 0 \/ Manual!Held(t)

\* The reservation is that of the only test, and so of the only lasting grant.
OneHolder ==
  /\ \A t \in Testers : Holds(t) => cooldown = Manual!Until(t)
  /\ \A t, u \in Testers : Holds(t) /\ Holds(u) => t = u
  /\ \A g \in grants : Lasting(g) => cooldown = g.until
  /\ \A g, h \in grants : Lasting(g) /\ Lasting(h) => g = h
  /\ \A t \in Testers : Holds(t) =>
       IF tester[t].at = "testing" THEN [by |-> t, until |-> Manual!Until(t)] \in grants
       ELSE \A g \in grants : ~Lasting(g)

ManualInv == Manual!TypeOK /\ Punctual /\ PrunedBehind /\ (~raced => OneHolder)

LEMMA ManualInit == Manual!Init => ManualInv
<1> SUFFICES ASSUME Manual!Init PROVE ManualInv
  OBVIOUS
<1>1. Manual!Idle \in Manual!TesterType /\ Manual!Idle.at = "idle" /\ Manual!Idle.start = 0
  BY ManualAssumption DEF Manual!Idle, Manual!TesterType, Manual!Places
<1>2. Manual!TypeOK
  <2>1. 1 \in 1..MaxTime /\ 0 \in Manual!Ends
    BY ManualAssumption DEF Manual!Ends
  <2> QED BY <1>1, <2>1 DEF Manual!Init, Manual!TypeOK
<1>3. Punctual /\ PrunedBehind /\ OneHolder
  BY <1>1 DEF Manual!Init, Punctual, PrunedBehind, OneHolder, Holds
<1> QED BY <1>2, <1>3 DEF ManualInv

\* What a step of one request does to the requests.
LEMMA TesterGoes ==
  ASSUME Manual!TypeOK, NEW t \in Testers, NEW place \in Manual!Places, Manual!Go(t, place)
  PROVE  /\ tester' \in [Testers -> Manual!TesterType]
         /\ tester'[t].at = place
         /\ \A u \in Testers : u # t => tester'[u].at = tester[u].at
         /\ \A u \in Testers : tester'[u].start = tester[u].start
         /\ \A u \in Testers : Manual!Until(u)' = Manual!Until(u)
<1>1. /\ tester \in [Testers -> Manual!TesterType]
      /\ tester' = [tester EXCEPT ![t] = [tester[t] EXCEPT !.at = place]]
  BY DEF Manual!Go, Manual!TypeOK
<1>2. /\ [tester[t] EXCEPT !.at = place] \in Manual!TesterType
      /\ [tester[t] EXCEPT !.at = place].at = place
      /\ [tester[t] EXCEPT !.at = place].start = tester[t].start
  BY <1>1 DEF Manual!TesterType
<1> QED BY <1>1, <1>2 DEF Manual!Until

LEMMA TimesAreNumbers ==
  ASSUME Manual!TypeOK
  PROVE  /\ now \in Nat /\ cooldown \in Nat /\ raced \in BOOLEAN
         /\ result \in Manual!Ends /\ 0 \in Manual!Ends
         /\ \A t \in Testers : /\ tester[t].start \in Nat /\ tester[t].at \in Manual!Places
                               /\ Manual!Until(t) \in Nat /\ Manual!Until(t) \in Manual!Ends
         /\ \A g \in grants : g.until \in Nat
<1>1. MaxTime + Cooldown \in Nat /\ 0 \in Manual!Ends BY ManualAssumption DEF Manual!Ends
<1>2. now \in Nat /\ cooldown \in Nat /\ raced \in BOOLEAN /\ result \in Manual!Ends
  BY <1>1 DEF Manual!TypeOK, Manual!Ends
<1>3. \A t \in Testers : tester[t].start \in 0..MaxTime /\ tester[t].at \in Manual!Places
  BY DEF Manual!TypeOK, Manual!TesterType
<1>4. \A t \in Testers : Manual!Until(t) \in Nat /\ Manual!Until(t) \in Manual!Ends
  BY <1>3, ManualAssumption DEF Manual!Ends, Manual!Until
<1>5. \A g \in grants : g.until \in Manual!Ends BY DEF Manual!TypeOK
<1> QED BY <1>1, <1>2, <1>3, <1>4, <1>5, ManualAssumption DEF Manual!Ends

\* A request goes on and touches neither the reservation nor the grants.
LEMMA TesterMoves ==
  ASSUME ManualInv, NEW t \in Testers, NEW place \in Manual!Places, Manual!Go(t, place),
         UNCHANGED <<now, cooldown, grants, raced>>, result' \in Manual!Ends,
         place \notin {"idle", "testing", "clear"} =>
           tester[t].at \notin {"idle", "testing", "clear"},
         place \in {"prune results", "drop result", "check", "reserve"} =>
           \/ tester[t].at \in {"prune results", "drop result", "check", "reserve"}
           \/ cooldown = 0 \/ Manual!Held(t),
         place \notin {"testing", "clear"}
  PROVE  ManualInv'
<1>1. /\ tester' \in [Testers -> Manual!TesterType]
      /\ tester'[t].at = place
      /\ \A u \in Testers : u # t => tester'[u].at = tester[u].at
      /\ \A u \in Testers : tester'[u].start = tester[u].start
      /\ \A u \in Testers : Manual!Until(u)' = Manual!Until(u)
  BY TesterGoes DEF ManualInv
<1>2. Manual!TypeOK'
  BY <1>1 DEF ManualInv, Manual!TypeOK
<1>3. Punctual'
  BY <1>1 DEF ManualInv, Punctual
<1>4. PrunedBehind'
  BY <1>1 DEF ManualInv, PrunedBehind, Manual!Held
<1>5. ~raced' => OneHolder'
  BY <1>1 DEF ManualInv, OneHolder, Holds, Lasting
<1> QED BY <1>2, <1>3, <1>4, <1>5 DEF ManualInv

\* The reservation is deleted and the request goes on.  Either nobody relied on it, or the
\* race is noted.
LEMMA ReservationDeleted ==
  ASSUME ManualInv, NEW t \in Testers, NEW place \in Manual!Places, Manual!Go(t, place),
         UNCHANGED now, cooldown' = 0, result' \in Manual!Ends, raced' \in BOOLEAN,
         grants' \subseteq grants, place \notin {"testing", "clear"},
         place # "idle" => tester[t].at \notin {"idle", "testing", "clear"},
         ~raced' => /\ \A u \in Testers : Holds(u) => u = t
                    /\ \A g \in grants' : ~Lasting(g)
  PROVE  ManualInv'
<1>1. /\ tester' \in [Testers -> Manual!TesterType]
      /\ tester'[t].at = place
      /\ \A u \in Testers : u # t => tester'[u].at = tester[u].at
      /\ \A u \in Testers : tester'[u].start = tester[u].start
      /\ \A u \in Testers : Manual!Until(u)' = Manual!Until(u)
  BY TesterGoes DEF ManualInv
<1>2. Manual!TypeOK'
  BY <1>1, ManualAssumption DEF ManualInv, Manual!TypeOK, Manual!Ends
<1>3. Punctual' /\ PrunedBehind'
  BY <1>1 DEF ManualInv, Punctual, PrunedBehind
<1>4. ~raced' => OneHolder'
  BY <1>1 DEF OneHolder, Holds, Lasting
<1> QED BY <1>2, <1>3, <1>4 DEF ManualInv

\* A reservation that has expired is nobody's.
LEMMA ExpiredIsFree ==
  ASSUME ManualInv, ~raced, cooldown <= now
  PROVE  (\A u \in Testers : ~Holds(u)) /\ \A g \in grants : ~Lasting(g)
BY TimesAreNumbers DEF ManualInv, OneHolder, Holds, Lasting, Manual!Ends

LEMMA BeginStep ==
  ASSUME ManualInv, NEW t \in Testers, Manual!Begin(t)
  PROVE  ManualInv'
<1> DEFINE new == [at |-> "prune cooldowns", start |-> now]
<1>1. /\ tester[t].at = "idle" /\ tester' = [tester EXCEPT ![t] = new]
      /\ UNCHANGED <<now, cooldown, result, grants, raced>>
      /\ tester \in [Testers -> Manual!TesterType] /\ now \in 1..MaxTime
  BY DEF Manual!Begin, ManualInv, Manual!TypeOK
<1>2. new \in Manual!TesterType
  <2>1. now \in 0..MaxTime BY ManualAssumption DEF ManualInv, Manual!TypeOK
  <2>2. "prune cooldowns" \in Manual!Places BY DEF Manual!Places
  <2> QED BY <2>1, <2>2 DEF Manual!TesterType
<1>3. /\ tester' \in [Testers -> Manual!TesterType]
      /\ tester'[t].at = "prune cooldowns" /\ tester'[t].start = now
      /\ \A u \in Testers : u # t => tester'[u] = tester[u]
      /\ \A u \in Testers : u # t => Manual!Until(u)' = Manual!Until(u)
      /\ Manual!Until(t)' = now + Cooldown
  BY <1>1, <1>2 DEF Manual!Until
<1>4. Manual!TypeOK'
  BY <1>1, <1>3 DEF ManualInv, Manual!TypeOK
<1>5. Punctual'
  <2>1. now \in Nat /\ Cooldown \in Nat \ {0}
    BY TimesAreNumbers, ManualAssumption DEF ManualInv
  <2>2. now <= now /\ now < now + Cooldown BY <2>1
  <2>3. \A u \in Testers :
          /\ u # t => /\ tester[u].start <= now
                      /\ tester[u].at \notin {"idle", "testing", "clear"} =>
                           now < Manual!Until(u)
    BY DEF ManualInv, Punctual
  <2> QED BY <1>1, <1>3, <2>2, <2>3 DEF Punctual
<1>6. PrunedBehind'
  BY <1>1, <1>3 DEF ManualInv, PrunedBehind, Manual!Held
<1>7. ~raced' => OneHolder'
  BY <1>1, <1>3 DEF ManualInv, OneHolder, Holds, Lasting
<1> QED BY <1>4, <1>5, <1>6, <1>7 DEF ManualInv

LEMMA PruneStep ==
  ASSUME ManualInv, NEW t \in Testers, Manual!PruneCooldowns(t) \/ Manual!PruneResults(t)
  PROVE  ManualInv'
<1>1. {"idle", "prune results", "drop cooldown", "drop result", "check"} \subseteq Manual!Places
  BY DEF Manual!Places
<1>2. /\ result \in Manual!Ends /\ 0 \in Manual!Ends /\ raced \in BOOLEAN
      /\ now \in Nat /\ cooldown \in Nat /\ tester[t].start \in Nat
  BY TimesAreNumbers DEF ManualInv
<1>3. CASE tester[t].at = "prune cooldowns"
  <2>1. UNCHANGED <<now, cooldown, result, grants, raced>>
    BY <1>3 DEF Manual!PruneCooldowns, Manual!PruneResults
  <2>2. CASE cooldown # 0 /\ cooldown <= tester[t].start
    <3>1. Manual!Go(t, "drop cooldown") BY <1>3, <2>2, Zenon
     DEF Manual!PruneCooldowns, Manual!PruneResults
    <3> QED BY <1>1, <1>2, <1>3, <2>1, <3>1, TesterMoves
  <2>3. CASE ~(cooldown # 0 /\ cooldown <= tester[t].start)
    <3>1. Manual!Go(t, "prune results") BY <1>3, <2>3, Zenon
     DEF Manual!PruneCooldowns, Manual!PruneResults
    <3>2. cooldown = 0 \/ Manual!Held(t) BY <1>2, <2>3 DEF Manual!Held
    <3> QED BY <1>1, <1>2, <1>3, <2>1, <3>1, <3>2, TesterMoves
  <2> QED BY <2>2, <2>3
<1>4. CASE tester[t].at = "prune results"
  <2>1. UNCHANGED <<now, cooldown, result, grants, raced>>
    BY <1>4 DEF Manual!PruneCooldowns, Manual!PruneResults
  <2>2. Manual!Go(t, "drop result") \/ Manual!Go(t, "check") \/ Manual!Go(t, "idle")
    BY <1>4, Zenon DEF Manual!PruneCooldowns, Manual!PruneResults
  <2> QED BY <1>1, <1>2, <1>4, <2>1, <2>2, TesterMoves
<1>5. CASE tester[t].at \in {"drop cooldown", "drop result"}
  <2>1. Manual!Deleted /\ result' = 0 /\ UNCHANGED <<now, grants>> BY <1>5
     DEF Manual!PruneCooldowns, Manual!PruneResults
  <2>2. Manual!Go(t, "prune results") \/ Manual!Go(t, "check") \/ Manual!Go(t, "idle")
    BY <1>5 DEF Manual!PruneCooldowns, Manual!PruneResults
  <2>3. cooldown' = 0 /\ raced' \in BOOLEAN /\ (~raced' => ~raced /\ ~(cooldown > now))
    BY <2>1, Zenon DEF Manual!Deleted
  <2>4. ~(cooldown > now) => cooldown <= now BY <1>2
  <2>5. ~raced' => ~raced /\ cooldown <= now BY <2>3, <2>4, Zenon
  <2> QED BY <1>1, <1>2, <1>5, <2>1, <2>2, <2>3, <2>5, ExpiredIsFree, ReservationDeleted
<1> QED BY <1>3, <1>4, <1>5 DEF Manual!PruneCooldowns, Manual!PruneResults

LEMMA ReserveStep ==
  ASSUME ManualInv, NEW t \in Testers, Manual!Check(t) \/ Manual!Load(t)
  PROVE  ManualInv'
<1>1. {"idle", "reserve", "testing"} \subseteq Manual!Places /\ result \in Manual!Ends
  BY DEF Manual!Places, ManualInv, Manual!TypeOK
<1>2. CASE Manual!Check(t)
  BY <1>1, <1>2, TesterMoves DEF Manual!Check
<1>3. CASE Manual!Load(t) /\ cooldown # 0
  BY <1>1, <1>3, TesterMoves DEF Manual!Load, Manual!Reserve
<1>4. CASE Manual!Load(t) /\ cooldown = 0
  <2> DEFINE granted == [by |-> t, until |-> Manual!Until(t)]
  <2>1. /\ tester[t].at = "reserve" /\ Manual!Go(t, "testing")
        /\ cooldown' = Manual!Until(t) /\ grants' = grants \cup {granted}
        /\ UNCHANGED <<now, result, raced>>
    BY <1>4 DEF Manual!Load, Manual!Reserve, Manual!Granted
  <2>2. /\ tester' \in [Testers -> Manual!TesterType]
        /\ tester'[t].at = "testing"
        /\ \A u \in Testers : u # t => tester'[u].at = tester[u].at
        /\ \A u \in Testers : tester'[u].start = tester[u].start
        /\ \A u \in Testers : Manual!Until(u)' = Manual!Until(u)
    BY <1>1, <2>1, TesterGoes DEF ManualInv
  <2>3. /\ now \in Nat /\ now < Manual!Until(t) /\ Manual!Until(t) \in Manual!Ends
        /\ \A u \in Testers : tester[u].start \in Nat /\ tester[u].start <= now
    BY <2>1, TimesAreNumbers DEF ManualInv, Punctual
  <2>4. Manual!TypeOK'
    BY <2>1, <2>2, <2>3 DEF ManualInv, Manual!TypeOK
  <2>5. Punctual'
    BY <2>1, <2>2 DEF ManualInv, Punctual
  <2>6. PrunedBehind'
    <3>1. \A u \in Testers : Manual!Until(t) > tester[u].start
      BY <2>3, TimesAreNumbers DEF ManualInv
    <3> QED BY <2>1, <2>2, <3>1 DEF PrunedBehind, Manual!Held
  <2>7. ~raced => (\A u \in Testers : ~Holds(u)) /\ \A g \in grants : ~Lasting(g)
    BY <1>4, <2>3, ExpiredIsFree
  <2>8. ~raced' => OneHolder'
    BY <2>1, <2>2, <2>7 DEF OneHolder, Holds, Lasting
  <2> QED BY <2>4, <2>5, <2>6, <2>8 DEF ManualInv
<1> QED BY <1>2, <1>3, <1>4 DEF Manual!Load

\* A test that ends keeps its reservation, or gives it back.
LEMMA TestEnds ==
  ASSUME ManualInv, NEW t \in Testers, Manual!Test(t) \/ Manual!GiveUp(t) \/ Manual!Withdraw(t)
  PROVE  ManualInv'
<1> DEFINE granted == [by |-> t, until |-> Manual!Until(t)]
<1>1. /\ {"idle", "clear"} \subseteq Manual!Places /\ result \in Manual!Ends
      /\ raced \in BOOLEAN /\ Manual!Until(t) \in Manual!Ends
      /\ now \in Nat /\ cooldown \in Nat /\ Manual!Until(t) \in Nat
  BY TimesAreNumbers DEF Manual!Places, ManualInv
<1>2. CASE Manual!Test(t)
  BY <1>1, <1>2, TesterMoves DEF Manual!Test
<1>3. CASE Manual!Withdraw(t) \/ (Manual!GiveUp(t) /\ tester[t].at = "clear")
  <2>1. /\ Manual!Go(t, "idle") /\ cooldown' = 0 /\ UNCHANGED <<now, result>>
        /\ raced' = (raced \/ cooldown \notin {0, Manual!Until(t)})
        /\ \/ tester[t].at = "testing" /\ grants' = grants \ {granted}
           \/ tester[t].at = "clear" /\ grants' = grants
    BY <1>3 DEF Manual!Withdraw, Manual!GiveUp
  <2>2. ASSUME ~raced'
        PROVE  (\A u \in Testers : Holds(u) => u = t) /\ \A g \in grants' : ~Lasting(g)
    <3>1. ~raced /\ cooldown \in {0, Manual!Until(t)} /\ OneHolder
      BY <2>1, <2>2 DEF ManualInv
    <3>2. CASE cooldown <= now
      BY <2>1, <3>1, <3>2, ExpiredIsFree
    <3>3. CASE now < cooldown
      <4>1. Holds(t) BY <1>1, <2>1, <3>1, <3>3 DEF Holds
      <4> QED BY <2>1, <3>1, <4>1 DEF OneHolder, Lasting, Holds
    <3> QED BY <1>1, <3>2, <3>3
  <2> QED BY <1>1, <2>1, <2>2, ReservationDeleted
<1>4. CASE Manual!GiveUp(t) /\ tester[t].at = "testing" /\ cooldown # Manual!Until(t)
  <2>1. Manual!Go(t, "idle") /\ grants' \subseteq grants /\ UNCHANGED <<now, cooldown, result,
     raced>>
    BY <1>4 DEF Manual!GiveUp
  <2>2. ~raced => ~Holds(t)
    BY <1>4 DEF ManualInv, OneHolder
  <2>3. /\ tester' \in [Testers -> Manual!TesterType]
        /\ tester'[t].at = "idle"
        /\ \A u \in Testers : u # t => tester'[u].at = tester[u].at
        /\ \A u \in Testers : tester'[u].start = tester[u].start
        /\ \A u \in Testers : Manual!Until(u)' = Manual!Until(u)
    BY <1>1, <2>1, TesterGoes DEF ManualInv
  <2>4. grants' = grants \ {granted} BY <1>4 DEF Manual!GiveUp
  <2>5. Manual!TypeOK' BY <2>1, <2>3 DEF ManualInv, Manual!TypeOK
  <2>6. Punctual' BY <2>1, <2>3 DEF ManualInv, Punctual
  <2>7. PrunedBehind' BY <2>1, <2>3 DEF ManualInv, PrunedBehind, Manual!Held
  <2>8. ~raced' => OneHolder'
    BY <2>1, <2>2, <2>3, <2>4 DEF ManualInv, OneHolder, Holds, Lasting
  <2> QED BY <2>5, <2>6, <2>7, <2>8 DEF ManualInv
<1>5. CASE Manual!GiveUp(t) /\ tester[t].at = "testing" /\ cooldown = Manual!Until(t)
  <2>1. /\ Manual!Go(t, "clear") /\ grants' = grants \ {granted}
        /\ UNCHANGED <<now, cooldown, result, raced>>
    BY <1>5 DEF Manual!GiveUp
  <2>3. /\ tester' \in [Testers -> Manual!TesterType]
        /\ tester'[t].at = "clear"
        /\ \A u \in Testers : u # t => tester'[u].at = tester[u].at
        /\ \A u \in Testers : tester'[u].start = tester[u].start
        /\ \A u \in Testers : Manual!Until(u)' = Manual!Until(u)
    BY <1>1, <2>1, TesterGoes DEF ManualInv
  <2>5. Manual!TypeOK' BY <2>1, <2>3 DEF ManualInv, Manual!TypeOK
  <2>6. Punctual' BY <2>1, <2>3 DEF ManualInv, Punctual
  <2>7. PrunedBehind' BY <2>1, <2>3 DEF ManualInv, PrunedBehind, Manual!Held
  <2>8. ~raced' => OneHolder'
    BY <1>5, <2>1, <2>3 DEF ManualInv, OneHolder, Holds, Lasting
  <2> QED BY <2>5, <2>6, <2>7, <2>8 DEF ManualInv
<1> QED BY <1>2, <1>3, <1>4, <1>5 DEF Manual!GiveUp

LEMMA ManualStep ==
  ASSUME ManualInv, [Manual!Next]_(Manual!vars)
  PROVE  ManualInv'
<1>1. CASE Manual!Tick
  <2>1. /\ now < MaxTime /\ now' = now + 1
        /\ \A t \in Testers : tester[t].at \in {"idle", "testing"} \/ now' < Manual!Until(t)
        /\ UNCHANGED <<cooldown, result, tester, grants, raced>>
    BY <1>1 DEF Manual!Tick
  <2>2. \A t \in Testers : Manual!Until(t)' = Manual!Until(t) /\ Manual!Held(t)' = Manual!Held(t)
    BY <2>1 DEF Manual!Until, Manual!Held
  <2>3. Manual!TypeOK'
    BY <2>1, ManualAssumption DEF ManualInv, Manual!TypeOK
  <2>4. Punctual'
    BY <2>1, <2>2, TimesAreNumbers DEF ManualInv, Punctual
  <2>5. PrunedBehind'
    BY <2>1, <2>2 DEF ManualInv, PrunedBehind
  <2>6. /\ \A t \in Testers : Holds(t)' => Holds(t)
        /\ \A g \in grants : Lasting(g)' => Lasting(g)
    BY <2>1, <2>2, TimesAreNumbers, ManualAssumption DEF ManualInv, Holds, Lasting, Manual!Ends
  <2>7. ~raced' => OneHolder'
    BY <2>1, <2>2, <2>6 DEF ManualInv, OneHolder
  <2> QED BY <2>3, <2>4, <2>5, <2>7 DEF ManualInv
<1>2. CASE UNCHANGED Manual!vars
  BY <1>2 DEF Manual!vars, ManualInv, Manual!TypeOK, Punctual, PrunedBehind, OneHolder, Holds,
     Lasting, Manual!Until, Manual!Held
<1> QED
  BY <1>1, <1>2, BeginStep, PruneStep, ReserveStep, TestEnds DEF Manual!Next

LEMMA ManualHolds ==
  ASSUME ManualInv
  PROVE  DoubleTestNeedsRace
BY DEF ManualInv, OneHolder, Lasting, PrunedBehind, DoubleTestNeedsRace,
   Manual!DoubleTestNeedsRace

\* A cell is tested twice within the hour only after a race of the pruning, or of the end of
\* an overlong test, with a new reservation (reserveModelTestCooldown, pruneManualTestCache,
\* clearManualTestCooldownReservation), however many requests
\* there are and however the clock runs.
THEOREM OneTestAnHour == Manual!Spec => []DoubleTestNeedsRace
BY ManualInit, ManualStep, ManualHolds, PTL DEF Manual!Spec

(***************************************************************************)
(* SiteConfig                                                              *)
(***************************************************************************)

\* What the process has loaded is stored, what a save carries is a configuration, and nobody
\* works while the process is not up.
ProcessInv ==
  /\ process # "down" => store \in Site!Configs
  /\ process = "seeding" => disk = NoConfig
  /\ process \in {"migrating", "starting", "up"} => Site!Keeps(disk, store) /\ disk # NoConfig
  /\ disk = NoConfig => acked = NoConfig
  /\ process = "up" => runtime \in Site!Configs
  /\ \A h \in Handlers : ~Site!Free(h) => save[h].cfg \in Site!Configs
  /\ process # "up" =>
       (\A h \in Handlers : Site!Free(h)) /\ (\A r \in Readers : reader[r] = NoConfig)

\* How far a save that nobody crossed has got.
AloneInv ==
  \A h \in Handlers : save[h].alone =>
    /\ ~Site!Free(h) /\ ~Site!Busy(h) /\ save[h].cfg = store
    /\ save[h].at = "sites" => runtime.rest = store.rest /\ runtime.cookie = store.cookie
    /\ save[h].at \in {"rebuild", "replace"} => runtime = store /\ save[h].sites
    /\ save[h].at = "replace" => save[h].app \in {store.sites, NoConfig}
    /\ ~save[h].sites /\ "combine" \notin crossed => combine \in {store.sites, NoConfig}

\* Saves that are under way together are noted.
CrossedInv ==
  (\E h \in Handlers : ~Site!Free(h) /\ ~save[h].alone) => crossed = {"runtime", "combine"}

\* The inductive invariant.
ConfigInv == Site!TypeOK /\ ProcessInv /\ AloneInv /\ CrossedInv /\ ConfigIsSound

LEMMA HandlersOff ==
  Site!Off \in Site!SaveType /\ Site!Off.at = "idle" /\ ~Site!Off.alone /\ Site!Off.cfg = NoConfig
BY DEF Site!Off, Site!SaveType

\* What is not configured is no configuration.
LEMMA ConfigsAreSaved == NoConfig \notin Site!Configs
<1>1. Site!Versions \subseteq Int BY SavesAssumption DEF Site!Versions
<1> QED BY <1>1, ConfigAssumption DEF Site!Configs

\* Keeping what a configuration says is passed on.
LEMMA Keeping ==
  ASSUME NEW a, NEW b, NEW c
  PROVE  /\ Site!Keeps(a, a)
         /\ Site!Keeps(a, b) /\ Site!Keeps(b, c) => Site!Keeps(a, c)
BY DEF Site!Keeps

LEMMA PatchedKeeps ==
  ASSUME NEW a, NEW b, NEW parts, NEW version, Site!Keeps(a, b)
  PROVE  Site!Keeps(Site!Patched(a, parts, version), Site!Patched(b, parts, version))
BY DEF Site!Keeps, Site!Patched

LEMMA DecodedKeeps ==
  ASSUME NEW cfg \in Site!Configs, NEW env \in Site!Envs
  PROVE  Site!Decoded(cfg, env) \in Site!Configs /\ Site!Keeps(cfg, Site!Decoded(cfg, env))
<1>1. env.cookie \in Site!Versions
  BY SavesAssumption DEF Site!Envs, Site!Config, Site!Blank, Site!Versions
<1> QED BY <1>1 DEF Site!Decoded, Site!Keeps, Site!Configs

LEMMA ConfigInit == Site!Init => ConfigInv
<1> SUFFICES ASSUME Site!Init PROVE ConfigInv
  OBVIOUS
<1>1. \A h \in Handlers : save[h] = Site!Off BY DEF Site!Init
<1>2. Site!TypeOK BY HandlersOff, SavesAssumption DEF Site!Init, Site!TypeOK
<1>3. ProcessInv BY <1>1, HandlersOff DEF Site!Init, ProcessInv, Site!Free
<1>4. AloneInv /\ CrossedInv BY <1>1, HandlersOff DEF AloneInv, CrossedInv, Site!Free
<1>5. ConfigIsSound
  BY DEF Site!Init, ConfigIsSound, Site!ConfigIsSound, Site!SavedSurvives,
     Site!AppliedUnlessCrossed, Site!RequestsOnOpenApp
<1> QED BY <1>2, <1>3, <1>4, <1>5 DEF ConfigInv

\* The process comes up step by step, and stops: nobody works in between.
LEMMA StartStep ==
  ASSUME ConfigInv, Site!Start
  PROVE  ConfigInv'
<1>1. PICK env \in Site!Envs : store' = Site!Initial(env)
  BY DEF Site!Start
<1>2. env \in Site!Configs /\ Site!Legacy \in Site!Configs
  BY SavesAssumption
     DEF Site!Envs, Site!Legacy, Site!Config, Site!Configs, Site!Versions, Site!Blank
<1>3. /\ store' \in Site!Configs /\ (disk # NoConfig => Site!Keeps(disk, store'))
      /\ process = "down" /\ process' = IF disk = NoConfig THEN "seeding" ELSE "starting"
      /\ UNCHANGED <<disk, legacy, acked, runtime, combine, save, reader, saves, crossed>>
  BY <1>1, <1>2, DecodedKeeps DEF Site!Start, Site!Initial, Site!Stored, ConfigInv, Site!TypeOK
<1>4. Site!TypeOK' BY <1>3 DEF ConfigInv, Site!TypeOK
<1>5. /\ \A h \in Handlers : Site!Free(h)
      /\ \A r \in Readers : reader[r] = NoConfig
  BY <1>3 DEF ConfigInv, ProcessInv
<1>6. ProcessInv' BY <1>3, <1>5 DEF ConfigInv, ProcessInv, Site!Free
<1>7. AloneInv' /\ CrossedInv'
  BY <1>3, <1>5 DEF ConfigInv, AloneInv, CrossedInv, Site!Free
<1>8. ConfigIsSound'
  BY <1>3, <1>5 DEF ConfigInv, ConfigIsSound, Site!ConfigIsSound, Site!SavedSurvives,
     Site!AppliedUnlessCrossed, Site!RequestsOnOpenApp
<1> QED BY <1>4, <1>6, <1>7, <1>8 DEF ConfigInv

LEMMA SeedStep ==
  ASSUME ConfigInv, Site!Seed \/ Site!Migrate \/ Site!Serve
  PROVE  ConfigInv'
<1>1. /\ \A h \in Handlers : Site!Free(h)
      /\ \A r \in Readers : reader[r] = NoConfig
      /\ process \in {"seeding", "migrating", "starting"} /\ store \in Site!Configs
      /\ UNCHANGED <<acked, save, reader, saves>>
      /\ process = "seeding" => disk = NoConfig /\ acked = NoConfig
      /\ process # "seeding" => Site!Keeps(disk, store) /\ disk # NoConfig
  BY DEF ConfigInv, ProcessInv, Site!Seed, Site!Migrate, Site!Serve, Site!Stored
<1>2. /\ crossed' \subseteq {"runtime", "combine"} /\ store' \in {store, NoConfig}
      /\ legacy' \in BOOLEAN
      /\ process' \in {"down", "migrating", "starting", "up"}
      /\ process' # "down" => store' = store /\ disk' # NoConfig
      /\ process = "seeding" /\ process' # "down" => disk' = store
      /\ process' = "up" => runtime' = store /\ combine' = store.sites
      /\ process' = "up" \/ UNCHANGED <<runtime, combine>>
      /\ process # "seeding" => UNCHANGED disk
      /\ disk' \in {disk, store}
  BY <1>1, ConfigsAreSaved DEF ConfigInv, ProcessInv, Site!Seed, Site!Migrate, Site!Serve,
     Site!Stored, Site!Running, Site!TypeOK
<1>3. Site!TypeOK'
  <2>1. store.sites \in Site!Versions BY <1>1 DEF Site!Configs
  <2> QED BY <1>1, <1>2, <2>1 DEF ConfigInv, Site!TypeOK
<1>7. process' # "down" => Site!Keeps(disk', store')
  BY <1>1, <1>2, Keeping
<1>4. ProcessInv' BY <1>1, <1>2, <1>7 DEF ConfigInv, ProcessInv, Site!Free
<1>5. AloneInv' /\ CrossedInv'
  BY <1>1 DEF ConfigInv, AloneInv, CrossedInv, Site!Free
<1>6. ConfigIsSound'
  <2>1. acked' # NoConfig => Site!Keeps(acked', disk')
    BY <1>1, <1>2 DEF ConfigInv, ProcessInv, ConfigIsSound, Site!ConfigIsSound,
       Site!SavedSurvives
  <2> QED
    BY <1>1, <1>2, <1>7, <2>1 DEF ConfigIsSound, Site!ConfigIsSound, Site!SavedSurvives,
       Site!AppliedUnlessCrossed, Site!RequestsOnOpenApp
<1> QED BY <1>3, <1>4, <1>5, <1>6 DEF ConfigInv

LEMMA CrashStep ==
  ASSUME ConfigInv, Site!Crash
  PROVE  ConfigInv'
<1>1. /\ process' = "down" /\ store' = NoConfig /\ runtime' = NoConfig /\ combine' = NoConfig
      /\ save' = [h \in Handlers |-> Site!Off] /\ reader' = [r \in Readers |-> NoConfig]
      /\ UNCHANGED <<disk, legacy, acked, saves, crossed>>
  BY DEF Site!Crash, Site!Stored
<1>2. \A h \in Handlers : save'[h] = Site!Off BY <1>1
<1>3. Site!TypeOK' BY <1>1, HandlersOff DEF ConfigInv, Site!TypeOK
<1>4. ProcessInv' BY <1>1, <1>2, HandlersOff DEF ConfigInv, ProcessInv, Site!Free
<1>5. AloneInv' /\ CrossedInv' BY <1>2, HandlersOff DEF AloneInv, CrossedInv, Site!Free
<1>6. ConfigIsSound'
  BY <1>1 DEF ConfigInv, ConfigIsSound, Site!ConfigIsSound, Site!SavedSurvives,
     Site!AppliedUnlessCrossed, Site!RequestsOnOpenApp
<1> QED BY <1>3, <1>4, <1>5, <1>6 DEF ConfigInv

LEMMA PatchedIsConfig ==
  ASSUME ConfigInv, NEW cfg \in Site!Configs, saves < MaxSaves, NEW parts
  PROVE  /\ Site!Patched(cfg, parts, saves + 1) \in Site!Configs
         /\ saves + 1 \in 0..MaxSaves
         /\ "sites" \notin parts => Site!Patched(cfg, parts, saves + 1).sites = cfg.sites
<1>1. saves + 1 \in Site!Versions /\ saves + 1 \in 0..MaxSaves /\ Site!Blank \in Site!Versions
  BY SavesAssumption DEF ConfigInv, Site!TypeOK, Site!Versions, Site!Blank
<1>2. /\ cfg.rest \in Site!Versions /\ cfg.sites \in Site!Versions
      /\ cfg.cookie \in Site!Versions
  BY DEF Site!Configs
<1> QED BY <1>1, <1>2 DEF Site!Patched, Site!Configs

\* A configuration is stored: from then on a save that is under way is not alone.
LEMMA SaveStep ==
  ASSUME ConfigInv, NEW h \in Handlers, Site!Save(h)
  PROVE  ConfigInv'
<1>1. /\ process = "up" /\ Site!Free(h) /\ saves < MaxSaves /\ store \in Site!Configs
      /\ UNCHANGED <<legacy, process, runtime, combine, reader>>
  BY DEF Site!Save, ConfigInv, ProcessInv
<1>2. CASE UNCHANGED <<store, disk, acked, saves, save, crossed>>
  BY <1>1, <1>2 DEF ConfigInv, Site!TypeOK, ProcessInv, AloneInv, CrossedInv, Site!Free,
     Site!Busy, ConfigIsSound, Site!ConfigIsSound, Site!SavedSurvives,
     Site!AppliedUnlessCrossed, Site!RequestsOnOpenApp
<1>3. CASE ~UNCHANGED <<store, disk, acked, saves, save, crossed>>
  <2>1. PICK parts \in Site!Posts :
          /\ store' = Site!Patched(store, parts, saves + 1) /\ disk' = store'
          /\ acked' = Site!Patched(IF acked = NoConfig THEN store ELSE acked, parts, saves + 1)
          /\ saves' = saves + 1
          /\ save' = [o \in Handlers |->
                        IF o = h THEN [Site!Off EXCEPT !.at = "rest", !.cfg = store',
                                         !.sites = "sites" \in parts, !.alone = ~Site!Busy(h)]
                        ELSE [save[o] EXCEPT !.alone = FALSE]]
          /\ crossed' = IF Site!Busy(h) THEN {"runtime", "combine"} ELSE crossed
    BY <1>3 DEF Site!Save
  <2> DEFINE mine == [Site!Off EXCEPT !.at = "rest", !.cfg = store',
                                      !.sites = "sites" \in parts, !.alone = ~Site!Busy(h)]
             other(o) == [save[o] EXCEPT !.alone = FALSE]
  <2>2. /\ store' \in Site!Configs /\ saves' \in 0..MaxSaves
        /\ "sites" \notin parts => store'.sites = store.sites
    BY <1>1, <2>1, PatchedIsConfig
  <2>3. /\ mine \in Site!SaveType /\ mine.at = "rest" /\ mine.cfg = store'
        /\ mine.sites = ("sites" \in parts) /\ mine.alone = ~Site!Busy(h)
    <3>1. ("sites" \in parts) \in BOOLEAN /\ (~Site!Busy(h)) \in BOOLEAN
      OBVIOUS
    <3> HIDE DEF mine
    <3>2. mine = [Site!Off EXCEPT !.at = "rest", !.cfg = store',
                                  !.sites = "sites" \in parts, !.alone = ~Site!Busy(h)]
      BY DEF mine
    <3> DEFINE posted == "sites" \in parts
               lone == ~Site!Busy(h)
    <3>3. posted \in BOOLEAN /\ lone \in BOOLEAN BY <3>1
    <3>4. mine = [Site!Off EXCEPT !.at = "rest", !.cfg = store', !.sites = posted, !.alone = lone]
      BY <3>2
    <3> HIDE DEF posted, lone
    <3>5. /\ mine \in Site!SaveType /\ mine.at = "rest" /\ mine.cfg = store'
          /\ mine.sites = posted /\ mine.alone = lone
      BY <2>2, <3>3, <3>4 DEF Site!Off, Site!SaveType
    <3> QED BY <3>5 DEF posted, lone
  <2>4. ASSUME NEW o \in Handlers
        PROVE  other(o) \in Site!SaveType /\ ~other(o).alone
               /\ other(o).at = save[o].at /\ other(o).cfg = save[o].cfg
    BY DEF ConfigInv, Site!TypeOK, Site!SaveType
  <2>5. save' = [o \in Handlers |-> IF o = h THEN mine ELSE other(o)] BY <2>1
  <2> HIDE DEF mine, other
  <2>6. /\ save' \in [Handlers -> Site!SaveType] /\ save'[h] = mine
        /\ \A o \in Handlers : o # h => save'[o].at = save[o].at /\ ~save'[o].alone
    BY <2>3, <2>4, <2>5
  <2>11. acked' \in Site!Configs /\ Site!Keeps(acked', disk') /\ Site!Keeps(disk', store')
    <3> DEFINE asked == IF acked = NoConfig THEN store ELSE acked
    <3>1. asked \in Site!Configs /\ Site!Keeps(asked, store)
      BY <1>1, Keeping DEF ConfigInv, Site!TypeOK, ProcessInv, ConfigIsSound,
         Site!ConfigIsSound, Site!SavedSurvives
    <3>2. acked' = Site!Patched(asked, parts, saves + 1) BY <2>1
    <3> HIDE DEF asked
    <3> QED BY <1>1, <2>1, <3>1, <3>2, PatchedIsConfig, PatchedKeeps, Keeping
  <2>12. disk' # NoConfig BY <2>1, <2>2, ConfigsAreSaved
  <2>7. Site!TypeOK' BY <1>1, <2>1, <2>2, <2>6, <2>11 DEF ConfigInv, Site!TypeOK
  <2>8. ProcessInv'
    <3>1. \A o \in Handlers : o # h => save'[o].cfg = save[o].cfg
      BY <2>4, <2>5
    <3> QED BY <1>1, <2>1, <2>2, <2>3, <2>6, <2>11, <2>12, <3>1
         DEF ConfigInv, ProcessInv, Site!Free
  <2>9. CASE Site!Busy(h)
    <3>1. AloneInv' BY <2>3, <2>6, <2>9 DEF AloneInv
    <3>2. CrossedInv' BY <2>1, <2>9 DEF CrossedInv
    <3>3. ConfigIsSound'
      BY <1>1, <2>1, <2>9, <2>11 DEF ConfigInv, ConfigIsSound, Site!ConfigIsSound,
         Site!SavedSurvives, Site!AppliedUnlessCrossed, Site!RequestsOnOpenApp
    <3> QED BY <2>7, <2>8, <3>1, <3>2, <3>3 DEF ConfigInv
  <2>10. CASE ~Site!Busy(h)
    <3>1. \A o \in Handlers : Site!Free(o) BY <1>1, <2>10 DEF Site!Busy
    <3>2. \A o \in Handlers : o # h => save'[o].at = "idle" /\ ~save'[o].alone
      BY <2>6, <3>1 DEF Site!Free
    <3>3. save'[h].alone /\ save'[h].at = "rest" BY <2>3, <2>6, <2>10
    <3>4. crossed' = crossed BY <2>1, <2>10
    <3>5. CrossedInv' BY <3>2, <3>3 DEF CrossedInv, Site!Free
    <3>6. AloneInv'
      <4>1. "combine" \notin crossed => combine \in {store.sites, NoConfig}
        BY <1>1, <3>1 DEF ConfigInv, ConfigIsSound, Site!ConfigIsSound,
           Site!AppliedUnlessCrossed
      <4>2. ~save'[h].sites /\ "combine" \notin crossed => combine \in {store'.sites, NoConfig}
        BY <2>2, <2>3, <2>6, <4>1
      <4> QED BY <1>1, <2>3, <2>6, <3>2, <3>3, <3>4, <4>2 DEF AloneInv, Site!Free, Site!Busy
    <3>7. ConfigIsSound'
      BY <1>1, <2>1, <2>11, <3>3 DEF ConfigInv, ConfigIsSound, Site!ConfigIsSound,
         Site!SavedSurvives, Site!AppliedUnlessCrossed, Site!RequestsOnOpenApp, Site!Free
    <3> QED BY <2>7, <2>8, <3>5, <3>6, <3>7 DEF ConfigInv
  <2> QED BY <2>9, <2>10
<1> QED BY <1>2, <1>3

\* What is known while a save is under way.
LEMMA WhileSaving ==
  ASSUME ConfigInv, NEW h \in Handlers, ~Site!Free(h)
  PROVE  /\ process = "up" /\ store \in Site!Configs /\ runtime \in Site!Configs
         /\ save[h] \in Site!SaveType
         /\ save[h].alone => \A o \in Handlers : o # h => Site!Free(o)
         /\ ~save[h].alone => crossed = {"runtime", "combine"}
         /\ \A o \in Handlers : save[o].alone => ~Site!Free(o) /\ ~Site!Busy(o)
BY DEF ConfigInv, Site!TypeOK, ProcessInv, AloneInv, CrossedInv, Site!Busy

\* One save goes on, without storing anything and without being done.
LEMMA SaveGoesOn ==
  ASSUME ConfigInv, NEW h \in Handlers, ~Site!Free(h), NEW new \in Site!SaveType,
         save' = [save EXCEPT ![h] = new], new.at # "idle",
         new.cfg = save[h].cfg, new.sites = save[h].sites, new.alone = save[h].alone,
         UNCHANGED <<disk, legacy, acked, process, store, combine, reader, saves, crossed>>,
         runtime' \in Site!Configs,
         save[h].alone => /\ new.at = "sites" => /\ runtime'.rest = store.rest
                                                 /\ runtime'.cookie = store.cookie
                          /\ new.at \in {"rebuild", "replace"} => runtime' = store /\ new.sites
                          /\ new.at = "replace" => new.app \in {store.sites, NoConfig}
  PROVE  ConfigInv'
<1>1. /\ save' \in [Handlers -> Site!SaveType] /\ save'[h] = new
      /\ \A o \in Handlers : o # h => save'[o] = save[o]
  BY DEF ConfigInv, Site!TypeOK
<1>2. process = "up" /\ \A o \in Handlers : save[o].alone => ~Site!Free(o) /\ ~Site!Busy(o)
  BY WhileSaving
<1>3. \A o \in Handlers : save'[o].at = "idle" <=> save[o].at = "idle"
  BY <1>1 DEF Site!Free
<1>4. \A o \in Handlers : save[o].alone => o = h BY <1>2 DEF Site!Busy
<1>5. Site!TypeOK' BY <1>1 DEF ConfigInv, Site!TypeOK
<1>6. ProcessInv' BY <1>1, <1>2, HandlersOff DEF ConfigInv, ProcessInv, Site!Free
<1>7. AloneInv'
  <2>1. \A o \in Handlers : save'[o].alone => o = h /\ save[h].alone
    BY <1>1, <1>4
  <2>2. Site!Busy(h)' = Site!Busy(h) BY <1>3 DEF Site!Busy, Site!Free
  <2> QED BY <1>1, <1>3, <2>1, <2>2 DEF ConfigInv, AloneInv, Site!Free
<1>8. CrossedInv' BY <1>1, <1>3 DEF ConfigInv, CrossedInv, Site!Free
<1>9. ConfigIsSound'
  BY <1>3 DEF ConfigInv, ConfigIsSound, Site!ConfigIsSound, Site!SavedSurvives,
     Site!AppliedUnlessCrossed, Site!RequestsOnOpenApp, Site!Free
<1> QED BY <1>5, <1>6, <1>7, <1>8, <1>9 DEF ConfigInv

\* A save is done: if it came alone, everything it concerns runs with what is stored.
LEMMA SaveIsDone ==
  ASSUME ConfigInv, NEW h \in Handlers, ~Site!Free(h), Site!Done(h),
         UNCHANGED <<disk, legacy, acked, process, store, reader, saves>>,
         runtime' \in Site!Configs, combine' \in Site!Versions \cup {NoConfig},
         save[h].alone =>
           /\ runtime' = store
           /\ IF save[h].sites THEN combine' \in {store.sites, NoConfig}
              ELSE UNCHANGED combine,
         UNCHANGED combine \/ \A r \in Readers : reader[r] = NoConfig
  PROVE  ConfigInv'
<1>1. /\ save' \in [Handlers -> Site!SaveType] /\ save'[h] = Site!Off
      /\ \A o \in Handlers : o # h => save'[o] = save[o]
  BY HandlersOff DEF ConfigInv, Site!TypeOK, Site!Done
<1>2. /\ process = "up"
      /\ save[h].alone => \A o \in Handlers : o # h => Site!Free(o)
      /\ ~save[h].alone => crossed = {"runtime", "combine"}
      /\ \A o \in Handlers : save[o].alone => ~Site!Free(o) /\ ~Site!Busy(o)
  BY WhileSaving
<1>3. \A o \in Handlers : ~save'[o].alone
  BY <1>1, <1>2, HandlersOff DEF Site!Busy
<1>4. crossed' = crossed \ Site!Cured(h) BY DEF Site!Done
<1>5. Site!TypeOK' BY <1>1, <1>4 DEF ConfigInv, Site!TypeOK
<1>6. ProcessInv' BY <1>1, <1>2, HandlersOff DEF ConfigInv, ProcessInv, Site!Free
<1>7. AloneInv' BY <1>3 DEF AloneInv
<1>8. CASE save[h].alone
  <2>1. \A o \in Handlers : save'[o].at = "idle"
    BY <1>1, <1>2, <1>8, HandlersOff DEF Site!Free
  <2>2. CrossedInv' BY <2>1 DEF CrossedInv, Site!Free
  <2>3. "combine" \notin crossed' => combine' \in {store.sites, NoConfig}
    <3>1. ~save[h].sites => Site!Cured(h) = {"runtime"} BY <1>8 DEF Site!Cured
    <3>2. ~save[h].sites /\ "combine" \notin crossed => combine \in {store.sites, NoConfig}
      BY <1>8 DEF ConfigInv, AloneInv
    <3> QED BY <1>4, <1>8, <3>1, <3>2
  <2>4. ConfigIsSound'
    BY <1>8, <2>3 DEF ConfigInv, ConfigIsSound, Site!ConfigIsSound, Site!SavedSurvives,
       Site!AppliedUnlessCrossed, Site!RequestsOnOpenApp
  <2> QED BY <1>5, <1>6, <1>7, <2>2, <2>4 DEF ConfigInv
<1>9. CASE ~save[h].alone
  <2>1. crossed' = {"runtime", "combine"} BY <1>2, <1>4, <1>9 DEF Site!Cured
  <2>2. CrossedInv' BY <2>1 DEF CrossedInv
  <2>3. ConfigIsSound'
    BY <2>1 DEF ConfigInv, ConfigIsSound, Site!ConfigIsSound, Site!SavedSurvives,
       Site!AppliedUnlessCrossed, Site!RequestsOnOpenApp
  <2> QED BY <1>5, <1>6, <1>7, <2>2, <2>3 DEF ConfigInv
<1> QED BY <1>8, <1>9

LEMMA SaveGoesTo ==
  ASSUME NEW s \in Site!SaveType, NEW place \in {"sites", "rebuild"}
  PROVE  /\ [s EXCEPT !.at = place] \in Site!SaveType
         /\ [s EXCEPT !.at = place].at = place
         /\ [s EXCEPT !.at = place].cfg = s.cfg
         /\ [s EXCEPT !.at = place].sites = s.sites
         /\ [s EXCEPT !.at = place].alone = s.alone
BY DEF Site!SaveType

LEMMA ApplyRestStep ==
  ASSUME ConfigInv, NEW h \in Handlers, Site!ApplyRest(h)
  PROVE  ConfigInv'
<1> DEFINE new == [save[h] EXCEPT !.at = "sites"]
<1>1. /\ save[h].at = "rest" /\ ~Site!Free(h) /\ save' = [save EXCEPT ![h] = new]
      /\ runtime' = [runtime EXCEPT !.rest = save[h].cfg.rest, !.cookie = save[h].cfg.cookie]
      /\ UNCHANGED <<disk, legacy, acked, process, store, combine, reader, saves, crossed>>
  BY DEF Site!ApplyRest, Site!Free, Site!Stored
<1>2. save[h] \in Site!SaveType /\ runtime \in Site!Configs BY <1>1, WhileSaving
<1>3. /\ new \in Site!SaveType /\ new.at = "sites" /\ new.cfg = save[h].cfg
      /\ new.sites = save[h].sites /\ new.alone = save[h].alone
  BY <1>2, SaveGoesTo
<1> HIDE DEF new
<1>4. save[h].cfg \in Site!Configs /\ (save[h].alone => save[h].cfg = store)
  BY <1>1 DEF ConfigInv, AloneInv, ProcessInv, Site!Free
<1>5. runtime' \in Site!Configs /\ (save[h].alone => runtime'.rest = store.rest
                                              /\ runtime'.cookie = store.cookie)
  BY <1>1, <1>2, <1>4 DEF Site!Configs
<1> QED BY <1>1, <1>3, <1>5, SaveGoesOn

LEMMA ApplySitesStep ==
  ASSUME ConfigInv, NEW h \in Handlers, Site!ApplySites(h)
  PROVE  ConfigInv'
<1> DEFINE new == [save[h] EXCEPT !.at = "rebuild"]
<1>1. /\ save[h].at = "sites" /\ ~Site!Free(h)
      /\ runtime' = [runtime EXCEPT !.sites = save[h].cfg.sites]
      /\ UNCHANGED <<disk, legacy, acked, process, store, combine, reader, saves>>
      /\ IF save[h].sites THEN save' = [save EXCEPT ![h] = new] /\ UNCHANGED crossed
         ELSE Site!Done(h)
  BY DEF Site!ApplySites, Site!Rebuilds, Site!Free, Site!Stored
<1>2. save[h] \in Site!SaveType /\ runtime \in Site!Configs /\ store \in Site!Configs
  BY <1>1, WhileSaving
<1>3. /\ new \in Site!SaveType /\ new.at = "rebuild" /\ new.cfg = save[h].cfg
      /\ new.sites = save[h].sites /\ new.alone = save[h].alone
  BY <1>2, SaveGoesTo
<1> HIDE DEF new
<1>4. /\ save[h].cfg \in Site!Configs
      /\ save[h].alone => /\ save[h].cfg = store /\ runtime.rest = store.rest
                          /\ runtime.cookie = store.cookie
  BY <1>1 DEF ConfigInv, AloneInv, ProcessInv, Site!Free
<1>5. runtime' \in Site!Configs /\ (save[h].alone => runtime' = store)
  BY <1>1, <1>2, <1>4 DEF Site!Configs
<1>6. combine \in Site!Versions \cup {NoConfig} BY DEF ConfigInv, Site!TypeOK
<1>7. CASE save[h].sites BY <1>1, <1>3, <1>5, <1>7, SaveGoesOn
<1>8. CASE ~save[h].sites BY <1>1, <1>5, <1>6, <1>8, SaveIsDone
<1> QED BY <1>7, <1>8

LEMMA BuildStep ==
  ASSUME ConfigInv, NEW h \in Handlers, Site!Build(h)
  PROVE  ConfigInv'
<1>1. PICK app \in {store.sites, NoConfig} :
        save' = [save EXCEPT ![h] = [save[h] EXCEPT !.at = "replace", !.app = app]]
  BY DEF Site!Build
<1> DEFINE new == [save[h] EXCEPT !.at = "replace", !.app = app]
<1>2. /\ save[h].at = "rebuild" /\ ~Site!Free(h) /\ save' = [save EXCEPT ![h] = new]
      /\ UNCHANGED <<disk, legacy, acked, process, store, runtime, combine, reader, saves, crossed>>
  BY <1>1 DEF Site!Build, Site!Free, Site!Stored, Site!Running
<1>3. save[h] \in Site!SaveType /\ runtime \in Site!Configs /\ store \in Site!Configs
  BY <1>2, WhileSaving
<1>4. app \in Site!Versions \cup {NoConfig} BY <1>3 DEF Site!Configs
<1>5. /\ new \in Site!SaveType /\ new.at = "replace" /\ new.cfg = save[h].cfg
      /\ new.sites = save[h].sites /\ new.alone = save[h].alone /\ new.app = app
  BY <1>3, <1>4 DEF Site!SaveType
<1> HIDE DEF new
<1>6. save[h].alone => runtime = store /\ save[h].sites
  BY <1>2 DEF ConfigInv, AloneInv
<1> QED BY <1>2, <1>3, <1>5, <1>6, SaveGoesOn

LEMMA ReplaceStep ==
  ASSUME ConfigInv, NEW h \in Handlers, Site!Replace(h)
  PROVE  ConfigInv'
<1>1. /\ save[h].at = "replace" /\ ~Site!Free(h) /\ Site!Done(h) /\ combine' = save[h].app
      /\ UNCHANGED <<disk, legacy, acked, process, store, runtime, reader, saves>>
      /\ \A r \in Readers : reader[r] = NoConfig
  BY DEF Site!Replace, Site!Unused, Site!Free, Site!Stored
<1>2. save[h] \in Site!SaveType /\ runtime \in Site!Configs
  BY <1>1, WhileSaving
<1>3. save[h].alone =>
        runtime = store /\ save[h].sites /\ save[h].app \in {store.sites, NoConfig}
  BY <1>1 DEF ConfigInv, AloneInv
<1>4. save[h].app \in Site!Versions \cup {NoConfig} BY <1>2 DEF Site!SaveType
<1> QED BY <1>1, <1>2, <1>3, <1>4, SaveIsDone

LEMMA ReaderStep ==
  ASSUME ConfigInv, NEW r \in Readers, Site!Request(r) \/ Site!Answer(r)
  PROVE  ConfigInv'
<1>1. /\ UNCHANGED <<disk, legacy, acked, process, store, runtime, combine, save, saves, crossed>>
      /\ reader' \in {[reader EXCEPT ![r] = combine], [reader EXCEPT ![r] = NoConfig]}
  BY DEF Site!Request, Site!Answer, Site!Stored, Site!Running
<1>2. process = "up" BY DEF ConfigInv, ProcessInv, Site!Request, Site!Answer
<1>3. Site!TypeOK' BY <1>1 DEF ConfigInv, Site!TypeOK
<1>4. ProcessInv' BY <1>1, <1>2 DEF ConfigInv, ProcessInv, Site!Free
<1>5. AloneInv' /\ CrossedInv'
  BY <1>1 DEF ConfigInv, AloneInv, CrossedInv, Site!Free, Site!Busy
<1>6. ConfigIsSound'
  BY <1>1 DEF ConfigInv, ConfigIsSound, Site!ConfigIsSound, Site!SavedSurvives,
     Site!AppliedUnlessCrossed, Site!RequestsOnOpenApp, Site!Free, Site!TypeOK
<1> QED BY <1>3, <1>4, <1>5, <1>6 DEF ConfigInv

LEMMA ConfigStep ==
  ASSUME ConfigInv, [Site!Next]_(Site!vars)
  PROVE  ConfigInv'
<1>1. CASE UNCHANGED Site!vars
  BY <1>1 DEF Site!vars, ConfigInv, Site!TypeOK, ProcessInv, AloneInv, CrossedInv, Site!Free,
     Site!Busy, ConfigIsSound, Site!ConfigIsSound, Site!SavedSurvives,
     Site!AppliedUnlessCrossed, Site!RequestsOnOpenApp
<1> QED
  BY <1>1, StartStep, SeedStep, CrashStep, SaveStep, ApplyRestStep, ApplySitesStep, BuildStep,
     ReplaceStep, ReaderStep DEF Site!Next, Site!Apply

\* What was saved is what is stored and what a later start loads, but for blanks that the
\* environment fills; it is what runs once no save is under way (unless saves crossed), and what
\* the card merger serves with (SavePatch, decodeStoredToolConfig, applyToolConfigSnapshot,
\* replaceCombineRuntime): for any number of saves and requests.
THEOREM SavedConfigRuns == Site!Spec => []ConfigIsSound
<1>1. ConfigInv => ConfigIsSound BY DEF ConfigInv
<1>2. QED BY ConfigInit, ConfigStep, <1>1, PTL DEF Site!Spec

(***************************************************************************)
(* BatchSearch                                                             *)
(***************************************************************************)

Failing == \E w \in Goroutines : searcher[w].at = "failed"
Noted == errCh # NoError \/ caller \in {"stopped", "returned"}

\* What is known of an error until the caller has returned: what failed by itself comes to the
\* caller before the cancellation that it causes does.
ErrorsInv ==
  /\ \A w \in Goroutines : searcher[w].at = "failed" =>
       /\ searcher[w].err \in Batch!Errors
       /\ searcher[w].err = "failure" => searchFaults > 0
       /\ searcher[w].err = "context canceled" => cancelled
  /\ \A w \in Goroutines : searcher[w].at = "reported" => Noted
  /\ cancelled => parent \/ Noted
  /\ errCh = "failure" => searchFaults > 0
  /\ errCh = "context canceled" => parent \/ caller \in {"stopped", "returned"}
  /\ caller = "stopped" =>
       /\ outcome \in Batch!Errors
       /\ outcome = "failure" => searchFaults > 0
       /\ outcome = "context canceled" => parent
  /\ caller = "aborted" => cancelled

\* No key that was fed and no failure is forgotten.
KeysInv ==
  /\ caller = "fed" => next = KeyCount + 1
  /\ \A w \in Goroutines : searcher[w].at = "searching" => searcher[w].key \in Batch!Indices
  /\ \A k \in 1..(next - 1) :
       \/ k \in results \/ Failing \/ Noted
       \/ \E w \in Goroutines : searcher[w].at = "searching" /\ searcher[w].key = k
  /\ searchFaults > 0 => Failing \/ Noted

\* The inductive invariant.
SearchInv == Batch!TypeOK /\ ErrorsInv /\ KeysInv /\ SearchIsHonest

\* The numbers of a search.
LEMMA SearchNumbers ==
  ASSUME SearchInv
  PROVE  /\ KeyCount \in Nat /\ MaxFaults \in Nat
         /\ next \in Nat \ {0} /\ next <= KeyCount + 1
         /\ searchFaults \in Nat /\ searchFaults <= MaxFaults
         /\ errCh \in Batch!Errors \cup {NoError} /\ parent \in BOOLEAN
<1>1. KeyCount \in Nat /\ MaxFaults \in Nat BY SearchAssumption, QuotaAssumption
<1>2. next \in 1..(KeyCount + 1) /\ searchFaults \in 0..MaxFaults
  BY DEF SearchInv, Batch!TypeOK
<1> QED BY <1>1, <1>2 DEF SearchInv, Batch!TypeOK

LEMMA SearchInit == Batch!Init => SearchInv
<1> SUFFICES ASSUME Batch!Init PROVE SearchInv
  OBVIOUS
<1>1. Batch!Ready \in Batch!WorkerType /\ Batch!Ready.at = "ready"
  BY DEF Batch!Ready, Batch!WorkerType
<1>2. \A w \in Goroutines : searcher[w] = Batch!Ready BY DEF Batch!Init
<1>3. Batch!TypeOK
  <2>1. KeyCount \in Nat /\ MaxFaults \in Nat BY SearchAssumption, QuotaAssumption
  <2>2. 1 \in 1..(KeyCount + 1) /\ 0 \in 0..MaxFaults BY <2>1
  <2> QED BY <1>1, <2>2 DEF Batch!Init, Batch!TypeOK
<1>4. ErrorsInv
  BY <1>1, <1>2, SearchAssumption DEF Batch!Init, ErrorsInv
<1>5. KeysInv
  <2>1. 1..(next - 1) = {} /\ ~(searchFaults > 0) BY DEF Batch!Init
  <2> QED BY <1>1, <1>2, <2>1 DEF Batch!Init, KeysInv
<1>6. SearchIsHonest BY DEF Batch!Init, SearchIsHonest, Batch!SearchIsHonest
<1> QED BY <1>3, <1>4, <1>5, <1>6 DEF SearchInv

\* One worker goes on.
LEMMA OneSearcher ==
  ASSUME Batch!TypeOK, NEW w \in Goroutines, NEW new \in Batch!WorkerType,
         searcher' = [searcher EXCEPT ![w] = new]
  PROVE  /\ searcher' \in [Goroutines -> Batch!WorkerType] /\ searcher'[w] = new
         /\ \A o \in Goroutines : o # w => searcher'[o] = searcher[o]
BY DEF Batch!TypeOK

LEMMA AnswerStep ==
  ASSUME SearchInv, NEW w \in Goroutines, Batch!Answer(w)
  PROVE  SearchInv'
<1>1. /\ searcher[w].at = "searching" /\ searcher[w] \in Batch!WorkerType
      /\ results' = results \cup {searcher[w].key}
      /\ searcher' = [searcher EXCEPT ![w] = Batch!Ready]
      /\ UNCHANGED <<next, closed, errCh, cancelled, parent, caller, outcome, searchFaults>>
      /\ caller # "returned"
  BY DEF Batch!Answer, SearchInv, Batch!TypeOK, Batch!Ctx, Batch!Told, SearchIsHonest,
     Batch!SearchIsHonest
<1>2. Batch!Ready \in Batch!WorkerType /\ Batch!Ready.at = "ready"
  BY DEF Batch!Ready, Batch!WorkerType
<1>3. /\ searcher' \in [Goroutines -> Batch!WorkerType] /\ searcher'[w] = Batch!Ready
      /\ \A o \in Goroutines : o # w => searcher'[o] = searcher[o]
  BY <1>1, <1>2, OneSearcher DEF SearchInv
<1>4. searcher[w].key \in Batch!Indices
  BY <1>1 DEF KeysInv, SearchInv
<1>5. Batch!TypeOK' BY <1>1, <1>3, <1>4 DEF SearchInv, Batch!TypeOK
<1>6. ErrorsInv' BY <1>1, <1>2, <1>3 DEF SearchInv, ErrorsInv, Noted
<1>7. KeysInv' BY <1>1, <1>2, <1>3 DEF SearchInv, KeysInv, Noted, Failing
<1>8. SearchIsHonest' BY <1>1 DEF SearchIsHonest, Batch!SearchIsHonest
<1> QED BY <1>5, <1>6, <1>7, <1>8 DEF SearchInv

LEMMA FailStep ==
  ASSUME SearchInv, NEW w \in Goroutines, Batch!Fail(w)
  PROVE  SearchInv'
<1>1. PICK err \in Batch!Errors :
        /\ searcher' = [searcher EXCEPT ![w] = [searcher[w] EXCEPT !.at = "failed", !.err = err]]
        /\ \/ err = "failure" /\ searchFaults < MaxFaults /\ searchFaults' = searchFaults + 1
           \/ err = "context canceled" /\ cancelled /\ UNCHANGED searchFaults
  BY DEF Batch!Fail, Batch!Errors
<1> DEFINE new == [searcher[w] EXCEPT !.at = "failed", !.err = err]
<1>2. /\ searcher[w].at = "searching" /\ searcher[w] \in Batch!WorkerType
      /\ UNCHANGED <<next, closed, errCh, cancelled, parent, results, caller, outcome>>
      /\ caller # "returned"
  BY DEF Batch!Fail, SearchInv, Batch!TypeOK, Batch!Ctx, Batch!Told, SearchIsHonest,
     Batch!SearchIsHonest
<1>3. new \in Batch!WorkerType /\ new.at = "failed" /\ new.err = err
  BY <1>2 DEF Batch!WorkerType
<1>4. searcher' = [searcher EXCEPT ![w] = new] BY <1>1
<1> HIDE DEF new
<1>5. /\ searcher' \in [Goroutines -> Batch!WorkerType] /\ searcher'[w] = new
      /\ \A o \in Goroutines : o # w => searcher'[o] = searcher[o]
  BY <1>3, <1>4, OneSearcher DEF SearchInv
<1>6. /\ searchFaults \in Nat /\ searchFaults' \in 0..MaxFaults
      /\ searchFaults > 0 => searchFaults' > 0
      /\ err = "failure" => searchFaults' > 0
  <2>1. searchFaults \in Nat /\ MaxFaults \in Nat /\ searchFaults <= MaxFaults
    BY SearchNumbers
  <2>2. CASE searchFaults' = searchFaults + 1 /\ searchFaults < MaxFaults
    <3>1. searchFaults' \in 0..MaxFaults BY <2>1, <2>2
    <3>2. searchFaults' > 0 BY <2>1, <2>2
    <3> QED BY <2>1, <3>1, <3>2
  <2>3. CASE searchFaults' = searchFaults /\ err # "failure"
    <3>1. searchFaults' \in 0..MaxFaults BY <2>1, <2>3
    <3> QED BY <2>1, <2>3, <3>1
  <2> QED BY <1>1, <2>2, <2>3
<1>7. Batch!TypeOK' BY <1>2, <1>5, <1>6 DEF SearchInv, Batch!TypeOK
<1>8. ErrorsInv'
  BY <1>1, <1>2, <1>3, <1>5, <1>6 DEF SearchInv, ErrorsInv, Noted
<1>9. KeysInv' BY <1>2, <1>3, <1>5 DEF SearchInv, KeysInv, Failing
<1>10. SearchIsHonest' BY <1>2 DEF SearchIsHonest, Batch!SearchIsHonest
<1> QED BY <1>7, <1>8, <1>9, <1>10 DEF SearchInv

LEMMA ReportStep ==
  ASSUME SearchInv, NEW w \in Goroutines, Batch!Tell(w)
  PROVE  SearchInv'
<1>1. /\ searcher[w].at \in {"failed", "reported"} /\ searcher[w] \in Batch!WorkerType
      /\ UNCHANGED <<next, closed, parent, results, caller, outcome, searchFaults>>
      /\ caller # "returned"
  BY DEF Batch!Tell, Batch!Report, SearchInv, Batch!TypeOK, Batch!Told, SearchIsHonest,
     Batch!SearchIsHonest
<1>2. CASE searcher[w].at = "failed"
  <2> DEFINE new == [searcher[w] EXCEPT !.at = "reported"]
  <2>1. /\ errCh' = IF errCh = NoError THEN searcher[w].err ELSE errCh
        /\ searcher' = [searcher EXCEPT ![w] = new] /\ UNCHANGED cancelled
    BY <1>2 DEF Batch!Tell, Batch!Report
  <2>2. new \in Batch!WorkerType /\ new.at = "reported" BY <1>1 DEF Batch!WorkerType
  <2> HIDE DEF new
  <2>3. /\ searcher' \in [Goroutines -> Batch!WorkerType] /\ searcher'[w] = new
        /\ \A o \in Goroutines : o # w => searcher'[o] = searcher[o]
    BY <2>1, <2>2, OneSearcher DEF SearchInv
  <2>4. /\ searcher[w].err \in Batch!Errors
        /\ searcher[w].err = "failure" => searchFaults > 0
        /\ searcher[w].err = "context canceled" => cancelled
    BY <1>2 DEF SearchInv, ErrorsInv
  <2>5. errCh' \in Batch!Errors /\ errCh' # NoError
    BY <2>1, <2>4, SearchAssumption DEF SearchInv, Batch!TypeOK, Batch!Errors
  <2>6. Batch!TypeOK' BY <1>1, <2>1, <2>3, <2>5 DEF SearchInv, Batch!TypeOK
  <2>7. ErrorsInv'
    BY <1>1, <2>1, <2>2, <2>3, <2>4, <2>5, SearchAssumption DEF SearchInv, ErrorsInv, Noted
  <2>8. KeysInv' BY <1>1, <2>2, <2>3, <2>5 DEF SearchInv, KeysInv, Noted
  <2>9. SearchIsHonest' BY <1>1 DEF SearchIsHonest, Batch!SearchIsHonest
  <2> QED BY <2>6, <2>7, <2>8, <2>9 DEF SearchInv
<1>3. CASE searcher[w].at = "reported"
  <2> DEFINE new == [searcher[w] EXCEPT !.at = "done"]
  <2>1. cancelled' = TRUE /\ searcher' = [searcher EXCEPT ![w] = new] /\ UNCHANGED errCh
    BY <1>3 DEF Batch!Tell, Batch!Report
  <2>2. new \in Batch!WorkerType /\ new.at = "done" BY <1>1 DEF Batch!WorkerType
  <2> HIDE DEF new
  <2>3. /\ searcher' \in [Goroutines -> Batch!WorkerType] /\ searcher'[w] = new
        /\ \A o \in Goroutines : o # w => searcher'[o] = searcher[o]
    BY <2>1, <2>2, OneSearcher DEF SearchInv
  <2>4. Noted BY <1>3 DEF SearchInv, ErrorsInv
  <2>5. Noted' BY <1>1, <2>1, <2>4 DEF Noted
  <2>6. Batch!TypeOK' BY <1>1, <2>1, <2>3 DEF SearchInv, Batch!TypeOK
  <2>7. ErrorsInv' BY <1>1, <2>1, <2>2, <2>3, <2>5 DEF SearchInv, ErrorsInv
  <2>8. KeysInv' BY <1>1, <2>2, <2>3, <2>5 DEF SearchInv, KeysInv
  <2>9. SearchIsHonest' BY <1>1 DEF SearchIsHonest, Batch!SearchIsHonest
  <2> QED BY <2>6, <2>7, <2>8, <2>9 DEF SearchInv
<1> QED BY <1>1, <1>2, <1>3

LEMMA EndStep ==
  ASSUME SearchInv, NEW w \in Goroutines, Batch!End(w)
  PROVE  SearchInv'
<1> DEFINE new == [searcher[w] EXCEPT !.at = "done"]
<1>1. /\ searcher[w].at = "ready" /\ searcher[w] \in Batch!WorkerType
      /\ searcher' = [searcher EXCEPT ![w] = new]
      /\ UNCHANGED <<next, closed, errCh, cancelled, parent, results, caller, outcome,
                      searchFaults>>
      /\ caller # "returned"
  BY DEF Batch!End, SearchInv, Batch!TypeOK, Batch!Ctx, Batch!Told, SearchIsHonest,
     Batch!SearchIsHonest
<1>2. new \in Batch!WorkerType /\ new.at = "done" BY <1>1 DEF Batch!WorkerType
<1> HIDE DEF new
<1>3. /\ searcher' \in [Goroutines -> Batch!WorkerType] /\ searcher'[w] = new
      /\ \A o \in Goroutines : o # w => searcher'[o] = searcher[o]
  BY <1>1, <1>2, OneSearcher DEF SearchInv
<1>4. Batch!TypeOK' BY <1>1, <1>3 DEF SearchInv, Batch!TypeOK
<1>5. ErrorsInv' BY <1>1, <1>2, <1>3 DEF SearchInv, ErrorsInv, Noted
<1>6. KeysInv' BY <1>1, <1>2, <1>3 DEF SearchInv, KeysInv, Noted, Failing
<1>7. SearchIsHonest' BY <1>1 DEF SearchIsHonest, Batch!SearchIsHonest
<1> QED BY <1>4, <1>5, <1>6, <1>7 DEF SearchInv

LEMMA FeedStep ==
  ASSUME SearchInv, NEW w \in Goroutines, Batch!Feed(w)
  PROVE  SearchInv'
<1> DEFINE new == [Batch!Ready EXCEPT !.at = "searching", !.key = next]
<1>1. /\ caller = "feeding" /\ next <= KeyCount /\ searcher[w].at = "ready"
      /\ searcher' = [searcher EXCEPT ![w] = new] /\ next' = next + 1
      /\ UNCHANGED <<closed, errCh, cancelled, parent, results, caller, outcome, searchFaults>>
  BY DEF Batch!Feed, Batch!Ctx, Batch!Told
<1>2. next \in Batch!Indices /\ next' \in 1..KeyCount + 1
  BY <1>1, SearchNumbers DEF Batch!Indices
<1>3. new \in Batch!WorkerType /\ new.at = "searching" /\ new.key = next
  BY <1>2 DEF Batch!WorkerType, Batch!Ready
<1> HIDE DEF new
<1>4. /\ searcher' \in [Goroutines -> Batch!WorkerType] /\ searcher'[w] = new
      /\ \A o \in Goroutines : o # w => searcher'[o] = searcher[o]
  BY <1>1, <1>3, OneSearcher DEF SearchInv
<1>5. Batch!TypeOK' BY <1>1, <1>2, <1>4 DEF SearchInv, Batch!TypeOK
<1>6. ErrorsInv' BY <1>1, <1>3, <1>4 DEF SearchInv, ErrorsInv, Noted
<1>7. KeysInv'
  <2>1. Failing => Failing' BY <1>1, <1>4 DEF Failing
  <2>2. Noted' = Noted BY <1>1 DEF Noted
  <2>3. ASSUME NEW k \in 1..(next' - 1)
        PROVE  \/ k \in results \/ Failing' \/ Noted
               \/ \E o \in Goroutines : searcher'[o].at = "searching" /\ searcher'[o].key = k
    <3>1. k \in 1..(next - 1) \/ k = next
      BY <1>1, <1>2, <2>3 DEF Batch!Indices
    <3>2. CASE k = next BY <1>3, <1>4, <3>2
    <3>3. CASE k \in 1..(next - 1)
      <4>1. CASE k \in results \/ Failing \/ Noted BY <2>1, <4>1
      <4>2. CASE \E o \in Goroutines : searcher[o].at = "searching" /\ searcher[o].key = k
        <5>1. PICK o \in Goroutines : searcher[o].at = "searching" /\ searcher[o].key = k
          BY <4>2
        <5>2. o # w BY <1>1, <5>1
        <5> QED BY <1>4, <5>1, <5>2
      <4> QED BY <3>3, <4>1, <4>2 DEF SearchInv, KeysInv
    <3> QED BY <3>1, <3>2, <3>3
  <2>4. \A o \in Goroutines : searcher'[o].at = "searching" => searcher'[o].key \in Batch!Indices
    BY <1>2, <1>3, <1>4 DEF SearchInv, KeysInv
  <2> QED BY <1>1, <2>1, <2>2, <2>3, <2>4 DEF SearchInv, KeysInv
<1>8. SearchIsHonest' BY <1>1 DEF SearchIsHonest, Batch!SearchIsHonest
<1> QED BY <1>5, <1>6, <1>7, <1>8 DEF SearchInv

\* What the caller does before it waits.
LEMMA FeedingEnds ==
  ASSUME SearchInv, Batch!TakeError \/ Batch!SeeDone \/ Batch!FedAll
  PROVE  SearchInv'
<1>1. /\ caller = "feeding" /\ caller' \in {"stopped", "aborted", "fed"} /\ closed' = TRUE
      /\ UNCHANGED <<next, searcher, parent, results, searchFaults>>
      /\ caller' = "stopped" \/ UNCHANGED <<errCh, cancelled, outcome>>
      /\ caller' = "stopped" =>
           errCh # NoError /\ outcome' = errCh /\ errCh' = NoError /\ cancelled' = TRUE
      /\ caller' = "aborted" => cancelled
      /\ caller' = "fed" => next > KeyCount
  BY DEF Batch!TakeError, Batch!SeeDone, Batch!FedAll, Batch!Ctx
<1>2. Noted => Noted' BY <1>1 DEF Noted
<1>3. Failing' = Failing BY <1>1 DEF Failing
<1>4. errCh \in Batch!Errors \cup {NoError} /\ errCh # "ok"
  BY SearchAssumption DEF SearchInv, Batch!TypeOK, Batch!Errors
<1>5. Batch!TypeOK' BY <1>1, <1>4 DEF SearchInv, Batch!TypeOK
<1>6. ErrorsInv'
  <2>1. CASE caller' = "stopped"
    BY <1>1, <1>2, <1>4, <2>1, SearchAssumption DEF SearchInv, ErrorsInv, Noted
  <2>2. CASE caller' # "stopped"
    <3>1. /\ errCh' = errCh /\ cancelled' = cancelled /\ outcome' = outcome
          /\ (caller' = "aborted" => cancelled) /\ Noted' = Noted
      BY <1>1, <2>2 DEF Noted
    <3> QED BY <1>1, <2>2, <3>1 DEF SearchInv, ErrorsInv
  <2> QED BY <2>1, <2>2
<1>7. KeysInv'
  <2>1. caller' = "fed" => next = KeyCount + 1
    BY <1>1, SearchNumbers
  <2> QED BY <1>1, <1>2, <1>3, <2>1 DEF SearchInv, KeysInv
<1>8. SearchIsHonest' BY <1>1 DEF SearchIsHonest, Batch!SearchIsHonest
<1> QED BY <1>5, <1>6, <1>7, <1>8 DEF SearchInv

LEMMA ReturnStep ==
  ASSUME SearchInv, Batch!Return
  PROVE  SearchInv'
<1>1. /\ caller \in {"stopped", "aborted", "fed"} /\ caller' = "returned"
      /\ \A w \in Goroutines : searcher[w].at = "done"
      /\ outcome' = Batch!Verdict
      /\ UNCHANGED <<next, closed, searcher, errCh, cancelled, parent, results, searchFaults>>
  BY DEF Batch!Return, Batch!Ctx
<1>2. Noted' /\ ~Failing BY <1>1 DEF Noted, Failing
<1>3. /\ errCh \in Batch!Errors \cup {NoError} /\ searchFaults \in Nat
      
  BY SearchNumbers
<1>4. CASE caller = "stopped"
  <2>1. /\ outcome \in Batch!Errors
        /\ outcome = "failure" => searchFaults > 0
        /\ outcome = "context canceled" => parent
    BY <1>4 DEF SearchInv, ErrorsInv
  <2>2. outcome' = outcome BY <1>1, <1>4 DEF Batch!Verdict
  <2>3. SearchIsHonest'
    BY <1>1, <2>1, <2>2, SearchAssumption DEF SearchIsHonest, Batch!SearchIsHonest, Batch!Errors
  <2> QED BY <1>1, <1>2, <2>1, <2>2, <2>3 DEF SearchInv, Batch!TypeOK, ErrorsInv, KeysInv
<1>5. CASE caller # "stopped" /\ errCh # NoError
  <2>1. /\ errCh \in Batch!Errors
        /\ errCh = "failure" => searchFaults > 0
        /\ errCh = "context canceled" => parent
    BY <1>1, <1>3, <1>5 DEF SearchInv, ErrorsInv
  <2>2. outcome' = errCh BY <1>1, <1>5 DEF Batch!Verdict
  <2>3. SearchIsHonest'
    BY <1>1, <2>1, <2>2, SearchAssumption DEF SearchIsHonest, Batch!SearchIsHonest, Batch!Errors
  <2> QED BY <1>1, <1>2, <2>1, <2>2, <2>3 DEF SearchInv, Batch!TypeOK, ErrorsInv, KeysInv
<1>6. CASE caller = "fed" /\ errCh = NoError
  <2>1. ~Noted /\ outcome' = "ok" BY <1>1, <1>6 DEF Noted, Batch!Verdict
  <2>2. next = KeyCount + 1 /\ searchFaults = 0
    BY <1>2, <1>3, <1>6, <2>1 DEF SearchInv, KeysInv
  <2>3. results = Batch!Indices
    <3>1. \A k \in 1..(next - 1) : k \in results
      BY <1>1, <1>2, <2>1 DEF SearchInv, KeysInv
    <3>2. 1..(next - 1) = Batch!Indices BY <2>2, SearchNumbers DEF Batch!Indices
    <3> QED BY <3>1, <3>2 DEF SearchInv, Batch!TypeOK
  <2>4. SearchIsHonest'
    BY <1>1, <2>1, <2>2, <2>3, SearchAssumption DEF SearchIsHonest, Batch!SearchIsHonest,
       Batch!Indices
  <2> QED BY <1>1, <1>2, <2>1, <2>4 DEF SearchInv, Batch!TypeOK, ErrorsInv, KeysInv
<1>7. CASE caller = "aborted" /\ errCh = NoError
  <2>1. parent BY <1>7 DEF SearchInv, ErrorsInv, Noted
  <2>2. outcome' = "context canceled" BY <1>1, <1>7, <2>1 DEF Batch!Verdict
  <2>3. SearchIsHonest'
    BY <1>1, <2>1, <2>2, SearchAssumption DEF SearchIsHonest, Batch!SearchIsHonest
  <2> QED BY <1>1, <1>2, <2>2, <2>3 DEF SearchInv, Batch!TypeOK, ErrorsInv, KeysInv, Batch!Errors
<1> QED BY <1>1, <1>4, <1>5, <1>6, <1>7

LEMMA SearchStep ==
  ASSUME SearchInv, [Batch!Next]_(Batch!vars)
  PROVE  SearchInv'
<1>1. CASE Batch!CancelParent
  BY <1>1 DEF Batch!CancelParent, Batch!Told, SearchInv, Batch!TypeOK, ErrorsInv, KeysInv, Noted,
     Failing, SearchIsHonest, Batch!SearchIsHonest
<1>2. CASE UNCHANGED Batch!vars
  <2>1. /\ UNCHANGED <<next, closed, searcher, errCh, cancelled, parent, results>>
        /\ UNCHANGED <<caller, outcome, searchFaults>>
    BY <1>2 DEF Batch!vars
  <2>2. Noted' = Noted /\ Failing' = Failing BY <2>1 DEF Noted, Failing
  <2>3. Batch!TypeOK' BY <2>1 DEF SearchInv, Batch!TypeOK
  <2>4. ErrorsInv' BY <2>1, <2>2 DEF SearchInv, ErrorsInv
  <2>5. KeysInv' BY <2>1, <2>2 DEF SearchInv, KeysInv
  <2>6. SearchIsHonest' BY <2>1 DEF SearchInv, SearchIsHonest, Batch!SearchIsHonest
  <2> QED BY <2>3, <2>4, <2>5, <2>6 DEF SearchInv
<1> QED
  BY <1>1, <1>2, AnswerStep, FailStep, ReportStep, EndStep, FeedStep, FeedingEnds, ReturnStep
     DEF Batch!Next, Batch!Work

\* A search for several keys that says it went well has every answer and met no failure; it
\* says "context canceled" only if its caller's context was, never to hide the failure that
\* came first; and no worker outlives it (BatchSearch, searchTokensConcurrent): for any number
\* of keys, workers and failures.
THEOREM SearchTellsTheTruth == Batch!Spec => []SearchIsHonest
<1>1. SearchInv => SearchIsHonest BY DEF SearchInv
<1>2. QED BY SearchInit, SearchStep, <1>1, PTL DEF Batch!Spec

(***************************************************************************)
(* MergeTrace                                                              *)
(***************************************************************************)

Deleting == {"deleting", "counting", "marking"}
Rowed(m) == \A c \in CardsOf[m] : rows[m][c] # "none"

\* How far a merge and its record have got: nothing is deleted before every row is written,
\* nothing is counted or marked that is not deleted, and the record is completed last.
Progress(m) ==
  /\ job[m].at # "ended" =>
       record[m].finished = 0 /\ record[m].status \in {"none", "started"}
  /\ record[m].undone => job[m].at \in {"failing", "ended"}
  /\ job[m].at \in {"queued", "recording"} => job[m].todo = CardsOf[m]
  /\ job[m].at = "verifying" => \A c \in CardsOf[m] \ job[m].todo : rows[m][c] # "none"
  /\ job[m].at \in Deleting \cup {"renaming", "finishing", "rollback"} => Rowed(m)
  /\ job[m].at \in Deleting \cup {"renaming", "finishing"} => fresh[m]
  /\ job[m].at \in {"counting", "marking"} =>
       job[m].card \in CardsOf[m] /\ (job[m].ok => job[m].card \in gone[m])
  /\ job[m].at \in Deleting /\ job[m].failed = 0 => CardsOf[m] \ job[m].todo \subseteq gone[m]
  /\ job[m].at = "finishing" => gone[m] = CardsOf[m]

\* What the record of one merge says.
Honest(m) ==
  /\ \A c \in gone[m] : record[m].status = "pruned" \/ rows[m][c] # "none"
  /\ record[m].status = "pruned" => job[m].at = "ended" /\ traceTime > Retention
  /\ \A c \in CardsOf[m] : rows[m][c] = "yes" => c \in gone[m]
  /\ record[m].status = "done" => gone[m] = CardsOf[m] /\ fresh[m]
  /\ record[m].undone => ~fresh[m]

\* A merge counts only what it deleted.
Counted(m) ==
  /\ job[m].deleted <= Cardinality(gone[m])
  /\ record[m].counted <= Cardinality(gone[m])

Typed(m) ==
  /\ gone[m] \subseteq CardsOf[m] /\ job[m] \in Trace!JobType(m)
  /\ rows[m] \in [CardsOf[m] -> {"none", "null", "yes", "no"}]
  /\ record[m] \in Trace!RecordType /\ fresh[m] \in BOOLEAN

Traced(m) == Typed(m) /\ Progress(m) /\ Honest(m) /\ Counted(m)

Domains ==
  /\ DOMAIN gone = Trace!Merges /\ DOMAIN rows = Trace!Merges /\ DOMAIN job = Trace!Merges
  /\ fresh \in [Trace!Merges -> BOOLEAN] /\ record \in [Trace!Merges -> Trace!RecordType]
  /\ traceTime \in 1..MaxTraceTime

\* The inductive invariant.
TraceInv == Domains /\ \A m \in Trace!Merges : Traced(m)

\* What a step leaves alone.
Untouched(o) ==
  /\ gone'[o] = gone[o] /\ fresh'[o] = fresh[o] /\ record'[o] = record[o]
  /\ rows'[o] = rows[o] /\ job'[o] = job[o]

LEMMA UntouchedStaysTraced ==
  ASSUME NEW o \in Trace!Merges, Traced(o), Untouched(o),
         traceTime > Retention => traceTime' > Retention
  PROVE  Traced(o)'
<1>1. Typed(o)' BY DEF Traced, Typed, Untouched
<1>2. Progress(o)' BY DEF Traced, Progress, Untouched, Rowed
<1>3. Honest(o)' BY DEF Traced, Honest, Untouched
<1>4. Counted(o)' BY DEF Traced, Counted, Untouched
<1> QED BY <1>1, <1>2, <1>3, <1>4 DEF Traced

LEMMA OneMerge ==
  ASSUME TraceInv, NEW m \in Trace!Merges, Domains', UNCHANGED traceTime,
         \A o \in Trace!Merges : o # m => Untouched(o),
         Typed(m)', Progress(m)', Honest(m)', Counted(m)'
  PROVE  TraceInv'
BY UntouchedStaysTraced DEF TraceInv, Traced

\* What is known of a merge before its step.
LEMMA MergeBefore ==
  ASSUME TraceInv, NEW m \in Trace!Merges
  PROVE  Domains /\ Typed(m) /\ Progress(m) /\ Honest(m) /\ Counted(m)
BY DEF TraceInv, Traced

\* The rest of a merge's step when its job moves on.
LEMMA JobGoes ==
  ASSUME TraceInv, NEW m \in Trace!Merges, NEW place \in Trace!Places, Trace!Go(m, place)
  PROVE  /\ DOMAIN job' = Trace!Merges /\ \A o \in Trace!Merges : o # m => job'[o] = job[o]
         /\ job'[m] \in Trace!JobType(m) /\ job'[m].at = place
         /\ job'[m].todo = job[m].todo /\ job'[m].card = job[m].card /\ job'[m].ok = job[m].ok
         /\ job'[m].deleted = job[m].deleted /\ job'[m].failed = job[m].failed
<1> DEFINE new == [job[m] EXCEPT !.at = place]
<1>1. job[m] \in Trace!JobType(m) /\ DOMAIN job = Trace!Merges
  BY MergeBefore DEF Typed, Domains
<1>2. job' = [job EXCEPT ![m] = new] BY DEF Trace!Go
<1>3. /\ new \in Trace!JobType(m) /\ new.at = place
      /\ new.todo = job[m].todo /\ new.card = job[m].card /\ new.ok = job[m].ok
      /\ new.deleted = job[m].deleted /\ new.failed = job[m].failed
  BY <1>1 DEF Trace!JobType
<1> HIDE DEF new
<1> QED BY <1>1, <1>2, <1>3

LEMMA JobBecomes ==
  ASSUME TraceInv, NEW m \in Trace!Merges, NEW new \in Trace!JobType(m),
         job' = [job EXCEPT ![m] = new]
  PROVE  /\ DOMAIN job' = Trace!Merges /\ job'[m] = new
         /\ \A o \in Trace!Merges : o # m => job'[o] = job[o]
BY DEF TraceInv, Domains

LEMMA RecordBecomes ==
  ASSUME TraceInv, NEW m \in Trace!Merges, NEW new \in Trace!RecordType,
         record' = [record EXCEPT ![m] = new]
  PROVE  /\ record' \in [Trace!Merges -> Trace!RecordType] /\ record'[m] = new
         /\ \A o \in Trace!Merges : o # m => record'[o] = record[o]
BY DEF TraceInv, Domains

LEMMA ZeroIsATime == 0 \in 0..MaxTraceTime /\ 1 \in 1..MaxTraceTime
<1>1. MaxTraceTime \in Nat \ {0} BY TraceAssumption
<1> QED BY <1>1

LEMMA TraceInit == Trace!Init => TraceInv
<1> SUFFICES ASSUME Trace!Init PROVE TraceInv
  OBVIOUS
<1>1. /\ Trace!NoRecord \in Trace!RecordType /\ Trace!NoRecord.status = "none"
      /\ Trace!NoRecord.finished = 0 /\ Trace!NoRecord.counted = 0 /\ ~Trace!NoRecord.undone
  BY ZeroIsATime DEF Trace!NoRecord, Trace!RecordType
<1>2. Domains BY <1>1, ZeroIsATime DEF Trace!Init, Domains
<1>3. ASSUME NEW m \in Trace!Merges PROVE Traced(m)
  <2> DEFINE new == [at |-> "queued", todo |-> CardsOf[m], card |-> NoCard,
                     ok |-> FALSE, deleted |-> 0, failed |-> 0]
  <2>1. /\ gone[m] = {} /\ fresh[m] = FALSE /\ record[m] = Trace!NoRecord
        /\ rows[m] = [c \in CardsOf[m] |-> "none"] /\ job[m] = new
    BY DEF Trace!Init, Trace!NoRows
  <2>2. new \in Trace!JobType(m) /\ new.at = "queued" /\ new.deleted = 0
        /\ new.todo = CardsOf[m]
    BY DEF Trace!JobType, Trace!Places
  <2> HIDE DEF new
  <2>3. Typed(m) BY <1>1, <2>1, <2>2 DEF Typed
  <2>4. Progress(m) BY <1>1, <2>1, <2>2 DEF Progress, Deleting
  <2>5. Honest(m) BY <1>1, <2>1, <2>2 DEF Honest
  <2>6. Counted(m) BY <1>1, <2>1, <2>2, FS_EmptySet DEF Counted
  <2> QED BY <2>3, <2>4, <2>5, <2>6 DEF Traced
<1> QED BY <1>2, <1>3 DEF TraceInv

LEMMA TraceNumbers ==
  ASSUME TraceInv, NEW m \in Trace!Merges
  PROVE  /\ traceTime \in Nat /\ traceTime \in 0..MaxTraceTime /\ Retention \in Nat
         /\ record[m].finished \in Nat /\ record[m].counted \in Nat
         /\ job[m].deleted \in Nat /\ job[m].failed \in Nat
         /\ IsFiniteSet(gone[m]) /\ Cardinality(gone[m]) \in Nat
<1>1. /\ traceTime \in 1..MaxTraceTime /\ record[m] \in Trace!RecordType
      /\ job[m] \in Trace!JobType(m) /\ gone[m] \subseteq CardsOf[m]
  BY MergeBefore DEF Domains, Typed
<1>2. IsFiniteSet(gone[m]) /\ Cardinality(gone[m]) \in Nat
  BY <1>1, TraceAssumption, FS_Subset, FS_CardinalityType DEF Trace!Merges
<1>3. MaxTraceTime \in Nat /\ Retention \in Nat BY TraceAssumption
<1>4. record[m].finished \in 0..MaxTraceTime /\ record[m].counted \in Nat
  BY <1>1 DEF Trace!RecordType
<1>5. job[m].deleted \in Nat /\ job[m].failed \in Nat BY <1>1 DEF Trace!JobType
<1> QED BY <1>1, <1>2, <1>3, <1>4, <1>5

\* A new merge throws away the records that were completed long ago, its own is not there.
LEMMA TraceStarts ==
  ASSUME TraceInv, NEW m \in Trace!Merges, Trace!Start(m)
  PROVE  TraceInv'
<1>1. /\ job[m].at = "queued" /\ Trace!Go(m, "recording")
      /\ UNCHANGED <<gone, fresh, traceTime>>
      /\ \/ /\ record' = [o \in Trace!Merges |-> IF Trace!Old(o) THEN Trace!Pruned ELSE record[o]]
            /\ rows' = [o \in Trace!Merges |-> IF Trace!Old(o) THEN Trace!NoRows(o) ELSE rows[o]]
         \/ UNCHANGED <<record, rows>>
  BY DEF Trace!Start
<1>2. "recording" \in Trace!Places BY DEF Trace!Places
<1>3. /\ DOMAIN job' = Trace!Merges /\ \A o \in Trace!Merges : o # m => job'[o] = job[o]
      /\ job'[m] \in Trace!JobType(m) /\ job'[m].at = "recording"
      /\ job'[m].deleted = job[m].deleted /\ job'[m].todo = job[m].todo
  BY <1>1, <1>2, JobGoes
<1>4. /\ Trace!Pruned \in Trace!RecordType /\ Trace!Pruned.status = "pruned"
      /\ Trace!Pruned.finished = 0 /\ Trace!Pruned.counted = 0 /\ ~Trace!Pruned.undone
  BY ZeroIsATime DEF Trace!Pruned, Trace!NoRecord, Trace!RecordType
<1>5. Domains'
  BY <1>1, <1>3, <1>4 DEF TraceInv, Domains
<1>6. ASSUME NEW o \in Trace!Merges PROVE Traced(o)'
  <2>1. Typed(o) /\ Progress(o) /\ Honest(o) /\ Counted(o) BY MergeBefore
  <2>2. /\ job'[o] \in Trace!JobType(o) /\ job'[o].deleted = job[o].deleted
        /\ job'[o].todo = job[o].todo
        /\ IF o = m THEN job[o].at = "queued" /\ job'[o].at = "recording"
                    ELSE job'[o] = job[o]
    BY <1>1, <1>3, <2>1 DEF Typed
  <2>3. CASE record'[o] = record[o] /\ rows'[o] = rows[o]
    <3>1. Typed(o)' BY <1>1, <2>1, <2>2, <2>3 DEF Typed
    <3>2. Progress(o)' BY <1>1, <2>1, <2>2, <2>3 DEF Progress, Deleting, Rowed
    <3>3. Honest(o)' BY <1>1, <2>1, <2>2, <2>3 DEF Honest
    <3>4. Counted(o)' BY <1>1, <2>1, <2>2, <2>3 DEF Counted
    <3> QED BY <3>1, <3>2, <3>3, <3>4 DEF Traced
  <2>4. CASE Trace!Old(o) /\ record'[o] = Trace!Pruned /\ rows'[o] = Trace!NoRows(o)
    <3>1. job[o].at = "ended" BY <2>1, <2>4 DEF Trace!Old, Progress
    <3>2. job'[o] = job[o] BY <2>2, <3>1
    <3>3. traceTime > Retention
      <4>1. record[o].finished + Retention < traceTime BY <2>4 DEF Trace!Old
      <4> QED BY <4>1, TraceNumbers
    <3>4. \A c \in CardsOf[o] : rows'[o][c] = "none" BY <2>4 DEF Trace!NoRows
    <3>5. Typed(o)' BY <1>1, <1>4, <2>1, <2>4, <3>2 DEF Typed, Trace!NoRows
    <3>6. Progress(o)' BY <1>1, <1>4, <2>1, <2>4, <3>1, <3>2 DEF Progress, Deleting
    <3>7. Honest(o)' BY <1>1, <1>4, <2>1, <2>4, <3>1, <3>2, <3>3, <3>4 DEF Honest
    <3>8. Counted(o)' BY <1>1, <1>4, <2>1, <2>4, <3>2, TraceNumbers DEF Counted
    <3> QED BY <3>5, <3>6, <3>7, <3>8 DEF Traced
  <2> QED BY <1>1, <2>3, <2>4
<1> QED BY <1>5, <1>6 DEF TraceInv

\* A step of one job that touches none of the cards and rows.
LEMMA TraceJobMoves ==
  ASSUME TraceInv, NEW m \in Trace!Merges, NEW place \in Trace!Places, Trace!Go(m, place),
         UNCHANGED <<gone, record, rows, traceTime>>,
         fresh' = fresh \/ (fresh' \in [Trace!Merges -> BOOLEAN] /\ ~record[m].undone
                            /\ record[m].status # "done" /\ place = "failing"
                            /\ \A o \in Trace!Merges : o # m => fresh'[o] = fresh[o]),
         job[m].at \notin {"failing", "ended"},
         place \in {"failing", "ended", "rollback", "finishing"},
         place = "rollback" => Rowed(m),
         place = "finishing" => Rowed(m) /\ fresh[m] /\ gone[m] = CardsOf[m]
  PROVE  TraceInv'
<1>1. /\ DOMAIN job' = Trace!Merges /\ \A o \in Trace!Merges : o # m => job'[o] = job[o]
      /\ job'[m] \in Trace!JobType(m) /\ job'[m].at = place
      /\ job'[m].deleted = job[m].deleted
  BY JobGoes
<1>2. Domains /\ Typed(m) /\ Progress(m) /\ Honest(m) /\ Counted(m) BY MergeBefore
<1>3. Domains' BY <1>1, <1>2 DEF Domains
<1>4. \A o \in Trace!Merges : o # m => Untouched(o) BY <1>1 DEF Untouched
<1>5. Typed(m)' BY <1>1, <1>2, <1>3 DEF Typed, Domains
<1>6. Progress(m)' BY <1>1, <1>2 DEF Progress, Deleting, Rowed
<1>7. Honest(m)' BY <1>1, <1>2 DEF Honest, Progress
<1>8. Counted(m)' BY <1>1, <1>2 DEF Counted
<1> QED BY <1>3, <1>4, <1>5, <1>6, <1>7, <1>8, OneMerge

\* A record that a write left as it was, or changed: of a merge that is not over it was not
\* completed.
LEMMA MakeRecordStep ==
  ASSUME TraceInv, NEW m \in Trace!Merges, Trace!MakeRecord(m)
  PROVE  TraceInv'
<1>1. {"verifying", "ended"} \subseteq Trace!Places BY DEF Trace!Places
<1>2. CASE Trace!Go(m, "ended") /\ UNCHANGED record
  BY <1>1, <1>2, TraceJobMoves DEF Trace!MakeRecord
<1>3. CASE ~(Trace!Go(m, "ended") /\ UNCHANGED record)
  <2> DEFINE new == [Trace!NoRecord EXCEPT !.status = "started"]
  <2>1. /\ job[m].at = "recording" /\ Trace!Go(m, "verifying")
        /\ record' = [record EXCEPT ![m] = new]
        /\ UNCHANGED <<gone, fresh, rows, traceTime>>
    BY <1>3 DEF Trace!MakeRecord
  <2>2. /\ new \in Trace!RecordType /\ new.status = "started" /\ new.finished = 0
        /\ new.counted = 0 /\ ~new.undone
    BY ZeroIsATime DEF Trace!NoRecord, Trace!RecordType
  <2> HIDE DEF new
  <2>3. /\ DOMAIN job' = Trace!Merges /\ \A o \in Trace!Merges : o # m => job'[o] = job[o]
        /\ job'[m] \in Trace!JobType(m) /\ job'[m].at = "verifying"
        /\ job'[m].todo = job[m].todo /\ job'[m].deleted = job[m].deleted
    BY <1>1, <2>1, JobGoes
  <2>4. /\ record' \in [Trace!Merges -> Trace!RecordType] /\ record'[m] = new
        /\ \A o \in Trace!Merges : o # m => record'[o] = record[o]
    BY <2>1, <2>2, RecordBecomes
  <2>5. Domains /\ Typed(m) /\ Progress(m) /\ Honest(m) /\ Counted(m) BY MergeBefore
  <2>6. Domains' BY <2>1, <2>3, <2>4, <2>5 DEF Domains
  <2>7. \A o \in Trace!Merges : o # m => Untouched(o) BY <2>1, <2>3, <2>4 DEF Untouched
  <2>8. Typed(m)' BY <2>1, <2>2, <2>3, <2>4, <2>5 DEF Typed
  <2>9. Progress(m)' BY <2>1, <2>2, <2>3, <2>4, <2>5 DEF Progress, Deleting
  <2>10. Honest(m)' BY <2>1, <2>2, <2>3, <2>4, <2>5 DEF Honest, Progress
  <2>11. Counted(m)'
    BY <2>1, <2>2, <2>3, <2>4, <2>5, TraceNumbers DEF Counted
  <2> QED BY <2>1, <2>6, <2>7, <2>8, <2>9, <2>10, <2>11, OneMerge
<1> QED BY <1>2, <1>3

LEMMA VerifyStep ==
  ASSUME TraceInv, NEW m \in Trace!Merges, Trace!Verify(m) \/ Trace!Refuse(m)
  PROVE  TraceInv'
<1>1. "failing" \in Trace!Places BY DEF Trace!Places
<1>2. CASE Trace!Go(m, "failing") /\ UNCHANGED <<gone, fresh, record, rows, traceTime>>
  BY <1>1, <1>2, TraceJobMoves DEF Trace!Verify, Trace!Refuse
<1>3. CASE ~(Trace!Go(m, "failing") /\ UNCHANGED <<gone, fresh, record, rows, traceTime>>)
  <2>1. PICK c \in job[m].todo :
          /\ job[m].at = "verifying" /\ UNCHANGED <<gone, fresh, record, traceTime>>
          /\ rows' = [rows EXCEPT ![m][c] = "null"]
          /\ job' = [job EXCEPT ![m].todo = @ \ {c}]
    BY <1>3 DEF Trace!Verify, Trace!Refuse, Trace!RowFails
  <2> DEFINE new == [job[m] EXCEPT !.todo = @ \ {c}]
  <2>2. Domains /\ Typed(m) /\ Progress(m) /\ Honest(m) /\ Counted(m) BY MergeBefore
  <2>3. c \in CardsOf[m] BY <2>1, <2>2 DEF Typed, Trace!JobType
  <2>4. /\ new \in Trace!JobType(m) /\ new.at = "verifying" /\ new.todo = job[m].todo \ {c}
        /\ new.deleted = job[m].deleted
    BY <2>1, <2>2 DEF Typed, Trace!JobType
  <2>5. job' = [job EXCEPT ![m] = new] BY <2>1
  <2> HIDE DEF new
  <2>6. /\ DOMAIN job' = Trace!Merges /\ job'[m] = new
        /\ \A o \in Trace!Merges : o # m => job'[o] = job[o]
    BY <2>4, <2>5, JobBecomes
  <2>7. /\ DOMAIN rows' = Trace!Merges /\ \A o \in Trace!Merges : o # m => rows'[o] = rows[o]
        /\ rows'[m] = [rows[m] EXCEPT ![c] = "null"]
    BY <2>1, <2>2 DEF Domains
  <2>8. /\ rows'[m] \in [CardsOf[m] -> {"none", "null", "yes", "no"}]
        /\ rows'[m][c] = "null" /\ \A d \in CardsOf[m] : d # c => rows'[m][d] = rows[m][d]
    BY <2>2, <2>3, <2>7 DEF Typed
  <2>9. Domains' BY <2>1, <2>2, <2>6, <2>7 DEF Domains
  <2>10. \A o \in Trace!Merges : o # m => Untouched(o) BY <2>1, <2>6, <2>7 DEF Untouched
  <2>11. Typed(m)' BY <2>1, <2>2, <2>4, <2>6, <2>8 DEF Typed
  <2>12. Progress(m)'
    <3>1. \A d \in CardsOf[m] \ job'[m].todo : rows'[m][d] # "none"
      BY <2>1, <2>2, <2>4, <2>6, <2>8 DEF Progress
    <3> QED BY <2>1, <2>2, <2>4, <2>6, <3>1 DEF Progress, Deleting
  <2>13. Honest(m)' BY <2>1, <2>2, <2>3, <2>4, <2>6, <2>8 DEF Honest, Typed
  <2>14. Counted(m)' BY <2>1, <2>2, <2>4, <2>6 DEF Counted
  <2> QED BY <2>1, <2>9, <2>10, <2>11, <2>12, <2>13, <2>14, OneMerge
<1> QED BY <1>2, <1>3

LEMMA CreateStep ==
  ASSUME TraceInv, NEW m \in Trace!Merges, Trace!Create(m)
  PROVE  TraceInv'
<1>1. {"failing", "renaming"} \subseteq Trace!Places BY DEF Trace!Places
<1>2. /\ job[m].at = "verifying" /\ job[m].todo = {}
      /\ UNCHANGED <<gone, record, rows, traceTime>>
      /\ fresh' \in {fresh, [fresh EXCEPT ![m] = TRUE]}
  BY DEF Trace!Create
<1>3. Domains /\ Typed(m) /\ Progress(m) /\ Honest(m) /\ Counted(m) BY MergeBefore
<1>4. ~record[m].undone /\ record[m].status # "done" BY <1>2, <1>3 DEF Progress
<1>5. /\ fresh' \in [Trace!Merges -> BOOLEAN]
      /\ \A o \in Trace!Merges : o # m => fresh'[o] = fresh[o]
  BY <1>2, <1>3 DEF Domains
<1>6. CASE Trace!Go(m, "failing")
  BY <1>1, <1>2, <1>4, <1>5, <1>6, TraceJobMoves
<1>7. CASE Trace!Go(m, "renaming") /\ fresh' = [fresh EXCEPT ![m] = TRUE]
  <2>1. fresh'[m] = TRUE BY <1>3, <1>7 DEF Domains
  <2>2. /\ DOMAIN job' = Trace!Merges /\ \A o \in Trace!Merges : o # m => job'[o] = job[o]
        /\ job'[m] \in Trace!JobType(m) /\ job'[m].at = "renaming"
        /\ job'[m].deleted = job[m].deleted
    BY <1>1, <1>7, JobGoes
  <2>3. Domains' BY <1>2, <1>3, <1>5, <2>2 DEF Domains
  <2>4. \A o \in Trace!Merges : o # m => Untouched(o) BY <1>2, <1>5, <2>2 DEF Untouched
  <2>5. Typed(m)' BY <1>2, <1>3, <2>1, <2>2 DEF Typed
  <2>6. Progress(m)'
    BY <1>2, <1>3, <1>4, <2>1, <2>2 DEF Progress, Deleting, Rowed
  <2>7. Honest(m)' BY <1>2, <1>3, <1>4, <2>1, <2>2 DEF Honest, Progress
  <2>8. Counted(m)' BY <1>2, <1>3, <2>2 DEF Counted
  <2> QED BY <1>2, <2>3, <2>4, <2>5, <2>6, <2>7, <2>8, OneMerge
<1> QED BY <1>6, <1>7 DEF Trace!Create

LEMMA RenameStep ==
  ASSUME TraceInv, NEW m \in Trace!Merges, Trace!Rename(m)
  PROVE  TraceInv'
<1>1. /\ job[m].at = "renaming" /\ UNCHANGED <<gone, fresh, record, rows, traceTime>>
      /\ "rollback" \in Trace!Places
  BY DEF Trace!Rename, Trace!Places
<1>2. Domains /\ Typed(m) /\ Progress(m) /\ Honest(m) /\ Counted(m) BY MergeBefore
<1>3. CASE Trace!Go(m, "rollback")
  <2>1. Rowed(m) BY <1>1, <1>2 DEF Progress
  <2> QED BY <1>1, <1>3, <2>1, TraceJobMoves
<1>4. CASE job' = [job EXCEPT ![m].at = "deleting", ![m].todo = CardsOf[m]]
  <2> DEFINE new == [job[m] EXCEPT !.at = "deleting", !.todo = CardsOf[m]]
  <2>1. job' = [job EXCEPT ![m] = new] BY <1>4
  <2>2. /\ new \in Trace!JobType(m) /\ new.at = "deleting" /\ new.todo = CardsOf[m]
        /\ new.deleted = job[m].deleted
    BY <1>2 DEF Typed, Trace!JobType, Trace!Places
  <2> HIDE DEF new
  <2>3. /\ DOMAIN job' = Trace!Merges /\ job'[m] = new
        /\ \A o \in Trace!Merges : o # m => job'[o] = job[o]
    BY <2>1, <2>2, JobBecomes
  <2>4. Domains' BY <1>1, <1>2, <2>3 DEF Domains
  <2>5. \A o \in Trace!Merges : o # m => Untouched(o) BY <1>1, <2>3 DEF Untouched
  <2>6. Typed(m)' BY <1>1, <1>2, <2>2, <2>3 DEF Typed
  <2>7. Progress(m)' BY <1>1, <1>2, <2>2, <2>3 DEF Progress, Deleting, Rowed
  <2>8. Honest(m)' BY <1>1, <1>2, <2>2, <2>3 DEF Honest, Progress
  <2>9. Counted(m)' BY <1>1, <1>2, <2>2, <2>3 DEF Counted
  <2> QED BY <1>1, <2>4, <2>5, <2>6, <2>7, <2>8, <2>9, OneMerge
<1> QED BY <1>3, <1>4 DEF Trace!Rename

\* What the answer to a deletion says, and what happened.
LEMMA DeleteStep ==
  ASSUME TraceInv, NEW m \in Trace!Merges, Trace!Delete(m)
  PROVE  TraceInv'
<1> DEFINE told(c) == [job[m] EXCEPT !.at = "counting", !.todo = @ \ {c}, !.card = c]
           yes(c) == [told(c) EXCEPT !.ok = TRUE, !.deleted = @ + 1]
           no(c) == [told(c) EXCEPT !.ok = FALSE, !.failed = @ + 1]
           Erase(c) == Trace!Exists(c) /\ gone' = [gone EXCEPT ![m] = @ \cup {c}]
<1>1. PICK c \in job[m].todo :
        /\ job[m].at = "deleting" /\ UNCHANGED <<fresh, record, rows, traceTime>>
        /\ \/ Erase(c) /\ job' = [job EXCEPT ![m] = yes(c)]
           \/ (Erase(c) \/ UNCHANGED gone) /\ job' = [job EXCEPT ![m] = no(c)]
  BY DEF Trace!Delete
<1>2. Domains /\ Typed(m) /\ Progress(m) /\ Honest(m) /\ Counted(m) BY MergeBefore
<1>3. job[m] \in Trace!JobType(m) /\ c \in CardsOf[m]
  BY <1>1, <1>2 DEF Typed, Trace!JobType
<1>4. /\ told(c) \in Trace!JobType(m) /\ told(c).at = "counting"
      /\ told(c).deleted = job[m].deleted /\ told(c).failed = job[m].failed
      /\ told(c).card = c /\ told(c).todo = job[m].todo \ {c}
  BY <1>3 DEF Trace!JobType, Trace!Places
<1> HIDE DEF told
<1>5. /\ yes(c) \in Trace!JobType(m) /\ yes(c).at = "counting" /\ yes(c).ok
      /\ yes(c).deleted = job[m].deleted + 1 /\ yes(c).failed = job[m].failed
      /\ yes(c).card = c /\ yes(c).todo = job[m].todo \ {c}
      /\ no(c) \in Trace!JobType(m) /\ no(c).at = "counting" /\ ~no(c).ok
      /\ no(c).deleted = job[m].deleted /\ no(c).failed = job[m].failed + 1
      /\ no(c).card = c /\ no(c).todo = job[m].todo \ {c}
  <2>1. told(c).deleted \in Nat /\ told(c).failed \in Nat BY <1>4, TraceNumbers
  <2>2. told(c).deleted + 1 \in Nat /\ told(c).failed + 1 \in Nat BY <2>1
  <2>3. /\ yes(c) \in Trace!JobType(m) /\ yes(c).at = "counting" /\ yes(c).ok
        /\ yes(c).deleted = told(c).deleted + 1 /\ yes(c).failed = told(c).failed
        /\ yes(c).card = told(c).card /\ yes(c).todo = told(c).todo
    BY <1>4, <2>2 DEF Trace!JobType
  <2>4. /\ no(c) \in Trace!JobType(m) /\ no(c).at = "counting" /\ ~no(c).ok
        /\ no(c).deleted = told(c).deleted /\ no(c).failed = told(c).failed + 1
        /\ no(c).card = told(c).card /\ no(c).todo = told(c).todo
    BY <1>4, <2>2 DEF Trace!JobType
  <2> QED BY <1>4, <2>3, <2>4
<1> HIDE DEF yes, no
<1>6. PICK new \in {yes(c), no(c)} :
        /\ job' = [job EXCEPT ![m] = new]
        /\ Erase(c) \/ (UNCHANGED gone /\ new = no(c))
  BY <1>1
<1>7. /\ DOMAIN job' = Trace!Merges /\ job'[m] = new
      /\ \A o \in Trace!Merges : o # m => job'[o] = job[o]
  BY <1>5, <1>6, JobBecomes
<1>8. /\ new \in Trace!JobType(m) /\ new.at = "counting" /\ new.card = c
      /\ new.todo = job[m].todo \ {c}
  BY <1>5, <1>6
<1>9. /\ DOMAIN gone' = Trace!Merges /\ \A o \in Trace!Merges : o # m => gone'[o] = gone[o]
      /\ gone'[m] \in {gone[m], gone[m] \cup {c}}
      /\ new = yes(c) => c \notin gone[m]
      /\ new # no(c) => gone'[m] = gone[m] \cup {c}
  <2>1. Trace!Exists(c) => c \notin gone[m] BY DEF Trace!Exists
  <2>2. CASE Erase(c) BY <1>2, <1>6, <2>1, <2>2 DEF Domains
  <2>3. CASE UNCHANGED gone /\ new = no(c)
    <3>1. yes(c) # no(c) BY <1>5
    <3> QED BY <1>2, <2>3, <3>1 DEF Domains
  <2> QED BY <1>6, <2>2, <2>3
<1>10. Domains' BY <1>1, <1>2, <1>7, <1>9 DEF Domains
<1>11. \A o \in Trace!Merges : o # m => Untouched(o) BY <1>1, <1>7, <1>9 DEF Untouched
<1>12. Typed(m)' BY <1>1, <1>2, <1>3, <1>7, <1>8, <1>9 DEF Typed
<1>13. new.failed = 0 => new = yes(c) /\ new # no(c) /\ job[m].failed = 0
  <2>1. job[m].failed \in Nat BY TraceNumbers
  <2>2. no(c).failed # 0 BY <1>5, <2>1
  <2> QED BY <1>5, <1>6, <2>2
<1>14. yes(c) # no(c) BY <1>5
<1>15. Progress(m)'
  <2>1. Rowed(m) /\ fresh[m] BY <1>1, <1>2 DEF Progress, Deleting
  <2>2. new.ok => c \in gone'[m] BY <1>5, <1>9
  <2>3. new.failed = 0 => CardsOf[m] \ new.todo \subseteq gone'[m]
    BY <1>1, <1>2, <1>8, <1>9, <1>13 DEF Progress, Deleting
  <2> QED BY <1>1, <1>2, <1>3, <1>7, <1>8, <2>1, <2>2, <2>3 DEF Progress, Deleting, Rowed
<1>16. Honest(m)'
  <2>1. Rowed(m) /\ record[m].status \in {"none", "started"} /\ ~record[m].undone
    BY <1>1, <1>2 DEF Progress, Deleting
  <2> QED BY <1>1, <1>2, <1>3, <1>7, <1>8, <1>9, <2>1 DEF Honest, Rowed
<1>17. Counted(m)'
  <2>1. /\ job[m].deleted \in Nat /\ record[m].counted \in Nat
        /\ IsFiniteSet(gone[m]) /\ Cardinality(gone[m]) \in Nat
        /\ job[m].deleted <= Cardinality(gone[m]) /\ record[m].counted <= Cardinality(gone[m])
    BY <1>2, TraceNumbers DEF Counted
  <2>2. Cardinality(gone[m] \cup {c}) =
          IF c \in gone[m] THEN Cardinality(gone[m]) ELSE Cardinality(gone[m]) + 1
    BY <2>1, FS_AddElement
  <2>3. CASE new = yes(c)
    <3>1. gone'[m] = gone[m] \cup {c} /\ c \notin gone[m] BY <1>9, <1>14, <2>3
    <3>2. Cardinality(gone'[m]) = Cardinality(gone[m]) + 1 BY <2>2, <3>1
    <3>3. job'[m].deleted = job[m].deleted + 1 BY <1>5, <1>7, <2>3
    <3> QED BY <1>1, <2>1, <3>2, <3>3 DEF Counted
  <2>4. CASE new = no(c)
    <3>1. Cardinality(gone'[m]) \in {Cardinality(gone[m]), Cardinality(gone[m]) + 1}
      BY <1>9, <2>2
    <3>2. job'[m].deleted = job[m].deleted BY <1>5, <1>7, <2>4
    <3> QED BY <1>1, <2>1, <3>1, <3>2 DEF Counted
  <2> QED BY <1>6, <2>3, <2>4
<1> QED BY <1>1, <1>10, <1>11, <1>12, <1>15, <1>16, <1>17, OneMerge

\* A merge that counts, takes its new card back or ends, and notes it in its record, which may
\* fail.
LEMMA NoteStep ==
  ASSUME TraceInv, NEW m \in Trace!Merges, NEW place \in Trace!Places, Trace!Go(m, place),
         UNCHANGED <<gone, rows, traceTime>>,
         fresh' \in [Trace!Merges -> BOOLEAN], fresh' = fresh \/ ~fresh'[m],
         \A o \in Trace!Merges : o # m => fresh'[o] = fresh[o],
         NEW new \in Trace!RecordType, record' = [record EXCEPT ![m] = new],
         new.counted <= Cardinality(gone[m]),
         Progress(m)', Honest(m)'
  PROVE  TraceInv'
<1>1. /\ DOMAIN job' = Trace!Merges /\ \A o \in Trace!Merges : o # m => job'[o] = job[o]
      /\ job'[m] \in Trace!JobType(m) /\ job'[m].deleted = job[m].deleted
  BY JobGoes
<1>2. /\ record' \in [Trace!Merges -> Trace!RecordType] /\ record'[m] = new
      /\ \A o \in Trace!Merges : o # m => record'[o] = record[o]
  BY RecordBecomes
<1>3. Domains /\ Typed(m) /\ Progress(m) /\ Honest(m) /\ Counted(m) BY MergeBefore
<1>4. Domains' BY <1>1, <1>2, <1>3 DEF Domains
<1>5. \A o \in Trace!Merges : o # m => Untouched(o) BY <1>1, <1>2 DEF Untouched
<1>6. Typed(m)' BY <1>1, <1>2, <1>3 DEF Typed
<1>7. Counted(m)' BY <1>1, <1>2, <1>3 DEF Counted
<1> QED BY <1>4, <1>5, <1>6, <1>7, OneMerge

LEMMA SameRecord ==
  ASSUME TraceInv, NEW m \in Trace!Merges
  PROVE  record = [record EXCEPT ![m] = record[m]] /\ record[m] \in Trace!RecordType
BY MergeBefore DEF Domains

LEMMA CountStep ==
  ASSUME TraceInv, NEW m \in Trace!Merges, Trace!Count(m)
  PROVE  TraceInv'
<1> DEFINE counted == [record[m] EXCEPT !.counted = job[m].deleted]
<1>1. /\ job[m].at = "counting" /\ Trace!Go(m, "marking") /\ "marking" \in Trace!Places
      /\ UNCHANGED <<gone, fresh, rows, traceTime>>
      /\ record' = [record EXCEPT ![m] = counted] \/ UNCHANGED record
  BY DEF Trace!Count, Trace!Note, Trace!Places
<1>2. Domains /\ Typed(m) /\ Progress(m) /\ Honest(m) /\ Counted(m) BY MergeBefore
<1>3. /\ counted \in Trace!RecordType /\ counted.counted = job[m].deleted
      /\ counted.status = record[m].status /\ counted.undone = record[m].undone
      /\ counted.finished = record[m].finished
  <2>1. job[m].deleted \in Nat BY TraceNumbers
  <2> QED BY <1>2, <2>1 DEF Typed, Trace!RecordType
<1> HIDE DEF counted
<1>4. PICK new \in Trace!RecordType :
        /\ record' = [record EXCEPT ![m] = new]
        /\ new.counted <= Cardinality(gone[m])
        /\ new.status = record[m].status /\ new.undone = record[m].undone
        /\ new.finished = record[m].finished
  BY <1>1, <1>2, <1>3, SameRecord DEF Counted
<1>5. /\ record'[m] = new /\ fresh' \in [Trace!Merges -> BOOLEAN]
  BY <1>1, <1>2, <1>4 DEF Domains
<1>6. /\ job'[m].at = "marking" /\ job'[m].todo = job[m].todo /\ job'[m].card = job[m].card
      /\ job'[m].ok = job[m].ok /\ job'[m].failed = job[m].failed
  BY <1>1, JobGoes
<1>7. Progress(m)'
  BY <1>1, <1>2, <1>4, <1>5, <1>6 DEF Progress, Deleting, Rowed
<1>8. Honest(m)' BY <1>1, <1>2, <1>4, <1>5, <1>6 DEF Honest, Progress
<1> QED BY <1>1, <1>4, <1>5, <1>7, <1>8, NoteStep

LEMMA MarkRowStep ==
  ASSUME TraceInv, NEW m \in Trace!Merges, Trace!MarkRow(m)
  PROVE  TraceInv'
<1> DEFINE c == job[m].card
<1>1. /\ job[m].at = "marking" /\ Trace!Go(m, "deleting") /\ "deleting" \in Trace!Places
      /\ UNCHANGED <<gone, fresh, record, traceTime>>
      /\ \/ rows' = [rows EXCEPT ![m][c] = Trace!Mark(job[m].ok)]
         \/ UNCHANGED rows
  BY DEF Trace!MarkRow, Trace!Places
<1>2. Domains /\ Typed(m) /\ Progress(m) /\ Honest(m) /\ Counted(m) BY MergeBefore
<1>3. /\ c \in CardsOf[m] /\ (job[m].ok => c \in gone[m]) /\ Rowed(m) /\ fresh[m]
      /\ record[m].finished = 0 /\ record[m].status \in {"none", "started"} /\ ~record[m].undone
      /\ job[m].failed = 0 => CardsOf[m] \ job[m].todo \subseteq gone[m]
  BY <1>1, <1>2 DEF Progress, Deleting
<1>4. /\ DOMAIN job' = Trace!Merges /\ \A o \in Trace!Merges : o # m => job'[o] = job[o]
      /\ job'[m] \in Trace!JobType(m) /\ job'[m].at = "deleting"
      /\ job'[m].todo = job[m].todo /\ job'[m].deleted = job[m].deleted
      /\ job'[m].failed = job[m].failed
  BY <1>1, JobGoes
<1> HIDE DEF c
<1>5. /\ DOMAIN rows' = Trace!Merges /\ \A o \in Trace!Merges : o # m => rows'[o] = rows[o]
      /\ rows'[m] \in {rows[m], [rows[m] EXCEPT ![c] = Trace!Mark(job[m].ok)]}
  BY <1>1, <1>2 DEF Domains
<1>6. /\ rows'[m] \in [CardsOf[m] -> {"none", "null", "yes", "no"}]
      /\ \A d \in CardsOf[m] : rows'[m][d] # "none"
      /\ \A d \in CardsOf[m] : rows'[m][d] = "yes" => d \in gone[m]
  <2>1. /\ Trace!Mark(job[m].ok) \in {"yes", "no"}
        /\ Trace!Mark(job[m].ok) = "yes" => c \in gone[m]
    BY <1>3 DEF Trace!Mark
  <2> QED BY <1>2, <1>3, <1>5, <2>1 DEF Typed, Honest, Rowed
<1>7. Domains' BY <1>1, <1>2, <1>4, <1>5 DEF Domains
<1>8. \A o \in Trace!Merges : o # m => Untouched(o) BY <1>1, <1>4, <1>5 DEF Untouched
<1>9. Typed(m)' BY <1>1, <1>2, <1>4, <1>6 DEF Typed
<1>10. Progress(m)' BY <1>1, <1>3, <1>4, <1>6 DEF Progress, Deleting, Rowed
<1>11. Honest(m)' BY <1>1, <1>2, <1>3, <1>4, <1>6 DEF Honest, Typed
<1>12. Counted(m)' BY <1>1, <1>2, <1>4 DEF Counted
<1> QED BY <1>1, <1>7, <1>8, <1>9, <1>10, <1>11, <1>12, OneMerge

LEMMA EndDeleteStep ==
  ASSUME TraceInv, NEW m \in Trace!Merges, Trace!EndDelete(m) \/ Trace!RollbackFails(m)
  PROVE  TraceInv'
<1>1. {"finishing", "rollback", "failing"} \subseteq Trace!Places BY DEF Trace!Places
<1>2. Domains /\ Typed(m) /\ Progress(m) BY MergeBefore
<1>3. CASE Trace!EndDelete(m)
  <2>1. PICK place \in {"finishing", "rollback", "failing"} :
          /\ Trace!Go(m, place)
          /\ place = "finishing" => job[m].failed = 0
          /\ job[m].at = "deleting" /\ job[m].todo = {}
          /\ UNCHANGED <<gone, fresh, record, rows, traceTime>>
    BY <1>3 DEF Trace!EndDelete
  <2>2. Rowed(m) /\ fresh[m] BY <1>2, <2>1 DEF Progress, Deleting
  <2>3. place = "finishing" => gone[m] = CardsOf[m]
    BY <1>2, <2>1 DEF Progress, Deleting, Typed
  <2> QED BY <1>1, <2>1, <2>2, <2>3, TraceJobMoves
<1>4. CASE Trace!RollbackFails(m)
  <2>1. /\ job[m].at = "rollback" /\ fresh' \in {fresh, [fresh EXCEPT ![m] = FALSE]}
        /\ Trace!Go(m, "failing") /\ UNCHANGED <<gone, record, rows, traceTime>>
    BY <1>4 DEF Trace!RollbackFails
  <2>2. /\ fresh' \in [Trace!Merges -> BOOLEAN]
        /\ \A o \in Trace!Merges : o # m => fresh'[o] = fresh[o]
    BY <1>2, <2>1 DEF Domains
  <2>3. ~record[m].undone /\ record[m].status # "done" BY <1>2, <2>1 DEF Progress
  <2> QED BY <1>1, <2>1, <2>2, <2>3, TraceJobMoves
<1> QED BY <1>3, <1>4

LEMMA RollbackStep ==
  ASSUME TraceInv, NEW m \in Trace!Merges, Trace!Rollback(m)
  PROVE  TraceInv'
<1> DEFINE undone == [record[m] EXCEPT !.undone = TRUE]
<1>1. /\ job[m].at = "rollback" /\ Trace!Go(m, "failing") /\ "failing" \in Trace!Places
      /\ fresh' = [fresh EXCEPT ![m] = FALSE] /\ UNCHANGED <<gone, rows, traceTime>>
      /\ record' = [record EXCEPT ![m] = undone] \/ UNCHANGED record
  BY DEF Trace!Rollback, Trace!Note, Trace!Places
<1>2. Domains /\ Typed(m) /\ Progress(m) /\ Honest(m) /\ Counted(m) BY MergeBefore
<1>3. /\ undone \in Trace!RecordType /\ undone.counted = record[m].counted
      /\ undone.status = record[m].status /\ undone.finished = record[m].finished
  BY <1>2 DEF Typed, Trace!RecordType
<1> HIDE DEF undone
<1>4. PICK new \in Trace!RecordType :
        /\ record' = [record EXCEPT ![m] = new] /\ new.counted <= Cardinality(gone[m])
        /\ new.status = record[m].status /\ new.finished = record[m].finished
  BY <1>1, <1>2, <1>3, SameRecord DEF Counted
<1>5. /\ record'[m] = new /\ fresh' \in [Trace!Merges -> BOOLEAN] /\ ~fresh'[m]
      /\ \A o \in Trace!Merges : o # m => fresh'[o] = fresh[o]
  BY <1>1, <1>2, <1>4 DEF Domains
<1>6. job'[m].at = "failing" BY <1>1, JobGoes
<1>7. record[m].finished = 0 /\ record[m].status \in {"none", "started"}
  BY <1>1, <1>2 DEF Progress
<1>8. Progress(m)' BY <1>4, <1>5, <1>6, <1>7 DEF Progress, Deleting
<1>9. Honest(m)' BY <1>1, <1>2, <1>4, <1>5, <1>6, <1>7 DEF Honest
<1> QED BY <1>1, <1>4, <1>5, <1>8, <1>9, NoteStep

LEMMA FinishTraceStep ==
  ASSUME TraceInv, NEW m \in Trace!Merges, Trace!Finish(m)
  PROVE  TraceInv'
<1> DEFINE status == IF job[m].at = "finishing" THEN "done" ELSE "error"
           done == [record[m] EXCEPT !.finished = traceTime, !.status = status]
<1>1. /\ job[m].at \in {"finishing", "failing"} /\ Trace!Go(m, "ended") /\ "ended" \in Trace!Places
      /\ UNCHANGED <<gone, fresh, rows, traceTime>>
      /\ record' = [record EXCEPT ![m] = done] \/ UNCHANGED record
  BY DEF Trace!Finish, Trace!Note, Trace!Places
<1>2. Domains /\ Typed(m) /\ Progress(m) /\ Honest(m) /\ Counted(m) BY MergeBefore
<1>3. /\ done \in Trace!RecordType /\ done.counted = record[m].counted
      /\ done.status = status /\ done.undone = record[m].undone
  <2>1. traceTime \in 0..MaxTraceTime BY TraceNumbers
  <2> QED BY <1>2, <2>1 DEF Typed, Trace!RecordType
<1> HIDE DEF done
<1>4. PICK new \in Trace!RecordType :
        /\ record' = [record EXCEPT ![m] = new] /\ new.counted <= Cardinality(gone[m])
        /\ new.undone = record[m].undone
        /\ new.status \in {status, record[m].status}
  BY <1>1, <1>2, <1>3, SameRecord DEF Counted
<1>5. record'[m] = new /\ fresh' \in [Trace!Merges -> BOOLEAN]
  BY <1>1, <1>2, <1>4 DEF Domains
<1>6. job'[m].at = "ended" BY <1>1, JobGoes
<1>7. /\ record[m].status \in {"none", "started"}
      /\ status = "done" => gone[m] = CardsOf[m] /\ fresh[m]
      /\ status \in {"done", "error"}
  BY <1>1, <1>2 DEF Progress
<1> HIDE DEF status
<1>8. Progress(m)' BY <1>6 DEF Progress, Deleting
<1>9. Honest(m)' BY <1>1, <1>2, <1>4, <1>5, <1>6, <1>7 DEF Honest
<1> QED BY <1>1, <1>4, <1>5, <1>8, <1>9, NoteStep

LEMMA TraceCrash ==
  ASSUME TraceInv, Trace!Crash
  PROVE  TraceInv'
<1>1. /\ job' = [m \in Trace!Merges |-> IF job[m].at = "queued" THEN job[m]
                                       ELSE [job[m] EXCEPT !.at = "ended"]]
      /\ UNCHANGED <<gone, fresh, record, rows, traceTime>>
  BY DEF Trace!Crash
<1>2. Domains' BY <1>1 DEF TraceInv, Domains
<1>3. ASSUME NEW m \in Trace!Merges PROVE Traced(m)'
  <2> DEFINE ended == [job[m] EXCEPT !.at = "ended"]
  <2>1. Typed(m) /\ Progress(m) /\ Honest(m) /\ Counted(m) BY MergeBefore
  <2>2. job'[m] = job[m] \/ job'[m] = ended BY <1>1
  <2>3. CASE job'[m] = job[m]
    <3>1. Untouched(m) BY <1>1, <2>3 DEF Untouched
    <3> QED BY <1>1, <3>1, UntouchedStaysTraced DEF TraceInv
  <2>4. CASE job'[m] = ended
    <3>1. ended \in Trace!JobType(m) /\ ended.at = "ended" /\ ended.deleted = job[m].deleted
      BY <2>1 DEF Typed, Trace!JobType, Trace!Places
    <3> HIDE DEF ended
    <3>2. Typed(m)' BY <1>1, <2>1, <2>4, <3>1 DEF Typed
    <3>3. Progress(m)' BY <2>4, <3>1 DEF Progress, Deleting
    <3>4. Honest(m)' BY <1>1, <2>1, <2>4, <3>1 DEF Honest
    <3>5. Counted(m)' BY <1>1, <2>1, <2>4, <3>1 DEF Counted
    <3> QED BY <3>2, <3>3, <3>4, <3>5 DEF Traced
  <2> QED BY <2>2, <2>3, <2>4
<1> QED BY <1>2, <1>3 DEF TraceInv

LEMMA TraceStep ==
  ASSUME TraceInv, [Trace!Next]_(Trace!vars)
  PROVE  TraceInv'
<1>1. CASE Trace!Tick
  <2>1. /\ traceTime < MaxTraceTime /\ traceTime' = traceTime + 1
        /\ UNCHANGED <<gone, fresh, record, rows, job>>
    BY <1>1 DEF Trace!Tick
  <2>2. traceTime \in 1..MaxTraceTime /\ Retention \in Nat /\ MaxTraceTime \in Nat
    BY TraceAssumption DEF TraceInv, Domains
  <2>3. /\ traceTime' \in 1..MaxTraceTime
        /\ traceTime > Retention => traceTime' > Retention
    BY <2>1, <2>2
  <2>4. Domains' BY <2>1, <2>3 DEF TraceInv, Domains
  <2>5. \A m \in Trace!Merges : Untouched(m) BY <2>1 DEF Untouched
  <2> QED BY <2>3, <2>4, <2>5, UntouchedStaysTraced DEF TraceInv
<1>2. CASE UNCHANGED Trace!vars
  <2>1. UNCHANGED <<gone, fresh, record, rows, job, traceTime>> BY <1>2 DEF Trace!vars
  <2>2. \A m \in Trace!Merges : Untouched(m) BY <2>1 DEF Untouched
  <2>3. Domains' BY <2>1 DEF TraceInv, Domains
  <2> QED BY <2>1, <2>2, <2>3, UntouchedStaysTraced DEF TraceInv
<1> QED
  BY <1>1, <1>2, TraceStarts, MakeRecordStep, VerifyStep, CreateStep, RenameStep, DeleteStep,
     CountStep, MarkRowStep, EndDeleteStep, RollbackStep, FinishTraceStep, TraceCrash
     DEF Trace!Next

\* The instance counts with the operator of FiniteSets, and so do the lemmas above.
LEMMA SameSize == \A S : Trace!Cardinality(S) = Cardinality(S)
BY DEF Trace!Cardinality, Cardinality

LEMMA TraceHolds ==
  ASSUME TraceInv
  PROVE  TraceIsSound
<1>1. \A m \in Trace!Merges : Honest(m) /\ Counted(m) BY DEF TraceInv, Traced
<1>2. Trace!DeletedIsTraced /\ Trace!OnlyOldPruned
  BY <1>1 DEF Honest, Trace!DeletedIsTraced, Trace!OnlyOldPruned
<1>3. Trace!TraceTellsTruth
  <2>1. ASSUME NEW m \in Trace!Merges
        PROVE  /\ \A c \in CardsOf[m] : rows[m][c] = "yes" => c \in gone[m]
               /\ record[m].status = "done" => gone[m] = CardsOf[m] /\ fresh[m]
               /\ record[m].undone => ~fresh[m]
    BY <1>1 DEF Honest
  <2>2. \A m \in Trace!Merges : record[m].counted <= Cardinality(gone[m])
    BY <1>1 DEF Counted
  <2> QED BY <2>1, <2>2, SameSize DEF Trace!TraceTellsTruth
<1> QED BY <1>2, <1>3 DEF TraceIsSound, Trace!TraceIsSound

\* Whatever write, call or process fails: a card that a merge deleted is in the record of that
\* merge until its retention is over, a record is thrown away only after its merge, and it
\* never tells of a deletion, a count, an end or a rollback that did not happen
\* (trace_write.go, merge.go): for any merges, of any cards.
THEOREM RecordsAreTrue == Trace!Spec => []TraceIsSound
BY TraceInit, TraceStep, TraceHolds, PTL DEF Trace!Spec

(***************************************************************************)
(* The parts together                                                      *)
(***************************************************************************)

SiteInv ==
  /\ SearchInv
  /\ TraceInv
  /\ StatusInv
  /\ ManualInv
  /\ ConfigInv

LEMMA SiteInit == PartsInit => SiteInv
BY SearchInit, TraceInit, StatusInit, ManualInit, ConfigInit DEF PartsInit, SiteInv

\* A step of one part leaves the variables of the others alone.
LEMMA SiteStep ==
  ASSUME SiteInv, [PartsNext]_allVars
  PROVE  SiteInv'
<1>1. [Batch!Next]_(Batch!vars)
  BY DEF PartsNext, allVars, searchVars, Batch!vars
<1>2. [Trace!Next]_(Trace!vars)
  BY DEF PartsNext, allVars, traceVars, Trace!vars
<1>3. [Status!Next]_(Status!vars)
  BY DEF PartsNext, allVars, statusVars, Status!vars
<1>4. [Manual!Next]_(Manual!vars)
  BY DEF PartsNext, allVars, manualVars, Manual!vars
<1>5. [Site!Next]_(Site!vars)
  BY DEF PartsNext, allVars, siteVars, Site!vars
<1> QED
  BY <1>1, <1>2, <1>3, <1>4, <1>5, SearchStep, TraceStep, StatusStep, ManualStep, ConfigStep
     DEF SiteInv

\* What the runs of the site check of its parts holds of the parts together: no part disturbs
\* what another keeps.
THEOREM SiteIsSound ==
  PartsSpec => [](SearchIsHonest /\ TraceIsSound /\ StatusIsSound /\ DoubleTestNeedsRace
                    /\ ConfigIsSound)
<1>1. SiteInv => SearchIsHonest /\ TraceIsSound /\ StatusIsSound /\ DoubleTestNeedsRace
                    /\ ConfigIsSound
  BY TraceHolds, ManualHolds DEF SiteInv, SearchInv, StatusInv, ConfigInv
<1>2. QED BY SiteInit, SiteStep, <1>1, PTL DEF PartsSpec

(***************************************************************************)
(* TokenQuota, for any rows, prizes, retries and faults                    *)
(***************************************************************************)

\* The row that is worked on is pending until the write, and what was read of the token is
\* not less than what is left of it: only the worker adds to it.
WorkerKnows ==
  /\ worker.at # "off" => worker.row \in RowIds
  /\ worker.at \in {"search", "put"} => Pending(worker.row)
  /\ worker.at = "put" => token.remain <= worker.read
  /\ worker.at = "mark" => paid[worker.row] >= 1

\* A row is paid once for each doubt, and once more if it is done or about to be marked.
Accounted(i) == row[i].status = "done" \/ (worker.at = "mark" /\ worker.row = i)
PaidKnown ==
  /\ \A i \in RowIds : paid[i] <= doubts + (IF Accounted(i) THEN 1 ELSE 0)
  /\ doubts <= faults

QuotaInv == TypeOK /\ WorkerKnows /\ PaidKnown /\ NothingTaken

LEMMA PrizesAreNumbers == \A i \in RowIds : Prizes[i] \in Nat /\ i \in Nat
BY QuotaAssumption DEF RowIds

LEMMA QuotaInit == Init => QuotaInv
BY QuotaAssumption, PrizesAreNumbers
DEF Init, Off, QuotaInv, TypeOK, WorkerKnows, PaidKnown, NothingTaken, Accounted

LEMMA TakeStep ==
  ASSUME QuotaInv, Take PROVE QuotaInv'
<1> USE DEF QuotaInv
<1>1. PICK i \in RowIds : Pending(i) /\ worker' = [at |-> "search", row |-> i, read |-> 0]
  BY DEF Take
<1>2. worker.at = "off" /\ UNCHANGED <<token, row, paid, added, faults, doubts>>
  BY DEF Take, History
<1>3. TypeOK' BY <1>1, <1>2 DEF TypeOK
<1>4. WorkerKnows' BY <1>1, <1>2 DEF WorkerKnows, Pending
<1>5. PaidKnown' BY <1>1, <1>2 DEF PaidKnown, Accounted
<1>6. NothingTaken' BY <1>2 DEF NothingTaken
<1> QED BY <1>3, <1>4, <1>5, <1>6

LEMMA QuotaSearchStep ==
  ASSUME QuotaInv, Search PROVE QuotaInv'
<1> USE DEF QuotaInv
<1>1. /\ worker.at = "search" /\ worker' = [worker EXCEPT !.at = "put", !.read = token.remain]
      /\ UNCHANGED <<token, row, paid, added, faults, doubts>>
  BY DEF Search, History
<1>2. TypeOK' BY <1>1 DEF TypeOK
<1>3. WorkerKnows' BY <1>1 DEF WorkerKnows, Pending, TypeOK
<1>4. PaidKnown' BY <1>1 DEF PaidKnown, Accounted, TypeOK
<1>5. NothingTaken' BY <1>1 DEF NothingTaken
<1> QED BY <1>2, <1>3, <1>4, <1>5

\* What giving up an attempt does to its row.
LEMMA FailedRow ==
  ASSUME QuotaInv, worker.at \in {"search", "put"}, row' = Failed(worker.row)
  PROVE  /\ row' \in [RowIds -> [status : {"pending", "done", "failed"}, retries : 0..MaxRetries]]
         /\ \A i \in RowIds : row'[i].status = "done" <=> row[i].status = "done"
<1> DEFINE r == worker.row
<1>1. r \in RowIds /\ row[r].status = "pending" /\ row[r].retries < MaxRetries
  BY DEF QuotaInv, WorkerKnows, Pending
<1>2. row \in [RowIds -> [status : {"pending", "done", "failed"}, retries : 0..MaxRetries]]
  BY DEF QuotaInv, TypeOK
<1>3. row[r].retries + 1 \in 0..MaxRetries BY <1>1, <1>2, QuotaAssumption
<1> QED BY <1>1, <1>2, <1>3 DEF Failed

LEMMA GiveUpStep ==
  ASSUME QuotaInv, SearchFails \/ PutFails PROVE QuotaInv'
<1> USE DEF QuotaInv
<1>1. /\ worker.at \in {"search", "put"} /\ row' = Failed(worker.row) /\ worker' = Off
      /\ UNCHANGED <<token, paid, added, doubts>>
      /\ faults' = faults \/ (faults < MaxFaults /\ faults' = faults + 1)
  BY DEF SearchFails, PutFails, History, Fault
<1>2. faults \in 0..MaxFaults /\ doubts \in 0..MaxFaults /\ faults' \in 0..MaxFaults /\ faults' >= faults
  BY <1>1, QuotaAssumption DEF TypeOK
<1>3. TypeOK' BY <1>1, <1>2, FailedRow DEF TypeOK, Off
<1>4. WorkerKnows' BY <1>1 DEF WorkerKnows, Off
<1>5. PaidKnown'
  <2>1. \A i \in RowIds : Accounted(i)' <=> Accounted(i)
    BY <1>1, FailedRow DEF Accounted, Off
  <2> QED BY <1>1, <1>2, <2>1 DEF PaidKnown
<1>6. NothingTaken' BY <1>1, FailedRow DEF NothingTaken
<1> QED BY <1>3, <1>4, <1>5, <1>6

\* What the write does, whether or not it is answered.
LEMMA WrittenStep ==
  ASSUME QuotaInv, Written
  PROVE  /\ worker.row \in RowIds /\ worker.at = "put" /\ row[worker.row].status = "pending"
         /\ token' \in [remain : Nat, spent : Nat, deleted : BOOLEAN]
         /\ paid' \in [RowIds -> Nat] /\ added' \in Nat
         /\ paid' = [paid EXCEPT ![worker.row] = @ + 1]
         /\ token'.remain + token'.spent >= InitialQuota + added'
<1> DEFINE p == Prizes[worker.row]
<1>1. /\ worker.row \in RowIds /\ worker.at = "put" /\ row[worker.row].status = "pending"
      /\ worker.read \in Nat /\ token.remain <= worker.read
  BY DEF Written, QuotaInv, WorkerKnows, Pending, TypeOK
<1>2. p \in Nat BY <1>1, PrizesAreNumbers
<1>3. /\ token' = [token EXCEPT !.remain = worker.read + p] /\ added' = added + p
      /\ paid' = [paid EXCEPT ![worker.row] = @ + 1]
  BY DEF Written, Sum
<1>4. /\ token \in [remain : Nat, spent : Nat, deleted : BOOLEAN] /\ added \in Nat
      /\ paid \in [RowIds -> Nat] /\ token.remain + token.spent >= InitialQuota + added
  BY DEF QuotaInv, TypeOK, NothingTaken
<1>5. token'.remain = worker.read + p /\ token'.spent = token.spent /\ token'.deleted = token.deleted
  BY <1>3, <1>4
<1>6. token' \in [remain : Nat, spent : Nat, deleted : BOOLEAN]
  <2>1. worker.read + p \in Nat BY <1>1, <1>2
  <2>2. token' = [remain |-> worker.read + p, spent |-> token.spent, deleted |-> token.deleted]
    BY <1>3, <1>4
  <2> QED BY <1>4, <2>1, <2>2
<1>7. token'.remain + token'.spent >= InitialQuota + added'
  <2>1. InitialQuota \in Nat /\ token.remain \in Nat /\ token.spent \in Nat /\ added \in Nat
        /\ token.remain + token.spent >= InitialQuota + added
    BY <1>4, QuotaAssumption
  <2>2. worker.read + p + token.spent >= InitialQuota + (added + p)
    BY <1>1, <1>2, <2>1
  <2> QED BY <1>3, <1>5, <2>2
<1> QED
  <2>1. added' \in Nat BY <1>2, <1>3, <1>4
  <2>2. paid' \in [RowIds -> Nat] BY <1>1, <1>3, <1>4
  <2> QED BY <1>1, <1>3, <1>6, <1>7, <2>1, <2>2

LEMMA PutStep ==
  ASSUME QuotaInv, Put PROVE QuotaInv'
<1> USE DEF QuotaInv
<1> DEFINE r == worker.row
<1>1. Written /\ worker' = [worker EXCEPT !.at = "mark"] /\ UNCHANGED <<row, faults, doubts>>
  BY DEF Put
<1>2. /\ r \in RowIds /\ worker.at = "put" /\ row[r].status = "pending"
      /\ paid' \in [RowIds -> Nat] /\ paid' = [paid EXCEPT ![r] = @ + 1]
  BY <1>1, WrittenStep
<1>3. worker'.at = "mark" /\ worker'.row = r BY <1>1 DEF TypeOK
<1>4. TypeOK' BY <1>1, WrittenStep DEF TypeOK
<1>5. WorkerKnows' BY <1>2, <1>3 DEF WorkerKnows, TypeOK
<1>6. PaidKnown'
  <2>1. ASSUME NEW i \in RowIds PROVE paid'[i] <= doubts' + (IF Accounted(i)' THEN 1 ELSE 0)
    <3>1. Accounted(i)' <=> row[i].status = "done" \/ i = r BY <1>1, <1>3 DEF Accounted
    <3>2. Accounted(i) <=> row[i].status = "done" BY <1>2 DEF Accounted
    <3>3. paid'[i] = IF i = r THEN paid[i] + 1 ELSE paid[i] BY <1>2 DEF TypeOK
    <3> QED BY <1>1, <1>2, <3>1, <3>2, <3>3 DEF PaidKnown, TypeOK
  <2> QED BY <1>1, <2>1 DEF PaidKnown
<1>7. NothingTaken'
  <2>1. \A i \in RowIds : row'[i].status = "done" => paid'[i] >= 1
    BY <1>1, <1>2 DEF NothingTaken, TypeOK
  <2> QED BY <1>1, <2>1, WrittenStep DEF NothingTaken
<1> QED BY <1>4, <1>5, <1>6, <1>7

LEMMA PutLostStep ==
  ASSUME QuotaInv, PutLost PROVE QuotaInv'
<1> USE DEF QuotaInv
<1> DEFINE r == worker.row
<1>1. /\ Written /\ faults < MaxFaults /\ faults' = faults + 1 /\ doubts' = doubts + 1
      /\ row' = Failed(r) /\ worker' = Off
  BY DEF PutLost, Fault
<1>2. /\ r \in RowIds /\ worker.at = "put" /\ row[r].status = "pending"
      /\ paid' \in [RowIds -> Nat] /\ paid' = [paid EXCEPT ![r] = @ + 1]
  BY <1>1, WrittenStep
<1>3. faults \in 0..MaxFaults /\ doubts \in 0..MaxFaults /\ doubts <= faults
      /\ faults' \in 0..MaxFaults /\ doubts' \in 0..MaxFaults /\ doubts' <= faults'
  BY <1>1, QuotaAssumption DEF TypeOK, PaidKnown
<1>4. TypeOK' BY <1>1, <1>2, <1>3, FailedRow, WrittenStep DEF TypeOK, Off
<1>5. WorkerKnows' BY <1>1 DEF WorkerKnows, Off
<1>6. \A i \in RowIds : row'[i].status = "done" <=> row[i].status = "done"
  BY <1>1, <1>2, FailedRow
<1>7. PaidKnown'
  <2>1. ASSUME NEW i \in RowIds PROVE paid'[i] <= doubts' + (IF Accounted(i)' THEN 1 ELSE 0)
    <3>1. Accounted(i)' <=> Accounted(i) BY <1>1, <1>2, <1>6 DEF Accounted, Off
    <3>2. paid'[i] <= paid[i] + 1 BY <1>2 DEF TypeOK
    <3> QED BY <1>1, <1>2, <1>3, <3>1, <3>2 DEF PaidKnown, TypeOK
  <2> QED BY <1>3, <2>1 DEF PaidKnown
<1>8. NothingTaken'
  <2>1. \A i \in RowIds : paid'[i] >= paid[i] BY <1>2 DEF TypeOK
  <2>2. \A i \in RowIds : row'[i].status = "done" => paid'[i] >= 1
    BY <1>2, <1>6, <2>1 DEF NothingTaken, TypeOK
  <2> QED BY <1>1, <2>2, WrittenStep DEF NothingTaken
<1> QED BY <1>4, <1>5, <1>7, <1>8

LEMMA MarkStep ==
  ASSUME QuotaInv, Mark PROVE QuotaInv'
<1> USE DEF QuotaInv
<1> DEFINE r == worker.row
<1>1. /\ worker.at = "mark" /\ worker' = Off /\ UNCHANGED <<token, paid, added>>
      /\ \/ row' = [row EXCEPT ![r].status = "done"] /\ UNCHANGED <<faults, doubts>>
         \/ Fault /\ doubts' = doubts + 1 /\ UNCHANGED row
  BY DEF Mark, History
<1>2. r \in RowIds /\ paid[r] >= 1 BY <1>1 DEF WorkerKnows
<1>3. WorkerKnows' BY <1>1 DEF WorkerKnows, Off
<1>4. CASE row' = [row EXCEPT ![r].status = "done"] /\ UNCHANGED <<faults, doubts>>
  <2>1. TypeOK' BY <1>1, <1>2, <1>4 DEF TypeOK, Off
  <2>2. \A i \in RowIds : row'[i].status = "done" <=> (row[i].status = "done" \/ i = r)
    BY <1>2, <1>4 DEF TypeOK
  <2>3. \A i \in RowIds : Accounted(i)' <=> Accounted(i)
    BY <1>1, <2>2 DEF Accounted, Off
  <2>4. PaidKnown' BY <1>1, <1>4, <2>3 DEF PaidKnown
  <2>5. NothingTaken' BY <1>1, <1>2, <2>2 DEF NothingTaken
  <2> QED BY <1>3, <2>1, <2>4, <2>5
<1>5. CASE Fault /\ doubts' = doubts + 1 /\ UNCHANGED row
  <2>1. faults \in 0..MaxFaults /\ doubts \in 0..MaxFaults /\ doubts <= faults
        /\ faults' = faults + 1 /\ faults' \in 0..MaxFaults /\ doubts' \in 0..MaxFaults
    BY <1>5, QuotaAssumption DEF TypeOK, PaidKnown, Fault
  <2>2. TypeOK' BY <1>1, <1>5, <2>1 DEF TypeOK, Off
  <2>3. PaidKnown' BY <1>1, <1>5, <2>1 DEF PaidKnown, Accounted, Off, TypeOK
  <2>4. NothingTaken' BY <1>1, <1>5 DEF NothingTaken
  <2> QED BY <1>3, <2>2, <2>3, <2>4
<1> QED BY <1>1, <1>4, <1>5

LEMMA QuotaCrashStep ==
  ASSUME QuotaInv, Crash PROVE QuotaInv'
<1> USE DEF QuotaInv
<1>1. /\ worker' = Off /\ UNCHANGED <<token, row, paid, added>>
      /\ faults < MaxFaults /\ faults' = faults + 1
      /\ doubts' = IF worker.at = "mark" THEN doubts + 1 ELSE doubts
  BY DEF Crash, Fault, History
<1>2. faults \in 0..MaxFaults /\ doubts \in 0..MaxFaults /\ doubts <= faults
      /\ faults' \in 0..MaxFaults /\ doubts' \in 0..MaxFaults /\ doubts' <= faults'
  BY <1>1, QuotaAssumption DEF TypeOK, PaidKnown
<1>3. TypeOK' BY <1>1, <1>2 DEF TypeOK, Off
<1>4. WorkerKnows' BY <1>1 DEF WorkerKnows, Off
<1>5. PaidKnown' BY <1>1, <1>2 DEF PaidKnown, Accounted, Off, TypeOK
<1>6. NothingTaken' BY <1>1 DEF NothingTaken
<1> QED BY <1>3, <1>4, <1>5, <1>6

\* The customer spends from the token, or it is deleted.
LEMMA OwnerStep ==
  ASSUME QuotaInv, Spend \/ Delete PROVE QuotaInv'
<1> USE DEF QuotaInv
<1>1. UNCHANGED <<row, worker, paid, added, faults, doubts>> BY DEF Spend, Delete, History
<1>2. /\ token' \in [remain : Nat, spent : Nat, deleted : BOOLEAN]
      /\ token'.remain <= token.remain
      /\ token'.remain + token'.spent = token.remain + token.spent
  <2>1. token \in [remain : Nat, spent : Nat, deleted : BOOLEAN] BY DEF TypeOK
  <2>2. CASE Spend
    <3>1. token.remain > 0 /\ token.remain - 1 \in Nat /\ token.spent + 1 \in Nat
      BY <2>1, <2>2 DEF Spend
    <3>2. token' = [token EXCEPT !.remain = token.remain - 1, !.spent = token.spent + 1]
      BY <2>2 DEF Spend
    <3>3. token'.remain = token.remain - 1 /\ token'.spent = token.spent + 1
      BY <2>1, <3>2
    <3>4. token' \in [remain : Nat, spent : Nat, deleted : BOOLEAN] BY <2>1, <3>1, <3>2
    <3> QED BY <2>1, <3>1, <3>3, <3>4
  <2>3. CASE Delete
    <3>1. token' = [remain |-> token.remain, spent |-> token.spent, deleted |-> TRUE]
      BY <2>1, <2>3 DEF Delete
    <3> QED BY <2>1, <3>1
  <2> QED BY <2>2, <2>3
<1>3. TypeOK' BY <1>1, <1>2 DEF TypeOK
<1>4. WorkerKnows' BY <1>1, <1>2 DEF WorkerKnows, Pending, TypeOK
<1>5. PaidKnown' BY <1>1 DEF PaidKnown, Accounted
<1>6. NothingTaken' BY <1>1, <1>2 DEF NothingTaken
<1> QED BY <1>3, <1>4, <1>5, <1>6

LEMMA QuotaStep == QuotaInv /\ [Next]_vars => QuotaInv'
<1> SUFFICES ASSUME QuotaInv, [Next]_vars PROVE QuotaInv' OBVIOUS
<1>1. CASE Take BY <1>1, TakeStep
<1>2. CASE Search BY <1>2, QuotaSearchStep
<1>3. CASE SearchFails \/ PutFails BY <1>3, GiveUpStep
<1>4. CASE Put BY <1>4, PutStep
<1>5. CASE PutLost BY <1>5, PutLostStep
<1>6. CASE Mark BY <1>6, MarkStep
<1>7. CASE Crash BY <1>7, QuotaCrashStep
<1>8. CASE Spend \/ Delete BY <1>8, OwnerStep
<1>9. CASE UNCHANGED vars
  BY <1>9 DEF vars, History, QuotaInv, TypeOK, WorkerKnows, Pending, PaidKnown, Accounted, NothingTaken
<1> QED BY <1>1, <1>2, <1>3, <1>4, <1>5, <1>6, <1>7, <1>8, <1>9 DEF Next, Work

LEMMA InvIsSafe == QuotaInv => QuotaIsSafe
<1> SUFFICES ASSUME QuotaInv PROVE QuotaIsSafe OBVIOUS
<1>1. ASSUME NEW i \in RowIds PROVE paid[i] <= 1 + doubts
  BY DEF QuotaInv, PaidKnown, TypeOK
<1> QED BY <1>1 DEF QuotaInv, QuotaIsSafe, PaidTwiceNeedsDoubt

\* The invariant of the payment of a token card, its types included.
THEOREM QuotaSafe == Spec => []QuotaInv
<1>1. Init => QuotaInv BY QuotaInit
<1>2. QuotaInv /\ [Next]_vars => QuotaInv' BY QuotaStep
<1> QED BY <1>1, <1>2, PTL DEF Spec

\* Paying a token card adds each prize once, and once more at most for each time its
\* payment was hidden from the worker; it never takes quota from the token (AddQuota).
THEOREM PaymentTakesNothing == Spec => []QuotaIsSafe
BY QuotaSafe, InvIsSafe, PTL
=============================================================================
