---------------------------- MODULE AccessProofs ----------------------------
(***************************************************************************)
(* Theorems about what requests wait for: the lock of a card, for any      *)
(* finite number of requests, and the shop's session, for any requests,    *)
(* accounts and bounds.                                                    *)
(***************************************************************************)
EXTENDS AccessParts, FiniteSetTheorems, TLAPS

(***************************************************************************)
(* CardLock                                                                *)
(***************************************************************************)

LEMMA UsersFinite == \A e : IsFiniteSet(Users(e))
BY ThreadsAssumption, FS_Subset DEF Users

LEMMA LockInit == Init => TypeOK /\ LockInv
BY NoneAssumption DEF Init, TypeOK, LockInv

LEMMA AcquireStep ==
  ASSUME TypeOK, LockInv, NEW t \in Threads, NEW k \in Keys, NEW e \in Entries,
         Acquire(t, k, e)
  PROVE  TypeOK' /\ LockInv'
<1>1. TypeOK' BY DEF Acquire, TypeOK, Counted
<1>2. /\ at[t] = "idle" /\ entry[t] = None /\ e # None
      /\ locks' = [locks EXCEPT ![k] = e] /\ entry' = [entry EXCEPT ![t] = e]
      /\ at' = [at EXCEPT ![t] = "waiting"] /\ key' = [key EXCEPT ![t] = k]
      /\ \A d \in Entries : d # e => refs'[d] = refs[d] /\ locked'[d] = locked[d]
      /\ locks[k] # None => locks[k] = e /\ refs'[e] = refs[e] + 1 /\ locked' = locked
      /\ locks[k] = None => Unused(e) /\ refs'[e] = 1
  BY NoneAssumption DEF Acquire, Counted, EntryFor, TypeOK, LockInv
<1>3. Users(e)' = Users(e) \cup {t} /\ t \notin Users(e)
  BY <1>2 DEF Users, TypeOK
<1>4. \A d \in Entries : d # e => Users(d)' = Users(d)
  BY <1>2, NoneAssumption DEF Users, TypeOK
<1>5. \A s \in Threads : at[s] # "idle" => entry[s] # None /\ entry[s] \in Entries
  BY DEF TypeOK, LockInv
<1>6. \A m \in Keys : m # k => locks[m] # e
  BY <1>2 DEF Unused, LockInv
<1>7. \A s \in Threads : at[s] # "idle" /\ key[s] = k => entry[s] = e
  BY <1>2, <1>5 DEF LockInv, Unused
<1>8. \A s \in Threads : at'[s] = "idle" <=> entry'[s] = None
  BY <1>2 DEF TypeOK, LockInv
<1>9. \A s \in Threads : at'[s] # "idle" => locks'[key'[s]] = entry'[s]
  BY <1>2, <1>7 DEF TypeOK, LockInv
<1>10. \A l, m \in Keys : locks'[l] # None /\ locks'[l] = locks'[m] => l = m
  BY <1>2, <1>6 DEF TypeOK, LockInv
<1>11. ASSUME NEW m \in Keys, NEW d \in Entries, locks'[m] = d
       PROVE  refs'[d] = Cardinality(Users(d)') /\ Users(d)' # {}
  <2>1. CASE m = k
    <3>1. d = e BY <1>2, <1>11, <2>1 DEF TypeOK
    <3> SUFFICES refs'[e] = Cardinality(Users(e)') /\ Users(e)' # {}
      BY <3>1 DEF Users
    <3>2. Cardinality(Users(e) \cup {t}) = Cardinality(Users(e)) + 1
      BY <1>3, UsersFinite, FS_AddElement
    <3>3. CASE locks[k] # None
      <4>1. locks[k] = e /\ refs[e] = Cardinality(Users(e))
        BY <1>2, <3>3 DEF LockInv
      <4> QED BY <1>2, <1>3, <3>2, <3>3, <4>1
    <3>4. CASE locks[k] = None
      <4>1. Cardinality(Users(e)) = 0 BY <1>2, <3>4, FS_EmptySet DEF Unused
      <4> QED BY <1>2, <1>3, <3>2, <3>4, <4>1
    <3> QED BY <3>3, <3>4
  <2>2. CASE m # k
    <3>1. locks[m] = d /\ d # e
      BY <1>2, <1>6, <1>11, <2>2 DEF TypeOK
    <3> QED BY <1>2, <1>4, <3>1 DEF LockInv
  <2> QED BY <2>1, <2>2
<1>12. \A s \in Threads : at'[s] = "inside" => locked'[entry'[s]]
  <2> SUFFICES ASSUME NEW s \in Threads, at'[s] = "inside" PROVE locked'[entry'[s]]
    OBVIOUS
  <2>1. s # t /\ at[s] = "inside" /\ entry'[s] = entry[s] /\ locked[entry[s]]
    BY <1>2 DEF TypeOK, LockInv
  <2>2. locks[k] = None => entry[s] # e BY <1>2, <2>1 DEF Unused, Users
  <2> QED BY <1>2, <1>5, <2>1, <2>2
<1>13. \A s, u \in Threads :
         at'[s] = "inside" /\ at'[u] = "inside" /\ entry'[s] = entry'[u] => s = u
  BY <1>2 DEF TypeOK, LockInv
<1> QED
  BY <1>1, <1>8, <1>9, <1>10, <1>11, <1>12, <1>13 DEF LockInv

LEMMA EnterStep ==
  ASSUME TypeOK, LockInv, NEW t \in Threads, Enter(t)
  PROVE  TypeOK' /\ LockInv'
<1>1. entry[t] \in Entries BY DEF Enter, TypeOK, LockInv
<1>2. TypeOK' BY DEF Enter, TypeOK
<1>3. \A e : Users(e)' = Users(e) BY DEF Enter, Users
<1>4. \A s \in Threads : at[s] = "inside" => entry[s] # entry[t] BY DEF Enter, LockInv
<1>5. \A s \in Threads : at'[s] = "inside" => locked'[entry'[s]]
  BY <1>1, <1>4 DEF Enter, TypeOK, LockInv
<1>6. \A s, u \in Threads :
        at'[s] = "inside" /\ at'[u] = "inside" /\ entry'[s] = entry'[u] => s = u
  BY <1>4 DEF Enter, TypeOK, LockInv
<1>7. /\ \A s \in Threads : at'[s] = "idle" <=> at[s] = "idle"
      /\ UNCHANGED <<locks, refs, key, entry>>
  BY DEF Enter, TypeOK
<1> QED BY <1>2, <1>3, <1>5, <1>6, <1>7 DEF LockInv

LEMMA UnlockStep ==
  ASSUME TypeOK, LockInv, NEW t \in Threads, Unlock(t)
  PROVE  TypeOK' /\ LockInv'
<1>1. TypeOK' BY DEF Unlock, Free, TypeOK
<1>2. \A e : Users(e)' = Users(e) BY DEF Unlock, Users
<1>3. \A s \in Threads : at'[s] = "inside" => s # t /\ at[s] = "inside"
  BY DEF Unlock, TypeOK
<1>4. \A s \in Threads : at'[s] = "inside" => locked'[entry'[s]]
  BY <1>3 DEF Unlock, Free, TypeOK, LockInv
<1>5. /\ \A s \in Threads : at'[s] = "idle" <=> at[s] = "idle"
      /\ UNCHANGED <<locks, refs, key, entry>>
  BY DEF Unlock, TypeOK
<1> QED BY <1>1, <1>2, <1>3, <1>4, <1>5 DEF LockInv

LEMMA DropStep ==
  ASSUME TypeOK, LockInv, NEW t \in Threads, Drop(t)
  PROVE  TypeOK' /\ LockInv'
<1> SUFFICES ASSUME NEW e \in Entries, e = entry[t], NEW k \in Keys, k = key[t]
             PROVE  TypeOK' /\ LockInv'
  BY DEF Drop, TypeOK, LockInv
<1>1. at[t] = "leaving" /\ locks[k] = e /\ e # None /\ t \in Users(e)
  BY NoneAssumption DEF Drop, LockInv, Users
<1>2. /\ refs[e] = Cardinality(Users(e)) /\ refs[e] \in Nat
      /\ refs' = [refs EXCEPT ![e] = @ - 1]
      /\ locks' = IF refs[e] = 1 THEN [locks EXCEPT ![k] = None] ELSE locks
      /\ at' = [at EXCEPT ![t] = "idle"] /\ entry' = [entry EXCEPT ![t] = None]
      /\ UNCHANGED <<locked, key>>
  BY <1>1 DEF Drop, Discards, TypeOK, LockInv
<1>3. Users(e)' = Users(e) \ {t} BY <1>1, <1>2 DEF Users, TypeOK
<1>4. /\ IsFiniteSet(Users(e)) /\ IsFiniteSet(Users(e) \ {t})
      /\ Cardinality(Users(e) \ {t}) = refs[e] - 1
  BY <1>1, <1>2, UsersFinite, FS_RemoveElement
<1>5. refs[e] >= 1 /\ (refs[e] = 1 <=> Users(e) \ {t} = {})
  <2>1. Cardinality(Users(e) \ {t}) \in Nat BY <1>4, FS_CardinalityType
  <2>2. Cardinality(Users(e) \ {t}) = 0 <=> Users(e) \ {t} = {}
    BY <1>4, FS_EmptySet
  <2> QED BY <1>2, <1>4, <2>1, <2>2
<1>7. TypeOK' BY <1>1, <1>2, <1>5 DEF TypeOK
<1>8. \A d \in Entries : d # e => Users(d)' = Users(d) /\ refs'[d] = refs[d]
  BY <1>2, NoneAssumption DEF Users, TypeOK
<1>9. \A s \in Threads : at'[s] = "idle" <=> entry'[s] = None
  BY <1>2 DEF TypeOK, LockInv
<1>10. ASSUME NEW s \in Threads, at'[s] # "idle"
       PROVE  locks'[key'[s]] = entry'[s]
  <2>1. s # t /\ at[s] # "idle" /\ entry'[s] = entry[s] /\ key'[s] = key[s]
    BY <1>2, <1>10 DEF TypeOK
  <2>2. locks[key[s]] = entry[s] BY <2>1 DEF LockInv
  <2>3. refs[e] = 1 => entry[s] # e BY <1>3, <1>5, <2>1 DEF Users
  <2> QED BY <1>1, <1>2, <2>1, <2>2, <2>3 DEF TypeOK
<1>11. \A l, m \in Keys : locks'[l] # None /\ locks'[l] = locks'[m] => l = m
  BY <1>2 DEF TypeOK, LockInv
<1>12. ASSUME NEW m \in Keys, NEW d \in Entries, locks'[m] = d
       PROVE  refs'[d] = Cardinality(Users(d)') /\ Users(d)' # {}
  <2>1. locks[m] = d BY <1>2, <1>12, NoneAssumption DEF TypeOK
  <2>2. CASE m = k
    <3>1. d = e /\ refs[e] # 1
      BY <1>1, <1>2, <1>12, <2>1, <2>2 DEF TypeOK
    <3>2. refs'[e] = refs[e] - 1 BY <1>2 DEF TypeOK
    <3> QED BY <1>3, <1>4, <1>5, <3>1, <3>2
  <2>3. CASE m # k
    <3>1. d # e BY <1>1, <2>1, <2>3 DEF LockInv
    <3> QED BY <1>8, <2>1, <3>1 DEF LockInv
  <2> QED BY <2>2, <2>3
<1>13. \A s \in Threads : at'[s] = "inside" =>
         at[s] = "inside" /\ entry'[s] = entry[s]
  BY <1>2 DEF TypeOK
<1> QED BY <1>2, <1>7, <1>9, <1>10, <1>11, <1>12, <1>13 DEF LockInv

LEMMA RegistryStep == TypeOK /\ LockInv /\ [Next]_vars => (TypeOK /\ LockInv)'
<1> SUFFICES ASSUME TypeOK, LockInv, [Next]_vars PROVE TypeOK' /\ LockInv' OBVIOUS
<1>1. CASE UNCHANGED vars
  <2>1. \A e : Users(e)' = Users(e) BY <1>1 DEF vars, Users
  <2>2. UNCHANGED <<locks, refs, locked, at, key, entry>> BY <1>1 DEF vars
  <2>3. TypeOK' BY <2>2 DEF TypeOK
  <2> QED BY <2>1, <2>2, <2>3 DEF LockInv
<1>2. CASE Next BY <1>2, AcquireStep, EnterStep, UnlockStep, DropStep DEF Next
<1> QED BY <1>1, <1>2

LEMMA LockHolds ==
  ASSUME TypeOK, LockInv
  PROVE  MutualExclusion /\ NoIdleEntry
<1>1. MutualExclusion
  <2> SUFFICES ASSUME NEW s \in Threads, NEW t \in Threads,
                      at[s] = "inside", at[t] = "inside", key[s] = key[t]
               PROVE  s = t
    BY DEF MutualExclusion
  <2>1. entry[s] = entry[t] BY DEF LockInv
  <2> QED BY <2>1 DEF LockInv
<1>2. NoIdleEntry
  <2> SUFFICES ASSUME NEW k \in Keys, locks[k] # None
               PROVE  \E t \in Threads : at[t] # "idle" /\ key[t] = k
    BY DEF NoIdleEntry
  <2>1. locks[k] \in Entries /\ Users(locks[k]) # {} BY DEF LockInv, TypeOK
  <2>2. PICK t \in Threads : entry[t] = locks[k] BY <2>1 DEF Users
  <2>3. at[t] # "idle" /\ locks[key[t]] = locks[k] BY <2>2 DEF LockInv
  <2> QED BY <2>3 DEF LockInv, TypeOK
<1> QED BY <1>1, <1>2

\* Every variable of the lock registry keeps its type.
THEOREM LockTypeCorrect == Spec => [](TypeOK /\ LockInv)
BY LockInit, RegistryStep, PTL DEF Spec

\* withCardLock excludes: no two handlers of one card run at once, however many requests
\* share, drop and recreate the card's entry.
THEOREM HandlersExclude == Spec => []MutualExclusion
BY LockTypeCorrect, LockHolds, PTL

\* The registry has entries of cards in use only.
THEOREM RegistryIsTight == Spec => []NoIdleEntry
BY LockTypeCorrect, LockHolds, PTL

(***************************************************************************)
(* ShopSession                                                             *)
(***************************************************************************)

\* Where a request holds the mutex.
Holding == {"locked", "login", "loggedIn", "confirm"}

\* A session that a login opened, which is never the cookie again once it was replaced.
FromLogin(c) == c # NoCookie /\ c.n > 0
Known(c) == c # NoCookie => c.n <= logins
Dead == cookie # NoCookie /\ cookie \notin live

\* Before the first failing call, change of the configuration and second answer that the
\* session is over.
Quiet == faults = 0 /\ changes = 0 /\ expired + clashes < 2

\* Before the first such answer, or while it has not led to a login yet.
Calm == expired = 0 /\ (clashes = 0 \/ (cookie # NoCookie /\ logins < 2))

\* One more login is owed to an expiry, a clash or a change.
Paid == logins <= expired + clashes + changes

\* It is whenever the cookie is not a living session.
Owed ==
  /\ logins <= 1 + expired + clashes + changes
  /\ ~(FromLogin(cookie) /\ cookie \in live) => Paid

\* It is to a request that will ask for another session than the one it takes for stale.
Stale(q) ==
  /\ q.at \in {"idle", "ensure", "stale"} => ~q.again
  /\ q.at = "login" => ~FromLogin(cookie)
  /\ FromLogin(cookie) /\ q.stale = cookie =>
       /\ q.again /\ q.at \in {"waiting", "locked"} => Paid
       /\ ~q.again /\ q.at = "sent" => q.sent = cookie

\* What a request that nothing disturbs may count on.
Undisturbed(q) ==
  /\ q.at # "failed"
  /\ q.at \in {"loggedIn", "confirm"} => cookie # NoCookie
  /\ q.at = "login" => cookie = NoCookie
  /\ q.again =>
       /\ expired + clashes = 1
       /\ q.at \in {"loggedIn", "confirm", "send"} => cookie \in live
       /\ q.at = "sent" => q.sent \in live
       /\ q.at \in {"waiting", "locked"} /\ FromLogin(cookie) /\ q.stale = cookie =>
            Calm \/ cookie \notin live
  /\ Dead /\ q.at \in (IF q.again THEN {"waiting", "locked"} ELSE {"send", "sent"}) =>
       q.stale = cookie
  /\ Calm =>
       /\ q.again => q.at \in {"waiting", "locked"} /\ q.stale = cookie
       /\ q.at \in {"stale", "send", "sent"} => cookie # NoCookie
       /\ q.at \in {"send", "sent"} => q.stale = cookie
       /\ q.at = "sent" => q.sent = cookie

ShopInv ==
  /\ Shop!TypeOK
  /\ Known(cookie) /\ \A c \in live : Known(c)
  /\ \A r \in Requests : Known(req[r].stale) /\ Stale(req[r])
  /\ \A r \in Requests : req[r].at \in Holding <=> mutex = r
  /\ Owed
  /\ Quiet => /\ cookie # NoCookie => FromLogin(cookie)
              /\ expired = 0 => ~Dead
              /\ clashes > 0 => logins > 0
              /\ \A r \in Requests : Undisturbed(req[r])

LEMMA NewRequestTyped ==
  /\ Shop!NewRequest \in Shop!RequestType
  /\ Shop!NewRequest.at = "idle" /\ ~Shop!NewRequest.again /\ Shop!NewRequest.stale = NoCookie
BY ShopAssumption
   DEF Shop!NewRequest, Shop!RequestType, Shop!Places, Shop!Cookies, Shop!MaxAttempts

LEMMA ShopStart == Shop!Init => ShopInv
<1> SUFFICES ASSUME Shop!Init PROVE ShopInv
  OBVIOUS
<1>1. /\ cookie = NoCookie /\ logins = 0 /\ mutex = NoRequest
      /\ expired = 0 /\ clashes = 0 /\ changes = 0 /\ faults = 0
      /\ \A r \in Requests : req[r] = Shop!NewRequest
  BY DEF Shop!Init
<1>2. \A c \in live : c = [acct |-> First, n |-> 0]
  BY DEF Shop!Init, Shop!Pasted
<1>3. Shop!TypeOK
  <2>1. live \subseteq Shop!Cookies /\ cookie \in Shop!Cookies
    BY <1>1, <1>2, ShopAssumption DEF Shop!Cookies
  <2>2. config \in Shop!Configs BY ShopAssumption DEF Shop!Init, Shop!Configs
  <2>3. req \in [Requests -> Shop!RequestType] BY NewRequestTyped DEF Shop!Init
  <2> QED BY <1>1, <2>1, <2>2, <2>3, ShopAssumption DEF Shop!TypeOK
<1>4. Known(cookie) /\ \A c \in live : Known(c)
  BY <1>1, <1>2 DEF Known
<1>5. \A r \in Requests : Known(req[r].stale) /\ Stale(req[r]) /\ Undisturbed(req[r])
  BY <1>1, NewRequestTyped DEF Known, Stale, FromLogin, Undisturbed, Dead, Calm
<1>6. \A r \in Requests : req[r].at \in Holding <=> mutex = r
  BY <1>1, NewRequestTyped, ShopAssumption DEF Holding
<1> QED BY <1>1, <1>3, <1>4, <1>5, <1>6 DEF ShopInv, Owed, Paid, Quiet, Dead, FromLogin

\* A step of one request that leaves the cookie and the sessions alone.
LEMMA OneRequest ==
  ASSUME ShopInv, NEW r \in Requests, NEW new \in Shop!RequestType,
         req' = [req EXCEPT ![r] = new],
         UNCHANGED <<cookie, config, live, logins, expired, clashes, changes>>,
         UNCHANGED faults \/ Shop!Fault,
         mutex' = mutex \/ (mutex' \in {r, NoRequest} /\ mutex \in {r, NoRequest}),
         new.at \in Holding <=> mutex' = r,
         Known(new.stale), Stale(new),
         Quiet /\ UNCHANGED faults => Undisturbed(new)
  PROVE  ShopInv'
<1>1. /\ \A q \in Requests \ {r} : req'[q] = req[q]
      /\ req'[r] = new
  BY DEF ShopInv, Shop!TypeOK
<1>2. faults \in Nat /\ faults' \in 0..MaxFaults /\ (faults' = 0 => UNCHANGED faults)
  BY ShopAssumption DEF ShopInv, Shop!TypeOK, Shop!Fault
<1>3. Shop!TypeOK'
  BY <1>2 DEF ShopInv, Shop!TypeOK
<1>4. Known(cookie)' /\ \A c \in live' : Known(c)'
  BY DEF ShopInv, Known
<1>5. ASSUME NEW q \in Requests PROVE Known(req[q].stale)' /\ Stale(req[q])'
  <2>1. Known(req'[q].stale) /\ Stale(req'[q]) BY <1>1 DEF ShopInv
  <2> QED BY <2>1 DEF Known, Stale, FromLogin, Paid
<1>6. \A q \in Requests : req'[q].at \in Holding <=> mutex' = q
  BY <1>1, ShopAssumption DEF ShopInv
<1>7. Owed' BY DEF ShopInv, Owed, Paid, FromLogin
<1>8. ASSUME Quiet'
      PROVE  /\ cookie' # NoCookie => FromLogin(cookie)'
             /\ expired' = 0 => ~Dead'
             /\ clashes' > 0 => logins' > 0
             /\ \A q \in Requests : Undisturbed(req[q])'
  <2>1. Quiet /\ UNCHANGED faults BY <1>2, <1>8 DEF Quiet
  <2>2. \A q \in Requests : Undisturbed(req'[q]) BY <1>1, <2>1 DEF ShopInv
  <2>3. \A q \in Requests : Undisturbed(req[q])' BY <2>2 DEF Undisturbed, Dead, Calm, FromLogin
  <2>4. /\ cookie' # NoCookie => FromLogin(cookie)'
        /\ expired' = 0 => ~Dead'
        /\ clashes' > 0 => logins' > 0
    BY <2>1 DEF ShopInv, FromLogin, Dead
  <2> QED BY <2>3, <2>4
<1> QED BY <1>3, <1>4, <1>5, <1>6, <1>7, <1>8, Zenon DEF ShopInv, Holding

\* What a request keeps where it goes.
Moved(r, new, place) ==
  /\ new \in Shop!RequestType /\ new.at = place
  /\ IF place \in {"ok", "failed"} THEN ~new.again /\ new.stale = NoCookie
     ELSE new.again = req[r].again /\ new.stale = req[r].stale /\ new.sent = req[r].sent

LEMMA GoMoves ==
  ASSUME ShopInv, NEW r \in Requests, NEW place \in Shop!Places, Shop!Go(r, place)
  PROVE  \E new \in Shop!RequestType :
           req' = [req EXCEPT ![r] = new] /\ Moved(r, new, place)
<1>1. req[r] \in Shop!RequestType BY DEF ShopInv, Shop!TypeOK
<1>2. CASE place \in {"ok", "failed"}
  <2> DEFINE new == [Shop!NewRequest EXCEPT !.at = place]
  <2>1. Moved(r, new, place)
    BY <1>2, NewRequestTyped DEF Moved, Shop!RequestType
  <2>2. req' = [req EXCEPT ![r] = new] BY <1>2 DEF Shop!Go
  <2> HIDE DEF new
  <2> QED BY <2>1, <2>2 DEF Moved
<1>3. CASE place \notin {"ok", "failed"}
  <2> DEFINE new == [req[r] EXCEPT !.at = place]
  <2>1. Moved(r, new, place)
    BY <1>1, <1>3 DEF Moved, Shop!RequestType
  <2>2. req' = [req EXCEPT ![r] = new] BY <1>3 DEF Shop!Go
  <2> HIDE DEF new
  <2> QED BY <2>1, <2>2 DEF Moved
<1> QED BY <1>2, <1>3

\* Steps that only take a request elsewhere.
LEMMA Moving ==
  ASSUME ShopInv, NEW r \in Requests, NEW place \in Shop!Places, Shop!Go(r, place),
         UNCHANGED <<cookie, config, live, logins, expired, clashes, changes>>,
         UNCHANGED faults \/ Shop!Fault,
         mutex' = mutex \/ (mutex' \in {r, NoRequest} /\ mutex \in {r, NoRequest}),
         place \in Holding <=> mutex' = r,
         \A new \in Shop!RequestType : Moved(r, new, place) =>
           Stale(new) /\ (Quiet /\ UNCHANGED faults => Undisturbed(new))
  PROVE  ShopInv'
<1>1. PICK new \in Shop!RequestType : req' = [req EXCEPT ![r] = new] /\ Moved(r, new, place)
  BY GoMoves
<1>2. Known(new.stale) BY <1>1 DEF Moved, ShopInv, Known
<1>3. new.at \in Holding <=> mutex' = r BY <1>1 DEF Moved
<1> QED BY <1>1, <1>2, <1>3, OneRequest

LEMMA ShopFacts ==
  ASSUME ShopInv, NEW r \in Requests
  PROVE  /\ req[r] \in Shop!RequestType /\ Known(req[r].stale) /\ Stale(req[r])
         /\ req[r].at \in Holding <=> mutex = r
         /\ Quiet => Undisturbed(req[r])
         /\ expired \in Nat /\ clashes \in Nat /\ logins \in Nat /\ changes \in Nat
         /\ faults \in Nat /\ NoRequest # r
BY ShopAssumption DEF ShopInv, Shop!TypeOK

LEMMA AllPlaces ==
  /\ {"idle", "ensure", "waiting", "locked", "login", "loggedIn", "confirm", "stale"}
       \subseteq Shop!Places
  /\ {"send", "sent", "ok", "failed"} \subseteq Shop!Places
BY DEF Shop!Places

\* Steps outside the mutex.
LEMMA Walking ==
  ASSUME ShopInv, NEW r \in Requests, NEW place \in Shop!Places \ Holding, Shop!Go(r, place),
         req[r].at \notin Holding,
         UNCHANGED <<cookie, mutex, Shop!Shop, Shop!Env>>,
         UNCHANGED faults \/ Shop!Fault,
         \A new \in Shop!RequestType : Moved(r, new, place) =>
           Stale(new) /\ (Quiet /\ UNCHANGED faults => Undisturbed(new))
  PROVE  ShopInv'
<1>1. place \in Shop!Places /\ place \notin Holding /\ mutex # r BY ShopFacts
<1>2. UNCHANGED <<cookie, config, live, logins, expired, clashes, changes>> /\ mutex' = mutex
  BY DEF Shop!Shop, Shop!Env
<1> QED BY <1>1, <1>2, Moving

\* Steps that keep the mutex.
LEMMA Keeping ==
  ASSUME ShopInv, NEW r \in Requests, NEW place \in Shop!Places \cap Holding,
         Shop!Go(r, place), req[r].at \in Holding,
         UNCHANGED <<cookie, mutex, Shop!Shop, Shop!Env>>,
         UNCHANGED faults \/ Shop!Fault,
         \A new \in Shop!RequestType : Moved(r, new, place) =>
           Stale(new) /\ (Quiet /\ UNCHANGED faults => Undisturbed(new))
  PROVE  ShopInv'
<1>1. place \in Shop!Places /\ place \in Holding /\ mutex = r BY ShopFacts
<1>2. UNCHANGED <<cookie, config, live, logins, expired, clashes, changes>> /\ mutex' = mutex
  BY DEF Shop!Shop, Shop!Env
<1> QED BY <1>1, <1>2, Moving

\* Steps that give the mutex back.
LEMMA Leaving ==
  ASSUME ShopInv, NEW r \in Requests, NEW place \in Shop!Places \ Holding,
         Shop!Leave(r, place), req[r].at \in Holding,
         UNCHANGED <<cookie, Shop!Shop, Shop!Env>>,
         UNCHANGED faults \/ Shop!Fault,
         \A new \in Shop!RequestType : Moved(r, new, place) =>
           Stale(new) /\ (Quiet /\ UNCHANGED faults => Undisturbed(new))
  PROVE  ShopInv'
<1>1. place \in Shop!Places /\ place \notin Holding /\ mutex = r /\ NoRequest # r
  BY ShopFacts
<1>2. Shop!Go(r, place) /\ mutex' = NoRequest BY DEF Shop!Leave
<1>3. UNCHANGED <<cookie, config, live, logins, expired, clashes, changes>>
  BY DEF Shop!Shop, Shop!Env
<1> QED BY <1>1, <1>2, <1>3, Moving

LEMMA StartStep ==
  ASSUME ShopInv, NEW r \in Requests, Shop!Start(r)
  PROVE  ShopInv'
<1>1. \A new \in Shop!RequestType : Moved(r, new, "ensure") =>
        Stale(new) /\ (Quiet => Undisturbed(new))
  BY ShopFacts DEF Shop!Start, Moved, Stale, Undisturbed
<1>2. "ensure" \in Shop!Places \ Holding /\ req[r].at \notin Holding
  BY AllPlaces DEF Shop!Start, Holding
<1> QED BY <1>1, <1>2, Walking DEF Shop!Start

LEMMA EnsureCookieStep ==
  ASSUME ShopInv, NEW r \in Requests, Shop!EnsureCookie(r)
  PROVE  ShopInv'
<1>1. /\ req[r].at = "ensure" /\ (Quiet => Undisturbed(req[r]))
      /\ ~req[r].again
  BY ShopFacts DEF Shop!EnsureCookie, Stale
<1>2. {"stale", "waiting"} \subseteq Shop!Places \ Holding /\ req[r].at \notin Holding
  BY <1>1, AllPlaces DEF Holding
<1>3. CASE cookie # NoCookie
  <2>1. \A new \in Shop!RequestType : Moved(r, new, "stale") =>
          Stale(new) /\ (Quiet => Undisturbed(new))
    BY <1>1, <1>3 DEF Moved, Stale, Undisturbed
  <2> QED BY <1>2, <1>3, <2>1, Walking DEF Shop!EnsureCookie
<1>4. CASE cookie = NoCookie
  <2>1. \A new \in Shop!RequestType : Moved(r, new, "waiting") =>
          Stale(new) /\ (Quiet => Undisturbed(new))
    BY <1>1 DEF Moved, Stale, Undisturbed
  <2> QED BY <1>2, <1>4, <2>1, Walking DEF Shop!EnsureCookie
<1> QED BY <1>3, <1>4

LEMMA LockStep ==
  ASSUME ShopInv, NEW r \in Requests, Shop!Lock(r)
  PROVE  ShopInv'
<1>1. /\ req[r].at = "waiting" /\ Stale(req[r]) /\ (Quiet => Undisturbed(req[r]))
      /\ mutex = NoRequest /\ mutex' = r /\ Shop!Go(r, "locked")
      /\ UNCHANGED <<cookie, config, live, logins, expired, clashes, changes, faults>>
  BY ShopFacts DEF Shop!Lock, Shop!Shop, Shop!Env
<1>2. \A new \in Shop!RequestType : Moved(r, new, "locked") =>
        Stale(new) /\ (Quiet => Undisturbed(new))
  BY <1>1 DEF Moved, Stale, Undisturbed
<1>3. "locked" \in Shop!Places /\ "locked" \in Holding BY AllPlaces DEF Holding
<1> QED BY <1>1, <1>2, <1>3, Moving

LEMMA UseRenewedStep ==
  ASSUME ShopInv, NEW r \in Requests, Shop!UseRenewed(r)
  PROVE  ShopInv'
<1>1. /\ req[r].at = "locked" /\ Stale(req[r]) /\ (Quiet => Undisturbed(req[r]))
      /\ cookie # NoCookie /\ (req[r].again => cookie # req[r].stale)
  BY ShopFacts DEF Shop!UseRenewed, Shop!Renewed
<1>2. {"stale", "send"} \subseteq Shop!Places \ Holding /\ req[r].at \in Holding
  BY <1>1, AllPlaces DEF Holding
<1>3. CASE req[r].again
  <2>1. \A new \in Shop!RequestType : Moved(r, new, "send") =>
          Stale(new) /\ (Quiet => Undisturbed(new))
    BY <1>1, <1>3 DEF Moved, Stale, Undisturbed, Dead
  <2> QED BY <1>2, <1>3, <2>1, Leaving DEF Shop!UseRenewed, Shop!Resume
<1>4. CASE ~req[r].again
  <2>1. \A new \in Shop!RequestType : Moved(r, new, "stale") =>
          Stale(new) /\ (Quiet => Undisturbed(new))
    BY <1>1, <1>4 DEF Moved, Stale, Undisturbed
  <2> QED BY <1>2, <1>4, <2>1, Leaving DEF Shop!UseRenewed, Shop!Resume
<1> QED BY <1>3, <1>4

LEMMA FaultIsSeen ==
  ASSUME ShopInv, Shop!Fault
  PROVE  faults' # faults
BY ShopAssumption DEF ShopInv, Shop!TypeOK, Shop!Fault

LEMMA LoginUnclearStep ==
  ASSUME ShopInv, NEW r \in Requests, Shop!LoginUnclear(r)
  PROVE  ShopInv'
<1>1. req[r].at = "login" /\ Stale(req[r]) BY ShopFacts DEF Shop!LoginUnclear
<1>2. "loggedIn" \in Shop!Places \cap Holding /\ req[r].at \in Holding
  BY <1>1, AllPlaces DEF Holding
<1>3. \A new \in Shop!RequestType : Moved(r, new, "loggedIn") => Stale(new)
  BY <1>1 DEF Moved, Stale
<1> QED BY <1>2, <1>3, FaultIsSeen, Keeping DEF Shop!LoginUnclear

LEMMA LoginRefusedStep ==
  ASSUME ShopInv, NEW r \in Requests, Shop!LoginRefused(r)
  PROVE  ShopInv'
<1>1. req[r].at = "login" /\ Stale(req[r]) BY ShopFacts DEF Shop!LoginRefused
<1>2. "failed" \in Shop!Places \ Holding /\ req[r].at \in Holding
  BY <1>1, AllPlaces DEF Holding
<1>3. \A new \in Shop!RequestType : Moved(r, new, "failed") => Stale(new)
  BY DEF Moved, Stale
<1> QED BY <1>2, <1>3, FaultIsSeen, Leaving DEF Shop!LoginRefused

\* Another endpoint, or none is left; something has failed by then.
LEMMA NextAttemptStep ==
  ASSUME ShopInv, NEW r \in Requests, Shop!NextAttempt(r),
         req[r].at \in {"login", "loggedIn"}, ~FromLogin(cookie),
         UNCHANGED <<cookie, Shop!Shop, Shop!Env>>,
         (UNCHANGED faults /\ ~Quiet) \/ Shop!Fault
  PROVE  ShopInv'
<1>1. Quiet => ~UNCHANGED faults BY FaultIsSeen
<1>2. req[r].at \in Holding BY DEF Holding
<1>3. CASE req[r].attempt < Shop!MaxAttempts
  <2> DEFINE new == [req[r] EXCEPT !.at = "login", !.attempt = @ + 1]
  <2>1. req[r].attempt + 1 \in 0..Shop!MaxAttempts
    BY <1>3, ShopFacts DEF Shop!RequestType, Shop!MaxAttempts
  <2>2. req[r] \in Shop!RequestType /\ "login" \in Shop!Places BY ShopFacts, AllPlaces
  <2>3. /\ new \in Shop!RequestType /\ new.at = "login" /\ new.again = req[r].again
        /\ new.stale = req[r].stale
    BY <2>1, <2>2 DEF Shop!RequestType
  <2>4. req' = [req EXCEPT ![r] = new] /\ mutex' = mutex
    BY <1>3 DEF Shop!NextAttempt
  <2> HIDE DEF new
  <2>5. Stale(new) BY <2>3 DEF Stale
  <2>6. Known(new.stale) /\ mutex = r BY <1>2, <2>3, ShopFacts
  <2>7. UNCHANGED <<cookie, config, live, logins, expired, clashes, changes>>
    BY DEF Shop!Shop, Shop!Env
  <2>8. new.at \in Holding <=> mutex' = r BY <2>3, <2>4, <2>6 DEF Holding
  <2> QED BY <1>1, <2>3, <2>4, <2>5, <2>6, <2>7, <2>8, OneRequest
<1>4. CASE ~(req[r].attempt < Shop!MaxAttempts)
  <2>1. "failed" \in Shop!Places \ Holding BY AllPlaces DEF Holding
  <2>2. \A new \in Shop!RequestType : Moved(r, new, "failed") => Stale(new)
    BY DEF Moved, Stale
  <2>3. Shop!Leave(r, "failed") BY <1>4 DEF Shop!NextAttempt
  <2> QED BY <1>1, <1>2, <2>1, <2>2, <2>3, Leaving
<1> QED BY <1>3, <1>4

LEMMA LoginErrsStep ==
  ASSUME ShopInv, NEW r \in Requests, Shop!LoginErrs(r)
  PROVE  ShopInv'
<1>1. req[r].at = "login" /\ ~FromLogin(cookie) BY ShopFacts DEF Shop!LoginErrs, Stale
<1> QED BY <1>1, NextAttemptStep DEF Shop!LoginErrs

LEMMA LoginLooksStep ==
  ASSUME ShopInv, NEW r \in Requests, Shop!LoginLooks(r)
  PROVE  ShopInv'
<1>1. /\ req[r].at = "loggedIn" /\ Stale(req[r]) /\ (Quiet => Undisturbed(req[r]))
      /\ UNCHANGED <<cookie, faults, Shop!Shop, Shop!Env>>
  BY ShopFacts DEF Shop!LoginLooks
<1>2. "confirm" \in Shop!Places \cap Holding /\ req[r].at \in Holding
  BY <1>1, AllPlaces DEF Holding
<1>3. CASE cookie # NoCookie
  <2>1. \A new \in Shop!RequestType : Moved(r, new, "confirm") =>
          Stale(new) /\ (Quiet => Undisturbed(new))
    BY <1>1, <1>3 DEF Moved, Stale, Undisturbed
  <2> QED BY <1>1, <1>2, <1>3, <2>1, Keeping DEF Shop!LoginLooks
<1>4. CASE cookie = NoCookie
  <2>1. ~Quiet BY <1>1, <1>4 DEF Undisturbed
  <2>2. Shop!NextAttempt(r) BY <1>4 DEF Shop!LoginLooks
  <2> QED BY <1>1, <1>4, <2>1, <2>2, NextAttemptStep DEF FromLogin
<1> QED BY <1>3, <1>4

LEMMA ConfirmStep ==
  ASSUME ShopInv, NEW r \in Requests, Shop!Confirm(r)
  PROVE  ShopInv'
<1>1. /\ req[r].at = "confirm" /\ Stale(req[r]) /\ (Quiet => Undisturbed(req[r]))
      /\ UNCHANGED <<cookie, faults, Shop!Shop, Shop!Env>>
  BY ShopFacts DEF Shop!Confirm
<1>2. {"stale", "send", "failed"} \subseteq Shop!Places \ Holding /\ req[r].at \in Holding
  BY <1>1, AllPlaces DEF Holding
<1>3. CASE cookie = NoCookie
  <2>1. \A new \in Shop!RequestType : Moved(r, new, "failed") => Stale(new)
    BY DEF Moved, Stale
  <2>2. ~Quiet BY <1>1, <1>3 DEF Undisturbed
  <2> QED BY <1>1, <1>2, <1>3, <2>1, <2>2, Leaving DEF Shop!Confirm
<1>4. CASE cookie # NoCookie /\ req[r].again
  <2>1. \A new \in Shop!RequestType : Moved(r, new, "send") =>
          Stale(new) /\ (Quiet => Undisturbed(new))
    BY <1>1, <1>4 DEF Moved, Stale, Undisturbed, Dead
  <2> QED BY <1>1, <1>2, <1>4, <2>1, Leaving DEF Shop!Confirm, Shop!Resume
<1>5. CASE cookie # NoCookie /\ ~req[r].again
  <2>1. \A new \in Shop!RequestType : Moved(r, new, "stale") =>
          Stale(new) /\ (Quiet => Undisturbed(new))
    BY <1>1, <1>5 DEF Moved, Stale, Undisturbed
  <2> QED BY <1>1, <1>2, <1>5, <2>1, Leaving DEF Shop!Confirm, Shop!Resume
<1> QED BY <1>3, <1>4, <1>5

\* Steps that write other fields of a request, outside the mutex.
LEMMA Reading ==
  ASSUME ShopInv, NEW r \in Requests, NEW new \in Shop!RequestType,
         req' = [req EXCEPT ![r] = new], req[r].at \notin Holding, new.at \notin Holding,
         UNCHANGED <<cookie, mutex, faults, Shop!Shop, Shop!Env>>,
         Known(new.stale), Stale(new), Quiet => Undisturbed(new)
  PROVE  ShopInv'
<1>1. mutex # r BY ShopFacts
<1>2. UNCHANGED <<cookie, config, live, logins, expired, clashes, changes>>
      /\ mutex' = mutex /\ faults' = faults
  BY DEF Shop!Shop, Shop!Env
<1>3. new.at \in Holding <=> mutex' = r BY <1>1, <1>2
<1> QED BY <1>2, <1>3, OneRequest

LEMMA ReadStaleStep ==
  ASSUME ShopInv, NEW r \in Requests, Shop!ReadStale(r)
  PROVE  ShopInv'
<1> DEFINE new == [req[r] EXCEPT !.at = "send", !.stale = cookie]
<1>1. /\ req[r].at = "stale" /\ req[r] \in Shop!RequestType /\ ~req[r].again
      /\ (Quiet => Undisturbed(req[r]))
      /\ req' = [req EXCEPT ![r] = new]
      /\ UNCHANGED <<cookie, mutex, faults, Shop!Shop, Shop!Env>>
  BY ShopFacts DEF Shop!ReadStale, Stale
<1>2. cookie \in Shop!Cookies /\ Known(cookie) BY DEF ShopInv, Shop!TypeOK
<1>3. /\ new \in Shop!RequestType
      /\ new.at = "send" /\ new.stale = cookie /\ new.again = req[r].again
  BY <1>1, <1>2, AllPlaces DEF Shop!RequestType
<1> HIDE DEF new
<1>4. Stale(new) BY <1>1, <1>3 DEF Stale
<1>5. Quiet => Undisturbed(new) BY <1>1, <1>3 DEF Undisturbed
<1>6. req[r].at \notin Holding /\ new.at \notin Holding BY <1>1, <1>3 DEF Holding
<1> QED BY <1>1, <1>2, <1>3, <1>4, <1>5, <1>6, Reading

LEMMA SendStep ==
  ASSUME ShopInv, NEW r \in Requests, Shop!Send(r)
  PROVE  ShopInv'
<1> DEFINE new == [req[r] EXCEPT !.at = "sent", !.sent = cookie, !.attempt = 0]
<1>1. /\ req[r].at = "send" /\ req[r] \in Shop!RequestType /\ Known(req[r].stale)
      /\ (Quiet => Undisturbed(req[r]))
      /\ req' = [req EXCEPT ![r] = new]
      /\ UNCHANGED <<cookie, mutex, faults, Shop!Shop, Shop!Env>>
  BY ShopFacts DEF Shop!Send
<1>2. cookie \in Shop!Cookies BY DEF ShopInv, Shop!TypeOK
<1>3. 0 \in 0..Shop!MaxAttempts BY DEF Shop!MaxAttempts
<1>4. /\ new \in Shop!RequestType
      /\ new.at = "sent" /\ new.sent = cookie
      /\ new.stale = req[r].stale /\ new.again = req[r].again
  BY <1>1, <1>2, <1>3, AllPlaces DEF Shop!RequestType
<1> HIDE DEF new
<1>5. Stale(new) BY <1>4 DEF Stale
<1>6. Quiet => Undisturbed(new) BY <1>1, <1>4 DEF Undisturbed
<1>7. req[r].at \notin Holding /\ new.at \notin Holding BY <1>1, <1>4 DEF Holding
<1> QED BY <1>1, <1>4, <1>5, <1>6, <1>7, Reading

LEMMA AnsweredStep ==
  ASSUME ShopInv, NEW r \in Requests, Shop!Answered(r)
  PROVE  ShopInv'
<1>1. /\ "ok" \in Shop!Places \ Holding /\ req[r].at \notin Holding
      /\ UNCHANGED faults
  BY AllPlaces DEF Shop!Answered, Holding
<1>2. \A new \in Shop!RequestType : Moved(r, new, "ok") =>
        Stale(new) /\ (Quiet => Undisturbed(new))
  BY DEF Moved, Stale, Undisturbed
<1> QED BY <1>1, <1>2, Walking DEF Shop!Answered

LEMMA CallFailsStep ==
  ASSUME ShopInv, NEW r \in Requests, Shop!CallFails(r)
  PROVE  ShopInv'
<1>1. "failed" \in Shop!Places \ Holding /\ req[r].at \notin Holding
  BY AllPlaces DEF Shop!CallFails, Holding
<1>2. \A new \in Shop!RequestType : Moved(r, new, "failed") => Stale(new)
  BY DEF Moved, Stale
<1> QED BY <1>1, <1>2, FaultIsSeen, Walking DEF Shop!CallFails

LEMMA SaysExpiredStep ==
  ASSUME ShopInv, NEW r \in Requests, Shop!SaysExpired(r)
  PROVE  ShopInv'
<1>1. /\ req[r].at = "sent" /\ req[r].sent \notin live
      /\ req[r] \in Shop!RequestType /\ Known(req[r].stale) /\ Stale(req[r])
      /\ (Quiet => Undisturbed(req[r]))
      /\ UNCHANGED <<cookie, mutex, faults, Shop!Shop, Shop!Env>>
  BY ShopFacts DEF Shop!SaysExpired
<1>2. req[r].at \notin Holding BY <1>1 DEF Holding
<1>3. CASE req[r].again
  <2>1. "failed" \in Shop!Places \ Holding BY AllPlaces DEF Holding
  <2>2. ~Quiet BY <1>1, <1>3 DEF Undisturbed
  <2>3. \A new \in Shop!RequestType : Moved(r, new, "failed") => Stale(new)
    BY DEF Moved, Stale
  <2>4. Shop!Go(r, "failed") BY <1>3 DEF Shop!SaysExpired, Shop!TryAgain
  <2> QED BY <1>1, <1>2, <2>1, <2>2, <2>3, <2>4, Walking
<1>4. CASE ~req[r].again
  <2> DEFINE new == [req[r] EXCEPT !.at = "waiting", !.again = TRUE]
  <2>1. /\ new \in Shop!RequestType
        /\ new.at = "waiting" /\ new.again /\ new.stale = req[r].stale
    BY <1>1, AllPlaces DEF Shop!RequestType
  <2>2. req' = [req EXCEPT ![r] = new] BY <1>4 DEF Shop!SaysExpired, Shop!TryAgain
  <2> HIDE DEF new
  <2>3. Stale(new)
    <3>1. FromLogin(cookie) /\ req[r].stale = cookie => cookie \notin live
      BY <1>1, <1>4 DEF Stale
    <3>2. FromLogin(cookie) /\ req[r].stale = cookie => Paid
      BY <3>1 DEF ShopInv, Owed
    <3> QED BY <2>1, <3>2 DEF Stale
  <2>4. ASSUME Quiet PROVE Undisturbed(new)
    <3>1. ~Calm
      <4> SUFFICES ASSUME Calm PROVE FALSE OBVIOUS
      <4>1. cookie # NoCookie /\ req[r].sent = cookie /\ ~Dead
        BY <1>1, <2>4 DEF Undisturbed, ShopInv, Calm
      <4> QED BY <1>1, <4>1 DEF Dead
    <3>2. expired + clashes = 1
      BY <2>4, <3>1, ShopFacts DEF Quiet, Calm
    <3>3. FromLogin(cookie) /\ req[r].stale = cookie => cookie \notin live
      BY <1>1, <1>4 DEF Stale
    <3> QED BY <1>1, <1>4, <2>1, <2>4, <3>1, <3>2, <3>3 DEF Undisturbed
  <2>5. new.at \notin Holding BY <2>1 DEF Holding
  <2> QED BY <1>1, <1>2, <2>1, <2>2, <2>3, <2>4, <2>5, Reading
<1> QED BY <1>3, <1>4

\* The first clash keeps the peace until it has led to a login.
LEMMA ClashesStep ==
  ASSUME ShopInv, NEW r \in Requests, Shop!Clashes(r)
  PROVE  ShopInv'
<1>1. /\ req[r].at = "sent" /\ req[r].sent \in live
      /\ req[r] \in Shop!RequestType /\ Known(req[r].stale) /\ Stale(req[r])
      /\ (Quiet => Undisturbed(req[r])) /\ mutex # r /\ r # NoRequest
      /\ clashes < MaxClashes /\ clashes' = clashes + 1
      /\ UNCHANGED <<cookie, config, live, logins, mutex, expired, changes, faults>>
  BY ShopFacts DEF Shop!Clashes, Shop!Shop, Holding
<1>2. /\ expired \in Nat /\ logins \in Nat /\ changes \in Nat /\ clashes \in Nat
      /\ clashes + 1 \in 0..MaxClashes
  BY <1>1, ShopAssumption DEF ShopInv, Shop!TypeOK
<1>3. PICK new \in Shop!RequestType :
        /\ req' = [req EXCEPT ![r] = new]
        /\ IF req[r].again THEN new.at = "failed" /\ ~new.again /\ new.stale = NoCookie
           ELSE new.at = "waiting" /\ new.again /\ new.stale = req[r].stale
  <2>1. CASE req[r].again
    <3>1. Shop!Go(r, "failed") /\ "failed" \in Shop!Places
      BY <2>1, AllPlaces DEF Shop!Clashes, Shop!TryAgain
    <3> QED BY <2>1, <3>1, GoMoves DEF Moved
  <2>2. CASE ~req[r].again
    <3> DEFINE n == [req[r] EXCEPT !.at = "waiting", !.again = TRUE]
    <3>1. /\ n \in Shop!RequestType
          /\ n.at = "waiting" /\ n.again /\ n.stale = req[r].stale
      BY <1>1, AllPlaces DEF Shop!RequestType
    <3>2. req' = [req EXCEPT ![r] = n] BY <2>2 DEF Shop!Clashes, Shop!TryAgain
    <3> HIDE DEF n
    <3> QED BY <2>2, <3>1, <3>2
  <2> QED BY <2>1, <2>2
<1>4. /\ \A q \in Requests \ {r} : req'[q] = req[q]
      /\ req'[r] = new
  BY <1>3 DEF ShopInv, Shop!TypeOK
<1>5. Shop!TypeOK' BY <1>1, <1>2, <1>3 DEF ShopInv, Shop!TypeOK
<1>6. Known(cookie)' /\ \A c \in live' : Known(c)' BY <1>1 DEF ShopInv, Known
<1>7. logins <= 1 + expired + clashes + changes BY DEF ShopInv, Owed
<1>8. Paid' BY <1>1, <1>2, <1>7 DEF Paid
<1>9. Owed' BY <1>1, <1>2, <1>7, <1>8 DEF Owed
<1>10. ASSUME NEW q \in Requests PROVE Known(req[q].stale)' /\ Stale(req[q])'
  <2>1. Known(req'[q].stale) BY <1>1, <1>3, <1>4, ShopFacts DEF Known
  <2>2. CASE q = r
    BY <1>1, <1>3, <1>4, <1>8, <2>1, <2>2 DEF Known, Stale, FromLogin
  <2>3. CASE q # r
    <3>1. Stale(req[q]) BY ShopFacts
    <3> QED BY <1>1, <1>4, <1>8, <2>1, <2>3, <3>1 DEF Known, Stale, FromLogin
  <2> QED BY <2>2, <2>3
<1>11. \A q \in Requests : req'[q].at \in Holding <=> mutex' = q
  BY <1>1, <1>3, <1>4, ShopFacts DEF Holding
<1>12. ASSUME Quiet'
       PROVE  /\ cookie' # NoCookie => FromLogin(cookie)'
              /\ expired' = 0 => ~Dead'
              /\ clashes' > 0 => logins' > 0
              /\ \A q \in Requests : Undisturbed(req[q])'
  <2>1. Quiet /\ expired = 0 /\ clashes = 0 /\ clashes' = 1 /\ expired' = 0
    BY <1>1, <1>2, <1>12 DEF Quiet
  <2>2. Calm /\ ~Dead /\ (cookie # NoCookie => FromLogin(cookie))
    BY <2>1 DEF Calm, ShopInv
  <2>3. \A q \in Requests : Undisturbed(req[q]) /\ ~req[q].again
    BY <2>1, <2>2 DEF ShopInv, Undisturbed
  <2>4. /\ cookie # NoCookie /\ req[r].sent = cookie /\ req[r].stale = cookie
        /\ FromLogin(cookie)
    BY <1>1, <2>2, <2>3 DEF Undisturbed
  <2>5. logins > 0
    <3>1. cookie \in Shop!Cookies /\ Known(cookie) BY DEF ShopInv, Shop!TypeOK
    <3>2. cookie.n \in Nat BY <2>4, <3>1 DEF Shop!Cookies
    <3> QED BY <1>2, <2>4, <3>1, <3>2 DEF Known, FromLogin
  <2>6. logins < 2
    <3>1. changes = 0 BY <2>1 DEF Quiet
    <3> QED BY <1>2, <1>7, <2>1, <3>1
  <2>7. Calm' BY <1>1, <2>1, <2>4, <2>6 DEF Calm
  <2>8. ~Dead' /\ FromLogin(cookie)' /\ cookie' = cookie
    BY <1>1, <2>2, <2>4 DEF Dead, FromLogin
  <2>9. ASSUME NEW q \in Requests PROVE Undisturbed(req[q])'
    <3>1. CASE q = r
      BY <1>3, <1>4, <2>1, <2>3, <2>4, <2>7, <2>8, <3>1 DEF Undisturbed
    <3>2. CASE q # r
      <4>1. req'[q] = req[q] /\ Undisturbed(req[q]) /\ ~req[q].again
        BY <1>4, <2>3, <3>2
      <4> QED BY <1>1, <2>2, <2>7, <2>8, <4>1 DEF Undisturbed
    <3> QED BY <3>1, <3>2
  <2> QED BY <1>1, <2>1, <2>5, <2>8, <2>9
<1> QED BY <1>5, <1>6, <1>9, <1>10, <1>11, <1>12 DEF ShopInv, Holding

LEMMA BeginLoginStep ==
  ASSUME ShopInv, NEW r \in Requests, Shop!BeginLogin(r)
  PROVE  ShopInv'
<1> DEFINE new == [req[r] EXCEPT !.at = "login", !.acct = config.acct, !.attempt = 1]
<1>1. /\ req[r].at = "locked" /\ req[r] \in Shop!RequestType /\ Known(req[r].stale)
      /\ Stale(req[r]) /\ (Quiet => Undisturbed(req[r])) /\ mutex = r
      /\ req' = [req EXCEPT ![r] = new]
      /\ UNCHANGED <<config, live, logins, mutex, expired, clashes, changes, faults>>
  BY ShopFacts DEF Shop!BeginLogin, Shop!Shop, Shop!Env, Holding
<1>2. config.acct \in Accounts /\ 1 \in 0..Shop!MaxAttempts
  BY DEF ShopInv, Shop!TypeOK, Shop!Configs, Shop!MaxAttempts
<1>3. /\ new \in Shop!RequestType
      /\ new.at = "login" /\ new.stale = req[r].stale /\ new.again = req[r].again
  BY <1>1, <1>2, AllPlaces DEF Shop!RequestType
<1> HIDE DEF new
<1>4. cookie' = NoCookie /\ (cookie = NoCookie \/ (req[r].again /\ cookie = req[r].stale))
  BY DEF Shop!BeginLogin, Shop!Renewed
<1>5. Paid
  <2>1. FromLogin(cookie) => Paid BY <1>1, <1>4 DEF Stale, FromLogin
  <2> QED BY <2>1 DEF ShopInv, Owed
<1>6. /\ \A q \in Requests \ {r} : req'[q] = req[q] /\ mutex # q
      /\ req'[r] = new
  BY <1>1 DEF ShopInv, Shop!TypeOK
<1>7. Shop!TypeOK'
  BY <1>1, <1>3, <1>4 DEF ShopInv, Shop!TypeOK, Shop!Cookies
<1>8. ASSUME NEW q \in Requests PROVE Known(req[q].stale)' /\ Stale(req[q])'
  <2>1. Known(req'[q].stale) BY <1>1, <1>3, <1>6, ShopFacts
  <2>2. req'[q].at \in {"idle", "ensure", "stale"} => ~req'[q].again
    BY <1>3, <1>6, ShopFacts DEF Stale
  <2> QED BY <1>1, <1>4, <2>1, <2>2 DEF Known, Stale, FromLogin
<1>9. \A q \in Requests : req'[q].at \in Holding <=> mutex' = q
  BY <1>1, <1>3, <1>6, ShopFacts DEF Holding
<1>10. Owed' BY <1>1, <1>4, <1>5 DEF ShopInv, Owed, Paid, FromLogin
<1>11. ASSUME Quiet', NEW q \in Requests PROVE Undisturbed(req[q])'
  <2>1. Quiet /\ expired' = expired /\ clashes' = clashes /\ live' = live
    BY <1>1, <1>11 DEF Quiet
  <2>2. ~Dead' /\ ~FromLogin(cookie)' BY <1>4 DEF Dead, FromLogin
  <2>3. CASE q = r
    <3>1. req'[q].again => expired + clashes = 1
      BY <1>1, <1>3, <1>6, <2>1, <2>3 DEF Undisturbed
    <3>2. Calm' => ~req'[q].again
      BY <1>4, <2>1, <3>1, ShopFacts DEF Calm
    <3> QED BY <1>3, <1>4, <1>6, <2>1, <2>2, <2>3, <3>1, <3>2 DEF Undisturbed
  <2>4. CASE q # r
    <3>1. /\ req'[q] = req[q] /\ Undisturbed(req[q]) /\ req[q].at \notin Holding
      BY <1>6, <2>1, <2>4, ShopFacts DEF ShopInv
    <3>2. CASE cookie = NoCookie
      <4>1. Calm' => Calm BY <1>4, <2>1, <3>2 DEF Calm
      <4> QED BY <1>4, <2>1, <2>2, <3>1, <3>2, <4>1 DEF Undisturbed
    <3>3. CASE cookie # NoCookie
      <4>1. /\ req[r].again /\ cookie = req[r].stale /\ expired + clashes = 1
            /\ (Calm \/ cookie \notin live) /\ FromLogin(cookie)
        BY <1>1, <1>4, <2>1, <3>3 DEF Undisturbed, ShopInv
      <4>2. ~Calm' BY <1>4, <2>1, <4>1, ShopFacts DEF Calm
      <4>3. req[q].again /\ req[q].at = "send" => FALSE
        BY <3>1, <4>1 DEF Undisturbed
      <4> QED BY <1>4, <2>1, <2>2, <3>1, <4>2, <4>3 DEF Undisturbed, Holding
    <3> QED BY <3>2, <3>3
  <2> QED BY <2>3, <2>4
<1>12. Known(cookie)' /\ \A c \in live' : Known(c)'
  BY <1>1, <1>4 DEF ShopInv, Known
<1>13. Quiet' => (clashes' > 0 => logins' > 0) BY <1>1 DEF ShopInv, Quiet
<1> QED
  BY <1>1, <1>4, <1>7, <1>8, <1>9, <1>10, <1>11, <1>12, <1>13 DEF ShopInv, Dead, Holding

LEMMA LoginAcceptedStep ==
  ASSUME ShopInv, NEW r \in Requests, Shop!LoginAccepted(r)
  PROVE  ShopInv'
<1> DEFINE session == [acct |-> req[r].acct, n |-> logins + 1]
<1>1. /\ req[r].at = "login" /\ req[r] \in Shop!RequestType /\ Known(req[r].stale)
      /\ Stale(req[r]) /\ (Quiet => Undisturbed(req[r])) /\ mutex = r
      /\ Shop!Go(r, "loggedIn")
      /\ logins' = logins + 1 /\ live' = live \cup {session} /\ cookie' = session
      /\ UNCHANGED <<config, mutex, expired, clashes, changes, faults>>
  BY ShopFacts DEF Shop!LoginAccepted, Shop!Env, Holding
<1>2. /\ session \in Shop!Cookies /\ session # NoCookie /\ session.n = logins + 1
      /\ logins + 1 \in Nat /\ logins + 1 > 0 /\ logins < logins + 1
  BY <1>1, ShopFacts, ShopAssumption DEF Shop!RequestType, Shop!Cookies
<1> HIDE DEF session
<1>3. PICK new \in Shop!RequestType : req' = [req EXCEPT ![r] = new] /\ Moved(r, new, "loggedIn")
  BY <1>1, AllPlaces, GoMoves
<1>4. /\ \A q \in Requests \ {r} : req'[q] = req[q] /\ mutex # q
      /\ req'[r] = new
      /\ new.at = "loggedIn" /\ new.again = req[r].again /\ new.stale = req[r].stale
  BY <1>1, <1>3 DEF ShopInv, Shop!TypeOK, Moved
<1>5. Shop!TypeOK'
  BY <1>1, <1>2, <1>3 DEF ShopInv, Shop!TypeOK
<1>6. \A c : c \in Shop!Cookies /\ Known(c) => Known(c)' /\ c # session
  BY <1>1, <1>2, ShopFacts DEF Known, Shop!Cookies
<1>7. Known(cookie)' /\ FromLogin(cookie)'
  <2>1. cookie'.n <= logins' BY <1>1, <1>2
  <2> QED BY <1>1, <1>2, <2>1 DEF Known, FromLogin
<1>8. \A c \in live' : Known(c)'
  <2>1. \A c \in live : Known(c)' BY <1>6 DEF ShopInv, Shop!TypeOK
  <2> QED BY <1>1, <1>7, <2>1 DEF Known
<1>9. \A q \in Requests : req'[q].stale \in Shop!Cookies /\ Known(req'[q].stale)
  <2>1. \A q \in Requests : req[q].stale \in Shop!Cookies
    BY ShopFacts DEF Shop!RequestType
  <2> QED BY <1>4, <2>1, ShopFacts
<1>10. \A q \in Requests : req'[q].at \in Holding <=> mutex' = q
  BY <1>1, <1>4, ShopFacts DEF Holding
<1>11. ASSUME NEW q \in Requests PROVE Known(req[q].stale)' /\ Stale(req[q])'
  <2>1. Known(req[q].stale)' /\ req'[q].stale # session
    BY <1>6, <1>9 DEF Known
  <2>2. req'[q].at # "login" BY <1>1, <1>4, ShopFacts DEF Holding
  <2>3. req'[q].at \in {"idle", "ensure", "stale"} => ~req'[q].again
    BY <1>4, ShopFacts DEF Stale
  <2> QED BY <1>1, <2>1, <2>2, <2>3 DEF Stale
<1>12. Owed'
  <2>1. Paid BY <1>1 DEF ShopInv, Owed, Stale
  <2>2. logins + 1 <= 1 + expired + clashes + changes
    BY <2>1, ShopFacts DEF Paid
  <2> QED BY <1>1, <1>7, <2>2 DEF Owed, FromLogin
<1>13. ASSUME Quiet', NEW q \in Requests PROVE Undisturbed(req[q])'
  <2>1. Quiet /\ expired' = expired /\ clashes' = clashes BY <1>1, <1>13 DEF Quiet
  <2>2. cookie = NoCookie /\ cookie' # NoCookie /\ cookie' \in live' /\ ~Dead'
    BY <1>1, <1>2, <2>1 DEF Undisturbed, Dead
  <2>5. Calm' => expired = 0 /\ clashes = 0
    <3>1. clashes > 0 => logins > 0 BY <2>1 DEF ShopInv
    <3> QED BY <1>1, <2>1, <3>1, ShopFacts DEF Calm
  <2>6. Calm' => Calm BY <2>5 DEF Calm
  <2>7. req'[q].stale # cookie'
    BY <1>1, <1>6, <1>9
  <2>3. CASE q = r
    <3>1. req'[q].again => expired + clashes = 1 BY <1>1, <1>4, <2>1, <2>3 DEF Undisturbed
    <3>2. Calm' => ~req'[q].again BY <2>5, <3>1, ShopFacts
    <3> QED BY <1>4, <2>1, <2>2, <2>3, <2>7, <3>1, <3>2 DEF Undisturbed
  <2>4. CASE q # r
    <3>1. /\ req'[q] = req[q] /\ Undisturbed(req[q]) /\ req[q].at \notin Holding
      BY <1>4, <2>1, <2>4, ShopFacts DEF ShopInv
    <3>2. req[q].sent \in live => req[q].sent \in live' BY <1>1
    <3>3. Calm' => /\ ~req[q].again
                   /\ req[q].at \notin {"stale", "send", "sent"}
      BY <2>2, <2>5, <2>6, <3>1, ShopFacts DEF Undisturbed
    <3> QED BY <2>1, <2>2, <2>7, <3>1, <3>2, <3>3 DEF Undisturbed, Holding
  <2> QED BY <2>3, <2>4
<1>14. cookie' # NoCookie /\ ~Dead'
  BY <1>1, <1>2 DEF Dead
<1>15. logins' > 0 BY <1>1, <1>2
<1> QED
  BY <1>5, <1>7, <1>8, <1>10, <1>11, <1>12, <1>13, <1>14, <1>15 DEF ShopInv, Holding

LEMMA ExpireStep ==
  ASSUME ShopInv, Shop!Expire
  PROVE  ShopInv'
<1>1. /\ expired < MaxExpired /\ expired' = expired + 1 /\ live' \subseteq live
      /\ UNCHANGED <<cookie, logins, mutex, req, config, clashes, changes, faults>>
  BY DEF Shop!Expire
<1>2. /\ expired \in Nat /\ logins \in Nat /\ changes \in Nat /\ MaxExpired \in Nat
      /\ clashes \in Nat /\ expired \in 0..MaxExpired
  BY ShopAssumption DEF ShopInv, Shop!TypeOK
<1>3. expired + 1 \in 0..MaxExpired BY <1>1, <1>2
<1>4. Shop!TypeOK' BY <1>1, <1>3 DEF ShopInv, Shop!TypeOK
<1>5. Known(cookie)' /\ \A c \in live' : Known(c)'
  BY <1>1 DEF ShopInv, Known
<1>0. Paid'
  <2>1. logins <= 1 + expired + clashes + changes BY DEF ShopInv, Owed
  <2> QED BY <1>1, <1>2, <2>1 DEF Paid
<1>6. \A q \in Requests : Known(req[q].stale)' /\ Stale(req[q])'
  BY <1>0, <1>1 DEF ShopInv, Known, Stale, FromLogin
<1>7. \A q \in Requests : req'[q].at \in Holding <=> mutex' = q BY <1>1 DEF ShopInv
<1>8. Owed'
  <2>1. logins <= 1 + expired + clashes + changes BY DEF ShopInv, Owed
  <2>2. logins <= 1 + expired' + clashes' + changes'
    BY <1>1, <1>2, <2>1
  <2> QED BY <1>0, <1>1, <2>2 DEF Owed
<1>9. ASSUME Quiet'
      PROVE  /\ cookie' # NoCookie => FromLogin(cookie)'
             /\ expired' = 1 /\ clashes' = 0
             /\ \A q \in Requests : Undisturbed(req[q])'
  <2>1. Quiet /\ expired = 0 /\ expired' = 1 /\ clashes = 0 /\ clashes' = 0
    BY <1>1, <1>2, <1>9 DEF Quiet
  <2>2. Calm /\ ~Calm' BY <2>1 DEF Calm
  <2>4. \A q \in Requests : Undisturbed(req[q]) /\ ~req[q].again
    BY <2>1 DEF ShopInv, Undisturbed
  <2>3. \A q \in Requests : Undisturbed(req[q])'
    BY <1>1, <2>1, <2>2, <2>4 DEF Undisturbed, Dead
  <2> QED BY <1>1, <2>1, <2>3 DEF ShopInv, FromLogin
<1> QED
  BY <1>4, <1>5, <1>6, <1>7, <1>8, <1>9 DEF ShopInv, Holding

LEMMA SetConfigStep ==
  ASSUME ShopInv, NEW new \in Shop!Configs, Shop!SetConfig(new)
  PROVE  ShopInv'
<1>1. /\ changes < MaxChanges /\ changes' = changes + 1 /\ config' = new
      /\ UNCHANGED <<live, logins, mutex, req, expired, clashes, faults>>
      /\ cookie' \in {cookie, NoCookie, Shop!Pasted(new.acct)}
  BY DEF Shop!SetConfig
<1>2. /\ expired \in Nat /\ logins \in Nat /\ changes \in Nat /\ MaxChanges \in Nat
      /\ clashes \in Nat
      /\ changes \in 0..MaxChanges
  BY ShopAssumption DEF ShopInv, Shop!TypeOK
<1>3. changes + 1 \in 0..MaxChanges /\ changes + 1 # 0 BY <1>1, <1>2
<1>4. /\ Shop!Pasted(new.acct) \in Shop!Cookies
      /\ Shop!Pasted(new.acct).n = 0
  BY DEF Shop!Pasted, Shop!Cookies, Shop!Configs
<1>5. NoCookie \in Shop!Cookies /\ cookie \in Shop!Cookies
  BY DEF ShopInv, Shop!TypeOK, Shop!Cookies
<1>6. Shop!TypeOK' BY <1>1, <1>3, <1>4, <1>5 DEF ShopInv, Shop!TypeOK
<1>7. cookie' = cookie \/ (~FromLogin(cookie)' /\ (cookie' # NoCookie => cookie'.n = 0))
  BY <1>1, <1>4 DEF FromLogin
<1>8. Known(cookie)' /\ \A c \in live' : Known(c)'
  BY <1>1, <1>2, <1>7 DEF ShopInv, Known
<1>0. Paid'
  <2>1. logins <= 1 + expired + clashes + changes BY DEF ShopInv, Owed
  <2> QED BY <1>1, <1>2, <2>1 DEF Paid
<1>9. \A q \in Requests : Known(req[q].stale)' /\ Stale(req[q])'
  BY <1>0, <1>1, <1>7 DEF ShopInv, Known, Stale, FromLogin
<1>10. \A q \in Requests : req'[q].at \in Holding <=> mutex' = q BY <1>1 DEF ShopInv
<1>11. Owed'
  <2>1. logins <= 1 + expired + clashes + changes BY DEF ShopInv, Owed
  <2>2. logins <= 1 + expired' + clashes' + changes'
    BY <1>1, <1>2, <2>1
  <2> QED BY <1>0, <1>1, <2>2 DEF Owed
<1>12. ~Quiet' BY <1>1, <1>3 DEF Quiet
<1> QED
  BY <1>6, <1>8, <1>9, <1>10, <1>11, <1>12 DEF ShopInv, Holding

LEMMA ShopStep ==
  ASSUME ShopInv, [Shop!Next]_(Shop!vars)
  PROVE  ShopInv'
<1>1. CASE UNCHANGED Shop!vars
  <2>1. UNCHANGED <<cookie, config, live, logins, mutex, req, expired, clashes, changes, faults>>
    BY <1>1 DEF Shop!vars
  <2>2. Shop!TypeOK' BY <2>1 DEF ShopInv, Shop!TypeOK
  <2>3. Owed' BY <2>1 DEF ShopInv, Owed, Paid, FromLogin
  <2>4. \A q \in Requests : Stale(req[q])' BY <2>1 DEF ShopInv, Stale, Paid, FromLogin
  <2>5. Quiet' => \A q \in Requests : Undisturbed(req[q])'
    BY <2>1 DEF ShopInv, Quiet, Undisturbed, Dead, Calm, FromLogin
  <2> QED
    BY <2>1, <2>2, <2>3, <2>4, <2>5 DEF ShopInv, Known, Quiet, Dead, FromLogin, Holding
<1>2. CASE \E r \in Requests : Shop!Start(r) \/ Shop!Step(r)
  BY <1>2, StartStep, EnsureCookieStep, LockStep, UseRenewedStep, BeginLoginStep,
     LoginAcceptedStep, LoginUnclearStep, LoginErrsStep, LoginRefusedStep, LoginLooksStep,
     ConfirmStep, ReadStaleStep, SendStep, AnsweredStep, SaysExpiredStep, ClashesStep,
     CallFailsStep
     DEF Shop!Step
<1>3. CASE Shop!Expire BY <1>3, ExpireStep
<1>4. CASE \E new \in Shop!Configs : Shop!SetConfig(new) BY <1>4, SetConfigStep
<1> QED BY <1>1, <1>2, <1>3, <1>4 DEF Shop!Next

LEMMA ShopHolds ==
  ASSUME ShopInv
  PROVE  SessionIsShared
<1>1. Shop!LoginsBounded BY DEF ShopInv, Owed, Shop!LoginsBounded
<1>2. Shop!OneExpirySurvived
  <2> SUFFICES ASSUME NEW r \in Requests, req[r].at = "failed"
               PROVE  faults > 0 \/ changes > 0 \/ expired + clashes > 1
    BY DEF Shop!OneExpirySurvived
  <2>1. ~Quiet BY DEF ShopInv, Undisturbed
  <2> QED BY <2>1, ShopFacts DEF Quiet
<1> QED BY <1>1, <1>2 DEF SessionIsShared, Shop!SessionIsShared

\* However many requests find no session, or find it over, at once, and however logins fail,
\* sessions end, the shop turns calls away because of others and staff change the account:
\* the service logs in at most once at first and once more for each session that ended, each
\* call turned away and each change; and no request fails because of one such answer
\* (ensureMCYCookie, refreshMCYCookie, mcyRetryCardGetAfterRelogin).
THEOREM OneLoginForAll == Shop!Spec => []SessionIsShared
BY ShopStart, ShopStep, ShopHolds, PTL DEF Shop!Spec

(***************************************************************************)
(* The two together                                                        *)
(***************************************************************************)

\* What the runs check of the lock and of the session holds of both together.
THEOREM AccessIsSound ==
  PartsSpec => [](MutualExclusion /\ NoIdleEntry /\ SessionIsShared)
<1> DEFINE Inv == TypeOK /\ LockInv /\ ShopInv
<1>1. PartsInit => Inv BY LockInit, ShopStart DEF PartsInit
<1>2. ASSUME Inv, [PartsNext]_allVars PROVE Inv'
  <2>1. [Next]_vars BY <1>2 DEF PartsNext, allVars, vars
  <2>2. [Shop!Next]_(Shop!vars) BY <1>2 DEF PartsNext, allVars, shopVars, Shop!vars
  <2> QED BY <1>2, <2>1, <2>2, RegistryStep, ShopStep
<1>3. Inv => MutualExclusion /\ NoIdleEntry /\ SessionIsShared BY LockHolds, ShopHolds
<1>4. QED BY <1>1, <1>2, <1>3, PTL DEF PartsSpec
=============================================================================
