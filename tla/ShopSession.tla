---------------------------- MODULE ShopSession ----------------------------
(***************************************************************************)
(* The session of the service at the shop (shop_session.go, shop_login.go, *)
(* shop_http.go, shop_inventory.go, mcy_config.go).                        *)
(*                                                                         *)
(* One cookie is shared by all requests.  A request that finds none, or    *)
(* whose answer says that the session has expired, logs in; a mutex and a  *)
(* second look at the cookie keep the others from logging in as well.  The *)
(* cookie is read again and again without the mutex, and staff may replace *)
(* the account while requests are under way.                               *)
(*                                                                         *)
(* A cookie is a record [acct, n]: the account it belongs to and a number, *)
(* 0 for the cookie staff may paste into the configuration.                *)
(***************************************************************************)
EXTENDS Naturals

CONSTANTS
  Requests,      \* requests of handlers that need the shop
  Accounts,      \* accounts staff may configure
  First,         \* the account configured at first
  NoCookie,      \* no session
  NoRequest,     \* nobody holds the mutex
  MaxExpired,    \* bound: sessions that the shop ends
  MaxClashes,    \* bound: calls turned away because another one uses the session
  MaxChanges,    \* bound: configurations staff save
  MaxFaults      \* bound: calls of the shop that fail

VARIABLES
  cookie,    \* mcyCookie
  config,    \* mcyRuntimeConfig: the account, and whether a cookie was pasted
  live,      \* sessions the shop honours
  logins,    \* number of sessions the shop opened for the service
  mutex,     \* mcyLoginMu
  req,       \* per request: where it is and what it has read
  expired, clashes, changes, faults

vars == <<cookie, config, live, logins, mutex, req, expired, clashes, changes, faults>>

\* A login is tried plainly, then at two encrypted endpoints.
MaxAttempts == 3

Configs == [acct : Accounts, pasted : BOOLEAN]
Cookies == [acct : Accounts, n : Nat] \cup {NoCookie}
Pasted(acct) == [acct |-> acct, n |-> 0]

Places == {"idle", "ensure", "waiting", "locked", "login", "loggedIn", "confirm", "stale",
           "send", "sent", "ok", "failed"}

RequestType == [at : Places, again : BOOLEAN, stale : Cookies, sent : Cookies,
                acct : Accounts, attempt : 0..MaxAttempts]

NewRequest == [at |-> "idle", again |-> FALSE, stale |-> NoCookie, sent |-> NoCookie,
               acct |-> First, attempt |-> 0]

Init ==
  /\ cookie = NoCookie /\ config = [acct |-> First, pasted |-> FALSE]
  /\ live \in SUBSET {Pasted(First)}
  /\ logins = 0 /\ mutex = NoRequest
  /\ req = [r \in Requests |-> NewRequest]
  /\ expired = 0 /\ clashes = 0 /\ changes = 0 /\ faults = 0

\* What a request has read is forgotten when it ends.
Go(r, place) ==
  req' = [req EXCEPT ![r] = IF place \in {"ok", "failed"} THEN [NewRequest EXCEPT !.at = place]
                            ELSE [@ EXCEPT !.at = place]]

\* Seeded fault: the mutex is kept when the login fails.
Leave_UnlessFailed(r, place) ==
  Go(r, place) /\ mutex' = IF place = "failed" THEN mutex ELSE NoRequest

\* Giving the mutex back on the way to a place.
Leave(r, place) == Go(r, place) /\ mutex' = NoRequest

Fault == faults < MaxFaults /\ faults' = faults + 1

Shop  == <<live, logins>>
Env   == <<config, expired, clashes, changes>>

(***************************************************************************)
(* Getting a session                                                       *)
(***************************************************************************)

Start(r) ==
  /\ req[r].at = "idle" /\ Go(r, "ensure")
  /\ UNCHANGED <<cookie, mutex, faults, Shop, Env>>

\* ensureMCYCookie: a first look without the mutex.
EnsureCookie(r) ==
  /\ req[r].at = "ensure"
  /\ Go(r, IF cookie # NoCookie THEN "stale" ELSE "waiting")
  /\ UNCHANGED <<cookie, mutex, faults, Shop, Env>>

Lock(r) ==
  /\ req[r].at = "waiting" /\ mutex = NoRequest
  /\ mutex' = r /\ Go(r, "locked")
  /\ UNCHANGED <<cookie, faults, Shop, Env>>

\* Seeded fault: whoever saw an expired session logs in.
Renewed_Never(r) == ~req[r].again /\ cookie # NoCookie

\* Seeded fault: the session that expired is taken for a new one.
Renewed_AnyCookie(r) == cookie # NoCookie

\* Somebody else got a session while this request waited for the mutex.
Renewed(r) == cookie # NoCookie /\ (req[r].again => cookie # req[r].stale)

\* Where a request goes with a session: to its first call or to the call once more.
Resume(r) == IF req[r].again THEN "send" ELSE "stale"

UseRenewed(r) ==
  /\ req[r].at = "locked" /\ Renewed(r)
  /\ Leave(r, Resume(r))
  /\ UNCHANGED <<cookie, faults, Shop, Env>>

\* A refresh forgets the stale cookie.  The login reads the configuration once.
BeginLogin(r) ==
  /\ req[r].at = "locked" /\ ~Renewed(r)
  /\ cookie' = IF req[r].again THEN NoCookie ELSE cookie
  /\ req' = [req EXCEPT ![r].at = "login", ![r].acct = config.acct, ![r].attempt = 1]
  /\ UNCHANGED <<mutex, faults, Shop, Env>>

\* The shop opens a session and the answer carries its cookie.
LoginAccepted(r) ==
  LET session == [acct |-> req[r].acct, n |-> logins + 1]
  IN  /\ req[r].at = "login"
      /\ logins' = logins + 1 /\ live' = live \cup {session} /\ cookie' = session
      /\ Go(r, "loggedIn")
      /\ UNCHANGED <<mutex, faults, Env>>

\* The next endpoint is tried, if there is one.
NextAttempt(r) ==
  IF req[r].attempt < MaxAttempts
  THEN /\ req' = [req EXCEPT ![r].at = "login", ![r].attempt = @ + 1]
       /\ UNCHANGED mutex
  ELSE Leave(r, "failed")

\* An answer without an error, nor a cookie.
LoginUnclear(r) ==
  /\ req[r].at = "login" /\ Fault
  /\ Go(r, "loggedIn")
  /\ UNCHANGED <<cookie, mutex, Shop, Env>>

\* An error after which another endpoint may know better: nobody looks at the cookie.
LoginErrs(r) ==
  /\ req[r].at = "login" /\ Fault
  /\ NextAttempt(r)
  /\ UNCHANGED <<cookie, Shop, Env>>

\* Wrong credentials, or no answer at all.
LoginRefused(r) ==
  /\ req[r].at = "login" /\ Fault
  /\ Leave(r, "failed")
  /\ UNCHANGED <<cookie, Shop, Env>>

\* After an answer mcyLogin is content when there is a cookie, whoever set it.
LoginLooks(r) ==
  /\ req[r].at = "loggedIn" /\ UNCHANGED <<cookie, faults, Shop, Env>>
  /\ IF cookie # NoCookie THEN Go(r, "confirm") /\ UNCHANGED mutex ELSE NextAttempt(r)

\* The caller of the login looks once more.
Confirm(r) ==
  /\ req[r].at = "confirm"
  /\ Leave(r, IF cookie = NoCookie THEN "failed" ELSE Resume(r))
  /\ UNCHANGED <<cookie, faults, Shop, Env>>

(***************************************************************************)
(* Calls with the session                                                  *)
(***************************************************************************)

\* The cookie a refresh will take for stale is read before the one that is sent.
ReadStale(r) ==
  /\ req[r].at = "stale"
  /\ req' = [req EXCEPT ![r].at = "send", ![r].stale = cookie]
  /\ UNCHANGED <<cookie, mutex, faults, Shop, Env>>

Send(r) ==
  /\ req[r].at = "send"
  /\ req' = [req EXCEPT ![r].at = "sent", ![r].sent = cookie, ![r].attempt = 0]
  /\ UNCHANGED <<cookie, mutex, faults, Shop, Env>>

Answered(r) ==
  /\ req[r].at = "sent" /\ req[r].sent \in live
  /\ Go(r, "ok")
  /\ UNCHANGED <<cookie, mutex, faults, Shop, Env>>

\* One more try with another session.
TryAgain(r) ==
  IF req[r].again THEN Go(r, "failed")
  ELSE req' = [req EXCEPT ![r].at = "waiting", ![r].again = TRUE]

\* The shop says that the session is over.
SaysExpired(r) ==
  /\ req[r].at = "sent" /\ req[r].sent \notin live
  /\ TryAgain(r)
  /\ UNCHANGED <<cookie, mutex, faults, Shop, Env>>

\* The shop says so of a living session too, when it has another call of it under way.
Clashes(r) ==
  /\ req[r].at = "sent" /\ req[r].sent \in live
  /\ \E q \in Requests \ {r} : req[q].at = "sent" /\ req[q].sent = req[r].sent
  /\ clashes < MaxClashes /\ clashes' = clashes + 1
  /\ TryAgain(r)
  /\ UNCHANGED <<cookie, config, expired, changes, mutex, faults, Shop>>

\* No answer, an unreadable one, a refusal, or 401 and 403, which are not retried.
CallFails(r) ==
  /\ req[r].at = "sent" /\ Fault
  /\ Go(r, "failed")
  /\ UNCHANGED <<cookie, mutex, Shop, Env>>

(***************************************************************************)
(* The shop and the staff                                                  *)
(***************************************************************************)

Expire ==
  /\ expired < MaxExpired /\ expired' = expired + 1
  /\ \E session \in live : live' = live \ {session}
  /\ UNCHANGED <<cookie, logins, mutex, req, config, clashes, changes, faults>>

\* SetMCYRuntimeConfig: a pasted cookie is used, a change of account drops the cookie.
SetConfig(new) ==
  /\ changes < MaxChanges /\ changes' = changes + 1
  /\ config' = new
  /\ cookie' = IF new.pasted THEN Pasted(new.acct)
               ELSE IF new.acct # config.acct \/ config.pasted THEN NoCookie ELSE cookie
  /\ UNCHANGED <<live, logins, mutex, req, expired, clashes, faults>>

Step(r) ==
  \/ EnsureCookie(r) \/ Lock(r) \/ UseRenewed(r) \/ BeginLogin(r) \/ LoginAccepted(r)
  \/ LoginUnclear(r) \/ LoginErrs(r) \/ LoginRefused(r) \/ LoginLooks(r) \/ Confirm(r)
  \/ ReadStale(r) \/ Send(r) \/ Answered(r) \/ SaysExpired(r) \/ Clashes(r) \/ CallFails(r)

Next ==
  \/ \E r \in Requests : Start(r) \/ Step(r)
  \/ Expire
  \/ \E new \in Configs : SetConfig(new)

\* Goroutines run on, calls end at the latest with the client's timeout of 15 seconds, and
\* a mutex of Go lets everybody in who waits; requests, expiry and staff need not happen.
Fairness == \A r \in Requests : SF_vars(Step(r))

Spec == Init /\ [][Next]_vars /\ Fairness

(***************************************************************************)
(* Properties                                                              *)
(***************************************************************************)

TypeOK ==
  /\ cookie \in Cookies /\ config \in Configs /\ live \subseteq Cookies
  /\ logins \in Nat /\ mutex \in Requests \cup {NoRequest}
  /\ req \in [Requests -> RequestType]
  /\ expired \in 0..MaxExpired /\ clashes \in 0..MaxClashes
  /\ changes \in 0..MaxChanges /\ faults \in 0..MaxFaults

\* However many requests find the session missing or over at once, the service logs in once
\* at first and once more for every session that ended, call that the shop turned away
\* because of another one, or configuration that was saved (ensureMCYCookie,
\* refreshMCYCookie).
LoginsBounded == logins <= 1 + expired + clashes + changes

\* A request does not fail because a session ended once, or because the shop turned one call
\* away: it takes a failing call, a new configuration or a second such answer
\* (mcyRetryCardGetAfterRelogin).
OneExpirySurvived ==
  \A r \in Requests :
    req[r].at = "failed" => faults > 0 \/ changes > 0 \/ expired + clashes > 1

\* Both: requests that find the session over share one login, and survive it
\* (shop_session.go, shop_http.go).
SessionIsShared == LoginsBounded /\ OneExpirySurvived

\* The comment of SetMCYRuntimeConfig: after a change of the account the next request
\* logs in with the new values.  It does not hold: a login under way when the
\* configuration is saved leaves the session of the old account behind.
CookieOfAccount ==
  (mutex = NoRequest /\ cookie # NoCookie) => cookie.acct = config.acct
=============================================================================
