---------------------------- MODULE AccessParts -----------------------------
(***************************************************************************)
(* What requests wait for: the lock of their card and the shop's session.  *)
(* The two share no state, so a behaviour is about one of them, its focus, *)
(* and leaves the other at its start, where its fairness asks for nothing: *)
(* its threads or requests are idle.                                       *)
(***************************************************************************)
EXTENDS CardLock, Naturals

CONSTANTS
  Parts,      \* parts that a behaviour may be about
  Watched,    \* threads and requests that are asked to be served in the end
  Requests, NoRequest, Accounts, First, NoCookie,
  MaxExpired, MaxClashes, MaxChanges, MaxFaults   \* those of ShopSession

ASSUME ShopAssumption ==
  /\ First \in Accounts /\ NoRequest \notin Requests
  /\ NoCookie \notin [acct : Accounts, n : Nat]
  /\ MaxExpired \in Nat /\ MaxClashes \in Nat /\ MaxChanges \in Nat /\ MaxFaults \in Nat

VARIABLES focus, cookie, config, live, logins, mutex, req, expired, clashes, changes, faults

Shop == INSTANCE ShopSession

shopVars == <<cookie, config, live, logins, mutex, req, expired, clashes, changes, faults>>
allVars  == <<focus, vars, shopVars>>

\* A part that is not looked at has one initial state.
PartsInit ==
  /\ focus \in Parts
  /\ Init /\ (focus # "lock" => key = [t \in Threads |-> CHOOSE k \in Keys : TRUE])
  /\ Shop!Init /\ (focus # "shop" => live = {})

PartsNext ==
  /\ UNCHANGED focus
  /\ \/ focus = "lock" /\ Next /\ UNCHANGED shopVars
     \/ focus = "shop" /\ Shop!Next /\ UNCHANGED vars

PartsSpec == PartsInit /\ [][PartsNext]_allVars /\ Fairness /\ Shop!Fairness

\* Requests that find the session over together share one login and are answered
\* nevertheless (shop_session.go, shop_http.go).
SessionIsShared == Shop!SessionIsShared

\* The cookie is one of the account that is configured (mcy_config.go).
CookieOfAccount == Shop!CookieOfAccount

\* Whoever waits for the lock of a card gets it, whoever comes and goes meanwhile
\* (cardLockRegistry), and every request to the shop is answered or fails, however many
\* log in at once (ensureMCYCookie, refreshMCYCookie).  This is said of the requests in
\* Watched: all requests are alike, so one is enough.
EveryoneServed ==
  \A t \in Watched :
    (at[t] = "waiting" \/ req[t].at # "idle") ~> (at[t] = "inside" \/ req[t].at \in {"ok", "failed"})
=============================================================================
