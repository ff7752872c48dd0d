------------------------------ MODULE Limiters ------------------------------
(***************************************************************************)
(* The doors that count a client's failures (login_rate_limit.go and       *)
(* login_token.go, admin_login_rate_limit.go and admin_session.go,         *)
(* combine/auth_rate_limit.go and handlers.go) and the door that counts    *)
(* its searches (combine/search_rate_limit.go).                            *)
(*                                                                         *)
(* A request asks the limiter, does its work - for a login a lookup at     *)
(* the upstream - and tells the limiter the outcome with the time it read  *)
(* when it began.  The mutex of the limiter is free in between.  Records   *)
(* are kept per client, so there is one client here; doors share nothing,  *)
(* so a behaviour is about one door.                                       *)
(***************************************************************************)
EXTENDS Integers, Sequences, FiniteSets, SequencesExt

CONSTANTS
  Requests,     \* the client's requests
  Cards,        \* card keys it tries
  CardLimit,    \* unknownLoginFailureLimit, adminLoginFailureLimit, authFailureLimit
  ClientLimit,  \* unknownLoginClientLimit
  Window,       \* ...FailureWindow
  Lockout,      \* ...FailureLockout
  Delay,        \* longest lookup
  SearchLimit,  \* maxSearchRequestsPerClientWindow
  SearchWindow, \* searchRequestWindow
  MaxTime       \* bound: the clock

VARIABLES
  door,         \* the door the client stands at
  now,          \* the clock; 0 is the zero time
  record,       \* failures by limiter key: [count, first, until]
  searches,     \* the client's searchRequestRecord: [count, start]
  req,          \* per request: [at, keys, time]
  begun         \* history: when the searches of the last SearchWindow began

vars == <<door, now, record, searches, req, begun>>

Doors == {"login", "admin", "auth", "search"}
Limited == Cards \cup {"client", "admin", "auth"}
Limit(k) == IF k = "client" THEN ClientLimit ELSE CardLimit

RecordType  == [count : Nat, first : Nat, until : Nat]
SearchType  == [count : Nat, start : Nat]
RequestType == [at : {"idle", "looking", "asking", "searching"}, keys : Seq(Limited), time : Nat]

NoRecord == [count |-> 0, first |-> 0, until |-> 0]
Idle == [at |-> "idle", keys |-> <<>>, time |-> 0]

Init ==
  /\ door \in Doors /\ now = 1
  /\ record = [k \in Limited |-> NoRecord]
  /\ searches = [count |-> 0, start |-> 0]
  /\ req = [r \in Requests |-> Idle]
  /\ begun = <<>>

(***************************************************************************)
(* Failures                                                                *)
(***************************************************************************)

\* The records a door looks at, in this order.
KeysOf(card) == IF door = "login" THEN <<"client", card>> ELSE <<door>>

Blocked(k) == record[k].until # 0 /\ now < record[k].until

\* Looking at a record that does not block may forget it; the administration of combine
\* starts anew after every lockout, the others when the window is over.
Outlived(k) ==
  \/ record[k].first # 0 /\ now - record[k].first > Window
  \/ door = "auth" /\ record[k].until # 0

Looked(keys) == [k \in Limited |-> IF k \in Range(keys) /\ ~Blocked(k) /\ Outlived(k)
                                   THEN NoRecord ELSE record[k]]

\* allow, authBlockedUntil: the first record that blocks ends the request.
Refuse(r, card) ==
  LET keys == KeysOf(card)
      i == SelectInSeq(keys, Blocked)
  IN  /\ door # "search" /\ req[r].at = "idle" /\ i # 0
      /\ record' = Looked(SubSeq(keys, 1, i))
      /\ UNCHANGED <<door, now, searches, req, begun>>

Admit(r, card) ==
  LET keys == KeysOf(card)
  IN  /\ door # "search" /\ req[r].at = "idle" /\ \A k \in Range(keys) : ~Blocked(k)
      /\ record' = Looked(keys)
      /\ req' = [req EXCEPT ![r] = [at |-> "looking", keys |-> keys, time |-> now]]
      /\ UNCHANGED <<door, now, searches, begun>>

\* Seeded fault: only the failure that reaches the limit locks the client out.
Noted_Once(rec, k, time) ==
  LET base == IF rec.first = 0 \/ time - rec.first > Window
              THEN [NoRecord EXCEPT !.first = time] ELSE rec
  IN  [base EXCEPT !.count = @ + 1,
                   !.until = IF base.count + 1 = Limit(k) THEN time + Lockout ELSE @]

\* record, recordFailure, recordAuthFailure: with the time at which the request began.
Noted(rec, k, time) ==
  LET base == IF rec.first = 0 \/ time - rec.first > Window
              THEN [NoRecord EXCEPT !.first = time] ELSE rec
  IN  [base EXCEPT !.count = @ + 1,
                   !.until = IF base.count + 1 >= Limit(k) THEN time + Lockout ELSE @]

\* The card does not exist, the password or the token is wrong.
Fail(r) ==
  /\ req[r].at = "looking"
  /\ record' = [k \in Limited |-> IF k \in Range(req[r].keys)
                                  THEN Noted(record[k], k, req[r].time) ELSE record[k]]
  /\ req' = [req EXCEPT ![r] = Idle]
  /\ UNCHANGED <<door, now, searches, begun>>

\* A success forgives the failures of its card or door, not those of the client.
Succeed(r) ==
  /\ req[r].at = "looking"
  /\ record' = [record EXCEPT ![Last(req[r].keys)] = NoRecord]
  /\ req' = [req EXCEPT ![r] = Idle]
  /\ UNCHANGED <<door, now, searches, begun>>

\* The lookup itself fails, or the request is malformed.
Break(r) ==
  /\ req[r].at = "looking"
  /\ req' = [req EXCEPT ![r] = Idle]
  /\ UNCHANGED <<door, now, record, searches, begun>>

(***************************************************************************)
(* Searches                                                                *)
(***************************************************************************)

\* tryBeginClientSearch: one search of a client at a time.
BeginSearch(r) ==
  /\ door = "search" /\ req[r].at = "idle" /\ \A s \in Requests : req[s].at = "idle"
  /\ req' = [req EXCEPT ![r] = [at |-> "asking", keys |-> <<>>, time |-> now]]
  /\ UNCHANGED <<door, now, record, searches, begun>>

\* Seeded fault: the window slides with every search that is let in.
Counted_Sliding(rec, time) ==
  IF rec.start = 0 \/ time >= rec.start + SearchWindow
  THEN [count |-> 1, start |-> time] ELSE [count |-> rec.count, start |-> time]

Counted(rec, time) ==
  IF rec.start = 0 \/ time >= rec.start + SearchWindow
  THEN [count |-> 1, start |-> time] ELSE [rec EXCEPT !.count = @ + 1]

\* allowClientSearchRequest; endClientSearch is deferred.
CountSearch(r) ==
  LET counted == Counted(searches, req[r].time)
  IN  /\ req[r].at = "asking"
      /\ \/ /\ counted.count <= SearchLimit
            /\ searches' = counted
            /\ req' = [req EXCEPT ![r].at = "searching"]
            /\ begun' = Append(begun, now)
         \/ /\ counted.count > SearchLimit
            /\ req' = [req EXCEPT ![r] = Idle] /\ UNCHANGED <<searches, begun>>
      /\ UNCHANGED <<door, now, record>>

EndSearch(r) ==
  /\ req[r].at = "searching"
  /\ req' = [req EXCEPT ![r] = Idle]
  /\ UNCHANGED <<door, now, record, searches, begun>>

(***************************************************************************)
(* Time                                                                    *)
(***************************************************************************)

\* No request is under way for longer than Delay.  Searches older than SearchWindow, which
\* come first, are forgotten.
Tick ==
  /\ now < MaxTime /\ \A r \in Requests : req[r].at # "idle" => now < req[r].time + Delay
  /\ now' = now + 1
  /\ \E i \in 0..Len(begun) :
       /\ \A j \in 1..Len(begun) : j > i <=> begun[j] + SearchWindow > now + 1
       /\ begun' = SubSeq(begun, i + 1, Len(begun))
  /\ UNCHANGED <<door, record, searches, req>>

Next ==
  \/ \E r \in Requests :
       \/ \E card \in Cards : Refuse(r, card) \/ Admit(r, card)
       \/ Fail(r) \/ Succeed(r) \/ Break(r)
       \/ BeginSearch(r) \/ CountSearch(r) \/ EndSearch(r)
  \/ Tick

Spec == Init /\ [][Next]_vars

(***************************************************************************)
(* Properties                                                              *)
(***************************************************************************)

TypeOK ==
  /\ door \in Doors /\ now \in 1..MaxTime
  /\ record \in [Limited -> RecordType] /\ searches \in SearchType
  /\ req \in [Requests -> RequestType] /\ begun \in Seq(1..now)

\* Requests sent together all pass the limiter before it hears of the first failure, and
\* a late answer shortens a lockout by the time it took.  Still, when lookups are shorter
\* than lockouts, a client fails within a window, after the failures that lead to the
\* first lockout, at most once per request under way for each lockout that fits into it
\* (lookupLoginToken, handleUnifiedAdminSessionAPI, handleAuth).
LookupsBounded ==
  \A k \in Limited :
    record[k].count <=
      Limit(k) - 1 + Cardinality(Requests) * (1 + (Window + Delay) \div (Lockout - Delay))

\* A client runs one search at a time, and in any SearchWindow begins no more than what
\* two windows allow (tryBeginClientSearch, allowClientSearchRequest).
SearchesBounded ==
  /\ Len(begun) <= 2 * SearchLimit
  /\ \A r, s \in Requests : req[r].at = "searching" /\ req[s].at = "searching" => r = s

\* Both: nobody tries codes, passwords or keys faster than the limiters mean to allow
\* (login_rate_limit.go, auth_rate_limit.go, admin_login_rate_limit.go, search_rate_limit.go).
AttemptsBounded == LookupsBounded /\ SearchesBounded
=============================================================================
