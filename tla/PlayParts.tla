----------------------------- MODULE PlayParts ------------------------------
(***************************************************************************)
(* The play of one card, the ledgers of the prizes and the limiters at the *)
(* doors.  They share no state, so a behaviour is about one of them, its   *)
(* focus, and leaves the others at their start.                            *)
(***************************************************************************)
EXTENDS CardPlay, FiniteSets

CONSTANTS
  Parts,                                          \* parts that a behaviour may be about
  Subs, Keys, Tiers, NoTier, Configs, NoRow,      \* PoolLedger
  MaxPrize, MaxChanges, MaxFaults,
  Cards, CardLimit, ClientLimit, Window,          \* Limiters
  Lockout, Delay, SearchLimit, SearchWindow, MaxTime

VARIABLES
  focus,
  config, card, deposit, payout, ledgerReq, changes, faults,
  door, now, record, searches, doorReq, begun

Ledger == INSTANCE PoolLedger WITH Requests <- Reqs, NoCard <- NoRow, req <- ledgerReq

ASSUME LedgerAssumption ==
  /\ Len(Subs) \in Nat /\ DOMAIN Subs = 1..Len(Subs) /\ IsFiniteSet(Keys)
  /\ NoTier \notin Tiers /\ Configs \subseteq Ledger!ConfigType
  /\ NoRow \notin Ledger!Ids /\ NoRow \notin Ledger!Rows
  /\ MaxPrize \in Nat /\ MaxChanges \in Nat /\ MaxFaults \in Nat

Door == INSTANCE Limiters WITH Requests <- Reqs, req <- doorReq

\* The upstream answers, or the client gives up, before a lockout ends (newapi.go gives a
\* call a minute, and so long a lockout lasts).
ASSUME DoorAssumption ==
  /\ IsFiniteSet(Reqs) /\ CardLimit \in Nat \ {0} /\ ClientLimit \in Nat \ {0}
  /\ Window \in Nat /\ Lockout \in Nat /\ Delay \in Nat /\ Delay < Lockout
  /\ SearchLimit \in Nat /\ SearchWindow \in Nat \ {0} /\ MaxTime \in Nat \ {0}

ledgerVars == <<config, card, deposit, payout, ledgerReq, changes, faults>>
doorVars   == <<door, now, record, searches, doorReq, begun>>
allVars    == <<focus, vars, ledgerVars, doorVars>>

\* A part that is not looked at has one initial state.
PartsInit ==
  /\ focus \in Parts
  /\ Init /\ (focus # "play" => ~isTest /\ game = "slot")
  /\ Ledger!Init /\ (focus # "ledger" => config = CHOOSE cfg \in Configs : TRUE)
  /\ Door!Init /\ (focus # "door" => door = "login")

PartsNext ==
  /\ UNCHANGED focus
  /\ \/ focus = "play" /\ Next /\ UNCHANGED <<ledgerVars, doorVars>>
     \/ focus = "ledger" /\ Ledger!Next /\ UNCHANGED <<vars, doorVars>>
     \/ focus = "door" /\ Door!Next /\ UNCHANGED <<vars, ledgerVars>>

PartsSpec == PartsInit /\ [][PartsNext]_allVars

\* A card's deposit is that of the plan its row was written from (deposits at login, and what
\* a later login makes of them).
DepositFollowsCard == Ledger!DepositFollowsCard

\* The pool is overdrawn only by draws that raced for its balance or did not know it, or by
\* a login that takes a deposit back (dynamic prizes and their ledgers).
OverdraftHasCause == Ledger!OverdraftHasCause

\* Nobody tries codes, passwords or keys faster than the limiters mean to allow.
AttemptsBounded == Door!AttemptsBounded
=============================================================================
