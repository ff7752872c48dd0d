------------------------------ MODULE CardLock ------------------------------
(***************************************************************************)
(* cardLockRegistry (apps/fufu-act/routes.go): the lock that makes the     *)
(* game handlers of one card exclude each other.  The registry holds an    *)
(* entry per card in use, made on demand, counted and thrown away with its *)
(* last user; the entry's own mutex is taken outside the registry's.       *)
(* A section under the registry's mutex is one step.                       *)
(***************************************************************************)
EXTENDS Integers, FiniteSets

CONSTANTS
  Threads,  \* requests being served
  Keys,     \* card keys
  Entries,  \* cardLockEntry objects
  None      \* no entry

ASSUME ThreadsAssumption == IsFiniteSet(Threads)
ASSUME NoneAssumption == None \notin Entries

VARIABLES
  locks,    \* registry: the entry of each key, or None
  refs,     \* per entry: its count of users
  locked,   \* per entry: whether its mutex is taken
  at,       \* per thread: "idle", "waiting", "inside", "leaving"
  key,      \* per thread: the card its request is for
  entry     \* per thread: the entry acquire gave it, or None

vars == <<locks, refs, locked, at, key, entry>>

Users(e) == {t \in Threads : entry[t] = e}
Unused(e) == Users(e) = {} /\ \A k \in Keys : locks[k] # e

Init ==
  /\ locks = [k \in Keys |-> None]
  /\ refs = [e \in Entries |-> 0]
  /\ locked = [e \in Entries |-> FALSE]
  /\ at = [t \in Threads |-> "idle"]
  /\ key \in [Threads -> Keys]
  /\ entry = [t \in Threads |-> None]

\* acquire, under the registry's mutex: the key's entry, or a new one.
EntryFor(k, e) == IF locks[k] # None THEN e = locks[k] ELSE Unused(e)

\* Seeded fault: a new entry counts its maker only from its release on.
Counted_ButNotMaker(k, e) ==
  IF locks[k] = None THEN [refs EXCEPT ![e] = 0] ELSE [refs EXCEPT ![e] = @ + 1]

Counted(k, e) ==
  IF locks[k] = None THEN [refs EXCEPT ![e] = 1] ELSE [refs EXCEPT ![e] = @ + 1]

Acquire(t, k, e) ==
  /\ at[t] = "idle"
  /\ EntryFor(k, e)
  /\ locks' = [locks EXCEPT ![k] = e]
  /\ refs' = Counted(k, e)
  /\ locked' = IF locks[k] = None THEN [locked EXCEPT ![e] = FALSE] ELSE locked
  /\ at' = [at EXCEPT ![t] = "waiting"]
  /\ key' = [key EXCEPT ![t] = k]
  /\ entry' = [entry EXCEPT ![t] = e]

\* entry.mu.Lock
Enter(t) ==
  /\ at[t] = "waiting" /\ ~locked[entry[t]]
  /\ locked' = [locked EXCEPT ![entry[t]] = TRUE]
  /\ at' = [at EXCEPT ![t] = "inside"]
  /\ UNCHANGED <<locks, refs, key, entry>>

\* Seeded fault: a handler that panics keeps the mutex.
Free_UnlessPanic(t) ==
  locked' = locked \/ locked' = [locked EXCEPT ![entry[t]] = FALSE]

Free(t) == locked' = [locked EXCEPT ![entry[t]] = FALSE]

\* The handler returned or panicked; release starts with entry.mu.Unlock.
Unlock(t) ==
  /\ at[t] = "inside"
  /\ Free(t)
  /\ at' = [at EXCEPT ![t] = "leaving"]
  /\ UNCHANGED <<locks, refs, key, entry>>

\* Seeded fault: an entry that others wait for is thrown away too.
Discards_InUse(t) == locks[key[t]] = entry[t]

Discards(t) == refs[entry[t]] = 1 /\ locks[key[t]] = entry[t]

\* release, under the registry's mutex.
Drop(t) ==
  /\ at[t] = "leaving"
  /\ refs' = [refs EXCEPT ![entry[t]] = @ - 1]
  /\ locks' = IF Discards(t) THEN [locks EXCEPT ![key[t]] = None] ELSE locks
  /\ at' = [at EXCEPT ![t] = "idle"]
  /\ entry' = [entry EXCEPT ![t] = None]
  /\ UNCHANGED <<locked, key>>

Next ==
  \E t \in Threads :
    \/ \E k \in Keys : \E e \in Entries : Acquire(t, k, e)
    \/ Enter(t) \/ Unlock(t) \/ Drop(t)

(* A request that waits gets the mutex: sync.Mutex hands it to a waiter    *)
(* that has starved; a handler returns, as its upstream calls time out.    *)
Fairness == \A t \in Threads : SF_vars(Enter(t) \/ Unlock(t) \/ Drop(t))

Spec == Init /\ [][Next]_vars /\ Fairness

-----------------------------------------------------------------------------
(* Properties.                                                             *)

\* Every variable keeps its type.
TypeOK ==
  /\ locks \in [Keys -> Entries \cup {None}]
  /\ refs \in [Entries -> Nat]
  /\ locked \in [Entries -> BOOLEAN]
  /\ at \in [Threads -> {"idle", "waiting", "inside", "leaving"}]
  /\ key \in [Threads -> Keys]
  /\ entry \in [Threads -> Entries \cup {None}]

(* Two handlers of one card never run at once, although the entry they     *)
(* exclude each other with comes and goes (what CardPlay's Enter assumes). *)
MutualExclusion ==
  \A s, t \in Threads :
    at[s] = "inside" /\ at[t] = "inside" /\ key[s] = key[t] => s = t

(* The registry keeps no entry of a card nobody is using, so it does not   *)
(* grow with the number of cards ever seen.                                *)
NoIdleEntry ==
  \A k \in Keys : locks[k] # None =>
    \E t \in Threads : at[t] # "idle" /\ key[t] = k

(* The inductive invariant: the users of a key all use the entry the       *)
(* registry has for it, the count is the number of its users, and the one  *)
(* inside has its mutex.                                                   *)
LockInv ==
  /\ \A t \in Threads : at[t] = "idle" <=> entry[t] = None
  /\ \A t \in Threads : at[t] # "idle" => locks[key[t]] = entry[t]
  /\ \A k, m \in Keys : locks[k] # None /\ locks[k] = locks[m] => k = m
  /\ \A k \in Keys, e \in Entries :
       locks[k] = e => refs[e] = Cardinality(Users(e)) /\ Users(e) # {}
  /\ \A t \in Threads : at[t] = "inside" => locked[entry[t]]
  /\ \A s, t \in Threads :
       at[s] = "inside" /\ at[t] = "inside" /\ entry[s] = entry[t] => s = t
=============================================================================
