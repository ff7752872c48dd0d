---------------------------- MODULE TokenService ----------------------------
(***************************************************************************)
(* What the token service makes of the answers of the upstream (tokens):   *)
(* how the key of a new token is found out, and how a token is picked from *)
(* a page of search results.                                               *)
(*                                                                         *)
(* Operators only.  A key is a record [bare, mask]: mask says that the     *)
(* upstream replaced part of it by stars.  EmptyKey is an empty key.  A    *)
(* failing call is Failed; the answers of the upstream are parameters.     *)
(***************************************************************************)
EXTENDS Integers, Sequences, FiniteSetsExt

EmptyKey == [bare |-> "", mask |-> FALSE]
Failed == [failed |-> TRUE]
Answer(value) == [failed |-> FALSE, value |-> value]
Error(why) == [ok |-> FALSE, why |-> why]

(***************************************************************************)
(* Keys                                                                    *)
(***************************************************************************)

IsMaskedKey(key) == key.mask

\* Seeded fault: a masked key passes for a key.
FullUnmaskedKey_AnyKey(key) == key

FullUnmaskedKey(key) == IF IsMaskedKey(key) THEN EmptyKey ELSE key

\* The keys of a batch answer, without the empty ones; an answer without any is a failure.
BatchKeys(answer) ==
  LET known == {id \in DOMAIN answer.value : id > 0 /\ answer.value[id] # EmptyKey}
  IN  IF answer.failed \/ known = {} THEN Failed
      ELSE Answer([id \in known |-> answer.value[id]])

SingleKey(answer) == IF answer.failed \/ answer.value = EmptyKey THEN Failed ELSE answer

\* The key of a token: asked for in a batch, alone, and as a part of the token.
ResolveTokenKey(id, up) ==
  LET batch  == BatchKeys(up.batch)
      single == SingleKey(up.single)
  IN  IF ~batch.failed /\ id \in DOMAIN batch.value THEN Answer(batch.value[id])
      ELSE IF ~single.failed THEN single
      ELSE IF ~up.detail.failed /\ FullUnmaskedKey(up.detail.value.key) # EmptyKey THEN
             Answer(FullUnmaskedKey(up.detail.value.key))
      ELSE Failed

(***************************************************************************)
(* Search results: a page is a sequence of tokens [id, name, key]          *)
(***************************************************************************)

\* The first of the tokens at some positions of a page.
FirstOf(page, fit) == IF fit = {} THEN <<>> ELSE <<page[Min(fit)]>>

ByName(page, name) == FirstOf(page, {i \in DOMAIN page : page[i].name = name})

\* Only a token with exactly the name asked for counts.
SearchTokenByName(name, up) ==
  IF name = "" THEN Answer(<<>>)
  ELSE IF up.search.failed THEN Failed ELSE Answer(ByName(up.search.value, name))

(***************************************************************************)
(* Making a token and finding out its key                                  *)
(***************************************************************************)

HasIdentity(token) == token.id > 0 \/ token.name # "" \/ token.key # EmptyKey

\* The answer may describe the token, as a field, as the answer itself or as a list.
CreatedToken(payloads) == FirstOf(payloads, {i \in DOMAIN payloads : HasIdentity(payloads[i])})

\* up: [create, search, batch, single, detail], the answers to the calls in turn.
CreateTokenAndResolveKey(name, up) ==
  LET told   == IF up.create.failed THEN <<>> ELSE CreatedToken(up.create.value)
      key    == IF told = <<>> THEN EmptyKey ELSE FullUnmaskedKey(told[1].key)
      search == SearchTokenByName(name, up)
      found  == IF search.failed THEN <<>> ELSE search.value
      listed == FullUnmaskedKey(found[1].key)
      asked  == ResolveTokenKey(found[1].id, up)
      Made(id, k) == [ok |-> TRUE, id |-> id, key |-> k]
  IN  IF up.create.failed THEN Error("create")
      ELSE IF key # EmptyKey /\ told[1].id <= 0 /\ found # <<>> THEN Made(found[1].id, key)
      ELSE IF key # EmptyKey THEN Made(told[1].id, key)
      ELSE IF name = "" \/ search.failed THEN Error("search")
      ELSE IF found = <<>> \/ found[1].id <= 0 THEN Error("not found")
      ELSE IF listed # EmptyKey THEN Made(found[1].id, listed)
      ELSE IF asked.failed THEN Error("key")
      ELSE Made(found[1].id, asked.value)

(***************************************************************************)
(* Properties                                                              *)
(***************************************************************************)

\* What an upstream that tells the truth may say of a token: it may leave out any part of
\* it and mask its key.
View(own) == [id : {0, own.id}, name : {"", own.name},
              key : {EmptyKey, own.key, [bare |-> own.key.bare, mask |-> TRUE]}]

\* The truth about a new token: names are not given twice, and the calls made for keys give
\* whole ones.
TellsTruth(own, name, up) ==
  /\ own.key # EmptyKey /\ ~own.key.mask /\ name \in {"", own.name}
  /\ ~up.create.failed => \A i \in DOMAIN up.create.value : up.create.value[i] \in View(own)
  /\ ~up.search.failed => \A i \in DOMAIN up.search.value :
       up.search.value[i].name = own.name => up.search.value[i] \in View(own)
  /\ (~up.batch.failed /\ own.id \in DOMAIN up.batch.value) =>
       up.batch.value[own.id] \in {EmptyKey, own.key}
  /\ ~up.single.failed => up.single.value \in {EmptyKey, own.key}
  /\ ~up.detail.failed => up.detail.value \in View(own)

\* Whatever calls fail and however much the upstream leaves out or masks, a token that
\* was made is reported with its own number, if any is known, and its own whole key, or
\* an error is reported: nobody is sold a key with stars or the key of another token.
CreatedKeyIsOwn(own, name, up) ==
  LET made == CreateTokenAndResolveKey(name, up)
  IN  made.ok => made.key = own.key /\ made.id \in {0, own.id}
=============================================================================
