----------------------------- MODULE SiteRules ------------------------------
(***************************************************************************)
(* The list of NewAPI sites: how a posted one becomes the stored one       *)
(* (admin_config_store_normalize.go, admincore.go), which of its lines the *)
(* modules call (admin_runtime.go), and which lines a model is tested on   *)
(* (site_candidates.go).                                                   *)
(*                                                                         *)
(* A site is [name, category, urls, url, token, kind, unit]; urls is a     *)
(* sequence of [name, url] and the name of a line a sequence, <<>> when it *)
(* is blank; what only decorates a site is left out.                       *)
(***************************************************************************)
EXTENDS Lists

CONSTANTS
  BaseURL,     \* NormalizeHTTPBaseURL of every address: "" if it is not one
  TokenNames,  \* names that contain "token"
  Public,      \* addresses a browser may call (connectivitycore)
  Explicit,    \* addresses configured for a kind of site, by kind
  Defaults,    \* default lines of a kind, by kind
  StandardKind \* the kind of the sites known by their name, by name

\* Normalising an address twice is normalising it once (they contain no blanks).
ASSUME AddressesAreClean ==
  \A u \in DOMAIN BaseURL : BaseURL[u] \in DOMAIN BaseURL /\ BaseURL[BaseURL[u]] = BaseURL[u]

\* Whatever is configured for a kind of site is a list of addresses.
ASSUME KindsHaveLines ==
  /\ Explicit \in [{"api", "token"} -> Seq(DOMAIN BaseURL)]
  /\ Defaults \in [{"api", "token"} -> Seq(DOMAIN BaseURL)]
  /\ StandardKind \in [DOMAIN StandardKind -> {"api", "token"}]

\* A list of sites, each with a list of lines.
AreSites(sites) ==
  /\ sites \in Seq(Range(sites))
  /\ \A s \in Range(sites) :
       /\ s.urls \in Seq(Range(s.urls)) /\ s.unit \in Int
       /\ s.url # "" => s.url \in DOMAIN BaseURL
       /\ \A u \in Range(s.urls) : u.url \in DOMAIN BaseURL

DefaultQuotaUnit == 500000
Kinds == {"api", "managed-api", "managed_api", "admin"}

(***************************************************************************)
(* Normalising                                                             *)
(***************************************************************************)

\* A line without a name gets a number.
LineName(k) == <<"line", k>>

\* NormalizeNamedURLs: one line per address, the old single address comes last.
NamedURLs(urls, legacy) ==
  LET all == IF legacy = "" THEN urls ELSE urls \o <<[name |-> <<>>, url |-> legacy]>>
      address == [i \in DOMAIN all |-> BaseURL[all[i].url]]
      kept == Picked(all, {i \in NewAt(address) : address[i] # ""})
  IN [k \in DOMAIN kept |-> [name |-> IF kept[k].name # <<>> THEN kept[k].name ELSE LineName(k),
                             url |-> BaseURL[kept[k].url]]]

CategoryOf(s) ==
  IF s.category # "" THEN s.category ELSE IF s.name \in TokenNames THEN "token" ELSE "api"

\* Seeded fault: a blank token is inherited from the site in the same place.
MatchingToken_ByPlace(name, category, previous) == IF previous = <<>> THEN "" ELSE previous[1].token

\* matchingSiteToken: a blank token is the one stored for that name and category.
MatchingToken(name, category, previous) ==
  LET same == Picked(previous, {i \in DOMAIN previous : /\ previous[i].name = name
                                                        /\ previous[i].category = category
                                                        /\ previous[i].token # ""})
  IN IF same = <<>> THEN "" ELSE same[1].token

Clean(s, previous) ==
  LET urls == NamedURLs(s.urls, s.url)
  IN [name |-> s.name, category |-> CategoryOf(s), urls |-> urls,
      url |-> IF urls = <<>> THEN "" ELSE urls[1].url,
      token |-> IF s.token # "" THEN s.token ELSE MatchingToken(s.name, CategoryOf(s), previous),
      kind |-> IF s.kind = "" THEN "api" ELSE s.kind,
      unit |-> IF s.unit <= 0 THEN DefaultQuotaUnit ELSE s.unit]

Acceptable(s) ==
  s.category \in {"api", "token"} /\ s.urls # <<>> /\ s.name # "" /\ s.token # "" /\ s.kind \in Kinds

SameSite(s, t) == s.category = t.category /\ s.token = t.token

\* mergeManagedSiteURLs: the lines of some sites, each address once.
JoinedURLs(sites) ==
  LET all == Flat([i \in DOMAIN sites |-> sites[i].urls])
  IN Picked(all, NewAt([i \in DOMAIN all |-> all[i].url]))

\* mergeManagedSiteConfigsByToken: one site per category and token, with all the lines.
MergedByToken(sites) ==
  LET heads == Picked(sites, {i \in DOMAIN sites : \A j \in 1..(i - 1) : ~SameSite(sites[j], sites[i])})
      same(s) == Picked(sites, {i \in DOMAIN sites : SameSite(sites[i], s)})
  IN [k \in DOMAIN heads |-> [heads[k] EXCEPT !.urls = JoinedURLs(same(heads[k]))]]

NamesDiffer(sites) ==
  \A i, j \in DOMAIN sites :
    sites[i].category = sites[j].category /\ sites[i].name = sites[j].name => i = j

Rejected == [ok |-> FALSE, sites |-> <<>>]

\* normalizeManagedAPISiteConfigs
Accepted(clean, merged) ==
  IF (\A i \in DOMAIN clean : Acceptable(clean[i])) /\ NamesDiffer(merged)
  THEN [ok |-> TRUE, sites |-> merged] ELSE Rejected

Normalized(sites, previous) ==
  LET clean == [i \in DOMAIN sites |-> Clean(sites[i], previous)]
  IN  Accepted(clean, MergedByToken(clean))

\* applyAdminConfigPatch normalises the posted list, and normalizeToolConfig the result.
Saved(posted, previous) ==
  LET first == Normalized(posted, previous) IN
  IF first.ok THEN Normalized(first.sites, previous) ELSE Rejected

\* loadInitialToolConfig normalises what is stored, with nothing to inherit from.
Booted(stored) == Normalized(stored, <<>>)

(***************************************************************************)
(* Sites at run time                                                       *)
(***************************************************************************)

NoSite == [name |-> "", category |-> "", url |-> "", token |-> ""]

\* newAPISitesFromManagedConfig: one per line.
Lines(s) ==
  [i \in DOMAIN s.urls |-> [name |-> s.name, category |-> s.category, url |-> s.urls[i].url,
                            token |-> s.token]]

ManagedSites(sites) == Flat([i \in DOMAIN sites |-> Lines(sites[i])])

SitesForActivity(sites) == [i \in DOMAIN sites |-> Lines(sites[i])[1]]

FirstSite(sites, default) == IF sites = <<>> THEN default ELSE sites[1]
InCategory(sites, category) == Picked(sites, {i \in DOMAIN sites : sites[i].category = category})

\* newAPIRuntimeSiteForActivity and primarySiteForCombine
RuntimeSite(sites) ==
  LET all == SitesForActivity(sites) IN FirstSite(InCategory(all, "api"), FirstSite(all, NoSite))

\* Seeded fault: the primary line is the first one of all.
PrimarySite_FirstLine(sites) == FirstSite(ManagedSites(sites), NoSite)

PrimarySite(sites) ==
  LET all == ManagedSites(sites) IN FirstSite(InCategory(all, "api"), FirstSite(all, NoSite))

(***************************************************************************)
(* Candidates                                                              *)
(***************************************************************************)

KindOf(line) ==
  IF line.name \in DOMAIN StandardKind THEN StandardKind[line.name]
  ELSE IF line.url \in Range(Defaults["api"]) THEN "api"
  ELSE IF line.url \in Range(Defaults["token"]) THEN "token"
  ELSE line.category

IsStandard(line) ==
  line.name \in DOMAIN StandardKind \/ line.url \in Range(Defaults["api"]) \cup Range(Defaults["token"])

\* normalizeCandidateURLs
EachOnce(urls) == Picked(urls, NewAt(urls))

\* candidateSiteURLs: a public line may be replaced by the others of its site or its kind.
Candidates(line, all) ==
  LET configured == Explicit[KindOf(line)]
      same == Picked(all, {i \in DOMAIN all : SameSite(all[i], line) /\ all[i].name = line.name})
      kind == IF configured # <<>> THEN configured
              ELSE IF IsStandard(line) THEN Defaults[KindOf(line)] ELSE <<>>
  IN IF line.url \notin Public THEN <<line.url>>
     ELSE EachOnce(kind \o [i \in DOMAIN same |-> same[i].url] \o <<line.url>>)

\* orderedManualTestSites: the preferred address first.
Ordered(urls, preferred) ==
  Picked(urls, {i \in DOMAIN urls : urls[i] = preferred})
    \o Picked(urls, {i \in DOMAIN urls : urls[i] # preferred})

(***************************************************************************)
(* What must hold                                                          *)
(***************************************************************************)

\* A stored list boots, and boots as it is: a restart neither fails nor changes a site.
BootsAsSaved(saved) == Booted(saved) = [ok |-> TRUE, sites |-> saved]

\* No posted line is lost, and none is called with the token of another site.
LinesKeepTheirToken(posted, previous, saved) ==
  \A i \in DOMAIN posted : \E s \in Range(saved) :
    /\ s.category = CategoryOf(posted[i])
    /\ {u.url : u \in Range(NamedURLs(posted[i].urls, posted[i].url))} \subseteq {u.url : u \in Range(s.urls)}
    /\ IF posted[i].token # "" THEN s.token = posted[i].token
       ELSE \E p \in Range(previous) : p.name = posted[i].name /\ p.category = s.category
                                       /\ p.token = s.token

\* The card merger and the activity work on the same upstream.
PrimariesAgree(sites) == PrimarySite(sites) = RuntimeSite(sites)

\* A public line that fails has all the lines of its site to fall back on.
FallsBackOnItsSite(sites) ==
  \A s \in Range(sites) : \A line \in Range(Lines(s)) : line.url \in Public =>
    \A preferred \in Public :
      LET order == Ordered(Candidates(line, ManagedSites(sites)), preferred)
      IN /\ {u.url : u \in Range(s.urls)} \subseteq Range(order)
         /\ IsInjective(order)
         /\ preferred \in Range(order) => order[1] = preferred

Works(posted, previous, saved) ==
  saved.ok => /\ BootsAsSaved(saved.sites)
              /\ LinesKeepTheirToken(posted, previous, saved.sites)
              /\ PrimariesAgree(saved.sites)
              /\ FallsBackOnItsSite(saved.sites)

SavedSitesWork(posted, before) ==
  LET previous == Normalized(before, <<>>).sites
  IN  Works(posted, previous, Saved(posted, previous))
=============================================================================
