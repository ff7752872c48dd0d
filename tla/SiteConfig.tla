----------------------------- MODULE SiteConfig -----------------------------
(***************************************************************************)
(* The unified configuration: where it is stored, how a save reaches the   *)
(* modules that run with it, and what a start of the process makes of it   *)
(* (admin_config_store*.go, config_store_db.go, admin_config_routes.go,    *)
(* admin_runtime.go, combine_routes.go, runtime.go).                       *)
(*                                                                         *)
(* A configuration has the parts "sites" and "rest" (activity, shop,       *)
(* navigation), each named by the save, file or environment it comes from, *)
(* and "cookie", which stands for the fields that the row leaves out when  *)
(* they are blank (the shop's cookie and endpoints): the row is read over  *)
(* the environment, whose value then fills the gap.  Saves are stored one  *)
(* at a time, but applied in no order: the handler applies its own copy,   *)
(* and rebuilds the card merger from what is stored by then, after it has  *)
(* released the store.                                                     *)
(***************************************************************************)
EXTENDS Integers, FiniteSets

CONSTANTS
  Handlers,   \* PUT requests
  Readers,    \* requests of the card merger
  NoConfig,   \* nothing stored, nothing running
  MaxSaves,   \* bound: saves
  MaxFaults   \* bound: writes that fail and processes that stop

VARIABLES
  disk,       \* the row of tool_config
  legacy,     \* tool-config.json is there
  process,    \* "down", "seeding", "migrating" or "up"
  store,      \* toolConfigStore.cfg
  runtime,    \* what the activity was given, part by part
  combine,    \* the sites the card merger runs with
  save,       \* per handler: [at, cfg, sites, alone, app]
  reader,     \* per request of the card merger: the sites it works with
  saves, faults,
  acked,      \* history: what the handlers were asked to save, over what ran before the first
  crossed     \* history: "runtime" or "combine" may be of an earlier save, for saves crossed

vars == <<disk, legacy, process, store, runtime, combine, save, reader, saves, faults, acked, crossed>>

Stored == <<disk, legacy, acked>>
Running == <<store, runtime, combine>>

Blank == 0
Config(rest, sites, cookie) == [rest |-> rest, sites |-> sites, cookie |-> cookie]
Legacy == Config(-1, -1, Blank)
Envs == {Config(-2, -2, -2), Config(-3, -3, Blank)}   \* it may differ at every start

Off == [at |-> "idle", cfg |-> NoConfig, sites |-> FALSE, alone |-> FALSE, app |-> NoConfig]
Free(h) == save[h].at = "idle"

Init ==
  /\ disk = NoConfig /\ legacy \in BOOLEAN /\ process = "down"
  /\ store = NoConfig /\ runtime = NoConfig /\ combine = NoConfig
  /\ save = [h \in Handlers |-> Off] /\ reader = [r \in Readers |-> NoConfig]
  /\ saves = 0 /\ faults = 0 /\ acked = NoConfig /\ crossed = {}

Fault == faults < MaxFaults /\ faults' = faults + 1

(***************************************************************************)
(* Starting and stopping                                                   *)
(***************************************************************************)

\* decodeStoredToolConfig: what the row or the file leaves out stays as in the environment.
Decoded(row, env) == [row EXCEPT !.cookie = IF @ = Blank THEN env.cookie ELSE @]

\* Seeded fault: the old file is preferred as long as it is there.
Initial_FileFirst(env) ==
  IF legacy THEN Decoded(Legacy, env) ELSE IF disk # NoConfig THEN Decoded(disk, env) ELSE env

\* The database, else the old file, else the environment.
Initial(env) ==
  IF disk # NoConfig THEN Decoded(disk, env) ELSE IF legacy THEN Decoded(Legacy, env) ELSE env

\* loadInitialToolConfig; a configuration read from the database is not written again.
Start ==
  /\ process = "down" /\ store' \in {Initial(env) : env \in Envs}
  /\ process' = IF disk = NoConfig THEN "seeding" ELSE "starting"
  /\ UNCHANGED <<Stored, runtime, combine, save, reader, saves, faults, crossed>>

Seed ==
  /\ process = "seeding"
  /\ \/ disk' = store /\ process' = "migrating" /\ UNCHANGED <<store, faults>>
     \/ Fault /\ process' = "down" /\ store' = NoConfig /\ UNCHANGED disk
  /\ UNCHANGED <<legacy, acked, runtime, combine, save, reader, saves, crossed>>

\* MarkMigrated; it may fail, which is ignored.
Migrate ==
  /\ process = "migrating" /\ process' = "starting"
  /\ \/ legacy' = FALSE /\ UNCHANGED faults
     \/ Fault /\ UNCHANGED legacy
  /\ UNCHANGED <<disk, acked, Running, save, reader, saves, crossed>>

\* initRuntime applies the configuration and sets up the card merger before it serves.
Serve ==
  /\ process = "starting" /\ process' = "up"
  /\ runtime' = store /\ combine' = store.sites /\ crossed' = {}
  /\ UNCHANGED <<Stored, store, save, reader, saves, faults>>

Crash ==
  /\ process # "down" /\ Fault /\ process' = "down"
  /\ store' = NoConfig /\ runtime' = NoConfig /\ combine' = NoConfig
  /\ save' = [h \in Handlers |-> Off] /\ reader' = [r \in Readers |-> NoConfig]
  /\ UNCHANGED <<Stored, saves, crossed>>

(***************************************************************************)
(* Saving                                                                  *)
(***************************************************************************)

Busy(h) == \E o \in Handlers \ {h} : ~Free(o)

\* applyAdminConfigPatch: the posted parts replace the current ones, the shop's whole.
Patched(cfg, parts, version) ==
  [rest   |-> IF "rest" \in parts THEN version ELSE cfg.rest,
   sites  |-> IF "sites" \in parts THEN version ELSE cfg.sites,
   cookie |-> IF "rest" \notin parts THEN cfg.cookie
              ELSE IF "cookie" \in parts THEN version ELSE Blank]

Posts == {{"sites"}, {"rest"}, {"rest", "cookie"}, {"sites", "rest"}, {"sites", "rest", "cookie"}}

\* SavePatch, which holds the store's lock over the write: the write fails, or both the
\* database and the memory have the new configuration.
Save(h) ==
  /\ process = "up" /\ Free(h) /\ saves < MaxSaves
  /\ \E parts \in Posts :
       \/ /\ store' = Patched(store, parts, saves + 1) /\ disk' = store'
          /\ acked' = Patched(IF acked = NoConfig THEN store ELSE acked, parts, saves + 1)
          /\ saves' = saves + 1
          /\ save' = [o \in Handlers |->
                        IF o = h THEN [Off EXCEPT !.at = "rest", !.cfg = store',
                                                  !.sites = "sites" \in parts, !.alone = ~Busy(h)]
                        ELSE [save[o] EXCEPT !.alone = FALSE]]
          /\ crossed' = IF Busy(h) THEN {"runtime", "combine"} ELSE crossed
          /\ UNCHANGED faults
       \/ Fault /\ UNCHANGED <<store, disk, acked, saves, save, crossed>>
  /\ UNCHANGED <<legacy, process, runtime, combine, reader>>

\* applyToolConfigSnapshot, one module after the other.
ApplyRest(h) ==
  /\ save[h].at = "rest"
  /\ runtime' = [runtime EXCEPT !.rest = save[h].cfg.rest, !.cookie = save[h].cfg.cookie]
  /\ save' = [save EXCEPT ![h].at = "sites"]
  /\ UNCHANGED <<Stored, process, store, combine, reader, saves, faults, crossed>>

Cured(h) == IF save[h].alone THEN {"runtime"} \cup (IF save[h].sites THEN {"combine"} ELSE {}) ELSE {}

Done(h) == save' = [save EXCEPT ![h] = Off] /\ crossed' = crossed \ Cured(h)

\* Seeded fault: the card merger is rebuilt only if there is none.
Rebuilds_IfMissing(h) == save[h].sites /\ combine = NoConfig

\* newAPIChanged
Rebuilds(h) == save[h].sites

ApplySites(h) ==
  /\ save[h].at = "sites"
  /\ runtime' = [runtime EXCEPT !.sites = save[h].cfg.sites]
  /\ IF Rebuilds(h) THEN save' = [save EXCEPT ![h].at = "rebuild"] /\ UNCHANGED crossed ELSE Done(h)
  /\ UNCHANGED <<Stored, process, store, combine, reader, saves, faults>>

\* buildCombineApp reads what is stored now; its database may fail to open.
Build(h) ==
  /\ save[h].at = "rebuild"
  /\ \/ save' = [save EXCEPT ![h].at = "replace", ![h].app = store.sites] /\ UNCHANGED faults
     \/ save' = [save EXCEPT ![h].at = "replace", ![h].app = NoConfig] /\ Fault
  /\ UNCHANGED <<Stored, process, Running, reader, saves, crossed>>

\* Seeded fault: the old card merger is closed under the requests it works for.
Unused_Always == TRUE

\* combineRuntimeMu is not held by a request.
Unused == \A r \in Readers : reader[r] = NoConfig

\* replaceCombineRuntime, which closes the old one.
Replace(h) ==
  /\ save[h].at = "replace" /\ Unused
  /\ combine' = save[h].app /\ Done(h)
  /\ UNCHANGED <<Stored, process, store, runtime, reader, saves, faults>>

\* serveCombineAPI keeps the lock while it serves; a waiting writer goes first.
Request(r) ==
  /\ process = "up" /\ combine # NoConfig /\ reader[r] = NoConfig
  /\ \A h \in Handlers : save[h].at # "replace"
  /\ reader' = [reader EXCEPT ![r] = combine]
  /\ UNCHANGED <<Stored, process, Running, save, saves, faults, crossed>>

Answer(r) ==
  /\ reader[r] # NoConfig /\ reader' = [reader EXCEPT ![r] = NoConfig]
  /\ UNCHANGED <<Stored, process, Running, save, saves, faults, crossed>>

Apply(h) == ApplyRest(h) \/ ApplySites(h) \/ Build(h) \/ Replace(h)

Next ==
  \/ Start \/ Seed \/ Migrate \/ Serve \/ Crash
  \/ \E h \in Handlers : Save(h) \/ Apply(h)
  \/ \E r \in Readers : Request(r) \/ Answer(r)

\* Goroutines run on, and a request of the card merger ends with its timeouts.
Fairness ==
  /\ \A h \in Handlers : WF_vars(Apply(h))
  /\ \A r \in Readers : WF_vars(Answer(r))

Spec == Init /\ [][Next]_vars /\ Fairness

(***************************************************************************)
(* Properties                                                              *)
(***************************************************************************)

Versions == -3..MaxSaves
Configs == [rest : Versions, sites : Versions, cookie : Versions]
SaveType == [at : {"idle", "rest", "sites", "rebuild", "replace"}, cfg : Configs \cup {NoConfig},
             sites : BOOLEAN, alone : BOOLEAN, app : Versions \cup {NoConfig}]

TypeOK ==
  /\ {disk, store, runtime, acked} \subseteq Configs \cup {NoConfig} /\ legacy \in BOOLEAN
  /\ process \in {"down", "seeding", "migrating", "starting", "up"}
  /\ combine \in Versions \cup {NoConfig} /\ crossed \subseteq {"runtime", "combine"}
  /\ reader \in [Readers -> Versions \cup {NoConfig}]
  /\ save \in [Handlers -> SaveType] /\ saves \in 0..MaxSaves

\* What a configuration says is kept in a later one; a blank stays blank or is filled from
\* the environment, never from an earlier save or the old file.
Keeps(cfg, later) ==
  /\ later.rest = cfg.rest /\ later.sites = cfg.sites
  /\ later.cookie # cfg.cookie =>
       cfg.cookie = Blank /\ later.cookie \in {env.cookie : env \in Envs}

\* What was saved is stored, and what is stored is what every later process runs with,
\* whatever the old file says by then; the environment only fills blanks, which the next
\* save then stores (admin_config_store.go says that it is ignored).
SavedSurvives ==
  /\ acked # NoConfig => Keeps(acked, disk)
  /\ process = "up" => Keeps(disk, store)

\* Once no save is under way, everything runs with what is stored, unless saves crossed:
\* then the earlier may be applied last, until the next save that comes alone.
AppliedUnlessCrossed ==
  process = "up" /\ (\A h \in Handlers : Free(h)) =>
    /\ "runtime" \notin crossed => runtime = store
    /\ "combine" \notin crossed => combine \in {store.sites, NoConfig}

\* A request of the card merger works with the one that is running, never with one that
\* was closed under it.
RequestsOnOpenApp ==
  \A r \in Readers : reader[r] # NoConfig => reader[r] = combine

\* All of them: what was saved is what is stored, what runs and what is served
\* (SavePatch, applyToolConfigSnapshot, replaceCombineRuntime).
ConfigIsSound == SavedSurvives /\ AppliedUnlessCrossed /\ RequestsOnOpenApp
=============================================================================
