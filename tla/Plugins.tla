------------------------------- MODULE Plugins --------------------------------
(***************************************************************************)
(* Provider plugins and the packages they import: the sources on disk, the *)
(* modules the process imported from them, the registry of providers it    *)
(* serves; the manifest of packages, the environment uv installs them      *)
(* into, and the packages the process has imported, which stay imported    *)
(* until it ends.                                                          *)
(*                                                                         *)
(* Requests on sources do not await: each is one step, the deletion apart. *)
(* Requests on packages queue for a lock and await uv and the database     *)
(* under it; a start runs one of them, sync, on its own behalf.            *)
(***************************************************************************)
EXTENDS Settings

CONSTANTS
  Names,        \* provider names
  Sources,      \* what a main.py may hold
  Unparsable,   \* sources that are not Python; they can only be put there by hand
  Raising,      \* sources whose import raises
  Misdeclared,  \* sources that import, but do not declare a valid provider
  Packages,     \* packages outside the application's own
  Imports,      \* the package a source imports, or Absent
  Versions, AnyVersion,
  Absent,
  Restorer      \* the sync of a start, as a client of the lock

ASSUME PluginsOK ==
  /\ Unparsable \subseteq Sources /\ Raising \subseteq Sources /\ Misdeclared \subseteq Sources
  /\ Absent \notin Sources \cup Versions \cup Packages \cup {AnyVersion}
  /\ AnyVersion \notin Versions
  /\ Imports \in [Sources -> Packages \cup {Absent}]
  /\ Restorer \notin Clients

VARIABLES
  disk,        \* main.py of every name
  modules,     \* sys.modules: the source its main was imported from
  registry,    \* ProviderRegistry._providers
  tasks,       \* the providers that rows of tasks name
  manifest,    \* dependencies/extra: the version demanded of each package
  env,         \* the version installed
  loaded,      \* the version imported into the process
  state,       \* dependencies/state: error of the last run, packages to restart for
  line,        \* requests at DependencyService._lock, the holder first
  operation,   \* the requests on packages, and those that await on names
  excused      \* packages whose drift something explains (see DriftIsExplained)

pluginsVars == <<disk, modules, registry, tasks, manifest, env, loaded, state, line, operation, excused>>
sourceVars  == <<disk, modules, registry, loaded>>

Operators == Clients \cup {Restorer}
Nothing   == [n \in Names |-> Absent]
OpIdle    == [pc |-> "idle", kind |-> "sync", name |-> CHOOSE n \in Names : TRUE,
              targets |-> {}, spec |-> AnyVersion, seen |-> [p \in Packages |-> Absent],
              before |-> [p \in Packages |-> Absent]]

PluginsInit ==
  /\ disk = Nothing /\ modules = Nothing /\ registry = Nothing /\ tasks = {}
  /\ manifest = [p \in Packages |-> Absent]
  /\ env = manifest /\ loaded = manifest
  /\ state = [error |-> "no", restart |-> {}]
  /\ line = <<>>
  /\ operation = [c \in Operators |-> OpIdle]
  /\ excused = {}

-----------------------------------------------------------------------------
(* Loading.                                                                *)

\* Mutant of Importable: an import looks at the environment only.
ImportableAfresh(x) ==
  /\ x \notin Raising \cup Unparsable \cup {Absent}
  /\ Imports[x] = Absent \/ env[Imports[x]] \in Versions

(* import_module of a main.py: a package that was imported stays importable. *)
Importable(x) ==
  /\ x \notin Raising \cup Unparsable \cup {Absent}
  /\ Imports[x] = Absent \/ env[Imports[x]] \in Versions \/ loaded[Imports[x]] \in Versions

(* discover_providers: a module in the cache is not read again, and a      *)
(* failed import leaves nothing in it.                                     *)
Imported(files, cached) ==
  [n \in Names |-> IF files[n] = Absent \/ cached[n] # Absent THEN cached[n]
                   ELSE IF Importable(files[n]) THEN files[n] ELSE Absent]

(* load: the valid ones among the directories that are there.              *)
Served(files, cached) ==
  [n \in Names |-> IF files[n] = Absent \/ cached[n] \in Misdeclared THEN Absent ELSE cached[n]]

(* The packages the modules imported, the ones imported before included.   *)
LoadedBy(cached) ==
  [p \in Packages |-> IF loaded[p] = Absent /\ \E n \in Names : cached[n] # Absent /\ Imports[cached[n]] = p
                      THEN env[p] ELSE loaded[p]]

(* The files, the modules imported from them, the registry built of these. *)
Becomes(files, cached) ==
  /\ disk' = files /\ modules' = cached
  /\ registry' = Served(files, cached)
  /\ loaded' = LoadedBy(cached)

Load(files)   == Becomes(files, Imported(files, modules))
Reload(files) == Becomes(files, Imported(files, Nothing))

-----------------------------------------------------------------------------
(* Provider sources.                                                       *)
UnchangedPackages == UNCHANGED <<manifest, env, state, line, excused>>
Holds(n, x)       == [disk EXCEPT ![n] = x]

(* A file put there by hand, before the process starts. *)
PlaceByHand(n, x) ==
  /\ process = "down" /\ disk[n] = Absent
  /\ disk' = Holds(n, x)
  /\ UNCHANGED <<modules, registry, loaded, tasks, operation>> /\ UnchangedPackages

(* create: what does not load stays on disk. *)
CreateProvider(n, x) ==
  /\ disk[n] = Absent /\ x \notin Unparsable
  /\ Reload(Holds(n, x))
  /\ UNCHANGED <<tasks, operation>> /\ UnchangedPackages

\* Mutant of Replaced: the new source is loaded without forgetting the old module.
ReplacedInCache(n, x) == Becomes(Holds(n, x), Imported(Holds(n, x), modules))

Replaced(n, x) == Reload(Holds(n, x))

(* update: a source that _activate refuses is replaced by the previous one *)
(* again, which store.write itself refuses if it does not parse; load does *)
(* not forget what was imported from the refused one.                      *)
UpdateProvider(n, x) ==
  LET cached   == Imported(Holds(n, x), Nothing)
      accepted == Served(Holds(n, x), cached)[n] # Absent
  IN  /\ disk[n] # Absent /\ x \notin Unparsable
      /\ \/ accepted /\ Replaced(n, x)
         \/ ~accepted /\ disk[n] \notin Unparsable /\ Becomes(disk, Imported(disk, cached))
         \/ ~accepted /\ disk[n] \in Unparsable /\ Becomes(Holds(n, x), cached)
      /\ UNCHANGED <<tasks, operation>> /\ UnchangedPackages

(* delete: no task names the provider ... *)
DeleteChecks(c, n) ==
  /\ operation[c].pc = "idle"
  /\ disk[n] # Absent /\ n \notin tasks
  /\ operation' = [operation EXCEPT ![c] = [OpIdle EXCEPT !.pc = "unreferenced", !.name = n]]
  /\ UNCHANGED <<sourceVars, tasks>> /\ UnchangedPackages

(* ... when that was read.  A directory deleted meanwhile is an error.     *)
DeleteErases(c) ==
  /\ operation[c].pc = "unreferenced"
  /\ IF disk[operation[c].name] = Absent THEN UNCHANGED sourceVars
     ELSE Load(Holds(operation[c].name, Absent))
  /\ operation' = [operation EXCEPT ![c] = OpIdle]
  /\ UNCHANGED tasks /\ UnchangedPackages

ReloadProviders ==
  /\ Reload(disk)
  /\ UNCHANGED <<tasks, operation>> /\ UnchangedPackages

(* list scans: it imports, and leaves the registry alone. *)
ListProviders ==
  /\ modules' = Imported(disk, modules) /\ loaded' = LoadedBy(modules')
  /\ UNCHANGED <<disk, registry, tasks, operation>> /\ UnchangedPackages

(* TaskService.create: the provider is looked up, then the row committed.  *)
TaskChecks(c, n) ==
  /\ operation[c].pc = "idle" /\ registry[n] # Absent
  /\ operation' = [operation EXCEPT ![c] = [OpIdle EXCEPT !.pc = "checked", !.name = n]]
  /\ UNCHANGED <<sourceVars, tasks>> /\ UnchangedPackages

TaskCommits(c) ==
  /\ operation[c].pc = "checked"
  /\ tasks' = tasks \cup {operation[c].name}
  /\ operation' = [operation EXCEPT ![c] = OpIdle]
  /\ UNCHANGED sourceVars /\ UnchangedPackages

-----------------------------------------------------------------------------
(* Packages.                                                               *)
UnchangedSources == UNCHANGED <<sourceVars, tasks>>
Active == {c \in Operators : operation[c].pc \notin {"idle", "unreferenced", "checked"}}

(* drift: the installed version, against the version that is demanded.     *)
Matches(version, spec) == version \in Versions /\ spec \in {AnyVersion, version}

Goes(c, pc) == operation' = [operation EXCEPT ![c].pc = pc]

\* Mutant of Ends: the lock is kept.
EndsHolding(c) == operation' = [operation EXCEPT ![c] = OpIdle] /\ UNCHANGED line

(* The holder is answered and releases the lock. *)
Ends(c) == operation' = [operation EXCEPT ![c] = OpIdle] /\ line' = Tail(line)

Enqueue(c, kind, targets, spec) ==
  /\ operation[c].pc = "idle"
  /\ operation' = [operation EXCEPT ![c] = [OpIdle EXCEPT !.pc = "waiting", !.kind = kind,
                                                          !.targets = targets, !.spec = spec]]
  /\ line' = Append(line, c)
  /\ UnchangedSources /\ UNCHANGED <<manifest, env, state, excused>>

AddPackage(c)    == \E p \in Packages, spec \in Versions \cup {AnyVersion} : Enqueue(c, "add", {p}, spec)
RemovePackage(c) == \E p \in Packages : Enqueue(c, "remove", {p}, AnyVersion)
SyncPackages(c)  == Enqueue(c, "sync", {}, AnyVersion)

\* Mutant of HoldsLock: a request does not wait for the others.
HoldsLock0(c) == TRUE

HoldsLock(c) == Head(line) = c

Missing == {p \in Packages : manifest[p] # Absent /\ env[p] = Absent}

(* The manifest is read under the lock, and what is installed by now.      *)
BeginPackages(c) ==
  /\ operation[c].pc = "waiting" /\ HoldsLock(c)
  /\ LET op      == operation[c]
         targets == IF op.kind = "sync" THEN Missing ELSE op.targets
         refused == op.kind = "remove" /\ \A p \in op.targets : manifest[p] = Absent
     IN  IF refused \/ targets = {}
         THEN Ends(c)
         ELSE /\ operation' = [operation EXCEPT ![c] =
                   [op EXCEPT !.pc = "running", !.targets = targets, !.seen = manifest, !.before = env]]
              /\ UNCHANGED line
  /\ UnchangedSources /\ UNCHANGED <<manifest, env, state, excused>>

(* What uv makes of one package. *)
Result(op, p) ==
  LET spec == IF op.kind = "sync" THEN op.seen[p] ELSE op.spec
  IN  IF op.kind = "remove" THEN {Absent}
      ELSE IF Matches(env[p], spec) THEN {env[p]}
      ELSE IF spec = AnyVersion THEN Versions ELSE {spec}

UvSucceeds(c) ==
  /\ operation[c].pc = "running"
  /\ \E installed \in [operation[c].targets -> Versions \cup {Absent}] :
       /\ \A p \in DOMAIN installed : installed[p] \in Result(operation[c], p)
       /\ env' = [p \in Packages |-> IF p \in DOMAIN installed THEN installed[p] ELSE env[p]]
  /\ Goes(c, IF operation[c].kind = "sync" THEN "recorded" ELSE "installed")
  /\ UnchangedSources /\ UNCHANGED <<manifest, state, line, excused>>

(* An exit code or the timeout, after any part of the work. *)
UvFails(c) ==
  /\ "uv" \in Faults
  /\ operation[c].pc = "running"
  /\ \E part \in [operation[c].targets -> Versions \cup {Absent}] :
       /\ \A p \in DOMAIN part : part[p] \in Result(operation[c], p) \cup {env[p]}
       /\ env' = [p \in Packages |-> IF p \in DOMAIN part THEN part[p] ELSE env[p]]
  /\ excused' = excused \cup operation[c].targets
  /\ Goes(c, "failed")
  /\ UnchangedSources /\ UNCHANGED <<manifest, state, line>>

(* _write_manifest stores the list as it was read, merged with the request. *)
Demanded(op) ==
  [p \in Packages |-> IF p \notin op.targets THEN op.seen[p]
                      ELSE IF op.kind = "remove" THEN Absent ELSE op.spec]

WriteManifest(c) ==
  /\ operation[c].pc = "installed"
  /\ manifest' = Demanded(operation[c])
  /\ excused' = excused \ operation[c].targets
  /\ Goes(c, "recorded")
  /\ UnchangedSources /\ UNCHANGED <<env, state, line>>

(* The commit fails: the request ends in an error and releases the lock.   *)
WriteManifestFails(c) ==
  /\ "database" \in Faults
  /\ operation[c].pc = "installed"
  /\ excused' = excused \cup operation[c].targets
  /\ Ends(c)
  /\ UnchangedSources /\ UNCHANGED <<manifest, env, state>>

\* Mutant of ReloadAfter: the registry is left as it was.
ReloadForgotten(c) ==
  /\ operation[c].pc = "recorded"
  /\ Goes(c, "saving")
  /\ UnchangedSources /\ UNCHANGED <<manifest, env, state, line, excused>>

(* _reload_registry. *)
ReloadAfter(c) ==
  /\ operation[c].pc = "recorded"
  /\ Reload(disk)
  /\ Goes(c, "saving")
  /\ UNCHANGED <<tasks, manifest, env, state, line, excused>>

(* _changed_versions and _save_state. *)
SaveState(c) ==
  /\ operation[c].pc \in {"saving", "failed"}
  /\ LET op == operation[c]
         changed == {p \in op.targets : op.kind = "add" /\ op.before[p] \notin {Absent, env[p]}}
     IN  state' = IF op.pc = "failed" THEN [state EXCEPT !.error = "yes"]
                  ELSE [error |-> "no", restart |-> changed]
  /\ Ends(c)
  /\ UnchangedSources /\ UNCHANGED <<manifest, env, excused>>

(* SystemSettingService.put on dependencies/extra: it takes another lock.  *)
PutManifest(p, spec) ==
  /\ manifest' = [manifest EXCEPT ![p] = spec]
  /\ excused' = excused \cup (IF manifest'[p] = manifest[p] THEN {} ELSE {p})
  /\ UnchangedSources /\ UNCHANGED <<env, state, line, operation>>

-----------------------------------------------------------------------------
(* The process ends; its start loads, restores what is missing, and loads. *)
PluginsCrash ==
  /\ modules' = Nothing /\ registry' = Nothing
  /\ loaded' = [p \in Packages |-> Absent]
  /\ line' = <<>>
  /\ operation' = [c \in Operators |-> OpIdle]
  /\ excused' = excused \cup UNION {operation[c].targets : c \in {d \in Active : operation[d].pc = "installed"}}
  /\ UNCHANGED <<disk, tasks, manifest, env, state>>

PluginsStart ==
  /\ Load(disk)
  /\ operation' = [operation EXCEPT ![Restorer] = [OpIdle EXCEPT !.pc = "waiting"]]
  /\ line' = <<Restorer>>
  /\ UNCHANGED <<tasks, manifest, env, state, excused>>

PluginsReady ==
  /\ operation[Restorer].pc = "idle"
  /\ Load(disk)
  /\ UNCHANGED <<tasks, operation>> /\ UnchangedPackages

-----------------------------------------------------------------------------
SourceRequest ==
  \/ \E n \in Names, x \in Sources : CreateProvider(n, x) \/ UpdateProvider(n, x)
  \/ \E c \in Clients, n \in Names : DeleteChecks(c, n) \/ TaskChecks(c, n)
  \/ ReloadProviders \/ ListProviders

SourceStep(c) == DeleteErases(c) \/ TaskCommits(c)

PackageRequest ==
  \/ \E c \in Clients : AddPackage(c) \/ RemovePackage(c) \/ SyncPackages(c)
  \/ \E p \in Packages, spec \in {Absent, AnyVersion} : PutManifest(p, spec)

PackageStep(c) ==
  \/ BeginPackages(c) \/ UvSucceeds(c) \/ UvFails(c)
  \/ WriteManifest(c) \/ WriteManifestFails(c) \/ ReloadAfter(c) \/ SaveState(c)

-----------------------------------------------------------------------------
(* Properties.                                                             *)
PluginsTypeOK ==
  /\ disk \in [Names -> Sources \cup {Absent}]
  /\ modules \in [Names -> Sources \cup {Absent}]
  /\ registry \in [Names -> Sources \cup {Absent}]
  /\ tasks \subseteq Names
  /\ manifest \in [Packages -> Versions \cup {AnyVersion, Absent}]
  /\ env \in [Packages -> Versions \cup {Absent}]
  /\ loaded \in [Packages -> Versions \cup {Absent}]
  /\ state \in [error : {"yes", "no"}, restart : SUBSET Packages]
  /\ line \in Seq(Operators)
  /\ \A c \in Operators :
       operation[c].pc \in {"idle", "unreferenced", "checked", "waiting", "running", "installed",
                            "recorded", "saving", "failed"}
  /\ excused \subseteq Packages

(* The registry keeps the promises of ProviderCatalog: the process never   *)
(* runs a source other than the stored one, and no request on one provider *)
(* or on packages costs another provider its place, the removal of the     *)
(* package it imports included (registry.py:28 "swap atomically",          *)
(* provider.py:70).                                                        *)
Blocked == {n \in Names : modules[n] \in Misdeclared}
Alive   == process \in {"restoring", "up"}
Catalog == INSTANCE ProviderCatalog
             WITH stored <- disk, served <- registry, blocked <- Blocked, alive <- Alive
ImplementsCatalog == Catalog!Spec

(* The environment holds what the manifest demands and nothing else, a     *)
(* package being dealt with apart, unless uv failed on it, the process     *)
(* died between uv and the manifest, the manifest could not be written, or *)
(* the manifest was edited behind the dependency service (dependency.py).  *)
DriftIsExplained ==
  \A p \in Packages \ (excused \cup UNION {operation[c].targets : c \in Active}) :
    IF manifest[p] = Absent THEN env[p] = Absent ELSE Matches(env[p], manifest[p])

(* A stored provider that would load is served, unless the module of a     *)
(* source that update refused is still imported under its name, or its     *)
(* package came with a request that failed or is not over (provider.py:80, *)
(* dependency.py:200).                                                     *)
UnservedIsExplained ==
  process = "up" =>
    \A n \in Names :
      Importable(disk[n]) /\ disk[n] \notin Misdeclared /\ registry[n] = Absent
      => \/ modules[n] \in Misdeclared
         \/ Imports[disk[n]] \in excused \cup UNION {operation[c].targets : c \in Active}

(* The requests on packages all end, the sync of a start included: uv has  *)
(* a timeout (dependencies.py:101), the lock is released on every path.    *)
PackageRequestsEnd == []<>(Active = {} /\ line = <<>>)
=============================================================================
