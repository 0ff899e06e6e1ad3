----------------------------- MODULE CatalogProofs -----------------------------
(* The process keeps the promises of ProviderCatalog, for any providers,   *)
(* packages, requests and kills: the registry implements the catalog.      *)
EXTENDS Platform, TLAPS

Files == [Names -> Sources \cup {Absent}]

(* A source whose import needs nothing the process has not imported.       *)
Grounded(x) ==
  /\ x \notin Raising \cup Unparsable \cup {Absent}
  /\ Imports[x] = Absent \/ loaded[Imports[x]] \in Versions

(* What may be imported under each name: the stored source, or one that    *)
(* was refused, and what it imports stays imported.                        *)
ModulesInv ==
  /\ disk \in Files /\ modules \in Files
  /\ env \in [Packages -> Versions \cup {Absent}]
  /\ loaded \in [Packages -> Versions \cup {Absent}]
  /\ \A n \in Names : modules[n] # Absent =>
       Grounded(modules[n]) /\ (disk[n] # Absent => modules[n] = disk[n] \/ modules[n] \in Misdeclared)

(* What is served is the stored source, as it was imported.                *)
RegistryInv ==
  /\ registry \in Files
  /\ \A n \in Names : registry[n] # Absent =>
       /\ registry[n] = disk[n] /\ modules[n] = disk[n]
       /\ disk[n] \notin Misdeclared

(* A process that is down serves nothing and has no request under way.     *)
DownEmpty ==
  ~Alive => /\ modules = Nothing /\ registry = Nothing
            /\ \A c \in Operators : operation[c].pc = "idle"

CatalogInv == ModulesInv /\ RegistryInv /\ DownEmpty

-----------------------------------------------------------------------------
(* What loading sources makes of the registry.                             *)

(* The modules cached may be served from files: they import, and are the   *)
(* files or were refused.                                                  *)
Sound(files, cached) ==
  /\ cached \in Files
  /\ \A n \in Names : cached[n] # Absent =>
       Importable(cached[n]) /\ (files[n] # Absent => cached[n] = files[n] \/ cached[n] \in Misdeclared)

LEMMA GroundedImports == \A x : Grounded(x) => Importable(x)
BY DEF Grounded, Importable

LEMMA ModulesSound ==
  ASSUME ModulesInv
  PROVE  Sound(disk, modules) /\ Sound(disk, Nothing) /\ \A files \in Files : Sound(files, Nothing)
BY GroundedImports, PluginsOK DEF ModulesInv, Sound, Nothing, Files

LEMMA ImportedSound ==
  ASSUME NEW files \in Files, NEW cached, Sound(files, cached)
  PROVE  Sound(files, Imported(files, cached))
<1> DEFINE new == Imported(files, cached)
<1>1. new \in Files BY DEF Imported, Files, Sound
<1>2. ASSUME NEW n \in Names, new[n] # Absent
      PROVE  Importable(new[n]) /\ (files[n] # Absent => new[n] = files[n] \/ new[n] \in Misdeclared)
  <2>1. CASE files[n] = Absent \/ cached[n] # Absent
    <3>1. new[n] = cached[n] BY <2>1 DEF Imported
    <3> HIDE DEF new
    <3> QED BY <1>2, <3>1 DEF Sound
  <2>2. CASE ~(files[n] = Absent \/ cached[n] # Absent)
    <3>1. new[n] = IF Importable(files[n]) THEN files[n] ELSE Absent BY <2>2 DEF Imported
    <3> HIDE DEF new
    <3> QED BY <1>2, <3>1
  <2> QED BY <2>1, <2>2
<1> HIDE DEF new
<1>3. Sound(files, new) BY <1>1, <1>2 DEF Sound
<1> QED BY <1>3 DEF new

(* What a module imported stays imported, whatever becomes of the package. *)
LEMMA ImportsStay ==
  ASSUME ModulesInv, NEW files, NEW cached, Sound(files, cached), loaded' = LoadedBy(cached), UNCHANGED env
  PROVE  /\ loaded' \in [Packages -> Versions \cup {Absent}]
         /\ \A n \in Names : cached[n] # Absent => Grounded(cached[n])'
<1>1. /\ loaded' = [p \in Packages |-> IF loaded[p] = Absent
                      /\ \E n \in Names : cached[n] # Absent /\ Imports[cached[n]] = p
                    THEN env[p] ELSE loaded[p]]
      /\ loaded' \in [Packages -> Versions \cup {Absent}]
  BY DEF LoadedBy, ModulesInv
<1>2. ASSUME NEW n \in Names, cached[n] # Absent PROVE Grounded(cached[n])'
  <2> DEFINE x == cached[n]
  <2>1. x \in Sources /\ Importable(x) BY <1>2 DEF Sound, Files
  <2>2. CASE Imports[x] = Absent BY <2>1, <2>2 DEF Grounded, Importable
  <2>3. CASE Imports[x] # Absent
    <3>1. Imports[x] \in Packages BY <2>1, <2>3, PluginsOK
    <3>2. env[Imports[x]] \in Versions \/ loaded[Imports[x]] \in Versions BY <2>1, <2>3 DEF Importable
    <3>3. loaded[Imports[x]] \in Versions \cup {Absent} /\ Absent \notin Versions
      BY <3>1, PluginsOK DEF ModulesInv
    <3>4. loaded'[Imports[x]] = IF loaded[Imports[x]] = Absent THEN env[Imports[x]] ELSE loaded[Imports[x]]
      BY <1>1, <1>2, <3>1
    <3>5. loaded'[Imports[x]] \in Versions BY <3>2, <3>3, <3>4
    <3> QED BY <2>1, <3>5 DEF Grounded, Importable
  <2> QED BY <2>2, <2>3
<1> QED BY <1>1, <1>2

(* The invariants hold of what a load leaves behind.                       *)
LEMMA LoadKeepsInv ==
  ASSUME ModulesInv, NEW files \in Files, NEW cached, Sound(files, cached), Becomes(files, cached),
         UNCHANGED env
  PROVE  ModulesInv' /\ RegistryInv'
<1>1. /\ disk' = files /\ modules' = cached /\ cached \in Files
      /\ \A n \in Names : registry'[n] = IF files[n] = Absent \/ cached[n] \in Misdeclared
                                         THEN Absent ELSE cached[n]
  BY DEF Becomes, Served, Sound
<1>2. registry' \in Files
  <2>1. registry' = [n \in Names |-> IF files[n] = Absent \/ cached[n] \in Misdeclared
                                     THEN Absent ELSE cached[n]]
    BY DEF Becomes, Served
  <2> QED BY <1>1, <2>1 DEF Files
<1>3. loaded' \in [Packages -> Versions \cup {Absent}]
      /\ \A n \in Names : cached[n] # Absent => Grounded(cached[n])'
  BY ImportsStay DEF Becomes
<1>5. ModulesInv'
  <2>1. env' \in [Packages -> Versions \cup {Absent}] BY DEF ModulesInv
  <2> QED BY <1>1, <1>3, <2>1 DEF ModulesInv, Sound
<1>6. RegistryInv'
  BY <1>1, <1>2 DEF RegistryInv, Sound
<1> QED BY <1>5, <1>6

(* A provider that is served goes on being served when its source is       *)
(* loaded again, whether its module was forgotten or not.                  *)
LEMMA LoadKeepsServed ==
  ASSUME ModulesInv, RegistryInv, NEW files \in Files, NEW cached \in Files,
         NEW m \in Names, registry[m] # Absent, files[m] = disk[m], cached[m] \in {Absent, disk[m]}
  PROVE  /\ Imported(files, cached)[m] = disk[m]
         /\ Served(files, Imported(files, cached))[m] = registry[m]
<1>1. /\ registry[m] = disk[m] /\ modules[m] = disk[m] /\ disk[m] # Absent /\ disk[m] \notin Misdeclared
  BY DEF RegistryInv
<1>2. Importable(disk[m]) BY <1>1, GroundedImports DEF ModulesInv
<1>3. Imported(files, cached)[m] = disk[m] BY <1>1, <1>2 DEF Imported
<1>4. Served(files, Imported(files, cached))[m] =
        IF files[m] = Absent \/ Imported(files, cached)[m] \in Misdeclared
        THEN Absent ELSE Imported(files, cached)[m]
  BY DEF Served
<1> QED BY <1>1, <1>3, <1>4

-----------------------------------------------------------------------------
(* The steps, as the catalog sees them.                                    *)
Kept(m) == registry[m] # Absent => registry'[m] = registry[m]

LEMMA OthersKept ==
  ASSUME RegistryInv, RegistryInv', NEW n, \A m \in Names \ {n} : disk'[m] = disk[m] /\ Kept(m)
  PROVE  Catalog!OthersKept(n)
BY DEF Catalog!OthersKept, RegistryInv, Kept

LEMMA Rescans ==
  ASSUME RegistryInv, RegistryInv', UNCHANGED disk, \A m \in Names : Kept(m)
  PROVE  Catalog!Next
<1>1. Catalog!Rescan BY DEF Catalog!Rescan, RegistryInv, Kept
<1>2. Blocked' \subseteq Names /\ Alive' \in BOOLEAN BY DEF Blocked, Alive
<1> QED BY <1>1, <1>2 DEF Catalog!Next

LEMMA Operates ==
  ASSUME NEW n \in Names, Catalog!Put(n) \/ Catalog!Refuse(n) \/ Catalog!Erase(n)
  PROVE  Catalog!Next
<1>1. Blocked' \subseteq Names /\ Alive' \in BOOLEAN BY DEF Blocked, Alive
<1> QED BY <1>1 DEF Catalog!Next

(* The sources are loaded again, with or without what was imported.        *)
LEMMA LoadsAgain ==
  ASSUME ModulesInv, RegistryInv, Load(disk) \/ Reload(disk), UNCHANGED env
  PROVE  ModulesInv' /\ RegistryInv' /\ Catalog!Next
<1>1. PICK cached \in {modules, Nothing} : Becomes(disk, Imported(disk, cached))
  BY DEF Load, Reload
<1>2. disk \in Files /\ cached \in Files /\ Sound(disk, cached)
  BY ModulesSound DEF ModulesInv, Nothing, Files
<1>3. Sound(disk, Imported(disk, cached)) BY <1>2, ImportedSound
<1>4. ModulesInv' /\ RegistryInv' BY <1>1, <1>2, <1>3, LoadKeepsInv
<1>5. ASSUME NEW m \in Names PROVE Kept(m)
  <2> SUFFICES ASSUME registry[m] # Absent PROVE registry'[m] = registry[m]
    BY DEF Kept
  <2>1. cached[m] \in {Absent, disk[m]} BY <1>1 DEF RegistryInv, Nothing
  <2>2. Served(disk, Imported(disk, cached))[m] = registry[m] BY <1>2, <2>1, LoadKeepsServed
  <2> QED BY <1>1, <2>2 DEF Becomes
<1>6. UNCHANGED disk BY <1>1 DEF Becomes
<1> QED BY <1>4, <1>5, <1>6, Rescans

LEMMA Creates ==
  ASSUME ModulesInv, RegistryInv, NEW n \in Names, NEW x \in Sources, CreateProvider(n, x)
  PROVE  ModulesInv' /\ RegistryInv' /\ Catalog!Next
<1> DEFINE files == Holds(n, x)
<1>1. disk[n] = Absent /\ Becomes(files, Imported(files, Nothing)) /\ UNCHANGED env
  BY DEF CreateProvider, Reload, UnchangedPackages
<1>2. files \in Files /\ files[n] = x /\ \A m \in Names \ {n} : files[m] = disk[m]
  BY DEF Holds, ModulesInv, Files
<1>3. Nothing \in Files /\ \A m \in Names : Nothing[m] = Absent BY DEF Nothing, Files
<1> HIDE DEF files
<1>4. Sound(files, Imported(files, Nothing)) BY <1>2, ModulesSound, ImportedSound
<1>5. ModulesInv' /\ RegistryInv' BY <1>1, <1>2, <1>4, LoadKeepsInv
<1>6. disk' = files /\ registry' = Served(files, Imported(files, Nothing)) BY <1>1 DEF Becomes
<1>7. \A m \in Names \ {n} : disk'[m] = disk[m] /\ Kept(m)
  BY <1>2, <1>3, <1>6, LoadKeepsServed DEF Kept
<1>8. Absent \notin Sources BY PluginsOK
<1>9. Catalog!Put(n) BY <1>1, <1>2, <1>5, <1>6, <1>7, <1>8, OthersKept DEF Catalog!Put, RegistryInv
<1> QED BY <1>5, <1>9, Operates

LEMMA Updates ==
  ASSUME ModulesInv, RegistryInv, NEW n \in Names, NEW x \in Sources, UpdateProvider(n, x)
  PROVE  ModulesInv' /\ RegistryInv' /\ Catalog!Next
<1> DEFINE files == Holds(n, x)
           cached == Imported(files, Nothing)
<1>1. /\ UNCHANGED env /\ disk[n] # Absent
      /\ \/ Becomes(files, cached)
         \/ Served(files, cached)[n] = Absent /\ Becomes(disk, Imported(disk, cached))
  BY DEF UpdateProvider, Replaced, Reload, UnchangedPackages
<1>2. /\ files \in Files /\ files[n] = x /\ \A m \in Names \ {n} : files[m] = disk[m]
  BY DEF Holds, ModulesInv, Files
<1>3. Nothing \in Files /\ \A m \in Names : Nothing[m] = Absent BY DEF Nothing, Files
<1>4. Absent \notin Sources BY PluginsOK
<1> HIDE DEF files
<1>5. Sound(files, cached) BY <1>2, ModulesSound, ImportedSound
<1>6. CASE Becomes(files, cached)
  <2>1. ModulesInv' /\ RegistryInv' BY <1>1, <1>2, <1>5, <1>6, LoadKeepsInv
  <2>2. disk' = files /\ registry' = Served(files, cached) BY <1>6 DEF Becomes
  <2>3. \A m \in Names \ {n} : disk'[m] = disk[m] /\ Kept(m)
    BY <1>2, <1>3, <2>2, LoadKeepsServed DEF Kept
  <2>4. Catalog!OthersKept(n) BY <2>1, <2>3, OthersKept
  <2>5. disk'[n] = x /\ registry'[n] \in {Absent, x} BY <1>2, <2>1, <2>2 DEF RegistryInv
  <2>6. CASE x # disk[n]
    <3>1. Catalog!Put(n) BY <2>4, <2>5, <2>6 DEF Catalog!Put
    <3> QED BY <2>1, <3>1, Operates
  <2>7. CASE x = disk[n]
    <3>1. files \in Files /\ files[n] = disk[n] BY <1>2, <2>7
    <3>2. registry[n] # Absent => registry'[n] = registry[n] BY <1>3, <2>2, <3>1, LoadKeepsServed
    <3>3. Catalog!Refuse(n)
      BY <2>4, <2>5, <2>7, <3>2 DEF Catalog!Refuse, RegistryInv
    <3> QED BY <2>1, <3>3, Operates
  <2> QED BY <2>6, <2>7
<1>7. CASE Served(files, cached)[n] = Absent /\ Becomes(disk, Imported(disk, cached))
  <2>1. Served(files, cached)[n] =
          IF files[n] = Absent \/ cached[n] \in Misdeclared THEN Absent ELSE cached[n]
    BY DEF Served
  <2>2. cached[n] = Absent \/ cached[n] \in Misdeclared BY <1>2, <1>4, <1>7, <2>1
  <2>3. cached \in Files /\ disk \in Files BY <1>5 DEF Sound, ModulesInv
  <2>4. Sound(disk, cached)
    <3>1. ASSUME NEW m \in Names, cached[m] # Absent
          PROVE  Importable(cached[m]) /\ (disk[m] # Absent => cached[m] = disk[m] \/ cached[m] \in Misdeclared)
      <4>1. CASE m = n BY <1>5, <2>2, <3>1, <4>1 DEF Sound
      <4>2. CASE m # n BY <1>2, <1>5, <3>1, <4>2 DEF Sound
      <4> QED BY <4>1, <4>2
    <3> HIDE DEF cached
    <3> QED BY <2>3, <3>1 DEF Sound
  <2> DEFINE new == Imported(disk, cached)
  <2>5. Sound(disk, new) BY <2>3, <2>4, ImportedSound
  <2>6. ModulesInv' /\ RegistryInv' BY <1>1, <1>7, <2>3, <2>5, LoadKeepsInv
  <2>7. disk' = disk /\ modules' = new /\ registry' = Served(disk, new) BY <1>7 DEF Becomes
  <2>8. ASSUME NEW m \in Names \ {n}, registry[m] # Absent PROVE registry'[m] = registry[m]
    <3>1. cached[m] = disk[m] BY <1>2, <1>3, <2>8, LoadKeepsServed
    <3>2. Served(disk, new)[m] = registry[m] BY <2>3, <2>8, <3>1, LoadKeepsServed
    <3> QED BY <2>7, <3>2
  <2>9. Catalog!OthersKept(n)
    BY <2>6, <2>7, <2>8, OthersKept DEF Kept
  <2>10. CASE cached[n] \in Misdeclared
    <3>1. cached[n] # Absent BY <1>4, <2>10, PluginsOK
    <3>2. new[n] = cached[n] BY <3>1 DEF Imported
    <3>3. n \in Blocked' BY <2>7, <2>10, <3>2 DEF Blocked
    <3>4. registry'[n] \in {Absent, disk[n]} BY <2>6, <2>7 DEF RegistryInv
    <3>5. Catalog!Refuse(n) BY <2>7, <2>9, <3>3, <3>4 DEF Catalog!Refuse
    <3> QED BY <2>6, <3>5, Operates
  <2>11. CASE cached[n] = Absent
    <3>1. registry[n] # Absent => registry'[n] = registry[n]
      BY <2>3, <2>7, <2>11, LoadKeepsServed
    <3>2. registry'[n] \in {Absent, disk[n]} BY <2>6, <2>7 DEF RegistryInv
    <3>3. Catalog!Refuse(n) BY <2>7, <2>9, <3>1, <3>2 DEF Catalog!Refuse, RegistryInv
    <3> QED BY <2>6, <3>3, Operates
  <2> QED BY <2>2, <2>10, <2>11
<1> QED BY <1>1, <1>6, <1>7

(* The catalog sees nothing of a step that leaves the sources, what was    *)
(* imported from them and the registry alone.                              *)
LEMMA SourcesKept ==
  ASSUME ModulesInv, RegistryInv, UNCHANGED sourceVars,
         env' \in [Packages -> Versions \cup {Absent}]
  PROVE  ModulesInv' /\ RegistryInv' /\ Catalog!Next
<1>1. UNCHANGED <<disk, modules, registry, loaded>> BY DEF sourceVars
<1>2. ModulesInv' BY <1>1 DEF ModulesInv, Grounded
<1>3. RegistryInv' BY <1>1 DEF RegistryInv
<1>4. \A m \in Names : Kept(m) BY <1>1 DEF Kept
<1> QED BY <1>1, <1>2, <1>3, <1>4, Rescans

LEMMA Deletes ==
  ASSUME ModulesInv, RegistryInv, NEW c \in Clients, DeleteErases(c)
  PROVE  ModulesInv' /\ RegistryInv' /\ Catalog!Next
<1> DEFINE n == operation[c].name
           files == Holds(n, Absent)
<1>1. UNCHANGED env /\ (UNCHANGED sourceVars \/ Load(files))
  BY DEF DeleteErases, UnchangedPackages
<1>2. CASE UNCHANGED sourceVars BY <1>1, <1>2, SourcesKept DEF ModulesInv
<1>3. CASE Load(files) /\ n \notin Names
  <2>1. files = disk BY <1>3 DEF Holds, ModulesInv, Files
  <2> QED BY <1>1, <1>3, <2>1, LoadsAgain
<1>4. CASE Load(files) /\ n \in Names
  <2>1. files \in Files /\ files[n] = Absent /\ \A m \in Names \ {n} : files[m] = disk[m]
    BY <1>4 DEF Holds, ModulesInv, Files
  <2> HIDE DEF files
  <2>2. Becomes(files, Imported(files, modules)) BY <1>4 DEF Load
  <2>3. Sound(files, modules)
    <3>1. ASSUME NEW m \in Names, modules[m] # Absent
          PROVE  Importable(modules[m]) /\
                 (files[m] # Absent => modules[m] = files[m] \/ modules[m] \in Misdeclared)
      BY <2>1, <3>1, GroundedImports DEF ModulesInv
    <3> QED BY <3>1 DEF Sound, ModulesInv
  <2>4. Sound(files, Imported(files, modules)) BY <2>1, <2>3, ImportedSound
  <2>5. ModulesInv' /\ RegistryInv' BY <1>1, <2>1, <2>2, <2>4, LoadKeepsInv
  <2>6. disk' = files /\ registry' = Served(files, Imported(files, modules)) BY <2>2 DEF Becomes
  <2>7. ASSUME NEW m \in Names \ {n}, registry[m] # Absent PROVE registry'[m] = registry[m]
    <3>1. modules[m] = disk[m] /\ modules \in Files BY <2>7 DEF RegistryInv, ModulesInv
    <3> QED BY <2>1, <2>6, <2>7, <3>1, LoadKeepsServed
  <2>8. Catalog!OthersKept(n) BY <2>1, <2>5, <2>6, <2>7, OthersKept DEF Kept
  <2>9. registry'[n] = Absent BY <1>4, <2>1, <2>6 DEF Served
  <2>10. Catalog!Erase(n) BY <2>1, <2>6, <2>8, <2>9 DEF Catalog!Erase
  <2> QED BY <1>4, <2>5, <2>10, Operates
<1> QED BY <1>1, <1>2, <1>3, <1>4

LEMMA Lists ==
  ASSUME ModulesInv, RegistryInv, ListProviders
  PROVE  ModulesInv' /\ RegistryInv' /\ Catalog!Next
<1>1. PICK new : new = Imported(disk, modules) OBVIOUS
<1>2. /\ modules' = new /\ loaded' = LoadedBy(new) /\ UNCHANGED <<disk, registry, env>>
  BY <1>1 DEF ListProviders, UnchangedPackages
<1>3. Sound(disk, new) BY <1>1, ModulesSound, ImportedSound DEF ModulesInv
<1>4. \A n \in Names : modules[n] # Absent => new[n] = modules[n] BY <1>1 DEF Imported
<1>5. /\ loaded' \in [Packages -> Versions \cup {Absent}]
      /\ \A n \in Names : new[n] # Absent => Grounded(new[n])'
  BY <1>2, <1>3, ImportsStay
<1>6. ModulesInv' BY <1>2, <1>3, <1>5 DEF ModulesInv, Sound
<1>7. RegistryInv' BY <1>2, <1>4 DEF RegistryInv
<1> QED BY <1>2, <1>6, <1>7, Rescans DEF Kept

LEMMA ByHandKept ==
  ASSUME CatalogInv, NEW n \in Names, NEW x \in Unparsable, PlaceByHand(n, x)
  PROVE  ModulesInv' /\ RegistryInv' /\ Catalog!Next
<1>1. /\ disk[n] = Absent /\ disk' = [disk EXCEPT ![n] = x] /\ x \in Sources /\ x # Absent
      /\ UNCHANGED <<modules, registry, loaded, env>>
  BY PluginsOK DEF PlaceByHand, Holds, UnchangedPackages
<1>2. /\ disk' \in Files /\ disk'[n] = x /\ \A m \in Names \ {n} : disk'[m] = disk[m]
  BY <1>1 DEF CatalogInv, ModulesInv, Files
<1>3. \A m \in Names : modules[m] = Absent /\ registry[m] = Absent
  BY DEF PlaceByHand, CatalogInv, DownEmpty, Alive, Nothing
<1>4. ModulesInv' BY <1>1, <1>2, <1>3 DEF CatalogInv, ModulesInv
<1>5. RegistryInv' BY <1>1, <1>2, <1>3 DEF CatalogInv, RegistryInv
<1>6. Catalog!OthersKept(n) BY <1>1, <1>2, <1>5, OthersKept DEF Kept, CatalogInv
<1>7. Catalog!Put(n) BY <1>1, <1>2, <1>3, <1>6 DEF Catalog!Put
<1> QED BY <1>4, <1>5, <1>7, Operates

LEMMA PackagesKept ==
  ASSUME ModulesInv, RegistryInv, PackageRequest \/ \E c \in Operators : PackageStep(c)
  PROVE  ModulesInv' /\ RegistryInv' /\ Catalog!Next
<1>1. CASE PackageRequest
  <2>1. UNCHANGED sourceVars /\ UNCHANGED env
    BY <1>1 DEF PackageRequest, AddPackage, RemovePackage, SyncPackages, Enqueue, PutManifest, UnchangedSources
  <2> QED BY <2>1, SourcesKept DEF ModulesInv
<1>2. ASSUME NEW c \in Operators, ReloadAfter(c) PROVE ModulesInv' /\ RegistryInv' /\ Catalog!Next
  BY <1>2, LoadsAgain DEF ReloadAfter
<1>3. ASSUME NEW c \in Operators,
             BeginPackages(c) \/ WriteManifest(c) \/ WriteManifestFails(c) \/ SaveState(c)
      PROVE  ModulesInv' /\ RegistryInv' /\ Catalog!Next
  <2>1. UNCHANGED sourceVars /\ UNCHANGED env
    BY <1>3 DEF BeginPackages, WriteManifest, WriteManifestFails, SaveState, UnchangedSources
  <2> QED BY <2>1, SourcesKept DEF ModulesInv
<1>4. ASSUME NEW c \in Operators, UvSucceeds(c) \/ UvFails(c)
      PROVE  ModulesInv' /\ RegistryInv' /\ Catalog!Next
  <2>1. PICK part \in [operation[c].targets -> Versions \cup {Absent}] :
          env' = [p \in Packages |-> IF p \in DOMAIN part THEN part[p] ELSE env[p]]
    BY <1>4 DEF UvSucceeds, UvFails
  <2>2. env' \in [Packages -> Versions \cup {Absent}] BY <2>1 DEF ModulesInv
  <2>3. UNCHANGED sourceVars BY <1>4 DEF UvSucceeds, UvFails, UnchangedSources
  <2> QED BY <2>2, <2>3, SourcesKept
<1> QED BY <1>1, <1>2, <1>3, <1>4 DEF PackageStep

LEMMA SourcesMove ==
  ASSUME ModulesInv, RegistryInv, SourceRequest \/ \E c \in Clients : SourceStep(c)
  PROVE  ModulesInv' /\ RegistryInv' /\ Catalog!Next
<1>1. ASSUME NEW c \in Clients, NEW n \in Names, DeleteChecks(c, n) \/ TaskChecks(c, n)
      PROVE  ModulesInv' /\ RegistryInv' /\ Catalog!Next
  <2>1. UNCHANGED sourceVars /\ UNCHANGED env BY <1>1 DEF DeleteChecks, TaskChecks, UnchangedPackages
  <2> QED BY <2>1, SourcesKept DEF ModulesInv
<1>2. ASSUME NEW c \in Clients, TaskCommits(c) PROVE ModulesInv' /\ RegistryInv' /\ Catalog!Next
  <2>1. UNCHANGED sourceVars /\ UNCHANGED env BY <1>2 DEF TaskCommits, UnchangedPackages
  <2> QED BY <2>1, SourcesKept DEF ModulesInv
<1>3. CASE ReloadProviders BY <1>3, LoadsAgain DEF ReloadProviders, UnchangedPackages
<1> QED BY <1>1, <1>2, <1>3, Creates, Updates, Deletes, Lists DEF SourceRequest, SourceStep

-----------------------------------------------------------------------------
(* The steps of the process.                                               *)

(* What a component that is not the plugins does is nothing to them, and   *)
(* only a start and a kill decide whether the process lives.               *)
LEMMA OthersStep ==
  ASSUME CatalogInv, UNCHANGED pluginsVars, UNCHANGED process
  PROVE  CatalogInv' /\ UNCHANGED <<disk, registry, Blocked, Alive>>
BY DEF pluginsVars, CatalogInv, ModulesInv, RegistryInv, DownEmpty, Grounded, Blocked, Alive

LEMMA PluginsStep ==
  ASSUME CatalogInv, Alive, UNCHANGED process,
         SourceRequest \/ PackageRequest \/ (\E c \in Clients : SourceStep(c))
         \/ (\E c \in Operators : PackageStep(c))
  PROVE  CatalogInv' /\ Catalog!Next
<1>1. ModulesInv' /\ RegistryInv' /\ Catalog!Next BY SourcesMove, PackagesKept DEF CatalogInv
<1>2. DownEmpty' BY DEF DownEmpty, Alive
<1> QED BY <1>1, <1>2 DEF CatalogInv

(* A step of a request on plugins is one of a process that lives.          *)
LEMMA RequestsLive ==
  ASSUME CatalogInv, NEW c \in Operators, SourceStep(c) \/ PackageStep(c)
  PROVE  Alive
<1>1. operation[c].pc # "idle"
  BY DEF SourceStep, DeleteErases, TaskCommits, PackageStep, BeginPackages, UvSucceeds, UvFails,
         WriteManifest, WriteManifestFails, ReloadAfter, SaveState
<1> QED BY <1>1 DEF CatalogInv, DownEmpty

LEMMA ProcessUnchanged ==
  ASSUME SettingsRequest \/ \E c \in Clients : SettingsStep(c)
  PROVE  UNCHANGED process
BY DEF SettingsRequest, PutArrives, ChangeVerifies, SettingsStep, PutReads, PutCommits, PutFails,
       RefreshReads, RefreshApplies, ChangeCommits

LEMMA CatalogStep ==
  ASSUME CatalogInv, [Next]_vars
  PROVE  CatalogInv' /\ (Catalog!Next \/ UNCHANGED <<disk, registry, Blocked, Alive>>)
<1>1. CASE Create
  <2>1. CASE process' = "restoring"
    <3>1. PluginsStart BY <1>1, <2>1 DEF Create
    <3>2. ModulesInv' /\ RegistryInv' /\ Catalog!Next
      BY <3>1, LoadsAgain DEF PluginsStart, CatalogInv
    <3>3. DownEmpty' BY <2>1 DEF DownEmpty, Alive
    <3> QED BY <3>2, <3>3 DEF CatalogInv
  <2>2. CASE process' # "restoring"
    <3>1. UNCHANGED pluginsVars BY <1>1, <2>2 DEF Create
    <3>2. ~Alive /\ ~Alive' BY <1>1, <2>2 DEF Create, SettingsStart, Alive
    <3>3. UNCHANGED <<disk, modules, registry, env, loaded, operation>> BY <3>1 DEF pluginsVars
    <3>4. ModulesInv' BY <3>3 DEF CatalogInv, ModulesInv, Grounded
    <3>5. RegistryInv' BY <3>3 DEF CatalogInv, RegistryInv
    <3>6. DownEmpty' BY <3>2, <3>3 DEF CatalogInv, DownEmpty
    <3>7. UNCHANGED <<disk, registry, Blocked>> BY <3>3 DEF Blocked
    <3>8. Alive' = Alive BY <3>2 DEF Alive
    <3> QED BY <3>4, <3>5, <3>6, <3>7, <3>8 DEF CatalogInv
  <2> QED BY <2>1, <2>2
<1>2. CASE Serve
  <2>1. ModulesInv' /\ RegistryInv' /\ Catalog!Next
    BY <1>2, LoadsAgain DEF Serve, PluginsReady, UnchangedPackages, CatalogInv
  <2>2. DownEmpty' BY <1>2 DEF Serve, SettingsReady, DownEmpty, Alive
  <2> QED BY <2>1, <2>2 DEF CatalogInv
<1>3. CASE Crash
  <2>1. /\ modules' = Nothing /\ registry' = Nothing /\ UNCHANGED <<disk, env>>
        /\ loaded' = [p \in Packages |-> Absent] /\ operation' = [c \in Operators |-> OpIdle]
        /\ Alive /\ ~Alive'
    BY <1>3 DEF Crash, PluginsCrash, SettingsCrash, Alive
  <2>2. ModulesInv' BY <2>1 DEF CatalogInv, ModulesInv, Files, Nothing
  <2>3. RegistryInv' BY <2>1 DEF RegistryInv, Files, Nothing
  <2>4. OpIdle.pc = "idle" BY DEF OpIdle
  <2>5. DownEmpty' BY <2>1, <2>4 DEF DownEmpty
  <2>6. Catalog!Reset BY <2>1 DEF Catalog!Reset, Nothing
  <2>7. Blocked' \subseteq Names /\ Alive' \in BOOLEAN BY DEF Blocked, Alive
  <2> QED BY <2>2, <2>3, <2>5, <2>6, <2>7 DEF CatalogInv, Catalog!Next
<1>4. CASE ByHand
  <2>1. PICK n \in Names, x \in Unparsable : PlaceByHand(n, x) BY <1>4 DEF ByHand
  <2>2. ModulesInv' /\ RegistryInv' /\ Catalog!Next BY <2>1, ByHandKept
  <2>3. DownEmpty'
    BY <1>4, <2>1 DEF PlaceByHand, ByHand, settingsVars, CatalogInv, DownEmpty, Alive
  <2> QED BY <2>2, <2>3 DEF CatalogInv
<1>5. CASE Request
  <2>1. Alive BY <1>5 DEF Request, Alive
  <2>2. CASE SourceRequest /\ UNCHANGED settingsVars BY <2>1, <2>2, PluginsStep DEF settingsVars
  <2>3. CASE PackageRequest /\ UNCHANGED settingsVars BY <2>1, <2>3, PluginsStep DEF settingsVars
  <2>4. CASE UNCHANGED pluginsVars /\ (SettingsRequest \/ UNCHANGED settingsVars)
    BY <2>4, OthersStep, ProcessUnchanged DEF settingsVars
  <2> QED BY <1>5, <2>2, <2>3, <2>4 DEF Request
<1>6. ASSUME NEW c \in Clients, SettingsMoves(c)
      PROVE  CatalogInv' /\ (Catalog!Next \/ UNCHANGED <<disk, registry, Blocked, Alive>>)
  BY <1>6, OthersStep, ProcessUnchanged DEF SettingsMoves
<1>7. ASSUME NEW c \in Clients, SourceMoves(c)
      PROVE  CatalogInv' /\ (Catalog!Next \/ UNCHANGED <<disk, registry, Blocked, Alive>>)
  BY <1>7, PluginsStep, RequestsLive DEF SourceMoves, settingsVars, Operators
<1>8. ASSUME NEW c \in Operators, PackageMoves(c)
      PROVE  CatalogInv' /\ (Catalog!Next \/ UNCHANGED <<disk, registry, Blocked, Alive>>)
  BY <1>8, PluginsStep, RequestsLive DEF PackageMoves, settingsVars
<1>9. ASSUME (\E a \in Attempts : AttemptMoves(a) \/ AttemptEvents(a)) \/ ProbeMoves \/ ProbeEvents
             \/ UNCHANGED vars
      PROVE  CatalogInv' /\ (Catalog!Next \/ UNCHANGED <<disk, registry, Blocked, Alive>>)
  BY <1>9, OthersStep DEF AttemptMoves, AttemptEvents, ProbeMoves, ProbeEvents, vars, settingsVars
<1> QED BY <1>1, <1>2, <1>3, <1>4, <1>5, <1>6, <1>7, <1>8, <1>9 DEF Next

LEMMA CatalogInitially == Init => CatalogInv /\ Catalog!Init
<1> SUFFICES ASSUME Init PROVE CatalogInv /\ Catalog!Init
  OBVIOUS
<1>1. /\ process = "down" /\ disk = Nothing /\ modules = Nothing /\ registry = Nothing
      /\ env = [p \in Packages |-> Absent] /\ loaded = env
      /\ operation = [c \in Operators |-> OpIdle]
  BY DEF Init, SettingsInit, PluginsInit
<1>2. ModulesInv BY <1>1 DEF ModulesInv, Files, Nothing
<1>3. RegistryInv BY <1>1 DEF RegistryInv, Files, Nothing
<1>4. OpIdle.pc = "idle" BY DEF OpIdle
<1>5. DownEmpty BY <1>1, <1>4 DEF DownEmpty
<1>6. Blocked = {} BY <1>1, PluginsOK DEF Blocked, Nothing
<1>7. ~Alive BY <1>1 DEF Alive
<1>8. Catalog!Init BY <1>1, <1>6, <1>7 DEF Catalog!Init, Nothing
<1> QED BY <1>2, <1>3, <1>5, <1>8 DEF CatalogInv

(* The process implements the catalog: with any number of providers,       *)
(* packages and requests it serves stored sources only, and a request on   *)
(* one provider, or on packages, costs no other its place.                 *)
THEOREM CatalogImplemented == Spec => ImplementsCatalog
<1>1. Init => CatalogInv /\ Catalog!Init BY CatalogInitially
<1>2. CatalogInv /\ [Next]_vars => CatalogInv' /\ [Catalog!Next]_<<disk, registry, Blocked, Alive>>
  BY CatalogStep
<1> QED BY <1>1, <1>2, PTL DEF Spec, ImplementsCatalog, Catalog!Spec, Catalog!catalogVars
=============================================================================
