----------------------------- MODULE PackageProofs -----------------------------
(* What explains a drift of packages, and a stored provider that is not    *)
(* served, for any providers, packages, requests, faults and kills; and    *)
(* that every variable of the process keeps its type.                      *)
EXTENDS CatalogProofs, PlatformProofs, SequenceTheorems

-----------------------------------------------------------------------------
(* The requests, and the lock they queue for.                              *)
Apart   == {"idle", "unreferenced", "checked"}
Holding == {"running", "installed", "recorded", "saving", "failed"}
Demands == Versions \cup {AnyVersion, Absent}

Ops == [pc      : Apart \cup {"waiting"} \cup Holding,
        kind    : {"add", "remove", "sync"},
        name    : Names \cup {OpIdle.name},
        targets : SUBSET Packages,
        spec    : Versions \cup {AnyVersion},
        seen    : [Packages -> Demands],
        before  : [Packages -> Versions \cup {Absent}]]

OpsInv ==
  /\ operation \in [Operators -> Ops]
  /\ \A c \in Operators : operation[c].pc = "checked" => operation[c].name \in Names

PackageTypes ==
  /\ manifest \in [Packages -> Demands]
  /\ env \in [Packages -> Versions \cup {Absent}]
  /\ state \in [error : {"yes", "no"}, restart : SUBSET Packages]
  /\ excused \subseteq Packages /\ tasks \subseteq Names

(* Who waits is in line, and only the head of the line works.              *)
LockInv ==
  /\ line \in Seq(Operators)
  /\ \A c \in Operators :
       /\ operation[c].pc = "waiting" => \E i \in 1..Len(line) : line[i] = c
       /\ operation[c].pc \in Holding => line # <<>> /\ Head(line) = c

(* What the holder of the lock knows: the manifest is as it read it, up to *)
(* what is excused; uv did what the request asks for; a failure excuses    *)
(* the targets.                                                            *)
Satisfied(op) ==
  \A p \in op.targets : IF op.kind = "remove" THEN env[p] = Absent ELSE Matches(env[p], op.spec)

WorkInv ==
  \A c \in Operators :
    LET op == operation[c]
    IN  /\ op.pc \in {"running", "installed"} =>
             \A p \in Packages : op.seen[p] = manifest[p] \/ p \in excused
        /\ op.pc = "running" /\ op.kind = "sync" => \A p \in op.targets : op.seen[p] # Absent
        /\ op.pc = "installed" => op.kind # "sync" /\ Satisfied(op)

Agrees(p) == IF manifest[p] = Absent THEN env[p] = Absent ELSE Matches(env[p], manifest[p])

(* Drift is explained already by what is excused and what waits for the    *)
(* manifest to be written.                                                 *)
DriftInv ==
  \A p \in Packages :
    \/ Agrees(p) \/ p \in excused
    \/ \E c \in Operators : operation[c].pc = "installed" /\ p \in operation[c].targets

PackagesInv == OpsInv /\ PackageTypes /\ LockInv /\ WorkInv /\ DriftInv

-----------------------------------------------------------------------------
(* How a request moves.                                                    *)
LEMMA IdleIsOp ==
  OpIdle.pc = "idle" /\ OpIdle \in [pc : {"idle"}, kind : {"sync"}, name : {OpIdle.name}, targets : {{}},
                                    spec : {AnyVersion}, seen : [Packages -> Demands],
                                    before : [Packages -> Versions \cup {Absent}]]
BY DEF OpIdle, Demands

Others(c) == \A d \in Operators \ {c} : operation'[d] = operation[d]

LEMMA Moved ==
  ASSUME OpsInv, NEW c \in Operators, NEW r, operation' = [operation EXCEPT ![c] = r]
  PROVE  operation'[c] = r /\ Others(c) /\ (r \in Ops => operation' \in [Operators -> Ops])
BY DEF OpsInv, Others

LEMMA Turned ==
  ASSUME OpsInv, NEW c \in Operators, NEW pc \in Apart \cup {"waiting"} \cup Holding, Goes(c, pc)
  PROVE  /\ operation' \in [Operators -> Ops] /\ Others(c)
         /\ operation'[c].pc = pc /\ operation'[c].name = operation[c].name
         /\ operation'[c].kind = operation[c].kind /\ operation'[c].targets = operation[c].targets
         /\ operation'[c].spec = operation[c].spec /\ operation'[c].seen = operation[c].seen
<1> DEFINE r == [operation[c] EXCEPT !.pc = pc]
<1>1. operation' = [operation EXCEPT ![c] = r] BY DEF Goes, OpsInv
<1>2. operation[c] \in Ops BY DEF OpsInv
<1>3. /\ r \in Ops /\ r.pc = pc /\ r.name = operation[c].name
      /\ r.kind = operation[c].kind /\ r.targets = operation[c].targets
      /\ r.spec = operation[c].spec /\ r.seen = operation[c].seen
  BY <1>2 DEF Ops
<1> HIDE DEF r
<1> QED BY <1>1, <1>3, Moved

(* Nobody but c holds the lock if c does.                                  *)
LEMMA OneHolder ==
  ASSUME LockInv, NEW c \in Operators, operation[c].pc \in Holding \/ (line # <<>> /\ Head(line) = c),
         NEW d \in Operators, operation[d].pc \in Holding
  PROVE  d = c
BY DEF LockInv

(* The lock while the line stays: c holds it if it works afterwards.       *)
LEMMA LineKept ==
  ASSUME LockInv, NEW c \in Operators, Others(c), UNCHANGED line, operation'[c].pc # "waiting",
         operation'[c].pc \in Holding => line # <<>> /\ Head(line) = c
  PROVE  LockInv'
BY DEF LockInv, Others

LEMMA Released ==
  ASSUME OpsInv, LockInv, NEW c \in Operators, line # <<>>, Head(line) = c, Ends(c)
  PROVE  OpsInv' /\ LockInv' /\ operation'[c].pc = "idle" /\ Others(c)
<1>1. operation' = [operation EXCEPT ![c] = OpIdle] /\ line' = Tail(line) BY DEF Ends
<1>2. OpIdle.pc = "idle" /\ OpIdle \in Ops BY IdleIsOp DEF Ops, Apart
<1>3. operation'[c] = OpIdle /\ Others(c) /\ operation' \in [Operators -> Ops] BY <1>1, <1>2, Moved
<1>4. OpsInv' BY <1>2, <1>3 DEF OpsInv, Others
<1>5. /\ line \in Seq(Operators) /\ line' \in Seq(Operators) /\ Len(line') = Len(line) - 1
      /\ Len(line) \in Nat \ {0} /\ \A i \in 1..Len(line') : line'[i] = line[i + 1]
  <2>1. line \in Seq(Operators) /\ Len(line) \in Nat /\ Len(line) # 0 BY DEF LockInv
  <2> QED BY <1>1, <2>1, HeadTailProperties
<1>6. ASSUME NEW d \in Operators, operation'[d].pc = "waiting"
      PROVE  \E i \in 1..Len(line') : line'[i] = d
  <2>1. d # c /\ operation[d].pc = "waiting" BY <1>2, <1>3, <1>6 DEF Others
  <2>2. PICK i \in 1..Len(line) : line[i] = d BY <2>1 DEF LockInv
  <2>3. i # 1 BY <2>1, <2>2
  <2>4. i - 1 \in 1..Len(line') /\ line'[i - 1] = line[(i - 1) + 1] BY <1>5, <2>2, <2>3
  <2> QED BY <2>2, <2>4
<1>7. ASSUME NEW d \in Operators, operation'[d].pc \in Holding PROVE FALSE
  <2>1. d # c BY <1>2, <1>3, <1>7 DEF Holding
  <2>2. operation[d].pc \in Holding BY <1>3, <1>7, <2>1 DEF Others
  <2> QED BY <2>1, <2>2 DEF LockInv
<1> QED BY <1>2, <1>3, <1>4, <1>5, <1>6, <1>7 DEF LockInv

-----------------------------------------------------------------------------
(* Steps that leave the packages and their requests alone: each request on *)
(* packages is where it was.                                               *)
Aside ==
  /\ UNCHANGED <<manifest, env, state, line, excused>>
  /\ OpsInv'
  /\ \A c \in Operators : operation'[c] = operation[c]
                            \/ (operation[c].pc \in Apart /\ operation'[c].pc \in Apart)

LEMMA AsideKept ==
  ASSUME PackagesInv, Aside, tasks' \subseteq Names
  PROVE  PackagesInv'
<1> USE DEF PackagesInv, Aside, Apart
<1>1. PackageTypes' BY DEF PackageTypes
<1>2. LockInv' BY DEF LockInv, Holding
<1>3. WorkInv'
  <2>1. ASSUME NEW c \in Operators, operation'[c].pc \in {"running", "installed"}
        PROVE  operation'[c] = operation[c]
    BY <2>1
  <2> QED BY <2>1 DEF WorkInv, Satisfied, Matches
<1>4. DriftInv'
  <2>1. \A p \in Packages : Agrees(p)' = Agrees(p) BY DEF Agrees, Matches
  <2>2. \A c \in Operators : operation[c].pc = "installed" => operation'[c] = operation[c] OBVIOUS
  <2> QED BY <2>1, <2>2 DEF DriftInv
<1> QED BY <1>1, <1>2, <1>3, <1>4

LEMMA SourcesAside ==
  ASSUME PackagesInv, SourceRequest \/ (\E c \in Clients : SourceStep(c))
                      \/ (\E n \in Names, x \in Unparsable : PlaceByHand(n, x)) \/ PluginsReady
  PROVE  Aside /\ tasks' \subseteq Names
<1> USE DEF PackagesInv
<1>1. Clients \subseteq Operators BY DEF Operators
<1>2. ASSUME UNCHANGED <<operation, tasks>>, UnchangedPackages PROVE Aside /\ tasks' \subseteq Names
  BY <1>2 DEF Aside, UnchangedPackages, OpsInv, PackageTypes
<1>3. ASSUME NEW c \in Clients, NEW r \in Ops, operation' = [operation EXCEPT ![c] = r],
             operation[c].pc \in Apart, r.pc \in Apart, r.pc = "checked" => r.name \in Names,
             UnchangedPackages, tasks' \subseteq Names
      PROVE  Aside /\ tasks' \subseteq Names
  <2>1. operation'[c] = r /\ Others(c) /\ operation' \in [Operators -> Ops] BY <1>1, <1>3, Moved
  <2> QED BY <1>3, <2>1 DEF Aside, UnchangedPackages, OpsInv, Others
<1>4. OpIdle \in Ops /\ OpIdle.pc = "idle" BY IdleIsOp DEF Ops, Apart
<1>5. ASSUME NEW c \in Clients, NEW n \in Names, DeleteChecks(c, n) \/ TaskChecks(c, n)
      PROVE  Aside /\ tasks' \subseteq Names
  <2>1. PICK pc \in {"unreferenced", "checked"} :
          operation' = [operation EXCEPT ![c] = [OpIdle EXCEPT !.pc = pc, !.name = n]]
    BY <1>5 DEF DeleteChecks, TaskChecks
  <2> DEFINE r == [OpIdle EXCEPT !.pc = pc, !.name = n]
  <2>2. r \in Ops /\ r.pc = pc /\ r.name = n BY IdleIsOp DEF Ops, Apart
  <2>3. operation' = [operation EXCEPT ![c] = r] BY <2>1
  <2>4. operation[c].pc = "idle" /\ UnchangedPackages /\ UNCHANGED tasks
    BY <1>5 DEF DeleteChecks, TaskChecks
  <2> HIDE DEF r
  <2> QED BY <1>3, <2>2, <2>3, <2>4 DEF Apart, PackageTypes
<1>6. ASSUME NEW c \in Clients, DeleteErases(c) \/ TaskCommits(c) PROVE Aside /\ tasks' \subseteq Names
  <2>1. operation' = [operation EXCEPT ![c] = OpIdle] /\ operation[c].pc \in Apart /\ UnchangedPackages
    BY <1>6 DEF DeleteErases, TaskCommits, Apart
  <2>2. tasks' \subseteq Names
    BY <1>1, <1>6 DEF DeleteErases, TaskCommits, PackageTypes, OpsInv
  <2> QED BY <1>3, <1>4, <2>1, <2>2 DEF Apart
<1>7. ASSUME NEW n \in Names, NEW x, CreateProvider(n, x) \/ UpdateProvider(n, x) \/ PlaceByHand(n, x)
      PROVE  UNCHANGED <<operation, tasks>> /\ UnchangedPackages
  BY <1>7 DEF CreateProvider, UpdateProvider, PlaceByHand
<1>8. ASSUME ReloadProviders \/ ListProviders \/ PluginsReady
      PROVE  UNCHANGED <<operation, tasks>> /\ UnchangedPackages
  BY <1>8 DEF ReloadProviders, ListProviders, PluginsReady
<1> QED BY <1>2, <1>5, <1>6, <1>7, <1>8 DEF SourceRequest, SourceStep

-----------------------------------------------------------------------------
(* Steps of requests on packages.                                          *)
LEMMA QueuedKept ==
  ASSUME PackagesInv, NEW c \in Clients, NEW kind \in {"add", "remove", "sync"},
         NEW targets \in SUBSET Packages, NEW spec \in Versions \cup {AnyVersion},
         Enqueue(c, kind, targets, spec)
  PROVE  PackagesInv'
<1> USE DEF PackagesInv
<1> DEFINE r == [OpIdle EXCEPT !.pc = "waiting", !.kind = kind, !.targets = targets, !.spec = spec]
<1>1. c \in Operators BY DEF Operators
<1>2. r \in Ops /\ r.pc = "waiting" BY IdleIsOp DEF Ops
<1>3. /\ operation' = [operation EXCEPT ![c] = r] /\ operation[c].pc = "idle"
      /\ line' = Append(line, c) /\ UNCHANGED <<manifest, env, state, excused, tasks>>
  BY DEF Enqueue, UnchangedSources
<1> HIDE DEF r
<1>4. operation'[c] = r /\ Others(c) /\ operation' \in [Operators -> Ops] BY <1>1, <1>2, <1>3, Moved
<1>5. OpsInv' BY <1>2, <1>4 DEF OpsInv, Others
<1>6. PackageTypes' BY <1>3 DEF PackageTypes
<1>7. LockInv'
  <2>1. /\ line' \in Seq(Operators) /\ Len(line') = Len(line) + 1 /\ Len(line) \in Nat
        /\ line'[Len(line) + 1] = c /\ \A i \in 1..Len(line) : line'[i] = line[i]
    BY <1>1, <1>3 DEF LockInv
  <2>2. line # <<>> => line' # <<>> /\ Head(line') = Head(line) BY <2>1 DEF LockInv
  <2>3. ASSUME NEW d \in Operators, operation'[d].pc = "waiting"
        PROVE  \E i \in 1..Len(line') : line'[i] = d
    <3>1. CASE d = c
      <4>1. Len(line) + 1 \in 1..Len(line') BY <2>1
      <4> QED BY <2>1, <3>1, <4>1
    <3>2. CASE d # c
      <4>1. PICK i \in 1..Len(line) : line[i] = d BY <1>4, <2>3, <3>2 DEF LockInv, Others
      <4> QED BY <2>1, <4>1
    <3> QED BY <3>1, <3>2
  <2>4. \A d \in Operators : operation'[d].pc \in Holding => operation[d].pc \in Holding
    BY <1>2, <1>4 DEF Holding, Others
  <2> QED BY <2>1, <2>2, <2>3, <2>4 DEF LockInv
<1>8. \A d \in Operators : operation'[d].pc \in {"running", "installed"} \/ operation[d].pc \in {"running", "installed"}
                            => operation'[d] = operation[d]
  BY <1>2, <1>3, <1>4 DEF Others
<1>9. WorkInv' BY <1>3, <1>8 DEF WorkInv, Satisfied, Matches
<1>10. DriftInv' BY <1>3, <1>8 DEF DriftInv, Agrees, Matches
<1> QED BY <1>5, <1>6, <1>7, <1>9, <1>10

LEMMA BegunKept ==
  ASSUME PackagesInv, NEW c \in Operators, BeginPackages(c)
  PROVE  PackagesInv'
<1> USE DEF PackagesInv
<1> DEFINE op == operation[c]
           targets == IF op.kind = "sync" THEN Missing ELSE op.targets
           r == [op EXCEPT !.pc = "running", !.targets = targets, !.seen = manifest, !.before = env]
<1>1. /\ op.pc = "waiting" /\ Head(line) = c
      /\ UNCHANGED <<manifest, env, state, excused, tasks>>
      /\ Ends(c) \/ (operation' = [operation EXCEPT ![c] = r] /\ UNCHANGED line)
  BY DEF BeginPackages, HoldsLock, UnchangedSources
<1>2. line # <<>>
  <2>1. \E i \in 1..Len(line) : line[i] = c BY <1>1 DEF LockInv
  <2> QED BY <2>1
<1>3. PackageTypes' BY <1>1 DEF PackageTypes
<1>4. \A d \in Operators \ {c} : operation[d].pc \notin Holding BY <1>1, <1>2, OneHolder
<1>5. CASE Ends(c)
  <2>1. OpsInv' /\ LockInv' /\ operation'[c].pc = "idle" /\ Others(c) BY <1>1, <1>2, <1>5, Released
  <2>2. \A d \in Operators : /\ operation[d].pc \notin {"running", "installed"}
                             /\ operation'[d].pc \notin {"running", "installed"}
    BY <1>1, <1>4, <2>1 DEF Others, Holding
  <2>3. WorkInv' BY <2>2 DEF WorkInv
  <2>4. DriftInv' BY <1>1, <2>2 DEF DriftInv, Agrees, Matches
  <2> QED BY <1>3, <2>1, <2>3, <2>4
<1>6. CASE operation' = [operation EXCEPT ![c] = r] /\ UNCHANGED line
  <2>1. op \in Ops BY DEF OpsInv
  <2>2. targets \subseteq Packages BY <2>1 DEF Missing, Ops
  <2>3. op.kind = "sync" => \A p \in targets : manifest[p] # Absent BY DEF Missing
  <2> HIDE DEF targets
  <2>4. r \in Ops /\ r.pc = "running" /\ r.kind = op.kind /\ r.targets = targets /\ r.seen = manifest
    BY <2>1, <2>2 DEF Ops, Holding, PackageTypes
  <2> HIDE DEF r
  <2>5. operation'[c] = r /\ Others(c) /\ operation' \in [Operators -> Ops] BY <1>6, <2>4, Moved
  <2>6. OpsInv' BY <2>4, <2>5 DEF OpsInv, Others
  <2>7. LockInv' BY <1>1, <1>2, <1>6, <2>4, <2>5, LineKept
  <2>8. \A d \in Operators \ {c} : operation'[d].pc \notin {"running", "installed"}
    BY <1>4, <2>5 DEF Others, Holding
  <2>9. WorkInv'
    <3>1. \A p \in Packages : r.seen[p] = manifest'[p] BY <1>1, <2>4
    <3> QED BY <1>1, <2>3, <2>4, <2>5, <2>8, <3>1 DEF WorkInv
  <2>10. \A d \in Operators : operation[d].pc # "installed" BY <1>1, <1>4 DEF Holding
  <2>11. DriftInv' BY <1>1, <2>10 DEF DriftInv, Agrees, Matches
  <2> QED BY <1>3, <2>6, <2>7, <2>9, <2>11
<1> QED BY <1>1, <1>5, <1>6

(* What uv may install is a version or nothing. *)
LEMMA UvTypes ==
  ASSUME PackagesInv, NEW c \in Operators, UvSucceeds(c) \/ UvFails(c)
  PROVE  /\ env' \in [Packages -> Versions \cup {Absent}]
         /\ \A p \in Packages \ operation[c].targets : env'[p] = env[p]
<1>1. PICK part \in [operation[c].targets -> Versions \cup {Absent}] :
        env' = [p \in Packages |-> IF p \in DOMAIN part THEN part[p] ELSE env[p]]
  BY DEF UvSucceeds, UvFails
<1> QED BY <1>1 DEF PackagesInv, PackageTypes

(* Outside of its targets a step of uv changes no drift. *)
LEMMA DriftBeside ==
  ASSUME PackagesInv, NEW c \in Operators, operation[c].pc \in Holding, Others(c),
         NEW p \in Packages, UNCHANGED <<env[p], manifest[p]>>, p \in excused => p \in excused',
         operation[c].pc = "installed" => p \notin operation[c].targets
  PROVE  Agrees(p)' \/ p \in excused'
<1>1. \A d \in Operators : operation[d].pc = "installed" => d = c
  BY OneHolder DEF PackagesInv, Holding
<1>2. Agrees(p) \/ p \in excused BY <1>1 DEF PackagesInv, DriftInv
<1> QED BY <1>2 DEF Agrees, Matches

LEMMA UvSucceededKept ==
  ASSUME PackagesInv, NEW c \in Operators, UvSucceeds(c)
  PROVE  PackagesInv'
<1> USE DEF PackagesInv
<1> DEFINE op == operation[c]
           pc == IF op.kind = "sync" THEN "recorded" ELSE "installed"
<1>1. /\ op.pc = "running" /\ Goes(c, pc) /\ UNCHANGED <<manifest, state, line, excused, tasks>>
      /\ \A p \in op.targets : env'[p] \in Result(op, p)
  <2>1. PICK installed \in [op.targets -> Versions \cup {Absent}] :
          /\ \A p \in DOMAIN installed : installed[p] \in Result(op, p)
          /\ env' = [p \in Packages |-> IF p \in DOMAIN installed THEN installed[p] ELSE env[p]]
    BY DEF UvSucceeds
  <2>2. op.targets \subseteq Packages BY DEF OpsInv, Ops
  <2>3. \A p \in op.targets : env'[p] \in Result(op, p) BY <2>1, <2>2
  <2> QED BY <2>3 DEF UvSucceeds, UnchangedSources
<1>2. pc \in {"recorded", "installed"} OBVIOUS
<1>3. /\ operation' \in [Operators -> Ops] /\ Others(c) /\ operation'[c].pc = pc
      /\ operation'[c].kind = op.kind /\ operation'[c].targets = op.targets
      /\ operation'[c].spec = op.spec /\ operation'[c].seen = op.seen /\ operation'[c].name = op.name
  BY <1>1, <1>2, Turned DEF Holding
<1>4. op \in Ops /\ op.targets \subseteq Packages BY DEF OpsInv, Ops
<1>5. \A p \in op.targets :
        IF op.kind = "remove" THEN env'[p] = Absent
        ELSE Matches(env'[p], IF op.kind = "sync" THEN op.seen[p] ELSE op.spec)
  <2> SUFFICES ASSUME NEW p \in op.targets, op.kind # "remove"
               PROVE  Matches(env'[p], IF op.kind = "sync" THEN op.seen[p] ELSE op.spec)
    BY <1>1 DEF Result
  <2> DEFINE spec == IF op.kind = "sync" THEN op.seen[p] ELSE op.spec
  <2>1. spec \in Versions \cup {AnyVersion}
    <3>1. CASE op.kind = "sync"
      <4>1. op.seen[p] # Absent BY <1>1, <3>1 DEF WorkInv
      <4>2. op.seen[p] \in Demands BY <1>4 DEF Ops
      <4> QED BY <3>1, <4>1, <4>2 DEF Demands
    <3>2. CASE op.kind # "sync" BY <1>4, <3>2 DEF Ops
    <3> QED BY <3>1, <3>2
  <2>2. env'[p] \in IF Matches(env[p], spec) THEN {env[p]}
                    ELSE IF spec = AnyVersion THEN Versions ELSE {spec}
    BY <1>1 DEF Result
  <2> HIDE DEF spec
  <2>3. Matches(env'[p], spec) BY <2>1, <2>2 DEF Matches
  <2> QED BY <2>3 DEF spec
<1>6. OpsInv' BY <1>2, <1>3 DEF OpsInv, Others
<1>7. PackageTypes' BY <1>1, UvTypes DEF PackageTypes
<1>8. LockInv' BY <1>1, <1>2, <1>3, LineKept DEF LockInv, Holding
<1>9. \A d \in Operators \ {c} : operation'[d].pc \notin {"running", "installed"}
  BY <1>1, <1>3, OneHolder DEF Others, Holding
<1>10. WorkInv'
  <2>1. \A p \in Packages : op.seen[p] = manifest[p] \/ p \in excused BY <1>1 DEF WorkInv
  <2>2. op.kind # "sync" => \A p \in op.targets : IF op.kind = "remove" THEN env'[p] = Absent
                                                  ELSE Matches(env'[p], op.spec)
    BY <1>5
  <2>3. pc = "installed" => op.kind # "sync" OBVIOUS
  <2> HIDE DEF pc
  <2>4. operation'[c].pc = "installed" => operation'[c].kind # "sync" /\ Satisfied(operation[c])'
    BY <1>3, <2>2, <2>3 DEF Satisfied, Matches
  <2> QED BY <1>1, <1>2, <1>3, <1>9, <2>1, <2>4 DEF WorkInv
<1>11. DriftInv'
  <2> SUFFICES ASSUME NEW p \in Packages
               PROVE  \/ Agrees(p)' \/ p \in excused'
                      \/ operation'[c].pc = "installed" /\ p \in operation'[c].targets
    BY DEF DriftInv
  <2>1. CASE p \notin op.targets
    BY <1>1, <1>3, <2>1, UvTypes, DriftBeside DEF Holding
  <2>2. CASE p \in op.targets /\ op.kind = "sync"
    <3>1. op.seen[p] = manifest[p] \/ p \in excused BY <1>1 DEF WorkInv
    <3>2. Matches(env'[p], op.seen[p]) BY <1>5, <2>2
    <3>3. op.seen[p] # Absent BY <1>1, <2>2 DEF WorkInv
    <3> QED BY <1>1, <3>1, <3>2, <3>3 DEF Agrees, Matches
  <2>3. CASE p \in op.targets /\ op.kind # "sync" BY <1>3, <2>3
  <2> QED BY <2>1, <2>2, <2>3
<1> QED BY <1>6, <1>7, <1>8, <1>10, <1>11

LEMMA UvFailedKept ==
  ASSUME PackagesInv, NEW c \in Operators, UvFails(c)
  PROVE  PackagesInv'
<1> USE DEF PackagesInv
<1> DEFINE op == operation[c]
<1>1. /\ op.pc = "running" /\ Goes(c, "failed") /\ UNCHANGED <<manifest, state, line, tasks>>
      /\ excused' = excused \cup op.targets
  BY DEF UvFails, UnchangedSources
<1>2. /\ operation' \in [Operators -> Ops] /\ Others(c) /\ operation'[c].pc = "failed"
      /\ operation'[c].name = op.name
  BY <1>1, Turned DEF Holding
<1>3. op.targets \subseteq Packages BY DEF OpsInv, Ops
<1>4. OpsInv' BY <1>2 DEF OpsInv, Others
<1>5. PackageTypes' BY <1>1, <1>3, UvTypes DEF PackageTypes
<1>6. LockInv' BY <1>1, <1>2, LineKept DEF LockInv, Holding
<1>7. \A d \in Operators : operation'[d].pc \notin {"running", "installed"}
  BY <1>1, <1>2, OneHolder DEF Others, Holding
<1>8. WorkInv' BY <1>7 DEF WorkInv
<1>9. DriftInv'
  <2> SUFFICES ASSUME NEW p \in Packages, p \notin op.targets PROVE Agrees(p)' \/ p \in excused'
    BY <1>1 DEF DriftInv
  <2> QED BY <1>1, <1>2, UvTypes, DriftBeside DEF Holding
<1> QED BY <1>4, <1>5, <1>6, <1>8, <1>9

LEMMA WrittenKept ==
  ASSUME PackagesInv, NEW c \in Operators, WriteManifest(c)
  PROVE  PackagesInv'
<1> USE DEF PackagesInv
<1> DEFINE op == operation[c]
<1>1. /\ op.pc = "installed" /\ Goes(c, "recorded") /\ UNCHANGED <<env, state, line, tasks>>
      /\ manifest' = Demanded(op) /\ excused' = excused \ op.targets
  BY DEF WriteManifest, UnchangedSources
<1>2. /\ operation' \in [Operators -> Ops] /\ Others(c) /\ operation'[c].pc = "recorded"
      /\ operation'[c].name = op.name
  BY <1>1, Turned DEF Holding
<1>3. op \in Ops BY DEF OpsInv
<1>4. OpsInv' BY <1>2 DEF OpsInv, Others
<1>5. PackageTypes' BY <1>1, <1>3 DEF PackageTypes, Demanded, Ops, Demands
<1>6. LockInv' BY <1>1, <1>2, LineKept DEF LockInv, Holding
<1>7. \A d \in Operators : operation'[d].pc \notin {"running", "installed"}
  BY <1>1, <1>2, OneHolder DEF Others, Holding
<1>8. WorkInv' BY <1>7 DEF WorkInv
<1>9. DriftInv'
  <2> SUFFICES ASSUME NEW p \in Packages PROVE Agrees(p)' \/ p \in excused'
    BY DEF DriftInv
  <2>1. CASE p \in op.targets
    <3>1. op.kind # "sync" /\ Satisfied(op) BY <1>1 DEF WorkInv
    <3>2. manifest'[p] = IF op.kind = "remove" THEN Absent ELSE op.spec BY <1>1, <2>1 DEF Demanded
    <3>3. op.spec # Absent BY <1>3, PluginsOK DEF Ops
    <3> QED BY <1>1, <2>1, <3>1, <3>2, <3>3 DEF Agrees, Satisfied, Matches
  <2>2. CASE p \notin op.targets
    <3>1. manifest'[p] = op.seen[p] BY <1>1, <2>2 DEF Demanded
    <3>2. op.seen[p] = manifest[p] \/ p \in excused BY <1>1 DEF WorkInv
    <3> QED BY <1>1, <1>2, <2>2, <3>1, <3>2, DriftBeside DEF Holding
  <2> QED BY <2>1, <2>2
<1> QED BY <1>4, <1>5, <1>6, <1>8, <1>9

(* The manifest is not written, or the work ends: the lock goes on.        *)
LEMMA EndedKept ==
  ASSUME PackagesInv, NEW c \in Operators, WriteManifestFails(c) \/ SaveState(c)
  PROVE  PackagesInv'
<1> USE DEF PackagesInv
<1> DEFINE op == operation[c]
<1>1. op.pc \in Holding /\ Ends(c) /\ UNCHANGED <<manifest, env, tasks>>
  BY DEF WriteManifestFails, SaveState, Holding, UnchangedSources
<1>2. op.targets \subseteq Packages BY DEF OpsInv, Ops
<1>3. /\ excused \subseteq excused' /\ excused' \subseteq excused \cup op.targets
      /\ op.pc = "installed" => op.targets \subseteq excused'
  BY DEF WriteManifestFails, SaveState
<1>4. OpsInv' /\ LockInv' /\ operation'[c].pc = "idle" /\ Others(c)
  BY <1>1, Released DEF LockInv
<1>5. state' \in [error : {"yes", "no"}, restart : SUBSET Packages]
  <2>1. CASE WriteManifestFails(c) BY <2>1 DEF WriteManifestFails, PackageTypes
  <2>2. CASE SaveState(c)
    <3> DEFINE changed == {p \in op.targets : op.kind = "add" /\ op.before[p] \notin {Absent, env[p]}}
    <3>1. state' = [state EXCEPT !.error = "yes"] \/ state' = [error |-> "no", restart |-> changed]
      BY <2>2 DEF SaveState
    <3>2. changed \subseteq Packages BY <1>2
    <3> HIDE DEF changed
    <3> QED BY <3>1, <3>2 DEF PackageTypes
  <2> QED BY <2>1, <2>2
<1>6. PackageTypes' BY <1>1, <1>2, <1>3, <1>5 DEF PackageTypes
<1>7. \A d \in Operators : operation'[d].pc \notin {"running", "installed"}
  BY <1>1, <1>4, OneHolder DEF Others, Holding
<1>8. WorkInv' BY <1>7 DEF WorkInv
<1>9. DriftInv'
  <2> SUFFICES ASSUME NEW p \in Packages PROVE Agrees(p)' \/ p \in excused'
    BY DEF DriftInv
  <2>1. CASE op.pc = "installed" /\ p \in op.targets BY <1>3, <2>1
  <2>2. CASE ~(op.pc = "installed" /\ p \in op.targets) BY <1>1, <1>3, <1>4, <2>2, DriftBeside
  <2> QED BY <2>1, <2>2
<1> QED BY <1>4, <1>6, <1>8, <1>9

LEMMA ReloadedKept ==
  ASSUME PackagesInv, NEW c \in Operators, ReloadAfter(c)
  PROVE  PackagesInv'
<1> USE DEF PackagesInv
<1>1. /\ operation[c].pc = "recorded" /\ Goes(c, "saving")
      /\ UNCHANGED <<tasks, manifest, env, state, line, excused>>
  BY DEF ReloadAfter
<1>2. /\ operation' \in [Operators -> Ops] /\ Others(c) /\ operation'[c].pc = "saving"
      /\ operation'[c].name = operation[c].name
  BY <1>1, Turned DEF Holding
<1>3. OpsInv' BY <1>2 DEF OpsInv, Others
<1>4. PackageTypes' BY <1>1 DEF PackageTypes
<1>5. LockInv' BY <1>1, <1>2, LineKept DEF LockInv, Holding
<1>6. \A d \in Operators : operation'[d].pc \notin {"running", "installed"}
  BY <1>1, <1>2, OneHolder DEF Others, Holding
<1>7. WorkInv' BY <1>6 DEF WorkInv
<1>8. DriftInv'
  <2> SUFFICES ASSUME NEW p \in Packages PROVE Agrees(p)' \/ p \in excused'
    BY DEF DriftInv
  <2> QED BY <1>1, <1>2, DriftBeside DEF Holding
<1> QED BY <1>3, <1>4, <1>5, <1>7, <1>8

LEMMA PutKept ==
  ASSUME PackagesInv, NEW p \in Packages, NEW spec \in {Absent, AnyVersion}, PutManifest(p, spec)
  PROVE  PackagesInv'
<1> USE DEF PackagesInv
<1>1. /\ manifest' = [manifest EXCEPT ![p] = spec]
      /\ excused' = excused \cup (IF manifest'[p] = manifest[p] THEN {} ELSE {p})
      /\ UNCHANGED <<env, state, line, operation, tasks>>
  BY DEF PutManifest, UnchangedSources
<1>2. \A q \in Packages : (manifest'[q] = manifest[q] \/ q \in excused') /\ (q \in excused => q \in excused')
  BY <1>1 DEF PackageTypes
<1>3. OpsInv' BY <1>1 DEF OpsInv
<1>4. PackageTypes' BY <1>1 DEF PackageTypes, Demands
<1>5. LockInv' BY <1>1 DEF LockInv
<1>6. WorkInv' BY <1>1, <1>2 DEF WorkInv, Satisfied, Matches
<1>7. DriftInv' BY <1>1, <1>2 DEF DriftInv, Agrees, Matches
<1> QED BY <1>3, <1>4, <1>5, <1>6, <1>7

-----------------------------------------------------------------------------
(* The process: a kill, a start, and what it is to the packages.           *)
LEMMA KilledKept ==
  ASSUME PackagesInv, PluginsCrash
  PROVE  PackagesInv'
<1> USE DEF PackagesInv
<1> DEFINE unwritten == UNION {operation[c].targets : c \in {d \in Active : operation[d].pc = "installed"}}
<1>1. /\ operation' = [c \in Operators |-> OpIdle] /\ line' = <<>>
      /\ excused' = excused \cup unwritten /\ UNCHANGED <<tasks, manifest, env, state>>
  BY DEF PluginsCrash
<1>2. unwritten \subseteq Packages BY DEF OpsInv, Ops, Active
<1>3. \A c \in Operators : operation[c].pc = "installed" => operation[c].targets \subseteq unwritten
  BY DEF Active
<1> HIDE DEF unwritten
<1>4. OpIdle \in Ops /\ OpIdle.pc = "idle" BY IdleIsOp DEF Ops, Apart
<1>5. operation' \in [Operators -> Ops] /\ \A c \in Operators : operation'[c].pc = "idle" BY <1>1, <1>4
<1>6. OpsInv' BY <1>5 DEF OpsInv
<1>7. PackageTypes' BY <1>1, <1>2 DEF PackageTypes
<1>8. LockInv' BY <1>1, <1>5 DEF LockInv, Holding
<1>9. WorkInv' BY <1>5 DEF WorkInv
<1>10. DriftInv' BY <1>1, <1>3 DEF DriftInv, Agrees, Matches
<1> QED BY <1>6, <1>7, <1>8, <1>9, <1>10

LEMMA StartedKept ==
  ASSUME PackagesInv, \A c \in Operators : operation[c].pc = "idle", PluginsStart
  PROVE  PackagesInv'
<1> USE DEF PackagesInv
<1> DEFINE r == [OpIdle EXCEPT !.pc = "waiting"]
<1>1. /\ operation' = [operation EXCEPT ![Restorer] = r] /\ line' = <<Restorer>>
      /\ UNCHANGED <<tasks, manifest, env, state, excused>>
  BY DEF PluginsStart
<1>2. Restorer \in Operators BY DEF Operators
<1>3. r \in Ops /\ r.pc = "waiting" BY IdleIsOp DEF Ops
<1> HIDE DEF r
<1>4. operation'[Restorer] = r /\ Others(Restorer) /\ operation' \in [Operators -> Ops]
  BY <1>1, <1>2, <1>3, Moved
<1>5. \A c \in Operators : operation'[c].pc \in {"idle", "waiting"}
                           /\ (operation'[c].pc = "waiting" => c = Restorer)
  BY <1>3, <1>4 DEF Others
<1>6. OpsInv' BY <1>4, <1>5 DEF OpsInv
<1>7. PackageTypes' BY <1>1 DEF PackageTypes
<1>8. LockInv'
  <2>1. line' \in Seq(Operators) /\ 1 \in 1..Len(line') /\ line'[1] = Restorer BY <1>1, <1>2
  <2> QED BY <1>5, <2>1 DEF LockInv, Holding
<1>9. WorkInv' BY <1>5 DEF WorkInv
<1>10. DriftInv' BY <1>1 DEF DriftInv, Agrees, Matches
<1> QED BY <1>6, <1>7, <1>8, <1>9, <1>10

LEMMA RequestedKept ==
  ASSUME PackagesInv, PackageRequest \/ \E c \in Operators : PackageStep(c)
  PROVE  PackagesInv'
<1>1. ASSUME NEW c \in Clients, AddPackage(c) PROVE PackagesInv'
  BY <1>1, QueuedKept DEF AddPackage
<1>2. ASSUME NEW c \in Clients, RemovePackage(c) PROVE PackagesInv'
  BY <1>2, QueuedKept DEF RemovePackage
<1>3. ASSUME NEW c \in Clients, SyncPackages(c) PROVE PackagesInv'
  BY <1>3, QueuedKept DEF SyncPackages
<1> QED BY <1>1, <1>2, <1>3, BegunKept, UvSucceededKept, UvFailedKept, WrittenKept, EndedKept, ReloadedKept,
           PutKept DEF PackageRequest, PackageStep

(* What a step of the process is to the plugins.                           *)
PluginsChange ==
  \/ SourceRequest \/ PackageRequest
  \/ \E c \in Clients : SourceStep(c)
  \/ \E c \in Operators : PackageStep(c)
  \/ \E n \in Names, x \in Unparsable : PlaceByHand(n, x)

LEMMA PluginsComposed ==
  ASSUME [Next]_vars
  PROVE  \/ UNCHANGED pluginsVars /\ (process' = "up" => process = "up")
         \/ PluginsChange /\ UNCHANGED process
         \/ PluginsCrash /\ process' = "down"
         \/ PluginsStart /\ process' = "restoring" /\ ~Alive
         \/ PluginsReady
<1>1. CASE Create BY <1>1 DEF Create, SettingsStart, Alive
<1>2. CASE Serve BY <1>2 DEF Serve
<1>3. CASE Crash BY <1>3 DEF Crash, SettingsCrash
<1>4. CASE ByHand BY <1>4 DEF ByHand, PluginsChange, settingsVars
<1>5. CASE Request BY <1>5, ProcessUnchanged DEF Request, PluginsChange, settingsVars
<1>6. CASE \E c \in Clients : SettingsMoves(c) BY <1>6, ProcessUnchanged DEF SettingsMoves
<1>7. CASE \E c \in Clients : SourceMoves(c) BY <1>7 DEF SourceMoves, PluginsChange, settingsVars
<1>8. CASE \E c \in Operators : PackageMoves(c) BY <1>8 DEF PackageMoves, PluginsChange, settingsVars
<1>9. CASE (\E a \in Attempts : AttemptMoves(a) \/ AttemptEvents(a)) \/ ProbeMoves \/ ProbeEvents
           \/ UNCHANGED vars
  BY <1>9 DEF AttemptMoves, AttemptEvents, ProbeMoves, ProbeEvents, vars, settingsVars
<1> QED BY <1>1, <1>2, <1>3, <1>4, <1>5, <1>6, <1>7, <1>8, <1>9 DEF Next

LEMMA PackagesInitially == Init => PackagesInv
<1> SUFFICES ASSUME Init PROVE PackagesInv
  OBVIOUS
<1>1. /\ operation = [c \in Operators |-> OpIdle] /\ line = <<>> /\ tasks = {} /\ excused = {}
      /\ manifest = [p \in Packages |-> Absent] /\ env = manifest
      /\ state = [error |-> "no", restart |-> {}]
  BY DEF Init, PluginsInit
<1>2. OpIdle \in Ops /\ OpIdle.pc = "idle" BY IdleIsOp DEF Ops, Apart
<1>3. operation \in [Operators -> Ops] /\ \A c \in Operators : operation[c].pc = "idle" BY <1>1, <1>2
<1>4. OpsInv BY <1>3 DEF OpsInv
<1>5. PackageTypes BY <1>1 DEF PackageTypes, Demands
<1>6. LockInv BY <1>1, <1>3 DEF LockInv, Holding
<1>7. WorkInv BY <1>3 DEF WorkInv
<1>8. DriftInv BY <1>1 DEF DriftInv, Agrees
<1> QED BY <1>4, <1>5, <1>6, <1>7, <1>8 DEF PackagesInv

LEMMA PackagesStep ==
  ASSUME CatalogInv, PackagesInv, [Next]_vars
  PROVE  PackagesInv'
<1>1. CASE UNCHANGED pluginsVars
  <2>1. Aside /\ tasks' \subseteq Names
    BY <1>1 DEF pluginsVars, Aside, PackagesInv, OpsInv, PackageTypes
  <2> QED BY <2>1, AsideKept
<1>2. CASE PluginsChange \/ PluginsReady
  BY <1>2, SourcesAside, AsideKept, RequestedKept DEF PluginsChange
<1>3. CASE PluginsCrash BY <1>3, KilledKept
<1>4. CASE PluginsStart /\ ~Alive BY <1>4, StartedKept DEF CatalogInv, DownEmpty
<1> QED BY <1>1, <1>2, <1>3, <1>4, PluginsComposed

LEMMA CatalogAlways == Spec => []CatalogInv
<1>1. Init => CatalogInv BY CatalogInitially
<1>2. CatalogInv /\ [Next]_vars => CatalogInv' BY CatalogStep
<1> QED BY <1>1, <1>2, PTL DEF Spec

LEMMA PackagesAlways == Spec => []PackagesInv
<1>1. CatalogInv /\ PackagesInv /\ [Next]_vars => PackagesInv' BY PackagesStep
<1> QED BY <1>1, PackagesInitially, CatalogAlways, PTL DEF Spec

(* The environment holds what the manifest demands and nothing else,       *)
(* whatever requests, edits, faults and kills come, unless one of the      *)
(* explanations holds: the lock makes the requests on packages one after   *)
(* the other, and an edit that slips between is excused by its package.    *)
THEOREM DriftExplained == Spec => []DriftIsExplained
<1>1. ASSUME PackagesInv PROVE DriftIsExplained
  <2> SUFFICES ASSUME NEW p \in Packages \ (excused \cup UNION {operation[c].targets : c \in Active})
               PROVE  Agrees(p)
    BY DEF DriftIsExplained, Agrees
  <2>1. \A c \in Operators : operation[c].pc = "installed" => c \in Active BY DEF Active
  <2> QED BY <1>1, <2>1 DEF PackagesInv, DriftInv
<1> QED BY <1>1, PackagesAlways, PTL

-----------------------------------------------------------------------------
(* Stored providers that are not served.                                   *)
Covered(p) ==
  \/ p \in excused
  \/ \E c \in Operators : operation[c].pc \in {"installed", "recorded"} /\ p \in operation[c].targets

Unserved(n) == Importable(disk[n]) /\ disk[n] \notin Misdeclared /\ registry[n] = Absent

Explained(n) == Unserved(n) => modules[n] \in Misdeclared \/ Covered(Imports[disk[n]])

UnservedInv == process = "up" => \A n \in Names : Explained(n)

(* What imports after a load imported before: what the load imported was   *)
(* in the environment.                                                     *)
LEMMA ImportsFound ==
  ASSUME NEW cached, loaded' = LoadedBy(cached), UNCHANGED env, NEW x \in Sources, Importable(x)'
  PROVE  Importable(x)
<1>1. Imports[x] \in Packages \cup {Absent} BY PluginsOK
<1>2. CASE Imports[x] = Absent BY <1>2 DEF Importable
<1>3. CASE Imports[x] \in Packages
  <2>1. loaded'[Imports[x]] \in {env[Imports[x]], loaded[Imports[x]]} BY <1>3 DEF LoadedBy
  <2> QED BY <2>1 DEF Importable
<1> QED BY <1>1, <1>2, <1>3

(* A load serves all that imports and is declared, unless another module   *)
(* has the name.                                                           *)
LEMMA LoadServes ==
  ASSUME NEW files \in Files, NEW cached, Becomes(files, Imported(files, cached)), UNCHANGED env
  PROVE  \A n \in Names : Explained(n)'
<1> SUFFICES ASSUME NEW n \in Names, Unserved(n)' PROVE modules'[n] \in Misdeclared
  BY DEF Explained
<1>1. PICK new : new = Imported(files, cached) OBVIOUS
<1>2. /\ disk' = files /\ modules' = new /\ registry' = Served(files, new) /\ loaded' = LoadedBy(new)
  BY <1>1 DEF Becomes
<1>3. Importable(files[n])' /\ files[n] \notin Misdeclared /\ Served(files, new)[n] = Absent
  BY <1>2 DEF Unserved
<1>4. files[n] # Absent BY <1>3 DEF Importable
<1>5. files[n] \in Sources BY <1>4 DEF Files
<1>6. Importable(files[n]) BY <1>2, <1>3, <1>5, ImportsFound
<1>7. new[n] = IF cached[n] # Absent THEN cached[n] ELSE files[n] BY <1>1, <1>4, <1>6 DEF Imported
<1>8. new[n] # Absent BY <1>4, <1>7
<1>9. new[n] \in Misdeclared BY <1>3, <1>4, <1>8 DEF Served
<1> QED BY <1>2, <1>9

(* Sources and environment stay, and what was excused, or waited for the   *)
(* reload, is.                                                             *)
LEMMA StillExplained ==
  ASSUME UNCHANGED sourceVars, UNCHANGED env, \A p : Covered(p) => Covered(p)',
         NEW n \in Names, Explained(n)
  PROVE  Explained(n)'
BY DEF sourceVars, Explained, Unserved, Importable

LEMMA OthersCover ==
  ASSUME NEW c \in Operators, Others(c),
         \A p : p \in excused \/ (operation[c].pc \in {"installed", "recorded"} /\ p \in operation[c].targets)
               => p \in excused' \/ (operation'[c].pc \in {"installed", "recorded"} /\ p \in operation'[c].targets)
  PROVE  \A p : Covered(p) => Covered(p)'
BY DEF Covered, Others

LEMMA ListExplained ==
  ASSUME CatalogInv, ListProviders, NEW n \in Names, Explained(n)
  PROVE  Explained(n)'
<1>1. PICK new : new = Imported(disk, modules) OBVIOUS
<1>2. /\ modules' = new /\ loaded' = LoadedBy(new)
      /\ UNCHANGED <<disk, registry, operation, env, excused>>
  BY <1>1 DEF ListProviders, UnchangedPackages
<1> SUFFICES ASSUME Unserved(n)' PROVE modules'[n] \in Misdeclared \/ Covered(Imports[disk[n]])'
  BY <1>2 DEF Explained
<1>3. disk[n] \in Sources BY <1>2 DEF Unserved, Importable, CatalogInv, ModulesInv, Files
<1>4. Unserved(n) BY <1>2, <1>3, ImportsFound DEF Unserved
<1>5. modules[n] \in Misdeclared => new[n] = modules[n]
  BY <1>1, PluginsOK DEF Imported
<1> QED BY <1>2, <1>4, <1>5 DEF Explained, Covered

LEMMA UvExplained ==
  ASSUME CatalogInv, PackagesInv, NEW c \in Operators, UvSucceeds(c) \/ UvFails(c),
         NEW n \in Names, Explained(n)
  PROVE  Explained(n)'
<1> DEFINE op == operation[c]
<1>1. /\ UNCHANGED <<disk, modules, registry, loaded>> /\ op.pc = "running"
      /\ excused \subseteq excused'
  BY DEF UvSucceeds, UvFails, UnchangedSources, sourceVars
<1>2. Others(c) /\ operation'[c].targets = op.targets
  BY Turned DEF UvSucceeds, UvFails, PackagesInv, Holding
<1>3. \A p \in op.targets : Covered(p)'
  <2>1. CASE UvSucceeds(c)
    <3>1. operation'[c].pc \in {"recorded", "installed"}
      BY <2>1, Turned DEF UvSucceeds, PackagesInv, Holding
    <3> QED BY <1>2, <3>1 DEF Covered
  <2>2. CASE UvFails(c) BY <2>2 DEF UvFails, Covered
  <2> QED BY <2>1, <2>2
<1>4. \A p : Covered(p) => Covered(p)' BY <1>1, <1>2, OthersCover
<1> SUFFICES ASSUME Unserved(n)', ~Covered(Imports[disk[n]])' PROVE modules'[n] \in Misdeclared
  BY <1>1 DEF Explained
<1>5. disk[n] \in Sources BY <1>1 DEF Unserved, Importable, CatalogInv, ModulesInv, Files
<1>6. Imports[disk[n]] \in (Packages \ op.targets) \cup {Absent} BY <1>1, <1>3, <1>5, PluginsOK
<1>7. Imports[disk[n]] = Absent \/ env'[Imports[disk[n]]] = env[Imports[disk[n]]] BY <1>6, UvTypes
<1>8. Unserved(n) BY <1>1, <1>7 DEF Unserved, Importable
<1> QED BY <1>1, <1>4, <1>8 DEF Explained

LEMMA ChangeExplained ==
  ASSUME CatalogInv, PackagesInv, PluginsChange, UNCHANGED process, UnservedInv
  PROVE  UnservedInv'
<1> SUFFICES ASSUME process' = "up", NEW n \in Names, Explained(n) PROVE Explained(n)'
  BY DEF UnservedInv
<1>1. disk \in Files BY DEF CatalogInv, ModulesInv
<1>2. ASSUME NEW m \in Names, NEW x \in Sources PROVE Holds(m, x) \in Files BY <1>1 DEF Holds, Files
<1>3. Holds(n, Absent) \in Files /\ \A m : Holds(m, Absent) \in Files BY <1>1 DEF Holds, Files
<1>4. ASSUME NEW m \in Names, NEW x \in Sources, CreateProvider(m, x) PROVE Explained(n)'
  BY <1>2, <1>4, LoadServes DEF CreateProvider, Reload, UnchangedPackages
<1>5. ASSUME NEW m \in Names, NEW x \in Sources, UpdateProvider(m, x) PROVE Explained(n)'
  <2> DEFINE files == Holds(m, x)
             cached == Imported(files, Nothing)
  <2>1. UNCHANGED env BY <1>5 DEF UpdateProvider, UnchangedPackages
  <2>2. Becomes(files, cached) \/ Becomes(disk, Imported(disk, cached))
    BY <1>5 DEF UpdateProvider, Replaced, Reload
  <2> QED BY <1>1, <1>2, <2>1, <2>2, LoadServes
<1>6. ASSUME NEW c \in Clients, DeleteErases(c) PROVE Explained(n)'
  <2>1. c \in Operators BY DEF Operators
  <2>2. /\ operation[c].pc = "unreferenced" /\ operation' = [operation EXCEPT ![c] = OpIdle]
        /\ UNCHANGED <<env, excused>>
        /\ UNCHANGED sourceVars \/ Load(Holds(operation[c].name, Absent))
    BY <1>6 DEF DeleteErases, UnchangedPackages
  <2>3. Others(c) BY <2>1, <2>2, Moved DEF PackagesInv
  <2>4. \A p : Covered(p) => Covered(p)' BY <2>1, <2>2, <2>3, OthersCover
  <2> QED BY <1>3, <2>2, <2>4, StillExplained, LoadServes DEF Load
<1>7. CASE ReloadProviders BY <1>1, <1>7, LoadServes DEF ReloadProviders, Reload, UnchangedPackages
<1>8. ASSUME NEW c \in Operators, ReloadAfter(c) PROVE Explained(n)'
  BY <1>1, <1>8, LoadServes DEF ReloadAfter, Reload
<1>9. CASE ListProviders BY <1>9, ListExplained
<1>10. ASSUME NEW c \in Operators, UvSucceeds(c) \/ UvFails(c) PROVE Explained(n)'
  BY <1>10, UvExplained
<1>11. ASSUME NEW c \in Operators, NEW r, operation' = [operation EXCEPT ![c] = r],
              operation[c].pc \notin {"installed", "recorded"},
              UNCHANGED sourceVars, UNCHANGED env, excused \subseteq excused'
       PROVE  Explained(n)'
  <2>1. Others(c) BY <1>11, Moved DEF PackagesInv
  <2>2. \A p : Covered(p) => Covered(p)' BY <1>11, <2>1, OthersCover
  <2> QED BY <1>11, <2>2, StillExplained
<1>12. ASSUME NEW c \in Clients, NEW m \in Names, DeleteChecks(c, m) \/ TaskChecks(c, m) PROVE Explained(n)'
  BY <1>11, <1>12 DEF DeleteChecks, TaskChecks, UnchangedPackages, Operators
<1>13. ASSUME NEW c \in Clients, TaskCommits(c) PROVE Explained(n)'
  BY <1>11, <1>13 DEF TaskCommits, UnchangedPackages, Operators
<1>14. ASSUME NEW c \in Clients, AddPackage(c) \/ RemovePackage(c) \/ SyncPackages(c) PROVE Explained(n)'
  BY <1>11, <1>14 DEF AddPackage, RemovePackage, SyncPackages, Enqueue, UnchangedSources, Operators
<1>15. ASSUME NEW p \in Packages, NEW spec, PutManifest(p, spec) PROVE Explained(n)'
  <2>1. \A q : Covered(q) => Covered(q)' BY <1>15 DEF PutManifest, Covered
  <2> QED BY <1>15, <2>1, StillExplained DEF PutManifest, UnchangedSources
<1>16. ASSUME NEW c \in Operators, BeginPackages(c) PROVE Explained(n)'
  BY <1>11, <1>16 DEF BeginPackages, Ends, UnchangedSources
<1>17. ASSUME NEW c \in Operators, SaveState(c) PROVE Explained(n)'
  BY <1>11, <1>17 DEF SaveState, Ends, UnchangedSources
<1>18. ASSUME NEW c \in Operators, WriteManifest(c) \/ WriteManifestFails(c) PROVE Explained(n)'
  <2>1. UNCHANGED sourceVars /\ UNCHANGED env BY <1>18 DEF WriteManifest, WriteManifestFails, UnchangedSources
  <2>2. CASE WriteManifest(c)
    <3>1. /\ Goes(c, "recorded") /\ operation[c].pc = "installed" /\ excused' = excused \ operation[c].targets
      BY <2>2 DEF WriteManifest
    <3>2. Others(c) /\ operation'[c].pc = "recorded" /\ operation'[c].targets = operation[c].targets
      BY <3>1, Turned DEF PackagesInv, Holding
    <3>3. \A p : Covered(p) => Covered(p)' BY <3>1, <3>2, OthersCover
    <3> QED BY <2>1, <3>3, StillExplained
  <2>3. CASE WriteManifestFails(c)
    <3>1. /\ operation' = [operation EXCEPT ![c] = OpIdle] /\ excused' = excused \cup operation[c].targets
      BY <2>3 DEF WriteManifestFails, Ends
    <3>2. Others(c) BY <3>1, Moved DEF PackagesInv
    <3>3. \A p : Covered(p) => Covered(p)' BY <3>1, <3>2, OthersCover
    <3> QED BY <2>1, <3>3, StillExplained
  <2> QED BY <1>18, <2>2, <2>3
<1>19. ASSUME NEW m \in Names, NEW x, PlaceByHand(m, x) PROVE Explained(n)'
  BY <1>19 DEF PlaceByHand
<1>20. CASE SourceRequest BY <1>4, <1>5, <1>7, <1>9, <1>12, <1>20 DEF SourceRequest
<1>21. CASE PackageRequest BY <1>14, <1>15, <1>21 DEF PackageRequest
<1>22. CASE \E c \in Clients : SourceStep(c) BY <1>6, <1>13, <1>22 DEF SourceStep
<1>23. CASE \E c \in Operators : PackageStep(c) BY <1>8, <1>10, <1>16, <1>17, <1>18, <1>23 DEF PackageStep
<1> QED BY <1>19, <1>20, <1>21, <1>22, <1>23 DEF PluginsChange

LEMMA UnservedStep ==
  ASSUME CatalogInv, PackagesInv, UnservedInv, [Next]_vars
  PROVE  UnservedInv'
<1>1. CASE UNCHANGED pluginsVars /\ (process' = "up" => process = "up")
  BY <1>1 DEF pluginsVars, UnservedInv, Explained, Unserved, Covered, Importable
<1>2. CASE PluginsChange /\ UNCHANGED process BY <1>2, ChangeExplained
<1>3. CASE process' \in {"down", "restoring"} BY <1>3 DEF UnservedInv
<1>4. CASE PluginsReady
  BY <1>4, LoadServes DEF PluginsReady, Load, UnchangedPackages, UnservedInv, CatalogInv, ModulesInv
<1> QED BY <1>1, <1>2, <1>3, <1>4, PluginsComposed

(* A stored provider that would load is served, whatever requests, faults  *)
(* and kills come, unless a refused source has its name or its package     *)
(* came with a request that failed or is not over: each load serves all    *)
(* that imports, and what makes more importable ends in a load.            *)
THEOREM UnservedExplained == Spec => []UnservedIsExplained
<1>1. Init => UnservedInv BY DEF Init, SettingsInit, UnservedInv
<1>2. CatalogInv /\ PackagesInv /\ UnservedInv /\ [Next]_vars => UnservedInv' BY UnservedStep
<1>3. ASSUME UnservedInv PROVE UnservedIsExplained
  <2>1. \A c \in Operators : operation[c].pc \in {"installed", "recorded"} => c \in Active BY DEF Active
  <2>2. \A p : Covered(p) => p \in excused \cup UNION {operation[c].targets : c \in Active}
    BY <2>1 DEF Covered
  <2> QED BY <1>3, <2>2 DEF UnservedInv, UnservedIsExplained, Explained, Unserved
<1> QED BY <1>1, <1>2, <1>3, CatalogAlways, PackagesAlways, PTL DEF Spec

-----------------------------------------------------------------------------
(* Types: the settings.                                                    *)
Requests == [pc : {"idle", "waiting", "merging", "refreshing", "applying", "verified"},
             key : Keys, value : Rows, seen : Rows, alone : {"yes", "no"}]

LEMMA SecretTypes ==
  /\ NoSecret \in Secrets /\ Placeholder \in Secrets
  /\ \A x \in Texts : Hash(x) \in Secrets /\ Text(x) \in Secrets
  /\ \A s \in Secrets : s.form = "text" => s.of \in Texts
<1>1. NoSecret.form = "none" /\ Placeholder.form = "placeholder" BY DEF NoSecret, Placeholder
<1>2. \A s \in [form : {"text", "hash"}, of : Texts] : s.of \in Texts OBVIOUS
<1> QED BY <1>1, <1>2 DEF Secrets, Hash, Text

LEMMA RowTypes ==
  /\ \A body \in Texts, secret \in Secrets, enabled \in {"yes", "no"} : Object(body, secret, enabled) \in Rows
  /\ NoRow \in Rows /\ EmptyObject \in Rows /\ \A k \in Keys : Defaults[k] \in Rows
  /\ \A row \in Rows : Redact(row) \in Rows
<1>1. /\ "" \in Texts /\ "admin" \in Texts /\ "default" \in Texts /\ "keyless" \in Texts
  BY SettingsOK
<1>2. \A body \in Texts, secret \in Secrets, enabled \in {"yes", "no"} : Object(body, secret, enabled) \in Rows
  BY DEF Object, Rows
<1>3. EmptyObject \in Rows BY <1>1, <1>2, SecretTypes DEF EmptyObject
<1>4. NoRow \in Rows
  <2>1. Object("", NoSecret, "no") \in Rows BY <1>1, <1>2, SecretTypes
  <2> QED BY <2>1 DEF NoRow, Rows
<1>5. \A k \in Keys : Defaults[k] \in Rows BY <1>1, <1>2, SecretTypes DEF Defaults
<1>6. \A row \in Rows : Redact(row) \in Rows BY SecretTypes DEF Redact, Rows
<1> QED BY <1>2, <1>3, <1>4, <1>5, <1>6

LEMMA MergedType ==
  ASSUME NEW k, NEW row \in Rows, NEW value \in Rows
  PROVE  Merged(k, row, value) \in Rows
<1>1. value.secret \in Secrets /\ row.secret \in Secrets BY DEF Rows
<1>2. value.secret.form = "text" => Hash(value.secret.of) \in Secrets BY <1>1, SecretTypes
<1>3. PICK secret \in Secrets : Merged(k, row, value) = [value EXCEPT !.secret = secret]
  BY <1>1, <1>2 DEF Merged
<1> QED BY <1>3 DEF Rows

LEMMA RequestsChange ==
  ASSUME SettingsTypeOK, NEW c \in Clients, NEW r \in Requests, request' = [request EXCEPT ![c] = r]
  PROVE  request' \in [Clients -> Requests]
BY DEF SettingsTypeOK, Requests

LEMMA IdleRequest == RequestIdle \in Requests
BY RowTypes DEF RequestIdle, Requests, Keys

LEMMA SettingsTypesKept ==
  ASSUME SettingsTypeOK, SettingsChange \/ UNCHANGED settingsVars
  PROVE  SettingsTypeOK'
<1>1. /\ rows \in [Keys -> Rows] /\ request \in [Clients -> Requests] /\ cache \in Rows
      /\ sinks \in [config : Texts, leaked : {"yes", "no"}]
      /\ process \in {"down", "restoring", "up", "refused"}
      /\ updates \in Clients \cup {Nobody} /\ tainted \in {"yes", "no"}
  BY DEF SettingsTypeOK, Requests
<1>2. "default" \in Texts BY SettingsOK
<1> SUFFICES /\ rows' \in [Keys -> Rows] /\ request' \in [Clients -> Requests] /\ cache' \in Rows
               /\ sinks' \in [config : Texts, leaked : {"yes", "no"}]
               /\ process' \in {"down", "restoring", "up", "refused"}
               /\ updates' \in Clients \cup {Nobody} /\ tainted' \in {"yes", "no"}
  BY DEF SettingsTypeOK, Requests
<1>4. CASE SettingsStart
  <2>1. PICK seeded : seeded = [k \in Keys |-> Seeded(k)] OBVIOUS
  <2>2. seeded \in [Keys -> Rows]
    <3>1. ASSUME NEW k \in Keys PROVE Seeded(k) \in Rows
      <4>1. rows[k] \in Rows /\ Defaults[k] \in Rows BY <1>1, RowTypes
      <4>2. [Defaults[k] EXCEPT !.enabled = rows[k].enabled] \in Rows BY <4>1 DEF Rows
      <4> QED BY <4>1, <4>2 DEF Seeded
    <3> QED BY <2>1, <3>1
  <2>3. /\ rows' = seeded /\ process' \in {"refused", "restoring"}
        /\ cache' \in {EmptyObject, Redact(seeded["cdp"])}
        /\ \E config \in {"default", seeded["logging"].body} : sinks' = [config |-> config, leaked |-> "no"]
        /\ tainted' = "no" /\ UNCHANGED <<updates, request>>
    BY <1>4, <2>1 DEF SettingsStart
  <2>4. seeded["cdp"] \in Rows /\ seeded["logging"].body \in Texts BY <2>2 DEF Keys, Rows
  <2>5. cache' \in Rows BY <2>3, <2>4, RowTypes
  <2> QED BY <1>1, <1>2, <2>2, <2>3, <2>4, <2>5
<1>5. CASE SettingsReady BY <1>1, <1>5 DEF SettingsReady
<1>6. CASE SettingsCrash BY <1>1, <1>2, <1>6, IdleRequest, RowTypes DEF SettingsCrash
<1>7. ASSUME NEW c \in Clients, NEW k \in Keys, NEW value \in Offered[k], PutArrives(c, k, value)
      PROVE  request' \in [Clients -> Requests] /\ UNCHANGED <<process, rows, updates, cache, sinks, tainted>>
  <2>1. PICK r : r = [RequestIdle EXCEPT !.pc = "waiting", !.key = k, !.value = value] OBVIOUS
  <2>2. value \in Rows BY SettingsOK
  <2>3. r \in Requests BY <2>1, <2>2, IdleRequest DEF Requests
  <2> QED BY <1>7, <2>1, <2>3, RequestsChange DEF PutArrives
<1>8. ASSUME NEW c \in Clients, PutReads(c)
      PROVE  request' \in [Clients -> Requests] /\ updates' = c /\ UNCHANGED <<process, rows, cache, sinks, tainted>>
  <2>1. PICK alone \in {"yes", "no"}, beside \in SUBSET Clients :
          request' = [d \in Clients |->
            IF d = c THEN [request[c] EXCEPT !.pc = "merging", !.seen = rows[request[c].key], !.alone = alone]
            ELSE IF d \in beside THEN [request[d] EXCEPT !.alone = "no"] ELSE request[d]]
    BY <1>8 DEF PutReads, Beside
  <2>2. rows[request[c].key] \in Rows BY <1>1 DEF Requests
  <2>3. [request[c] EXCEPT !.pc = "merging", !.seen = rows[request[c].key], !.alone = alone] \in Requests
    BY <1>1, <2>2 DEF Requests
  <2>4. \A d \in Clients : [request[d] EXCEPT !.alone = "no"] \in Requests BY <1>1 DEF Requests
  <2>5. request' \in [Clients -> Requests] BY <1>1, <2>1, <2>3, <2>4
  <2> QED BY <1>8, <2>5 DEF PutReads
<1>9. ASSUME NEW c \in Clients, PutCommits(c)
      PROVE  /\ request' \in [Clients -> Requests] /\ rows' \in [Keys -> Rows] /\ updates' = Nobody
             /\ UNCHANGED <<process, cache, sinks, tainted>>
  <2>1. request[c] \in Requests BY <1>1
  <2> DEFINE k == request[c].key
             value == request[c].value
             row == IF value.shape = "object" THEN Merged(k, request[c].seen, value) ELSE value
             r == IF k \in Refreshed THEN [request[c] EXCEPT !.pc = "refreshing"] ELSE RequestIdle
  <2>2. /\ rows' = [rows EXCEPT ![k] = row] /\ request' = [request EXCEPT ![c] = r]
        /\ updates' = Nobody /\ UNCHANGED <<process, cache, sinks, tainted>>
    BY <1>1, <1>9 DEF PutCommits
  <2>3. k \in Keys BY <2>1 DEF Requests
  <2>4. row \in Rows BY <2>1, MergedType DEF Requests
  <2>5. r \in Requests BY <2>1, IdleRequest DEF Requests
  <2> HIDE DEF k, row, r
  <2>6. rows' \in [Keys -> Rows] BY <1>1, <2>2, <2>3, <2>4
  <2> QED BY <2>2, <2>5, <2>6, RequestsChange
<1>10. ASSUME NEW c \in Clients, PutFails(c)
       PROVE  request' \in [Clients -> Requests] /\ updates' = Nobody /\ UNCHANGED <<process, rows, cache, sinks, tainted>>
  BY <1>10, IdleRequest, RequestsChange DEF PutFails, AfterFailure
<1>11. ASSUME NEW c \in Clients, RefreshReads(c)
       PROVE  request' \in [Clients -> Requests] /\ UNCHANGED <<process, rows, updates, cache, sinks, tainted>>
  <2>1. request[c] \in Requests /\ rows[request[c].key] \in Rows BY <1>1 DEF Requests
  <2>2. PICK seen \in {Redact(rows[request[c].key]), NoRow} :
          request' = [request EXCEPT ![c].seen = seen, ![c].pc = "applying"]
    BY <1>11 DEF RefreshReads
  <2>3. seen \in Rows BY <2>1, <2>2, RowTypes
  <2>4. PICK r : r = [request[c] EXCEPT !.seen = seen, !.pc = "applying"] OBVIOUS
  <2>5. r \in Requests BY <2>1, <2>3, <2>4 DEF Requests
  <2>6. request' = [request EXCEPT ![c] = r] BY <1>1, <2>2, <2>4
  <2> QED BY <1>11, <2>5, <2>6, RequestsChange DEF RefreshReads
<1>12. ASSUME NEW c \in Clients, RefreshApplies(c)
       PROVE  /\ request' \in [Clients -> Requests] /\ cache' \in Rows /\ tainted' \in {"yes", "no"}
              /\ sinks' \in [config : Texts, leaked : {"yes", "no"}] /\ UNCHANGED <<process, rows, updates>>
  <2>1. request[c].seen \in Rows /\ request[c].seen.body \in Texts BY <1>1 DEF Requests, Rows
  <2>2. CacheAfter(request[c].seen) \in Rows BY <1>1, <2>1, RowTypes DEF CacheAfter
  <2>3. \A body \in Texts : Configured(body) \in [config : Texts, leaked : {"yes", "no"}]
    BY <1>1 DEF Configured
  <2>4. request' \in [Clients -> Requests] /\ UNCHANGED <<process, rows, updates>>
    BY <1>12, IdleRequest, RequestsChange DEF RefreshApplies
  <2> QED BY <1>1, <1>2, <1>12, <2>1, <2>2, <2>3, <2>4 DEF RefreshApplies
<1>13. ASSUME NEW c \in Clients, NEW old, ChangeVerifies(c, old)
       PROVE  request' \in [Clients -> Requests] /\ UNCHANGED <<process, rows, updates, cache, sinks, tainted>>
  <2>1. PICK r : r = [RequestIdle EXCEPT !.pc = "verified", !.key = "admin", !.seen = rows["admin"]] OBVIOUS
  <2>2. r \in Requests BY <1>1, <2>1, IdleRequest DEF Requests, Keys
  <2> QED BY <1>13, <2>1, <2>2, RequestsChange DEF ChangeVerifies
<1>14. ASSUME NEW c \in Clients, NEW new \in Passwords, ChangeCommits(c, new)
       PROVE  /\ request' \in [Clients -> Requests] /\ rows' \in [Keys -> Rows]
              /\ UNCHANGED <<process, updates, cache, sinks, tainted>>
  <2>1. PICK row : row = Object(request[c].seen.body, Hash(new), rows["admin"].enabled) OBVIOUS
  <2>2. new \in Texts BY SettingsOK
  <2>3. request[c].seen.body \in Texts /\ rows["admin"].enabled \in {"yes", "no"} /\ Hash(new) \in Secrets
    BY <1>1, <2>2, SecretTypes DEF Requests, Rows, Keys
  <2>4. row \in Rows BY <2>1, <2>3, RowTypes
  <2>5. rows' = [rows EXCEPT !["admin"] = row] BY <1>1, <1>14, <2>1 DEF ChangeCommits, Keys
  <2> QED BY <1>1, <1>14, <2>4, <2>5, IdleRequest, RequestsChange DEF ChangeCommits, Keys
<1>15. CASE UNCHANGED settingsVars BY <1>1, <1>15 DEF settingsVars
<1>16. CASE SettingsRequest BY <1>1, <1>7, <1>13, <1>16 DEF SettingsRequest
<1>17. CASE \E c \in Clients : SettingsStep(c)
  BY <1>1, <1>8, <1>9, <1>10, <1>11, <1>12, <1>14, <1>17 DEF SettingsStep
<1> QED BY <1>4, <1>5, <1>6, <1>15, <1>16, <1>17 DEF SettingsChange

LEMMA SettingsTypesAlways == Spec => []SettingsTypeOK
<1>1. ASSUME Init PROVE SettingsTypeOK
  <2>1. "default" \in Texts BY SettingsOK
  <2>2. /\ process = "down" /\ rows = [k \in Keys |-> NoRow] /\ updates = Nobody
        /\ request = [c \in Clients |-> RequestIdle] /\ cache = EmptyObject
        /\ sinks = [config |-> "default", leaked |-> "no"] /\ tainted = "no"
    BY <1>1 DEF Init, SettingsInit
  <2>3. request \in [Clients -> Requests] BY <2>2, IdleRequest
  <2>4. rows \in [Keys -> Rows] /\ cache \in Rows BY <2>2, RowTypes
  <2> QED BY <2>1, <2>2, <2>3, <2>4 DEF SettingsTypeOK, Requests
<1>2. SettingsTypeOK /\ [Next]_vars => SettingsTypeOK' BY Composed, SettingsTypesKept
<1> QED BY <1>1, <1>2, PTL DEF Spec

-----------------------------------------------------------------------------
(* Types: the attempts.                                                    *)
Pcs == {"idle", "opening", "running", "closing", "finalizing", "cancelling",
        "touching", "dispatching", "sending", "over"}

AttemptTypes ==
  /\ AttemptTypeOK
  /\ \A a \in Attempts : \A t \in attempt[a].told : t.channel \in Channels

(* The attempt has these fields now, and the tables these types.           *)
LEMMA AttemptTyped ==
  ASSUME AttemptTypes, NEW a \in Attempts, NEW pc \in Pcs, NEW status \in Ended \cup {"open"},
         NEW policy \in Policies \cup {"never"}, NEW told, \A t \in told : t.channel \in Channels,
         AttemptBecomes(a, pc, status, policy, told),
         recorded' \in [Attempts -> Ended \cup {"open"}],
         session' \in [Attempts -> {"none", "open", "closing", "dropped"}],
         \A m \in messages' : m.attempt \in Attempts /\ m.channel \in Channels
  PROVE  AttemptTypes'
BY DEF AttemptTypes, AttemptTypeOK, AttemptBecomes, Pcs

LEMMA AttemptTypesKept ==
  ASSUME AttemptInv, AttemptTypes, AttemptChange \/ UNCHANGED attemptVars
  PROVE  AttemptTypes'
<1> DEFINE Sessions == {"none", "open", "closing", "dropped"}
           Typed == /\ recorded' \in [Attempts -> Ended \cup {"open"}]
                    /\ session' \in [Attempts -> Sessions]
                    /\ \A m \in messages' : m.attempt \in Attempts /\ m.channel \in Channels
<1>1. /\ recorded \in [Attempts -> Ended \cup {"open"}] /\ session \in [Attempts -> Sessions]
      /\ \A m \in messages : m.attempt \in Attempts /\ m.channel \in Channels
      /\ AttemptShape
  BY DEF AttemptTypes, AttemptTypeOK, AttemptInv
<1>2. \A a \in Attempts : /\ attempt[a].pc \in Pcs /\ attempt[a].status \in Ended \cup {"open"}
                          /\ attempt[a].policy \in Policies \cup {"never"}
                          /\ \A t \in attempt[a].told : t.channel \in Channels
  BY DEF AttemptTypes, AttemptTypeOK, Pcs
<1>3. ASSUME NEW a \in Attempts, NEW pc \in Pcs, Moves(a, pc), Typed PROVE AttemptTypes'
  BY <1>1, <1>2, <1>3, MovesBecomes, AttemptTyped
<1>4. ASSUME NEW a \in Attempts, NEW pc \in Pcs, NEW status \in Ended, Turns(a, pc, status), Typed
      PROVE  AttemptTypes'
  BY <1>1, <1>2, <1>4, TurnsBecomes, AttemptTyped
<1>5. ASSUME NEW a \in Attempts, NEW s \in Sessions, Session(a, s) PROVE session' \in [Attempts -> Sessions]
  BY <1>1, <1>5 DEF Session
<1> HIDE DEF Sessions
<1>6. CASE AttemptCrash
  <2>1. ASSUME NEW a \in Attempts
        PROVE  /\ attempt'[a].pc \in Pcs /\ attempt'[a].status = attempt[a].status
               /\ attempt'[a].policy = attempt[a].policy /\ attempt'[a].told \subseteq attempt[a].told
    <3>1. IsAttempt(attempt[a]) BY <1>1 DEF AttemptShape
    <3>2. attempt'[a] = attempt[a] \/ attempt'[a] = [attempt[a] EXCEPT !.pc = "over", !.told = {}]
      BY <1>6 DEF AttemptCrash
    <3> QED BY <1>2, <3>1, <3>2 DEF IsAttempt, Pcs
  <2>2. session' \in [Attempts -> Sessions] BY <1>6 DEF AttemptCrash, Sessions
  <2> QED BY <1>1, <1>2, <1>6, <2>1, <2>2 DEF AttemptCrash, AttemptTypes, AttemptTypeOK, Pcs, Sessions
<1>7. ASSUME NEW a \in Attempts, BeginAttempt(a) PROVE AttemptTypes'
  <2>1. Typed BY <1>1, <1>7 DEF BeginAttempt
  <2> QED BY <1>3, <1>4, <1>7, <2>1 DEF BeginAttempt, Pcs, Ended
<1>8. ASSUME NEW a \in Attempts,
             Connects(a) \/ Closes(a) \/ CloseTimesOut(a) \/ CloseRaises(a) \/ Touches(a) \/ CommitFails(a)
      PROVE  AttemptTypes'
  <2>1. PICK pc \in Pcs : Moves(a, pc)
    BY <1>8 DEF Connects, Closes, CloseTimesOut, CloseRaises, Touches, CommitFails, AfterFailedCommit, Pcs
  <2>2. session' \in [Attempts -> Sessions]
    BY <1>1, <1>5, <1>8 DEF Connects, Closes, CloseTimesOut, CloseRaises, Touches, CommitFails, Sessions
  <2>3. UNCHANGED <<recorded, messages>>
    BY <1>8 DEF Connects, Closes, CloseTimesOut, CloseRaises, Touches, CommitFails
  <2> QED BY <1>1, <1>3, <2>1, <2>2, <2>3
<1>9. ASSUME NEW a \in Attempts, ConnectFails(a) \/ Runs(a) PROVE AttemptTypes'
  <2>1. Typed BY <1>1, <1>9 DEF ConnectFails, Runs
  <2>2. \E pc \in Pcs, status \in Ended : Turns(a, pc, status)
    BY <1>9 DEF ConnectFails, Runs, AfterRun, Pcs, Ended
  <2> QED BY <1>4, <2>1, <2>2
<1>10. ASSUME NEW a \in Attempts, Cancelled(a) PROVE AttemptTypes'
  <2>1. PICK s \in Sessions : session' = [session EXCEPT ![a] = s]
    BY <1>1, <1>10 DEF Cancelled, Sessions
  <2>2. Typed BY <1>1, <1>10, <2>1 DEF Cancelled
  <2> QED BY <1>4, <1>10, <2>2 DEF Cancelled, Pcs, Ended
<1>11. ASSUME NEW a \in Attempts, BackgroundCloses(a) PROVE AttemptTypes'
  <2>1. Typed /\ UNCHANGED attempt BY <1>1, <1>5, <1>11 DEF BackgroundCloses, Sessions
  <2> QED BY <2>1 DEF AttemptTypes, AttemptTypeOK, Sessions
<1>12. ASSUME NEW a \in Attempts, Commits(a) PROVE AttemptTypes'
  <2>1. Typed BY <1>1, <1>2, <1>12 DEF Commits
  <2> QED BY <1>3, <1>12, <2>1 DEF Commits, Pcs
<1>13. ASSUME NEW a \in Attempts, Dispatches(a) PROVE AttemptTypes'
  <2>1. PICK policy \in Policies, pc \in {"sending", "over"}, configs \in SUBSET Channels :
          attempt' = [attempt EXCEPT ![a] = [@ EXCEPT
            !.policy = policy, !.pc = pc,
            !.told = {[channel |-> ch, config |-> ChannelConfig(ch)] : ch \in configs}]]
    <3> DEFINE wanted(policy) == attempt[a].status \in Strategy[policy]
               enabled == {ch \in Channels : rows[ch].enabled = "yes"}
               readable == \A ch \in enabled : rows[ch].shape = "object"
               told(chs) == {[channel |-> ch, config |-> ChannelConfig(ch)] : ch \in chs}
    <3>1. PICK policy \in Policies :
            attempt' = [attempt EXCEPT ![a] = [@ EXCEPT
              !.policy = policy,
              !.pc = IF wanted(policy) /\ readable /\ enabled # {} THEN "sending" ELSE "over",
              !.told = IF wanted(policy) /\ readable THEN told(enabled) ELSE {}]]
      BY <1>13 DEF Dispatches
    <3>2. PICK pc \in {"sending", "over"} :
            pc = IF wanted(policy) /\ readable /\ enabled # {} THEN "sending" ELSE "over"
      OBVIOUS
    <3>3. PICK configs \in SUBSET Channels :
            told(configs) = IF wanted(policy) /\ readable THEN told(enabled) ELSE {}
      <4>1. told({}) = {} OBVIOUS
      <4>2. enabled \in SUBSET Channels /\ {} \in SUBSET Channels OBVIOUS
      <4> HIDE DEF told, wanted, readable, enabled
      <4> QED BY <4>1, <4>2
    <3>4. attempt' = [attempt EXCEPT ![a] = [@ EXCEPT !.policy = policy, !.pc = pc, !.told = told(configs)]]
      <4> HIDE DEF told, wanted, readable, enabled
      <4> QED BY <3>1, <3>2, <3>3
    <3> QED BY <3>4
  <2> DEFINE told == {[channel |-> ch, config |-> ChannelConfig(ch)] : ch \in configs}
  <2>2. \A t \in told : t.channel \in Channels OBVIOUS
  <2> HIDE DEF told
  <2>3. AttemptBecomes(a, pc, attempt[a].status, policy, told) BY <1>1, <2>1, PolicyBecomes DEF told
  <2>4. Typed BY <1>1, <1>13 DEF Dispatches
  <2> QED BY <1>2, <2>2, <2>3, <2>4, AttemptTyped DEF Pcs, Sessions
<1>14. ASSUME NEW a \in Attempts, Delivers(a) PROVE AttemptTypes'
  <2>1. PICK to \in attempt[a].told, pc \in {"over", "sending"} :
          /\ attempt' = [attempt EXCEPT ![a] = [@ EXCEPT !.told = attempt[a].told \ {to}, !.pc = pc]]
          /\ messages' \subseteq messages \cup
               {[attempt |-> a, channel |-> to.channel, secret |-> to.config.secret,
                 status |-> attempt[a].status, policy |-> attempt[a].policy]}
    BY <1>14 DEF Delivers
  <2>2. Typed
    <3>1. to.channel \in Channels BY <1>2
    <3> QED BY <1>1, <1>14, <2>1, <3>1 DEF Delivers
  <2>3. AttemptBecomes(a, pc, attempt[a].status, attempt[a].policy, attempt[a].told \ {to})
    BY <1>1, <2>1, ToldBecomes
  <2>4. pc \in Pcs /\ \A t \in attempt[a].told \ {to} : t.channel \in Channels BY <1>2 DEF Pcs
  <2> QED BY <1>2, <2>2, <2>3, <2>4, AttemptTyped DEF Sessions
<1>15. ASSUME NEW a \in Attempts, HandlerStops(a) PROVE AttemptTypes'
  <2> DEFINE r == [attempt[a] EXCEPT !.pc = "over", !.told = {}]
  <2>1. attempt' = [attempt EXCEPT ![a] = r] BY <1>15 DEF HandlerStops
  <2>2. IsAttempt(r) BY <1>1, StillAttempt DEF AttemptShape
  <2>3. r.pc = "over" /\ r.status = attempt[a].status /\ r.policy = attempt[a].policy /\ r.told = {}
    BY <1>1 DEF AttemptShape, IsAttempt
  <2> HIDE DEF r
  <2>4. AttemptBecomes(a, "over", attempt[a].status, attempt[a].policy, {})
    BY <1>1, <2>1, <2>2, <2>3, ReplacedBecomes
  <2>5. Typed BY <1>1, <1>15 DEF HandlerStops
  <2>6. PICK told : told = {} OBVIOUS
  <2>7. "over" \in Pcs /\ \A t \in told : t.channel \in Channels BY <2>6 DEF Pcs
  <2>8. AttemptBecomes(a, "over", attempt[a].status, attempt[a].policy, told) BY <2>4, <2>6
  <2> QED BY <1>2, <2>5, <2>7, <2>8, AttemptTyped DEF Sessions
<1>16. CASE UNCHANGED attemptVars BY <1>16 DEF attemptVars, AttemptTypes, AttemptTypeOK
<1> QED BY <1>6, <1>7, <1>8, <1>9, <1>10, <1>11, <1>12, <1>13, <1>14, <1>15, <1>16
        DEF AttemptChange, AttemptRequest, AttemptStep, AttemptEvent

LEMMA AttemptTypesAlways == Spec => []AttemptTypeOK
<1>1. ASSUME Init PROVE AttemptTypes
  <2>1. /\ \A a \in Attempts : attempt[a] = AttemptIdle /\ messages = {}
        /\ recorded = [a \in Attempts |-> "open"] /\ session = [a \in Attempts |-> "none"]
    BY <1>1 DEF Init, AttemptInit
  <2> QED BY <1>1, <2>1 DEF Init, AttemptInit, AttemptIdle, AttemptTypes, AttemptTypeOK
<1>2. AttemptInv /\ AttemptTypes /\ [Next]_vars => AttemptTypes' BY Composed, AttemptTypesKept
<1>3. AttemptTypes => AttemptTypeOK BY DEF AttemptTypes
<1> QED BY <1>1, <1>2, <1>3, AttemptAlways, PTL DEF Spec

(* Every variable of settings, plugins, attempts and the probe keeps its   *)
(* type, and no probe has more results than targets or more interruptions  *)
(* than its bound.                                                         *)
THEOREM PlatformTypesKept == Spec => []PlatformTypeOK
<1>1. ASSUME ProbeInv PROVE ProbeTypeOK
  <2>1. "HTTP" \in DOMAIN Resources BY DEF Resources
  <2> QED BY <1>1, <2>1, ProbeOK DEF ProbeInv, ProbeRecord, ProbeTypeOK, Pending, VerdictEarned, Outcomes
<1>2. ASSUME CatalogInv, PackagesInv PROVE PluginsTypeOK
  <2>1. manifest \in [Packages -> Versions \cup {AnyVersion, Absent}]
    BY <1>2 DEF PackagesInv, PackageTypes, Demands
  <2>2. \A c \in Operators :
          operation[c].pc \in {"idle", "unreferenced", "checked", "waiting", "running", "installed",
                               "recorded", "saving", "failed"}
    BY <1>2 DEF PackagesInv, OpsInv, Ops, Apart, Holding
  <2> QED BY <1>2, <2>1, <2>2 DEF PackagesInv, PackageTypes, LockInv, CatalogInv, ModulesInv, RegistryInv,
                                  Files, PluginsTypeOK
<1> QED BY <1>1, <1>2, SettingsTypesAlways, AttemptTypesAlways, ProbeAlways, CatalogAlways, PackagesAlways, PTL
        DEF PlatformTypeOK
=============================================================================
