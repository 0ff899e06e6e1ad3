---------------------------- MODULE TaskTableProofs ----------------------------
(* Theorems about TaskTable, for every value of its constants.             *)
EXTENDS TaskTable, TLAPS

(***************************************************************************)
(* The next point of a schedule.                                           *)
(***************************************************************************)
LEMMA Division ==
  ASSUME NEW d \in Nat \ {0}, NEW x \in Nat
  PROVE  d * (x \div d + 1) \in Nat /\ d * (x \div d + 1) > x
<1>1. x \div d \in Nat /\ d * (x \div d) + d > x OBVIOUS
<1>2. \A q \in Nat : d * (q + 1) = d * q + d /\ d * (q + 1) \in Nat OBVIOUS
<1> QED BY <1>1, <1>2

(* It lies after both of the points it is computed from.                   *)
LEMMA NextLater ==
  ASSUME NEW cron \in Crons, NEW base \in Nat, NEW minimum \in Nat
  PROVE  /\ NextRunTime(cron, base, minimum) \in Nat
         /\ NextRunTime(cron, base, minimum) > base /\ NextRunTime(cron, base, minimum) > minimum
<1> DEFINE x == Larger(base, minimum)
           y == cron * (x \div cron + 1)
<1>1. x \in Nat /\ x >= base /\ x >= minimum BY DEF Larger
<1>2. cron \in Nat \ {0} BY ScheduleOK
<1> HIDE DEF x
<1>3. y \in Nat /\ y > x BY <1>1, <1>2, Division
<1>4. NextRunTime(cron, base, minimum) = y BY DEF NextRunTime, x
<1> HIDE DEF y
<1> QED BY <1>1, <1>3, <1>4

(***************************************************************************)
(* Types, and which rows exist.                                            *)
(***************************************************************************)
Row  == [enabled : BOOLEAN, cron : Crons \cup {0}, next : Nat]
Shot == [point : Nat, at : Nat]

ClockInv ==
  /\ now \in 0..MaxTime /\ downs \in 0..MaxDowns
  /\ missed \in SUBSET (1..MaxTime)
  /\ lease \in Instances \cup {NoInstance}

(* A row that is scheduled or enabled exists, and its id was given to it.  *)
RowsInv ==
  /\ tasks \in [Tasks -> Row] /\ fired \in [Tasks -> Shot]
  /\ \A t \in Tasks : /\ tasks[t].enabled \/ tasks[t].next # 0 => Exists(t)
                      /\ Exists(t) => t \in used

IsLoop(l, time) ==
  /\ l.pc \in {"down", "idle", "claiming", "claimed", "filling"}
  /\ l.now \in 0..time
  /\ DOMAIN l.seen \subseteq Tasks
  /\ \A t \in DOMAIN l.seen : l.seen[t].point \in Nat /\ l.seen[t].next \in Nat

LoopsInv ==
  /\ instance = [i \in Instances |-> instance[i]]
  /\ \A i \in Instances : IsLoop(instance[i], now)

IsClient(r) ==
  /\ r.pc \in {"idle", "editing"}
  /\ r.pc = "editing" => /\ r.task \in used \cap Tasks /\ r.loaded \in Row /\ r.target \in Row
                         /\ r.loaded.cron # 0 /\ r.target.cron # 0

ClientsInv ==
  /\ client = [c \in Clients |-> client[c]]
  /\ \A c \in Clients : IsClient(client[c])

TInv == ClockInv /\ RowsInv /\ LoopsInv /\ ClientsInv

LEMMA LoopAtIsLoop ==
  ASSUME NEW pc \in {"down", "idle", "claimed"}, NEW time \in Nat
  PROVE  IsLoop(LoopAt(pc), time) /\ LoopAt(pc).pc = pc /\ DOMAIN LoopAt(pc).seen = {}
<1>1. LoopAt(pc) = [pc |-> pc, now |-> 0, seen |-> [t \in {} |-> NotFired]] BY DEF LoopAt, Down
<1> QED BY <1>1 DEF IsLoop

LEMMA DownIsLoop ==
  ASSUME NEW time \in Nat
  PROVE  IsLoop(Down, time) /\ Down.pc = "down" /\ DOMAIN Down.seen = {}
BY DEF Down, IsLoop

LEMMA IdleIsClient == IsClient(ClientIdle) /\ ClientIdle.pc = "idle"
BY DEF ClientIdle, IsClient

LEMMA LoopReplaced ==
  ASSUME LoopsInv, UNCHANGED now, NEW i \in Instances, NEW l, IsLoop(l, now),
         instance' = [instance EXCEPT ![i] = l]
  PROVE  LoopsInv'
BY DEF LoopsInv

(* What a request wants is a row, scheduled if it is enabled.              *)
LEMMA EditedIsRow ==
  ASSUME NEW r \in Row, r.cron # 0, NEW switch \in Switches, NEW cron \in Crons \cup {0}, now \in Nat
  PROVE  /\ Edited(r, switch, cron) \in Row /\ Edited(r, switch, cron).cron # 0
         /\ (r.enabled <=> r.next # 0) =>
              (Edited(r, switch, cron).enabled <=> Edited(r, switch, cron).next # 0)
<1> DEFINE expression == IF cron = 0 THEN r.cron ELSE cron
           enabled == IF switch = "keep" THEN r.enabled ELSE switch = "on"
           next == IF switch = "off" THEN 0
                   ELSE IF switch = "on" \/ (cron # 0 /\ r.enabled)
                        THEN NextRunTime(expression, now, 0) ELSE r.next
<1>1. expression \in Crons /\ expression # 0 BY ScheduleOK DEF Row
<1>2. enabled \in BOOLEAN BY DEF Row
<1>3. NextRunTime(expression, now, 0) \in Nat /\ NextRunTime(expression, now, 0) > 0
  BY <1>1, NextLater
<1>4. next \in Nat BY <1>3 DEF Row
<1>5. (r.enabled <=> r.next # 0) => (enabled <=> next # 0)
  BY <1>3 DEF Switches, Row
<1>6. Edited(r, switch, cron) = [enabled |-> enabled, cron |-> expression, next |-> next] BY DEF Edited
<1> HIDE DEF expression, enabled, next
<1> QED BY <1>1, <1>2, <1>4, <1>5, <1>6 DEF Row

(* The columns of what is written.                                         *)
LEMMA WrittenIsRow ==
  ASSUME NEW current \in Row, NEW loaded \in Row, NEW target \in Row
  PROVE  /\ Written(current, loaded, target) \in Row
         /\ Written(current, loaded, target).enabled =
              IF target.enabled # loaded.enabled THEN target.enabled ELSE current.enabled
         /\ Written(current, loaded, target).cron =
              IF target.cron # loaded.cron THEN target.cron ELSE current.cron
         /\ Written(current, loaded, target).next =
              IF target.next # loaded.next THEN target.next ELSE current.next
<1> DEFINE w == Written(current, loaded, target)
<1>1. DOMAIN current = {"enabled", "cron", "next"} BY DEF Row
<1>2. w = [f \in {"enabled", "cron", "next"} |-> IF target[f] # loaded[f] THEN target[f] ELSE current[f]]
  BY <1>1 DEF Written
<1>3. /\ w.enabled = IF target.enabled # loaded.enabled THEN target.enabled ELSE current.enabled
      /\ w.cron = IF target.cron # loaded.cron THEN target.cron ELSE current.cron
      /\ w.next = IF target.next # loaded.next THEN target.next ELSE current.next
  BY <1>2
<1>4. w.enabled \in BOOLEAN /\ w.cron \in Crons \cup {0} /\ w.next \in Nat BY <1>3 DEF Row
<1>5. w = [enabled |-> w.enabled, cron |-> w.cron, next |-> w.next] BY <1>2
<1> HIDE DEF w
<1>6. w \in Row BY <1>4, <1>5 DEF Row
<1> QED BY <1>3, <1>6 DEF w

(* What the loop computes of a task it read.                               *)
LEMMA FoundIsSeen ==
  ASSUME NEW S \in SUBSET Tasks, NEW next, \A t \in S : next[t] \in Nat, RowsInv,
         NEW pc \in {"claiming", "filling"}, now \in Nat,
         NEW l, l = [pc |-> pc, now |-> now, seen |-> [t \in S |-> Found(t, next[t])]]
  PROVE  /\ IsLoop(l, now) /\ DOMAIN l.seen = S /\ l.pc = pc /\ l.now = now
         /\ \A t \in S : l.seen[t].point = tasks[t].next /\ l.seen[t].next = next[t]
<1>1. DOMAIN l.seen = S /\ \A t \in S : l.seen[t] = [point |-> tasks[t].next, next |-> next[t]]
  BY DEF Found
<1>2. l.pc = pc /\ l.now = now OBVIOUS
<1>3. \A t \in S : tasks[t].next \in Nat BY DEF RowsInv, Row
<1>4. ASSUME NEW t \in S PROVE l.seen[t].point = tasks[t].next /\ l.seen[t].next = next[t]
  <2> DEFINE x == l.seen[t]
  <2>1. x = [point |-> tasks[t].next, next |-> next[t]] BY <1>1
  <2> HIDE DEF x
  <2>2. x.point = tasks[t].next /\ x.next = next[t] BY ONLY <2>1
  <2> QED BY <2>2 DEF x
<1> QED BY <1>1, <1>2, <1>3, <1>4 DEF IsLoop

(* Polling and repairing compute times that lie ahead.                     *)
LEMMA PollSees ==
  ASSUME TInv, NEW i \in Instances, NEW running \in SUBSET Tasks, Poll(i, running)
  PROVE  \E l : /\ instance' = [instance EXCEPT ![i] = l] /\ IsLoop(l, now) /\ l.pc = "claiming"
               /\ \A t \in DOMAIN l.seen : /\ tasks[t].enabled /\ l.seen[t].point = tasks[t].next
                                          /\ l.seen[t].point # 0 /\ l.seen[t].next > l.now
<1>1. PICK oldest \in SUBSET Tasks :
        /\ \A t \in oldest : Due(t)
        /\ instance' = [instance EXCEPT ![i] =
              [pc |-> "claiming", now |-> now,
               seen |-> [t \in oldest |-> Found(t, NextRunTime(tasks[t].cron, tasks[t].next, now))]]]
  BY DEF Poll
<1> DEFINE next == [t \in oldest |-> NextRunTime(tasks[t].cron, tasks[t].next, now)]
           l == [pc |-> "claiming", now |-> now, seen |-> [t \in oldest |-> Found(t, next[t])]]
<1>2. now \in Nat BY DEF TInv, ClockInv
<1>3. ASSUME NEW t \in oldest PROVE next[t] \in Nat /\ next[t] > now
  <2>1. tasks[t].next \in Nat /\ tasks[t].cron \in Crons
    BY <1>1 DEF Due, TInv, RowsInv, Row, Exists
  <2> QED BY <1>2, <2>1, NextLater
<1>4. instance' = [instance EXCEPT ![i] = l]
  <2>1. \A t \in oldest : next[t] = NextRunTime(tasks[t].cron, tasks[t].next, now) OBVIOUS
  <2> HIDE DEF next
  <2>2. l = [pc |-> "claiming", now |-> now,
             seen |-> [t \in oldest |-> Found(t, NextRunTime(tasks[t].cron, tasks[t].next, now))]]
    BY <2>1
  <2> QED BY <1>1, <2>2
<1>5. \A t \in oldest : tasks[t].enabled /\ tasks[t].next # 0 BY <1>1 DEF Due
<1> HIDE DEF next
<1>6. /\ IsLoop(l, now) /\ DOMAIN l.seen = oldest /\ l.pc = "claiming" /\ l.now = now
      /\ \A t \in oldest : l.seen[t].point = tasks[t].next /\ l.seen[t].next = next[t]
  BY <1>2, <1>3, FoundIsSeen DEF TInv
<1> HIDE DEF l
<1> QED BY <1>3, <1>4, <1>5, <1>6

LEMMA FillSees ==
  ASSUME TInv, NEW i \in Instances, FillRead(i)
  PROVE  \E l : /\ instance' = [instance EXCEPT ![i] = l] /\ IsLoop(l, now) /\ l.pc = "filling"
               /\ DOMAIN l.seen = {t \in Tasks : tasks[t].enabled /\ tasks[t].next = 0}
<1> DEFINE lost == {t \in Tasks : tasks[t].enabled /\ tasks[t].next = 0}
           next == [t \in lost |-> NextRunTime(tasks[t].cron, now, 0)]
           l == [pc |-> "filling", now |-> now, seen |-> [t \in lost |-> Found(t, next[t])]]
<1>1. now \in Nat BY DEF TInv, ClockInv
<1>2. \A t \in lost : next[t] \in Nat
  <2> SUFFICES ASSUME NEW t \in lost PROVE next[t] \in Nat
    OBVIOUS
  <2>1. tasks[t].cron \in Crons BY DEF TInv, RowsInv, Row, Exists
  <2> QED BY <1>1, <2>1, NextLater
<1>3. instance' = [instance EXCEPT ![i] = l]
  <2>1. \A t \in lost : next[t] = NextRunTime(tasks[t].cron, now, 0) OBVIOUS
  <2>2. instance' = [instance EXCEPT ![i] =
           [pc |-> "filling", now |-> now,
            seen |-> [t \in lost |-> Found(t, NextRunTime(tasks[t].cron, now, 0))]]]
    BY DEF FillRead
  <2> HIDE DEF next, lost
  <2>3. l = [pc |-> "filling", now |-> now,
             seen |-> [t \in lost |-> Found(t, NextRunTime(tasks[t].cron, now, 0))]]
    BY <2>1
  <2> QED BY <2>2, <2>3
<1>4. lost \in SUBSET Tasks OBVIOUS
<1> HIDE DEF next, lost
<1>5. IsLoop(l, now) /\ DOMAIN l.seen = lost /\ l.pc = "filling" BY <1>1, <1>2, <1>4, FoundIsSeen DEF TInv
<1> HIDE DEF l
<1> QED BY <1>3, <1>5 DEF lost

(* A row whose next_run_time is replaced is a row.                         *)
LEMMA NextReplaced ==
  ASSUME NEW r \in Row, NEW n \in Nat
  PROVE  /\ [r EXCEPT !.next = n] \in Row /\ [r EXCEPT !.next = n].next = n
         /\ [r EXCEPT !.next = n].enabled = r.enabled /\ [r EXCEPT !.next = n].cron = r.cron
BY DEF Row

LEMMA TypesKept ==
  ASSUME TInv, [Next]_vars
  PROVE  TInv'
<1> USE ScheduleOK DEF TInv
<1>1. now \in Nat BY DEF ClockInv
<1>2. ASSUME Tick PROVE TInv'
  <2>1. ClockInv' BY <1>2 DEF Tick, ClockInv
  <2>2. \A l : IsLoop(l, now) => IsLoop(l, now') BY <1>1, <1>2 DEF Tick, IsLoop
  <2>3. LoopsInv' BY <1>2, <2>2 DEF Tick, LoopsInv
  <2> QED BY <1>2, <2>1, <2>3 DEF Tick, RowsInv, ClientsInv, IsClient, Exists
<1>3. ASSUME LeaseLost PROVE TInv'
  BY <1>3 DEF LeaseLost, ClockInv, RowsInv, LoopsInv, ClientsInv, IsClient, Exists
<1>4. ASSUME NEW i \in Instances, Start(i) PROVE TInv'
  <2>1. LoopsInv' BY <1>1, <1>4, LoopAtIsLoop, LoopReplaced DEF Start
  <2> QED BY <1>4, <2>1 DEF Start, ClockInv, RowsInv, ClientsInv, IsClient, Exists
<1>5. ASSUME NEW i \in Instances, GoDown(i) PROVE TInv'
  <2>1. LoopsInv' BY <1>1, <1>5, DownIsLoop, LoopReplaced DEF GoDown
  <2>2. ClockInv' BY <1>5 DEF GoDown, ClockInv
  <2>3. \A c \in Clients : client'[c] \in {client[c], ClientIdle} BY <1>5 DEF GoDown
  <2>4. client' = [c \in Clients |-> client'[c]] /\ UNCHANGED used BY <1>5 DEF GoDown
  <2>5. ClientsInv' BY <2>3, <2>4, IdleIsClient DEF ClientsInv, IsClient
  <2> QED BY <1>5, <2>1, <2>2, <2>5 DEF GoDown, RowsInv, Exists
<1>6. ASSUME NEW i \in Instances, NEW running \in SUBSET Tasks, Poll(i, running) PROVE TInv'
  <2>1. LoopsInv' BY <1>6, PollSees, LoopReplaced DEF Poll
  <2> QED BY <1>6, <2>1 DEF Poll, ClockInv, RowsInv, ClientsInv, IsClient, Exists
<1>7. ASSUME NEW i \in Instances, Claim(i) PROVE TInv'
  <2> DEFINE won == {t \in DOMAIN instance[i].seen : Unmoved(i, t)}
  <2>1. Claims(i, won) BY <1>7 DEF Claim
  <2>2. won \in SUBSET Tasks /\ \A t \in won : tasks[t].enabled BY DEF LoopsInv, IsLoop, Unmoved
  <2>3. \A t \in won : /\ instance[i].seen[t].next \in Nat /\ instance[i].seen[t].point \in Nat
                       /\ instance[i].now \in Nat
    BY <1>1 DEF LoopsInv, IsLoop
  <2> HIDE DEF won
  <2>4. ASSUME NEW t \in Tasks
        PROVE  /\ tasks'[t] \in Row /\ fired'[t] \in Shot
               /\ tasks'[t].enabled = tasks[t].enabled /\ tasks'[t].cron = tasks[t].cron
               /\ t \notin won => tasks'[t].next = tasks[t].next
    <3>1. CASE t \in won
      <4>1. tasks'[t] = [tasks[t] EXCEPT !.next = instance[i].seen[t].next] BY <2>1, <3>1 DEF Claims
      <4>2. fired'[t] = [point |-> instance[i].seen[t].point, at |-> instance[i].now]
        BY <2>1, <3>1 DEF Claims
      <4>3. tasks[t] \in Row BY DEF RowsInv
      <4> QED BY <2>3, <3>1, <4>1, <4>2, <4>3, NextReplaced DEF Shot
    <3>2. CASE t \notin won
      BY <2>1, <3>2 DEF Claims, RowsInv
    <3> QED BY <3>1, <3>2
  <2>5. RowsInv'
    <3>1. tasks' \in [Tasks -> Row] /\ fired' \in [Tasks -> Shot] BY <2>1, <2>4 DEF Claims
    <3>2. UNCHANGED used BY <2>1 DEF Claims
    <3> QED BY <2>2, <2>4, <3>1, <3>2 DEF RowsInv, Exists
  <2>6. LoopsInv' BY <1>1, <2>1, LoopAtIsLoop, LoopReplaced DEF Claims
  <2> QED BY <2>1, <2>5, <2>6 DEF Claims, ClockInv, ClientsInv, IsClient
<1>8. ASSUME NEW i \in Instances, FillRead(i) PROVE TInv'
  <2>1. LoopsInv' BY <1>8, FillSees, LoopReplaced DEF FillRead
  <2> QED BY <1>8, <2>1 DEF FillRead, ClockInv, RowsInv, ClientsInv, IsClient, Exists
<1>9. ASSUME NEW i \in Instances, FillCommit(i) PROVE TInv'
  <2> DEFINE found == IF \A t \in DOMAIN instance[i].seen : Exists(t) THEN DOMAIN instance[i].seen ELSE {}
  <2>1. /\ tasks' = [t \in Tasks |-> IF t \in found THEN [tasks[t] EXCEPT !.next = instance[i].seen[t].next]
                                    ELSE tasks[t]]
        /\ instance' = [instance EXCEPT ![i] = LoopAt("idle")]
        /\ UNCHANGED <<now, used, lease, client, fired, missed, downs>>
    BY <1>9 DEF FillCommit
  <2>2. found \in SUBSET Tasks /\ \A t \in found : Exists(t) /\ instance[i].seen[t].next \in Nat
    BY DEF LoopsInv, IsLoop
  <2> HIDE DEF found
  <2>3. ASSUME NEW t \in Tasks
        PROVE  /\ tasks'[t] \in Row
               /\ tasks'[t].enabled = tasks[t].enabled /\ tasks'[t].cron = tasks[t].cron
               /\ t \notin found => tasks'[t].next = tasks[t].next
    BY <2>1, <2>2, NextReplaced DEF RowsInv
  <2>4. RowsInv'
    <3>1. tasks' \in [Tasks -> Row] BY <2>1, <2>3
    <3> QED BY <2>1, <2>2, <2>3, <3>1 DEF RowsInv, Exists
  <2>5. LoopsInv' BY <1>1, <2>1, LoopAtIsLoop, LoopReplaced
  <2> QED BY <2>1, <2>4, <2>5 DEF ClockInv, ClientsInv, IsClient
<1>10. ASSUME NEW i \in Instances, LoopFailed(i) PROVE TInv'
  <2>1. LoopsInv' BY <1>1, <1>10, LoopAtIsLoop, LoopReplaced DEF LoopFailed
  <2> QED BY <1>10, <2>1 DEF LoopFailed, ClockInv, RowsInv, ClientsInv, IsClient, Exists
<1>11. ASSUME NEW t \in Tasks, NEW cron \in Crons, NEW enabled \in BOOLEAN, Create(t, cron, enabled)
       PROVE  TInv'
  <2> DEFINE next == IF enabled THEN NextRunTime(cron, now, 0) ELSE 0
             r == [enabled |-> enabled, cron |-> cron, next |-> next]
  <2>1. next \in Nat BY <1>1, NextLater
  <2>2. /\ tasks' = [tasks EXCEPT ![t] = r] /\ fired' = [fired EXCEPT ![t] = NotFired]
        /\ used' = used \cup {t} /\ UNCHANGED <<now, lease, instance, client, missed, downs>>
    BY <1>11 DEF Create
  <2> HIDE DEF next
  <2>3. r \in Row /\ r.cron # 0 /\ r.cron = cron BY <2>1 DEF Row
  <2>4. NotFired \in Shot BY DEF NotFired, Shot
  <2> HIDE DEF r
  <2>5. RowsInv' BY <2>2, <2>3, <2>4 DEF RowsInv, Exists
  <2> QED BY <2>2, <2>5 DEF ClockInv, LoopsInv, ClientsInv, IsClient
<1>12. ASSUME NEW c \in Clients, NEW t \in Tasks, NEW switch \in Switches, NEW cron \in Crons \cup {0},
              Edit(c, t, switch, cron)
       PROVE  TInv'
  <2>1. PICK i \in Instances :
          client' = [client EXCEPT ![c] = [pc |-> "editing", task |-> t, at |-> i,
                       loaded |-> tasks[t], target |-> Edited(tasks[t], switch, cron)]]
    BY <1>12 DEF Edit
  <2>2. Exists(t) /\ UNCHANGED <<now, tasks, used, lease, instance, fired, missed, downs>>
    BY <1>12 DEF Edit
  <2>3. tasks[t] \in Row /\ tasks[t].cron # 0 /\ t \in used BY <2>2 DEF RowsInv, Exists
  <2>4. Edited(tasks[t], switch, cron) \in Row /\ Edited(tasks[t], switch, cron).cron # 0
    BY <1>1, <2>3, EditedIsRow
  <2>5. ClientsInv' BY <2>1, <2>2, <2>3, <2>4 DEF ClientsInv, IsClient
  <2> QED BY <2>2, <2>5 DEF ClockInv, RowsInv, LoopsInv, Exists
<1>13. ASSUME NEW c \in Clients, Commit(c) PROVE TInv'
  <2> DEFINE t == client[c].task
             w == Written(tasks[t], client[c].loaded, client[c].target)
  <2>1. /\ client[c].pc = "editing" /\ client' = [client EXCEPT ![c] = ClientIdle]
        /\ tasks' = IF Exists(t) THEN [tasks EXCEPT ![t] = w] ELSE tasks
        /\ fired' \in {fired, [fired EXCEPT ![t] = NotFired]}
        /\ UNCHANGED <<now, used, lease, instance, missed, downs>>
    BY <1>13 DEF Commit
  <2>2. /\ t \in used \cap Tasks /\ tasks[t] \in Row /\ client[c].loaded \in Row /\ client[c].target \in Row
        /\ client[c].loaded.cron # 0 /\ client[c].target.cron # 0
    BY <2>1 DEF ClientsInv, IsClient, RowsInv
  <2>3. w \in Row /\ (Exists(t) => w.cron # 0) BY <2>2, WrittenIsRow DEF Exists
  <2>4. ClientsInv' BY <2>1, IdleIsClient DEF ClientsInv, IsClient
  <2>5. NotFired \in Shot BY DEF NotFired, Shot
  <2>6. fired' \in [Tasks -> Shot] BY <2>1, <2>5 DEF RowsInv
  <2> HIDE DEF w
  <2>7. RowsInv' BY <2>1, <2>2, <2>3, <2>6 DEF RowsInv, Exists
  <2> QED BY <2>1, <2>4, <2>7 DEF ClockInv, LoopsInv
<1>14. ASSUME NEW t \in Tasks, Delete(t) PROVE TInv'
  <2>1. /\ tasks' = [tasks EXCEPT ![t] = Absent] /\ fired' = [fired EXCEPT ![t] = NotFired]
        /\ UNCHANGED <<now, used, lease, instance, client, missed, downs>>
    BY <1>14 DEF Delete
  <2>2. Absent \in Row /\ ~Absent.enabled /\ Absent.next = 0 /\ Absent.cron = 0 BY DEF Absent, Row
  <2>3. NotFired \in Shot BY DEF NotFired, Shot
  <2>4. RowsInv' BY <2>1, <2>2, <2>3 DEF RowsInv, Exists
  <2> QED BY <2>1, <2>4 DEF ClockInv, LoopsInv, ClientsInv, IsClient
<1>15. ASSUME UNCHANGED vars PROVE TInv'
  BY <1>15 DEF vars, ClockInv, RowsInv, LoopsInv, ClientsInv, IsClient, Exists
<1> QED
  <2> HIDE DEF TInv
  <2> QED BY <1>2, <1>3, <1>4, <1>5, <1>6, <1>7, <1>8, <1>9, <1>10, <1>11, <1>12, <1>13, <1>14, <1>15
          DEF Next, LoopStep

LEMMA TypesInitially == Init => TInv
<1> SUFFICES ASSUME Init PROVE TInv
  OBVIOUS
<1>1. ClockInv BY ScheduleOK DEF Init, ClockInv
<1>2. Absent \in Row /\ ~Absent.enabled /\ Absent.next = 0 /\ Absent.cron = 0 BY DEF Absent, Row
<1>3. NotFired \in Shot BY DEF NotFired, Shot
<1>4. RowsInv BY <1>2, <1>3 DEF Init, RowsInv, Exists
<1>5. LoopsInv BY DownIsLoop DEF Init, LoopsInv
<1>6. ClientsInv BY IdleIsClient DEF Init, ClientsInv
<1> QED BY <1>1, <1>4, <1>5, <1>6 DEF TInv

LEMMA TypesAlways == Spec => []TInv
BY TypesInitially, TypesKept, PTL DEF Spec

(* Rows, loops and requests keep their types, and no row is scheduled that *)
(* does not exist, whatever instances, requests and faults come.           *)
THEOREM TypeCorrect == Spec => []TypeOK
<1>1. TInv => TypeOK
  BY DEF TInv, TypeOK, ClockInv, RowsInv, Row, LoopsInv, IsLoop, ClientsInv, IsClient
<1> QED BY <1>1, TypesAlways, PTL

(***************************************************************************)
(* Requests one at a time: what polling, repairing and editing keep true   *)
(* together.                                                               *)
(***************************************************************************)
OneRequest == \A c, d \in Clients : c = d

(* A row that is scheduled is scheduled after its last claim.              *)
FiredInv == \A t \in Tasks : tasks[t].next # 0 => tasks[t].next > fired[t].at

(* A claim writes a time that lies ahead; there is nothing to repair.      *)
IsGoodLoop(l) ==
  /\ l.pc = "claiming" => \A t \in DOMAIN l.seen : l.seen[t].point # 0 /\ l.seen[t].next > l.now
  /\ l.pc = "filling" => DOMAIN l.seen = {}

(* A request read and wants rows that are scheduled iff they are enabled,  *)
(* and what it read of enabled still holds.                                *)
IsGoodClient(r) ==
  r.pc = "editing" => /\ r.loaded.enabled <=> r.loaded.next # 0
                      /\ r.target.enabled <=> r.target.next # 0
                      /\ Exists(r.task) => tasks[r.task].enabled = r.loaded.enabled

SInv ==
  /\ ScheduledIffEnabled
  /\ FiredInv
  /\ \A i \in Instances : IsGoodLoop(instance[i])
  /\ \A c \in Clients : IsGoodClient(client[c])

LEMMA ScheduleInitially == Init => SInv
<1> SUFFICES ASSUME Init PROVE SInv
  OBVIOUS
<1>1. ~Absent.enabled /\ Absent.next = 0 BY DEF Absent
<1>2. IsGoodLoop(Down) BY DownIsLoop, ScheduleOK DEF IsGoodLoop
<1>3. IsGoodClient(ClientIdle) BY IdleIsClient DEF IsGoodClient
<1> QED BY <1>1, <1>2, <1>3 DEF Init, SInv, ScheduledIffEnabled, FiredInv

(* A loop that does not go on to claim or repair keeps what holds.         *)
LEMMA LoopAtIsGood ==
  ASSUME NEW pc \in {"down", "idle", "claimed"}
  PROVE  IsGoodLoop(LoopAt(pc))
BY LoopAtIsLoop DEF IsGoodLoop

(* A step of one loop alone.                                               *)
LEMMA LoopMoves ==
  ASSUME TInv, SInv, UNCHANGED <<tasks, fired, client>>,
         NEW i \in Instances, NEW l, IsGoodLoop(l), instance' = [instance EXCEPT ![i] = l]
  PROVE  SInv'
<1>1. \A j \in Instances : instance'[j] \in {instance[j], l} BY DEF TInv, LoopsInv
<1>2. \A j \in Instances : IsGoodLoop(instance'[j]) BY <1>1 DEF SInv
<1>3. \A j \in Instances : IsGoodLoop(instance[j])' BY <1>2 DEF IsGoodLoop
<1>4. \A c \in Clients : IsGoodClient(client[c])' BY DEF SInv, IsGoodClient, Exists
<1> QED BY <1>3, <1>4 DEF SInv, ScheduledIffEnabled, FiredInv

(* The claim writes rows that are due: their point moves ahead of the      *)
(* claim, and they stay enabled.                                           *)
LEMMA ClaimMoves ==
  ASSUME TInv, SInv, NEW i \in Instances, Claim(i), NEW t \in Tasks
  PROVE  /\ tasks'[t].enabled = tasks[t].enabled /\ tasks'[t].cron = tasks[t].cron
         /\ \/ tasks'[t].next = tasks[t].next /\ fired'[t] = fired[t]
            \/ /\ tasks[t].enabled /\ tasks'[t].next > fired'[t].at
               /\ fired'[t].point > fired[t].at
<1> DEFINE won == {u \in DOMAIN instance[i].seen : Unmoved(i, u)}
<1>1. Claims(i, won) BY DEF Claim
<1>2. CASE t \notin won BY <1>1, <1>2 DEF Claims
<1>3. CASE t \in won
  <2>1. tasks[t].enabled /\ tasks[t].next = instance[i].seen[t].point BY <1>3 DEF Unmoved
  <2>2. instance[i].pc = "claiming" BY DEF Claim
  <2>3. instance[i].seen[t].point # 0 /\ instance[i].seen[t].next > instance[i].now
    BY <1>3, <2>2 DEF SInv, IsGoodLoop
  <2>4. instance[i].seen[t].next \in Nat
    BY <1>3 DEF TInv, LoopsInv, IsLoop
  <2> HIDE DEF won
  <2>5. tasks'[t] = [tasks[t] EXCEPT !.next = instance[i].seen[t].next] BY <1>1, <1>3 DEF Claims
  <2>6. fired'[t] = [point |-> instance[i].seen[t].point, at |-> instance[i].now]
    BY <1>1, <1>3 DEF Claims
  <2>7. fired'[t].point = instance[i].seen[t].point /\ fired'[t].at = instance[i].now BY ONLY <2>6
  <2>8. tasks[t] \in Row BY DEF TInv, RowsInv
  <2>9. /\ tasks'[t].next = instance[i].seen[t].next
        /\ tasks'[t].enabled = tasks[t].enabled /\ tasks'[t].cron = tasks[t].cron
    BY <2>4, <2>5, <2>8, NextReplaced
  <2>10. tasks[t].next > fired[t].at BY <2>1, <2>3 DEF SInv, FiredInv
  <2> QED BY <2>1, <2>3, <2>7, <2>9, <2>10
<1> QED BY <1>2, <1>3

LEMMA CommitMoves ==
  ASSUME TInv, SInv, OneRequest, NEW c \in Clients, Commit(c)
  PROVE  SInv'
<1> DEFINE t == client[c].task
           r == client[c]
           w == Written(tasks[t], r.loaded, r.target)
<1>1. /\ r.pc = "editing" /\ client' = [client EXCEPT ![c] = ClientIdle]
      /\ tasks' = IF Exists(t) THEN [tasks EXCEPT ![t] = w] ELSE tasks
      /\ fired' = IF r.target.next # r.loaded.next THEN [fired EXCEPT ![t] = NotFired] ELSE fired
      /\ UNCHANGED instance
  BY DEF Commit
<1>2. /\ t \in Tasks /\ tasks[t] \in Row /\ r.loaded \in Row /\ r.target \in Row
      /\ tasks \in [Tasks -> Row] /\ fired \in [Tasks -> Shot]
  BY <1>1 DEF TInv, ClientsInv, IsClient, RowsInv
<1>3. /\ r.loaded.enabled <=> r.loaded.next # 0
      /\ r.target.enabled <=> r.target.next # 0
      /\ Exists(t) => tasks[t].enabled = r.loaded.enabled
  BY <1>1 DEF SInv, IsGoodClient
<1>4. /\ w.enabled = IF r.target.enabled # r.loaded.enabled THEN r.target.enabled ELSE tasks[t].enabled
      /\ w.next = IF r.target.next # r.loaded.next THEN r.target.next ELSE tasks[t].next
      /\ w \in Row
  BY <1>2, WrittenIsRow
<1>5. tasks[t].enabled <=> tasks[t].next # 0 BY <1>2 DEF SInv, ScheduledIffEnabled
<1>6. Exists(t) => (w.enabled <=> w.next # 0)
  <2> HAVE Exists(t)
  <2>1. w.enabled = r.target.enabled BY <1>2, <1>3, <1>4 DEF Row
  <2>2. CASE r.target.next # r.loaded.next BY <1>3, <1>4, <2>1, <2>2
  <2>3. CASE r.target.next = r.loaded.next
    <3>1. r.target.enabled <=> tasks[t].enabled BY <1>3, <2>3
    <3> QED BY <1>4, <1>5, <2>1, <2>3, <3>1
  <2> QED BY <2>2, <2>3
<1>7. \A d \in Clients : client'[d] = ClientIdle
  BY <1>1 DEF OneRequest, TInv, ClientsInv
<1>8. \A d \in Clients : IsGoodClient(client[d])' BY <1>7, IdleIsClient DEF IsGoodClient
<1>9. \A i \in Instances : IsGoodLoop(instance[i])' BY <1>1 DEF SInv, IsGoodLoop
<1>10. w.next \in Nat BY <1>4 DEF Row
<1>11. NotFired.at = 0 BY DEF NotFired
<1> HIDE DEF w, r, t
<1>12. ASSUME NEW u \in Tasks
       PROVE  /\ tasks'[u].enabled <=> tasks'[u].next # 0
              /\ tasks'[u].next # 0 => tasks'[u].next > fired'[u].at
  <2>1. /\ tasks[u].enabled <=> tasks[u].next # 0
        /\ tasks[u].next # 0 => tasks[u].next > fired[u].at
        /\ tasks[u].next \in Nat
    BY <1>2 DEF SInv, ScheduledIffEnabled, FiredInv, Row
  <2>2. CASE u # t
    <3>1. tasks'[u] = tasks[u] /\ fired'[u] = fired[u] BY <1>1, <1>2, <2>2
    <3> QED BY <2>1, <3>1
  <2>3. CASE u = t /\ ~Exists(t)
    <3>1. tasks'[u] = tasks[u] /\ (fired'[u] = fired[u] \/ fired'[u] = NotFired) BY <1>1, <1>2, <2>3
    <3> QED BY <1>11, <2>1, <3>1
  <2>4. CASE u = t /\ Exists(t)
    <3>1. tasks'[u] = w BY <1>1, <1>2, <2>4
    <3>2. CASE r.target.next # r.loaded.next
      <4>1. fired'[u] = NotFired BY <1>1, <1>2, <2>4, <3>2
      <4> QED BY <1>6, <1>10, <1>11, <2>4, <3>1, <4>1
    <3>3. CASE r.target.next = r.loaded.next
      <4>1. fired'[u] = fired[u] /\ w.next = tasks[u].next BY <1>1, <1>4, <2>4, <3>3
      <4> QED BY <1>6, <2>1, <2>4, <3>1, <4>1
    <3> QED BY <3>2, <3>3
  <2> QED BY <2>2, <2>3, <2>4
<1> QED BY <1>8, <1>9, <1>12 DEF SInv, ScheduledIffEnabled, FiredInv

LEMMA ScheduleKept ==
  ASSUME TInv, SInv, OneRequest, [Next]_vars
  PROVE  SInv'
<1> USE DEF SInv
<1>1. now \in Nat BY ScheduleOK DEF TInv, ClockInv
<1>2. CASE UNCHANGED <<tasks, instance, client, fired>>
  BY <1>2 DEF ScheduledIffEnabled, FiredInv, IsGoodLoop, IsGoodClient, Exists
<1>3. CASE Tick \/ LeaseLost BY <1>2, <1>3 DEF Tick, LeaseLost
<1>4. ASSUME NEW i \in Instances, Start(i) PROVE SInv'
  BY <1>4, LoopAtIsGood, LoopMoves DEF Start
<1>5. ASSUME NEW i \in Instances, GoDown(i) PROVE SInv'
  <2>1. instance' = [instance EXCEPT ![i] = Down] /\ UNCHANGED <<tasks, fired>> BY <1>5 DEF GoDown
  <2>2. \A c \in Clients : client'[c] \in {client[c], ClientIdle} BY <1>5 DEF GoDown
  <2>3. \A c \in Clients : IsGoodClient(client[c])'
    BY <2>1, <2>2, IdleIsClient DEF IsGoodClient, Exists
  <2>4. IsGoodLoop(Down) BY DownIsLoop, <1>1 DEF IsGoodLoop
  <2>5. \A j \in Instances : instance'[j] \in {instance[j], Down} BY <2>1 DEF TInv, LoopsInv
  <2>6. \A j \in Instances : IsGoodLoop(instance[j])' BY <2>4, <2>5 DEF IsGoodLoop
  <2> QED BY <2>1, <2>3, <2>6 DEF ScheduledIffEnabled, FiredInv
<1>6. ASSUME NEW i \in Instances, NEW running \in SUBSET Tasks, Poll(i, running) PROVE SInv'
  <2>1. PICK l : /\ instance' = [instance EXCEPT ![i] = l] /\ l.pc = "claiming"
                 /\ \A t \in DOMAIN l.seen : l.seen[t].point # 0 /\ l.seen[t].next > l.now
    BY <1>6, PollSees
  <2>2. IsGoodLoop(l) BY <2>1 DEF IsGoodLoop
  <2>3. UNCHANGED <<tasks, fired, client>> BY <1>6 DEF Poll
  <2> HIDE DEF SInv
  <2> QED BY <2>1, <2>2, <2>3, LoopMoves
<1>7. ASSUME NEW i \in Instances, Claim(i) PROVE SInv'
  <2>1. instance' = [instance EXCEPT ![i] = LoopAt("claimed")] /\ UNCHANGED client
    BY <1>7 DEF Claim, Claims
  <2>2. \A t \in Tasks :
          /\ tasks'[t].enabled = tasks[t].enabled /\ tasks'[t].cron = tasks[t].cron
          /\ \/ tasks'[t].next = tasks[t].next /\ fired'[t] = fired[t]
             \/ tasks[t].enabled /\ tasks'[t].next > fired'[t].at
    BY <1>7, ClaimMoves
  <2>3. \A t \in Tasks : tasks'[t].next \in Nat /\ fired'[t].at \in Nat
    BY <1>7, TypesKept DEF Next, LoopStep, TInv, RowsInv, Row, Shot
  <2>4. ScheduledIffEnabled' /\ FiredInv' BY <2>2, <2>3 DEF ScheduledIffEnabled, FiredInv
  <2>5. \A j \in Instances : instance'[j] \in {instance[j], LoopAt("claimed")}
    BY <2>1 DEF TInv, LoopsInv
  <2>6. \A j \in Instances : IsGoodLoop(instance[j])' BY <2>5, LoopAtIsGood DEF IsGoodLoop
  <2>7. ASSUME NEW c \in Clients PROVE IsGoodClient(client[c])'
    <3>1. client[c].pc = "editing" => client[c].task \in Tasks BY DEF TInv, ClientsInv, IsClient
    <3> QED BY <2>1, <2>2, <3>1 DEF IsGoodClient, Exists
  <2> QED BY <2>4, <2>6, <2>7
<1>8. ASSUME NEW i \in Instances, FillRead(i) PROVE SInv'
  <2>1. PICK l : /\ instance' = [instance EXCEPT ![i] = l] /\ l.pc = "filling"
                 /\ DOMAIN l.seen = {t \in Tasks : tasks[t].enabled /\ tasks[t].next = 0}
    BY <1>8, FillSees
  <2>2. IsGoodLoop(l) BY <2>1 DEF IsGoodLoop, ScheduledIffEnabled
  <2>3. UNCHANGED <<tasks, fired, client>> BY <1>8 DEF FillRead
  <2> HIDE DEF SInv
  <2> QED BY <2>1, <2>2, <2>3, LoopMoves
<1>9. ASSUME NEW i \in Instances, FillCommit(i) PROVE SInv'
  <2>1. DOMAIN instance[i].seen = {} BY <1>9 DEF FillCommit, IsGoodLoop
  <2>2. tasks' = [t \in Tasks |-> tasks[t]] BY <1>9, <2>1 DEF FillCommit
  <2>3. UNCHANGED <<tasks, fired, client>> BY <1>9, <2>2 DEF FillCommit, TInv, RowsInv
  <2>4. instance' = [instance EXCEPT ![i] = LoopAt("idle")] BY <1>9 DEF FillCommit
  <2> HIDE DEF SInv
  <2> QED BY <2>3, <2>4, LoopAtIsGood, LoopMoves
<1>10. ASSUME NEW i \in Instances, LoopFailed(i) PROVE SInv'
  BY <1>10, LoopAtIsGood, LoopMoves DEF LoopFailed
<1>11. ASSUME NEW t \in Tasks, NEW cron \in Crons, NEW enabled \in BOOLEAN, Create(t, cron, enabled)
       PROVE  SInv'
  <2> DEFINE next == IF enabled THEN NextRunTime(cron, now, 0) ELSE 0
             r == [enabled |-> enabled, cron |-> cron, next |-> next]
  <2>1. next \in Nat /\ (enabled <=> next # 0) BY <1>1, NextLater
  <2>2. /\ tasks' = [tasks EXCEPT ![t] = r] /\ fired' = [fired EXCEPT ![t] = NotFired]
        /\ t \notin used /\ UNCHANGED <<instance, client>>
    BY <1>11 DEF Create
  <2> HIDE DEF next
  <2>3. r.next \in Nat /\ (r.enabled <=> r.next # 0) BY <2>1
  <2>4. NotFired.at = 0 BY DEF NotFired
  <2> HIDE DEF r
  <2>5. ScheduledIffEnabled' /\ FiredInv'
    BY <2>2, <2>3, <2>4 DEF ScheduledIffEnabled, FiredInv, TInv, RowsInv
  <2>6. \A i \in Instances : IsGoodLoop(instance[i])' BY <2>2 DEF IsGoodLoop
  <2>7. ASSUME NEW c \in Clients PROVE IsGoodClient(client[c])'
    <3>1. client[c].pc = "editing" => client[c].task \in Tasks /\ client[c].task # t
      BY <2>2 DEF TInv, ClientsInv, IsClient
    <3> QED BY <2>2, <3>1 DEF IsGoodClient, Exists, TInv, RowsInv
  <2> QED BY <2>5, <2>6, <2>7
<1>12. ASSUME NEW c \in Clients, NEW t \in Tasks, NEW switch \in Switches, NEW cron \in Crons \cup {0},
              Edit(c, t, switch, cron)
       PROVE  SInv'
  <2>1. PICK i \in Instances :
          client' = [client EXCEPT ![c] = [pc |-> "editing", task |-> t, at |-> i,
                       loaded |-> tasks[t], target |-> Edited(tasks[t], switch, cron)]]
    BY <1>12 DEF Edit
  <2>2. Exists(t) /\ UNCHANGED <<tasks, instance, fired>> BY <1>12 DEF Edit
  <2> DEFINE target == Edited(tasks[t], switch, cron)
             r == [pc |-> "editing", task |-> t, at |-> i, loaded |-> tasks[t], target |-> target]
  <2>3. target.enabled <=> target.next # 0
    BY <1>1, <2>2, EditedIsRow DEF TInv, RowsInv, Exists, ScheduledIffEnabled
  <2>4. tasks[t].enabled <=> tasks[t].next # 0 BY DEF ScheduledIffEnabled
  <2>5. r.task = t /\ r.loaded = tasks[t] /\ r.target = target OBVIOUS
  <2> HIDE DEF target
  <2>6. client' = [client EXCEPT ![c] = r] BY <2>1 DEF target
  <2> HIDE DEF r
  <2>7. IsGoodClient(r) BY <2>3, <2>4, <2>5 DEF IsGoodClient
  <2>8. \A d \in Clients : client'[d] \in {client[d], r} BY <2>6 DEF TInv, ClientsInv
  <2>9. \A d \in Clients : IsGoodClient(client'[d]) BY <2>7, <2>8
  <2>10. \A d \in Clients : IsGoodClient(client[d])' BY <2>2, <2>9 DEF IsGoodClient, Exists
  <2> QED BY <2>2, <2>10 DEF ScheduledIffEnabled, FiredInv, IsGoodLoop
<1>13. ASSUME NEW c \in Clients, Commit(c) PROVE SInv'
  <2> HIDE DEF SInv
  <2> QED BY <1>13, CommitMoves
<1>14. ASSUME NEW t \in Tasks, Delete(t) PROVE SInv'
  <2>1. /\ tasks' = [tasks EXCEPT ![t] = Absent] /\ fired' = [fired EXCEPT ![t] = NotFired]
        /\ UNCHANGED <<instance, client>>
    BY <1>14 DEF Delete
  <2>2. Absent.next = 0 /\ ~Absent.enabled /\ Absent.cron = 0 BY DEF Absent
  <2>3. ScheduledIffEnabled' /\ FiredInv'
    BY <2>1, <2>2 DEF ScheduledIffEnabled, FiredInv, TInv, RowsInv
  <2>4. \A i \in Instances : IsGoodLoop(instance[i])' BY <2>1 DEF IsGoodLoop
  <2>5. ASSUME NEW c \in Clients PROVE IsGoodClient(client[c])'
    <3>1. client[c].pc = "editing" => client[c].task \in Tasks BY DEF TInv, ClientsInv, IsClient
    <3> QED BY <2>1, <2>2, <3>1 DEF IsGoodClient, Exists, TInv, RowsInv
  <2> QED BY <2>3, <2>4, <2>5
<1> QED
  <2> HIDE DEF SInv
  <2>1. CASE UNCHANGED vars BY <1>2, <2>1 DEF vars
  <2>2. CASE Next
    BY <1>3, <1>4, <1>5, <1>6, <1>7, <1>8, <1>9, <1>10, <1>11, <1>12, <1>13, <1>14, <2>2 DEF Next, LoopStep
  <2> QED BY <2>1, <2>2

LEMMA ScheduleAlways ==
  ASSUME OneRequest
  PROVE  Spec => [](TInv /\ SInv)
<1>1. Init => TInv /\ SInv BY TypesInitially, ScheduleInitially
<1>2. TInv /\ SInv /\ [Next]_vars => (TInv /\ SInv)' BY TypesKept, ScheduleKept
<1> QED BY <1>1, <1>2, PTL DEF Spec

(* While API requests come one at a time, an enabled task always has a     *)
(* next_run_time and a disabled one never, for any number of tasks and     *)
(* instances, restarts, lost leases and failing transactions included.     *)
THEOREM AlwaysScheduled ==
  ASSUME OneRequest
  PROVE  Spec => []ScheduledIffEnabled
<1>1. TInv /\ SInv => ScheduledIffEnabled BY DEF SInv
<1> QED BY <1>1, ScheduleAlways, PTL

(* And no task is fired twice for a point, nor for one that had passed     *)
(* when it last fired.                                                     *)
THEOREM FiredOnce ==
  ASSUME OneRequest
  PROVE  Spec => NoSecondFiring
<1>1. TInv /\ SInv /\ [Next]_vars =>
        [\A t \in Tasks :
           fired'[t] # fired[t] /\ fired'[t] # NotFired => fired'[t].point > fired[t].at]_vars
  <2> SUFFICES ASSUME TInv, SInv, [Next]_vars, NEW t \in Tasks,
                      fired'[t] # fired[t], fired'[t] # NotFired
               PROVE  fired'[t].point > fired[t].at
    OBVIOUS
  <2>1. CASE \E i \in Instances : Claim(i) BY <2>1, ClaimMoves
  <2>2. CASE ~\E i \in Instances : Claim(i)
    <3>1. fired'[t] \in {fired[t], NotFired}
      BY <2>2 DEF Next, vars, Tick, LeaseLost, Start, GoDown, LoopStep, LoopFailed, Poll, FillRead,
                  FillCommit, Create, Edit, Commit, Delete, TInv, RowsInv
    <3> QED BY <3>1
  <2> QED BY <2>1, <2>2
<1> QED BY <1>1, ScheduleAlways, PTL DEF Spec, NoSecondFiring
=============================================================================
