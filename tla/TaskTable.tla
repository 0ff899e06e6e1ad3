------------------------------ MODULE TaskTable ------------------------------
(***************************************************************************)
(* The schedule in table tasks: the instances that poll it, claim what is  *)
(* due by compare-and-set on next_run_time and repair lost values, and the *)
(* API requests that create, edit, enable, disable and delete tasks        *)
(* meanwhile.  A request reads its row, computes and writes back in one    *)
(* READ COMMITTED transaction without a lock: the read is one step, the    *)
(* commit another, and the commit writes the columns that were changed.    *)
(*                                                                         *)
(* Time is the number of schedule points passed; a cron expression k fires *)
(* at the multiples of k.  next = 0 stands for NULL.  What a claimed task  *)
(* goes on to do is module Scheduler.                                      *)
(***************************************************************************)
EXTENDS Naturals, FiniteSets

CONSTANTS
  Tasks,        \* ids of table tasks
  Instances,    \* processes that may be started on the database
  NoInstance,   \* not one of them
  Clients,      \* concurrent API requests
  Crons,        \* cron expressions, as periods
  Faults,       \* what may go wrong: "database", "lease"
  MaxConcurrentTasks,
  MaxTime,      \* bound: the last point in time
  MaxDowns      \* bound: instances stopped or killed in one behaviour

ASSUME ScheduleOK ==
  /\ IsFiniteSet(Tasks)
  /\ NoInstance \notin Instances
  /\ Crons \subseteq Nat \ {0}
  /\ MaxConcurrentTasks \in Nat \ {0}
  /\ MaxTime \in Nat /\ MaxDowns \in Nat

VARIABLES
  now,          \* utc_now()
  tasks,        \* the rows: enabled, cron_expression and next_run_time
  used,         \* ids given to a row so far: a new row has a new id
  lease,        \* the instance that holds the advisory lock
  instance,     \* the instances and their polling loops
  client,       \* the API requests in progress
  fired,        \* the last claim of a task since a request wrote its next_run_time
  missed,       \* points in time at which no instance was up
  downs         \* instances stopped or killed so far

vars == <<now, tasks, used, lease, instance, client, fired, missed, downs>>

-----------------------------------------------------------------------------
Absent    == [enabled |-> FALSE, cron |-> 0, next |-> 0]
Exists(t) == tasks[t].cron # 0
NotFired  == [point |-> 0, at |-> 0]

Down       == [pc |-> "down", now |-> 0, seen |-> [t \in {} |-> NotFired]]
LoopAt(p)  == [Down EXCEPT !.pc = p]
IsUp(i)    == instance[i].pc # "down"
ClientIdle == [pc |-> "idle", task |-> CHOOSE t \in Tasks : TRUE,
               at |-> NoInstance, loaded |-> Absent, target |-> Absent]

Larger(a, b) == IF a < b THEN b ELSE a
Lesser(a, b) == IF a < b THEN a ELSE b

Init ==
  /\ now = 0
  /\ tasks = [t \in Tasks |-> Absent]
  /\ used = {}
  /\ lease = NoInstance
  /\ instance = [i \in Instances |-> Down]
  /\ client = [c \in Clients |-> ClientIdle]
  /\ fired = [t \in Tasks |-> NotFired]
  /\ missed = {}
  /\ downs = 0

-----------------------------------------------------------------------------
\* Mutant of NextRunTime: the points missed meanwhile are kept.
NextWithBacklog(cron, base, minimum) == cron * (base \div cron + 1)

(* calculate_next_run_time: the first point after base and after minimum.  *)
NextRunTime(cron, base, minimum) == cron * (Larger(base, minimum) \div cron + 1)

Tick ==
  /\ now < MaxTime
  /\ now' = now + 1
  /\ missed' = IF \E i \in Instances : IsUp(i) THEN missed ELSE missed \cup {now + 1}
  /\ UNCHANGED <<tasks, used, lease, instance, client, fired, downs>>

-----------------------------------------------------------------------------
(* Instances.                                                              *)

(* Startup fails unless the advisory lock is free. *)
Start(i) ==
  /\ ~IsUp(i) /\ lease = NoInstance
  /\ lease' = i
  /\ instance' = [instance EXCEPT ![i] = LoopAt("idle")]
  /\ UNCHANGED <<now, tasks, used, client, fired, missed, downs>>

(* Stopped or killed: transactions roll back, requests are gone, the       *)
(* session that holds the lock is closed.                                  *)
GoDown(i) ==
  /\ IsUp(i) /\ downs < MaxDowns
  /\ downs' = downs + 1
  /\ instance' = [instance EXCEPT ![i] = Down]
  /\ lease' = IF lease = i THEN NoInstance ELSE lease
  /\ client' = [c \in Clients |-> IF client[c].at = i THEN ClientIdle ELSE client[c]]
  /\ UNCHANGED <<now, tasks, used, fired, missed>>

(* The pooled connection that took the lock is closed; nobody notices.     *)
LeaseLost ==
  /\ "lease" \in Faults
  /\ lease # NoInstance
  /\ lease' = NoInstance
  /\ UNCHANGED <<now, tasks, used, instance, client, fired, missed, downs>>

-----------------------------------------------------------------------------
(* The polling loop.                                                       *)

Due(t) == tasks[t].enabled /\ tasks[t].next \in 1..now

(* A row read by the loop, and the next_run_time it computes for it.       *)
Found(t, next) == [point |-> tasks[t].next, next |-> next]

(* get_due_tasks: the oldest of the due tasks that are not running here.   *)
Poll(i, running) ==
  /\ instance[i].pc = "idle"
  /\ Cardinality(running) < MaxConcurrentTasks
  /\ LET due == {t \in Tasks \ running : Due(t)}
         n   == Lesser(MaxConcurrentTasks - Cardinality(running), Cardinality(due))
     IN  \E oldest \in SUBSET due :
           /\ Cardinality(oldest) = n
           /\ \A t \in oldest, u \in due \ oldest : tasks[t].next <= tasks[u].next
           /\ instance' = [instance EXCEPT ![i] =
                [pc |-> "claiming", now |-> now,
                 seen |-> [t \in oldest |-> Found(t, NextRunTime(tasks[t].cron, tasks[t].next, now))]]]
  /\ UNCHANGED <<now, tasks, used, lease, client, fired, missed, downs>>

\* Mutant of Unmoved: claimed by id alone.
MovedOrNot(i, t) == Exists(t)

(* claim_due_task: nobody disabled the task or moved next_run_time.        *)
Unmoved(i, t) == tasks[t].enabled /\ tasks[t].next = instance[i].seen[t].point

Claims(i, won) ==
  /\ tasks' = [t \in Tasks |->
                 IF t \in won
                 THEN [tasks[t] EXCEPT !.next = instance[i].seen[t].next]
                 ELSE tasks[t]]
  /\ fired' = [t \in Tasks |->
                 IF t \in won THEN [point |-> instance[i].seen[t].point, at |-> instance[i].now]
                 ELSE fired[t]]
  /\ instance' = [instance EXCEPT ![i] = LoopAt("claimed")]
  /\ UNCHANGED <<now, used, lease, client, missed, downs>>

\* Mutant of Claim: the loop tries until it wins something.
ClaimUntilWon(i) ==
  /\ instance[i].pc = "claiming"
  /\ LET won == {t \in DOMAIN instance[i].seen : Unmoved(i, t)}
     IN  won # {} /\ Claims(i, won)

(* The claim transaction commits what it won.                              *)
Claim(i) ==
  /\ instance[i].pc = "claiming"
  /\ Claims(i, {t \in DOMAIN instance[i].seen : Unmoved(i, t)})

(* fill_missing_next_run_time: read the enabled tasks without a next run,  *)
(* then write one, whatever became of the row; if it is gone, all fails.   *)
FillRead(i) ==
  /\ instance[i].pc = "claimed"
  /\ LET lost == {t \in Tasks : tasks[t].enabled /\ tasks[t].next = 0}
     IN  instance' = [instance EXCEPT ![i] =
           [pc |-> "filling", now |-> now,
            seen |-> [t \in lost |-> Found(t, NextRunTime(tasks[t].cron, now, 0))]]]
  /\ UNCHANGED <<now, tasks, used, lease, client, fired, missed, downs>>

FillCommit(i) ==
  /\ instance[i].pc = "filling"
  /\ LET found == IF \A t \in DOMAIN instance[i].seen : Exists(t)
                  THEN DOMAIN instance[i].seen ELSE {}
     IN  tasks' = [t \in Tasks |-> IF t \in found
                                   THEN [tasks[t] EXCEPT !.next = instance[i].seen[t].next]
                                   ELSE tasks[t]]
  /\ instance' = [instance EXCEPT ![i] = LoopAt("idle")]
  /\ UNCHANGED <<now, used, lease, client, fired, missed, downs>>

(* A transaction of the loop fails; the loop backs off and polls again.    *)
LoopFailed(i) ==
  /\ "database" \in Faults
  /\ instance[i].pc \in {"claiming", "claimed", "filling"}
  /\ instance' = [instance EXCEPT ![i] = LoopAt("idle")]
  /\ UNCHANGED <<now, tasks, used, lease, client, fired, missed, downs>>

-----------------------------------------------------------------------------
(* API requests.                                                           *)

(* TaskService.create, one transaction. *)
Create(t, cron, enabled) ==
  /\ \E i \in Instances : IsUp(i)
  /\ t \notin used
  /\ used' = used \cup {t}
  /\ tasks' = [tasks EXCEPT ![t] =
       [enabled |-> enabled, cron |-> cron,
        next |-> IF enabled THEN NextRunTime(cron, now, 0) ELSE 0]]
  /\ fired' = [fired EXCEPT ![t] = NotFired]
  /\ UNCHANGED <<now, lease, instance, client, missed, downs>>

\* Mutant of Edited: disabling leaves next_run_time alone.
EditedKeepingNext(r, switch, cron) ==
  LET expression == IF cron = 0 THEN r.cron ELSE cron
  IN  [enabled |-> IF switch = "keep" THEN r.enabled ELSE switch = "on",
       cron |-> expression,
       next |-> IF switch = "on" \/ (cron # 0 /\ r.enabled)
                THEN NextRunTime(expression, now, 0) ELSE r.next]

(* The row r after a PATCH of enabled ("on", "off" or not given) and       *)
(* cron_expression (0: not given); enable and disable are PATCHes of       *)
(* enabled alone, a rename or _touch_last_run is one of neither.           *)
Edited(r, switch, cron) ==
  LET expression == IF cron = 0 THEN r.cron ELSE cron
  IN  [enabled |-> IF switch = "keep" THEN r.enabled ELSE switch = "on",
       cron |-> expression,
       next |-> IF switch = "off" THEN 0
                ELSE IF switch = "on" \/ (cron # 0 /\ r.enabled)
                     THEN NextRunTime(expression, now, 0) ELSE r.next]

(* TaskService.update and set_enabled, and the finalizer: read, compute.   *)
Edit(c, t, switch, cron) ==
  /\ client[c].pc = "idle"
  /\ Exists(t)
  /\ \E i \in Instances :
       /\ IsUp(i)
       /\ client' = [client EXCEPT ![c] =
            [pc |-> "editing", task |-> t, at |-> i,
             loaded |-> tasks[t], target |-> Edited(tasks[t], switch, cron)]]
  /\ UNCHANGED <<now, tasks, used, lease, instance, fired, missed, downs>>

\* Mutant of Written: the whole row is written back.
WrittenWhole(current, loaded, target) == target

(* The columns whose value differs from the one that was read.             *)
Written(current, loaded, target) ==
  [f \in DOMAIN current |-> IF target[f] # loaded[f] THEN target[f] ELSE current[f]]

\* Mutant of Commit: the row is written even if it was deleted meanwhile.
CommitRegardless(c) ==
  /\ client[c].pc = "editing"
  /\ LET r == client[c]
     IN  /\ tasks' = [tasks EXCEPT ![r.task] = Written(@, r.loaded, r.target)]
         /\ fired' = [fired EXCEPT ![r.task] = NotFired]
  /\ client' = [client EXCEPT ![c] = ClientIdle]
  /\ UNCHANGED <<now, used, lease, instance, missed, downs>>

(* Repository.update and the commit; a row that is gone fails the request. *)
Commit(c) ==
  /\ client[c].pc = "editing"
  /\ LET t == client[c].task
         r == client[c]
     IN  /\ tasks' = IF Exists(t)
                     THEN [tasks EXCEPT ![t] = Written(@, r.loaded, r.target)]
                     ELSE tasks
         /\ fired' = IF r.target.next # r.loaded.next
                     THEN [fired EXCEPT ![t] = NotFired] ELSE fired
  /\ client' = [client EXCEPT ![c] = ClientIdle]
  /\ UNCHANGED <<now, used, lease, instance, missed, downs>>

(* TaskService.delete, its last transaction. *)
Delete(t) ==
  /\ \E i \in Instances : IsUp(i)
  /\ Exists(t)
  /\ tasks' = [tasks EXCEPT ![t] = Absent]
  /\ fired' = [fired EXCEPT ![t] = NotFired]
  /\ UNCHANGED <<now, used, lease, instance, client, missed, downs>>

-----------------------------------------------------------------------------
Switches == {"keep", "on", "off"}

LoopStep(i) == Claim(i) \/ FillRead(i) \/ FillCommit(i)

Next ==
  \/ Tick \/ LeaseLost
  \/ \E i \in Instances : Start(i) \/ GoDown(i) \/ LoopStep(i) \/ LoopFailed(i)
  \/ \E i \in Instances, running \in SUBSET Tasks : Poll(i, running)
  \/ \E t \in Tasks, cron \in Crons, enabled \in BOOLEAN : Create(t, cron, enabled)
  \/ \E c \in Clients, t \in Tasks, switch \in Switches, cron \in Crons \cup {0} :
       Edit(c, t, switch, cron)
  \/ \E c \in Clients : Commit(c)
  \/ \E t \in Tasks : Delete(t)

Spec == Init /\ [][Next]_vars

(* The loop keeps polling and its transactions end, though any one of them *)
(* may fail; an instance that is down is started again; and a task does    *)
(* not run at every poll (module Scheduler: every run ends).               *)
PollWithout(i, t) == \E running \in SUBSET (Tasks \ {t}) : Poll(i, running)
ClaimOf(i, t)     == t \in DOMAIN instance[i].seen /\ Claim(i)
Fairness ==
  /\ WF_vars(\E i \in Instances : Start(i))
  /\ \A i \in Instances :
       /\ WF_vars(LoopStep(i))
       /\ \A t \in Tasks : SF_vars(PollWithout(i, t)) /\ SF_vars(ClaimOf(i, t))

FairSpec == Spec /\ Fairness

-----------------------------------------------------------------------------
(* Type invariant. *)
TypeOK ==
  /\ now \in 0..MaxTime /\ downs \in 0..MaxDowns
  /\ missed \in SUBSET (1..MaxTime)
  /\ lease \in Instances \cup {NoInstance}
  /\ \A t \in Tasks : /\ tasks[t].enabled \in BOOLEAN
                      /\ tasks[t].cron \in Crons \cup {0}
                      /\ tasks[t].next \in Nat
                      /\ Exists(t) \/ tasks[t].next # 0 => Exists(t) /\ t \in used
  /\ \A i \in Instances :
       /\ instance[i].pc \in {"down", "idle", "claiming", "claimed", "filling"}
       /\ instance[i].now \in 0..now
       /\ DOMAIN instance[i].seen \subseteq Tasks
  /\ \A c \in Clients : client[c].pc \in {"idle", "editing"}

(* A task is never fired for the same point again, nor for a point that    *)
(* had passed when it last fired, by whichever instance, unless a request  *)
(* moved next_run_time in between (policy.py:25, calculator.py:23).        *)
NoSecondFiring ==
  [][\A t \in Tasks :
       fired'[t] # fired[t] /\ fired'[t] # NotFired => fired'[t].point > fired[t].at]_vars

(* While API requests come one at a time, an enabled task always has a     *)
(* next_run_time and a disabled one never, however claims and repairs      *)
(* interleave with the requests (task.py:66, repositories/task.py:37).     *)
ScheduledIffEnabled == \A t \in Tasks : tasks[t].enabled <=> tasks[t].next # 0

(* A task that is due does not stay due: it is fired, edited or deleted.   *)
DuePointsFire == \A t \in Tasks : Due(t) ~> ~Due(t)

(* A point missed while no instance was up is not made up for (README,     *)
(* "停机错过的触发点直接跳过，不补跑").                                      *)
MissedPointsSkipped ==
  \A t \in Tasks : ~(fired[t].point \in missed /\ fired[t].at > fired[t].point)
=============================================================================
