------------------------------ MODULE Scheduler ------------------------------
(***************************************************************************)
(* The scheduling core of Qiankun: the polling loop, the registry of       *)
(* running tasks, the concurrency semaphore, the run of one task with its  *)
(* retries, and the API calls that trigger, cancel and delete while all of *)
(* that is in progress.  Everything runs on one asyncio event loop, so one *)
(* action is the code between two awaits; a database transaction is the    *)
(* one step at which it commits.                                           *)
(*                                                                         *)
(* A run is one asyncio task executing _run_with_concurrency; runs are     *)
(* numbered in the order they are spawned, which is also the order in      *)
(* which asyncio.Semaphore admits them.  The execution row of attempt k of *)
(* run r is <<r, k>>.  RUNNING is flushed but never committed on its own,  *)
(* so the committed status of a row goes from pending to a terminal one.   *)
(***************************************************************************)
EXTENDS Naturals, Sequences, FiniteSets

CONSTANTS
  Tasks,        \* ids of the rows of table tasks
  NoTask,       \* not one of them
  Clients,      \* concurrent API requests
  Ops,          \* the API operations these requests may call
  Faults,       \* what may go wrong: "crash", "stop", "database"
  MaxConcurrentTasks,   \* settings.max_concurrent_tasks
  MaxRetries,   \* task.max_retries
  MaxRuns       \* bound: runs spawned in one behaviour

ASSUME ConstantsOK ==
  /\ IsFiniteSet(Tasks)
  /\ NoTask \notin Tasks
  /\ MaxConcurrentTasks \in Nat \ {0}
  /\ MaxRetries \in Nat
  /\ MaxRuns \in Nat

VARIABLES
  up,           \* the process: "up", "stopping" or "down"
  tasks,        \* rows of table tasks
  due,          \* enabled tasks whose next_run_time has arrived
  row,          \* committed status of every execution row
  told,         \* status named by the terminal event of a row
  registry,     \* _running_tasks: the run registered for a task, 0 for none
  spawned,      \* number of runs spawned so far
  run,          \* the asyncio task, coroutine locals and RunningTaskState of a run
  poll,         \* the polling loop
  client        \* the API requests in progress

database == <<tasks, due, row>>
vars     == <<up, database, told, registry, spawned, run, poll, client>>

-----------------------------------------------------------------------------
Runs     == 1..MaxRuns
Attempts == 0..MaxRetries
Rows     == Runs \X Attempts
Terminal == {"completed", "failed", "cancelled", "timeout"}
Status   == {"absent", "pending", "deleted"} \cup Terminal

(* Await points of a run, in the order it passes them. *)
InCreate  == {"creating", "created"}                        \* create_execution
InTry     == {"loading", "running", "committed", "notifying", "refused",
              "refuseNotifying", "retrying", "sleeping"}    \* run_existing
InHandler == {"aborting", "aborted", "abortNotifying"}      \* cancel_execution
\* Mutant of Holding: the semaphore is not released when a run ends.
HoldingForever == InCreate \cup InTry \cup InHandler \cup {"done", "gone"}
Holding   == InCreate \cup InTry \cup InHandler   \* inside async with semaphore
Live      == {"waiting"} \cup InCreate \cup InTry \cup InHandler  \* asyncio_task not done()
Ended     == {"done", "gone"}                     \* before and after _finished

(* Task.cancel() was not called (cancelling() = 0), was called and the     *)
(* CancelledError is on its way, or has been thrown into the coroutine.    *)
Cancels == {"no", "requested", "delivered"}

Unborn == [task |-> NoTask, pc |-> "unborn",
           attempt |-> 0, verdict |-> "none",      \* locals of run_existing
           cancel |-> "no",                        \* Task.cancel(): see Cancels
           exit |-> "none",                        \* how the asyncio task ended
           executionId |-> 0]                      \* owner of the recorded row

ClientIdle == [pc |-> "idle", task |-> NoTask, run |-> 0, att |-> 0]
PollIdle   == [pc |-> "idle", excluded |-> {}, slots |-> 0, claimed |-> <<>>]

IsLive(r)     == run[r].pc \in Live
Current(r)    == <<r, run[r].attempt>>
First(r)      == <<r, 0>>
Registered    == {t \in Tasks : registry[t] # 0}
MinOf(a, b)   == IF a < b THEN a ELSE b

Init ==
  /\ up = "down" /\ tasks = Tasks /\ due = {}
  /\ row = [e \in Rows |-> "absent"] /\ told = [e \in Rows |-> "none"]
  /\ registry = [t \in Tasks |-> 0] /\ spawned = 0
  /\ run = [r \in Runs |-> Unborn]
  /\ poll = PollIdle
  /\ client = [c \in Clients |-> ClientIdle]

-----------------------------------------------------------------------------
(* The process: orphan recovery at start, graceful stop, crash; and time.  *)

\* Mutant of Start: orphan recovery forgotten.
StartWithoutRecovery ==
  /\ up = "down"
  /\ up' = "up"
  /\ UNCHANGED <<database, told, registry, spawned, run, poll, client>>

Start ==
  /\ up = "down"
  /\ up' = "up"
  /\ row' = [e \in Rows |-> IF row[e] = "pending" THEN "cancelled" ELSE row[e]]
  /\ UNCHANGED <<tasks, due, told, registry, spawned, run, poll, client>>

(* A schedule point of an enabled task arrives. *)
Tick(t) ==
  /\ t \in tasks \ due
  /\ due' = due \cup {t}
  /\ UNCHANGED <<up, tasks, row, told, registry, spawned, run, poll, client>>

(* The coroutine ends and its locals go with it. *)
EndedAs(r, p, how) ==
  [run[r] EXCEPT !.pc = p, !.exit = how, !.attempt = 0, !.verdict = "none",
                 !.cancel = "no"]

(* The process is gone: every asyncio task, registration and request with  *)
(* it; the database keeps what was committed.                              *)
Vanish ==
  /\ up' = "down"
  /\ run' = [r \in Runs |-> IF run[r].pc = "unborn" THEN Unborn
                            ELSE [EndedAs(r, "gone", IF IsLive(r) THEN "killed" ELSE run[r].exit)
                                    EXCEPT !.executionId = 0]]
  /\ registry' = [t \in Tasks |-> 0]
  /\ poll' = PollIdle
  /\ client' = [c \in Clients |-> ClientIdle]
  /\ UNCHANGED <<database, told, spawned>>

Crash == "crash" \in Faults /\ up # "down" /\ Vanish

(* Shutdown begins when the server has drained its requests: the loop is   *)
(* cancelled, then every registered run, cancelling already or not.        *)
Stop ==
  /\ "stop" \in Faults
  /\ up = "up"
  /\ \A c \in Clients : client[c].pc = "idle"
  /\ up' = "stopping"
  /\ poll' = PollIdle
  /\ run' = [r \in Runs |->
               IF IsLive(r) /\ \E t \in Tasks : registry[t] = r
               THEN [run[r] EXCEPT !.cancel = "requested"]
               ELSE run[r]]
  /\ UNCHANGED <<database, told, registry, spawned, client>>

(* stop() has awaited every registered run; what is left dies with the loop *)
Stopped ==
  /\ up = "stopping"
  /\ \A t \in Registered : run[registry[t]].pc \in Ended
  /\ Vanish

-----------------------------------------------------------------------------
(* Spawning: create the asyncio task and write the registration, without   *)
(* looking at the one that may be there.                                   *)

CanSpawn(n) == spawned + n <= MaxRuns

Spawn(q) ==
  /\ spawned' = spawned + Len(q)
  /\ run' = [r \in Runs |-> IF r - spawned \in DOMAIN q
                            THEN [Unborn EXCEPT !.task = q[r - spawned], !.pc = "waiting"]
                            ELSE run[r]]
  /\ registry' = [t \in Tasks |->
                    IF \E i \in DOMAIN q : q[i] = t
                    THEN spawned + (CHOOSE i \in DOMAIN q : q[i] = t)
                    ELSE registry[t]]

\* Mutants of PollSnapshot: nothing excluded; slots of a registry taken as empty.
PollSnapshotKeepsRunning ==
  /\ up = "up" /\ poll.pc = "idle"
  /\ Cardinality(Registered) < MaxConcurrentTasks
  /\ poll' = [pc |-> "claiming", excluded |-> {}, claimed |-> <<>>,
              slots |-> MaxConcurrentTasks - Cardinality(Registered)]
  /\ UNCHANGED <<up, database, told, registry, spawned, run, client>>

PollSnapshotAllSlots ==
  /\ up = "up" /\ poll.pc = "idle"
  /\ poll' = [pc |-> "claiming", excluded |-> Registered, claimed |-> <<>>,
              slots |-> MaxConcurrentTasks]
  /\ UNCHANGED <<up, database, told, registry, spawned, run, client>>

(* The registry and the free slots are read before the database is asked.  *)
PollSnapshot ==
  /\ up = "up" /\ poll.pc = "idle"
  /\ Cardinality(Registered) < MaxConcurrentTasks
  /\ poll' = [pc |-> "claiming", excluded |-> Registered, claimed |-> <<>>,
              slots |-> MaxConcurrentTasks - Cardinality(Registered)]
  /\ UNCHANGED <<up, database, told, registry, spawned, run, client>>

(* Sequences of n different elements of S. *)
Orders(S, n) == {q \in [1..n -> S] : \A i, j \in 1..n : q[i] = q[j] => i = j}

(* One transaction advances next_run_time of every task it claims.         *)
PollClaim ==
  /\ poll.pc = "claiming"
  /\ LET eligible == due \ poll.excluded
         n == MinOf(MinOf(poll.slots, Cardinality(eligible)), MaxRuns - spawned)
     IN  \E q \in Orders(eligible, n) :
           /\ due' = due \ {q[i] : i \in 1..n}
           /\ poll' = IF n = 0 THEN PollIdle
                      ELSE [poll EXCEPT !.pc = "claimed", !.claimed = q]
  /\ UNCHANGED <<up, tasks, row, told, registry, spawned, run, client>>

(* The claim transaction fails and the loop backs off. *)
PollError ==
  /\ "database" \in Faults
  /\ poll.pc = "claiming"
  /\ poll' = PollIdle
  /\ UNCHANGED <<up, database, told, registry, spawned, run, client>>

PollSpawn ==
  /\ poll.pc = "claimed"
  /\ Spawn(poll.claimed)
  /\ poll' = PollIdle
  /\ UNCHANGED <<up, database, told, client>>

-----------------------------------------------------------------------------
(* The run of one task.                                                    *)

Proceeds(r, p) == run[r].pc = p /\ run[r].cancel # "requested"
Goto(r, p)     == run' = [run EXCEPT ![r].pc = p]
Leave(r, how)  == run' = [run EXCEPT ![r] = EndedAs(r, "done", how)]

(* A step of run r touches nothing of the process, the loop, the requests. *)
Elsewhere == UNCHANGED <<up, tasks, due, spawned, poll, client>>

(* async with self._concurrency: first come, first served.                 *)
Acquire(r) ==
  /\ Proceeds(r, "waiting")
  /\ \A q \in Runs : q < r => ~Proceeds(q, "waiting")
  /\ Cardinality({q \in Runs : run[q].pc \in Holding}) < MaxConcurrentTasks
  /\ Goto(r, "creating")
  /\ Elsewhere /\ UNCHANGED <<row, told, registry>>

CreateExecution(r) ==
  /\ Proceeds(r, "creating")
  /\ IF run[r].task \in tasks
     THEN row' = [row EXCEPT ![First(r)] = "pending"] /\ Goto(r, "created")
     ELSE Leave(r, "error") /\ UNCHANGED row          \* the task vanished
  /\ Elsewhere /\ UNCHANGED <<told, registry>>

\* Mutant of PublishId: the id is not handed to the registration.
PublishIdNowhere(r) ==
  /\ Proceeds(r, "created")
  /\ Goto(r, "loading")
  /\ Elsewhere /\ UNCHANGED <<row, told, registry>>

(* The registration found under the task's id gets the execution id, even  *)
(* if it belongs to another run by now.                                    *)
PublishId(r) ==
  /\ Proceeds(r, "created")
  /\ LET owner == registry[run[r].task]
     IN  run' = [q \in Runs |->
                   [run[q] EXCEPT !.executionId = IF q = owner THEN r ELSE @,
                                  !.pc = IF q = r THEN "loading" ELSE @]]
  /\ Elsewhere /\ UNCHANGED <<row, told, registry>>

\* Mutants of LoadPair: an unknown provider just returns; the task is not looked up.
LoadPairDropsUnknownProvider(r) ==
  /\ Proceeds(r, "loading")
  /\ IF run[r].task \notin tasks \/ row[Current(r)] = "deleted"
     THEN Leave(r, "returned")
     ELSE Goto(r, "running") \/ Leave(r, "returned")
  /\ Elsewhere /\ UNCHANGED <<row, told, registry>>

LoadPairWithoutTask(r) ==
  /\ Proceeds(r, "loading")
  /\ Goto(r, "running")
  /\ Elsewhere /\ UNCHANGED <<row, told, registry>>

(* Head of the attempt loop: the task or the row is gone, the provider is  *)
(* not registered, or the attempt starts (RUNNING is flushed, uncommitted).*)
LoadPair(r) ==
  /\ Proceeds(r, "loading")
  /\ IF run[r].task \notin tasks \/ row[Current(r)] = "deleted"
     THEN Leave(r, "returned") /\ UNCHANGED row
     ELSE \/ Goto(r, "running") /\ UNCHANGED row
          \/ /\ row' = [row EXCEPT ![Current(r)] = "failed"]  \* _fail_missing_provider
             /\ run' = [run EXCEPT ![r].verdict = "failed", ![r].pc = "refused"]
  /\ Elsewhere /\ UNCHANGED <<told, registry>>

\* Mutant of CommitAttempt: a timed-out attempt is not written.
CommitAttemptLosesTimeout(r) ==
  /\ Proceeds(r, "running")
  /\ \E s \in {"completed", "failed", "timeout"} :
       /\ row' = [row EXCEPT ![Current(r)] = IF s = "timeout" THEN @ ELSE s]
       /\ run' = [run EXCEPT ![r].verdict = s, ![r].pc = "committed"]
  /\ Elsewhere /\ UNCHANGED <<told, registry>>

(* The provider returned, raised or timed out; _finalize wrote the fields  *)
(* and the unit of work committed.                                         *)
CommitAttempt(r) ==
  /\ Proceeds(r, "running")
  /\ \E s \in {"completed", "failed", "timeout"} :
       /\ row' = [row EXCEPT ![Current(r)] = s]
       /\ run' = [run EXCEPT ![r].verdict = s, ![r].pc = "committed"]
  /\ Elsewhere /\ UNCHANGED <<told, registry>>

(* EventBus.emit: the stream handler runs at once, the finalizer awaits.   *)
EmitFor(r, from, to, e) ==
  /\ Proceeds(r, from)
  /\ told' = [told EXCEPT ![e] = run[r].verdict]
  /\ Goto(r, to)
  /\ Elsewhere /\ UNCHANGED <<row, registry>>

Emit(r) ==
  \/ EmitFor(r, "committed", "notifying", Current(r))
  \/ EmitFor(r, "refused", "refuseNotifying", Current(r))
  \/ EmitFor(r, "aborted", "abortNotifying", First(r))

\* Mutant of RetriesExhausted: one retry too many.
RetriesOverrun(r)   == run[r].attempt > MaxRetries
RetriesExhausted(r) == run[r].attempt >= MaxRetries

(* The handlers are done: return, or go for a retry.                       *)
Decide(r) ==
  /\ Proceeds(r, "notifying")
  /\ IF run[r].verdict = "completed" \/ RetriesExhausted(r)
     THEN Leave(r, "returned")
     ELSE run' = [run EXCEPT ![r].verdict = "none", ![r].pc = "retrying"]
  /\ Elsewhere /\ UNCHANGED <<row, told, registry>>

RefuseDone(r) ==
  /\ Proceeds(r, "refuseNotifying")
  /\ Leave(r, "returned")
  /\ Elsewhere /\ UNCHANGED <<row, told, registry>>

(* The PENDING row of the retry is committed first, the pause comes after. *)
CreateRetry(r) ==
  /\ Proceeds(r, "retrying")
  /\ IF run[r].task \in tasks
     THEN /\ row' = [row EXCEPT ![<<r, run[r].attempt + 1>>] = "pending"]
          /\ run' = [run EXCEPT ![r].attempt = @ + 1, ![r].pc = "sleeping"]
     ELSE Leave(r, "error") /\ UNCHANGED row          \* the task vanished
  /\ Elsewhere /\ UNCHANGED <<told, registry>>

RetryPause(r) ==
  /\ Proceeds(r, "sleeping")
  /\ Goto(r, "loading")
  /\ Elsewhere /\ UNCHANGED <<row, told, registry>>

\* Mutant of Interrupted: CancelledError leaves the run without the handler.
InterruptedUnhandled(r) ==
  /\ IsLive(r) /\ run[r].cancel = "requested"
  /\ Leave(r, "cancelled")
  /\ Elsewhere /\ UNCHANGED <<row, told, registry>>

(* CancelledError surfaces at the await.  Before the try block it ends the *)
(* run; inside, an open attempt transaction rolls back and the handler     *)
(* runs; in the handler (a second cancel, by stop) it ends the run.        *)
Interrupted(r) ==
  /\ IsLive(r) /\ run[r].cancel = "requested"
  /\ IF run[r].pc \in InTry
     THEN run' = [run EXCEPT ![r].cancel = "delivered", ![r].verdict = "none",
                             ![r].pc = "aborting"]
     ELSE Leave(r, "cancelled")
  /\ Elsewhere /\ UNCHANGED <<row, told, registry>>

\* Mutant of AlreadySettled: the terminal check of cancel_execution dropped.
AlreadyDeleted(e) == row[e] = "deleted"
AlreadySettled(e) == row[e] \in Terminal \cup {"deleted"}

(* cancel_execution, on the id of the run's first row.                     *)
CancelExecution(r) ==
  /\ Proceeds(r, "aborting")
  /\ IF AlreadySettled(First(r))
     THEN Leave(r, "cancelled") /\ UNCHANGED row
     ELSE /\ row' = [row EXCEPT ![First(r)] = "cancelled"]
          /\ run' = [run EXCEPT ![r].verdict = "cancelled", ![r].pc = "aborted"]
  /\ Elsewhere /\ UNCHANGED <<told, registry>>

AbortDone(r) ==
  /\ Proceeds(r, "abortNotifying")
  /\ Leave(r, "cancelled")
  /\ Elsewhere /\ UNCHANGED <<row, told, registry>>

(* A transaction fails (connection lost, pool exhausted): it rolls back    *)
(* and the exception leaves the run; only CancelledError is handled.       *)
DatabaseError(r) ==
  /\ "database" \in Faults
  /\ \E p \in {"creating", "loading", "running", "retrying", "aborting"} : Proceeds(r, p)
  /\ Leave(r, "error")
  /\ Elsewhere /\ UNCHANGED <<row, told, registry>>

(* _finished: the done callback drops the registration if it is still ours *)
Finished(r) ==
  /\ run[r].pc = "done"
  /\ Goto(r, "gone")
  /\ registry' = [t \in Tasks |-> IF registry[t] = r THEN 0 ELSE registry[t]]
  /\ Elsewhere /\ UNCHANGED <<row, told>>

-----------------------------------------------------------------------------
(* API requests.                                                           *)

Serves(op)  == up = "up" /\ op \in Ops
Idle(c, op) == Serves(op) /\ client[c].pc = "idle"

(* Cancel unless a cancel is already under way. *)
CancelRun(r) ==
  run' = [run EXCEPT ![r].cancel = IF @ = "no" THEN "requested" ELSE @]

(* execute_task_now: the task is read, then, without another await, the    *)
(* registry is checked and the run spawned; the request waits for its id.  *)
Trigger(c, t) ==
  /\ Idle(c, "trigger")
  /\ t \in tasks
  /\ client' = [client EXCEPT ![c] = [ClientIdle EXCEPT !.pc = "triggering", !.task = t]]
  /\ UNCHANGED <<up, database, told, registry, spawned, run, poll>>

ExecuteTaskNow(c) ==
  /\ client[c].pc = "triggering"
  /\ IF client[c].task \in Registered \/ Cardinality(Registered) >= MaxConcurrentTasks
     THEN /\ client' = [client EXCEPT ![c] = ClientIdle]        \* Conflict
          /\ UNCHANGED <<registry, spawned, run>>
     ELSE /\ CanSpawn(1 + Len(poll.claimed))
          /\ Spawn(<<client[c].task>>)
          /\ client' = [client EXCEPT ![c].pc = "awaiting", ![c].run = spawned + 1]
  /\ UNCHANGED <<up, database, told, poll>>

Answered(c) ==
  /\ client[c].pc = "awaiting"
  /\ run[client[c].run].executionId # 0
  /\ client' = [client EXCEPT ![c] = ClientIdle]
  /\ UNCHANGED <<up, database, told, registry, spawned, run, poll>>

(* TaskService.cancel; the response waits for the run, nothing else does.  *)
CancelTask(t) ==
  /\ Serves("cancel")
  /\ t \in tasks \cap Registered /\ IsLive(registry[t])
  /\ CancelRun(registry[t])
  /\ UNCHANGED <<up, database, told, registry, spawned, poll, client>>

(* ExecutionService.cancel: the row is read, then cancel_by_execution.     *)
ReadExecution(c, e) ==
  /\ Idle(c, "cancelExecution")
  /\ row[e] = "pending"
  /\ client' = [client EXCEPT ![c] = [pc |-> "cancelling", task |-> run[e[1]].task,
                                      run |-> e[1], att |-> e[2]]]
  /\ UNCHANGED <<up, database, told, registry, spawned, run, poll>>

CancelByExecution(c) ==
  /\ client[c].pc = "cancelling"
  /\ LET r == registry[client[c].task]
     IN  IF r # 0 /\ IsLive(r) /\ <<run[r].executionId, 0>> = <<client[c].run, client[c].att>>
         THEN CancelRun(r)
         ELSE UNCHANGED run                                     \* Conflict
  /\ client' = [client EXCEPT ![c] = ClientIdle]
  /\ UNCHANGED <<up, database, told, registry, spawned, poll>>

\* Mutant of DeleteExecution: active rows may be deleted too.
DeleteAnyExecution(e) ==
  /\ Serves("deleteExecution")
  /\ row[e] # "absent"
  /\ row' = [row EXCEPT ![e] = "deleted"]
  /\ UNCHANGED <<up, tasks, due, told, registry, spawned, run, poll, client>>

(* ExecutionService.delete: only terminal rows.                            *)
DeleteExecution(e) ==
  /\ Serves("deleteExecution")
  /\ row[e] \in Terminal
  /\ row' = [row EXCEPT ![e] = "deleted"]
  /\ UNCHANGED <<up, tasks, due, told, registry, spawned, run, poll, client>>

(* TaskService.delete: cancel and await the registered run, then delete    *)
(* the task; its executions cascade.                                       *)
DeleteTask(c, t) ==
  /\ Idle(c, "deleteTask")
  /\ t \in tasks
  /\ LET r == IF t \in Registered /\ IsLive(registry[t]) THEN registry[t] ELSE 0
     IN  /\ client' = [client EXCEPT ![c] = [pc |-> "deleting", task |-> t,
                                             run |-> r, att |-> 0]]
         /\ IF r # 0 THEN CancelRun(r) ELSE UNCHANGED run
  /\ UNCHANGED <<up, database, told, registry, spawned, poll>>

(* An attempt in progress holds the lock of its row (RUNNING is flushed),  *)
(* so the cascade waits for it.                                            *)
DeleteTaskCommit(c) ==
  /\ client[c].pc = "deleting"
  /\ LET t == client[c].task  r == client[c].run
     IN  /\ r # 0 => run[r].pc \in Ended /\ run[r].exit # "error"
         /\ \A q \in Runs : ~(run[q].task = t /\ run[q].pc = "running")
         /\ tasks' = tasks \ {t}
         /\ due' = due \ {t}
         /\ row' = [e \in Rows |-> IF run[e[1]].task = t /\ row[e] # "absent"
                                   THEN "deleted" ELSE row[e]]
  /\ client' = [client EXCEPT ![c] = ClientIdle]
  /\ UNCHANGED <<up, told, registry, spawned, run, poll>>

(* The awaited run raised: the exception passes through cancel_task.       *)
DeleteTaskFailed(c) ==
  /\ client[c].pc = "deleting"
  /\ client[c].run # 0 /\ run[client[c].run].exit = "error"
  /\ client' = [client EXCEPT ![c] = ClientIdle]
  /\ UNCHANGED <<up, database, told, registry, spawned, run, poll>>

-----------------------------------------------------------------------------
RunStep(r) ==
  \/ Acquire(r) \/ CreateExecution(r) \/ PublishId(r) \/ LoadPair(r)
  \/ CommitAttempt(r) \/ Emit(r) \/ Decide(r) \/ RefuseDone(r)
  \/ CreateRetry(r) \/ RetryPause(r) \/ Interrupted(r)
  \/ CancelExecution(r) \/ AbortDone(r) \/ Finished(r)

ClientStep(c) ==
  \/ \E t \in Tasks : Trigger(c, t) \/ DeleteTask(c, t)
  \/ \E e \in Rows : ReadExecution(c, e)
  \/ ExecuteTaskNow(c) \/ Answered(c) \/ CancelByExecution(c)
  \/ DeleteTaskCommit(c) \/ DeleteTaskFailed(c)

Next ==
  \/ Start \/ Stop \/ Stopped \/ Crash
  \/ \E t \in Tasks : Tick(t) \/ CancelTask(t)
  \/ \E e \in Rows : DeleteExecution(e)
  \/ PollSnapshot \/ PollClaim \/ PollError \/ PollSpawn
  \/ \E r \in Runs : RunStep(r) \/ DatabaseError(r)
  \/ \E c \in Clients : ClientStep(c)

Spec == Init /\ [][Next]_vars

(* The event loop resumes every runnable coroutine, the database answers,  *)
(* and asyncio.timeout bounds provider.run, so a run keeps moving; a       *)
(* request whose condition holds is resumed too.                           *)
Fairness ==
  /\ \A r \in Runs : WF_vars(RunStep(r))
  /\ \A c \in Clients : WF_vars(Answered(c))

FairSpec == Spec /\ Fairness

-----------------------------------------------------------------------------
(* Type invariant: every variable ranges over what the code can store.     *)
RunState == [task : Tasks \cup {NoTask}, pc : {"unborn"} \cup Live \cup Ended,
             attempt : Attempts, verdict : {"none"} \cup Terminal,
             cancel : Cancels,
             exit : {"none", "returned", "cancelled", "error", "killed"},
             executionId : {0} \cup Runs]
Request  == [pc : {"idle", "triggering", "awaiting", "cancelling", "deleting"},
             task : Tasks \cup {NoTask}, run : {0} \cup Runs, att : Attempts]
PollState == [pc : {"idle", "claiming", "claimed"}, excluded : SUBSET Tasks,
              slots : 0..MaxConcurrentTasks, claimed : Seq(Tasks)]

TypeOK ==
  /\ up \in {"up", "stopping", "down"}
  /\ tasks \in SUBSET Tasks /\ due \in SUBSET Tasks
  /\ row \in [Rows -> Status] /\ told \in [Rows -> {"none"} \cup Terminal]
  /\ registry \in [Tasks -> {0} \cup Runs] /\ spawned \in 0..MaxRuns
  /\ run \in [Runs -> RunState]
  /\ poll \in PollState
  /\ client \in [Clients -> Request]

(* A row is left open only by a run that still works on it, or by one that *)
(* was cancelled, broken by the database, or killed with a process that    *)
(* has not been started again (scheduler.py:73, runner.py:50).             *)
NoOrphanRow ==
  \A r \in Runs, k \in Attempts : row[<<r, k>>] = "pending" =>
    \/ IsLive(r) /\ run[r].attempt = k
    \/ run[r].exit \in {"cancelled", "error"}
    \/ run[r].exit = "killed" /\ up = "down"

(* A run that returns by itself leaves every row it created terminal, and  *)
(* the event it published for the row names the status that was committed  *)
(* (runner.py:74: emit only after the status can be observed); a row its   *)
(* user deleted meanwhile is excepted.                                     *)
Settled(e) == \/ row[e] \in Terminal /\ told[e] = row[e]
              \/ row[e] = "deleted"
ReturnedRunsSettled ==
  \A r \in Runs, k \in Attempts :
    run[r].exit = "returned" /\ row[<<r, k>>] # "absent" => Settled(<<r, k>>)

(* A manual trigger whose run has got past the creation of its row is      *)
(* still without the id only if another run took over the registration     *)
(* (scheduler.py:163 looks the registration up by task, not by run).       *)
UnansweredOnlyIfDisplaced ==
  \A c \in Clients :
    LET r == client[c].run
    IN  client[c].pc = "awaiting" /\ run[r].executionId = 0 /\ run[r].pc \in InTry
          => registry[client[c].task] # r

(* Same-task mutual exclusion (README, "Scheduler"): no two runs of one    *)
(* task are alive at once.                                                 *)
OneRunPerTask ==
  \A q, r \in Runs : IsLive(q) /\ IsLive(r) /\ run[q].task = run[r].task => q = r

(* The polling loop never registers more runs than max_concurrent_tasks,   *)
(* although it counts the free slots before it awaits the database.        *)
SlotsRespected == Cardinality(Registered) <= MaxConcurrentTasks

(* A deleted task has no rows left and no attempt in progress, however     *)
(* trigger, poll and retries interleave with the deletion (task.py:75).    *)
DeletedTaskIsGone ==
  \A r \in Runs : run[r].task \in Tasks \ tasks =>
    /\ run[r].pc # "running"
    /\ \A k \in Attempts : row[<<r, k>>] \in {"absent", "deleted"}

(* Once the id of a run's row has been handed out, cancelling the run      *)
(* leaves that row terminal (scheduler.py:169): it never stays pending.    *)
(* A second cancel, which only stop() sends, is not covered.               *)
AnsweredCancelSettles ==
  \A r \in Runs : run[r].executionId = r /\ run[r].exit = "cancelled"
                    => row[First(r)] \in Terminal \cup {"deleted"}

(* Every run comes to its end and gives up its registration: retries are   *)
(* bounded, the semaphore is fair, nobody waits for anybody in a circle.   *)
EveryRunEnds == \A r \in Runs : run[r].pc = "waiting" ~> run[r].pc = "gone"

(* Every attempt that starts executing gets a terminal status              *)
(* (attempt.py:74: always persist exactly one terminal state).             *)
EveryAttemptSettles ==
  \A r \in Runs, k \in Attempts :
    run[r].pc = "running" /\ run[r].attempt = k ~> row[<<r, k>>] # "pending"

(* The execution history keeps the promises of ExecutionLifecycle.         *)
Lifecycle == INSTANCE ExecutionLifecycle
ImplementsLifecycle == Lifecycle!Spec
=============================================================================
