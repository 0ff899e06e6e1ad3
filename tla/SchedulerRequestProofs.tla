------------------------ MODULE SchedulerRequestProofs ------------------------
(* Theorems about Scheduler: what a request that triggers or cancels a run   *)
(* may rely on.                                                              *)
EXTENDS SchedulerProofs

(* A run is recorded under its own number only once it has created its row.  *)
Handed(r) == run[r].executionId = r => ~At(r, {"unborn", "waiting"} \cup InCreate)

(* A run that works on its rows and is still the registered one of its task  *)
(* was recorded: it published its id to the registration.                    *)
Recorded(r) == At(r, InTry) /\ registry[run[r].task] = r => run[r].executionId # 0

(* A request awaits a run of the task it named.                              *)
Awaiting(c) == client[c].pc = "awaiting" =>
  /\ client[c].run \in 1..spawned
  /\ run[client[c].run].task = client[c].task

RequestInv == /\ \A r \in Runs : Handed(r) /\ Recorded(r)
              /\ \A c \in Clients : Awaiting(c)

(* Until a shutdown begins the handler of a cancelled run is not             *)
(* interrupted, and leaves the first row settled.                            *)
Closing(r) ==
  /\ At(r, InHandler) => run[r].cancel = "delivered"
  /\ At(r, {"abortNotifying"}) => RowOf(r, 0) \in Over
  /\ run[r].executionId = r /\ run[r].exit = "cancelled" => RowOf(r, 0) \in Over

CancelInv == up # "stopping" => \A r \in Runs : Closing(r)

-----------------------------------------------------------------------------
(* What a step does to the record of a run.                                  *)

(* A row that has settled stays settled or is deleted.                       *)
LEMMA RowsStaySettled ==
  ASSUME IInv, [Next]_vars, NEW r \in Runs, RowOf(r, 0) \in Over
  PROVE  RowOf(r, 0)' \in Over
<1>1. [Lifecycle!Next]_<<row, told>>
  BY HistoryStep
<1>2. <<r, 0>> \in Rows /\ Lifecycle!Rows = Rows /\ Lifecycle!Terminal = Terminal
  BY ZeroAttempt, RowsType DEF Lifecycle!Rows, Rows, Lifecycle!Terminal, Terminal
<1>3. row \in [Rows -> Status]
  BY DEF IInv, TypeOK
<1>4. ASSUME NEW e \in Rows, Lifecycle!Insert(e)
      PROVE  RowOf(r, 0)' \in Over
  BY <1>2, <1>3, <1>4 DEF Lifecycle!Insert, RowOf, Over, Terminal
<1>5. ASSUME NEW E \in SUBSET Rows, NEW s \in Terminal, Lifecycle!Settle(E, s)
      PROVE  RowOf(r, 0)' \in Over
  BY <1>2, <1>5 DEF Lifecycle!Settle, RowOf, Over
<1>6. ASSUME NEW E \in SUBSET Rows, Lifecycle!Remove(E)
      PROVE  RowOf(r, 0)' \in Over
  BY <1>2, <1>6 DEF Lifecycle!Remove, RowOf, Over
<1>7. CASE UNCHANGED row
  BY <1>7 DEF RowOf
<1>8. QED BY <1>1, <1>2, <1>4, <1>5, <1>6, <1>7 DEF Lifecycle!Next, Lifecycle!Publish

(* Steps of other runs, and steps that change no run but by a cancel, leave  *)
(* it where it is.                                                           *)
Stays(r) ==
  /\ run'[r].pc = run[r].pc /\ run'[r].task = run[r].task /\ run'[r].exit = run[r].exit
  /\ run'[r].cancel = run[r].cancel \/ run[r].cancel = "no"
  /\ run'[r].executionId = run[r].executionId \/ run'[r].executionId \in Runs \ {r}

(* A run at work is registered by its spawning only.                         *)
Loses == \A t \in Tasks : registry'[t] \in {0, registry[t]}

LEMMA StaysInv ==
  ASSUME IInv, NEW r \in Runs, Stays(r), Handed(r), Recorded(r),
         At(r, InTry) => registry'[run[r].task] \in {0, registry[run[r].task]} \/ registry'[run[r].task] # r
  PROVE  Handed(r)' /\ Recorded(r)'
<1>1. r # 0 /\ 0 \notin Runs
  BY DEF Runs
<1>2. Handed(r)'
  BY DEF Handed, Stays, At
<1>3. Recorded(r)'
  BY <1>1 DEF Recorded, Stays, At
<1>4. QED BY <1>2, <1>3

LEMMA StaysClosing ==
  ASSUME IInv, [Next]_vars, NEW r \in Runs, Stays(r), Closing(r)
  PROVE  Closing(r)'
<1>1. RowOf(r, 0) \in Over => RowOf(r, 0)' \in Over
  BY RowsStaySettled
<1>2. At(r, InHandler)' => run'[r].cancel = "delivered"
  BY DEF Closing, Stays, At
<1>3. run'[r].executionId = r => run[r].executionId = r
  BY DEF Stays
<1>4. QED BY <1>1, <1>2, <1>3 DEF Closing, Stays, At

(* Another run's step.                                                       *)
LEMMA OthersStay ==
  ASSUME TypeOK, NEW r \in Runs, RunStep(r) \/ DatabaseError(r), NEW q \in Runs, q # r
  PROVE  Stays(q)
<1>0. run \in [Runs -> RunState] /\ run[q] \in RunState
  BY DEF TypeOK
<1>1. /\ \A p : Goto(r, p) => run'[q] = run[q]
      /\ \A how : Leave(r, how) => run'[q] = run[q]
  BY <1>0 DEF Goto, Leave
<1>2. CASE PublishId(r)
  <2>1. PICK i \in {r, run[q].executionId} :
          run'[q] = [run[q] EXCEPT !.executionId = i, !.pc = run[q].pc]
    BY <1>0, <1>2 DEF PublishId
  <2>2. /\ run'[q].pc = run[q].pc /\ run'[q].task = run[q].task /\ run'[q].exit = run[q].exit
        /\ run'[q].cancel = run[q].cancel /\ run'[q].executionId = i
    BY <1>0, <2>1 DEF RunState
  <2>3. QED BY <2>1, <2>2 DEF Stays
<1>3. CASE ~PublishId(r)
  <2>1. run'[q] = run[q]
    <3>1. CASE CommitAttempt(r)
      BY <1>0, <3>1 DEF CommitAttempt
    <3>2. CASE Emit(r) \/ RetryPause(r) \/ Acquire(r) \/ Finished(r)
      BY <1>1, <3>2 DEF Emit, EmitFor, RetryPause, Acquire, Finished
    <3>3. CASE RefuseDone(r) \/ AbortDone(r) \/ DatabaseError(r)
      BY <1>1, <3>3 DEF RefuseDone, AbortDone, DatabaseError
    <3>4. CASE CreateExecution(r) \/ LoadPair(r)
      BY <1>0, <1>1, <3>4 DEF CreateExecution, LoadPair
    <3>5. CASE Decide(r) \/ CreateRetry(r)
      BY <1>0, <1>1, <3>5 DEF Decide, CreateRetry
    <3>6. CASE Interrupted(r) \/ CancelExecution(r)
      BY <1>0, <1>1, <3>6 DEF Interrupted, CancelExecution
    <3>7. QED BY <1>3, <3>1, <3>2, <3>3, <3>4, <3>5, <3>6 DEF RunStep
  <2>2. QED BY <2>1 DEF Stays
<1>4. QED BY <1>2, <1>3

(* A cancel.                                                                 *)
LEMMA CancelledStays ==
  ASSUME TypeOK, NEW r \in Runs, run' = run \/ \E x : CancelRun(x)
  PROVE  Stays(r)
<1>1. run \in [Runs -> RunState] /\ run[r] \in RunState
  BY DEF TypeOK
<1>2. CASE run' = run
  BY <1>2 DEF Stays
<1>3. ASSUME NEW x, CancelRun(x)
      PROVE  Stays(r)
  BY <1>1, <1>3 DEF CancelRun, RunState, Stays
<1>4. QED BY <1>2, <1>3

(* The run's own step, but for the publication of its id.                    *)
Early == {"unborn", "waiting"} \cup InCreate

Goes(r, p, mark) ==
  /\ run'[r].pc = p /\ run'[r].cancel = mark
  /\ run'[r].task = run[r].task /\ run'[r].executionId = run[r].executionId

Steps(r) ==
  \E p \in PC, mark \in Cancels :
    /\ Goes(r, p, mark)
    /\ p \in InTry => run[r].pc \in InTry
    /\ p \in Early => run[r].pc \in Early
    /\ p \in InHandler => mark = "delivered" \/ (run[r].pc \in InHandler /\ mark = run[r].cancel)
    /\ p = "abortNotifying" => run[r].pc = "aborted"

LEMMA OwnSteps ==
  ASSUME TypeOK, NEW r \in Runs, RunStep(r) \/ DatabaseError(r), ~PublishId(r)
  PROVE  Steps(r)
<1>0. run \in [Runs -> RunState] /\ run[r] \in RunState /\ run[r].cancel \in Cancels
  BY DEF TypeOK, RunState
<1>1. ASSUME NEW p \in PC, Goto(r, p)
      PROVE  Goes(r, p, run[r].cancel)
  BY <1>0, <1>1 DEF Goto, Goes, RunState
<1>2. ASSUME NEW how, Leave(r, how)
      PROVE  Steps(r)
  <2>1. run'[r] = EndedAs(r, "done", how)
    BY <1>0, <1>2 DEF Leave
  <2>2. Goes(r, "done", "no")
    BY <1>0, <2>1 DEF EndedAs, RunState, Goes
  <2>3. QED BY <2>2 DEF Steps, PC, Ended, Cancels, InTry, Early, InCreate, InHandler
<1>3. ASSUME NEW x \in RunState, NEW p \in PC, run' = [run EXCEPT ![r] = x],
             x.pc = p, x.task = run[r].task, x.executionId = run[r].executionId
      PROVE  Goes(r, p, x.cancel)
  BY <1>0, <1>3 DEF Goes
<1> USE DEF PC, Live, Ended, InCreate, InTry, InHandler, Early
<1>4. CASE Acquire(r) \/ RetryPause(r) \/ Finished(r)
  BY <1>0, <1>1, <1>4 DEF Acquire, RetryPause, Finished, Proceeds, Steps
<1>5. CASE CreateExecution(r)
  BY <1>0, <1>1, <1>2, <1>5 DEF CreateExecution, Proceeds, Steps
<1>6. CASE LoadPair(r)
  <2>1. CASE run' = [run EXCEPT ![r].verdict = "failed", ![r].pc = "refused"]
    <3>1. Goes(r, "refused", run[r].cancel)
      BY <1>0, <2>1 DEF Goes, RunState
    <3>2. QED BY <1>0, <1>6, <3>1 DEF LoadPair, Proceeds, Steps
  <2>2. QED BY <1>0, <1>1, <1>2, <1>6, <2>1 DEF LoadPair, Proceeds, Steps
<1>7. CASE CommitAttempt(r)
  <2>1. Goes(r, "committed", run[r].cancel)
    BY <1>0, <1>7 DEF CommitAttempt, Goes, RunState
  <2>2. QED BY <1>0, <1>7, <2>1 DEF CommitAttempt, Proceeds, Steps
<1>8. CASE Emit(r)
  BY <1>0, <1>1, <1>8 DEF Emit, EmitFor, Proceeds, Steps
<1>9. CASE Decide(r)
  <2>1. CASE run' = [run EXCEPT ![r].verdict = "none", ![r].pc = "retrying"]
    <3>1. Goes(r, "retrying", run[r].cancel)
      BY <1>0, <2>1 DEF Goes, RunState
    <3>2. QED BY <1>0, <1>9, <3>1 DEF Decide, Proceeds, Steps
  <2>2. QED BY <1>2, <1>9, <2>1 DEF Decide
<1>10. CASE RefuseDone(r) \/ AbortDone(r) \/ DatabaseError(r)
  BY <1>2, <1>10 DEF RefuseDone, AbortDone, DatabaseError
<1>11. CASE CreateRetry(r)
  <2>1. CASE run' = [run EXCEPT ![r].attempt = @ + 1, ![r].pc = "sleeping"]
    <3>1. Goes(r, "sleeping", run[r].cancel)
      BY <1>0, <2>1 DEF Goes, RunState
    <3>2. QED BY <1>0, <1>11, <3>1 DEF CreateRetry, Proceeds, Steps
  <2>2. QED BY <1>2, <1>11, <2>1 DEF CreateRetry
<1>12. CASE Interrupted(r)
  <2>1. CASE run' = [run EXCEPT ![r].cancel = "delivered", ![r].verdict = "none", ![r].pc = "aborting"]
    <3>1. Goes(r, "aborting", "delivered")
      BY <1>0, <2>1 DEF Goes, RunState
    <3>2. "aborting" \in PC /\ "delivered" \in Cancels /\ "aborting" \notin InTry \cup Early
      BY DEF Cancels
    <3>3. QED BY <3>1, <3>2 DEF Steps
  <2>2. QED BY <1>2, <1>12, <2>1 DEF Interrupted
<1>13. CASE CancelExecution(r)
  <2>1. CASE run' = [run EXCEPT ![r].verdict = "cancelled", ![r].pc = "aborted"]
    <3>1. Goes(r, "aborted", run[r].cancel)
      BY <1>0, <2>1 DEF Goes, RunState
    <3>2. QED BY <1>0, <1>13, <3>1 DEF CancelExecution, Proceeds, Steps
  <2>2. QED BY <1>2, <1>13, <2>1 DEF CancelExecution
<1>14. QED BY <1>4, <1>5, <1>6, <1>7, <1>8, <1>9, <1>10, <1>11, <1>12, <1>13 DEF RunStep

LEMMA OwnPublishes ==
  ASSUME TypeOK, NEW r \in Runs, PublishId(r)
  PROVE  /\ run'[r].pc = "loading" /\ run'[r].task = run[r].task /\ run'[r].exit = run[r].exit
         /\ run'[r].executionId = IF r = registry[run[r].task] THEN r ELSE run[r].executionId
         /\ run[r].pc = "created"
<1>0. run \in [Runs -> RunState] /\ run[r] \in RunState
  BY DEF TypeOK
<1> DEFINE i == IF r = registry[run[r].task] THEN r ELSE run[r].executionId
<1>1. run'[r] = [run[r] EXCEPT !.executionId = i, !.pc = "loading"]
  BY DEF PublishId
<1>2. QED BY <1>0, <1>1 DEF RunState, PublishId, Proceeds

LEMMA OwnRequests ==
  ASSUME IInv, NEW r \in Runs, RunStep(r) \/ DatabaseError(r), Handed(r), Recorded(r)
  PROVE  Handed(r)' /\ Recorded(r)'
<1>0. TypeOK /\ r # 0 /\ run[r] \in RunState
  BY DEF IInv, TypeOK, Runs
<1>1. registry' = registry \/ (Finished(r) /\ ~At(r, InTry)')
  <2>1. registry' = registry \/ Finished(r)
    BY DEF RunStep, DatabaseError, Acquire, CreateExecution, PublishId, LoadPair, CommitAttempt,
           Emit, EmitFor, Decide, RefuseDone, CreateRetry, RetryPause, Interrupted,
           CancelExecution, AbortDone
  <2>2. Finished(r) => run'[r].pc = "gone"
    BY <1>0 DEF Finished, Goto, TypeOK, RunState
  <2>3. QED BY <2>1, <2>2 DEF At, InTry
<1>2. CASE PublishId(r)
  <2>1. /\ run'[r].pc = "loading" /\ run'[r].task = run[r].task
        /\ run'[r].executionId = IF r = registry[run[r].task] THEN r ELSE run[r].executionId
    BY <1>0, <1>2, OwnPublishes
  <2>2. registry' = registry
    BY <1>2 DEF PublishId
  <2>3. QED BY <1>0, <2>1, <2>2 DEF Handed, Recorded, At, InCreate
<1>3. CASE ~PublishId(r)
  <2>1. PICK p \in PC, mark \in Cancels :
          /\ Goes(r, p, mark)
          /\ p \in InTry => run[r].pc \in InTry
          /\ p \in Early => run[r].pc \in Early
    BY <1>0, <1>3, OwnSteps DEF Steps
  <2>2. Handed(r)'
    BY <2>1 DEF Goes, Handed, At, Early, InCreate
  <2>3. Recorded(r)'
    BY <1>1, <2>1 DEF Goes, Recorded, At, InTry
  <2>4. QED BY <2>2, <2>3
<1>4. QED BY <1>2, <1>3

(* A run whose exit is a cancel was cancelled before.                        *)
Cancelled(r) ==
  \/ run[r].exit = "cancelled"
  \/ run[r].pc \in Early
  \/ run[r].pc \in InHandler /\ run[r].cancel = "requested"
  \/ run[r].pc = "aborting" /\ RowOf(r, 0) \in Over
  \/ run[r].pc = "abortNotifying"

LEMMA OwnEnds ==
  ASSUME TypeOK, NEW r \in Runs, RunStep(r) \/ DatabaseError(r), run'[r].exit = "cancelled"
  PROVE  Cancelled(r)
<1>0. run \in [Runs -> RunState] /\ run[r] \in RunState
  BY DEF TypeOK
<1>1. ASSUME NEW p, Goto(r, p)
      PROVE  Cancelled(r)
  BY <1>0, <1>1 DEF Goto, RunState, Cancelled
<1>2. ASSUME NEW how, how # "cancelled", Leave(r, how)
      PROVE  FALSE
  BY <1>0, <1>2, MovesFields DEF Quits, Becomes
<1>3. CASE \/ Acquire(r) \/ RetryPause(r) \/ Finished(r) \/ Emit(r) \/ CreateExecution(r)
           \/ RefuseDone(r) \/ DatabaseError(r)
  BY <1>1, <1>2, <1>3 DEF Acquire, RetryPause, Finished, Emit, EmitFor, CreateExecution,
     RefuseDone, DatabaseError
<1>4. CASE PublishId(r)
  BY <1>4, OwnPublishes DEF Cancelled
<1>5. CASE LoadPair(r) \/ CommitAttempt(r)
  BY <1>0, <1>1, <1>2, <1>5 DEF LoadPair, CommitAttempt, RunState, Cancelled
<1>6. CASE Decide(r) \/ CreateRetry(r)
  BY <1>0, <1>2, <1>6 DEF Decide, CreateRetry, RunState, Cancelled
<1>7. CASE Interrupted(r)
  <2>1. CASE run[r].pc \in InTry
    BY <1>0, <1>7, <2>1 DEF Interrupted, RunState, Cancelled
  <2>2. CASE run[r].pc \notin InTry
    BY <1>7, <2>2 DEF Interrupted, IsLive, Live, Early, Cancelled
  <2>3. QED BY <2>1, <2>2
<1>8. CASE CancelExecution(r)
  <2>1. CASE AlreadySettled(First(r))
    BY <1>8, <2>1 DEF CancelExecution, Proceeds, AlreadySettled, First, RowOf, Over, Cancelled
  <2>2. CASE ~AlreadySettled(First(r))
    BY <1>0, <1>8, <2>2 DEF CancelExecution, RunState, Cancelled
  <2>3. QED BY <2>1, <2>2
<1>9. CASE AbortDone(r)
  BY <1>9 DEF AbortDone, Proceeds, Cancelled
<1>10. QED BY <1>3, <1>4, <1>5, <1>6, <1>7, <1>8, <1>9 DEF RunStep

LEMMA OwnCloses ==
  ASSUME IInv, [Next]_vars, NEW r \in Runs, RunStep(r) \/ DatabaseError(r), Handed(r), Closing(r)
  PROVE  Closing(r)'
<1>0. /\ TypeOK /\ run \in [Runs -> RunState] /\ run[r] \in RunState /\ RunInv(r)
      /\ 0 \in Attempts
  BY ZeroAttempt DEF IInv, TypeOK
<1>1. RowOf(r, 0) \in Over => RowOf(r, 0)' \in Over
  BY RowsStaySettled
<1>2. At(r, InHandler)' => run'[r].cancel = "delivered"
  <2>1. CASE PublishId(r)
    <3>1. run'[r].pc = "loading"
      BY <1>0, <2>1, OwnPublishes
    <3>2. QED BY <3>1 DEF At, InHandler
  <2>2. CASE ~PublishId(r)
    <3>1. Steps(r)
      BY <1>0, <2>2, OwnSteps
    <3>2. QED BY <3>1 DEF Steps, Goes, Closing, At
  <2>3. QED BY <2>1, <2>2
<1>3. At(r, {"abortNotifying"})' => RowOf(r, 0) \in Over
  <2>1. CASE PublishId(r)
    BY <1>0, <2>1, OwnPublishes DEF At
  <2>2. CASE ~PublishId(r)
    <3>1. Steps(r)
      BY <1>0, <2>2, OwnSteps
    <3>2. run'[r].pc = "abortNotifying" => run[r].pc = "aborted"
      BY <3>1 DEF Steps, Goes
    <3>3. run[r].pc = "aborted" => RowOf(r, 0) \in {"cancelled", "deleted"}
      BY <1>0 DEF RunInv, Present, At
    <3>4. QED BY <3>2, <3>3 DEF At, Over, Terminal
  <2>3. QED BY <2>1, <2>2
<1>4. ASSUME run'[r].executionId = r, run'[r].exit = "cancelled"
      PROVE  RowOf(r, 0) \in Over
  <2>1. Cancelled(r)
    BY <1>0, <1>4, OwnEnds
  <2>2. ~PublishId(r)
    <3>1. PublishId(r) => run[r].exit = "cancelled" /\ run[r].pc = "created"
      BY <1>0, <1>4, OwnPublishes
    <3>2. QED BY <1>0, <3>1 DEF RunInv, Birth, At, Live, InCreate
  <2>3. run[r].executionId = r
    BY <1>0, <1>4, <2>2, OwnSteps DEF Steps, Goes
  <2>4. run[r].pc \notin Early
    BY <2>3 DEF Handed, At, Early
  <2>5. QED BY <2>1, <2>3, <2>4 DEF Cancelled, Closing, At
<1>5. QED BY <1>1, <1>2, <1>3, <1>4 DEF Closing

-----------------------------------------------------------------------------
(* New runs.                                                                 *)
LEMMA SpawnRequests ==
  ASSUME TypeOK, NEW q \in Seq(Tasks), spawned + Len(q) <= MaxRuns, Spawn(q), NEW r \in Runs
  PROVE  \/ /\ r > spawned /\ r <= spawned'
            /\ run'[r].executionId = 0 /\ run'[r].exit = "none" /\ run'[r].pc = "waiting"
            /\ run'[r].task = q[r - spawned]
         \/ /\ run'[r] = run[r] /\ (r > spawned' <=> r > spawned)
            /\ \A t \in Tasks : registry'[t] = r => registry[t] = r
<1>0. /\ Len(q) \in Nat /\ DOMAIN q = 1..Len(q) /\ spawned \in Nat /\ r \in Nat
  BY ConstantsOK DEF TypeOK, Runs
<1>1. CASE r - spawned \in DOMAIN q
  <2>1. run'[r] = [Unborn EXCEPT !.task = q[r - spawned], !.pc = "waiting"]
    BY <1>1 DEF Spawn
  <2>2. /\ run'[r].executionId = 0 /\ run'[r].exit = "none" /\ run'[r].pc = "waiting"
        /\ run'[r].task = q[r - spawned]
    BY <2>1 DEF Unborn
  <2>3. spawned' = spawned + Len(q)
    BY DEF Spawn
  <2>4. r > spawned /\ r <= spawned'
    BY <1>0, <1>1, <2>3
  <2>5. QED BY <2>2, <2>4
<1>2. CASE r - spawned \notin DOMAIN q
  <2>1. ASSUME NEW t \in Tasks, registry'[t] = r
        PROVE  registry[t] = r
    <3>1. CASE \E i \in DOMAIN q : q[i] = t
      <4> DEFINE i == CHOOSE i \in DOMAIN q : q[i] = t
      <4>1. i \in DOMAIN q /\ registry'[t] = spawned + i
        BY <3>1 DEF Spawn
      <4> HIDE DEF i
      <4>2. QED BY <1>0, <1>2, <2>1, <4>1
    <3>2. CASE ~\E i \in DOMAIN q : q[i] = t
      BY <2>1, <3>2 DEF Spawn
    <3>3. QED BY <3>1, <3>2
  <2>2. run'[r] = run[r] /\ spawned' = spawned + Len(q)
    BY <1>2 DEF Spawn
  <2>3. QED BY <1>0, <1>2, <2>1, <2>2
<1>3. QED BY <1>1, <1>2

LEMMA SpawnKeeps ==
  ASSUME IInv, NEW q \in Seq(Tasks), spawned + Len(q) <= MaxRuns, Spawn(q), RequestInv,
         UNCHANGED row
  PROVE  /\ \A r \in Runs : Handed(r)' /\ Recorded(r)' /\ (Closing(r) => Closing(r)')
         /\ \A r \in 1..spawned : run'[r].task = run[r].task
         /\ spawned' = spawned + Len(q) /\ spawned \in Nat
<1>0. TypeOK /\ spawned \in 0..MaxRuns
  BY DEF IInv, TypeOK
<1>1. ASSUME NEW r \in Runs
      PROVE  Handed(r)' /\ Recorded(r)' /\ (Closing(r) => Closing(r)')
  <2>0. r # 0 /\ RunInv(r)
    BY DEF Runs, IInv
  <2>1. CASE run'[r].executionId = 0 /\ run'[r].exit = "none" /\ run'[r].pc = "waiting"
    BY <2>0, <2>1 DEF Handed, Recorded, Closing, At, InTry, InHandler
  <2>2. CASE run'[r] = run[r] /\ \A t \in Tasks : registry'[t] = r => registry[t] = r
    <3>1. At(r, InTry) => run[r].task \in Tasks
      BY <2>0 DEF RunInv, Birth, At, InTry
    <3>2. QED BY <2>2, <3>1 DEF RequestInv, Handed, Recorded, Closing, At, RowOf, InTry, InHandler,
                              InCreate, Over, Terminal
  <2>3. QED BY <1>0, <2>1, <2>2, SpawnRequests
<1>2. ASSUME NEW r \in 1..spawned
      PROVE  run'[r].task = run[r].task
  <2>1. r \in Runs /\ ~(r > spawned)
    BY <1>0, ConstantsOK DEF Runs
  <2>2. QED BY <1>0, <2>1, SpawnRequests
<1>3. spawned' = spawned + Len(q)
  BY DEF Spawn
<1>4. QED BY <1>0, <1>1, <1>2, <1>3

(* The requests.                                                             *)
LEMMA RequestsKeep ==
  ASSUME \A c \in Clients : Awaiting(c) /\ (client'[c] = client[c] \/ client'[c].pc # "awaiting"),
         spawned \in Nat, spawned' \in Nat, spawned <= spawned',
         \A r \in 1..spawned : run'[r].task = run[r].task
  PROVE  \A c \in Clients : Awaiting(c)'
BY DEF Awaiting

LEMMA RequestStep ==
  ASSUME IInv, IInv', RequestInv, [Next]_vars
  PROVE  RequestInv' /\ (CancelInv => CancelInv')
<1>0. /\ TypeOK /\ run \in [Runs -> RunState] /\ client \in [Clients -> Request]
      /\ spawned \in Nat /\ spawned <= MaxRuns /\ MaxRuns \in Nat
      /\ 1..spawned \subseteq Runs /\ 0 \notin Runs
      /\ \A r \in Runs : Handed(r) /\ Recorded(r) /\ RunInv(r)
      /\ \A c \in Clients : Awaiting(c)
  BY ConstantsOK DEF IInv, TypeOK, RequestInv, Runs
<1>s. ASSUME \A r \in Runs : Stays(r), registry' = registry, up' = "stopping" <=> up = "stopping"
      PROVE  /\ \A r \in Runs : Handed(r)' /\ Recorded(r)'
             /\ CancelInv => CancelInv'
  BY <1>0, <1>s, StaysInv, StaysClosing DEF CancelInv
<1>c. ASSUME \A r \in Runs : Stays(r), spawned' = spawned,
             \A c \in Clients : client'[c] = client[c] \/ client'[c].pc # "awaiting"
      PROVE  \A c \in Clients : Awaiting(c)'
  BY <1>0, <1>c, RequestsKeep DEF Stays
<1>m. ASSUME run' = run \/ \E x : CancelRun(x), registry' = registry, spawned' = spawned,
             up' = "stopping" <=> up = "stopping",
             \A c \in Clients : client'[c] = client[c] \/ client'[c].pc # "awaiting"
      PROVE  RequestInv' /\ (CancelInv => CancelInv')
  BY <1>0, <1>s, <1>c, <1>m, CancelledStays DEF RequestInv
<1>1. CASE Start \/ (\E t \in Tasks : Tick(t) \/ CancelTask(t)) \/ (\E e \in Rows : DeleteExecution(e))
           \/ PollSnapshot \/ PollClaim \/ PollError \/ UNCHANGED vars
  <2>1. /\ UNCHANGED <<registry, spawned, client>> /\ (run' = run \/ \E x : CancelRun(x))
        /\ up' = "stopping" <=> up = "stopping"
    BY <1>1 DEF Start, Tick, CancelTask, DeleteExecution, PollSnapshot, PollClaim, PollError, vars
  <2>2. QED BY <1>m, <2>1
<1>2. CASE Vanish
  <2>1. ASSUME NEW r \in Runs
        PROVE  Handed(r)' /\ Recorded(r)' /\ Closing(r)'
    <3>0. run[r] \in RunState
      BY <1>0
    <3>1. run'[r].executionId = 0 /\ run'[r].pc \in {"unborn", "gone"}
      <4>1. CASE run[r].pc = "unborn"
        BY <1>2, <4>1 DEF Vanish, Unborn
      <4>2. CASE run[r].pc # "unborn"
        <5> DEFINE how == IF IsLive(r) THEN "killed" ELSE run[r].exit
        <5>1. run'[r] = [EndedAs(r, "gone", how) EXCEPT !.executionId = 0]
          BY <1>2, <4>2 DEF Vanish
        <5>2. QED BY <3>0, <5>1 DEF EndedAs, RunState
      <4>3. QED BY <4>1, <4>2
    <3>2. QED BY <1>0, <3>1 DEF Handed, Recorded, Closing, At, InTry, InHandler
  <2>2. \A c \in Clients : Awaiting(c)'
    BY <1>2 DEF Vanish, ClientIdle, Awaiting
  <2>3. QED BY <2>1, <2>2 DEF RequestInv, CancelInv
<1>3. CASE Stop
  <2>1. /\ up' = "stopping" /\ UNCHANGED <<registry, spawned, client>>
        /\ \A c \in Clients : client[c].pc = "idle"
    BY <1>3 DEF Stop
  <2>2. \A r \in Runs : /\ run'[r].pc = run[r].pc /\ run'[r].task = run[r].task
                        /\ run'[r].executionId = run[r].executionId
    BY <1>0, <1>3 DEF Stop, RunState
  <2>3. \A r \in Runs : Handed(r)' /\ Recorded(r)'
    BY <1>0, <2>1, <2>2 DEF Handed, Recorded, At, InTry, InCreate
  <2>4. \A c \in Clients : Awaiting(c)'
    BY <2>1 DEF Awaiting
  <2>5. QED BY <2>1, <2>3, <2>4 DEF RequestInv, CancelInv
<1>4. CASE PollSpawn
  <2>1. /\ Spawn(poll.claimed) /\ poll.claimed \in Seq(Tasks) /\ Len(poll.claimed) \in Nat
        /\ spawned + Len(poll.claimed) <= MaxRuns /\ UNCHANGED <<up, row, client>>
    BY <1>0, <1>4 DEF PollSpawn, TypeOK, PollState, IInv, Room, database
  <2>2. /\ \A r \in Runs : Handed(r)' /\ Recorded(r)' /\ (Closing(r) => Closing(r)')
        /\ \A r \in 1..spawned : run'[r].task = run[r].task
        /\ spawned' = spawned + Len(poll.claimed)
    BY <2>1, SpawnKeeps
  <2>3. \A c \in Clients : Awaiting(c)'
    BY <1>0, <2>1, <2>2, RequestsKeep
  <2>4. QED BY <2>1, <2>2, <2>3 DEF RequestInv, CancelInv
<1>5. ASSUME NEW r \in Runs, RunStep(r) \/ DatabaseError(r)
      PROVE  RequestInv' /\ (CancelInv => CancelInv')
  <2>1. UNCHANGED <<up, spawned, client>>
    BY <1>5 DEF RunStep, DatabaseError, Elsewhere, Acquire, CreateExecution, PublishId, LoadPair,
       CommitAttempt, Emit, EmitFor, Decide, RefuseDone, CreateRetry, RetryPause, Interrupted,
       CancelExecution, AbortDone, Finished
  <2>2. \A q \in Runs : q # r => Stays(q)
    BY <1>0, <1>5, OthersStay
  <2>3. \A t \in Tasks : registry'[t] \in {0, registry[t]}
    BY <1>0, <1>5 DEF RunStep, DatabaseError, Acquire, CreateExecution, PublishId, LoadPair,
       CommitAttempt, Emit, EmitFor, Decide, RefuseDone, CreateRetry, RetryPause, Interrupted,
       CancelExecution, AbortDone, Finished, TypeOK
  <2>4. \A q \in Runs : At(q, InTry) => run[q].task \in Tasks
    BY <1>0 DEF RunInv, Birth, At, InTry
  <2>5. \A q \in Runs : Handed(q)' /\ Recorded(q)'
    BY <1>0, <1>5, <2>2, <2>3, <2>4, OwnRequests, StaysInv
  <2>6. CancelInv => CancelInv'
    BY <1>0, <1>5, <2>1, <2>2, OwnCloses, StaysClosing DEF CancelInv
  <2>7. run'[r].task = run[r].task
    BY <1>0, <1>5, OwnSteps, OwnPublishes DEF Steps, Goes
  <2>8. \A c \in Clients : Awaiting(c)'
    BY <1>0, <2>1, <2>2, <2>7, RequestsKeep DEF Stays
  <2>9. QED BY <2>5, <2>6, <2>8 DEF RequestInv
<1>6. ASSUME NEW c \in Clients, ClientStep(c)
      PROVE  RequestInv' /\ (CancelInv => CancelInv')
  <2> DEFINE t == client[c].task
             conflict == t \in Registered \/ Cardinality(Registered) >= MaxConcurrentTasks
  <2>1. CASE ExecuteTaskNow(c) /\ ~conflict
    <3>1. /\ Spawn(<<t>>) /\ CanSpawn(1 + Len(poll.claimed)) /\ UNCHANGED <<up, row>>
          /\ client' = [client EXCEPT ![c].pc = "awaiting", ![c].run = spawned + 1]
      BY <2>1 DEF ExecuteTaskNow, database
    <3>2. t \in Tasks
      BY <2>1 DEF ExecuteTaskNow, IInv, Asking
    <3>3. <<t>> \in Seq(Tasks) /\ Len(<<t>>) = 1 /\ <<t>>[1] = t
      BY <3>2
    <3>4. spawned + Len(<<t>>) <= MaxRuns
      <4>1. Len(poll.claimed) \in Nat
        BY <1>0 DEF TypeOK, PollState
      <4>2. QED BY <1>0, <3>1, <3>3, <4>1 DEF CanSpawn
    <3>5. /\ \A r \in Runs : Handed(r)' /\ Recorded(r)' /\ (Closing(r) => Closing(r)')
          /\ \A r \in 1..spawned : run'[r].task = run[r].task
          /\ spawned' = spawned + 1
      BY <3>1, <3>3, <3>4, SpawnKeeps
    <3>6. spawned + 1 \in Runs /\ run'[spawned + 1].task = t
      <4>1. spawned + 1 \in Runs /\ spawned + 1 > spawned /\ (spawned + 1) - spawned = 1
        BY <1>0, <3>3, <3>4 DEF Runs
      <4>2. ~(spawned + 1 > spawned' <=> spawned + 1 > spawned)
        BY <1>0, <3>5
      <4>3. run'[spawned + 1].task = <<t>>[(spawned + 1) - spawned]
        BY <1>0, <3>1, <3>3, <3>4, <4>1, <4>2, SpawnRequests
      <4>4. QED BY <3>3, <4>1, <4>3
    <3>7. ASSUME NEW d \in Clients
          PROVE  Awaiting(d)'
      <4>1. CASE d = c
        <5>1. client'[c].run = spawned + 1 /\ client'[c].task = t
          BY <1>0, <3>1 DEF Request
        <5>2. QED BY <1>0, <3>5, <3>6, <4>1, <5>1 DEF Awaiting
      <4>2. CASE d # c
        BY <1>0, <3>1, <3>5, <4>2 DEF Awaiting
      <4>3. QED BY <4>1, <4>2
    <3>8. QED BY <3>1, <3>5, <3>7 DEF RequestInv, CancelInv
  <2>2. CASE ~(ExecuteTaskNow(c) /\ ~conflict)
    <3>1. up' = up /\ registry' = registry /\ spawned' = spawned
      BY <1>6, <2>2 DEF ClientStep, Trigger, DeleteTask, ReadExecution, ExecuteTaskNow, Answered,
         CancelByExecution, DeleteTaskCommit, DeleteTaskFailed
    <3>2. run' = run \/ \E x : CancelRun(x)
      BY <1>6, <2>2 DEF ClientStep, Trigger, DeleteTask, ReadExecution, ExecuteTaskNow, Answered,
         CancelByExecution, DeleteTaskCommit, DeleteTaskFailed
    <3>3. \E x : x.pc # "awaiting" /\ client' = [client EXCEPT ![c] = x]
      BY <1>6, <2>2 DEF ClientStep, Trigger, DeleteTask, ReadExecution, ExecuteTaskNow, Answered,
         CancelByExecution, DeleteTaskCommit, DeleteTaskFailed, ClientIdle
    <3>4. \A d \in Clients : client'[d] = client[d] \/ client'[d].pc # "awaiting"
      BY <1>0, <3>3
    <3>5. QED BY <1>m, <3>1, <3>2, <3>4
  <2>3. QED BY <2>1, <2>2
<1>7. QED BY <1>1, <1>2, <1>3, <1>4, <1>5, <1>6 DEF Next, Stopped, Crash

LEMMA RequestsInitially == Init => RequestInv /\ CancelInv
<1> SUFFICES ASSUME Init
             PROVE  RequestInv /\ CancelInv
  OBVIOUS
<1>1. ASSUME NEW r \in Runs
      PROVE  run[r].pc = "unborn" /\ run[r].executionId = 0 /\ run[r].exit = "none" /\ r # 0
  BY DEF Init, Unborn, Runs
<1>2. \A c \in Clients : Awaiting(c)
  BY DEF Init, ClientIdle, Awaiting
<1>3. QED BY <1>1, <1>2
          DEF RequestInv, CancelInv, Handed, Recorded, Closing, At, InTry, InHandler

-----------------------------------------------------------------------------
(* A manual trigger whose run has got past the creation of its row is still  *)
(* without the id only if another run took over the registration, whatever   *)
(* is triggered, polled, cancelled, deleted, stopped or killed meanwhile.    *)
THEOREM TriggersAnswered == Spec => []UnansweredOnlyIfDisplaced
<1>1. ASSUME IInv, RequestInv, NEW c \in Clients, client[c].pc = "awaiting",
             run[client[c].run].executionId = 0, run[client[c].run].pc \in InTry
      PROVE  registry[client[c].task] # client[c].run
  <2>1. client[c].run \in Runs /\ run[client[c].run].task = client[c].task
    BY <1>1, ConstantsOK DEF RequestInv, Awaiting, IInv, TypeOK, Runs
  <2>2. QED BY <1>1, <2>1 DEF RequestInv, Recorded, At
<1>2. IInv /\ RequestInv => UnansweredOnlyIfDisplaced
  BY <1>1 DEF UnansweredOnlyIfDisplaced
<1>3. Init => RequestInv
  BY RequestsInitially
<1>4. IInv /\ IInv' /\ RequestInv /\ [Next]_vars => RequestInv'
  BY RequestStep
<1>5. QED BY <1>2, <1>3, <1>4, Inductive, PTL DEF Spec

(* A cancel of a run whose id was handed out leaves its first row settled,   *)
(* until a shutdown begins: that cancels a second time, in the handler.      *)
THEOREM CancelsSettle == Spec => [](up # "stopping" => AnsweredCancelSettles)
<1>1. CancelInv => (up # "stopping" => AnsweredCancelSettles)
  BY DEF CancelInv, Closing, AnsweredCancelSettles, RowOf, First, Over
<1>2. Init => RequestInv /\ CancelInv
  BY RequestsInitially
<1>3. IInv /\ IInv' /\ RequestInv /\ CancelInv /\ [Next]_vars => (RequestInv /\ CancelInv)'
  BY RequestStep
<1>4. QED BY <1>1, <1>2, <1>3, Inductive, PTL DEF Spec

(* Where the process is killed but never shut down, that is always.          *)
COROLLARY CancelsAlwaysSettle ==
  ASSUME "stop" \notin Faults
  PROVE  Spec => []AnsweredCancelSettles
<1>1. Init => up # "stopping"
  BY DEF Init
<1>2. up # "stopping" /\ [Next]_vars => (up # "stopping")'
  <2>1. ASSUME NEW c \in Clients, ClientStep(c)
        PROVE  up' = up
    BY <2>1 DEF ClientStep, Trigger, DeleteTask, ReadExecution, ExecuteTaskNow, Answered,
       CancelByExecution, DeleteTaskCommit, DeleteTaskFailed
  <2>2. ASSUME NEW r \in Runs, RunStep(r) \/ DatabaseError(r)
        PROVE  up' = up
    BY <2>2 DEF RunStep, DatabaseError, Elsewhere, Acquire, CreateExecution, PublishId, LoadPair,
       CommitAttempt, Emit, EmitFor, Decide, RefuseDone, CreateRetry, RetryPause, Interrupted,
       CancelExecution, AbortDone, Finished
  <2>3. QED BY <2>1, <2>2 DEF Next, vars, Start, Stop, Stopped, Crash, Vanish, Tick, CancelTask,
               DeleteExecution, PollSnapshot, PollClaim, PollError, PollSpawn
<1>3. QED BY <1>1, <1>2, CancelsSettle, PTL DEF Spec
=============================================================================
